---------------------------- MODULE InputForwarder ---------------------------
(***************************************************************************)
(* crates/quicview-input/src/forwarder.rs: a bounded tokio channel from    *)
(* the tasks that capture input to one reader.  send() waits for room, in  *)
(* the order of the calls, and its future may be dropped while it waits.   *)
(* It borrows the forwarder, so take_receiver() and the forwarder's drop,  *)
(* which need it alone, are impossible while a send waits.                 *)
(***************************************************************************)
EXTENDS Naturals, Sequences, SequencesExt, FiniteSets

CONSTANTS
  Senders,         \* tasks that call send()
  Capacity,        \* of the channel; mpsc::channel panics on zero
  MaxSends         \* bound: calls of send() by each task

ASSUME ForwarderAssumption ==
  /\ IsFiniteSet(Senders)
  /\ Capacity \in Nat \ {0}
  /\ MaxSends \in Nat

VARIABLES
  forwarder,       \* "alive" or "dropped"
  receiver,        \* "kept" by the forwarder, "taken" or "dropped"
  channel,         \* events in the channel
  waiting,         \* the senders that wait for room, in order
  sends,           \* per sender: calls of send() so far
  accepted,        \* history: events whose send() returned Ok, in order
  received         \* history: events that the reader got, in order

forwarderVars == <<forwarder, receiver, channel, waiting, sends, accepted, received>>

Event(s, n) == [from |-> s, n |-> n]
Events == [from : Senders, n : 1..MaxSends]
Waits(s) == \E i \in DOMAIN waiting : waiting[i] = s

ForwarderTypeOK ==
  /\ forwarder \in {"alive", "dropped"}
  /\ receiver \in {"kept", "taken", "dropped"}
  /\ channel \in Seq(Events) /\ Len(channel) <= Capacity
  /\ waiting \in Seq(Senders)
  /\ \A i, j \in DOMAIN waiting : waiting[i] = waiting[j] => i = j
  /\ sends \in [Senders -> 0..MaxSends]
  /\ accepted \in Seq(Events) /\ received \in Seq(Events)

ForwarderInit ==
  /\ forwarder = "alive"
  /\ receiver = "kept"
  /\ channel = <<>>
  /\ waiting = <<>>
  /\ sends = [s \in Senders |-> 0]
  /\ accepted = <<>>
  /\ received = <<>>

-----------------------------------------------------------------------------
SendCall(s) ==
  /\ forwarder = "alive"
  /\ ~Waits(s)
  /\ sends[s] < MaxSends
  /\ sends' = [sends EXCEPT ![s] = @ + 1]
  /\ waiting' = Append(waiting, s)
  /\ UNCHANGED <<forwarder, receiver, channel, accepted, received>>

\* A sender that gives up its place leaves the others in their order.
LeaveQueue(s) ==
  \E i \in DOMAIN waiting : waiting[i] = s /\ waiting' = RemoveAt(waiting, i)

\* Room goes to the waiters in their order, and those that have it may push in
\* any order: tokio wakes each of them with a permit of its own.
HasRoom(s) ==
  \E i \in DOMAIN waiting : waiting[i] = s /\ i <= Capacity - Len(channel)

\* Mutants: a full channel is no reason to wait; the event is thrown away when
\* the channel is full, as by try_send.
SendOkAlways(s) ==
  /\ LeaveQueue(s)
  /\ receiver # "dropped"
  /\ channel' = Append(channel, Event(s, sends[s]))
  /\ accepted' = Append(accepted, Event(s, sends[s]))
  /\ UNCHANGED <<forwarder, receiver, sends, received>>

SendOkLossy(s) ==
  /\ LeaveQueue(s)
  /\ receiver # "dropped"
  /\ channel' = IF HasRoom(s) THEN Append(channel, Event(s, sends[s])) ELSE channel
  /\ accepted' = Append(accepted, Event(s, sends[s]))
  /\ UNCHANGED <<forwarder, receiver, sends, received>>

SendOk(s) ==
  /\ HasRoom(s)
  /\ LeaveQueue(s)
  /\ receiver # "dropped"
  /\ channel' = Append(channel, Event(s, sends[s]))
  /\ accepted' = Append(accepted, Event(s, sends[s]))
  /\ UNCHANGED <<forwarder, receiver, sends, received>>

\* Mutant: the channel closes when both ends are gone.
SendClosedByBoth(s) ==
  /\ LeaveQueue(s)
  /\ receiver = "dropped" /\ forwarder = "dropped"
  /\ UNCHANGED <<forwarder, receiver, channel, sends, accepted, received>>

\* InputError::ChannelClosed.
SendClosed(s) ==
  /\ LeaveQueue(s)
  /\ receiver = "dropped"
  /\ UNCHANGED <<forwarder, receiver, channel, sends, accepted, received>>

SendCancel(s) ==
  /\ LeaveQueue(s)
  /\ UNCHANGED <<forwarder, receiver, channel, sends, accepted, received>>

\* Only the first call has a receiver to give.
TakeReceiver ==
  /\ forwarder = "alive"
  /\ waiting = <<>>
  /\ receiver = "kept"
  /\ receiver' = "taken"
  /\ UNCHANGED <<forwarder, channel, waiting, sends, accepted, received>>

\* The receiver goes with the forwarder if it was never taken.
DropForwarder ==
  /\ forwarder = "alive"
  /\ waiting = <<>>
  /\ forwarder' = "dropped"
  /\ IF receiver = "kept" THEN receiver' = "dropped" /\ channel' = <<>>
     ELSE UNCHANGED <<receiver, channel>>
  /\ UNCHANGED <<waiting, sends, accepted, received>>

Recv ==
  /\ receiver = "taken"
  /\ channel # <<>>
  /\ received' = Append(received, Head(channel))
  /\ channel' = Tail(channel)
  /\ UNCHANGED <<forwarder, receiver, waiting, sends, accepted>>

DropReceiver ==
  /\ receiver = "taken"
  /\ receiver' = "dropped"
  /\ channel' = <<>>
  /\ UNCHANGED <<forwarder, waiting, sends, accepted, received>>

ForwarderNext ==
  \/ TakeReceiver
  \/ DropForwarder
  \/ Recv
  \/ DropReceiver
  \/ \E s \in Senders : SendCall(s) \/ SendOk(s) \/ SendClosed(s) \/ SendCancel(s)

ForwarderSpec == ForwarderInit /\ [][ForwarderNext]_forwarderVars

-----------------------------------------------------------------------------
(* Properties                                                              *)

\* What send() returned Ok for is in the channel or with the reader, until the
\* reader goes away with what it has not read: then it had the first of it and
\* nothing else.  Whoever waited, gave up or was woken first, the events of one
\* task stand in the order of its calls and none stands twice
\* (forwarder.rs:24-29).
AcceptedReachReceiver ==
  /\ receiver # "dropped" => accepted = received \o channel
  /\ IsPrefix(received, accepted)
  /\ \A i, j \in DOMAIN accepted :
       i < j /\ accepted[i].from = accepted[j].from => accepted[i].n < accepted[j].n

\* Once the receiver is taken every send() returns: with room, or with an error
\* when the reader is gone (forwarder.rs:23-29).  Before that a send() on a full
\* channel can only be dropped, and keeps the receiver from being taken.
SendsEnd ==
  \A s \in Senders : Waits(s) /\ receiver # "kept" ~> ~Waits(s)
=============================================================================
