--------------------------- MODULE ControlExchange ---------------------------
(***************************************************************************)
(* One viewer session over one QUIC connection: `quicview connect`         *)
(* (main.rs:119-155) and the host's handle_viewer (main.rs:184-221) with   *)
(* the stream mux between them.  A message is a tag, a length or a body.   *)
(* QUIC is external: written data sits with the sender until it is         *)
(* delivered in order; when a side closes, what it has not delivered is    *)
(* gone, and the other side can still read what had arrived.               *)
(***************************************************************************)
EXTENDS Naturals, Sequences

CONSTANTS
  Stamps,        \* values of Ping's timestamp_ms
  OtherViewers,  \* TRUE: viewers of other versions connect as well
  Disturbed      \* TRUE: the network may fail and the host may shut down

ASSUME ExchangeAssumption ==
  /\ Stamps \subseteq Nat \ {0}
  /\ OtherViewers \in BOOLEAN
  /\ Disturbed \in BOOLEAN

Sides == {"viewer", "host"}
Peer(side) == IF side = "viewer" THEN "host" ELSE "viewer"

Unit(kind) == [kind |-> kind, stamp |-> 0]
Ping(t) == [kind |-> "ping", stamp |-> t]
Pong(t) == [kind |-> "pong", stamp |-> t]

\* What a viewer writes: its stream's tag, the length of its message compared
\* with MAX_CONTROL_MESSAGE_SIZE, and the message.
PingPlan(t) == <<Unit("control"), Unit("fits"), Ping(t)>>
Video == <<Unit("video")>>
Input == <<Unit("input")>>
Unknown == <<Unit("unknown")>>
TooLarge == <<Unit("control"), Unit("large")>>
OtherMessage == <<Unit("control"), Unit("fits"), Unit("keepAlive")>>
Garbage == <<Unit("control"), Unit("fits"), Unit("garbage")>>
Truncated == <<Unit("control"), Unit("fits")>>

OtherPlans ==
  {Video, Input, Unknown, TooLarge, OtherMessage, Garbage, Truncated}

VARIABLES
  plan,          \* what the viewer sets out to write
  written,       \* how many of the plan's units it has written
  viewer,        \* where the viewer is
  host,          \* where the host's handle_viewer is
  buf,           \* per side: written there, not yet delivered
  arrived,       \* per side: delivered there, not yet read
  conn,          \* per side: its end of the connection
  stamp,         \* the host: timestamp_ms of the Ping it has decoded
  got            \* the viewer: the reply it has decoded

vars == <<plan, written, viewer, host, buf, arrived, conn, stamp, got>>

ViewerReads == {"readLen", "readBody"}
HostReads == {"accept", "readLen", "readBody"}
HostWrites == {"replyLen", "replyBody"}
Leaving == [dropOk |-> "ok", dropErr |-> "err", dropCut |-> "cut"]

Init ==
  /\ plan \in {PingPlan(t) : t \in Stamps} \cup (IF OtherViewers THEN OtherPlans ELSE {})
  /\ written = 0
  /\ viewer = "writing"
  /\ host = "accept"
  /\ buf = [s \in Sides |-> <<>>]
  /\ arrived = [s \in Sides |-> <<>>]
  /\ conn = [s \in Sides |-> "open"]
  /\ stamp = 0
  /\ got = Unit("none")

\* A side's connection handle goes: its undelivered data goes with it.
CloseSide(side) ==
  /\ conn' = [conn EXCEPT ![side] = "closed"]
  /\ buf' = [buf EXCEPT ![side] = <<>>]

\* read_exact: the next unit, also after the connection has closed.
Front(side) == Head(arrived[side])
Read(side) ==
  /\ arrived[side] # <<>>
  /\ arrived' = [arrived EXCEPT ![side] = Tail(@)]

Write(side, unit) ==
  /\ conn[side] = "open"
  /\ buf' = [buf EXCEPT ![side] = Append(@, unit)]
  /\ UNCHANGED <<arrived, conn>>

NothingToRead(side) == arrived[side] = <<>> /\ conn[side] = "closed"

-----------------------------------------------------------------------------
(* The connection                                                          *)

Deliver(side) ==
  /\ conn[side] = "open" /\ conn[Peer(side)] = "open"
  /\ buf[side] # <<>>
  /\ buf' = [buf EXCEPT ![side] = Tail(@)]
  /\ arrived' = [arrived EXCEPT ![Peer(side)] = Append(@, Head(buf[side]))]
  /\ UNCHANGED <<plan, written, viewer, host, conn, stamp, got>>

\* The peer's close, or the idle timeout that stands in for it when lost.
LearnClosed(side) ==
  /\ conn[side] = "open" /\ conn[Peer(side)] = "closed"
  /\ CloseSide(side)
  /\ UNCHANGED <<plan, written, viewer, host, arrived, stamp, got>>

\* Both ends wait for the other: quinn's idle timeout ends the connection.
Quiet ==
  /\ viewer \in ViewerReads /\ host \in HostReads
  /\ \A s \in Sides : buf[s] = <<>> /\ arrived[s] = <<>>

IdleTimeout(side) ==
  /\ conn[side] = "open"
  /\ Quiet \/ Disturbed
  /\ CloseSide(side)
  /\ UNCHANGED <<plan, written, viewer, host, arrived, stamp, got>>

-----------------------------------------------------------------------------
(* The viewer                                                              *)

ViewerWrite ==
  /\ viewer = "writing"
  /\ Write("viewer", plan[written + 1])
  /\ written' = written + 1
  /\ viewer' = IF written' = Len(plan) THEN "readLen" ELSE "writing"
  /\ UNCHANGED <<plan, host, stamp, got>>

\* An error of any call ends the process, and the connection with it.
ViewerFails ==
  /\ \/ viewer = "writing" /\ conn["viewer"] = "closed"
     \/ viewer \in ViewerReads /\ NothingToRead("viewer")
  /\ viewer' = "failed"
  /\ CloseSide("viewer")
  /\ UNCHANGED <<plan, written, host, arrived, stamp, got>>

ViewerReadLen ==
  /\ viewer = "readLen"
  /\ Read("viewer")
  /\ IF Front("viewer").kind = "fits"
     THEN viewer' = "readBody" /\ UNCHANGED <<buf, conn>>
     ELSE viewer' = "failed" /\ CloseSide("viewer")
  /\ UNCHANGED <<plan, written, host, stamp, got>>

\* Whatever the reply says is logged; then conn.close().
ViewerReadBody ==
  /\ viewer = "readBody"
  /\ Read("viewer")
  /\ got' = Front("viewer")
  /\ viewer' = "done"
  /\ CloseSide("viewer")
  /\ UNCHANGED <<plan, written, host, stamp>>

-----------------------------------------------------------------------------
(* The host                                                                *)

\* accept_bi() returns when the stream's first byte, the tag, is there.
HostAccept ==
  /\ host = "accept"
  /\ Read("host")
  /\ host' = CASE Front("host").kind = "control" -> "readLen"
               [] Front("host").kind \in {"video", "input"} -> "dropOk"
               [] OTHER -> "dropErr"
  /\ UNCHANGED <<plan, written, viewer, buf, conn, stamp, got>>

\* Mutant: the comparison with the limit is turned round.
HostReadLenReversed ==
  /\ host = "readLen"
  /\ Read("host")
  /\ host' = IF Front("host").kind = "large" THEN "readBody" ELSE "dropErr"
  /\ UNCHANGED <<plan, written, viewer, buf, conn, stamp, got>>

HostReadLen ==
  /\ host = "readLen"
  /\ Read("host")
  /\ host' = IF Front("host").kind = "fits" THEN "readBody" ELSE "dropErr"
  /\ UNCHANGED <<plan, written, viewer, buf, conn, stamp, got>>

HostReadBody ==
  /\ host = "readBody"
  /\ Read("host")
  /\ LET msg == Front("host") IN
       /\ host' = IF msg.kind = "ping" THEN "replyLen"
                  ELSE IF msg.kind = "garbage" THEN "dropErr" ELSE "dropOk"
       /\ stamp' = IF msg.kind = "ping" THEN msg.stamp ELSE stamp
  /\ UNCHANGED <<plan, written, viewer, buf, conn, got>>

HostReplyLen ==
  /\ host = "replyLen"
  /\ Write("host", Unit("fits"))
  /\ host' = "replyBody"
  /\ UNCHANGED <<plan, written, viewer, stamp, got>>

\* Mutant: the reply echoes the message.
HostReplyEchoes ==
  /\ host = "replyBody"
  /\ Write("host", Ping(stamp))
  /\ host' = "dropOk"
  /\ UNCHANGED <<plan, written, viewer, stamp, got>>

HostReplyBody ==
  /\ host = "replyBody"
  /\ Write("host", Pong(stamp))
  /\ host' = "dropOk"
  /\ UNCHANGED <<plan, written, viewer, stamp, got>>

\* Mutant: a lost connection is waited out.
HostFailsOnWriteOnly ==
  /\ host \in HostWrites /\ conn["host"] = "closed"
  /\ host' = "dropErr"
  /\ UNCHANGED <<plan, written, viewer, buf, arrived, conn, stamp, got>>

HostFails ==
  /\ \/ host \in HostReads /\ NothingToRead("host")
     \/ host \in HostWrites /\ conn["host"] = "closed"
  /\ host' = "dropErr"
  /\ UNCHANGED <<plan, written, viewer, buf, arrived, conn, stamp, got>>

\* Mutant: the session may be cut after its reply was written.
HostCutLate ==
  /\ Disturbed
  /\ host \in HostReads \cup HostWrites \cup {"dropOk"}
  /\ host' = "dropCut"
  /\ UNCHANGED <<plan, written, viewer, buf, arrived, conn, stamp, got>>

\* Shutdown wins the task's select! while the session awaits data, or room to
\* write: also between a Ping and its Pong, or between the Pong's length and the Pong.
HostCut ==
  /\ Disturbed
  /\ host \in HostReads \cup HostWrites
  /\ host' = "dropCut"
  /\ UNCHANGED <<plan, written, viewer, buf, arrived, conn, stamp, got>>

\* The last handles of the connection are dropped: it closes at once.
HostDrop ==
  /\ host \in DOMAIN Leaving
  /\ host' = Leaving[host]
  /\ CloseSide("host")
  /\ UNCHANGED <<plan, written, viewer, arrived, stamp, got>>

-----------------------------------------------------------------------------
Viewer == ViewerWrite \/ ViewerFails \/ ViewerReadLen \/ ViewerReadBody

Host ==
  \/ HostAccept \/ HostReadLen \/ HostReadBody
  \/ HostReplyLen \/ HostReplyBody \/ HostFails \/ HostDrop

Next ==
  \/ \E side \in Sides : Deliver(side) \/ LearnClosed(side) \/ IdleTimeout(side)
  \/ Viewer
  \/ Host
  \/ HostCut

SafeSpec == Init /\ [][Next]_vars

\* Both programs run on, an open connection delivers, and quinn's timeouts
\* see to it that a dead or silent connection is noticed.
Spec ==
  /\ SafeSpec
  /\ WF_vars(Viewer)
  /\ WF_vars(Host)
  /\ \A side \in Sides :
       /\ WF_vars(Deliver(side))
       /\ WF_vars(LearnClosed(side))
       /\ WF_vars(Quiet /\ IdleTimeout(side))

-----------------------------------------------------------------------------
(* Properties                                                              *)

ViewerStates == {"writing", "readLen", "readBody", "done", "failed"}
HostStates ==
  HostReads \cup HostWrites \cup DOMAIN Leaving \cup {"ok", "err", "cut"}

Units ==
  [kind : {"none", "control", "video", "input", "unknown", "fits", "large",
           "keepAlive", "garbage", "ping", "pong"},
   stamp : Stamps \cup {0}]

TypeOK ==
  /\ written \in 0..Len(plan)
  /\ viewer \in ViewerStates
  /\ host \in HostStates
  /\ \A s \in Sides : buf[s] \in Seq(Units) /\ arrived[s] \in Seq(Units)
  /\ conn \in [Sides -> {"open", "closed"}]
  /\ stamp \in Stamps \cup {0}
  /\ got \in Units

IsPing == plan \in {PingPlan(t) : t \in Stamps}

\* Only a Ping is answered, and a viewer that finishes has the Pong to its
\* own Ping, its timestamp included (main.rs:205-213, 142-152).
PongAnswersPing ==
  /\ host \in HostWrites \/ viewer = "done" => IsPing
  /\ viewer = "done" => got = Pong(plan[3].stamp)

\* What the host ends with Ok without an answer.
Unanswered == {Video, Input, OtherMessage}

OnItsWay(unit) ==
  \E queue \in {buf["host"], arrived["viewer"]} :
    \E i \in DOMAIN queue : queue[i] = unit

\* The host's result is what its session deserves.  It is Ok once the viewer has
\* its answer, and is Ok only if the answer is written, or was not due; it is an
\* error, which main counts, only if the connection was lost or the viewer sent
\* what no QuicView viewer sends (main.rs:90-102, 184-221).
HostResultJust ==
  /\ viewer = "done" => host \in {"dropOk", "ok"}
  /\ host \in {"dropOk", "ok"} => IsPing \/ plan \in Unanswered
  /\ host = "dropOk" /\ IsPing /\ conn["host"] = "open" =>
       viewer \in {"done", "failed"} \/ OnItsWay(Pong(plan[3].stamp))
  /\ host = "dropErr" =>
       \/ conn["host"] = "closed"
       \/ plan \in {Unknown, TooLarge, Garbage}

\* Neither end waits for ever, whatever the other one sent and wherever it
\* stopped (main.rs:119-155, 184-221).
BothEnd ==
  /\ <>(viewer \in {"done", "failed"})
  /\ <>(host \in {"ok", "err", "cut"})

\* "The viewer opens a QUIC connection, sends a Ping, and receives a Pong to
\* verify connectivity" (docs/getting-started.md:54).
PingAnswered == viewer # "failed"
=============================================================================
