---------------------------- MODULE PowerManager -----------------------------
(***************************************************************************)
(* crates/quicview-session/src/power.rs: which displays sleep.  The caller *)
(* gives the time with every call, from a clock that need not be steady.   *)
(* Looking a display up finds its first entry, and registering it again    *)
(* adds another; tick goes over all entries.                               *)
(***************************************************************************)
EXTENDS Naturals, Sequences

CONSTANTS
  PowerDisplays,     \* ids of displays
  Timeout,           \* timeout_ms
  Times,             \* values of now_ms
  MaxEntries         \* bound: calls of register

ASSUME PowerAssumption ==
  /\ Timeout \in Nat
  /\ Times \subseteq Nat
  /\ MaxEntries \in Nat

VARIABLES
  states,            \* the entries, in order of registration
  newlySleeping,     \* what the last tick returned, as a set
  used,              \* history: per display, the time it was last used
  clock              \* history: the time given with the last call

powerVars == <<states, newlySleeping, used, clock>>

Entries == [id : PowerDisplays, state : {"active", "sleep"}, last : Times]
Unused == [d \in {} |-> 0]

PowerTypeOK ==
  /\ states \in Seq(Entries)
  /\ Len(states) <= MaxEntries
  /\ newlySleeping \subseteq PowerDisplays
  /\ DOMAIN used = {states[i].id : i \in DOMAIN states}
  /\ \A d \in DOMAIN used : used[d] \in Times
  /\ clock \in Times

PowerInit ==
  /\ states = <<>>
  /\ newlySleeping = {}
  /\ used = Unused
  /\ clock \in Times

-----------------------------------------------------------------------------
EntriesOf(d) == {i \in DOMAIN states : states[i].id = d}
First(d) == CHOOSE i \in EntriesOf(d) : \A j \in EntriesOf(d) : i <= j
State(d) == states[First(d)].state

Registered == {d \in PowerDisplays : EntriesOf(d) # {}}

Use(d, now) ==
  used' = [e \in DOMAIN used \cup {d} |-> IF e = d THEN now ELSE used[e]]

\* A second registration does not count as use of the first.
Register(d, now) ==
  /\ Len(states) < MaxEntries
  /\ states' = Append(states, [id |-> d, state |-> "active", last |-> now])
  /\ IF d \in Registered THEN UNCHANGED used ELSE Use(d, now)
  /\ clock' = now
  /\ UNCHANGED newlySleeping

\* Mutant: the entry is made active but keeps its time.
TouchKeepsTime(d, now) ==
  /\ d \in Registered
  /\ states' = [states EXCEPT ![First(d)].state = "active"]
  /\ Use(d, now)
  /\ clock' = now
  /\ UNCHANGED newlySleeping

\* touch and wake do the same to the first entry; for a display without one
\* touch does nothing and wake returns an error.
Touch(d, now) ==
  /\ d \in Registered
  /\ states' = [states EXCEPT ![First(d)].state = "active", ![First(d)].last = now]
  /\ Use(d, now)
  /\ clock' = now
  /\ UNCHANGED newlySleeping

\* now_ms.saturating_sub(last) > timeout_ms, for an active entry.
IdleAt(e, now) == e.state = "active" /\ now > e.last + Timeout

Due(now) == {i \in DOMAIN states : IdleAt(states[i], now)}

Tick(now) ==
  /\ states' = [i \in DOMAIN states |->
                  IF i \in Due(now)
                  THEN [states[i] EXCEPT !.state = "sleep"] ELSE states[i]]
  /\ newlySleeping' = {states[i].id : i \in Due(now)}
  /\ clock' = now
  /\ UNCHANGED used

PowerNext ==
  \/ \E d \in PowerDisplays, now \in Times : Register(d, now)
  \/ \E d \in PowerDisplays, now \in Times : Touch(d, now)
  \/ \E now \in Times : Tick(now)

PowerSpec == PowerInit /\ [][PowerNext]_powerVars

-----------------------------------------------------------------------------
(* Properties                                                              *)

\* sleeping_displays(), as a set.
Sleeping == {states[i].id : i \in {j \in DOMAIN states : states[j].state = "sleep"}}

RegisteredOnce(d) == \A i, j \in EntriesOf(d) : i = j

\* state() turns from active to sleep only for a display that was last used longer
\* than the timeout before, whatever the clock did, and tick tells; and what tick
\* tells of a display that was registered once is true (power.rs:40-61).
SleepsOnlyUnused ==
  [][\A d \in Registered :
       /\ State(d) = "active" /\ State(d)' = "sleep" =>
            clock' > used[d] + Timeout /\ d \in newlySleeping'
       /\ RegisteredOnce(d) /\ d \in newlySleeping' \ newlySleeping =>
            clock' > used[d] + Timeout /\ State(d)' = "sleep"]_powerVars

\* "List all displays currently sleeping." (power.rs:85): what is listed sleeps,
\* also for a display that was registered twice.
SleepingAreAsleep == \A d \in Sleeping : State(d) = "sleep"
=============================================================================
