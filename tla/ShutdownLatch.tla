---------------------------- MODULE ShutdownLatch ----------------------------
(***************************************************************************)
(* What quicview promises of a cooperative shutdown (the doc comments of   *)
(* crates/quicview/src/shutdown.rs), without the watch channel: a one-shot *)
(* latch that is requested once, or abandoned by its last controller, and  *)
(* that releases every task that waits on it.  Shutdown implements it.     *)
(***************************************************************************)
CONSTANT Signals          \* the ShutdownSignal handles that may exist

VARIABLES
  phase,                  \* "running" until requested or abandoned
  waiter                  \* what the holder of each signal is doing

vars == <<phase, waiter>>

Phases == {"running", "requested", "abandoned"}
WaiterStates == {"absent", "idle", "waiting", "released"}

Init ==
  /\ phase = "running"
  /\ \E S \in SUBSET Signals :
       waiter = [s \in Signals |-> IF s \in S THEN "idle" ELSE "absent"]

\* A controller asks for shutdown; asking again changes nothing.
Request ==
  /\ phase = "running"
  /\ phase' = "requested"
  /\ UNCHANGED waiter

\* The last controller goes away without having asked.
Abandon ==
  /\ phase = "running"
  /\ phase' = "abandoned"
  /\ UNCHANGED waiter

Move(s, from, to) ==
  /\ waiter[s] \in from
  /\ waiter' = [waiter EXCEPT ![s] = to]
  /\ UNCHANGED phase

Attach(s) == Move(s, {"absent"}, "idle")
Detach(s) == Move(s, WaiterStates \ {"absent"}, "absent")
Wait(s)   == Move(s, {"idle", "released"}, "waiting")
Cancel(s) == Move(s, {"waiting"}, "idle")

\* A waiter is let go, and only when the program is no longer running.
Release(s) ==
  /\ phase # "running"
  /\ Move(s, {"waiting"}, "released")

Next ==
  \/ Request
  \/ Abandon
  \/ \E s \in Signals :
       Attach(s) \/ Detach(s) \/ Wait(s) \/ Cancel(s) \/ Release(s)

SafeSpec == Init /\ [][Next]_vars

Spec == SafeSpec /\ \A s \in Signals : WF_vars(Release(s))
=============================================================================
