------------------------------ MODULE Shutdown ------------------------------
(***************************************************************************)
(* crates/quicview/src/shutdown.rs: ShutdownController and ShutdownSignal  *)
(* over a tokio watch channel.  Each method is an action, or one action    *)
(* per atomic step where other tasks may run in the middle of it: trigger  *)
(* counts the receivers and then stores, wait reads the value and then     *)
(* awaits the next change.  The watch channel is modelled by what          *)
(* shutdown.rs relies on: a value, a version that each store advances, and *)
(* the version each receiver has last seen.                                *)
(***************************************************************************)
EXTENDS Integers

CONSTANTS
  Handles,       \* identities of ShutdownController clones
  Signals,       \* identities of ShutdownSignal handles
  Owner,         \* the controller that the constructor returns
  Initial,       \* signals born with it: one from new(), none from default()
  MaxVersion     \* bound: trigger is not called at this version or above

ASSUME ShutdownAssumption ==
  /\ Owner \in Handles
  /\ Initial \subseteq Signals
  /\ \A s, t \in Initial : s = t
  /\ MaxVersion \in Nat

VARIABLES
  value,         \* the Boolean in the watch channel
  version,       \* the version of the channel
  op,            \* per controller: "dropped", "idle", or inside trigger
  pc,            \* per signal: "none", "idle", inside wait, or "done"
  seen,          \* per signal: the version its receiver has last seen
  returned,      \* history: some call of trigger has returned
  orphaned       \* history: there was a moment without any receiver

vars == <<value, version, op, pc, seen, returned, orphaned>>

Open == {h \in Handles : op[h] # "dropped"}
Live == {s \in Signals : pc[s] # "none"}

TypeOK ==
  /\ value \in BOOLEAN
  /\ version \in Nat
  /\ op \in [Handles -> {"dropped", "idle", "sending"}]
  /\ pc \in [Signals -> {"none", "idle", "borrow", "changed", "done"}]
  /\ seen \in [Signals -> Nat]
  /\ returned \in BOOLEAN
  /\ orphaned \in BOOLEAN

Init ==
  /\ value = FALSE
  /\ version = 0
  /\ op = [h \in Handles |-> IF h = Owner THEN "idle" ELSE "dropped"]
  /\ pc = [s \in Signals |-> IF s \in Initial THEN "idle" ELSE "none"]
  /\ seen = [s \in Signals |-> 0]
  /\ returned = FALSE
  /\ orphaned = (Initial = {})

-----------------------------------------------------------------------------
(* ShutdownController                                                      *)

CloneController(h, g) ==
  /\ op[h] = "idle"
  /\ op[g] = "dropped"
  /\ op' = [op EXCEPT ![g] = "idle"]
  /\ UNCHANGED <<value, version, pc, seen, returned, orphaned>>

\* The sender lives in an Arc: dropping the last handle closes the channel.
DropController(h) ==
  /\ op[h] = "idle"
  /\ op' = [op EXCEPT ![h] = "dropped"]
  /\ UNCHANGED <<value, version, pc, seen, returned, orphaned>>

\* Mutant: a receiver count that misses the receivers inside changed().
TriggerFailsOnWaiters(h) ==
  /\ op[h] = "idle"
  /\ \A s \in Live : pc[s] = "changed"
  /\ returned' = TRUE
  /\ UNCHANGED <<value, version, op, pc, seen, orphaned>>

\* send() first counts the receivers.  With none it fails, the value is not
\* stored, and trigger discards the error.
TriggerFails(h) ==
  /\ op[h] = "idle"
  /\ Live = {}
  /\ returned' = TRUE
  /\ UNCHANGED <<value, version, op, pc, seen, orphaned>>

TriggerCall(h) ==
  /\ op[h] = "idle"
  /\ Live # {}
  /\ version < MaxVersion
  /\ op' = [op EXCEPT ![h] = "sending"]
  /\ UNCHANGED <<value, version, pc, seen, returned, orphaned>>

\* Mutant: the value is stored without telling the receivers.
TriggerStoreSilently(h) ==
  /\ op[h] = "sending"
  /\ value' = TRUE
  /\ op' = [op EXCEPT ![h] = "idle"]
  /\ returned' = TRUE
  /\ UNCHANGED <<version, pc, seen, orphaned>>

TriggerStore(h) ==
  /\ op[h] = "sending"
  /\ value' = TRUE
  /\ version' = version + 1
  /\ op' = [op EXCEPT ![h] = "idle"]
  /\ returned' = TRUE
  /\ UNCHANGED <<pc, seen, orphaned>>

\* Mutant: the new receiver is marked changed.
SignalMarkedChanged(h, s) ==
  /\ op[h] = "idle"
  /\ pc[s] = "none"
  /\ pc' = [pc EXCEPT ![s] = "idle"]
  /\ seen' = [seen EXCEPT ![s] = version - 1]
  /\ UNCHANGED <<value, version, op, returned, orphaned>>

\* signal(): the new receiver starts at the channel's present version.
Signal(h, s) ==
  /\ op[h] = "idle"
  /\ pc[s] = "none"
  /\ pc' = [pc EXCEPT ![s] = "idle"]
  /\ seen' = [seen EXCEPT ![s] = version]
  /\ UNCHANGED <<value, version, op, returned, orphaned>>

-----------------------------------------------------------------------------
(* ShutdownSignal                                                          *)

CloneSignal(s, t) ==
  /\ pc[s] \in {"idle", "done"}
  /\ pc[t] = "none"
  /\ pc' = [pc EXCEPT ![t] = "idle"]
  /\ seen' = [seen EXCEPT ![t] = seen[s]]
  /\ UNCHANGED <<value, version, op, returned, orphaned>>

\* A task that is dropped takes its signal with it, also inside wait.
DropSignal(s) ==
  /\ pc[s] # "none"
  /\ pc' = [pc EXCEPT ![s] = "none"]
  /\ seen' = [seen EXCEPT ![s] = 0]
  /\ orphaned' = (orphaned \/ Live = {s})
  /\ UNCHANGED <<value, version, op, returned>>

WaitCall(s) ==
  /\ pc[s] \in {"idle", "done"}
  /\ pc' = [pc EXCEPT ![s] = "borrow"]
  /\ UNCHANGED <<value, version, op, seen, returned, orphaned>>

\* The loop's condition: `while !*self.rx.borrow()`.
WaitBorrow(s) ==
  /\ pc[s] = "borrow"
  /\ pc' = [pc EXCEPT ![s] = IF value THEN "done" ELSE "changed"]
  /\ UNCHANGED <<value, version, op, seen, returned, orphaned>>

\* `changed()` is Ready(Ok) when the version moved on, and marks it seen.
WaitChanged(s) ==
  /\ pc[s] = "changed"
  /\ seen[s] # version
  /\ seen' = [seen EXCEPT ![s] = version]
  /\ pc' = [pc EXCEPT ![s] = "borrow"]
  /\ UNCHANGED <<value, version, op, returned, orphaned>>

\* Mutant: any error or wakeup of changed() is taken for a shutdown.
WaitClosedEarly(s) ==
  /\ pc[s] = "changed"
  /\ seen[s] = version
  /\ \E h \in Handles : op[h] = "dropped"
  /\ pc' = [pc EXCEPT ![s] = "done"]
  /\ UNCHANGED <<value, version, op, seen, returned, orphaned>>

\* Mutant: the loop goes on after an error of changed().
WaitClosedRetries(s) ==
  /\ pc[s] = "changed"
  /\ seen[s] = version
  /\ Open = {}
  /\ pc' = [pc EXCEPT ![s] = "borrow"]
  /\ UNCHANGED <<value, version, op, seen, returned, orphaned>>

\* `changed()` is Ready(Err) when nothing is new and the sender is gone.
WaitClosed(s) ==
  /\ pc[s] = "changed"
  /\ seen[s] = version
  /\ Open = {}
  /\ pc' = [pc EXCEPT ![s] = "done"]
  /\ UNCHANGED <<value, version, op, seen, returned, orphaned>>

\* select! drops a wait() that is pending on changed() when the other branch
\* is taken; the receiver keeps the version it has seen.
WaitCancel(s) ==
  /\ pc[s] = "changed"
  /\ pc' = [pc EXCEPT ![s] = "idle"]
  /\ UNCHANGED <<value, version, op, seen, returned, orphaned>>

-----------------------------------------------------------------------------
Controller ==
  \/ \E h, g \in Handles : CloneController(h, g)
  \/ \E h \in Handles :
       \/ DropController(h)
       \/ TriggerFails(h)
       \/ TriggerCall(h)
       \/ TriggerStore(h)
  \/ \E h \in Handles, s \in Signals : Signal(h, s)

Holder ==
  \/ \E s, t \in Signals : CloneSignal(s, t)
  \/ \E s \in Signals :
       \/ DropSignal(s)
       \/ WaitCall(s)
       \/ WaitBorrow(s)
       \/ WaitChanged(s)
       \/ WaitClosed(s)
       \/ WaitCancel(s)

Next == Controller \/ Holder

SafeSpec == Init /\ [][Next]_vars

WaitStep(s) == WaitBorrow(s) \/ WaitChanged(s) \/ WaitClosed(s)

\* The runtime polls a task that was woken.
Spec == SafeSpec /\ \A s \in Signals : WF_vars(WaitStep(s))

-----------------------------------------------------------------------------
(* Properties                                                              *)

\* "All associated signals will be notified" (shutdown.rs:28): while there is
\* always some signal, a trigger that returned is in force for whoever looks
\* or waits afterwards, a task spawned later included (main.rs:89 subscribes
\* one signal per viewer; main.rs:67 keeps one alive).
TriggerInForce == returned /\ ~orphaned => value

\* is_shutdown() tells "if shutdown has been requested" (shutdown.rs:58): with
\* a signal in hand and a trigger that returned, its value is TRUE.
IsShutdownTells == returned /\ Live # {} => value

\* wait() returns only for a cause: a request in force, or no controller left
\* that could make one (shutdown.rs:49-56).
ReleasedForCause ==
  \A s \in Signals : pc[s] = "done" => value \/ Open = {}

\* A store between wait's borrow() and its changed() is not missed: a task
\* about to await a change while the value is TRUE has an unseen version.
NoMissedRequest ==
  \A s \in Signals : pc[s] = "changed" /\ value => seen[s] # version

\* The channel as a latch: the first store is the request, and dropping the
\* last controller before it abandons the latch.
LatchPhase ==
  IF value THEN "requested" ELSE IF Open = {} THEN "abandoned" ELSE "running"

LatchWaiter ==
  [s \in Signals |-> IF pc[s] = "none" THEN "absent"
                     ELSE IF pc[s] = "idle" THEN "idle"
                     ELSE IF pc[s] = "done" THEN "released"
                     ELSE "waiting"]

Latch == INSTANCE ShutdownLatch WITH phase <- LatchPhase,
                                     waiter <- LatchWaiter

\* Shutdown implements ShutdownLatch, with its liveness: every task inside
\* wait() leaves it once shutdown is requested or the last controller is gone.
ImplementsLatch == Latch!Spec
=============================================================================
