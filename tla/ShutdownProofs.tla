--------------------------- MODULE ShutdownProofs ---------------------------
(***************************************************************************)
(* Shutdown's safety properties, and that it implements ShutdownLatch, for *)
(* any sets of controllers and signals and any number of stores.           *)
(***************************************************************************)
EXTENDS Shutdown, TLAPS

(* A receiver has never seen more than the channel's version, and a moment *)
(* without receivers is on record: with these the properties are inductive.*)
SeenBehind == \A s \in Signals : seen[s] <= version

OrphanRecorded == Live = {} => orphaned

Rest ==
  /\ SeenBehind
  /\ OrphanRecorded
  /\ TriggerInForce
  /\ ReleasedForCause
  /\ NoMissedRequest

IInv == TypeOK /\ Rest

LEMMA InitIInv == Init => IInv
<1> SUFFICES ASSUME Init PROVE IInv
  OBVIOUS
<1>1. TypeOK
  BY DEF Init, TypeOK
<1>2. SeenBehind /\ ReleasedForCause /\ NoMissedRequest /\ TriggerInForce
  BY DEF Init, SeenBehind, ReleasedForCause, NoMissedRequest, TriggerInForce
<1>3. OrphanRecorded
  <2>1. ASSUME NEW s \in Initial PROVE s \in Live
    BY ShutdownAssumption DEF Init, Live
  <2> QED BY <2>1 DEF Init, OrphanRecorded
<1> QED BY <1>1, <1>2, <1>3 DEF IInv, Rest

\* Every step keeps the types: one case per action.
LEMMA StepTypeOK == TypeOK /\ [Next]_vars => TypeOK'
<1> SUFFICES ASSUME TypeOK, [Next]_vars PROVE TypeOK'
  OBVIOUS
<1> USE DEF TypeOK
<1>1. CASE Controller
  <2>1. ASSUME NEW h \in Handles, NEW g \in Handles, CloneController(h, g)
        PROVE TypeOK'
    BY <2>1 DEF CloneController
  <2>2. ASSUME NEW h \in Handles,
               DropController(h) \/ TriggerFails(h) \/ TriggerCall(h)
        PROVE TypeOK'
    BY <2>2 DEF DropController, TriggerFails, TriggerCall
  <2>3. ASSUME NEW h \in Handles, TriggerStore(h) PROVE TypeOK'
    BY <2>3 DEF TriggerStore
  <2>4. ASSUME NEW h \in Handles, NEW s \in Signals, Signal(h, s)
        PROVE TypeOK'
    BY <2>4 DEF Signal
  <2> QED BY <1>1, <2>1, <2>2, <2>3, <2>4 DEF Controller
<1>2. ASSUME NEW s \in Signals, NEW t \in Signals, CloneSignal(s, t)
      PROVE TypeOK'
  BY <1>2 DEF CloneSignal
<1>3. ASSUME NEW s \in Signals, DropSignal(s) PROVE TypeOK'
  BY <1>3 DEF DropSignal
<1>4. ASSUME NEW s \in Signals,
             WaitCall(s) \/ WaitBorrow(s) \/ WaitStep(s) \/ WaitCancel(s)
      PROVE TypeOK'
  BY <1>4 DEF WaitCall, WaitBorrow, WaitStep, WaitChanged, WaitClosed, WaitCancel
<1>5. CASE UNCHANGED vars
  BY <1>5 DEF vars
<1> QED BY <1>1, <1>2, <1>3, <1>4, <1>5 DEF Next, Holder, WaitStep

\* Every step keeps the rest of the inductive invariant.
LEMMA StepIInv == IInv /\ [Next]_vars => IInv'
<1> SUFFICES ASSUME IInv, [Next]_vars PROVE IInv'
  OBVIOUS
<1>0. TypeOK /\ TypeOK'
  BY StepTypeOK DEF IInv
<1> USE <1>0 DEF IInv
<1>1. ASSUME NEW h \in Handles, NEW g \in Handles, CloneController(h, g)
      PROVE Rest'
  BY <1>1 DEF TypeOK, Rest, SeenBehind, OrphanRecorded, TriggerInForce,
     ReleasedForCause, NoMissedRequest, Live, Open, CloneController
<1>2. ASSUME NEW h \in Handles,
             DropController(h) \/ TriggerFails(h) \/ TriggerCall(h)
      PROVE Rest'
  BY <1>2 DEF TypeOK, Rest, SeenBehind, OrphanRecorded, TriggerInForce,
     ReleasedForCause, NoMissedRequest, Live, Open, DropController,
     TriggerFails, TriggerCall
<1>3. ASSUME NEW h \in Handles, TriggerStore(h) PROVE Rest'
  BY <1>3 DEF TypeOK, Rest, SeenBehind, OrphanRecorded, TriggerInForce,
     ReleasedForCause, NoMissedRequest, Live, Open, TriggerStore
<1>4. ASSUME NEW h \in Handles, NEW s \in Signals, Signal(h, s) PROVE Rest'
  <2>1. s \in Live'
    BY <1>4 DEF TypeOK, Signal, Live
  <2> QED BY <1>4, <2>1 DEF TypeOK, Rest, SeenBehind, OrphanRecorded,
      TriggerInForce, ReleasedForCause, NoMissedRequest, Open, Signal
<1>5. ASSUME NEW s \in Signals, NEW t \in Signals, CloneSignal(s, t)
      PROVE Rest'
  <2>1. t \in Live'
    BY <1>5 DEF TypeOK, CloneSignal, Live
  <2> QED BY <1>5, <2>1 DEF TypeOK, Rest, SeenBehind, OrphanRecorded,
      TriggerInForce, ReleasedForCause, NoMissedRequest, Open, CloneSignal
<1>6. ASSUME NEW s \in Signals, DropSignal(s) PROVE Rest'
  <2>1. s \in Live /\ Live' = Live \ {s}
    BY <1>6 DEF TypeOK, DropSignal, Live
  <2>2. OrphanRecorded' /\ TriggerInForce'
    <3>1. Live' = {} => Live = {s}
      BY <2>1
    <3>2. orphaned' = (orphaned \/ Live = {s})
      BY <1>6 DEF DropSignal
    <3>3. returned' = returned /\ value' = value
      BY <1>6 DEF DropSignal
    <3> QED BY <3>1, <3>2, <3>3 DEF Rest, OrphanRecorded, TriggerInForce
  <2>3. SeenBehind' /\ ReleasedForCause' /\ NoMissedRequest'
    BY <1>6 DEF TypeOK, Rest, SeenBehind, ReleasedForCause, NoMissedRequest,
       Open, DropSignal
  <2> QED BY <2>2, <2>3 DEF Rest
<1>7. ASSUME NEW s \in Signals,
             \/ WaitCall(s) \/ WaitBorrow(s) \/ WaitChanged(s)
             \/ WaitClosed(s) \/ WaitCancel(s)
      PROVE Rest'
  <2>1. Live' = Live /\ Open' = Open
    BY <1>7 DEF TypeOK, WaitCall, WaitBorrow, WaitChanged, WaitClosed,
       WaitCancel, Live, Open
  <2>2. OrphanRecorded' /\ TriggerInForce'
    BY <1>7, <2>1 DEF Rest, OrphanRecorded, TriggerInForce, WaitCall,
       WaitBorrow, WaitChanged, WaitClosed, WaitCancel
  <2>3. SeenBehind' /\ ReleasedForCause' /\ NoMissedRequest'
    BY <1>7, <2>1 DEF TypeOK, Rest, SeenBehind, ReleasedForCause,
       NoMissedRequest, WaitCall, WaitBorrow, WaitChanged, WaitClosed,
       WaitCancel
  <2> QED BY <2>2, <2>3 DEF Rest
<1>8. CASE UNCHANGED vars
  BY <1>8 DEF vars, Rest, SeenBehind, OrphanRecorded, TriggerInForce,
     ReleasedForCause, NoMissedRequest, Live, Open
<1>9. Rest'
  BY <1>1, <1>2, <1>3, <1>4, <1>5, <1>6, <1>7, <1>8
     DEF Next, Controller, Holder
<1> QED BY <1>9

\* The inductive invariant holds of every behaviour.
THEOREM Invariance == SafeSpec => []IInv
<1>1. QED BY InitIInv, StepIInv, PTL DEF SafeSpec

\* Signals, receivers and tasks stay what their types say: a flag is set or not,
\* a receiver has seen no version later than the channel's (shutdown.rs:10-56).
THEOREM TypeCorrect == SafeSpec => []TypeOK
<1>1. IInv => TypeOK
  BY DEF IInv
<1> QED BY <1>1, Invariance, PTL

\* While some signal always exists, a trigger that returned is in force for
\* every task, now and later (shutdown.rs:28-31).
THEOREM TriggerStaysInForce == SafeSpec => []TriggerInForce
<1>1. IInv => TriggerInForce
  BY DEF IInv, Rest
<1> QED BY <1>1, Invariance, PTL

\* No task is released from wait() without cause (shutdown.rs:49-56).
THEOREM NoCauselessRelease == SafeSpec => []ReleasedForCause
<1>1. IInv => ReleasedForCause
  BY DEF IInv, Rest
<1> QED BY <1>1, Invariance, PTL

\* No task awaits a change that has already happened (shutdown.rs:50-51).
THEOREM NoLostWakeup == SafeSpec => []NoMissedRequest
<1>1. IInv => NoMissedRequest
  BY DEF IInv, Rest
<1> QED BY <1>1, Invariance, PTL

-----------------------------------------------------------------------------
(* Shutdown implements ShutdownLatch.  A step of the channel is the latch's *)
(* step of the same name; a failing trigger, a second store and the two     *)
(* halves of a wait that goes on are stutters.                              *)

LEMMA InitLatch == Init => Latch!Init
<1> SUFFICES ASSUME Init PROVE Latch!Init
  OBVIOUS
<1>1. LatchPhase = "running"
  <2>1. Owner \in Open
    BY ShutdownAssumption DEF Init, Open
  <2> QED BY <2>1 DEF Init, LatchPhase
<1>2. LatchWaiter = [s \in Signals |-> IF s \in Initial THEN "idle" ELSE "absent"]
  BY DEF Init, LatchWaiter
<1>3. Initial \in SUBSET Signals
  BY ShutdownAssumption
<1> QED BY <1>1, <1>2, <1>3 DEF Latch!Init

\* A change of one signal's pc is a move of that waiter.
LEMMA WaiterMoves ==
  ASSUME TypeOK, NEW s \in Signals,
         NEW new \in {"none", "idle", "borrow", "changed", "done"},
         pc' = [pc EXCEPT ![s] = new]
  PROVE  LatchWaiter' = [LatchWaiter EXCEPT ![s] =
           IF new = "none" THEN "absent"
           ELSE IF new = "idle" THEN "idle"
           ELSE IF new = "done" THEN "released" ELSE "waiting"]
BY DEF TypeOK, LatchWaiter

LEMMA StepLatch == IInv /\ [Next]_vars => [Latch!Next]_(Latch!vars)
<1> SUFFICES ASSUME IInv, [Next]_vars PROVE [Latch!Next]_(Latch!vars)
  OBVIOUS
<1>0. TypeOK /\ TypeOK' /\ ReleasedForCause'
  BY StepTypeOK, StepIInv DEF IInv, Rest
<1> USE <1>0
<1>1. ASSUME NEW h \in Handles, NEW g \in Handles, CloneController(h, g)
      PROVE UNCHANGED Latch!vars
  <2>1. h \in Open /\ h \in Open'
    BY <1>1 DEF TypeOK, CloneController, Open
  <2> QED BY <1>1, <2>1 DEF CloneController, Latch!vars, LatchPhase, LatchWaiter
<1>2. ASSUME NEW h \in Handles, DropController(h)
      PROVE Latch!Abandon \/ UNCHANGED Latch!vars
  <2>1. h \in Open /\ LatchWaiter' = LatchWaiter /\ value' = value
    BY <1>2 DEF DropController, Open, LatchWaiter
  <2>2. CASE value \/ Open' # {}
    BY <2>1, <2>2 DEF LatchPhase, Latch!vars
  <2>3. CASE ~value /\ Open' = {}
    BY <2>1, <2>3 DEF LatchPhase, Latch!Abandon
  <2> QED BY <2>2, <2>3
<1>3. ASSUME NEW h \in Handles, TriggerFails(h) \/ TriggerCall(h)
      PROVE UNCHANGED Latch!vars
  <2>1. h \in Open /\ h \in Open' /\ LatchWaiter' = LatchWaiter
    BY <1>3 DEF TypeOK, TriggerFails, TriggerCall, Open, LatchWaiter
  <2> QED BY <1>3, <2>1 DEF TriggerFails, TriggerCall, LatchPhase, Latch!vars
<1>4. ASSUME NEW h \in Handles, TriggerStore(h)
      PROVE Latch!Request \/ UNCHANGED Latch!vars
  <2>1. h \in Open /\ LatchWaiter' = LatchWaiter /\ value' = TRUE
    BY <1>4 DEF TriggerStore, Open, LatchWaiter
  <2>2. CASE value
    BY <2>1, <2>2 DEF LatchPhase, Latch!vars
  <2>3. CASE ~value
    BY <2>1, <2>3 DEF LatchPhase, Latch!Request
  <2> QED BY <2>2, <2>3
<1>5. ASSUME NEW s \in Signals, pc[s] = "none",
             value' = value, op' = op, pc' = [pc EXCEPT ![s] = "idle"]
      PROVE Latch!Attach(s)
  <2>1. LatchPhase' = LatchPhase
    BY <1>5 DEF LatchPhase, Open
  <2>2. LatchWaiter[s] = "absent"
    BY <1>5 DEF LatchWaiter
  <2>3. LatchWaiter' = [LatchWaiter EXCEPT ![s] = "idle"]
    BY <1>5, WaiterMoves
  <2> QED BY <2>1, <2>2, <2>3 DEF Latch!Attach, Latch!Move
<1>6. ASSUME NEW s \in Signals, DropSignal(s)
      PROVE Latch!Detach(s)
  <2>1. LatchPhase' = LatchPhase
    BY <1>6 DEF DropSignal, LatchPhase, Open
  <2>2. LatchWaiter[s] \in Latch!WaiterStates \ {"absent"}
    BY <1>6 DEF DropSignal, LatchWaiter, TypeOK, Latch!WaiterStates
  <2>3. LatchWaiter' = [LatchWaiter EXCEPT ![s] = "absent"]
    BY <1>6, WaiterMoves DEF DropSignal
  <2> QED BY <2>1, <2>2, <2>3 DEF Latch!Detach, Latch!Move
<1>7. ASSUME NEW s \in Signals, WaitCall(s)
      PROVE Latch!Wait(s)
  <2>1. LatchPhase' = LatchPhase
    BY <1>7 DEF WaitCall, LatchPhase, Open
  <2>2. LatchWaiter[s] \in {"idle", "released"}
    BY <1>7 DEF WaitCall, LatchWaiter
  <2>3. LatchWaiter' = [LatchWaiter EXCEPT ![s] = "waiting"]
    BY <1>7, WaiterMoves DEF WaitCall
  <2> QED BY <2>1, <2>2, <2>3 DEF Latch!Wait, Latch!Move
<1>8. ASSUME NEW s \in Signals, WaitCancel(s)
      PROVE Latch!Cancel(s)
  <2>1. LatchPhase' = LatchPhase
    BY <1>8 DEF WaitCancel, LatchPhase, Open
  <2>2. LatchWaiter[s] = "waiting"
    BY <1>8 DEF WaitCancel, LatchWaiter
  <2>3. LatchWaiter' = [LatchWaiter EXCEPT ![s] = "idle"]
    BY <1>8, WaiterMoves DEF WaitCancel
  <2> QED BY <2>1, <2>2, <2>3 DEF Latch!Cancel, Latch!Move
<1>9. ASSUME NEW s \in Signals, WaitStep(s)
      PROVE Latch!Release(s) \/ UNCHANGED Latch!vars
  <2>1. LatchPhase' = LatchPhase
    BY <1>9 DEF WaitStep, WaitBorrow, WaitChanged, WaitClosed, LatchPhase, Open
  <2>2. LatchWaiter[s] = "waiting"
    BY <1>9 DEF WaitStep, WaitBorrow, WaitChanged, WaitClosed, LatchWaiter
  <2>3. PICK new \in {"borrow", "changed", "done"} : pc' = [pc EXCEPT ![s] = new]
    BY <1>9 DEF WaitStep, WaitBorrow, WaitChanged, WaitClosed
  <2>4. CASE new = "done"
    <3>1. LatchPhase # "running"
      <4>1. pc'[s] = "done"
        BY <2>3, <2>4 DEF TypeOK
      <4> QED BY <4>1, <2>1 DEF ReleasedForCause, LatchPhase
    <3> QED BY <2>1, <2>2, <2>3, <2>4, <3>1, WaiterMoves
        DEF Latch!Release, Latch!Move
  <2>5. CASE new # "done"
    <3>1. LatchWaiter' = LatchWaiter
      BY <2>2, <2>3, <2>5, WaiterMoves DEF LatchWaiter
    <3> QED BY <2>1, <3>1 DEF Latch!vars
  <2> QED BY <2>4, <2>5
<1>10. CASE UNCHANGED vars
  <2>1. LatchPhase' = LatchPhase /\ LatchWaiter' = LatchWaiter
    BY <1>10 DEF vars, LatchPhase, LatchWaiter, Open
  <2> QED BY <2>1 DEF Latch!vars
<1>11. ASSUME NEW s \in Signals, NEW t \in Signals, CloneSignal(s, t)
       PROVE Latch!Attach(t)
  BY <1>5, <1>11 DEF CloneSignal
<1>12. ASSUME NEW h \in Handles, NEW s \in Signals, Signal(h, s)
       PROVE Latch!Attach(s)
  BY <1>5, <1>12 DEF Signal
<1>13. CASE Controller
  BY <1>1, <1>2, <1>3, <1>4, <1>12, <1>13 DEF Controller, Latch!Next
<1>14. CASE Holder
  BY <1>6, <1>7, <1>8, <1>9, <1>11, <1>14 DEF Holder, WaitStep, Latch!Next
<1> QED BY <1>10, <1>13, <1>14 DEF Next

\* The watch channel as shutdown.rs uses it keeps the latch's safety promise.
THEOREM ImplementsLatchSafety == SafeSpec => Latch!SafeSpec
<1>1. QED BY InitLatch, StepLatch, Invariance, PTL DEF SafeSpec, Latch!SafeSpec
=============================================================================
