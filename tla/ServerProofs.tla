---------------------------- MODULE ServerProofs ----------------------------
(***************************************************************************)
(* Server's safety properties for any finite set of clients.               *)
(***************************************************************************)
EXTENDS Server, FiniteSetTheorems, TLAPS

(* What the steps rely on beside the properties themselves.  An outcome is  *)
(* recorded with the end of a session; main leaves its loop only for a      *)
(* cause; the total no longer moves once it has been read for the report.   *)
OutcomeLast ==
  \A c \in Conns : conn[c] \notin {"closing", "ended"} => outcome[c] = "none"

MainForCause ==
  /\ mainPc \in {"snapTotal", "snapErrors", "stopped"} => shutdown
  /\ mainPc \in {"unwinding", "failed"} => \E d \in Conns : conn[d] = "refused"

ReportSoFar ==
  /\ mainPc \in {"snapErrors", "stopped"} => snapTotal = total
  /\ snapErrors <= errors

Types ==
  /\ mainPc \in {"setup", "select", "snapTotal", "snapErrors", "stopped", "unwinding",
                "failed"}
  /\ ctrlc \in {"armed", "over"}
  /\ shutdown \in BOOLEAN
  /\ conn \in [Conns -> {"away", "queued", "handshake", "refused", "spawned",
                         "handling", "closing", "ended", "cancelled"}]
  /\ outcome \in [Conns -> {"none", "ok", "err", "shutdown"}]
  /\ snapTotal \in Nat /\ snapErrors \in Nat

IInv ==
  /\ Types
  /\ OutcomeLast
  /\ CountersMatchTasks
  /\ MainForCause
  /\ ReportSoFar
  /\ CutForCause

\* The sets that the counters count are finite, so the counters are naturals.
LEMMA FiniteCounts ==
  /\ IsFiniteSet(Accepted) /\ Cardinality(Accepted) \in Nat
  /\ IsFiniteSet(Counted) /\ Cardinality(Counted) \in Nat
  /\ IsFiniteSet(Erred) /\ Cardinality(Erred) \in Nat
<1>1. /\ Accepted \in SUBSET Conns
      /\ Counted \in SUBSET Conns
      /\ Erred \in SUBSET Conns
  BY DEF Accepted, Counted, Erred
<1> QED BY <1>1, ServerAssumption, FS_Subset, FS_CardinalityType

LEMMA CountersAreNaturals ==
  CountersMatchTasks => active \in Nat /\ total \in Nat /\ errors \in Nat
BY FiniteCounts DEF CountersMatchTasks

LEMMA InitIInv == Init => IInv
<1> SUFFICES ASSUME Init PROVE IInv
  OBVIOUS
<1>1. Accepted = {} /\ Counted = {} /\ Erred = {}
  BY DEF Init, Accepted, Counted, Erred
<1>2. CountersMatchTasks
  BY <1>1, FS_EmptySet DEF Init, CountersMatchTasks
<1>3. Types
  BY DEF Init, Types
<1>4. OutcomeLast /\ MainForCause /\ ReportSoFar /\ CutForCause
  BY DEF Init, OutcomeLast, MainForCause, ReportSoFar, CutForCause
<1> QED BY <1>2, <1>3, <1>4 DEF IInv

LEMMA StepTypes == Types /\ CountersMatchTasks /\ [Next]_vars => Types'
<1> SUFFICES ASSUME Types, CountersMatchTasks, [Next]_vars PROVE Types'
  OBVIOUS
<1> USE CountersAreNaturals DEF Types, counters, snap
<1>1. CASE CtrlC \/ CtrlCOver \/ MainStep
  BY <1>1 DEF CtrlC, CtrlCOver, MainStep, EnterLoop, SelectShutdown, SnapTotal,
     SnapErrors, Unwind
<1>2. ASSUME NEW c \in Conns, Arrive(c) \/ TakeIncoming(c) \/ HandshakeOk(c)
      PROVE Types'
  BY <1>2 DEF Arrive, TakeIncoming, HandshakeOk
<1>3. ASSUME NEW c \in Conns, HandshakeFail(c) PROVE Types'
  BY <1>3 DEF HandshakeFail
<1>4. ASSUME NEW c \in Conns, HandlerOk(c) \/ HandlerErr(c) PROVE Types'
  BY <1>4 DEF HandlerOk, HandlerErr, Branch
<1>5. ASSUME NEW c \in Conns, ViewerStep(c) PROVE Types'
  BY <1>5 DEF ViewerStep, FirstPoll, ViewerShutdown, Branch, Closed, RuntimeCancel
<1>6. CASE UNCHANGED vars
  BY <1>6 DEF vars
<1> HIDE DEF Types
<1> QED BY <1>1, <1>2, <1>3, <1>4, <1>5, <1>6 DEF Next, MainStep, ViewerStep

LEMMA StepCounters == IInv /\ [Next]_vars => CountersMatchTasks'
<1> SUFFICES ASSUME IInv, [Next]_vars PROVE CountersMatchTasks'
  OBVIOUS
<1> USE DEF IInv
<1>0. Types /\ CountersMatchTasks /\ OutcomeLast
  OBVIOUS
\* Steps that leave the counters and the sets they count alone.
<1>1. ASSUME Accepted' = Accepted, Counted' = Counted, Erred' = Erred,
             active' = active, total' = total, errors' = errors
      PROVE CountersMatchTasks'
  BY <1>0, <1>1 DEF CountersMatchTasks
<1>2. CASE CtrlC \/ CtrlCOver \/ MainStep \/ UNCHANGED vars
  <2>1. conn' = conn /\ outcome' = outcome /\ UNCHANGED counters
    BY <1>2 DEF CtrlC, CtrlCOver, MainStep, EnterLoop, SelectShutdown,
       SnapTotal, SnapErrors, Unwind, vars, counters
  <2> QED BY <1>1, <2>1 DEF Accepted, Counted, Erred, counters
<1>3. ASSUME NEW c \in Conns,
             \/ Arrive(c) \/ TakeIncoming(c) \/ HandshakeFail(c)
             \/ FirstPoll(c) \/ RuntimeCancel(c)
      PROVE CountersMatchTasks'
  <2>1. UNCHANGED <<outcome, counters>>
    BY <1>3 DEF Arrive, TakeIncoming, HandshakeFail, FirstPoll, RuntimeCancel
  <2>2. CASE Arrive(c) \/ TakeIncoming(c) \/ HandshakeFail(c)
    <3>1. Accepted' = Accepted /\ Counted' = Counted
      BY <1>0, <2>2 DEF Types, Arrive, TakeIncoming, HandshakeFail, Accepted, Counted
    <3> QED BY <1>1, <2>1, <3>1 DEF Erred, counters
  <2>3. CASE FirstPoll(c) \/ RuntimeCancel(c)
    <3>1. Accepted' = Accepted /\ Counted' = Counted
      BY <1>0, <2>3 DEF Types, FirstPoll, RuntimeCancel, Accepted, Counted
    <3> QED BY <1>1, <2>1, <3>1 DEF Erred, counters
  <2> QED BY <1>3, <2>2, <2>3
<1>4. ASSUME NEW c \in Conns, HandshakeOk(c) PROVE CountersMatchTasks'
  <2>1. c \notin Accepted /\ c \notin Counted
    BY <1>4 DEF HandshakeOk, Accepted, Counted
  <2>2. Accepted' = Accepted \cup {c} /\ Counted' = Counted \cup {c}
    BY <1>0, <1>4 DEF Types, HandshakeOk, Accepted, Counted
  <2>3. /\ Cardinality(Accepted') = Cardinality(Accepted) + 1
        /\ Cardinality(Counted') = Cardinality(Counted) + 1
    BY <2>1, <2>2, FiniteCounts, FS_AddElement
  <2>4. Erred' = Erred /\ active' = active + 1 /\ total' = total + 1 /\ errors' = errors
    BY <1>4 DEF HandshakeOk, Erred
  <2> QED BY <1>0, <2>3, <2>4 DEF CountersMatchTasks
<1>5. ASSUME NEW c \in Conns, HandlerOk(c) \/ HandlerErr(c) \/ ViewerShutdown(c)
      PROVE CountersMatchTasks'
  <2>1. /\ c \in Accepted /\ c \in Counted /\ outcome[c] = "none"
        /\ conn' = [conn EXCEPT ![c] = "closing"]
        /\ active' = active /\ total' = total
    BY <1>0, <1>5 DEF HandlerOk, HandlerErr, ViewerShutdown, Branch, Accepted,
       Counted, OutcomeLast
  <2>2. Accepted' = Accepted /\ Counted' = Counted
    BY <1>0, <2>1 DEF Types, Accepted, Counted
  <2>3. CASE HandlerErr(c)
    <3>1. c \notin Erred /\ Erred' = Erred \cup {c}
      BY <1>0, <2>1, <2>3 DEF HandlerErr, Branch, Erred, Types
    <3>2. Cardinality(Erred') = Cardinality(Erred) + 1
      BY <3>1, FiniteCounts, FS_AddElement
    <3> QED BY <1>0, <2>1, <2>2, <2>3, <3>2 DEF HandlerErr, CountersMatchTasks
  <2>4. CASE HandlerOk(c) \/ ViewerShutdown(c)
    <3>1. Erred' = Erred /\ errors' = errors
      BY <1>0, <2>1, <2>4 DEF HandlerOk, ViewerShutdown, Branch, Erred, Types
    <3> QED BY <1>1, <2>1, <2>2, <3>1
  <2> QED BY <1>5, <2>3, <2>4
<1>6. ASSUME NEW c \in Conns, Closed(c) PROVE CountersMatchTasks'
  <2>1. c \in Accepted /\ c \in Counted
    BY <1>6 DEF Closed, Accepted, Counted
  <2>2. Accepted' = Accepted /\ Counted' = Counted \ {c}
    BY <1>0, <1>6 DEF Types, Closed, Accepted, Counted
  <2>3. Cardinality(Counted') = Cardinality(Counted) - 1
    BY <2>1, <2>2, FiniteCounts, FS_RemoveElement
  <2>4. Erred' = Erred /\ active' = active - 1 /\ total' = total /\ errors' = errors
    BY <1>6 DEF Closed, Erred
  <2> QED BY <1>0, <2>2, <2>3, <2>4 DEF CountersMatchTasks
<1> HIDE DEF IInv
<1> QED BY <1>2, <1>3, <1>4, <1>5, <1>6 DEF Next, MainStep, ViewerStep

LEMMA StepReport == IInv /\ [Next]_vars => ReportSoFar'
<1> SUFFICES ASSUME IInv, [Next]_vars PROVE ReportSoFar'
  OBVIOUS
<1>0. ReportSoFar /\ active \in Nat /\ total \in Nat /\ errors \in Nat /\ snapErrors \in Nat
  BY CountersAreNaturals DEF IInv, Types
<1> USE <1>0 DEF ReportSoFar, counters, snap
<1>1. CASE CtrlC \/ CtrlCOver \/ MainStep
  BY <1>1 DEF CtrlC, CtrlCOver, MainStep, EnterLoop, SelectShutdown, SnapTotal,
     SnapErrors, Unwind
<1>2. ASSUME NEW c \in Conns,
             Arrive(c) \/ TakeIncoming(c) \/ HandshakeFail(c) \/ HandshakeOk(c)
      PROVE ReportSoFar'
  BY <1>2 DEF Arrive, TakeIncoming, HandshakeFail, HandshakeOk
<1>3. ASSUME NEW c \in Conns, HandlerOk(c) \/ HandlerErr(c) PROVE ReportSoFar'
  BY <1>3 DEF HandlerOk, HandlerErr, Branch
<1>4. ASSUME NEW c \in Conns, ViewerStep(c) PROVE ReportSoFar'
  BY <1>4 DEF ViewerStep, FirstPoll, ViewerShutdown, Branch, Closed, RuntimeCancel
<1>5. CASE UNCHANGED vars
  BY <1>5 DEF vars
<1> HIDE DEF ReportSoFar
<1> QED BY <1>1, <1>2, <1>3, <1>4, <1>5 DEF Next, MainStep, ViewerStep

Causes == OutcomeLast /\ MainForCause /\ CutForCause

LEMMA StepCauses == IInv /\ [Next]_vars => Causes'
<1> SUFFICES ASSUME IInv, [Next]_vars PROVE Causes'
  OBVIOUS
<1>0. Types /\ OutcomeLast /\ MainForCause /\ CutForCause
  BY DEF IInv
<1>1. CASE CtrlC \/ CtrlCOver \/ MainStep
  BY <1>0, <1>1 DEF Causes, OutcomeLast, MainForCause, CutForCause, CtrlC,
     CtrlCOver, MainStep, EnterLoop, SelectShutdown, SnapTotal, SnapErrors, Unwind
<1>2. ASSUME NEW c \in Conns,
             Arrive(c) \/ TakeIncoming(c) \/ HandshakeOk(c) \/ FirstPoll(c)
      PROVE Causes'
  BY <1>0, <1>2 DEF Types, Causes, OutcomeLast, MainForCause, CutForCause, Arrive,
     TakeIncoming, HandshakeOk, FirstPoll
<1>3. ASSUME NEW c \in Conns, HandshakeFail(c) PROVE Causes'
  BY <1>0, <1>3 DEF Types, Causes, OutcomeLast, MainForCause, CutForCause,
     HandshakeFail
<1>4. ASSUME NEW c \in Conns, HandlerOk(c) \/ HandlerErr(c) PROVE Causes'
  BY <1>0, <1>4 DEF Types, Causes, OutcomeLast, MainForCause, CutForCause,
     HandlerOk, HandlerErr, Branch
<1>5. ASSUME NEW c \in Conns, ViewerShutdown(c) \/ RuntimeCancel(c) PROVE Causes'
  BY <1>0, <1>5 DEF Types, Causes, OutcomeLast, MainForCause, CutForCause,
     ViewerShutdown, RuntimeCancel, Branch, Abandoned, Ended
<1>6. ASSUME NEW c \in Conns, Closed(c) PROVE Causes'
  BY <1>0, <1>6 DEF Types, Causes, OutcomeLast, MainForCause, CutForCause, Closed
<1>7. CASE UNCHANGED vars
  BY <1>0, <1>7 DEF Causes, OutcomeLast, MainForCause, CutForCause, vars
<1> QED BY <1>1, <1>2, <1>3, <1>4, <1>5, <1>6, <1>7 DEF Next, MainStep

LEMMA StepIInv == IInv /\ [Next]_vars => IInv'
  BY StepTypes, StepCounters, StepReport, StepCauses DEF IInv, Causes

LEMMA BooksRight == IInv => CountersMatchTasks /\ FinalReport /\ CutForCause
  BY DEF IInv, ReportSoFar, FinalReport

\* The inductive invariant holds of every behaviour.
THEOREM Invariance == SafeSpec => []IInv
  BY InitIInv, StepIInv, PTL DEF SafeSpec

\* All variables keep their types; the gauge of active connections, which the
\* code decrements without a check, never falls below zero (metrics.rs:64-68).
THEOREM TypeCorrect == SafeSpec => []TypeOK
<1>1. IInv => TypeOK
  BY CountersAreNaturals DEF IInv, Types, TypeOK
<1> QED BY <1>1, Invariance, PTL

\* Whatever the interleaving of accepts, sessions and shutdown, the counters
\* are the numbers of viewers they stand for (metrics.rs:55-72).
THEOREM CountersCorrect == SafeSpec => []CountersMatchTasks
  BY BooksRight, Invariance, PTL

\* The report that main logs while viewers still run is right about all
\* acceptances and never ahead of the errors (main.rs:112-117).
THEOREM ReportCorrect == SafeSpec => []FinalReport
  BY BooksRight, Invariance, PTL

\* No viewer is cut off but by a requested shutdown or by the exit that a
\* failed handshake causes (main.rs:82, 98-108).
THEOREM CutOnlyForCause == SafeSpec => []CutForCause
  BY BooksRight, Invariance, PTL

-----------------------------------------------------------------------------
(* Server implements ShutdownLatch: main and the viewers' tasks are its     *)
(* waiters.                                                                 *)

LEMMA InitLatch == Init => Latch!Init
<1> SUFFICES ASSUME Init PROVE Latch!Init
  OBVIOUS
<1>1. ServerPhase = "running"
  BY DEF Init, ServerPhase, Abandoned, Ended
<1>2. ServerWaiter =
        [t \in Conns \cup {Main} |-> IF t \in {Main} THEN "idle" ELSE "absent"]
  BY ServerAssumption DEF Init, ServerWaiter, MainWaiter, ViewerWaiter
<1>3. {Main} \in SUBSET (Conns \cup {Main})
  OBVIOUS
<1> QED BY <1>1, <1>2, <1>3 DEF Latch!Init

\* A step of the main task moves its waiter only.
LEMMA MainMoves ==
  ASSUME UNCHANGED <<conn, outcome>>
  PROVE  ServerWaiter' = [ServerWaiter EXCEPT ![Main] = MainWaiter']
BY ServerAssumption DEF ServerWaiter, ViewerWaiter

LEMMA WaiterValues ==
  /\ ServerWaiter[Main] = MainWaiter
  /\ \A c \in Conns : ServerWaiter[c] = ViewerWaiter(c)
BY ServerAssumption DEF ServerWaiter

LEMMA StepLatch == IInv /\ [Next]_vars => [Latch!Next]_(Latch!vars)
<1> SUFFICES ASSUME IInv, [Next]_vars PROVE [Latch!Next]_(Latch!vars)
  OBVIOUS
<1>0. Types /\ OutcomeLast /\ MainForCause
  BY DEF IInv
<1> DEFINE Same == UNCHANGED Latch!vars
\* The Ctrl+C task.
<1>1. CASE CtrlC
  <2>1. ServerWaiter' = ServerWaiter /\ ServerPhase' = "requested"
    BY <1>1 DEF CtrlC, ServerWaiter, MainWaiter, ViewerWaiter, ServerPhase
  <2>2. ServerPhase \in {"requested", "running"}
    BY <1>1 DEF CtrlC, ServerPhase, Abandoned
  <2> QED BY <2>1, <2>2 DEF Latch!Next, Latch!Request, Latch!vars
<1>2. CASE CtrlCOver
  <2>1. ServerWaiter' = ServerWaiter
    BY <1>2 DEF CtrlCOver, ServerWaiter, MainWaiter, ViewerWaiter
  <2>2. \/ ServerPhase' = ServerPhase
        \/ ServerPhase = "running" /\ ServerPhase' = "abandoned"
    <3>1. shutdown' = shutdown /\ (Abandoned => Abandoned')
      BY <1>2 DEF CtrlCOver, Abandoned, Ended
    <3> QED BY <3>1 DEF ServerPhase
  <2> QED BY <2>1, <2>2 DEF Latch!Next, Latch!Abandon, Latch!vars
\* The main task.
<1>3. CASE EnterLoop
  <2>1. ServerPhase' = ServerPhase
    BY <1>3 DEF EnterLoop, ServerPhase, Abandoned, Ended
  <2>2. ServerWaiter[Main] = "idle" /\ MainWaiter' = "waiting"
    BY <1>3, WaiterValues DEF EnterLoop, MainWaiter
  <2>3. Latch!Wait(Main)
    BY <1>3, <2>1, <2>2, MainMoves DEF EnterLoop, Latch!Wait, Latch!Move
  <2> QED BY <2>3 DEF Latch!Next
<1>4. CASE SelectShutdown
  <2>1. ServerPhase' = ServerPhase /\ ServerPhase = "requested"
    BY <1>4 DEF SelectShutdown, ServerPhase
  <2>2. ServerWaiter[Main] = "waiting" /\ MainWaiter' = "released"
    BY <1>4, WaiterValues DEF SelectShutdown, MainWaiter
  <2>3. Latch!Release(Main)
    BY <1>4, <2>1, <2>2, MainMoves DEF SelectShutdown, Latch!Release, Latch!Move
  <2> QED BY <2>3 DEF Latch!Next
<1>5. CASE SnapTotal \/ SnapErrors
  <2>1. MainWaiter' = MainWaiter
    BY <1>5 DEF SnapTotal, SnapErrors, MainWaiter
  <2>2. ServerWaiter' = ServerWaiter
    BY <1>5, <2>1 DEF SnapTotal, SnapErrors, ServerWaiter, ViewerWaiter
  <2>3. ServerPhase' = ServerPhase
    BY <1>0, <1>5 DEF MainForCause, SnapTotal, SnapErrors, ServerPhase
  <2> QED BY <2>2, <2>3 DEF Latch!vars
<1>6. CASE Unwind
  <2>1. MainWaiter' = MainWaiter
    BY <1>6 DEF Unwind, MainWaiter
  <2>2. ServerWaiter' = ServerWaiter
    BY <1>6, <2>1 DEF Unwind, ServerWaiter, ViewerWaiter
  <2>3. \/ ServerPhase' = ServerPhase
        \/ ServerPhase = "running" /\ ServerPhase' = "abandoned"
    <3>1. shutdown' = shutdown /\ (Abandoned => Abandoned')
      BY <1>6 DEF Unwind, Abandoned, Ended
    <3> QED BY <3>1 DEF ServerPhase
  <2> QED BY <2>2, <2>3 DEF Latch!Next, Latch!Abandon, Latch!vars
\* A client's connection.
<1>7. ASSUME NEW c \in Conns, Arrive(c) \/ TakeIncoming(c) PROVE Same
  <2>1. ServerWaiter' = ServerWaiter
    BY <1>0, <1>7 DEF Types, Arrive, TakeIncoming, ServerWaiter, ViewerWaiter, MainWaiter
  <2>2. ServerPhase' = ServerPhase
    BY <1>7 DEF Arrive, TakeIncoming, ServerPhase, Abandoned, Ended
  <2> QED BY <2>1, <2>2 DEF Latch!vars
<1>8. ASSUME NEW c \in Conns, HandshakeFail(c) PROVE Latch!Detach(Main)
  <2>1. ServerPhase' = ServerPhase
    BY <1>8 DEF HandshakeFail, ServerPhase, Abandoned, Ended
  <2>2. ServerWaiter' = [ServerWaiter EXCEPT ![Main] = "absent"]
    BY <1>0, <1>8, ServerAssumption
       DEF Types, HandshakeFail, ServerWaiter, ViewerWaiter, MainWaiter
  <2>3. ServerWaiter[Main] = "waiting"
    BY <1>8, WaiterValues DEF HandshakeFail, MainWaiter
  <2> QED BY <2>1, <2>2, <2>3 DEF Latch!Detach, Latch!Move, Latch!WaiterStates
<1>9. ASSUME NEW c \in Conns, HandshakeOk(c) PROVE Latch!Attach(c)
  <2>1. ServerPhase' = ServerPhase
    BY <1>9 DEF HandshakeOk, ServerPhase, Abandoned, Ended
  <2>2. ServerWaiter' = [ServerWaiter EXCEPT ![c] = "idle"]
    BY <1>0, <1>9, ServerAssumption
       DEF Types, HandshakeOk, ServerWaiter, ViewerWaiter, MainWaiter
  <2>3. ServerWaiter[c] = "absent"
    BY <1>9, WaiterValues DEF HandshakeOk, ViewerWaiter
  <2> QED BY <2>1, <2>2, <2>3 DEF Latch!Attach, Latch!Move
\* A viewer's task.
<1>10. ASSUME NEW c \in Conns, FirstPoll(c) PROVE Latch!Wait(c)
  <2>1. ServerPhase' = ServerPhase
    BY <1>10 DEF FirstPoll, ServerPhase, Abandoned, Ended
  <2>2. ServerWaiter' = [ServerWaiter EXCEPT ![c] = "waiting"]
    BY <1>0, <1>10, ServerAssumption
       DEF Types, FirstPoll, ServerWaiter, ViewerWaiter, MainWaiter
  <2>3. ServerWaiter[c] = "idle"
    BY <1>10, WaiterValues DEF FirstPoll, ViewerWaiter
  <2> QED BY <2>1, <2>2, <2>3 DEF Latch!Wait, Latch!Move
<1>11. ASSUME NEW c \in Conns, HandlerOk(c) \/ HandlerErr(c) PROVE Latch!Detach(c)
  <2>1. ServerPhase' = ServerPhase
    BY <1>11 DEF HandlerOk, HandlerErr, Branch, ServerPhase, Abandoned, Ended
  <2>2. PICK result \in {"ok", "err"} : Branch(c, result)
    BY <1>11 DEF HandlerOk, HandlerErr
  <2>3. ServerWaiter' = [ServerWaiter EXCEPT ![c] = "absent"]
    BY <1>0, <2>2, ServerAssumption
       DEF Types, Branch, ServerWaiter, ViewerWaiter, MainWaiter
  <2>4. ServerWaiter[c] = "waiting"
    BY <2>2, WaiterValues DEF Branch, ViewerWaiter
  <2> QED BY <2>1, <2>3, <2>4 DEF Latch!Detach, Latch!Move, Latch!WaiterStates
<1>12. ASSUME NEW c \in Conns, ViewerShutdown(c) PROVE Latch!Release(c)
  <2>1. ServerPhase' = ServerPhase /\ ServerPhase # "running"
    BY <1>12 DEF ViewerShutdown, Branch, ServerPhase, Abandoned, Ended
  <2>2. ServerWaiter' = [ServerWaiter EXCEPT ![c] = "released"]
    BY <1>0, <1>12, ServerAssumption
       DEF Types, ViewerShutdown, Branch, ServerWaiter, ViewerWaiter, MainWaiter
  <2>3. ServerWaiter[c] = "waiting"
    BY <1>12, WaiterValues DEF ViewerShutdown, Branch, ViewerWaiter
  <2> QED BY <2>1, <2>2, <2>3 DEF Latch!Release, Latch!Move
<1>13. ASSUME NEW c \in Conns, Closed(c) \/ RuntimeCancel(c)
       PROVE Latch!Detach(c) \/ Same
  <2>1. ServerPhase' = ServerPhase
    BY <1>13 DEF Closed, RuntimeCancel, ServerPhase, Abandoned, Ended
  <2>2. ServerWaiter' = [ServerWaiter EXCEPT ![c] = "absent"]
    BY <1>0, <1>13, ServerAssumption
       DEF Types, Closed, RuntimeCancel, ServerWaiter, ViewerWaiter, MainWaiter
  <2>3. ServerWaiter[c] \in {"idle", "waiting", "released", "absent"}
    BY WaiterValues DEF ViewerWaiter
  <2>4. CASE ServerWaiter[c] = "absent"
    <3>1. ServerWaiter' = ServerWaiter
      BY <2>2, <2>4 DEF ServerWaiter
    <3> QED BY <2>1, <3>1 DEF Latch!vars
  <2>5. CASE ServerWaiter[c] # "absent"
    BY <2>1, <2>2, <2>3, <2>5 DEF Latch!Detach, Latch!Move, Latch!WaiterStates
  <2> QED BY <2>4, <2>5
<1>14. CASE UNCHANGED vars
  BY <1>14 DEF vars, Latch!vars, ServerWaiter, MainWaiter, ViewerWaiter,
     ServerPhase, Abandoned
<1> QED
  BY <1>1, <1>2, <1>3, <1>4, <1>5, <1>6, <1>7, <1>8, <1>9, <1>10, <1>11, <1>12,
     <1>13, <1>14 DEF Next, Latch!Next

\* Every wait of the server's tasks ends as the latch says: not before a
\* request, or the end of all controllers (main.rs:98-108).
THEOREM ImplementsLatchSafety == SafeSpec => Latch!SafeSpec
<1>1. QED BY InitLatch, StepLatch, Invariance, PTL DEF SafeSpec, Latch!SafeSpec
=============================================================================
