-------------------------- MODULE ServedSessionProofs --------------------------
(***************************************************************************)
(* A served session is a session of ControlExchange and a task of Server   *)
(* at once, for any clients, stamps and limits: each step of the           *)
(* composition is a step of each part or leaves it alone.  So the session  *)
(* inherits the invariant of ControlExchangeProofs, and what is left to    *)
(* prove is how the task's stage and the session's stage go together.      *)
(***************************************************************************)
EXTENDS ServedSession, TLAPS

LEMMA WatchedIsConn == Watched \in Conns
  BY SessionAssumption

\* The composition is made of the steps of its parts, so each part's invariant
\* can be taken over: first the session's (main.rs:81-110, 184-221).
LEMMA StepsOfSession == SafeSpec => X!SafeSpec
<1>1. Init => X!Init
  BY DEF Init
<1>2. [Next]_vars => [X!Next]_(X!vars)
  <2> SUFFICES ASSUME [Next]_vars PROVE X!Next \/ UNCHANGED X!vars
    OBVIOUS
  <2>1. CASE ServerStep \/ UNCHANGED vars
    BY <2>1 DEF ServerStep, vars, sessionVars, X!vars
  <2>2. CASE SessionStep
    <3>1. CASE Network
      BY <3>1 DEF Network, X!Next, X!Sides
    <3>2. CASE ViewerSide
      BY <3>2 DEF ViewerSide, X!Next, X!Viewer
    <3>3. CASE HostSide \/ HostGone
      BY <3>3 DEF HostSide, HostGone, X!Next, X!Host
    <3> QED BY <2>2, <3>1, <3>2, <3>3 DEF SessionStep
  <2>3. CASE SessionOk \/ SessionErr
    BY <2>3 DEF SessionOk, SessionErr, X!Next, X!Host
  <2>4. CASE Cut
    BY <2>4 DEF Cut, X!Next
  <2>5. CASE Refused
    BY <2>5 DEF Refused, X!Next, X!Sides
  <2> QED BY <2>1, <2>2, <2>3, <2>4, <2>5 DEF Next
<1> QED BY <1>1, <1>2, PTL DEF SafeSpec, X!SafeSpec

\* Then the server's (main.rs:78-117).
LEMMA StepsOfServer == SafeSpec => S!SafeSpec
<1>1. Init => S!Init
  BY DEF Init
<1>2. [Next]_vars => [S!Next]_(S!vars)
  <2> SUFFICES ASSUME [Next]_vars PROVE S!Next \/ UNCHANGED S!vars
    OBVIOUS
  <2> USE WatchedIsConn
  <2>1. CASE SessionStep \/ UNCHANGED vars
    BY <2>1 DEF SessionStep, vars, serverVars, S!vars, S!counters, S!snap
  <2>2. CASE ServerStep
    <3>1. CASE S!CtrlC \/ S!CtrlCOver \/ S!MainStep
      BY <3>1 DEF S!Next, S!MainStep
    <3>2. ASSUME NEW c \in Conns, Elsewhere(c) PROVE S!Next
      BY <3>2 DEF Elsewhere, S!Next
    <3> QED BY <2>2, <3>1, <3>2 DEF ServerStep
  <2>3. CASE SessionOk \/ SessionErr \/ Cut \/ Refused
    BY <2>3 DEF SessionOk, SessionErr, Cut, Refused, S!Next
  <2> QED BY <2>1, <2>2, <2>3 DEF Next
<1> QED BY <1>1, <1>2, PTL DEF SafeSpec, S!SafeSpec

-----------------------------------------------------------------------------
(* What the session inherits                                               *)

XP == INSTANCE ControlExchangeProofs WITH conn <- link, Disturbed <- TRUE

\* The two instances say the same.
LEMMA SameInit == X!Init <=> XP!Init
  BY DEF X!Init, XP!Init, X!PingPlan, XP!PingPlan, X!OtherPlans, XP!OtherPlans,
         X!Video, XP!Video, X!Input, XP!Input, X!Unknown, XP!Unknown,
         X!TooLarge, XP!TooLarge, X!OtherMessage, XP!OtherMessage,
         X!Garbage, XP!Garbage, X!Truncated, XP!Truncated, X!Unit, XP!Unit,
         X!Ping, XP!Ping, X!Sides, XP!Sides

LEMMA SameNext == [X!Next]_(X!vars) <=> [XP!Next]_(XP!vars)
  BY DEF X!vars, XP!vars, X!Next, XP!Next, X!Sides, XP!Sides, X!Peer, XP!Peer,
         X!Unit, XP!Unit, X!Ping, XP!Ping, X!Pong, XP!Pong,
         X!ViewerReads, XP!ViewerReads, X!HostReads, XP!HostReads,
         X!Leaving, XP!Leaving, X!CloseSide, XP!CloseSide, X!Front, XP!Front,
         X!Read, XP!Read, X!Write, XP!Write, X!NothingToRead, XP!NothingToRead,
         X!Deliver, XP!Deliver, X!LearnClosed, XP!LearnClosed,
         X!Quiet, XP!Quiet, X!IdleTimeout, XP!IdleTimeout, X!Viewer, XP!Viewer,
         X!ViewerWrite, XP!ViewerWrite, X!ViewerFails, XP!ViewerFails,
         X!ViewerReadLen, XP!ViewerReadLen,
         X!ViewerReadBody, XP!ViewerReadBody, X!Host, XP!Host,
         X!HostAccept, XP!HostAccept, X!HostReadLen, XP!HostReadLen,
         X!HostReadBody, XP!HostReadBody, X!HostReplyLen, XP!HostReplyLen,
         X!HostReplyBody, XP!HostReplyBody, X!HostFails, XP!HostFails,
         X!HostCut, XP!HostCut, X!HostDrop, XP!HostDrop,
         X!HostWrites, XP!HostWrites

LEMMA SessionInvariance == SafeSpec => []XP!IInv
<1>1. Stamps \subseteq Nat \ {0} /\ OtherViewers \in BOOLEAN
  BY SessionAssumption
<1>2. X!Init => XP!IInv
  BY <1>1, SameInit, XP!InitKeeps
<1>3. XP!IInv /\ [X!Next]_(X!vars) => XP!IInv'
  BY <1>1, SameNext, XP!StepKeeps
<1> QED  BY <1>2, <1>3, StepsOfSession, PTL DEF X!SafeSpec

\* In the books or not, a served viewer that finishes has the Pong to its own Ping,
\* and its host has the result that it deserves (main.rs:142-152, 184-221).
THEOREM ServedSessionsRight == SafeSpec => [](X!PongAnswersPing /\ X!HostResultJust)
<1>1. Stamps \subseteq Nat \ {0} /\ OtherViewers \in BOOLEAN
  BY SessionAssumption
<1>2. XP!IInv => XP!PongAnswersPing /\ XP!HostResultJust
  BY <1>1, XP!AnswersRightNow, XP!ResultJustNow
<1>3. XP!PongAnswersPing <=> X!PongAnswersPing
  BY DEF XP!PongAnswersPing, X!PongAnswersPing, XP!HostWrites, X!HostWrites, XP!IsPing, X!IsPing, X!PingPlan, XP!PingPlan,
         X!Pong, XP!Pong, X!Unit, XP!Unit, X!Ping, XP!Ping
<1>4. XP!HostResultJust <=> X!HostResultJust
  BY DEF XP!HostResultJust, X!HostResultJust, XP!OnItsWay, X!OnItsWay,
         XP!Unanswered, X!Unanswered, X!Video, XP!Video, X!Input, XP!Input,
         X!OtherMessage, XP!OtherMessage, XP!IsPing, X!IsPing, X!PingPlan, XP!PingPlan,
         X!Pong, XP!Pong, X!Ping, XP!Ping, X!Unknown, XP!Unknown, X!TooLarge, XP!TooLarge,
         X!Garbage, XP!Garbage, X!Unit, XP!Unit
<1> QED  BY <1>2, <1>3, <1>4, SessionInvariance, PTL

-----------------------------------------------------------------------------
(* What the server inherits                                                *)

SP == INSTANCE ServerProofs

LEMMA ServerSameInit == S!Init <=> SP!Init
  BY DEF S!Init, SP!Init

LEMMA ServerSameNext == [S!Next]_(S!vars) <=> [SP!Next]_(SP!vars)
  BY DEF S!vars, SP!vars, S!counters, SP!counters, S!snap, SP!snap, S!Next, SP!Next,
         S!Ended, SP!Ended, S!Abandoned, SP!Abandoned, S!CtrlC, SP!CtrlC,
         S!CtrlCOver, SP!CtrlCOver, S!EnterLoop, SP!EnterLoop,
         S!SelectShutdown, SP!SelectShutdown, S!SnapTotal, SP!SnapTotal,
         S!SnapErrors, SP!SnapErrors, S!Unwind, SP!Unwind, S!Arrive, SP!Arrive,
         S!TakeIncoming, SP!TakeIncoming, S!HandshakeFail, SP!HandshakeFail,
         S!HandshakeOk, SP!HandshakeOk, S!FirstPoll, SP!FirstPoll, S!Branch, SP!Branch,
         S!HandlerOk, SP!HandlerOk, S!HandlerErr, SP!HandlerErr,
         S!ViewerShutdown, SP!ViewerShutdown, S!Closed, SP!Closed,
         S!RuntimeCancel, SP!RuntimeCancel

\* With real sessions in the place of free outcomes the counters are still the
\* numbers of viewers they stand for, the report is right and no viewer is cut
\* but for a cause (main.rs:82-117, metrics.rs:55-72).
THEOREM ServedBooksRight ==
  SafeSpec => [](S!CountersMatchTasks /\ S!FinalReport /\ S!CutForCause)
<1>1. SP!IsFiniteSet(Conns) /\ Main \notin Conns
  BY SessionAssumption DEF IsFiniteSet, SP!IsFiniteSet
<1>2. S!Init => SP!IInv
  BY <1>1, ServerSameInit, SP!InitIInv
<1>3. SP!IInv /\ [S!Next]_(S!vars) => SP!IInv'
  BY <1>1, ServerSameNext, SP!StepIInv
<1>4. SP!IInv => SP!CountersMatchTasks /\ SP!FinalReport /\ SP!CutForCause
  BY <1>1, SP!BooksRight
<1>5. SP!CountersMatchTasks <=> S!CountersMatchTasks
  <2>1. SP!Accepted = S!Accepted /\ SP!Erred = S!Erred
    BY DEF SP!Accepted, S!Accepted, SP!Erred, S!Erred
  <2>2. SP!Counted = S!Counted
    BY <2>1 DEF SP!Counted, S!Counted
  <2> QED
    BY <2>1, <2>2
    DEF SP!CountersMatchTasks, S!CountersMatchTasks, SP!Cardinality, S!Cardinality
<1>6. SP!FinalReport /\ SP!CutForCause <=> S!FinalReport /\ S!CutForCause
  BY DEF SP!FinalReport, S!FinalReport, SP!CutForCause, S!CutForCause
<1> QED
  BY <1>2, <1>3, <1>4, <1>5, <1>6, StepsOfServer, PTL DEF S!SafeSpec

-----------------------------------------------------------------------------
(* Task and session                                                        *)

Stages == {"away", "queued", "handshake", "refused", "spawned", "handling",
           "closing", "ended", "cancelled"}
Results == {"none", "ok", "err", "shutdown"}

\* How far the task is tells where its session can be: at its start until the
\* task runs it, and where the task's result says once that is over.
Unstarted == {"away", "queued", "handshake", "refused", "spawned"}
Running == {"accept", "readLen", "readBody", "replyLen", "replyBody", "dropOk", "dropErr"}

Together(task, result, session) ==
  \/ task \in Unstarted /\ result = "none" /\ session = "accept"
  \/ task = "handling" /\ result = "none" /\ session \in Running
  \/ task \in {"closing", "ended"} /\ result = "ok" /\ session = "ok"
  \/ task \in {"closing", "ended"} /\ result = "err" /\ session = "err"
  \/ task \in {"closing", "ended"} /\ result = "shutdown" /\ session \in {"dropCut", "cut"}
  \/ task = "cancelled" /\ session \in {"dropCut", "cut"}

TaskTells ==
  /\ conn \in [Conns -> Stages] /\ outcome \in [Conns -> Results]
  /\ Together(conn[Watched], outcome[Watched], host)

\* A step of the server alone leaves the watched session where it is.
LEMMA ServerStepKeeps ==
  ASSUME TaskTells, ServerStep
  PROVE  TaskTells'
<1>1. host' = host
  BY DEF ServerStep, sessionVars
<1>2. CASE S!CtrlC \/ S!CtrlCOver \/ S!MainStep
  <2>1. UNCHANGED <<conn, outcome>>
    BY <1>2 DEF S!CtrlC, S!CtrlCOver, S!MainStep, S!EnterLoop, S!SelectShutdown,
       S!SnapTotal, S!SnapErrors, S!Unwind
  <2> QED  BY <1>1, <2>1 DEF TaskTells
<1>3. ASSUME NEW c \in Conns, Elsewhere(c)
      PROVE  TaskTells'
  <2>1. CASE S!Arrive(c) \/ S!TakeIncoming(c) \/ S!HandshakeOk(c)
    <3>1. /\ conn[c] \in Unstarted /\ outcome' = outcome
          /\ \E st \in Unstarted : conn' = [conn EXCEPT ![c] = st]
      BY <2>1 DEF S!Arrive, S!TakeIncoming, S!HandshakeOk, Unstarted
    <3> QED  BY <1>1, <3>1, WatchedIsConn DEF TaskTells, Together, Stages, Unstarted
  <2>2. CASE S!FirstPoll(c)
    <3>1. /\ conn[c] = "spawned" /\ outcome' = outcome
          /\ conn' = [conn EXCEPT ![c] = "handling"]
      BY <2>2 DEF S!FirstPoll
    <3> QED  BY <1>1, <3>1, WatchedIsConn
             DEF TaskTells, Together, Stages, Unstarted, Running
  <2>3. CASE S!Closed(c)
    <3>1. /\ conn[c] = "closing" /\ outcome' = outcome
          /\ conn' = [conn EXCEPT ![c] = "ended"]
      BY <2>3 DEF S!Closed
    <3> QED  BY <1>1, <3>1, WatchedIsConn
             DEF TaskTells, Together, Stages, Unstarted, Running
  <2>4. CASE c # Watched /\ \/ S!HandshakeFail(c) \/ S!HandlerOk(c) \/ S!HandlerErr(c)
                            \/ S!ViewerShutdown(c) \/ S!RuntimeCancel(c)
    <3>1. /\ \E st \in Stages : conn' = [conn EXCEPT ![c] = st]
          /\ \/ outcome' = outcome
             \/ \E r \in Results : outcome' = [outcome EXCEPT ![c] = r]
      BY <2>4 DEF S!HandshakeFail, S!HandlerOk, S!HandlerErr, S!ViewerShutdown,
         S!RuntimeCancel, S!Branch, Stages, Results
    <3> QED  BY <1>1, <2>4, <3>1, WatchedIsConn DEF TaskTells
  <2> QED  BY <1>3, <2>1, <2>2, <2>3, <2>4 DEF Elsewhere
<1> QED  BY <1>2, <1>3 DEF ServerStep

\* A step of the session alone stays within what its task runs.
LEMMA SessionStepKeeps ==
  ASSUME TaskTells, SessionStep
  PROVE  TaskTells'
<1>1. UNCHANGED <<conn, outcome>>
  BY DEF SessionStep, serverVars
<1>2. CASE Network \/ ViewerSide
  <2>1. host' = host
    BY <1>2 DEF Network, ViewerSide, X!Deliver, X!LearnClosed, X!IdleTimeout,
       X!ViewerWrite, X!ViewerFails, X!ViewerReadLen, X!ViewerReadBody
  <2> QED  BY <1>1, <2>1 DEF TaskTells
<1>3. CASE HostSide
  <2>1. conn[Watched] = "handling" /\ host' \in Running
    BY <1>3 DEF HostSide, Running, X!HostAccept, X!HostReadLen, X!HostReadBody,
       X!HostReplyLen, X!HostReplyBody, X!HostFails
  <2> QED  BY <1>1, <2>1 DEF TaskTells, Together, Unstarted
<1>4. CASE HostGone
  <2>1. host = "dropCut" /\ host' = "cut"
    BY <1>4 DEF HostGone, X!HostDrop, X!Leaving
  <2> QED  BY <1>1, <2>1 DEF TaskTells, Together, Running
<1> QED  BY <1>2, <1>3, <1>4 DEF SessionStep

\* The steps of both move task and session together.
LEMMA JointStepKeeps ==
  ASSUME TaskTells, SessionOk \/ SessionErr \/ Cut \/ Refused
  PROVE  TaskTells'
<1> USE WatchedIsConn
<1>1. CASE SessionOk
  <2>1. /\ conn' = [conn EXCEPT ![Watched] = "closing"]
        /\ outcome' = [outcome EXCEPT ![Watched] = "ok"]
        /\ host' = "ok"
    BY <1>1 DEF SessionOk, S!HandlerOk, S!Branch, X!HostDrop, X!Leaving
  <2> QED  BY <2>1 DEF TaskTells, Together, Stages, Results
<1>2. CASE SessionErr
  <2>1. /\ conn' = [conn EXCEPT ![Watched] = "closing"]
        /\ outcome' = [outcome EXCEPT ![Watched] = "err"]
        /\ host' = "err"
    BY <1>2 DEF SessionErr, S!HandlerErr, S!Branch, X!HostDrop, X!Leaving
  <2> QED  BY <2>1 DEF TaskTells, Together, Stages, Results
<1>3. CASE S!ViewerShutdown(Watched) /\ X!HostCut
  <2>1. /\ conn' = [conn EXCEPT ![Watched] = "closing"]
        /\ outcome' = [outcome EXCEPT ![Watched] = "shutdown"]
        /\ host' = "dropCut"
    BY <1>3 DEF S!ViewerShutdown, S!Branch, X!HostCut
  <2> QED  BY <2>1 DEF TaskTells, Together, Stages, Results
<1>4. CASE S!RuntimeCancel(Watched) /\ X!HostCut
  <2>1. /\ conn' = [conn EXCEPT ![Watched] = "cancelled"]
        /\ outcome' = outcome
        /\ host' = "dropCut"
    BY <1>4 DEF S!RuntimeCancel, X!HostCut
  <2> QED  BY <2>1 DEF TaskTells, Together, Stages, Results
<1>5. CASE Refused
  <2>1. /\ conn[Watched] = "handshake"
        /\ conn' = [conn EXCEPT ![Watched] = "refused"]
        /\ outcome' = outcome /\ host' = host
    BY <1>5 DEF Refused, S!HandshakeFail, X!IdleTimeout
  <2> QED  BY <2>1 DEF TaskTells, Together, Stages, Unstarted
<1> QED  BY <1>1, <1>2, <1>3, <1>4, <1>5 DEF Cut

LEMMA TaskInvariance == SafeSpec => []TaskTells
<1>1. Init => TaskTells
  BY WatchedIsConn
     DEF Init, S!Init, X!Init, TaskTells, Together, Unstarted, Stages, Results
<1>2. TaskTells /\ [Next]_vars => TaskTells'
  <2>1. ASSUME TaskTells, UNCHANGED vars
        PROVE  TaskTells'
    BY <2>1 DEF vars, serverVars, sessionVars, TaskTells
  <2> QED  BY <2>1, ServerStepKeeps, SessionStepKeeps, JointStepKeeps DEF Next
<1> QED  BY <1>1, <1>2, PTL DEF SafeSpec

\* A viewer that has its answer is in the books as served, whatever ends the
\* host at that moment: a session may be cut before its reply and in the middle
\* of it, but after the last write handle_viewer returns without another await,
\* and the select! takes its result (main.rs:81-110, 184-221).
THEOREM AnswersAreServed == SafeSpec => []AnswerIsService
<1>1. ASSUME XP!IInv, TaskTells
      PROVE  AnswerIsService
  <2> SUFFICES ASSUME viewer = "done"
               PROVE  AnswerIsService
    BY DEF AnswerIsService
  <2>1. host \in {"dropOk", "ok"}
    BY <1>1, SessionAssumption, XP!AnsweredByHost
  <2>2. \/ conn[Watched] = "handling" /\ outcome[Watched] = "none"
        \/ conn[Watched] \in {"closing", "ended"} /\ outcome[Watched] = "ok"
    BY <1>1, <2>1 DEF TaskTells, Together, Running
  <2> QED  BY <2>2, WatchedIsConn DEF AnswerIsService, S!Accepted
<1> QED  BY <1>1, SessionInvariance, TaskInvariance, PTL
=============================================================================
