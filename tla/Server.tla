------------------------------- MODULE Server -------------------------------
(***************************************************************************)
(* `quicview serve` (crates/quicview-cli/src/main.rs): the accept loop of  *)
(* the main task, the Ctrl+C task, one task per viewer, and the runtime    *)
(* that cancels the tasks that are left when main returns.  The shutdown   *)
(* channel is the latch that Shutdown implements; the connection counters  *)
(* are those of crates/quicview/src/metrics.rs.  What a viewer's session   *)
(* says is left to ControlExchange: here it ends well, ends in an error,   *)
(* or goes on.  Handshakes are quinn's and may fail at any time.  Nothing  *)
(* reads network.max_connections (config.rs:24): it bounds no viewers.     *)
(***************************************************************************)
EXTENDS Integers, FiniteSets

CONSTANTS
  Conns,           \* the connection attempts of a run, each made once
  Main             \* the main task, as a holder of a shutdown signal

ASSUME ServerAssumption ==
  /\ IsFiniteSet(Conns)
  /\ Main \notin Conns

VARIABLES
  mainPc,          \* where the main task is
  ctrlc,           \* the Ctrl+C task: "armed" or "over"
  shutdown,        \* the shutdown channel has been triggered
  conn,            \* per attempt: how far it has come
  outcome,         \* per attempt: which branch of its task's select! won
  active, total, errors,        \* the shared counters
  snapTotal, snapErrors         \* the snapshot main takes and logs

counters == <<active, total, errors>>
snap == <<snapTotal, snapErrors>>
vars == <<mainPc, ctrlc, shutdown, conn, outcome, counters, snap>>

Ended == {"stopped", "failed"}       \* main has returned, with Ok or Err

\* No controller is left that could trigger the shutdown.
Abandoned == mainPc \in Ended /\ ctrlc = "over"

\* Attempts whose viewer task was spawned, and those still counted active.
Accepted ==
  {c \in Conns : conn[c] \in {"spawned", "handling", "closing", "ended", "cancelled"}}
Counted == {c \in Accepted : conn[c] # "ended"}
Erred == {c \in Conns : outcome[c] = "err"}

TypeOK ==
  /\ mainPc \in {"setup", "select", "snapTotal", "snapErrors", "stopped", "unwinding",
                "failed"}
  /\ ctrlc \in {"armed", "over"}
  /\ shutdown \in BOOLEAN
  /\ conn \in [Conns -> {"away", "queued", "handshake", "refused", "spawned",
                         "handling", "closing", "ended", "cancelled"}]
  /\ outcome \in [Conns -> {"none", "ok", "err", "shutdown"}]
  /\ active \in Nat /\ total \in Nat /\ errors \in Nat
  /\ snapTotal \in Nat /\ snapErrors \in Nat

Init ==
  /\ mainPc = "setup"
  /\ ctrlc = "armed"
  /\ shutdown = FALSE
  /\ conn = [c \in Conns |-> "away"]
  /\ outcome = [c \in Conns |-> "none"]
  /\ active = 0 /\ total = 0 /\ errors = 0
  /\ snapTotal = 0 /\ snapErrors = 0

-----------------------------------------------------------------------------
(* The network and the Ctrl+C task                                         *)

\* A client's first packet waits in the endpoint until main accepts it.
Arrive(c) ==
  /\ mainPc \notin Ended
  /\ conn[c] = "away"
  /\ conn' = [conn EXCEPT ![c] = "queued"]
  /\ UNCHANGED <<mainPc, ctrlc, shutdown, outcome, counters, snap>>

CtrlC ==
  /\ ctrlc = "armed"
  /\ ctrlc' = "over"
  /\ shutdown' = TRUE
  /\ UNCHANGED <<mainPc, conn, outcome, counters, snap>>

\* The signal handler could not be installed, or the runtime ends the task.
CtrlCOver ==
  /\ ctrlc = "armed"
  /\ ctrlc' = "over"
  /\ UNCHANGED <<mainPc, shutdown, conn, outcome, counters, snap>>

-----------------------------------------------------------------------------
(* The main task                                                           *)

\* Ctrl+C may come before main subscribes its own signal and starts to loop.
EnterLoop ==
  /\ mainPc = "setup"
  /\ mainPc' = "select"
  /\ UNCHANGED <<ctrlc, shutdown, conn, outcome, counters, snap>>

\* Mutant: sessions run inside the loop, one after the other.
TakeIncomingInline(c) ==
  /\ mainPc = "select" /\ ~shutdown
  /\ conn[c] = "queued"
  /\ \A d \in Conns : conn[d] \notin {"handshake", "spawned", "handling"}
  /\ conn' = [conn EXCEPT ![c] = "handshake"]
  /\ UNCHANGED <<mainPc, ctrlc, shutdown, outcome, counters, snap>>

\* accept() takes one incoming connection and then awaits its handshake: the
\* next one is not looked at before this handshake is over.  When a shutdown is
\* in force the poll that takes a connection also sees the other branch ready,
\* and drops the handshake that it has just begun.
TakeIncoming(c) ==
  /\ mainPc = "select" /\ ~shutdown
  /\ conn[c] = "queued"
  /\ \A d \in Conns : conn[d] # "handshake"
  /\ conn' = [conn EXCEPT ![c] = "handshake"]
  /\ UNCHANGED <<mainPc, ctrlc, shutdown, outcome, counters, snap>>

\* Mutant: a refused connection leaves the loop by `break`, not by `?`.
HandshakeFailBreaks(c) ==
  /\ mainPc = "select"
  /\ conn[c] = "handshake"
  /\ conn' = [conn EXCEPT ![c] = "refused"]
  /\ mainPc' = "snapTotal"
  /\ UNCHANGED <<ctrlc, shutdown, outcome, counters, snap>>

\* `let conn = result?`: main returns the error of a failed handshake, and
\* drops its locals: first its signal, then its controller.
HandshakeFail(c) ==
  /\ mainPc = "select"
  /\ conn[c] = "handshake"
  /\ conn' = [conn EXCEPT ![c] = "refused"]
  /\ mainPc' = "unwinding"
  /\ UNCHANGED <<ctrlc, shutdown, outcome, counters, snap>>

Unwind ==
  /\ mainPc = "unwinding"
  /\ mainPc' = "failed"
  /\ UNCHANGED <<ctrlc, shutdown, conn, outcome, counters, snap>>

\* The viewer is counted and its task spawned, with a signal of its own.
HandshakeOk(c) ==
  /\ mainPc = "select"
  /\ conn[c] = "handshake"
  /\ conn' = [conn EXCEPT ![c] = "spawned"]
  /\ active' = active + 1
  /\ total' = total + 1
  /\ UNCHANGED <<mainPc, ctrlc, shutdown, outcome, errors, snap>>

\* Mutant: the shutdown branch ends its iteration, not the loop.
SelectShutdownContinues ==
  /\ mainPc = "select"
  /\ shutdown
  /\ UNCHANGED vars

\* The other branch of select!: the accept future, with a handshake it may
\* have begun, is dropped.
SelectShutdown ==
  /\ mainPc = "select"
  /\ shutdown
  /\ mainPc' = "snapTotal"
  /\ UNCHANGED <<ctrlc, shutdown, conn, outcome, counters, snap>>

\* Mutant: the report shows the gauge.
SnapTotalOfActive ==
  /\ mainPc = "snapTotal"
  /\ snapTotal' = active
  /\ mainPc' = "snapErrors"
  /\ UNCHANGED <<ctrlc, shutdown, conn, outcome, counters, snapErrors>>

\* The final snapshot loads the counters one by one; viewer tasks still run.
SnapTotal ==
  /\ mainPc = "snapTotal"
  /\ snapTotal' = total
  /\ mainPc' = "snapErrors"
  /\ UNCHANGED <<ctrlc, shutdown, conn, outcome, counters, snapErrors>>

SnapErrors ==
  /\ mainPc = "snapErrors"
  /\ snapErrors' = errors
  /\ mainPc' = "stopped"
  /\ UNCHANGED <<ctrlc, shutdown, conn, outcome, counters, snapTotal>>

-----------------------------------------------------------------------------
(* A viewer's task                                                         *)

FirstPoll(c) ==
  /\ conn[c] = "spawned"
  /\ conn' = [conn EXCEPT ![c] = "handling"]
  /\ UNCHANGED <<mainPc, ctrlc, shutdown, outcome, counters, snap>>

\* One branch of the task's select! completes; the other future is dropped.
Branch(c, result) ==
  /\ conn[c] = "handling"
  /\ conn' = [conn EXCEPT ![c] = "closing"]
  /\ outcome' = [outcome EXCEPT ![c] = result]
  /\ UNCHANGED <<mainPc, ctrlc, shutdown, active, total, snap>>

HandlerOk(c) == Branch(c, "ok") /\ UNCHANGED errors

HandlerErr(c) == Branch(c, "err") /\ errors' = errors + 1

\* Mutant: the viewer's branch on its signal does not look at the value.
ViewerShutdownAnyway(c) == Branch(c, "shutdown") /\ UNCHANGED errors

\* wait() also returns when the last controller is gone: main has dropped its
\* own and the Ctrl+C task is over.
ViewerShutdown(c) ==
  /\ shutdown \/ Abandoned
  /\ Branch(c, "shutdown")
  /\ UNCHANGED errors

\* Mutant: connection_closed() is called in the branches that end well only.
ClosedOnlyIfOk(c) ==
  /\ conn[c] = "closing"
  /\ conn' = [conn EXCEPT ![c] = "ended"]
  /\ active' = IF outcome[c] = "err" THEN active ELSE active - 1
  /\ UNCHANGED <<mainPc, ctrlc, shutdown, outcome, total, errors, snap>>

Closed(c) ==
  /\ conn[c] = "closing"
  /\ conn' = [conn EXCEPT ![c] = "ended"]
  /\ active' = active - 1
  /\ UNCHANGED <<mainPc, ctrlc, shutdown, outcome, total, errors, snap>>

\* When main has returned the runtime is dropped: a task is cancelled where
\* it awaits (or before its first poll), without reaching connection_closed.
RuntimeCancel(c) ==
  /\ mainPc \in Ended
  /\ conn[c] \in {"spawned", "handling"}
  /\ conn' = [conn EXCEPT ![c] = "cancelled"]
  /\ UNCHANGED <<mainPc, ctrlc, shutdown, outcome, counters, snap>>

-----------------------------------------------------------------------------
MainStep == EnterLoop \/ SelectShutdown \/ SnapTotal \/ SnapErrors \/ Unwind

ViewerStep(c) ==
  FirstPoll(c) \/ ViewerShutdown(c) \/ Closed(c) \/ RuntimeCancel(c)

Next ==
  \/ CtrlC
  \/ CtrlCOver
  \/ EnterLoop
  \/ SelectShutdown
  \/ SnapTotal
  \/ SnapErrors
  \/ Unwind
  \/ \E c \in Conns :
       \/ Arrive(c)
       \/ TakeIncoming(c)
       \/ HandshakeFail(c)
       \/ HandshakeOk(c)
       \/ FirstPoll(c)
       \/ HandlerOk(c)
       \/ HandlerErr(c)
       \/ ViewerShutdown(c)
       \/ Closed(c)
       \/ RuntimeCancel(c)

SafeSpec == Init /\ [][Next]_vars

\* The runtime polls what is ready, select! does not starve a ready branch,
\* and a handshake ends, if only by quinn's timeout.  Nothing is assumed of a
\* session: without a shutdown it may last for ever.
Spec ==
  /\ SafeSpec
  /\ WF_vars(MainStep)
  /\ \A c \in Conns :
       /\ WF_vars(ViewerStep(c))
       /\ WF_vars(TakeIncoming(c))
       /\ WF_vars(HandshakeOk(c) \/ HandshakeFail(c))

-----------------------------------------------------------------------------
(* Properties                                                              *)

\* The gauge counts the viewer tasks that have not closed, the others count
\* acceptances and failed sessions, whatever the tasks' interleaving; the
\* gauge never goes below zero (metrics.rs:55-72, main.rs:85-102).
CountersMatchTasks ==
  /\ active = Cardinality(Counted)
  /\ total = Cardinality(Accepted)
  /\ errors = Cardinality(Erred)

\* "server stopped" (main.rs:112-117) reports all acceptances, and no error
\* that did not happen, though viewer tasks still run while it is made.
FinalReport ==
  mainPc = "stopped" => snapTotal = total /\ snapErrors <= errors

\* A viewer whose session did not end by itself was cut by a requested
\* shutdown or, main having returned its error, by a failed handshake.
CutForCause ==
  \A c \in Conns :
    outcome[c] = "shutdown" \/ conn[c] = "cancelled" =>
      \/ shutdown
      \/ mainPc = "failed" /\ \E d \in Conns : conn[d] = "refused"

\* Once shutdown is requested the process comes to its end: main returns and
\* no viewer task is left running (main.rs:98-108).
ShutdownCompletes ==
  shutdown ~> /\ mainPc \in Ended
              /\ \A c \in Conns : conn[c] \notin {"spawned", "handling", "closing"}

\* While the loop runs every client that arrives is taken up: a handshake
\* that hangs delays the others but does not shut them out (listener.rs:24-32).
EveryArrivalTaken ==
  \A c \in Conns : conn[c] = "queued" ~> conn[c] # "queued" \/ mainPc \in Ended

\* main and the viewers' tasks use their signals as waiters of the latch.
MainWaiter ==
  IF mainPc = "setup" THEN "idle"
  ELSE IF mainPc = "select" THEN "waiting"
  ELSE IF mainPc \in {"unwinding", "failed"} THEN "absent" ELSE "released"

ViewerWaiter(c) ==
  IF conn[c] = "spawned" THEN "idle"
  ELSE IF conn[c] = "handling" THEN "waiting"
  ELSE IF conn[c] = "closing" /\ outcome[c] = "shutdown" THEN "released" ELSE "absent"

ServerWaiter ==
  [t \in Conns \cup {Main} |-> IF t = Main THEN MainWaiter ELSE ViewerWaiter(t)]

ServerPhase ==
  IF shutdown THEN "requested" ELSE IF Abandoned THEN "abandoned" ELSE "running"

Latch == INSTANCE ShutdownLatch WITH
  Signals <- Conns \cup {Main},
  phase <- ServerPhase,
  waiter <- ServerWaiter

\* No task leaves its wait before the request, and each one does after it.
ServerUsesLatch == Latch!Spec
=============================================================================
