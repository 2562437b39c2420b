----------------------------- MODULE ServedSession -----------------------------
(***************************************************************************)
(* `quicview serve` together with one of its viewers in full: Server, with *)
(* ControlExchange in the place of the free outcomes of that viewer's task *)
(* (main.rs:81-103, 184-221).  The other viewers stay as in Server.  At    *)
(* every await the session can be cut, by the shutdown branch of the       *)
(* task's select! or with the runtime; once its last write is done it      *)
(* returns without another one.                                            *)
(***************************************************************************)
EXTENDS Naturals, FiniteSets

CONSTANTS
  Conns, Main,                    \* as in Server
  Stamps, OtherViewers,           \* as in ControlExchange
  Watched                         \* the viewer whose session is followed

ASSUME SessionAssumption ==
  /\ IsFiniteSet(Conns) /\ Watched \in Conns
  /\ Main \notin Conns
  /\ Stamps \subseteq Nat \ {0}
  /\ OtherViewers \in BOOLEAN

VARIABLES
  mainPc, ctrlc, shutdown, conn, outcome, active, total, errors,
  snapTotal, snapErrors,
  plan, written, viewer, host, buf, arrived, link, stamp, got

serverVars == <<mainPc, ctrlc, shutdown, conn, outcome, active, total, errors,
                snapTotal, snapErrors>>
sessionVars == <<plan, written, viewer, host, buf, arrived, link, stamp, got>>
vars == <<serverVars, sessionVars>>

S == INSTANCE Server
X == INSTANCE ControlExchange WITH conn <- link, Disturbed <- TRUE

Init == S!Init /\ X!Init

-----------------------------------------------------------------------------
(* Steps of the server alone                                               *)

Elsewhere(c) ==
  \/ S!Arrive(c) \/ S!TakeIncoming(c) \/ S!HandshakeOk(c) \/ S!FirstPoll(c)
  \/ S!Closed(c)
  \/ c # Watched /\ \/ S!HandshakeFail(c) \/ S!HandlerOk(c) \/ S!HandlerErr(c)
                    \/ S!ViewerShutdown(c) \/ S!RuntimeCancel(c)

ServerStep ==
  /\ \/ S!CtrlC \/ S!CtrlCOver \/ S!MainStep
     \/ \E c \in Conns : Elsewhere(c)
  /\ UNCHANGED sessionVars

-----------------------------------------------------------------------------
(* Steps of the session alone                                              *)

\* connect() has sent its first packet; it returns when the host, which has
\* taken the connection, answers its handshake.  Until its task is spawned the
\* host's end belongs to the handshake, whose end is HandshakeOk or Refused.
Dialed == conn[Watched] # "away"
Connected == conn[Watched] \notin {"away", "queued", "refused"}
Established == conn[Watched] \in {"spawned", "handling", "closing"}

Network ==
  \/ \E side \in X!Sides : X!Deliver(side)
  \/ X!LearnClosed("viewer")
  \/ Dialed /\ X!IdleTimeout("viewer")
  \/ Established /\ (X!LearnClosed("host") \/ X!IdleTimeout("host"))

ViewerSide ==
  \/ Connected /\ X!ViewerWrite
  \/ Dialed /\ (X!ViewerFails \/ X!ViewerReadLen \/ X!ViewerReadBody)

HostSide ==
  /\ conn[Watched] = "handling"
  /\ \/ X!HostAccept \/ X!HostReadLen \/ X!HostReadBody
     \/ X!HostReplyLen \/ X!HostReplyBody \/ X!HostFails

\* A session that was cut drops its end of the connection, and so does a
\* server that ends before it had one.
HostGone == host = "dropCut" /\ X!HostDrop

SessionStep ==
  /\ Network \/ ViewerSide \/ HostSide \/ HostGone
  /\ UNCHANGED serverVars

-----------------------------------------------------------------------------
(* Steps of both                                                           *)

\* handle_viewer returns, which drops the connection.
SessionOk == S!HandlerOk(Watched) /\ host = "dropOk" /\ X!HostDrop
SessionErr == S!HandlerErr(Watched) /\ host = "dropErr" /\ X!HostDrop

\* The session is dropped where it awaits data or room to write: by the other
\* branch of the select!, or with the runtime.
Cut == (S!ViewerShutdown(Watched) \/ S!RuntimeCancel(Watched)) /\ X!HostCut

\* quinn gives up the connection whose handshake failed.
Refused == S!HandshakeFail(Watched) /\ X!IdleTimeout("host")

Next == ServerStep \/ SessionStep \/ SessionOk \/ SessionErr \/ Cut \/ Refused

SafeSpec == Init /\ [][Next]_vars

\* The fairness of Server and of ControlExchange, and a viewer that gets no
\* answer from a host that is gone gives up.
Spec ==
  /\ SafeSpec
  /\ WF_vars(S!MainStep /\ UNCHANGED sessionVars)
  /\ \A c \in Conns \ {Watched} : WF_vars(S!ViewerStep(c) /\ UNCHANGED sessionVars)
  /\ \A c \in Conns :
       /\ WF_vars(S!TakeIncoming(c) /\ UNCHANGED sessionVars)
       /\ WF_vars(\/ S!HandshakeOk(c) /\ UNCHANGED sessionVars
                  \/ c = Watched /\ Refused
                  \/ c # Watched /\ S!HandshakeFail(c) /\ UNCHANGED sessionVars)
  /\ WF_vars(\/ (S!FirstPoll(Watched) \/ S!Closed(Watched)) /\ UNCHANGED sessionVars
             \/ (HostSide \/ HostGone) /\ UNCHANGED serverVars
             \/ SessionOk \/ SessionErr \/ Cut)
  /\ WF_vars(ViewerSide /\ UNCHANGED serverVars)
  /\ \A side \in X!Sides :
       /\ WF_vars(X!Deliver(side) /\ UNCHANGED serverVars)
       /\ WF_vars(Network /\ X!LearnClosed(side) /\ UNCHANGED serverVars)
       /\ WF_vars(X!Quiet /\ Network /\ X!IdleTimeout(side) /\ UNCHANGED serverVars)
  /\ WF_vars(mainPc \in S!Ended /\ Dialed /\ X!IdleTimeout("viewer")
               /\ UNCHANGED serverVars)

-----------------------------------------------------------------------------
(* Properties                                                              *)

\* A viewer that has its answer is in the books as served: it was counted as a
\* connection, and its task ends neither as an error nor as cut, also when a
\* shutdown or a failed handshake ends the host at that moment (main.rs:81-110).
AnswerIsService ==
  viewer = "done" =>
    /\ Watched \in S!Accepted /\ conn[Watched] # "cancelled"
    /\ outcome[Watched] \in {"none", "ok"}

\* No session goes on for ever, and whether the host ends it or ends itself, the
\* viewer comes to its end too (main.rs:90-110, 119-155).
SessionsEnd ==
  /\ conn[Watched] = "handling" ~> conn[Watched] \in {"ended", "cancelled"}
  /\ conn[Watched] \in {"refused", "ended", "cancelled"} \/ (mainPc \in S!Ended /\ Dialed)
       ~> viewer \in {"done", "failed"}
=============================================================================
