------------------------------ MODULE HostService ------------------------------
(***************************************************************************)
(* `quicview serve` as a service that is started again and again           *)
(* (docs/deployment.md:88-104), and viewers with the two client            *)
(* configurations of quicview-transport/src/cert.rs.  Every start makes a  *)
(* certificate of its own, so starts and certificates have one number.     *)
(* What a session says is in ControlExchange, and how main waits in        *)
(* Server; here a connection stands or not.                                *)
(***************************************************************************)
EXTENDS Naturals

CONSTANTS
  Pinning,         \* viewers that use pinned_client_config
  Trusting,        \* viewers that use client_config, as `quicview connect`
  Nobody,
  MaxStarts        \* bound: starts of the host

Viewers == Pinning \cup Trusting

ASSUME ServiceAssumption ==
  /\ Pinning \cap Trusting = {}
  /\ Nobody \notin Viewers
  /\ MaxStarts \in Nat

VARIABLES
  config,          \* the TOML file: "absent", "good" or "broken"
  host,            \* "starting", "listening", "failed" or "stopped"
  starts,          \* certificates made so far; the last is that of the running host
  accepting,       \* the viewer whose handshake accept() awaits, or Nobody
  verified,        \* in that handshake the viewer has accepted the certificate
  served,          \* viewers with a connection at the running host
  viewer,          \* per viewer: "idle", "dialing", "connected" or "refused"
  peer,            \* per viewer: the start whose host it dials or is connected to
  pinned           \* per pinning viewer: the certificate whose fingerprint it has, or 0

serviceVars == <<config, host, starts, accepting, verified, served, viewer, peer, pinned>>

\* SHA-256 tells certificates apart.
Certificate(start) == [names |-> {"localhost"}, key |-> start]
Fingerprint(certificate) == certificate.key

ServiceTypeOK ==
  /\ config \in {"absent", "good", "broken"}
  /\ host \in {"starting", "listening", "failed", "stopped"}
  /\ starts \in 0..MaxStarts
  /\ accepting \in Viewers \cup {Nobody}
  /\ verified \in BOOLEAN
  /\ served \subseteq Viewers
  /\ viewer \in [Viewers -> {"idle", "dialing", "connected", "refused"}]
  /\ peer \in [Viewers -> 0..MaxStarts]
  /\ pinned \in [Pinning -> 0..MaxStarts]

ServiceInit ==
  /\ config \in {"absent", "good", "broken"}
  /\ host = "starting"
  /\ starts = 0
  /\ accepting = Nobody
  /\ verified = FALSE
  /\ served = {}
  /\ viewer = [v \in Viewers |-> "idle"]
  /\ peer = [v \in Viewers |-> 0]
  /\ pinned = [v \in Pinning |-> 0]

-----------------------------------------------------------------------------
(* The host                                                                *)

\* The process ends, and its connections with it: each viewer finds out later.
Exit(result) ==
  /\ host' = result
  /\ accepting' = Nobody
  /\ verified' = FALSE
  /\ served' = {}

\* A configuration that does not parse ends the program.
LoadFails ==
  /\ host = "starting"
  /\ config = "broken"
  /\ host' = "failed"
  /\ UNCHANGED <<config, starts, accepting, verified, served, viewer, peer, pinned>>

\* No file is as good as one: load() gives the defaults.  The certificate is made
\* and its fingerprint printed before the address is bound, which may fail.
Serve ==
  /\ host = "starting"
  /\ config # "broken"
  /\ starts < MaxStarts
  /\ starts' = starts + 1
  /\ host' \in {"listening", "failed"}
  /\ UNCHANGED <<config, accepting, verified, served, viewer, peer, pinned>>

CtrlC ==
  /\ host = "listening"
  /\ Exit("stopped")
  /\ UNCHANGED <<config, starts, viewer, peer, pinned>>

\* Restart=on-failure, or somebody.
StartAgain ==
  /\ host \in {"failed", "stopped"}
  /\ host' = "starting"
  /\ UNCHANGED <<config, starts, accepting, verified, served, viewer, peer, pinned>>

\* `quicview init` writes the defaults unless there is a file.
InitConfig ==
  /\ config = "absent"
  /\ config' = "good"
  /\ UNCHANGED <<host, starts, accepting, verified, served, viewer, peer, pinned>>

EditConfig(text) ==
  /\ config' = text
  /\ UNCHANGED <<host, starts, accepting, verified, served, viewer, peer, pinned>>

-----------------------------------------------------------------------------
(* Connections                                                             *)

\* The host has nothing of an earlier connection of the viewer.
Away(v) == viewer[v] \in {"idle", "refused"} /\ accepting # v /\ v \notin served

\* A fingerprint that some start printed is given to a viewer.
Share(v, start) ==
  /\ Away(v)
  /\ pinned' = [pinned EXCEPT ![v] = Fingerprint(Certificate(start))]
  /\ UNCHANGED <<config, host, starts, accepting, verified, served, viewer, peer>>

Dial(v) ==
  /\ Away(v)
  /\ v \in Pinning => pinned[v] # 0
  /\ host = "listening"
  /\ viewer' = [viewer EXCEPT ![v] = "dialing"]
  /\ peer' = [peer EXCEPT ![v] = starts]
  /\ UNCHANGED <<config, host, starts, accepting, verified, served, pinned>>

\* accept() takes one connection and awaits its handshake.
TakeIncoming(v) ==
  /\ host = "listening"
  /\ accepting = Nobody
  /\ viewer[v] = "dialing" /\ peer[v] = starts
  /\ accepting' = v
  /\ UNCHANGED <<config, host, starts, verified, served, viewer, peer, pinned>>

\* Mutant: the verifier of client_config for every viewer.
AcceptsAny(v, certificate) == v \in Viewers

\* verify_server_cert of the two verifiers.
Accepts(v, certificate) == v \in Trusting \/ Fingerprint(certificate) = pinned[v]

\* The viewer's side of the handshake.
Verify(v) ==
  /\ accepting = v
  /\ viewer[v] = "dialing"
  /\ verified' = Accepts(v, Certificate(peer[v]))
  /\ viewer' = [viewer EXCEPT ![v] = IF verified' THEN "connected" ELSE "refused"]
  /\ UNCHANGED <<config, host, starts, accepting, served, peer, pinned>>

HandshakeOk(v) ==
  /\ accepting = v
  /\ verified
  /\ accepting' = Nobody
  /\ verified' = FALSE
  /\ served' = served \cup {v}
  /\ UNCHANGED <<config, host, starts, viewer, peer, pinned>>

\* The viewer has refused the certificate or is gone: `result?` leaves main.
HandshakeFail(v) ==
  /\ accepting = v
  /\ viewer[v] \in {"idle", "refused"}
  /\ Exit("failed")
  /\ UNCHANGED <<config, starts, viewer, peer, pinned>>

SessionEnds(v) ==
  /\ v \in served
  /\ served' = served \ {v}
  /\ UNCHANGED <<config, host, starts, accepting, verified, viewer, peer, pinned>>

\* A viewer is done, finds its connection lost, or gives up before it has one.
Leave(v) ==
  /\ viewer[v] \in {"dialing", "connected"}
  /\ viewer' = [viewer EXCEPT ![v] = "idle"]
  /\ UNCHANGED <<config, host, starts, accepting, verified, served, peer, pinned>>

Process == LoadFails \/ Serve \/ CtrlC \/ StartAgain
Connection(v) ==
  Dial(v) \/ TakeIncoming(v) \/ Verify(v) \/ HandshakeOk(v) \/ HandshakeFail(v)
    \/ SessionEnds(v) \/ Leave(v)

ServiceNext ==
  \/ Process
  \/ InitConfig
  \/ \E text \in {"good", "broken"} : EditConfig(text)
  \/ \E v \in Pinning, start \in 1..starts : Share(v, start)
  \/ \E v \in Viewers : Connection(v)

ServiceSpec == ServiceInit /\ [][ServiceNext]_serviceVars

-----------------------------------------------------------------------------
(* Properties                                                              *)

\* Through any restarts, a viewer that pins a fingerprint has a connection only
\* with the start of the host that printed it (cert.rs:183-201), and what a host
\* serves are connections made with itself: none outlives the certificate it
\* was checked against (main.rs:60-63, 82).
PinnedReachesIssuer ==
  /\ \A v \in Pinning :
       viewer[v] = "connected" \/ v \in served => pinned[v] = peer[v]
  /\ \A v \in served : host = "listening" /\ peer[v] = starts
=============================================================================
