------------------------------ MODULE MCHostParts ------------------------------
(***************************************************************************)
(* Model checking of the host's parts that share no state: the display     *)
(* wall, the power manager, the negotiation, the discovery, the screen     *)
(* capture, the bitrate controller, the service with its restarts and the  *)
(* metrics.  Each behaviour has one of them in focus, and the others stay  *)
(* at one of their initial states.                                         *)
(***************************************************************************)
EXTENDS DisplayWall, PowerManager, Negotiation, Discovery, GdiCapture,
        BitrateController, HostService, Metrics

CONSTANTS a1, a2
MCCells == {<<0, 0>>, <<1, 0>>, <<-1, 1>>}
MCResolutions == {<<2, 1>>, <<1, 3>>}

VARIABLE focus

vars == <<focus, wallVars, powerVars, negotiationVars, discoveryVars, gdiVars,
          bitrateVars, serviceVars, metricsVars>>

Init ==
  /\ focus \in {"wall", "power", "negotiation", "discovery", "capture", "bitrate",
               "service", "metrics"}
  /\ WallInit
  /\ PowerInit
  /\ NegotiationInit
  /\ DiscoveryInit
  /\ GdiInit
  /\ BitrateInit
  /\ ServiceInit
  /\ MetricsInit
  /\ focus # "wall" => user = "direct"
  /\ focus # "power" => clock = 0
  /\ focus # "capture" => screen = NoScreen
  /\ focus # "bitrate" => \A t \in Targets : target_bps <= t
  /\ focus # "service" => config = "absent"

Next ==
  \/ /\ focus = "wall" /\ WallNext
     /\ UNCHANGED <<focus, powerVars, negotiationVars, discoveryVars, gdiVars, bitrateVars, serviceVars, metricsVars>>
  \/ /\ focus = "power" /\ PowerNext
     /\ UNCHANGED <<focus, wallVars, negotiationVars, discoveryVars, gdiVars, bitrateVars, serviceVars, metricsVars>>
  \/ /\ focus = "negotiation" /\ NegotiationNext
     /\ UNCHANGED <<focus, wallVars, powerVars, discoveryVars, gdiVars, bitrateVars, serviceVars, metricsVars>>
  \/ /\ focus = "discovery" /\ DiscoveryNext
     /\ UNCHANGED <<focus, wallVars, powerVars, negotiationVars, gdiVars, bitrateVars, serviceVars, metricsVars>>
  \/ /\ focus = "capture" /\ GdiNext
     /\ UNCHANGED <<focus, wallVars, powerVars, negotiationVars, discoveryVars, bitrateVars, serviceVars, metricsVars>>
  \/ /\ focus = "bitrate" /\ BitrateNext
     /\ UNCHANGED <<focus, wallVars, powerVars, negotiationVars, discoveryVars, gdiVars, serviceVars, metricsVars>>
  \/ /\ focus = "service" /\ ServiceNext
     /\ UNCHANGED <<focus, wallVars, powerVars, negotiationVars, discoveryVars, gdiVars, bitrateVars, metricsVars>>
  \/ /\ focus = "metrics" /\ MetricsNext
     /\ UNCHANGED <<focus, wallVars, powerVars, negotiationVars, discoveryVars, gdiVars, bitrateVars, serviceVars>>

Spec == Init /\ [][Next]_vars

\* A clock that does not go back, for the run that shows what a second
\* registration of a display does.
SteadySpec == Init /\ [][Next /\ clock' >= clock]_vars

\* The types of all these components (their state in wall.rs, power.rs,
\* negotiation.rs, discovery.rs, gdi.rs, bitrate.rs and metrics.rs, and main.rs with its viewers).
TypeOK ==
  /\ WallTypeOK /\ PowerTypeOK /\ NegotiationTypeOK /\ DiscoveryTypeOK
  /\ GdiTypeOK /\ BitrateTypeOK /\ ServiceTypeOK /\ MetricsTypeOK
=============================================================================
