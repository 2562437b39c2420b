------------------------------ MODULE MCDataFlow -----------------------------
(***************************************************************************)
(* Model checking of what flows between host and viewer: frames from the   *)
(* host (the delta codec alone, with resets, and the path from capture to  *)
(* surface) and input from the viewer (the forwarder, the encodings on the *)
(* wire, the injector).  The code that connects frames and input is not    *)
(* written yet, so each behaviour has one of the parts in focus and the    *)
(* others stay as they began.                                              *)
(***************************************************************************)
EXTENDS VideoPath, InputForwarder, WireFormat, InputInjector

CONSTANTS small, large, huge
\* Two sizes that the header decoder takes and one that it refuses.
MCSizeOf == [d \in {small, large, huge} |->
  CASE d = small -> 1 [] d = large -> 2 [] d = huge -> 3]

\* One position of each sign, with two different bytes.
MCCoordinates == {-2, 258}

VARIABLE focus

vars == <<focus, deltaVars, videoVars, forwarderVars, wireVars, injectorVars>>

Init ==
  /\ focus \in {"delta", "video", "forwarder", "wire", "injector"}
  /\ DeltaInit /\ VideoInit /\ ForwarderInit /\ WireInit /\ InjectorInit
  /\ focus # "video" => codec = "raw" /\ surface.resolution = SizeOf[Viewed]
  /\ focus # "wire" => stream = "video"

Next ==
  \/ /\ focus = "delta" /\ DeltaNext
     /\ UNCHANGED <<focus, videoVars, forwarderVars, wireVars, injectorVars>>
  \/ /\ focus = "video" /\ VideoNext
     /\ UNCHANGED <<focus, forwarderVars, wireVars, injectorVars>>
  \/ /\ focus = "forwarder" /\ ForwarderNext
     /\ UNCHANGED <<focus, deltaVars, videoVars, wireVars, injectorVars>>
  \/ /\ focus = "wire" /\ WireNext
     /\ UNCHANGED <<focus, deltaVars, videoVars, forwarderVars, injectorVars>>
  \/ /\ focus = "injector" /\ InjectorNext
     /\ UNCHANGED <<focus, deltaVars, videoVars, forwarderVars, wireVars>>

\* A task that can go on is polled, and a reader that has taken the receiver
\* keeps reading or drops it.
Forwarding(A) ==
  /\ focus = "forwarder" /\ A
  /\ UNCHANGED <<focus, deltaVars, videoVars, wireVars, injectorVars>>

Spec ==
  /\ Init /\ [][Next]_vars
  /\ WF_vars(Forwarding(Recv))
  /\ \A s \in Senders : WF_vars(Forwarding(SendOk(s) \/ SendClosed(s)))

\* The types of the components (their state in delta.rs:14-16, source.rs,
\* renderer.rs and surface.rs, forwarder.rs:11-14, of the stream's two ends, and
\* in injector.rs and sendinput.rs).
TypeOK ==
  DeltaTypeOK /\ VideoTypeOK /\ ForwarderTypeOK /\ WireTypeOK /\ InjectorTypeOK
=============================================================================
