------------------------------ MODULE VideoPath ------------------------------
(***************************************************************************)
(* The pipeline of crates/quicview/tests/integration.rs, from the host's   *)
(* test sources (quicview-capture/src/source.rs) over one encoder, frame   *)
(* headers and one stream to a viewer's decoder, renderer and surface      *)
(* (quicview-display).  The codec is RawCodec or, with the actions of      *)
(* DeltaStream, DeltaCodec.  No code reads frames off a stream yet: here a *)
(* frame whose header is refused is skipped by the size the error gives.   *)
(***************************************************************************)
EXTENDS DeltaStream

CONSTANTS
  Sources,         \* the displays that are captured
  SizeOf,          \* their resolutions, as lengths of frames
  Viewed,          \* the display of the viewer's renderer and surface
  LargestPayload,  \* MAX_PAYLOAD, as a length of frames
  MaxGrabs         \* bound: frames grabbed of each display

ASSUME VideoAssumption ==
  /\ SizeOf \in [Sources -> Lengths]
  /\ Viewed \in Sources
  /\ LargestPayload \in Nat /\ MaxGrabs \in Nat

VARIABLES
  codec,           \* "raw" or "delta"
  active,          \* the sources that are started
  frame_count,     \* per source
  headers,         \* headers in flight, each before the payload at its place in wire
  last_frame,      \* of the viewer's BufferRenderer
  frames_rendered, \* by it
  surface,         \* the viewer's MemorySurface
  rendered,        \* history: the sequence number of last_frame, or 0
  presented        \* history: that of what the surface holds, or 0 once it is resized

videoVars == <<codec, active, frame_count, headers, last_frame, frames_rendered,
               surface, rendered, presented>>

VideoHeader(d, n) == [display |-> d, sequence |-> n, payload_len |-> SizeOf[d]]
Surface(buffer) == [resolution |-> Len(buffer), buffer |-> buffer]

\* Frames are of one colour, which the count chooses; of it, the lowest bit.
Solid(length, colour) == [i \in 1..length |-> colour]
Captured(d, count) == Solid(SizeOf[d], count % 2)

VideoTypeOK ==
  /\ codec \in {"raw", "delta"}
  /\ active \subseteq Sources
  /\ frame_count \in [Sources -> 0..MaxGrabs]
  /\ headers \in Seq({VideoHeader(d, n) : d \in Sources, n \in 1..MaxGrabs})
  /\ last_frame \in Reference
  /\ frames_rendered \in 0..MaxGrabs
  /\ surface \in {Surface(b) : b \in Frames}
  /\ rendered \in 0..MaxGrabs /\ presented \in 0..MaxGrabs

VideoInit ==
  /\ codec \in {"raw", "delta"}
  /\ active = {}
  /\ frame_count = [d \in Sources |-> 0]
  /\ headers = <<>>
  /\ last_frame = NoFrame
  /\ frames_rendered = 0
  /\ surface \in {Surface(Solid(n, 0)) : n \in Lengths}
  /\ rendered = 0
  /\ presented = 0

-----------------------------------------------------------------------------
(* The host                                                                *)

Start(d) ==
  /\ d \notin active
  /\ active' = active \cup {d}
  /\ UNCHANGED <<deltaVars, codec, frame_count, headers, last_frame, frames_rendered,
                 surface, rendered, presented>>

Stop(d) ==
  /\ d \in active
  /\ active' = active \ {d}
  /\ UNCHANGED <<deltaVars, codec, frame_count, headers, last_frame, frames_rendered,
                 surface, rendered, presented>>

RawEncode(raw) ==
  /\ Len(wire) < MaxInFlight
  /\ wire' = Append(wire, [payload |-> raw, raw |-> raw, base |-> NoFrame])
  /\ UNCHANGED <<encPrev, decPrev, shown, disrupted>>

\* grab(), a header and encode().  Nothing compares payload_len with MAX_PAYLOAD.
SendFrame(d) ==
  LET count == frame_count[d] + 1
      raw == Captured(d, count)
  IN  /\ d \in active
      /\ count <= MaxGrabs
      /\ frame_count' = [frame_count EXCEPT ![d] = count]
      /\ headers' = Append(headers, VideoHeader(d, count))
      /\ \/ codec = "raw" /\ RawEncode(raw)
         \/ codec = "delta" /\ Encode(raw)
      /\ UNCHANGED <<codec, active, last_frame, frames_rendered, surface, rendered, presented>>

-----------------------------------------------------------------------------
(* The viewer                                                              *)

RawDecode ==
  /\ wire # <<>>
  /\ shown' = [out |-> Head(wire).payload, raw |-> Head(wire).raw]
  /\ wire' = Tail(wire)
  /\ UNCHANGED <<encPrev, decPrev, disrupted>>

\* render() refuses a frame of another display, present() one of another size.
Render(header, pixels) ==
  IF header.display # Viewed
  THEN UNCHANGED <<last_frame, frames_rendered, surface, rendered, presented>>
  ELSE /\ last_frame' = pixels
       /\ frames_rendered' = frames_rendered + 1
       /\ rendered' = header.sequence
       /\ IF Len(pixels) = surface.resolution
          THEN surface' = Surface(pixels) /\ presented' = header.sequence
          ELSE UNCHANGED <<surface, presented>>

\* Mutant: frames of other displays are not even decoded.
ViewFrameOfDisplay ==
  /\ headers # <<>>
  /\ Head(headers).payload_len <= LargestPayload
  /\ headers' = Tail(headers)
  /\ IF Head(headers).display # Viewed
     THEN wire' = Tail(wire) /\ UNCHANGED <<encPrev, decPrev, shown, disrupted>>
     ELSE (codec = "raw" /\ RawDecode) \/ (codec = "delta" /\ Decode)
  /\ Render(Head(headers), shown'.out)
  /\ UNCHANGED <<codec, active, frame_count>>

ViewFrame ==
  /\ headers # <<>>
  /\ Head(headers).payload_len <= LargestPayload
  /\ headers' = Tail(headers)
  /\ \/ codec = "raw" /\ RawDecode
     \/ codec = "delta" /\ Decode
  /\ Render(Head(headers), shown'.out)
  /\ UNCHANGED <<codec, active, frame_count>>

\* Mutant: the payload of a refused frame stays in the stream.
RefuseFrameOnly ==
  /\ headers # <<>>
  /\ Head(headers).payload_len > LargestPayload
  /\ headers' = Tail(headers)
  /\ disrupted' = (disrupted \/ codec = "delta")
  /\ UNCHANGED <<encPrev, decPrev, wire, shown, codec, active, frame_count, last_frame,
                 frames_rendered, surface, rendered, presented>>

\* PayloadTooLarge: the payload does not reach the decoder.
RefuseFrame ==
  /\ headers # <<>>
  /\ Head(headers).payload_len > LargestPayload
  /\ headers' = Tail(headers)
  /\ wire' = Tail(wire)
  /\ disrupted' = (disrupted \/ codec = "delta")
  /\ UNCHANGED <<encPrev, decPrev, shown, codec, active, frame_count, last_frame,
                 frames_rendered, surface, rendered, presented>>

\* Vec::resize: the pixels that fit stay, others are zero.
Resized(buffer, length) ==
  [i \in 1..length |-> IF i \in DOMAIN buffer THEN buffer[i] ELSE 0]

ResizeSurface(length) ==
  /\ surface.resolution # length
  /\ surface' = Surface(Resized(surface.buffer, length))
  /\ presented' = 0
  /\ UNCHANGED <<deltaVars, codec, active, frame_count, headers, last_frame,
                 frames_rendered, rendered>>

VideoNext ==
  \/ \E d \in Sources : Start(d) \/ Stop(d) \/ SendFrame(d)
  \/ ViewFrame
  \/ RefuseFrame
  \/ \E length \in Lengths : ResizeSurface(length)

VideoSpec == DeltaInit /\ VideoInit /\ [][VideoNext]_<<deltaVars, videoVars>>

-----------------------------------------------------------------------------
(* Properties                                                              *)

\* The renderer has the frame of its display that the header numbers, the same
\* as it was captured (renderer.rs:101-111), and the surface holds that frame
\* until it is resized (surface.rs:55-73), with frames of other displays coded
\* in between; no frame that the header decoder takes is missed.  Only where a
\* refused frame (frame.rs:83-88) separates the delta codecs the pixels differ.
ShowsCaptured ==
  /\ ~disrupted =>
       /\ rendered # 0 => last_frame = Captured(Viewed, rendered)
       /\ presented # 0 => surface = Surface(Captured(Viewed, presented))
  /\ presented \in {0, rendered}
  /\ frames_rendered = rendered
  /\ headers = <<>> /\ SizeOf[Viewed] <= LargestPayload => rendered = frame_count[Viewed]

\* Frames are refused only if they are too large for a header, and only deltas
\* depend on those before them.
NothingRefused == \A d \in Sources : SizeOf[d] <= LargestPayload

ViewedPicture(n) == Captured(Viewed, n)

FromViewer == INSTANCE FaithfulView WITH
  Picture <- ViewedPicture,
  Blank <- NoFrame,
  captured <- frame_count[Viewed],
  viewed <- rendered,
  image <- last_frame,
  reliable <- (codec = "raw" \/ NothingRefused),
  apart <- (codec = "delta" /\ disrupted)

\* Headers, codecs, refusals and the frames of other displays that share the
\* stream (frame.rs:81-88, delta.rs:37-81, renderer.rs:101-111) do not show: to
\* its viewer a display is one whose frames come one after the other as they were
\* captured, but for pictures after a refused frame that deltas depend on.
ImplementsView == FromViewer!Spec
=============================================================================
