----------------------------- MODULE DeltaStream -----------------------------
(***************************************************************************)
(* crates/quicview-codec/src/delta.rs: a DeltaCodec that encodes frames    *)
(* and one that decodes them, with the payloads in flight between them in  *)
(* order (a QUIC stream).  Bytes are XORed bit by bit, so a frame is a     *)
(* sequence of bits and the bits do not interact; a frame's length stands  *)
(* for its resolution.  A payload carries no sign of being a keyframe.     *)
(***************************************************************************)
EXTENDS Naturals, Sequences

CONSTANTS
  Lengths,       \* the lengths that frames may have
  NoFrame,       \* prev_frame: None
  ResetEnds,     \* the ends whose users call reset()
  MaxInFlight    \* bound: payloads encoded and not yet decoded

Bit == 0..1
Frames == UNION {[1..n -> Bit] : n \in Lengths}

ASSUME DeltaAssumption ==
  /\ Lengths \subseteq Nat
  /\ NoFrame \notin Frames
  /\ ResetEnds \subseteq {"encoder", "decoder"}
  /\ MaxInFlight \in Nat

VARIABLES
  encPrev,       \* the encoder's reference frame
  decPrev,       \* the decoder's reference frame
  wire,          \* payloads in flight, each with its frame and the reference
  shown,         \* the last frame decoded since the decoder was reset, and
                 \* the frame it should be
  disrupted      \* history: a reset put the two ends out of step

deltaVars == <<encPrev, decPrev, wire, shown, disrupted>>

Reference == Frames \cup {NoFrame}
InFlight == [payload : Frames, raw : Frames, base : Reference]

DeltaInit ==
  /\ encPrev = NoFrame
  /\ decPrev = NoFrame
  /\ wire = <<>>
  /\ shown = [out |-> NoFrame, raw |-> NoFrame]
  /\ disrupted = FALSE

Xor(a, b) == [i \in DOMAIN a |-> IF a[i] = b[i] THEN 0 ELSE 1]

\* Both ends do the same with their data: with no reference, or one of another
\* length, it passes as it is, otherwise it is XORed with the reference.
IsKey(prev, data) == prev = NoFrame \/ Len(prev) # Len(data)

\* Mutants: a frame that shrinks is taken for a delta of its prefix; a frame
\* that equals its reference is passed as it is.
IsKeyUnlessShorter(prev, data) == prev = NoFrame \/ Len(prev) < Len(data)

TransformSkipsEqual(prev, data) ==
  IF IsKey(prev, data) \/ prev = data THEN data ELSE Xor(data, prev)

TransformKeepsPrefix(prev, data) ==
  IF IsKeyUnlessShorter(prev, data) THEN data ELSE Xor(data, prev)

Transform(prev, data) == IF IsKey(prev, data) THEN data ELSE Xor(data, prev)

Encode(raw) ==
  /\ Len(wire) < MaxInFlight
  /\ wire' = Append(wire, [payload |-> Transform(encPrev, raw), raw |-> raw,
                           base |-> encPrev])
  /\ encPrev' = raw
  /\ UNCHANGED <<decPrev, shown, disrupted>>

\* Mutant: the reference becomes the payload.
DecodeKeepsPayload ==
  /\ wire # <<>>
  /\ decPrev' = Head(wire).payload
  /\ shown' = [out |-> Transform(decPrev, Head(wire).payload), raw |-> Head(wire).raw]
  /\ wire' = Tail(wire)
  /\ UNCHANGED <<encPrev, disrupted>>

Decode ==
  /\ wire # <<>>
  /\ LET frame == Transform(decPrev, Head(wire).payload) IN
       /\ decPrev' = frame
       /\ shown' = [out |-> frame, raw |-> Head(wire).raw]
  /\ wire' = Tail(wire)
  /\ UNCHANGED <<encPrev, disrupted>>

\* reset() of one end.  The ends are in step again when both are reset and
\* nothing is in flight.
EncoderReset ==
  /\ "encoder" \in ResetEnds
  /\ encPrev' = NoFrame
  /\ disrupted' = ~(decPrev = NoFrame /\ wire = <<>>)
  /\ UNCHANGED <<decPrev, wire, shown>>

DecoderReset ==
  /\ "decoder" \in ResetEnds
  /\ decPrev' = NoFrame
  /\ shown' = [out |-> NoFrame, raw |-> NoFrame]
  /\ disrupted' = ~(encPrev = NoFrame /\ wire = <<>>)
  /\ UNCHANGED <<encPrev, wire>>

DeltaNext ==
  \/ \E raw \in Frames : Encode(raw)
  \/ Decode
  \/ EncoderReset
  \/ DecoderReset

DeltaSpec == DeltaInit /\ [][DeltaNext]_deltaVars

-----------------------------------------------------------------------------
(* Properties                                                              *)

DeltaTypeOK ==
  /\ encPrev \in Reference
  /\ decPrev \in Reference
  /\ wire \in Seq(InFlight)
  /\ shown \in [out : Reference, raw : Reference]
  /\ disrupted \in BOOLEAN

\* "The decoder reconstructs frames by applying the XOR delta" (delta.rs:10):
\* through any changes of resolution, as long as no reset disrupts the stream.
FaithfulUntilDisrupted == ~disrupted => shown.out = shown.raw

\* A change of resolution brings the decoder back into step, whatever resets
\* there were: both ends take it for a keyframe (delta.rs:43-47, 69-73).
Ahead == Head(wire)
ResolutionChangeRecovers ==
  [][Decode /\ decPrev # NoFrame /\ Len(decPrev) # Len(Ahead.raw)
     => shown'.out = shown'.raw]_deltaVars

\* Nothing else does: a decoder that is out of step adds the same error to
\* every later frame of that length that was encoded as a delta.
ErrorIsConstant ==
  [][Decode /\ decPrev # NoFrame
       /\ ~IsKey(Ahead.base, Ahead.raw) /\ ~IsKey(decPrev, Ahead.raw)
     => Xor(shown'.out, shown'.raw) = Xor(decPrev, Ahead.base)]_deltaVars

\* The same as FaithfulUntilDisrupted after EncoderReset, which "forc[es] the
\* next encode to produce a keyframe" (delta.rs:23).
DecoderReconstructs == shown.out = shown.raw
=============================================================================
