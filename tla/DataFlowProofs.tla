---------------------------- MODULE DataFlowProofs ----------------------------
(***************************************************************************)
(* Proofs about what flows between host and viewer: DeltaStream, for       *)
(* frames of any lengths and any number of payloads in flight, VideoPath   *)
(* over it, InputForwarder, InputInjector and WireFormat.  The inductive   *)
(* invariant of the codec is a lockstep: every payload in flight was made  *)
(* from the frame before it, and the first one from the decoder's own      *)
(* reference.  That of the wire says where in the bytes ahead of a reader  *)
(* each item begins.                                                       *)
(***************************************************************************)
EXTENDS MCDataFlow, SequenceTheorems,
        WellFoundedInduction, TLAPS

-----------------------------------------------------------------------------
(* Frames                                                                  *)

LEMMA FrameShape ==
  ASSUME NEW f \in Frames
  PROVE  Len(f) \in Lengths /\ Len(f) \in Nat /\ f \in [1..Len(f) -> Bit]
<1>1. PICK n \in Lengths : f \in [1..n -> Bit]
  BY DEF Frames
<1>2. n \in Nat
  BY DeltaAssumption
<1>3. Len(f) = n
  BY <1>1, <1>2
<1> QED  BY <1>1, <1>2, <1>3

LEMMA FrameOfLength ==
  ASSUME NEW n \in Lengths, NEW f \in [1..n -> Bit]
  PROVE  f \in Frames /\ Len(f) = n
<1>1. n \in Nat
  BY DeltaAssumption
<1> QED  BY <1>1 DEF Frames

\* XOR with a frame of the same length is a frame of that length, and undoes
\* itself.
LEMMA XorUndoes ==
  ASSUME NEW a \in Frames, NEW b \in Frames, Len(a) = Len(b)
  PROVE  /\ Xor(a, b) \in Frames
         /\ Len(Xor(a, b)) = Len(a)
         /\ Xor(Xor(a, b), b) = a
<1>1. Len(a) \in Lengths /\ a \in [1..Len(a) -> Bit] /\ b \in [1..Len(a) -> Bit]
  BY FrameShape
<1>2. Xor(a, b) \in [1..Len(a) -> Bit]
  BY <1>1 DEF Xor, Bit
<1>3. ASSUME NEW i \in 1..Len(a)
      PROVE  Xor(Xor(a, b), b)[i] = a[i]
  BY <1>1, <1>2 DEF Xor, Bit
<1>4. Xor(Xor(a, b), b) = a
  BY <1>1, <1>2, <1>3 DEF Xor
<1> QED  BY <1>1, <1>2, <1>4, FrameOfLength

\* What encode makes of a frame, decode makes the frame of, given the same
\* reference: the two ends judge alike whether the payload is a keyframe.
LEMMA TransformUndoes ==
  ASSUME NEW prev \in Reference, NEW raw \in Frames
  PROVE  /\ Transform(prev, raw) \in Frames
         /\ Len(Transform(prev, raw)) = Len(raw)
         /\ Transform(prev, Transform(prev, raw)) = raw
<1>1. CASE IsKey(prev, raw)
  BY <1>1 DEF Transform
<1>2. CASE ~IsKey(prev, raw)
  <2>1. prev \in Frames /\ Len(raw) = Len(prev)
    BY <1>2 DEF IsKey, Reference
  <2>2. Transform(prev, raw) = Xor(raw, prev)
    BY <1>2 DEF Transform
  <2>3. /\ Xor(raw, prev) \in Frames
        /\ Len(Xor(raw, prev)) = Len(raw)
        /\ Xor(Xor(raw, prev), prev) = raw
    BY <2>1, XorUndoes
  <2>4. ~IsKey(prev, Xor(raw, prev))
    BY <1>2, <2>3 DEF IsKey
  <2> QED  BY <2>2, <2>3, <2>4 DEF Transform
<1> QED  BY <1>1, <1>2

-----------------------------------------------------------------------------
(* The inductive invariant                                                 *)

\* Every payload is the encoding of its frame.
Encoded ==
  \A i \in 1..Len(wire) : wire[i].payload = Transform(wire[i].base, wire[i].raw)

\* The payloads follow on from the decoder's reference to the encoder's.
Chained ==
  /\ wire = <<>> => encPrev = decPrev
  /\ wire # <<>> => wire[1].base = decPrev /\ wire[Len(wire)].raw = encPrev
  /\ \A i \in 1..Len(wire) : i > 1 => wire[i].base = wire[i - 1].raw

Lockstep == ~disrupted => Chained /\ shown.out = shown.raw

FreshIsBlank == decPrev = NoFrame => shown.out = shown.raw

\* Resets or not, every payload's reference has the length of the frame before
\* it, and so has the decoder's, if they have any: the ends agree on lengths even
\* when they have different bits.
Match(a, b) == a = NoFrame \/ b = NoFrame \/ Len(a) = Len(b)

LengthsFollow ==
  /\ wire = <<>> => Match(encPrev, decPrev)
  /\ wire # <<>> => Match(wire[1].base, decPrev) /\ Match(encPrev, wire[Len(wire)].raw)
  /\ \A i \in 1..Len(wire) : i > 1 => Match(wire[i].base, wire[i - 1].raw)

CodecInv == DeltaTypeOK /\ Encoded /\ Lockstep /\ FreshIsBlank

IInv == CodecInv /\ LengthsFollow

LEMMA InitIInv == DeltaInit => IInv
<1> SUFFICES ASSUME DeltaInit PROVE IInv
  OBVIOUS
<1>1. <<>> \in Seq(InFlight)
  OBVIOUS
<1>2. DeltaTypeOK
  BY <1>1 DEF DeltaInit, DeltaTypeOK, Reference
<1>3. Encoded /\ Lockstep /\ FreshIsBlank
  BY DEF DeltaInit, Encoded, Lockstep, Chained, FreshIsBlank
<1>4. LengthsFollow
  BY DEF DeltaInit, LengthsFollow, Match
<1> QED  BY <1>2, <1>3, <1>4 DEF IInv, CodecInv

LEMMA EncodeKeeps ==
  ASSUME CodecInv, NEW raw \in Frames, Encode(raw)
  PROVE  CodecInv' /\ (LengthsFollow => LengthsFollow')
<1> DEFINE m == [payload |-> Transform(encPrev, raw), raw |-> raw, base |-> encPrev]
<1>1. m \in InFlight /\ wire \in Seq(InFlight)
  BY TransformUndoes DEF CodecInv, DeltaTypeOK, InFlight
<1>2. wire' = Append(wire, m)
  BY DEF Encode
<1>3. /\ wire' \in Seq(InFlight)
      /\ Len(wire') = Len(wire) + 1
      /\ wire'[Len(wire) + 1] = m
      /\ \A i \in 1..Len(wire) : wire'[i] = wire[i]
  BY <1>1, <1>2
<1> HIDE DEF m
<1>m. m.payload = Transform(encPrev, raw) /\ m.raw = raw /\ m.base = encPrev
  BY DEF m
<1>4. DeltaTypeOK'
  BY <1>3 DEF Encode, CodecInv, DeltaTypeOK, Reference
<1>5. Encoded'
  BY <1>1, <1>3, <1>m DEF CodecInv, Encoded
<1>6. Lockstep'
  <2> SUFFICES ASSUME ~disrupted PROVE Chained'
    BY DEF Lockstep, CodecInv, Encode
  <2>1. Chained
    BY DEF CodecInv, Lockstep
  <2>2. wire' # <<>> /\ Len(wire) \in Nat
    BY <1>1, <1>3
  <2>3. encPrev' = raw /\ decPrev' = decPrev
    BY DEF Encode
  <2>4. wire'[1].base = decPrev
    <3>1. CASE wire = <<>>
      BY <3>1, <1>3, <1>m, <2>1 DEF Chained
    <3>2. CASE wire # <<>>
      BY <3>2, <1>1, <1>3, <2>1 DEF Chained
    <3> QED  BY <3>1, <3>2
  <2>5. ASSUME NEW i \in 1..Len(wire'), i > 1
        PROVE  wire'[i].base = wire'[i - 1].raw
    <3>1. CASE i \in 1..Len(wire)
      <4>1. i - 1 \in 1..Len(wire)
        BY <3>1, <2>5, <2>2
      <4> QED  BY <3>1, <4>1, <2>5, <1>3, <2>1 DEF Chained
    <3>2. CASE i = Len(wire) + 1
      <4>1. wire # <<>> /\ i - 1 = Len(wire) /\ Len(wire) \in 1..Len(wire)
        BY <3>2, <2>5, <2>2, <1>1
      <4> QED  BY <3>2, <4>1, <1>3, <1>m, <2>1 DEF Chained
    <3> QED  BY <3>1, <3>2, <1>3, <2>2
  <2> QED  BY <1>3, <1>m, <2>2, <2>3, <2>4, <2>5 DEF Chained
<1>7. FreshIsBlank'
  BY DEF Encode, CodecInv, FreshIsBlank
<1>8. ASSUME LengthsFollow
      PROVE  LengthsFollow'
  <2>1. LengthsFollow
    BY <1>8
  <2>2. wire' # <<>> /\ Len(wire) \in Nat
    BY <1>1, <1>3
  <2>3. encPrev' = raw /\ decPrev' = decPrev
    BY DEF Encode
  <2>4. Match(wire'[1].base, decPrev)
    <3>1. CASE wire = <<>>
      BY <3>1, <1>3, <1>m, <2>1 DEF LengthsFollow
    <3>2. CASE wire # <<>>
      BY <3>2, <1>1, <1>3, <2>1 DEF LengthsFollow
    <3> QED  BY <3>1, <3>2
  <2>5. ASSUME NEW i \in 1..Len(wire'), i > 1
        PROVE  Match(wire'[i].base, wire'[i - 1].raw)
    <3>1. CASE i \in 1..Len(wire)
      <4>1. i - 1 \in 1..Len(wire)
        BY <3>1, <2>5, <2>2
      <4> QED  BY <3>1, <4>1, <2>5, <1>3, <2>1 DEF LengthsFollow
    <3>2. CASE i = Len(wire) + 1
      <4>1. wire # <<>> /\ i - 1 = Len(wire) /\ Len(wire) \in 1..Len(wire)
        BY <3>2, <2>5, <2>2, <1>1
      <4> QED  BY <3>2, <4>1, <1>3, <1>m, <2>1 DEF LengthsFollow
    <3> QED  BY <3>1, <3>2, <1>3, <2>2
  <2>6. Match(encPrev', wire'[Len(wire')].raw)
    BY <1>3, <1>m, <2>3 DEF Match
  <2> QED  BY <2>2, <2>3, <2>4, <2>5, <2>6 DEF LengthsFollow
<1> QED  BY <1>4, <1>5, <1>6, <1>7, <1>8 DEF CodecInv

\* The decoder's frame has the length of the encoder's.
LEMMA DecodedLength ==
  ASSUME CodecInv, wire # <<>>
  PROVE  /\ Head(wire) = wire[1] /\ wire[1] \in InFlight
         /\ wire[1].payload = Transform(wire[1].base, wire[1].raw)
         /\ wire[1].payload \in Frames
         /\ Len(wire[1].payload) = Len(wire[1].raw)
         /\ Len(Transform(decPrev, Head(wire).payload)) = Len(wire[1].raw)
<1>1. Head(wire) = wire[1] /\ wire[1] \in InFlight /\ 1 \in 1..Len(wire)
  BY DEF CodecInv, DeltaTypeOK
<1>2. wire[1].base \in Reference /\ wire[1].raw \in Frames /\ decPrev \in Reference
  BY <1>1 DEF InFlight, CodecInv, DeltaTypeOK
<1>3. wire[1].payload = Transform(wire[1].base, wire[1].raw)
  BY <1>1 DEF CodecInv, Encoded
<1>4. wire[1].payload \in Frames /\ Len(wire[1].payload) = Len(wire[1].raw)
  BY <1>2, <1>3, TransformUndoes
<1> QED  BY <1>1, <1>2, <1>3, <1>4, TransformUndoes

LEMMA DecodeKeeps ==
  ASSUME CodecInv, Decode
  PROVE  CodecInv' /\ (LengthsFollow => LengthsFollow')
<1> DEFINE frame == Transform(decPrev, Head(wire).payload)
<1>1. wire # <<>> /\ wire \in Seq(InFlight) /\ wire' = Tail(wire)
  BY DEF Decode, CodecInv, DeltaTypeOK
<1>2. /\ wire' \in Seq(InFlight)
      /\ Len(wire) \in Nat /\ Len(wire) > 0 /\ Len(wire') = Len(wire) - 1
      /\ \A i \in 1..Len(wire') : wire'[i] = wire[i + 1]
  BY <1>1
<1>3. Head(wire) = wire[1] /\ wire[1] \in InFlight
  BY <1>1
<1>4. frame \in Frames
  BY <1>3, TransformUndoes DEF CodecInv, DeltaTypeOK, InFlight
<1>5. decPrev' = frame /\ shown' = [out |-> frame, raw |-> wire[1].raw]
  BY <1>3 DEF Decode
<1>6. encPrev' = encPrev /\ disrupted' = disrupted
  BY DEF Decode
<1> HIDE DEF frame
<1>7. DeltaTypeOK'
  BY <1>2, <1>3, <1>4, <1>5, <1>6 DEF CodecInv, DeltaTypeOK, Reference, InFlight
<1>8. Encoded'
  BY <1>2 DEF CodecInv, Encoded
<1>9. Lockstep'
  <2> SUFFICES ASSUME ~disrupted PROVE Chained' /\ shown'.out = shown'.raw
    BY <1>6 DEF Lockstep
  <2>1. Chained
    BY DEF CodecInv, Lockstep
  <2>2. wire[1].payload = Transform(decPrev, wire[1].raw) /\ wire[1].raw \in Frames
    BY <1>1, <1>2, <1>3, <2>1 DEF CodecInv, Encoded, Chained, InFlight
  <2>3. frame = wire[1].raw
    <3>1. frame = Transform(decPrev, Transform(decPrev, wire[1].raw))
      BY <1>3, <2>2 DEF frame
    <3>2. decPrev \in Reference
      BY DEF CodecInv, DeltaTypeOK
    <3> QED  BY <3>1, <3>2, <2>2, TransformUndoes
  <2>4. wire' = <<>> => encPrev' = decPrev'
    <3> SUFFICES ASSUME wire' = <<>> PROVE encPrev' = decPrev'
      OBVIOUS
    <3>1. Len(wire) = 1
      BY <1>2
    <3> QED  BY <3>1, <1>1, <1>5, <1>6, <2>1, <2>3 DEF Chained
  <2>5. ASSUME wire' # <<>>
        PROVE  wire'[1].base = decPrev' /\ wire'[Len(wire')].raw = encPrev'
    <3>1. Len(wire') \in 1..Len(wire') /\ 1 \in 1..Len(wire') /\ Len(wire) > 1
      BY <2>5, <1>2
    <3>2. wire'[1] = wire[2] /\ wire'[Len(wire')] = wire[Len(wire)]
      BY <3>1, <1>2
    <3>3. wire[2].base = wire[1].raw
      BY <3>1, <1>2, <2>1 DEF Chained
    <3> QED  BY <3>2, <3>3, <1>1, <1>5, <1>6, <2>1, <2>3 DEF Chained
  <2>6. ASSUME NEW i \in 1..Len(wire'), i > 1
        PROVE  wire'[i].base = wire'[i - 1].raw
    <3>1. i - 1 \in 1..Len(wire') /\ i + 1 \in 1..Len(wire) /\ i + 1 > 1
      BY <2>6, <1>2
    <3>2. wire'[i] = wire[i + 1] /\ wire'[i - 1] = wire[(i + 1) - 1]
      BY <3>1, <1>2
    <3> QED  BY <3>1, <3>2, <2>1 DEF Chained
  <2> QED  BY <1>5, <2>3, <2>4, <2>5, <2>6 DEF Chained
<1>10. FreshIsBlank'
  <2>1. decPrev' # NoFrame
    BY <1>4, <1>5, DeltaAssumption
  <2> QED  BY <2>1 DEF FreshIsBlank
<1>11. ASSUME LengthsFollow
      PROVE  LengthsFollow'
  <2>1. LengthsFollow
    BY <1>11
  <2>2. Len(frame) = Len(wire[1].raw)
    BY DecodedLength, <1>1, <1>3 DEF frame
  <2>3. \A a : Match(a, wire[1].raw) => Match(a, decPrev')
    BY <2>2, <1>3, <1>5, DeltaAssumption DEF Match, InFlight
  <2>4. wire' = <<>> => Match(encPrev', decPrev')
    <3> SUFFICES ASSUME wire' = <<>> PROVE Match(encPrev', decPrev')
      OBVIOUS
    <3>1. Len(wire) = 1
      BY <1>2
    <3> QED  BY <3>1, <1>1, <1>6, <2>1, <2>3 DEF LengthsFollow
  <2>5. ASSUME wire' # <<>>
        PROVE  Match(wire'[1].base, decPrev') /\ Match(encPrev', wire'[Len(wire')].raw)
    <3>1. Len(wire') \in 1..Len(wire') /\ 1 \in 1..Len(wire') /\ Len(wire) > 1
      BY <2>5, <1>2
    <3>2. wire'[1] = wire[2] /\ wire'[Len(wire')] = wire[Len(wire)]
      BY <3>1, <1>2
    <3>3. Match(wire[2].base, wire[1].raw)
      BY <3>1, <1>2, <2>1 DEF LengthsFollow
    <3>4. Match(wire'[1].base, decPrev')
      BY <3>2, <3>3, <2>3
    <3>5. Match(encPrev', wire'[Len(wire')].raw)
      BY <3>2, <1>1, <1>6, <2>1 DEF LengthsFollow
    <3> QED  BY <3>4, <3>5
  <2>6. ASSUME NEW i \in 1..Len(wire'), i > 1
        PROVE  Match(wire'[i].base, wire'[i - 1].raw)
    <3>1. i - 1 \in 1..Len(wire') /\ i + 1 \in 1..Len(wire) /\ i + 1 > 1
      BY <2>6, <1>2
    <3>2. wire'[i] = wire[i + 1] /\ wire'[i - 1] = wire[(i + 1) - 1]
      BY <3>1, <1>2
    <3> QED  BY <3>1, <3>2, <2>1 DEF LengthsFollow
  <2> QED  BY <2>4, <2>5, <2>6 DEF LengthsFollow
<1> QED  BY <1>7, <1>8, <1>9, <1>10, <1>11 DEF CodecInv

LEMMA ResetIInv ==
  ASSUME IInv, EncoderReset \/ DecoderReset
  PROVE  IInv'
<1>1. CASE EncoderReset
  <2>1. DeltaTypeOK' /\ Encoded' /\ FreshIsBlank'
    BY <1>1 DEF EncoderReset, IInv, CodecInv, DeltaTypeOK, Reference, Encoded, FreshIsBlank
  <2>2. Lockstep'
    <3> SUFFICES ASSUME ~disrupted' PROVE Chained' /\ (shown.out = shown.raw)'
      BY DEF Lockstep
    <3>1. decPrev = NoFrame /\ wire = <<>>
      BY <1>1 DEF EncoderReset
    <3> QED  BY <1>1, <3>1 DEF EncoderReset, IInv, CodecInv, FreshIsBlank, Chained
  <2>3. LengthsFollow'
    BY <1>1 DEF EncoderReset, IInv, CodecInv, LengthsFollow, Match
  <2> QED  BY <2>1, <2>2, <2>3 DEF IInv, CodecInv
<1>2. CASE DecoderReset
  <2>1. DeltaTypeOK' /\ Encoded' /\ FreshIsBlank'
    BY <1>2 DEF DecoderReset, IInv, CodecInv, DeltaTypeOK, Reference, Encoded, FreshIsBlank
  <2>2. Lockstep'
    <3> SUFFICES ASSUME ~disrupted' PROVE Chained' /\ (shown.out = shown.raw)'
      BY DEF Lockstep
    <3>1. encPrev = NoFrame /\ wire = <<>>
      BY <1>2 DEF DecoderReset
    <3> QED  BY <1>2, <3>1 DEF DecoderReset, Chained
  <2>3. LengthsFollow'
    BY <1>2 DEF DecoderReset, IInv, CodecInv, LengthsFollow, Match
  <2> QED  BY <2>1, <2>2, <2>3 DEF IInv, CodecInv
<1> QED  BY <1>1, <1>2

LEMMA NextIInv == IInv /\ [DeltaNext]_deltaVars => IInv'
<1> SUFFICES ASSUME IInv, [DeltaNext]_deltaVars PROVE IInv'
  OBVIOUS
<1>1. CASE \E raw \in Frames : Encode(raw)
  BY <1>1, EncodeKeeps DEF IInv
<1>2. CASE Decode
  BY <1>2, DecodeKeeps DEF IInv
<1>3. CASE EncoderReset \/ DecoderReset
  BY <1>3, ResetIInv
<1>4. CASE UNCHANGED deltaVars
  BY <1>4 DEF deltaVars, IInv, CodecInv, DeltaTypeOK, Encoded, Lockstep, Chained, FreshIsBlank,
             LengthsFollow, Match
<1> QED  BY <1>1, <1>2, <1>3, <1>4 DEF DeltaNext

THEOREM Invariance == DeltaSpec => []IInv
  BY InitIInv, NextIInv, PTL DEF DeltaSpec

-----------------------------------------------------------------------------
(* The properties                                                          *)

\* Until a reset separates the ends, the decoder gives back every frame the
\* encoder was given, whatever the frames and their changes of resolution
\* (delta.rs:36-57 and 61-83).
THEOREM Faithful == DeltaSpec => []FaithfulUntilDisrupted
<1>1. IInv => FaithfulUntilDisrupted
  BY DEF IInv, CodecInv, Lockstep, FaithfulUntilDisrupted
<1> QED  BY <1>1, Invariance, PTL

\* A change of resolution puts the decoder back into step after any resets of
\* either end (delta.rs:43-47, 69-73).
THEOREM Recovers == DeltaSpec => ResolutionChangeRecovers
<1>1. ASSUME IInv, Decode, decPrev # NoFrame, Len(decPrev) # Len(Ahead.raw)
      PROVE  shown'.out = shown'.raw
  <2>1. /\ Ahead = wire[1] /\ wire[1] \in InFlight
        /\ wire[1].payload = Transform(wire[1].base, wire[1].raw)
        /\ Len(wire[1].payload) = Len(wire[1].raw)
    BY <1>1, DecodedLength DEF Ahead, Decode, IInv
  <2>2. Match(wire[1].base, decPrev)
    BY <1>1 DEF IInv, LengthsFollow, Decode
  <2>3. IsKey(wire[1].base, wire[1].raw)
    BY <1>1, <2>1, <2>2 DEF Match, IsKey
  <2>4. wire[1].payload = wire[1].raw /\ IsKey(decPrev, wire[1].payload)
    BY <1>1, <2>1, <2>3 DEF Transform, IsKey
  <2>5. Transform(decPrev, wire[1].payload) = wire[1].raw
    BY <2>4 DEF Transform
  <2> QED  BY <1>1, <2>1, <2>5 DEF Ahead, Decode
<1>2. IInv /\ [DeltaNext]_deltaVars
        => [Decode /\ decPrev # NoFrame /\ Len(decPrev) # Len(Ahead.raw)
            => shown'.out = shown'.raw]_deltaVars
  BY <1>1
<1> QED  BY <1>2, Invariance, PTL DEF DeltaSpec, ResolutionChangeRecovers

\* A decoder out of step is wrong by the difference of the two references, on
\* this frame and so on every delta after it.
THEOREM ErrorStays == DeltaSpec => ErrorIsConstant
<1>1. ASSUME IInv, Decode, decPrev # NoFrame, ~IsKey(Ahead.base, Ahead.raw), ~IsKey(decPrev, Ahead.raw)
      PROVE  Xor(shown'.out, shown'.raw) = Xor(decPrev, Ahead.base)
  <2> DEFINE raw == Ahead.raw
             base == Ahead.base
             n == Len(raw)
  <2>1. /\ Ahead = wire[1] /\ Ahead \in InFlight
        /\ Ahead.payload = Transform(base, raw)
        /\ Len(Ahead.payload) = n
    BY <1>1, DecodedLength DEF Ahead, Decode, IInv
  <2>2. /\ raw \in Frames /\ base \in Frames /\ decPrev \in Frames
        /\ Len(base) = n /\ Len(decPrev) = n
    BY <1>1, <2>1 DEF InFlight, IsKey, Reference, IInv, CodecInv, DeltaTypeOK
  <2>3. raw \in [1..n -> Bit] /\ base \in [1..n -> Bit] /\ decPrev \in [1..n -> Bit]
    BY <2>2, FrameShape
  <2>4. Ahead.payload = Xor(raw, base) /\ ~IsKey(decPrev, Ahead.payload)
    BY <1>1, <2>1, <2>2 DEF Transform, IsKey
  <2>5. shown'.out = Xor(Xor(raw, base), decPrev) /\ shown'.raw = raw
    BY <1>1, <2>4 DEF Ahead, Decode, Transform
  <2> HIDE DEF raw, base, n
  <2>6. Xor(Xor(Xor(raw, base), decPrev), raw) = Xor(decPrev, base)
    BY <2>3 DEF Xor, Bit
  <2> QED  BY <2>5, <2>6 DEF base
<1>2. IInv /\ [DeltaNext]_deltaVars
        => [Decode /\ decPrev # NoFrame
              /\ ~IsKey(Ahead.base, Ahead.raw) /\ ~IsKey(decPrev, Ahead.raw)
            => Xor(shown'.out, shown'.raw) = Xor(decPrev, Ahead.base)]_deltaVars
  BY <1>1
<1> QED  BY <1>2, Invariance, PTL DEF DeltaSpec, ErrorIsConstant

-----------------------------------------------------------------------------
(* VideoPath: the inductive invariant                                      *)

\* Each payload is that of the header at its place, and is as long as it says.
Paired ==
  /\ Len(headers) = Len(wire)
  /\ \A i \in 1..Len(wire) :
       /\ wire[i].raw = Captured(headers[i].display, headers[i].sequence)
       /\ Len(wire[i].payload) = SizeOf[headers[i].display]

\* The codec in use: the delta codec keeps its invariant, the raw one passes
\* frames as they are.
Coded ==
  /\ codec = "delta" => CodecInv
  /\ codec = "raw" => \A i \in 1..Len(wire) : wire[i].payload = wire[i].raw

\* The headers in flight of the viewed display are those after the frame that
\* is rendered, all of them and in order; of a display that is too large, no
\* frame is rendered at all.
IsViewed(i) == headers[i].display = Viewed

InOrder ==
  \A i, j \in 1..Len(headers) :
    i < j /\ IsViewed(i) /\ IsViewed(j) => headers[i].sequence < headers[j].sequence

Following == rendered + 1..frame_count[Viewed]

NoneMissed ==
  /\ rendered <= frame_count[Viewed]
  /\ InOrder
  /\ \A i \in 1..Len(headers) : IsViewed(i) => headers[i].sequence \in Following
  /\ \A n \in Following :
       \E i \in 1..Len(headers) : IsViewed(i) /\ headers[i].sequence = n

Rendering == IF SizeOf[Viewed] <= LargestPayload THEN NoneMissed ELSE rendered = 0

\* What the viewer has is what the host captured.
ViewerHas ==
  /\ ~disrupted => /\ rendered # 0 => last_frame = Captured(Viewed, rendered)
                   /\ presented # 0 => surface = Surface(Captured(Viewed, presented))
  /\ presented # 0 => presented = rendered /\ surface.resolution = SizeOf[Viewed]
  /\ frames_rendered = rendered

VideoInv ==
  /\ DeltaTypeOK /\ VideoTypeOK
  /\ Paired /\ Coded
  /\ Rendering
  /\ ViewerHas

LEMMA CapturedFrame ==
  ASSUME NEW d \in Sources, NEW n \in Nat
  PROVE  Captured(d, n) \in Frames /\ Len(Captured(d, n)) = SizeOf[d] /\ SizeOf[d] \in Nat
<1>1. SizeOf[d] \in Lengths /\ SizeOf[d] \in Nat
  BY VideoAssumption, DeltaAssumption
<1>2. n % 2 \in Bit
  BY DEF Bit
<1>3. Captured(d, n) \in [1..SizeOf[d] -> Bit]
  BY <1>2 DEF Captured, Solid
<1> QED  BY <1>1, <1>3, FrameOfLength

LEMMA SurfaceOf ==
  ASSUME NEW b \in Frames
  PROVE  /\ Surface(b) \in {Surface(f) : f \in Frames}
         /\ Surface(b).resolution = Len(b) /\ Surface(b).buffer = b
BY DEF Surface

LEMMA HeaderShape ==
  ASSUME VideoTypeOK, NEW i \in 1..Len(headers)
  PROVE  /\ headers[i].display \in Sources /\ headers[i].sequence \in 1..MaxGrabs
         /\ headers[i].payload_len = SizeOf[headers[i].display]
         /\ headers[i] = VideoHeader(headers[i].display, headers[i].sequence)
<1>1. headers[i] \in {VideoHeader(d, n) : d \in Sources, n \in 1..MaxGrabs}
  BY DEF VideoTypeOK
<1>2. PICK d \in Sources, n \in 1..MaxGrabs : headers[i] = VideoHeader(d, n)
  BY <1>1
<1> QED  BY <1>2 DEF VideoHeader

\* What a queue's elements become when its head is taken.
LEMMA HeadersLessHead ==
  ASSUME VideoTypeOK, headers # <<>>, headers' = Tail(headers)
  PROVE  /\ headers \in Seq({VideoHeader(d, n) : d \in Sources, n \in 1..MaxGrabs})
         /\ headers' \in Seq({VideoHeader(d, n) : d \in Sources, n \in 1..MaxGrabs})
         /\ Head(headers) = headers[1] /\ 1 \in 1..Len(headers)
         /\ Len(headers) \in Nat /\ Len(headers') = Len(headers) - 1
         /\ \A i \in 1..Len(headers') : i + 1 \in 1..Len(headers) /\ headers'[i] = headers[i + 1]
<1> DEFINE H == {VideoHeader(d, n) : d \in Sources, n \in 1..MaxGrabs}
<1>1. headers \in Seq(H)
  BY DEF VideoTypeOK
<1> HIDE DEF H
<1>2. /\ headers' \in Seq(H)
      /\ Head(headers) = headers[1] /\ 1 \in 1..Len(headers)
      /\ Len(headers) \in Nat /\ Len(headers') = Len(headers) - 1
      /\ \A i \in 1..Len(headers') : i + 1 \in 1..Len(headers) /\ headers'[i] = headers[i + 1]
  BY <1>1
<1> QED  BY <1>1, <1>2 DEF H

LEMMA WireLessHead ==
  ASSUME DeltaTypeOK, wire # <<>>, wire' = Tail(wire)
  PROVE  /\ wire' \in Seq(InFlight)
         /\ Head(wire) = wire[1] /\ 1 \in 1..Len(wire) /\ wire[1] \in InFlight
         /\ Len(wire) \in Nat /\ Len(wire') = Len(wire) - 1
         /\ \A i \in 1..Len(wire') : i + 1 \in 1..Len(wire) /\ wire'[i] = wire[i + 1]
BY DEF DeltaTypeOK

\* The head of the queue leaves it, and is rendered if it is a frame of the
\* viewed display that is not too large: then it is the one that comes next.
LEMMA HeadRendered ==
  ASSUME VideoTypeOK, Rendering, headers # <<>>, headers' = Tail(headers),
         frame_count' = frame_count,
         IF headers[1].display = Viewed /\ headers[1].payload_len <= LargestPayload
         THEN rendered' = headers[1].sequence
         ELSE rendered' = rendered
  PROVE  /\ Rendering'
         /\ headers[1].display = Viewed /\ headers[1].payload_len <= LargestPayload
              => headers[1].sequence = rendered + 1 /\ rendered + 1 \in 1..MaxGrabs
<1> DEFINE h == headers[1]
<1>1. /\ 1 \in 1..Len(headers)
      /\ Len(headers) \in Nat /\ Len(headers') = Len(headers) - 1
      /\ \A i \in 1..Len(headers') : i + 1 \in 1..Len(headers) /\ headers'[i] = headers[i + 1]
  BY HeadersLessHead
<1>2. h.payload_len = SizeOf[h.display] /\ h.sequence \in 1..MaxGrabs
  BY <1>1, HeaderShape
<1>3. /\ \A i \in 1..Len(headers) : headers[i].sequence \in Nat
      /\ frame_count[Viewed] \in Nat /\ rendered \in Nat
  BY HeaderShape, VideoAssumption DEF VideoTypeOK
<1>4. CASE ~(SizeOf[Viewed] <= LargestPayload)
  BY <1>2, <1>4 DEF Rendering
<1>5. CASE SizeOf[Viewed] <= LargestPayload
  <2>1. /\ rendered <= frame_count[Viewed]
        /\ \A i, j \in 1..Len(headers) :
             i < j /\ IsViewed(i) /\ IsViewed(j) => headers[i].sequence < headers[j].sequence
        /\ \A i \in 1..Len(headers) :
             IsViewed(i) => headers[i].sequence \in rendered + 1..frame_count[Viewed]
        /\ \A n \in rendered + 1..frame_count[Viewed] :
             \E i \in 1..Len(headers) : IsViewed(i) /\ headers[i].sequence = n
    BY <1>5 DEF Rendering, NoneMissed, InOrder, Following
  <2>2. InOrder'
    <3> SUFFICES ASSUME NEW i \in 1..Len(headers'), NEW j \in 1..Len(headers'), i < j,
                        headers'[i].display = Viewed, headers'[j].display = Viewed
                 PROVE  headers'[i].sequence < headers'[j].sequence
      BY DEF InOrder, IsViewed
    <3>1. /\ i + 1 \in 1..Len(headers) /\ j + 1 \in 1..Len(headers) /\ i + 1 < j + 1
          /\ headers'[i] = headers[i + 1] /\ headers'[j] = headers[j + 1]
      BY <1>1
    <3> QED  BY <2>1, <3>1 DEF IsViewed
  <2>3. CASE h.display = Viewed
    <3>1. h.sequence = rendered + 1
      <4>1. h.sequence \in rendered + 1..frame_count[Viewed]
        BY <1>1, <2>1, <2>3 DEF IsViewed
      <4>2. rendered + 1 \in rendered + 1..frame_count[Viewed]
        BY <1>3, <4>1
      <4>3. PICK i \in 1..Len(headers) : IsViewed(i) /\ headers[i].sequence = rendered + 1
        BY <2>1, <4>2
      <4>4. i > 1 => h.sequence < rendered + 1
        BY <1>1, <2>1, <2>3, <4>3 DEF IsViewed
      <4> QED  BY <1>1, <1>3, <4>1, <4>3, <4>4
    <3>2. rendered' = rendered + 1
      BY <1>2, <1>5, <2>3, <3>1
    <3>3. rendered + 1 <= frame_count[Viewed]
      BY <1>1, <1>3, <2>1, <2>3, <3>1 DEF IsViewed
    <3>4. ASSUME NEW i \in 1..Len(headers'), headers'[i].display = Viewed
          PROVE  headers'[i].sequence \in rendered + 2..frame_count[Viewed]
      <4>1. i + 1 \in 1..Len(headers) /\ 1 < i + 1 /\ headers'[i] = headers[i + 1]
        BY <1>1
      <4>2. h.sequence < headers[i + 1].sequence
        BY <1>1, <2>1, <2>3, <3>4, <4>1 DEF IsViewed
      <4>3. headers[i + 1].sequence \in rendered + 1..frame_count[Viewed]
        BY <2>1, <3>4, <4>1 DEF IsViewed
      <4> QED  BY <1>3, <3>1, <4>1, <4>2, <4>3
    <3>5. ASSUME NEW n \in rendered + 2..frame_count[Viewed]
          PROVE  \E i \in 1..Len(headers') : headers'[i].display = Viewed /\ headers'[i].sequence = n
      <4>1. n \in rendered + 1..frame_count[Viewed] /\ n # rendered + 1
        BY <1>3
      <4>2. PICK i \in 1..Len(headers) : IsViewed(i) /\ headers[i].sequence = n
        BY <2>1, <4>1
      <4>3. i # 1
        BY <3>1, <4>1, <4>2
      <4>4. i - 1 \in 1..Len(headers') /\ (i - 1) + 1 = i
        BY <1>1, <4>3
      <4> QED  BY <1>1, <4>2, <4>4 DEF IsViewed
    <3>6. (rendered + 1) + 1 = rendered + 2
      BY <1>3
    <3>7. NoneMissed'
      BY <2>2, <3>2, <3>3, <3>4, <3>5, <3>6 DEF NoneMissed, Following, IsViewed
    <3> QED  BY <1>2, <1>5, <3>1, <3>7 DEF Rendering
  <2>4. CASE h.display # Viewed
    <3>1. rendered' = rendered
      BY <2>4
    <3>2. ASSUME NEW i \in 1..Len(headers'), headers'[i].display = Viewed
          PROVE  headers'[i].sequence \in rendered + 1..frame_count[Viewed]
      BY <1>1, <2>1, <3>2 DEF IsViewed
    <3>3. ASSUME NEW n \in rendered + 1..frame_count[Viewed]
          PROVE  \E i \in 1..Len(headers') : headers'[i].display = Viewed /\ headers'[i].sequence = n
      <4>1. PICK i \in 1..Len(headers) : IsViewed(i) /\ headers[i].sequence = n
        BY <2>1
      <4>2. i # 1
        BY <2>4, <4>1 DEF IsViewed
      <4>3. i - 1 \in 1..Len(headers') /\ (i - 1) + 1 = i
        BY <1>1, <4>2
      <4> QED  BY <1>1, <4>1, <4>3 DEF IsViewed
    <3>4. NoneMissed'
      BY <2>1, <2>2, <3>1, <3>2, <3>3 DEF NoneMissed, Following, IsViewed
    <3> QED  BY <1>5, <2>4, <3>4 DEF Rendering
  <2> QED  BY <2>3, <2>4
<1> QED  BY <1>4, <1>5

\* What the decoder gives for the head of the queue is as long as its header
\* says, and the frame as it was captured unless the codecs are separated.
LEMMA HeadDecoded ==
  ASSUME VideoInv, headers # <<>>,
         \/ codec = "raw" /\ RawDecode
         \/ codec = "delta" /\ Decode
  PROVE  /\ wire # <<>> /\ wire' = Tail(wire)
         /\ disrupted' = disrupted
         /\ DeltaTypeOK'
         /\ codec = "delta" => CodecInv'
         /\ shown'.out \in Frames
         /\ Len(shown'.out) = SizeOf[headers[1].display]
         /\ codec = "raw" \/ ~disrupted => shown'.out = Captured(headers[1].display, headers[1].sequence)
<1> USE DEF VideoInv
<1>1. wire # <<>> /\ wire' = Tail(wire) /\ disrupted' = disrupted
  BY DEF RawDecode, Decode
<1>2. /\ wire' \in Seq(InFlight) /\ 1 \in 1..Len(wire)
      /\ Head(wire) = wire[1] /\ wire[1] \in InFlight
  BY <1>1, WireLessHead
<1>3. /\ wire[1].raw = Captured(headers[1].display, headers[1].sequence)
      /\ Len(wire[1].payload) = SizeOf[headers[1].display]
  BY <1>2 DEF Paired
<1>4. wire[1].payload \in Frames /\ wire[1].raw \in Frames
  BY <1>2 DEF InFlight
<1>5. CASE codec = "raw" /\ RawDecode
  <2>1. wire[1].payload = wire[1].raw
    BY <1>2, <1>5 DEF Coded
  <2>2. shown' = [out |-> wire[1].payload, raw |-> wire[1].raw]
    BY <1>2, <1>5 DEF RawDecode
  <2>3. DeltaTypeOK'
    BY <1>2, <1>4, <1>5, <2>2 DEF DeltaTypeOK, RawDecode, Reference
  <2> QED  BY <1>1, <1>3, <1>4, <1>5, <2>1, <2>2, <2>3
<1>6. CASE codec = "delta" /\ Decode
  <2>1. CodecInv
    BY <1>6 DEF Coded
  <2>2. CodecInv'
    BY <1>6, <2>1, DecodeKeeps
  <2>3. DeltaTypeOK' /\ (~disrupted' => shown'.out = shown'.raw)
    BY <2>2 DEF CodecInv, Lockstep
  <2>4. Len(Transform(decPrev, Head(wire).payload)) = Len(wire[1].raw)
        /\ Len(wire[1].payload) = Len(wire[1].raw)
    BY <1>1, <2>1, DecodedLength
  <2>5. /\ shown'.out = Transform(decPrev, wire[1].payload)
        /\ shown'.raw = wire[1].raw
    BY <1>2, <1>6 DEF Decode
  <2>6. shown'.out \in Frames
    <3>1. decPrev \in Reference
      BY DEF DeltaTypeOK
    <3> QED  BY <1>4, <2>5, <3>1, TransformUndoes
  <2>7. Len(shown'.out) = SizeOf[headers[1].display]
    BY <1>2, <1>3, <2>4, <2>5
  <2>8. codec # "raw"
    BY <1>6
  <2> QED  BY <1>1, <1>3, <2>2, <2>3, <2>5, <2>6, <2>7, <2>8
<1> QED  BY <1>5, <1>6

LEMMA PairsLessHead ==
  ASSUME VideoInv, headers # <<>>, wire # <<>>, headers' = Tail(headers),
         wire' = Tail(wire), codec' = codec
  PROVE  /\ Paired'
         /\ codec' = "raw" => \A i \in 1..Len(wire') : wire'[i].payload = wire'[i].raw
<1>1. /\ Len(headers) \in Nat /\ Len(headers') = Len(headers) - 1
      /\ \A i \in 1..Len(headers') : i + 1 \in 1..Len(headers) /\ headers'[i] = headers[i + 1]
  BY HeadersLessHead DEF VideoInv
<1>2. /\ Len(wire) \in Nat /\ Len(wire') = Len(wire) - 1
      /\ \A i \in 1..Len(wire') : i + 1 \in 1..Len(wire) /\ wire'[i] = wire[i + 1]
  BY WireLessHead DEF VideoInv
<1>3. Len(headers) = Len(wire)
  BY DEF VideoInv, Paired
<1>4. Paired'
  BY <1>1, <1>2, <1>3 DEF VideoInv, Paired
<1>5. codec = "raw" => \A i \in 1..Len(wire') : wire'[i].payload = wire'[i].raw
  BY <1>2 DEF VideoInv, Coded
<1> QED  BY <1>4, <1>5

LEMMA ViewKeeps ==
  ASSUME VideoInv, ViewFrame
  PROVE  VideoInv'
<1> DEFINE h == headers[1]
           out == shown'.out
<1>1. /\ headers # <<>> /\ headers' = Tail(headers) /\ Head(headers) = h
      /\ headers' \in Seq({VideoHeader(d, n) : d \in Sources, n \in 1..MaxGrabs})
      /\ 1 \in 1..Len(headers) /\ h.payload_len <= LargestPayload
      /\ UNCHANGED <<codec, active, frame_count>>
      /\ Render(h, out)
  BY HeadersLessHead DEF VideoInv, ViewFrame
<1>2. /\ wire # <<>> /\ wire' = Tail(wire)
      /\ disrupted' = disrupted
      /\ DeltaTypeOK'
      /\ codec = "delta" => CodecInv'
      /\ out \in Frames /\ Len(out) = SizeOf[h.display]
      /\ ~disrupted => out = Captured(h.display, h.sequence)
  BY HeadDecoded DEF ViewFrame
<1> HIDE DEF out
<1>3. Paired' /\ Coded'
  BY <1>1, <1>2, PairsLessHead DEF Coded
<1>4. IF h.display = Viewed /\ h.payload_len <= LargestPayload
      THEN rendered' = h.sequence ELSE rendered' = rendered
  BY <1>1 DEF Render
<1>5. /\ Rendering'
      /\ h.display = Viewed => h.sequence = rendered + 1 /\ rendered + 1 \in 1..MaxGrabs
  BY <1>1, <1>4, HeadRendered DEF VideoInv
<1>6. CASE h.display # Viewed
  <2>1. UNCHANGED <<last_frame, frames_rendered, surface, rendered, presented>>
    BY <1>1, <1>6 DEF Render
  <2>2. VideoTypeOK'
    BY <1>1, <2>1 DEF VideoInv, VideoTypeOK
  <2>3. ViewerHas'
    BY <1>2, <2>1 DEF VideoInv, ViewerHas
  <2> QED  BY <1>2, <1>3, <1>5, <2>2, <2>3 DEF VideoInv
<1>7. CASE h.display = Viewed
  <2>1. /\ last_frame' = out
        /\ frames_rendered' = frames_rendered + 1
        /\ rendered' = h.sequence /\ rendered' = rendered + 1 /\ rendered + 1 \in 1..MaxGrabs
        /\ IF Len(out) = surface.resolution
           THEN surface' = Surface(out) /\ presented' = h.sequence
           ELSE UNCHANGED <<surface, presented>>
    BY <1>1, <1>5, <1>7 DEF Render
  <2>2. frames_rendered' = rendered' /\ rendered' \in 1..MaxGrabs
    BY <2>1 DEF VideoInv, ViewerHas
  <2>3. /\ surface' \in {Surface(f) : f \in Frames}
        /\ presented' \in 0..MaxGrabs
    BY <1>2, <2>1, <2>2, SurfaceOf DEF VideoInv, VideoTypeOK
  <2>4. VideoTypeOK'
    BY <1>1, <1>2, <2>1, <2>2, <2>3 DEF VideoInv, VideoTypeOK, Reference
  <2>5. ViewerHas'
    <3>1. Surface(out).resolution = Len(out)
      BY <1>2, SurfaceOf
    <3>2. CASE Len(out) = surface.resolution
      <4>1. surface' = Surface(out) /\ presented' = rendered'
        BY <2>1, <3>2
      <4>2. ~disrupted' => out = Captured(Viewed, rendered')
        BY <1>2, <1>7, <2>1
      <4>3. surface'.resolution = SizeOf[Viewed]
        BY <1>2, <1>7, <3>1, <4>1
      <4> QED  BY <2>1, <2>2, <4>1, <4>2, <4>3 DEF ViewerHas
    <3>3. CASE Len(out) # surface.resolution
      <4>1. presented = 0
        BY <1>2, <1>7, <3>3 DEF VideoInv, ViewerHas
      <4>2. presented' = 0
        BY <2>1, <3>3, <4>1
      <4>3. ~disrupted' => last_frame' = Captured(Viewed, rendered')
        BY <1>2, <1>7, <2>1
      <4> QED  BY <2>2, <4>2, <4>3 DEF ViewerHas
    <3> QED  BY <3>2, <3>3
  <2> QED  BY <1>2, <1>3, <1>5, <2>4, <2>5 DEF VideoInv
<1> QED  BY <1>6, <1>7

LEMMA RefuseKeeps ==
  ASSUME VideoInv, RefuseFrame
  PROVE  VideoInv'
<1>1. /\ headers # <<>> /\ headers' = Tail(headers) /\ Head(headers) = headers[1]
      /\ headers' \in Seq({VideoHeader(d, n) : d \in Sources, n \in 1..MaxGrabs})
      /\ 1 \in 1..Len(headers) /\ headers[1].payload_len > LargestPayload
      /\ wire' = Tail(wire)
      /\ disrupted' = (disrupted \/ codec = "delta")
      /\ UNCHANGED <<encPrev, decPrev, shown, codec, active, frame_count, last_frame,
                     frames_rendered, surface, rendered, presented>>
  BY HeadersLessHead DEF VideoInv, RefuseFrame
<1>2. wire # <<>>
  BY <1>1 DEF VideoInv, Paired
<1>3. /\ wire' \in Seq(InFlight) /\ Len(wire) \in Nat /\ Len(wire') = Len(wire) - 1
      /\ \A i \in 1..Len(wire') : i + 1 \in 1..Len(wire) /\ wire'[i] = wire[i + 1]
  BY <1>1, <1>2, WireLessHead DEF VideoInv
<1>4. /\ disrupted' \in BOOLEAN
      /\ codec = "delta" => disrupted'
      /\ ~disrupted' => ~disrupted
  BY <1>1
<1>5. DeltaTypeOK'
  BY <1>1, <1>3, <1>4 DEF VideoInv, DeltaTypeOK
<1>6. codec = "delta" => CodecInv'
  <2> SUFFICES ASSUME codec = "delta" PROVE CodecInv'
    OBVIOUS
  <2>1. CodecInv
    BY DEF VideoInv, Coded
  <2>2. Encoded'
    BY <1>3, <2>1 DEF CodecInv, Encoded
  <2>3. Lockstep'
    BY <1>4 DEF Lockstep
  <2>4. FreshIsBlank'
    BY <1>1, <2>1 DEF CodecInv, FreshIsBlank
  <2> QED  BY <1>5, <2>2, <2>3, <2>4 DEF CodecInv
<1>7. Paired' /\ Coded'
  BY <1>1, <1>2, <1>6, PairsLessHead DEF Coded
<1>8. Rendering'
  <2>1. ~(headers[1].payload_len <= LargestPayload)
    BY <1>1, HeaderShape, CapturedFrame, VideoAssumption DEF VideoInv
  <2> QED  BY <1>1, <2>1, HeadRendered DEF VideoInv
<1>9. VideoTypeOK'
  BY <1>1 DEF VideoInv, VideoTypeOK
<1>10. ViewerHas'
  BY <1>1, <1>4 DEF VideoInv, ViewerHas
<1> QED  BY <1>5, <1>7, <1>8, <1>9, <1>10 DEF VideoInv

\* A payload joins the queue: that of the frame, as long as it.
LEMMA FrameEncoded ==
  ASSUME VideoInv, NEW raw \in Frames,
         \/ codec = "raw" /\ RawEncode(raw)
         \/ codec = "delta" /\ Encode(raw)
  PROVE  /\ DeltaTypeOK' /\ disrupted' = disrupted
         /\ codec = "delta" => CodecInv'
         /\ codec = "raw" => wire'[Len(wire) + 1].payload = raw
         /\ Len(wire) \in Nat /\ Len(wire') = Len(wire) + 1
         /\ \A i \in 1..Len(wire) : wire'[i] = wire[i]
         /\ wire'[Len(wire) + 1].raw = raw
         /\ Len(wire'[Len(wire) + 1].payload) = Len(raw)
<1> USE DEF VideoInv
<1>0. wire \in Seq(InFlight)
  BY DEF DeltaTypeOK
<1>1. CASE codec = "raw" /\ RawEncode(raw)
  <2> DEFINE m == [payload |-> raw, raw |-> raw, base |-> NoFrame]
  <2>1. m \in InFlight /\ wire' = Append(wire, m)
    BY <1>1 DEF RawEncode, InFlight, Reference
  <2>2. m.payload = raw /\ m.raw = raw
    OBVIOUS
  <2> HIDE DEF m
  <2>3. /\ wire' \in Seq(InFlight) /\ Len(wire) \in Nat /\ Len(wire') = Len(wire) + 1
        /\ wire'[Len(wire) + 1] = m
        /\ \A i \in 1..Len(wire) : wire'[i] = wire[i]
    BY <1>0, <2>1
  <2>4. DeltaTypeOK' /\ disrupted' = disrupted
    BY <1>1, <2>3 DEF DeltaTypeOK, RawEncode
  <2> QED  BY <1>1, <2>2, <2>3, <2>4
<1>2. CASE codec = "delta" /\ Encode(raw)
  <2> DEFINE m == [payload |-> Transform(encPrev, raw), raw |-> raw, base |-> encPrev]
  <2>1. /\ encPrev \in Reference
        /\ Transform(encPrev, raw) \in Frames /\ Len(Transform(encPrev, raw)) = Len(raw)
    BY TransformUndoes DEF DeltaTypeOK
  <2>2. m \in InFlight /\ wire' = Append(wire, m) /\ disrupted' = disrupted
    BY <1>2, <2>1 DEF Encode, InFlight
  <2>3. m.payload = Transform(encPrev, raw) /\ m.raw = raw
    OBVIOUS
  <2> HIDE DEF m
  <2>4. /\ Len(wire) \in Nat /\ Len(wire') = Len(wire) + 1
        /\ wire'[Len(wire) + 1] = m
        /\ \A i \in 1..Len(wire) : wire'[i] = wire[i]
    BY <1>0, <2>2
  <2>5. CodecInv'
    BY <1>2, EncodeKeeps DEF Coded
  <2>6. DeltaTypeOK'
    BY <2>5 DEF CodecInv
  <2> QED  BY <1>2, <2>1, <2>2, <2>3, <2>4, <2>5, <2>6
<1> QED  BY <1>1, <1>2

LEMMA SendKeeps ==
  ASSUME VideoInv, NEW d \in Sources, SendFrame(d)
  PROVE  VideoInv'
<1> DEFINE count == frame_count[d] + 1
           raw == Captured(d, count)
           header == VideoHeader(d, count)
           H == {VideoHeader(c, n) : c \in Sources, n \in 1..MaxGrabs}
           n == Len(wire)
<1>1. /\ count \in 1..MaxGrabs /\ frame_count[d] \in Nat
      /\ frame_count' = [frame_count EXCEPT ![d] = count]
      /\ headers' = Append(headers, header)
      /\ \/ codec = "raw" /\ RawEncode(raw)
         \/ codec = "delta" /\ Encode(raw)
      /\ UNCHANGED <<codec, active, last_frame, frames_rendered, surface, rendered, presented>>
  <2>1. frame_count[d] \in Nat
    BY VideoAssumption DEF VideoInv, VideoTypeOK
  <2>2. d \in active /\ count <= MaxGrabs
    BY DEF SendFrame
  <2>3. count \in 1..MaxGrabs
    BY <2>1, <2>2, VideoAssumption
  <2> QED  BY <2>1, <2>3 DEF SendFrame
<1>2. raw \in Frames /\ Len(raw) = SizeOf[d]
  BY <1>1, CapturedFrame
<1>3. header \in H /\ headers \in Seq(H)
  BY <1>1 DEF VideoInv, VideoTypeOK
<1>4. header.display = d /\ header.sequence = count
  BY DEF VideoHeader
<1> HIDE DEF raw, header, H
<1>5. /\ DeltaTypeOK' /\ disrupted' = disrupted
      /\ codec = "delta" => CodecInv'
      /\ codec = "raw" => wire'[n + 1].payload = raw
      /\ n \in Nat /\ Len(wire') = n + 1
      /\ \A i \in 1..n : wire'[i] = wire[i]
      /\ wire'[n + 1].raw = raw
      /\ Len(wire'[n + 1].payload) = Len(raw)
  BY <1>1, <1>2, FrameEncoded
<1>6. Len(headers) = n
  BY DEF VideoInv, Paired
<1>7. /\ headers' \in Seq(H) /\ Len(headers') = n + 1
      /\ headers'[n + 1] = header
      /\ \A i \in 1..n : headers'[i] = headers[i]
  BY <1>1, <1>3, <1>6
<1> HIDE DEF n, count
<1>8. \A i \in 1..n + 1 : i \in 1..n \/ i = n + 1
  BY <1>5
<1>9. Paired'
  <2>1. ASSUME NEW i \in 1..n + 1
        PROVE  /\ wire'[i].raw = Captured(headers'[i].display, headers'[i].sequence)
               /\ Len(wire'[i].payload) = SizeOf[headers'[i].display]
    <3>1. CASE i \in 1..n
      BY <1>5, <1>6, <1>7, <3>1 DEF VideoInv, Paired, n
    <3>2. CASE i = n + 1
      BY <1>2, <1>4, <1>5, <1>7, <3>2 DEF raw
    <3> QED  BY <1>8, <3>1, <3>2
  <2> QED  BY <1>5, <1>7, <2>1 DEF Paired
<1>10. Coded'
  <2>1. ASSUME codec = "raw", NEW i \in 1..n + 1
        PROVE  wire'[i].payload = wire'[i].raw
    BY <1>5, <1>8, <2>1 DEF VideoInv, Coded, n
  <2> QED  BY <1>1, <1>5, <2>1 DEF Coded
<1>11. VideoTypeOK'
  BY <1>1, <1>7 DEF VideoInv, VideoTypeOK, H
<1>12. Rendering'
  <2>1. CASE ~(SizeOf[Viewed] <= LargestPayload)
    BY <1>1, <2>1 DEF VideoInv, Rendering
  <2>2. CASE SizeOf[Viewed] <= LargestPayload
    <3> DEFINE fc == frame_count[Viewed]
    <3>1. /\ rendered \in Nat /\ fc \in Nat /\ rendered <= fc
          /\ \A i, j \in 1..n :
               i < j /\ IsViewed(i) /\ IsViewed(j) => headers[i].sequence < headers[j].sequence
          /\ \A i \in 1..n : IsViewed(i) => headers[i].sequence \in rendered + 1..fc
          /\ \A k \in rendered + 1..fc :
               \E i \in 1..n : IsViewed(i) /\ headers[i].sequence = k
      BY <1>6, <2>2, VideoAssumption
      DEF VideoInv, VideoTypeOK, Rendering, NoneMissed, InOrder, Following
    <3>2. frame_count'[Viewed] = (IF d = Viewed THEN fc + 1 ELSE fc)
      BY <1>1, VideoAssumption DEF VideoInv, VideoTypeOK, count
    <3>3. d = Viewed => count = fc + 1
      BY DEF count
    <3> HIDE DEF fc
    <3>4. ASSUME NEW i \in 1..n + 1, headers'[i].display = Viewed
          PROVE  headers'[i].sequence \in rendered + 1..frame_count'[Viewed]
      <4>1. CASE i \in 1..n
        BY <1>7, <3>1, <3>2, <3>4, <4>1 DEF IsViewed
      <4>2. CASE i = n + 1
        BY <1>4, <1>7, <3>1, <3>2, <3>3, <3>4, <4>2
      <4> QED  BY <1>8, <4>1, <4>2
    <3>5. ASSUME NEW i \in 1..n + 1, NEW j \in 1..n + 1, i < j,
                 headers'[i].display = Viewed, headers'[j].display = Viewed
          PROVE  headers'[i].sequence < headers'[j].sequence
      <4>1. i \in 1..n
        BY <1>5, <3>5
      <4>2. CASE j \in 1..n
        BY <1>7, <3>1, <3>5, <4>1, <4>2 DEF IsViewed
      <4>3. CASE j = n + 1
        <5>1. headers'[i].sequence \in rendered + 1..fc
          BY <1>7, <3>1, <3>5, <4>1 DEF IsViewed
        <5>2. headers'[j].sequence = fc + 1
          BY <1>4, <1>7, <3>3, <3>5, <4>3
        <5> QED  BY <3>1, <5>1, <5>2
      <4> QED  BY <1>8, <4>2, <4>3
    <3>6. ASSUME NEW k \in rendered + 1..frame_count'[Viewed]
          PROVE  \E i \in 1..n + 1 : headers'[i].display = Viewed /\ headers'[i].sequence = k
      <4>1. CASE k \in rendered + 1..fc
        <5>1. PICK i \in 1..n : IsViewed(i) /\ headers[i].sequence = k
          BY <3>1, <4>1
        <5>2. i \in 1..n + 1
          BY <1>5
        <5> QED  BY <1>7, <5>1, <5>2 DEF IsViewed
      <4>2. CASE k \notin rendered + 1..fc
        <5>1. d = Viewed /\ k = fc + 1
          BY <3>1, <3>2, <4>2
        <5>2. n + 1 \in 1..n + 1
          BY <1>5
        <5> QED  BY <1>4, <1>7, <3>3, <5>1, <5>2
      <4> QED  BY <4>1, <4>2
    <3>7. rendered <= frame_count'[Viewed]
      BY <3>1, <3>2
    <3>8. NoneMissed'
      BY <1>1, <1>7, <3>4, <3>5, <3>6, <3>7 DEF NoneMissed, InOrder, Following, IsViewed
    <3> QED  BY <2>2, <3>8 DEF Rendering
  <2> QED  BY <2>1, <2>2
<1>13. ViewerHas'
  BY <1>1, <1>5 DEF VideoInv, ViewerHas
<1> QED  BY <1>5, <1>9, <1>10, <1>11, <1>12, <1>13 DEF VideoInv

LEMMA ResizeKeeps ==
  ASSUME VideoInv, NEW length \in Lengths, ResizeSurface(length)
  PROVE  VideoInv'
<1> DEFINE b == Resized(surface.buffer, length)
<1>1. /\ surface' = Surface(b) /\ presented' = 0
      /\ UNCHANGED <<codec, active, frame_count, headers, last_frame, frames_rendered, rendered>>
      /\ UNCHANGED <<encPrev, decPrev, wire, shown, disrupted>>
  BY DEF ResizeSurface, deltaVars
<1>2. surface.buffer \in Frames
  BY SurfaceOf DEF VideoInv, VideoTypeOK
<1>3. length \in Nat /\ surface.buffer \in [1..Len(surface.buffer) -> Bit]
  BY <1>2, FrameShape, DeltaAssumption
<1>4. b \in [1..length -> Bit]
  BY <1>3 DEF Resized, Bit
<1>5. b \in Frames
  BY <1>4, FrameOfLength
<1> HIDE DEF b
<1>6. 0 \in 0..MaxGrabs
  BY VideoAssumption
<1>7. VideoTypeOK'
  BY <1>1, <1>5, <1>6 DEF VideoInv, VideoTypeOK
<1>8. DeltaTypeOK' /\ Paired'
  BY <1>1 DEF VideoInv, DeltaTypeOK, Paired
<1>9. Coded'
  BY <1>1
  DEF VideoInv, Coded, CodecInv, DeltaTypeOK, Encoded, Lockstep, Chained, FreshIsBlank
<1>10. Rendering' /\ ViewerHas'
  BY <1>1 DEF VideoInv, Rendering, NoneMissed, InOrder, Following, IsViewed, ViewerHas
<1> QED  BY <1>7, <1>8, <1>9, <1>10 DEF VideoInv

LEMMA VideoUnchanged ==
  ASSUME VideoInv, active' \subseteq Sources,
         UNCHANGED <<encPrev, decPrev, wire, shown, disrupted>>,
         UNCHANGED <<codec, frame_count, headers, last_frame, frames_rendered, surface,
                     rendered, presented>>
  PROVE  VideoInv'
<1>1. VideoTypeOK' /\ DeltaTypeOK' /\ Paired'
  BY DEF VideoInv, VideoTypeOK, DeltaTypeOK, Paired
<1>2. Coded'
  BY DEF VideoInv, Coded, CodecInv, DeltaTypeOK, Encoded, Lockstep, Chained, FreshIsBlank
<1>3. Rendering' /\ ViewerHas'
  BY DEF VideoInv, Rendering, NoneMissed, InOrder, Following, IsViewed, ViewerHas
<1> QED  BY <1>1, <1>2, <1>3 DEF VideoInv

LEMMA VideoStarts == DeltaInit /\ VideoInit => VideoInv
<1> SUFFICES ASSUME DeltaInit, VideoInit PROVE VideoInv
  OBVIOUS
<1>1. CodecInv /\ DeltaTypeOK
  BY InitIInv DEF IInv, CodecInv
<1>2. 0 \in 0..MaxGrabs /\ NoFrame \in Reference
  BY VideoAssumption DEF Reference
<1>3. surface \in {Surface(f) : f \in Frames}
  <2>1. PICK n \in Lengths : surface = Surface(Solid(n, 0))
    BY DEF VideoInit
  <2>2. Solid(n, 0) \in [1..n -> Bit]
    BY DEF Solid, Bit
  <2> QED  BY <2>1, <2>2, FrameOfLength
<1>4. VideoTypeOK
  BY <1>2, <1>3 DEF VideoInit, VideoTypeOK
<1>5. headers = <<>> /\ wire = <<>>
  BY DEF VideoInit, DeltaInit
<1>6. Paired /\ Coded
  BY <1>1, <1>5 DEF Paired, Coded
<1>7. Rendering
  BY <1>5, VideoAssumption
  DEF VideoInit, Rendering, NoneMissed, InOrder, Following, IsViewed
<1>8. ViewerHas
  BY DEF VideoInit, ViewerHas
<1> QED  BY <1>1, <1>4, <1>6, <1>7, <1>8 DEF VideoInv

LEMMA VideoStep == VideoInv /\ [VideoNext]_<<deltaVars, videoVars>> => VideoInv'
<1> SUFFICES ASSUME VideoInv, [VideoNext]_<<deltaVars, videoVars>> PROVE VideoInv'
  OBVIOUS
<1>1. ASSUME NEW d \in Sources, Start(d) \/ Stop(d)
      PROVE  VideoInv'
  <2>1. active' \subseteq Sources
    BY <1>1 DEF Start, Stop, VideoInv, VideoTypeOK
  <2> QED  BY <1>1, <2>1, VideoUnchanged DEF Start, Stop, deltaVars
<1>2. ASSUME NEW d \in Sources, SendFrame(d)
      PROVE  VideoInv'
  BY <1>2, SendKeeps
<1>3. CASE ViewFrame
  BY <1>3, ViewKeeps
<1>4. CASE RefuseFrame
  BY <1>4, RefuseKeeps
<1>5. CASE \E length \in Lengths : ResizeSurface(length)
  BY <1>5, ResizeKeeps
<1>6. CASE UNCHANGED <<deltaVars, videoVars>>
  <2>1. active' \subseteq Sources
    BY <1>6 DEF VideoInv, VideoTypeOK, videoVars
  <2> QED  BY <1>6, <2>1, VideoUnchanged DEF deltaVars, videoVars
<1> QED  BY <1>1, <1>2, <1>3, <1>4, <1>5, <1>6 DEF VideoNext

LEMMA VideoInvariance == VideoSpec => []VideoInv
  BY VideoStarts, VideoStep, PTL DEF VideoSpec

\* From the capture of several displays over one stream to the surface of one:
\* the viewer's renderer has exactly the last frame of its display that arrived,
\* none missed, with its own pixels unless a refused frame separated the codecs,
\* and the surface shows it or has been resized (integration.rs, renderer.rs:
\* 101-111, surface.rs:55-73).
THEOREM ViewerShowsCaptured == VideoSpec => []ShowsCaptured
<1>1. VideoInv => ShowsCaptured
  <2> SUFFICES ASSUME VideoInv PROVE ShowsCaptured
    OBVIOUS
  <2>1. ViewerHas
    BY DEF VideoInv
  <2>2. presented \in {0, rendered}
    BY <2>1 DEF ViewerHas
  <2>3. ASSUME headers = <<>>, SizeOf[Viewed] <= LargestPayload
        PROVE  rendered = frame_count[Viewed]
    <3>1. /\ rendered <= frame_count[Viewed]
          /\ \A n \in rendered + 1..frame_count[Viewed] : FALSE
      BY <2>3 DEF VideoInv, Rendering, NoneMissed, Following
    <3>2. rendered \in Nat /\ frame_count[Viewed] \in Nat
      BY VideoAssumption DEF VideoInv, VideoTypeOK
    <3>3. rendered < frame_count[Viewed] => frame_count[Viewed] \in rendered + 1..frame_count[Viewed]
      BY <3>2
    <3> QED  BY <3>1, <3>2, <3>3
  <2> QED  BY <2>1, <2>2, <2>3 DEF ShowsCaptured, ViewerHas
<1> QED  BY <1>1, VideoInvariance, PTL

-----------------------------------------------------------------------------
(* VideoPath: what the viewer of a display sees                            *)

\* A frame of the viewed display at the head of the queue was captured.
LEMMA HeadFollows ==
  ASSUME VideoInv, headers # <<>>, headers[1].display = Viewed,
         headers[1].payload_len <= LargestPayload
  PROVE  headers[1].sequence <= frame_count[Viewed]
<1>1. 1 \in 1..Len(headers)
  BY DEF VideoInv, VideoTypeOK
<1>2. headers[1].payload_len = SizeOf[Viewed]
  BY <1>1, HeaderShape DEF VideoInv
<1>3. headers[1].sequence \in rendered + 1..frame_count[Viewed]
  BY <1>1, <1>2 DEF VideoInv, Rendering, NoneMissed, Following, IsViewed
<1> QED  BY <1>3

LEMMA TooLargeExists ==
  ASSUME VideoInv, RefuseFrame
  PROVE  ~NothingRefused
<1>1. /\ headers # <<>> /\ Head(headers).payload_len > LargestPayload
      /\ Head(headers) = headers[1] /\ 1 \in 1..Len(headers)
  BY DEF RefuseFrame, VideoInv, VideoTypeOK
<1>2. /\ headers[1].display \in Sources
      /\ headers[1].payload_len = SizeOf[headers[1].display]
  BY <1>1, HeaderShape DEF VideoInv
<1>3. SizeOf[headers[1].display] \in Nat /\ LargestPayload \in Nat
  BY <1>2, CapturedFrame, VideoAssumption, 0 \in Nat
<1> QED  BY <1>1, <1>2, <1>3 DEF NothingRefused

\* What the viewer sees of each step.
LEMMA StepSeen ==
  ASSUME VideoInv, [VideoNext]_<<deltaVars, videoVars>>
  PROVE  [FromViewer!Next]_(FromViewer!vars)
<1>1. /\ frame_count \in [Sources -> 0..MaxGrabs] /\ MaxGrabs \in Nat /\ Viewed \in Sources
      /\ rendered \in Nat /\ disrupted \in BOOLEAN
  BY VideoAssumption DEF VideoInv, VideoTypeOK, DeltaTypeOK
<1>2. ASSUME NEW d \in Sources, Start(d) \/ Stop(d)
      PROVE  UNCHANGED FromViewer!vars
  BY <1>2 DEF Start, Stop, deltaVars, FromViewer!vars
<1>3. ASSUME NEW d \in Sources, SendFrame(d)
      PROVE  FromViewer!Capture \/ UNCHANGED FromViewer!vars
  <2>1. /\ frame_count' = [frame_count EXCEPT ![d] = frame_count[d] + 1]
        /\ UNCHANGED <<codec, rendered, last_frame, disrupted>>
    BY <1>3 DEF SendFrame, RawEncode, Encode
  <2>2. frame_count'[Viewed] = IF d = Viewed THEN frame_count[Viewed] + 1 ELSE frame_count[Viewed]
    BY <1>1, <2>1
  <2> QED  BY <2>1, <2>2 DEF FromViewer!Capture, FromViewer!vars
<1>4. CASE ViewFrame
  <2> DEFINE h == headers[1]
  <2>1. /\ headers # <<>> /\ headers' = Tail(headers) /\ Head(headers) = h
        /\ 1 \in 1..Len(headers) /\ h.payload_len <= LargestPayload
        /\ UNCHANGED <<codec, active, frame_count>>
        /\ Render(h, shown'.out)
    BY <1>4, HeadersLessHead DEF VideoInv, ViewFrame
  <2>2. /\ disrupted' = disrupted
        /\ codec = "raw" \/ ~disrupted => shown'.out = Captured(h.display, h.sequence)
    BY <1>4, HeadDecoded DEF ViewFrame
  <2>3. CASE h.display # Viewed
    BY <2>1, <2>2, <2>3 DEF Render, FromViewer!vars
  <2>4. CASE h.display = Viewed
    <3>1. last_frame' = shown'.out /\ rendered' = h.sequence
      BY <2>1, <2>4 DEF Render
    <3>2. h.sequence = rendered + 1
      BY <2>1, <2>4, <3>1, HeadRendered DEF VideoInv
    <3>3. rendered < frame_count[Viewed]
      BY <1>1, <2>1, <2>4, <3>2, HeadFollows
    <3>4. codec \in {"raw", "delta"}
      BY DEF VideoInv, VideoTypeOK
    <3>5. UNCHANGED <<frame_count[Viewed], codec = "raw" \/ NothingRefused,
                      codec = "delta" /\ disrupted>>
      BY <2>1, <2>2
    <3>6. (codec = "delta" /\ disrupted) \/ last_frame' = ViewedPicture(rendered + 1)
      BY <2>2, <2>4, <3>1, <3>2, <3>4 DEF ViewedPicture
    <3>7. rendered' = rendered + 1
      BY <3>1, <3>2
    <3>8. FromViewer!View
      BY <3>3, <3>5, <3>6, <3>7 DEF FromViewer!View
    <3> QED  BY <3>8 DEF FromViewer!Next
  <2> QED  BY <2>3, <2>4 DEF FromViewer!Next
<1>5. CASE RefuseFrame
  <2>1. /\ disrupted' = (disrupted \/ codec = "delta")
        /\ UNCHANGED <<codec, frame_count, last_frame, rendered>>
    BY <1>5 DEF RefuseFrame
  <2>2. ~NothingRefused
    BY <1>5, TooLargeExists
  <2> QED  BY <1>1, <2>1, <2>2 DEF FromViewer!Next, FromViewer!ComeApart, FromViewer!vars
<1>6. ASSUME NEW length \in Lengths, ResizeSurface(length)
      PROVE  UNCHANGED FromViewer!vars
  BY <1>6 DEF ResizeSurface, deltaVars, FromViewer!vars
<1>7. CASE UNCHANGED <<deltaVars, videoVars>>
  BY <1>7 DEF deltaVars, videoVars, FromViewer!vars
<1> QED  BY <1>2, <1>3, <1>4, <1>5, <1>6, <1>7 DEF VideoNext, FromViewer!Next

\* A viewer of one display cannot tell the pipeline from frames that come one
\* after the other as they were captured, until a frame that later deltas depend
\* on was refused: whatever the codec, the displays that share it, their sizes
\* and the frames in flight (frame.rs:81-88, delta.rs:37-81, renderer.rs:101-111).
THEOREM ViewIsFaithful == VideoSpec => ImplementsView
<1>1. DeltaInit /\ VideoInit => FromViewer!Init
  BY VideoAssumption DEF DeltaInit, VideoInit, FromViewer!Init
<1>2. VideoInv /\ [VideoNext]_<<deltaVars, videoVars>> => [FromViewer!Next]_(FromViewer!vars)
  BY StepSeen
<1> QED
  BY <1>1, <1>2, VideoInvariance, PTL DEF VideoSpec, ImplementsView, FromViewer!Spec

-----------------------------------------------------------------------------
(* InputForwarder                                                          *)

\* Who waits has called send().
WaitersCalled == \A i \in DOMAIN waiting : sends[waiting[i]] > 0

\* What is accepted of a task is of its calls so far, and if it waits, of those
\* before the last.
AcceptedCalls ==
  \A i \in DOMAIN accepted, s \in Senders :
    accepted[i].from = s =>
      /\ accepted[i].n <= sends[s]
      /\ Waits(s) => accepted[i].n < sends[s]

ForwarderInv ==
  ForwarderTypeOK /\ WaitersCalled /\ AcceptedCalls /\ AcceptedReachReceiver

\* A queue without one of its members: the others keep their order.
LEMMA OthersStay ==
  ASSUME NEW S, NEW q \in Seq(S), NEW i \in DOMAIN q
  PROVE  /\ RemoveAt(q, i) \in Seq(S) /\ DOMAIN RemoveAt(q, i) = 1..Len(q) - 1
         /\ \A j \in 1..Len(q) - 1 :
              RemoveAt(q, i)[j] = q[IF j < i THEN j ELSE j + 1]
<1>1. Len(q) \in Nat /\ i \in 1..Len(q)
  OBVIOUS
<1>2. /\ SubSeq(q, 1, i - 1) \in Seq(S) /\ Len(SubSeq(q, 1, i - 1)) = i - 1
      /\ \A j \in 1..i - 1 : SubSeq(q, 1, i - 1)[j] = q[j]
  BY <1>1
<1>3. /\ SubSeq(q, i + 1, Len(q)) \in Seq(S) /\ Len(SubSeq(q, i + 1, Len(q))) = Len(q) - i
      /\ \A j \in 1..Len(q) - i : SubSeq(q, i + 1, Len(q))[j] = q[i + j]
  BY <1>1
<1> DEFINE a == SubSeq(q, 1, i - 1)
           b == SubSeq(q, i + 1, Len(q))
<1>4. RemoveAt(q, i) = a \o b
  BY DEF RemoveAt
<1> HIDE DEF a, b
<1>5. /\ a \o b \in Seq(S) /\ Len(a \o b) = Len(q) - 1
      /\ \A j \in 1..Len(q) - 1 :
           (a \o b)[j] = IF j <= i - 1 THEN a[j] ELSE b[j - (i - 1)]
  <2>1. a \in Seq(S) /\ b \in Seq(S) /\ Len(a) = i - 1 /\ Len(b) = Len(q) - i
    BY <1>2, <1>3 DEF a, b
  <2>2. Len(a) + Len(b) = Len(q) - 1
    BY <1>1, <2>1
  <2>3. /\ a \o b \in Seq(S) /\ Len(a \o b) = Len(a) + Len(b)
        /\ \A j \in 1..Len(a) + Len(b) :
             (a \o b)[j] = IF j <= Len(a) THEN a[j] ELSE b[j - Len(a)]
    BY <2>1, ConcatProperties, Zenon
  <2>4. \A j \in 1..Len(q) - 1 :
          (a \o b)[j] = IF j <= i - 1 THEN a[j] ELSE b[j - (i - 1)]
    BY <2>1, <2>2, <2>3, Zenon
  <2> QED  BY <2>2, <2>3, <2>4
<1>6. ASSUME NEW j \in 1..Len(q) - 1
      PROVE  (a \o b)[j] = q[IF j < i THEN j ELSE j + 1]
  <2>1. CASE j < i
    <3>1. j \in 1..i - 1 /\ j <= i - 1
      BY <1>1, <2>1
    <3> QED  BY <1>2, <1>5, <2>1, <3>1 DEF a
  <2>2. CASE ~(j < i)
    <3>1. j - (i - 1) \in 1..Len(q) - i /\ i + (j - (i - 1)) = j + 1 /\ ~(j <= i - 1)
      BY <1>1, <2>2
    <3> QED  BY <1>3, <1>5, <2>2, <3>1 DEF b
  <2> QED  BY <2>1, <2>2
<1>7. DOMAIN (a \o b) = 1..Len(q) - 1
  BY <1>5
<1> QED  BY <1>4, <1>5, <1>6, <1>7

\* An event that joins the channel joins what is accepted, and one that leaves
\* it for the reader changes nothing of what is accepted.
LEMMA AppendBehind ==
  ASSUME NEW S, NEW r \in Seq(S), NEW c \in Seq(S), NEW e \in S
  PROVE  r \o Append(c, e) = Append(r \o c, e)
<1>1. Append(c, e) = c \o <<e>> /\ Append(r \o c, e) = (r \o c) \o <<e>>
  BY AppendIsConcat, ConcatProperties
<1>2. <<e>> \in Seq(S)
  OBVIOUS
<1> QED  BY <1>1, <1>2, ConcatAssociative

LEMMA HeadMoves ==
  ASSUME NEW S, NEW r \in Seq(S), NEW c \in Seq(S), c # <<>>
  PROVE  /\ Head(c) \in S /\ Tail(c) \in Seq(S) /\ Len(Tail(c)) = Len(c) - 1
         /\ Append(r, Head(c)) \o Tail(c) = r \o c
<1>1. Head(c) \in S /\ Tail(c) \in Seq(S) /\ Len(Tail(c)) = Len(c) - 1
  OBVIOUS
<1>2. c = <<Head(c)>> \o Tail(c) /\ <<Head(c)>> \in Seq(S)
  BY <1>1
<1>3. Append(r, Head(c)) = r \o <<Head(c)>>
  BY <1>1, AppendIsConcat
<1>4. (r \o <<Head(c)>>) \o Tail(c) = r \o (<<Head(c)>> \o Tail(c))
  BY <1>1, <1>2, ConcatAssociative
<1> QED  BY <1>1, <1>2, <1>3, <1>4

LEMMA PrefixOfConcat ==
  ASSUME NEW S, NEW s \in Seq(S), NEW t \in Seq(S)
  PROVE  IsPrefix(s, s \o t)
<1>1. /\ s \o t \in Seq(S) /\ Len(s) \in Nat /\ Len(t) \in Nat
      /\ Len(s \o t) = Len(s) + Len(t)
      /\ \A i \in 1..Len(s) : (s \o t)[i] = s[i]
  OBVIOUS
<1> DEFINE u == s \o t
           n == Len(s)
<1>2. 1 \in Int /\ n \in Int /\ (\A i \in 1..n : s[i] \in S /\ u[i] = s[i])
  BY <1>1
<1> HIDE DEF u, n
<1>3. /\ SubSeq(s, 1, n) \in Seq(S) /\ SubSeq(u, 1, n) \in Seq(S)
      /\ Len(SubSeq(s, 1, n)) = Len(SubSeq(u, 1, n))
      /\ Len(SubSeq(s, 1, n)) = n
      /\ \A i \in 1..n : SubSeq(s, 1, n)[i] = s[i] /\ SubSeq(u, 1, n)[i] = u[i]
  <2>1. n - 1 + 1 = n /\ n \in Nat /\ (1 <= n \/ n = 0) /\ \A i \in 1..n : 1 + i - 1 = i
    BY <1>1, <1>2 DEF n
  <2> QED  BY <1>2, <2>1, SubSeqProperties
<1>4. SubSeq(s, 1, n) = SubSeq(u, 1, n)
  BY <1>2, <1>3, SeqEqual
<1>5. Len(s) <= Len(u)
  BY <1>1 DEF u
<1> QED  BY <1>4, <1>5 DEF IsPrefix, u, n

LEMMA EventsOf ==
  ASSUME NEW q \in Seq(Events), NEW i \in DOMAIN q
  PROVE  q[i].from \in Senders /\ q[i].n \in Nat
<1>1. q[i] \in Events
  OBVIOUS
<1>2. MaxSends \in Nat
  BY ForwarderAssumption
<1> QED  BY <1>1, <1>2 DEF Events

\* A sender leaves the queue: it no longer waits, and the others are still
\* different and have called.
LEMMA QueueShorter ==
  ASSUME ForwarderInv, NEW s \in Senders, LeaveQueue(s)
  PROVE  /\ waiting' \in Seq(Senders)
         /\ \A j, k \in DOMAIN waiting' : waiting'[j] = waiting'[k] => j = k
         /\ \A j \in DOMAIN waiting' : sends[waiting'[j]] > 0
         /\ \A t \in Senders : Waits(t)' => Waits(t) /\ t # s
         /\ Waits(s) /\ sends[s] > 0
<1>1. waiting \in Seq(Senders) /\ Len(waiting) \in Nat
  BY DEF ForwarderInv, ForwarderTypeOK
<1>2. PICK i \in DOMAIN waiting : waiting[i] = s /\ waiting' = RemoveAt(waiting, i)
  BY DEF LeaveQueue
<1> DEFINE at(j) == IF j < i THEN j ELSE j + 1
<1>3. /\ waiting' \in Seq(Senders) /\ DOMAIN waiting' = 1..Len(waiting) - 1
      /\ \A j \in DOMAIN waiting' : waiting'[j] = waiting[at(j)]
  BY <1>1, <1>2, OthersStay
<1>4. /\ \A j \in DOMAIN waiting' : at(j) \in DOMAIN waiting /\ at(j) # i
      /\ \A j, k \in DOMAIN waiting' : at(j) = at(k) => j = k
  BY <1>1, <1>2, <1>3
<1> HIDE DEF at
<1>5. \A j, k \in DOMAIN waiting : waiting[j] = waiting[k] => j = k
  BY DEF ForwarderInv, ForwarderTypeOK
<1>6. \A j, k \in DOMAIN waiting' : waiting'[j] = waiting'[k] => j = k
  BY <1>3, <1>4, <1>5
<1>7. \A j \in DOMAIN waiting' : sends[waiting'[j]] > 0
  BY <1>3, <1>4 DEF ForwarderInv, WaitersCalled
<1>8. \A t \in Senders : Waits(t)' => Waits(t) /\ t # s
  BY <1>2, <1>3, <1>4, <1>5 DEF Waits
<1>9. Waits(s) /\ sends[s] > 0
  BY <1>2 DEF Waits, ForwarderInv, WaitersCalled
<1> QED  BY <1>3, <1>6, <1>7, <1>8, <1>9

LEMMA LeaveKeeps ==
  ASSUME ForwarderInv, NEW s \in Senders, LeaveQueue(s),
         UNCHANGED <<forwarder, receiver, channel, sends, accepted, received>>
  PROVE  ForwarderInv'
<1>1. AcceptedCalls'
  <2>1. accepted \in Seq(Events)
    BY DEF ForwarderInv, ForwarderTypeOK
  <2>2. \A i \in DOMAIN accepted : accepted[i].from \in Senders
    BY <2>1, EventsOf
  <2> QED  BY <2>2, QueueShorter DEF ForwarderInv, AcceptedCalls
<1> QED  BY <1>1, QueueShorter
  DEF ForwarderInv, ForwarderTypeOK, WaitersCalled, AcceptedReachReceiver

LEMMA SendCallKeeps ==
  ASSUME ForwarderInv, NEW s \in Senders, SendCall(s)
  PROVE  ForwarderInv'
<1>1. /\ ~Waits(s) /\ sends[s] < MaxSends
      /\ sends' = [sends EXCEPT ![s] = @ + 1] /\ waiting' = Append(waiting, s)
      /\ UNCHANGED <<forwarder, receiver, channel, accepted, received>>
  BY DEF SendCall
<1>2. /\ waiting \in Seq(Senders) /\ Len(waiting) \in Nat
      /\ sends \in [Senders -> 0..MaxSends] /\ MaxSends \in Nat
      /\ \A i \in 1..Len(waiting) : waiting[i] \in Senders /\ waiting[i] # s
  BY <1>1, ForwarderAssumption DEF ForwarderInv, ForwarderTypeOK, Waits
<1> DEFINE n == Len(waiting)
<1>3. /\ waiting' \in Seq(Senders) /\ DOMAIN waiting' = 1..n + 1
      /\ waiting'[n + 1] = s /\ \A i \in 1..n : waiting'[i] = waiting[i]
  BY <1>1, <1>2
<1>4. \A i \in 1..n + 1 : i \in 1..n \/ i = n + 1
  BY <1>2
<1>5. \A i, j \in DOMAIN waiting : waiting[i] = waiting[j] => i = j
  BY DEF ForwarderInv, ForwarderTypeOK
<1>6. \A i, j \in DOMAIN waiting' : waiting'[i] = waiting'[j] => i = j
  <2> SUFFICES ASSUME NEW i \in 1..n + 1, NEW j \in 1..n + 1, waiting'[i] = waiting'[j]
               PROVE  i = j
    BY <1>3
  <2>1. CASE i \in 1..n /\ j \in 1..n
    <3>1. waiting[i] = waiting[j] /\ i \in DOMAIN waiting /\ j \in DOMAIN waiting
      BY <1>2, <1>3, <2>1
    <3> QED  BY <1>5, <3>1
  <2>2. CASE i = n + 1 \/ j = n + 1
    <3>1. \A k \in 1..n : waiting'[k] # waiting'[n + 1]
      BY <1>2, <1>3
    <3> QED  BY <1>4, <2>2, <3>1
  <2> QED  BY <1>4, <2>1, <2>2
<1>7. sends' \in [Senders -> 0..MaxSends]
  BY <1>1, <1>2
<1>8. \A i \in DOMAIN waiting' : sends'[waiting'[i]] > 0
  <2>1. \A i \in 1..n : sends'[waiting'[i]] > 0
    BY <1>1, <1>2, <1>3 DEF ForwarderInv, WaitersCalled
  <2>2. sends'[s] > 0
    BY <1>1, <1>2
  <2> QED  BY <1>3, <1>4, <2>1, <2>2
<1>9. AcceptedCalls'
  <2> SUFFICES ASSUME NEW i \in DOMAIN accepted, NEW t \in Senders, accepted[i].from = t
               PROVE  /\ accepted[i].n <= sends'[t]
                      /\ Waits(t)' => accepted[i].n < sends'[t]
    BY <1>1 DEF AcceptedCalls
  <2> DEFINE c == accepted[i].n
  <2>1. c \in Nat
    <3>1. accepted \in Seq(Events)
      BY DEF ForwarderInv, ForwarderTypeOK
    <3> QED  BY <3>1, EventsOf
  <2>2. c <= sends[t] /\ (Waits(t) => c < sends[t])
    BY DEF ForwarderInv, AcceptedCalls
  <2> HIDE DEF c
  <2>3. CASE t = s
    <3>1. c < sends'[t]
      BY <1>1, <1>2, <2>1, <2>2, <2>3
    <3> QED  BY <1>1, <1>2, <2>1, <3>1 DEF c
  <2>4. CASE t # s
    <3>1. sends'[t] = sends[t]
      BY <1>1, <1>2, <2>4
    <3>2. Waits(t)' => Waits(t)
      <4>1. \A k \in 1..n + 1 : waiting'[k] = t => k \in 1..n /\ waiting[k] = t
        BY <1>3, <1>4, <2>4
      <4>2. DOMAIN waiting = 1..n
        BY <1>2
      <4> HIDE DEF n
      <4> QED  BY <1>3, <4>1, <4>2 DEF Waits
    <3> QED  BY <2>2, <3>1, <3>2 DEF c
  <2> QED  BY <2>3, <2>4
<1> QED  BY <1>1, <1>3, <1>6, <1>7, <1>8, <1>9
  DEF ForwarderInv, ForwarderTypeOK, WaitersCalled, AcceptedReachReceiver

LEMMA SendOkKeeps ==
  ASSUME ForwarderInv, NEW s \in Senders, SendOk(s)
  PROVE  ForwarderInv'
<1> DEFINE e == Event(s, sends[s])
           n == Len(accepted)
<1>1. /\ LeaveQueue(s) /\ HasRoom(s)
      /\ channel' = Append(channel, e) /\ accepted' = Append(accepted, e)
      /\ UNCHANGED <<forwarder, receiver, sends, received>>
      /\ receiver # "dropped"
  BY DEF SendOk
<1>2. /\ channel \in Seq(Events) /\ accepted \in Seq(Events) /\ received \in Seq(Events)
      /\ sends \in [Senders -> 0..MaxSends] /\ MaxSends \in Nat /\ Capacity \in Nat
      /\ waiting \in Seq(Senders) /\ Len(channel) \in Nat /\ n \in Nat
  BY ForwarderAssumption DEF ForwarderInv, ForwarderTypeOK
<1>3. Len(channel) < Capacity
  <2>1. PICK i \in DOMAIN waiting : i <= Capacity - Len(channel)
    BY <1>1 DEF HasRoom
  <2>2. i \in Nat /\ i >= 1
    BY <1>2
  <2> QED  BY <1>2, <2>1, <2>2
<1>4. e \in Events /\ e.from = s /\ e.n = sends[s]
  <2>1. sends[s] > 0
    BY <1>1, QueueShorter
  <2> QED  BY <1>2, <2>1 DEF Event, Events
<1> HIDE DEF e
<1>5. /\ channel' \in Seq(Events) /\ accepted' \in Seq(Events)
      /\ Len(channel') <= Capacity
      /\ DOMAIN accepted' = 1..n + 1 /\ accepted'[n + 1] = e
      /\ \A i \in 1..n : accepted'[i] = accepted[i]
  BY <1>1, <1>2, <1>3, <1>4
<1>6. \A i \in 1..n : /\ i \in DOMAIN accepted
                      /\ accepted[i].from \in Senders /\ accepted[i].n \in Nat
  BY <1>2, EventsOf
<1>7. \A i \in 1..n + 1 : i \in 1..n \/ i = n + 1
  BY <1>2
<1>8. AcceptedCalls'
  <2>1. ASSUME NEW i \in 1..n, NEW t \in Senders, accepted'[i].from = t
        PROVE  accepted'[i].n <= sends'[t] /\ (Waits(t)' => accepted'[i].n < sends'[t])
    <3>1. accepted'[i] = accepted[i] /\ i \in DOMAIN accepted
      BY <1>5, <1>6
    <3>2. Waits(t)' => Waits(t)
      BY <1>1, QueueShorter
    <3> QED  BY <1>1, <2>1, <3>1, <3>2 DEF ForwarderInv, AcceptedCalls
  <2>2. e.n <= sends'[s] /\ ~Waits(s)'
    BY <1>1, <1>2, <1>4, QueueShorter
  <2> QED  BY <1>4, <1>5, <1>7, <2>1, <2>2 DEF AcceptedCalls
<1>9. accepted' = received' \o channel'
  <2>1. received \o Append(channel, e) = Append(received \o channel, e)
    BY <1>2, <1>4, AppendBehind
  <2>2. accepted = received \o channel
    BY <1>1 DEF ForwarderInv, AcceptedReachReceiver
  <2> QED  BY <1>1, <2>1, <2>2, Zenon
<1>10. IsPrefix(received', accepted')
  BY <1>1, <1>2, <1>5, <1>9, PrefixOfConcat
<1>11. ASSUME NEW i \in 1..n + 1, NEW j \in 1..n + 1,
              i < j, accepted'[i].from = accepted'[j].from
       PROVE  accepted'[i].n < accepted'[j].n
  <2>1. CASE j \in 1..n
    <3>1. i \in 1..n
      BY <1>2, <1>11, <2>1
    <3> QED  BY <1>5, <1>6, <1>11, <2>1, <3>1 DEF ForwarderInv, AcceptedReachReceiver
  <2>2. CASE j = n + 1
    <3>1. i \in 1..n
      BY <1>2, <1>11, <2>2
    <3>2. accepted[i].from = s /\ accepted'[i].n = accepted[i].n /\ accepted'[j].n = sends[s]
      BY <1>4, <1>5, <1>11, <2>2, <3>1
    <3>3. Waits(s)
      BY <1>1, QueueShorter
    <3> QED  BY <1>6, <3>1, <3>2, <3>3 DEF ForwarderInv, AcceptedCalls
  <2> QED  BY <1>7, <2>1, <2>2
<1>12. AcceptedReachReceiver'
  BY <1>5, <1>9, <1>10, <1>11 DEF AcceptedReachReceiver
<1> QED  BY <1>1, <1>2, <1>5, <1>8, <1>12, QueueShorter
  DEF ForwarderInv, ForwarderTypeOK, WaitersCalled

LEMMA RecvKeeps ==
  ASSUME ForwarderInv, Recv
  PROVE  ForwarderInv'
<1>1. /\ channel # <<>> /\ receiver = "taken"
      /\ received' = Append(received, Head(channel)) /\ channel' = Tail(channel)
      /\ UNCHANGED <<forwarder, receiver, waiting, sends, accepted>>
  BY DEF Recv
<1>2. /\ channel \in Seq(Events) /\ received \in Seq(Events) /\ Len(channel) \in Nat
      /\ Len(channel) <= Capacity /\ Capacity \in Nat
  BY ForwarderAssumption DEF ForwarderInv, ForwarderTypeOK
<1>3. /\ Head(channel) \in Events /\ channel' \in Seq(Events)
      /\ Len(channel') = Len(channel) - 1
      /\ received' \o channel' = received \o channel
  BY <1>1, <1>2, HeadMoves
<1>4. received' \in Seq(Events) /\ Len(channel') <= Capacity
  BY <1>1, <1>2, <1>3
<1>5. accepted' = received' \o channel'
  BY <1>1, <1>3 DEF ForwarderInv, AcceptedReachReceiver
<1>6. IsPrefix(received', accepted')
  BY <1>3, <1>4, <1>5, PrefixOfConcat
<1>7. AcceptedReachReceiver'
  BY <1>1, <1>5, <1>6 DEF ForwarderInv, AcceptedReachReceiver
<1>8. AcceptedCalls'
  BY <1>1 DEF ForwarderInv, AcceptedCalls, Waits
<1> QED  BY <1>1, <1>3, <1>4, <1>7, <1>8
  DEF ForwarderInv, ForwarderTypeOK, WaitersCalled

LEMMA ForwarderStep == ForwarderInv /\ [ForwarderNext]_forwarderVars => ForwarderInv'
<1> SUFFICES ASSUME ForwarderInv, [ForwarderNext]_forwarderVars PROVE ForwarderInv'
  OBVIOUS
<1>1. ASSUME NEW s \in Senders, SendClosed(s) \/ SendCancel(s)
      PROVE  ForwarderInv'
  BY <1>1, LeaveKeeps DEF SendClosed, SendCancel
<1>2. CASE UNCHANGED forwarderVars \/ TakeReceiver
  BY <1>2 DEF forwarderVars, TakeReceiver, ForwarderInv, ForwarderTypeOK, WaitersCalled,
     AcceptedCalls, Waits, AcceptedReachReceiver
<1>3. CASE DropForwarder \/ DropReceiver
  <2>1. /\ \/ receiver' = "dropped" /\ channel' = <<>>
           \/ receiver' = receiver /\ channel' = channel
        /\ forwarder' \in {"alive", "dropped"}
        /\ UNCHANGED <<waiting, sends, accepted, received>>
    BY <1>3 DEF DropForwarder, DropReceiver, ForwarderInv, ForwarderTypeOK
  <2>2. <<>> \in Seq(Events) /\ Len(<<>>) <= Capacity
    BY ForwarderAssumption
  <2> QED  BY <2>1, <2>2
    DEF ForwarderInv, ForwarderTypeOK, WaitersCalled, AcceptedCalls, Waits,
        AcceptedReachReceiver
<1> QED  BY <1>1, <1>2, <1>3, SendCallKeeps, SendOkKeeps, RecvKeeps DEF ForwarderNext

LEMMA ForwarderStarts == ForwarderInit => ForwarderInv
<1> SUFFICES ASSUME ForwarderInit PROVE ForwarderInv
  OBVIOUS
<1>1. /\ <<>> \in Seq(Events) /\ <<>> \in Seq(Senders) /\ <<>> \o <<>> = <<>>
      /\ Len(<<>>) <= Capacity /\ DOMAIN <<>> = {} /\ 0 \in 0..MaxSends
  BY ForwarderAssumption
<1> QED  BY <1>1
  DEF ForwarderInit, ForwarderInv, ForwarderTypeOK, WaitersCalled, AcceptedCalls,
      AcceptedReachReceiver, IsPrefix

LEMMA ForwarderInvariance == ForwarderSpec => []ForwarderInv
  BY ForwarderStarts, ForwarderStep, PTL DEF ForwarderSpec

\* Through any interleaving of senders that wait, give up and are woken, an
\* event whose send() returned Ok is in the channel or with the reader as long as
\* there is a reader to come; a reader that went away had the first of them; and
\* the events of one task stand in the order of its calls, each once
\* (forwarder.rs:23-29).
THEOREM AcceptedReach == ForwarderSpec => []AcceptedReachReceiver
<1>1. ForwarderInv => AcceptedReachReceiver
  BY DEF ForwarderInv
<1> QED  BY <1>1, ForwarderInvariance, PTL

-----------------------------------------------------------------------------
(* InputInjector                                                           *)

LEMMA EventShape ==
  ASSUME NEW e \in InputEvents
  PROVE  e \in Seq(Natives) /\ Len(e) \in 0..2
<1>1. /\ "move" \in Natives /\ "press" \in Natives /\ "release" \in Natives
      /\ "keyDown" \in Natives /\ "keyUp" \in Natives
      /\ "wheel" \in Natives /\ "hwheel" \in Natives
  BY DEF Natives
<1>2. \A a \in Natives : <<a>> \in Seq(Natives) /\ Len(<<a>>) = 1
  OBVIOUS
<1>3. \A a, b \in Natives : <<a, b>> \in Seq(Natives) /\ Len(<<a, b>>) = 2
  OBVIOUS
<1>4. <<>> \in Seq(Natives) /\ Len(<<>>) = 0
  OBVIOUS
<1>5. \/ e = <<>>
      \/ \E a \in Natives : e = <<a>>
      \/ \E a, b \in Natives : e = <<a, b>>
  BY <1>1 DEF InputEvents, Mouse, Key, Scroll
<1>6. CASE e = <<>>
  BY <1>4, <1>6
<1>7. ASSUME NEW a \in Natives, e = <<a>> PROVE e \in Seq(Natives) /\ Len(e) \in 0..2
  BY <1>2, <1>7
<1>8. ASSUME NEW a \in Natives, NEW b \in Natives, e = <<a, b>>
      PROVE  e \in Seq(Natives) /\ Len(e) \in 0..2
  BY <1>3, <1>8
<1> QED  BY <1>5, <1>6, <1>7, <1>8

LEMMA NativesAssociate ==
  ASSUME NEW s \in Seq(Natives), NEW t \in Seq(Natives), NEW u \in Seq(Natives)
  PROVE  (s \o t) \o u = s \o (t \o u)
BY ConcatAssociative

LEMMA LeastIndex ==
  ASSUME NEW S \in SUBSET Nat, S # {}
  PROVE  \E m \in S : \A n \in S : m <= n
<1>1. PICK m \in S : \A n \in S : ~ (<<n, m>> \in OpToRel(<, Nat))
  BY NatLessThanWellFounded, WFMin
<1>2. \A n \in S : ~ (n < m)
  BY <1>1 DEF OpToRel
<1> QED  BY <1>2

\* One event after the other: the first n give what the first n - 1 give and
\* then the inputs of the n-th.
LEMMA InputsByEvent ==
  ASSUME NEW events \in Seq(InputEvents)
  PROVE  Inputs(events) = [n \in 0..Len(events) |->
                             IF n = 0 THEN <<>> ELSE Inputs(events)[n - 1] \o events[n]]
<1> DEFINE Upto(f, m) ==
             f = [n \in 0..m |-> IF n = 0 THEN <<>> ELSE f[n - 1] \o events[n]]
           T == {m \in Nat : ~ \E f : Upto(f, m)}
<1>1. T = {}
  <2> SUFFICES ASSUME T # {} PROVE FALSE
    OBVIOUS
  <2>1. PICK m \in T : \A n \in T : m <= n
    <3>1. T \in SUBSET Nat
      OBVIOUS
    <3> QED  BY <3>1, LeastIndex
  <2>2. CASE m = 0
    <3>1. Upto([n \in 0..0 |-> <<>>], 0)
      OBVIOUS
    <3> QED  BY <2>1, <2>2, <3>1
  <2>3. CASE m # 0
    <3>1. m \in Nat /\ m - 1 \in Nat /\ m - 1 \notin T
      <4>1. m \in Nat
        BY <2>1
      <4> HIDE DEF T
      <4>2. m - 1 \in Nat /\ ~ (m <= m - 1)
        BY <2>3, <4>1
      <4> QED  BY <2>1, <4>1, <4>2
    <3>2. PICK f : Upto(f, m - 1)
      BY <3>1
    <3> DEFINE g == [n \in 0..m |-> IF n = m THEN f[m - 1] \o events[m] ELSE f[n]]
    <3>3. ASSUME NEW n \in 0..m
          PROVE  g[n] = IF n = 0 THEN <<>> ELSE g[n - 1] \o events[n]
      <4>1. CASE n = 0
        <5>1. f[0] = <<>>
          BY <3>1, <3>2
        <5> QED  BY <2>3, <4>1, <5>1
      <4>2. CASE n # 0
        <5>1. n - 1 \in 0..m - 1 /\ g[n - 1] = f[n - 1]
          BY <3>1, <4>2
        <5>2. n # m => n \in 0..m - 1 /\ f[n] = f[n - 1] \o events[n]
          BY <3>1, <3>2, <4>2
        <5> QED  BY <4>2, <5>1, <5>2
      <4> QED  BY <4>1, <4>2
    <3>4. Upto(g, m)
      BY <3>3
    <3> QED  BY <2>1, <3>4
  <2> QED  BY <2>2, <2>3
<1>2. Len(events) \in Nat
  OBVIOUS
<1>3. \E f : Upto(f, Len(events))
  BY <1>1, <1>2
<1>4. Inputs(events) = CHOOSE f : Upto(f, Len(events))
  BY DEF Inputs
<1> HIDE DEF Upto
<1>5. Upto(Inputs(events), Len(events))
  BY <1>3, <1>4
<1> QED  BY <1>5 DEF Upto

LEMMA InputsAre ==
  ASSUME NEW events \in Seq(InputEvents)
  PROVE  /\ Inputs(events)[0] = <<>>
         /\ \A n \in 1..Len(events) :
              Inputs(events)[n] = Inputs(events)[n - 1] \o events[n]
         /\ \A n \in 0..Len(events) : Inputs(events)[n] \in Seq(Natives)
<1> DEFINE I == Inputs(events)
           N == Len(events)
           T == {n \in 0..N : I[n] \notin Seq(Natives)}
<1>1. N \in Nat /\ \A n \in 1..N : events[n] \in Seq(Natives)
  BY EventShape
<1>2. I = [n \in 0..N |-> IF n = 0 THEN <<>> ELSE I[n - 1] \o events[n]]
  BY InputsByEvent
<1> HIDE DEF I, N
<1>3. I[0] = <<>> /\ \A n \in 1..N : I[n] = I[n - 1] \o events[n]
  <2>1. 0 \in 0..N /\ \A n \in 1..N : n \in 0..N /\ n # 0
    BY <1>1
  <2>2. \A n \in 0..N : I[n] = IF n = 0 THEN <<>> ELSE I[n - 1] \o events[n]
    BY <1>2
  <2> QED  BY <2>1, <2>2
<1>4. T = {}
  <2> SUFFICES ASSUME T # {} PROVE FALSE
    OBVIOUS
  <2>1. PICK m \in T : \A n \in T : m <= n
    <3>1. T \in SUBSET Nat
      BY <1>1
    <3> QED  BY <3>1, LeastIndex
  <2>2. m \in 0..N /\ I[m] \notin Seq(Natives)
    BY <2>1
  <2>3. m # 0
    <3>1. <<>> \in Seq(Natives)
      OBVIOUS
    <3> QED  BY <1>3, <2>2, <3>1
  <2>4. m - 1 \in 0..N /\ m \in 1..N /\ ~ (m <= m - 1)
    BY <1>1, <2>2, <2>3
  <2>5. I[m - 1] \in Seq(Natives)
    BY <2>1, <2>4
  <2>6. I[m - 1] \o events[m] \in Seq(Natives)
    BY <1>1, <2>4, <2>5
  <2> QED  BY <1>3, <2>2, <2>4, <2>6
<1> QED  BY <1>3, <1>4 DEF I, N

\* What comes of fewer events is the beginning of what comes of more.
LEMMA InputsGrow ==
  ASSUME NEW events \in Seq(InputEvents), NEW n \in 0..Len(events), NEW m \in 0..n
  PROVE  \E t \in Seq(Natives) : Inputs(events)[n] = Inputs(events)[m] \o t
<1> DEFINE I == Inputs(events)
           N == Len(events)
           T == {k \in m..N : ~ \E t \in Seq(Natives) : I[k] = I[m] \o t}
<1>1. /\ N \in Nat /\ n \in 0..N /\ m \in 0..n /\ m \in 0..N
      /\ \A k \in 1..N : events[k] \in Seq(Natives)
      /\ \A k \in 0..N : I[k] \in Seq(Natives)
      /\ \A k \in 1..N : I[k] = I[k - 1] \o events[k]
  <2>1. N \in Nat /\ n \in 0..N /\ m \in 0..n /\ m \in 0..N
    OBVIOUS
  <2>2. \A k \in 1..N : events[k] \in Seq(Natives)
    BY EventShape
  <2> QED  BY <2>1, <2>2, InputsAre
<1> HIDE DEF I, N
<1>2. T = {}
  <2> SUFFICES ASSUME T # {} PROVE FALSE
    OBVIOUS
  <2>1. PICK k \in T : \A j \in T : k <= j
    <3>1. T \in SUBSET Nat
      BY <1>1
    <3> QED  BY <3>1, LeastIndex
  <2>2. k \in m..N /\ ~ \E t \in Seq(Natives) : I[k] = I[m] \o t
    BY <2>1
  <2>3. k # m
    <3>1. <<>> \in Seq(Natives) /\ I[m] \o <<>> = I[m]
      BY <1>1, ConcatEmptySeq
    <3> QED  BY <2>2, <3>1
  <2>4. k - 1 \in m..N /\ k \in 1..N /\ ~ (k <= k - 1)
    BY <1>1, <2>2, <2>3
  <2>5. PICK t \in Seq(Natives) : I[k - 1] = I[m] \o t
    BY <2>1, <2>4
  <2>6. I[k] = (I[m] \o t) \o events[k]
    BY <1>1, <2>4, <2>5
  <2>7. (I[m] \o t) \o events[k] = I[m] \o (t \o events[k])
    <3>1. I[m] \in Seq(Natives) /\ events[k] \in Seq(Natives)
      BY <1>1, <2>4
    <3> QED  BY <3>1, NativesAssociate
  <2>8. t \o events[k] \in Seq(Natives)
    BY <1>1, <2>4
  <2> QED  BY <2>2, <2>6, <2>7, <2>8
<1>3. n \in m..N
  BY <1>1
<1> QED  BY <1>2, <1>3 DEF I

\* What is in is what the events before the current one give, and then the first
\* inputs of that one.
Injecting ==
  IF current <= Len(batch)
  THEN /\ step <= Len(batch[current])
       /\ native = Inputs(batch)[current - 1] \o SubSeq(batch[current], 1, step)
  ELSE step = 0 /\ native = Inputs(batch)[Len(batch)]

InjectorInv ==
  /\ InjectorTypeOK
  /\ injected = before + (current - 1)
  /\ Injecting
  /\ injector = "ok" => current = Len(batch) + 1
  /\ injector = "err" => current <= Len(batch) /\ step < Len(batch[current])

\* The first inputs of an event are some inputs, and one more is the next.
LEMMA FirstInputs ==
  ASSUME NEW e \in InputEvents, NEW k \in 0..Len(e)
  PROVE  /\ SubSeq(e, 1, k) \in Seq(Natives) /\ Len(SubSeq(e, 1, k)) = k
         /\ SubSeq(e, 1, 0) = <<>> /\ SubSeq(e, 1, Len(e)) = e
         /\ k < Len(e) => /\ e[k + 1] \in Natives
                          /\ SubSeq(e, 1, k + 1) = SubSeq(e, 1, k) \o <<e[k + 1]>>
<1>1. e \in Seq(Natives) /\ Len(e) \in Nat /\ \A i \in 1..Len(e) : e[i] \in Natives
  BY EventShape
<1>2. k \in Int /\ 1 \in Int /\ 0 \in Int /\ 0 < 1 /\ \A i \in 1..k : e[i] \in Natives
  BY <1>1
<1>3. SubSeq(e, 1, k) \in Seq(Natives) /\ Len(SubSeq(e, 1, k)) = k
  <2>1. k - 1 + 1 = k /\ (1 <= k \/ k = 0)
    BY <1>2
  <2> QED  BY <1>2, <2>1, SubSeqProperties
<1>4. SubSeq(e, 1, 0) = <<>> /\ SubSeq(e, 1, Len(e)) = e
  BY <1>1, <1>2, SubSeqEmpty, SubSeqFull
<1>5. ASSUME k < Len(e)
      PROVE  e[k + 1] \in Natives /\ SubSeq(e, 1, k + 1) = SubSeq(e, 1, k) \o <<e[k + 1]>>
  <2>1. 1 \in 1..Len(e) /\ k + 1 \in 1..Len(e) /\ (k + 1) - 1 = k
    BY <1>1, <1>2, <1>5
  <2> QED  BY <1>1, <2>1, SubSeqRecursiveSecond
<1> QED  BY <1>3, <1>4, <1>5

LEMMA InjectorStarts == InjectorInit => InjectorInv
<1> SUFFICES ASSUME InjectorInit PROVE InjectorInv
  OBVIOUS
<1>1. /\ <<>> \in Seq(InputEvents) /\ <<>> \in Seq(Natives) /\ Len(<<>>) = 0
      /\ ~ (1 <= 0)
  OBVIOUS
<1>2. InjectorTypeOK
  BY <1>1, InjectorAssumption DEF InjectorInit, InjectorTypeOK
<1>3. Injecting
  <2>1. Inputs(<<>>)[0] = <<>>
    BY <1>1, InputsAre
  <2> QED  BY <1>1, <2>1 DEF InjectorInit, Injecting
<1> QED  BY <1>1, <1>2, <1>3 DEF InjectorInit, InjectorInv

LEMMA BatchBegins ==
  ASSUME InjectorInv, NEW events \in BoundedSeq(InputEvents, MaxBatch), InjectBatch(events)
  PROVE  InjectorInv'
<1>1. PICK m \in 0..MaxBatch : events \in [1..m -> InputEvents]
  BY DEF BoundedSeq, SeqOf
<1>2. m \in Nat /\ m <= MaxBatch
  BY InjectorAssumption
<1>3. events \in Seq(InputEvents) /\ Len(events) = m
  BY <1>1, <1>2
<1>4. /\ batch' = events /\ current' = 1 /\ step' = 0 /\ injector' = "running"
      /\ native' = <<>> /\ before' = injected /\ injected' = injected
  BY DEF InjectBatch
<1>5. InjectorTypeOK'
  <2>1. 1 \in 1..m + 1 /\ <<>> \in Seq(Natives)
    BY <1>2
  <2> QED  BY <1>2, <1>3, <1>4, <2>1 DEF InjectorInv, InjectorTypeOK
<1>6. Injecting'
  <2>1. Inputs(events)[0] = <<>>
    BY <1>3, InputsAre
  <2>2. CASE 1 <= m
    <3>1. events[1] \in InputEvents /\ 0 \in 0..Len(events[1]) /\ 0 <= Len(events[1])
      <4>1. events[1] \in InputEvents
        BY <1>1, <2>2
      <4>2. Len(events[1]) \in 0..2
        BY <4>1, EventShape
      <4> QED  BY <4>1, <4>2
    <3>2. SubSeq(events[1], 1, 0) = <<>>
      BY <3>1, FirstInputs
    <3>3. <<>> \o <<>> = <<>> /\ 1 - 1 = 0
      BY ConcatEmptySeq
    <3> QED  BY <1>3, <1>4, <2>1, <2>2, <3>1, <3>2, <3>3 DEF Injecting
  <2>3. CASE ~ (1 <= m)
    <3>1. m = 0
      BY <1>2, <2>3
    <3> QED  BY <1>3, <1>4, <2>1, <2>3, <3>1 DEF Injecting
  <2> QED  BY <2>2, <2>3
<1>7. injected = injected + (1 - 1)
  BY DEF InjectorInv, InjectorTypeOK
<1> QED  BY <1>4, <1>5, <1>6, <1>7 DEF InjectorInv

\* What the event at hand gives and has given.
LEMMA AtHand ==
  ASSUME InjectorInv, current <= Len(batch)
  PROVE  /\ batch \in Seq(InputEvents) /\ Len(batch) \in Nat
         /\ current \in 1..Len(batch) /\ current \in Nat
         /\ current - 1 \in 0..Len(batch)
         /\ batch[current] \in InputEvents
         /\ step \in 0..Len(batch[current]) /\ Len(batch[current]) \in 0..2
         /\ Inputs(batch)[current - 1] \in Seq(Natives)
         /\ Inputs(batch)[current] = Inputs(batch)[current - 1] \o batch[current]
         /\ native = Inputs(batch)[current - 1] \o SubSeq(batch[current], 1, step)
<1>1. batch \in Seq(InputEvents) /\ Len(batch) \in Nat /\ current \in 1..Len(batch) + 1
  BY DEF InjectorInv, InjectorTypeOK
<1>2. current \in 1..Len(batch) /\ current \in Nat /\ current - 1 \in 0..Len(batch)
  BY <1>1
<1>3. batch[current] \in InputEvents
  BY <1>1, <1>2
<1>4. Len(batch[current]) \in 0..2
  BY <1>3, EventShape
<1>5. step \in 0..2 /\ step <= Len(batch[current])
  BY DEF InjectorInv, InjectorTypeOK, Injecting
<1>6. step \in 0..Len(batch[current])
  BY <1>4, <1>5
<1> QED  BY <1>1, <1>2, <1>3, <1>4, <1>6, InputsAre DEF InjectorInv, Injecting

LEMMA InputGoesIn ==
  ASSUME InjectorInv, SendInput
  PROVE  InjectorInv'
<1> DEFINE e == batch[current]
           p == Inputs(batch)[current - 1]
<1>1. /\ current <= Len(batch) /\ step < Len(e)
      /\ native' = Append(native, e[step + 1]) /\ step' = step + 1
      /\ injector = "running"
      /\ UNCHANGED <<batch, current, injector, injected, before>>
  BY DEF SendInput, AtEvent
<1>2. /\ e \in InputEvents /\ step \in 0..Len(e) /\ Len(e) \in 0..2
      /\ p \in Seq(Natives) /\ native = p \o SubSeq(e, 1, step)
  BY <1>1, AtHand
<1> HIDE DEF e, p
<1>3. /\ SubSeq(e, 1, step) \in Seq(Natives) /\ e[step + 1] \in Natives
      /\ SubSeq(e, 1, step + 1) = SubSeq(e, 1, step) \o <<e[step + 1]>>
  BY <1>1, <1>2, FirstInputs
<1>4. native' = p \o SubSeq(e, 1, step + 1)
  <2>1. <<e[step + 1]>> \in Seq(Natives) /\ native \in Seq(Natives)
    BY <1>3 DEF InjectorInv, InjectorTypeOK
  <2>2. Append(native, e[step + 1]) = native \o <<e[step + 1]>>
    BY <1>3, <2>1, AppendIsConcat
  <2>3. (p \o SubSeq(e, 1, step)) \o <<e[step + 1]>> = p \o (SubSeq(e, 1, step) \o <<e[step + 1]>>)
    BY <1>2, <1>3, <2>1, NativesAssociate
  <2> QED  BY <1>1, <1>2, <1>3, <2>2, <2>3
<1>5. native' \in Seq(Natives)
  BY <1>1, <1>3 DEF InjectorInv, InjectorTypeOK
<1>6. step + 1 \in 0..2 /\ step + 1 <= Len(e)
  BY <1>1, <1>2
<1>7. InjectorTypeOK'
  BY <1>1, <1>5, <1>6 DEF InjectorInv, InjectorTypeOK
<1>8. Injecting'
  BY <1>1, <1>4, <1>6 DEF Injecting, e, p
<1> QED  BY <1>1, <1>7, <1>8 DEF InjectorInv

LEMMA EventIsOver ==
  ASSUME InjectorInv, EventDone
  PROVE  InjectorInv'
<1> DEFINE N == Len(batch)
<1>1. /\ current <= N /\ step = Len(batch[current])
      /\ injected' = injected + 1 /\ current' = current + 1 /\ step' = 0
      /\ injector = "running"
      /\ UNCHANGED <<batch, injector, native, before>>
  BY DEF EventDone, AtEvent
<1>2. /\ batch \in Seq(InputEvents) /\ N \in Nat /\ current \in 1..N /\ current \in Nat
      /\ batch[current] \in InputEvents /\ step \in 0..Len(batch[current])
      /\ Inputs(batch)[current] = Inputs(batch)[current - 1] \o batch[current]
      /\ native = Inputs(batch)[current - 1] \o SubSeq(batch[current], 1, step)
  BY <1>1, AtHand
<1>3. SubSeq(batch[current], 1, step) = batch[current]
  BY <1>1, <1>2, FirstInputs
<1>4. native = Inputs(batch)[current]
  BY <1>2, <1>3
<1>5. InjectorTypeOK'
  <2>1. current + 1 \in 1..N + 1 /\ injected + 1 \in Nat
    BY <1>2 DEF InjectorInv, InjectorTypeOK
  <2> QED  BY <1>1, <2>1 DEF InjectorInv, InjectorTypeOK
<1>6. Injecting'
  <2>1. CASE current + 1 <= N
    <3> DEFINE e == batch[current + 1]
    <3>1. current + 1 \in 1..N /\ (current + 1) - 1 = current
      BY <1>2, <2>1
    <3>2. e \in InputEvents
      BY <1>2, <3>1
    <3>3. Len(e) \in 0..2
      BY <3>2, EventShape
    <3>4. 0 \in 0..Len(e) /\ 0 <= Len(e)
      BY <3>3
    <3>5. SubSeq(e, 1, 0) = <<>>
      BY <3>2, <3>4, FirstInputs
    <3>6. native = native \o <<>>
      BY ConcatEmptySeq DEF InjectorInv, InjectorTypeOK
    <3>7. native = Inputs(batch)[(current + 1) - 1] \o SubSeq(e, 1, 0)
      BY <1>4, <3>1, <3>5, <3>6
    <3> HIDE DEF N
    <3> QED  BY <1>1, <2>1, <3>4, <3>7 DEF Injecting, N
  <2>2. CASE ~ (current + 1 <= N)
    <3>1. current = N
      BY <1>2, <2>2
    <3> QED  BY <1>1, <1>4, <2>2, <3>1 DEF Injecting
  <2> QED  BY <2>1, <2>2
<1>7. injected + 1 = before + ((current + 1) - 1)
  BY <1>2 DEF InjectorInv, InjectorTypeOK
<1> QED  BY <1>1, <1>5, <1>6, <1>7 DEF InjectorInv

LEMMA InjectorStep == InjectorInv /\ [InjectorNext]_injectorVars => InjectorInv'
<1> SUFFICES ASSUME InjectorInv, [InjectorNext]_injectorVars PROVE InjectorInv'
  OBVIOUS
<1>1. CASE UNCHANGED injectorVars
  BY <1>1 DEF injectorVars, InjectorInv, InjectorTypeOK, Injecting
<1>2. CASE SendInputFails
  <2>1. /\ current <= Len(batch) /\ step < Len(batch[current]) /\ injector' = "err"
        /\ UNCHANGED <<batch, current, step, native, injected, before>>
    BY <1>2 DEF SendInputFails, AtEvent
  <2> QED  BY <2>1 DEF InjectorInv, InjectorTypeOK, Injecting
<1>3. CASE BatchDone
  <2>1. /\ current > Len(batch) /\ injector' = "ok"
        /\ UNCHANGED <<batch, current, step, native, injected, before>>
    BY <1>3 DEF BatchDone
  <2>2. current = Len(batch) + 1
    BY <2>1 DEF InjectorInv, InjectorTypeOK
  <2> QED  BY <2>1, <2>2 DEF InjectorInv, InjectorTypeOK, Injecting
<1> QED  BY <1>1, <1>2, <1>3, BatchBegins, InputGoesIn, EventIsOver DEF InjectorNext

\* Whichever native input fails, what is in are the first inputs of the batch,
\* each once and in order, all of them if the call returns Ok; and
\* events_injected has gone up by the events that are in completely
\* (injector.rs:13-19, sendinput.rs:147-164).
THEOREM InjectsInOrder == InjectorSpec => []InjectsPrefix
<1>1. ASSUME InjectorInv
      PROVE  InjectsPrefix
  <2> DEFINE N == Len(batch)
             I == Inputs(batch)
             done == injected - before
  <2>1. /\ batch \in Seq(InputEvents) /\ N \in Nat /\ current \in 1..N + 1
        /\ injected \in Nat /\ before \in Nat /\ injected = before + (current - 1)
        /\ native \in Seq(Natives)
    BY <1>1 DEF InjectorInv, InjectorTypeOK
  <2>2. done = current - 1 /\ injected >= before /\ done <= N /\ done \in 0..N
    BY <2>1
  <2>3. \A n \in 0..N : I[n] \in Seq(Natives)
    BY <2>1, InputsAre
  <2> HIDE DEF N, I, done
  <2>4. CASE done < N
    <3>1. current <= Len(batch) /\ done + 1 = current /\ current \in 0..N
      BY <2>1, <2>2, <2>4 DEF N
    <3> DEFINE e == batch[current]
               a == SubSeq(e, 1, step)
               b == SubSeq(e, step + 1, Len(e))
    <3>2. /\ e \in InputEvents /\ step \in 0..Len(e) /\ Len(e) \in 0..2
          /\ I[current] = I[done] \o e /\ native = I[done] \o a
      BY <1>1, <2>2, <3>1, AtHand DEF I
    <3>3. e \in Seq(Natives)
      BY <3>2, EventShape
    <3> HIDE DEF e
    <3>4. /\ a \in Seq(Natives) /\ b \in Seq(Natives) /\ e = a \o b
          /\ Len(a) = step /\ Len(e) \in Nat
      <4>1. /\ 1 \in 1..Len(e) + 1 /\ step \in 0..Len(e) /\ step \in 1 - 1..Len(e)
            /\ Len(e) \in step..Len(e)
            /\ step + 1 \in Int /\ Len(e) \in Int
            /\ \A i \in step + 1..Len(e) : e[i] \in Natives
        BY <3>2, <3>3
      <4>2. a \o b = SubSeq(e, 1, Len(e))
        BY <3>3, <4>1, ConcatAdjacentSubSeq
      <4>3. b \in Seq(Natives)
        BY <4>1, SubSeqProperties
      <4>4. a \in Seq(Natives) /\ Len(a) = step /\ SubSeq(e, 1, Len(e)) = e
        BY <3>2, FirstInputs
      <4> HIDE DEF a, b
      <4>5. e = a \o b
        BY <4>2, <4>4
      <4>6. Len(e) \in Nat
        BY <3>2
      <4> QED  BY <4>3, <4>4, <4>5, <4>6
    <3> HIDE DEF a, b
    <3>5. I[current] = native \o b
      BY <2>2, <2>3, <3>2, <3>4, NativesAssociate
    <3>6. IsPrefix(native, I[done + 1])
      BY <2>1, <3>1, <3>4, <3>5, PrefixOfConcat
    <3>7. IsPrefix(I[done], native)
      BY <2>2, <2>3, <3>2, <3>4, PrefixOfConcat
    <3>8. IsPrefix(native, I[N])
      <4>1. current \in 0..N /\ N \in 0..N /\ current \in 0..N
        BY <2>1, <3>1
      <4>2. PICK t \in Seq(Natives) : I[N] = I[current] \o t
        BY <2>1, <4>1, InputsGrow DEF I, N
      <4>3. I[N] = native \o (b \o t) /\ b \o t \in Seq(Natives)
        <5>1. I[N] = (native \o b) \o t
          BY <3>5, <4>2
        <5>2. (native \o b) \o t = native \o (b \o t)
          BY <2>1, <3>4, NativesAssociate
        <5> QED  BY <3>4, <5>1, <5>2
      <4> QED  BY <2>1, <4>3, PrefixOfConcat
    <3>9. injector # "ok"
      BY <1>1, <2>1, <3>1 DEF InjectorInv
    <3>10. injector = "err" => native # I[done + 1]
      <4> SUFFICES ASSUME injector = "err" PROVE native # I[done + 1]
        OBVIOUS
      <4>1. step < Len(e)
        BY <1>1 DEF InjectorInv, e
      <4>2. Len(native) = Len(I[done]) + step /\ Len(I[current]) = Len(I[done]) + Len(e)
        BY <2>2, <2>3, <3>2, <3>3, <3>4
      <4>3. Len(I[done]) \in Nat
        BY <2>2, <2>3
      <4> QED  BY <3>1, <3>2, <4>1, <4>2, <4>3
    <3> QED  BY <2>2, <2>4, <3>6, <3>7, <3>8, <3>9, <3>10 DEF InjectsPrefix, I, N, done
  <2>5. CASE ~ (done < N)
    <3>1. done = N /\ ~ (current <= Len(batch))
      BY <2>1, <2>2, <2>5 DEF N
    <3>2. native = I[N]
      BY <1>1, <3>1 DEF InjectorInv, Injecting, I, N
    <3>3. native \o <<>> = native /\ <<>> \in Seq(Natives)
      BY <2>1, ConcatEmptySeq
    <3>4. IsPrefix(native, native)
      BY <2>1, <3>3, PrefixOfConcat
    <3>5. injector # "err"
      BY <1>1, <3>1 DEF InjectorInv
    <3> QED  BY <2>2, <2>5, <3>1, <3>2, <3>4, <3>5 DEF InjectsPrefix, I, N, done
  <2> QED  BY <2>4, <2>5
<1> QED  BY <1>1, InjectorStarts, InjectorStep, PTL DEF InjectorSpec

-----------------------------------------------------------------------------
(* WireFormat: numbers                                                     *)

Byte == 0..255

\* Four bytes, from the place after at, are those of a number.
HasWord(b, at, n) ==
  /\ b[at + 1] = Word(n)[1] /\ b[at + 2] = Word(n)[2]
  /\ b[at + 3] = Word(n)[3] /\ b[at + 4] = Word(n)[4]

LEMMA WordShape ==
  ASSUME NEW n \in Int
  PROVE  /\ Word(n) \in Seq(Byte) /\ Len(Word(n)) = 4
         /\ \A i \in 1..4 : Word(n)[i] \in Byte
<1> DEFINE a == TopByte(n) % 256
           b == (n \div (256 * 256)) % 256
           c == (n \div 256) % 256
           d == n % 256
<1>1. a \in Byte /\ b \in Byte /\ c \in Byte /\ d \in Byte
  BY DEF Byte, TopByte
<1> HIDE DEF a, b, c, d
<1>2. <<a, b, c, d>> \in Seq(Byte) /\ Len(<<a, b, c, d>>) = 4
  BY <1>1
<1>3. Word(n) = <<a, b, c, d>>
  BY DEF Word, a, b, c, d
<1>4. \A i \in 1..4 : <<a, b, c, d>>[i] \in Byte
  BY <1>1
<1> QED  BY <1>2, <1>3, <1>4

\* Big-endian bytes give back the number, unsigned and signed.
LEMMA UnsignedReads ==
  ASSUME NEW n \in Nat, TopByte(n) \in 0..255, NEW b, NEW at \in Nat, HasWord(b, at, n)
  PROVE  Unsigned(b, at + 1) = n
<1> DEFINE p == n \div 256
           q == n \div (256 * 256)
           t == TopByte(n)
<1>1. p \in Nat /\ q \in Nat /\ t \in 0..255
  BY DEF TopByte
<1>2. n = p * 256 + (n % 256) /\ p = q * 256 + (p % 256) /\ q = t * 256 + (q % 256)
  BY DEF TopByte
<1>3. /\ b[at + 1] = t % 256 /\ b[at + 2] = q % 256
      /\ b[at + 3] = p % 256 /\ b[at + 4] = n % 256
  BY DEF HasWord, Word
<1> HIDE DEF p, q, t
<1>4. t % 256 = t
  BY <1>1
<1>5. (at + 1) + 1 = at + 2 /\ (at + 1) + 2 = at + 3 /\ (at + 1) + 3 = at + 4
  OBVIOUS
<1>6. Unsigned(b, at + 1)
        = ((b[at + 1] * 256 + b[at + 2]) * 256 + b[at + 3]) * 256 + b[at + 4]
  BY <1>5 DEF Unsigned
<1> QED  BY <1>2, <1>3, <1>4, <1>6

LEMMA SignedReads ==
  ASSUME NEW n \in Int, TopByte(n) \in -128..127, NEW b, NEW at \in Nat, HasWord(b, at, n)
  PROVE  Signed(b, at + 1) = n
<1> DEFINE p == n \div 256
           q == n \div (256 * 256)
           t == TopByte(n)
<1>1. p \in Int /\ q \in Int /\ t \in -128..127
  BY DEF TopByte
<1>2. n = p * 256 + (n % 256) /\ p = q * 256 + (p % 256) /\ q = t * 256 + (q % 256)
  BY DEF TopByte
<1>3. /\ b[at + 1] = t % 256 /\ b[at + 2] = q % 256
      /\ b[at + 3] = p % 256 /\ b[at + 4] = n % 256
  BY DEF HasWord, Word
<1> HIDE DEF p, q, t
<1>4. (IF (t % 256) < 128 THEN t % 256 ELSE (t % 256) - 256) = t
  <2>1. CASE t >= 0
    <3>1. t % 256 = t
      BY <1>1, <2>1
    <3> QED  BY <1>1, <2>1, <3>1
  <2>2. CASE t < 0
    <3>1. t % 256 = t + 256
      BY <1>1, <2>2
    <3> QED  BY <1>1, <2>2, <3>1
  <2> QED  BY <1>1, <2>1, <2>2
<1>5. (at + 1) + 1 = at + 2 /\ (at + 1) + 2 = at + 3 /\ (at + 1) + 3 = at + 4
  OBVIOUS
<1>6. Signed(b, at + 1)
        = (((IF b[at + 1] < 128 THEN b[at + 1] ELSE b[at + 1] - 256) * 256 + b[at + 2]) * 256
             + b[at + 3]) * 256 + b[at + 4]
  BY <1>5 DEF Signed
<1> QED  BY <1>2, <1>3, <1>4, <1>6

-----------------------------------------------------------------------------
(* WireFormat: what is written                                             *)

Extends(t, s) == \A i \in 1..Len(s) : t[i] = s[i]

LEMMA BytesConcat ==
  ASSUME NEW s \in Seq(Byte), NEW t \in Seq(Byte)
  PROVE  /\ s \o t \in Seq(Byte) /\ Len(s \o t) = Len(s) + Len(t)
         /\ \A i \in 1..Len(s) + Len(t) :
              (s \o t)[i] = IF i <= Len(s) THEN s[i] ELSE t[i - Len(s)]
BY ConcatProperties

LEMMA PutWord ==
  ASSUME NEW s \in Seq(Byte), NEW n \in Int
  PROVE  /\ s \o Word(n) \in Seq(Byte) /\ Len(s \o Word(n)) = Len(s) + 4
         /\ Extends(s \o Word(n), s) /\ HasWord(s \o Word(n), Len(s), n)
<1> DEFINE w == Word(n)
<1>1. w \in Seq(Byte) /\ Len(w) = 4 /\ Len(s) \in Nat
  BY WordShape
<1> HIDE DEF w
<1>2. /\ s \o w \in Seq(Byte) /\ Len(s \o w) = Len(s) + 4
      /\ \A i \in 1..Len(s) + 4 :
           (s \o w)[i] = IF i <= Len(s) THEN s[i] ELSE w[i - Len(s)]
  <2>1. Len(s) + Len(w) = Len(s) + 4
    BY <1>1
  <2>2. /\ s \o w \in Seq(Byte) /\ Len(s \o w) = Len(s) + Len(w)
        /\ \A i \in 1..Len(s) + Len(w) :
             (s \o w)[i] = IF i <= Len(s) THEN s[i] ELSE w[i - Len(s)]
    BY <1>1, BytesConcat
  <2> QED  BY ONLY <2>1, <2>2
<1>3. \A i \in 1..Len(s) : (s \o w)[i] = s[i]
  BY <1>1, <1>2
<1>4. /\ (s \o w)[Len(s) + 1] = w[1] /\ (s \o w)[Len(s) + 2] = w[2]
      /\ (s \o w)[Len(s) + 3] = w[3] /\ (s \o w)[Len(s) + 4] = w[4]
  BY <1>1, <1>2
<1> QED  BY <1>2, <1>3, <1>4 DEF Extends, HasWord, w

LEMMA PutByte ==
  ASSUME NEW s \in Seq(Byte), NEW k \in Byte
  PROVE  /\ s \o <<k>> \in Seq(Byte) /\ Len(s \o <<k>>) = Len(s) + 1
         /\ Extends(s \o <<k>>, s) /\ (s \o <<k>>)[Len(s) + 1] = k
<1>1. <<k>> \in Seq(Byte) /\ Len(<<k>>) = 1 /\ <<k>>[1] = k /\ Len(s) \in Nat
  OBVIOUS
<1>2. /\ s \o <<k>> \in Seq(Byte) /\ Len(s \o <<k>>) = Len(s) + 1
      /\ \A i \in 1..Len(s) + 1 :
           (s \o <<k>>)[i] = IF i <= Len(s) THEN s[i] ELSE <<k>>[i - Len(s)]
  BY <1>1, BytesConcat
<1>3. \A i \in 1..Len(s) : (s \o <<k>>)[i] = s[i]
  BY <1>1, <1>2
<1>4. (s \o <<k>>)[Len(s) + 1] = k
  BY <1>1, <1>2
<1> QED  BY <1>2, <1>3, <1>4 DEF Extends

LEMMA ExtendsOn ==
  ASSUME NEW s \in Seq(Byte), NEW t \in Seq(Byte), NEW u \in Seq(Byte),
         Len(s) <= Len(t), Extends(t, s), Extends(u, t)
  PROVE  Extends(u, s)
BY DEF Extends

LEMMA KeepsWord ==
  ASSUME NEW s \in Seq(Byte), NEW t, NEW at \in Nat, NEW n,
         Extends(t, s), at + 4 <= Len(s), HasWord(s, at, n)
  PROVE  HasWord(t, at, n)
<1>1. Len(s) \in Nat
  OBVIOUS
<1>2. /\ at + 1 \in 1..Len(s) /\ at + 2 \in 1..Len(s)
      /\ at + 3 \in 1..Len(s) /\ at + 4 \in 1..Len(s)
  BY <1>1
<1> QED  BY <1>2 DEF HasWord, Extends

\* A name has a number that this version knows it by, unless it is of a later one.
LEMMA NumberShape ==
  ASSUME NEW K, NEW known \in Seq(K), NEW name \in Names(known),
         \A i, j \in 1..Len(known) : known[i] = known[j] => i = j,
         \A i \in 1..Len(known) : known[i] # "later"
  PROVE  /\ Number(known, name) \in 0..Len(known)
         /\ Known(known, Number(known, name)) <=> name # "later"
         /\ name # "later" => Name(known, Number(known, name)) = name
<1>1. Len(known) \in Nat /\ DOMAIN known = 1..Len(known)
  OBVIOUS
<1>2. CASE name = "later"
  <2>1. Number(known, name) = Len(known)
    BY <1>2 DEF Number
  <2> QED  BY <1>1, <1>2, <2>1 DEF Known
<1>3. CASE name # "later"
  <2>1. PICK i \in 1..Len(known) : known[i] = name
    BY <1>1, <1>3 DEF Names, Range
  <2> DEFINE k == CHOOSE j \in DOMAIN known : known[j] = name
  <2>2. k \in 1..Len(known) /\ known[k] = name
    BY <1>1, <2>1
  <2>3. Number(known, name) = k - 1
    BY <1>3 DEF Number
  <2> HIDE DEF k
  <2>4. k - 1 \in 0..Len(known) /\ k - 1 < Len(known) /\ (k - 1) + 1 = k
    BY <1>1, <2>2
  <2> QED  BY <1>3, <2>2, <2>3, <2>4 DEF Known, Name
<1> QED  BY <1>2, <1>3

LEMMA Listed ==
  ASSUME NEW a, NEW b, NEW c, NEW d, NEW e
  PROVE  /\ <<a, b, c>> \in Seq({a, b, c}) /\ Len(<<a, b, c>>) = 3
         /\ <<a, b, c, d>> \in Seq({a, b, c, d}) /\ Len(<<a, b, c, d>>) = 4
         /\ <<a, b, c, d, e>> \in Seq({a, b, c, d, e}) /\ Len(<<a, b, c, d, e>>) = 5
OBVIOUS

LEMMA ButtonNumbers ==
  ASSUME NEW name \in Names(Buttons)
  PROVE  /\ Number(Buttons, name) \in 0..5
         /\ Known(Buttons, Number(Buttons, name)) <=> name # "later"
         /\ name # "later" => Name(Buttons, Number(Buttons, name)) = name
         /\ name # "none"
<1>1. /\ Buttons \in Seq({"left", "right", "middle", "back", "forward"})
      /\ Len(Buttons) = 5
  BY Listed DEF Buttons
<1>2. /\ Buttons[1] = "left" /\ Buttons[2] = "right" /\ Buttons[3] = "middle"
      /\ Buttons[4] = "back" /\ Buttons[5] = "forward"
  BY DEF Buttons
<1>3. \A i \in 1..5 : i = 1 \/ i = 2 \/ i = 3 \/ i = 4 \/ i = 5
  OBVIOUS
<1>4. /\ \A i, j \in 1..5 : Buttons[i] = Buttons[j] => i = j
      /\ \A i \in 1..5 : Buttons[i] # "later" /\ Buttons[i] # "none"
  BY <1>2, <1>3
<1>5. name # "none"
  BY <1>1, <1>4 DEF Names, Range
<1> QED  BY <1>1, <1>4, <1>5, NumberShape

LEMMA KindNumbers ==
  ASSUME NEW name \in Names(Kinds)
  PROVE  /\ Number(Kinds, name) \in 0..3
         /\ Known(Kinds, Number(Kinds, name)) <=> name # "later"
         /\ name # "later" => Name(Kinds, Number(Kinds, name)) = name
<1>1. Kinds \in Seq({"full", "delta", "cursor"}) /\ Len(Kinds) = 3
  BY Listed DEF Kinds
<1>2. Kinds[1] = "full" /\ Kinds[2] = "delta" /\ Kinds[3] = "cursor"
  BY DEF Kinds
<1>3. \A i \in 1..3 : i = 1 \/ i = 2 \/ i = 3
  OBVIOUS
<1>4. /\ \A i, j \in 1..3 : Kinds[i] = Kinds[j] => i = j
      /\ \A i \in 1..3 : Kinds[i] # "later"
  BY <1>2, <1>3
<1> QED  BY <1>1, <1>4, NumberShape

LEMMA FormatNumbers ==
  ASSUME NEW name \in Names(Formats)
  PROVE  /\ Number(Formats, name) \in 0..4
         /\ Known(Formats, Number(Formats, name)) <=> name # "later"
         /\ name # "later" => Name(Formats, Number(Formats, name)) = name
<1>1. Formats \in Seq({"bgra8", "rgba8", "rgb8", "nv12"}) /\ Len(Formats) = 4
  BY Listed DEF Formats
<1>2. /\ Formats[1] = "bgra8" /\ Formats[2] = "rgba8"
      /\ Formats[3] = "rgb8" /\ Formats[4] = "nv12"
  BY DEF Formats
<1>3. \A i \in 1..4 : i = 1 \/ i = 2 \/ i = 3 \/ i = 4
  OBVIOUS
<1>4. /\ \A i, j \in 1..4 : Formats[i] = Formats[j] => i = j
      /\ \A i \in 1..4 : Formats[i] # "later"
  BY <1>2, <1>3
<1> QED  BY <1>1, <1>4, NumberShape

-----------------------------------------------------------------------------
(* WireFormat: what is read of it                                          *)

\* The bytes that are there are those of an encoding, as far as both go.
Begins(b, encoding) ==
  \A i \in 1..Len(encoding) : i <= Len(b) => b[i] = encoding[i]

\* An item whose bytes are all there is read as it was written, or refused.
ReadsWhole(d, item, length) ==
  IF Foreign(item) THEN d.result = "refused" ELSE d = Decoded(item, length)

LEMMA BeginsWith ==
  ASSUME NEW b \in Seq(Byte), b # <<>>, NEW encoding \in Seq(Byte), Len(encoding) > 0,
         Begins(b, encoding)
  PROVE  /\ b[1] = encoding[1] /\ Len(b) \in Nat /\ Len(b) > 0
         /\ Len(b) >= Len(encoding) => Extends(b, encoding)
<1>1. Len(b) \in Nat /\ Len(b) > 0 /\ Len(encoding) \in Nat
  OBVIOUS
<1>2. 1 \in 1..Len(encoding) /\ 1 <= Len(b)
  BY <1>1
<1> QED  BY <1>1, <1>2 DEF Begins, Extends

\* The byte for a button and its action is that of no other, and never 255.
LEMMA ButtonReads ==
  ASSUME NEW name \in Names(Buttons), NEW a \in Actions
  PROVE  LET k == ButtonByte(Button(name, a))
         IN  /\ k \in Byte /\ k # 255
             /\ Known(Buttons, k % 128) <=> name # "later"
             /\ name # "later" => Name(Buttons, k % 128) = name
             /\ a = IF k >= 128 THEN "press" ELSE "release"
<1> DEFINE m == Number(Buttons, name)
           k == ButtonByte(Button(name, a))
<1>1. /\ m \in 0..5 /\ name # "none"
      /\ Known(Buttons, m) <=> name # "later"
      /\ name # "later" => Name(Buttons, m) = name
  BY ButtonNumbers
<1>2. Button(name, a) # NoButton /\ Button(name, a).name = name /\ Button(name, a).action = a
  BY <1>1 DEF NoButton, Button
<1>3. k = m + (IF a = "press" THEN 128 ELSE 0)
  BY <1>2 DEF ButtonByte
<1>4. a = "press" \/ a = "release"
  BY DEF Actions
<1> HIDE DEF m, k
<1>5. k \in (0..5) \cup (128..133) /\ (k >= 128 <=> a = "press") /\ k % 128 = m
  BY <1>1, <1>3, <1>4
<1>6. k \in Byte /\ k # 255
  BY <1>5 DEF Byte
<1>7. a = IF k >= 128 THEN "press" ELSE "release"
  BY <1>4, <1>5
<1>8. /\ Known(Buttons, k % 128) <=> name # "later"
      /\ name # "later" => Name(Buttons, k % 128) = name
  BY <1>1, <1>5
<1> QED  BY <1>6, <1>7, <1>8 DEF k

\* The places of a mouse event's fields.
LEMMA MousePlaces ==
  ASSUME NEW x \in Coordinates, NEW y \in Coordinates, NEW button, ButtonByte(button) \in Byte
  PROVE  LET s == EncodeEvent(MouseEvent(x, y, button))
         IN  /\ s \in Seq(Byte) /\ Len(s) = 10 /\ s[1] = 0
             /\ \A b \in Seq(Byte) :
                  Extends(b, s) => /\ b[10] = ButtonByte(button)
                                   /\ HasWord(b, 1, x) /\ HasWord(b, 5, y)
<1> DEFINE k == ButtonByte(button)
           s0 == <<0>>
           s1 == s0 \o Word(x)
           s2 == s1 \o Word(y)
           s == s2 \o <<k>>
<1>1. x \in Int /\ y \in Int
  BY WireAssumption
<1>2. s0 \in Seq(Byte) /\ Len(s0) = 1 /\ s0[1] = 0
  BY DEF Byte
<1> HIDE DEF k, s0
<1>3. /\ s1 \in Seq(Byte) /\ Len(s1) = 5 /\ Extends(s1, s0) /\ HasWord(s1, 1, x)
  <2>1. /\ s1 \in Seq(Byte) /\ Len(s1) = Len(s0) + 4
        /\ Extends(s1, s0) /\ HasWord(s1, Len(s0), x)
    BY <1>1, <1>2, PutWord
  <2> QED  BY <1>2, <2>1
<1> HIDE DEF s1
<1>4. /\ s2 \in Seq(Byte) /\ Len(s2) = 9 /\ Extends(s2, s1) /\ HasWord(s2, 5, y)
  <2>1. /\ s2 \in Seq(Byte) /\ Len(s2) = Len(s1) + 4
        /\ Extends(s2, s1) /\ HasWord(s2, Len(s1), y)
    BY <1>1, <1>3, PutWord
  <2> QED  BY <1>3, <2>1
<1> HIDE DEF s2
<1>5. /\ s \in Seq(Byte) /\ Len(s) = 10 /\ Extends(s, s2) /\ s[10] = k
  <2>1. /\ s \in Seq(Byte) /\ Len(s) = Len(s2) + 1
        /\ Extends(s, s2) /\ s[Len(s2) + 1] = k
    BY <1>4, PutByte DEF k
  <2> QED  BY <1>4, <2>1
<1>6. EncodeEvent(MouseEvent(x, y, button)) = s
  BY DEF EncodeEvent, MouseEvent, s2, s1, s0, k
<1> HIDE DEF s
<1>7. Extends(s, s1) /\ Extends(s, s0)
  BY <1>2, <1>3, <1>4, <1>5, ExtendsOn
<1>8. s[1] = 0
  BY <1>2, <1>7 DEF Extends
<1>9. ASSUME NEW b \in Seq(Byte), Extends(b, s)
      PROVE  b[10] = k /\ HasWord(b, 1, x) /\ HasWord(b, 5, y)
  <2>1. b[10] = k
    BY <1>5, <1>9 DEF Extends
  <2>2. Extends(b, s1) /\ Extends(b, s2)
    BY <1>3, <1>4, <1>5, <1>7, <1>9, ExtendsOn
  <2>3. HasWord(b, 1, x)
    <3>1. 1 \in Nat /\ 1 + 4 <= Len(s1)
      BY <1>3
    <3> QED  BY <1>3, <2>2, <3>1, KeepsWord
  <2>4. HasWord(b, 5, y)
    <3>1. 5 \in Nat /\ 5 + 4 <= Len(s2)
      BY <1>4
    <3> QED  BY <1>4, <2>2, <3>1, KeepsWord
  <2> QED  BY <2>1, <2>3, <2>4
<1> QED  BY <1>5, <1>6, <1>8, <1>9 DEF k

AnyButton == {NoButton} \cup {Button(n, a) : n \in Names(Buttons), a \in Actions}

LEMMA MouseReads ==
  ASSUME NEW x \in Coordinates, NEW y \in Coordinates,
         NEW button \in AnyButton,
         NEW b \in Seq(Byte), b # <<>>, Begins(b, EncodeEvent(MouseEvent(x, y, button)))
  PROVE  LET e == MouseEvent(x, y, button)
             n == Len(EncodeEvent(e))
         IN  /\ EncodeEvent(e) \in Seq(Byte) /\ n \in Nat /\ n > 0
             /\ Len(b) >= n => ReadsWhole(DecodeEvent(b), e, n)
             /\ Len(b) < n => DecodeEvent(b).result = "truncated"
<1> DEFINE e == MouseEvent(x, y, button)
           s == EncodeEvent(e)
           k == ButtonByte(button)
           d == DecodeEvent(b)
           word == /\ k \in Byte
                   /\ k = 255 <=> button = NoButton
                   /\ button # NoButton =>
                        /\ Known(Buttons, k % 128) <=> button.name # "later"
                        /\ button.name # "later" =>
                             button = Button(Name(Buttons, k % 128),
                                             IF k >= 128 THEN "press" ELSE "release")
                   /\ button = NoButton => button.name # "later"
<1>1. word
  <2>1. CASE button = NoButton
    BY <2>1 DEF ButtonByte, Byte, NoButton, Button
  <2>2. ASSUME NEW name \in Names(Buttons), NEW a \in Actions, button = Button(name, a)
        PROVE  word
    <3>1. /\ k \in Byte /\ k # 255
          /\ Known(Buttons, k % 128) <=> name # "later"
          /\ name # "later" => Name(Buttons, k % 128) = name
          /\ a = IF k >= 128 THEN "press" ELSE "release"
      BY <2>2, ButtonReads
    <3>2. name # "none"
      BY ButtonNumbers
    <3>3. button # NoButton /\ button.name = name
      BY <2>2, <3>2 DEF NoButton, Button
    <3> HIDE DEF k
    <3> QED  BY <2>2, <3>1, <3>3
  <2> HIDE DEF word
  <2> QED  BY <2>1, <2>2 DEF AnyButton
<1>2. /\ s \in Seq(Byte) /\ Len(s) = 10 /\ s[1] = 0
      /\ Extends(b, s) => /\ b[10] = k
                          /\ HasWord(b, 1, x) /\ HasWord(b, 5, y)
  BY <1>1, MousePlaces
<1>3. Begins(b, s)
  OBVIOUS
<1>4. e.type = "mouse" /\ e.button = button
  BY DEF MouseEvent
<1> HIDE DEF s, k, word
<1>5. b[1] = 0 /\ Len(b) \in Nat /\ Len(b) > 0 /\ (Len(b) >= 10 => Extends(b, s))
  BY <1>2, <1>3, BeginsWith
<1>6. d = DecodeMouse(b)
  BY <1>5 DEF DecodeEvent
<1>7. ASSUME Len(b) >= 10
      PROVE  ReadsWhole(d, e, 10)
  <2>1. ~(Len(b) - 1 < 9) /\ b[10] = k
    BY <1>2, <1>5, <1>7
  <2>2. Signed(b, 2) = x /\ Signed(b, 6) = y
    <3>1. HasWord(b, 1, x) /\ HasWord(b, 5, y)
      BY <1>2, <1>5, <1>7
    <3>2. x \in Int /\ y \in Int /\ TopByte(x) \in -128..127 /\ TopByte(y) \in -128..127
      BY WireAssumption
    <3>3. 1 \in Nat /\ 5 \in Nat /\ 1 + 1 = 2 /\ 5 + 1 = 6
      OBVIOUS
    <3>4. Signed(b, 1 + 1) = x /\ Signed(b, 5 + 1) = y
      BY <3>1, <3>2, <3>3, SignedReads
    <3> QED  BY <3>3, <3>4
  <2>3. Foreign(e) <=> button.name = "later"
    BY <1>4 DEF Foreign
  <2>4. CASE button = NoButton
    BY <1>1, <1>6, <2>1, <2>2, <2>3, <2>4 DEF word, ReadsWhole, DecodeMouse, e
  <2>5. CASE button # NoButton /\ button.name = "later"
    <3>1. d = Failed("refused", 10)
      BY <1>1, <1>6, <2>1, <2>5 DEF word, DecodeMouse
    <3> QED  BY <2>3, <2>5, <3>1 DEF ReadsWhole, Failed
  <2>6. CASE button # NoButton /\ button.name # "later"
    BY <1>1, <1>6, <2>1, <2>2, <2>3, <2>6 DEF word, ReadsWhole, DecodeMouse, e
  <2> QED  BY <2>4, <2>5, <2>6
<1>8. ASSUME Len(b) < 10
      PROVE  d.result = "truncated"
  <2>1. Len(b) - 1 < 9
    BY <1>5, <1>8
  <2> QED  BY <1>6, <2>1 DEF DecodeMouse, Failed
<1> QED  BY <1>2, <1>7, <1>8 DEF s

LEMMA KeyPlaces ==
  ASSUME NEW c \in Codes, NEW a \in Actions, NEW mods \in Byte
  PROVE  LET s == EncodeEvent(KeyEvent(c, a, mods))
         IN  /\ s \in Seq(Byte) /\ Len(s) = 7 /\ s[1] = 1
             /\ \A b \in Seq(Byte) :
                  Extends(b, s) => /\ HasWord(b, 1, c) /\ b[7] = mods
                                   /\ b[6] = 1 <=> a = "press"
<1> DEFINE k == IF a = "press" THEN 1 ELSE 0
           s0 == <<1>>
           s1 == s0 \o Word(c)
           s == s1 \o <<k, mods>>
<1>1. c \in Int /\ k \in Byte /\ (k = 1 <=> a = "press")
  BY WireAssumption DEF Byte
<1>2. s0 \in Seq(Byte) /\ Len(s0) = 1 /\ s0[1] = 1
  BY DEF Byte
<1> HIDE DEF k, s0
<1>3. /\ s1 \in Seq(Byte) /\ Len(s1) = 5 /\ Extends(s1, s0) /\ HasWord(s1, 1, c)
  <2>1. /\ s1 \in Seq(Byte) /\ Len(s1) = Len(s0) + 4
        /\ Extends(s1, s0) /\ HasWord(s1, Len(s0), c)
    BY <1>1, <1>2, PutWord
  <2> QED  BY <1>2, <2>1
<1> HIDE DEF s1
<1>4. /\ s \in Seq(Byte) /\ Len(s) = 7 /\ Extends(s, s1) /\ s[6] = k /\ s[7] = mods
  <2>1. /\ <<k, mods>> \in Seq(Byte) /\ Len(<<k, mods>>) = 2
        /\ <<k, mods>>[1] = k /\ <<k, mods>>[2] = mods
    BY <1>1
  <2>2. /\ s \in Seq(Byte) /\ Len(s) = Len(s1) + Len(<<k, mods>>)
        /\ \A i \in 1..Len(s1) + Len(<<k, mods>>) :
             s[i] = IF i <= Len(s1) THEN s1[i] ELSE <<k, mods>>[i - Len(s1)]
    BY <1>3, <2>1, BytesConcat
  <2>3. Len(s) = 7 /\ s[6] = k /\ s[7] = mods /\ \A i \in 1..5 : s[i] = s1[i]
    BY <1>3, <2>1, <2>2
  <2> QED  BY <1>3, <2>2, <2>3 DEF Extends
<1>5. EncodeEvent(KeyEvent(c, a, mods)) = s
  BY DEF EncodeEvent, KeyEvent, s1, s0, k
<1> HIDE DEF s
<1>6. Extends(s, s0)
  BY <1>2, <1>3, <1>4, ExtendsOn
<1>7. s[1] = 1
  BY <1>2, <1>6 DEF Extends
<1>8. ASSUME NEW b \in Seq(Byte), Extends(b, s)
      PROVE  HasWord(b, 1, c) /\ b[7] = mods /\ b[6] = k
  <2>1. b[6] = k /\ b[7] = mods
    BY <1>4, <1>8 DEF Extends
  <2>2. Extends(b, s1)
    BY <1>3, <1>4, <1>8, ExtendsOn
  <2>3. 1 \in Nat /\ 1 + 4 <= Len(s1)
    BY <1>3
  <2>4. HasWord(b, 1, c)
    BY <1>3, <2>2, <2>3, KeepsWord
  <2> QED  BY <2>1, <2>4
<1> QED  BY <1>1, <1>4, <1>5, <1>7, <1>8

LEMMA KeyReads ==
  ASSUME NEW c \in Codes, NEW a \in Actions, NEW mods \in Byte,
         NEW b \in Seq(Byte), b # <<>>, Begins(b, EncodeEvent(KeyEvent(c, a, mods)))
  PROVE  LET e == KeyEvent(c, a, mods)
             n == Len(EncodeEvent(e))
         IN  /\ EncodeEvent(e) \in Seq(Byte) /\ n \in Nat /\ n > 0
             /\ Len(b) >= n => ReadsWhole(DecodeEvent(b), e, n)
             /\ Len(b) < n => DecodeEvent(b).result = "truncated"
<1> DEFINE e == KeyEvent(c, a, mods)
           s == EncodeEvent(e)
           d == DecodeEvent(b)
<1>1. /\ s \in Seq(Byte) /\ Len(s) = 7 /\ s[1] = 1
      /\ Extends(b, s) => /\ HasWord(b, 1, c) /\ b[7] = mods
                          /\ b[6] = 1 <=> a = "press"
  BY KeyPlaces
<1>2. Begins(b, s)
  OBVIOUS
<1>3. ~Foreign(e)
  BY DEF Foreign, KeyEvent
<1> HIDE DEF s
<1>4. b[1] = 1 /\ Len(b) \in Nat /\ Len(b) > 0 /\ (Len(b) >= 7 => Extends(b, s))
  BY <1>1, <1>2, BeginsWith
<1>5. d = DecodeKey(b)
  BY <1>4 DEF DecodeEvent
<1>6. ASSUME Len(b) >= 7
      PROVE  ReadsWhole(d, e, 7)
  <2>1. ~(Len(b) - 1 < 6)
    BY <1>4, <1>6
  <2>2. HasWord(b, 1, c) /\ b[7] = mods /\ (b[6] = 1 <=> a = "press")
    BY <1>1, <1>4, <1>6
  <2>3. Unsigned(b, 2) = c
    <3>1. 1 \in Nat /\ 1 + 1 = 2
      OBVIOUS
    <3>2. c \in Nat /\ TopByte(c) \in 0..255
      BY WireAssumption
    <3>3. Unsigned(b, 1 + 1) = c
      BY <2>2, <3>1, <3>2, UnsignedReads
    <3> QED  BY <3>1, <3>3
  <2>4. a = IF b[6] = 1 THEN "press" ELSE "release"
    BY <2>2 DEF Actions
  <2>5. d = Decoded(e, 7)
    BY <1>5, <2>1, <2>2, <2>3, <2>4 DEF DecodeKey
  <2> QED  BY <1>3, <2>5 DEF ReadsWhole
<1>7. ASSUME Len(b) < 7
      PROVE  d.result = "truncated"
  <2>1. Len(b) - 1 < 6
    BY <1>4, <1>7
  <2> QED  BY <1>5, <2>1 DEF DecodeKey, Failed
<1> QED  BY <1>1, <1>6, <1>7 DEF s

LEMMA ScrollPlaces ==
  ASSUME NEW x \in Codes, NEW y \in Codes
  PROVE  LET s == EncodeEvent(ScrollEvent(x, y))
         IN  /\ s \in Seq(Byte) /\ Len(s) = 9 /\ s[1] = 2
             /\ \A b \in Seq(Byte) :
                  Extends(b, s) => HasWord(b, 1, x) /\ HasWord(b, 5, y)
<1> DEFINE s0 == <<2>>
           s1 == s0 \o Word(x)
           s == s1 \o Word(y)
<1>1. x \in Int /\ y \in Int
  BY WireAssumption
<1>2. s0 \in Seq(Byte) /\ Len(s0) = 1 /\ s0[1] = 2
  BY DEF Byte
<1> HIDE DEF s0
<1>3. /\ s1 \in Seq(Byte) /\ Len(s1) = 5 /\ Extends(s1, s0) /\ HasWord(s1, 1, x)
  <2>1. /\ s1 \in Seq(Byte) /\ Len(s1) = Len(s0) + 4
        /\ Extends(s1, s0) /\ HasWord(s1, Len(s0), x)
    BY <1>1, <1>2, PutWord
  <2> QED  BY <1>2, <2>1
<1> HIDE DEF s1
<1>4. /\ s \in Seq(Byte) /\ Len(s) = 9 /\ Extends(s, s1) /\ HasWord(s, 5, y)
  <2>1. /\ s \in Seq(Byte) /\ Len(s) = Len(s1) + 4
        /\ Extends(s, s1) /\ HasWord(s, Len(s1), y)
    BY <1>1, <1>3, PutWord
  <2> QED  BY <1>3, <2>1
<1>5. EncodeEvent(ScrollEvent(x, y)) = s
  BY DEF EncodeEvent, ScrollEvent, s1, s0
<1> HIDE DEF s
<1>6. Extends(s, s0)
  BY <1>2, <1>3, <1>4, ExtendsOn
<1>7. s[1] = 2
  BY <1>2, <1>6 DEF Extends
<1>8. ASSUME NEW b \in Seq(Byte), Extends(b, s)
      PROVE  HasWord(b, 1, x) /\ HasWord(b, 5, y)
  <2>1. Extends(b, s1)
    BY <1>3, <1>4, <1>8, ExtendsOn
  <2>2. 1 \in Nat /\ 1 + 4 <= Len(s1) /\ 5 \in Nat /\ 5 + 4 <= Len(s)
    BY <1>3, <1>4
  <2>3. HasWord(b, 1, x)
    BY <1>3, <2>1, <2>2, KeepsWord
  <2>4. HasWord(b, 5, y)
    BY <1>4, <1>8, <2>2, KeepsWord
  <2> QED  BY <2>3, <2>4
<1> QED  BY <1>4, <1>5, <1>7, <1>8

LEMMA ScrollReads ==
  ASSUME NEW x \in Codes, NEW y \in Codes,
         NEW b \in Seq(Byte), b # <<>>, Begins(b, EncodeEvent(ScrollEvent(x, y)))
  PROVE  LET e == ScrollEvent(x, y)
             n == Len(EncodeEvent(e))
         IN  /\ EncodeEvent(e) \in Seq(Byte) /\ n \in Nat /\ n > 0
             /\ Len(b) >= n => ReadsWhole(DecodeEvent(b), e, n)
             /\ Len(b) < n => DecodeEvent(b).result = "truncated"
<1> DEFINE e == ScrollEvent(x, y)
           s == EncodeEvent(e)
           d == DecodeEvent(b)
<1>1. /\ s \in Seq(Byte) /\ Len(s) = 9 /\ s[1] = 2
      /\ Extends(b, s) => HasWord(b, 1, x) /\ HasWord(b, 5, y)
  BY ScrollPlaces
<1>2. Begins(b, s)
  OBVIOUS
<1>3. ~Foreign(e)
  BY DEF Foreign, ScrollEvent
<1> HIDE DEF s
<1>4. b[1] = 2 /\ Len(b) \in Nat /\ Len(b) > 0 /\ (Len(b) >= 9 => Extends(b, s))
  BY <1>1, <1>2, BeginsWith
<1>5. d = DecodeScroll(b)
  BY <1>4 DEF DecodeEvent
<1>6. ASSUME Len(b) >= 9
      PROVE  ReadsWhole(d, e, 9)
  <2>1. ~(Len(b) - 1 < 8)
    BY <1>4, <1>6
  <2>2. Unsigned(b, 2) = x /\ Unsigned(b, 6) = y
    <3>1. HasWord(b, 1, x) /\ HasWord(b, 5, y)
      BY <1>1, <1>4, <1>6
    <3>2. x \in Nat /\ y \in Nat /\ TopByte(x) \in 0..255 /\ TopByte(y) \in 0..255
      BY WireAssumption
    <3>3. 1 \in Nat /\ 5 \in Nat /\ 1 + 1 = 2 /\ 5 + 1 = 6
      OBVIOUS
    <3>4. Unsigned(b, 1 + 1) = x /\ Unsigned(b, 5 + 1) = y
      BY <3>1, <3>2, <3>3, UnsignedReads
    <3> QED  BY <3>3, <3>4
  <2>3. d = Decoded(e, 9)
    BY <1>5, <2>1, <2>2 DEF DecodeScroll
  <2> QED  BY <1>3, <2>3 DEF ReadsWhole
<1>7. ASSUME Len(b) < 9
      PROVE  d.result = "truncated"
  <2>1. Len(b) - 1 < 8
    BY <1>4, <1>7
  <2> QED  BY <1>5, <2>1 DEF DecodeScroll, Failed
<1> QED  BY <1>1, <1>6, <1>7 DEF s

LEMMA LaterReads ==
  ASSUME NEW b \in Seq(Byte), b # <<>>, Begins(b, EncodeEvent(LaterEvent))
  PROVE  LET n == Len(EncodeEvent(LaterEvent))
         IN  /\ EncodeEvent(LaterEvent) \in Seq(Byte) /\ n \in Nat /\ n > 0
             /\ Len(b) >= n => ReadsWhole(DecodeEvent(b), LaterEvent, n)
             /\ Len(b) < n => DecodeEvent(b).result = "truncated"
<1> DEFINE s == EncodeEvent(LaterEvent)
<1>1. s = <<3>>
  BY DEF EncodeEvent, LaterEvent
<1>2. s \in Seq(Byte) /\ Len(s) = 1 /\ s[1] = 3
  BY <1>1 DEF Byte
<1>3. Begins(b, s)
  OBVIOUS
<1> HIDE DEF s
<1>4. b[1] = 3 /\ Len(b) \in Nat /\ Len(b) > 0
  BY <1>2, <1>3, BeginsWith
<1>5. DecodeEvent(b) = Failed("refused", 1)
  BY <1>4 DEF DecodeEvent
<1>6. Foreign(LaterEvent)
  BY DEF Foreign, LaterEvent
<1>7. ReadsWhole(DecodeEvent(b), LaterEvent, 1)
  BY <1>5, <1>6 DEF ReadsWhole, Failed
<1> QED  BY <1>2, <1>4, <1>7 DEF s

\* A header of any numbers, and the places of its fields.
AnyHeader(h) ==
  /\ h.kind \in Names(Kinds) /\ h.format \in Names(Formats)
  /\ \A n \in {h.display, h.sequence, h.width, h.height, h.payload} :
       n \in Nat /\ TopByte(n) \in 0..255

HeaderFields(b, h) ==
  /\ b[1] = Number(Kinds, h.kind) /\ b[18] = Number(Formats, h.format)
  /\ HasWord(b, 1, h.display) /\ HasWord(b, 5, h.sequence) /\ HasWord(b, 9, h.width)
  /\ HasWord(b, 13, h.height) /\ HasWord(b, 20, h.payload)

LEMMA HeaderPlaces ==
  ASSUME NEW h, AnyHeader(h)
  PROVE  LET s == EncodeHeader(h)
         IN  /\ s \in Seq(Byte) /\ Len(s) = 24
             /\ \A b \in Seq(Byte) : Extends(b, s) => HeaderFields(b, h)
<1> DEFINE k == Number(Kinds, h.kind)
           m == h.display
           n == h.sequence
           p == h.width
           q == h.height
           f == Number(Formats, h.format)
           payload == h.payload
<1>1. /\ k \in Byte /\ f \in Byte
      /\ m \in Int /\ n \in Int /\ p \in Int /\ q \in Int /\ payload \in Int
  BY KindNumbers, FormatNumbers DEF AnyHeader, Byte
<1> HIDE DEF k, m, n, p, q, f, payload
<1> DEFINE s0 == <<k>>
           s1 == s0 \o Word(m)
           s2 == s1 \o Word(n)
           s3 == s2 \o Word(p)
           s4 == s3 \o Word(q)
           s5 == s4 \o <<f, 0, 0>>
           s == s5 \o Word(payload)
<1>2. s0 \in Seq(Byte) /\ Len(s0) = 1 /\ s0[1] = k
  BY <1>1
<1> HIDE DEF s0
<1>3. /\ s1 \in Seq(Byte) /\ Len(s1) = 5 /\ Extends(s1, s0) /\ HasWord(s1, 1, m)
  <2>1. /\ s1 \in Seq(Byte) /\ Len(s1) = Len(s0) + 4
        /\ Extends(s1, s0) /\ HasWord(s1, Len(s0), m)
    BY <1>1, <1>2, PutWord
  <2> QED  BY <1>2, <2>1
<1> HIDE DEF s1
<1>4. /\ s2 \in Seq(Byte) /\ Len(s2) = 9 /\ Extends(s2, s1) /\ HasWord(s2, 5, n)
  <2>1. /\ s2 \in Seq(Byte) /\ Len(s2) = Len(s1) + 4
        /\ Extends(s2, s1) /\ HasWord(s2, Len(s1), n)
    BY <1>1, <1>3, PutWord
  <2> QED  BY <1>3, <2>1
<1> HIDE DEF s2
<1>5. /\ s3 \in Seq(Byte) /\ Len(s3) = 13 /\ Extends(s3, s2) /\ HasWord(s3, 9, p)
  <2>1. /\ s3 \in Seq(Byte) /\ Len(s3) = Len(s2) + 4
        /\ Extends(s3, s2) /\ HasWord(s3, Len(s2), p)
    BY <1>1, <1>4, PutWord
  <2> QED  BY <1>4, <2>1
<1> HIDE DEF s3
<1>6. /\ s4 \in Seq(Byte) /\ Len(s4) = 17 /\ Extends(s4, s3) /\ HasWord(s4, 13, q)
  <2>1. /\ s4 \in Seq(Byte) /\ Len(s4) = Len(s3) + 4
        /\ Extends(s4, s3) /\ HasWord(s4, Len(s3), q)
    BY <1>1, <1>5, PutWord
  <2> QED  BY <1>5, <2>1
<1> HIDE DEF s4
<1>7. /\ s5 \in Seq(Byte) /\ Len(s5) = 20 /\ Extends(s5, s4) /\ s5[18] = f
  <2> DEFINE t == <<f, 0, 0>>
  <2>1. t \in Seq(Byte) /\ Len(t) = 3 /\ t[1] = f
    BY <1>1 DEF Byte
  <2> HIDE DEF t
  <2>2. /\ s4 \o t \in Seq(Byte) /\ Len(s4 \o t) = Len(s4) + Len(t)
        /\ \A i \in 1..Len(s4) + Len(t) :
             (s4 \o t)[i] = IF i <= Len(s4) THEN s4[i] ELSE t[i - Len(s4)]
    BY <1>6, <2>1, BytesConcat
  <2>3. /\ Len(s4 \o t) = 20 /\ (s4 \o t)[18] = f
        /\ \A i \in 1..17 : (s4 \o t)[i] = s4[i]
    <3>1. Len(s4) + Len(t) = 20
      BY <1>6, <2>1
    <3>2. (s4 \o t)[18] = f
      BY <1>6, <2>1, <2>2, <3>1
    <3> QED  BY <1>6, <2>2, <3>1, <3>2
  <2>4. s5 = s4 \o t
    BY DEF t
  <2> HIDE DEF s5
  <2> QED  BY <1>6, <2>2, <2>3, <2>4 DEF Extends
<1> HIDE DEF s5
<1>8. s = EncodeHeader(h)
  BY DEF EncodeHeader, s5, s4, s3, s2, s1, s0, k, m, n, p, q, f, payload
<1>9. /\ s \in Seq(Byte) /\ Len(s) = 24 /\ Extends(s, s5) /\ HasWord(s, 20, payload)
  <2>1. /\ s \in Seq(Byte) /\ Len(s) = Len(s5) + 4
        /\ Extends(s, s5) /\ HasWord(s, Len(s5), payload)
    BY <1>1, <1>7, PutWord
  <2> QED  BY <1>7, <2>1
<1> HIDE DEF s
<1>10. ASSUME NEW b \in Seq(Byte), Extends(b, s)
       PROVE  HeaderFields(b, h)
  <2>1. Extends(b, s5)
    BY <1>7, <1>9, <1>10, ExtendsOn
  <2>2. Extends(b, s4)
    BY <1>6, <1>7, <2>1, ExtendsOn
  <2>3. Extends(b, s3)
    BY <1>5, <1>6, <2>2, ExtendsOn
  <2>4. Extends(b, s2)
    BY <1>4, <1>5, <2>3, ExtendsOn
  <2>5. Extends(b, s1)
    BY <1>3, <1>4, <2>4, ExtendsOn
  <2>6. Extends(b, s0)
    BY <1>2, <1>3, <2>5, ExtendsOn
  <2>7. b[1] = k /\ b[18] = f
    BY <1>2, <1>7, <2>1, <2>6 DEF Extends
  <2>8. HasWord(b, 1, m)
    <3>1. 1 \in Nat /\ 1 + 4 <= Len(s1)
      BY <1>3
    <3> QED  BY <1>3, <2>5, <3>1, KeepsWord
  <2>9. HasWord(b, 5, n)
    <3>1. 5 \in Nat /\ 5 + 4 <= Len(s2)
      BY <1>4
    <3> QED  BY <1>4, <2>4, <3>1, KeepsWord
  <2>10. HasWord(b, 9, p)
    <3>1. 9 \in Nat /\ 9 + 4 <= Len(s3)
      BY <1>5
    <3> QED  BY <1>5, <2>3, <3>1, KeepsWord
  <2>11. HasWord(b, 13, q)
    <3>1. 13 \in Nat /\ 13 + 4 <= Len(s4)
      BY <1>6
    <3> QED  BY <1>6, <2>2, <3>1, KeepsWord
  <2>12. HasWord(b, 20, payload)
    <3>1. 20 \in Nat /\ 20 + 4 <= Len(s)
      BY <1>9
    <3> QED  BY <1>9, <1>10, <3>1, KeepsWord
  <2> QED  BY <2>7, <2>8, <2>9, <2>10, <2>11, <2>12
          DEF HeaderFields, k, m, n, p, q, f, payload
<1> QED  BY <1>8, <1>9, <1>10

LEMMA HeaderIsAny ==
  ASSUME NEW kind \in Names(Kinds), NEW format \in Names(Formats), NEW payload \in Payloads
  PROVE  AnyHeader(Header(kind, format, payload))
<1>1. payload \in Nat /\ TopByte(payload) \in 0..255
  BY WireAssumption
<1>2. /\ TopByte(1) \in 0..255 /\ TopByte(258) \in 0..255
      /\ TopByte(1920) \in 0..255 /\ TopByte(1080) \in 0..255
  BY DEF TopByte
<1> QED  BY <1>1, <1>2 DEF AnyHeader, Header

LEMMA HeaderAt ==
  ASSUME NEW h, AnyHeader(h), NEW b \in Seq(Byte), Extends(b, EncodeHeader(h))
  PROVE  /\ b[1] = Number(Kinds, h.kind) /\ b[18] = Number(Formats, h.format)
         /\ Unsigned(b, 2) = h.display /\ Unsigned(b, 6) = h.sequence
         /\ Unsigned(b, 10) = h.width /\ Unsigned(b, 14) = h.height
         /\ Unsigned(b, 21) = h.payload
<1> DEFINE m == h.display
           n == h.sequence
           p == h.width
           q == h.height
           payload == h.payload
           fits(v) == v \in Nat /\ TopByte(v) \in 0..255
<1>1. fits(m) /\ fits(n) /\ fits(p) /\ fits(q) /\ fits(payload)
  BY DEF AnyHeader
<1>2. HeaderFields(b, h)
  BY HeaderPlaces
<1>3. /\ b[1] = Number(Kinds, h.kind) /\ b[18] = Number(Formats, h.format)
      /\ HasWord(b, 1, m) /\ HasWord(b, 5, n) /\ HasWord(b, 9, p)
      /\ HasWord(b, 13, q) /\ HasWord(b, 20, payload)
  BY <1>2 DEF HeaderFields
<1> HIDE DEF m, n, p, q, payload
<1>4. /\ 1 \in Nat /\ 5 \in Nat /\ 9 \in Nat /\ 13 \in Nat /\ 20 \in Nat
      /\ 1 + 1 = 2 /\ 5 + 1 = 6 /\ 9 + 1 = 10 /\ 13 + 1 = 14 /\ 20 + 1 = 21
  OBVIOUS
<1>5. Unsigned(b, 1 + 1) = m
  BY <1>1, <1>3, <1>4, UnsignedReads
<1>6. Unsigned(b, 5 + 1) = n
  BY <1>1, <1>3, <1>4, UnsignedReads
<1>7. Unsigned(b, 9 + 1) = p
  BY <1>1, <1>3, <1>4, UnsignedReads
<1>8. Unsigned(b, 13 + 1) = q
  BY <1>1, <1>3, <1>4, UnsignedReads
<1>9. Unsigned(b, 20 + 1) = payload
  BY <1>1, <1>3, <1>4, UnsignedReads
<1> QED  BY <1>3, <1>4, <1>5, <1>6, <1>7, <1>8, <1>9 DEF m, n, p, q, payload

LEMMA HeaderReads ==
  ASSUME NEW kind \in Names(Kinds), NEW format \in Names(Formats), NEW payload \in Payloads,
         NEW b \in Seq(Byte), b # <<>>, Begins(b, EncodeHeader(Header(kind, format, payload)))
  PROVE  LET h == Header(kind, format, payload)
             n == Len(EncodeHeader(h))
         IN  /\ EncodeHeader(h) \in Seq(Byte) /\ n \in Nat /\ n > 0
             /\ Len(b) >= n => ReadsWhole(DecodeHeader(b), h, n)
             /\ Len(b) < n => DecodeHeader(b).result = "short"
<1> DEFINE h == Header(kind, format, payload)
           s == EncodeHeader(h)
           d == DecodeHeader(b)
           k == Number(Kinds, kind)
           f == Number(Formats, format)
<1>1. /\ s \in Seq(Byte) /\ Len(s) = 24
      /\ Extends(b, s) =>
           /\ b[1] = k /\ b[18] = f
           /\ Unsigned(b, 2) = 1 /\ Unsigned(b, 6) = 258 /\ Unsigned(b, 10) = 1920
           /\ Unsigned(b, 14) = 1080 /\ Unsigned(b, 21) = payload
  <2>1. AnyHeader(h)
    BY HeaderIsAny
  <2>2. /\ h.kind = kind /\ h.format = format /\ h.payload = payload
        /\ h.display = 1 /\ h.sequence = 258 /\ h.width = 1920 /\ h.height = 1080
    BY DEF Header
  <2> HIDE DEF h
  <2>3. s \in Seq(Byte) /\ Len(s) = 24
    BY <2>1, HeaderPlaces
  <2>4. ASSUME Extends(b, s)
        PROVE  /\ b[1] = Number(Kinds, h.kind) /\ b[18] = Number(Formats, h.format)
               /\ Unsigned(b, 2) = h.display /\ Unsigned(b, 6) = h.sequence
               /\ Unsigned(b, 10) = h.width /\ Unsigned(b, 14) = h.height
               /\ Unsigned(b, 21) = h.payload
    BY <2>1, <2>4, HeaderAt
  <2> QED  BY <2>2, <2>3, <2>4
<1>2. Begins(b, s)
  OBVIOUS
<1>3. Foreign(h) <=> kind = "later" \/ format = "later" \/ payload > MaxPayload
  BY DEF Foreign, Header
<1>4. /\ Known(Kinds, k) <=> kind # "later"
      /\ kind # "later" => Name(Kinds, k) = kind
      /\ Known(Formats, f) <=> format # "later"
      /\ format # "later" => Name(Formats, f) = format
  BY KindNumbers, FormatNumbers
<1> HIDE DEF s, k, f
<1>5. Len(b) \in Nat /\ (Len(b) >= 24 => Extends(b, s))
  <2>1. s \in Seq(Byte) /\ Len(s) = 24 /\ Len(s) > 0
    BY <1>1
  <2>2. Len(b) \in Nat /\ (Len(b) >= Len(s) => Extends(b, s))
    BY <1>2, <2>1, BeginsWith
  <2> QED  BY <2>1, <2>2
<1>6. ASSUME Len(b) >= 24
      PROVE  ReadsWhole(d, h, 24)
  <2>1. ~(Len(b) < FrameHeaderSize) /\ FrameHeaderSize = 24
    BY <1>5, <1>6 DEF FrameHeaderSize
  <2>2. b[1] = k /\ b[18] = f
    BY <1>1, <1>5, <1>6
  <2>3. /\ Unsigned(b, 2) = 1 /\ Unsigned(b, 6) = 258 /\ Unsigned(b, 10) = 1920
        /\ Unsigned(b, 14) = 1080 /\ Unsigned(b, 21) = payload
    BY <1>1, <1>5, <1>6
  <2>4. CASE kind = "later"
    <3>1. d = Failed("refused", 1)
      BY <1>4, <2>1, <2>2, <2>4 DEF DecodeHeader
    <3> QED  BY <1>3, <2>4, <3>1 DEF ReadsWhole, Failed
  <2>5. CASE kind # "later" /\ format = "later"
    <3>1. d = Failed("refused", 18)
      BY <1>4, <2>1, <2>2, <2>5 DEF DecodeHeader
    <3> QED  BY <1>3, <2>5, <3>1 DEF ReadsWhole, Failed
  <2>6. CASE kind # "later" /\ format # "later" /\ payload > MaxPayload
    <3>1. d = Failed("refused", 24)
      BY <1>4, <2>1, <2>2, <2>3, <2>6 DEF DecodeHeader
    <3> QED  BY <1>3, <2>6, <3>1 DEF ReadsWhole, Failed
  <2>7. CASE kind # "later" /\ format # "later" /\ ~(payload > MaxPayload)
    <3>1. d = Decoded(h, 24)
      BY <1>4, <2>1, <2>2, <2>3, <2>7 DEF DecodeHeader, Header
    <3> QED  BY <1>3, <2>7, <3>1 DEF ReadsWhole
  <2> QED  BY <2>4, <2>5, <2>6, <2>7
<1>7. ASSUME Len(b) < 24
      PROVE  d.result = "short"
  BY <1>7 DEF DecodeHeader, FrameHeaderSize, Failed
<1> QED  BY <1>1, <1>6, <1>7 DEF s

-----------------------------------------------------------------------------
(* WireFormat: items one after the other                                   *)

\* The i-th byte that is not decoded yet, of those arrived and those under way.
ByteAhead(u, w, i) == IF i <= Len(u) THEN u[i] ELSE w[i - Len(u)]

\* The bytes ahead are the encodings of the items after the first g, of which
\* that of item n starts after at[n].
Laid(at, g, last, enc, u, w) ==
  /\ at \in [g + 1..last + 1 -> Nat]
  /\ at[g + 1] = 0 /\ at[last + 1] = Len(u) + Len(w)
  /\ \A n, k \in g + 1..last + 1 : n <= k => at[n] <= at[k]
  /\ \A n \in g + 1..last :
       /\ at[n + 1] = at[n] + Len(enc[n])
       /\ \A i \in 1..Len(enc[n]) : ByteAhead(u, w, at[n] + i) = enc[n][i]

IsLaid(g, last, enc, u, w) == \E at : Laid(at, g, last, enc, u, w)

LEMMA NothingLaid ==
  ASSUME NEW enc
  PROVE  IsLaid(0, 0, enc, <<>>, <<>>)
<1> DEFINE at == [n \in 1..1 |-> 0]
<1>1. Laid(at, 0, 0, enc, <<>>, <<>>)
  BY DEF Laid
<1> QED  BY <1>1 DEF IsLaid

LEMMA LaidNext ==
  ASSUME NEW g \in Nat, NEW last \in Nat, g <= last, NEW enc, NEW u \in Seq(Byte),
         NEW w \in Seq(Byte), \A n \in 1..last : enc[n] \in Seq(Byte),
         IsLaid(g, last, enc, u, w)
  PROVE  /\ u # <<>> => /\ g < last /\ Begins(u, enc[g + 1])
                        /\ Len(enc[g + 1]) <= Len(u) + Len(w)
         /\ u = <<>> /\ w = <<>> /\ (\A n \in 1..last : Len(enc[n]) > 0) => g = last
<1>1. PICK at : Laid(at, g, last, enc, u, w)
  BY DEF IsLaid
<1>2. /\ at \in [g + 1..last + 1 -> Nat] /\ at[g + 1] = 0 /\ at[last + 1] = Len(u) + Len(w)
      /\ \A n, k \in g + 1..last + 1 : n <= k => at[n] <= at[k]
      /\ Len(u) \in Nat /\ Len(w) \in Nat
  BY <1>1 DEF Laid
<1>3. ASSUME g < last
      PROVE  /\ g + 1 \in g + 1..last /\ g + 1 \in 1..last
             /\ g + 2 \in g + 1..last + 1 /\ last + 1 \in g + 1..last + 1 /\ g + 2 <= last + 1
  BY <1>3
<1>4. ASSUME g < last
      PROVE  /\ at[g + 2] = Len(enc[g + 1]) /\ at[g + 2] <= Len(u) + Len(w)
             /\ \A i \in 1..Len(enc[g + 1]) : ByteAhead(u, w, i) = enc[g + 1][i]
  <2> DEFINE e == enc[g + 1]
  <2>1. e \in Seq(Byte) /\ Len(e) \in Nat
    BY <1>3, <1>4
  <2>2. (g + 1) + 1 = g + 2
    OBVIOUS
  <2>3. /\ at[g + 2] = at[g + 1] + Len(e)
        /\ \A i \in 1..Len(e) : ByteAhead(u, w, at[g + 1] + i) = e[i]
    BY <1>1, <1>3, <1>4, <2>2 DEF Laid
  <2>4. at[g + 2] <= at[last + 1]
    BY <1>2, <1>3, <1>4
  <2> HIDE DEF e
  <2>5. \A i \in 1..Len(e) : at[g + 1] + i = i
    BY <1>2, <2>1
  <2>6. \A i \in 1..Len(e) : ByteAhead(u, w, i) = e[i]
    BY <2>3, <2>5
  <2> QED  BY <1>2, <2>1, <2>3, <2>4, <2>6 DEF e
<1>5. ASSUME u # <<>>
      PROVE  /\ g < last /\ Begins(u, enc[g + 1])
             /\ Len(enc[g + 1]) <= Len(u) + Len(w)
  <2>1. Len(u) > 0
    BY <1>5
  <2>2. g < last
    <3>1. CASE g = last
      BY <1>2, <2>1, <3>1
    <3> QED  BY <3>1
  <2>3. Begins(u, enc[g + 1])
    BY <1>4, <2>2 DEF Begins, ByteAhead
  <2> QED  BY <1>4, <2>2, <2>3
<1>6. ASSUME u = <<>>, w = <<>>, \A n \in 1..last : Len(enc[n]) > 0
      PROVE  g = last
  <2>1. Len(u) + Len(w) = 0
    BY <1>6
  <2>2. CASE g < last
    <3>1. Len(enc[g + 1]) > 0 /\ Len(enc[g + 1]) <= 0
      BY <1>3, <1>4, <1>6, <2>1, <2>2
    <3>2. Len(enc[g + 1]) \in Nat
      BY <1>3, <2>2
    <3> QED  BY <3>1, <3>2
  <2> QED  BY <2>2
<1> QED  BY <1>5, <1>6

LEMMA LaidWritten ==
  ASSUME NEW g \in Nat, NEW last \in Nat, g <= last, NEW enc, NEW u \in Seq(Byte),
         NEW w \in Seq(Byte), \A n \in 1..last : enc[n] \in Seq(Byte),
         IsLaid(g, last, enc, u, w), NEW e \in Seq(Byte),
         NEW enc2, \A n \in 1..last : enc2[n] = enc[n], enc2[last + 1] = e
  PROVE  IsLaid(g, last + 1, enc2, u, w \o e)
<1>1. PICK at : Laid(at, g, last, enc, u, w)
  BY DEF IsLaid
<1> DEFINE x == w \o e
           total == Len(u) + Len(w)
           at2 == [n \in g + 1..last + 2 |-> IF n <= last + 1 THEN at[n] ELSE total + Len(e)]
<1>2. /\ x \in Seq(Byte) /\ Len(x) = Len(w) + Len(e)
      /\ \A i \in 1..Len(w) + Len(e) :
           x[i] = IF i <= Len(w) THEN w[i] ELSE e[i - Len(w)]
      /\ Len(u) \in Nat /\ Len(w) \in Nat /\ Len(e) \in Nat
  BY BytesConcat
<1>3. /\ at \in [g + 1..last + 1 -> Nat] /\ at[g + 1] = 0 /\ at[last + 1] = total
      /\ \A n, k \in g + 1..last + 1 : n <= k => at[n] <= at[k]
  BY <1>1 DEF Laid
<1> HIDE DEF x
<1>4. ASSUME NEW i \in 1..total
      PROVE  ByteAhead(u, x, i) = ByteAhead(u, w, i)
  <2>1. CASE i <= Len(u)
    BY <2>1 DEF ByteAhead
  <2>2. CASE ~(i <= Len(u))
    <3>1. /\ i - Len(u) \in 1..Len(w) + Len(e) /\ i - Len(u) <= Len(w)
      BY <1>2, <2>2
    <3>2. x[i - Len(u)] = w[i - Len(u)]
      BY <1>2, <3>1
    <3> QED  BY <2>2, <3>2 DEF ByteAhead
  <2> QED  BY <2>1, <2>2
<1>5. ASSUME NEW i \in 1..Len(e)
      PROVE  ByteAhead(u, x, total + i) = e[i]
  <2>1. /\ ~(total + i <= Len(u)) /\ (total + i) - Len(u) = Len(w) + i
        /\ Len(w) + i \in 1..Len(w) + Len(e) /\ ~(Len(w) + i <= Len(w))
        /\ (Len(w) + i) - Len(w) = i
    BY <1>2
  <2>2. x[Len(w) + i] = e[i]
    BY <1>2, <2>1
  <2> QED  BY <2>1, <2>2 DEF ByteAhead
<1>6. total \in Nat
  BY <1>2
<1> HIDE DEF total
<1>7. at2 \in [g + 1..last + 2 -> Nat] /\ last + 2 = (last + 1) + 1
  BY <1>2, <1>3, <1>6
<1>8. /\ \A n \in g + 1..last + 1 : at2[n] = at[n]
      /\ at2[last + 2] = total + Len(e)
      /\ g + 1 \in g + 1..last + 1 /\ last + 1 \in g + 1..last + 1
  OBVIOUS
<1> HIDE DEF at2
<1>9. \A n \in g + 1..last + 1 : at[n] \in Nat /\ at[n] <= total
  BY <1>3, <1>8
<1>10. ASSUME NEW n \in g + 1..last + 2, NEW k \in g + 1..last + 2, n <= k
       PROVE  at2[n] <= at2[k]
  <2>1. CASE k <= last + 1
    <3>1. n \in g + 1..last + 1 /\ k \in g + 1..last + 1
      BY <1>10, <2>1
    <3> QED  BY <1>3, <1>8, <1>10, <3>1
  <2>2. CASE k = last + 2 /\ n <= last + 1
    <3>1. n \in g + 1..last + 1
      BY <2>2
    <3>2. at2[n] = at[n] /\ at[n] \in Nat /\ at[n] <= total
      BY <1>8, <1>9, <3>1
    <3> QED  BY <1>2, <1>6, <1>8, <2>2, <3>2
  <2>3. CASE k = last + 2 /\ n = last + 2
    BY <1>2, <1>6, <1>8, <2>3
  <2> QED  BY <1>10, <2>1, <2>2, <2>3
<1>11. ASSUME NEW n \in g + 1..last + 1
       PROVE  /\ at2[n + 1] = at2[n] + Len(enc2[n])
              /\ \A i \in 1..Len(enc2[n]) : ByteAhead(u, x, at2[n] + i) = enc2[n][i]
  <2>1. CASE n <= last
    <3>1. n \in g + 1..last /\ n + 1 \in g + 1..last + 1 /\ n \in 1..last
      BY <2>1
    <3> DEFINE b == enc[n]
    <3>2. enc2[n] = b /\ Len(b) \in Nat
      BY <3>1
    <3>3. /\ at[n + 1] = at[n] + Len(b)
          /\ \A i \in 1..Len(b) : ByteAhead(u, w, at[n] + i) = b[i]
      BY <1>1, <3>1 DEF Laid
    <3> HIDE DEF b
    <3>4. at2[n] = at[n] /\ at2[n + 1] = at[n + 1] /\ at[n] \in Nat /\ at[n + 1] <= total
      BY <1>8, <1>9, <3>1
    <3>5. \A i \in 1..Len(b) : at[n] + i \in 1..total
      BY <1>6, <3>2, <3>3, <3>4
    <3>6. \A i \in 1..Len(b) : ByteAhead(u, x, at[n] + i) = b[i]
      BY <1>4, <3>3, <3>5
    <3> QED  BY <3>2, <3>3, <3>4, <3>6
  <2>2. CASE n = last + 1
    <3>1. enc2[n] = e /\ at2[n] = total /\ n + 1 = last + 2
      BY <1>3, <1>8, <2>2
    <3> QED  BY <1>5, <1>8, <3>1
  <2>3. n <= last \/ n = last + 1
    BY <1>11
  <2> QED  BY ONLY <2>1, <2>2, <2>3
<1>12. at2[(last + 1) + 1] = Len(u) + Len(x)
  BY <1>2, <1>7, <1>8 DEF total
<1>13. at2[g + 1] = 0
  BY <1>3, <1>8
<1>14. Laid(at2, g, last + 1, enc2, u, x)
  BY <1>7, <1>10, <1>11, <1>12, <1>13 DEF Laid
<1> QED  BY <1>14 DEF IsLaid, x

LEMMA LaidArrived ==
  ASSUME NEW g \in Nat, NEW last \in Nat, g <= last, NEW enc, NEW u \in Seq(Byte),
         NEW w \in Seq(Byte), \A n \in 1..last : enc[n] \in Seq(Byte),
         IsLaid(g, last, enc, u, w), NEW m \in 1..Len(w)
  PROVE  IsLaid(g, last, enc, u \o SubSeq(w, 1, m), SubSeq(w, m + 1, Len(w)))
<1>1. PICK at : Laid(at, g, last, enc, u, w)
  BY DEF IsLaid
<1> DEFINE a == SubSeq(w, 1, m)
           y == SubSeq(w, m + 1, Len(w))
           x == u \o a
<1>2. /\ a \in Seq(Byte) /\ Len(a) = m /\ \A i \in 1..m : a[i] = w[i]
      /\ y \in Seq(Byte) /\ Len(y) = Len(w) - m /\ \A i \in 1..Len(w) - m : y[i] = w[m + i]
      /\ Len(u) \in Nat /\ Len(w) \in Nat /\ m \in Nat
  OBVIOUS
<1> HIDE DEF a, y
<1>3. /\ x \in Seq(Byte) /\ Len(x) = Len(u) + m
      /\ \A i \in 1..Len(u) + m : x[i] = IF i <= Len(u) THEN u[i] ELSE a[i - Len(u)]
  <2>1. Len(u) + Len(a) = Len(u) + m
    BY <1>2
  <2>2. /\ x \in Seq(Byte) /\ Len(x) = Len(u) + Len(a)
        /\ \A i \in 1..Len(u) + Len(a) : x[i] = IF i <= Len(u) THEN u[i] ELSE a[i - Len(u)]
    BY <1>2, BytesConcat
  <2> QED  BY ONLY <2>1, <2>2
<1> HIDE DEF x
<1>4. ASSUME NEW i \in 1..Len(u) + Len(w)
      PROVE  ByteAhead(x, y, i) = ByteAhead(u, w, i)
  <2>1. CASE i <= Len(u)
    BY <1>2, <1>3, <2>1 DEF ByteAhead
  <2>2. CASE i > Len(u) /\ i <= Len(u) + m
    <3>1. i - Len(u) \in 1..m /\ i \in 1..Len(u) + m /\ i <= Len(x) /\ ~(i <= Len(u))
      BY <1>2, <1>3, <2>2
    <3> QED  BY <1>2, <1>3, <3>1 DEF ByteAhead
  <2>3. CASE i > Len(u) + m
    <3>1. /\ i - (Len(u) + m) \in 1..Len(w) - m /\ m + (i - (Len(u) + m)) = i - Len(u)
          /\ ~(i <= Len(x)) /\ ~(i <= Len(u)) /\ i - Len(x) = i - (Len(u) + m)
      BY <1>2, <1>3, <2>3
    <3> QED  BY <1>2, <3>1 DEF ByteAhead
  <2> QED  BY <1>2, <2>1, <2>2, <2>3
<1>5. Len(x) + Len(y) = Len(u) + Len(w)
  BY <1>2, <1>3
<1>6. ASSUME NEW n \in g + 1..last
      PROVE  \A i \in 1..Len(enc[n]) : ByteAhead(x, y, at[n] + i) = enc[n][i]
  <2> DEFINE b == enc[n]
  <2>1. n \in 1..last /\ n \in g + 1..last + 1 /\ n + 1 \in g + 1..last + 1
        /\ last + 1 \in g + 1..last + 1 /\ n + 1 <= last + 1
    BY <1>6
  <2>2. /\ at[n + 1] = at[n] + Len(b) /\ at[n + 1] <= at[last + 1]
        /\ at[last + 1] = Len(u) + Len(w) /\ at[n] \in Nat
        /\ \A i \in 1..Len(b) : ByteAhead(u, w, at[n] + i) = b[i]
    BY <1>1, <2>1 DEF Laid
  <2>3. Len(b) \in Nat
    BY <2>1
  <2> HIDE DEF b
  <2>4. \A i \in 1..Len(b) : at[n] + i \in 1..Len(u) + Len(w)
    <3>1. at[n] + Len(b) <= Len(u) + Len(w)
      BY <2>2
    <3>2. at[n] \in Nat /\ Len(u) + Len(w) \in Nat
      BY <1>2, <2>2
    <3> QED  BY <2>3, <3>1, <3>2
  <2>5. \A i \in 1..Len(b) : ByteAhead(x, y, at[n] + i) = b[i]
    BY <1>4, <2>2, <2>4
  <2> QED  BY <2>5 DEF b
<1>7. Laid(at, g, last, enc, x, y)
  BY <1>1, <1>5, <1>6 DEF Laid
<1> QED  BY <1>7 DEF IsLaid, x, y, a

LEMMA Dropped ==
  ASSUME NEW u \in Seq(Byte), NEW m \in 0..Len(u)
  PROVE  LET x == SubSeq(u, m + 1, Len(u))
         IN  /\ x \in Seq(Byte) /\ Len(x) = Len(u) - m
             /\ \A i \in 1..Len(u) - m : x[i] = u[m + i]
OBVIOUS

\* A place beyond a natural number is a positive number.
LEMMA PastIsPositive ==
  ASSUME NEW a \in Nat, NEW i \in Nat, i > 0
  PROVE  a + i \in Nat /\ a + i > 0
OBVIOUS

LEMMA Regroup ==
  ASSUME NEW i \in Int, NEW j \in Int, NEW k \in Int
  PROVE  i + (j + k) = (i + j) + k
OBVIOUS

LEMMA LaidRead ==
  ASSUME NEW g \in Nat, NEW last \in Nat, g < last, NEW enc, NEW u \in Seq(Byte),
         NEW w \in Seq(Byte), \A n \in 1..last : enc[n] \in Seq(Byte),
         IsLaid(g, last, enc, u, w), NEW m \in Nat, m = Len(enc[g + 1]), m <= Len(u)
  PROVE  IsLaid(g + 1, last, enc, SubSeq(u, m + 1, Len(u)), w)
<1>1. PICK at : Laid(at, g, last, enc, u, w)
  BY DEF IsLaid
<1> DEFINE x == SubSeq(u, m + 1, Len(u))
           at2 == [n \in (g + 1) + 1..last + 1 |-> at[n] - m]
<1>2. /\ x \in Seq(Byte) /\ Len(x) = Len(u) - m /\ \A i \in 1..Len(u) - m : x[i] = u[m + i]
      /\ Len(u) \in Nat /\ Len(w) \in Nat
  <2>1. m \in 0..Len(u) /\ Len(u) \in Nat /\ Len(w) \in Nat
    OBVIOUS
  <2> QED  BY <2>1, Dropped
<1> HIDE DEF x
<1>3. /\ at \in [g + 1..last + 1 -> Nat] /\ at[g + 1] = 0 /\ at[last + 1] = Len(u) + Len(w)
      /\ \A n, k \in g + 1..last + 1 : n <= k => at[n] <= at[k]
      /\ at[(g + 1) + 1] = at[g + 1] + Len(enc[g + 1])
  BY <1>1 DEF Laid
<1>4. /\ g + 2 = (g + 1) + 1 /\ g + 2 \in g + 1..last + 1
      /\ \A n \in g + 2..last + 1 : n \in g + 1..last + 1 /\ g + 2 <= n
      /\ last + 1 \in g + 2..last + 1 /\ g + 2 \in g + 2..last + 1
  OBVIOUS
<1>5. at[g + 2] = m
  BY <1>3, <1>4
<1>6. \A n \in g + 2..last + 1 : at[n] \in Nat /\ at[n] >= m
  BY <1>3, <1>4, <1>5
<1>7. /\ at2 \in [g + 2..last + 1 -> Nat]
      /\ \A n \in g + 2..last + 1 : at2[n] = at[n] - m
  BY <1>4, <1>6
<1> HIDE DEF at2
<1>8. ASSUME NEW i \in Nat, i > 0
      PROVE  ByteAhead(x, w, i) = ByteAhead(u, w, m + i)
  <2>1. CASE i <= Len(u) - m
    <3>1. i \in 1..Len(u) - m /\ i <= Len(x) /\ m + i <= Len(u)
      BY <1>2, <1>8, <2>1
    <3> QED  BY <1>2, <3>1 DEF ByteAhead
  <2>2. CASE ~(i <= Len(u) - m)
    <3>1. ~(i <= Len(x)) /\ ~(m + i <= Len(u)) /\ i - Len(x) = (m + i) - Len(u)
      BY <1>2, <1>8, <2>2
    <3> QED  BY <3>1 DEF ByteAhead
  <2> QED  BY <2>1, <2>2
<1>9. ASSUME NEW n \in g + 2..last
      PROVE  /\ at2[n + 1] = at2[n] + Len(enc[n])
             /\ \A i \in 1..Len(enc[n]) : ByteAhead(x, w, at2[n] + i) = enc[n][i]
  <2> DEFINE b == enc[n]
  <2>1. n \in 1..last /\ n \in g + 1..last /\ n \in g + 2..last + 1 /\ n + 1 \in g + 2..last + 1
    BY <1>9
  <2>2. /\ at[n + 1] = at[n] + Len(b)
        /\ \A i \in 1..Len(b) : ByteAhead(u, w, at[n] + i) = b[i]
    BY <1>1, <2>1 DEF Laid
  <2>3. Len(b) \in Nat
    BY <2>1
  <2> HIDE DEF b
  <2>4. /\ at2[n] = at[n] - m /\ at2[n + 1] = at[n + 1] - m
        /\ at[n] \in Nat /\ at[n] >= m
    BY <1>6, <1>7, <2>1
  <2>5. ASSUME NEW i \in 1..Len(b)
        PROVE  ByteAhead(x, w, at2[n] + i) = b[i]
    <3>1. at2[n] + i \in Nat /\ at2[n] + i > 0 /\ m + (at2[n] + i) = at[n] + i
      <4>1. i \in Nat /\ i > 0
        BY <2>3
      <4>2. at2[n] \in Nat /\ m + at2[n] = at[n]
        BY <2>4
      <4>3. at2[n] + i \in Nat /\ at2[n] + i > 0
        BY <4>1, <4>2, PastIsPositive
      <4>4. m + (at2[n] + i) = (m + at2[n]) + i
        BY <4>1, <4>2, Regroup
      <4> QED  BY <4>2, <4>3, <4>4
    <3>2. ByteAhead(x, w, at2[n] + i) = ByteAhead(u, w, m + (at2[n] + i))
      BY <1>8, <3>1
    <3> QED  BY <2>2, <3>1, <3>2
  <2>6. at2[n + 1] = at2[n] + Len(b)
    BY <2>2, <2>3, <2>4
  <2> QED  BY <2>5, <2>6 DEF b
<1>10. \A n, k \in g + 2..last + 1 : n <= k => at2[n] <= at2[k]
  <2> SUFFICES ASSUME NEW n \in g + 2..last + 1, NEW k \in g + 2..last + 1, n <= k
               PROVE  at2[n] <= at2[k]
    OBVIOUS
  <2>1. at[n] <= at[k]
    BY <1>3, <1>4
  <2>2. at[n] \in Nat /\ at[k] \in Nat /\ at2[n] = at[n] - m /\ at2[k] = at[k] - m
    BY <1>6, <1>7
  <2> QED  BY <2>1, <2>2
<1>11. at2[g + 2] = 0 /\ at2[last + 1] = Len(x) + Len(w)
  <2>1. at2[g + 2] = m - m /\ at2[last + 1] = (Len(u) + Len(w)) - m
    BY <1>3, <1>4, <1>5, <1>7
  <2>2. Len(x) + Len(w) = (Len(u) + Len(w)) - m
    BY <1>2
  <2>3. m - m = 0
    OBVIOUS
  <2> QED  BY ONLY <2>1, <2>2, <2>3
<1>12. Laid(at2, g + 1, last, enc, x, w)
  BY <1>4, <1>7, <1>9, <1>10, <1>11 DEF Laid
<1> QED  BY <1>12 DEF IsLaid, x

-----------------------------------------------------------------------------
(* WireFormat: the stream                                                  *)

LEMMA EventCases ==
  ASSUME NEW e \in InputItems
  PROVE  \/ \E x, y \in Coordinates :
              \E b \in AnyButton : e = MouseEvent(x, y, b)
         \/ \E c \in Codes, a \in Actions, mods \in Byte : e = KeyEvent(c, a, mods)
         \/ \E x, y \in Codes : e = ScrollEvent(x, y)
         \/ e = LaterEvent
<1>1. {0, 9} \subseteq Byte
  BY DEF Byte
<1>2. \/ e \in {MouseEvent(x, y, b) :
                   x, y \in Coordinates, b \in AnyButton}
      \/ e \in {KeyEvent(c, a, m) : c \in Codes, a \in Actions, m \in {0, 9}}
      \/ e \in {ScrollEvent(dx, dy) : dx, dy \in Codes}
      \/ e = LaterEvent
  BY DEF InputItems, AnyButton
<1> QED  BY <1>1, <1>2

LEMMA EncodingShape ==
  ASSUME stream \in {"input", "video"}, NEW item \in Items
  PROVE  Encoding(item) \in Seq(Byte) /\ Len(Encoding(item)) \in Nat /\ Len(Encoding(item)) > 0
<1>1. CASE stream = "input"
  <2>1. item \in InputItems /\ Encoding(item) = EncodeEvent(item)
    BY <1>1 DEF Items, Encoding
  <2> DEFINE shaped == /\ EncodeEvent(item) \in Seq(Byte)
                       /\ Len(EncodeEvent(item)) \in Nat /\ Len(EncodeEvent(item)) > 0
  <2>2. ASSUME NEW x \in Coordinates, NEW y \in Coordinates,
               NEW b \in AnyButton,
               item = MouseEvent(x, y, b)
        PROVE  shaped
    <3>1. CASE b = NoButton
      <4>1. ButtonByte(b) \in Byte
        BY <3>1 DEF ButtonByte, Byte
      <4> QED  BY <2>2, <4>1, MousePlaces
    <3>2. ASSUME NEW n \in Names(Buttons), NEW a \in Actions, b = Button(n, a)
          PROVE  shaped
      <4>1. ButtonByte(b) \in Byte
        BY <3>2, ButtonReads
      <4> QED  BY <2>2, <4>1, MousePlaces
    <3> QED  BY <3>1, <3>2 DEF AnyButton
  <2>3. ASSUME NEW c \in Codes, NEW a \in Actions, NEW mods \in Byte, item = KeyEvent(c, a, mods)
        PROVE  shaped
    BY <2>3, KeyPlaces
  <2>4. ASSUME NEW x \in Codes, NEW y \in Codes, item = ScrollEvent(x, y)
        PROVE  shaped
    BY <2>4, ScrollPlaces
  <2>5. ASSUME item = LaterEvent
        PROVE  shaped
    <3>1. EncodeEvent(item) = <<3>>
      BY <2>5 DEF EncodeEvent, LaterEvent
    <3> QED  BY <2>1, <3>1 DEF Byte
  <2>6. shaped
    <3> HIDE DEF shaped
    <3> QED  BY <2>1, <2>2, <2>3, <2>4, <2>5, EventCases
  <2> QED  BY <2>1, <2>6
<1>2. CASE stream = "video"
  <2>1. item \in Headers /\ Encoding(item) = EncodeHeader(item)
    BY <1>2 DEF Items, Encoding
  <2>2. PICK k \in Names(Kinds), f \in Names(Formats), n \in Payloads : item = Header(k, f, n)
    BY <2>1 DEF Headers
  <2>3. AnyHeader(item)
    BY <2>2, HeaderIsAny
  <2>4. EncodeHeader(item) \in Seq(Byte) /\ Len(EncodeHeader(item)) = 24
    BY <2>3, HeaderPlaces
  <2> QED  BY <2>1, <2>4
<1> QED  BY <1>1, <1>2

LEMMA ItemReads ==
  ASSUME stream \in {"input", "video"}, NEW item \in Items,
         NEW b \in Seq(Byte), b # <<>>, Begins(b, Encoding(item))
  PROVE  /\ Len(b) >= Len(Encoding(item)) => ReadsWhole(Decoding(b), item, Len(Encoding(item)))
         /\ Len(b) < Len(Encoding(item)) =>
              Decoding(b).result = IF stream = "input" THEN "truncated" ELSE "short"
<1>1. CASE stream = "input"
  <2>1. /\ item \in InputItems /\ Encoding(item) = EncodeEvent(item)
        /\ Decoding(b) = DecodeEvent(b) /\ Begins(b, EncodeEvent(item))
    BY <1>1 DEF Items, Encoding, Decoding
  <2> DEFINE read(n) == /\ Len(b) >= n => ReadsWhole(DecodeEvent(b), item, n)
                        /\ Len(b) < n => DecodeEvent(b).result = "truncated"
  <2>2. ASSUME NEW x \in Coordinates, NEW y \in Coordinates,
               NEW button \in AnyButton,
               item = MouseEvent(x, y, button)
        PROVE  read(Len(EncodeEvent(item)))
    BY <2>1, <2>2, MouseReads
  <2>3. ASSUME NEW c \in Codes, NEW a \in Actions, NEW mods \in Byte, item = KeyEvent(c, a, mods)
        PROVE  read(Len(EncodeEvent(item)))
    BY <2>1, <2>3, KeyReads
  <2>4. ASSUME NEW x \in Codes, NEW y \in Codes, item = ScrollEvent(x, y)
        PROVE  read(Len(EncodeEvent(item)))
    BY <2>1, <2>4, ScrollReads
  <2>5. ASSUME item = LaterEvent
        PROVE  read(Len(EncodeEvent(item)))
    <3>1. Begins(b, EncodeEvent(LaterEvent))
      BY <2>1, <2>5
    <3>2. LET n == Len(EncodeEvent(LaterEvent))
          IN  /\ Len(b) >= n => ReadsWhole(DecodeEvent(b), LaterEvent, n)
              /\ Len(b) < n => DecodeEvent(b).result = "truncated"
      BY <3>1, LaterReads
    <3> QED  BY <2>5, <3>2
  <2>6. read(Len(EncodeEvent(item)))
    <3> HIDE DEF read
    <3> QED  BY <2>1, <2>2, <2>3, <2>4, <2>5, EventCases
  <2> QED  BY <1>1, <2>1, <2>6
<1>2. CASE stream = "video"
  <2>1. /\ item \in Headers /\ Encoding(item) = EncodeHeader(item)
        /\ Decoding(b) = DecodeHeader(b) /\ Begins(b, EncodeHeader(item))
    BY <1>2 DEF Items, Encoding, Decoding
  <2>2. PICK k \in Names(Kinds), f \in Names(Formats), n \in Payloads : item = Header(k, f, n)
    BY <2>1 DEF Headers
  <2>3. /\ Len(b) >= Len(EncodeHeader(item)) =>
             ReadsWhole(DecodeHeader(b), item, Len(EncodeHeader(item)))
        /\ Len(b) < Len(EncodeHeader(item)) => DecodeHeader(b).result = "short"
    BY <2>1, <2>2, HeaderReads
  <2> QED  BY <1>2, <2>1, <2>3
<1> QED  BY <1>1, <1>2

Encodings == [n \in 1..Len(sent) |-> Encoding(sent[n])]

\* While the reader reads, what is ahead of it are the encodings of what it has
\* not got yet; when it stopped, it is known why.
WireInv ==
  /\ WireTypeOK
  /\ Len(got) <= Len(sent) /\ \A i \in 1..Len(got) : got[i] = sent[i]
  /\ reader = "reading" => IsLaid(Len(got), Len(sent), Encodings, unread, underway)
  /\ reader = "refused" => Len(got) < Len(sent) /\ Foreign(sent[Len(got) + 1])
  /\ reader = "truncated" => stream = "input" /\ underway # <<>>

LEMMA EncodingsShape ==
  ASSUME WireTypeOK
  PROVE  /\ Len(sent) \in Nat /\ Len(got) \in Nat
         /\ \A n \in 1..Len(sent) :
              /\ sent[n] \in Items /\ Encodings[n] = Encoding(sent[n])
              /\ Encodings[n] \in Seq(Byte) /\ Len(Encodings[n]) \in Nat /\ Len(Encodings[n]) > 0
<1>1. Len(sent) \in Nat /\ Len(got) \in Nat /\ \A n \in 1..Len(sent) : sent[n] \in Items
  BY DEF WireTypeOK
<1>2. \A n \in 1..Len(sent) : Encodings[n] = Encoding(sent[n])
  BY DEF Encodings
<1> QED  BY <1>1, <1>2, EncodingShape DEF WireTypeOK

LEMMA WireStarts == WireInit => WireInv
<1> SUFFICES ASSUME WireInit PROVE WireInv
  OBVIOUS
<1>1. /\ sent = <<>> /\ got = <<>> /\ unread = <<>> /\ underway = <<>>
      /\ reader = "reading" /\ Len(sent) = 0 /\ Len(got) = 0
  BY DEF WireInit
<1>2. WireTypeOK
  BY <1>1, WireAssumption DEF WireInit, WireTypeOK
<1>3. IsLaid(Len(got), Len(sent), Encodings, unread, underway)
  BY <1>1, NothingLaid
<1> QED  BY <1>1, <1>2, <1>3 DEF WireInv

LEMMA WriteKeeps ==
  ASSUME WireInv, NEW item \in Items, Write(item)
  PROVE  WireInv'
<1> DEFINE e == Encoding(item)
           last == Len(sent)
<1>1. /\ last < MaxItems /\ underway' = underway \o e /\ sent' = Append(sent, item)
      /\ stream' = stream /\ unread' = unread /\ reader' = reader /\ got' = got
  BY DEF Write
<1>2. /\ stream \in {"input", "video"} /\ underway \in Seq(Byte) /\ unread \in Seq(Byte)
      /\ sent \in Seq(Items) /\ got \in Seq(Items)
      /\ reader \in {"reading", "truncated", "refused"}
      /\ MaxItems \in Nat /\ last \in Nat /\ Len(got) \in Nat
  BY WireAssumption DEF WireInv, WireTypeOK, Byte
<1>3. e \in Seq(Byte) /\ Len(e) \in Nat /\ Len(e) > 0
  BY <1>2, EncodingShape
<1>4. /\ sent' \in Seq(Items) /\ Len(sent') = last + 1 /\ sent'[last + 1] = item
      /\ \A i \in 1..last : sent'[i] = sent[i]
  BY <1>1, <1>2
<1>5. /\ underway' \in Seq(Byte) /\ Len(underway') = Len(underway) + Len(e)
      /\ Len(underway) \in Nat
  <2>1. Len(underway) \in Nat
    BY <1>2
  <2> HIDE DEF e
  <2> QED  BY <1>1, <1>2, <1>3, <2>1, BytesConcat
<1>6. Items' = Items /\ (\A x : Encoding(x)' = Encoding(x))
  BY <1>1 DEF Items, Encoding
<1>7. WireTypeOK'
  <2>1. last + 1 <= MaxItems
    BY <1>1, <1>2
  <2> HIDE DEF last
  <2> QED  BY <1>1, <1>2, <1>4, <1>5, <1>6, <2>1 DEF WireTypeOK, Byte, last
<1>8. /\ Encodings'[last + 1] = e
      /\ \A n \in 1..last : Encodings'[n] = Encodings[n]
  <2>1. \A n \in 1..last + 1 : Encodings'[n] = Encoding(sent'[n])
    BY <1>1, <1>4 DEF Encodings, Encoding
  <2>2. \A n \in 1..last : Encodings[n] = Encoding(sent[n])
    BY DEF Encodings
  <2> QED  BY <1>2, <1>4, <2>1, <2>2
<1>9. ASSUME reader' = "reading"
      PROVE  IsLaid(Len(got), Len(sent), Encodings, unread, underway)'
  <2>1. IsLaid(Len(got), last, Encodings, unread, underway) /\ Len(got) <= last
    BY <1>1, <1>9 DEF WireInv
  <2>2. \A n \in 1..last : Encodings[n] \in Seq(Byte)
    BY EncodingsShape DEF WireInv
  <2> HIDE DEF e, last
  <2>3. IsLaid(Len(got), last + 1, Encodings', unread, underway \o e)
    BY <1>2, <1>3, <1>8, <2>1, <2>2, LaidWritten
  <2> QED  BY <1>1, <1>4, <2>3
<1>10. /\ Len(got') <= Len(sent') /\ \A i \in 1..Len(got') : got'[i] = sent'[i]
       /\ reader' = "refused" => Len(got') < Len(sent') /\ Foreign(sent'[Len(got') + 1])
  BY <1>1, <1>2, <1>4 DEF WireInv
<1>11. reader' = "truncated" => stream' = "input" /\ underway' # <<>>
  <2>1. underway # <<>> => underway' # <<>>
    BY <1>2, <1>3, <1>5
  <2> QED  BY <1>1, <2>1 DEF WireInv
<1> QED  BY <1>7, <1>9, <1>10, <1>11 DEF WireInv

LEMMA ArriveKeeps ==
  ASSUME WireInv, NEW n \in 1..Len(underway), Arrive(n)
  PROVE  WireInv'
<1>1. /\ reader = "reading" /\ unread' = unread \o SubSeq(underway, 1, n)
      /\ underway' = SubSeq(underway, n + 1, Len(underway))
      /\ stream' = stream /\ reader' = reader /\ sent' = sent /\ got' = got
  BY DEF Arrive
<1>2. /\ underway \in Seq(Byte) /\ unread \in Seq(Byte)
  BY DEF WireInv, WireTypeOK, Byte
<1>3. SubSeq(underway, 1, n) \in Seq(Byte) /\ underway' \in Seq(Byte)
  BY <1>1, <1>2
<1>4. unread' \in Seq(Byte)
  BY <1>1, <1>2, <1>3, BytesConcat
<1>5. Items' = Items /\ Encodings' = Encodings
  BY <1>1 DEF Items, Encodings, Encoding
<1>6. WireTypeOK'
  BY <1>1, <1>3, <1>4, <1>5 DEF WireInv, WireTypeOK, Byte
<1>7. IsLaid(Len(got), Len(sent), Encodings, unread', underway')
  <2>1. IsLaid(Len(got), Len(sent), Encodings, unread, underway) /\ Len(got) <= Len(sent)
    BY <1>1 DEF WireInv
  <2>2. /\ Len(got) \in Nat /\ Len(sent) \in Nat
        /\ \A k \in 1..Len(sent) : Encodings[k] \in Seq(Byte)
    BY EncodingsShape DEF WireInv
  <2> QED  BY <1>1, <1>2, <2>1, <2>2, LaidArrived
<1> QED  BY <1>1, <1>5, <1>6, <1>7 DEF WireInv

LEMMA TakesSome ==
  ASSUME NEW b
  PROVE  Decoding(b).taken \in Nat
<1>1. DecodeEvent(b).taken \in Nat
  BY DEF DecodeEvent, DecodeMouse, DecodeKey, DecodeScroll, Failed, Decoded
<1>2. DecodeHeader(b).taken \in Nat
  BY DEF DecodeHeader, FrameHeaderSize, Failed, Decoded
<1> QED  BY <1>1, <1>2 DEF Decoding

LEMMA ReadKeeps ==
  ASSUME WireInv, Read
  PROVE  WireInv'
<1> DEFINE d == Decoding(unread)
           g == Len(got)
           last == Len(sent)
           item == sent[g + 1]
           e == Encoding(item)
<1>1. /\ reader = "reading" /\ unread # <<>> /\ d.result # "short"
      /\ unread' = SubSeq(unread, d.taken + 1, Len(unread))
      /\ \/ d.result = "ok" /\ got' = Append(got, d.item) /\ reader' = reader
         \/ d.result # "ok" /\ reader' = d.result /\ got' = got
      /\ stream' = stream /\ underway' = underway /\ sent' = sent
  BY DEF Read
<1>2. /\ stream \in {"input", "video"} /\ underway \in Seq(Byte) /\ unread \in Seq(Byte)
      /\ sent \in Seq(Items) /\ got \in Seq(Items)
      /\ g \in Nat /\ last \in Nat /\ g <= last
      /\ IsLaid(g, last, Encodings, unread, underway)
  BY <1>1 DEF WireInv, WireTypeOK, Byte
<1>3. \A n \in 1..last :
        /\ sent[n] \in Items /\ Encodings[n] = Encoding(sent[n])
        /\ Encodings[n] \in Seq(Byte) /\ Len(Encodings[n]) \in Nat /\ Len(Encodings[n]) > 0
  BY EncodingsShape DEF WireInv
<1>4. /\ g < last /\ Begins(unread, Encodings[g + 1])
      /\ Len(Encodings[g + 1]) <= Len(unread) + Len(underway)
  <2> HIDE DEF g, last
  <2> QED  BY <1>1, <1>2, <1>3, LaidNext
<1>5. g + 1 \in 1..last
  BY <1>2, <1>4
<1>6. /\ item \in Items /\ Encodings[g + 1] = e
      /\ e \in Seq(Byte) /\ Len(e) \in Nat /\ Len(e) > 0
  BY <1>3, <1>5
<1>7. /\ Len(unread) >= Len(e) => ReadsWhole(d, item, Len(e))
      /\ Len(unread) < Len(e) => d.result = IF stream = "input" THEN "truncated" ELSE "short"
  <2>1. Begins(unread, e)
    BY <1>4, <1>6
  <2> HIDE DEF item
  <2> QED  BY <1>1, <1>2, <1>6, <2>1, ItemReads
<1> HIDE DEF d, item, e, g, last
<1>8. Len(unread) \in Nat /\ Len(underway) \in Nat
  BY <1>2
<1>9. Items' = Items /\ Encodings' = Encodings
  BY <1>1 DEF Items, Encodings, Encoding
<1>10. unread' \in Seq(Byte)
  <2>1. d.taken \in Nat
    BY TakesSome DEF d
  <2>2. d.taken + 1 \in Nat /\ d.taken + 1 >= 1
    BY <2>1
  <2> QED  BY <1>1, <1>2, <2>2
<1>11. CASE Len(unread) < Len(e)
  <2>1. stream = "input" /\ d.result = "truncated"
    BY <1>1, <1>2, <1>7, <1>11
  <2>2. reader' = "truncated" /\ got' = got
    BY <1>1, <2>1
  <2>3. underway # <<>>
    BY <1>4, <1>6, <1>8, <1>11
  <2>4. WireTypeOK'
    BY <1>1, <1>9, <1>10, <2>2 DEF WireInv, WireTypeOK, Byte
  <2> QED  BY <1>1, <2>1, <2>2, <2>3, <2>4 DEF WireInv
<1>12. CASE Len(unread) >= Len(e) /\ Foreign(item)
  <2>1. d.result = "refused"
    BY <1>7, <1>12 DEF ReadsWhole
  <2>2. reader' = "refused" /\ got' = got
    BY <1>1, <2>1
  <2>3. WireTypeOK'
    BY <1>1, <1>9, <1>10, <2>2 DEF WireInv, WireTypeOK, Byte
  <2> QED  BY <1>1, <1>4, <1>12, <2>2, <2>3 DEF WireInv, item, g, last
<1>13. CASE Len(unread) >= Len(e) /\ ~Foreign(item)
  <2>1. d.result = "ok" /\ d.item = item /\ d.taken = Len(e)
    BY <1>7, <1>13 DEF ReadsWhole, Decoded
  <2>2. /\ reader' = "reading" /\ got' = Append(got, item)
        /\ unread' = SubSeq(unread, Len(e) + 1, Len(unread))
    BY <1>1, <2>1
  <2>3. /\ got' \in Seq(Items) /\ Len(got') = g + 1 /\ got'[g + 1] = item
        /\ \A i \in 1..g : got'[i] = got[i]
    BY <1>2, <1>6, <2>2 DEF g
  <2>4. WireTypeOK'
    BY <1>1, <1>9, <1>10, <2>2, <2>3 DEF WireInv, WireTypeOK, Byte
  <2>5. IsLaid(g + 1, last, Encodings, unread', underway)
    BY <1>2, <1>3, <1>4, <1>6, <1>13, <2>2, LaidRead
  <2>6. g + 1 <= last /\ \A i \in 1..g + 1 : got'[i] = sent[i]
    <3>1. \A i \in 1..g : got[i] = sent[i]
      BY DEF WireInv, g
    <3>2. \A i \in 1..g + 1 : i \in 1..g \/ i = g + 1
      BY <1>2
    <3>3. g + 1 <= last
      BY <1>2, <1>4
    <3>4. ASSUME NEW i \in 1..g + 1
          PROVE  got'[i] = sent[i]
      <4>1. CASE i \in 1..g
        BY <2>3, <3>1, <4>1
      <4>2. CASE i = g + 1
        BY <2>3, <4>2 DEF item
      <4> QED  BY <3>2, <4>1, <4>2
    <3> QED  BY <3>3, <3>4
  <2> QED  BY <1>1, <1>9, <2>2, <2>3, <2>4, <2>5, <2>6 DEF WireInv, last
<1> QED  BY <1>6, <1>8, <1>11, <1>12, <1>13

LEMMA WireStep == WireInv /\ [WireNext]_wireVars => WireInv'
<1> SUFFICES ASSUME WireInv, [WireNext]_wireVars PROVE WireInv'
  OBVIOUS
<1>1. CASE UNCHANGED wireVars
  BY <1>1 DEF wireVars, WireInv, WireTypeOK, Items, Encodings, Encoding
<1>2. ASSUME NEW item \in Items, Write(item) PROVE WireInv'
  BY <1>2, WriteKeeps
<1>3. ASSUME NEW n \in 1..Len(underway), Arrive(n) PROVE WireInv'
  BY <1>3, ArriveKeeps
<1>4. CASE Read
  BY <1>4, ReadKeeps
<1> QED  BY <1>1, <1>2, <1>3, <1>4 DEF WireNext

LEMMA SamePrefix ==
  ASSUME NEW S, NEW s \in Seq(S), NEW t \in Seq(S), Len(s) <= Len(t),
         \A i \in 1..Len(s) : s[i] = t[i]
  PROVE  IsPrefix(s, t) /\ (Len(s) = Len(t) => s = t)
<1> DEFINE n == Len(s)
           a == SubSeq(s, 1, n)
           b == SubSeq(t, 1, n)
<1>1. n \in Nat /\ n <= Len(t) /\ Len(t) \in Nat
  OBVIOUS
<1> HIDE DEF n
<1>2. /\ a \in Seq(S) /\ Len(a) = n /\ \A i \in 1..n : a[i] = s[i]
      /\ b \in Seq(S) /\ Len(b) = n /\ \A i \in 1..n : b[i] = t[i]
  BY <1>1 DEF n
<1>3. \A i \in 1..n : s[i] = t[i]
  BY DEF n
<1> HIDE DEF a, b
<1>4. a = b
  BY <1>2, <1>3, SeqEqual
<1>5. Len(s) = Len(t) => s = t
  BY SeqEqual
<1> QED  BY <1>4, <1>5 DEF IsPrefix, a, b, n

LEMMA WireInvShows == WireInv => ReadsWhatWasWritten
<1> SUFFICES ASSUME WireInv PROVE ReadsWhatWasWritten
  OBVIOUS
<1>1. /\ got \in Seq(Items) /\ sent \in Seq(Items) /\ Len(got) <= Len(sent)
      /\ \A i \in 1..Len(got) : got[i] = sent[i]
  BY DEF WireInv, WireTypeOK
<1>2. IsPrefix(got, sent) /\ (Len(got) = Len(sent) => got = sent)
  BY <1>1, SamePrefix
<1>3. ASSUME reader = "reading", underway = <<>>, unread = <<>>
      PROVE  Len(got) = Len(sent)
  <2>1. IsLaid(Len(got), Len(sent), Encodings, unread, underway)
    BY <1>3 DEF WireInv
  <2>2. /\ Len(got) \in Nat /\ Len(sent) \in Nat
        /\ \A k \in 1..Len(sent) : Encodings[k] \in Seq(Byte) /\ Len(Encodings[k]) > 0
    BY EncodingsShape DEF WireInv
  <2>3. unread \in Seq(Byte) /\ underway \in Seq(Byte)
    BY DEF WireInv, WireTypeOK, Byte
  <2> QED  BY <1>1, <1>3, <2>1, <2>2, <2>3, LaidNext
<1> QED  BY <1>2, <1>3 DEF WireInv, ReadsWhatWasWritten

\* Whatever is written to the stream and in whatever pieces it arrives, decode()
\* gives back what encode() was given (input.rs:78-173, frame.rs:48-98): for all
\* positions, codes and payload lengths that fit their fields, and any number of items.
THEOREM ReadsBack == WireSpec => []ReadsWhatWasWritten
<1>1. WireSpec => []WireInv
  BY WireStarts, WireStep, PTL DEF WireSpec
<1> QED  BY <1>1, WireInvShows, PTL

-----------------------------------------------------------------------------
(* The parts together                                                      *)

\* Each part keeps its own invariant, in focus or not: the delta codec alone
\* that of resets, in every other behaviour that of the video path.
PartsInv ==
  /\ IF focus = "delta" THEN IInv /\ VideoTypeOK ELSE VideoInv
  /\ ForwarderInv /\ WireInv /\ InjectorInv

LEMMA PartsStart == Init => PartsInv
<1> SUFFICES ASSUME Init PROVE PartsInv
  OBVIOUS
<1>1. DeltaInit /\ VideoInit /\ ForwarderInit /\ WireInit /\ InjectorInit
  BY DEF Init
<1>2. IInv /\ VideoInv
  BY <1>1, InitIInv, VideoStarts
<1>3. VideoTypeOK
  BY <1>2 DEF VideoInv
<1> QED  BY <1>1, <1>2, <1>3, ForwarderStarts, WireStarts, InjectorStarts DEF PartsInv

LEMMA PartsKeep == PartsInv /\ [Next]_vars => PartsInv'
<1> SUFFICES ASSUME PartsInv, [Next]_vars PROVE PartsInv'
  OBVIOUS
<1>1. /\ focus' = focus
      /\ [ForwarderNext]_forwarderVars /\ [WireNext]_wireVars /\ [InjectorNext]_injectorVars
  BY DEF Next, vars
<1>2. ForwarderInv' /\ WireInv' /\ InjectorInv'
  BY <1>1, ForwarderStep, WireStep, InjectorStep DEF PartsInv
<1>3. CASE focus = "delta"
  <2>1. [DeltaNext]_deltaVars /\ UNCHANGED videoVars
    BY <1>3 DEF Next, vars
  <2>2. IInv'
    BY <1>3, <2>1, NextIInv DEF PartsInv
  <2>3. VideoTypeOK'
    BY <1>3, <2>1 DEF PartsInv, VideoTypeOK, videoVars
  <2> QED  BY <1>1, <1>2, <1>3, <2>2, <2>3 DEF PartsInv
<1>4. CASE focus # "delta"
  <2>1. [VideoNext]_<<deltaVars, videoVars>>
    BY <1>4 DEF Next, vars
  <2>2. VideoInv'
    BY <1>4, <2>1, VideoStep DEF PartsInv
  <2> QED  BY <1>1, <1>2, <1>4, <2>2 DEF PartsInv
<1> QED  BY <1>3, <1>4

\* Every part's state keeps its type in every behaviour that is checked, for
\* frames of any lengths, any displays, senders, batches and items (delta.rs:14-16,
\* renderer.rs:72-76, surface.rs:21-25, forwarder.rs:11-14, sendinput.rs:147-164).
THEOREM FlowTypeCorrect == Spec => []TypeOK
<1>1. PartsInv => TypeOK
  BY DEF PartsInv, TypeOK, IInv, CodecInv, VideoInv, ForwarderInv, WireInv, InjectorInv
<1> QED  BY <1>1, PartsStart, PartsKeep, PTL DEF Spec
=============================================================================
