-------------------------- MODULE BitrateController --------------------------
(***************************************************************************)
(* crates/quicview-codec/src/bitrate.rs: the quality that is recommended   *)
(* from the sizes of the frames sent within a sliding window.  Timestamps  *)
(* come from a steady clock; rates are small enough for u64, which the     *)
(* code does not check.                                                    *)
(***************************************************************************)
EXTENDS Integers, Sequences, SequencesExt

CONSTANTS
  Targets,           \* values of target_bps
  WindowMs,          \* window_ms: 2000 in the code
  FrameSizes,        \* sizes of frames in bytes
  Steps,             \* time between two frames in milliseconds
  MaxFrames,         \* bound: frames recorded
  MaxRetargets       \* bound: calls of set_target_bps

ASSUME BitrateAssumption ==
  /\ Targets \subseteq Nat
  /\ WindowMs \in Nat
  /\ FrameSizes \subseteq Nat
  /\ Steps \subseteq Nat
  /\ MaxFrames \in Nat /\ MaxRetargets \in Nat

VARIABLES
  target_bps,        \* the target
  quality,           \* the recommended quality
  window,            \* the frames in the window
  over,              \* over_budget_count
  under,             \* under_budget_count
  log,               \* history: every frame, with the target of its time
  moved,             \* history: the frames recorded when the quality last moved
  retargets          \* history: calls of set_target_bps

bitrateVars == <<target_bps, quality, window, over, under, log, moved, retargets>>

FramesOf(S) == [ts : Nat, size : FrameSizes, target : S]

BitrateTypeOK ==
  /\ target_bps \in Targets
  /\ quality \in {5 * n : n \in 2..20}
  /\ window \in Seq(FramesOf(Targets))
  /\ over \in 0..2 /\ under \in 0..4
  /\ log \in Seq(FramesOf(Targets))
  /\ moved \in 0..Len(log)
  /\ retargets \in 0..MaxRetargets

BitrateInit ==
  /\ target_bps \in Targets
  /\ quality = 80
  /\ window = <<>>
  /\ over = 0 /\ under = 0
  /\ log = <<>>
  /\ moved = 0
  /\ retargets = 0

-----------------------------------------------------------------------------
\* Bits per second between the first and the last frame of a window.
Measured(w) ==
  IF Len(w) < 2 THEN 0
  ELSE LET duration == Max({Last(w).ts - Head(w).ts, 1})
           total == FoldLeft(LAMBDA sum, f : sum + f.size, 0, w)
       IN  (total * 8 * 1000) \div duration

\* Frames leave the window at its front, up to the first that is recent.
Evict(w, cutoff) == SubSeq(w, Min({i \in DOMAIN w : w[i].ts >= cutoff}), Len(w))

\* Mutant: a frame within the budget leaves the count of those over it.
AdjustQualityOverall(measured) ==
  IF measured > target_bps
  THEN /\ quality' = IF over + 1 >= 3 THEN Max({quality - 5, 10}) ELSE quality
       /\ over' = IF over + 1 >= 3 THEN 0 ELSE over + 1
       /\ under' = 0
  ELSE /\ quality' = IF under + 1 >= 5 THEN Min({quality + 5, 100}) ELSE quality
       /\ under' = IF under + 1 >= 5 THEN 0 ELSE under + 1
       /\ UNCHANGED over

TooMuch(measured) ==
  /\ measured > target_bps
  /\ under' = 0
  /\ IF over + 1 >= 3
     THEN over' = 0 /\ quality' = Max({quality - 5, 10})
     ELSE over' = over + 1 /\ UNCHANGED quality

TooLittle(measured) ==
  /\ measured <= target_bps
  /\ measured < (target_bps * 3) \div 4
  /\ over' = 0
  /\ IF under + 1 >= 5
     THEN under' = 0 /\ quality' = Min({quality + 5, 100})
     ELSE under' = under + 1 /\ UNCHANGED quality

OnTarget(measured) ==
  /\ measured <= target_bps
  /\ measured >= (target_bps * 3) \div 4
  /\ over' = 0 /\ under' = 0
  /\ UNCHANGED quality

AdjustQuality(measured) == TooMuch(measured) \/ TooLittle(measured) \/ OnTarget(measured)

RecordFrame(now, size) ==
  /\ Len(log) < MaxFrames
  /\ LET frame == [ts |-> now, size |-> size, target |-> target_bps] IN
       /\ window' = Evict(Append(window, frame), now - WindowMs)
       /\ log' = Append(log, frame)
  /\ AdjustQuality(Measured(window'))
  /\ moved' = IF quality' # quality THEN Len(log') ELSE moved
  /\ UNCHANGED <<target_bps, retargets>>

SetTarget(target) ==
  /\ retargets < MaxRetargets
  /\ target # target_bps
  /\ target_bps' = target
  /\ retargets' = retargets + 1
  /\ UNCHANGED <<quality, window, over, under, log, moved>>

Now == IF log = <<>> THEN 0 ELSE Last(log).ts

BitrateNext ==
  \/ \E step \in Steps, size \in FrameSizes : RecordFrame(Now + step, size)
  \/ \E target \in Targets : SetTarget(target)

BitrateSpec == BitrateInit /\ [][BitrateNext]_bitrateVars

-----------------------------------------------------------------------------
(* Properties                                                              *)

\* The rate after frame i of a log: of all frames sent within window_ms, which are
\* the last ones since the clock is steady.
Recent(l, i, j) == l[j].ts >= l[i].ts - WindowMs
FirstRecent(l, i) ==
  CHOOSE k \in 1..i : \A j \in 1..i : Recent(l, i, j) <=> j >= k
Rate(l, i) == Measured(SubSeq(l, FirstRecent(l, i), i))

LastOnes(l, n) == Len(l) - n + 1..Len(l)

\* The quality is cut only on three frames in a row that were over budget, and
\* raised only on five in a row below three quarters of it, by the rate of the
\* frames really sent, all of them since it last moved (bitrate.rs:36-57, 80-100).
QualityOnEvidence ==
  [][/\ quality' < quality =>
          /\ Len(log') - moved >= 3
          /\ \A i \in LastOnes(log', 3) : Rate(log', i) > log'[i].target
     /\ quality' > quality =>
          /\ Len(log') - moved >= 5
          /\ \A i \in LastOnes(log', 5) :
               Rate(log', i) < (log'[i].target * 3) \div 4]_bitrateVars
=============================================================================
