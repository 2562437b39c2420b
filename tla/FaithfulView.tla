----------------------------- MODULE FaithfulView -----------------------------
(***************************************************************************)
(* What the video pipeline promises to the viewer of one display, without  *)
(* headers, codecs, other displays or frames in flight (the test of        *)
(* crates/quicview/tests/integration.rs): the frames of the display are    *)
(* shown one after the other, each as it was captured.  Over a stream that *)
(* may refuse frames the codecs can come apart, and pictures are wrong     *)
(* from then on, but none is left out.  VideoPath implements it.           *)
(***************************************************************************)
EXTENDS Naturals

CONSTANTS
  Picture(_),      \* the display's frames by their number
  Blank            \* what is shown before the first

VARIABLES
  captured,        \* how many frames of the display were captured
  viewed,          \* the number of the one that is shown
  image,           \* what is shown
  reliable,        \* no frame on the stream can be refused, or none is a delta
  apart            \* the codecs have come apart

vars == <<captured, viewed, image, reliable, apart>>

Init ==
  /\ captured = 0 /\ viewed = 0
  /\ image = Blank
  /\ reliable \in BOOLEAN
  /\ apart = FALSE

Capture ==
  /\ captured' = captured + 1
  /\ UNCHANGED <<viewed, image, reliable, apart>>

\* The next frame, whatever came in between for other displays.
View ==
  /\ viewed < captured
  /\ viewed' = viewed + 1
  /\ apart \/ image' = Picture(viewed + 1)
  /\ UNCHANGED <<captured, reliable, apart>>

ComeApart ==
  /\ ~reliable
  /\ apart' = TRUE
  /\ UNCHANGED <<captured, viewed, image, reliable>>

Next == Capture \/ View \/ ComeApart

Spec == Init /\ [][Next]_vars
=============================================================================
