\* The encoder is reset alone, with a decoder in use.
SPECIFICATION DeltaSpec
CONSTANTS
  Lengths = {1, 2}
  NoFrame = NoFrame
  ResetEnds = {"encoder"}
  MaxInFlight = 1
INVARIANTS
  DecoderReconstructs
