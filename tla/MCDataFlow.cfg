\* Frames of one, two and three bits with two in flight: deltas, keyframes, every
\* change of resolution; three displays, of which one is too large for a header.
\* Two tasks that send twice each over a channel of two, half of what they
\* send; batches of up to two events, each input of which may fail; two items on
\* a stream, with payloads at and above the limit.
SPECIFICATION Spec
CONSTANTS
  Lengths = {1, 2, 3}
  NoFrame = NoFrame
  ResetEnds = {"encoder", "decoder"}
  MaxInFlight = 2
  small = small
  large = large
  huge = huge
  Sources = {small, large, huge}
  SizeOf <- MCSizeOf
  Viewed = small
  LargestPayload = 2
  MaxGrabs = 2
  Senders = {s1, s2}
  Capacity = 2
  MaxSends = 2
  MaxBatch = 2
  MaxInjected = 2
  Coordinates <- MCCoordinates
  Codes = {4, 300}
  Payloads = {67108864, 67108865}
  MaxItems = 2
INVARIANTS
  TypeOK
  FaithfulUntilDisrupted
  ShowsCaptured
  AcceptedReachReceiver
  InjectsPrefix
  ReadsWhatWasWritten
PROPERTIES
  ResolutionChangeRecovers
  ErrorIsConstant
  ImplementsView
  SendsEnd
CHECK_DEADLOCK FALSE
