\* One address gets a client twice.
SPECIFICATION Spec
CONSTANTS
  a1 = a1
  a2 = a2
  Addrs = {a1, a2}
  Cells <- MCCells
  Resolutions <- MCResolutions
  FirstId = 100
  MaxDisplays = 3
  PowerDisplays = {d1, d2}
  Timeout = 1
  Times = {0, 1, 2, 4}
  MaxEntries = 3
  Displays = {d1, d2}
  Reasons = {r1, r2}
  SocketAddrs = {a1, a2}
  Here = here
  There = there
  NoRecord = NoRecord
  ScreenSizes = {hd, uhd}
  NoScreen = noScreen
  DisplayIds = {primary, secondary}
  Primary = primary
  MaxGrabs = 2
  Targets = {8000, 16000}
  WindowMs = 2
  FrameSizes = {0, 4}
  Steps = {0, 1, 3}
  MaxFrames = 6
  MaxRetargets = 1
  Pinning = {p1, p2}
  Trusting = {t1}
  Nobody = nobody
  MaxStarts = 2
  Tasks = {}
  Sizes = {5}
  Modulus = 8
  MaxRecords = 1
INVARIANTS
  RemovedLeavesNothing
CHECK_DEADLOCK FALSE
