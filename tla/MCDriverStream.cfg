SPECIFICATION Spec
CONSTANTS
  Requests = {6}
  Counts = {2}
  BlockAlign = 1
  Rate = 3
  MsPerSecond = 2
  HnsPerMs = 2
  Offsets = {2, 6}
  MaxLate = 1
  MaxLag = 5
  MaxLinear = 7
  NoCall = NoCall
INVARIANTS TypeOK CompletedIsConsumed NothingPastEos QuietWhenPaused FetchedOnce
PROPERTIES AcceptedIsFree NoDrift LastBufferSignalled
