SPECIFICATION Spec
CONSTANTS
  Frames = 2
  FrameSize = 2
  Items = 4
  Workers = 2
  WriteSizes = {1, 2}
  MaxBytes = 9
  MaxFile = 4
CHECK_DEADLOCK FALSE
INVARIANTS TypeOK OffsetInFrame InUseIsPending SavedOnce StoppedIsQuiet
PROPERTIES FramesReturn
