SPECIFICATION StartupSpec
CONSTANTS
  Streams = {s1, s2}
  Clients = {c1}
  Bytes = {0, 1}
  Zero = 0
  Chunks <- MCChunks
  Requests = {2}
  Capacity = 2
  Free = Free
INVARIANTS SoundUnlessReinitialised RinglessOnlyAfterFailure
PROPERTIES RingBuiltOnce FifoUnlessReinitialised
