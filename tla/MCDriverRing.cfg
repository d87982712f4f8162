SPECIFICATION Spec
CONSTANTS
  Streams = {s1, s2}
  Clients = {c1}
  Bytes <- MCBytes
  Zero = 0
  Chunks <- MCChunks
  Requests <- MCRequests
  Capacity = 3
  Free = Free
INVARIANTS TypeOK OffsetsAgree
PROPERTIES ImplementsFifo LockReleased
