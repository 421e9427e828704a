SPECIFICATION Spec
CONSTANTS
  NbProcs = 1
  NbSrcs = 1
  NbWords = 2
  LineWords = 2
  NbLines = 1
  Lanes = {0, 1}
  Val = {0, 1}
  Cached = {0, 1}
  PageStarts = {0}
  Workloads = {{"DATA_READ", "DATA_WRITE", "BYTES", "NACK"}, {"DATA_READ", "DATA_WRITE", "INVAL"}, {"DATA_WRITE", "DATA_LL", "INVAL"}, {"DATA_READ", "DATA_WRITE", "XTN_SYNC", "XTN_DCACHE_INVAL"}, {"DATA_WRITE", "FETCH"}}
  Used = {0, 1}
  Fetched = {0}
  PartialAt = {0}
  MaxNacks = 1
  NoCell = NoCell
  NoBlock = NoBlock
  NoReq = NoReq
INVARIANTS BufferMatchesPacket
PROPERTIES PortIsAtomicMemory
