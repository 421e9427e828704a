SPECIFICATION FairSpec
CONSTANTS
  NbProcs = 2
  NbSrcs = 2
  NbWords = 1
  LineWords = 1
  NbLines = 1
  Lanes = {0}
  Val = {0, 1}
  Cached = {0}
  PageStarts = {0}
  Workloads = {{"DATA_READ", "DATA_WRITE", "FETCH"}, {"DATA_LL", "DATA_SC"}, {"DATA_READ", "DATA_SC"}, {"DATA_WRITE", "XTN_SYNC", "XTN_DCACHE_INVAL"}}
  Used = {0}
  Linked = {0}
  Fetchers = {0}
  Fetched = {0}
  MaxStores = 1
  NoCell = NoCell
  NoBlock = NoBlock
  NoReq = NoReq
INVARIANTS CacheTypeOK
PROPERTIES ReadsFollowMemoryOrder ProcessorsAnswered
