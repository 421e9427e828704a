SPECIFICATION Spec
CONSTANTS
  NbProcs = 2
  NbSrcs = 2
  NbWords = 2
  LineWords = 2
  NbLines = 1
  Lanes = {0}
  Val = {0, 1, 2}
  Cached = {0, 1}
  PageStarts = {0}
  Workloads = {{"DATA_READ", "DATA_WRITE"}}
  Used = {0, 1}
  Linked = {}
  Fetchers = {}
  Fetched = {}
  MaxStores = 2
  NoCell = NoCell
  NoBlock = NoBlock
  NoReq = NoReq
INVARIANTS DirectoryCovers StaleCopiesAreDoomed CacheAssertionsHold
PROPERTIES ReadsFollowMemoryOrder
