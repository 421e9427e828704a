SPECIFICATION MccSpec
CONSTANTS
  NbProcs = 2
  NbSrcs = 2
  NbWords = 4
  LineWords = 2
  NbLines = 1
  Lanes = {0}
  Val = {0, 1, 2}
  Cached = {0, 1, 2, 3}
  PageStarts = {0}
  PageWords = 4
  TlbSize = 1
  Migrable = {}
  Workloads = {{"DATA_READ", "DATA_WRITE"}}
  Used = {1, 2}
  Linked = {}
  Fetchers = {}
  Fetched = {}
  MaxStores = 2
  NoCell = NoCell
  NoBlock = NoBlock
  NoPage = NoPage
  NoReq = NoReq
INVARIANTS MccStaleCopiesAreDoomed
