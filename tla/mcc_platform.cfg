SPECIFICATION MccSpec
CONSTANTS
  NbProcs = 2
  NbSrcs = 2
  NbWords = 2
  LineWords = 2
  NbLines = 1
  Lanes = {0}
  Val = {0, 1, 2}
  Cached = {0, 1}
  PageStarts = {0}
  PageWords = 2
  TlbSize = 1
  Migrable = {0}
  Workloads = {{"DATA_READ", "DATA_WRITE"}, {"DATA_LL", "DATA_SC"}}
  Used = {0, 1}
  Linked = {0}
  Fetchers = {}
  Fetched = {}
  MaxStores = 2
  NoCell = NoCell
  NoBlock = NoBlock
  NoPage = NoPage
  NoReq = NoReq
INVARIANTS MccStaleCopiesAreDoomed TranslationsRecorded
PROPERTIES MccReadsFollowMemoryOrder
