SPECIFICATION FairSpec
CONSTANTS
  NbProcs = 1
  NbSrcs = 1
  NbWords = 2
  LineWords = 1
  NbLines = 1
  Lanes = {0}
  Val = {0, 1}
  Cached = {0}
  PageStarts = {0, 1}
  PageWords = 1
  TlbSize = 2
  Migrable = {0, 1}
  Workloads = {{"DATA_READ", "AGAIN"}, {"DATA_WRITE"}, {"FETCH", "NACK", "INVAL"}}
  Stored = {0}
  Fetched = {0}
  MaxNacks = 1
  MaxMoves = 2
  NoCell = NoCell
  NoBlock = NoBlock
  NoPage = NoPage
  NoReq = NoReq
INVARIANTS MccTypeOK RightFrame StaleTranslationsAreDoomed MccAssertionsHold
PROPERTIES MccPortIsAtomicMemory RequestsCompleted ExchangesEnd
