SPECIFICATION Spec
CONSTANTS
  NbProcs = 1
  NbSrcs = 1
  NbWords = 2
  LineWords = 2
  NbLines = 1
  Lanes = {0,1}
  Val = {0, 1}
  Cached = {0, 1}
  PageStarts = {0}
  Workloads = {{"DATA_READ", "DATA_WRITE", "BYTES"}}
  Used = {0, 1}
  Fetched = {}
  PartialAt = {1}
  MaxNacks = 0
  NoCell = NoCell
  NoBlock = NoBlock
  NoReq = NoReq
INVARIANTS LastCellByteEnable
