SPECIFICATION Spec
CONSTANTS
  NbProcs = 2
  NbSrcs = 2
  NbWords = 1
  LineWords = 1
  Lanes = {0}
  Val = {0}
  NoCell = NoCell
  NoBlock = NoBlock
  Workloads = {{"LINE", "WRITE"}}
  Stored = {0}
  Starts = {0}
  MaxBurst = 1
  MaxCount = 0
INVARIANTS WriteAckAfterInvalidations
