SPECIFICATION FairSpec
CONSTANTS
  NbProcs = 1
  NbSrcs = 2
  NbWords = 4
  LineWords = 2
  Lanes = {0}
  Val = {0, 1, 2}
  NoCell = NoCell
  NoBlock = NoBlock
  Workloads = {{"LINE", "LL", "SC"}, {"LINE", "WORD", "WRITE"}}
  Stored = {0}
  Starts = {1, 2}
  MaxBurst = 2
  MaxCount = 2
INVARIANTS RamTypeOK AssertionsHold ResponsesExpected Inductive HoldersKnown IncrementsCounted
PROPERTIES RequestsAnswered
