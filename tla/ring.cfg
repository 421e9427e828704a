SPECIFICATION FairSpec
CONSTANTS
  NbMem = 3
  NbProcs = 1
  NbProc = 1
  NbFrames = 1
  PageWords = 2
  LineWords = 2
  RingFifoSize = 3
  UpdtFifoSize = 4
  MaxCost = 9
  SatThreshold = 4
  NearCost = 1
  FarCost = 2
  TimeToWait = 1
  NoPage = NoPage
  MaxRaised = 2
  Exceeders = {0, 1}
  Pressures = {0, 4}
  Counters = {1}
  CountersUsed = "at rest"
INVARIANTS RingTypeOK OneToken RequestNotLost Paired TranslationsSafe CleanAtRest RingAssertionsHold
PROPERTIES MigrationsEnd MovesPoisoned ImplementsExchange
