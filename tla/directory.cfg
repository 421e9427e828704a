SPECIFICATION DirSpec
CONSTANTS
  Sizes = {1, 30, 31, 32, 62, 63, 64}
  Ids = {0, 29, 30, 31, 62, 63}
INVARIANTS
  DirectoryInv
  TargetsExist
PROPERTIES
  ActsAsSet
  RoundsEnd
