CONSTANTS
  MaxSize = 3
  Configs <- MCConfigs
  Lengths <- MCLengths
  MaxEntries = 5
SPECIFICATION Spec
CHECK_DEADLOCK FALSE
INVARIANTS
  TypeOK
  FilesAreInOrder
  OnlyOldestAreLost
  FilesWithinLimit
