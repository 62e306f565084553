SPECIFICATION Behaviours
CONSTANTS
  lean = lean
  fat = fat
  Body = {lean, fat}
  Slim <- Stripping
  ChunkSizes = {2}
  MaxEntries = 4
  MaxTick = 1
INVARIANTS
  AlwaysReadable
  RefsLeadHome
PROPERTIES
  RefinesCommitLog
  ImportNeverUndoes
  LoadsAreVouchedFor
CHECK_DEADLOCK FALSE
