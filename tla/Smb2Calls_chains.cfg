SPECIFICATION Spec
CONSTANTS
  Plans <- MCPlans
  MaxRead = 262144
  MaxWrite = 65536
  MaxCredits = 2
  Multi = TRUE
  FileSize = 100000
  Replies = 2
  Mishaps <- MCMishaps
CHECK_DEADLOCK FALSE
INVARIANTS ToldTheTruth NothingLeftOpen MemoryIsKept AsAsked
PROPERTIES SyncEnds
