SPECIFICATION FairSpec
CONSTANTS
  MaxThreads = 2
  MaxSends = 2
  MaxTexts = 1
  MaxRounds = 1
INVARIANTS TypeOK OwnThread
PROPERTIES QuestionsKept InUseReleased
CHECK_DEADLOCK FALSE
