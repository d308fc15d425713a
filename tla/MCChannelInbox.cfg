SPECIFICATION FairSpec
CONSTANTS
  MaxUpdates = 2
  MaxOther = 1
  Batch = 2
  Failures = TRUE
INVARIANTS
  TypeOK
  CursorIsIngested
  NothingOvertaken
  ToldTruly
  NoticesInOrder
PROPERTIES
  EveryClaimIsAnswered
