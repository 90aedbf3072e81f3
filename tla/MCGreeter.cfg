SPECIFICATION FairSpec
CONSTANTS
  Client = {c1, c2}
  apple = apple
  banana = banana
  Key = {apple, banana}
  NoKey = NoKey
  NotAKey = NotAKey
  Threshhold = 2
  MaxTry = 3
  Settings <- Modes
INVARIANTS CollectsCurrent VerifiedWhenComplete EndedByIncomplete FileIsOwn
PROPERTIES ClientsEnd
CHECK_DEADLOCK FALSE
