SPECIFICATION FairSpec
CONSTANTS
  Room = 1
  MaxRounds = 2
  MaxAsked = 2
  Fps = {15, 30}
  Settings <- Uis
INVARIANTS SetAsAsked AnsweredOnce FilesOfOneRound
PROPERTIES RoundsGoOn
CHECK_DEADLOCK FALSE
