SPECIFICATION FairSpec
CONSTANTS
  Scene = {p, q}
  Instant <- Instants
  FrameCount = 2
  MaxRounds = 2
  Settings <- AllSettings
\* rounds run out, and the process may end
CHECK_DEADLOCK FALSE
INVARIANTS NoRace FramesKept FramesOfThisRound UnlockedAtJoin Paired
PROPERTIES RoundsEnd
