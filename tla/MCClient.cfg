SPECIFICATION FairSpec
CONSTANTS
  l1 = l1
  l2 = l2
  Logger = {l1}
  Nobody = Nobody
  MaxFrames = 2
  Settings <- OneLogger
INVARIANTS OwnShares SurvivesAlone AnswersAligned
PROPERTIES EvaluationEnds
CHECK_DEADLOCK FALSE
