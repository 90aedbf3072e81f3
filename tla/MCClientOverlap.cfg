SPECIFICATION Spec
CONSTANTS
  l1 = l1
  l2 = l2
  Logger = {l1, l2}
  Nobody = Nobody
  MaxFrames = 0
  Settings <- TwoLoggers
INVARIANTS ServerSurvives
CHECK_DEADLOCK FALSE
