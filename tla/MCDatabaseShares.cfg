SPECIFICATION Spec
CONSTANTS
  Thread = {t1}
  MaxJobs = 3
  NumOfShare = 2
  Threshold = 1
  UniqueLid = FALSE
  Settings <- ShareUse
\* jobs run out, and the process may end
CHECK_DEADLOCK FALSE
INVARIANTS ShareGivenOnce
