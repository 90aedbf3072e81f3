SPECIFICATION FairSpec
CONSTANTS
  Thread = {t1, t2}
  MaxJobs = 3
  NumOfShare = 2
  Threshold = 1
  UniqueLid = FALSE
  Settings <- Uses
\* jobs run out, and the process may end
CHECK_DEADLOCK FALSE
INVARIANTS OneReader ReadyWhenIdle
PROPERTIES ImplementsRegistration JobsFinish
