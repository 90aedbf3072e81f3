SPECIFICATION Spec
CONSTANTS
  Scene = {p}
  Instant <- OneInstant
  FrameCount = 1
  MaxRounds = 1
  Settings <- WithKey
\* rounds run out, and the process may end
CHECK_DEADLOCK FALSE
INVARIANTS SignedHashVerifies
