SPECIFICATION Spec
CONSTANTS
  Conn = {c1, c2}
  NoConn = NoConn
  Fd <- Sockets
  Settings <- OnlyTogether
  MaxBites = 1
  RetryCnt = 0
\* clients leave, and the process may end
CHECK_DEADLOCK FALSE
INVARIANTS RepliesReachRequester
