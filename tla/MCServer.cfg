SPECIFICATION FairSpec
CONSTANTS
  Conn = {c1, c2}
  NoConn = NoConn
  Fd <- Sockets
  Settings <- Clients
  MaxBites = 1
  RetryCnt = 1
\* clients leave, and the process may end
CHECK_DEADLOCK FALSE
INVARIANTS HeadersMatch PayloadIsOwn RepliesWhenSerial AnsweredAfterDb ThreadOwnsSocket RepliesToDispatched
PROPERTIES HandlersReturn ConnectionsEnd
