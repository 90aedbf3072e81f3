SPECIFICATION TransportSpec
CONSTANTS
  N = 5
  Offset <- TwoMessages
  Hdr <- HeadersAt
  AsyncBufsize = 2
  RecvMax = 3
  Window = 4
  SelectTries = 2
  Modes <- EndsOfTheCode
\* the sender, the receiver and the connection end
CHECK_DEADLOCK FALSE
INVARIANTS StreamAligned AllReadMeansAllSent
PROPERTIES BothEnd ImplementsFieldStream
