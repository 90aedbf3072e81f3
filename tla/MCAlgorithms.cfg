SPECIFICATION Spec
CONSTANTS
  BlockSize = 12
  ByteBase = 4
  DataLength = 280
  Pieces <- Lengths
  MaxLeaves = 9
  BlockBytes = 8
  Files <- Contents
  MaxRuns = 4
  MaxDepth = 2
  Behind <- Garbage
  MsgBytes <- FourBytes
  MsgLength = 5
  LineLen = 4
  Texts <- SomeTexts
  NotUtf8 <- BadTexts
  Ints <- SomeInts
  MaxHops = 2
INVARIANTS DigestIsStandard LeavesKept RoundTrip MessagesKept CodersInvert
\* each helper comes to the end of its input
CHECK_DEADLOCK FALSE
