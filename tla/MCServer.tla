------------------------------- MODULE MCServer -------------------------------
(* Small instances of Server.                                               *)
EXTENDS Server

Sockets == {3, 4}

First(c) == c = CHOOSE d \in Conn : TRUE
Sends(s, t) == [c \in Conn |-> IF First(c) THEN s ELSE t]

\* one after the other: the payload the first leaves unread is taken for
\* headers, one of them of a handler that reads on, before it sends its key
Unread ==
  [serial |-> TRUE, lossy |-> FALSE, short |-> FALSE, misread |-> {"unknown", "SHARE_RES"},
   script |-> Sends(<<{"GEN_AES"}, {"PUBKEY_REQ"}>>, <<{"ANO_SHARE_REQ"}>>)]

\* any unit of the first one's video or of the key behind it may be lost, in
\* whole or in part
Lossy ==
  [serial |-> TRUE, lossy |-> TRUE, short |-> FALSE, misread |-> {"unknown"},
   script |-> Sends(<<{"VIDEO_DATA_SND"}, {"PUBKEY_REQ"}>>, <<>>)]

\* headers may come in pieces
Short ==
  [serial |-> TRUE, lossy |-> FALSE, short |-> TRUE, misread |-> {"unknown"},
   script |-> Sends(<<{"VIDEO_DATA_SND"}, {"TEST_SHARE_REQ"}>>, <<>>)]

\* both at once
Together ==
  [serial |-> FALSE, lossy |-> FALSE, short |-> FALSE, misread |-> {"unknown"},
   script |-> Sends(<<{"SHARE_REQ"}>>, <<{"HI_I_M"}>>)]

Clients == {Unread, Lossy, Short, Together}
OnlyTogether == {Together}

=============================================================================
