----------------------------- MODULE MCTransport -----------------------------
(* A message of a header and a field, and one of a header, an empty field  *)
(* and a field, over buffers smaller than a message.                       *)
EXTENDS Transport

TwoMessages == <<0, 2, 5, 7, 7, 8>>
HeadersAt == {1, 3}

\* a client sends to the server's thread, the server to initClient's thread,
\* and the server to test_share_req over a port whose timeout nobody set
Ends(n, t, v) == [noSignal |-> n, timed |-> t, service |-> v]
EndsOfTheCode ==
  {Ends(FALSE, TRUE, TRUE), Ends(TRUE, TRUE, TRUE),
   Ends(TRUE, TRUE, FALSE), Ends(TRUE, FALSE, FALSE)}

=============================================================================
