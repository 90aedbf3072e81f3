------------------------------- MODULE MCLogger -------------------------------
(* Small instances of Logger.                                               *)
EXTENDS Logger

\* two CIDs; 5 and 50 milliseconds would have the same
Instants == {5, 70}
OneInstant == {7}

\* as committed; both branches of YUV_switch; with a key
Committed == [yuv |-> FALSE, key |-> FALSE]
WithKey == {[yuv |-> FALSE, key |-> TRUE]}
AllSettings == {Committed, [yuv |-> TRUE, key |-> TRUE]} \cup WithKey

=============================================================================
