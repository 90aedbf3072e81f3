------------------------------ MODULE MCDatabase ------------------------------
(* Small instances of Database.                                             *)
EXTENDS Database

\* three calls of any kind, one after the other
OneByOne == [serial |-> TRUE, faults |-> FALSE, ops |-> Op, jobs |-> 3]
\* two calls at once of a database that may refuse anything
AtOnce ==
  [serial |-> FALSE, faults |-> TRUE, ops |-> Op \ {"gen_shares"}, jobs |-> 2]
\* nothing but shares
Shares == [serial |-> TRUE, faults |-> FALSE, ops |-> {"gen_shares", "share"}, jobs |-> 3]

Uses == {OneByOne, AtOnce}
ShareUse == {Shares}

=============================================================================
