----------------------------- MODULE MCGreeter -----------------------------
(* Instances of Greeter for TLC. *)
EXTENDS Greeter

CONSTANTS apple, banana

Mode(meet, keys, shared, faults) ==
  [meet |-> meet, keys |-> keys, shared |-> shared, faults |-> faults]

\* one after the other in one directory, with calls lost or not; the second
\* from the greetings of the first on, with one key, and from its VerifyKey
\* on in the same directory, with two
Modes == {Mode({}, Key, TRUE, FALSE), Mode({}, {apple}, FALSE, TRUE),
          Mode({"hello2"}, {apple}, FALSE, FALSE),
          Mode({"write", "verify"}, {apple}, TRUE, FALSE),
          Mode({"verify"}, Key, FALSE, FALSE)}

=============================================================================
