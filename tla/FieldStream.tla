----------------------------- MODULE FieldStream -----------------------------
(***************************************************************************)
(* What send_binary and recv_binary promise their callers: fields are      *)
(* handed over whole and in order, and are read whole and in order, never  *)
(* before they were handed over; an empty field takes no reading.  The     *)
(* promise ends with the first call that fails; after it the sides may     *)
(* stand anywhere.                                                         *)
(***************************************************************************)
EXTENDS Integers

CONSTANTS N, Empty
VARIABLES put, got, failed

Init == put = 0 /\ got = 0 /\ failed = FALSE

Put ==
  /\ ~failed
  /\ put < N
  /\ put' = put + 1
  /\ UNCHANGED <<got, failed>>

Get ==
  /\ ~failed
  /\ got < put \/ got + 1 \in Empty
  /\ got < N
  /\ got' = got + 1
  /\ UNCHANGED <<put, failed>>

\* a call fails; from then on only the order of each side's calls is left
Fail ==
  /\ failed' = TRUE
  /\ put' \in put..N
  /\ got' \in got..N

Next == Put \/ Get \/ Fail

Spec == Init /\ [][Next]_<<put, got, failed>>

=============================================================================
