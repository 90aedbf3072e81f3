----------------------------- MODULE Registration -----------------------------
(***************************************************************************)
(* What insert_pk_database promises the server, as long as calls come one  *)
(* after the other and the database refuses nothing: a key becomes that of *)
(* the logger and is known in one step, in place of the one before, and    *)
(* its logger is told so before another key is taken.                      *)
(***************************************************************************)
CONSTANT Key

VARIABLES
  inForce,  \* whether anything is promised
  current,  \* the rows of Loggers: the key of the logger, if there is one
  known,    \* keys that signatures may be checked with
  untold,   \* the key that was taken and whose logger does not know it yet
  told      \* keys whose loggers were told

Init ==
  /\ inForce \in BOOLEAN
  /\ known \subseteq Key
  /\ current = <<>> \/ \E k \in known : current = <<k>>
  /\ untold = {} /\ told = {}

Register(k) ==
  /\ untold = {}
  /\ current' = <<k>> /\ known' = known \cup {k} /\ untold' = {k}
  /\ UNCHANGED told

Tell(k) ==
  /\ k \in untold
  /\ untold' = {} /\ told' = told \cup {k}
  /\ UNCHANGED <<current, known>>

Next ==
  /\ UNCHANGED inForce
  /\ inForce => \E k \in Key : Register(k) \/ Tell(k)

Spec == Init /\ [][Next]_<<inForce, current, known, untold, told>>

=============================================================================
