------------------------------ MODULE MCClient ------------------------------
(* Instances of Client for TLC. *)
EXTENDS Client

CONSTANTS l1, l2

Evaluate(faults, dirty, thread, most, who) ==
  [mode |-> "evaluate", thread |-> thread, faults |-> faults, dirty |-> dirty,
   shares |-> most, loggers |-> who]

\* performance_evaluation, with and without a reading thread beside it, and
\* frames sent beside that thread
OneLogger ==
  {Evaluate(TRUE, FALSE, FALSE, 5, {l1}), Evaluate(FALSE, FALSE, FALSE, 6, {l1}),
   Evaluate(FALSE, TRUE, FALSE, 3, {l1}), Evaluate(FALSE, FALSE, TRUE, 3, {l1}),
   [mode |-> "frames", thread |-> TRUE, faults |-> FALSE, dirty |-> FALSE,
    shares |-> 3, loggers |-> {l1}]}

\* two loggers evaluate the server at once
TwoLoggers == {Evaluate(FALSE, FALSE, FALSE, 3, {l1, l2})}

=============================================================================
