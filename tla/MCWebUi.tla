------------------------------ MODULE MCWebUi ------------------------------
(* Instances of WebUi for TLC. *)
EXTENDS WebUi, TLC

\* as built and committed, but for the calls of send_image_hash_to_UI
Built(hashes, yuv, paths) == [hashes |-> hashes, yuv |-> yuv, paths |-> paths]
Ui(reads, patient, types) == [reads |-> reads, patient |-> patient, types |-> types]
Patient == Ui(TRUE, TRUE, TRUE)

\* with main as it is: a UI that reads and one that never does; with the call
\* of send_image_hash_to_UI, all paths good: one that waits, one that sends
\* messages of other types; and one that waits with bad paths, or without
\* YUV_switch
Uis == {Built(FALSE, FALSE, FALSE) @@ Ui(TRUE, FALSE, TRUE),
        Built(FALSE, FALSE, FALSE) @@ Ui(FALSE, FALSE, TRUE),
        Built(TRUE, TRUE, TRUE) @@ Patient,
        Built(TRUE, TRUE, TRUE) @@ Ui(TRUE, TRUE, FALSE),
        Built(TRUE, TRUE, FALSE) @@ Patient,
        Built(TRUE, FALSE, TRUE) @@ Patient}

=============================================================================
