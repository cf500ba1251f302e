------------------------------ MODULE MCAnchor ------------------------------
(***************************************************************************)
(* An anchor with two beep patterns, and with or without a cap.            *)
(***************************************************************************)
EXTENDS Anchor

Pauses == [p \in Profiles |-> IF p = "hard" THEN 1 ELSE 2]

=============================================================================
