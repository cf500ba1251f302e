---------------------------- MODULE MCEscalation ----------------------------
(***************************************************************************)
(* Windows with an anchor to tell and without, one after another or apart. *)
(***************************************************************************)
EXTENDS Escalation

=============================================================================
