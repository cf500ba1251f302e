------------------------------ MODULE MCEngine ------------------------------
(***************************************************************************)
(* The set-up of the link shortened to the stages the machine tells apart: *)
(* one that the phone's link may answer too, the one that takes the        *)
(* reference, and the one that needs it.                                   *)
(***************************************************************************)
EXTENDS Engine

ShortSetUp == <<"security", "discovery", "features">>
=============================================================================
