----------------------------- MODULE MCRanging -----------------------------
(***************************************************************************)
(* Three counters that wrap, two results in a procedure, bursts of three.  *)
(***************************************************************************)
EXTENDS Ranging

\* One sample at a metre, and one whose time of flight is too long for its phase.
CleanOrSuspect ==
  {[ifft |-> 172, slope |-> 350, rtt |-> 450],
   [ifft |-> 172, slope |-> 350, rtt |-> 1200]}
=============================================================================
