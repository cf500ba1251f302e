----------------------------- MODULE Proximity ------------------------------
(***************************************************************************)
(* The proximity state machine (proximity/proximity.c): how the bursts of  *)
(* a window become a verdict, and what a criterion makes of it.            *)
(*                                                                         *)
(* A measurement is one of the classes its distance falls in: "near" below *)
(* the entry threshold, "far" above the exit threshold, "band" between     *)
(* them, or "none" when the engine abstains.  The counters of the code     *)
(* saturate at 255; here they stop where nothing can tell them apart.      *)
(***************************************************************************)
EXTENDS Naturals

CONSTANTS
  NearDwell,  \* IMPULSE_NEAR_DWELL: 2
  AwayDwell,  \* IMPULSE_AWAY_DWELL: 4
  AbstainMax  \* IMPULSE_CS_ABSTAIN_MAX_CONSECUTIVE: 5

ASSUME ProximityAssumption ==
  /\ NearDwell \in Nat \ {0} /\ AwayDwell \in Nat \ {0} /\ AbstainMax \in Nat

Measured == {"near", "band", "far"}

ProxState == [near : BOOLEAN, have : BOOLEAN, nearRun : 0 .. NearDwell,
              awayRun : 0 .. AwayDwell, abstain : 0 .. AbstainMax + 1]

\* impulse_prox_state_init: no verdict until something is measured.
NoVerdict == [near |-> FALSE, have |-> FALSE, nearRun |-> 0, awayRun |-> 0,
              abstain |-> 0]

\* Mutant: a counter that does not saturate.
PastTop(bound, n) == n + 1

\* A counter that saturates.
UpTo(bound, n) == IF n < bound THEN n + 1 ELSE n

\* A class of distance that has been seen often enough in a row decides.
IngestNear(st) ==
  LET run     == UpTo(NearDwell, st.nearRun)
      settled == run >= NearDwell
  IN  [near |-> st.near \/ settled, have |-> st.have \/ settled,
       nearRun |-> run, awayRun |-> 0, abstain |-> 0]

IngestFar(st) ==
  LET run     == UpTo(AwayDwell, st.awayRun)
      settled == run >= AwayDwell
  IN  [near |-> st.near /\ ~settled, have |-> st.have \/ settled,
       nearRun |-> 0, awayRun |-> run, abstain |-> 0]

\* Mutant: a measurement in the hysteresis band leaves the runs alone.
IngestKeepsRuns(st, m) ==
  CASE m = "near" -> IngestNear(st)
    [] m = "far"  -> IngestFar(st)
    [] m = "band" -> [st EXCEPT !.abstain = 0]
    [] m = "none" -> [st EXCEPT !.abstain = UpTo(AbstainMax + 1, @)]

\* impulse_prox_ingest
Ingest(st, m) ==
  CASE m = "near" -> IngestNear(st)
    [] m = "far"  -> IngestFar(st)
    [] m = "band" -> [st EXCEPT !.nearRun = 0, !.awayRun = 0, !.abstain = 0]
    [] m = "none" -> [st EXCEPT !.abstain = UpTo(AbstainMax + 1, @)]

\* impulse_prox_force_away: a verdict, not a measurement.
ForceAway(st) == [NoVerdict EXCEPT !.have = TRUE]

InFailsafe(st) == st.abstain > AbstainMax

\* Mutant: a radio that keeps abstaining satisfies every criterion.
CriterionFailsOpen(st, crit) ==
  IF InFailsafe(st) THEN TRUE
  ELSE IF ~st.have THEN crit # "stayNear" ELSE st.near = (crit = "stayNear")

\* impulse_prox_criterion_met, of the criteria that ranging answers.
CriterionMet(st, crit) ==
  IF InFailsafe(st) \/ ~st.have THEN crit # "stayNear"
  ELSE st.near = (crit = "stayNear")

=============================================================================
