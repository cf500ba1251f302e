-------------------------- MODULE IntegrityClaims ---------------------------
(***************************************************************************)
(* What the comments of the repository say of commitment integrity and the *)
(* code does not do.  Each definition is the sentence quoted above it; a   *)
(* run of its own finds the steps that contradict it.                      *)
(***************************************************************************)
EXTENDS Integrity

\* An iteration of the upsert loop has changed the schedule.
Upserted == job.at = "upsert" /\ sched'.ev # sched.ev

\* integrity.c:221: a free edit is "a change to an UNSETTLED event whose
\* resulting state is still at least as binding as its settled_baseline".
\* note_edit drops the baseline, so a change to an event settled before is
\* free as soon as any other change of it has been accepted.
FreeEditKeepsBaseline ==
  [][Upserted =>
       LET e    == job.prop[job.i]
           base == ig.settle[e.id].base
       IN  \/ e.id \notin DOMAIN ig.settle
           \/ base = None
           \/ IsInstant(ClassOf(e))
           \/ BeyondFreeHorizon(e)
           \/ AtLeastAsBinding(base, e, tz)]_vars

\* integrity.h:110: promotion is "called on every wake - RTC boundary,
\* midnight, boot".  Only the boot promotes: a change may be overdue by
\* more than a whole day, midnight included.
NeverADayOverdue ==
  \A i \in DOMAIN ig.pending :
    ig.pending[i] # None => elapsed <= ig.pending[i].after + DayMinutes

\* integrity.h:118: the pass "applies a one-day negate".  The negate takes
\* the place of the event, which is then in force on no day at all.
PassLastsOneDay ==
  [][job'.pass /\ ~job.pass =>
       \A i \in 1 .. sched.n :
         sched.ev[i].rec # "once" /\ ~sched.ev[i].negate =>
           \E j \in 1 .. sched'.n : /\ sched'.ev[j].id = sched.ev[i].id
                                    /\ ~sched'.ev[j].negate]_vars

=============================================================================
