---------------------------- MODULE Enforcement -----------------------------
(***************************************************************************)
(* The watch enforcing a commitment: the main loop's pass (main.c), the    *)
(* enforcement context (enforcement/enforcement.c) and the proximity state *)
(* it feeds (proximity/proximity.c).                                       *)
(*                                                                         *)
(* A pass has two steps.  Refresh: time has passed and the radio may have  *)
(* been active since the last pass; the loop picks up the active event.    *)
(* Work: the poll, the bursts, the lost-link rule, the output profile, the *)
(* pins and the worn sensor, as the loop runs them.  The schedule changes  *)
(* between any two steps: the workqueue runs a push, or a window begins or *)
(* ends.                                                                   *)
(*                                                                         *)
(* The unit of time is a pass.  A time stamp is kept as its age and a      *)
(* deadline as what is left of it, both up to the value beyond which no    *)
(* comparison of the code can tell.                                        *)
(***************************************************************************)
EXTENDS Proximity, Integers

CONSTANTS
  Schedules,    \* the pairs of events the schedule may hold at first
  Touched,      \* the second events of the pairs that the app writes over and
                \* that the watch is put on and off under
  Detect,       \* IMPULSE_CS_LINK_LOST_DETECT_MS
  LostAway,     \* IMPULSE_LINK_LOST_AWAY_MS
  Cooldown,     \* IMPULSE_LINK_GRACE_COOLDOWN_MS
  PollNotMet, PollMet, PollAbstain,  \* IMPULSE_ENFORCEMENT_POLL_*_S
  Tolerance     \* IMPULSE_PHONE_AWAY_TOLERANCE_S

Criteria == {"getAway", "stayNear", "getOffWifi", "getOnWifi", "phoneAway"}

\* An event: its criterion, its donning grace, and whether its profile is one
\* continuous step.
Commitment == [crit : Criteria, grace : Nat, steady : BOOLEAN]

ASSUME EnforcementAssumption ==
  /\ Schedules \subseteq [1 .. 2 -> Commitment]
  /\ {Detect, LostAway, Cooldown, Tolerance} \subseteq Nat \ {0}
  /\ {PollNotMet, PollMet, PollAbstain} \subseteq Nat \ {0}
  /\ Detect < LostAway /\ LostAway < Cooldown
  /\ PollAbstain <= PollNotMet /\ PollNotMet <= PollMet

Ranged == {"stayNear", "getAway", "phoneAway"}

VARIABLES
  cells,  \* g_schedule.events
  held,   \* g_schedule.count
  plan,   \* what impulse_active_event answers: a cell, 0 for NULL
  ctx,    \* g_enf
  radio,  \* what impulse_cs_link_observe reports
  poll,   \* last_poll, as its age, and g_force_poll
  pins,   \* an output pad is driven
  phase,  \* "loop" between passes, "work" after refresh_active_event
  seen    \* history of the window: the ages of the last burst and of the
          \* last one that was not far, how many far ones came since, and
          \* whether a push moved another event into the window's cell

vars == <<cells, held, plan, ctx, radio, poll, pins, phase, seen>>

Less(n) == IF n > 0 THEN n - 1 ELSE 0

\* Silence that every poll has charged: no criterion outlasts it.
MuteBound == (AbstainMax + 2) * PollMet

-----------------------------------------------------------------------------
(* The enforcement context.  donning: what is left of the donning grace;   *)
(* phone: 0, or 1 + the age of phone_near_since; run: the profile is off,  *)
(* in a continuous step, or in a step with output or without of one that   *)
(* loops.  Of the lost-link rule: noted: the                               *)
(* last activity is link_loss_activity_ms; concluded: AWAY was applied to  *)
(* this loss; grace: output is silenced for `left' more units, newer: the  *)
(* last result is newer than link_grace_after_ms; cool: what is left of    *)
(* the cooldown.  counted: a burst came since the last poll.               *)

NoLink == [armed |-> FALSE, noted |-> FALSE, concluded |-> FALSE,
           grace |-> FALSE, left |-> 0, newer |-> FALSE, cool |-> 0,
           counted |-> FALSE]

Started == [active |-> 0, worn |-> FALSE, met |-> TRUE, run |-> "off",
            prox |-> NoVerdict, donning |-> 0, phone |-> 0, link |-> NoLink]

Enforcing == ctx.active # 0

\* The event a pass works on: what the pointer's cell holds now.
Event == cells[ctx.active]

\* impulse_enforcement_enter
Enter(c, i) ==
  LET e == cells[i]
  IN  [c EXCEPT !.active = i, !.met = TRUE, !.run = "off", !.phone = 0,
                !.link = NoLink,
                !.prox = IF e.crit \in Ranged THEN NoVerdict ELSE @,
                !.donning = IF c.worn THEN e.grace ELSE 0]

\* impulse_enforcement_exit
Exit(c) == [c EXCEPT !.active = 0, !.met = TRUE, !.run = "off", !.link = NoLink]

\* Mutant: the grace is granted whenever the watch is worn.
SetWornAlways(c, worn) ==
  [c EXCEPT !.worn = worn,
            !.donning = IF c.worn /\ ~worn THEN 0
                        ELSE IF worn /\ Enforcing /\ Event.grace > 0
                        THEN Event.grace ELSE @]

\* impulse_enforcement_set_worn
SetWorn(c, worn) ==
  [c EXCEPT !.worn = worn,
            !.donning = IF c.worn /\ ~worn THEN 0
                        ELSE IF ~c.worn /\ worn /\ Enforcing /\ Event.grace > 0
                        THEN Event.grace ELSE @]

\* impulse_profile_start: a profile runs as it was when it began, whatever
\* the event is by then.
Begun == IF Event.steady THEN "steady" ELSE "on"

\* Mutant: becoming met leaves the output running.
SettleKeepsOutput(c, met) ==
  [c EXCEPT !.met = met, !.run = IF c.met /\ ~met THEN Begun ELSE @]

\* settle: the profile stops and starts with the criterion.
Settle(c, met) ==
  [c EXCEPT !.met = met,
            !.run = IF met = c.met THEN @ ELSE IF met THEN "off" ELSE Begun]

\* The phone criterion fails open, and tolerates a quick check.
PhoneNear(c) == c.prox.have /\ ~InFailsafe(c.prox) /\ c.prox.near

\* impulse_enforcement_check_condition, with the arguments main() passes:
\* no WiFi, docked.
Check(c) ==
  LET since == IF c.phone = 0 THEN 1 ELSE c.phone
  IN  CASE c.donning > 0 -> Settle(c, TRUE)
        [] c.donning = 0 /\ Event.crit = "getOnWifi" -> Settle(c, FALSE)
        [] c.donning = 0 /\ Event.crit \in {"stayNear", "getAway"} ->
             Settle(c, CriterionMet(c.prox, Event.crit))
        [] c.donning = 0 /\ Event.crit = "phoneAway" ->
             IF PhoneNear(c)
             THEN Settle([c EXCEPT !.phone = since], since <= Tolerance)
             ELSE Settle([c EXCEPT !.phone = 0], TRUE)
        [] OTHER -> Settle(c, TRUE)

-----------------------------------------------------------------------------
(* The poll.                                                               *)

\* impulse_enforcement_poll_interval_s
PollInterval(c) ==
  IF ~c.prox.have THEN PollNotMet
  ELSE IF ~c.met /\ c.prox.abstain > 0 THEN PollAbstain
  ELSE IF c.met THEN PollMet ELSE PollNotMet

PollDue == poll.force \/ poll.age >= PollInterval(ctx)

\* Mutant: an interval without a burst charges nothing.
AbstainNever(c) == [c EXCEPT !.link.counted = FALSE]

\* impulse_enforcement_poll_abstain_if_idle
AbstainIfIdle(c) ==
  [c EXCEPT !.prox = IF c.link.counted THEN @ ELSE Ingest(@, "none"),
            !.link.counted = FALSE]

Polled(c) ==
  IF ~PollDue THEN c
  ELSE Check(IF Event.crit \in Ranged THEN AbstainIfIdle(c) ELSE c)

-----------------------------------------------------------------------------
(* The bursts and the lost link.                                           *)

\* link_arm: activity and results of before the window are not of it.
Arming == Event.crit \in Ranged /\ ~ctx.link.armed

Observed == IF Arming THEN [radio EXCEPT !.heard = FALSE, !.unread = FALSE]
            ELSE radio

\* impulse_enforcement_burst_update
Bursted(c) ==
  IF Observed.unread
  THEN Check([c EXCEPT !.link.armed = TRUE, !.link.counted = TRUE,
                       !.prox = Ingest(@, Observed.last)])
  ELSE [c EXCEPT !.link.armed = TRUE]

Lost == Observed.heard /\ Observed.age >= Detect

\* conclude_away
ConcludeAway(c) ==
  Check([c EXCEPT !.link.grace = FALSE, !.prox = ForceAway(@)])

OpensGrace(c) == /\ Event.crit = "getAway" /\ ~c.met
                 /\ ~c.link.grace /\ c.link.cool = 0

\* A loss that has not been noted.  The age of the last activity is read from
\* two clocks in turn, so that the same activity may seem a new one.
NoteLoss(c, jitter) ==
  IF c.link.noted /\ ~jitter THEN c
  ELSE LET l == [c.link EXCEPT !.noted = TRUE, !.concluded = FALSE]
       IN  [c EXCEPT !.link =
              IF OpensGrace(c)
              THEN [l EXCEPT !.grace = TRUE, !.newer = Observed.late,
                             !.left = LostAway - Observed.age, !.cool = Cooldown]
              ELSE l]

\* A result newer than the loss, and not far, ends the grace.
DisprovesGrace(c) == c.link.newer /\ Observed.last \in {"near", "band"}

\* impulse_enforcement_link_update
Linked(c, jitter) ==
  LET c1 == IF c.met THEN [c EXCEPT !.link.grace = FALSE] ELSE c
      c2 == IF Lost THEN NoteLoss(c1, jitter)
            ELSE [c1 EXCEPT !.link.noted = FALSE]
  IN  IF Lost /\ ~c2.link.concluded /\ Observed.age >= LostAway
      THEN ConcludeAway([c2 EXCEPT !.link.concluded = TRUE])
      ELSE IF ~c2.link.grace THEN c2
      ELSE IF DisprovesGrace(c2)
      THEN [c2 EXCEPT !.link.grace = FALSE, !.run = Begun]
      ELSE IF c2.link.left = 0 THEN ConcludeAway(c2) ELSE c2

\* impulse_enforcement_tick: a profile that has steps may be in any of them.
Ticked(c, step) ==
  IF c.run \in {"off", "steady"} \/ c.met THEN c ELSE [c EXCEPT !.run = step]

-----------------------------------------------------------------------------
(* Steps.                                                                  *)

\* What the radio did since the last pass: activity, and the end of a burst,
\* by an estimate that comes before or after the last activity.  An estimate
\* without new activity is of a procedure of the unit before.
Signals ==
  [act : BOOLEAN, burst : Measured \cup {"none", "poor"}, after : BOOLEAN]

Possible(sig) ==
  /\ sig.burst = "none" => ~sig.after
  /\ sig.burst # "none" /\ ~sig.act => sig.after /\ radio.heard /\ radio.age = 0

Heard(sig) ==
  [heard  |-> radio.heard \/ sig.act,
   age    |-> IF sig.act THEN 0 ELSE UpTo(LostAway, radio.age),
   last   |-> IF sig.burst = "none" THEN radio.last
              ELSE IF sig.burst = "poor" THEN "none" ELSE sig.burst,
   late   |-> IF sig.burst # "none" THEN sig.after /\ sig.burst # "poor"
              ELSE radio.late /\ ~sig.act,
   unread |-> IF sig.burst = "none" THEN radio.unread ELSE sig.burst # "poor"]

\* The clocks of the context, one unit later.
Aged(c, sig) ==
  [c EXCEPT !.donning = Less(@),
            !.phone = IF @ = 0 THEN 0 ELSE UpTo(Tolerance + 1, @),
            !.link.left = Less(@), !.link.cool = Less(@),
            !.link.noted = @ /\ ~sig.act,
            !.link.newer = c.link.grace /\ (@ \/ sig.burst \in Measured)]

SeenNothing == [moved |-> FALSE, mute |-> 0, clear |-> LostAway, far |-> 0]

Seen(sig) ==
  CASE ~Enforcing -> SeenNothing
    [] Enforcing /\ sig.burst = "far" ->
         [seen EXCEPT !.mute = 0, !.far = UpTo(AwayDwell, @),
                      !.clear = UpTo(LostAway, @)]
    [] Enforcing /\ sig.burst \in {"near", "band"} ->
         [seen EXCEPT !.mute = 0, !.far = 0, !.clear = 0]
    [] OTHER -> [seen EXCEPT !.mute = UpTo(MuteBound + 1, @),
                             !.clear = UpTo(LostAway, @)]

\* The pass begins: refresh_active_event and impulse_cs_set_ranging.
Refresh(sig) ==
  LET c == Aged(ctx, sig)
  IN
    /\ phase = "loop" /\ Possible(sig)
    /\ phase' = "work"
    /\ radio' = Heard(sig)
    /\ \/ /\ plan = c.active
          /\ ctx' = c /\ seen' = Seen(sig)
          /\ poll' = [poll EXCEPT !.age = UpTo(PollMet, @)]
          /\ UNCHANGED pins
       \/ /\ plan # c.active /\ plan = 0
          /\ ctx' = Exit(c) /\ seen' = SeenNothing
          /\ poll' = [poll EXCEPT !.age = UpTo(PollMet, @)]
          /\ pins' = FALSE
       \/ /\ plan # c.active /\ plan # 0
          /\ ctx' = Enter(c, plan) /\ seen' = SeenNothing
          /\ poll' = [force |-> TRUE, age |-> UpTo(PollMet, poll.age)]
          /\ UNCHANGED pins
    /\ UNCHANGED <<cells, held, plan>>

\* The rest of the pass.  worn: what the sensor says at its end.
Work(jitter, step, worn) ==
  /\ phase = "work"
  /\ phase' = "loop"
  /\ worn = ctx.worn \/ cells[2] \in Touched
  /\ IF Enforcing
     THEN LET linked == IF Event.crit \in Ranged
                        THEN Linked(Bursted(Polled(ctx)), jitter)
                        ELSE [Polled(ctx) EXCEPT !.link.grace = FALSE]
              ticked == Ticked(linked, step)
          IN  /\ ctx' = SetWorn(ticked, worn)
              /\ radio' = IF Event.crit \in Ranged
                          THEN [Observed EXCEPT !.unread = FALSE] ELSE radio
              /\ pins' = (ticked.run \in {"steady", "on"} /\ ~ticked.link.grace)
              /\ poll' = [age   |-> IF PollDue THEN 0 ELSE poll.age,
                          force |-> worn # ctx.worn]
     ELSE /\ ctx' = SetWorn(ctx, worn)
          /\ pins' = FALSE
          /\ poll' = [poll EXCEPT !.force = @ \/ worn # ctx.worn]
          /\ UNCHANGED radio
  /\ UNCHANGED <<cells, held, plan, seen>>

\* A window begins or ends.
Turn(i) ==
  /\ plan # i /\ i <= held
  /\ plan' = i
  /\ UNCHANGED <<cells, held, ctx, radio, poll, pins, phase, seen>>

\* A push deletes the first event while the second is in force: sched_delete
\* moves the second one down, and its old cell keeps what it held.
Shift ==
  /\ cells[2] \in Touched /\ held = 2 /\ plan = 2
  /\ cells' = [i \in 1 .. 2 |-> cells[2]]
  /\ held' = 1 /\ plan' = 1
  /\ seen' = [seen EXCEPT !.moved = (ctx.active = 1)]
  /\ poll' = [poll EXCEPT !.force = TRUE]
  /\ UNCHANGED <<ctx, radio, pins, phase>>

\* An accepted write that leaves the schedule as it is forces a poll.
Accepted ==
  /\ cells[2] \in Touched /\ ~poll.force
  /\ poll' = [poll EXCEPT !.force = TRUE]
  /\ UNCHANGED <<cells, held, plan, ctx, radio, pins, phase, seen>>

Init ==
  /\ cells \in Schedules /\ held = 2
  /\ plan = 0
  /\ ctx \in {[Started EXCEPT !.worn = w] : w \in BOOLEAN}
  /\ radio = [heard |-> FALSE, age |-> LostAway, last |-> "none",
              late |-> FALSE, unread |-> FALSE]
  /\ poll = [age |-> PollMet, force |-> FALSE]
  /\ pins = FALSE /\ phase = "loop"
  /\ seen = SeenNothing

Pass == \/ \E sig \in Signals : Refresh(sig)
        \/ \E jitter, worn \in BOOLEAN, step \in {"on", "wait"} :
             Work(jitter, step, worn)

Next == Pass \/ Shift \/ Accepted \/ \E i \in 0 .. 2 : Turn(i)

\* The main loop keeps running: the hardware watchdog sees to it.  A pass is
\* always possible, so that this is weak fairness of Pass.
Running == []<><<phase' # phase>>_phase

Spec == Init /\ [][Next]_vars /\ Running

-----------------------------------------------------------------------------
(* Properties.  Those of a pass are of its end, when phase is "loop".      *)

Links == [armed : BOOLEAN, noted : BOOLEAN, concluded : BOOLEAN,
          grace : BOOLEAN, left : 0 .. LostAway, newer : BOOLEAN,
          cool : 0 .. Cooldown, counted : BOOLEAN]

Commitments == {s[i] : s \in Schedules, i \in 1 .. 2}

Runs == {"off", "steady", "on", "wait"}

\* Every variable has the type of what it models.
TypeOK ==
  /\ cells \in [1 .. 2 -> Commitments]
  /\ held \in 1 .. 2 /\ plan \in 0 .. held
  /\ ctx \in [active : 0 .. 2, worn : BOOLEAN, met : BOOLEAN,
              run : Runs, prox : ProxState, donning : Nat,
              phone : 0 .. Tolerance + 1, link : Links]
  /\ \E e \in Commitments : ctx.donning <= e.grace
  /\ radio \in [heard : BOOLEAN, age : 0 .. LostAway,
                last : Measured \cup {"none"}, late : BOOLEAN, unread : BOOLEAN]
  /\ poll \in [age : 0 .. PollMet, force : BOOLEAN]
  /\ pins \in BOOLEAN /\ phase \in {"loop", "work"}
  /\ seen \in [moved : BOOLEAN, mute : 0 .. MuteBound + 1,
               clear : 0 .. LostAway, far : 0 .. AwayDwell]

\* Output is never left over from a window, a verdict or a grace that has
\* ended, and while the criterion is not met there is output, but for a loop's
\* step without.  A watch put on in this very pass is silent from the next one
\* on, and an event that a push has moved into the cell of the one in force
\* goes on with that one's profile.
OutputFollowsCondition ==
  phase = "loop" =>
    /\ pins => /\ Enforcing /\ ~ctx.met /\ ~ctx.link.grace
               /\ ctx.donning > 0 => poll.force
    /\ Enforcing /\ ~ctx.met /\ ~ctx.link.grace =>
         pins \/ (ctx.run = "wait" /\ (Event.steady => seen.moved))

\* Jamming is no way to stay near, and no reason to be alarmed for ever: a
\* window without a burst for longer than the polls allow, whatever the link
\* does, and a link that was there in this window and has been silent for
\* LostAway count as away at once, for every criterion.
Away == \/ seen.mute > MuteBound
        \/ radio.heard /\ radio.age >= LostAway

AwayInTime ==
  phase = "loop" /\ Enforcing /\ Event.crit \in Ranged /\ Event.grace = 0
    /\ ~seen.moved /\ Away => ctx.met = (Event.crit # "stayNear")

\* A getAway alarm stops on evidence only: a donning grace, AwayDwell far
\* bursts since the last one that was not, LostAway without such a one or
\* without any activity, or no burst for as long as it takes to charge more
\* than AbstainMax abstentions, one in a pass.  (A push that moves the event
\* into the cell of the one in force lends it that one's alarm, which is not
\* its own, here and above.)
Released == /\ phase = "work" /\ Enforcing /\ Event.crit = "getAway"
            /\ ~seen.moved /\ ~ctx.met /\ ctx'.met

ReleaseNeedsEvidence ==
  [][Released => \/ ctx.donning > 0 \/ seen.far >= AwayDwell
                 \/ seen.clear >= LostAway \/ radio.age >= LostAway
                 \/ seen.mute > AbstainMax + 1]_vars

\* If from some time on the radio stays silent in a window, then from some
\* time on stayNear is not met, and getAway and phoneAway are: the alarm of
\* a watch out of range neither goes on for ever nor never begins.
Gone ==
  \E i \in 1 .. 2 : /\ ctx.active = i /\ plan = i /\ radio.age > 0
                    /\ cells[i].crit \in Ranged /\ cells[i].grace = 0

Concluded ==
  \E i \in 1 .. 2 : ctx.active = i /\ ctx.met = (cells[i].crit # "stayNear")

AwayIsConcluded == <>[]Gone => <>[]Concluded

\* A donning grace is granted once for each donning and runs out between two
\* polls, whatever interval they are at: away from WiFi, a watch worn through
\* a getOnWifi window is in the end told so for good.
Offline == \E i \in 1 .. 2 : /\ ctx.active = i /\ ctx.worn
                             /\ cells[i].crit = "getOnWifi"

GraceRunsOut == <>[]Offline => <>[](~ctx.met)

=============================================================================
