------------------------------ MODULE Schedule ------------------------------
(***************************************************************************)
(* The schedule system (schedule/schedule.c, schedule/event.h): which      *)
(* event of a schedule is in force at an instant, and when an event next   *)
(* starts.  Pure definitions, used by every module above this one.         *)
(*                                                                         *)
(* Instants are whole minutes (the code keeps seconds, and compares        *)
(* windows on the minute); a calendar date is its day number, counted from *)
(* 1970-01-01 as impulse_days_from_civil counts it.  A schedule is a       *)
(* sequence of events, and a pointer to an event is its index.             *)
(*                                                                         *)
(* An event is a record with the fields of struct impulse_event:           *)
(*   id, ref (reference_date), start, end, rec (recurrence), dow, dom,     *)
(*   crit, prof, aprof (anchor_profile), negate, grace (donning_grace_s),  *)
(*   anchor (None when has_anchor_id is false), ssid (None when ssid_len   *)
(*   is 0) and beep (the set of its beep_anchors).                         *)
(***************************************************************************)
EXTENDS Integers, FiniteSetsExt

CONSTANTS
  DayMinutes,  \* minutes of a local day: 1440 in the code
  SearchDays,  \* days impulse_seconds_until_next_start looks ahead: 400
  MaxPerDay    \* CONFIG_IMPULSE_MAX_EVENTS_PER_DAY

ASSUME ScheduleAssumption ==
  /\ DayMinutes \in Nat \ {0}
  /\ SearchDays \in Nat \ {0}
  /\ MaxPerDay \in Nat \ {0}

Recurrences == {"once", "daily", "weekly", "monthly"}

-----------------------------------------------------------------------------
(* Civil dates.  The divisions of the code are of non-negative numbers, or *)
(* corrected so that they round down, which is what \div does.             *)

DaysFromCivil(y, m, d) ==
  LET yy  == IF m <= 2 THEN y - 1 ELSE y
      era == yy \div 400
      yoe == yy - era * 400
      doy == (153 * (m + (IF m > 2 THEN -3 ELSE 9)) + 2) \div 5 + d - 1
      doe == yoe * 365 + yoe \div 4 - yoe \div 100 + doy
  IN  era * 146097 + doe - 719468

\* Mutant: the year is found without the correction for century years.
CivilNoCentury(day) ==
  LET z   == day + 719468
      era == z \div 146097
      doe == z - era * 146097
      yoe == (doe - doe \div 1460) \div 365
      doy == doe - (365 * yoe + yoe \div 4 - yoe \div 100)
      mp  == (5 * doy + 2) \div 153
      m   == mp + (IF mp < 10 THEN 3 ELSE -9)
  IN  [y |-> yoe + era * 400 + (IF m <= 2 THEN 1 ELSE 0),
       m |-> m,
       d |-> doy - (153 * mp + 2) \div 5 + 1]

CivilFromDays(day) ==
  LET z   == day + 719468
      era == z \div 146097
      doe == z - era * 146097
      yoe == (doe - doe \div 1460 + doe \div 36524 - doe \div 146096) \div 365
      doy == doe - (365 * yoe + yoe \div 4 - yoe \div 100)
      mp  == (5 * doy + 2) \div 153
      m   == mp + (IF mp < 10 THEN 3 ELSE -9)
  IN  [y |-> yoe + era * 400 + (IF m <= 2 THEN 1 ELSE 0),
       m |-> m,
       d |-> doy - (153 * mp + 2) \div 5 + 1]

\* 1 = Monday .. 7 = Sunday; 1970-01-01 was a Thursday.
DayOfWeek(day) == ((day + 3) % 7) + 1

LocalDay(utc, tz)    == (utc + tz) \div DayMinutes
LocalMinute(utc, tz) == (utc + tz) % DayMinutes

UtcFromLocalMidnight(day, tz) == day * DayMinutes - tz

-----------------------------------------------------------------------------

OccursOn(e, day, tz) ==
  \/ e.rec = "daily"
  \/ e.rec = "weekly"  /\ DayOfWeek(day) = e.dow
  \/ e.rec = "monthly" /\ CivilFromDays(day).d = e.dom
  \/ e.rec = "once"    /\ LocalDay(e.ref, tz) = day

(***************************************************************************)
(* impulse_recalculate_day.  The scan of the schedule keeps one entry per  *)
(* UUID, at the place of the first occurrence met; a "once" event takes    *)
(* the entry over; the scan breaks at the first new UUID beyond MaxPerDay. *)
(***************************************************************************)
Occurring(s, day, tz) == {i \in DOMAIN s : OccursOn(s[i], day, tz)}

Leads(s, occ) == {i \in occ : \A j \in occ : j < i => s[j].id # s[i].id}

Scanned(s, occ) ==
  {i \in occ : Cardinality({l \in Leads(s, occ) : l <= i}) <= MaxPerDay}

Holder(s, scanned, lead) ==
  LET onces == {j \in scanned : s[j].id = s[lead].id /\ s[j].rec = "once"}
  IN  IF onces = {} THEN lead ELSE Max(onces)

\* The plan: pairs of the entry's place and the event that holds it, the
\* negated ones dropped.
DayPlan(s, day, tz) ==
  LET occ == Occurring(s, day, tz)
      scn == Scanned(s, occ)
  IN  {p \in {<<l, Holder(s, scn, l)>> : l \in Leads(s, occ) \cap scn} :
         ~s[p[2]].negate}

Covers(e, minute) == e.start <= minute /\ minute < e.end

\* The entry that comes first: a plan is ordered by start time, then place.
Earliest(s, plan) ==
  CHOOSE p \in plan : \A q \in plan :
    \/ s[p[2]].start < s[q[2]].start
    \/ s[p[2]].start = s[q[2]].start /\ p[1] <= q[1]

\* impulse_active_event on today's plan: the index of the event in force, or
\* 0 for NULL.
ActiveSlot(s, utc, tz) ==
  LET plan   == DayPlan(s, LocalDay(utc, tz), tz)
      inside == {p \in plan : Covers(s[p[2]], LocalMinute(utc, tz))}
  IN  IF inside = {} THEN 0 ELSE Earliest(s, inside)[2]

\* impulse_app_find_active_event: the event of the plan with this UUID, if
\* its window is open now; 0 for NULL.
ActiveSlotOf(s, id, utc, tz) ==
  LET named == {p \in DayPlan(s, LocalDay(utc, tz), tz) : s[p[2]].id = id}
  IN  IF \E p \in named : Covers(s[p[2]], LocalMinute(utc, tz))
      THEN (CHOOSE p \in named : TRUE)[2]
      ELSE 0

-----------------------------------------------------------------------------
\* INT64_MAX, "no occurrence within the search": above every other answer.
Never == 1000000000

\* Mutant: a window whose minute has come is still ahead.
NextStartNow(e, utc, tz) ==
  LET today == LocalDay(utc, tz)
      ahead == {o \in 0 .. SearchDays - 1 :
                  /\ OccursOn(e, today + o, tz)
                  /\ ~(o = 0 /\ LocalMinute(utc, tz) > e.start)}
  IN  IF ahead = {} THEN Never
      ELSE UtcFromLocalMidnight(today + Min(ahead), tz) + e.start - utc

\* impulse_seconds_until_next_start, in minutes.  Today counts only before
\* the event's start minute.
NextStart(e, utc, tz) ==
  LET today == LocalDay(utc, tz)
      ahead == {o \in 0 .. SearchDays - 1 :
                  /\ OccursOn(e, today + o, tz)
                  /\ ~(o = 0 /\ LocalMinute(utc, tz) >= e.start)}
  IN  IF ahead = {} THEN Never
      ELSE UtcFromLocalMidnight(today + Min(ahead), tz) + e.start - utc

=============================================================================
