-------------------------------- MODULE Calendar -------------------------------
(***************************************************************************)
(* The civil-date arithmetic of schedule/schedule.c against the calendar   *)
(* it computes.  The state is an instant, which walks forward; the         *)
(* reference is the Gregorian rule for the day after a date, and the       *)
(* search for the next start is checked at every instant of the walk.      *)
(***************************************************************************)
EXTENDS Schedule

CONSTANTS
  FirstDays,  \* where the walks begin
  WalkDays,   \* bound: how far a walk goes
  Samples,    \* the events whose next start is searched
  Zones       \* the timezone offsets the walks are made in

\* impulse_blob_parse keeps start_time within the day (schedule_blob.c:97);
\* INT64_MAX is beyond the search.
ASSUME CalendarAssumption ==
  /\ FirstDays \subseteq Int /\ Zones \subseteq Int
  /\ \A e \in Samples : e.start \in 0 .. DayMinutes - 1
  /\ SearchDays * DayMinutes <= Never

VARIABLES first, zone, now  \* the walk's start and zone, and its instant (UTC)

Day == LocalDay(now, zone)

Dawn == /\ first \in FirstDays /\ zone \in Zones
        /\ now = UtcFromLocalMidnight(first, zone)

Walk == /\ Day < first + WalkDays
        /\ now' = now + 1
        /\ UNCHANGED <<first, zone>>

-----------------------------------------------------------------------------
(* The reference. *)

Leap(y) == y % 4 = 0 /\ (y % 100 # 0 \/ y % 400 = 0)

DaysInMonth(y, m) == CASE m \in {4, 6, 9, 11} -> 30
                       [] m = 2 -> IF Leap(y) THEN 29 ELSE 28
                       [] OTHER -> 31

DayAfter(date) ==
  IF date.d < DaysInMonth(date.y, date.m) THEN [date EXCEPT !.d = @ + 1]
  ELSE IF date.m < 12 THEN [date EXCEPT !.m = @ + 1, !.d = 1]
  ELSE [y |-> date.y + 1, m |-> 1, d |-> 1]

-----------------------------------------------------------------------------

\* impulse_civil_from_days counts every date once, in order, leap days and
\* century years included, and impulse_days_from_civil is its inverse; the
\* day of the week follows on with it, Sunday (7) to Monday (1).
CalendarFollows ==
  LET date == CivilFromDays(Day)
  IN  /\ CivilFromDays(Day + 1) = DayAfter(date)
      /\ DaysFromCivil(date.y, date.m, date.d) = Day
      /\ DayOfWeek(Day + 1) = (DayOfWeek(Day) % 7) + 1
      /\ Day = 0 => date = [y |-> 1970, m |-> 1, d |-> 1] /\ DayOfWeek(Day) = 4

\* The event starts at this instant.
StartsAt(e, utc) == /\ OccursOn(e, LocalDay(utc, zone), zone)
                    /\ LocalMinute(utc, zone) = e.start

\* impulse_seconds_until_next_start finds the first start strictly ahead,
\* whatever the recurrence and the timezone, and says "never" only when the
\* search horizon holds none.
NextStartIsNext ==
  \A e \in Samples :
    LET wait  == NextStart(e, now, zone)
        limit == SearchDays * DayMinutes - LocalMinute(now, zone) - 1
    IN  IF wait = Never
        THEN \A s \in 1 .. limit : ~StartsAt(e, now + s)
        ELSE /\ wait \in 1 .. limit /\ StartsAt(e, now + wait)
             /\ \A s \in 1 .. wait - 1 : ~StartsAt(e, now + s)

=============================================================================
