-------------------------------- MODULE Ratchet --------------------------------
(***************************************************************************)
(* What the classification is for.  An event that the app edits over and   *)
(* over, each edit small enough to be instant (integrity/classify.c), is   *)
(* never worn down: after any chain of instant edits it is still in force  *)
(* whenever it was at first, and as hard.  The meaning of an event, the    *)
(* instants at which it is in force, is taken from schedule/schedule.c,    *)
(* which the classification never consults but for the date of a once      *)
(* event.                                                                  *)
(***************************************************************************)
EXTENDS Classify, Calendar

CONSTANTS
  Variants,   \* the forms an event may be edited into
  Horizon,    \* the days over which two events are compared
  Creations   \* bound: the instants of the walk at which the event is created

\* The fields as impulse_blob_parse lets them through.
ASSUME RatchetAssumption ==
  \A e \in Variants :
    /\ e.rec \in Recurrences /\ e.negate \in BOOLEAN
    /\ {e.start, e.end, e.grace, e.prof, e.aprof} \subseteq Nat

VARIABLES base, event  \* the event at first, and as it now stands

vars == <<first, zone, now, base, event>>

Absent == base = None /\ event = None

Init == Dawn /\ Absent

\* Time passes before there is an event.
Tick == Absent /\ Walk /\ UNCHANGED <<base, event>>

\* The app creates the event.
Create == \E e \in Variants : /\ Absent /\ <<zone, now>> \in Creations
                              /\ base' = e /\ event' = e
                              /\ UNCHANGED <<first, zone, now>>

\* impulse_integrity_apply_push lets the edit through at once.
Edit == \E e \in Variants : /\ ~Absent /\ AtLeastAsBinding(event, e, zone)
                            /\ event' = e
                            /\ UNCHANGED <<first, zone, now, base>>

Next == Tick \/ Create \/ Edit

Spec == Init /\ [][Next]_vars

-----------------------------------------------------------------------------

\* The event is in force at that minute of that day: it is in the day's
\* plan of a schedule it is alone in.
InForce(e, day, minute) ==
  /\ OccursOn(e, day, zone) /\ ~e.negate /\ Covers(e, minute)

\* Instant edits never uncover a minute: whatever their number and order,
\* every minute the first event was in force, the last one is.
NeverUncovered ==
  ~Absent => \A day \in Horizon, minute \in 0 .. DayMinutes - 1 :
    InForce(base, day, minute) => InForce(event, day, minute)

\* Nor does a chain of instant edits wear down the demands: the criterion and
\* its anchor are those of the first event, the patterns are at least as
\* strict and as loud, no beeping anchor is lost and the grace is no longer.
NeverSoftened ==
  ~Absent =>
    /\ base.crit = event.crit /\ base.anchor = event.anchor
    /\ base.ssid = event.ssid
    /\ event.grace <= base.grace
    /\ base.beep \subseteq event.beep
    /\ base.aprof # NoBeep => event.aprof # NoBeep /\ event.aprof >= base.aprof
    /\ Strictness(event.prof) >= Strictness(base.prof)
    /\ Output(event.prof) \in {Output(base.prof), 1}

=============================================================================
