---------------------------- MODULE MCIntegrity -----------------------------
(***************************************************************************)
(* Instances of Integrity for TLC.  A day is four units, so that a window, *)
(* a night and a loosening delay all fit in a short run; the first boot is *)
(* at midnight of Monday 2026-08-31, and the windows are on the first two  *)
(* of the four units, so that the day starts inside some of them.          *)
(***************************************************************************)
EXTENDS IntegrityClaims

CONSTANTS a, b, c  \* UUIDs

Monday   == 20696
MCStart  == 4 * Monday

Daily(id, start, end) ==
  [id |-> id, ref |-> 0, start |-> start, end |-> end, rec |-> "daily",
   dow |-> 0, dom |-> 0, crit |-> "worn", prof |-> 4, aprof |-> NoBeep,
   negate |-> FALSE, grace |-> 0, anchor |-> None, ssid |-> None, beep |-> {}]

Weekly(id, start, end, dow) ==
  [Daily(id, start, end) EXCEPT !.rec = "weekly", !.dow = dow]

Once(id, start, end, day) ==
  [Daily(id, start, end) EXCEPT !.rec = "once", !.ref = 4 * day + 2]

Negated(e) == [e EXCEPT !.rec = "once", !.negate = TRUE, !.dow = 0, !.dom = 0,
                        !.ref = 4 * Monday + 2]

A      == Daily(a, 1, 3)
AShort == Daily(a, 1, 2)
ALong  == Daily(a, 1, 4)
AOnce  == Once(a, 1, 3, Monday + 1)
B      == Weekly(b, 1, 3, 4)   \* on Thursdays: far on a Monday
C      == Daily(c, 2, 4)

\* The events, and what a pass makes of each.
WithNegates(events) == events \cup {NegateOf(e, d) : e \in events, d \in PassDays}

EventsA   == WithNegates({A, AShort, ALong})
EventsABC == WithNegates({A, AOnce, AShort, B, C})
EventsAB  == WithNegates({A, B})

\* Setting up, tightening, loosening, and clearing one event.
PushesA   == {<<A>>, <<AShort>>, <<ALong>>, <<>>}
\* Three events at odds over two slots, one of them far off, one that a
\* late promotion finds expired.
PushesABC == {<<A, B>>, <<AShort, C>>, <<C>>, <<AOnce>>}
PushesAB  == {<<A, B>>}

\* A step forward in the day, to another timezone.
OneJump    == {<<MCStart + 2, 1>>}
PassMonday == {Monday}

=============================================================================
