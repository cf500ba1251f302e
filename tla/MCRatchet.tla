------------------------------- MODULE MCRatchet -------------------------------
(***************************************************************************)
(* Walks of ten weeks across the epoch, the leap day of 2000 and the end   *)
(* of February 2100, which has none, in days of four units; on the first   *)
(* day of one of them, an event is created and edited.  Its forms differ   *)
(* in when it is in force (windows, recurrences, negation), or in what it  *)
(* demands.                                                                *)
(***************************************************************************)
EXTENDS Ratchet

CONSTANTS x, y  \* anchors

LOCAL At(rec, start, dow, dom, ref) ==
  [rec |-> rec, start |-> start, dow |-> dow, dom |-> dom, ref |-> ref]

MCFirstDays == {-5, DaysFromCivil(1999, 12, 27), DaysFromCivil(2099, 12, 27)}

\* Once: on an evening that another zone puts on the next day.
MCSamples ==
  {At("daily", 0, 0, 0, 0), At("daily", 3, 0, 0, 0), At("weekly", 1, 7, 0, 0),
   At("monthly", 2, 0, 31, 0), At("monthly", 0, 0, 29, 0)}
  \cup {At("once", 1, 0, 0, UtcFromLocalMidnight(d + 20, 0) + 3) : d \in MCFirstDays}

MCZones == {0, 2, -3}

MCCreations == {<<2, UtcFromLocalMidnight(-5, 2)>>}

Monday == 20696

LOCAL Plain ==
  [id |-> 1, ref |-> 0, start |-> 0, end |-> 1, rec |-> "daily", dow |-> 0,
   dom |-> 0, crit |-> "worn", prof |-> 4, aprof |-> NoBeep, negate |-> FALSE,
   grace |-> 0, anchor |-> None, ssid |-> None, beep |-> {}]

LOCAL Rules ==
  {[rec |-> "daily", dow |-> 0, dom |-> 0, ref |-> 0],
   [rec |-> "weekly", dow |-> 1, dom |-> 0, ref |-> 0],
   [rec |-> "weekly", dow |-> 3, dom |-> 0, ref |-> 0],
   [rec |-> "monthly", dow |-> 0, dom |-> 31, ref |-> 0],
   [rec |-> "monthly", dow |-> 0, dom |-> 1, ref |-> 0],
   \* Two instants of one local day, and one of the next.
   [rec |-> "once", dow |-> 0, dom |-> 0, ref |-> UtcFromLocalMidnight(Monday, 2)],
   [rec |-> "once", dow |-> 0, dom |-> 0, ref |-> UtcFromLocalMidnight(Monday, 2) + 3],
   [rec |-> "once", dow |-> 0, dom |-> 0, ref |-> UtcFromLocalMidnight(Monday, 2) + 4]}

LOCAL Windows == {<<s, e>> \in (0 .. 2) \X (1 .. 3) : s < e}

Timings ==
  {[Plain EXCEPT !.start = w[1], !.end = w[2], !.rec = r.rec, !.dow = r.dow,
                 !.dom = r.dom, !.ref = r.ref, !.negate = n] :
     w \in Windows, r \in Rules, n \in BOOLEAN}

\* Monday 31 August to Saturday 5 September 2026, Tuesday being the 1st.
Week == Monday .. Monday + 5

Demands ==
  {[Plain EXCEPT !.prof = p, !.aprof = q, !.grace = g, !.beep = b, !.anchor = h] :
     p \in 0 .. 9, q \in {0, 2, NoBeep}, g \in {0, 60},
     b \in {{}, {x}, {x, y}}, h \in {None, x}}

Forms == Timings \cup Demands

=============================================================================
