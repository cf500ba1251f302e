---------------------------- MODULE RatchetProofs -----------------------------
(***************************************************************************)
(* Proofs about Ratchet, for every set of events and every timezone: no    *)
(* chain of instant edits, however long, frees a minute or softens a       *)
(* demand; the dates are those of the Gregorian calendar, for every day;   *)
(* the next start is the first one ahead.                                  *)
(***************************************************************************)
EXTENDS Ratchet, WellFoundedInduction, TLAPS

\* What makes an edit instant: no field has shrunk or become another.
Kept(rel) == rel \notin {"subset", "incomparable"}

LEMMA InstantKeeps ==
  ASSUME NEW e, NEW f, AtLeastAsBinding(e, f, zone)
  PROVE  e = f \/ \A rel \in FieldRelations(e, f, zone) : Kept(rel)
<1> SUFFICES ASSUME e # f, NEW rel \in FieldRelations(e, f, zone),
                    rel \in {"subset", "incomparable"}
             PROVE  FALSE
  BY DEF Kept
<1>1. FieldRelations(e, f, zone) \cap {"subset", "incomparable"} # {}
  OBVIOUS
<1>2. ClassifyModified(e, f, zone) = "loosen"
  BY <1>1 DEF ClassifyModified
<1> QED
  BY <1>2 DEF AtLeastAsBinding, IsInstant

LEMMA NominalKept ==
  ASSUME NEW old, NEW new, Kept(RelNominal(old, new))
  PROVE  new = old
BY DEF Kept, RelNominal

LEMMA OrderedKept ==
  ASSUME NEW old \in Int, NEW new \in Int, Kept(RelOrdered(old, new))
  PROVE  new >= old
BY DEF Kept, RelOrdered

-----------------------------------------------------------------------------
(* When an event is in force.                                              *)

\* A wider window covers every minute of the narrower one.
LEMMA WindowKept ==
  ASSUME NEW e \in Variants, NEW f \in Variants, Kept(RelWindow(e, f)),
         NEW minute \in Nat, Covers(e, minute)
  PROVE  Covers(f, minute)
<1>1. {e.start, e.end, f.start, f.end} \subseteq Nat
  BY RatchetAssumption
<1>2. f.start <= e.start /\ f.end >= e.end
  BY <1>1 DEF Kept, RelWindow
<1> QED
  BY <1>1, <1>2 DEF Covers

\* A rule that covers another holds on every day the other does.
LEMMA RecurrenceKept ==
  ASSUME NEW e \in Variants, NEW f \in Variants,
         Kept(RelRecurrence(e, f, zone)), NEW day, OccursOn(e, day, zone)
  PROVE  OccursOn(f, day, zone)
<1>1. e.rec \in Recurrences /\ f.rec \in Recurrences
  BY RatchetAssumption
<1>2. CASE f.rec = "daily"
  BY <1>2 DEF OccursOn
<1>3. CASE f.rec # "daily" /\ e.rec # f.rec
  BY <1>3 DEF Kept, RelRecurrence
<1>4. CASE e.rec = f.rec /\ f.rec = "weekly"
  <2>1. f.dow = e.dow
    BY <1>4, NominalKept DEF RelRecurrence
  <2> QED
    BY <1>4, <2>1 DEF OccursOn
<1>5. CASE e.rec = f.rec /\ f.rec = "monthly"
  <2>1. f.dom = e.dom
    BY <1>5, NominalKept DEF RelRecurrence
  <2> QED
    BY <1>5, <2>1 DEF OccursOn
<1>6. CASE e.rec = f.rec /\ f.rec = "once"
  <2>1. LocalDay(f.ref, zone) = LocalDay(e.ref, zone)
    BY <1>6, NominalKept DEF RelRecurrence
  <2> QED
    BY <1>6, <2>1 DEF OccursOn
<1> QED
  BY <1>1, <1>2, <1>3, <1>4, <1>5, <1>6 DEF Recurrences

LEMMA EditCovers ==
  ASSUME NEW e \in Variants, NEW f \in Variants, AtLeastAsBinding(e, f, zone),
         NEW day, NEW minute \in Nat, InForce(e, day, minute)
  PROVE  InForce(f, day, minute)
<1>1. CASE e = f
  BY <1>1
<1>2. CASE \A rel \in FieldRelations(e, f, zone) : Kept(rel)
  <2>1. /\ Kept(RelWindow(e, f)) /\ Kept(RelRecurrence(e, f, zone))
        /\ Kept(RelNegate(e.negate, f.negate))
    BY <1>2 DEF FieldRelations
  <2>2. ~f.negate
    BY <2>1, RatchetAssumption DEF InForce, Kept, RelNegate
  <2> QED
    BY <2>1, <2>2, WindowKept, RecurrenceKept DEF InForce
<1> QED
  BY <1>1, <1>2, InstantKeeps

Typed == Absent \/ {base, event} \subseteq Variants

\* A step leaves the event alone, creates it or edits it.
LEMMA TypedStep ==
  ASSUME Typed, [Next]_vars
  PROVE  /\ Typed'
         /\ \/ UNCHANGED <<base, event>> /\ (~Absent => UNCHANGED zone)
            \/ Create
            \/ Edit
BY DEF Next, Tick, Create, Edit, Typed, Absent, vars

\* Whatever the app makes of an event by edits that are let through at once,
\* each of them no weaker than the one before, it is in force at every minute
\* at which it was when the chain began.
THEOREM NeverUncoveredAlways == Spec => []NeverUncovered
<1> DEFINE Inv == Typed /\ NeverUncovered
<1>1. Init => Inv
  BY DEF Init, Absent, Typed, NeverUncovered
<1>2. Inv /\ [Next]_vars => Inv'
  <2> SUFFICES ASSUME Inv, [Next]_vars PROVE Inv'
    OBVIOUS
  <2>1. Typed'
    BY TypedStep
  <2>2. CASE UNCHANGED <<base, event>> /\ (~Absent => UNCHANGED zone)
    BY <2>1, <2>2 DEF NeverUncovered, InForce, Absent
  <2>3. CASE Create
    BY <2>1, <2>3 DEF Create, NeverUncovered, InForce
  <2>4. CASE Edit
    <3> SUFFICES ASSUME NEW day \in Horizon, NEW minute \in 0 .. DayMinutes - 1,
                        InForce(base, day, minute)
                 PROVE  InForce(event', day, minute)
      BY <2>1, <2>4 DEF Edit, NeverUncovered, InForce
    <3>1. InForce(event, day, minute)
      BY <2>4 DEF Edit, NeverUncovered
    <3>2. minute \in Nat
      BY ScheduleAssumption
    <3> QED
      BY <2>1, <2>4, <3>1, <3>2, EditCovers DEF Edit, Typed
  <2> QED
    BY <2>2, <2>3, <2>4, TypedStep
<1> QED
  BY <1>1, <1>2, PTL DEF Spec

-----------------------------------------------------------------------------
(* What an event demands.                                                  *)

\* f asks for no less than e.
Demands(e, f) ==
  /\ e.crit = f.crit /\ e.anchor = f.anchor /\ e.ssid = f.ssid
  /\ f.grace <= e.grace
  /\ e.beep \subseteq f.beep
  /\ e.aprof # NoBeep => f.aprof # NoBeep /\ f.aprof >= e.aprof
  /\ Strictness(f.prof) >= Strictness(e.prof)
  /\ Output(f.prof) \in {Output(e.prof), 1}

LEMMA ProfileKept ==
  ASSUME NEW old \in Nat, NEW new \in Nat, Kept(RelProfile(old, new))
  PROVE  /\ Strictness(new) >= Strictness(old)
         /\ Output(new) \in {Output(old), 1}
<1>1. Strictness(old) \in Int /\ Strictness(new) \in Int
  BY DEF Strictness
<1>2. CASE old = new
  BY <1>1, <1>2
<1>3. CASE old # new
  <2> DEFINE out == OutputOrder(old, new)
             str == Strictness(new) - Strictness(old)
  <2>1. str >= 0 /\ out >= 0
    <3> HIDE DEF out, str
    <3> QED
      BY <1>3 DEF Kept, RelProfile, out, str
  <2>2. Output(new) \in {Output(old), 1}
    BY <2>1 DEF OutputOrder
  <2> QED
    BY <1>1, <2>1, <2>2
<1> QED
  BY <1>2, <1>3

LEMMA AnchorProfileKept ==
  ASSUME NEW old \in Nat, NEW new \in Nat, Kept(RelAnchorProfile(old, new)),
         old # NoBeep
  PROVE  new # NoBeep /\ new >= old
BY DEF RelAnchorProfile, RelOrdered, Kept, NoBeep

LEMMA EditDemands ==
  ASSUME NEW e \in Variants, NEW f \in Variants, AtLeastAsBinding(e, f, zone)
  PROVE  Demands(e, f)
<1>1. {e.grace, f.grace, e.prof, f.prof, e.aprof, f.aprof} \subseteq Nat
  BY RatchetAssumption
<1>2. CASE e = f
  <2>1. Strictness(e.prof) \in Int
    BY <1>1 DEF Strictness
  <2> QED
    BY <1>1, <1>2, <2>1 DEF Demands
<1>3. CASE \A rel \in FieldRelations(e, f, zone) : Kept(rel)
  <2>1. /\ Kept(RelNominal(e.crit, f.crit)) /\ Kept(RelNominal(e.anchor, f.anchor))
        /\ Kept(RelNominal(e.ssid, f.ssid)) /\ Kept(RelOrdered(f.grace, e.grace))
        /\ Kept(RelBeepAnchors(e, f)) /\ Kept(RelAnchorProfile(e.aprof, f.aprof))
        /\ Kept(RelProfile(e.prof, f.prof))
    BY <1>3 DEF FieldRelations
  <2>2. e.crit = f.crit /\ e.anchor = f.anchor /\ e.ssid = f.ssid
    BY <2>1, NominalKept
  <2>3. f.grace <= e.grace
    BY <1>1, <2>1, OrderedKept
  <2>4. e.beep \subseteq f.beep
    BY <2>1 DEF RelBeepAnchors, Kept
  <2>5. e.aprof # NoBeep => f.aprof # NoBeep /\ f.aprof >= e.aprof
    BY <1>1, <2>1, AnchorProfileKept
  <2>6. /\ Strictness(f.prof) >= Strictness(e.prof)
        /\ Output(f.prof) \in {Output(e.prof), 1}
    BY <1>1, <2>1, ProfileKept
  <2> QED
    BY <2>2, <2>3, <2>4, <2>5, <2>6 DEF Demands
<1> QED
  BY <1>2, <1>3, InstantKeeps

LEMMA DemandsTransitive ==
  ASSUME NEW e \in Variants, NEW f \in Variants, NEW g \in Variants,
         Demands(e, f), Demands(f, g)
  PROVE  Demands(e, g)
<1>1. /\ {e.grace, f.grace, g.grace} \subseteq Nat
      /\ {e.aprof, f.aprof, g.aprof} \subseteq Nat
      /\ {e.prof, f.prof, g.prof} \subseteq Nat
  BY RatchetAssumption
<1>2. {Strictness(e.prof), Strictness(f.prof), Strictness(g.prof)} \subseteq Int
  BY <1>1 DEF Strictness
<1> QED
  BY <1>1, <1>2 DEF Demands

LEMMA DemandsReflexive ==
  ASSUME NEW e \in Variants
  PROVE  Demands(e, e)
<1>1. e.grace \in Nat /\ e.prof \in Nat /\ e.aprof \in Nat
  BY RatchetAssumption
<1> QED
  BY <1>1 DEF Demands, Strictness

\* Nor do the edits ever ask less of the wearer than the first event did: the
\* demands of two edits in a row compose.
THEOREM NeverSoftenedAlways == Spec => []NeverSoftened
<1> DEFINE Inv == Typed /\ (~Absent => Demands(base, event))
<1>1. Init => Inv
  BY DEF Init, Absent, Typed
<1>2. Inv /\ [Next]_vars => Inv'
  <2> SUFFICES ASSUME Inv, [Next]_vars PROVE Inv'
    OBVIOUS
  <2>1. Typed'
    BY TypedStep
  <2>2. CASE UNCHANGED <<base, event>>
    BY <2>1, <2>2 DEF Absent
  <2>3. CASE Create
    BY <2>1, <2>3, DemandsReflexive DEF Create
  <2>4. CASE Edit
    <3>1. base \in Variants /\ event \in Variants /\ event' \in Variants
      BY <2>4 DEF Edit, Typed
    <3>2. Demands(base, event) /\ Demands(event, event') /\ base' = base
      BY <2>4, <3>1, EditDemands DEF Edit
    <3> QED
      BY <2>1, <3>1, <3>2, DemandsTransitive
  <2> QED
    BY <2>2, <2>3, <2>4, TypedStep
<1>3. Inv => NeverSoftened
  BY DEF Demands, NeverSoftened
<1> QED
  BY <1>1, <1>2, <1>3, PTL DEF Spec

-----------------------------------------------------------------------------
(* The calendar.  A day is the doy-th of the yoe-th year of an era of 400, *)
(* years that begin in March, and falls in the mp-th month of its year.    *)

\* The days of an era before a year of it, and of a year before a month.
Elapsed(yoe) == 365 * yoe + yoe \div 4 - yoe \div 100

MonthStart(mp) == (153 * mp + 2) \div 5

\* The years and months that impulse_civil_from_days computes.
YearOf(doe) ==
  (doe - doe \div 1460 + doe \div 36524 - doe \div 146096) \div 365

MonthOf(doy) == (5 * doy + 2) \div 153

MonthNumber(mp) == mp + (IF mp < 10 THEN 3 ELSE -9)

Dated(era, yoe, doy, mp) ==
  [y |-> yoe + era * 400 + (IF MonthNumber(mp) <= 2 THEN 1 ELSE 0),
   m |-> MonthNumber(mp), d |-> doy - MonthStart(mp) + 1]

\* The parts of a day, and the bounds that make them its only ones.
Within(yoe, doy, mp) ==
  /\ yoe \in Int /\ doy \in Int /\ mp \in Int
  /\ 0 <= yoe /\ yoe < 400 /\ 0 <= doy /\ 0 <= mp /\ mp < 12
  /\ Elapsed(yoe) + doy < Elapsed(yoe + 1) \/ (yoe = 399 /\ doy < 366)
  /\ MonthStart(mp) <= doy /\ doy < MonthStart(mp + 1)

LEMMA YearFound ==
  ASSUME NEW doe \in Int, 0 <= doe, doe < 146097
  PROVE  /\ YearOf(doe) \in Int /\ 0 <= YearOf(doe) /\ YearOf(doe) < 400
         /\ Elapsed(YearOf(doe)) <= doe
         /\ doe < Elapsed(YearOf(doe) + 1) \/ YearOf(doe) = 399
         /\ doe - Elapsed(YearOf(doe)) < 366
BY SMTT(60) DEF Elapsed, YearOf

LEMMA YearsApart ==
  ASSUME NEW a \in Int, NEW b \in Int, a < b
  PROVE  Elapsed(a + 1) <= Elapsed(b)
BY SMTT(60) DEF Elapsed

LEMMA MonthFound ==
  ASSUME NEW doy \in Int, 0 <= doy, doy < 366
  PROVE  /\ MonthOf(doy) \in Int /\ 0 <= MonthOf(doy) /\ MonthOf(doy) < 12
         /\ MonthStart(MonthOf(doy)) <= doy /\ doy < MonthStart(MonthOf(doy) + 1)
BY SMT DEF MonthOf, MonthStart

LEMMA MonthsApart ==
  ASSUME NEW a \in Int, NEW b \in Int, a < b
  PROVE  MonthStart(a + 1) <= MonthStart(b)
BY SMT DEF MonthStart

LEMMA PartTypes ==
  ASSUME NEW a \in Int
  PROVE  Elapsed(a) \in Int /\ MonthStart(a) \in Int /\ Elapsed(0) = 0
BY SMT DEF Elapsed, MonthStart

\* A year has no more days than its months.
LEMMA YearLength ==
  ASSUME NEW yoe, NEW doy, NEW mp, Within(yoe, doy, mp)
  PROVE  doy < 366 /\ Elapsed(yoe) + doy < 146097 /\ 0 <= Elapsed(yoe) + doy
<1>1. Elapsed(yoe + 1) <= Elapsed(yoe) + 366 /\ 0 <= Elapsed(yoe)
  BY SMT DEF Elapsed, Within
<1>2. yoe < 399 => Elapsed(yoe + 1) <= 145731
  BY SMT DEF Elapsed, Within
<1>3. yoe = 399 => Elapsed(yoe) = 145731
  BY SMT DEF Elapsed
<1>4. Elapsed(yoe) \in Int /\ Elapsed(yoe + 1) \in Int
  BY PartTypes DEF Within
<1> QED
  BY <1>1, <1>2, <1>3, <1>4, SMT DEF Within

\* The parts of a day: every day has them, as the code computes them, and has
\* no others.
PartsOf(day, era, yoe, doy, mp) ==
  Within(yoe, doy, mp) /\ day + 719468 = era * 146097 + Elapsed(yoe) + doy

LEMMA CivilParts ==
  ASSUME NEW day \in Int
  PROVE  \E era \in Int, yoe \in Int, doy \in Int, mp \in Int :
           /\ PartsOf(day, era, yoe, doy, mp)
           /\ CivilFromDays(day) = Dated(era, yoe, doy, mp)
<1> DEFINE era == (day + 719468) \div 146097
           doe == day + 719468 - era * 146097
           yoe == YearOf(doe)
           doy == doe - Elapsed(yoe)
<1>1. era \in Int /\ doe \in Int /\ 0 <= doe /\ doe < 146097
  BY SMT
<1>2. CivilFromDays(day) = Dated(era, yoe, doy, MonthOf(doy))
  BY SMT DEF CivilFromDays, Dated, YearOf, Elapsed, MonthOf, MonthStart, MonthNumber
<1>3. day + 719468 = era * 146097 + doe
  BY <1>1, SMT
<1> HIDE DEF era, doe
<1>4. /\ yoe \in Int /\ 0 <= yoe /\ yoe < 400 /\ Elapsed(yoe) <= doe
      /\ doe < Elapsed(yoe + 1) \/ yoe = 399
      /\ doe - Elapsed(yoe) < 366
  BY <1>1, YearFound
<1> HIDE DEF yoe
<1>5. Elapsed(yoe) \in Int /\ Elapsed(yoe + 1) \in Int
  BY <1>4, PartTypes
<1>6. doy \in Int /\ 0 <= doy /\ doy < 366 /\ doe = Elapsed(yoe) + doy
  BY <1>1, <1>4, <1>5
<1>7. /\ MonthOf(doy) \in Int /\ 0 <= MonthOf(doy) /\ MonthOf(doy) < 12
      /\ MonthStart(MonthOf(doy)) <= doy /\ doy < MonthStart(MonthOf(doy) + 1)
  BY <1>6, MonthFound
<1>8. Within(yoe, doy, MonthOf(doy))
  <2> HIDE DEF doy
  <2> QED
    BY <1>4, <1>6, <1>7 DEF Within
<1>9. day + 719468 = era * 146097 + Elapsed(yoe) + doy
  BY <1>1, <1>3, <1>5, SMT
<1>10. CivilFromDays(day) = Dated(era, yoe, doy, MonthOf(doy))
  BY <1>2, SMT DEF era, doe, yoe
<1> HIDE DEF doy
<1>11. PartsOf(day, era, yoe, doy, MonthOf(doy))
  BY <1>8, <1>9, SMT DEF PartsOf
<1> QED
  BY <1>1, <1>4, <1>6, <1>7, <1>10, <1>11

LEMMA PartsUnique ==
  ASSUME NEW day, NEW e \in Int, NEW y, NEW o, NEW m, PartsOf(day, e, y, o, m),
         NEW f \in Int, NEW z, NEW p, NEW n, PartsOf(day, f, z, p, n)
  PROVE  e = f /\ y = z /\ o = p /\ m = n
<1>0. /\ Within(y, o, m) /\ Within(z, p, n)
      /\ e * 146097 + Elapsed(y) + o = f * 146097 + Elapsed(z) + p
  BY SMT DEF PartsOf
<1>1. /\ Elapsed(y) \in Int /\ Elapsed(y + 1) \in Int
      /\ Elapsed(z) \in Int /\ Elapsed(z + 1) \in Int
  BY <1>0, PartTypes DEF Within
<1>2. /\ 0 <= Elapsed(y) + o /\ Elapsed(y) + o < 146097
      /\ 0 <= Elapsed(z) + p /\ Elapsed(z) + p < 146097
  BY <1>0, YearLength, SMT
<1>3. e = f /\ Elapsed(y) + o = Elapsed(z) + p
  <2> DEFINE a == Elapsed(y) + o
             b == Elapsed(z) + p
  <2>1. a \in Int /\ b \in Int /\ 0 <= a /\ a < 146097 /\ 0 <= b /\ b < 146097
    BY <1>0, <1>1, <1>2, SMT DEF Within
  <2>2. e * 146097 + a = f * 146097 + b
    BY <1>0, <1>1, SMT DEF Within
  <2> HIDE DEF a, b
  <2>3. e = f /\ a = b
    BY <2>1, <2>2, SMT
  <2> QED
    BY <2>3, SMT DEF a, b
<1>4. y = z /\ o = p
  <2>1. ~(y < z)
    BY <1>0, <1>1, <1>3, YearsApart, SMT DEF Within
  <2>2. ~(z < y)
    BY <1>0, <1>1, <1>3, YearsApart, SMT DEF Within
  <2> QED
    BY <1>0, <1>1, <1>3, <2>1, <2>2, SMT DEF Within
<1>5. m = n
  <2>1. /\ MonthStart(m) \in Int /\ MonthStart(m + 1) \in Int
        /\ MonthStart(n) \in Int /\ MonthStart(n + 1) \in Int
    BY <1>0, PartTypes DEF Within
  <2>2. ~(m < n)
    BY <1>0, <1>4, <2>1, MonthsApart, SMT DEF Within
  <2>3. ~(n < m)
    BY <1>0, <1>4, <2>1, MonthsApart, SMT DEF Within
  <2> QED
    BY <1>0, <2>2, <2>3, SMT DEF Within
<1> QED
  BY <1>3, <1>4, <1>5, SMT

LEMMA CivilIs ==
  ASSUME NEW day \in Int, NEW era \in Int, NEW yoe, NEW doy, NEW mp,
         PartsOf(day, era, yoe, doy, mp)
  PROVE  CivilFromDays(day) = Dated(era, yoe, doy, mp)
<1>1. PICK f \in Int, z \in Int, p \in Int, n \in Int :
        PartsOf(day, f, z, p, n) /\ CivilFromDays(day) = Dated(f, z, p, n)
  BY CivilParts
<1>2. era = f /\ yoe = z /\ doy = p /\ mp = n
  BY <1>1, PartsUnique
<1> QED
  BY <1>1, <1>2

\* The months of a year, from March to January, have the days of the
\* calendar; February has what the year leaves it.
YearDays(yoe) == IF yoe = 399 THEN 366 ELSE Elapsed(yoe + 1) - Elapsed(yoe)

LEMMA MonthLength ==
  ASSUME NEW mp \in Int, 0 <= mp, mp < 11, NEW y
  PROVE  DaysInMonth(y, MonthNumber(mp)) = MonthStart(mp + 1) - MonthStart(mp)
<1>1. mp \in 0 .. 10
  OBVIOUS
<1>2. MonthNumber(mp) = IF mp < 10 THEN mp + 3 ELSE mp - 9
  BY <1>1, SMT DEF MonthNumber
<1>3. mp \in {1, 3, 6, 8} => MonthStart(mp + 1) - MonthStart(mp) = 30
  BY <1>1, SMT DEF MonthStart
<1>4. mp \in {0, 2, 4, 5, 7, 9, 10} => MonthStart(mp + 1) - MonthStart(mp) = 31
  BY <1>1, SMT DEF MonthStart
<1> QED
  BY <1>1, <1>2, <1>3, <1>4, SMT DEF DaysInMonth

LEMMA FebruaryLength ==
  ASSUME NEW era \in Int, NEW yoe \in Int, 0 <= yoe, yoe < 400
  PROVE  /\ YearDays(yoe) = 337 + DaysInMonth(yoe + era * 400 + 1, 2)
         /\ YearDays(yoe) \in {365, 366} /\ MonthStart(11) = 337
<1> DEFINE y == yoe + era * 400 + 1
<1>1. YearDays(yoe) = IF Leap(y) THEN 366 ELSE 365
  BY SMTT(60) DEF YearDays, Elapsed, Leap
<1>2. MonthStart(11) = 337
  BY SMT DEF MonthStart
<1>3. DaysInMonth(y, 2) = IF Leap(y) THEN 29 ELSE 28
  BY DEF DaysInMonth
<1> QED
  BY <1>1, <1>2, <1>3

LEMMA WithinYear ==
  ASSUME NEW yoe, NEW doy, NEW mp
  PROVE  Within(yoe, doy, mp) <=>
           /\ yoe \in Int /\ doy \in Int /\ mp \in Int
           /\ 0 <= yoe /\ yoe < 400 /\ 0 <= doy /\ 0 <= mp /\ mp < 12
           /\ doy < YearDays(yoe)
           /\ MonthStart(mp) <= doy /\ doy < MonthStart(mp + 1)
BY PartTypes, SMTT(30) DEF Within, YearDays, Elapsed

\* The date of the day after.
On(y, m, d) == [y |-> y, m |-> m, d |-> d]

LEMMA DayAfterOn ==
  ASSUME NEW y \in Int, NEW m \in Int, NEW d \in Int
  PROVE  DayAfter(On(y, m, d)) =
           IF d < DaysInMonth(y, m) THEN On(y, m, d + 1)
           ELSE IF m < 12 THEN On(y, m + 1, 1) ELSE On(y + 1, 1, 1)
<1> DEFINE r == On(y, m, d)
<1>1. r.y = y /\ r.m = m /\ r.d = d
  BY DEF On
<1>2. [r EXCEPT !.d = @ + 1] = On(y, m, d + 1)
  BY DEF On
<1>3. [r EXCEPT !.m = @ + 1, !.d = 1] = On(y, m + 1, 1)
  <2>1. [r EXCEPT !.m = @ + 1] = On(y, m + 1, d)
    BY DEF On
  <2>2. [On(y, m + 1, d) EXCEPT !.d = 1] = On(y, m + 1, 1)
    BY DEF On
  <2> HIDE DEF r
  <2> QED
    BY <2>1, <2>2, Zenon
<1>4. [y |-> r.y + 1, m |-> 1, d |-> 1] = On(y + 1, 1, 1)
  BY <1>1 DEF On
<1>5. DayAfter(r) =
        IF r.d < DaysInMonth(r.y, r.m) THEN [r EXCEPT !.d = @ + 1]
        ELSE IF r.m < 12 THEN [r EXCEPT !.m = @ + 1, !.d = 1]
        ELSE [y |-> r.y + 1, m |-> 1, d |-> 1]
  BY DEF DayAfter
<1> HIDE DEF r
<1> QED
  BY <1>1, <1>2, <1>3, <1>4, <1>5, Zenon DEF r

YearIs(era, yoe, mp) == yoe + era * 400 + (IF mp < 10 THEN 0 ELSE 1)

LEMMA DateTypes ==
  ASSUME NEW era \in Int, NEW yoe \in Int, NEW mp \in Int
  PROVE  /\ YearIs(era, yoe, mp) \in Int /\ MonthNumber(mp) \in Int
         /\ MonthNumber(mp) = (IF mp < 10 THEN mp + 3 ELSE mp - 9)
BY SMT DEF YearIs, MonthNumber

LEMMA AfterSameMonth ==
  ASSUME NEW era \in Int, NEW yoe \in Int, NEW doy \in Int, NEW mp \in Int,
         Within(yoe, doy, mp), Within(yoe, doy + 1, mp)
  PROVE  DayAfter(Dated(era, yoe, doy, mp)) = Dated(era, yoe, doy + 1, mp)
<1> DEFINE y == YearIs(era, yoe, mp)
           m == MonthNumber(mp)
           d == doy - MonthStart(mp) + 1
           e == doy + 1 - MonthStart(mp) + 1
<1>1. 0 <= mp /\ mp < 12 /\ 0 <= yoe /\ yoe < 400
  BY SMT DEF Within
<1>2. /\ y \in Int /\ m \in Int /\ MonthStart(mp) \in Int
      /\ m = (IF mp < 10 THEN mp + 3 ELSE mp - 9)
  BY PartTypes, DateTypes
<1>dated. Dated(era, yoe, doy, mp) = On(y, m, d)
  BY <1>1, <1>2, SMT DEF Dated, On, YearIs, MonthNumber
<1>3. Dated(era, yoe, doy + 1, mp) = On(y, m, e)
  BY <1>1, <1>2, SMT DEF Dated, On, YearIs, MonthNumber
<1>4. d \in Int /\ e = d + 1
  BY <1>2
<1>5. d < DaysInMonth(y, m)
  <2>1. CASE mp < 11
    <3>1. DaysInMonth(y, m) = MonthStart(mp + 1) - MonthStart(mp)
      BY <1>1, <2>1, MonthLength
    <3>2. doy + 1 < MonthStart(mp + 1) /\ MonthStart(mp + 1) \in Int
      BY PartTypes, SMT DEF Within
    <3> HIDE DEF y, m
    <3> QED
      BY <1>2, <3>1, <3>2, SMT
  <2>2. CASE mp = 11
    <3>1. /\ YearDays(yoe) = 337 + DaysInMonth(yoe + era * 400 + 1, 2)
          /\ YearDays(yoe) \in {365, 366} /\ MonthStart(11) = 337
      BY <1>1, FebruaryLength
    <3>2. doy + 1 < YearDays(yoe)
      BY WithinYear, SMT
    <3>3. y = yoe + era * 400 + 1 /\ m = 2 /\ d = doy - 336
      BY <1>1, <1>2, <2>2, <3>1, SMT DEF YearIs
    <3> HIDE DEF y, m, d
    <3>4. DaysInMonth(y, m) = DaysInMonth(yoe + era * 400 + 1, 2)
      BY <3>3
    <3>5. DaysInMonth(yoe + era * 400 + 1, 2) \in {28, 29}
      BY DEF DaysInMonth
    <3> QED
      BY <3>1, <3>2, <3>3, <3>4, <3>5, SMT
  <2> QED
    BY <1>1, <2>1, <2>2, SMT
<1> HIDE DEF y, m, d, e
<1>6. DayAfter(On(y, m, d)) = On(y, m, d + 1)
  BY <1>2, <1>4, <1>5, DayAfterOn
<1> QED
  BY <1>dated, <1>3, <1>4, <1>6

LEMMA AfterMonth ==
  ASSUME NEW era \in Int, NEW yoe \in Int, NEW doy \in Int, NEW mp \in Int,
         Within(yoe, doy, mp), mp < 11, doy + 1 = MonthStart(mp + 1)
  PROVE  DayAfter(Dated(era, yoe, doy, mp)) = Dated(era, yoe, doy + 1, mp + 1)
<1> DEFINE y == YearIs(era, yoe, mp)
           m == MonthNumber(mp)
           d == doy - MonthStart(mp) + 1
           z == YearIs(era, yoe, mp + 1)
           n == MonthNumber(mp + 1)
           e == doy + 1 - MonthStart(mp + 1) + 1
<1>1. 0 <= mp /\ mp < 12
  BY SMT DEF Within
<1>2. /\ y \in Int /\ m \in Int /\ MonthStart(mp) \in Int
      /\ m = (IF mp < 10 THEN mp + 3 ELSE mp - 9)
  BY PartTypes, DateTypes
<1>dated. Dated(era, yoe, doy, mp) = On(y, m, d)
  BY <1>1, <1>2, SMT DEF Dated, On, YearIs, MonthNumber
<1>3. /\ n = (IF mp + 1 < 10 THEN mp + 1 + 3 ELSE mp + 1 - 9)
      /\ MonthStart(mp + 1) \in Int
  BY PartTypes, SMT DEF MonthNumber
<1>10. Dated(era, yoe, doy + 1, mp + 1) = On(z, n, e)
  BY <1>1, <1>3, SMT DEF Dated, On, YearIs, MonthNumber
<1>4. DaysInMonth(y, m) = MonthStart(mp + 1) - MonthStart(mp)
  BY <1>1, MonthLength
<1>5. d \in Int /\ ~(d < DaysInMonth(y, m)) /\ e = 1
  <2> HIDE DEF y, m
  <2> QED
    BY <1>2, <1>3, <1>4, SMT
<1>6. /\ mp = 9 => m = 12 /\ n = 1 /\ z = y + 1
      /\ mp # 9 => m < 12 /\ n = m + 1 /\ z = y
  BY <1>1, <1>2, <1>3, SMT DEF YearIs
<1> HIDE DEF y, m, d, z, n, e
<1>7. DayAfter(On(y, m, d)) = IF m < 12 THEN On(y, m + 1, 1) ELSE On(y + 1, 1, 1)
  BY <1>2, <1>5, DayAfterOn
<1>8. CASE mp = 9
  <2>1. ~(m < 12)
    BY <1>6, <1>8
  <2> QED
    BY <1>dated, <1>5, <1>6, <1>7, <1>8, <1>10, <2>1
<1>9. CASE mp # 9
  BY <1>dated, <1>5, <1>6, <1>7, <1>9, <1>10
<1> QED
  BY <1>8, <1>9

LEMMA AfterYear ==
  ASSUME NEW era \in Int, NEW yoe \in Int, NEW doy \in Int, NEW mp \in Int,
         Within(yoe, doy, mp), doy + 1 = YearDays(yoe)
  PROVE  DayAfter(Dated(era, yoe, doy, mp)) = On(yoe + era * 400 + 1, 3, 1)
<1> DEFINE y == YearIs(era, yoe, mp)
           m == MonthNumber(mp)
           d == doy - MonthStart(mp) + 1
           z == yoe + era * 400 + 1
<1>1. 0 <= mp /\ mp < 12 /\ 0 <= yoe /\ yoe < 400 /\ doy < MonthStart(mp + 1)
  BY SMT DEF Within
<1>2. /\ YearDays(yoe) = 337 + DaysInMonth(z, 2)
      /\ YearDays(yoe) \in {365, 366} /\ MonthStart(11) = 337
  BY <1>1, FebruaryLength
<1>3. mp = 11
  <2>1. mp < 11 => MonthStart(mp + 1) <= MonthStart(11)
    BY MonthsApart
  <2>2. MonthStart(mp + 1) \in Int
    BY PartTypes
  <2> QED
    BY <1>1, <1>2, <2>1, <2>2, SMT
<1>4. /\ y \in Int /\ m \in Int /\ MonthStart(mp) \in Int
      /\ m = (IF mp < 10 THEN mp + 3 ELSE mp - 9)
  BY PartTypes, DateTypes
<1>dated. Dated(era, yoe, doy, mp) = On(y, m, d)
  BY <1>1, <1>4, SMT DEF Dated, On, YearIs, MonthNumber
<1>5. y = z /\ m = 2 /\ d = doy - 336
  BY <1>2, <1>3, <1>4, SMT DEF YearIs
<1>6. DaysInMonth(z, 2) \in {28, 29}
  BY DEF DaysInMonth
<1> HIDE DEF y, m, d, z
<1>7. DaysInMonth(y, m) = DaysInMonth(z, 2)
  BY <1>5
<1>8. d \in Int /\ ~(d < DaysInMonth(y, m)) /\ m < 12 /\ m + 1 = 3
  BY <1>2, <1>5, <1>6, <1>7, SMT
<1>9. DayAfter(On(y, m, d)) = On(y, m + 1, 1)
  BY <1>4, <1>8, DayAfterOn
<1> QED
  BY <1>dated, <1>5, <1>8, <1>9 DEF z

LEMMA DayFollows ==
  ASSUME NEW day \in Int
  PROVE  CivilFromDays(day + 1) = DayAfter(CivilFromDays(day))
<1>1. PICK era \in Int, yoe \in Int, doy \in Int, mp \in Int :
        /\ PartsOf(day, era, yoe, doy, mp)
        /\ CivilFromDays(day) = Dated(era, yoe, doy, mp)
  BY CivilParts
<1>2. /\ Within(yoe, doy, mp) /\ day + 1 \in Int
      /\ day + 719468 = era * 146097 + Elapsed(yoe) + doy
      /\ Elapsed(yoe) \in Int /\ Elapsed(yoe + 1) \in Int
      /\ MonthStart(mp) \in Int /\ MonthStart(mp + 1) \in Int
  BY <1>1, PartTypes, SMT DEF PartsOf
<1>3. /\ 0 <= yoe /\ yoe < 400 /\ 0 <= doy /\ 0 <= mp /\ mp < 12
      /\ doy < YearDays(yoe)
      /\ MonthStart(mp) <= doy /\ doy < MonthStart(mp + 1)
  BY <1>2, WithinYear, SMT
<1>4. YearDays(yoe) \in {365, 366} /\ MonthStart(12) = 367
  BY <1>3, FebruaryLength, SMT DEF MonthStart
<1>5. CASE doy + 1 < YearDays(yoe) /\ doy + 1 < MonthStart(mp + 1)
  <2>1. Within(yoe, doy + 1, mp)
    BY <1>2, <1>3, <1>5, WithinYear, SMT
  <2>2. PartsOf(day + 1, era, yoe, doy + 1, mp)
    BY <1>2, <2>1, SMT DEF PartsOf
  <2>3. CivilFromDays(day + 1) = Dated(era, yoe, doy + 1, mp)
    BY <1>2, <2>1, <2>2, CivilIs
  <2> QED
    BY <1>1, <1>2, <2>1, <2>3, AfterSameMonth
<1>6. CASE doy + 1 < YearDays(yoe) /\ ~(doy + 1 < MonthStart(mp + 1))
  <2>1. mp < 11 /\ doy + 1 = MonthStart(mp + 1)
    BY <1>2, <1>3, <1>4, <1>6, SMT
  <2>2. MonthStart(mp + 1) < MonthStart(mp + 2) /\ MonthStart(mp + 2) \in Int
    BY <1>3, PartTypes, SMT DEF MonthStart
  <2>3. Within(yoe, doy + 1, mp + 1)
    BY <1>2, <1>3, <1>6, <2>1, <2>2, WithinYear, SMT
  <2>4. PartsOf(day + 1, era, yoe, doy + 1, mp + 1)
    BY <1>2, <2>3, SMT DEF PartsOf
  <2>5. CivilFromDays(day + 1) = Dated(era, yoe, doy + 1, mp + 1)
    BY <1>2, <2>3, <2>4, CivilIs
  <2> QED
    BY <1>1, <1>2, <2>1, <2>5, AfterMonth
<1>7. CASE doy + 1 = YearDays(yoe)
  <2> DEFINE e == IF yoe = 399 THEN era + 1 ELSE era
             y == IF yoe = 399 THEN 0 ELSE yoe + 1
  <2>1. e \in Int /\ y \in Int /\ 0 <= y /\ y < 400
    BY <1>3
  <2>2. YearDays(y) \in {365, 366}
    BY <2>1, FebruaryLength
  <2>3. MonthStart(0) = 0 /\ MonthStart(1) = 31
    BY SMT DEF MonthStart
  <2>4. Within(y, 0, 0)
    <3> HIDE DEF y
    <3> QED
      BY <2>1, <2>2, <2>3, WithinYear, SMT
  <2>5. day + 1 + 719468 = e * 146097 + Elapsed(y) + 0
    BY <1>2, <1>3, <1>7, SMT DEF YearDays, Elapsed
  <2>6. /\ Dated(e, y, 0, 0) = On(y + e * 400, 3, 1)
        /\ y + e * 400 = yoe + era * 400 + 1
    BY <1>3, <2>3, SMT DEF Dated, On, MonthNumber
  <2> HIDE DEF e, y
  <2>7. PartsOf(day + 1, e, y, 0, 0)
    BY <2>4, <2>5, SMT DEF PartsOf
  <2>8. CivilFromDays(day + 1) = Dated(e, y, 0, 0)
    BY <1>2, <2>1, <2>4, <2>7, CivilIs
  <2>9. DayAfter(CivilFromDays(day)) = On(yoe + era * 400 + 1, 3, 1)
    BY <1>1, <1>2, <1>7, AfterYear
  <2> QED
    BY <2>6, <2>8, <2>9
<1>8. doy + 1 < YearDays(yoe) \/ doy + 1 = YearDays(yoe)
  BY <1>3, <1>4, SMT
<1> QED
  BY <1>5, <1>6, <1>7, <1>8

\* impulse_days_from_civil is the inverse.
LEMMA DaysInvert ==
  ASSUME NEW day \in Int
  PROVE  LET date == CivilFromDays(day)
         IN  DaysFromCivil(date.y, date.m, date.d) = day
<1>1. PICK era \in Int, yoe \in Int, doy \in Int, mp \in Int :
        /\ PartsOf(day, era, yoe, doy, mp)
        /\ CivilFromDays(day) = Dated(era, yoe, doy, mp)
  BY CivilParts
<1>2. /\ 0 <= yoe /\ yoe < 400 /\ 0 <= mp /\ mp < 12
      /\ day + 719468 = era * 146097 + Elapsed(yoe) + doy
  BY <1>1, SMT DEF PartsOf, Within
<1> DEFINE y == YearIs(era, yoe, mp)
           m == MonthNumber(mp)
           d == doy - MonthStart(mp) + 1
<1>3. CivilFromDays(day) = On(y, m, d)
  BY <1>1, <1>2, PartTypes, SMT DEF Dated, On, YearIs, MonthNumber
<1>4. DaysFromCivil(y, m, d) = day
  <2>1. y \in Int /\ m = (IF mp < 10 THEN mp + 3 ELSE mp - 9)
    BY DateTypes
  <2>2. m + (IF m > 2 THEN -3 ELSE 9) = mp
    BY <1>2, <2>1, SMT
  <2>3. (IF m <= 2 THEN y - 1 ELSE y) = yoe + era * 400
    BY <1>2, <2>1, SMT DEF YearIs
  <2>4. (yoe + era * 400) \div 400 = era
    BY <1>2, SMT
  <2>5. (153 * mp + 2) \div 5 + d - 1 = doy
    BY PartTypes, SMT DEF MonthStart
  <2>6. Elapsed(yoe) = yoe * 365 + yoe \div 4 - yoe \div 100
    BY <1>2, SMT DEF Elapsed
  <2> HIDE DEF y, m, d
  <2>7. DaysFromCivil(y, m, d) =
          era * 146097
          + ((yoe + era * 400 - era * 400) * 365
             + (yoe + era * 400 - era * 400) \div 4
             - (yoe + era * 400 - era * 400) \div 100 + doy) - 719468
    BY <2>2, <2>3, <2>4, <2>5, SMT DEF DaysFromCivil
  <2>8. yoe + era * 400 - era * 400 = yoe
    BY SMT
  <2> QED
    BY <1>2, <2>6, <2>7, <2>8, SMT
<1>5. On(y, m, d).y = y /\ On(y, m, d).m = m /\ On(y, m, d).d = d
  BY DEF On
<1> HIDE DEF y, m, d
<1> QED
  BY <1>3, <1>4, <1>5

LEMMA WeekFollows ==
  ASSUME NEW day \in Int
  PROVE  DayOfWeek(day + 1) = (DayOfWeek(day) % 7) + 1
BY SMT DEF DayOfWeek

LEMMA Epoch == CivilFromDays(0) = On(1970, 1, 1) /\ DayOfWeek(0) = 4
BY SMT DEF CivilFromDays, On, DayOfWeek

\* The instant of the walk is one.
Instant == zone \in Zones /\ zone \in Int /\ now \in Int

LEMMA InstantAlways == Spec => []Instant
<1>1. Init => Instant
  <2> SUFFICES ASSUME Init PROVE Instant
    OBVIOUS
  <2>1. first \in Int /\ zone \in Zones /\ zone \in Int /\ DayMinutes \in Int
    BY CalendarAssumption, ScheduleAssumption DEF Init, Dawn
  <2>2. now = first * DayMinutes - zone
    BY DEF Init, Dawn, UtcFromLocalMidnight
  <2> QED
    BY <2>1, <2>2 DEF Instant
<1>2. Instant /\ [Next]_vars => Instant'
  BY DEF Instant, Next, vars, Tick, Walk, Create, Edit
<1> QED
  BY <1>1, <1>2, PTL DEF Spec

LEMMA DayTypes ==
  ASSUME NEW utc \in Int, NEW tz \in Int
  PROVE  /\ LocalDay(utc, tz) \in Int /\ LocalMinute(utc, tz) \in Int
         /\ 0 <= LocalMinute(utc, tz) /\ LocalMinute(utc, tz) < DayMinutes
         /\ utc + tz = DayMinutes * LocalDay(utc, tz) + LocalMinute(utc, tz)
<1>1. DayMinutes \in Nat \ {0}
  BY ScheduleAssumption
<1> QED
  BY <1>1, SMT DEF LocalDay, LocalMinute

\* The civil dates that the code computes are those of the calendar, whatever
\* the day: one after the other, with the leap days and without those of three
\* century years in four, and the days of the week with them.
THEOREM CalendarAlwaysFollows == Spec => []CalendarFollows
<1>1. Instant => CalendarFollows
  <2> SUFFICES ASSUME Instant PROVE CalendarFollows
    OBVIOUS
  <2> DEFINE day == Day
  <2>1. day \in Int
    BY DayTypes DEF Instant, Day
  <2> HIDE DEF day
  <2>2. /\ CivilFromDays(day + 1) = DayAfter(CivilFromDays(day))
        /\ DayOfWeek(day + 1) = (DayOfWeek(day) % 7) + 1
    BY <2>1, DayFollows, WeekFollows
  <2>3. DaysFromCivil(CivilFromDays(day).y, CivilFromDays(day).m, CivilFromDays(day).d) = day
    BY <2>1, DaysInvert
  <2>4. day = 0 => CivilFromDays(day) = On(1970, 1, 1) /\ DayOfWeek(day) = 4
    BY Epoch, SMT
  <2> QED
    BY <2>2, <2>3, <2>4, SMT DEF CalendarFollows, day, On
<1> QED
  BY <1>1, InstantAlways, PTL

-----------------------------------------------------------------------------
(* The next start.                                                         *)

\* A non-empty set of days ahead has a least one.
LEMMA LeastExists ==
  ASSUME NEW S \in SUBSET Nat, S # {}
  PROVE  Min(S) \in S /\ \A x \in S : Min(S) <= x
<1>1. PICK x \in S : \A y \in S : ~(<<y, x>> \in OpToRel(<, Nat))
  BY NatLessThanWellFounded, WFMin
<1>2. \A y \in S : ~(y < x)
  BY <1>1 DEF OpToRel
<1>3. \A y \in S : x <= y
  BY <1>2
<1> QED
  BY <1>3 DEF Min

LEMMA ProductGrows ==
  ASSUME NEW n \in Nat, NEW a \in Int, NEW b \in Int, a <= b
  PROVE  n * a <= n * b /\ n * a \in Int /\ n * b \in Int
BY SMT

LEMMA Distributes ==
  ASSUME NEW n \in Int, NEW a \in Int, NEW b \in Int
  PROVE  n * (a + b) = n * a + n * b /\ n * a \in Int /\ n * b \in Int
BY SMT

LEMMA QuotientIs ==
  ASSUME NEW n \in Nat \ {0}, NEW q \in Int, NEW r \in 0 .. n - 1
  PROVE  (n * q + r) \div n = q /\ (n * q + r) % n = r
BY SMT

\* An event starts at its start minute of the days it occurs on: s minutes
\* ahead is that minute of some day o ahead.
Ahead(e, o) == DayMinutes * o + e.start - LocalMinute(now, zone)

LEMMA StartOfDay ==
  ASSUME Instant, NEW e \in Samples, NEW o \in Int
  PROVE  /\ Ahead(e, o) \in Int
         /\ StartsAt(e, now + Ahead(e, o)) <=> OccursOn(e, Day + o, zone)
<1> DEFINE minute == LocalMinute(now, zone)
<1>1. /\ DayMinutes \in Nat \ {0} /\ DayMinutes \in Int
      /\ e.start \in 0 .. DayMinutes - 1 /\ zone \in Int /\ now \in Int
  BY ScheduleAssumption, CalendarAssumption DEF Instant
<1>2. /\ Day \in Int /\ minute \in Int
      /\ now + zone = DayMinutes * Day + minute
  BY <1>1, DayTypes DEF Day
<1>3. /\ DayMinutes * (Day + o) = DayMinutes * Day + DayMinutes * o
      /\ DayMinutes * Day \in Int /\ DayMinutes * o \in Int
  BY <1>1, <1>2, Distributes
<1> HIDE DEF minute
<1>4. Ahead(e, o) = DayMinutes * o + e.start - minute
  BY DEF Ahead, minute
<1>5. /\ Ahead(e, o) \in Int
      /\ now + Ahead(e, o) + zone = DayMinutes * (Day + o) + e.start
  BY <1>1, <1>2, <1>3, <1>4
<1>6. /\ (DayMinutes * (Day + o) + e.start) \div DayMinutes = Day + o
      /\ (DayMinutes * (Day + o) + e.start) % DayMinutes = e.start
  <2>1. Day + o \in Int
    BY <1>2
  <2> QED
    BY <1>1, <2>1, QuotientIs
<1>7. /\ LocalDay(now + Ahead(e, o), zone) = Day + o
      /\ LocalMinute(now + Ahead(e, o), zone) = e.start
  BY <1>5, <1>6 DEF LocalDay, LocalMinute
<1> QED
  BY <1>5, <1>7 DEF StartsAt

LEMMA StartIsOfADay ==
  ASSUME Instant, NEW e \in Samples, NEW s \in Int, StartsAt(e, now + s)
  PROVE  \E o \in Int : s = Ahead(e, o) /\ OccursOn(e, Day + o, zone)
<1> DEFINE minute == LocalMinute(now, zone)
           there  == LocalDay(now + s, zone)
           o      == there - Day
<1>1. /\ DayMinutes \in Int /\ zone \in Int /\ now \in Int
      /\ now + s \in Int /\ e.start \in Int
  BY ScheduleAssumption, CalendarAssumption DEF Instant
<1>2. /\ Day \in Int /\ minute \in Int
      /\ now + zone = DayMinutes * Day + minute
  BY <1>1, DayTypes DEF Day
<1>3. /\ there \in Int /\ LocalMinute(now + s, zone) \in Int
      /\ now + s + zone = DayMinutes * there + LocalMinute(now + s, zone)
  BY <1>1, DayTypes
<1>4. LocalMinute(now + s, zone) = e.start /\ OccursOn(e, there, zone)
  BY DEF StartsAt
<1> HIDE DEF there, minute
<1>5. o \in Int /\ Day + o = there
  BY <1>2, <1>3
<1>6. /\ DayMinutes * there = DayMinutes * Day + DayMinutes * o
      /\ DayMinutes * Day \in Int /\ DayMinutes * o \in Int
  BY <1>1, <1>2, <1>5, Distributes
<1> HIDE DEF o
<1>7. s = DayMinutes * o + e.start - minute
  <2>1. now + s + zone = DayMinutes * Day + DayMinutes * o + e.start
    BY <1>3, <1>4, <1>6
  <2> HIDE DEF o
  <2> DEFINE p == DayMinutes * Day
             q == DayMinutes * o
  <2>2. p \in Int /\ q \in Int /\ now + s + zone = p + q + e.start
    BY <1>6, <2>1
  <2>3. now + zone = p + minute
    BY <1>2
  <2> HIDE DEF p, q
  <2>4. s = q + e.start - minute
    BY <1>1, <1>2, <2>2, <2>3
  <2> QED
    BY <2>4 DEF q
<1>8. s = Ahead(e, o)
  BY <1>7 DEF Ahead, minute
<1> QED
  BY <1>4, <1>5, <1>8

\* The days that can hold a start within the search.
LEMMA SearchedDays ==
  ASSUME Instant, NEW e \in Samples, NEW o \in Int,
         Ahead(e, o) \in 1 .. SearchDays * DayMinutes - LocalMinute(now, zone) - 1
  PROVE  /\ o \in 0 .. SearchDays - 1
         /\ ~(o = 0 /\ LocalMinute(now, zone) >= e.start)
<1> DEFINE minute == LocalMinute(now, zone)
<1>1. /\ DayMinutes \in Nat \ {0} /\ SearchDays \in Int /\ SearchDays > 0
      /\ e.start \in Int /\ 0 <= e.start /\ e.start < DayMinutes
  BY ScheduleAssumption, CalendarAssumption
<1>2. minute \in Int /\ 0 <= minute /\ minute < DayMinutes
  BY DayTypes DEF Instant
<1>3. Ahead(e, o) = DayMinutes * o + e.start - minute
  BY DEF Ahead
<1>4. DayMinutes * o \in Int /\ DayMinutes * SearchDays \in Int
  BY <1>1
<1>5. SearchDays * DayMinutes = DayMinutes * SearchDays
  BY <1>1, SMT
<1>6. /\ DayMinutes * o + e.start - minute >= 1
      /\ DayMinutes * o + e.start - minute <= DayMinutes * SearchDays - minute - 1
  <2> HIDE DEF minute
  <2>1. Ahead(e, o) \in 1 .. DayMinutes * SearchDays - minute - 1
    BY <1>5 DEF minute
  <2> QED
    BY <1>1, <1>2, <1>3, <1>4, <2>1
<1> HIDE DEF minute
<1>7. o >= 0
  <2> SUFFICES ASSUME o <= -1 PROVE FALSE
    OBVIOUS
  <2>1. DayMinutes * o <= DayMinutes * (-1) /\ DayMinutes * (-1) = -DayMinutes
    BY <1>1, SMT
  <2> QED
    BY <1>1, <1>2, <1>4, <1>6, <2>1
<1>8. o < SearchDays
  <2> SUFFICES ASSUME SearchDays <= o PROVE FALSE
    BY <1>1
  <2>1. DayMinutes * SearchDays <= DayMinutes * o
    BY <1>1, ProductGrows
  <2> QED
    BY <1>1, <1>2, <1>4, <1>6, <2>1
<1>9. ~(o = 0 /\ minute >= e.start)
  <2> SUFFICES ASSUME o = 0, minute >= e.start PROVE FALSE
    OBVIOUS
  <2>1. DayMinutes * o = 0
    BY <1>1, SMT
  <2> QED
    BY <1>1, <1>2, <1>6, <2>1
<1> QED
  BY <1>1, <1>7, <1>8, <1>9 DEF minute

LEMMA AheadIsWithin ==
  ASSUME Instant, NEW e \in Samples, NEW o \in 0 .. SearchDays - 1,
         ~(o = 0 /\ LocalMinute(now, zone) >= e.start)
  PROVE  Ahead(e, o) \in 1 .. SearchDays * DayMinutes - LocalMinute(now, zone) - 1
<1> DEFINE minute == LocalMinute(now, zone)
<1>1. /\ DayMinutes \in Nat \ {0} /\ SearchDays \in Int /\ SearchDays > 0
      /\ e.start \in Int /\ 0 <= e.start /\ e.start < DayMinutes
  BY ScheduleAssumption, CalendarAssumption
<1>2. minute \in Int /\ 0 <= minute /\ minute < DayMinutes
  BY DayTypes DEF Instant
<1>3. Ahead(e, o) = DayMinutes * o + e.start - minute
  BY DEF Ahead
<1>4. o \in Int /\ 0 <= o /\ o <= SearchDays - 1 /\ SearchDays - 1 \in Int
  BY <1>1
<1>5. /\ DayMinutes * o <= DayMinutes * (SearchDays - 1)
      /\ DayMinutes * o \in Int /\ DayMinutes * (SearchDays - 1) \in Int
  BY <1>1, <1>4, ProductGrows
<1>6. DayMinutes * (SearchDays - 1) = SearchDays * DayMinutes - DayMinutes
  BY <1>1, SMT
<1>7. SearchDays * DayMinutes \in Int
  BY <1>1, SMT
<1>8. o > 0 => DayMinutes <= DayMinutes * o
  BY <1>1, <1>4, SMT
<1>9. o = 0 => DayMinutes * o = 0 /\ e.start > minute
  BY <1>1, <1>2, SMT
<1> HIDE DEF minute
<1>10. Ahead(e, o) >= 1
  BY <1>1, <1>2, <1>3, <1>4, <1>5, <1>8, <1>9
<1>11. Ahead(e, o) <= SearchDays * DayMinutes - minute - 1
  BY <1>1, <1>2, <1>3, <1>4, <1>5, <1>6, <1>7
<1>12. Ahead(e, o) \in Int
  BY <1>1, <1>2, <1>3, <1>5
<1> QED
  BY <1>2, <1>7, <1>10, <1>11, <1>12 DEF minute

\* The search of impulse_seconds_until_next_start answers with the first start
\* strictly ahead, for every event, instant and timezone; when it says "never",
\* no minute of the days it searched is one.
THEOREM NextStartAlwaysNext == Spec => []NextStartIsNext
<1>1. Instant => NextStartIsNext
  <2> SUFFICES ASSUME Instant, NEW e \in Samples
               PROVE  LET wait  == NextStart(e, now, zone)
                          limit == SearchDays * DayMinutes - LocalMinute(now, zone) - 1
                      IN  IF wait = Never
                          THEN \A s \in 1 .. limit : ~StartsAt(e, now + s)
                          ELSE /\ wait \in 1 .. limit /\ StartsAt(e, now + wait)
                               /\ \A s \in 1 .. wait - 1 : ~StartsAt(e, now + s)
    BY DEF NextStartIsNext
  <2> DEFINE wait  == NextStart(e, now, zone)
             limit == SearchDays * DayMinutes - LocalMinute(now, zone) - 1
             ahead == {o \in 0 .. SearchDays - 1 :
                         /\ OccursOn(e, Day + o, zone)
                         /\ ~(o = 0 /\ LocalMinute(now, zone) >= e.start)}
  <2>1. /\ DayMinutes \in Nat \ {0} /\ DayMinutes \in Int /\ SearchDays \in Int
        /\ now \in Int /\ zone \in Int
        /\ SearchDays * DayMinutes \in Int /\ SearchDays * DayMinutes <= Never
    BY ScheduleAssumption, CalendarAssumption, SMT DEF Instant
  <2>2. /\ Day \in Int /\ LocalMinute(now, zone) \in Int
        /\ 0 <= LocalMinute(now, zone)
        /\ now + zone = DayMinutes * Day + LocalMinute(now, zone)
    BY <2>1, DayTypes DEF Day
  <2>3. limit \in Int /\ limit < Never
    BY <2>1, <2>2, SMT DEF Never
  <2>4. ASSUME NEW s \in 1 .. limit, StartsAt(e, now + s)
        PROVE  \E o \in ahead : s = Ahead(e, o)
    <3>1. s \in Int
      OBVIOUS
    <3>2. PICK o \in Int : s = Ahead(e, o) /\ OccursOn(e, Day + o, zone)
      BY <2>4, <3>1, StartIsOfADay
    <3>3. o \in ahead
      BY <3>2, SearchedDays
    <3> QED
      BY <3>2, <3>3
  <2>5. CASE ahead = {}
    <3>1. wait = Never
      BY <2>5 DEF NextStart, Day
    <3> HIDE DEF wait, limit, ahead
    <3>2. \A s \in 1 .. limit : ~StartsAt(e, now + s)
      BY <2>4, <2>5
    <3> QED
      BY <3>1, <3>2 DEF wait, limit
  <2>6. CASE ahead # {}
    <3> DEFINE least == Min(ahead)
    <3>1. least \in ahead /\ \A o \in ahead : least <= o
      <4>1. ahead \in SUBSET Nat
        OBVIOUS
      <4> HIDE DEF ahead
      <4> QED
        BY <2>6, <4>1, LeastExists
    <3>2. /\ least \in 0 .. SearchDays - 1 /\ least \in Int
          /\ OccursOn(e, Day + least, zone)
          /\ ~(least = 0 /\ LocalMinute(now, zone) >= e.start)
      <4> HIDE DEF least
      <4> QED
        BY <3>1
    <3>3. wait = UtcFromLocalMidnight(Day + least, zone) + e.start - now
      BY <2>6 DEF NextStart, Day
    <3> HIDE DEF least, ahead, wait
    <3>4. wait = Ahead(e, least)
      <4> DEFINE p == DayMinutes * Day
                 q == DayMinutes * least
                 midnight == (Day + least) * DayMinutes
      <4>1. DayMinutes * (Day + least) = p + q /\ p \in Int /\ q \in Int
        BY <2>1, <2>2, <3>2, Distributes
      <4>2. midnight = p + q
        <5>1. (Day + least) * DayMinutes = DayMinutes * (Day + least)
          BY <2>1, <2>2, <3>2, SMT
        <5> QED
          BY <4>1, <5>1, Zenon
      <4>3. now + zone = p + LocalMinute(now, zone)
        BY <2>2
      <4>4. Ahead(e, least) = q + e.start - LocalMinute(now, zone)
        BY DEF Ahead
      <4>5. wait = midnight - zone + e.start - now
        BY <3>3 DEF UtcFromLocalMidnight
      <4>6. e.start \in Int
        BY <2>1, CalendarAssumption
      <4> HIDE DEF p, q, midnight
      <4> QED
        BY <2>1, <2>2, <4>1, <4>2, <4>3, <4>4, <4>5, <4>6
    <3>5. wait \in 1 .. limit /\ wait \in Int
      BY <3>2, <3>4, AheadIsWithin
    <3>6. StartsAt(e, now + wait)
      BY <3>2, <3>4, StartOfDay
    <3>7. \A s \in 1 .. wait - 1 : ~StartsAt(e, now + s)
      <4> SUFFICES ASSUME NEW s \in 1 .. wait - 1, StartsAt(e, now + s)
                   PROVE  FALSE
        OBVIOUS
      <4> HIDE DEF limit
      <4>1. s \in 1 .. limit /\ s \in Int /\ s < wait
        BY <2>3, <3>5
      <4>2. PICK o \in ahead : s = Ahead(e, o)
        BY <2>4, <4>1
      <4>3. least <= o /\ o \in Int
        BY <3>1, <4>2 DEF ahead
      <4>4. /\ DayMinutes * least <= DayMinutes * o
            /\ DayMinutes * least \in Int /\ DayMinutes * o \in Int
        BY <2>1, <3>2, <4>3, ProductGrows
      <4>5. e.start \in Int
        BY <2>1, CalendarAssumption
      <4> QED
        BY <2>2, <3>4, <4>1, <4>2, <4>4, <4>5 DEF Ahead
    <3>8. wait # Never
      <4> HIDE DEF limit
      <4> QED
        BY <2>3, <3>5, SMT DEF Never
    <3> QED
      BY <3>5, <3>6, <3>7, <3>8 DEF wait, limit
  <2> QED
    BY <2>5, <2>6
<1> QED
  BY <1>1, InstantAlways, PTL

=============================================================================
