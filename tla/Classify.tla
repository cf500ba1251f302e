------------------------------ MODULE Classify ------------------------------
(***************************************************************************)
(* The canonical tighten / loosen classification (integrity/classify.c):   *)
(* does a proposed event bind at least as hard as the one it replaces?     *)
(*                                                                         *)
(* Every field is compared by a relation of the new value to the old one;  *)
(* the change tightens only if no field shrinks or is incomparable.        *)
(***************************************************************************)
EXTENDS Schedule

CONSTANT None  \* an absent anchor, an empty SSID

NoBeep == 255       \* IMPULSE_ANCHOR_PROFILE_NONE
ProfileCount == 9   \* IMPULSE_PROFILE_COUNT

Relations == {"equal", "superset", "subset", "incomparable"}

\* The relation of a field that a total order compares.
RelOrdered(old, new) == IF new = old THEN "equal"
                        ELSE IF new > old THEN "superset" ELSE "subset"

\* The relation of a field any change of which is another commitment.
RelNominal(old, new) == IF new = old THEN "equal" ELSE "incomparable"

(***************************************************************************)
(* Profiles: strictness (0 strict .. 2 loose) and output (0 silent,        *)
(* 1 both, 2 buzz) are independent; both dominates silent and buzz, which  *)
(* are not ordered.                                                        *)
(***************************************************************************)
Strictness(p) == 2 - (p % 3)
Output(p)     == p \div 3

\* Mutant: the outputs are ordered as the enumeration lists them.
OutputByRank(old, new) ==
  CASE Output(old) = Output(new) -> 0
    [] Output(new) > Output(old) -> 1
    [] OTHER -> -1

\* 1, 0 or -1 as the new output is wider, the same or narrower.
OutputOrder(old, new) ==
  CASE Output(old) = Output(new) -> 0
    [] Output(old) # 1 /\ Output(new) = 1 -> 1
    [] OTHER -> -1

RelProfile(old, new) ==
  LET sideways == {Output(old), Output(new)} = {0, 2}
      out == OutputOrder(old, new)
      str == Strictness(new) - Strictness(old)
  IN  CASE old = new -> "equal"
        [] old # new /\ (\/ old >= ProfileCount \/ new >= ProfileCount
                         \/ sideways) -> "incomparable"
        [] OTHER -> IF str >= 0 /\ out >= 0 THEN "superset"
                    ELSE IF str <= 0 /\ out <= 0 THEN "subset"
                    ELSE "incomparable"

\* A longer window binds harder; a shifted one is incomparable.
RelWindow(old, new) ==
  IF old.start = new.start /\ old.end = new.end THEN "equal"
  ELSE IF new.start <= old.start /\ new.end >= old.end THEN "superset"
  ELSE IF new.start >= old.start /\ new.end <= old.end THEN "subset"
  ELSE "incomparable"

\* Mutant: two rules of one kind are taken to be the same rule.
RelRecurrenceKind(old, new, tz) ==
  IF old.rec = new.rec THEN "equal"
  ELSE IF new.rec = "daily" THEN "superset"
  ELSE IF old.rec = "daily" \/ new.rec = "once" THEN "subset"
  ELSE "incomparable"

\* Daily is the only rule claimed to cover another; a single day is always
\* covered.  The local date of a once event depends on the timezone.
RelRecurrence(old, new, tz) ==
  IF old.rec = new.rec
  THEN CASE old.rec = "daily"   -> "equal"
         [] old.rec = "weekly"  -> RelNominal(old.dow, new.dow)
         [] old.rec = "monthly" -> RelNominal(old.dom, new.dom)
         [] old.rec = "once"    -> RelNominal(LocalDay(old.ref, tz),
                                              LocalDay(new.ref, tz))
  ELSE IF new.rec = "daily" THEN "superset"
  ELSE IF old.rec = "daily" \/ new.rec = "once" THEN "subset"
  ELSE "incomparable"

RelBeepAnchors(old, new) ==
  IF old.beep = new.beep THEN "equal"
  ELSE IF old.beep \subseteq new.beep THEN "superset"
  ELSE IF new.beep \subseteq old.beep THEN "subset"
  ELSE "incomparable"

\* hard > medium > light > none.
RelAnchorProfile(old, new) ==
  LET rank(p) == IF p = NoBeep THEN -1 ELSE p
  IN  RelOrdered(rank(old), rank(new))

\* Turning negate on cancels the day.
RelNegate(old, new) == IF old = new THEN "equal"
                       ELSE IF new THEN "subset" ELSE "superset"

FieldRelations(old, new, tz) ==
  {RelWindow(old, new), RelRecurrence(old, new, tz),
   RelProfile(old.prof, new.prof), RelBeepAnchors(old, new),
   RelNominal(old.crit, new.crit), RelNominal(old.anchor, new.anchor),
   RelNominal(old.ssid, new.ssid), RelAnchorProfile(old.aprof, new.aprof),
   RelOrdered(new.grace, old.grace), RelNegate(old.negate, new.negate)}

\* impulse_classify_modified, for the event `new' that replaces `old'.
ClassifyModified(old, new, tz) ==
  LET rels == FieldRelations(old, new, tz)
  IN  IF old = new THEN "none"
      ELSE IF rels \cap {"subset", "incomparable"} # {} THEN "loosen"
      ELSE IF "superset" \in rels THEN "tighten" ELSE "none"

ClassifyAdded(e) == IF e.negate THEN "loosen" ELSE "tighten"

IsInstant(class) == class \in {"none", "tighten"}

\* The proposed event binds at least as hard as the old one.
AtLeastAsBinding(old, new, tz) == IsInstant(ClassifyModified(old, new, tz))

=============================================================================
