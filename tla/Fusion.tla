------------------------------- MODULE Fusion -------------------------------
(***************************************************************************)
(* A burst of channel-sounding procedures reduced to one measurement       *)
(* (proximity/cs_fuse.c).  Distances are in centimetres, the lines fitted  *)
(* to the estimators in Q8 fixed point; an estimator that produced nothing *)
(* is 0.  The counters that are only logged are left out.                  *)
(***************************************************************************)
EXTENDS Integers, Sequences, TLC

CONSTANTS
  MinAccepted,   \* IMPULSE_CS_BURST_MIN_ACCEPTED
  BurstMax,      \* IMPULSE_CS_BURST_MAX
  SuspectMax     \* where the count of suspected samples saturates

ASSUME FusionAssumption ==
  /\ {MinAccepted, BurstMax, SuspectMax} \subseteq Nat \ {0}
  /\ MinAccepted <= BurstMax

MinValid == 5
MaxValid == 3000
NearField == 55

EmptyBurst == [ifft |-> <<>>, relay |-> 0]

Expected(ifft, slope, offset) == (ifft * slope) \div 256 + offset

\* phase_slope is far from where ifft puts it: the direct path is blocked.
Diverges(raw) ==
  LET want == Expected(raw.ifft, 234, 197)
  IN raw.slope > 0 /\ (raw.slope > want + 250 \/ raw.slope + 250 < want)

\* rtt runs far above its line: something added delay.
Suspect(raw) == raw.rtt > Expected(raw.ifft, 266, 278) + 400

Measures(raw) == raw.ifft \in MinValid .. MaxValid /\ ~Diverges(raw)

\* impulse_cs_burst_add
BurstAdd(b, raw) ==
  IF ~Measures(raw) THEN b
  ELSE IF Suspect(raw)
  THEN [b EXCEPT !.relay = IF @ < SuspectMax THEN @ + 1 ELSE @]
  ELSE [b EXCEPT !.ifft = IF Len(@) < BurstMax THEN Append(@, raw.ifft) ELSE @]

\* median_of
MedianOf(s) ==
  LET t == SortSeq(s, <)
      half == Len(s) \div 2
  IN IF Len(s) % 2 = 1 THEN t[half + 1] ELSE (t[half] + t[half + 1]) \div 2

\* The line that makes ifft a true distance.
TrueDistance(ifft) ==
  IF ifft <= NearField \/ ifft <= 72 THEN 0 ELSE ((ifft - 72) * 256) \div 254

Abstains == [ok |-> FALSE, cm |-> 0]

\* impulse_cs_burst_finish
BurstFinish(b) ==
  IF \/ b.relay > 0 /\ b.relay >= Len(b.ifft)
     \/ Len(b.ifft) < MinAccepted
  THEN Abstains
  ELSE [ok |-> TRUE, cm |-> TrueDistance(MedianOf(b.ifft))]
=============================================================================
