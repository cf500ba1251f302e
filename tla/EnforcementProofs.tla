-------------------------- MODULE EnforcementProofs --------------------------
(***************************************************************************)
(* Proofs about the watch enforcing a commitment, for every schedule, every*)
(* dwell and every time limit: the output follows the criterion, a getAway *)
(* alarm is released on evidence only, and silence counts as away in time. *)
(***************************************************************************)
EXTENDS Enforcement, TLAPS

-----------------------------------------------------------------------------
(* Types.                                                                  *)

Ctx == [active : 0 .. 2, worn : BOOLEAN, met : BOOLEAN, run : Runs,
        prox : ProxState, donning : Nat, phone : 0 .. Tolerance + 1,
        link : Links]

Radio == [heard : BOOLEAN, age : 0 .. LostAway, last : Measured \cup {"none"},
          late : BOOLEAN, unread : BOOLEAN]

LEMMA Sizes ==
  /\ Detect \in Nat \ {0} /\ LostAway \in Nat \ {0} /\ Cooldown \in Nat \ {0}
  /\ Tolerance \in Nat \ {0} /\ PollNotMet \in Nat \ {0}
  /\ PollMet \in Nat \ {0} /\ PollAbstain \in Nat \ {0}
  /\ NearDwell \in Nat \ {0} /\ AwayDwell \in Nat \ {0} /\ AbstainMax \in Nat
  /\ Detect < LostAway /\ LostAway < Cooldown
  /\ PollAbstain <= PollNotMet /\ PollNotMet <= PollMet
BY EnforcementAssumption, ProximityAssumption

LEMMA CommitmentTypes == Commitments \subseteq Commitment
BY EnforcementAssumption DEF Commitments

LEMMA EventType ==
  ASSUME TypeOK, Enforcing
  PROVE  /\ Event \in Commitment /\ Event \in Commitments
         /\ ctx.active \in 1 .. 2
<1>1. ctx.active \in 0 .. 2 /\ ctx.active # 0
  BY DEF TypeOK, Enforcing
<1>2. ctx.active \in 1 .. 2
  BY <1>1
<1> QED
  BY <1>2, CommitmentTypes DEF TypeOK, Event

LEMMA UpToType ==
  ASSUME NEW bound \in Nat, NEW n \in 0 .. bound
  PROVE  /\ UpTo(bound, n) \in 0 .. bound
         /\ n <= UpTo(bound, n) /\ UpTo(bound, n) <= n + 1
         /\ n < bound => UpTo(bound, n) = n + 1
         /\ n = bound => UpTo(bound, n) = bound
BY DEF UpTo

LEMMA IngestType ==
  ASSUME NEW p \in ProxState, NEW m \in Measured \cup {"none"}
  PROVE  Ingest(p, m) \in ProxState
<1>0. /\ UpTo(NearDwell, p.nearRun) \in 0 .. NearDwell
      /\ UpTo(AwayDwell, p.awayRun) \in 0 .. AwayDwell
      /\ UpTo(AbstainMax + 1, p.abstain) \in 0 .. AbstainMax + 1
      /\ 0 \in 0 .. NearDwell /\ 0 \in 0 .. AwayDwell /\ 0 \in 0 .. AbstainMax + 1
      /\ p.near \in BOOLEAN /\ p.have \in BOOLEAN
  BY Sizes, UpToType DEF ProxState
<1>1. CASE m = "near"
  BY <1>0, <1>1 DEF Ingest, IngestNear, ProxState
<1>2. CASE m = "far"
  BY <1>0, <1>2 DEF Ingest, IngestFar, ProxState
<1>3. CASE m = "band"
  BY <1>0, <1>3 DEF Ingest, ProxState
<1>4. CASE m = "none"
  BY <1>0, <1>4 DEF Ingest, ProxState
<1> QED
  BY <1>1, <1>2, <1>3, <1>4 DEF Measured

LEMMA ForceAwayType ==
  ASSUME NEW p \in ProxState
  PROVE  /\ ForceAway(p) \in ProxState /\ NoVerdict \in ProxState
         /\ ForceAway(p).have /\ ~ForceAway(p).near /\ ~NoVerdict.near
         /\ ForceAway(p).awayRun = 0 /\ NoVerdict.awayRun = 0
<1>1. /\ NoVerdict \in ProxState /\ ~NoVerdict.near /\ NoVerdict.awayRun = 0
  BY Sizes DEF NoVerdict, ProxState
<1>2. ForceAway(p) = [NoVerdict EXCEPT !.have = TRUE]
  BY DEF ForceAway
<1> QED
  BY <1>1, <1>2 DEF ProxState

\* What a burst does to a verdict of near.
LEMMA IngestNumbers ==
  ASSUME NEW p \in ProxState, NEW m \in Measured \cup {"none"}
  PROVE  LET q == Ingest(p, m)
         IN  /\ m # "none" => q.abstain = 0
             /\ m = "none" => /\ q.abstain = UpTo(AbstainMax + 1, p.abstain)
                              /\ q.near = p.near /\ q.have = p.have
                              /\ q.awayRun = p.awayRun
             /\ m = "far" => /\ q.awayRun = UpTo(AwayDwell, p.awayRun)
                             /\ q.have = (p.have \/ q.awayRun >= AwayDwell)
                             /\ q.near = (p.near /\ q.awayRun < AwayDwell)
             /\ m \in {"near", "band"} => /\ q.awayRun = 0
                                          /\ p.near => q.near
                                          /\ p.have => q.have
<1>1. CASE m = "near"
  BY <1>1 DEF Ingest, IngestNear, ProxState
<1>2. CASE m = "far"
  <2>1. UpTo(AwayDwell, p.awayRun) \in Nat
    BY Sizes DEF UpTo, ProxState
  <2> QED
    BY <1>2, <2>1, Sizes DEF Ingest, IngestFar, ProxState
<1>3. CASE m = "band"
  BY <1>3 DEF Ingest, ProxState
<1>4. CASE m = "none"
  BY <1>4 DEF Ingest, ProxState
<1> QED
  BY <1>1, <1>2, <1>3, <1>4 DEF Measured

-----------------------------------------------------------------------------
(* The stages of a pass.                                                   *)

\* Nothing speaks for near: silence, no verdict yet, or the verdict away.
NotNear(p) == InFailsafe(p) \/ ~p.have \/ ~p.near

\* Output runs just when the criterion is not met; a loop runs for a profile
\* that has steps, or that was the one of another event.
Sound(c) ==
  /\ c \in Ctx
  /\ c.met <=> c.run = "off"
  /\ c.run \in {"on", "wait"} /\ Event.steady => seen.moved

\* The criterion has been asked, and the answer kept.
Answered(c) ==
  /\ c.donning > 0 => c.met
  /\ c.donning = 0 /\ Event.crit \in Ranged /\ NotNear(c.prox) =>
       (c.met <=> Event.crit # "stayNear")
  /\ c.donning = 0 /\ Event.crit = "getAway" => (c.met <=> NotNear(c.prox))

SameWatch(c, d) ==
  d.active = c.active /\ d.worn = c.worn /\ d.donning = c.donning

\* A stage asks the criterion, or leaves the verdict alone.
Stage(c, d) ==
  /\ Sound(d) /\ SameWatch(c, d)
  /\ Answered(d) \/ (d.met = c.met /\ d.prox = c.prox)

LEMMA SettleStage ==
  ASSUME NEW c, Sound(c), NEW met \in BOOLEAN, Event \in Commitment
  PROVE  LET d == Settle(c, met)
         IN  /\ Sound(d) /\ SameWatch(c, d) /\ d.met = met
             /\ d.prox = c.prox /\ d.link = c.link
<1> DEFINE r == IF met = c.met THEN c.run ELSE IF met THEN "off" ELSE Begun
<1> DEFINE d == Settle(c, met)
<1>1. c \in Ctx /\ Begun \in {"steady", "on"} /\ (Begun = "on" => ~Event.steady)
  BY DEF Sound, Begun
<1>2. /\ r \in Runs /\ (met <=> r = "off")
      /\ r \in {"on", "wait"} /\ Event.steady => seen.moved
  BY <1>1 DEF Sound, Runs, Ctx
<1>3. d = [c EXCEPT !.met = met, !.run = r]
  BY <1>1 DEF Settle, Ctx
<1> HIDE DEF r, d
<1>4. /\ d \in Ctx /\ d.met = met /\ d.run = r /\ SameWatch(c, d)
      /\ d.prox = c.prox /\ d.link = c.link
  BY <1>1, <1>2, <1>3 DEF Ctx, SameWatch
<1> QED
  BY <1>2, <1>4 DEF Sound, d

LEMMA CheckStage ==
  ASSUME NEW c, Sound(c), Event \in Commitment
  PROVE  LET d == Check(c)
         IN  /\ Stage(c, d) /\ Answered(d)
             /\ d.prox = c.prox /\ d.link = c.link
<1> DEFINE d == Check(c)
           since == IF c.phone = 0 THEN 1 ELSE c.phone
<1> SUFFICES /\ Sound(d) /\ SameWatch(c, d) /\ Answered(d)
             /\ d.prox = c.prox /\ d.link = c.link
  BY DEF Stage
<1>0. /\ c \in Ctx /\ c.donning \in Nat /\ c.prox \in ProxState
      /\ since \in 0 .. Tolerance + 1
  BY Sizes DEF Sound, Ctx
<1>a. ASSUME NEW e, NEW met \in BOOLEAN, d = Settle(e, met), Sound(e),
             SameWatch(c, e), e.prox = c.prox, e.link = c.link
      PROVE  /\ Sound(d) /\ SameWatch(c, d) /\ d.met = met
             /\ d.prox = c.prox /\ d.link = c.link
  BY <1>a, SettleStage DEF SameWatch
<1>b. SameWatch(c, c)
  BY DEF SameWatch
<1>1. CASE c.donning > 0
  <2>1. d = Settle(c, TRUE)
    <3>1. c.donning # 0
      BY <1>1
    <3> QED
      BY <1>1, <3>1, Zenon DEF Check
  <2>2. /\ Sound(d) /\ SameWatch(c, d) /\ d.met
        /\ d.prox = c.prox /\ d.link = c.link
    BY <1>a, <1>b, <2>1
  <2> QED
    BY <1>0, <1>1, <2>2 DEF Answered, SameWatch
<1>2. CASE c.donning = 0 /\ Event.crit = "getOnWifi"
  <2>1. d = Settle(c, FALSE)
    BY <1>0, <1>2 DEF Check
  <2>2. /\ Sound(d) /\ SameWatch(c, d)
        /\ d.prox = c.prox /\ d.link = c.link
    BY <1>a, <1>b, <2>1
  <2> QED
    BY <1>2, <2>2 DEF Answered, SameWatch, Ranged
<1>3. CASE c.donning = 0 /\ Event.crit \in {"stayNear", "getAway"}
  <2>1. d = Settle(c, CriterionMet(c.prox, Event.crit))
    <3>1. /\ ~(c.donning > 0)
          /\ Event.crit # "getOnWifi" /\ Event.crit # "phoneAway"
      BY <1>3
    <3> QED
      BY <1>3, <3>1, Zenon DEF Check
  <2>2. CriterionMet(c.prox, Event.crit) \in BOOLEAN
    BY <1>0 DEF CriterionMet, ProxState
  <2>3. /\ Sound(d) /\ SameWatch(c, d) /\ d.prox = c.prox /\ d.link = c.link
        /\ d.met = CriterionMet(c.prox, Event.crit)
    BY <1>a, <1>b, <2>1, <2>2
  <2>4. CriterionMet(c.prox, "getAway") <=> NotNear(c.prox)
    BY <1>0 DEF CriterionMet, NotNear, ProxState
  <2>5. NotNear(c.prox) => ~CriterionMet(c.prox, "stayNear")
    BY <1>0 DEF CriterionMet, NotNear, ProxState
  <2> QED
    BY <1>3, <2>3, <2>4, <2>5 DEF Answered, SameWatch
<1>4. CASE c.donning = 0 /\ Event.crit = "phoneAway"
  <2>1. d = IF PhoneNear(c)
            THEN Settle([c EXCEPT !.phone = since], since <= Tolerance)
            ELSE Settle([c EXCEPT !.phone = 0], TRUE)
    BY <1>0, <1>4 DEF Check
  <2>2. ASSUME NEW f \in 0 .. Tolerance + 1
        PROVE  LET e == [c EXCEPT !.phone = f]
               IN  /\ Sound(e) /\ SameWatch(c, e)
                   /\ e.prox = c.prox /\ e.link = c.link
    BY <1>0 DEF Sound, Ctx, SameWatch
  <2>3. 0 \in 0 .. Tolerance + 1 /\ (since <= Tolerance) \in BOOLEAN
    BY Sizes
  <2>4. CASE PhoneNear(c)
    <3>1. /\ Sound(d) /\ SameWatch(c, d) /\ d.prox = c.prox /\ d.link = c.link
      BY <1>0, <1>a, <2>1, <2>2, <2>3, <2>4
    <3> QED
      BY <1>4, <2>4, <3>1 DEF Answered, SameWatch, PhoneNear, NotNear
  <2>5. CASE ~PhoneNear(c)
    <3>1. /\ Sound(d) /\ SameWatch(c, d) /\ d.prox = c.prox /\ d.link = c.link
          /\ d.met
      BY <1>a, <2>1, <2>2, <2>3, <2>5
    <3> QED
      BY <1>4, <3>1 DEF Answered, SameWatch
  <2> QED
    BY <2>4, <2>5
<1>5. CASE c.donning = 0 /\ Event.crit = "getOffWifi"
  <2>1. d = Settle(c, TRUE)
    BY <1>0, <1>5 DEF Check
  <2>2. /\ Sound(d) /\ SameWatch(c, d)
        /\ d.prox = c.prox /\ d.link = c.link
    BY <1>a, <1>b, <2>1
  <2> QED
    BY <1>5, <2>2 DEF Answered, SameWatch, Ranged
<1> QED
  BY <1>0, <1>1, <1>2, <1>3, <1>4, <1>5 DEF Commitment, Criteria

\* Of the link a stage leaves all but what its lemma names.
LinkKept(c, d) ==
  /\ d.link.noted = c.link.noted /\ d.link.concluded = c.link.concluded
  /\ d.link.grace = c.link.grace /\ d.link.left = c.link.left
  /\ d.link.newer = c.link.newer

LEMMA PolledStage ==
  ASSUME NEW c, Sound(c), Event \in Commitment
  PROVE  LET d == Polled(c)
         IN  /\ Stage(c, d) /\ LinkKept(c, d) /\ d.link.armed = c.link.armed
             /\ PollDue => Answered(d)
             /\ PollDue /\ Event.crit \in Ranged => ~d.link.counted
             /\ PollDue /\ Event.crit \in Ranged /\ ~c.link.counted =>
                  d.prox = Ingest(c.prox, "none")
             /\ ~(PollDue /\ Event.crit \in Ranged) =>
                  d.link.counted = c.link.counted
             /\ ~(PollDue /\ Event.crit \in Ranged /\ ~c.link.counted) =>
                  d.prox = c.prox
<1> DEFINE d == Polled(c)
           p == IF c.link.counted THEN c.prox ELSE Ingest(c.prox, "none")
           l == [c.link EXCEPT !.counted = FALSE]
           e == AbstainIfIdle(c)
<1>0. c \in Ctx /\ c.prox \in ProxState /\ c.link \in Links
  BY DEF Sound, Ctx
<1>1. CASE ~PollDue
  <2>1. d = c
    BY <1>1 DEF Polled
  <2> QED
    BY <1>1, <2>1 DEF Stage, SameWatch, LinkKept
<1>2. CASE PollDue /\ Event.crit \notin Ranged
  <2>1. d = Check(c)
    BY <1>2 DEF Polled
  <2>2. Stage(c, d) /\ Answered(d) /\ d.prox = c.prox /\ d.link = c.link
    BY <2>1, CheckStage
  <2> QED
    BY <1>2, <2>2 DEF LinkKept
<1>3. CASE PollDue /\ Event.crit \in Ranged
  <2>1. d = Check(e)
    BY <1>3 DEF Polled
  <2>2. p \in ProxState
    BY <1>0, IngestType
  <2>3. l \in Links /\ ~l.counted
    BY <1>0 DEF Links
  <2>4. e = [c EXCEPT !.prox = p, !.link = l]
    BY <1>0 DEF AbstainIfIdle, Ctx
  <2>5. Sound(e) /\ SameWatch(c, e) /\ e.met = c.met /\ e.prox = p /\ e.link = l
    <3> HIDE DEF p, l, e
    <3> QED
      BY <2>2, <2>3, <2>4 DEF Sound, Ctx, SameWatch
  <2>6. Stage(e, d) /\ Answered(d) /\ d.prox = e.prox /\ d.link = e.link
    BY <2>1, <2>5, CheckStage
  <2>7. Stage(c, d)
    BY <2>5, <2>6 DEF Stage, SameWatch
  <2>8. LinkKept(c, d) /\ d.link.armed = c.link.armed /\ ~d.link.counted
    BY <1>0, <2>5, <2>6 DEF LinkKept, Links
  <2>9. d.prox = p
    BY <2>5, <2>6
  <2> QED
    BY <1>3, <2>6, <2>7, <2>8, <2>9
<1> QED
  BY <1>1, <1>2, <1>3

LEMMA ObservedType ==
  ASSUME radio \in Radio
  PROVE  /\ Observed \in Radio
         /\ Observed.age = radio.age /\ Observed.last = radio.last
         /\ Observed.late = radio.late
         /\ Arming => ~Observed.heard /\ ~Observed.unread
         /\ ~Arming => Observed = radio
BY DEF Observed, Radio

\* An unread result is one of a measurement.
LEMMA BurstedStage ==
  ASSUME NEW c, Sound(c), Event \in Commitment, radio \in Radio
  PROVE  LET d == Bursted(c)
         IN  /\ Stage(c, d) /\ LinkKept(c, d) /\ d.link.armed
             /\ Observed.unread => /\ Answered(d) /\ d.link.counted
                                   /\ d.prox = Ingest(c.prox, Observed.last)
             /\ ~Observed.unread => /\ d.prox = c.prox
                                    /\ d.link.counted = c.link.counted
<1> DEFINE d == Bursted(c)
<1>0. /\ c \in Ctx /\ c.prox \in ProxState /\ c.link \in Links
      /\ Observed.last \in Measured \cup {"none"}
  BY ObservedType DEF Sound, Ctx, Radio
<1>1. CASE Observed.unread
  <2> DEFINE p == Ingest(c.prox, Observed.last)
             l == [c.link EXCEPT !.armed = TRUE, !.counted = TRUE]
             e == [c EXCEPT !.link.armed = TRUE, !.link.counted = TRUE, !.prox = p]
  <2>1. d = Check(e)
    BY <1>0, <1>1 DEF Bursted, Ctx
  <2>2. p \in ProxState
    BY <1>0, IngestType
  <2>3. l \in Links /\ l.armed /\ l.counted
    BY <1>0 DEF Links
  <2>4. e = [c EXCEPT !.prox = p, !.link = l]
    BY <1>0 DEF Ctx, Links
  <2>5. Sound(e) /\ SameWatch(c, e) /\ e.met = c.met /\ e.prox = p /\ e.link = l
    <3> HIDE DEF p, l, e
    <3> QED
      BY <2>2, <2>3, <2>4 DEF Sound, Ctx, SameWatch
  <2>6. Stage(e, d) /\ Answered(d) /\ d.prox = e.prox /\ d.link = e.link
    BY <2>1, <2>5, CheckStage
  <2>7. Stage(c, d)
    BY <2>5, <2>6 DEF Stage, SameWatch
  <2>8. LinkKept(c, d) /\ d.link.armed /\ d.link.counted
    BY <1>0, <2>3, <2>5, <2>6 DEF LinkKept, Links
  <2> QED
    BY <1>1, <2>5, <2>6, <2>7, <2>8
<1>2. CASE ~Observed.unread
  <2> DEFINE l == [c.link EXCEPT !.armed = TRUE]
  <2>1. d = [c EXCEPT !.prox = c.prox, !.link = l]
    BY <1>0, <1>2 DEF Bursted, Ctx
  <2>2. l \in Links /\ l.armed /\ l.counted = c.link.counted
    BY <1>0 DEF Links
  <2>3. Sound(d) /\ SameWatch(c, d) /\ d.met = c.met /\ d.prox = c.prox /\ d.link = l
    <3> HIDE DEF l, d
    <3> QED
      BY <1>0, <2>1, <2>2 DEF Sound, Ctx, SameWatch
  <2>4. LinkKept(c, d)
    BY <1>0, <2>3 DEF LinkKept, Links
  <2> QED
    BY <1>2, <2>2, <2>3, <2>4 DEF Stage
<1> QED
  BY <1>1, <1>2

LEMMA ConcludeAwayStage ==
  ASSUME NEW c, Sound(c), Event \in Commitment
  PROVE  LET d == ConcludeAway(c)
         IN  /\ Stage(c, d) /\ Answered(d) /\ d.prox = ForceAway(c.prox)
             /\ ~d.link.grace /\ d.link.armed = c.link.armed
             /\ d.link.counted = c.link.counted
             /\ d.link.noted = c.link.noted /\ d.link.concluded = c.link.concluded
<1> DEFINE d == ConcludeAway(c)
           p == ForceAway(c.prox)
           l == [c.link EXCEPT !.grace = FALSE]
           e == [c EXCEPT !.link.grace = FALSE, !.prox = p]
<1>0. c \in Ctx /\ c.prox \in ProxState /\ c.link \in Links
  BY DEF Sound, Ctx
<1>1. d = Check(e)
  BY <1>0 DEF ConcludeAway, Ctx
<1>2. p \in ProxState
  BY <1>0, ForceAwayType
<1>3. /\ l \in Links /\ ~l.grace /\ l.armed = c.link.armed
      /\ l.counted = c.link.counted
      /\ l.noted = c.link.noted /\ l.concluded = c.link.concluded
  BY <1>0 DEF Links
<1>4. e = [c EXCEPT !.prox = p, !.link = l]
  BY <1>0 DEF Ctx, Links
<1>5. Sound(e) /\ SameWatch(c, e) /\ e.met = c.met /\ e.prox = p /\ e.link = l
  <2> HIDE DEF p, l, e
  <2> QED
    BY <1>2, <1>3, <1>4 DEF Sound, Ctx, SameWatch
<1>6. Stage(e, d) /\ Answered(d) /\ d.prox = e.prox /\ d.link = e.link
  BY <1>1, <1>5, CheckStage
<1>7. Stage(c, d)
  BY <1>5, <1>6 DEF Stage, SameWatch
<1> HIDE DEF d, e, l
<1> QED
  BY <1>3, <1>5, <1>6, <1>7 DEF d

LEMMA NoteLossStage ==
  ASSUME NEW c, Sound(c), radio \in Radio, NEW jitter \in BOOLEAN
  PROVE  LET n == NoteLoss(c, jitter)
         IN  /\ Sound(n) /\ SameWatch(c, n) /\ n.met = c.met /\ n.prox = c.prox
             /\ n.link.armed = c.link.armed /\ n.link.counted = c.link.counted
             /\ n.link.noted
             /\ \/ c.link.noted /\ n.link = c.link
                \/ /\ ~n.link.concluded /\ n.link.grace = c.link.grace
                   /\ n.link.left = c.link.left /\ n.link.newer = c.link.newer
                \/ /\ ~n.link.concluded /\ n.link.grace /\ ~c.met
                   /\ n.link.left = LostAway - Observed.age
                   /\ n.link.newer = Observed.late
<1> DEFINE n == NoteLoss(c, jitter)
           l == [c.link EXCEPT !.noted = TRUE, !.concluded = FALSE]
           k == [l EXCEPT !.grace = TRUE, !.newer = Observed.late,
                          !.left = LostAway - Observed.age, !.cool = Cooldown]
<1>0. /\ c \in Ctx /\ c.link \in Links
      /\ Observed.late \in BOOLEAN /\ Observed.age \in 0 .. LostAway
  BY ObservedType DEF Sound, Ctx, Radio
<1>1. CASE c.link.noted /\ ~jitter
  <2>1. n = c
    BY <1>1 DEF NoteLoss
  <2> QED
    BY <1>1, <2>1 DEF SameWatch
<1>2. CASE ~(c.link.noted /\ ~jitter)
  <2>1. n = IF OpensGrace(c) THEN [c EXCEPT !.link = k] ELSE [c EXCEPT !.link = l]
    BY <1>0, <1>2 DEF NoteLoss, Ctx
  <2>2. /\ l \in Links /\ l.noted /\ ~l.concluded /\ l.armed = c.link.armed
        /\ l.counted = c.link.counted /\ l.grace = c.link.grace
        /\ l.left = c.link.left /\ l.newer = c.link.newer
    BY <1>0 DEF Links
  <2>3. LostAway - Observed.age \in 0 .. LostAway /\ Cooldown \in 0 .. Cooldown
    BY <1>0, Sizes
  <2>4. k \in Links /\ k.noted /\ ~k.concluded /\ k.armed = c.link.armed
        /\ k.counted = c.link.counted /\ k.grace
        /\ k.left = LostAway - Observed.age /\ k.newer = Observed.late
    <3> HIDE DEF l
    <3> QED
      BY <1>0, <2>2, <2>3 DEF Links
  <2> HIDE DEF l, k
  <2>5. CASE OpensGrace(c)
    <3>1. n = [c EXCEPT !.link = k] /\ ~c.met
      BY <2>1, <2>5 DEF OpensGrace
    <3>2. Sound(n) /\ SameWatch(c, n) /\ n.met = c.met /\ n.prox = c.prox /\ n.link = k
      BY <2>4, <3>1 DEF Sound, Ctx, SameWatch
    <3> QED
      BY <2>4, <3>1, <3>2
  <2>6. CASE ~OpensGrace(c)
    <3>1. n = [c EXCEPT !.link = l]
      BY <2>1, <2>6
    <3>2. Sound(n) /\ SameWatch(c, n) /\ n.met = c.met /\ n.prox = c.prox /\ n.link = l
      BY <2>2, <3>1 DEF Sound, Ctx, SameWatch
    <3> QED
      BY <2>2, <3>2
  <2> QED
    BY <2>5, <2>6
<1> QED
  BY <1>1, <1>2

\* The link has been silent long enough.
GoneNow == Lost /\ Observed.age >= LostAway

\* A grace that has run out with nothing to disprove it.
RanOut(c) == c.link.grace /\ c.link.left = 0 /\ ~DisprovesGrace(c)

LEMMA LinkedStage ==
  ASSUME NEW c, Sound(c), Event \in Commitment, radio \in Radio,
         NEW jitter \in BOOLEAN
  PROVE  LET d == Linked(c, jitter)
         IN  /\ Stage(c, d) /\ d.link.armed = c.link.armed
             /\ d.link.counted = c.link.counted
             /\ \/ d.prox = c.prox /\ d.met = c.met
                \/ /\ d.prox = ForceAway(c.prox) /\ Answered(d)
                   /\ GoneNow \/ RanOut(c)
             /\ d.link.grace => ~d.met
             /\ d.link.noted /\ d.link.concluded =>
                  \/ GoneNow /\ d.prox = ForceAway(c.prox)
                  \/ c.link.noted /\ c.link.concluded
             /\ GoneNow => \/ d.prox = ForceAway(c.prox)
                           \/ c.link.noted /\ c.link.concluded
             /\ d.link.grace =>
                  \/ /\ c.link.grace /\ d.link.left = c.link.left
                     /\ c.link.left # 0 /\ ~DisprovesGrace(c)
                  \/ /\ d.link.left = LostAway - Observed.age
                     /\ Observed.age < LostAway
                     /\ ~(Observed.late /\ Observed.last \in {"near", "band"})
<1> DEFINE d == Linked(c, jitter)
           c1 == IF c.met THEN [c EXCEPT !.link.grace = FALSE] ELSE c
           c2 == IF Lost THEN NoteLoss(c1, jitter)
                 ELSE [c1 EXCEPT !.link.noted = FALSE]
           c3 == [c2 EXCEPT !.link.concluded = TRUE]
<1>0. /\ c \in Ctx /\ c.link \in Links
      /\ Observed.age \in 0 .. LostAway
  BY ObservedType DEF Sound, Ctx, Radio
<1>3. d = IF Lost /\ ~c2.link.concluded /\ Observed.age >= LostAway
          THEN ConcludeAway(c3)
          ELSE IF ~c2.link.grace THEN c2
          ELSE IF DisprovesGrace(c2)
          THEN [c2 EXCEPT !.link.grace = FALSE, !.run = Begun]
          ELSE IF c2.link.left = 0 THEN ConcludeAway(c2) ELSE c2
  BY Zenon DEF Linked
<1>1. /\ Sound(c1) /\ SameWatch(c, c1) /\ c1.met = c.met /\ c1.prox = c.prox
      /\ c1.link.grace <=> c.link.grace /\ ~c.met
      /\ c1.link.armed = c.link.armed /\ c1.link.counted = c.link.counted
      /\ c1.link.noted = c.link.noted /\ c1.link.concluded = c.link.concluded
      /\ c1.link.left = c.link.left /\ c1.link.newer = c.link.newer
  <2>1. CASE c.met
    <3> DEFINE l == [c.link EXCEPT !.grace = FALSE]
    <3>1. c1 = [c EXCEPT !.link = l]
      BY <1>0, <2>1 DEF Ctx
    <3>2. /\ l \in Links /\ ~l.grace /\ l.armed = c.link.armed
          /\ l.counted = c.link.counted /\ l.noted = c.link.noted
          /\ l.concluded = c.link.concluded /\ l.left = c.link.left
          /\ l.newer = c.link.newer
      BY <1>0 DEF Links
    <3> HIDE DEF l, c1
    <3>3. Sound(c1) /\ SameWatch(c, c1) /\ c1.met = c.met /\ c1.prox = c.prox
          /\ c1.link = l
      BY <3>1, <3>2 DEF Sound, Ctx, SameWatch
    <3> QED
      BY <2>1, <3>2, <3>3
  <2>2. CASE ~c.met
    <3>1. c1 = c
      BY <2>2
    <3> QED
      BY <2>2, <3>1 DEF SameWatch
  <2> QED
    BY <2>1, <2>2
<1> HIDE DEF c1
<1>2. /\ Sound(c2) /\ SameWatch(c, c2) /\ c2.met = c.met /\ c2.prox = c.prox
      /\ c2.link.armed = c.link.armed /\ c2.link.counted = c.link.counted
      /\ c2.link.noted <=> Lost
      /\ c2.link.grace => ~c.met
      /\ Lost /\ c2.link.concluded => c.link.noted /\ c.link.concluded
      /\ c2.link.grace =>
           \/ /\ c.link.grace /\ c2.link.left = c.link.left
              /\ c2.link.newer = c.link.newer
           \/ /\ Lost /\ ~c2.link.concluded
              /\ c2.link.left = LostAway - Observed.age
              /\ c2.link.newer = Observed.late
  <2>1. CASE Lost
    <3>1. c2 = NoteLoss(c1, jitter)
      BY <2>1
    <3> HIDE DEF c2
    <3> QED
      BY <1>1, <2>1, <3>1, NoteLossStage DEF SameWatch
  <2>2. CASE ~Lost
    <3> DEFINE l == [c1.link EXCEPT !.noted = FALSE]
    <3>1. c1 \in Ctx /\ c1.link \in Links
      BY <1>1 DEF Sound, Ctx
    <3>2. c2 = [c1 EXCEPT !.link = l]
      BY <2>2, <3>1 DEF Ctx
    <3>3. /\ l \in Links /\ ~l.noted /\ l.armed = c1.link.armed
          /\ l.counted = c1.link.counted /\ l.grace = c1.link.grace
          /\ l.concluded = c1.link.concluded /\ l.left = c1.link.left
          /\ l.newer = c1.link.newer
      BY <3>1 DEF Links
    <3> HIDE DEF l, c2
    <3>4. Sound(c2) /\ SameWatch(c1, c2) /\ c2.met = c1.met /\ c2.prox = c1.prox
          /\ c2.link = l
      BY <1>1, <3>1, <3>2, <3>3 DEF Sound, Ctx, SameWatch
    <3> QED
      BY <1>1, <2>2, <3>3, <3>4 DEF SameWatch
  <2> QED
    BY <2>1, <2>2
<1> HIDE DEF c2, d
<1>4. CASE Lost /\ ~c2.link.concluded /\ Observed.age >= LostAway
  <2> DEFINE l == [c2.link EXCEPT !.concluded = TRUE]
  <2>1. c2 \in Ctx /\ c2.link \in Links
    BY <1>2 DEF Sound, Ctx
  <2>2. c3 = [c2 EXCEPT !.link = l]
    BY <2>1 DEF Ctx
  <2>3. /\ l \in Links /\ l.noted = c2.link.noted /\ l.armed = c2.link.armed
        /\ l.counted = c2.link.counted
    BY <2>1 DEF Links
  <2> HIDE DEF l, c3
  <2>4. Sound(c3) /\ SameWatch(c2, c3) /\ c3.prox = c2.prox /\ c3.link = l
    BY <1>2, <2>1, <2>2, <2>3 DEF Sound, Ctx, SameWatch
  <2>5. d = ConcludeAway(c3)
    BY <1>3, <1>4
  <2>6. /\ Stage(c3, d) /\ Answered(d) /\ d.prox = ForceAway(c3.prox)
        /\ ~d.link.grace /\ d.link.armed = l.armed /\ d.link.counted = l.counted
    BY <2>4, <2>5, ConcludeAwayStage
  <2>7. Stage(c, d)
    BY <1>2, <2>4, <2>6 DEF Stage, SameWatch
  <2> QED
    BY <1>2, <1>4, <2>3, <2>4, <2>6, <2>7 DEF GoneNow, d
<1>5. CASE /\ ~(Lost /\ ~c2.link.concluded /\ Observed.age >= LostAway)
           /\ ~c2.link.grace
  <2>1. d = c2
    BY <1>3, <1>5
  <2> QED
    BY <1>2, <1>5, <2>1 DEF Stage, GoneNow, d
<1>6. CASE /\ ~(Lost /\ ~c2.link.concluded /\ Observed.age >= LostAway)
           /\ c2.link.grace /\ DisprovesGrace(c2)
  <2> DEFINE l == [c2.link EXCEPT !.grace = FALSE]
  <2>1. c2 \in Ctx /\ c2.link \in Links
    BY <1>2 DEF Sound, Ctx
  <2>2. d = [c2 EXCEPT !.link = l, !.run = Begun]
    BY <1>3, <1>6, <2>1 DEF Ctx
  <2>3. /\ l \in Links /\ l.noted = c2.link.noted /\ l.armed = c2.link.armed
        /\ l.counted = c2.link.counted /\ ~l.grace
        /\ l.concluded = c2.link.concluded
    BY <2>1 DEF Links
  <2>4. Begun \in {"steady", "on"} /\ (Begun = "on" => ~Event.steady)
    BY DEF Begun
  <2> HIDE DEF l
  <2>5. /\ Sound(d) /\ SameWatch(c2, d) /\ d.met = c2.met /\ d.prox = c2.prox
        /\ d.link = l
    BY <1>2, <1>6, <2>1, <2>2, <2>3, <2>4 DEF Sound, Ctx, SameWatch, Runs
  <2> QED
    BY <1>2, <1>6, <2>3, <2>5 DEF Stage, SameWatch, GoneNow, d
<1>7. CASE /\ ~(Lost /\ ~c2.link.concluded /\ Observed.age >= LostAway)
           /\ c2.link.grace /\ ~DisprovesGrace(c2) /\ c2.link.left = 0
  <2>1. d = ConcludeAway(c2)
    BY <1>3, <1>7
  <2>2. /\ Stage(c2, d) /\ Answered(d) /\ d.prox = ForceAway(c2.prox)
        /\ ~d.link.grace /\ d.link.armed = c2.link.armed
        /\ d.link.counted = c2.link.counted
        /\ d.link.noted = c2.link.noted /\ d.link.concluded = c2.link.concluded
    BY <1>2, <2>1, ConcludeAwayStage
  <2>3. GoneNow \/ RanOut(c)
    BY <1>0, <1>2, <1>7, Sizes DEF GoneNow, RanOut, DisprovesGrace
  <2>4. Stage(c, d)
    BY <1>2, <2>2 DEF Stage, SameWatch
  <2> QED
    BY <1>2, <1>7, <2>2, <2>3, <2>4 DEF GoneNow, d
<1>8. CASE /\ ~(Lost /\ ~c2.link.concluded /\ Observed.age >= LostAway)
           /\ c2.link.grace /\ ~DisprovesGrace(c2) /\ c2.link.left # 0
  <2>1. d = c2
    BY <1>3, <1>8
  <2>2. Observed.age < LostAway \/ (c.link.grace /\ c2.link.left = c.link.left)
    BY <1>0, <1>2, <1>8, Sizes
  <2> QED
    BY <1>0, <1>2, <1>8, <2>1, <2>2, Sizes DEF Stage, GoneNow, DisprovesGrace, d
<1> QED
  BY <1>4, <1>5, <1>6, <1>7, <1>8

LEMMA TickedStage ==
  ASSUME NEW c, Sound(c), NEW step \in {"on", "wait"}
  PROVE  LET d == Ticked(c, step)
         IN  /\ Sound(d) /\ SameWatch(c, d) /\ d.met = c.met
             /\ d.prox = c.prox /\ d.link = c.link
<1> DEFINE d == Ticked(c, step)
<1>1. CASE c.run \in {"off", "steady"} \/ c.met
  <2>1. d = c
    BY <1>1 DEF Ticked
  <2> QED
    BY <2>1 DEF SameWatch
<1>2. CASE ~(c.run \in {"off", "steady"} \/ c.met)
  <2>1. d = [c EXCEPT !.run = step]
    BY <1>2 DEF Ticked
  <2>2. c.run \in {"on", "wait"} /\ step \in Runs /\ step # "off"
    BY <1>2 DEF Sound, Ctx, Runs
  <2> HIDE DEF d
  <2> QED
    BY <1>2, <2>1, <2>2 DEF Sound, Ctx, SameWatch, d
<1> QED
  BY <1>1, <1>2

LEMMA SetWornStage ==
  ASSUME NEW c \in Ctx, NEW worn \in BOOLEAN, Enforcing, Event \in Commitment
  PROVE  LET d == SetWorn(c, worn)
         IN  /\ d \in Ctx /\ d.worn = worn
             /\ d.active = c.active /\ d.met = c.met /\ d.run = c.run
             /\ d.prox = c.prox /\ d.link = c.link
             /\ \/ d.donning = c.donning \/ d.donning = 0
                \/ d.donning = Event.grace /\ ~c.worn /\ worn
<1> DEFINE g == IF c.worn /\ ~worn THEN 0
                ELSE IF ~c.worn /\ worn /\ Enforcing /\ Event.grace > 0
                THEN Event.grace ELSE c.donning
           d == SetWorn(c, worn)
<1>1. /\ g \in Nat
      /\ g = c.donning \/ g = 0 \/ (g = Event.grace /\ ~c.worn /\ worn)
  BY DEF Commitment, Ctx
<1>2. d = [c EXCEPT !.worn = worn, !.donning = g]
  BY DEF SetWorn, Ctx
<1> HIDE DEF g, d
<1> QED
  BY <1>1, <1>2 DEF Ctx, d

-----------------------------------------------------------------------------
(* The invariants.                                                         *)

\* A window that answers to its own event, by ranging.
Own == Enforcing /\ Event.crit \in Ranged /\ ~seen.moved

\* A burst of this window that the rest of the pass will take up.
Unread == ctx.link.armed /\ radio.unread

\* The context is of one mind: output runs just when the criterion is not
\* met, a grace silences nothing else, and a donning grace is met with, or is
\* about to be polled.
ContextInv ==
  /\ ctx.met <=> ctx.run = "off"
  /\ ~Enforcing => ctx.met
  /\ ctx.link.grace => ~ctx.met
  /\ ctx.donning > 0 => ctx.met \/ poll.force
  /\ seen.moved => ctx.active = 1
  /\ Enforcing /\ ctx.run \in {"on", "wait"} /\ Event.steady => seen.moved
  /\ Enforcing /\ ~seen.moved => ctx.donning <= Event.grace

\* The pins do what the pass left the context saying.
PinsInv ==
  phase = "loop" =>
    /\ pins => ~ctx.met /\ ~ctx.link.grace
    /\ ~ctx.met /\ ~ctx.link.grace => pins \/ ctx.run = "wait"

LEMMA TypedState ==
  ASSUME TypeOK
  PROVE  /\ ctx \in Ctx /\ radio \in Radio /\ ctx.link \in Links
         /\ ctx.prox \in ProxState
         /\ poll \in [age : 0 .. PollMet, force : BOOLEAN]
         /\ seen \in [moved : BOOLEAN, mute : 0 .. MuteBound + 1,
                      clear : 0 .. LostAway, far : 0 .. AwayDwell]
BY DEF TypeOK, Ctx, Radio

LEMMA SoundContext ==
  ASSUME TypeOK, ContextInv, Enforcing
  PROVE  Sound(ctx) /\ Event \in Commitment
BY TypedState, EventType DEF ContextInv, Sound

AfterPoll == IF PollDue /\ ~ctx.link.counted THEN Ingest(ctx.prox, "none")
             ELSE ctx.prox

AfterBurst == IF Observed.unread THEN Ingest(AfterPoll, Observed.last)
              ELSE AfterPoll

Linking(jitter) ==
  IF Event.crit \in Ranged THEN Linked(Bursted(Polled(ctx)), jitter)
  ELSE [Polled(ctx) EXCEPT !.link.grace = FALSE]

LEMMA LinkingRanged ==
  ASSUME TypeOK, ContextInv, Enforcing, Event.crit \in Ranged,
         NEW jitter \in BOOLEAN
  PROVE  LET d == Linking(jitter)
         IN  /\ Stage(ctx, d) /\ (PollDue => Answered(d))
             /\ d.link.armed
             /\ d.link.counted <=> Observed.unread \/ (ctx.link.counted /\ ~PollDue)
             /\ \/ d.prox = AfterBurst
                \/ /\ d.prox = ForceAway(AfterBurst)
                   /\ GoneNow \/ RanOut(ctx)
             /\ d.link.grace => ~d.met
             /\ d.link.noted /\ d.link.concluded =>
                  \/ GoneNow /\ d.prox = ForceAway(AfterBurst)
                  \/ ctx.link.noted /\ ctx.link.concluded
             /\ GoneNow => \/ d.prox = ForceAway(AfterBurst)
                           \/ ctx.link.noted /\ ctx.link.concluded
             /\ d.link.grace =>
                  \/ /\ ctx.link.grace /\ d.link.left = ctx.link.left
                     /\ ctx.link.left # 0 /\ ~DisprovesGrace(ctx)
                  \/ /\ d.link.left = LostAway - Observed.age
                     /\ Observed.age < LostAway
                     /\ ~(Observed.late /\ Observed.last \in {"near", "band"})
             /\ \/ d.met = ctx.met /\ d.prox = ctx.prox
                \/ Answered(d)
<1> DEFINE p == Polled(ctx)
           b == Bursted(p)
           d == Linking(jitter)
<1>0. Sound(ctx) /\ Event \in Commitment /\ radio \in Radio
  BY SoundContext, TypedState
<1>1. /\ Stage(ctx, p) /\ LinkKept(ctx, p) /\ (PollDue => Answered(p))
      /\ PollDue => ~p.link.counted
      /\ ~PollDue => p.link.counted = ctx.link.counted
      /\ p.prox = AfterPoll
  BY <1>0, PolledStage DEF AfterPoll
<1> HIDE DEF p
<1>2. /\ Stage(p, b) /\ LinkKept(p, b) /\ b.link.armed
      /\ Observed.unread => Answered(b) /\ b.link.counted
      /\ ~Observed.unread => b.prox = p.prox /\ b.link.counted = p.link.counted
      /\ b.prox = AfterBurst
  BY <1>0, <1>1, BurstedStage DEF Stage, AfterBurst
<1> HIDE DEF b
<1>3. d = Linked(b, jitter)
  BY DEF Linking, b, p
<1>4. /\ Stage(b, d) /\ d.link.armed = b.link.armed
      /\ d.link.counted = b.link.counted
      /\ \/ d.prox = b.prox /\ d.met = b.met
         \/ d.prox = ForceAway(b.prox) /\ Answered(d) /\ (GoneNow \/ RanOut(b))
      /\ d.link.grace => ~d.met
      /\ d.link.noted /\ d.link.concluded =>
           \/ GoneNow /\ d.prox = ForceAway(b.prox)
           \/ b.link.noted /\ b.link.concluded
      /\ GoneNow => \/ d.prox = ForceAway(b.prox)
                    \/ b.link.noted /\ b.link.concluded
      /\ d.link.grace =>
           \/ /\ b.link.grace /\ d.link.left = b.link.left
              /\ b.link.left # 0 /\ ~DisprovesGrace(b)
           \/ /\ d.link.left = LostAway - Observed.age
              /\ Observed.age < LostAway
              /\ ~(Observed.late /\ Observed.last \in {"near", "band"})
  <2>1. Sound(b)
    BY <1>2 DEF Stage
  <2> HIDE DEF d
  <2> QED
    BY <1>0, <1>3, <2>1, LinkedStage, Zenon
<1> HIDE DEF d
<1>5. /\ RanOut(b) => RanOut(ctx)
      /\ ~DisprovesGrace(b) => ~DisprovesGrace(ctx)
      /\ b.link.left = ctx.link.left /\ (b.link.grace <=> ctx.link.grace)
      /\ b.link.noted <=> ctx.link.noted
      /\ b.link.concluded <=> ctx.link.concluded
  BY <1>1, <1>2 DEF LinkKept, RanOut, DisprovesGrace
\* An answer holds as long as the verdict does.
<1>6. ASSUME NEW e, NEW f, Answered(e), SameWatch(e, f),
             f.met = e.met, f.prox = e.prox
      PROVE  Answered(f)
  BY <1>6 DEF Answered, SameWatch
<1>7. Stage(ctx, d) /\ (PollDue => Answered(d))
  BY <1>1, <1>2, <1>4, <1>6 DEF Stage, SameWatch
<1>8. d.link.counted <=> Observed.unread \/ (ctx.link.counted /\ ~PollDue)
  BY <1>0, <1>1, <1>2, <1>4
<1> QED
  BY <1>1, <1>2, <1>4, <1>5, <1>7, <1>8 DEF Stage, d

LEMMA LinkingOther ==
  ASSUME TypeOK, ContextInv, Enforcing, Event.crit \notin Ranged,
         NEW jitter \in BOOLEAN
  PROVE  LET d == Linking(jitter)
         IN  /\ Stage(ctx, d) /\ (PollDue => Answered(d))
             /\ d.prox = ctx.prox /\ ~d.link.grace
             /\ d.link.noted = ctx.link.noted
             /\ d.link.concluded = ctx.link.concluded
<1> DEFINE p == Polled(ctx)
           l == [p.link EXCEPT !.grace = FALSE]
           d == Linking(jitter)
<1>0. Sound(ctx) /\ Event \in Commitment
  BY SoundContext
<1>1. /\ Stage(ctx, p) /\ LinkKept(ctx, p) /\ (PollDue => Answered(p))
      /\ p.prox = ctx.prox
  BY <1>0, PolledStage
<1> HIDE DEF p
<1>2. p \in Ctx /\ p.link \in Links
  BY <1>1 DEF Stage, Sound, Ctx
<1>3. d = [p EXCEPT !.link = l]
  BY <1>2 DEF Linking, p, Ctx
<1>4. l \in Links /\ ~l.grace /\ l.noted = p.link.noted
      /\ l.concluded = p.link.concluded
  BY <1>2 DEF Links
<1> HIDE DEF l, d
<1>5. Sound(d) /\ SameWatch(p, d) /\ d.met = p.met /\ d.prox = p.prox /\ d.link = l
  BY <1>1, <1>2, <1>3, <1>4 DEF Stage, Sound, Ctx, SameWatch
<1>6. Stage(ctx, d) /\ (PollDue => Answered(d))
  BY <1>1, <1>5 DEF Stage, SameWatch, Answered
<1> QED
  BY <1>1, <1>4, <1>5, <1>6 DEF LinkKept, d

\* What a criterion that is asked in this pass answers.
Answer(met, prox) ==
  /\ ctx.donning > 0 => met
  /\ ctx.donning = 0 /\ Event.crit \in Ranged /\ NotNear(prox) =>
       (met <=> Event.crit # "stayNear")
  /\ ctx.donning = 0 /\ Event.crit = "getAway" => (met <=> NotNear(prox))

LEMMA WorkEnforces ==
  ASSUME TypeOK, ContextInv, Enforcing, NEW jitter \in BOOLEAN,
         NEW step \in {"on", "wait"}, NEW worn \in BOOLEAN,
         Work(jitter, step, worn)
  PROVE  /\ phase = "work" /\ phase' = "loop"
         /\ UNCHANGED <<cells, held, plan, seen>> /\ Event' = Event /\ Enforcing'
         /\ ctx' \in Ctx /\ ctx'.active = ctx.active
         /\ ctx'.met <=> ctx'.run = "off"
         /\ ctx'.run \in {"on", "wait"} /\ Event.steady => seen.moved
         /\ \/ ctx'.donning = ctx.donning \/ ctx'.donning = 0
            \/ ctx'.donning = Event.grace /\ worn # ctx.worn
         /\ pins' <=> ctx'.run \in {"steady", "on"} /\ ~ctx'.link.grace
         /\ pins' \in BOOLEAN
         /\ poll' = [age   |-> IF PollDue THEN 0 ELSE poll.age,
                     force |-> worn # ctx.worn]
         /\ \/ ctx'.met = ctx.met /\ ctx'.prox = ctx.prox
            \/ Answer(ctx'.met, ctx'.prox)
         /\ PollDue => Answer(ctx'.met, ctx'.prox)
         /\ ctx'.link.grace => ~ctx'.met
         /\ Event.crit \in Ranged => radio' = [Observed EXCEPT !.unread = FALSE]
         /\ Event.crit \notin Ranged => UNCHANGED radio
         /\ ctx'.prox = Linking(jitter).prox /\ ctx'.link = Linking(jitter).link
<1> DEFINE d == Linking(jitter)
           k == Ticked(d, step)
<1>1. /\ phase = "work" /\ phase' = "loop"
      /\ UNCHANGED <<cells, held, plan, seen>>
      /\ ctx' = SetWorn(k, worn)
      /\ pins' = (k.run \in {"steady", "on"} /\ ~k.link.grace)
      /\ poll' = [age   |-> IF PollDue THEN 0 ELSE poll.age,
                  force |-> worn # ctx.worn]
      /\ Event.crit \in Ranged => radio' = [Observed EXCEPT !.unread = FALSE]
      /\ Event.crit \notin Ranged => UNCHANGED radio
  BY DEF Work, Linking
<1>2. Sound(ctx) /\ Event \in Commitment
  BY SoundContext
<1>3. /\ Stage(ctx, d) /\ (PollDue => Answered(d))
      /\ d.link.grace => ~d.met
      /\ (d.met = ctx.met /\ d.prox = ctx.prox) \/ Answered(d)
  <2>1. CASE Event.crit \in Ranged
    BY <2>1, LinkingRanged
  <2>2. CASE Event.crit \notin Ranged
    BY <2>2, LinkingOther DEF Stage
  <2> QED
    BY <2>1, <2>2
<1> HIDE DEF d
<1>4. /\ Sound(k) /\ SameWatch(d, k) /\ k.met = d.met /\ k.prox = d.prox
      /\ k.link = d.link
  BY <1>3, TickedStage DEF Stage
<1> HIDE DEF k
<1>5. k \in Ctx /\ (k.met <=> k.run = "off")
      /\ (k.run \in {"on", "wait"} /\ Event.steady => seen.moved)
  BY <1>4 DEF Sound
<1>6. /\ ctx' \in Ctx /\ ctx'.active = k.active /\ ctx'.met = k.met
      /\ ctx'.run = k.run /\ ctx'.prox = k.prox /\ ctx'.link = k.link
      /\ \/ ctx'.donning = k.donning \/ ctx'.donning = 0
         \/ ctx'.donning = Event.grace /\ ~k.worn /\ worn
  BY <1>1, <1>2, <1>5, SetWornStage
<1>7. k.active = ctx.active /\ k.worn = ctx.worn /\ k.donning = ctx.donning
  BY <1>3, <1>4 DEF Stage, SameWatch
<1>8. Event' = Event /\ Enforcing'
  BY <1>1, <1>6, <1>7 DEF Event, Enforcing
<1>9. Answered(d) => Answer(ctx'.met, ctx'.prox)
  BY <1>4, <1>6, <1>7 DEF Answered, Answer, SameWatch
<1>10. /\ (ctx'.met <=> ctx'.run = "off")
       /\ (ctx'.run \in {"on", "wait"} /\ Event.steady => seen.moved)
       /\ (ctx'.link.grace => ~ctx'.met)
       /\ (pins' <=> ctx'.run \in {"steady", "on"} /\ ~ctx'.link.grace)
       /\ pins' \in BOOLEAN
  BY <1>1, <1>3, <1>4, <1>5, <1>6
<1>11. /\ (ctx'.met = ctx.met /\ ctx'.prox = ctx.prox)
            \/ Answer(ctx'.met, ctx'.prox)
       /\ PollDue => Answer(ctx'.met, ctx'.prox)
  BY <1>3, <1>4, <1>6, <1>9
<1>12. \/ ctx'.donning = ctx.donning \/ ctx'.donning = 0
       \/ ctx'.donning = Event.grace /\ worn # ctx.worn
  BY <1>6, <1>7
<1> QED
  BY <1>1, <1>4, <1>6, <1>7, <1>8, <1>10, <1>11, <1>12 DEF d

LEMMA WorkDormant ==
  ASSUME TypeOK, ContextInv, ~Enforcing, NEW jitter \in BOOLEAN,
         NEW step \in {"on", "wait"}, NEW worn \in BOOLEAN,
         Work(jitter, step, worn)
  PROVE  /\ phase = "work" /\ phase' = "loop"
         /\ UNCHANGED <<cells, held, plan, seen, radio>> /\ ~Enforcing'
         /\ ctx' \in Ctx /\ ctx'.active = ctx.active
         /\ ctx'.met = ctx.met /\ ctx'.run = ctx.run
         /\ ctx'.prox = ctx.prox /\ ctx'.link = ctx.link
         /\ ctx'.donning = ctx.donning \/ ctx'.donning = 0
         /\ pins' = FALSE
         /\ poll' = [poll EXCEPT !.force = @ \/ worn # ctx.worn]
<1> DEFINE g == IF ctx.worn /\ ~worn THEN 0 ELSE ctx.donning
<1>1. /\ phase = "work" /\ phase' = "loop" /\ pins' = FALSE
      /\ UNCHANGED <<cells, held, plan, seen, radio>>
      /\ ctx' = SetWorn(ctx, worn)
      /\ poll' = [poll EXCEPT !.force = @ \/ worn # ctx.worn]
  BY DEF Work
<1>2. ctx \in Ctx /\ g \in Nat
  BY TypedState DEF Ctx
<1>3. ctx' = [ctx EXCEPT !.worn = worn, !.donning = g]
  BY <1>1, <1>2 DEF SetWorn, Ctx
<1>4. g = ctx.donning \/ g = 0
  OBVIOUS
<1> HIDE DEF g
<1>5. /\ ctx' \in Ctx /\ ctx'.active = ctx.active
      /\ ctx'.met = ctx.met /\ ctx'.run = ctx.run
      /\ ctx'.prox = ctx.prox /\ ctx'.link = ctx.link /\ ctx'.donning = g
  BY <1>2, <1>3 DEF Ctx
<1> QED
  BY <1>1, <1>4, <1>5 DEF Enforcing

\* A pass begins.
LEMMA AgedFacts ==
  ASSUME TypeOK, NEW sig \in Signals
  PROVE  LET a == Aged(ctx, sig)
         IN  /\ a \in Ctx /\ a.active = ctx.active /\ a.worn = ctx.worn
             /\ a.met = ctx.met /\ a.run = ctx.run /\ a.prox = ctx.prox
             /\ a.donning = Less(ctx.donning)
             /\ a.link.armed = ctx.link.armed /\ a.link.grace = ctx.link.grace
             /\ a.link.concluded = ctx.link.concluded
             /\ a.link.counted = ctx.link.counted
             /\ a.link.left = Less(ctx.link.left)
             /\ a.link.noted <=> ctx.link.noted /\ ~sig.act
             /\ a.link.newer <=> /\ ctx.link.grace
                                 /\ ctx.link.newer \/ sig.burst \in Measured
<1> DEFINE l == [ctx.link EXCEPT
                   !.left = Less(ctx.link.left), !.cool = Less(ctx.link.cool),
                   !.noted = ctx.link.noted /\ ~sig.act,
                   !.newer = /\ ctx.link.grace
                             /\ ctx.link.newer \/ sig.burst \in Measured]
           f == IF ctx.phone = 0 THEN 0 ELSE UpTo(Tolerance + 1, ctx.phone)
           a == Aged(ctx, sig)
<1>0. /\ ctx \in Ctx /\ ctx.link \in Links /\ ctx.donning \in Nat
      /\ ctx.phone \in 0 .. Tolerance + 1
  BY TypedState DEF Ctx
<1>1. a = [ctx EXCEPT !.donning = Less(ctx.donning), !.phone = f, !.link = l]
  BY <1>0 DEF Aged, Ctx, Links
<1>2. /\ Less(ctx.link.left) \in 0 .. LostAway /\ Less(ctx.link.cool) \in 0 .. Cooldown
      /\ Less(ctx.donning) \in Nat
  BY <1>0, Sizes DEF Less, Links
<1>3. f \in 0 .. Tolerance + 1
  BY <1>0, Sizes, UpToType
<1>4. /\ l \in Links
      /\ l.armed = ctx.link.armed /\ l.grace = ctx.link.grace
      /\ l.concluded = ctx.link.concluded /\ l.counted = ctx.link.counted
      /\ l.left = Less(ctx.link.left)
      /\ l.noted <=> ctx.link.noted /\ ~sig.act
      /\ l.newer <=> /\ ctx.link.grace
                     /\ ctx.link.newer \/ sig.burst \in Measured
  BY <1>0, <1>2 DEF Links
<1> HIDE DEF l, f, a
<1>5. /\ a \in Ctx /\ a.active = ctx.active /\ a.worn = ctx.worn
      /\ a.met = ctx.met /\ a.run = ctx.run /\ a.prox = ctx.prox
      /\ a.donning = Less(ctx.donning) /\ a.link = l
  BY <1>0, <1>1, <1>2, <1>3, <1>4 DEF Ctx
<1> QED
  BY <1>4, <1>5 DEF a

LEMMA NoLinkType ==
  /\ NoLink \in Links /\ ~NoLink.armed /\ ~NoLink.noted /\ ~NoLink.concluded
  /\ ~NoLink.grace /\ ~NoLink.counted /\ ~NoLink.newer
BY Sizes DEF NoLink, Links

\* The window that is in force goes on.
Continues(sig) ==
  /\ plan = ctx.active
  /\ ctx' = Aged(ctx, sig) /\ seen' = Seen(sig)
  /\ poll' = [poll EXCEPT !.age = UpTo(PollMet, @)]
  /\ UNCHANGED pins

\* It has ended.
Ends ==
  /\ ctx'.active = 0 /\ ctx'.met /\ ctx'.run = "off" /\ ctx'.link = NoLink
  /\ ctx'.prox = ctx.prox /\ ctx'.donning = Less(ctx.donning)
  /\ seen' = SeenNothing /\ pins' = FALSE
  /\ poll' = [poll EXCEPT !.age = UpTo(PollMet, @)]

\* Another has begun.
Begins ==
  /\ ctx'.active = plan /\ plan # 0 /\ Event' = cells[plan]
  /\ ctx'.met /\ ctx'.run = "off" /\ ctx'.link = NoLink
  /\ Event'.crit \in Ranged => ctx'.prox = NoVerdict
  /\ Event'.crit \notin Ranged => ctx'.prox = ctx.prox
  /\ ctx'.donning = IF ctx.worn THEN Event'.grace ELSE 0
  /\ seen' = SeenNothing /\ UNCHANGED pins
  /\ poll' = [force |-> TRUE, age |-> UpTo(PollMet, poll.age)]

LEMMA RefreshFacts ==
  ASSUME TypeOK, NEW sig \in Signals, Refresh(sig)
  PROVE  /\ phase = "loop" /\ phase' = "work" /\ Possible(sig)
         /\ UNCHANGED <<cells, held, plan>> /\ radio' = Heard(sig)
         /\ ctx' \in Ctx
         /\ Continues(sig) \/ Ends \/ Begins
<1> DEFINE a == Aged(ctx, sig)
<1>0. /\ phase = "loop" /\ phase' = "work" /\ Possible(sig)
      /\ UNCHANGED <<cells, held, plan>> /\ radio' = Heard(sig)
  BY DEF Refresh
<1>1. /\ a \in Ctx /\ a.active = ctx.active /\ a.worn = ctx.worn
      /\ a.prox = ctx.prox /\ a.donning = Less(ctx.donning)
  BY AgedFacts
<1>2. CASE /\ plan = a.active /\ ctx' = a /\ seen' = Seen(sig) /\ UNCHANGED pins
           /\ poll' = [poll EXCEPT !.age = UpTo(PollMet, @)]
  BY <1>0, <1>1, <1>2 DEF Continues
<1>3. CASE /\ ctx' = Exit(a) /\ seen' = SeenNothing /\ pins' = FALSE
           /\ poll' = [poll EXCEPT !.age = UpTo(PollMet, @)]
  <2>1. ctx' = [a EXCEPT !.active = 0, !.met = TRUE, !.run = "off", !.link = NoLink]
    BY <1>3 DEF Exit
  <2>2. 0 \in 0 .. 2 /\ "off" \in Runs /\ NoLink \in Links
    BY NoLinkType DEF Runs
  <2> HIDE DEF a
  <2>3. ctx' \in Ctx
    BY <1>1, <2>1, <2>2 DEF Ctx
  <2>4. /\ ctx'.active = 0 /\ ctx'.met = TRUE /\ ctx'.run = "off"
        /\ ctx'.link = NoLink /\ ctx'.prox = a.prox /\ ctx'.donning = a.donning
    BY <1>1, <2>1 DEF Ctx
  <2> QED
    BY <1>0, <1>1, <1>3, <2>3, <2>4 DEF Ends
<1>4. CASE /\ plan # 0 /\ ctx' = Enter(a, plan) /\ seen' = SeenNothing
           /\ UNCHANGED pins
           /\ poll' = [force |-> TRUE, age |-> UpTo(PollMet, poll.age)]
  <2> DEFINE e == cells[plan]
             p == IF e.crit \in Ranged THEN NoVerdict ELSE a.prox
             g == IF a.worn THEN e.grace ELSE 0
  <2>1. plan \in 1 .. 2
    BY <1>4 DEF TypeOK
  <2>2. e \in Commitment
    BY <2>1, CommitmentTypes DEF TypeOK
  <2>3. p \in ProxState /\ g \in Nat
    BY <1>1, <2>2, TypedState, ForceAwayType DEF Commitment
  <2>4. ctx' = [a EXCEPT !.active = plan, !.met = TRUE, !.run = "off", !.phone = 0,
                         !.link = NoLink, !.prox = p, !.donning = g]
    BY <1>1, <1>4 DEF Enter, Ctx
  <2> HIDE DEF p, g, a
  <2>5. /\ ctx' \in Ctx /\ ctx'.active = plan /\ ctx'.met /\ ctx'.run = "off"
        /\ ctx'.link = NoLink /\ ctx'.prox = p /\ ctx'.donning = g
    <3>1. 0 \in 0 .. Tolerance + 1 /\ plan \in 0 .. 2
      BY <2>1, Sizes
    <3> QED
      BY <1>1, <2>3, <2>4, <3>1, NoLinkType DEF Ctx, Runs
  <2>6. Event' = e
    BY <1>0, <2>5 DEF Event
  <2> QED
    BY <1>0, <1>1, <1>4, <2>5, <2>6 DEF Begins, p, g
<1> QED
  BY <1>2, <1>3, <1>4 DEF Refresh

LEMMA HeardType ==
  ASSUME radio \in Radio, NEW sig \in Signals
  PROVE  Heard(sig) \in Radio
<1>1. UpTo(LostAway, radio.age) \in 0 .. LostAway /\ 0 \in 0 .. LostAway
  BY Sizes, UpToType DEF Radio
<1>2. /\ radio.heard \in BOOLEAN /\ radio.last \in Measured \cup {"none"}
      /\ radio.late \in BOOLEAN /\ radio.unread \in BOOLEAN
      /\ sig.act \in BOOLEAN /\ sig.after \in BOOLEAN
      /\ sig.burst \in Measured \cup {"none", "poor"}
  BY DEF Radio, Signals
<1> DEFINE age  == IF sig.act THEN 0 ELSE UpTo(LostAway, radio.age)
           last == IF sig.burst = "none" THEN radio.last
                   ELSE IF sig.burst = "poor" THEN "none" ELSE sig.burst
           late == IF sig.burst # "none" THEN sig.after /\ sig.burst # "poor"
                   ELSE radio.late /\ ~sig.act
           unread == IF sig.burst = "none" THEN radio.unread
                     ELSE sig.burst # "poor"
<1>3. /\ age \in 0 .. LostAway /\ last \in Measured \cup {"none"}
      /\ late \in BOOLEAN /\ unread \in BOOLEAN
      /\ (radio.heard \/ sig.act) \in BOOLEAN
  BY <1>1, <1>2
<1>4. Heard(sig) = [heard |-> radio.heard \/ sig.act, age |-> age, last |-> last,
                    late |-> late, unread |-> unread]
  BY DEF Heard
<1> HIDE DEF age, last, late, unread
<1> QED
  BY <1>3, <1>4 DEF Radio

History == [moved : BOOLEAN, mute : 0 .. MuteBound + 1, clear : 0 .. LostAway,
            far : 0 .. AwayDwell]

LEMMA MuteBoundType == MuteBound \in Nat
BY Sizes DEF MuteBound

\* What the history of a window makes of a unit of time.
LEMMA SeenFacts ==
  ASSUME TypeOK, NEW sig \in Signals
  PROVE  /\ Seen(sig) \in History /\ SeenNothing \in History
         /\ ~SeenNothing.moved
         /\ ~Enforcing => Seen(sig) = SeenNothing
         /\ Enforcing => Seen(sig).moved = seen.moved
         /\ Enforcing /\ sig.burst = "far" =>
              /\ Seen(sig).mute = 0 /\ Seen(sig).far = UpTo(AwayDwell, seen.far)
              /\ Seen(sig).clear = UpTo(LostAway, seen.clear)
         /\ Enforcing /\ sig.burst \in {"near", "band"} =>
              /\ Seen(sig).mute = 0 /\ Seen(sig).far = 0 /\ Seen(sig).clear = 0
         /\ Enforcing /\ sig.burst \in {"none", "poor"} =>
              /\ Seen(sig).mute = UpTo(MuteBound + 1, seen.mute)
              /\ Seen(sig).far = seen.far
              /\ Seen(sig).clear = UpTo(LostAway, seen.clear)
<1>0. /\ seen \in History
      /\ UpTo(AwayDwell, seen.far) \in 0 .. AwayDwell
      /\ UpTo(LostAway, seen.clear) \in 0 .. LostAway
      /\ UpTo(MuteBound + 1, seen.mute) \in 0 .. MuteBound + 1
      /\ 0 \in 0 .. MuteBound + 1 /\ 0 \in 0 .. AwayDwell
      /\ 0 \in 0 .. LostAway /\ LostAway \in 0 .. LostAway
  BY TypedState, MuteBoundType, Sizes, UpToType DEF History
<1>1. SeenNothing \in History /\ ~SeenNothing.moved
  BY <1>0 DEF SeenNothing, History
<1>2. CASE ~Enforcing
  <2>1. Seen(sig) = SeenNothing
    BY <1>2 DEF Seen
  <2> QED
    BY <1>1, <1>2, <2>1
<1>3. CASE Enforcing /\ sig.burst = "far"
  <2>1. Seen(sig) = [seen EXCEPT !.mute = 0, !.far = UpTo(AwayDwell, seen.far),
                                 !.clear = UpTo(LostAway, seen.clear)]
    BY <1>0, <1>3 DEF Seen, History
  <2> QED
    BY <1>0, <1>1, <1>3, <2>1 DEF History
<1>4. CASE Enforcing /\ sig.burst \in {"near", "band"}
  <2>1. Seen(sig) = [seen EXCEPT !.mute = 0, !.far = 0, !.clear = 0]
    BY <1>0, <1>4 DEF Seen, History
  <2> QED
    BY <1>0, <1>1, <1>4, <2>1 DEF History
<1>5. CASE Enforcing /\ sig.burst \in {"none", "poor"}
  <2>1. Seen(sig) = [seen EXCEPT !.mute = UpTo(MuteBound + 1, seen.mute),
                                 !.clear = UpTo(LostAway, seen.clear)]
    BY <1>0, <1>5 DEF Seen, History
  <2> QED
    BY <1>0, <1>1, <1>5, <2>1 DEF History
<1> QED
  BY <1>2, <1>3, <1>4, <1>5 DEF Signals, Measured

\* TypeOK, as its parts have been named above.
Typed ==
  /\ cells \in [1 .. 2 -> Commitments]
  /\ held \in 1 .. 2 /\ plan \in 0 .. held
  /\ ctx \in Ctx /\ \E e \in Commitments : ctx.donning <= e.grace
  /\ radio \in Radio /\ poll \in [age : 0 .. PollMet, force : BOOLEAN]
  /\ pins \in BOOLEAN /\ phase \in {"loop", "work"}
  /\ seen \in History

LEMMA TypeParts == (TypeOK <=> Typed) /\ (TypeOK' <=> Typed')
BY DEF TypeOK, Typed, Ctx, Radio, History

-----------------------------------------------------------------------------
(* Every variable has the type of what it models, and the context is of one*)
(* mind: the steps.                                                        *)

LEMMA InitContext == Init => TypeOK /\ ContextInv /\ PinsInv
<1> SUFFICES ASSUME Init PROVE TypeOK /\ ContextInv /\ PinsInv
  OBVIOUS
<1>1. cells \in Schedules /\ held = 2 /\ plan = 0 /\ pins = FALSE /\ phase = "loop"
      /\ seen = SeenNothing
  BY DEF Init
<1>2. cells \in [1 .. 2 -> Commitments] /\ cells[1] \in Commitments
  BY <1>1, EnforcementAssumption DEF Commitments
<1>3. /\ ctx \in Ctx /\ ctx.active = 0 /\ ctx.met /\ ctx.run = "off"
      /\ ctx.donning = 0 /\ ~ctx.link.grace
  <2>1. PICK w \in BOOLEAN : ctx = [Started EXCEPT !.worn = w]
    BY DEF Init
  <2>2. /\ 0 \in 0 .. Tolerance + 1 /\ NoVerdict \in ProxState
        /\ 0 \in 0 .. 2 /\ "off" \in Runs
    BY Sizes DEF NoVerdict, ProxState, Runs
  <2>3. Started \in Ctx
    BY <2>2, NoLinkType DEF Started, Ctx
  <2>4. /\ Started.active = 0 /\ Started.met = TRUE /\ Started.run = "off"
        /\ Started.donning = 0 /\ Started.link = NoLink
    BY DEF Started
  <2> HIDE DEF Started
  <2>5. ctx \in Ctx
    BY <2>1, <2>3 DEF Ctx
  <2>6. /\ ctx.active = 0 /\ ctx.met = TRUE /\ ctx.run = "off"
        /\ ctx.donning = 0 /\ ctx.link = NoLink
    BY <2>1, <2>3, <2>4 DEF Ctx
  <2> QED
    BY <2>5, <2>6, NoLinkType
<1>4. \E e \in Commitments : ctx.donning <= e.grace
  BY <1>2, <1>3, CommitmentTypes DEF Commitment
<1>5. radio \in Radio /\ poll \in [age : 0 .. PollMet, force : BOOLEAN]
  BY Sizes DEF Init, Radio
<1>6. seen \in History /\ ~seen.moved
  BY <1>1, Sizes, MuteBoundType DEF SeenNothing, History
<1>7. TypeOK
  <2>1. held \in 1 .. 2 /\ plan \in 0 .. held /\ phase \in {"loop", "work"}
    BY <1>1
  <2>2. pins \in BOOLEAN
    BY <1>1, Zenon
  <2> QED
    BY <1>2, <1>3, <1>4, <1>5, <1>6, <2>1, <2>2, TypeParts DEF Typed
<1> QED
  BY <1>1, <1>3, <1>6, <1>7 DEF ContextInv, PinsInv, Enforcing

LEMMA RefreshContext ==
  ASSUME TypeOK, ContextInv, NEW sig \in Signals, Refresh(sig)
  PROVE  TypeOK' /\ ContextInv' /\ PinsInv'
<1>0. /\ phase' = "work" /\ UNCHANGED <<cells, held, plan>>
      /\ radio' = Heard(sig) /\ ctx' \in Ctx
      /\ Continues(sig) \/ Ends \/ Begins
  BY RefreshFacts
<1>1. /\ radio' \in Radio /\ UpTo(PollMet, poll.age) \in 0 .. PollMet
      /\ ctx.donning \in Nat /\ Less(ctx.donning) <= ctx.donning
      /\ Less(ctx.donning) \in Nat
  <2>1. ctx.donning \in Nat /\ poll.age \in 0 .. PollMet
    BY TypedState DEF Ctx
  <2>2. Less(ctx.donning) <= ctx.donning /\ Less(ctx.donning) \in Nat
    BY <2>1 DEF Less
  <2> QED
    BY <1>0, <2>1, <2>2, HeardType, TypedState, UpToType, Sizes
<1>a. PICK e0 \in Commitments : ctx.donning <= e0.grace
  BY DEF TypeOK
<1>b. e0.grace \in Nat
  BY CommitmentTypes DEF Commitment
<1>c. Less(ctx.donning) <= e0.grace
  BY <1>1, <1>a, <1>b
<1>2. CASE Continues(sig)
  <2>1. /\ ctx'.active = ctx.active /\ ctx'.met = ctx.met /\ ctx'.run = ctx.run
        /\ ctx'.donning = Less(ctx.donning) /\ ctx'.link.grace = ctx.link.grace
    BY <1>2, AgedFacts DEF Continues
  <2>2. /\ seen' \in History
        /\ Enforcing => seen'.moved = seen.moved
        /\ ~Enforcing => ~seen'.moved
    BY <1>2, SeenFacts DEF Continues
  <2>3. /\ poll' \in [age : 0 .. PollMet, force : BOOLEAN]
        /\ poll'.force = poll.force
    BY <1>1, <1>2, TypedState DEF Continues
  <2>4. TypeOK'
    <3>1. /\ \E e \in Commitments : ctx'.donning <= e.grace
          /\ pins' \in BOOLEAN /\ phase' \in {"loop", "work"}
      BY <1>0, <1>2, <1>c, <2>1, TypeParts DEF Typed, Continues
    <3> QED
      BY <1>0, <1>1, <2>2, <2>3, <3>1, TypeParts DEF Typed
  <2>5. (Enforcing' <=> Enforcing) /\ (Enforcing => Event' = Event)
    BY <1>0, <2>1 DEF Enforcing, Event
  <2>6. ctx'.donning > 0 => ctx.donning > 0
    BY <1>1, <2>1 DEF Less
  <2>7. Enforcing /\ ctx.donning <= Event.grace => ctx'.donning <= Event.grace
    BY <1>1, <2>1, EventType DEF Commitment
  <2>8. ContextInv'
    <3>1. CASE Enforcing
      BY <2>1, <2>2, <2>3, <2>5, <2>6, <2>7, <3>1 DEF ContextInv
    <3>2. CASE ~Enforcing
      BY <2>1, <2>2, <2>3, <2>5, <2>6, <3>2 DEF ContextInv
    <3> QED
      BY <3>1, <3>2
  <2> QED
    BY <1>0, <2>4, <2>8 DEF PinsInv
<1>3. CASE Ends
  <2>1. /\ poll' \in [age : 0 .. PollMet, force : BOOLEAN]
        /\ seen' \in History /\ ~seen'.moved
    BY <1>1, <1>3, TypedState, SeenFacts DEF Ends
  <2>2. TypeOK'
    BY <1>0, <1>1, <1>3, <1>c, <2>1, TypeParts DEF Typed, Ends
  <2>3. ContextInv'
    BY <1>3, <2>1, NoLinkType DEF Ends, ContextInv, Enforcing
  <2> QED
    BY <1>0, <2>2, <2>3 DEF PinsInv
<1>4. CASE Begins
  <2>1. /\ poll' \in [age : 0 .. PollMet, force : BOOLEAN]
        /\ seen' \in History /\ ~seen'.moved
    BY <1>1, <1>4, TypedState, SeenFacts DEF Begins
  <2>2. Event' \in Commitments /\ Event'.grace \in Nat
    BY <1>4, CommitmentTypes DEF Begins, TypeOK, Commitment
  <2>3. ctx'.donning <= Event'.grace /\ \E e \in Commitments : ctx'.donning <= e.grace
    BY <1>4, <2>2 DEF Begins
  <2>4. TypeOK'
    BY <1>0, <1>1, <1>4, <2>1, <2>3, TypeParts DEF Typed, Begins
  <2>5. ContextInv'
    BY <1>4, <2>1, <2>3, NoLinkType DEF Begins, ContextInv, Enforcing
  <2> QED
    BY <1>0, <2>4, <2>5 DEF PinsInv
<1> QED
  BY <1>0, <1>2, <1>3, <1>4

LEMMA WorkContext ==
  ASSUME TypeOK, ContextInv, NEW jitter \in BOOLEAN, NEW step \in {"on", "wait"},
         NEW worn \in BOOLEAN, Work(jitter, step, worn)
  PROVE  TypeOK' /\ ContextInv' /\ PinsInv'
<1>0. /\ ctx \in Ctx /\ ctx.donning \in Nat /\ radio \in Radio
      /\ poll \in [age : 0 .. PollMet, force : BOOLEAN] /\ ctx.worn \in BOOLEAN
  BY TypedState DEF Ctx
<1>1. CASE Enforcing
  <2>1. /\ phase = "work" /\ phase' = "loop"
        /\ UNCHANGED <<cells, held, plan, seen>> /\ Event' = Event /\ Enforcing'
        /\ ctx' \in Ctx /\ ctx'.active = ctx.active
        /\ ctx'.met <=> ctx'.run = "off"
        /\ ctx'.run \in {"on", "wait"} /\ Event.steady => seen.moved
        /\ \/ ctx'.donning = ctx.donning \/ ctx'.donning = 0
           \/ ctx'.donning = Event.grace /\ worn # ctx.worn
        /\ pins' <=> ctx'.run \in {"steady", "on"} /\ ~ctx'.link.grace
        /\ pins' \in BOOLEAN
        /\ poll' = [age   |-> IF PollDue THEN 0 ELSE poll.age,
                    force |-> worn # ctx.worn]
        /\ \/ ctx'.met = ctx.met /\ ctx'.prox = ctx.prox
           \/ Answer(ctx'.met, ctx'.prox)
        /\ PollDue => Answer(ctx'.met, ctx'.prox)
        /\ ctx'.link.grace => ~ctx'.met
        /\ Event.crit \in Ranged => radio' = [Observed EXCEPT !.unread = FALSE]
        /\ Event.crit \notin Ranged => UNCHANGED radio
    BY <1>1, WorkEnforces
  <2>2. /\ Event \in Commitment /\ Event \in Commitments /\ Event.grace \in Nat
    BY <1>1, EventType DEF Commitment
  <2>3. radio' \in Radio
    BY <1>0, <2>1, ObservedType DEF Radio
  <2>4. /\ poll' \in [age : 0 .. PollMet, force : BOOLEAN]
        /\ poll'.force <=> worn # ctx.worn
    <3>1. (worn # ctx.worn) \in BOOLEAN
      OBVIOUS
    <3>2. (IF PollDue THEN 0 ELSE poll.age) \in 0 .. PollMet
      BY <1>0, Sizes
    <3> QED
      BY <2>1, <3>1, <3>2
  <2>5. \E e \in Commitments : ctx'.donning <= e.grace
    <3>1. PICK e \in Commitments : ctx.donning <= e.grace
      BY DEF TypeOK
    <3>2. e.grace \in Nat
      BY CommitmentTypes DEF Commitment
    <3>3. CASE ctx'.donning = ctx.donning \/ ctx'.donning = 0
      BY <1>0, <3>1, <3>2, <3>3
    <3>4. CASE ctx'.donning = Event.grace
      BY <2>2, <3>4
    <3> QED
      BY <2>1, <3>3, <3>4
  <2>6. TypeOK'
    <3>1. seen' \in History
      BY <2>1, TypeParts DEF Typed
    <3> QED
      BY <2>1, <2>3, <2>4, <2>5, <3>1, TypeParts DEF Typed
\* A donning grace is met with: the watch was polled, or was before.
  <2>7. ctx'.donning > 0 => ctx'.met \/ poll'.force
    <3>1. CASE ctx'.donning = ctx.donning
      <4>1. ctx.donning > 0 => ctx'.met
        BY <2>1 DEF ContextInv, PollDue, Answer
      <4> QED
        BY <3>1, <4>1
    <3>2. CASE ctx'.donning = 0
      BY <3>2
    <3> QED
      BY <2>1, <2>4, <3>1, <3>2
  <2>8. ~seen.moved => ctx'.donning <= Event.grace
    BY <1>0, <1>1, <2>1, <2>2 DEF ContextInv
  <2>9. ContextInv'
    BY <2>1, <2>7, <2>8 DEF ContextInv
  <2>10. PinsInv'
    <3>1. ctx'.run \in Runs
      BY <2>1 DEF Ctx
    <3> QED
      BY <2>1, <3>1 DEF PinsInv, Runs
  <2> QED
    BY <2>6, <2>9, <2>10
<1>2. CASE ~Enforcing
  <2>1. /\ phase' = "loop" /\ pins' = FALSE
        /\ UNCHANGED <<cells, held, plan, seen, radio>> /\ ~Enforcing'
        /\ ctx' \in Ctx /\ ctx'.active = ctx.active
        /\ ctx'.met = ctx.met /\ ctx'.run = ctx.run
        /\ ctx'.prox = ctx.prox /\ ctx'.link = ctx.link
        /\ ctx'.donning = ctx.donning \/ ctx'.donning = 0
        /\ poll' = [poll EXCEPT !.force = @ \/ worn # ctx.worn]
    BY <1>2, WorkDormant
  <2>2. poll' \in [age : 0 .. PollMet, force : BOOLEAN] /\ (poll.force => poll'.force)
    <3>1. (poll.force \/ worn # ctx.worn) \in BOOLEAN
      OBVIOUS
    <3>2. poll' = [poll EXCEPT !.force = (poll.force \/ worn # ctx.worn)]
      BY <1>0, <2>1
    <3> QED
      BY <1>0, <3>1, <3>2
  <2>3. \E e \in Commitments : ctx'.donning <= e.grace
    <3>1. PICK e \in Commitments : ctx.donning <= e.grace
      BY DEF TypeOK
    <3>2. e.grace \in Nat
      BY CommitmentTypes DEF Commitment
    <3> QED
      BY <1>0, <2>1, <3>1, <3>2
  <2>4. TypeOK'
    <3>1. seen' \in History /\ pins' \in BOOLEAN
      BY <2>1, TypeParts DEF Typed
    <3> QED
      BY <2>1, <2>2, <2>3, <3>1, TypeParts DEF Typed
  <2>5. ContextInv' /\ PinsInv'
    BY <1>0, <1>2, <2>1, <2>2 DEF ContextInv, PinsInv
  <2> QED
    BY <2>4, <2>5
<1> QED
  BY <1>1, <1>2

LEMMA OtherContext ==
  ASSUME TypeOK, ContextInv, PinsInv,
         \/ UNCHANGED vars
         \/ Shift \/ Accepted \/ \E i \in 0 .. 2 : Turn(i)
  PROVE  TypeOK' /\ ContextInv' /\ PinsInv'
<1>1. CASE UNCHANGED vars
  BY <1>1 DEF vars, TypeOK, ContextInv, PinsInv, Enforcing, Event
<1>2. CASE Shift
  <2>1. /\ cells' = [i \in 1 .. 2 |-> cells[2]] /\ held' = 1 /\ plan' = 1
        /\ seen' = [seen EXCEPT !.moved = (ctx.active = 1)]
        /\ poll' = [poll EXCEPT !.force = TRUE]
        /\ UNCHANGED <<ctx, radio, pins, phase>>
    BY <1>2 DEF Shift
  <2>2. /\ seen' \in History /\ (seen'.moved <=> ctx.active = 1)
        /\ poll' \in [age : 0 .. PollMet, force : BOOLEAN] /\ poll'.force
    BY <2>1, TypeParts DEF Typed, History
  <2>3. TypeOK'
    BY <2>1, <2>2, TypeParts DEF Typed
  <2>4. ctx.active \in 0 .. 2 /\ (ctx.active = 2 => Event' = Event)
    BY <2>1, TypeParts DEF Typed, Event, Ctx
  <2>5. ctx.active = 2 => ~seen.moved
    BY DEF ContextInv
  <2>6. ContextInv'
    BY <2>1, <2>2, <2>4, <2>5 DEF ContextInv, Enforcing
  <2> QED
    BY <2>1, <2>3, <2>6 DEF PinsInv
<1>3. CASE Accepted
  <2>1. /\ poll' = [poll EXCEPT !.force = TRUE]
        /\ UNCHANGED <<cells, held, plan, ctx, radio, pins, phase, seen>>
    BY <1>3 DEF Accepted
  <2>2. poll' \in [age : 0 .. PollMet, force : BOOLEAN] /\ poll'.force
    BY <2>1, TypeParts DEF Typed
  <2> QED
    BY <2>1, <2>2 DEF TypeOK, ContextInv, PinsInv, Enforcing, Event
<1>4. CASE \E i \in 0 .. 2 : Turn(i)
  <2>1. /\ plan' \in 0 .. held
        /\ UNCHANGED <<cells, held, ctx, radio, poll, pins, phase, seen>>
    BY <1>4 DEF Turn, TypeOK
  <2> QED
    BY <2>1 DEF TypeOK, ContextInv, PinsInv, Enforcing, Event
<1> QED
  BY <1>1, <1>2, <1>3, <1>4

LEMMA ContextAlways == Spec => [](TypeOK /\ ContextInv /\ PinsInv)
<1>1. TypeOK /\ ContextInv /\ PinsInv /\ [Next]_vars
        => (TypeOK /\ ContextInv /\ PinsInv)'
  <2> SUFFICES ASSUME TypeOK, ContextInv, PinsInv, [Next]_vars
               PROVE  TypeOK' /\ ContextInv' /\ PinsInv'
    OBVIOUS
  <2>1. CASE \E sig \in Signals : Refresh(sig)
    BY <2>1, RefreshContext
  <2>2. CASE \E jitter, worn \in BOOLEAN, step \in {"on", "wait"} :
               Work(jitter, step, worn)
    BY <2>2, WorkContext
  <2>3. CASE UNCHANGED vars \/ Shift \/ Accepted \/ \E i \in 0 .. 2 : Turn(i)
    BY <2>3, OtherContext
  <2> QED
    BY <2>1, <2>2, <2>3 DEF Next, Pass
<1> QED
  BY <1>1, InitContext, PTL DEF Spec

\* Every variable has the type of what it models; a donning grace is never
\* longer than one that an event of the schedule grants.
THEOREM TypeCorrect == Spec => []TypeOK
BY ContextAlways, PTL

\* Output is never left over from a window, a verdict or a grace that has
\* ended, and while the criterion is not met there is output, but for a loop's
\* step without (main.c: drive_output_from_enforcement).
THEOREM OutputFollows == Spec => []OutputFollowsCondition
<1>1. TypeOK /\ ContextInv /\ PinsInv => OutputFollowsCondition
  <2> SUFFICES ASSUME TypeOK, ContextInv, PinsInv, phase = "loop"
               PROVE  OutputFollowsCondition
    BY DEF OutputFollowsCondition
  <2> QED
    BY DEF ContextInv, PinsInv, OutputFollowsCondition
<1> QED
  BY <1>1, ContextAlways, PTL

-----------------------------------------------------------------------------
(* The verdict.  Each of these holds between any two steps; `Own' windows  *)
(* are those that ranging answers and no push has moved.                   *)

\* A result read is one of a measurement, and a pass reads what there is.
ReadInv ==
  /\ radio.unread => radio.last \in Measured
  /\ Own /\ phase = "loop" => ~radio.unread
  /\ Own /\ ~ctx.link.armed => ctx.met /\ phase = "work"
  /\ Own /\ Unread => seen.mute = 0

\* An alarm is about a verdict of near, and without one the criterion has the
\* answer of away, or is about to be polled.
AnswerInv ==
  /\ Own /\ Event.crit = "getAway" /\ ~ctx.met => ctx.prox.have /\ ctx.prox.near
  /\ Own /\ Event.grace = 0 /\ NotNear(ctx.prox) =>
       \/ phase = "work" /\ poll.force
       \/ ctx.met <=> Event.crit # "stayNear"

\* The run of far bursts is of bursts that came.
FarInv ==
  Own => /\ ~Unread => ctx.prox.awayRun <= seen.far
         /\ Unread /\ radio.last = "far" =>
              UpTo(AwayDwell, ctx.prox.awayRun) <= seen.far

\* Abstentions are of silence, one in a pass.
AbstainInv ==
  Own /\ ctx.prox.near /\ ~Unread =>
    /\ ctx.link.counted => /\ ctx.prox.abstain = 0
                           /\ phase = "work" => seen.mute >= 1
    /\ ~ctx.link.counted =>
         ctx.prox.abstain + (IF phase = "work" THEN 2 ELSE 1) <= seen.mute

\* A burst that is more recent than the last activity is what the radio
\* reports as late.
ClearInv == seen.clear < radio.age => radio.late /\ radio.last \in {"near", "band"}

\* A grace lasts as long as LostAway has not passed since a burst that was
\* not far, and no such burst came.
GraceInv ==
  ctx.link.grace =>
    /\ phase = "loop" => /\ ctx.link.left > 0
                         /\ seen.clear + ctx.link.left >= LostAway
    /\ phase = "work" => \/ seen.clear + ctx.link.left >= LostAway
                         \/ ctx.link.newer /\ radio.last \in {"near", "band"}

\* A loss that is concluded is away for as long as the link stays lost.
LossInv ==
  /\ ctx.link.noted /\ ctx.link.concluded =>
       ~ctx.prox.near /\ ~radio.unread /\ radio.age >= LostAway
  /\ Own /\ phase = "loop" /\ radio.heard /\ radio.age >= LostAway =>
       ~ctx.prox.near

\* The abstentions that silence will have charged at the next poll.
Charged == IF ctx.link.counted THEN 0 ELSE ctx.prox.abstain + 1

\* Silence is charged at every poll, and a poll is never later than PollMet.
ChargeInv ==
  /\ Enforcing /\ phase = "loop" => poll.age < PollMet
  /\ Own /\ ctx.prox.near /\ ~Unread =>
       InFailsafe(ctx.prox) \/ seen.mute <= Charged * PollMet + poll.age

VerdictInv ==
  /\ ReadInv /\ AnswerInv /\ FarInv /\ AbstainInv
  /\ ClearInv /\ GraceInv /\ LossInv /\ ChargeInv

\* The steps of others than the main loop leave a window as it was, or move it.
LEMMA OtherVerdict ==
  ASSUME TypeOK, ContextInv, VerdictInv,
         \/ UNCHANGED vars
         \/ Shift \/ Accepted \/ \E i \in 0 .. 2 : Turn(i)
  PROVE  VerdictInv'
<1>1. /\ UNCHANGED <<ctx, radio, phase>> /\ poll'.age = poll.age
      /\ poll.force => poll'.force
      /\ seen'.mute = seen.mute /\ seen'.clear = seen.clear
      /\ seen'.far = seen.far
      /\ Own' => Own /\ Event' = Event
  <2>1. CASE UNCHANGED vars
    BY <2>1 DEF vars, Own, Enforcing, Event
  <2>2. CASE Shift
    <3>1. /\ cells' = [i \in 1 .. 2 |-> cells[2]] /\ UNCHANGED <<ctx, radio, phase>>
          /\ seen' = [seen EXCEPT !.moved = (ctx.active = 1)]
          /\ poll' = [poll EXCEPT !.force = TRUE]
      BY <2>2 DEF Shift
    <3>2. /\ seen'.mute = seen.mute /\ seen'.clear = seen.clear
          /\ seen'.far = seen.far /\ (seen'.moved <=> ctx.active = 1)
          /\ poll'.age = poll.age /\ poll'.force
      BY <3>1, TypeParts DEF Typed, History
    <3>3. ctx.active \in 0 .. 2
      BY TypeParts DEF Typed, Ctx
    <3>4. Own' => ctx.active = 2
      BY <3>1, <3>2, <3>3 DEF Own, Enforcing
    <3>5. ctx.active = 2 => Event' = Event /\ ~seen.moved
      BY <3>1 DEF Event, ContextInv
    <3>6. Own' => Own /\ Event' = Event
      BY <3>1, <3>4, <3>5 DEF Own, Enforcing
    <3> QED
      BY <3>1, <3>2, <3>6
  <2>3. CASE Accepted
    <3>1. /\ poll' = [poll EXCEPT !.force = TRUE]
          /\ UNCHANGED <<cells, held, plan, ctx, radio, pins, phase, seen>>
      BY <2>3 DEF Accepted
    <3>2. poll'.age = poll.age /\ poll'.force
      BY <3>1, TypeParts DEF Typed
    <3> QED
      BY <3>1, <3>2 DEF Own, Enforcing, Event
  <2>4. CASE \E i \in 0 .. 2 : Turn(i)
    BY <2>4 DEF Turn, Own, Enforcing, Event
  <2> QED
    BY <2>1, <2>2, <2>3, <2>4
<1>2. ReadInv' /\ AnswerInv'
  BY <1>1 DEF VerdictInv, ReadInv, AnswerInv, Unread, NotNear, InFailsafe
<1>3. FarInv' /\ AbstainInv' /\ ClearInv' /\ GraceInv' /\ LossInv'
  BY <1>1 DEF VerdictInv, FarInv, AbstainInv, ClearInv, GraceInv, LossInv, Unread
<1>4. ChargeInv'
  BY <1>1 DEF VerdictInv, ChargeInv, Charged, Unread, InFailsafe, Enforcing
<1> QED
  BY <1>2, <1>3, <1>4 DEF VerdictInv

LEMMA InitVerdict == Init => VerdictInv
<1> SUFFICES ASSUME Init PROVE VerdictInv
  OBVIOUS
<1>1. TypeOK /\ ~Enforcing
  <2>1. PICK w \in BOOLEAN : ctx = [Started EXCEPT !.worn = w]
    BY DEF Init
  <2>2. ctx.active = 0
    BY <2>1 DEF Started
  <2> QED
    BY <2>2, InitContext DEF Enforcing
<1>2. /\ seen.clear = LostAway /\ radio.age = LostAway /\ ~radio.unread
  BY DEF Init, SeenNothing
<1>3. ctx.link = NoLink
  <2>1. PICK w \in BOOLEAN : ctx = [Started EXCEPT !.worn = w]
    BY DEF Init
  <2> QED
    BY <2>1 DEF Started
<1>4. LostAway \in Nat
  BY Sizes
<1> QED
  BY <1>1, <1>2, <1>3, <1>4, NoLinkType
  DEF VerdictInv, ReadInv, AnswerInv, FarInv, AbstainInv, ClearInv, GraceInv,
      LossInv, ChargeInv, Own

LEMMA BoundTypes ==
  /\ MuteBound \in Nat /\ AbstainMax + 2 <= MuteBound
  /\ (AbstainMax + 1) * PollMet + PollMet = MuteBound
<1>1. \A a \in Nat, p \in Nat \ {0} : a <= a * p
  OBVIOUS
<1> QED
  BY <1>1, Sizes DEF MuteBound

\* The next unit of a window that goes on.
LEMMA RefreshVerdict ==
  ASSUME TypeOK, ContextInv, VerdictInv, NEW sig \in Signals, Refresh(sig)
  PROVE  VerdictInv'
<1>0. /\ phase = "loop" /\ phase' = "work" /\ Possible(sig)
      /\ UNCHANGED <<cells, held, plan>> /\ radio' = Heard(sig)
      /\ Continues(sig) \/ Ends \/ Begins
  BY RefreshFacts
<1>1. /\ radio \in Radio /\ radio.age \in 0 .. LostAway
      /\ radio'.heard <=> radio.heard \/ sig.act
      /\ radio'.age = IF sig.act THEN 0 ELSE UpTo(LostAway, radio.age)
      /\ radio'.last = IF sig.burst = "none" THEN radio.last
                       ELSE IF sig.burst = "poor" THEN "none" ELSE sig.burst
      /\ radio'.late <=> IF sig.burst # "none"
                         THEN sig.after /\ sig.burst # "poor"
                         ELSE radio.late /\ ~sig.act
      /\ radio'.unread <=> IF sig.burst = "none" THEN radio.unread
                           ELSE sig.burst # "poor"
  BY <1>0, TypedState DEF Heard, Radio
<1>2. /\ sig.burst \in Measured \cup {"none", "poor"}
      /\ sig.burst # "none" /\ ~sig.act => sig.after /\ radio.age = 0
  BY <1>0 DEF Signals, Possible
<1>3. radio'.age \in 0 .. LostAway /\ LostAway \in Nat \ {0}
  BY <1>1, Sizes, UpToType
<1>4. radio'.unread => radio'.last \in Measured
  BY <1>1, <1>2 DEF VerdictInv, ReadInv, Measured
<1>5. CASE Ends
  <2>1. ~Enforcing' /\ ctx'.link = NoLink /\ seen'.clear = LostAway
    BY <1>5 DEF Ends, Enforcing, SeenNothing
  <2> QED
    BY <1>3, <1>4, <2>1, NoLinkType
    DEF VerdictInv, ReadInv, AnswerInv, FarInv, AbstainInv, ClearInv, GraceInv,
        LossInv, ChargeInv, Own
<1>6. CASE Begins
  <2>1. /\ ctx'.link = NoLink /\ ctx'.met /\ poll'.force
        /\ seen'.clear = LostAway /\ seen'.far = 0
    BY <1>6 DEF Begins, SeenNothing
  <2>2. Own' => ctx'.prox = NoVerdict
    BY <1>6 DEF Begins, Own
  <2>3. ~NoVerdict.near /\ NoVerdict.awayRun = 0
    BY DEF NoVerdict
  <2> QED
    BY <1>0, <1>3, <1>4, <2>1, <2>2, <2>3, NoLinkType
    DEF VerdictInv, ReadInv, AnswerInv, FarInv, AbstainInv, ClearInv, GraceInv,
        LossInv, ChargeInv, Unread
<1>7. CASE Continues(sig)
  <2>1. /\ ctx'.active = ctx.active /\ ctx'.met = ctx.met /\ ctx'.prox = ctx.prox
        /\ ctx'.link.armed = ctx.link.armed /\ ctx'.link.grace = ctx.link.grace
        /\ ctx'.link.concluded = ctx.link.concluded
        /\ ctx'.link.counted = ctx.link.counted
        /\ ctx'.link.left = Less(ctx.link.left)
        /\ ctx'.link.noted <=> ctx.link.noted /\ ~sig.act
        /\ ctx'.link.newer <=> /\ ctx.link.grace
                               /\ ctx.link.newer \/ sig.burst \in Measured
    BY <1>7, AgedFacts DEF Continues
  <2>2. /\ seen \in History /\ seen' \in History
        /\ Enforcing => seen'.moved = seen.moved
        /\ ~Enforcing => seen'.clear = LostAway
        /\ Enforcing /\ sig.burst = "far" =>
             /\ seen'.mute = 0 /\ seen'.far = UpTo(AwayDwell, seen.far)
             /\ seen'.clear = UpTo(LostAway, seen.clear)
        /\ Enforcing /\ sig.burst \in {"near", "band"} =>
             /\ seen'.mute = 0 /\ seen'.far = 0 /\ seen'.clear = 0
        /\ Enforcing /\ sig.burst \in {"none", "poor"} =>
             /\ seen'.mute = UpTo(MuteBound + 1, seen.mute)
             /\ seen'.far = seen.far
             /\ seen'.clear = UpTo(LostAway, seen.clear)
    BY <1>7, SeenFacts, TypeParts DEF Continues, Typed, SeenNothing
  <2>3. /\ poll'.age = UpTo(PollMet, poll.age) /\ poll'.force = poll.force
        /\ poll.age \in 0 .. PollMet
    BY <1>7, TypeParts DEF Continues, Typed
  <2>4. /\ Enforcing' <=> Enforcing
        /\ Own' => Own /\ Event' = Event
    BY <1>0, <2>1, <2>2 DEF Own, Enforcing, Event
  <2>5. Own' => ctx.link.armed /\ ~radio.unread
    BY <1>0, <2>4 DEF VerdictInv, ReadInv
  <2>6. Own' => (Unread' <=> sig.burst \in Measured)
    BY <1>1, <1>2, <2>1, <2>5 DEF Unread, Measured
  <2>7. ReadInv'
    BY <1>0, <1>4, <2>1, <2>2, <2>4, <2>5, <2>6
    DEF VerdictInv, ReadInv, Measured, Own
  <2>8. AnswerInv'
    BY <1>0, <2>1, <2>4 DEF VerdictInv, AnswerInv
  <2>9. FarInv'
    <3> SUFFICES ASSUME Own' PROVE FarInv'
      BY DEF FarInv
    <3>1. Own /\ ~Unread /\ Enforcing /\ ctx.prox.awayRun <= seen.far
      BY <2>4, <2>5 DEF VerdictInv, FarInv, Unread, Own
    <3>2. ctx.prox.awayRun \in 0 .. AwayDwell /\ seen.far \in 0 .. AwayDwell
          /\ AwayDwell \in Nat
      BY <2>2, TypedState, Sizes DEF ProxState, History
    <3>3. CASE sig.burst = "far"
      <4>1. seen'.far = UpTo(AwayDwell, seen.far) /\ ctx'.prox = ctx.prox /\ Unread'
        BY <2>1, <2>2, <2>6, <3>1, <3>3 DEF Measured
      <4>2. UpTo(AwayDwell, ctx.prox.awayRun) <= UpTo(AwayDwell, seen.far)
        BY <3>1, <3>2 DEF UpTo
      <4> QED
        BY <4>1, <4>2 DEF FarInv
    <3>4. CASE sig.burst \in {"near", "band"}
      <4>1. Unread' /\ radio'.last # "far"
        BY <1>1, <2>6, <3>4 DEF Measured
      <4> QED
        BY <4>1 DEF FarInv
    <3>5. CASE sig.burst \in {"none", "poor"}
      BY <2>1, <2>2, <2>6, <3>1, <3>5 DEF FarInv, Measured
    <3> QED
      BY <1>2, <3>3, <3>4, <3>5 DEF Measured
  <2>10. ASSUME Own', ctx'.prox.near, ~Unread'
         PROVE  /\ Own /\ ctx.prox.near /\ ~Unread /\ Enforcing
                /\ seen'.mute = UpTo(MuteBound + 1, seen.mute)
    <3>1. sig.burst \in {"none", "poor"}
      BY <1>2, <2>6, <2>10
    <3> QED
      BY <2>1, <2>2, <2>4, <2>5, <2>10, <3>1 DEF Own, Unread
  <2>11. /\ seen.mute \in 0 .. MuteBound + 1 /\ MuteBound \in Nat
         /\ ctx.prox.abstain \in 0 .. AbstainMax + 1
         /\ AbstainMax \in Nat /\ AbstainMax + 2 <= MuteBound
    BY <2>2, TypedState, Sizes, BoundTypes DEF History, ProxState
  <2>12. AbstainInv'
    <3> SUFFICES ASSUME Own', ctx'.prox.near, ~Unread' PROVE AbstainInv'
      BY DEF AbstainInv
    <3>1. /\ ctx.link.counted => ctx.prox.abstain = 0
          /\ ~ctx.link.counted => ctx.prox.abstain + 1 <= seen.mute
          /\ seen'.mute = UpTo(MuteBound + 1, seen.mute)
      BY <1>0, <2>10 DEF VerdictInv, AbstainInv
    <3>2. /\ seen'.mute >= 1
          /\ ~ctx.link.counted => ctx.prox.abstain + 2 <= seen'.mute
      BY <2>11, <3>1 DEF UpTo
    <3> QED
      BY <1>0, <2>1, <3>1, <3>2 DEF AbstainInv
  <2>13. ClearInv'
    <3> SUFFICES ASSUME seen'.clear < radio'.age PROVE ClearInv'
      BY DEF ClearInv
    <3>1. ~sig.act /\ radio'.age = UpTo(LostAway, radio.age)
      BY <1>1, <1>3, <2>2 DEF History
    <3>2. Enforcing
      BY <1>3, <2>2
    <3>3. CASE sig.burst \in {"near", "band"}
      BY <1>1, <1>2, <3>1, <3>3 DEF ClearInv
    <3>4. CASE sig.burst \notin {"near", "band"}
      <4>1. seen'.clear = UpTo(LostAway, seen.clear)
        BY <1>2, <2>2, <3>2, <3>4 DEF Measured
      <4>2. seen.clear < radio.age
        BY <1>1, <1>3, <2>2, <3>1, <4>1 DEF UpTo, History
      <4>3. sig.burst = "none"
        BY <1>1, <1>2, <2>2, <3>1, <4>2 DEF History
      <4> QED
        BY <1>1, <3>1, <4>2, <4>3 DEF VerdictInv, ClearInv
    <3> QED
      BY <3>3, <3>4
  <2>14. GraceInv'
    <3> SUFFICES ASSUME ctx'.link.grace PROVE GraceInv'
      BY DEF GraceInv
    <3>1. /\ ctx.link.grace /\ Enforcing /\ ctx.link.left > 0
          /\ seen.clear + ctx.link.left >= LostAway
      BY <1>0, <2>1 DEF ContextInv, VerdictInv, GraceInv
    <3>2. ctx.link.left \in 0 .. LostAway /\ seen.clear \in 0 .. LostAway
      BY <2>2, TypedState DEF Links, History
    <3>3. CASE sig.burst \in {"near", "band"}
      BY <1>0, <1>1, <2>1, <3>1, <3>3 DEF GraceInv, Measured
    <3>4. CASE sig.burst \notin {"near", "band"}
      <4>1. seen'.clear = UpTo(LostAway, seen.clear)
        BY <1>2, <2>2, <3>1, <3>4 DEF Measured
      <4>2. seen'.clear + ctx'.link.left >= LostAway
        BY <1>3, <2>1, <3>1, <3>2, <4>1 DEF UpTo, Less
      <4> QED
        BY <1>0, <4>2 DEF GraceInv
    <3> QED
      BY <3>3, <3>4
  <2>15. LossInv'
    <3>1. ASSUME ctx'.link.noted, ctx'.link.concluded
          PROVE  ~ctx'.prox.near /\ ~radio'.unread /\ radio'.age >= LostAway
      <4>1. /\ ~ctx.prox.near /\ ~radio.unread /\ radio.age >= LostAway /\ ~sig.act
        BY <2>1, <3>1 DEF VerdictInv, LossInv
      <4>2. sig.burst = "none" /\ radio.age = LostAway
        BY <1>1, <1>2, <1>3, <4>1
      <4> QED
        BY <1>1, <1>3, <2>1, <4>1, <4>2 DEF UpTo
    <3> QED
      BY <1>0, <3>1 DEF LossInv
  <2>16. ChargeInv'
    <3> SUFFICES ASSUME Own', ctx'.prox.near, ~Unread', ~InFailsafe(ctx.prox)
                 PROVE  seen'.mute <= Charged' * PollMet + poll'.age
      BY <1>0, <2>1 DEF ChargeInv, InFailsafe
    <3> DEFINE k == Charged * PollMet
    <3>1. /\ Own /\ Enforcing /\ seen.mute <= k + poll.age
          /\ poll.age < PollMet
          /\ seen'.mute = UpTo(MuteBound + 1, seen.mute)
      BY <1>0, <2>10 DEF VerdictInv, ChargeInv
    <3>2. Charged' = Charged /\ Charged \in Nat
      BY <2>1, <2>11 DEF Charged
    <3>3. k \in Nat /\ PollMet \in Nat
      BY <3>2, Sizes
    <3> HIDE DEF k
    <3>4. seen'.mute <= k + poll'.age
      BY <2>3, <2>11, <3>1, <3>3 DEF UpTo
    <3> QED
      BY <3>2, <3>4 DEF k
  <2> QED
    BY <2>7, <2>8, <2>9, <2>12, <2>13, <2>14, <2>15, <2>16 DEF VerdictInv
<1> QED
  BY <1>0, <1>5, <1>6, <1>7

\* What the poll and the bursts of a pass make of the verdict.
LEMMA AfterFacts ==
  ASSUME TypeOK
  PROVE  /\ AfterPoll \in ProxState /\ AfterBurst \in ProxState
         /\ AfterPoll.near = ctx.prox.near /\ AfterPoll.have = ctx.prox.have
         /\ AfterPoll.awayRun = ctx.prox.awayRun
         /\ PollDue /\ ~ctx.link.counted =>
              AfterPoll.abstain = UpTo(AbstainMax + 1, ctx.prox.abstain)
         /\ ~(PollDue /\ ~ctx.link.counted) => AfterPoll = ctx.prox
         /\ ~Observed.unread => AfterBurst = AfterPoll
         /\ Observed.unread /\ radio.last \in Measured =>
              /\ AfterBurst.abstain = 0
              /\ radio.last = "far" =>
                   /\ AfterBurst.awayRun = UpTo(AwayDwell, ctx.prox.awayRun)
                   /\ AfterBurst.near <=> /\ ctx.prox.near
                                          /\ AfterBurst.awayRun < AwayDwell
              /\ radio.last \in {"near", "band"} =>
                   /\ AfterBurst.awayRun = 0
                   /\ ctx.prox.near => AfterBurst.near
              /\ ctx.prox.have => AfterBurst.have
<1>1. /\ ctx.prox \in ProxState /\ radio \in Radio
      /\ Observed.last = radio.last /\ Observed.last \in Measured \cup {"none"}
  BY TypedState, ObservedType DEF Radio
<1>2. AfterPoll \in ProxState
  BY <1>1, IngestType DEF AfterPoll
<1>3. AfterBurst \in ProxState
  BY <1>1, <1>2, IngestType DEF AfterBurst
<1>4. /\ AfterPoll.near = ctx.prox.near /\ AfterPoll.have = ctx.prox.have
      /\ AfterPoll.awayRun = ctx.prox.awayRun
      /\ PollDue /\ ~ctx.link.counted =>
           AfterPoll.abstain = UpTo(AbstainMax + 1, ctx.prox.abstain)
      /\ ~(PollDue /\ ~ctx.link.counted) => AfterPoll = ctx.prox
  <2>1. CASE PollDue /\ ~ctx.link.counted
    <3>1. AfterPoll = Ingest(ctx.prox, "none")
      BY <2>1 DEF AfterPoll
    <3> QED
      BY <1>1, <2>1, <3>1, IngestNumbers
  <2>2. CASE ~(PollDue /\ ~ctx.link.counted)
    BY <2>2 DEF AfterPoll
  <2> QED
    BY <2>1, <2>2
<1>5. CASE ~Observed.unread
  <2>1. AfterBurst = AfterPoll
    BY <1>5 DEF AfterBurst
  <2> QED
    BY <1>2, <1>3, <1>4, <1>5, <2>1
<1>6. CASE Observed.unread
  <2>1. AfterBurst = Ingest(AfterPoll, radio.last)
    BY <1>1, <1>6 DEF AfterBurst
  <2>2. ASSUME radio.last \in Measured
        PROVE  /\ AfterBurst.abstain = 0
               /\ radio.last = "far" =>
                    /\ AfterBurst.awayRun = UpTo(AwayDwell, AfterPoll.awayRun)
                    /\ AfterBurst.near <=> /\ AfterPoll.near
                                           /\ AfterBurst.awayRun < AwayDwell
               /\ radio.last \in {"near", "band"} =>
                    /\ AfterBurst.awayRun = 0
                    /\ AfterPoll.near => AfterBurst.near
               /\ AfterPoll.have => AfterBurst.have
    BY <1>1, <1>2, <2>1, <2>2, IngestNumbers DEF Measured
  <2> QED
    BY <1>2, <1>3, <1>4, <1>6, <2>2
<1> QED
  BY <1>5, <1>6

\* A poll that is not due was less than PollMet ago.
LEMMA NotDue == ASSUME TypeOK PROVE ~PollDue => poll.age < PollMet /\ ~poll.force
<1>1. poll.age \in Nat
  BY TypedState
<1> QED
  BY <1>1, Sizes DEF PollDue, PollInterval

\* In a window that answers to its own event, the radio observed is the radio
\* once the link is armed, and before that it is deaf.
LEMMA OwnObserved ==
  ASSUME TypeOK, Event.crit \in Ranged
  PROVE  /\ Observed.unread <=> Unread
         /\ Observed.age = radio.age /\ Observed.last = radio.last
         /\ Observed.late = radio.late
         /\ GoneNow <=> Observed.heard /\ radio.age >= LostAway
<1>1. radio \in Radio /\ radio.age \in Nat
  BY TypedState DEF Radio
<1>2. ~Arming <=> ctx.link.armed
  BY DEF Arming
<1> QED
  BY <1>1, <1>2, ObservedType, Sizes DEF Unread, GoneNow, Lost

LEMMA WorkVerdict ==
  ASSUME TypeOK, ContextInv, VerdictInv, NEW jitter \in BOOLEAN,
         NEW step \in {"on", "wait"}, NEW worn \in BOOLEAN,
         Work(jitter, step, worn)
  PROVE  VerdictInv'
<1>1. CASE ~Enforcing
  <2>1. /\ ~Enforcing' /\ UNCHANGED <<seen, radio>>
        /\ ctx'.met = ctx.met /\ ctx'.prox = ctx.prox /\ ctx'.link = ctx.link
    BY <1>1, WorkDormant
  <2>2. ~ctx'.link.grace
    BY <1>1, <2>1 DEF ContextInv
  <2> QED
    BY <2>1, <2>2
    DEF VerdictInv, ReadInv, AnswerInv, FarInv, AbstainInv, ClearInv, GraceInv,
        LossInv, ChargeInv, Own
<1>2. CASE Enforcing
  <2> DEFINE d == Linking(jitter)
  <2>1. /\ phase = "work" /\ phase' = "loop" /\ UNCHANGED seen
        /\ Event' = Event /\ Enforcing'
        /\ poll' = [age   |-> IF PollDue THEN 0 ELSE poll.age,
                    force |-> worn # ctx.worn]
        /\ \/ ctx'.met = ctx.met /\ ctx'.prox = ctx.prox
           \/ Answer(ctx'.met, ctx'.prox)
        /\ PollDue => Answer(ctx'.met, ctx'.prox)
        /\ Event.crit \in Ranged => radio' = [Observed EXCEPT !.unread = FALSE]
        /\ Event.crit \notin Ranged => UNCHANGED radio
        /\ ctx'.prox = d.prox /\ ctx'.link = d.link
    BY <1>2, WorkEnforces
  <2>2. /\ poll'.age = IF PollDue THEN 0 ELSE poll.age
        /\ poll'.age < PollMet /\ poll'.age \in Nat
    BY <2>1, NotDue, TypedState, Sizes
  <2>3. radio'.late = radio.late /\ radio'.last = radio.last /\ radio'.age = radio.age
    BY <2>1, TypedState, ObservedType DEF Radio
  <2>4. ClearInv'
    BY <2>1, <2>3 DEF VerdictInv, ClearInv
  <2>5. Own' <=> Own
    BY <1>2, <2>1 DEF Own
  <2>6. CASE Event.crit \notin Ranged
    <3>1. /\ ctx'.prox = ctx.prox /\ ~ctx'.link.grace
          /\ ctx'.link.noted = ctx.link.noted
          /\ ctx'.link.concluded = ctx.link.concluded
          /\ UNCHANGED radio /\ ~Own'
      BY <1>2, <2>1, <2>5, <2>6, LinkingOther DEF Own
    <3> QED
      BY <2>2, <2>4, <3>1
      DEF VerdictInv, ReadInv, AnswerInv, FarInv, AbstainInv, GraceInv,
          LossInv, ChargeInv
  <2>7. CASE Event.crit \in Ranged
    <3>1. /\ radio' = [Observed EXCEPT !.unread = FALSE]
          /\ radio \in Radio /\ Observed \in Radio
      BY <2>1, <2>7, TypedState, ObservedType
    <3>2. ~radio'.unread /\ radio'.heard = Observed.heard
      BY <3>1 DEF Radio
    <3>3. ~Unread'
      BY <3>2 DEF Unread
    <3>4. /\ d.link.armed
          /\ d.link.counted <=> Observed.unread \/ (ctx.link.counted /\ ~PollDue)
          /\ \/ d.prox = AfterBurst
             \/ d.prox = ForceAway(AfterBurst)
          /\ d.link.noted /\ d.link.concluded =>
               \/ GoneNow /\ d.prox = ForceAway(AfterBurst)
               \/ ctx.link.noted /\ ctx.link.concluded
          /\ GoneNow => \/ d.prox = ForceAway(AfterBurst)
                        \/ ctx.link.noted /\ ctx.link.concluded
          /\ d.link.grace =>
               \/ /\ ctx.link.grace /\ d.link.left = ctx.link.left
                  /\ ctx.link.left # 0 /\ ~DisprovesGrace(ctx)
               \/ /\ d.link.left = LostAway - Observed.age
                  /\ Observed.age < LostAway
                  /\ ~(Observed.late /\ Observed.last \in {"near", "band"})
      BY <1>2, <2>7, LinkingRanged
    <3> HIDE DEF d
    <3>5. /\ AfterPoll \in ProxState /\ AfterBurst \in ProxState
          /\ ~ForceAway(AfterBurst).near /\ ForceAway(AfterBurst).awayRun = 0
          /\ ctx.prox \in ProxState
      BY AfterFacts, ForceAwayType, TypedState
    <3>6. /\ Observed.unread <=> Unread
          /\ Observed.age = radio.age /\ Observed.last = radio.last
          /\ Observed.late = radio.late
          /\ GoneNow <=> Observed.heard /\ radio.age >= LostAway
      BY <2>7, OwnObserved
    <3>7. radio.age \in 0 .. LostAway /\ seen \in History /\ LostAway \in Nat
          /\ ctx.link.left \in 0 .. LostAway
      BY <3>1, TypeParts, Sizes, TypedState DEF Radio, Typed, Links
    <3>8. Unread => radio.last \in Measured
      BY DEF VerdictInv, ReadInv, Unread
    <3>9. ReadInv'
      BY <2>1, <3>2, <3>3, <3>4 DEF ReadInv
    <3>10. AnswerInv'
      <4> SUFFICES ASSUME Own PROVE AnswerInv'
        BY <2>5 DEF AnswerInv
      <4>1. ctx.donning \in Nat /\ ctx'.prox \in ProxState
        BY <2>1, <3>4, <3>5, TypedState, ForceAwayType DEF Ctx
      <4>2. ASSUME Event.crit = "getAway", ~ctx'.met
            PROVE  ctx'.prox.have /\ ctx'.prox.near
        <5>1. CASE ctx'.met = ctx.met /\ ctx'.prox = ctx.prox
          BY <4>2, <5>1 DEF VerdictInv, AnswerInv
        <5>2. CASE Answer(ctx'.met, ctx'.prox)
          BY <4>1, <4>2, <5>2 DEF Answer, NotNear
        <5> QED
          BY <2>1, <5>1, <5>2
      <4>3. ASSUME Event.grace = 0, NotNear(ctx'.prox)
            PROVE  ctx'.met <=> Event.crit # "stayNear"
        <5>1. ctx.donning = 0
          BY <1>2, <4>1, <4>3 DEF ContextInv, Own
        <5>2. CASE Answer(ctx'.met, ctx'.prox)
          BY <2>7, <4>3, <5>1, <5>2 DEF Answer
        <5>3. CASE ctx'.met = ctx.met /\ ctx'.prox = ctx.prox /\ ~PollDue
          BY <4>3, <5>3, NotDue DEF VerdictInv, AnswerInv
        <5> QED
          BY <2>1, <5>2, <5>3
      <4> QED
        BY <2>1, <4>2, <4>3 DEF AnswerInv
    <3>11. FarInv'
      <4> SUFFICES ASSUME Own PROVE ctx'.prox.awayRun <= seen.far
        BY <2>1, <2>5, <3>3 DEF FarInv
      <4>1. CASE ctx'.prox = ForceAway(AfterBurst)
        BY <3>5, <3>7, <4>1 DEF History
      <4>2. CASE ctx'.prox = AfterBurst /\ ~Unread
        BY <3>6, <4>2, AfterFacts DEF VerdictInv, FarInv
      <4>3. CASE ctx'.prox = AfterBurst /\ Unread
        BY <3>6, <3>7, <3>8, <4>3, AfterFacts
        DEF VerdictInv, FarInv, Measured, History
      <4> QED
        BY <2>1, <3>4, <4>1, <4>2, <4>3
    <3>12. ctx'.prox.near => ctx'.prox = AfterBurst
      BY <2>1, <3>4, <3>5
    <3>13. ~Unread => /\ AfterBurst = AfterPoll
                      /\ AfterPoll.near = ctx.prox.near
                      /\ d.link.counted <=> ctx.link.counted /\ ~PollDue
      BY <3>4, <3>6, AfterFacts
    <3>14. AbstainInv' /\ ChargeInv'
      <4> SUFFICES ASSUME Own, ctx'.prox.near PROVE AbstainInv' /\ ChargeInv'
        BY <2>2, <2>5 DEF AbstainInv, ChargeInv
      <4>0. /\ seen.mute \in Nat /\ AbstainMax \in Nat /\ PollMet \in Nat
            /\ ctx.prox.abstain \in 0 .. AbstainMax + 1
        BY <3>5, <3>7, MuteBoundType, Sizes DEF History, ProxState
      <4>1. CASE Unread
        <5>1. d.link.counted /\ ctx'.prox.abstain = 0 /\ seen.mute = 0
          BY <3>4, <3>6, <3>8, <3>12, <4>1, AfterFacts DEF VerdictInv, ReadInv
        <5>2. Charged' = 0
          BY <2>1, <5>1 DEF Charged
        <5> QED
          BY <2>1, <2>2, <4>0, <5>1, <5>2 DEF AbstainInv, ChargeInv
      <4>2. CASE ~Unread /\ ~PollDue
        <5>1. /\ ctx'.prox = ctx.prox /\ (d.link.counted <=> ctx.link.counted)
              /\ poll'.age = poll.age
          BY <2>2, <3>12, <3>13, <4>2, AfterFacts
        <5>2. Charged' = Charged
          BY <2>1, <5>1 DEF Charged
        <5>3. AbstainInv'
          BY <2>1, <4>0, <4>2, <5>1 DEF VerdictInv, AbstainInv
        <5>4. ChargeInv'
          BY <2>1, <2>2, <4>2, <5>1, <5>2 DEF VerdictInv, ChargeInv, InFailsafe
        <5> QED
          BY <5>3, <5>4
      <4>3. CASE ~Unread /\ PollDue
        <5>0. /\ ctx'.prox = AfterPoll /\ ctx.prox.near /\ ~d.link.counted
              /\ poll'.age = 0 /\ poll.age \in 0 .. PollMet
          BY <2>2, <3>12, <3>13, <4>3, TypedState
        <5>1. CASE ctx.link.counted
          <6>1. /\ ctx'.prox = ctx.prox /\ ctx.prox.abstain = 0 /\ seen.mute >= 1
            BY <2>1, <4>3, <5>0, <5>1, AfterFacts DEF VerdictInv, AbstainInv
          <6>2. InFailsafe(ctx.prox) \/ seen.mute <= poll.age
            BY <4>0, <4>3, <5>0, <5>1, Sizes DEF VerdictInv, ChargeInv, Charged
          <6>3. Charged' * PollMet = PollMet
            BY <2>1, <4>0, <5>0, <6>1 DEF Charged
          <6> QED
            BY <2>1, <2>2, <4>0, <5>0, <6>1, <6>2, <6>3
            DEF AbstainInv, ChargeInv, InFailsafe
        <5>2. CASE ~ctx.link.counted
          <6>1. /\ ctx'.prox.abstain = UpTo(AbstainMax + 1, ctx.prox.abstain)
                /\ ctx.prox.abstain + 2 <= seen.mute
            BY <2>1, <4>3, <5>0, <5>2, AfterFacts DEF VerdictInv, AbstainInv
          <6>2. AbstainInv'
            BY <2>1, <4>0, <5>0, <6>1 DEF AbstainInv, UpTo
          <6>3. ChargeInv'
            <7>1. CASE InFailsafe(ctx.prox)
              BY <2>2, <4>0, <6>1, <7>1 DEF ChargeInv, InFailsafe, UpTo
            <7>2. CASE ~InFailsafe(ctx.prox)
              <8> DEFINE k == (ctx.prox.abstain + 1) * PollMet
              <8>1. seen.mute <= k + poll.age
                BY <4>3, <5>0, <5>2, <7>2 DEF VerdictInv, ChargeInv, Charged
              <8>2. ctx'.prox.abstain = ctx.prox.abstain + 1
                BY <4>0, <6>1, <7>2 DEF InFailsafe, UpTo
              <8>3. Charged' = ctx.prox.abstain + 1 + 1
                BY <2>1, <4>0, <5>0, <8>2 DEF Charged
              <8>4. Charged' * PollMet = k + PollMet /\ k \in Nat
                BY <4>0, <8>3
              <8> HIDE DEF k
              <8> QED
                BY <2>1, <2>2, <4>0, <5>0, <8>1, <8>4 DEF ChargeInv
            <7> QED
              BY <7>1, <7>2
          <6> QED
            BY <6>2, <6>3
        <5> QED
          BY <5>1, <5>2
      <4> QED
        BY <4>1, <4>2, <4>3
    <3>15. GraceInv'
      <4> SUFFICES ASSUME ctx'.link.grace
                   PROVE  /\ ctx'.link.left > 0
                          /\ seen.clear + ctx'.link.left >= LostAway
        BY <2>1 DEF GraceInv
      <4>1. CASE /\ ctx.link.grace /\ d.link.left = ctx.link.left
                 /\ ctx.link.left # 0 /\ ~DisprovesGrace(ctx)
        BY <2>1, <3>6, <3>7, <4>1 DEF VerdictInv, GraceInv, DisprovesGrace
      <4>2. CASE /\ d.link.left = LostAway - Observed.age
                 /\ Observed.age < LostAway
                 /\ ~(Observed.late /\ Observed.last \in {"near", "band"})
        BY <2>1, <3>6, <3>7, <4>2 DEF VerdictInv, ClearInv, History
      <4> QED
        BY <2>1, <3>4, <4>1, <4>2
    <3>16. LossInv'
      <4>1. ctx.link.noted /\ ctx.link.concluded =>
              ~ctx'.prox.near /\ radio.age >= LostAway
        BY <3>12, <3>13 DEF VerdictInv, LossInv, Unread
      <4>2. GoneNow => ~ctx'.prox.near
        BY <2>1, <3>4, <3>5, <4>1
      <4> QED
        BY <2>1, <2>3, <3>2, <3>4, <3>6, <4>1, <4>2 DEF LossInv
    <3> QED
      BY <2>4, <3>9, <3>10, <3>11, <3>14, <3>15, <3>16 DEF VerdictInv
  <2> QED
    BY <2>6, <2>7
<1> QED
  BY <1>1, <1>2

LEMMA VerdictAlways == Spec => [](TypeOK /\ ContextInv /\ VerdictInv)
<1>1. TypeOK /\ ContextInv /\ VerdictInv /\ [Next]_vars => VerdictInv'
  <2> SUFFICES ASSUME TypeOK, ContextInv, VerdictInv, [Next]_vars
               PROVE  VerdictInv'
    OBVIOUS
  <2>1. CASE \E sig \in Signals : Refresh(sig)
    BY <2>1, RefreshVerdict
  <2>2. CASE \E jitter, worn \in BOOLEAN, step \in {"on", "wait"} :
               Work(jitter, step, worn)
    BY <2>2, WorkVerdict
  <2>3. CASE UNCHANGED vars \/ Shift \/ Accepted \/ \E i \in 0 .. 2 : Turn(i)
    BY <2>3, OtherVerdict
  <2> QED
    BY <2>1, <2>2, <2>3 DEF Next, Pass
<1> QED
  BY <1>1, InitVerdict, ContextAlways, PTL DEF Spec

\* Jamming is no way to stay near, and no reason to be alarmed for ever: a
\* window without a burst for longer than the polls allow, and a link that has
\* been silent for LostAway, count as away at once, for every criterion
\* (enforcement.c: impulse_enforcement_poll_abstain_if_idle,
\* impulse_enforcement_link_update).
THEOREM SilenceIsAway == Spec => []AwayInTime
<1>1. TypeOK /\ ContextInv /\ VerdictInv => AwayInTime
  <2> SUFFICES ASSUME TypeOK, ContextInv, VerdictInv,
                      phase = "loop", Own, Event.grace = 0, Away
               PROVE  ctx.met = (Event.crit # "stayNear")
    BY DEF AwayInTime, Own
  <2>1. NotNear(ctx.prox) => ctx.met = (Event.crit # "stayNear")
    <3>1. ctx.met \in BOOLEAN
      BY TypedState DEF Ctx
    <3> QED
      BY <3>1 DEF VerdictInv, AnswerInv
  <2>2. CASE radio.heard /\ radio.age >= LostAway
    BY <2>1, <2>2 DEF VerdictInv, LossInv, NotNear
  <2>3. CASE seen.mute > MuteBound
    <3>1. ctx.prox.near => NotNear(ctx.prox)
      <4> SUFFICES ASSUME ctx.prox.near, ~InFailsafe(ctx.prox) PROVE FALSE
        BY DEF NotNear
      <4> DEFINE k == Charged * PollMet
                 m == (AbstainMax + 1) * PollMet
      <4>1. /\ seen.mute <= k + poll.age /\ poll.age < PollMet
            /\ seen.mute \in Nat /\ poll.age \in Nat
        BY MuteBoundType, TypeParts
        DEF VerdictInv, ReadInv, ChargeInv, Unread, Own, Typed, History
      <4>2. /\ ctx.prox.abstain \in Nat /\ ctx.prox.abstain <= AbstainMax
            /\ AbstainMax \in Nat /\ PollMet \in Nat
        BY TypedState, Sizes DEF ProxState, InFailsafe
      <4>3. Charged \in Nat /\ Charged <= AbstainMax + 1
        BY <4>2 DEF Charged
      <4>4. \A a, b, p \in Nat : a <= b => a * p <= b * p
        OBVIOUS
      <4>5. k <= m /\ k \in Nat /\ m \in Nat /\ m + PollMet = MuteBound
        BY <4>2, <4>3, <4>4, BoundTypes
      <4> HIDE DEF k, m
      <4> QED
        BY <2>3, <4>1, <4>2, <4>5
    <3> QED
      BY <2>1, <3>1 DEF NotNear
  <2> QED
    BY <2>2, <2>3 DEF Away
<1> QED
  BY <1>1, VerdictAlways, PTL

\* A getAway alarm stops on evidence only: a donning grace, AwayDwell far
\* bursts since the last one that was not, LostAway without such a one or
\* without any activity, or more than AbstainMax abstentions of silence
\* (proximity.c: impulse_prox_ingest; enforcement.c:
\* impulse_enforcement_link_update).
THEOREM AlarmStopsOnEvidence == Spec => ReleaseNeedsEvidence
<1> DEFINE Evidence == \/ ctx.donning > 0 \/ seen.far >= AwayDwell
                       \/ seen.clear >= LostAway \/ radio.age >= LostAway
                       \/ seen.mute > AbstainMax + 1
<1>1. TypeOK /\ ContextInv /\ VerdictInv /\ [Next]_vars => (Released => Evidence)
  <2> SUFFICES ASSUME TypeOK, ContextInv, VerdictInv, [Next]_vars, Released,
                      ~(ctx.donning > 0)
               PROVE  Evidence
    OBVIOUS
  <2>0. /\ phase = "work" /\ Enforcing /\ Event.crit = "getAway" /\ Own
        /\ Event.crit \in Ranged /\ ~ctx.met /\ ctx'.met
    BY DEF Released, Own, Ranged
  <2>1. PICK jitter \in BOOLEAN, worn \in BOOLEAN, step \in {"on", "wait"} :
               Work(jitter, step, worn)
    <3>1. ~UNCHANGED ctx
      BY <2>0
    <3> QED
      BY <2>0, <3>1 DEF Next, Pass, Refresh, Shift, Accepted, Turn, vars
  <2> DEFINE d == Linking(jitter)
  <2>2. Answer(ctx'.met, ctx'.prox) /\ ctx'.prox = d.prox
    BY <2>0, <2>1, WorkEnforces
  <2>3. NotNear(d.prox)
    <3>1. ctx.donning = 0
      BY TypedState DEF Ctx
    <3> QED
      BY <2>0, <2>2, <3>1 DEF Answer
  <2>4. \/ d.prox = AfterBurst
        \/ GoneNow \/ RanOut(ctx)
    BY <2>0, LinkingRanged
  <2> HIDE DEF d
  <2>5. /\ Observed.unread <=> Unread
        /\ Observed.age = radio.age /\ Observed.last = radio.last
        /\ GoneNow <=> Observed.heard /\ radio.age >= LostAway
    BY <2>0, OwnObserved
  <2>6. ctx.prox.have /\ ctx.prox.near
    BY <2>0 DEF VerdictInv, AnswerInv
  <2>7. /\ ctx.prox \in ProxState /\ AbstainMax \in Nat /\ AwayDwell \in Nat
        /\ ctx.link \in Links /\ LostAway \in Nat /\ seen \in History
        /\ MuteBound \in Nat
    BY TypedState, TypeParts, Sizes, MuteBoundType DEF Typed
  <2>8. CASE GoneNow
    BY <2>5, <2>8
  <2>9. CASE RanOut(ctx)
    <3>1. seen.clear + ctx.link.left >= LostAway /\ ctx.link.left = 0
      BY <2>0, <2>5, <2>9 DEF RanOut, DisprovesGrace, VerdictInv, GraceInv
    <3> QED
      BY <2>7, <3>1 DEF History
  <2>10. CASE d.prox = AfterBurst /\ Unread
    <3>1. radio.last \in Measured
      BY <2>10 DEF VerdictInv, ReadInv, Unread
    <3>2. AfterBurst.abstain = 0 /\ AfterBurst.have /\ ~AfterBurst.near
      BY <2>3, <2>5, <2>6, <2>7, <2>10, <3>1, AfterFacts DEF NotNear, InFailsafe
    <3>3. /\ radio.last = "far" /\ ~(AfterBurst.awayRun < AwayDwell)
          /\ AfterBurst.awayRun = UpTo(AwayDwell, ctx.prox.awayRun)
      BY <2>5, <2>6, <2>10, <3>1, <3>2, AfterFacts DEF Measured
    <3>4. UpTo(AwayDwell, ctx.prox.awayRun) <= seen.far
      BY <2>0, <2>10, <3>3 DEF VerdictInv, FarInv
    <3>5. UpTo(AwayDwell, ctx.prox.awayRun) \in Nat /\ seen.far \in Nat
      <4>1. ctx.prox.awayRun \in Nat /\ seen.far \in Nat
        BY <2>7 DEF ProxState, History
      <4> QED
        BY <4>1 DEF UpTo
    <3> QED
      BY <2>7, <3>3, <3>4, <3>5
  <2>11. CASE d.prox = AfterBurst /\ ~Unread
    <3>1. /\ AfterBurst = AfterPoll /\ AfterPoll.near /\ AfterPoll.have
          /\ AfterPoll \in ProxState
      BY <2>5, <2>6, <2>11, AfterFacts
    <3>2. AfterPoll.abstain > AbstainMax
      BY <2>3, <2>11, <3>1 DEF NotNear, InFailsafe
    <3>3. ~ctx.link.counted
      <4>1. ctx.link.counted => ctx.prox.abstain = 0 /\ AfterPoll = ctx.prox
        BY <2>0, <2>6, <2>11, AfterFacts DEF VerdictInv, AbstainInv
      <4> QED
        BY <2>7, <3>2, <4>1
    <3>4. ctx.prox.abstain + 2 <= seen.mute
      BY <2>0, <2>6, <2>11, <3>3 DEF VerdictInv, AbstainInv
    <3>5. /\ AfterPoll.abstain <= ctx.prox.abstain + 1
          /\ ctx.prox.abstain \in Nat /\ AfterPoll.abstain \in Nat
          /\ seen.mute \in Nat
      BY <2>7, <3>1, <3>3, AfterFacts DEF UpTo, ProxState, History
    <3> QED
      BY <2>7, <3>2, <3>4, <3>5
  <2> QED
    BY <2>4, <2>8, <2>9, <2>10, <2>11
<1> QED
  BY <1>1, VerdictAlways, PTL DEF Spec, ReleaseNeedsEvidence

=============================================================================
