---------------------------- MODULE RangingProofs -----------------------------
(***************************************************************************)
(* Why the buffer of local steps is never put together with the data of a  *)
(* procedure it is not of, and why no burst but the first holds samples    *)
(* from before, for any number of counters, of results in a procedure and  *)
(* of procedures the anchor is behind.                                     *)
(***************************************************************************)
EXTENDS Ranging, TLAPS

Dirt == {Stale, Loose}
Collected == (Ids \X (1 .. Parts)) \cup Dirt

RingTypes ==
  /\ counter \in [id : Ids, part : 0 .. Parts - 1]
  /\ sem \in {0, 1}
  /\ recent \in Ids \cup {None} /\ dropped \in Ids \cup {None} /\ fetch \in Ids \cup {None}
  /\ steps \subseteq Collected /\ gap \in BOOLEAN /\ partial \in BOOLEAN

\* What is in the buffer, unless something was left over in it: nothing while it
\* is free, and results of the procedure that took it.
OwnResults ==
  /\ \/ steps \cap Dirt # {}
     \/ /\ \A t \in steps : t[1] = recent
        /\ sem = 1 => steps = {}
  /\ \A t \in steps : t[1] = counter.id /\ counter.part > 0 => recent = counter.id

\* A procedure of which a result is missing is being dropped, or has had the
\* buffer emptied under it, and then adds to a buffer that is free.
GapIsKnown ==
  gap => /\ counter.part > 0
         /\ dropped = counter.id \/ (recent = counter.id /\ sem = 1)

PartialIsDirty == partial => steps \cap Dirt # {}

RingInv == RingTypes /\ OwnResults /\ GapIsKnown /\ PartialIsDirty

-----------------------------------------------------------------------------

LEMMA CounterTypes ==
  /\ Counters \in Nat /\ Counters > 0 /\ Parts \in Nat /\ Parts > 0
  /\ 0 \in Ids /\ 0 \in 0 .. Parts - 1 /\ None \notin Ids
  /\ \A i \in Ids : i # None /\ (i + 1) % Counters \in Ids
<1>1. Counters \in Nat /\ Counters > 0 /\ Parts \in Nat /\ Parts > 0
  BY RangingAssumption
<1>2. \A i \in Ids : (i + 1) % Counters \in Ids
  BY <1>1 DEF Ids
<1> QED
  BY <1>1, <1>2 DEF Ids, None

\* A result that was left over is of no procedure.
LEMMA DirtIsNobodys == ASSUME NEW t \in Dirt PROVE t[1] = None
BY DEF Dirt, Stale, Loose

\* When a procedure begins nothing in the buffer is of it, and what was left over
\* still is.
LEMMA AgedHeld ==
  ASSUME RingInv, NEW held,
         held = IF counter.part = 0 THEN Aged(steps, counter.id) ELSE steps
  PROVE  /\ held \subseteq Collected
         /\ steps \cap Dirt # {} => held \cap Dirt # {}
         /\ held \cap Dirt = {} => held = steps
         /\ \A t \in held : t[1] = counter.id => recent = counter.id
<1>1. CASE counter.part # 0
  BY <1>1, CounterTypes DEF RingInv, RingTypes, OwnResults
<1>2. CASE counter.part = 0
  <2>1. held = {IF t[1] = counter.id THEN Stale ELSE t : t \in steps}
    BY <1>2 DEF Aged
  <2>2. Stale \in Dirt /\ Stale[1] # counter.id
    BY CounterTypes DEF Dirt, Stale, RingInv, RingTypes
  <2>3. \A t \in steps \cap Dirt : t \in held
    BY <2>1, <2>2, DirtIsNobodys, CounterTypes DEF RingInv, RingTypes
  <2>4. ASSUME held \cap Dirt = {} PROVE held = steps
    <3>1. \A t \in steps : t[1] # counter.id
      BY <2>1, <2>2, <2>4
    <3> QED
      BY <2>1, <3>1
  <2>5. \A t \in held : t[1] # counter.id
    BY <2>1, <2>2
  <2>6. held \subseteq Collected
    BY <2>1, <2>2 DEF RingInv, RingTypes, Collected
  <2> QED
    BY <2>3, <2>4, <2>5, <2>6
<1> QED
  BY <1>1, <1>2

LEMMA ProgressType ==
  ASSUME RingInv, NEW done \in Results, NEW missed \in BOOLEAN, Progress(done, missed),
         done = "partial" => counter.part + 1 < Parts
  PROVE  /\ counter' \in [id : Ids, part : 0 .. Parts - 1]
         /\ done = "partial" =>
              counter'.id = counter.id /\ counter'.part > 0 /\ gap' = missed
         /\ done # "partial" => counter'.part = 0 /\ gap' = FALSE
<1>1. counter.id \in Ids /\ counter.part \in Nat /\ counter \in [id : Ids, part : 0 .. Parts - 1]
  BY DEF RingInv, RingTypes
<1>2. CASE done = "partial"
  <2>1. counter' = [counter EXCEPT !.part = counter.part + 1] /\ gap' = missed
    BY <1>2 DEF Progress
  <2>2. counter.part + 1 \in 0 .. Parts - 1 /\ counter.part + 1 > 0
    BY <1>1, <1>2, CounterTypes
  <2> QED
    BY <1>1, <1>2, <2>1, <2>2
<1>3. CASE done # "partial"
  BY <1>1, <1>3, CounterTypes DEF Progress
<1> QED
  BY <1>2, <1>3

\* A result of the procedure is missing from now on, if it goes on.
LEMMA TrueMissed ==
  ASSUME RingInv, NEW done \in Results, Progress(done, TRUE),
         done = "partial" => counter.part + 1 < Parts
  PROVE  /\ counter' \in [id : Ids, part : 0 .. Parts - 1] /\ gap' \in BOOLEAN
         /\ counter'.part > 0 => counter'.id = counter.id
         /\ gap' => counter'.id = counter.id /\ counter'.part > 0
<1>1. CASE done = "partial"
  BY <1>1, ProgressType
<1>2. CASE done # "partial"
  <2>1. /\ counter' \in [id : Ids, part : 0 .. Parts - 1]
        /\ counter'.part = 0 /\ gap' = FALSE
    BY <1>2, ProgressType
  <2>2. ~(counter'.part > 0)
    BY <2>1
  <2> QED
    BY <2>1, <2>2
<1> QED
  BY <1>1, <1>2

-----------------------------------------------------------------------------
(* The controller's results.                                               *)

LEMMA DropKeeps ==
  ASSUME RingInv, NEW done \in Results, NEW held,
         held = IF counter.part = 0 THEN Aged(steps, counter.id) ELSE steps,
         done = "partial" => counter.part + 1 < Parts,
         Drop(done, held), fetch' = fetch
  PROVE  RingInv'
<1>1. /\ dropped' = counter.id /\ steps' = held /\ sem' = sem /\ recent' = recent
      /\ partial' = partial /\ Progress(done, TRUE)
  BY DEF Drop
<1>2. /\ counter' \in [id : Ids, part : 0 .. Parts - 1] /\ gap' \in BOOLEAN
      /\ counter'.part > 0 => counter'.id = counter.id
      /\ gap' => counter'.id = counter.id /\ counter'.part > 0
  BY <1>1, TrueMissed
<1>3. RingTypes'
  BY <1>1, <1>2, AgedHeld DEF RingInv, RingTypes
<1>4. OwnResults'
  BY <1>1, <1>2, AgedHeld DEF RingInv, OwnResults
<1>5. GapIsKnown' /\ PartialIsDirty'
  BY <1>1, <1>2, AgedHeld DEF RingInv, GapIsKnown, PartialIsDirty
<1> QED
  BY <1>3, <1>4, <1>5 DEF RingInv

LEMMA OverflowKeeps ==
  ASSUME RingInv, NEW done \in Results, NEW has \in BOOLEAN, NEW held,
         done = "partial" => counter.part + 1 < Parts,
         Overflow(done, has, held), recent' = counter.id, fetch' = fetch
  PROVE  RingInv'
<1>1. /\ dropped' = counter.id /\ steps' = {} /\ partial' = FALSE
      /\ sem' \in {0, 1} /\ Progress(done, TRUE)
  <2>1. sem \in {0, 1}
    BY DEF RingInv, RingTypes
  <2>2. sem' = 0 \/ sem' = sem
    BY DEF Overflow
  <2> QED
    BY <2>1, <2>2 DEF Overflow, EmptyBuffer
<1>2. /\ counter' \in [id : Ids, part : 0 .. Parts - 1] /\ gap' \in BOOLEAN
      /\ gap' => counter'.id = counter.id /\ counter'.part > 0
  BY <1>1, TrueMissed
<1> QED
  BY <1>1, <1>2 DEF RingInv, RingTypes, OwnResults, GapIsKnown, PartialIsDirty

LEMMA AddKeeps ==
  ASSUME RingInv, NEW done \in Results, NEW has \in BOOLEAN, NEW held,
         held = IF counter.part = 0 THEN Aged(steps, counter.id) ELSE steps,
         done = "partial" => counter.part + 1 < Parts,
         dropped # counter.id, ~(Takes /\ sem = 0),
         Add(done, has, held), recent' = counter.id, fetch' = fetch
  PROVE  RingInv'
<1> DEFINE new == IF ~Takes /\ sem = 1 THEN Loose ELSE <<counter.id, counter.part + 1>>
<1>1. dropped' = None /\ Progress(done, gap)
  BY DEF Add
<1>2. /\ counter' \in [id : Ids, part : 0 .. Parts - 1] /\ gap' \in BOOLEAN
      /\ counter'.part > 0 => counter'.id = counter.id
      /\ gap' => gap /\ counter'.id = counter.id /\ counter'.part > 0
  <2>1. gap \in BOOLEAN
    BY DEF RingInv, RingTypes
  <2>2. CASE done = "partial"
    BY <1>1, <2>1, <2>2, ProgressType
  <2>3. CASE done # "partial"
    <3>1. /\ counter' \in [id : Ids, part : 0 .. Parts - 1]
          /\ counter'.part = 0 /\ gap' = FALSE
      BY <1>1, <2>1, <2>3, ProgressType
    <3>2. ~(counter'.part > 0)
      BY <3>1
    <3> QED
      BY <3>1, <3>2
  <2> QED
    BY <2>2, <2>3
<1>3. CASE done = "aborted"
  <2>1. steps' = {} /\ partial' = FALSE /\ sem' = 1
    BY <1>3 DEF Add, EmptyBuffer
  <2>2. ~gap'
    <3>1. gap \in BOOLEAN /\ done # "partial"
      BY <1>3 DEF RingInv, RingTypes
    <3> QED
      BY <1>1, <3>1, ProgressType
  <2>3. RingTypes'
    BY <1>1, <1>2, <2>1 DEF RingInv, RingTypes
  <2>4. OwnResults'
    BY <2>1 DEF OwnResults
  <2> QED
    BY <2>1, <2>2, <2>3, <2>4 DEF RingInv, GapIsKnown, PartialIsDirty
<1>4. CASE done # "aborted"
  <2>1. /\ steps' = IF has THEN held \cup {new} ELSE held
        /\ partial' = (partial \/ (has /\ gap))
        /\ sem' = IF Takes THEN 0 ELSE sem
    BY <1>4 DEF Add
  <2>2. counter.part + 1 \in 1 .. Parts /\ counter.id \in Ids /\ counter.part \in Nat
    BY CounterTypes DEF RingInv, RingTypes
  <2>3. new \in Collected /\ (new \in Dirt \/ new[1] = counter.id)
    BY <2>2 DEF Collected, Dirt
  <2>4. gap => ~Takes /\ sem = 1
    BY DEF RingInv, GapIsKnown, Takes
  <2>5. RingTypes'
    BY <1>1, <1>2, <2>1, <2>3, AgedHeld DEF RingInv, RingTypes
  <2>6. sem \in {0, 1} /\ (Takes => sem = 1)
    BY DEF RingInv, RingTypes
  <2>7. ASSUME steps' \cap Dirt = {}
        PROVE  (\A t \in steps' : t[1] = counter.id) /\ (sem' = 1 => steps' = {})
    <3>1. held \cap Dirt = {} /\ held = steps /\ steps \cap Dirt = {}
      BY <2>1, <2>7, AgedHeld
    <3>2. (\A t \in steps : t[1] = recent) /\ (sem = 1 => steps = {})
      BY <3>1 DEF RingInv, OwnResults
    <3>3. CASE Takes
      BY <2>1, <2>3, <2>6, <2>7, <3>1, <3>2, <3>3
    <3>4. CASE ~Takes
      BY <2>1, <2>3, <2>7, <3>1, <3>2, <3>4 DEF Takes, Dirt
    <3> QED
      BY <3>3, <3>4
  <2>8. OwnResults'
    BY <1>2, <2>7 DEF OwnResults
  <2>9. GapIsKnown'
    BY <1>2, <2>1, <2>4 DEF GapIsKnown
  <2>10. PartialIsDirty'
    <3>1. CASE partial
      BY <2>1, <3>1, AgedHeld DEF RingInv, PartialIsDirty
    <3>2. CASE has /\ gap
      BY <2>1, <2>4, <3>2 DEF PartialIsDirty, Dirt
    <3> QED
      BY <2>1, <3>1, <3>2 DEF PartialIsDirty
  <2> QED
    BY <2>5, <2>8, <2>9, <2>10 DEF RingInv
<1> QED
  BY <1>3, <1>4

LEMMA SubeventKeeps ==
  ASSUME RingInv, NEW done \in Results, NEW has \in BOOLEAN, Subevent(done, has)
  PROVE  RingInv'
<1> DEFINE held == IF counter.part = 0 THEN Aged(steps, counter.id) ELSE steps
<1>1. /\ done = "partial" => counter.part + 1 < Parts
      /\ fetch' = fetch
      /\ IF dropped = counter.id \/ (Takes /\ sem = 0) THEN Drop(done, held)
         ELSE recent' = counter.id /\ (Add(done, has, held) \/ Overflow(done, has, held))
  BY DEF Subevent
<1> QED
  BY <1>1, DropKeeps, AddKeeps, OverflowKeeps

-----------------------------------------------------------------------------
(* The anchor's data, the link and the windows.                            *)

LEMMA FreeKeeps ==
  ASSUME RingInv, FreeBuffer, fetch' \in Ids \cup {None},
         UNCHANGED <<counter, recent, dropped>>
  PROVE  RingInv'
<1>1. steps' = {} /\ partial' = FALSE /\ sem' = 1
      /\ gap' = (gap \/ (counter.part > 0 /\ \E t \in steps : t[1] = counter.id))
  BY DEF FreeBuffer, EmptyBuffer
<1>2. GapIsKnown'
  BY <1>1 DEF RingInv, OwnResults, GapIsKnown
<1>3. gap \in BOOLEAN /\ gap' \in BOOLEAN
  BY <1>1 DEF RingInv, RingTypes
<1>4. RingTypes'
  BY <1>1, <1>3 DEF RingInv, RingTypes
<1>5. OwnResults' /\ PartialIsDirty'
  BY <1>1 DEF OwnResults, PartialIsDirty
<1> QED
  BY <1>2, <1>4, <1>5 DEF RingInv

\* A step that leaves the buffer, its semaphore and the controller alone.
LEMMA ElseKeeps ==
  ASSUME RingInv, fetch' \in Ids \cup {None},
         UNCHANGED <<counter, gap, sem, recent, dropped, steps, partial>>
  PROVE  RingInv'
BY DEF RingInv, RingTypes, OwnResults, GapIsKnown, PartialIsDirty

LEMMA DataKeeps ==
  ASSUME RingInv, Ready \/ \E err \in BOOLEAN : Arrives(err) \/ Fetched(err)
  PROVE  RingInv'
<1>1. fetch' \in Ids \cup {None} /\ UNCHANGED <<counter, recent, dropped>>
  BY DEF Ready, Arrives, Fetched, RingInv, RingTypes
<1>2. FreeBuffer \/ UNCHANGED <<gap, sem, steps, partial>>
  BY DEF Ready, Arrives, Fetched, RangingData
<1> QED
  BY <1>1, <1>2, FreeKeeps, ElseKeeps

LEMMA LostKeeps == ASSUME RingInv, LinkLost PROVE RingInv'
<1>1. /\ counter' = [id |-> 0, part |-> 0] /\ gap' = FALSE /\ fetch' = None
      /\ steps' = {Stale : t \in steps}
      /\ UNCHANGED <<sem, recent, dropped, partial>>
  BY DEF LinkLost
<1>2. steps' \subseteq {Stale} /\ (steps' = {} <=> steps = {}) /\ Stale \in Dirt
  BY <1>1 DEF Dirt
<1>3. RingTypes'
  BY <1>1, <1>2, CounterTypes DEF RingInv, RingTypes, Collected
<1>4. OwnResults'
  BY <1>1, <1>2 DEF RingInv, OwnResults
<1>5. GapIsKnown' /\ PartialIsDirty'
  BY <1>1, <1>2 DEF RingInv, GapIsKnown, PartialIsDirty
<1> QED
  BY <1>3, <1>4, <1>5 DEF RingInv

LEMMA RingInit == Init => RingInv
<1> SUFFICES ASSUME Init PROVE RingInv
  OBVIOUS
<1>1. /\ counter = [id |-> 0, part |-> 0] /\ sem = 1 /\ steps = {}
      /\ partial = FALSE /\ gap = FALSE
      /\ recent = None /\ dropped = None /\ fetch = None
  BY DEF Init
<1>2. RingTypes
  BY <1>1, CounterTypes DEF RingTypes
<1>3. OwnResults /\ GapIsKnown /\ PartialIsDirty
  BY <1>1 DEF OwnResults, GapIsKnown, PartialIsDirty
<1> QED
  BY <1>2, <1>3 DEF RingInv

LEMMA RingKeeps == RingInv /\ [Next]_vars => RingInv'
<1> SUFFICES ASSUME RingInv, [Next]_vars PROVE RingInv'
  OBVIOUS
<1>1. fetch \in Ids \cup {None}
  BY DEF RingInv, RingTypes
<1>2. CASE \E rt \in BOOLEAN : LinkUp(rt)
  BY <1>1, <1>2, ElseKeeps DEF LinkUp, buffer, anchor
<1>3. CASE Resume \/ Stop
  BY <1>1, <1>3, ElseKeeps DEF Resume, Stop, buffer, anchor
<1>4. CASE Settle \/ UNCHANGED vars
  BY <1>1, <1>4, ElseKeeps DEF Settle, vars, controller, buffer, anchor
<1> QED
  BY <1>2, <1>3, <1>4, SubeventKeeps, DataKeeps, LostKeeps DEF Next

\* Data that is fetched meets all the results of its own procedure and no other's,
\* but for what a lost link or a failed fetch left in the buffer
\* (subevent_result_cb, ranging_data_ready_cb and ranging_data_cb).
THEOREM FetchedAlwaysWhole == Spec => []FetchedIsWhole
<1>1. RingInv => FetchedIsWhole
  BY DEF RingInv, OwnResults, PartialIsDirty, FetchedIsWhole, Dirt
<1> QED
  BY <1>1, RingInit, RingKeeps, PTL DEF Spec

-----------------------------------------------------------------------------
(* The other types.                                                        *)

Bursts == [ifft : Seq(Int), relay : 0 .. SuspectMax]

RestTypes ==
  /\ up \in BOOLEAN /\ wanted \in BOOLEAN /\ realtime \in BOOLEAN
  /\ old \in BOOLEAN /\ calm \in BOOLEAN
  /\ peer \in Seq(Ids) /\ Len(peer) <= Backlog
  /\ burst \in Bursts /\ Len(burst.ifft) <= BurstMax
  /\ result = [of |-> result.of, old |-> result.old, n |-> result.n]
  /\ result.old \in BOOLEAN /\ result.n \in {0, 1, 2}

LEMMA BurstAddType ==
  ASSUME RestTypes, NEW raw \in Samples
  PROVE  BurstAdd(burst, raw) \in Bursts /\ Len(BurstAdd(burst, raw).ifft) <= BurstMax
<1>1. raw.ifft \in Int
  BY RangingAssumption
<1>2. burst.ifft \in Seq(Int) /\ burst.relay \in 0 .. SuspectMax /\ Len(burst.ifft) <= BurstMax
  BY DEF RestTypes, Bursts
<1>3. SuspectMax \in Nat /\ BurstMax \in Nat
  BY FusionAssumption
<1>4. CASE BurstAdd(burst, raw) = burst
  BY <1>4 DEF RestTypes
<1>5. CASE BurstAdd(burst, raw) = [burst EXCEPT !.relay = IF @ < SuspectMax THEN @ + 1 ELSE @]
  <2>1. (IF burst.relay < SuspectMax THEN burst.relay + 1 ELSE burst.relay) \in 0 .. SuspectMax
    BY <1>2, <1>3
  <2> QED
    BY <1>2, <1>5, <2>1 DEF RestTypes, Bursts
<1>6. CASE BurstAdd(burst, raw) =
             [burst EXCEPT !.ifft = IF Len(@) < BurstMax THEN Append(@, raw.ifft) ELSE @]
  <2> DEFINE s == IF Len(burst.ifft) < BurstMax THEN Append(burst.ifft, raw.ifft) ELSE burst.ifft
  <2>1. s \in Seq(Int) /\ Len(s) <= BurstMax
    BY <1>1, <1>2, <1>3
  <2>2. BurstAdd(burst, raw) = [burst EXCEPT !.ifft = s]
    BY <1>6
  <2> QED
    BY <1>2, <2>1, <2>2 DEF RestTypes, Bursts
<1> QED
  BY <1>4, <1>5, <1>6 DEF BurstAdd

LEMMA NothingYet == EmptyBurst \in Bursts /\ Len(EmptyBurst.ifft) <= BurstMax
BY FusionAssumption DEF EmptyBurst, Bursts

LEMMA EstimateType ==
  ASSUME RestTypes, UNCHANGED estimate \/ \E raw \in Samples : OnEstimate(raw)
  PROVE  /\ burst' \in Bursts /\ Len(burst'.ifft) <= BurstMax /\ old' \in BOOLEAN
         /\ result' = [of |-> result'.of, old |-> result'.old, n |-> result'.n]
         /\ result'.old \in BOOLEAN /\ result'.n \in {0, 1, 2}
<1>1. CASE UNCHANGED estimate
  BY <1>1 DEF estimate, RestTypes
<1>2. ASSUME NEW raw \in Samples, OnEstimate(raw)
      PROVE  /\ burst' \in Bursts /\ Len(burst'.ifft) <= BurstMax /\ old' \in BOOLEAN
             /\ result' = [of |-> result'.of, old |-> result'.old, n |-> result'.n]
             /\ result'.old \in BOOLEAN /\ result'.n \in {0, 1, 2}
  <2> DEFINE n == IF result.n < 2 THEN result.n + 1 ELSE 2
  <2>1. n \in {0, 1, 2} /\ old \in BOOLEAN
    BY DEF RestTypes
  <2>2. CASE /\ result' = [of |-> BurstFinish(BurstAdd(burst, raw)), old |-> old, n |-> n]
             /\ burst' = EmptyBurst /\ old' = FALSE
    BY <2>1, <2>2, NothingYet
  <2>3. CASE burst' = BurstAdd(burst, raw) /\ UNCHANGED <<old, result>>
    BY <2>3, BurstAddType DEF RestTypes
  <2> QED
    BY <1>2, <2>2, <2>3 DEF OnEstimate
<1> QED
  BY <1>1, <1>2

LEMMA SubeventTypes ==
  ASSUME RingInv, RestTypes, NEW done \in Results, NEW has \in BOOLEAN, Subevent(done, has)
  PROVE  RestTypes'
<1>1. UNCHANGED <<up, wanted, realtime, burst, old, result, calm>>
  BY DEF Subevent, estimate
<1>2. PICK missed \in BOOLEAN : Progress(done, missed)
  <2>1. gap \in BOOLEAN /\ TRUE \in BOOLEAN
    BY DEF RingInv, RingTypes
  <2> QED
    BY <2>1 DEF Subevent, Drop, Add, Overflow
<1>3. peer' = peer \/ (Len(peer) < Backlog /\ peer' = Append(peer, counter.id))
  BY <1>2 DEF Progress
<1>4. counter.id \in Ids /\ Backlog \in Nat
  BY RangingAssumption DEF RingInv, RingTypes
<1>5. peer' \in Seq(Ids) /\ Len(peer') <= Backlog
  BY <1>3, <1>4 DEF RestTypes
<1> QED
  BY <1>1, <1>5 DEF RestTypes

LEMMA DataTypes ==
  ASSUME RestTypes, Ready \/ \E err \in BOOLEAN : Arrives(err) \/ Fetched(err)
  PROVE  RestTypes'
<1>1. UNCHANGED <<up, wanted, realtime, calm>>
  BY DEF Ready, Arrives, Fetched
<1>2. peer' = peer \/ (peer # <<>> /\ peer' = Tail(peer))
  BY DEF Ready, Arrives, Fetched
<1>3. peer' \in Seq(Ids) /\ Len(peer') <= Backlog
  BY <1>2, RangingAssumption DEF RestTypes
<1>4. UNCHANGED estimate \/ \E raw \in Samples : OnEstimate(raw)
  BY DEF Ready, Arrives, Fetched, RangingData
<1> QED
  BY <1>1, <1>3, <1>4, EstimateType DEF RestTypes

LEMMA RestKeeps == RingInv /\ RestTypes /\ [Next]_vars => RestTypes'
<1> SUFFICES ASSUME RingInv, RestTypes, [Next]_vars PROVE RestTypes'
  OBVIOUS
<1>1. CASE LinkLost
  <2>1. peer' = <<>> /\ peer' \in Seq(Ids) /\ Len(peer') <= Backlog
    BY <1>1, RangingAssumption DEF LinkLost
  <2> QED
    BY <1>1, <2>1 DEF LinkLost, RestTypes, estimate
<1>2. CASE \E rt \in BOOLEAN : LinkUp(rt)
  BY <1>2 DEF LinkUp, RestTypes, anchor, estimate
<1>3. CASE Resume
  <2>1. result' = [result EXCEPT !.n = 0] /\ old' \in BOOLEAN
    BY <1>3 DEF Resume
  <2>2. /\ result' = [of |-> result.of, old |-> result.old, n |-> 0]
    BY <2>1 DEF RestTypes
  <2> QED
    BY <1>3, <2>1, <2>2 DEF Resume, RestTypes, anchor
<1>4. CASE Stop
  BY <1>4 DEF Stop, RestTypes, anchor, estimate
<1>5. CASE Settle
  BY <1>5 DEF Settle, RestTypes, controller, anchor, estimate
<1>6. CASE UNCHANGED vars
  BY <1>6 DEF vars, RestTypes, controller, anchor, estimate
<1> QED
  BY <1>1, <1>2, <1>3, <1>4, <1>5, <1>6, SubeventTypes, DataTypes DEF Next

LEMMA RestInit == Init => RestTypes
<1> SUFFICES ASSUME Init PROVE RestTypes
  OBVIOUS
<1>1. peer = <<>> /\ peer \in Seq(Ids) /\ Len(peer) <= Backlog
  BY RangingAssumption DEF Init
<1> QED
  BY <1>1, NothingYet DEF Init, RestTypes

\* Every variable keeps its type; the burst never outgrows its array.
THEOREM RangingTypes == Spec => []TypeOK
<1>1. RingInv /\ RestTypes => TypeOK
  BY DEF RingInv, RingTypes, RestTypes, Bursts, TypeOK, Collected, Dirt
<1> QED
  BY <1>1, RingInit, RingKeeps, RestInit, RestKeeps, PTL DEF Spec

-----------------------------------------------------------------------------
(* What outlives a window.                                                 *)

\* A burst that has been completed has taken the old samples with it.
BurstIsFresh ==
  /\ result.n >= 1 => ~old
  /\ result.n >= 2 => ~result.old

LEMMA FreshEstimate ==
  ASSUME RestTypes, BurstIsFresh,
         UNCHANGED estimate \/ \E raw \in Samples : OnEstimate(raw)
  PROVE  BurstIsFresh'
<1>1. CASE UNCHANGED estimate
  BY <1>1 DEF estimate, BurstIsFresh
<1>2. ASSUME NEW raw \in Samples, OnEstimate(raw) PROVE BurstIsFresh'
  <2>1. CASE UNCHANGED <<old, result>>
    BY <2>1 DEF BurstIsFresh
  <2>2. CASE /\ result' = [of |-> BurstFinish(BurstAdd(burst, raw)), old |-> old,
                           n |-> IF result.n < 2 THEN result.n + 1 ELSE 2]
             /\ old' = FALSE
    <3>1. /\ result'.old = old
          /\ result'.n = IF result.n < 2 THEN result.n + 1 ELSE 2
      BY <2>2
    <3>2. result.n \in {0, 1, 2}
      BY DEF RestTypes
    <3>3. result'.n >= 2 => result.n >= 1
      BY <3>1, <3>2
    <3> QED
      BY <2>2, <3>1, <3>3 DEF BurstIsFresh
  <2> QED
    BY <1>2, <2>1, <2>2 DEF OnEstimate
<1> QED
  BY <1>1, <1>2

LEMMA FreshKeeps == RingInv /\ RestTypes /\ BurstIsFresh /\ [Next]_vars => BurstIsFresh'
<1> SUFFICES ASSUME RestTypes, BurstIsFresh, [Next]_vars PROVE BurstIsFresh'
  OBVIOUS
<1>1. CASE Resume
  <2>1. result'.n = 0
    BY <1>1 DEF Resume, RestTypes
  <2> QED
    BY <2>1 DEF BurstIsFresh
<1>2. CASE Ready \/ \E err \in BOOLEAN : Arrives(err) \/ Fetched(err)
  <2>1. UNCHANGED estimate \/ \E raw \in Samples : OnEstimate(raw)
    BY <1>2 DEF Ready, Arrives, Fetched, RangingData
  <2> QED
    BY <2>1, FreshEstimate
<1>3. CASE UNCHANGED estimate
  BY <1>3, FreshEstimate
<1>4. CASE \E done \in Results, has \in BOOLEAN : Subevent(done, has)
  BY <1>3, <1>4 DEF Subevent
<1>5. CASE LinkLost \/ Stop \/ Settle \/ \E rt \in BOOLEAN : LinkUp(rt)
  BY <1>3, <1>5 DEF LinkLost, Stop, Settle, LinkUp
<1>6. CASE UNCHANGED vars
  BY <1>3, <1>6 DEF vars
<1> QED
  BY <1>1, <1>2, <1>4, <1>5, <1>6 DEF Next

\* Nothing resets the live burst when ranging stops (impulse_cs_set_ranging), and
\* still at most the first burst of the next window holds samples of the last one.
THEOREM LaterBurstsAlwaysNew == Spec => []LaterBurstsAreNew
<1>1. Init => BurstIsFresh
  BY DEF Init, BurstIsFresh
<1>2. BurstIsFresh => LaterBurstsAreNew
  BY DEF BurstIsFresh, LaterBurstsAreNew
<1> QED
  BY <1>1, <1>2, RingInit, RingKeeps, RestInit, RestKeeps, FreshKeeps, PTL DEF Spec

=============================================================================
