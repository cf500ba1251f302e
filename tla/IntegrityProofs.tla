--------------------------- MODULE IntegrityProofs --------------------------
(***************************************************************************)
(* Proofs about Integrity, for every set of events, push, reboot, queue    *)
(* length and delay.  In this order: what the operators on the schedule,   *)
(* the records and the queue return; the types; the queue (one change per  *)
(* event, and a delay served in full); the promise of Quarantine; settled  *)
(* baselines; what a push has done when it is answered; the event that was *)
(* in force meanwhile; the pass budget.                                    *)
(***************************************************************************)
EXTENDS Integrity, WellFoundedInduction, FiniteSetTheorems, TLAPS

-----------------------------------------------------------------------------
(* Least and greatest indices.                                             *)

\* A set of numbers that has a member has a least one: what "the first slot
\* that" means in a loop of the code.
LEMMA LeastExists ==
  ASSUME NEW S \in SUBSET Nat, S # {}
  PROVE  \E x \in S : \A y \in S : x <= y
<1>1. PICK x \in S : \A y \in S : ~(<<y, x>> \in OpToRel(<, Nat))
  BY NatLessThanWellFounded, WFMin
<1>2. \A y \in S : ~(y < x)
  BY <1>1 DEF OpToRel
<1> QED
  BY <1>2

\* A set of indices of an array that has a member has a greatest one.
LEMMA GreatestExists ==
  ASSUME NEW n \in Nat, NEW S \in SUBSET (1 .. n), S # {}
  PROVE  \E x \in S : \A y \in S : x >= y
<1> DEFINE T == {n - x : x \in S}
<1>1. \A x \in S : n - x \in Nat
  OBVIOUS
<1>1a. T \in SUBSET Nat /\ T # {}
  BY <1>1
<1>2. PICK t \in T : \A y \in T : t <= y
  BY <1>1a, LeastExists
<1>3. PICK x \in S : t = n - x
  BY <1>2
<1>4. \A y \in S : n - x <= n - y
  BY <1>2, <1>3
<1> QED
  BY <1>4

-----------------------------------------------------------------------------
(* The operators on the schedule keep its type, and every cell an index    *)
(* could name.                                                             *)

LEMMA SlotOfType ==
  ASSUME NEW s \in Schedules, NEW id, Has(s, id)
  PROVE  /\ SlotOf(s, id) \in 1 .. s.n
         /\ s.ev[SlotOf(s, id)].id = id
<1>1. SlotsOf(s, id) \in SUBSET Nat /\ SlotsOf(s, id) # {}
  BY DEF SlotsOf, Has, Schedules
<1>2. \E i \in SlotsOf(s, id) : \A j \in SlotsOf(s, id) : i <= j
  BY <1>1, LeastExists
<1>3. SlotOf(s, id) \in SlotsOf(s, id)
  BY <1>2 DEF SlotOf
<1> QED
  BY <1>3 DEF SlotsOf

LEMMA FindType ==
  ASSUME NEW s \in Schedules, Filled(s), NEW id, Has(s, id)
  PROVE  Find(s, id) \in Events /\ Find(s, id).id = id
BY SlotOfType DEF Filled, Find

\* What is a schedule whose cells below the count, and the cell c, hold
\* events.
WellFormed(s, c) ==
  s \in Schedules /\ Filled(s) /\ c \in 0 .. MaxEvents
    /\ (c # 0 => s.ev[c] \in Events)

LEMMA UpsertType ==
  ASSUME NEW s, NEW c, WellFormed(s, c), NEW e \in Events
  PROVE  WellFormed(Upsert(s, e), c) /\ Upsert(s, e).n >= s.n
<1>0. s \in Schedules /\ s.n \in 0 .. MaxEvents /\ MaxEvents \in Nat
  BY IntegrityAssumption DEF WellFormed, Schedules
<1>1. CASE Has(s, e.id)
  <2> DEFINE k  == SlotOf(s, e.id)
             ev == [s.ev EXCEPT ![k] = e]
  <2>1. k \in 1 .. s.n
    BY <1>0, <1>1, SlotOfType
  <2>2. Upsert(s, e) = [s EXCEPT !.ev = ev, !.n = s.n]
    BY <1>0, <1>1 DEF Upsert, Schedules
  <2>3. ev \in [1 .. MaxEvents -> Events \cup {None}]
    BY <1>0 DEF Schedules
  <2>4. /\ \A i \in 1 .. s.n : ev[i] \in Events
        /\ c \in 0 .. MaxEvents /\ (c # 0 => ev[c] \in Events)
    BY <1>0, <2>1 DEF WellFormed, Schedules, Filled
  <2>5. Upsert(s, e) \in Schedules /\ Upsert(s, e).ev = ev /\ Upsert(s, e).n = s.n
    BY <1>0, <2>2, <2>3 DEF Schedules
  <2> HIDE DEF ev
  <2> QED
    BY <1>0, <2>4, <2>5 DEF WellFormed, Filled
<1>2. CASE ~Has(s, e.id) /\ s.n < MaxEvents
  <2> DEFINE ev == [s.ev EXCEPT ![s.n + 1] = e]
  <2>1. Upsert(s, e) = [s EXCEPT !.ev = ev, !.n = s.n + 1]
    BY <1>2 DEF Upsert
  <2>2. ev \in [1 .. MaxEvents -> Events \cup {None}] /\ s.n + 1 \in 0 .. MaxEvents
    BY <1>0, <1>2 DEF Schedules
  <2>3. /\ \A i \in 1 .. s.n + 1 : ev[i] \in Events
        /\ c \in 0 .. MaxEvents /\ (c # 0 => ev[c] \in Events)
    BY <1>0, <1>2 DEF WellFormed, Schedules, Filled
  <2>4. /\ Upsert(s, e) \in Schedules /\ Upsert(s, e).ev = ev
        /\ Upsert(s, e).n = s.n + 1
    BY <1>0, <2>1, <2>2 DEF Schedules
  <2> HIDE DEF ev
  <2> QED
    BY <1>0, <2>3, <2>4 DEF WellFormed, Filled
<1>3. CASE ~Has(s, e.id) /\ ~(s.n < MaxEvents)
  BY <1>0, <1>3 DEF Upsert
<1> QED
  BY <1>1, <1>2, <1>3

LEMMA DeleteType ==
  ASSUME NEW s, NEW c, WellFormed(s, c), NEW id
  PROVE  WellFormed(Delete(s, id), c) /\ Delete(s, id).n >= s.n - 1
<1>0. s \in Schedules /\ s.n \in 0 .. MaxEvents /\ MaxEvents \in Nat
  BY IntegrityAssumption DEF WellFormed, Schedules
<1>1. CASE Has(s, id)
  <2> DEFINE k  == SlotOf(s, id)
             ev == [i \in 1 .. MaxEvents |->
                      IF k <= i /\ i < s.n THEN s.ev[i + 1] ELSE s.ev[i]]
  <2>1. k \in 1 .. s.n
    BY <1>0, <1>1, SlotOfType
  <2>2. Delete(s, id) = [s EXCEPT !.ev = ev, !.n = s.n - 1]
    BY <1>1 DEF Delete
  <2>3. ev \in [1 .. MaxEvents -> Events \cup {None}] /\ s.n - 1 \in 0 .. MaxEvents
    <3>1. ASSUME NEW i \in 1 .. MaxEvents
          PROVE  ev[i] \in Events \cup {None}
      BY <1>0, <2>1 DEF Schedules
    <3> QED
      BY <1>0, <2>1, <3>1
  <2>4. ASSUME NEW i \in 1 .. MaxEvents, s.ev[i] \in Events
        PROVE  ev[i] \in Events
    BY <1>0, <2>1, <2>4 DEF WellFormed, Filled
  <2>5. /\ \A i \in 1 .. s.n - 1 : ev[i] \in Events
        /\ c \in 0 .. MaxEvents /\ (c # 0 => ev[c] \in Events)
    BY <1>0, <2>4 DEF WellFormed, Filled
  <2> HIDE DEF ev
  <2>6. /\ Delete(s, id) \in Schedules /\ Delete(s, id).ev = ev
        /\ Delete(s, id).n = s.n - 1
    BY <1>0, <2>2, <2>3 DEF Schedules
  <2> QED
    BY <1>0, <2>5, <2>6 DEF WellFormed, Filled
<1>2. CASE ~Has(s, id)
  BY <1>0, <1>2 DEF Delete
<1> QED
  BY <1>1, <1>2

LEMMA StoredType ==
  ASSUME NEW s \in Schedules, Filled(s)
  PROVE  Stored(s) \in Schedules /\ Filled(Stored(s))
<1> DEFINE ev == [i \in 1 .. MaxEvents |-> IF i <= s.n THEN s.ev[i] ELSE None]
<1>1. Stored(s) = [s EXCEPT !.ev = ev]
  BY DEF Stored
<1>2. ev \in [1 .. MaxEvents -> Events \cup {None}] /\ s.n \in 0 .. MaxEvents
  BY DEF Schedules
<1>3. \A i \in 1 .. s.n : ev[i] \in Events
  BY IntegrityAssumption DEF Schedules, Filled
<1> HIDE DEF ev
<1>4. Stored(s) \in Schedules /\ Stored(s).ev = ev /\ Stored(s).n = s.n
  BY <1>1, <1>2 DEF Schedules
<1> QED
  BY <1>3, <1>4 DEF Filled

-----------------------------------------------------------------------------
(* Settle records and the queue.                                           *)

IsSettleTable(st) == DOMAIN st \subseteq Ids /\ st \in [DOMAIN st -> Settle]

LEMMA NoteEditType ==
  ASSUME NEW st, IsSettleTable(st), NEW id \in Ids, NEW now \in Nat
  PROVE  IsSettleTable(NoteEdit(st, id, now))
<1>1. CASE id \in DOMAIN st
  <2> DEFINE r == [st[id] EXCEPT !.edit = now, !.has = FALSE]
  <2>1. NoteEdit(st, id, now) = [st EXCEPT ![id] = r]
    BY <1>1 DEF NoteEdit
  <2>2. r \in Settle
    BY <1>1 DEF IsSettleTable, Settle
  <2> HIDE DEF r
  <2> QED
    BY <1>1, <2>1, <2>2 DEF IsSettleTable
<1>2. CASE id \notin DOMAIN st /\ RoomToSettle(st) > 0
  <2> DEFINE new == [edit |-> now, has |-> FALSE, base |-> None]
  <2>1. new \in Settle
    BY DEF Settle
  <2>2. NoteEdit(st, id, now)
          = [x \in DOMAIN st \cup {id} |-> IF x = id THEN new ELSE st[x]]
    BY <1>2 DEF NoteEdit
  <2> HIDE DEF new
  <2> QED
    BY <2>1, <2>2 DEF IsSettleTable
<1>3. CASE id \notin DOMAIN st /\ ~(RoomToSettle(st) > 0)
  BY <1>3 DEF NoteEdit
<1> QED
  BY <1>1, <1>2, <1>3

LEMMA SealUnknownType ==
  ASSUME NEW st, IsSettleTable(st), NEW s \in Schedules, Filled(s),
         NEW now \in Nat
  PROVE  IsSettleTable(SealUnknown(st, s, now))
<1> DEFINE fits == {i \in Unknown(st, s) :
                      Cardinality({j \in Unknown(st, s) : j <= i})
                        <= RoomToSettle(st)}
           new == {s.ev[i].id : i \in fits}
           sealed(x) == [edit |-> now, has |-> TRUE, base |-> Find(s, x)]
<1>1. SealUnknown(st, s, now)
        = [x \in DOMAIN st \cup new |-> IF x \in DOMAIN st THEN st[x] ELSE sealed(x)]
  BY DEF SealUnknown
<1>2. fits \subseteq 1 .. s.n
  BY DEF Unknown
<1>3. \A x \in new : x \in Ids /\ Has(s, x)
  BY <1>2 DEF Filled, Ids, Has, SlotsOf
<1>4. \A x \in new : sealed(x) \in Settle
  BY <1>3, FindType DEF Settle
<1> HIDE DEF new, sealed
<1> QED
  BY <1>1, <1>3, <1>4 DEF IsSettleTable

LEMMA SettleTickType ==
  ASSUME NEW st, IsSettleTable(st), NEW s \in Schedules, Filled(s),
         NEW win, NEW now
  PROVE  IsSettleTable(SettleTick(st, s, win, now))
<1> DEFINE due(x) == ~st[x].has /\ now >= st[x].edit + win /\ Has(s, x)
           settled(x) == [st[x] EXCEPT !.has = TRUE, !.base = Find(s, x)]
<1>1. SettleTick(st, s, win, now)
        = [x \in DOMAIN st |-> IF due(x) THEN settled(x) ELSE st[x]]
  BY DEF SettleTick
<1>2. \A x \in DOMAIN st : due(x) => settled(x) \in Settle
  BY FindType DEF IsSettleTable, Settle
<1> HIDE DEF due, settled
<1> QED
  BY <1>1, <1>2 DEF IsSettleTable

Queues == [1 .. QueueMax -> Pending \cup {None}]

LEMMA CancelForType ==
  ASSUME NEW q \in Queues, NEW id
  PROVE  /\ CancelFor(q, id) \in Queues
         /\ \A i \in 1 .. QueueMax :
              \/ CancelFor(q, id)[i] = None
              \/ CancelFor(q, id)[i] = q[i] /\ q[i].target # id
BY DEF CancelFor, Queues

\* A push into an array of cells fills one free cell at most.
LEMMA CellPush ==
  ASSUME NEW N \in Nat, NEW X, NEW q \in [1 .. N -> X \cup {None}], NEW p \in X
  PROVE  /\ QueuePush(q, p) \in [1 .. N -> X \cup {None}]
         /\ \/ QueuePush(q, p) = q
            \/ \E k \in 1 .. N :
                 q[k] = None /\ QueuePush(q, p) = [q EXCEPT ![k] = p]
<1>1. CASE FreeCells(q) = {}
  BY <1>1 DEF QueuePush
<1>2. CASE FreeCells(q) # {}
  <2> DEFINE k == CHOOSE i \in FreeCells(q) : \A j \in FreeCells(q) : i <= j
  <2>1. FreeCells(q) \in SUBSET Nat
    BY DEF FreeCells
  <2>2. \E i \in FreeCells(q) : \A j \in FreeCells(q) : i <= j
    BY <1>2, <2>1, LeastExists
  <2>3. k \in FreeCells(q)
    BY <2>2
  <2>4. QueuePush(q, p) = [q EXCEPT ![k] = p]
    BY <1>2 DEF QueuePush
  <2> HIDE DEF k
  <2> QED
    BY <2>3, <2>4 DEF FreeCells
<1> QED
  BY <1>1, <1>2

LEMMA QueuePushType ==
  ASSUME NEW q \in Queues, NEW p \in Pending
  PROVE  /\ QueuePush(q, p) \in Queues
         /\ \/ QueuePush(q, p) = q
            \/ \E k \in 1 .. QueueMax :
                 q[k] = None /\ QueuePush(q, p) = [q EXCEPT ![k] = p]
<1>1. QueueMax \in Nat
  BY IntegrityAssumption
<1> QED
  BY <1>1, CellPush DEF Queues

-----------------------------------------------------------------------------
(* The event in force is an event of the schedule.                         *)

LEMMA HolderType ==
  ASSUME NEW n \in Nat, NEW s, NEW scn \in SUBSET (1 .. n), NEW l \in 1 .. n
  PROVE  Holder(s, scn, l) \in 1 .. n
<1> DEFINE onces == {j \in scn : s[j].id = s[l].id /\ s[j].rec = "once"}
<1>1. CASE onces = {}
  BY <1>1 DEF Holder
<1>2. CASE onces # {}
  <2>1. \E x \in onces : \A y \in onces : x >= y
    BY <1>2, GreatestExists
  <2>2. Max(onces) \in onces
    BY <2>1 DEF Max
  <2> QED
    BY <1>2, <2>2 DEF Holder
<1> QED
  BY <1>1, <1>2

LEMMA DayPlanType ==
  ASSUME NEW n \in Nat, NEW s \in [1 .. n -> Events], NEW day, NEW z
  PROVE  DayPlan(s, day, z) \subseteq (1 .. n) \X (1 .. n)
<1> DEFINE occ == Occurring(s, day, z)
           scn == Scanned(s, occ)
<1>1. scn \in SUBSET (1 .. n)
  BY DEF Scanned, Occurring
<1>2. \A l \in Leads(s, occ) \cap scn :
        <<l, Holder(s, scn, l)>> \in (1 .. n) \X (1 .. n)
  BY <1>1, HolderType
<1> HIDE DEF occ
<1> QED
  BY <1>2 DEF DayPlan, occ

LEMMA StartType == \A e \in Events : e.start \in Nat
BY IntegrityAssumption, Zenon

\* A non-empty set of entries of a plan has one that comes first.
LEMMA EarliestType ==
  ASSUME NEW n \in Nat, NEW s \in [1 .. n -> Events],
         NEW plan \in SUBSET ((1 .. n) \X (1 .. n)), plan # {}
  PROVE  Earliest(s, plan) \in plan
<1> DEFINE starts == {s[p[2]].start : p \in plan}
<1>1. ASSUME NEW p \in plan
      PROVE  s[p[2]].start \in Nat /\ p[1] \in Nat
  <2>1. p[1] \in 1 .. n /\ p[2] \in 1 .. n
    OBVIOUS
  <2>2. s[p[2]] \in Events
    BY <2>1
  <2> QED
    BY <2>1, <2>2, StartType
<1>2. starts \in SUBSET Nat /\ starts # {}
  BY <1>1
<1>3. PICK a \in starts : \A b \in starts : a <= b
  BY <1>2, LeastExists
<1> DEFINE soonest == {p \in plan : s[p[2]].start = a}
           places  == {p[1] : p \in soonest}
<1>4. places \in SUBSET Nat /\ places # {}
  BY <1>1, <1>3
<1>5. PICK m \in places : \A k \in places : m <= k
  BY <1>4, LeastExists
<1>6. PICK p \in soonest : p[1] = m
  BY <1>5
<1>7. ASSUME NEW q \in plan
      PROVE  \/ s[p[2]].start < s[q[2]].start
             \/ s[p[2]].start = s[q[2]].start /\ p[1] <= q[1]
  <2>1. a <= s[q[2]].start /\ s[p[2]].start = a
    BY <1>3, <1>6
  <2>2. s[q[2]].start = a => p[1] <= q[1]
    BY <1>5, <1>6
  <2> QED
    BY <1>1, <1>2, <2>1, <2>2
<1>8. \E x \in plan : \A q \in plan :
        \/ s[x[2]].start < s[q[2]].start
        \/ s[x[2]].start = s[q[2]].start /\ x[1] <= q[1]
  BY <1>6, <1>7
<1> QED
  BY <1>8, Zenon DEF Earliest

LEMMA ActiveSlotType ==
  ASSUME NEW n \in Nat, NEW s \in [1 .. n -> Events], NEW u, NEW z
  PROVE  ActiveSlot(s, u, z) \in 0 .. n
<1> DEFINE plan == DayPlan(s, LocalDay(u, z), z)
           inside == {p \in plan : Covers(s[p[2]], LocalMinute(u, z))}
<1>1. inside \in SUBSET ((1 .. n) \X (1 .. n))
  BY DayPlanType
<1>2. ActiveSlot(s, u, z) = IF inside = {} THEN 0 ELSE Earliest(s, inside)[2]
  BY DEF ActiveSlot
<1> HIDE DEF inside
<1>3. inside # {} => Earliest(s, inside) \in inside
  BY <1>1, EarliestType
<1> QED
  BY <1>1, <1>2, <1>3

-----------------------------------------------------------------------------
(* Type correctness.                                                       *)

LEMMA ConstantTypes ==
  /\ MaxEvents \in Nat /\ QueueMax \in Nat /\ MaxSpends \in Nat
  /\ LoosenDelay \in Nat /\ PassBudget \in Nat /\ PassWindow \in Nat
  /\ SettleDefault \in Nat /\ SettleFloor \in Nat /\ SettleCeil \in Nat
  /\ StartUtc \in Int /\ SaveEvery \in Nat
BY IntegrityAssumption

\* A change of the settle records and the queue within their types.
LEMMA IntegrityType ==
  ASSUME NEW g, IsIntegrity(g),
         NEW st, IsSettleTable(st), NEW q \in Queues
  PROVE  /\ IsIntegrity([g EXCEPT !.settle = st])
         /\ IsIntegrity([g EXCEPT !.pending = q])
         /\ IsIntegrity([g EXCEPT !.settle = st, !.pending = q])
         /\ IsIntegrity([g EXCEPT !.pending = q, !.settle = st])
BY DEF IsIntegrity, IsSettleTable, Queues

LEMMA IntegrityParts ==
  ASSUME NEW g, IsIntegrity(g)
  PROVE  IsSettleTable(g.settle) /\ g.pending \in Queues
BY DEF IsIntegrity, IsSettleTable, Queues

LEMMA QuarantinedType ==
  ASSUME TypeOK, NEW kind \in {"upsert", "delete"}, NEW e \in Events
  PROVE  Quarantined(kind, e) \in Queues
<1> DEFINE p == [kind |-> kind, target |-> e.id, proposed |-> e,
                 after |-> elapsed + LoosenDelay, asked |-> real]
<1>1. p \in Pending
  <2>1. e.id \in Ids
    BY DEF Ids
  <2>2. elapsed \in Nat /\ real \in Nat /\ LoosenDelay \in Nat
    BY ConstantTypes, Zenon DEF TypeOK
  <2> QED
    BY <2>1, <2>2 DEF Pending
<1>2. CancelFor(ig.pending, e.id) \in Queues
  BY IntegrityParts, CancelForType DEF TypeOK
<1> HIDE DEF p
<1>3. QueuePush(CancelFor(ig.pending, e.id), p) \in Queues
  BY <1>1, <1>2, QueuePushType
<1> QED
  BY <1>3 DEF Quarantined, p

Passes == [at : Nat, torn : BOOLEAN]

LEMMA TypeInit == Init => TypeOK
<1> SUFFICES ASSUME Init PROVE TypeOK
  OBVIOUS
<1>1. NoSchedule \in Schedules /\ Filled(NoSchedule)
  BY IntegrityAssumption DEF NoSchedule, Schedules, Filled
<1>2. IsIntegrity(NoIntegrity)
  BY ConstantTypes DEF NoIntegrity, IsIntegrity
<1>3. Idle \in Jobs /\ Idle.at = "idle"
  BY DEF Idle, Jobs
<1>4. flash \in [sched : Schedules, ig : {flash.ig}, elapsed : Nat, tz : Int]
  BY <1>1 DEF Init
<1>5. spent \in Seq(Passes) /\ count \in [writes : Nat, boots : Nat]
  BY DEF Init
<1>6. active \in 0 .. MaxEvents /\ active = 0
  BY ConstantTypes DEF Init
<1>7. JobOK
  BY <1>3 DEF JobOK, Init
<1> QED
  BY <1>1, <1>2, <1>4, <1>5, <1>6, <1>7, ConstantTypes DEF Init, TypeOK, Passes

\* The state the loops of the workqueue handlers change, and what they keep.
LEMMA LoopType ==
  ASSUME TypeOK,
         sched' \in Schedules, Filled(sched'), IsIntegrity(ig'),
         active # 0 => sched'.ev[active] \in Events,
         JobOK',
         UNCHANGED <<active, tz, clocks, flash, spent>>
  PROVE  TypeOK'
BY DEF TypeOK, Filled, clocks, IsIntegrity

LEMMA TypeDeleteStep == TypeOK /\ DeleteStep => TypeOK'
<1> SUFFICES ASSUME TypeOK, DeleteStep PROVE TypeOK'
  OBVIOUS
<1> DEFINE e == sched.ev[job.i]
           next == [job EXCEPT !.i = @ - 1]
<1>1. /\ job \in Jobs /\ job.at = "delete" /\ job.i > 0 /\ job.i <= sched.n
      /\ job.prop \in Proposals /\ sched.n \in Nat /\ job.i \in Nat
  BY ConstantTypes DEF TypeOK, JobOK, Jobs, DeleteStep, Schedules
<1>2. e \in Events /\ e.id \in Ids
  BY <1>1 DEF TypeOK, Filled, Jobs, Ids
<1>3. WellFormed(sched, active)
  BY DEF TypeOK, WellFormed
<1>4. /\ next \in Jobs /\ next.at = "delete" /\ next.i = job.i - 1
      /\ next.prop \in Proposals
  BY <1>1 DEF Jobs
<1> HIDE DEF next
<1>5. /\ [next EXCEPT !.mark = TRUE] \in Jobs
      /\ [next EXCEPT !.mark = TRUE].at = "delete"
      /\ [next EXCEPT !.mark = TRUE].i = job.i - 1
      /\ [next EXCEPT !.mark = TRUE].prop \in Proposals
  BY <1>4 DEF Jobs
<1>6. UNCHANGED <<active, tz, clocks, flash, spent>>
  BY DEF DeleteStep
<1>7. IsIntegrity(ig) /\ IsSettleTable(ig.settle) /\ ig.pending \in Queues
        /\ elapsed \in Nat
  BY IntegrityParts DEF TypeOK
<1>8. CASE job' = next /\ UNCHANGED <<sched, ig>>
  <2>1. JobOK'
    BY <1>1, <1>4, <1>8 DEF JobOK
  <2> QED
    BY <1>3, <1>6, <1>8, <2>1, <1>7, LoopType DEF WellFormed
<1>9. CASE /\ sched' = Delete(sched, e.id)
           /\ ig' = [ig EXCEPT !.settle = NoteEdit(@, e.id, elapsed),
                               !.pending = CancelFor(@, e.id)]
           /\ job' = next
  <2>1. WellFormed(sched', active) /\ sched'.n >= sched.n - 1
    BY <1>3, <1>9, DeleteType
  <2>2. IsIntegrity(ig')
    BY <1>2, <1>7, <1>9, NoteEditType, CancelForType, IntegrityType
  <2>3. JobOK'
    BY <1>1, <1>4, <1>9, <2>1 DEF JobOK, WellFormed, Schedules
  <2> QED
    BY <1>6, <2>1, <2>2, <2>3, LoopType DEF WellFormed
<1>10. CASE /\ ig' = [ig EXCEPT !.pending = Quarantined("delete", e)]
            /\ job' = [next EXCEPT !.mark = TRUE]
            /\ UNCHANGED sched
  <2>1. IsIntegrity(ig')
    BY <1>2, <1>7, <1>10, QuarantinedType, IntegrityType
  <2>2. JobOK'
    BY <1>1, <1>5, <1>10 DEF JobOK
  <2> QED
    BY <1>3, <1>6, <1>10, <2>1, <2>2, LoopType DEF WellFormed
<1> QED
  BY <1>8, <1>9, <1>10 DEF DeleteStep, next

LEMMA TypeUpsertStep == TypeOK /\ UpsertStep => TypeOK'
<1> SUFFICES ASSUME TypeOK, UpsertStep PROVE TypeOK'
  OBVIOUS
<1> DEFINE e == job.prop[job.i]
           next == [job EXCEPT !.i = @ + 1]
<1>1. /\ job \in Jobs /\ job.at = "upsert" /\ job.i \in Nat /\ job.i >= 1
      /\ job.i <= Len(job.prop) /\ job.prop \in Proposals
      /\ job.prop \in Seq(Events)
  BY DEF TypeOK, JobOK, Jobs, UpsertStep
<1>2. e \in Events /\ e.id \in Ids
  BY <1>1 DEF Ids
<1>3. WellFormed(sched, active)
  BY DEF TypeOK, WellFormed
<1>4. /\ next \in Jobs /\ next.at = "upsert" /\ next.i = job.i + 1
      /\ next.prop \in Proposals
  BY <1>1 DEF Jobs
<1> HIDE DEF e, next
<1>5. /\ [next EXCEPT !.mark = TRUE] \in Jobs
      /\ [next EXCEPT !.mark = TRUE].at = "upsert"
      /\ [next EXCEPT !.mark = TRUE].i = job.i + 1
      /\ [next EXCEPT !.mark = TRUE].prop \in Proposals
  BY <1>4 DEF Jobs
<1>6. UNCHANGED <<active, tz, clocks, flash, spent>>
  BY DEF UpsertStep
<1>7. IsIntegrity(ig) /\ IsSettleTable(ig.settle) /\ ig.pending \in Queues
        /\ elapsed \in Nat
  BY IntegrityParts DEF TypeOK
<1>8. ASSUME job' = next \/ job' = [next EXCEPT !.mark = TRUE]
      PROVE  JobOK'
  <2>1. CASE job' = next
    BY <1>1, <1>4, <2>1 DEF JobOK
  <2>2. CASE job' = [next EXCEPT !.mark = TRUE]
    BY <1>1, <1>5, <2>2 DEF JobOK
  <2> QED
    BY <1>8, <2>1, <2>2
<1>9. CASE /\ job' = next \/ job' = [next EXCEPT !.mark = TRUE]
           /\ UNCHANGED <<sched, ig>>
  BY <1>3, <1>6, <1>7, <1>8, <1>9, LoopType DEF WellFormed, IsIntegrity
<1>10. CASE /\ sched' = Upsert(sched, e)
            /\ ig' = [ig EXCEPT !.settle = NoteEdit(@, e.id, elapsed),
                                !.pending = CancelFor(@, e.id)]
            /\ job' = next
  <2>1. WellFormed(sched', active)
    BY <1>2, <1>3, <1>10, UpsertType
  <2>2. IsIntegrity(ig')
    BY <1>2, <1>7, <1>10, NoteEditType, CancelForType, IntegrityType
  <2> QED
    BY <1>6, <1>8, <1>10, <2>1, <2>2, LoopType DEF WellFormed
<1>11. CASE /\ ig' = [ig EXCEPT !.pending = Quarantined("upsert", e)]
            /\ job' = [next EXCEPT !.mark = TRUE]
            /\ UNCHANGED sched
  <2>1. IsIntegrity(ig')
    BY <1>2, <1>7, <1>11, QuarantinedType, IntegrityType
  <2> QED
    BY <1>3, <1>6, <1>8, <1>11, <2>1, LoopType DEF WellFormed
<1> QED
  BY <1>9, <1>10, <1>11 DEF UpsertStep, e, next

LEMMA TypePromoteStep == TypeOK /\ PromoteStep => TypeOK'
<1> SUFFICES ASSUME TypeOK, PromoteStep PROVE TypeOK'
  OBVIOUS
<1> DEFINE p == ig.pending[job.i]
           next == [job EXCEPT !.i = @ + 1]
           cleared == [ig.pending EXCEPT ![job.i] = None]
<1>1. /\ job \in Jobs /\ job.at = "promote" /\ job.i \in Nat
      /\ job.i \in 1 .. QueueMax
  BY ConstantTypes DEF TypeOK, JobOK, Jobs, PromoteStep
<1>2. IsIntegrity(ig) /\ IsSettleTable(ig.settle) /\ ig.pending \in Queues
        /\ elapsed \in Nat
  BY IntegrityParts DEF TypeOK
<1>3. p # None => p \in Pending
  BY <1>1, <1>2 DEF Queues
<1>4. cleared \in Queues
  BY <1>2 DEF Queues
<1>5. WellFormed(sched, active)
  BY DEF TypeOK, WellFormed
<1>6. /\ next \in Jobs /\ next.at = "promote" /\ next.i = job.i + 1
  BY <1>1 DEF Jobs
<1> HIDE DEF p, next, cleared
<1>7. /\ [next EXCEPT !.mark = TRUE] \in Jobs
      /\ [next EXCEPT !.mark = TRUE].at = "promote"
      /\ [next EXCEPT !.mark = TRUE].i = job.i + 1
  BY <1>6 DEF Jobs
<1>8. ASSUME job' = next \/ job' = [next EXCEPT !.mark = TRUE]
      PROVE  JobOK'
  <2>1. CASE job' = next
    BY <1>1, <1>6, <2>1 DEF JobOK
  <2>2. CASE job' = [next EXCEPT !.mark = TRUE]
    BY <1>1, <1>7, <2>2 DEF JobOK
  <2> QED
    BY <1>8, <2>1, <2>2
<1>9. UNCHANGED <<active, tz, clocks, flash, spent>>
  BY DEF PromoteStep
<1>10. CASE job' = next /\ UNCHANGED <<sched, ig>>
  BY <1>2, <1>5, <1>8, <1>9, <1>10, LoopType DEF WellFormed, IsIntegrity
<1>11. CASE /\ ig' = [ig EXCEPT !.pending = cleared]
            /\ job' = next /\ UNCHANGED sched
  <2>1. IsIntegrity(ig')
    BY <1>2, <1>4, <1>11, IntegrityType
  <2> QED
    BY <1>5, <1>8, <1>9, <1>11, <2>1, LoopType DEF WellFormed
<1>12. CASE /\ p # None
            /\ sched' = IF p.kind = "delete" THEN Delete(sched, p.target)
                        ELSE Upsert(sched, p.proposed)
            /\ ig' = [ig EXCEPT !.pending = cleared,
                                !.settle = NoteEdit(@, p.target, elapsed)]
            /\ job' = [next EXCEPT !.mark = TRUE]
  <2>1. p.target \in Ids /\ p.proposed \in Events
    BY <1>3, <1>12 DEF Pending
  <2>2. WellFormed(sched', active)
    BY <1>5, <1>12, <2>1, DeleteType, UpsertType
  <2>3. IsIntegrity(ig')
    BY <1>2, <1>4, <1>12, <2>1, NoteEditType, IntegrityType
  <2> QED
    BY <1>8, <1>9, <1>12, <2>2, <2>3, LoopType DEF WellFormed
<1> QED
  BY <1>10, <1>11, <1>12 DEF PromoteStep, Due, p, next, cleared

LEMMA TypeBeginPush ==
  ASSUME TypeOK, NEW p \in Proposals, BeginPush(p)
  PROVE  TypeOK'
<1> DEFINE sealed == SealUnknown(ig.settle, sched, elapsed)
           st == SettleTick(sealed, sched, ig.win, elapsed)
           held == IF active \in 1 .. sched.n THEN sched.ev[active] ELSE None
<1>1. /\ sched \in Schedules /\ Filled(sched) /\ elapsed \in Nat
      /\ IsIntegrity(ig) /\ IsSettleTable(ig.settle) /\ ig.pending \in Queues
  BY IntegrityParts DEF TypeOK
<1>2. IsSettleTable(st)
  BY <1>1, SealUnknownType, SettleTickType
<1> HIDE DEF st
<1>3. IsIntegrity([ig EXCEPT !.settle = st])
  BY <1>1, <1>2, IntegrityType
<1>4. held \in Events \cup {None}
  BY DEF TypeOK
<1> HIDE DEF held
<1>5. p \in Seq(Events)
  BY IntegrityAssumption
<1>6. /\ ig' = [ig EXCEPT !.settle = st]
      /\ \/ job' = job
         \/ job' = [Idle EXCEPT !.at = "delete", !.prop = p, !.i = sched.n,
                                !.held = held]
      /\ UNCHANGED <<sched, active, tz, utc, flash, spent, elapsed, real, torn>>
      /\ count' = [count EXCEPT !.writes = @ + 1]
  BY DEF BeginPush, Write, st, held
<1>7. sched.n \in Nat
  BY <1>1, ConstantTypes DEF Schedules
<1>8. JobOK'
  <2>1. CASE job' = job
    BY <1>6, <2>1 DEF TypeOK, JobOK
  <2>2. CASE job' = [Idle EXCEPT !.at = "delete", !.prop = p, !.i = sched.n,
                                 !.held = held]
    <3>1. job' = [at |-> "delete", prop |-> p, i |-> sched.n, mark |-> FALSE,
                  pass |-> FALSE, held |-> held]
      BY <2>2 DEF Idle
    <3>2. job' \in Jobs
      BY <3>1, <1>4, <1>5, <1>7 DEF Jobs
    <3> QED
      BY <1>6, <1>7, <3>1, <3>2 DEF JobOK
  <2> QED
    BY <1>6, <2>1, <2>2
<1>9. count' \in [writes : Nat, boots : Nat]
  <2>1. count \in [writes : Nat, boots : Nat]
    BY Zenon DEF TypeOK
  <2> QED
    BY <1>6, <2>1
<1> QED
  BY <1>3, <1>6, <1>8, <1>9 DEF TypeOK, Filled, IsIntegrity

LEMMA TypeDeletionsDone == TypeOK /\ DeletionsDone => TypeOK'
<1> SUFFICES ASSUME TypeOK, DeletionsDone PROVE TypeOK'
  OBVIOUS
<1>1. job' = [job EXCEPT !.at = "upsert", !.i = 1] /\ job.prop \in Proposals
  BY DEF DeletionsDone, TypeOK, JobOK
<1>2. job' \in Jobs /\ job'.at = "upsert" /\ job'.i = 1 /\ job'.prop = job.prop
  BY <1>1 DEF TypeOK, JobOK, Jobs
<1>3. JobOK'
  BY <1>1, <1>2 DEF JobOK
<1> QED
  BY <1>3, LoopType DEF DeletionsDone, TypeOK, Filled, IsIntegrity

LEMMA TypeEndPush == TypeOK /\ EndPush => TypeOK'
<1> SUFFICES ASSUME TypeOK, EndPush PROVE TypeOK'
  OBVIOUS
<1>1. /\ sched' = [sched EXCEPT !.crc = job.prop]
      /\ job' = [job EXCEPT !.at = "saveSched"]
      /\ job.prop \in Proposals
  BY DEF EndPush, TypeOK, JobOK
<1>2. job' \in Jobs /\ job'.at = "saveSched"
  BY <1>1 DEF TypeOK, JobOK, Jobs
<1>3. JobOK'
  BY <1>2 DEF JobOK
<1>4. sched' \in Schedules /\ sched'.ev = sched.ev /\ sched'.n = sched.n
  BY <1>1 DEF TypeOK, Schedules
<1> QED
  BY <1>3, <1>4, LoopType DEF EndPush, TypeOK, Filled, IsIntegrity

LEMMA TypeSaveSchedule == TypeOK /\ SaveSchedule => TypeOK'
<1> SUFFICES ASSUME TypeOK, SaveSchedule PROVE TypeOK'
  OBVIOUS
<1>1. flash' = [flash EXCEPT !.sched = Stored(sched)]
      /\ job' = [job EXCEPT !.at = "saveInteg"]
  BY DEF SaveSchedule
<1>2. Stored(sched) \in Schedules /\ Filled(Stored(sched))
  BY StoredType DEF TypeOK
<1>3. /\ flash' \in [sched : Schedules, ig : {flash'.ig}, elapsed : Nat, tz : Int]
      /\ flash'.sched = Stored(sched) /\ flash'.ig = flash.ig
  BY <1>1, <1>2 DEF TypeOK
<1>4. job' \in Jobs /\ job'.at = "saveInteg"
  BY <1>1 DEF TypeOK, JobOK, Jobs
<1>5. JobOK'
  BY <1>4 DEF JobOK
<1>6. spent' \in Seq(Passes)
  <2>1. [at |-> real, torn |-> FALSE] \in Passes /\ spent \in Seq(Passes)
    BY DEF TypeOK, Passes
  <2> QED
    BY <2>1 DEF SaveSchedule
<1> QED
  BY <1>2, <1>3, <1>5, <1>6
  DEF SaveSchedule, TypeOK, clocks, Filled, IsIntegrity, Passes

LEMMA TypeSaveIntegrity == TypeOK /\ SaveIntegrity => TypeOK'
<1> SUFFICES ASSUME TypeOK, SaveIntegrity PROVE TypeOK'
  OBVIOUS
<1>1. flash' = [flash EXCEPT !.ig = ig] /\ job' = Idle
  BY DEF SaveIntegrity
<1>2. /\ flash' \in [sched : Schedules, ig : {flash'.ig}, elapsed : Nat, tz : Int]
      /\ flash'.sched = flash.sched /\ flash'.ig = ig
  BY <1>1 DEF TypeOK
<1>3. JobOK'
  BY <1>1 DEF JobOK, Idle, Jobs
<1> QED
  BY <1>2, <1>3 DEF SaveIntegrity, TypeOK, clocks, Filled, IsIntegrity

Logs == [1 .. MaxSpends -> Nat \cup {None}]

LEMMA TypeSpendPass ==
  ASSUME TypeOK, NEW id \in Ids, NEW day \in PassDays, SpendPass(id, day)
  PROVE  TypeOK'
<1> DEFINE log == Recent(ig.spends, elapsed)
           neg == NegateOf(Find(sched, id), day)
<1>1. /\ sched \in Schedules /\ Filled(sched) /\ elapsed \in Nat
      /\ IsIntegrity(ig) /\ MaxSpends \in Nat
  BY ConstantTypes DEF TypeOK
<1>2. log \in Logs
  BY <1>1 DEF IsIntegrity, Recent, Logs
<1>3. QueuePush(log, elapsed) \in Logs
  BY <1>1, <1>2, CellPush DEF Logs
<1>4. Has(sched, id) => neg \in Events
  BY <1>1, FindType, IntegrityAssumption, Zenon
<1> HIDE DEF neg, log
<1>5. WellFormed(sched, active)
  BY DEF TypeOK, WellFormed
<1>9. /\ UNCHANGED <<active, tz, utc, flash, spent, elapsed, real, torn>>
      /\ count' = [count EXCEPT !.writes = @ + 1]
  BY DEF SpendPass, Write
<1>6. /\ UNCHANGED <<active, tz, utc, flash, spent, elapsed, real, torn>>
      /\ count' \in [writes : Nat, boots : Nat]
  <2>1. count \in [writes : Nat, boots : Nat]
    BY Zenon DEF TypeOK
  <2> QED
    BY <1>9, <2>1
<1>7. CASE ig' = [ig EXCEPT !.spends = log] /\ UNCHANGED <<sched, job>>
  <2>1. IsIntegrity(ig')
    BY <1>1, <1>2, <1>7 DEF IsIntegrity, Logs
  <2> QED
    BY <1>6, <1>7, <2>1 DEF TypeOK, JobOK, Filled, IsIntegrity
<1>8. CASE /\ Has(sched, id) /\ sched' = Upsert(sched, neg)
           /\ ig' = [ig EXCEPT !.spends = QueuePush(log, elapsed)]
           /\ job' = [Save EXCEPT !.pass = TRUE]
  <2>1. WellFormed(sched', active)
    BY <1>4, <1>5, <1>8, UpsertType
  <2>2. IsIntegrity(ig')
    BY <1>1, <1>3, <1>8 DEF IsIntegrity, Logs
  <2>3. job' = [at |-> "saveSched", prop |-> <<>>, i |-> 0, mark |-> FALSE,
                pass |-> TRUE, held |-> None]
    BY <1>8 DEF Save, Idle
  <2>4. JobOK'
    BY <2>3 DEF JobOK, Jobs
  <2> QED
    BY <1>6, <2>1, <2>2, <2>4 DEF TypeOK, WellFormed, Filled, IsIntegrity
<1> QED
  BY <1>7, <1>8 DEF SpendPass, log, neg

SaveInteg == [at |-> "saveInteg", prop |-> <<>>, i |-> 0, mark |-> FALSE,
              pass |-> FALSE, held |-> None]

LEMMA TypeSetAllowance ==
  ASSUME TypeOK, NEW a \in Allowances, SetAllowance(a)
  PROVE  TypeOK'
<1>1. a \in Nat
  BY IntegrityAssumption
<1>2. IsIntegrity(ig')
  BY <1>1 DEF SetAllowance, TypeOK, IsIntegrity
<1>5. job' = SaveInteg
  BY DEF SetAllowance, SaveInteg, Idle
<1>3. JobOK'
  BY <1>5 DEF JobOK, Jobs, SaveInteg
<1>4. count' \in [writes : Nat, boots : Nat]
  <2>1. count \in [writes : Nat, boots : Nat]
    BY Zenon DEF TypeOK
  <2> QED
    BY <2>1 DEF SetAllowance, Write
<1> QED
  BY <1>2, <1>3, <1>4 DEF SetAllowance, Write, TypeOK, Filled, IsIntegrity

LEMMA TypeSetTime ==
  ASSUME TypeOK, NEW w \in ClockWrites, SetTime(w[1], w[2])
  PROVE  TypeOK'
<1>1. w[1] \in Int /\ w[2] \in Int
  BY IntegrityAssumption
<1>2. /\ flash' \in [sched : Schedules, ig : {flash'.ig}, elapsed : Nat, tz : Int]
      /\ flash'.sched = flash.sched /\ flash'.ig = flash.ig
  BY <1>1 DEF SetTime, TypeOK
<1>3. count' \in [writes : Nat, boots : Nat]
  <2>1. count \in [writes : Nat, boots : Nat]
    BY Zenon DEF TypeOK
  <2> QED
    BY <2>1 DEF SetTime, Write
<1> QED
  BY <1>1, <1>2, <1>3 DEF SetTime, Write, TypeOK, JobOK, Filled, IsIntegrity

LEMMA TypeApplySettings ==
  ASSUME TypeOK, NEW w \in ClockWrites, NEW s \in SettleWindows,
         ApplySettings(w[2], s)
  PROVE  TypeOK'
<1>1. w[2] \in Int /\ s \in Nat
  BY IntegrityAssumption
<1>2. Clamp(s) \in Nat
  BY <1>1, ConstantTypes DEF Clamp
<1>3. IsIntegrity(ig')
  BY <1>2 DEF ApplySettings, TypeOK, IsIntegrity
<1>4. /\ flash' \in [sched : Schedules, ig : {flash'.ig}, elapsed : Nat, tz : Int]
      /\ flash'.sched = flash.sched /\ flash'.ig = flash.ig
  BY <1>1 DEF ApplySettings, TypeOK
<1>7. job' = SaveInteg
  BY DEF ApplySettings, SaveInteg, Idle
<1>5. JobOK'
  BY <1>7 DEF JobOK, Jobs, SaveInteg
<1>6. count' \in [writes : Nat, boots : Nat]
  BY DEF ApplySettings, Write, TypeOK
<1> QED
  BY <1>1, <1>3, <1>4, <1>5, <1>6
  DEF ApplySettings, Write, TypeOK, Filled, IsIntegrity

LEMMA TypeRefresh == TypeOK /\ Refresh => TypeOK'
<1> SUFFICES ASSUME TypeOK, Refresh PROVE TypeOK'
  OBVIOUS
<1>1. View(sched) \in [1 .. sched.n -> Events] /\ sched.n \in Nat
  BY ConstantTypes DEF View, TypeOK, Filled, Schedules
<1>2. active' \in 0 .. sched.n
  BY <1>1, ActiveSlotType DEF Refresh
<1>3. active' \in 0 .. MaxEvents
  <2>1. sched.n \in 0 .. MaxEvents /\ MaxEvents \in Nat
    BY ConstantTypes DEF TypeOK, Schedules
  <2> QED
    BY <1>2, <2>1
<1>4. active' # 0 => sched.ev[active'] \in Events
  BY <1>1, <1>2 DEF TypeOK, Filled
<1> QED
  BY <1>3, <1>4 DEF Refresh, TypeOK, JobOK, Filled, IsIntegrity, clocks

LEMMA TypeTick == TypeOK /\ Tick => TypeOK'
<1> SUFFICES ASSUME TypeOK, Tick PROVE TypeOK'
  OBVIOUS
<1>1. real' \in Nat /\ utc' \in Int /\ elapsed' \in Nat
  BY DEF Tick, TypeOK
<1> DEFINE b == IF elapsed + 1 - flash.elapsed >= SaveEvery
                THEN elapsed + 1 ELSE flash.elapsed
<1>4. b \in Nat
  <2>1. elapsed \in Nat /\ flash.elapsed \in Nat
    BY DEF TypeOK
  <2> QED
    BY <2>1
<1>5. flash' = [flash EXCEPT !.elapsed = b]
  BY DEF Tick
<1> HIDE DEF b
<1>2. /\ flash' \in [sched : Schedules, ig : {flash'.ig}, elapsed : Nat, tz : Int]
      /\ flash'.sched = flash.sched /\ flash'.ig = flash.ig
  BY <1>4, <1>5 DEF TypeOK
<1> QED
  BY <1>1, <1>2 DEF Tick, TypeOK, JobOK, Filled, IsIntegrity

\* A stop changes no pass but the last, and only whether its record was lost.
LEMMA RecordedType ==
  ASSUME spent \in Seq(Passes)
  PROVE  /\ Recorded \in Seq(Passes)
         /\ DOMAIN Recorded = DOMAIN spent
         /\ \A k \in DOMAIN spent :
              /\ Recorded[k].at = spent[k].at
              /\ ~Recorded[k].torn => ~spent[k].torn
<1> DEFINE m == Len(spent)
           last == [at |-> spent[m].at, torn |-> TRUE]
           marked == [spent EXCEPT ![m] = last]
<1>1. m \in Nat /\ DOMAIN spent = 1 .. m
      /\ \A k \in 1 .. m : spent[k] \in Passes
  OBVIOUS
<1>2. m # 0 => last \in Passes
  BY <1>1 DEF Passes
<1>3. last.at = spent[m].at /\ last.torn = TRUE
  OBVIOUS
<1> HIDE DEF last
<1>4. marked \in Seq(Passes) /\ DOMAIN marked = 1 .. m
      /\ \A k \in 1 .. m : marked[k] = IF k = m THEN last ELSE spent[k]
  <2> HIDE DEF m
  <2>1. /\ DOMAIN marked = 1 .. m
        /\ \A k \in 1 .. m : marked[k] = IF k = m THEN last ELSE spent[k]
    BY <1>1
  <2>2. \A k \in 1 .. m : marked[k] \in Passes
    BY <1>1, <1>2, <2>1
  <2>3. marked \in [1 .. m -> Passes]
    BY <2>1, <2>2
  <2> QED
    BY <1>1, <2>1, <2>3
<1>7. \A k \in 1 .. m : marked[k].at = spent[k].at
                         /\ (~marked[k].torn => ~spent[k].torn)
  BY <1>3, <1>4
<1> HIDE DEF marked
<1>5. CASE job.pass /\ job.at = "saveInteg"
  BY <1>1, <1>4, <1>5, <1>7 DEF Recorded, marked, last
<1>6. CASE ~(job.pass /\ job.at = "saveInteg")
  BY <1>6 DEF Recorded
<1> QED
  BY <1>5, <1>6

LEMMA TypeBoot ==
  ASSUME TypeOK, NEW off \in OffTimes, Boot(off)
  PROVE  TypeOK'
<1>1. off \in Nat /\ 0 \in 0 .. MaxEvents
  BY IntegrityAssumption
<1>2. /\ flash.sched \in Schedules /\ Filled(flash.sched) /\ IsIntegrity(flash.ig)
      /\ IsSettleTable(flash.ig.settle) /\ flash.ig.pending \in Queues
      /\ flash.elapsed \in Nat /\ flash.tz \in Int
  BY IntegrityParts DEF TypeOK
<1>3. IsSettleTable(SealUnknown(flash.ig.settle, flash.sched, 0))
  BY <1>2, SealUnknownType
<1>4. IsIntegrity(ig')
  BY <1>2, <1>3, IntegrityType DEF Boot
<1>5. job' = [at |-> "promote", prop |-> <<>>, i |-> 1, mark |-> FALSE,
              pass |-> FALSE, held |-> None]
  BY DEF Boot, Idle
<1>6. JobOK'
  BY <1>5 DEF JobOK, Jobs
<1>7. real' \in Nat
  BY <1>1 DEF Boot, TypeOK
<1>8. count' \in [writes : Nat, boots : Nat]
  BY DEF Boot, TypeOK
<1>9. torn' \in BOOLEAN
  BY Zenon DEF Boot, TypeOK
<1>10. /\ sched' = flash.sched /\ elapsed' = flash.elapsed /\ tz' = flash.tz
       /\ active' = 0 /\ UNCHANGED <<utc, flash>>
  BY DEF Boot, RestoredElapsed
<1>11. active' # 0 => sched'.ev[active'] \in Events
  BY <1>10
<1>12. /\ sched' \in Schedules /\ Filled(sched') /\ IsIntegrity(flash'.ig)
       /\ Filled(flash'.sched)
       /\ flash' \in [sched : Schedules, ig : {flash'.ig}, elapsed : Nat, tz : Int]
  BY <1>2, <1>10 DEF TypeOK
<1>13. spent' \in Seq(Passes)
  <2>1. spent \in Seq(Passes)
    BY DEF TypeOK, Passes
  <2> QED
    BY <2>1, RecordedType DEF Boot
<1> QED
  BY <1>1, <1>2, <1>4, <1>6, <1>7, <1>8, <1>9, <1>10, <1>11, <1>12, <1>13
  DEF TypeOK, Filled, Passes

LEMMA TypePromotionDone == TypeOK /\ PromotionDone => TypeOK'
<1> SUFFICES ASSUME TypeOK, PromotionDone PROVE TypeOK'
  OBVIOUS
<1>2. ASSUME job.mark PROVE JobOK'
  <2>1. job' = [at |-> "saveSched", prop |-> <<>>, i |-> 0, mark |-> FALSE,
                pass |-> FALSE, held |-> None]
    BY <1>2 DEF PromotionDone, Save, Idle
  <2> QED
    BY <2>1 DEF JobOK, Jobs
<1>3. ASSUME ~job.mark PROVE JobOK'
  <2>1. job' = [at |-> "idle", prop |-> <<>>, i |-> 0, mark |-> FALSE,
                pass |-> FALSE, held |-> None]
    BY <1>3 DEF PromotionDone, Idle
  <2> QED
    BY <2>1 DEF JobOK, Jobs
<1>1. JobOK'
  BY <1>2, <1>3
<1> QED
  BY <1>1 DEF PromotionDone, TypeOK, Filled, IsIntegrity, clocks

LEMMA TypeStep == TypeOK /\ [Next]_vars => TypeOK'
<1> SUFFICES ASSUME TypeOK, [Next]_vars PROVE TypeOK'
  OBVIOUS
<1>1. CASE UNCHANGED vars
  BY <1>1 DEF vars, TypeOK, JobOK, Filled, IsIntegrity
<1>2. CASE Next
  BY <1>2, TypeBeginPush, TypeDeleteStep, TypeDeletionsDone, TypeUpsertStep,
     TypeEndPush, TypeSaveSchedule, TypeSaveIntegrity, TypeSpendPass,
     TypeSetAllowance, TypeSetTime, TypeApplySettings, TypeRefresh, TypeTick,
     TypeBoot, TypePromoteStep, TypePromotionDone
  DEF Next, Handler
<1> QED
  BY <1>1, <1>2

\* Every variable keeps its type, the loops stay within their arrays, no
\* cell of the schedule in use is blank and the pointer to the active event
\* never names a blank cell: whatever the events, the pushes and the reboots.
THEOREM TypeCorrect == Spec => []TypeOK
BY TypeInit, TypeStep, PTL DEF Spec

-----------------------------------------------------------------------------
(* The quarantine queue.  Every step is first summed up by what it does to *)
(* the two copies of the queue and to the clocks that decide when a change *)
(* is due.                                                                 *)

\* Cells are only ever emptied.
Thinned(q, r) == \A i \in DOMAIN r : r[i] = None \/ (i \in DOMAIN q /\ r[i] = q[i])

SameTime == UNCHANGED <<elapsed, real>> /\ flash'.elapsed = flash.elapsed

QuietStep == /\ SameTime
             /\ Thinned(ig.pending, ig'.pending)
             /\ flash'.ig.pending \in {ig.pending, flash.ig.pending}

AskStep == /\ SameTime
           /\ \E kind \in {"upsert", "delete"}, e \in Events :
                ig'.pending = Quarantined(kind, e)
           /\ flash'.ig.pending = flash.ig.pending

TickStep == /\ UNCHANGED <<ig, flash.ig.pending>>
            /\ real' = real + 1 /\ elapsed' = elapsed + 1
            /\ flash'.elapsed \in {flash.elapsed, elapsed + 1}

BootStep == /\ ig'.pending = flash.ig.pending
            /\ flash' = flash
            /\ elapsed' = flash.elapsed
            /\ real' \in Nat /\ real' >= real

QueueStep == QuietStep \/ AskStep \/ TickStep \/ BootStep

LEMMA ThinnedSame == ASSUME NEW q PROVE Thinned(q, q)
BY DEF Thinned

LEMMA CancelThins ==
  ASSUME NEW q \in Queues, NEW id
  PROVE  Thinned(q, CancelFor(q, id))
BY DEF CancelFor, Thinned, Queues

LEMMA QueueTypes ==
  ASSUME TypeOK
  PROVE  /\ ig.pending \in Queues /\ flash.ig.pending \in Queues
         /\ elapsed \in Nat /\ real \in Nat /\ flash.elapsed \in Nat
         /\ LoosenDelay \in Nat /\ QueueMax \in Nat
<1>1. ig.pending \in Queues /\ flash.ig.pending \in Queues
  BY IntegrityParts DEF TypeOK
<1>2. elapsed \in Nat /\ real \in Nat
  BY Zenon DEF TypeOK
<1>3. flash.elapsed \in Nat
  BY DEF TypeOK
<1> QED
  BY <1>1, <1>2, <1>3, ConstantTypes

\* A step that leaves the queue, the flash copy of it and the clocks alone.
LEMMA QueueUntouched ==
  ASSUME UNCHANGED <<elapsed, real>>, ig'.pending = ig.pending,
         flash'.ig = flash.ig, flash'.elapsed = flash.elapsed
  PROVE  QueueStep
BY ThinnedSame DEF QueueStep, QuietStep, SameTime

LEMMA QueueDeleteStep == TypeOK /\ DeleteStep => QueueStep
<1> SUFFICES ASSUME TypeOK, DeleteStep PROVE QueueStep
  OBVIOUS
<1> DEFINE e == sched.ev[job.i]
<1>1. e \in Events
  <2>1. job.at = "delete" /\ job.i > 0 /\ job.i \in Nat /\ job.i <= sched.n
    BY DEF DeleteStep, TypeOK, JobOK, Jobs
  <2>2. sched.n \in Nat
    BY ConstantTypes DEF TypeOK, Schedules
  <2> QED
    BY <2>1, <2>2 DEF TypeOK, Filled
<1>2. UNCHANGED <<elapsed, real, flash>>
  BY DEF DeleteStep, clocks
<1>3. IsIntegrity(ig) /\ ig.pending \in Queues
  BY IntegrityParts DEF TypeOK
<1> HIDE DEF e
<1>4. CASE UNCHANGED ig
  BY <1>2, <1>4, QueueUntouched
<1>5. CASE ig' = [ig EXCEPT !.settle = NoteEdit(@, e.id, elapsed),
                            !.pending = CancelFor(@, e.id)]
  <2>1. ig'.pending = CancelFor(ig.pending, e.id)
    BY <1>3, <1>5 DEF IsIntegrity
  <2> QED
    BY <1>2, <1>3, <2>1, CancelThins DEF QueueStep, QuietStep, SameTime
<1>6. CASE ig' = [ig EXCEPT !.pending = Quarantined("delete", e)]
  <2>1. ig'.pending = Quarantined("delete", e)
    BY <1>3, <1>6 DEF IsIntegrity
  <2> QED
    BY <1>1, <1>2, <2>1 DEF QueueStep, AskStep, SameTime
<1> QED
  BY <1>4, <1>5, <1>6 DEF DeleteStep, e

LEMMA QueueUpsertStep == TypeOK /\ UpsertStep => QueueStep
<1> SUFFICES ASSUME TypeOK, UpsertStep PROVE QueueStep
  OBVIOUS
<1> DEFINE e == job.prop[job.i]
<1>1. e \in Events
  <2>1. /\ job.at = "upsert" /\ job.i \in Nat /\ job.i >= 1
        /\ job.i <= Len(job.prop) /\ job.prop \in Seq(Events)
    BY DEF UpsertStep, TypeOK, JobOK, Jobs
  <2> QED
    BY <2>1
<1>2. UNCHANGED <<elapsed, real, flash>>
  BY DEF UpsertStep, clocks
<1>3. IsIntegrity(ig) /\ ig.pending \in Queues
  BY IntegrityParts DEF TypeOK
<1> HIDE DEF e
<1>4. CASE UNCHANGED ig
  BY <1>2, <1>4, QueueUntouched
<1>5. CASE ig' = [ig EXCEPT !.settle = NoteEdit(@, e.id, elapsed),
                            !.pending = CancelFor(@, e.id)]
  <2>1. ig'.pending = CancelFor(ig.pending, e.id)
    BY <1>3, <1>5 DEF IsIntegrity
  <2> QED
    BY <1>2, <1>3, <2>1, CancelThins DEF QueueStep, QuietStep, SameTime
<1>6. CASE ig' = [ig EXCEPT !.pending = Quarantined("upsert", e)]
  <2>1. ig'.pending = Quarantined("upsert", e)
    BY <1>3, <1>6 DEF IsIntegrity
  <2> QED
    BY <1>1, <1>2, <2>1 DEF QueueStep, AskStep, SameTime
<1> QED
  BY <1>4, <1>5, <1>6 DEF UpsertStep, e

LEMMA QueuePromoteStep == TypeOK /\ PromoteStep => QueueStep
<1> SUFFICES ASSUME TypeOK, PromoteStep PROVE QueueStep
  OBVIOUS
<1>1. UNCHANGED <<elapsed, real, flash>>
  BY DEF PromoteStep, clocks
<1>2. IsIntegrity(ig) /\ ig.pending \in Queues
  BY IntegrityParts DEF TypeOK
<1>3. CASE UNCHANGED ig
  BY <1>1, <1>3, QueueUntouched
<1>4. CASE ~UNCHANGED ig
  <2>1. ig'.pending = [ig.pending EXCEPT ![job.i] = None]
    BY <1>2, <1>4 DEF PromoteStep, IsIntegrity
  <2>2. Thinned(ig.pending, ig'.pending)
    BY <1>2, <2>1 DEF Thinned, Queues
  <2> QED
    BY <1>1, <2>2 DEF QueueStep, QuietStep, SameTime
<1> QED
  BY <1>3, <1>4

LEMMA QueueBegin ==
  ASSUME TypeOK, NEW p \in Proposals, BeginPush(p)
  PROVE  QueueStep
<1>1. ig'.pending = ig.pending
  BY DEF BeginPush, TypeOK, IsIntegrity
<1> QED
  BY <1>1, QueueUntouched DEF BeginPush, Write

LEMMA QueuePass ==
  ASSUME TypeOK, NEW id \in Ids, NEW day \in PassDays, SpendPass(id, day)
  PROVE  QueueStep
<1>1. PICK log : ig' = [ig EXCEPT !.spends = log]
  BY DEF SpendPass
<1>2. ig'.pending = ig.pending
  BY <1>1 DEF TypeOK, IsIntegrity
<1> QED
  BY <1>2, QueueUntouched DEF SpendPass, Write

LEMMA QueueSettings ==
  ASSUME TypeOK, NEW w \in ClockWrites, NEW s \in SettleWindows,
         ApplySettings(w[2], s)
  PROVE  QueueStep
<1>1. PICK win : ig' = [ig EXCEPT !.win = win]
  BY DEF ApplySettings
<1>2. ig'.pending = ig.pending
  BY <1>1 DEF TypeOK, IsIntegrity
<1>3. flash'.ig = flash.ig /\ flash'.elapsed = flash.elapsed
  BY DEF ApplySettings, TypeOK
<1> QED
  BY <1>2, <1>3, QueueUntouched DEF ApplySettings, Write

LEMMA QueueSteps == TypeOK /\ [Next]_vars => QueueStep
<1> SUFFICES ASSUME TypeOK, [Next]_vars PROVE QueueStep
  OBVIOUS
<1>1. CASE \/ UNCHANGED vars \/ DeletionsDone \/ EndPush \/ Refresh
           \/ PromotionDone
  <2>1. UNCHANGED <<ig, elapsed, real, flash>>
    BY <1>1 DEF vars, clocks, DeletionsDone, EndPush, Refresh, PromotionDone
  <2> QED
    BY <2>1, QueueUntouched
<1>2. CASE SaveSchedule
  <2>1. flash'.ig = flash.ig /\ flash'.elapsed = flash.elapsed
    BY <1>2 DEF SaveSchedule, TypeOK
  <2>2. UNCHANGED <<ig, elapsed, real>>
    BY <1>2 DEF SaveSchedule, clocks
  <2> QED
    BY <2>1, <2>2, QueueUntouched
<1>3. CASE SaveIntegrity
  <2>1. flash'.ig = ig /\ flash'.elapsed = flash.elapsed
    BY <1>3 DEF SaveIntegrity, TypeOK
  <2>2. UNCHANGED <<ig, elapsed, real>>
    BY <1>3 DEF SaveIntegrity, clocks
  <2> QED
    BY <2>1, <2>2, ThinnedSame DEF QueueStep, QuietStep, SameTime
<1>4. ASSUME NEW a \in Allowances, SetAllowance(a) PROVE QueueStep
  <2>1. ig'.pending = ig.pending
    BY <1>4 DEF SetAllowance, TypeOK, IsIntegrity
  <2> QED
    BY <1>4, <2>1, QueueUntouched DEF SetAllowance, Write
<1>5. ASSUME NEW w \in ClockWrites, SetTime(w[1], w[2]) PROVE QueueStep
  <2>1. flash'.ig = flash.ig /\ flash'.elapsed = flash.elapsed
    BY <1>5 DEF SetTime, TypeOK
  <2> QED
    BY <1>5, <2>1, QueueUntouched DEF SetTime, Write
<1>6. CASE Tick
  <2>1. /\ flash'.ig = flash.ig
        /\ flash'.elapsed \in {flash.elapsed, elapsed + 1}
    BY <1>6 DEF Tick, TypeOK
  <2> QED
    BY <1>6, <2>1 DEF Tick, QueueStep, TickStep
<1>7. ASSUME NEW off \in OffTimes, Boot(off) PROVE QueueStep
  <2>1. ig'.pending = flash.ig.pending
    BY <1>7 DEF Boot, TypeOK, IsIntegrity
  <2>2. off \in Nat
    BY IntegrityAssumption
  <2>3. real' \in Nat /\ real' >= real
    BY <1>7, <2>2, QueueTypes DEF Boot
  <2> QED
    BY <1>7, <2>1, <2>3 DEF Boot, RestoredElapsed, QueueStep, BootStep
<1> QED
  BY <1>1, <1>2, <1>3, <1>4, <1>5, <1>6, <1>7, QueueBegin, QueueDeleteStep,
     QueueUpsertStep, QueuePass, QueueSettings, QueuePromoteStep
  DEF Next, Handler

-----------------------------------------------------------------------------
(* One change per event.                                                   *)

LEMMA OnePendingThins ==
  ASSUME NEW q, NEW r, OnePending(q), Thinned(q, r)
  PROVE  OnePending(r)
BY DEF OnePending, Thinned

LEMMA OnePendingAsks ==
  ASSUME TypeOK, NEW kind \in {"upsert", "delete"}, NEW e \in Events,
         OnePending(ig.pending)
  PROVE  OnePending(Quarantined(kind, e))
<1> DEFINE p == [kind |-> kind, target |-> e.id, proposed |-> e,
                 after |-> elapsed + LoosenDelay, asked |-> real]
           q == CancelFor(ig.pending, e.id)
<1>1. p \in Pending /\ p.target = e.id
  <2>1. e.id \in Ids
    BY DEF Ids
  <2> QED
    BY <2>1, QueueTypes DEF Pending
<1>2. q \in Queues /\ \A i \in 1 .. QueueMax : q[i] = None \/ q[i].target # e.id
  BY QueueTypes, CancelForType
<1>3. OnePending(q)
  BY OnePendingThins, CancelThins, QueueTypes
<1>4. \/ QueuePush(q, p) = q
      \/ \E k \in 1 .. QueueMax :
           q[k] = None /\ QueuePush(q, p) = [q EXCEPT ![k] = p]
  BY <1>1, <1>2, QueuePushType
<1> HIDE DEF p, q
<1>5. OnePending(QueuePush(q, p))
  <2>1. ASSUME NEW k \in 1 .. QueueMax
        PROVE  OnePending([q EXCEPT ![k] = p])
    <3> DEFINE r == [q EXCEPT ![k] = p]
    <3>1. DOMAIN r = 1 .. QueueMax /\ DOMAIN q = 1 .. QueueMax
      BY <1>2 DEF Queues
    <3>2. \A i \in 1 .. QueueMax : r[i] = IF i = k THEN p ELSE q[i]
      BY <1>2 DEF Queues
    <3> HIDE DEF r
    <3>3. OnePending(r)
      BY <1>1, <1>2, <1>3, <3>1, <3>2 DEF OnePending
    <3> QED
      BY <3>3 DEF r
  <2> QED
    BY <1>3, <1>4, <2>1
<1> QED
  BY <1>5 DEF Quarantined, p, q

LEMMA OnePendingStep ==
  TypeOK /\ OnePendingPerEvent /\ QueueStep => OnePendingPerEvent'
<1> SUFFICES ASSUME TypeOK, OnePendingPerEvent, QueueStep
             PROVE  OnePendingPerEvent'
  OBVIOUS
<1>1. OnePending(ig.pending) /\ OnePending(flash.ig.pending)
  BY DEF OnePendingPerEvent
<1>2. CASE QuietStep
  BY <1>1, <1>2, OnePendingThins DEF QuietStep, OnePendingPerEvent
<1>3. CASE AskStep
  BY <1>1, <1>3, OnePendingAsks DEF AskStep, OnePendingPerEvent
<1>4. CASE TickStep
  BY <1>1, <1>4 DEF TickStep, OnePendingPerEvent
<1>5. CASE BootStep
  BY <1>1, <1>5 DEF BootStep, OnePendingPerEvent
<1> QED
  BY <1>2, <1>3, <1>4, <1>5 DEF QueueStep

\* cancel_pending_for before every queue_push leaves no event with two
\* quarantined changes, in RAM or in flash, whatever the queue's length,
\* the pushes and the crashes.
THEOREM OnePendingAlways == Spec => []OnePendingPerEvent
<1>1. Init => OnePendingPerEvent
  <2> DEFINE q == [i \in 1 .. QueueMax |-> None]
  <2>1. OnePending(q)
    BY DEF OnePending
  <2>2. NoIntegrity.pending = q
    BY DEF NoIntegrity
  <2>3. Init => ig = NoIntegrity /\ flash.ig = NoIntegrity
    BY DEF Init
  <2> QED
    BY <2>1, <2>2, <2>3 DEF OnePendingPerEvent
<1>2. TypeOK /\ OnePendingPerEvent /\ [Next]_vars => OnePendingPerEvent'
  BY QueueSteps, OnePendingStep
<1> QED
  BY <1>1, <1>2, TypeCorrect, PTL DEF Spec

-----------------------------------------------------------------------------
(* The delay.  An entry carries how much of its delay is left on the       *)
(* elapsed clock; the true time since it was asked for is never less than  *)
(* what that clock has counted.  The flash copy is covered too, against    *)
(* the clock in RAM, which is never behind the base in flash: a reboot     *)
(* takes both from flash, and so can only put the entry further off.       *)

Counted(q, el, re) ==
  \A i \in DOMAIN q :
    q[i] # None => q[i].asked + el + LoosenDelay <= re + q[i].after

DelayInv ==
  /\ flash.elapsed <= elapsed
  /\ Counted(ig.pending, elapsed, real)
  /\ Counted(flash.ig.pending, elapsed, real)

LEMMA CountedThins ==
  ASSUME NEW q, NEW r, NEW el, NEW re, Counted(q, el, re), Thinned(q, r)
  PROVE  Counted(r, el, re)
BY DEF Counted, Thinned

\* True time gains on the elapsed clock, or keeps pace with it.
LEMMA CountedLater ==
  ASSUME NEW q \in Queues, NEW el \in Nat, NEW re \in Nat, Counted(q, el, re),
         NEW el2 \in Nat, NEW re2 \in Nat, el2 - el <= re2 - re
  PROVE  Counted(q, el2, re2)
<1> SUFFICES ASSUME NEW i \in DOMAIN q, q[i] # None
             PROVE  q[i].asked + el2 + LoosenDelay <= re2 + q[i].after
  BY DEF Counted
<1>1. q[i] \in Pending
  BY DEF Queues
<1>2. q[i].asked \in Nat /\ q[i].after \in Nat
  BY <1>1 DEF Pending
<1>3. q[i].asked + el + LoosenDelay <= re + q[i].after
  BY DEF Counted
<1> QED
  BY <1>2, <1>3, ConstantTypes

LEMMA CountedAsks ==
  ASSUME TypeOK, NEW kind \in {"upsert", "delete"}, NEW e \in Events,
         Counted(ig.pending, elapsed, real)
  PROVE  Counted(Quarantined(kind, e), elapsed, real)
<1> DEFINE p == [kind |-> kind, target |-> e.id, proposed |-> e,
                 after |-> elapsed + LoosenDelay, asked |-> real]
           q == CancelFor(ig.pending, e.id)
<1>1. p \in Pending /\ p.asked + elapsed + LoosenDelay <= real + p.after
  <2>1. e.id \in Ids
    BY DEF Ids
  <2> QED
    BY <2>1, QueueTypes DEF Pending
<1>2. q \in Queues /\ Counted(q, elapsed, real)
  BY QueueTypes, CancelForType, CancelThins, CountedThins
<1>3. \/ QueuePush(q, p) = q
      \/ \E k \in 1 .. QueueMax :
           q[k] = None /\ QueuePush(q, p) = [q EXCEPT ![k] = p]
  BY <1>1, <1>2, QueuePushType
<1> HIDE DEF p, q
<1>4. Counted(QueuePush(q, p), elapsed, real)
  BY <1>1, <1>2, <1>3 DEF Counted, Queues
<1> QED
  BY <1>4 DEF Quarantined, p, q

LEMMA DelayStep == TypeOK /\ TypeOK' /\ DelayInv /\ QueueStep => DelayInv'
<1> SUFFICES ASSUME TypeOK, TypeOK', DelayInv, QueueStep PROVE DelayInv'
  OBVIOUS
<1>1. /\ ig.pending \in Queues /\ flash.ig.pending \in Queues
      /\ elapsed \in Nat /\ real \in Nat /\ flash.elapsed \in Nat
  BY QueueTypes
<1>2. /\ flash.elapsed <= elapsed
      /\ Counted(ig.pending, elapsed, real)
      /\ Counted(flash.ig.pending, elapsed, real)
  BY DEF DelayInv
<1>3. CASE QuietStep
  BY <1>2, <1>3, CountedThins DEF QuietStep, SameTime, DelayInv
<1>4. CASE AskStep
  BY <1>2, <1>4, CountedAsks DEF AskStep, SameTime, DelayInv
<1>5. CASE TickStep
  <2>1. /\ Counted(ig.pending, elapsed + 1, real + 1)
        /\ Counted(flash.ig.pending, elapsed + 1, real + 1)
    BY <1>1, <1>2, CountedLater
  <2> QED
    BY <1>1, <1>2, <1>5, <2>1 DEF TickStep, DelayInv
<1>6. CASE BootStep
  <2>1. real' \in Nat /\ real' >= real
    BY <1>6 DEF BootStep
  <2>2. Counted(flash.ig.pending, flash.elapsed, real')
    BY <1>1, <1>2, <2>1, CountedLater
  <2> QED
    BY <1>1, <1>6, <2>2 DEF BootStep, DelayInv
<1> QED
  BY <1>3, <1>4, <1>5, <1>6 DEF QueueStep

LEMMA DelayAlways == Spec => []DelayInv
<1>1. Init => DelayInv
  BY QueueTypes, TypeInit DEF Init, NoIntegrity, DelayInv, Counted
<1>2. TypeOK /\ TypeOK' /\ DelayInv /\ [Next]_vars => DelayInv'
  BY QueueSteps, DelayStep
<1> QED
  BY <1>1, <1>2, TypeCorrect, PTL DEF Spec

\* Twenty-four hours of true time pass between the push that asked for a
\* loosening and any moment at which the promotion would find it due:
\* whenever and however often the device restarts, however long it is off,
\* however stale the elapsed base it restores, whatever the app writes.
THEOREM QuarantineIsServed == Spec => []QuarantineServed
<1>1. TypeOK /\ DelayInv => QuarantineServed
  <2> SUFFICES ASSUME TypeOK, DelayInv, NEW i \in DOMAIN ig.pending,
                      ig.pending[i] # None, elapsed >= ig.pending[i].after
               PROVE  real >= ig.pending[i].asked + LoosenDelay
    BY DEF QuarantineServed
  <2>1. ig.pending[i] \in Pending
    BY QueueTypes DEF Queues
  <2>2. ig.pending[i].asked \in Nat /\ ig.pending[i].after \in Nat
    BY <2>1 DEF Pending
  <2>3. ig.pending[i].asked + elapsed + LoosenDelay <= real + ig.pending[i].after
    BY DEF DelayInv, Counted
  <2> QED
    BY <2>2, <2>3, QueueTypes
<1> QED
  BY <1>1, TypeCorrect, DelayAlways, PTL

-----------------------------------------------------------------------------
(* The promise of Quarantine: every step of Integrity is a step of it, or  *)
(* leaves all it speaks of alone.                                          *)

-----------------------------------------------------------------------------
(* The set of events that an array stands for.  It takes that no two cells *)
(* below the count carry the same UUID.                                    *)

Distinct(s) == \A i, j \in 1 .. s.n : s.ev[i].id = s.ev[j].id => i = j

But(set, id) == {e \in set : e.id # id}

\* An event written in place takes the place of the one with its UUID.
LEMMA BookUpsert ==
  ASSUME NEW s \in Schedules, Filled(s), Distinct(s), NEW e \in Events
  PROVE  /\ Distinct(Upsert(s, e))
         /\ Book(Upsert(s, e)) \in {Book(s), But(Book(s), e.id) \cup {e}}
         /\ HasRoom(s, e.id) =>
              Book(Upsert(s, e)) = But(Book(s), e.id) \cup {e}
<1>0. s.n \in 0 .. MaxEvents /\ MaxEvents \in Nat
      /\ s.ev \in [1 .. MaxEvents -> Events \cup {None}]
  BY IntegrityAssumption DEF Schedules
<1>1. CASE Has(s, e.id)
  <2> DEFINE k == SlotOf(s, e.id)
             t == Upsert(s, e)
  <2>1. k \in 1 .. s.n /\ s.ev[k].id = e.id
    BY <1>1, SlotOfType
  <2>2. t.n = s.n /\ \A i \in 1 .. s.n : t.ev[i] = IF i = k THEN e ELSE s.ev[i]
    BY <1>0, <1>1, <2>1 DEF Upsert, Schedules
  <2> HIDE DEF k, t
  <2>3. Distinct(t)
    BY <2>1, <2>2 DEF Distinct
  <2>4. Book(t) = But(Book(s), e.id) \cup {e}
    BY <2>1, <2>2 DEF Book, But, Distinct
  <2> QED
    BY <2>3, <2>4 DEF t
<1>2. CASE ~Has(s, e.id) /\ s.n < MaxEvents
  <2> DEFINE t == Upsert(s, e)
  <2>1. \A i \in 1 .. s.n : s.ev[i].id # e.id
    BY <1>2 DEF Has, SlotsOf
  <2>2. /\ t.n = s.n + 1 /\ t.ev[s.n + 1] = e
        /\ \A i \in 1 .. s.n : t.ev[i] = s.ev[i]
    BY <1>0, <1>2 DEF Upsert, Schedules
  <2>3. 1 .. t.n = (1 .. s.n) \cup {s.n + 1}
    BY <1>0, <2>2
  <2> HIDE DEF t
  <2>4. Distinct(t)
    BY <1>0, <2>1, <2>2, <2>3 DEF Distinct
  <2>5. Book(t) = Book(s) \cup {e}
    <3>1. Book(t) = {t.ev[i] : i \in 1 .. s.n} \cup {t.ev[s.n + 1]}
      BY <2>3 DEF Book
    <3>2. {t.ev[i] : i \in 1 .. s.n} = Book(s)
      BY <2>2 DEF Book
    <3> QED
      BY <2>2, <3>1, <3>2
  <2>6. But(Book(s), e.id) = Book(s)
    BY <2>1 DEF Book, But
  <2> QED
    BY <2>4, <2>5, <2>6 DEF t
<1>3. CASE ~Has(s, e.id) /\ ~(s.n < MaxEvents)
  BY <1>3 DEF Upsert, HasRoom
<1> QED
  BY <1>1, <1>2, <1>3

\* Deleting an event takes it, and it alone, out of the book.
LEMMA BookDelete ==
  ASSUME NEW s \in Schedules, Filled(s), Distinct(s), NEW id
  PROVE  Distinct(Delete(s, id)) /\ Book(Delete(s, id)) = But(Book(s), id)
<1>0. s.n \in 0 .. MaxEvents /\ MaxEvents \in Nat
      /\ s.ev \in [1 .. MaxEvents -> Events \cup {None}]
  BY IntegrityAssumption DEF Schedules
<1>1. CASE Has(s, id)
  <2> DEFINE k == SlotOf(s, id)
             t == Delete(s, id)
  <2>1. k \in 1 .. s.n /\ s.ev[k].id = id
    BY <1>1, SlotOfType
  <2>2. /\ t.n = s.n - 1
        /\ \A i \in 1 .. s.n - 1 :
             t.ev[i] = IF k <= i THEN s.ev[i + 1] ELSE s.ev[i]
    <3> DEFINE ev == [i \in 1 .. MaxEvents |->
                        IF k <= i /\ i < s.n THEN s.ev[i + 1] ELSE s.ev[i]]
    <3>1. t = [s EXCEPT !.ev = ev, !.n = s.n - 1]
      BY <1>1 DEF Delete
    <3>2. t.n = s.n - 1 /\ t.ev = ev
      BY <3>1 DEF Schedules
    <3> HIDE DEF t
    <3> QED
      BY <1>0, <3>2
  <2> HIDE DEF k, t
  <2>3. Distinct(t)
    <3> DEFINE m(i) == IF k <= i THEN i + 1 ELSE i
    <3>1. \A i \in 1 .. s.n - 1 : m(i) \in 1 .. s.n /\ t.ev[i] = s.ev[m(i)]
      BY <1>0, <2>1, <2>2
    <3>2. \A i, j \in 1 .. s.n - 1 : m(i) = m(j) => i = j
      BY <1>0, <2>1
    <3> HIDE DEF m
    <3> QED
      BY <2>2, <3>1, <3>2 DEF Distinct
  <2>4. ASSUME NEW x \in Book(t) PROVE x \in But(Book(s), id)
    <3>1. PICK i \in 1 .. s.n - 1 : x = IF k <= i THEN s.ev[i + 1] ELSE s.ev[i]
      BY <2>2 DEF Book
    <3>2. PICK j \in 1 .. s.n : x = s.ev[j] /\ j # k
      BY <1>0, <2>1, <3>1
    <3> QED
      BY <2>1, <3>2 DEF Distinct, Book, But
  <2>5. ASSUME NEW x \in But(Book(s), id) PROVE x \in Book(t)
    <3>1. PICK j \in 1 .. s.n : x = s.ev[j] /\ j # k
      BY <2>1 DEF Book, But
    <3>2. CASE j < k
      BY <1>0, <2>1, <2>2, <3>1, <3>2 DEF Book
    <3>3. CASE j > k
      <4>1. j - 1 \in 1 .. s.n - 1 /\ k <= j - 1
        BY <1>0, <2>1, <3>1, <3>3
      <4>2. t.ev[j - 1] = x
        BY <1>0, <2>2, <3>1, <4>1
      <4> QED
        BY <2>2, <4>1, <4>2 DEF Book
    <3> QED
      BY <1>0, <2>1, <3>1, <3>2, <3>3
  <2> QED
    BY <2>3, <2>4, <2>5 DEF t, But
<1>2. CASE ~Has(s, id)
  BY <1>2 DEF Delete, Has, SlotsOf, Book, But
<1> QED
  BY <1>1, <1>2

\* A save keeps the cells below the count.
LEMMA BookStored ==
  ASSUME NEW s \in Schedules, Distinct(s)
  PROVE  Distinct(Stored(s)) /\ Book(Stored(s)) = Book(s)
<1>1. /\ Stored(s).n = s.n /\ s.n \in 0 .. MaxEvents /\ MaxEvents \in Nat
      /\ \A i \in 1 .. s.n : Stored(s).ev[i] = s.ev[i]
  BY IntegrityAssumption DEF Stored, Schedules
<1> HIDE DEF Stored
<1> QED
  BY <1>1 DEF Distinct, Book

-----------------------------------------------------------------------------
(* The set of requests that a queue stands for.                            *)

LEMMA RequestsCancelled ==
  ASSUME NEW q \in Queues, NEW id
  PROVE  Requests(CancelFor(q, id)) = {r \in Requests(q) : r.target # id}
<1> DEFINE c == CancelFor(q, id)
<1>1. /\ DOMAIN c = 1 .. QueueMax /\ DOMAIN q = 1 .. QueueMax
      /\ \A i \in 1 .. QueueMax :
           c[i] = IF q[i] # None /\ q[i].target = id THEN None ELSE q[i]
  BY DEF CancelFor, Queues
<1>2. \A i \in 1 .. QueueMax : Request(q[i]).target = q[i].target
  BY DEF Request
<1> HIDE DEF c
<1> QED
  BY <1>1, <1>2 DEF Requests, c

LEMMA RequestsPushed ==
  ASSUME NEW q \in Queues, NEW p \in Pending
  PROVE  Requests(QueuePush(q, p)) \in {Requests(q), Requests(q) \cup {Request(p)}}
<1>2. CASE QueuePush(q, p) = q
  BY <1>2
<1>3. ASSUME NEW k \in 1 .. QueueMax, q[k] = None,
             QueuePush(q, p) = [q EXCEPT ![k] = p]
      PROVE  Requests(QueuePush(q, p)) \in
               {Requests(q), Requests(q) \cup {Request(p)}}
  <2> DEFINE c == [q EXCEPT ![k] = p]
  <2>1. /\ DOMAIN c = 1 .. QueueMax /\ DOMAIN q = 1 .. QueueMax
        /\ \A i \in 1 .. QueueMax : c[i] = IF i = k THEN p ELSE q[i]
    BY DEF Queues
  <2> HIDE DEF c
  <2>2. p = None => Requests(c) = Requests(q)
    BY <1>3, <2>1 DEF Requests
  <2>3. p # None => Requests(c) = Requests(q) \cup {Request(p)}
    BY <1>3, <2>1 DEF Requests
  <2> QED
    BY <1>3, <2>2, <2>3 DEF c
<1> QED
  BY <1>2, <1>3, QueuePushType

LEMMA RequestsCleared ==
  ASSUME NEW q \in Queues, OnePending(q), NEW k \in 1 .. QueueMax, q[k] # None
  PROVE  Requests([q EXCEPT ![k] = None]) = Requests(q) \ {Request(q[k])}
<1> DEFINE c == [q EXCEPT ![k] = None]
<1>1. /\ DOMAIN c = 1 .. QueueMax /\ DOMAIN q = 1 .. QueueMax
      /\ \A i \in 1 .. QueueMax : c[i] = IF i = k THEN None ELSE q[i]
  BY DEF Queues
<1>2. \A i \in 1 .. QueueMax : Request(q[i]).target = q[i].target
  BY DEF Request
<1>3. \A i \in 1 .. QueueMax :
        q[i] # None /\ Request(q[i]) = Request(q[k]) => i = k
  BY <1>1, <1>2 DEF OnePending
<1> HIDE DEF c
<1> QED
  BY <1>1, <1>3 DEF Requests, c

-----------------------------------------------------------------------------
(* Steps.                                                                  *)

DistinctInv == Distinct(sched) /\ Distinct(flash.sched)

PromiseStep == [Promise!Next]_(Promise!vars)

\* What the promise speaks of.
Starting == job.at = "promote"

Kept == UNCHANGED <<Book(flash.sched), Requests(flash.ig.pending)>>

LEMMA PromiseStutters ==
  ASSUME UNCHANGED <<sched.ev, sched.n, ig.pending, real>>, Kept,
         Starting' <=> Starting
  PROVE  PromiseStep
<1>1. UNCHANGED <<Book(sched), Requests(ig.pending)>>
  BY DEF Book
<1>2. UNCHANGED (job.at # "promote")
  BY DEF Starting
<1> QED
  BY <1>1, <1>2 DEF PromiseStep, Promise!vars, Kept

LEMMA PromiseSets ==
  ASSUME NEW e \in Events, ~Starting, ~Starting', Kept, real' = real,
         Book(sched)' \in {But(Book(sched), e.id), But(Book(sched), e.id) \cup {e}},
         Requests(ig.pending)' = {r \in Requests(ig.pending) : r.target # e.id}
  PROVE  PromiseStep
<1>1. CASE Book(sched)' = But(Book(sched), e.id)
  <2>1. Promise!Clear(e)
    BY <1>1 DEF Promise!Clear, Promise!But, Promise!Withdrawn, But, Starting, Kept
  <2> QED
    BY <2>1 DEF PromiseStep, Promise!Next
<1>2. CASE Book(sched)' = But(Book(sched), e.id) \cup {e}
  <2>1. Promise!Set(e)
    BY <1>2 DEF Promise!Set, Promise!Put, Promise!But, Promise!Withdrawn, But,
                Starting, Kept
  <2> QED
    BY <2>1 DEF PromiseStep, Promise!Next
<1> QED
  BY <1>1, <1>2

LEMMA PromiseAsks ==
  ASSUME TypeOK, NEW e \in Events, NEW kind \in {"upsert", "delete"},
         ~Starting, ~Starting', Kept, UNCHANGED <<sched, real>>,
         ig'.pending = Quarantined(kind, e)
  PROVE  PromiseStep
<1> DEFINE p == [kind |-> kind, target |-> e.id, proposed |-> e,
                 after |-> elapsed + LoosenDelay, asked |-> real]
           q == CancelFor(ig.pending, e.id)
<1>1. p \in Pending
  <2>1. e.id \in Ids
    BY DEF Ids
  <2> QED
    BY <2>1, QueueTypes DEF Pending
<1>2. q \in Queues /\ Requests(q) = {r \in Requests(ig.pending) : r.target # e.id}
  BY QueueTypes, CancelForType, RequestsCancelled
<1>3. Request(p) = [kind |-> kind, target |-> e.id, proposed |-> e, asked |-> real]
  BY DEF Request
<1>4. Quarantined(kind, e) = QueuePush(q, p)
  BY DEF Quarantined
<1> HIDE DEF p, q
<1>5. Requests(ig.pending)' \in {Requests(q), Requests(q) \cup {Request(p)}}
  BY <1>1, <1>2, <1>4, RequestsPushed
<1>6. Promise!Ask(kind, e)
  BY <1>2, <1>3, <1>5 DEF Promise!Ask, Promise!Withdrawn, Starting, Kept
<1> QED
  BY <1>6 DEF PromiseStep, Promise!Next, Promise!Kinds

PromiseInv == TypeOK /\ OnePendingPerEvent /\ QuarantineServed /\ DistinctInv

\* An iteration of a loop keeps UUIDs apart, and is a step of the promise.
LEMMA PromiseDeleteStep ==
  PromiseInv /\ DeleteStep => PromiseStep /\ DistinctInv'
<1> SUFFICES ASSUME PromiseInv, DeleteStep PROVE PromiseStep /\ DistinctInv'
  OBVIOUS
<1> DEFINE e == sched.ev[job.i]
<1>1. e \in Events
  <2>1. job.at = "delete" /\ job.i > 0 /\ job.i \in Nat /\ job.i <= sched.n
    BY DEF DeleteStep, PromiseInv, TypeOK, JobOK, Jobs
  <2>2. sched.n \in Nat
    BY ConstantTypes DEF PromiseInv, TypeOK, Schedules
  <2> QED
    BY <2>1, <2>2 DEF PromiseInv, TypeOK, Filled
<1>2. UNCHANGED <<real, flash>> /\ Kept
  BY DEF DeleteStep, clocks, Kept
<1>3. /\ IsIntegrity(ig) /\ ig.pending \in Queues /\ TypeOK
      /\ sched \in Schedules /\ Filled(sched)
      /\ Distinct(sched) /\ Distinct(flash.sched)
  BY IntegrityParts DEF PromiseInv, TypeOK, DistinctInv
<1>4. ~Starting /\ ~Starting'
  BY DEF DeleteStep, PromiseInv, TypeOK, JobOK, Jobs, Starting
<1> HIDE DEF e
<1>5. CASE UNCHANGED <<sched, ig>>
  <2>1. PromiseStep
    BY <1>2, <1>4, <1>5, PromiseStutters
  <2> QED
    BY <1>2, <1>3, <1>5, <2>1 DEF DistinctInv
<1>6. CASE /\ sched' = Delete(sched, e.id)
           /\ ig' = [ig EXCEPT !.settle = NoteEdit(@, e.id, elapsed),
                               !.pending = CancelFor(@, e.id)]
  <2>1. ig'.pending = CancelFor(ig.pending, e.id)
    BY <1>3, <1>6 DEF IsIntegrity
  <2>2. Distinct(sched') /\ Book(sched)' = But(Book(sched), e.id)
    BY <1>3, <1>6, BookDelete
  <2>3. Requests(ig.pending)' = {r \in Requests(ig.pending) : r.target # e.id}
    BY <1>3, <2>1, RequestsCancelled
  <2>4. PromiseStep
    BY <1>1, <1>2, <1>4, <2>2, <2>3, PromiseSets
  <2> QED
    BY <1>2, <1>3, <2>2, <2>4 DEF DistinctInv
<1>7. CASE /\ ig' = [ig EXCEPT !.pending = Quarantined("delete", e)]
           /\ UNCHANGED sched
  <2>1. ig'.pending = Quarantined("delete", e)
    BY <1>3, <1>7 DEF IsIntegrity
  <2>2. PromiseStep
    BY <1>1, <1>2, <1>3, <1>4, <1>7, <2>1, PromiseAsks
  <2> QED
    BY <1>2, <1>3, <1>7, <2>2 DEF DistinctInv
<1> QED
  BY <1>5, <1>6, <1>7 DEF DeleteStep, e

LEMMA PromiseUpsertStep ==
  PromiseInv /\ UpsertStep => PromiseStep /\ DistinctInv'
<1> SUFFICES ASSUME PromiseInv, UpsertStep PROVE PromiseStep /\ DistinctInv'
  OBVIOUS
<1> DEFINE e == job.prop[job.i]
<1>1. e \in Events
  <2>1. /\ job.at = "upsert" /\ job.i \in Nat /\ job.i >= 1
        /\ job.i <= Len(job.prop) /\ job.prop \in Seq(Events)
    BY DEF UpsertStep, PromiseInv, TypeOK, JobOK, Jobs
  <2> QED
    BY <2>1
<1>2. UNCHANGED <<real, flash>> /\ Kept
  BY DEF UpsertStep, clocks, Kept
<1>3. /\ IsIntegrity(ig) /\ ig.pending \in Queues /\ TypeOK
      /\ sched \in Schedules /\ Filled(sched)
      /\ Distinct(sched) /\ Distinct(flash.sched)
  BY IntegrityParts DEF PromiseInv, TypeOK, DistinctInv
<1>4. ~Starting /\ ~Starting'
  BY DEF UpsertStep, PromiseInv, TypeOK, JobOK, Jobs, Starting
<1> HIDE DEF e
<1>5. CASE UNCHANGED <<sched, ig>>
  <2>1. PromiseStep
    BY <1>2, <1>4, <1>5, PromiseStutters
  <2> QED
    BY <1>2, <1>3, <1>5, <2>1 DEF DistinctInv
<1>6. CASE /\ HasRoom(sched, e.id) /\ sched' = Upsert(sched, e)
           /\ ig' = [ig EXCEPT !.settle = NoteEdit(@, e.id, elapsed),
                               !.pending = CancelFor(@, e.id)]
  <2>1. ig'.pending = CancelFor(ig.pending, e.id)
    BY <1>3, <1>6 DEF IsIntegrity
  <2>2. Distinct(sched') /\ Book(sched)' = But(Book(sched), e.id) \cup {e}
    BY <1>1, <1>3, <1>6, BookUpsert
  <2>3. Requests(ig.pending)' = {r \in Requests(ig.pending) : r.target # e.id}
    BY <1>3, <2>1, RequestsCancelled
  <2>4. PromiseStep
    BY <1>1, <1>2, <1>4, <2>2, <2>3, PromiseSets
  <2> QED
    BY <1>2, <1>3, <2>2, <2>4 DEF DistinctInv
<1>7. CASE /\ ig' = [ig EXCEPT !.pending = Quarantined("upsert", e)]
           /\ UNCHANGED sched
  <2>1. ig'.pending = Quarantined("upsert", e)
    BY <1>3, <1>7 DEF IsIntegrity
  <2>2. PromiseStep
    BY <1>1, <1>2, <1>3, <1>4, <1>7, <2>1, PromiseAsks
  <2> QED
    BY <1>2, <1>3, <1>7, <2>2 DEF DistinctInv
<1> QED
  BY <1>5, <1>6, <1>7 DEF UpsertStep, e

\* A promotion grants a request, which QuarantineServed says has waited.
LEMMA PromisePromoteStep ==
  PromiseInv /\ PromoteStep => PromiseStep /\ DistinctInv'
<1> SUFFICES ASSUME PromiseInv, PromoteStep PROVE PromiseStep /\ DistinctInv'
  OBVIOUS
<1> DEFINE p == ig.pending[job.i]
           cleared == [ig.pending EXCEPT ![job.i] = None]
<1>1. job.at = "promote" /\ job.i \in 1 .. QueueMax /\ Starting /\ Starting'
  <2>1. job \in Jobs /\ job.at = "promote" /\ job.i \in 1 .. QueueMax
    BY ConstantTypes DEF PromiseInv, TypeOK, JobOK, Jobs, PromoteStep
  <2>2. \/ job' = [job EXCEPT !.i = @ + 1]
        \/ job' = [[job EXCEPT !.i = @ + 1] EXCEPT !.mark = TRUE]
    BY Zenon DEF PromoteStep
  <2> QED
    BY <2>1, <2>2 DEF Jobs, Starting
<1>2. UNCHANGED <<real, flash>> /\ Kept
  BY DEF PromoteStep, clocks, Kept
<1>3. /\ IsIntegrity(ig) /\ ig.pending \in Queues
      /\ sched \in Schedules /\ Filled(sched)
      /\ Distinct(sched) /\ Distinct(flash.sched) /\ OnePending(ig.pending)
  BY IntegrityParts DEF PromiseInv, TypeOK, DistinctInv, OnePendingPerEvent
<1>4. CASE UNCHANGED <<sched, ig>>
  <2>1. PromiseStep
    BY <1>1, <1>2, <1>4, PromiseStutters
  <2> QED
    BY <1>2, <1>3, <1>4, <2>1 DEF DistinctInv
<1>5. CASE /\ Due(p) /\ ig'.pending = cleared
           /\ sched' \in {sched, IF p.kind = "delete" THEN Delete(sched, p.target)
                                 ELSE Upsert(sched, p.proposed)}
  <2>1. p # None /\ real >= p.asked + LoosenDelay
    BY <1>1, <1>3, <1>5 DEF Due, PromiseInv, QuarantineServed, Queues
  <2>2. p \in Pending
    BY <1>1, <1>3, <2>1 DEF Queues
  <2>3. /\ p.proposed \in Events /\ p.kind \in {"upsert", "delete"}
        /\ Request(p).kind = p.kind /\ Request(p).target = p.target
        /\ Request(p).proposed = p.proposed /\ Request(p).asked = p.asked
    BY <2>2 DEF Pending, Request
  <2>4. Requests(ig.pending)' = Requests(ig.pending) \ {Request(p)}
    BY <1>1, <1>3, <1>5, <2>1, RequestsCleared
  <2>5. Request(p) \in Requests(ig.pending)
    BY <1>1, <1>3, <2>1 DEF Requests, Queues
  <2>6. /\ Distinct(sched')
        /\ Book(sched)' \in {Book(sched), IF p.kind = "delete"
                                          THEN But(Book(sched), p.target)
                                          ELSE But(Book(sched), p.proposed.id)
                                                 \cup {p.proposed}}
    <3>1. CASE sched' = sched
      BY <1>3, <3>1
    <3>2. CASE p.kind = "delete" /\ sched' = Delete(sched, p.target)
      BY <1>3, <3>2, BookDelete
    <3>3. CASE p.kind # "delete" /\ sched' = Upsert(sched, p.proposed)
      BY <1>3, <2>3, <3>3, BookUpsert
    <3> QED
      BY <1>5, <3>1, <3>2, <3>3
  <2> HIDE DEF p, cleared
  <2>7. Promise!Grant(Request(p))
    BY <1>1, <1>2, <2>1, <2>3, <2>4, <2>6
    DEF Promise!Grant, Promise!Put, Promise!But, But, Starting, Kept
  <2>8. PromiseStep
    BY <2>5, <2>7 DEF PromiseStep, Promise!Next
  <2> QED
    BY <1>2, <1>3, <2>6, <2>8 DEF DistinctInv
<1>6. CASE /\ Due(p) /\ UNCHANGED sched
           /\ ig' = [ig EXCEPT !.pending = cleared]
  BY <1>3, <1>5, <1>6 DEF IsIntegrity
<1>7. CASE /\ Due(p)
           /\ sched' = IF p.kind = "delete" THEN Delete(sched, p.target)
                       ELSE Upsert(sched, p.proposed)
           /\ ig' = [ig EXCEPT !.pending = cleared,
                               !.settle = NoteEdit(@, p.target, elapsed)]
  BY <1>3, <1>5, <1>7 DEF IsIntegrity
<1> HIDE DEF p, cleared
<1> QED
  BY <1>4, <1>6, <1>7 DEF PromoteStep, Due, p, cleared

\* A pass excuses.
LEMMA PromisePass ==
  ASSUME PromiseInv, NEW id \in Ids, NEW day \in PassDays, SpendPass(id, day)
  PROVE  PromiseStep /\ DistinctInv'
<1> DEFINE e == NegateOf(Find(sched, id), day)
<1>1. /\ UNCHANGED <<real, flash>> /\ Kept /\ ~Starting
      /\ sched \in Schedules /\ Filled(sched)
      /\ Distinct(sched) /\ Distinct(flash.sched)
  BY DEF SpendPass, Write, Kept, Starting, PromiseInv, TypeOK, DistinctInv
<1>2. PICK log : ig' = [ig EXCEPT !.spends = log]
  BY DEF SpendPass
<1>3. ig'.pending = ig.pending
  BY <1>2 DEF PromiseInv, TypeOK, IsIntegrity
<1>4. CASE UNCHANGED <<sched, job>>
  <2>1. PromiseStep
    BY <1>1, <1>3, <1>4, PromiseStutters DEF Starting
  <2> QED
    BY <1>1, <1>4, <2>1 DEF DistinctInv
<1>5. CASE /\ Has(sched, id) /\ sched' = Upsert(sched, e)
           /\ job' = [Save EXCEPT !.pass = TRUE]
  <2>1. Find(sched, id) \in Events /\ Find(sched, id).id = id
    BY <1>1, <1>5, FindType
  <2>2. e \in Events /\ e.id = id /\ e.negate
    BY <2>1, IntegrityAssumption
  <2> HIDE DEF e
  <2>3. /\ Distinct(sched')
        /\ Book(sched)' = But(Book(sched), id) \cup {e}
    BY <1>1, <1>5, <2>2, BookUpsert DEF HasRoom
  <2>4. But(Book(sched), id) # Book(sched)
    BY <1>1, <1>5, SlotOfType DEF But, Book
  <2>5. ~Starting'
    BY <1>5 DEF Starting, Save, Idle
  <2>6. Promise!Excuse(e)
    BY <1>1, <1>3, <2>2, <2>3, <2>4, <2>5
    DEF Promise!Excuse, Promise!Put, Promise!But, But, Starting, Kept
  <2>7. PromiseStep
    BY <2>2, <2>6 DEF PromiseStep, Promise!Next
  <2> QED
    BY <1>1, <2>3, <2>7 DEF DistinctInv
<1> QED
  BY <1>4, <1>5 DEF SpendPass

LEMMA PromiseSaves ==
  PromiseInv /\ (SaveSchedule \/ SaveIntegrity) => PromiseStep /\ DistinctInv'
<1> SUFFICES ASSUME PromiseInv, SaveSchedule \/ SaveIntegrity
             PROVE  PromiseStep /\ DistinctInv'
  OBVIOUS
<1>1. /\ UNCHANGED <<sched, ig, real>> /\ ~Starting /\ sched \in Schedules
      /\ Distinct(sched) /\ Distinct(flash.sched)
  BY DEF SaveSchedule, SaveIntegrity, Starting, clocks, PromiseInv, TypeOK,
         DistinctInv
<1>2. ~Starting'
  BY DEF SaveSchedule, SaveIntegrity, Starting, Idle, PromiseInv, TypeOK, JobOK,
         Jobs
<1>3. CASE SaveSchedule
  <2>1. flash'.sched = Stored(sched) /\ flash'.ig = flash.ig
    BY <1>3 DEF SaveSchedule, PromiseInv, TypeOK
  <2>2. Distinct(flash'.sched) /\ Book(flash.sched)' = Book(sched)
    BY <1>1, <2>1, BookStored
  <2>3. Promise!KeepBook
    BY <1>1, <1>2, <2>1, <2>2 DEF Promise!KeepBook, Starting
  <2>4. PromiseStep
    BY <2>3 DEF PromiseStep, Promise!Next
  <2> QED
    BY <1>1, <2>2, <2>4 DEF DistinctInv
<1>4. CASE SaveIntegrity
  <2>1. flash'.sched = flash.sched /\ flash'.ig = ig
    BY <1>4 DEF SaveIntegrity, PromiseInv, TypeOK
  <2>2. Promise!KeepRequests
    BY <1>1, <1>2, <2>1 DEF Promise!KeepRequests, Starting
  <2>3. PromiseStep
    BY <2>2 DEF PromiseStep, Promise!Next
  <2> QED
    BY <1>1, <2>1, <2>3 DEF DistinctInv
<1> QED
  BY <1>3, <1>4

\* A boot goes back to what was saved, whatever the handler it cut short.
LEMMA PromiseBoot ==
  ASSUME PromiseInv, NEW off \in OffTimes, Boot(off)
  PROVE  PromiseStep /\ DistinctInv'
<1>1. ig'.pending = flash.ig.pending
  BY DEF Boot, PromiseInv, TypeOK, IsIntegrity
<1>2. off \in Nat /\ real \in Nat
  BY IntegrityAssumption DEF PromiseInv, TypeOK
<1>3. real' \in Nat /\ real' >= real
  BY <1>2 DEF Boot
<1>4. /\ sched' = flash.sched /\ Kept /\ Starting' /\ UNCHANGED flash
      /\ Distinct(flash.sched)
  BY DEF Boot, Kept, Starting, Idle, PromiseInv, DistinctInv
<1>5. Promise!Stop
  BY <1>1, <1>3, <1>4 DEF Promise!Stop, Starting, Kept
<1>6. PromiseStep
  BY <1>5 DEF PromiseStep, Promise!Next
<1> QED
  BY <1>4, <1>6 DEF DistinctInv

LEMMA PromiseTick == PromiseInv /\ Tick => PromiseStep /\ DistinctInv'
<1> SUFFICES ASSUME PromiseInv, Tick PROVE PromiseStep /\ DistinctInv'
  OBVIOUS
<1>1. /\ flash'.sched = flash.sched /\ flash'.ig = flash.ig
      /\ UNCHANGED <<sched, ig, job>> /\ Distinct(sched) /\ Distinct(flash.sched)
  BY DEF Tick, PromiseInv, TypeOK, DistinctInv
<1>2. real' \in Nat /\ real' > real
  BY DEF Tick, PromiseInv, TypeOK
<1>3. Promise!Elapse
  BY <1>1, <1>2 DEF Promise!Elapse
<1>4. PromiseStep
  BY <1>3 DEF PromiseStep, Promise!Next
<1> QED
  BY <1>1, <1>4 DEF DistinctInv

LEMMA PromiseStarts == PromiseInv /\ PromotionDone => PromiseStep /\ DistinctInv'
<1> SUFFICES ASSUME PromiseInv, PromotionDone PROVE PromiseStep /\ DistinctInv'
  OBVIOUS
<1>1. UNCHANGED <<sched, ig, real, flash>> /\ ~Starting' /\ DistinctInv
  BY DEF PromotionDone, clocks, Starting, Save, Idle, PromiseInv
<1>2. Promise!Start
  BY <1>1 DEF Promise!Start, Starting
<1>3. PromiseStep
  BY <1>2 DEF PromiseStep, Promise!Next
<1> QED
  BY <1>1, <1>3 DEF DistinctInv

\* The rest leaves the schedule and the queue alone.
LEMMA PromiseQuiet ==
  ASSUME PromiseInv, UNCHANGED <<sched.ev, sched.n, real, flash.sched, flash.ig>>,
         ig'.pending = ig.pending, Starting' <=> Starting
  PROVE  PromiseStep /\ DistinctInv'
<1>1. PromiseStep
  BY PromiseStutters DEF Kept
<1> QED
  BY <1>1 DEF PromiseInv, DistinctInv, Distinct

LEMMA PromiseSteps == PromiseInv /\ [Next]_vars => PromiseStep /\ DistinctInv'
<1> SUFFICES ASSUME PromiseInv, [Next]_vars PROVE PromiseStep /\ DistinctInv'
  OBVIOUS
<1>0. job \in Jobs /\ IsIntegrity(ig) /\ sched \in Schedules
      /\ flash \in [sched : Schedules, ig : {flash.ig}, elapsed : Nat, tz : Int]
  BY DEF PromiseInv, TypeOK, JobOK
<1>1. CASE UNCHANGED vars \/ Refresh
  BY <1>1, PromiseQuiet DEF vars, Refresh, clocks, Starting
<1>2. CASE DeletionsDone
  BY <1>0, <1>2, PromiseQuiet DEF DeletionsDone, clocks, Starting, Jobs
<1>3. CASE EndPush
  <2>1. sched'.ev = sched.ev /\ sched'.n = sched.n
    BY <1>0, <1>3 DEF EndPush, Schedules
  <2> QED
    BY <1>0, <1>3, <2>1, PromiseQuiet DEF EndPush, clocks, Starting, Jobs
<1>4. ASSUME NEW p \in Proposals, BeginPush(p)
      PROVE  PromiseStep /\ DistinctInv'
  <2>1. ig'.pending = ig.pending
    BY <1>0, <1>4 DEF BeginPush, IsIntegrity
  <2> QED
    BY <1>4, <2>1, PromiseQuiet DEF BeginPush, Write, Starting, Idle
<1>5. ASSUME NEW a \in Allowances, SetAllowance(a)
      PROVE  PromiseStep /\ DistinctInv'
  <2>1. ig'.pending = ig.pending
    BY <1>0, <1>5 DEF SetAllowance, IsIntegrity
  <2> QED
    BY <1>5, <2>1, PromiseQuiet DEF SetAllowance, Write, Starting, Idle
<1>6. ASSUME NEW w \in ClockWrites, SetTime(w[1], w[2])
      PROVE  PromiseStep /\ DistinctInv'
  <2>1. flash'.ig = flash.ig /\ flash'.sched = flash.sched
    BY <1>0, <1>6 DEF SetTime
  <2> QED
    BY <1>6, <2>1, PromiseQuiet DEF SetTime, Write, Starting
<1>7. ASSUME NEW w \in ClockWrites, NEW s \in SettleWindows,
             ApplySettings(w[2], s)
      PROVE  PromiseStep /\ DistinctInv'
  <2>1. PICK win : ig' = [ig EXCEPT !.win = win]
    BY <1>7 DEF ApplySettings
  <2>2. ig'.pending = ig.pending
    BY <1>0, <2>1 DEF IsIntegrity
  <2>3. flash'.ig = flash.ig /\ flash'.sched = flash.sched
    BY <1>0, <1>7 DEF ApplySettings
  <2> QED
    BY <1>7, <2>2, <2>3, PromiseQuiet DEF ApplySettings, Write, Starting, Idle
<1> QED
  BY <1>1, <1>2, <1>3, <1>4, <1>5, <1>6, <1>7, PromiseDeleteStep,
     PromiseUpsertStep, PromisePromoteStep, PromisePass, PromiseSaves,
     PromiseBoot, PromiseTick, PromiseStarts
  DEF Next, Handler

LEMMA PromiseInvAlways == Spec => []PromiseInv
<1>1. Init => DistinctInv
  <2>1. NoSchedule.n = 0 /\ 1 .. 0 = {}
    BY DEF NoSchedule
  <2> QED
    BY <2>1 DEF Init, DistinctInv, Distinct
<1>2. TypeOK /\ OnePendingPerEvent /\ QuarantineServed /\ DistinctInv
        /\ [Next]_vars
        => DistinctInv'
  BY PromiseSteps DEF PromiseInv
<1> QED
  BY <1>1, <1>2, TypeCorrect, OnePendingAlways, QuarantineIsServed, PTL
  DEF Spec, PromiseInv

\* The program implements the promise, for every set of events, queue length,
\* delay, push and reboot: without the app, the schedule it enforces changes
\* only by going back to what was saved and by granting requests that have
\* waited for LoosenDelay of true time and were not replaced since.
THEOREM PromiseIsKept == Spec => PromiseKept
<1>1. Init => Promise!Init
  <2> SUFFICES ASSUME Init PROVE Promise!Init
    OBVIOUS
  <2>1. /\ sched = NoSchedule /\ flash.sched = NoSchedule
        /\ ig.pending = [i \in 1 .. QueueMax |-> None]
        /\ flash.ig.pending = [i \in 1 .. QueueMax |-> None]
        /\ job.at = "idle" /\ real = 0
    BY DEF Init, NoIntegrity, Idle
  <2>2. NoSchedule.n = 0 /\ 1 .. 0 = {}
    BY DEF NoSchedule
  <2>3. Book(sched) = {} /\ Book(flash.sched) = {}
    BY <2>1, <2>2 DEF Book
  <2>4. Requests(ig.pending) = {} /\ Requests(flash.ig.pending) = {}
    BY <2>1 DEF Requests
  <2> QED
    BY <2>1, <2>3, <2>4 DEF Promise!Init
<1>2. PromiseInv /\ [Next]_vars => [Promise!Next]_(Promise!vars)
  BY PromiseSteps DEF PromiseStep
<1> QED
  BY <1>1, <1>2, PromiseInvAlways, PTL DEF Spec, PromiseKept, Promise!Spec

-----------------------------------------------------------------------------
(* The handlers, from the write of the app to the last save.               *)

\* What a lookup finds is the event of the book with that UUID.
LEMMA FindBook ==
  ASSUME NEW s \in Schedules, Filled(s), Distinct(s), NEW e \in Book(s)
  PROVE  Has(s, e.id) /\ Find(s, e.id) = e
<1>1. PICK i \in 1 .. s.n : e = s.ev[i]
  BY DEF Book
<1>2. Has(s, e.id)
  BY <1>1 DEF Has, SlotsOf
<1>3. SlotOf(s, e.id) = i
  BY <1>1, <1>2, SlotOfType DEF Distinct
<1> QED
  BY <1>1, <1>2, <1>3 DEF Find

LEMMA BookFind ==
  ASSUME NEW s \in Schedules, Filled(s), NEW id, Has(s, id)
  PROVE  Find(s, id) \in Book(s) /\ Find(s, id).id = id
BY SlotOfType DEF Find, Book

\* In the steps below: what PromiseInv says of the schedule and the records.
LEMMA HandlerTypes ==
  ASSUME PromiseInv
  PROVE  /\ TypeOK /\ IsIntegrity(ig) /\ IsSettleTable(ig.settle)
         /\ IsIntegrity(flash.ig) /\ IsSettleTable(flash.ig.settle)
         /\ sched \in Schedules /\ Filled(sched) /\ Distinct(sched)
         /\ flash.sched \in Schedules /\ Filled(flash.sched)
         /\ Distinct(flash.sched)
         /\ sched.n \in Nat /\ job \in Jobs /\ job.i \in Nat
         /\ flash \in [sched : Schedules, ig : {flash.ig}, elapsed : Nat, tz : Int]
<1>1. /\ TypeOK /\ Distinct(sched) /\ Distinct(flash.sched)
  BY DEF PromiseInv, DistinctInv
<1>2. /\ IsIntegrity(ig) /\ IsIntegrity(flash.ig)
      /\ sched \in Schedules /\ Filled(sched) /\ Filled(flash.sched)
      /\ job \in Jobs
      /\ flash \in [sched : Schedules, ig : {flash.ig}, elapsed : Nat, tz : Int]
  BY <1>1 DEF TypeOK, JobOK
<1>3. flash.sched \in Schedules /\ job.i \in Nat /\ sched.n \in Nat
  BY <1>2, ConstantTypes DEF Jobs, Schedules
<1> QED
  BY <1>1, <1>2, <1>3, IntegrityParts

LEMMA DeletedEvent ==
  ASSUME PromiseInv, DeleteStep
  PROVE  /\ job.i \in 1 .. sched.n
         /\ sched.ev[job.i] \in Book(sched) /\ sched.ev[job.i] \in Events
         /\ sched.ev[job.i].id \in Ids
<1>1. job.i \in 1 .. sched.n
  BY HandlerTypes DEF DeleteStep, TypeOK, JobOK
<1> QED
  BY <1>1, HandlerTypes DEF Book, Filled, Ids

LEMMA ProposedEvent ==
  ASSUME PromiseInv, UpsertStep
  PROVE  /\ job.i \in 1 .. Len(job.prop) /\ job.prop \in Seq(Events)
         /\ job.prop[job.i] \in Events /\ job.prop[job.i].id \in Ids
<1>1. /\ job.i \in Nat /\ job.i >= 1
      /\ job.i <= Len(job.prop) /\ job.prop \in Seq(Events)
  BY HandlerTypes DEF UpsertStep, TypeOK, JobOK, Jobs
<1> QED
  BY <1>1 DEF Ids

-----------------------------------------------------------------------------
(* Settled baselines.                                                      *)

\* Where a record of `st' has a baseline, it is the event of the book, unless
\* that was negated by a pass.
BasedOn(book, st) ==
  \A e \in book : e.id \in DOMAIN st /\ st[e.id].has =>
                    e = st[e.id].base \/ e.negate

\* The schedule in flash is the one in RAM.
InStep == \/ job.at \in {"idle", "saveInteg"}
          \/ job.at = "promote" /\ ~job.mark

\* Between the two saves of a handler the records in flash are behind.
BaselineInv ==
  /\ InStep => Book(flash.sched) = Book(sched)
  /\ ~torn => BasedOn(Book(sched), ig.settle)
  /\ ~torn /\ job.at # "saveInteg" => BasedOn(Book(flash.sched), flash.ig.settle)

\* An edit clears the baseline of its event, or the event has no record.
LEMMA BasedEdit ==
  ASSUME NEW st, IsSettleTable(st), NEW id \in Ids, NEW now,
         NEW book, NEW book2, BasedOn(book, st),
         \A e \in book2 : e \in book \/ e.id = id
  PROVE  BasedOn(book2, NoteEdit(st, id, now))
<1> DEFINE r == NoteEdit(st, id, now)
<1>1. /\ id \in DOMAIN r => ~r[id].has
      /\ \A x \in DOMAIN r : x # id => x \in DOMAIN st /\ r[x] = st[x]
  <2>1. CASE id \in DOMAIN st
    <3> DEFINE c == [st[id] EXCEPT !.edit = now, !.has = FALSE]
    <3>1. c.has = FALSE
      BY <2>1 DEF IsSettleTable, Settle
    <3>2. r = [st EXCEPT ![id] = c]
      BY <2>1 DEF NoteEdit
    <3> HIDE DEF c
    <3> QED
      BY <2>1, <3>1, <3>2 DEF IsSettleTable
  <2>2. CASE id \notin DOMAIN st
    BY <2>2 DEF NoteEdit
  <2> QED
    BY <2>1, <2>2
<1> HIDE DEF r
<1> QED
  BY <1>1 DEF BasedOn, r

\* A baseline that is set is the event as the schedule has it.
LEMMA BasedSeal ==
  ASSUME NEW st, NEW s \in Schedules, Filled(s), Distinct(s), NEW now,
         BasedOn(Book(s), st)
  PROVE  BasedOn(Book(s), SealUnknown(st, s, now))
<1> DEFINE r == SealUnknown(st, s, now)
<1>1. \A x \in DOMAIN r :
        IF x \in DOMAIN st THEN r[x] = st[x] ELSE r[x].base = Find(s, x)
  BY DEF SealUnknown
<1> HIDE DEF r
<1> QED
  BY <1>1, FindBook DEF BasedOn, r

LEMMA BasedSettle ==
  ASSUME NEW st, IsSettleTable(st), NEW s \in Schedules, Filled(s), Distinct(s),
         NEW win, NEW now, BasedOn(Book(s), st)
  PROVE  BasedOn(Book(s), SettleTick(st, s, win, now))
<1> DEFINE r == SettleTick(st, s, win, now)
<1>1. DOMAIN r = DOMAIN st
  BY DEF SettleTick
<1>2. ASSUME NEW x \in DOMAIN st
      PROVE  r[x] = st[x] \/ r[x].base = Find(s, x)
  BY <1>2 DEF SettleTick, IsSettleTable, Settle
<1> HIDE DEF r
<1> QED
  BY <1>1, <1>2, FindBook DEF BasedOn, r

\* A step of a loop: the baselines in RAM are kept up, flash is left alone.
LEMMA BaselineLoop ==
  ASSUME BaselineInv, UNCHANGED <<flash, torn>>, ~InStep', job.at # "saveInteg",
         ~torn => BasedOn(Book(sched)', ig'.settle)
  PROVE  BaselineInv'
BY DEF BaselineInv

LEMMA BaselineDelete == PromiseInv /\ BaselineInv /\ DeleteStep => BaselineInv'
<1> SUFFICES ASSUME PromiseInv, BaselineInv, DeleteStep PROVE BaselineInv'
  OBVIOUS
<1> DEFINE e == sched.ev[job.i]
<1>1. e \in Events /\ e.id \in Ids
  BY DeletedEvent
<1>2. /\ UNCHANGED <<flash, torn>> /\ job.at # "saveInteg" /\ job'.at = "delete"
  BY HandlerTypes DEF DeleteStep, clocks, Jobs
<1>3. ~torn => BasedOn(Book(sched)', ig'.settle)
  <2> SUFFICES ASSUME ~torn PROVE BasedOn(Book(sched)', ig'.settle)
    OBVIOUS
  <2>1. BasedOn(Book(sched), ig.settle)
    BY DEF BaselineInv
  <2> HIDE DEF e
  <2>2. CASE UNCHANGED <<sched, ig>>
    BY <2>1, <2>2
  <2>3. CASE /\ sched' = Delete(sched, e.id)
             /\ ig' = [ig EXCEPT !.settle = NoteEdit(@, e.id, elapsed),
                                 !.pending = CancelFor(@, e.id)]
    <3>1. ig'.settle = NoteEdit(ig.settle, e.id, elapsed)
      BY <2>3, HandlerTypes DEF IsIntegrity
    <3>2. Book(sched)' = But(Book(sched), e.id)
      BY <2>3, HandlerTypes, BookDelete
    <3> QED
      BY <1>1, <2>1, <3>1, <3>2, HandlerTypes, BasedEdit DEF But
  <2>4. CASE /\ ig' = [ig EXCEPT !.pending = Quarantined("delete", e)]
             /\ UNCHANGED sched
    <3>1. ig'.settle = ig.settle
      BY <2>4, HandlerTypes DEF IsIntegrity
    <3> QED
      BY <2>1, <2>4, <3>1
  <2> QED
    BY <2>2, <2>3, <2>4 DEF DeleteStep, e
<1> QED
  BY <1>2, <1>3, BaselineLoop DEF InStep

LEMMA BaselineUpsert == PromiseInv /\ BaselineInv /\ UpsertStep => BaselineInv'
<1> SUFFICES ASSUME PromiseInv, BaselineInv, UpsertStep PROVE BaselineInv'
  OBVIOUS
<1> DEFINE e == job.prop[job.i]
<1>1. e \in Events /\ e.id \in Ids
  BY ProposedEvent
<1>2. /\ UNCHANGED <<flash, torn>> /\ job.at # "saveInteg" /\ job'.at = "upsert"
  BY HandlerTypes DEF UpsertStep, clocks, Jobs
<1>3. ~torn => BasedOn(Book(sched)', ig'.settle)
  <2> SUFFICES ASSUME ~torn PROVE BasedOn(Book(sched)', ig'.settle)
    OBVIOUS
  <2>1. BasedOn(Book(sched), ig.settle)
    BY DEF BaselineInv
  <2> HIDE DEF e
  <2>2. CASE UNCHANGED <<sched, ig>>
    BY <2>1, <2>2
  <2>3. CASE /\ sched' = Upsert(sched, e)
             /\ ig' = [ig EXCEPT !.settle = NoteEdit(@, e.id, elapsed),
                                 !.pending = CancelFor(@, e.id)]
    <3>1. ig'.settle = NoteEdit(ig.settle, e.id, elapsed)
      BY <2>3, HandlerTypes DEF IsIntegrity
    <3>2. Book(sched)' \in {Book(sched), But(Book(sched), e.id) \cup {e}}
      BY <1>1, <2>3, HandlerTypes, BookUpsert
    <3> QED
      BY <1>1, <2>1, <3>1, <3>2, HandlerTypes, BasedEdit DEF But
  <2>4. CASE /\ ig' = [ig EXCEPT !.pending = Quarantined("upsert", e)]
             /\ UNCHANGED sched
    <3>1. ig'.settle = ig.settle
      BY <2>4, HandlerTypes DEF IsIntegrity
    <3> QED
      BY <2>1, <2>4, <3>1
  <2> QED
    BY <2>2, <2>3, <2>4 DEF UpsertStep, e
<1> QED
  BY <1>2, <1>3, BaselineLoop DEF InStep

LEMMA BaselinePromote == PromiseInv /\ BaselineInv /\ PromoteStep => BaselineInv'
<1> SUFFICES ASSUME PromiseInv, BaselineInv, PromoteStep PROVE BaselineInv'
  OBVIOUS
<1> DEFINE p == ig.pending[job.i]
           cleared == [ig.pending EXCEPT ![job.i] = None]
<1>1. job.at = "promote" /\ job.i \in 1 .. QueueMax
  <2>1. job.at = "promote" /\ job.i <= QueueMax /\ TypeOK /\ job.i \in Nat
    BY HandlerTypes DEF PromoteStep
  <2>2. job.i >= 1
    BY <2>1 DEF TypeOK, JobOK
  <2> QED
    BY <2>1, <2>2, ConstantTypes
<1>2. UNCHANGED <<flash, torn>>
  BY DEF PromoteStep, clocks
<1>3. ig.pending \in Queues
  BY HandlerTypes, IntegrityParts
<1>4. /\ InStep => Book(flash.sched) = Book(sched)
      /\ ~torn => BasedOn(Book(sched), ig.settle)
      /\ ~torn => BasedOn(Book(flash.sched), flash.ig.settle)
  BY <1>1 DEF BaselineInv
<1>5. CASE /\ job' = [job EXCEPT !.i = @ + 1] /\ UNCHANGED sched
           /\ ig' = ig \/ ig' = [ig EXCEPT !.pending[job.i] = None]
  <2>1. ig'.settle = ig.settle
    BY <1>5, HandlerTypes DEF IsIntegrity
  <2>2. job'.at = job.at /\ job'.mark = job.mark
    BY <1>5, HandlerTypes DEF Jobs
  <2> QED
    BY <1>2, <1>4, <1>5, <2>1, <2>2 DEF BaselineInv, InStep
<1>6. CASE /\ Due(p)
           /\ sched' = IF p.kind = "delete" THEN Delete(sched, p.target)
                       ELSE Upsert(sched, p.proposed)
           /\ ig' = [ig EXCEPT !.pending[job.i] = None,
                               !.settle = NoteEdit(@, p.target, elapsed)]
           /\ job' = [[job EXCEPT !.i = @ + 1] EXCEPT !.mark = TRUE]
  <2>1. p \in Pending
    BY <1>1, <1>3, <1>6 DEF Queues, Due
  <2>2. p.target \in Ids /\ p.proposed \in Events /\ p.proposed.id = p.target
    BY <2>1 DEF Pending
  <2>3. ig'.settle = NoteEdit(ig.settle, p.target, elapsed)
    BY <1>6, HandlerTypes DEF IsIntegrity
  <2>4. job'.at = "promote" /\ job'.mark
    BY <1>1, <1>6, HandlerTypes DEF Jobs
  <2> HIDE DEF p, cleared
  <2>5. \A e \in Book(sched)' : e \in Book(sched) \/ e.id = p.target
    <3>1. CASE sched' = Delete(sched, p.target)
      BY <3>1, HandlerTypes, BookDelete DEF But
    <3>2. CASE sched' = Upsert(sched, p.proposed)
      BY <2>2, <3>2, HandlerTypes, BookUpsert DEF But
    <3> QED
      BY <1>6, <3>1, <3>2
  <2>6. ~torn => BasedOn(Book(sched)', ig'.settle)
    BY <1>4, <2>2, <2>3, <2>5, HandlerTypes, BasedEdit
  <2> QED
    BY <1>1, <1>2, <1>4, <2>4, <2>6 DEF BaselineInv, InStep
<1> QED
  BY <1>5, <1>6 DEF PromoteStep, p

LEMMA BaselineBegin ==
  ASSUME PromiseInv, BaselineInv, NEW p \in Proposals, BeginPush(p)
  PROVE  BaselineInv'
<1> DEFINE sealed == SealUnknown(ig.settle, sched, elapsed)
           st == SettleTick(sealed, sched, ig.win, elapsed)
<1>1. /\ UNCHANGED <<sched, flash, torn>> /\ job.at = "idle"
      /\ ig'.settle = st
      /\ job' = job \/ job'.at = "delete"
  BY HandlerTypes DEF BeginPush, Write, IsIntegrity, Idle
<1>2. elapsed \in Nat
  BY HandlerTypes DEF TypeOK
<1>3. BasedOn(Book(sched), ig.settle) => BasedOn(Book(sched), st)
  BY <1>2, HandlerTypes, SealUnknownType, BasedSeal, BasedSettle
<1> HIDE DEF st
<1> QED
  BY <1>1, <1>3 DEF BaselineInv, InStep

LEMMA BaselineSaves ==
  PromiseInv /\ BaselineInv /\ (SaveSchedule \/ SaveIntegrity) => BaselineInv'
<1> SUFFICES ASSUME PromiseInv, BaselineInv, SaveSchedule \/ SaveIntegrity
             PROVE  BaselineInv'
  OBVIOUS
<1>1. UNCHANGED <<sched, ig, torn>>
  BY DEF SaveSchedule, SaveIntegrity, clocks
<1>2. CASE SaveSchedule
  <2>1. flash'.sched = Stored(sched) /\ job'.at = "saveInteg"
    BY <1>2, HandlerTypes DEF SaveSchedule, Jobs
  <2>2. Book(flash.sched)' = Book(sched)
    BY <2>1, HandlerTypes, BookStored
  <2> QED
    BY <1>1, <2>1, <2>2 DEF BaselineInv
<1>3. CASE SaveIntegrity
  <2>1. /\ flash'.sched = flash.sched /\ flash'.ig = ig /\ job.at = "saveInteg"
        /\ job'.at = "idle"
    BY <1>3, HandlerTypes DEF SaveIntegrity, Idle
  <2> QED
    BY <1>1, <2>1 DEF BaselineInv, InStep
<1> QED
  BY <1>2, <1>3

\* A pass negates the event it is spent on.
LEMMA BaselinePass ==
  ASSUME PromiseInv, BaselineInv, NEW id \in Ids, NEW day \in PassDays,
         SpendPass(id, day)
  PROVE  BaselineInv'
<1> DEFINE e == NegateOf(Find(sched, id), day)
<1>1. UNCHANGED <<flash, torn>> /\ job.at = "idle" /\ ig'.settle = ig.settle
  BY HandlerTypes DEF SpendPass, Write, IsIntegrity
<1>2. CASE UNCHANGED <<sched, job>>
  BY <1>1, <1>2 DEF BaselineInv, InStep
<1>3. CASE /\ Has(sched, id) /\ sched' = Upsert(sched, e)
           /\ job' = [Save EXCEPT !.pass = TRUE]
  <2>1. Find(sched, id) \in Events
    BY <1>3, HandlerTypes, FindType
  <2>2. e \in Events /\ e.negate
    BY <2>1, IntegrityAssumption
  <2> HIDE DEF e
  <2>3. Book(sched)' \in {Book(sched), But(Book(sched), e.id) \cup {e}}
    BY <1>3, <2>2, HandlerTypes, BookUpsert
  <2>4. job'.at = "saveSched"
    BY <1>3 DEF Save, Idle
  <2> QED
    BY <1>1, <2>2, <2>3, <2>4 DEF BaselineInv, InStep, BasedOn, But
<1> QED
  BY <1>2, <1>3 DEF SpendPass

\* A boot that does not fall between the two saves of a handler restores a
\* schedule and the records that were saved with it.
LEMMA BaselineBoot ==
  ASSUME PromiseInv, BaselineInv, NEW off \in OffTimes, Boot(off)
  PROVE  BaselineInv'
<1>1. /\ sched' = flash.sched /\ flash' = flash
      /\ ig'.settle = SealUnknown(flash.ig.settle, flash.sched, 0)
      /\ torn' = (torn \/ job.at = "saveInteg")
      /\ job'.at = "promote"
  BY HandlerTypes DEF Boot, Idle, IsIntegrity
<1>2. ~torn' => BasedOn(Book(flash.sched), flash.ig.settle)
  BY <1>1 DEF BaselineInv
<1>3. ~torn' => BasedOn(Book(sched)', ig'.settle)
  BY <1>1, <1>2, HandlerTypes, BasedSeal
<1> QED
  BY <1>1, <1>2, <1>3 DEF BaselineInv, InStep

\* Steps that leave the events and the records alone, and bring the schedule
\* in flash no nearer.
LEMMA BaselineQuiet ==
  ASSUME BaselineInv,
         UNCHANGED <<sched.ev, sched.n, ig.settle, flash.sched, flash.ig, torn>>,
         InStep' => InStep, job.at = "saveInteg" => job'.at = "saveInteg"
  PROVE  BaselineInv'
<1>1. UNCHANGED <<Book(sched), Book(flash.sched)>>
  BY DEF Book
<1> QED
  BY <1>1 DEF BaselineInv

LEMMA BaselineStep == PromiseInv /\ BaselineInv /\ [Next]_vars => BaselineInv'
<1> SUFFICES ASSUME PromiseInv, BaselineInv, [Next]_vars PROVE BaselineInv'
  OBVIOUS
<1>1. CASE UNCHANGED vars \/ Refresh
  BY <1>1, BaselineQuiet DEF vars, Refresh, clocks, InStep
<1>2. CASE DeletionsDone \/ EndPush
  <2>1. UNCHANGED <<sched.ev, sched.n, ig, flash, torn>>
    BY <1>2, HandlerTypes DEF DeletionsDone, EndPush, clocks, Schedules
  <2>2. ~InStep' /\ job.at # "saveInteg"
    BY <1>2, HandlerTypes DEF DeletionsDone, EndPush, InStep, Jobs
  <2> QED
    BY <2>1, <2>2, BaselineQuiet
<1>3. CASE PromotionDone
  <2>1. UNCHANGED <<sched, ig, flash, torn>>
    BY <1>3 DEF PromotionDone, clocks
  <2>2. InStep' => InStep /\ job.at # "saveInteg"
    BY <1>3 DEF PromotionDone, InStep, Save, Idle
  <2>3. job.at # "saveInteg"
    BY <1>3 DEF PromotionDone
  <2> QED
    BY <2>1, <2>2, <2>3, BaselineQuiet
<1>4. CASE Tick
  <2>1. flash'.sched = flash.sched /\ flash'.ig = flash.ig
    BY <1>4, HandlerTypes DEF Tick
  <2> QED
    BY <1>4, <2>1, BaselineQuiet DEF Tick, InStep
<1>5. ASSUME NEW a \in Allowances, SetAllowance(a) PROVE BaselineInv'
  <2>1. ig'.settle = ig.settle /\ job'.at = "saveInteg" /\ InStep
    BY <1>5, HandlerTypes DEF SetAllowance, Write, Idle, IsIntegrity, InStep
  <2> QED
    BY <1>5, <2>1, BaselineQuiet DEF SetAllowance, Write
<1>6. ASSUME NEW w \in ClockWrites, SetTime(w[1], w[2]) PROVE BaselineInv'
  <2>1. flash'.ig = flash.ig /\ flash'.sched = flash.sched
    BY <1>6, HandlerTypes DEF SetTime
  <2> QED
    BY <1>6, <2>1, BaselineQuiet DEF SetTime, Write, InStep
<1>7. ASSUME NEW w \in ClockWrites, NEW s \in SettleWindows,
             ApplySettings(w[2], s)
      PROVE  BaselineInv'
  <2>1. flash'.ig = flash.ig /\ flash'.sched = flash.sched
    BY <1>7, HandlerTypes DEF ApplySettings
  <2>2. ig'.settle = ig.settle /\ job'.at = "saveInteg" /\ InStep
    <3>1. PICK win : ig' = [ig EXCEPT !.win = win]
      BY <1>7 DEF ApplySettings
    <3> QED
      BY <1>7, <3>1, HandlerTypes
      DEF ApplySettings, Write, Idle, IsIntegrity, InStep
  <2> QED
    BY <1>7, <2>1, <2>2, BaselineQuiet DEF ApplySettings, Write
<1> QED
  BY <1>1, <1>2, <1>3, <1>4, <1>5, <1>6, <1>7, BaselineBegin, BaselineDelete,
     BaselineUpsert, BaselinePromote, BaselineSaves, BaselinePass, BaselineBoot
  DEF Next, Handler

\* What the settle gate compares a proposed change with is the event as the
\* schedule has it: whatever the pushes, the promotions and the reboots, as
\* long as none falls between the two saves of a handler.
THEOREM BaselineStaysCurrent == Spec => []BaselineIsCurrent
<1>1. Init => BaselineInv
  <2>1. NoSchedule.n = 0 /\ 1 .. 0 = {}
    BY DEF NoSchedule
  <2>2. Book(NoSchedule) = {}
    BY <2>1 DEF Book
  <2> QED
    BY <2>2 DEF Init, BaselineInv, BasedOn
<1>2. PromiseInv /\ BaselineInv => BaselineIsCurrent
  BY HandlerTypes, BookFind DEF BaselineInv, BasedOn, BaselineIsCurrent
<1> QED
  BY <1>1, <1>2, BaselineStep, PromiseInvAlways, PTL DEF Spec

-----------------------------------------------------------------------------
(* What a push has done when it is answered.                               *)

ListedFrom(s, p, i) == \A j \in i .. s.n : Listed(p, s.ev[j].id)

ListedIn(book, p) == \A e \in book : Listed(p, e.id)

\* The book holds the first m records of the blob, by the last of those that
\* carry the same UUID.
TakenIn(book, p, z, m) ==
  \A k \in 1 .. m :
    (\A l \in k + 1 .. m : p[l].id # p[k].id) =>
      \E e \in book : e.id = p[k].id /\ ClassifyModified(e, p[k], z) = "none"

\* As long as nothing was left undone, the deletion loop leaves listed events
\* behind it, and the other loop the records of the blob.
AppliedInv ==
  ~job.mark =>
    /\ job.at = "delete" => ListedFrom(sched, job.prop, job.i + 1)
    /\ job.at = "upsert" =>
         /\ ListedIn(Book(sched), job.prop)
         /\ job.i <= Len(job.prop) + 1
         /\ TakenIn(Book(sched), job.prop, tz, job.i - 1)
    /\ job.at = "saveSched" /\ job.prop # <<>> =>
         /\ ListedIn(Book(sched), job.prop)
         /\ TakenIn(Book(sched), job.prop, tz, Len(job.prop))

\* Deleting a cell moves those above it down by one.
LEMMA DeleteCells ==
  ASSUME NEW s \in Schedules, Distinct(s), NEW i \in 1 .. s.n
  PROVE  LET t == Delete(s, s.ev[i].id)
         IN  t.n = s.n - 1 /\ \A j \in i .. t.n : t.ev[j] = s.ev[j + 1]
<1> DEFINE id == s.ev[i].id
           t  == Delete(s, id)
           ev == [j \in 1 .. MaxEvents |->
                    IF i <= j /\ j < s.n THEN s.ev[j + 1] ELSE s.ev[j]]
<1>1. s.n \in 0 .. MaxEvents /\ MaxEvents \in Nat
  BY ConstantTypes DEF Schedules
<1>2. Has(s, id)
  BY DEF Has, SlotsOf
<1>3. SlotOf(s, id) = i
  BY <1>2, SlotOfType DEF Distinct
<1>4. t = [s EXCEPT !.ev = ev, !.n = s.n - 1]
  BY <1>2, <1>3 DEF Delete
<1>5. t.n = s.n - 1 /\ t.ev = ev
  BY <1>4 DEF Schedules
<1> HIDE DEF t, id
<1>6. \A j \in i .. t.n : t.ev[j] = s.ev[j + 1]
  BY <1>1, <1>5
<1> QED
  BY <1>5, <1>6 DEF t, id

LEMMA AppliedDelete == PromiseInv /\ AppliedInv /\ DeleteStep => AppliedInv'
<1> SUFFICES ASSUME PromiseInv, AppliedInv, DeleteStep PROVE AppliedInv'
  OBVIOUS
<1> DEFINE e == sched.ev[job.i]
           next == [job EXCEPT !.i = @ - 1]
<1>1. /\ job.at = "delete" /\ job.i \in 1 .. sched.n
      /\ next.at = "delete" /\ next.i = job.i - 1 /\ next.prop = job.prop
      /\ next.mark = job.mark /\ [next EXCEPT !.mark = TRUE].mark
  BY HandlerTypes, DeletedEvent DEF DeleteStep, Jobs
<1>2. ~job.mark => ListedFrom(sched, job.prop, job.i + 1)
  BY <1>1 DEF AppliedInv
<1>4. CASE Listed(job.prop, e.id) /\ job' = next /\ UNCHANGED sched
  <2>1. ~job.mark => ListedFrom(sched, job.prop, job.i)
    BY <1>1, <1>2, <1>4, HandlerTypes DEF ListedFrom
  <2> QED
    BY <1>1, <1>4, <2>1 DEF AppliedInv
<1>5. CASE sched' = Delete(sched, e.id) /\ job' = next
  <2> DEFINE t == Delete(sched, e.id)
  <2>1. t.n = sched.n - 1 /\ \A j \in job.i .. t.n : t.ev[j] = sched.ev[j + 1]
    BY <1>1, HandlerTypes, DeleteCells
  <2> HIDE DEF t
  <2>2. ~job.mark => ListedFrom(t, job.prop, job.i)
    BY <1>1, <1>2, <2>1, HandlerTypes DEF ListedFrom
  <2>3. ~job.mark => ListedFrom(sched', job'.prop, job'.i + 1)
    BY <1>1, <1>5, <2>2 DEF t
  <2> QED
    BY <1>1, <1>5, <2>3 DEF AppliedInv
<1>6. CASE job' = [next EXCEPT !.mark = TRUE]
  BY <1>1, <1>6 DEF AppliedInv
<1> QED
  BY <1>4, <1>5, <1>6 DEF DeleteStep

\* One more record of the blob is in the book.
LEMMA TakenNext ==
  ASSUME NEW p, NEW z, NEW m \in Nat, NEW book, NEW book2,
         TakenIn(book, p, z, m),
         \A f \in book : f.id # p[m + 1].id => f \in book2,
         \E f \in book2 : /\ f.id = p[m + 1].id
                          /\ ClassifyModified(f, p[m + 1], z) = "none"
  PROVE  TakenIn(book2, p, z, m + 1)
<1> SUFFICES ASSUME NEW k \in 1 .. m + 1,
                    \A l \in k + 1 .. m + 1 : p[l].id # p[k].id
             PROVE  \E f \in book2 : /\ f.id = p[k].id
                                     /\ ClassifyModified(f, p[k], z) = "none"
  BY DEF TakenIn
<1>1. CASE k = m + 1
  BY <1>1
<1>2. CASE k # m + 1
  <2>1. k \in 1 .. m /\ p[m + 1].id # p[k].id
    BY <1>2
  <2>2. \A l \in k + 1 .. m : p[l].id # p[k].id
    BY <2>1
  <2>3. PICK f \in book : f.id = p[k].id /\ ClassifyModified(f, p[k], z) = "none"
    BY <2>1, <2>2 DEF TakenIn
  <2> QED
    BY <2>1, <2>3
<1> QED
  BY <1>1, <1>2

LEMMA SameEvent == \A e, z : ClassifyModified(e, e, z) = "none"
                               /\ AtLeastAsBinding(e, e, z)
BY DEF ClassifyModified, AtLeastAsBinding, IsInstant

LEMMA AppliedUpsert == PromiseInv /\ AppliedInv /\ UpsertStep => AppliedInv'
<1> SUFFICES ASSUME PromiseInv, AppliedInv, UpsertStep PROVE AppliedInv'
  OBVIOUS
<1> DEFINE e == job.prop[job.i]
           next == [job EXCEPT !.i = @ + 1]
           m == job.i - 1
<1>1. /\ job.at = "upsert" /\ job.i \in 1 .. Len(job.prop)
      /\ next.at = "upsert" /\ next.i = job.i + 1 /\ next.prop = job.prop
      /\ next.mark = job.mark /\ [next EXCEPT !.mark = TRUE].mark
      /\ UNCHANGED tz
  BY HandlerTypes, ProposedEvent DEF UpsertStep, Jobs
<1>2. m \in Nat /\ m + 1 = job.i /\ next.i - 1 = m + 1 /\ e = job.prop[m + 1]
      /\ e \in Events /\ next.i <= Len(job.prop) + 1
  BY <1>1, ProposedEvent, HandlerTypes
<1>3. ~job.mark => /\ ListedIn(Book(sched), job.prop)
                   /\ TakenIn(Book(sched), job.prop, tz, m)
  BY <1>1 DEF AppliedInv
<1>4. Listed(job.prop, e.id)
  BY <1>1, ProposedEvent DEF Listed
<1> HIDE DEF e, next, m
<1>5. CASE ClassOf(e) = "none" /\ job' = next /\ UNCHANGED sched
  <2>1. Has(sched, e.id) /\ ClassifyModified(Find(sched, e.id), e, tz) = "none"
    BY <1>5 DEF ClassOf, ClassifyAdded
  <2>2. Find(sched, e.id) \in Book(sched) /\ Find(sched, e.id).id = e.id
    BY <2>1, HandlerTypes, BookFind
  <2>3. ~job.mark => TakenIn(Book(sched), job.prop, tz, m + 1)
    BY <1>2, <1>3, <2>1, <2>2, TakenNext
  <2> QED
    BY <1>1, <1>2, <1>3, <1>5, <2>3 DEF AppliedInv
<1>6. CASE HasRoom(sched, e.id) /\ sched' = Upsert(sched, e) /\ job' = next
  <2>1. Book(sched)' = But(Book(sched), e.id) \cup {e}
    BY <1>2, <1>6, HandlerTypes, BookUpsert
  <2>2. ~job.mark => ListedIn(Book(sched)', job.prop)
    BY <1>3, <1>4, <2>1 DEF ListedIn, But
  <2>3. ~job.mark => TakenIn(Book(sched)', job.prop, tz, m + 1)
    <3>1. \A f \in Book(sched) : f.id # e.id => f \in Book(sched)'
      BY <2>1 DEF But
    <3>2. e \in Book(sched)' /\ ClassifyModified(e, e, tz) = "none"
      BY <2>1, SameEvent
    <3> QED
      BY <1>2, <1>3, <3>1, <3>2, TakenNext
  <2> QED
    BY <1>1, <1>2, <1>6, <2>2, <2>3 DEF AppliedInv
<1>7. CASE job' = [next EXCEPT !.mark = TRUE]
  BY <1>1, <1>7 DEF AppliedInv
<1> QED
  BY <1>5, <1>6, <1>7 DEF UpsertStep, e, next

LEMMA AppliedElse ==
  ASSUME job'.at \notin {"delete", "upsert"},
         job'.at = "saveSched" => job'.prop = <<>>
  PROVE  AppliedInv'
BY DEF AppliedInv

LEMMA AppliedStep == PromiseInv /\ AppliedInv /\ [Next]_vars => AppliedInv'
<1> SUFFICES ASSUME PromiseInv, AppliedInv, [Next]_vars PROVE AppliedInv'
  OBVIOUS
<1>1. CASE UNCHANGED vars
  BY <1>1 DEF vars, AppliedInv
<1>2. CASE DeletionsDone
  <2>1. /\ job.i = 0 /\ job.at = "delete" /\ UNCHANGED <<sched, tz>>
        /\ job'.at = "upsert" /\ job'.i = 1 /\ job'.prop = job.prop
        /\ job'.mark = job.mark
    BY <1>2, HandlerTypes DEF DeletionsDone, Jobs
  <2>2. ~job.mark => ListedIn(Book(sched), job.prop)
    BY <2>1 DEF AppliedInv, ListedFrom, ListedIn, Book
  <2>3. TakenIn(Book(sched), job.prop, tz, 0) /\ 1 <= Len(job.prop) + 1
    BY HandlerTypes DEF TakenIn, Jobs
  <2> QED
    BY <2>1, <2>2, <2>3 DEF AppliedInv
<1>3. CASE EndPush
  <2>1. /\ job.at = "upsert" /\ job.i > Len(job.prop)
        /\ sched'.ev = sched.ev /\ sched'.n = sched.n /\ UNCHANGED tz
        /\ job'.at = "saveSched" /\ job'.prop = job.prop /\ job'.mark = job.mark
    BY <1>3, HandlerTypes DEF EndPush, Jobs, Schedules
  <2>2. Book(sched)' = Book(sched)
    BY <2>1 DEF Book
  <2>3. ~job.mark => job.i - 1 = Len(job.prop)
    BY <2>1, HandlerTypes DEF AppliedInv, Jobs
  <2> QED
    BY <2>1, <2>2, <2>3 DEF AppliedInv
<1>4. ASSUME NEW p \in Proposals, BeginPush(p) PROVE AppliedInv'
  <2>1. CASE job' = job
    BY <1>4, <2>1, AppliedElse DEF BeginPush, Write
  <2>2. CASE job'.at = "delete" /\ job'.i = sched.n /\ UNCHANGED sched
    BY <2>2, HandlerTypes DEF AppliedInv, ListedFrom
  <2> QED
    BY <1>4, <2>1, <2>2 DEF BeginPush, Idle
<1>5. CASE SaveSchedule \/ SaveIntegrity
  BY <1>5, HandlerTypes, AppliedElse DEF SaveSchedule, SaveIntegrity, Idle, Jobs
<1>6. CASE Refresh \/ Tick
  BY <1>6, AppliedElse DEF Refresh, Tick
<1>7. CASE PromotionDone
  BY <1>7, AppliedElse DEF PromotionDone, Save, Idle
<1>8. CASE PromoteStep
  <2>1. job'.at = "promote"
    BY <1>8, HandlerTypes DEF PromoteStep, Jobs
  <2> QED
    BY <2>1, AppliedElse
<1>9. ASSUME NEW id \in Ids, NEW day \in PassDays, SpendPass(id, day)
      PROVE  AppliedInv'
  BY <1>9, AppliedElse DEF SpendPass, Write, Save, Idle
<1>10. ASSUME NEW a \in Allowances, SetAllowance(a) PROVE AppliedInv'
  BY <1>10, AppliedElse DEF SetAllowance, Idle
<1>11. ASSUME NEW w \in ClockWrites, SetTime(w[1], w[2]) PROVE AppliedInv'
  BY <1>11, AppliedElse DEF SetTime, Write
<1>12. ASSUME NEW w \in ClockWrites, NEW s \in SettleWindows,
              ApplySettings(w[2], s)
       PROVE  AppliedInv'
  BY <1>12, AppliedElse DEF ApplySettings, Idle
<1>13. ASSUME NEW off \in OffTimes, Boot(off) PROVE AppliedInv'
  BY <1>13, AppliedElse DEF Boot, Idle
<1> QED
  BY <1>1, <1>2, <1>3, <1>4, <1>5, <1>6, <1>7, <1>8, <1>9, <1>10, <1>11, <1>12,
     <1>13, AppliedDelete, AppliedUpsert
  DEF Next, Handler

\* A push that is answered 0x01 is in the schedule whole, whatever the blob,
\* the schedule it met and the records that decided what of it was instant.
THEOREM AcceptedIsApplied == Spec => []AcceptedMeansApplied
<1>1. Init => AppliedInv
  BY DEF Init, Idle, AppliedInv
<1>2. PromiseInv /\ AppliedInv => AcceptedMeansApplied
  <2> SUFFICES ASSUME PromiseInv, AppliedInv, job.at = "saveSched",
                      job.prop # <<>>, ~job.mark
               PROVE  AcceptedMeansApplied
    BY DEF AcceptedMeansApplied
  <2>1. ListedIn(Book(sched), job.prop)
          /\ TakenIn(Book(sched), job.prop, tz, Len(job.prop))
    BY DEF AppliedInv
  <2>2. \A i \in 1 .. sched.n : Listed(job.prop, sched.ev[i].id)
    BY <2>1 DEF ListedIn, Book
  <2>3. ASSUME NEW k \in DOMAIN job.prop,
               \A l \in k + 1 .. Len(job.prop) : job.prop[l].id # job.prop[k].id
        PROVE  /\ Has(sched, job.prop[k].id)
               /\ ClassifyModified(Find(sched, job.prop[k].id), job.prop[k], tz)
                    = "none"
    <3>1. k \in 1 .. Len(job.prop)
      BY HandlerTypes DEF Jobs
    <3>2. PICK e \in Book(sched) : /\ e.id = job.prop[k].id
                                   /\ ClassifyModified(e, job.prop[k], tz) = "none"
      BY <2>1, <2>3, <3>1 DEF TakenIn
    <3> QED
      BY <3>2, HandlerTypes, FindBook
  <2> QED
    BY <2>2, <2>3 DEF AcceptedMeansApplied
<1> QED
  BY <1>1, <1>2, AppliedStep, PromiseInvAlways, PTL DEF Spec

-----------------------------------------------------------------------------
(* The event that was being enforced when the push was let through.        *)

HeldIn(book, h, z) == \E e \in book : e.id = h.id /\ AtLeastAsBinding(h, e, z)

\* The push is in a loop and lists the event, at least as binding.
HeldInv ==
  /\ job.at \in {"idle", "promote"} => job.held = None
  /\ job.held # None /\ NamedOnce(job.prop) =>
       /\ HeldIn(Book(sched), job.held, tz)
       /\ job.at \in {"delete", "upsert"} =>
            /\ Listed(job.prop, job.held.id)
            /\ AtLeastAsBinding(job.held, Proposed(job.prop, job.held.id), tz)

\* The record that carries a UUID, where no other does.
LEMMA ProposedOnce ==
  ASSUME NEW p \in Seq(Events), NamedOnce(p), NEW k \in 1 .. Len(p)
  PROVE  Proposed(p, p[k].id) = p[k]
<1> DEFINE first(j) == p[j].id = p[k].id /\ \A l \in 1 .. j - 1 : p[l].id # p[k].id
<1>1. \A j \in 1 .. Len(p) : p[j].id = p[k].id => j = k
  BY DEF NamedOnce
<1>2. first(k)
  BY <1>1
<1>3. \A j \in DOMAIN p : first(j) => j = k
  BY <1>1
<1>4. (CHOOSE j \in DOMAIN p : first(j)) = k
  BY <1>2, <1>3
<1> QED
  BY <1>4 DEF Proposed

\* A step that leaves what the push holds alone, but for other events.
LEMMA HeldLoop ==
  ASSUME HeldInv, UNCHANGED <<job.at, job.prop, job.held, tz>>,
         ASSUME job.held # None, NamedOnce(job.prop),
                NEW e \in Book(sched), e.id = job.held.id,
                AtLeastAsBinding(job.held, e, tz)
         PROVE  HeldIn(Book(sched)', job.held, tz)
  PROVE  HeldInv'
<1>1. ASSUME job.held # None, NamedOnce(job.prop)
      PROVE  HeldIn(Book(sched)', job.held, tz)
  <2>1. PICK e \in Book(sched) : e.id = job.held.id
                                   /\ AtLeastAsBinding(job.held, e, tz)
    BY <1>1 DEF HeldInv, HeldIn
  <2> QED
    BY <1>1, <2>1
<1> QED
  BY <1>1 DEF HeldInv

LEMMA HeldDelete == PromiseInv /\ HeldInv /\ DeleteStep => HeldInv'
<1> SUFFICES ASSUME PromiseInv, HeldInv, DeleteStep PROVE HeldInv'
  OBVIOUS
<1> DEFINE d == sched.ev[job.i]
<1>1. UNCHANGED <<job.at, job.prop, job.held, tz>> /\ job.at = "delete"
  BY HandlerTypes DEF DeleteStep, Jobs
<1>2. \/ UNCHANGED sched
      \/ ~Listed(job.prop, d.id) /\ sched' = Delete(sched, d.id)
  BY DEF DeleteStep
<1> HIDE DEF d
<1>3. ASSUME job.held # None, NamedOnce(job.prop),
             NEW e \in Book(sched), e.id = job.held.id,
             AtLeastAsBinding(job.held, e, tz)
      PROVE  e \in Book(sched)'
  <2>1. Listed(job.prop, e.id)
    BY <1>1, <1>3 DEF HeldInv
  <2>2. CASE UNCHANGED sched
    BY <2>2
  <2>3. CASE ~Listed(job.prop, d.id) /\ sched' = Delete(sched, d.id)
    BY <2>1, <2>3, HandlerTypes, BookDelete DEF But
  <2> QED
    BY <1>2, <2>2, <2>3
<1> QED
  BY <1>1, <1>3, HeldLoop DEF HeldIn

LEMMA HeldUpsert == PromiseInv /\ HeldInv /\ UpsertStep => HeldInv'
<1> SUFFICES ASSUME PromiseInv, HeldInv, UpsertStep PROVE HeldInv'
  OBVIOUS
<1> DEFINE d == job.prop[job.i]
<1>1. UNCHANGED <<job.at, job.prop, job.held, tz>> /\ job.at = "upsert"
  BY HandlerTypes DEF UpsertStep, Jobs
<1>2. \/ UNCHANGED sched
      \/ HasRoom(sched, d.id) /\ sched' = Upsert(sched, d)
  BY DEF UpsertStep
<1>3. d \in Events /\ (NamedOnce(job.prop) => Proposed(job.prop, d.id) = d)
  BY ProposedEvent, ProposedOnce
<1> HIDE DEF d
<1>4. ASSUME job.held # None, NamedOnce(job.prop),
             NEW e \in Book(sched), e.id = job.held.id,
             AtLeastAsBinding(job.held, e, tz)
      PROVE  HeldIn(Book(sched)', job.held, tz)
  <2>1. AtLeastAsBinding(job.held, Proposed(job.prop, e.id), tz)
    BY <1>1, <1>4 DEF HeldInv
  <2>2. CASE UNCHANGED sched
    BY <1>4, <2>2 DEF HeldIn
  <2>3. CASE HasRoom(sched, d.id) /\ sched' = Upsert(sched, d)
    <3>1. Book(sched)' = But(Book(sched), d.id) \cup {d}
      BY <1>3, <2>3, HandlerTypes, BookUpsert
    <3> QED
      BY <1>3, <1>4, <2>1, <3>1 DEF But, HeldIn
  <2> QED
    BY <1>2, <2>2, <2>3
<1> QED
  BY <1>1, <1>4, HeldLoop

LEMMA HeldBegin ==
  ASSUME PromiseInv, HeldInv, NEW p \in Proposals, BeginPush(p)
  PROVE  HeldInv'
<1> DEFINE held == IF active \in 1 .. sched.n THEN sched.ev[active] ELSE None
<1>1. UNCHANGED <<sched, tz>> /\ job.at = "idle"
  BY DEF BeginPush, Write
<1>2. CASE job' = job
  BY <1>1, <1>2 DEF HeldInv
<1>3. CASE /\ ~LoosensActive(p)
           /\ job' = [Idle EXCEPT !.at = "delete", !.prop = p, !.i = sched.n,
                                  !.held = held]
  <2>1. job'.at = "delete" /\ job'.prop = p /\ job'.held = held
    BY <1>3 DEF Idle
  <2>2. ASSUME held # None
        PROVE  /\ held \in Book(sched) /\ Listed(p, held.id)
               /\ AtLeastAsBinding(held, Proposed(p, held.id), tz)
    <3>1. active \in 1 .. sched.n /\ held = sched.ev[active] /\ active # 0
      BY <2>2, HandlerTypes
    <3>2. held \in Book(sched)
      BY <3>1 DEF Book
    <3> HIDE DEF held
    <3> QED
      BY <1>3, <3>1, <3>2 DEF LoosensActive
  <2> HIDE DEF held
  <2>3. held # None => HeldIn(Book(sched), held, tz)
    BY <2>2, SameEvent DEF HeldIn
  <2> QED
    BY <1>1, <2>1, <2>2, <2>3 DEF HeldInv
<1> QED
  BY <1>2, <1>3 DEF BeginPush

\* The job in hand does not hold an event.
LEMMA HeldNone == ASSUME job'.held = None PROVE HeldInv'
BY DEF HeldInv

LEMMA HeldStep == PromiseInv /\ HeldInv /\ [Next]_vars => HeldInv'
<1> SUFFICES ASSUME PromiseInv, HeldInv, [Next]_vars PROVE HeldInv'
  OBVIOUS
<1>1. CASE UNCHANGED vars
  BY <1>1 DEF vars, HeldInv
<1>2. CASE DeletionsDone \/ EndPush \/ SaveSchedule
  <2>1. /\ job'.held = job.held /\ job'.prop = job.prop /\ UNCHANGED tz
        /\ job'.at \in {"upsert", "saveSched", "saveInteg"}
        /\ job'.at = "upsert" => job.at = "delete"
        /\ sched'.ev = sched.ev /\ sched'.n = sched.n
    BY <1>2, HandlerTypes DEF DeletionsDone, EndPush, SaveSchedule, Jobs, Schedules
  <2>2. Book(sched)' = Book(sched)
    BY <2>1 DEF Book
  <2> QED
    BY <2>1, <2>2 DEF HeldInv
<1>3. CASE SaveIntegrity \/ PromotionDone
  BY <1>3, HeldNone DEF SaveIntegrity, PromotionDone, Save, Idle
<1>4. CASE Refresh \/ Tick
  BY <1>4, HeldNone DEF Refresh, Tick, HeldInv
<1>5. CASE PromoteStep
  <2>1. job'.held = job.held /\ job.at = "promote"
    BY <1>5, HandlerTypes DEF PromoteStep, Jobs
  <2> QED
    BY <2>1, HeldNone DEF HeldInv
<1>6. ASSUME NEW id \in Ids, NEW day \in PassDays, SpendPass(id, day)
      PROVE  HeldInv'
  BY <1>6, HeldNone DEF SpendPass, Write, Save, Idle, HeldInv
<1>7. ASSUME NEW a \in Allowances, SetAllowance(a) PROVE HeldInv'
  BY <1>7, HeldNone DEF SetAllowance, Idle
<1>8. ASSUME NEW w \in ClockWrites, SetTime(w[1], w[2]) PROVE HeldInv'
  BY <1>8, HeldNone DEF SetTime, Write, HeldInv
<1>9. ASSUME NEW w \in ClockWrites, NEW s \in SettleWindows,
             ApplySettings(w[2], s)
      PROVE  HeldInv'
  BY <1>9, HeldNone DEF ApplySettings, Idle
<1>10. ASSUME NEW off \in OffTimes, Boot(off) PROVE HeldInv'
  BY <1>10, HeldNone DEF Boot, Idle
<1> QED
  BY <1>1, <1>2, <1>3, <1>4, <1>5, <1>6, <1>7, <1>8, <1>9, <1>10,
     HeldBegin, HeldDelete, HeldUpsert
  DEF Next, Handler

\* A push that was let through does not loosen the event being enforced at
\* any point of its loops: the whole-push rejection covers the deletions, the
\* free edit window and the free horizon, for a blob that names each event
\* once.
THEOREM ActiveEventStaysHeld == Spec => []ActiveEventHeld
<1>1. Init => HeldInv
  BY DEF Init, Idle, HeldInv
<1>2. PromiseInv /\ HeldInv => ActiveEventHeld
  BY HandlerTypes, FindBook DEF HeldInv, HeldIn, ActiveEventHeld
<1> QED
  BY <1>1, <1>2, HeldStep, PromiseInvAlways, PTL DEF Spec

-----------------------------------------------------------------------------
(* The pass budget, in true time.  For every stretch of the recent past, as*)
(* long as PassWindow at most, the log counts no fewer passes in it by the *)
(* elapsed clock than were spent in it by true time, those apart whose     *)
(* record was lost: the elapsed clock is never the faster.                 *)

\* The passes of the last t units, and the cells of the log that count there.
Since(sp, t, re)  == {k \in DOMAIN sp : ~sp[k].torn /\ sp[k].at + t > re}
Fresh(log, t, el) == {i \in DOMAIN log : log[i] # None /\ log[i] + t > el}

Covered(log, sp, more, el, re) ==
  \A t \in 1 .. PassWindow :
    Cardinality(Since(sp, t, re)) + more <= Cardinality(Fresh(log, t, el))

\* The pass that is in the log and whose negate is not yet in flash.
Unsaved == IF job.pass /\ job.at = "saveSched" THEN 1 ELSE 0

PassInv ==
  /\ \A k \in DOMAIN spent : spent[k].at <= real
  /\ ig.allowance <= PassBudget /\ flash.ig.allowance <= PassBudget
  /\ Used(ig.spends) <= PassBudget /\ Used(flash.ig.spends) <= PassBudget
  /\ job.pass => job.at \in {"saveSched", "saveInteg"}
  /\ Covered(ig.spends, spent, Unsaved, elapsed, real)
  /\ Covered(flash.ig.spends, Recorded, 0, elapsed, real)

LEMMA PassAt ==
  ASSUME NEW sp \in Seq(Passes), NEW k \in DOMAIN sp
  PROVE  sp[k].at \in Nat
<1>1. sp[k] \in Passes
  OBVIOUS
<1> QED
  BY <1>1 DEF Passes

LEMMA PassTypes ==
  ASSUME PromiseInv
  PROVE  /\ ig.spends \in Logs /\ flash.ig.spends \in Logs
         /\ ig.allowance \in Nat /\ flash.ig.allowance \in Nat
         /\ spent \in Seq(Passes) /\ elapsed \in Nat /\ real \in Nat
         /\ \A k \in DOMAIN spent : spent[k].at \in Nat
         /\ flash.elapsed \in Nat
         /\ PassBudget \in Nat /\ PassWindow \in Nat /\ MaxSpends \in Nat
         /\ PassBudget <= MaxSpends /\ None \notin Nat
         /\ job.pass \in BOOLEAN
<1>1. /\ ig.spends \in Logs /\ ig.allowance \in Nat
      /\ flash.ig.spends \in Logs /\ flash.ig.allowance \in Nat
  BY HandlerTypes DEF IsIntegrity, Logs
<1>2. spent \in Seq(Passes) /\ elapsed \in Nat /\ real \in Nat
  BY HandlerTypes DEF TypeOK, Passes
<1>6. \A k \in DOMAIN spent : spent[k].at \in Nat
  BY <1>2, PassAt
<1>3. flash.elapsed \in Nat
  BY HandlerTypes
<1>4. PassBudget <= MaxSpends /\ None \notin Nat
  BY IntegrityAssumption
<1>5. job.pass \in BOOLEAN
  BY HandlerTypes DEF Jobs
<1> QED
  BY <1>1, <1>2, <1>3, <1>4, <1>5, <1>6, ConstantTypes

\* These sets are finite, and their sizes numbers.
LEMMA LogSizes ==
  ASSUME NEW log \in Logs
  PROVE  /\ IsFiniteSet({i \in DOMAIN log : log[i] # None})
         /\ Used(log) \in Nat
         /\ \A t, el : /\ IsFiniteSet(Fresh(log, t, el))
                       /\ Cardinality(Fresh(log, t, el)) \in Nat
                       /\ Cardinality(Fresh(log, t, el)) <= Used(log)
<1>1. IsFiniteSet(1 .. MaxSpends)
  BY ConstantTypes, FS_Interval
<1> DEFINE U == {i \in DOMAIN log : log[i] # None}
<1>2. U \in SUBSET (1 .. MaxSpends)
  BY DEF Logs
<1>3. IsFiniteSet(U) /\ Cardinality(U) \in Nat
  BY <1>1, <1>2, FS_Subset, FS_CardinalityType
<1>4. ASSUME NEW t, NEW el
      PROVE  /\ IsFiniteSet(Fresh(log, t, el))
             /\ Cardinality(Fresh(log, t, el)) \in Nat
             /\ Cardinality(Fresh(log, t, el)) <= Cardinality(U)
  <2>1. Fresh(log, t, el) \in SUBSET U
    BY DEF Fresh
  <2> QED
    BY <1>3, <2>1, FS_Subset, FS_CardinalityType
<1> QED
  BY <1>3, <1>4 DEF Used

LEMMA SpentSizes ==
  ASSUME NEW sp \in Seq(Passes), NEW t, NEW re
  PROVE  IsFiniteSet(Since(sp, t, re)) /\ Cardinality(Since(sp, t, re)) \in Nat
<1>1. IsFiniteSet(1 .. Len(sp))
  BY FS_Interval
<1>2. Since(sp, t, re) \in SUBSET (1 .. Len(sp))
  BY DEF Since
<1> QED
  BY <1>1, <1>2, FS_Subset, FS_CardinalityType

\* True time gains on the elapsed clock, or keeps pace with it, over more or
\* less of the past.
LEMMA CoveredLater ==
  ASSUME NEW log \in Logs, NEW sp \in Seq(Passes),
         NEW el \in Nat, NEW re \in Nat, NEW el2 \in Nat, NEW re2 \in Nat,
         el2 - el <= re2 - re, re2 >= re, \A k \in DOMAIN sp : sp[k].at <= re,
         Covered(log, sp, 0, el, re), None \notin Nat
  PROVE  Covered(log, sp, 0, el2, re2)
<1> SUFFICES ASSUME NEW t \in 1 .. PassWindow
             PROVE  Cardinality(Since(sp, t, re2)) + 0
                      <= Cardinality(Fresh(log, t, el2))
  BY DEF Covered
<1>0. PassWindow \in Nat
  BY ConstantTypes
<1> DEFINE u == t - (re2 - re)
<1>1. CASE u \in 1 .. PassWindow
  <2>1. \A k \in DOMAIN sp : sp[k].at \in Nat
    BY PassAt
  <2>2. Since(sp, t, re2) \in SUBSET Since(sp, u, re)
    BY <2>1 DEF Since
  <2>3. Fresh(log, u, el) \in SUBSET Fresh(log, t, el2)
    BY DEF Fresh, Logs
  <2>4. Cardinality(Since(sp, u, re)) + 0 <= Cardinality(Fresh(log, u, el))
    BY <1>1 DEF Covered
  <2> HIDE DEF u
  <2>5. Cardinality(Since(sp, t, re2)) <= Cardinality(Since(sp, u, re))
    BY <2>2, SpentSizes, FS_Subset
  <2>6. Cardinality(Fresh(log, u, el)) <= Cardinality(Fresh(log, t, el2))
    BY <2>3, LogSizes, FS_Subset
  <2>7. /\ Cardinality(Since(sp, u, re)) \in Nat
        /\ Cardinality(Since(sp, t, re2)) \in Nat
        /\ Cardinality(Fresh(log, u, el)) \in Nat
        /\ Cardinality(Fresh(log, t, el2)) \in Nat
    BY SpentSizes, LogSizes
  <2> QED
    BY <2>4, <2>5, <2>6, <2>7
<1>2. CASE u \notin 1 .. PassWindow
  <2>1. u <= 0
    BY <1>0, <1>2
  <2>2. \A k \in DOMAIN sp : sp[k].at \in Nat
    BY PassAt
  <2>3. Since(sp, t, re2) = {}
    BY <2>1, <2>2 DEF Since
  <2>4. Cardinality(Since(sp, t, re2)) = 0
    BY <2>3, FS_EmptySet
  <2>5. Cardinality(Fresh(log, t, el2)) \in Nat
    BY LogSizes
  <2> QED
    BY <2>4, <2>5
<1> QED
  BY <1>1, <1>2

\* What Recent drops from the log is too old to count.
LEMMA RecentCounts ==
  ASSUME NEW log \in Logs, NEW now \in Nat, None \notin Nat
  PROVE  /\ Recent(log, now) \in Logs
         /\ Used(Recent(log, now)) <= Used(log)
         /\ \A t \in 1 .. PassWindow :
              Fresh(Recent(log, now), t, now) = Fresh(log, t, now)
<1> DEFINE r == Recent(log, now)
<1>1. /\ DOMAIN r = 1 .. MaxSpends /\ DOMAIN log = 1 .. MaxSpends
      /\ \A i \in 1 .. MaxSpends :
           r[i] = IF log[i] # None /\ log[i] + PassWindow > now
                  THEN log[i] ELSE None
  BY DEF Recent, Logs
<1>2. r \in Logs
  BY DEF Recent, Logs
<1> HIDE DEF r
<1>3. {i \in DOMAIN r : r[i] # None} \in SUBSET {i \in DOMAIN log : log[i] # None}
  BY <1>1
<1>4. Used(r) <= Used(log)
  BY <1>3, LogSizes, FS_Subset DEF Used
<1>5. ASSUME NEW t \in 1 .. PassWindow
      PROVE  Fresh(r, t, now) = Fresh(log, t, now)
  <2>1. \A i \in 1 .. MaxSpends : log[i] = None \/ log[i] \in Nat
    BY DEF Logs
  <2> QED
    BY <1>1, <2>1, ConstantTypes DEF Fresh
<1> QED
  BY <1>2, <1>4, <1>5 DEF r

\* A pass that is spent takes a cell of its own, and counts at once.
LEMMA PushCounts ==
  ASSUME NEW log \in Logs, NEW now \in Nat, None \notin Nat,
         Used(log) < MaxSpends
  PROVE  /\ QueuePush(log, now) \in Logs
         /\ Used(QueuePush(log, now)) = Used(log) + 1
         /\ \A t \in 1 .. PassWindow :
              Cardinality(Fresh(QueuePush(log, now), t, now))
                = Cardinality(Fresh(log, t, now)) + 1
<1>0. MaxSpends \in Nat
  BY ConstantTypes
<1>1. FreeCells(log) # {}
  <2> SUFFICES ASSUME FreeCells(log) = {} PROVE FALSE
    OBVIOUS
  <2>1. {i \in DOMAIN log : log[i] # None} = 1 .. MaxSpends
    BY DEF FreeCells, Logs
  <2>2. Cardinality(1 .. MaxSpends) = MaxSpends
    BY <1>0, FS_Interval
  <2>3. Used(log) = MaxSpends
    BY <2>1, <2>2 DEF Used
  <2> QED
    BY <1>0, <2>3
<1> DEFINE k == CHOOSE i \in FreeCells(log) : \A j \in FreeCells(log) : i <= j
           r == QueuePush(log, now)
<1>2. k \in FreeCells(log)
  <2>1. FreeCells(log) \in SUBSET Nat
    BY DEF FreeCells, Logs
  <2>2. \E i \in FreeCells(log) : \A j \in FreeCells(log) : i <= j
    BY <1>1, <2>1, LeastExists
  <2> QED
    BY <2>2
<1>3. r = [log EXCEPT ![k] = now]
  BY <1>1 DEF QueuePush
<1> HIDE DEF k, r
<1>4. k \in 1 .. MaxSpends /\ log[k] = None
  BY <1>2 DEF FreeCells, Logs
<1>5. /\ DOMAIN r = 1 .. MaxSpends /\ DOMAIN log = 1 .. MaxSpends
      /\ \A i \in 1 .. MaxSpends : r[i] = IF i = k THEN now ELSE log[i]
      /\ r \in Logs
  BY <1>3, <1>4 DEF Logs
<1>6. Used(r) = Used(log) + 1
  <2> DEFINE U == {i \in DOMAIN log : log[i] # None}
  <2>1. {i \in DOMAIN r : r[i] # None} = U \cup {k} /\ k \notin U
    BY <1>4, <1>5
  <2>2. Cardinality(U \cup {k}) = Cardinality(U) + 1
    BY <2>1, LogSizes, FS_AddElement
  <2> QED
    BY <2>1, <2>2 DEF Used
<1>7. ASSUME NEW t \in 1 .. PassWindow
      PROVE  Cardinality(Fresh(r, t, now)) = Cardinality(Fresh(log, t, now)) + 1
  <2>1. t > 0
    OBVIOUS
  <2>2. Fresh(r, t, now) = Fresh(log, t, now) \cup {k} /\ k \notin Fresh(log, t, now)
    BY <1>4, <1>5, <2>1 DEF Fresh
  <2> QED
    BY <2>2, LogSizes, FS_AddElement
<1> QED
  BY <1>5, <1>6, <1>7 DEF r

\* A pass counts from the moment its negate is in flash.
LEMMA SpentCounts ==
  ASSUME NEW sp \in Seq(Passes), NEW re \in Nat
  PROVE  \A t \in 1 .. PassWindow :
           Cardinality(Since(Append(sp, [at |-> re, torn |-> FALSE]), t, re))
             = Cardinality(Since(sp, t, re)) + 1
<1> SUFFICES ASSUME NEW t \in 1 .. PassWindow
             PROVE  Cardinality(Since(Append(sp, [at |-> re, torn |-> FALSE]), t, re))
                      = Cardinality(Since(sp, t, re)) + 1
  OBVIOUS
<1> DEFINE m == Len(sp) + 1
           new == [at |-> re, torn |-> FALSE]
           ap == Append(sp, new)
<1>1. new.at + t > re /\ ~new.torn
  OBVIOUS
<1> HIDE DEF new
<1>2. /\ DOMAIN ap = (DOMAIN sp) \cup {m} /\ ap[m] = new /\ m \notin DOMAIN sp
      /\ \A k \in DOMAIN sp : ap[k] = sp[k]
  OBVIOUS
<1> HIDE DEF ap, m
<1>3. Since(ap, t, re) = Since(sp, t, re) \cup {m} /\ m \notin Since(sp, t, re)
  BY <1>1, <1>2 DEF Since
<1> QED
  BY <1>3, SpentSizes, FS_AddElement DEF ap, new

LEMMA PassSpend ==
  ASSUME PromiseInv, PassInv, NEW id \in Ids, NEW day \in PassDays,
         SpendPass(id, day)
  PROVE  PassInv'
<1> DEFINE log == Recent(ig.spends, elapsed)
<1>1. /\ UNCHANGED <<flash, spent, elapsed, real>> /\ job.at = "idle"
      /\ ~job.pass
  BY DEF SpendPass, Write, PassInv
<1>0. Recorded = spent /\ Recorded' = spent
  <2>1. job'.at # "saveInteg"
    BY <1>1 DEF SpendPass, Save, Idle
  <2> QED
    BY <1>1, <2>1 DEF Recorded
<1>2. /\ log \in Logs /\ Used(log) <= Used(ig.spends)
      /\ \A t \in 1 .. PassWindow :
           Fresh(log, t, elapsed) = Fresh(ig.spends, t, elapsed)
  BY PassTypes, RecentCounts
<1>3. Used(log) \in Nat /\ Used(ig.spends) \in Nat
  BY <1>2, PassTypes, LogSizes
<1>4. Covered(log, spent, 0, elapsed, real)
  BY <1>1, <1>2 DEF PassInv, Covered, Unsaved
<1> HIDE DEF log
<1>5. CASE ig' = [ig EXCEPT !.spends = log] /\ UNCHANGED job
  <2>1. ig'.spends = log /\ ig'.allowance = ig.allowance
    BY <1>5, HandlerTypes DEF IsIntegrity
  <2> QED
    BY <1>0, <1>1, <1>2, <1>3, <1>4, <1>5, <2>1, PassTypes DEF PassInv, Unsaved
<1>6. CASE /\ ~Exhausted(log)
           /\ ig' = [ig EXCEPT !.spends = QueuePush(log, elapsed)]
           /\ job' = [Save EXCEPT !.pass = TRUE]
  <2> DEFINE r == QueuePush(log, elapsed)
  <2>1. ig'.spends = r /\ ig'.allowance = ig.allowance
    BY <1>6, HandlerTypes DEF IsIntegrity
  <2>2. Used(log) < ig.allowance /\ Used(log) < MaxSpends
    BY <1>3, <1>6, PassTypes DEF Exhausted, PassInv
  <2>3. /\ Used(r) = Used(log) + 1
        /\ \A t \in 1 .. PassWindow :
             Cardinality(Fresh(r, t, elapsed))
               = Cardinality(Fresh(log, t, elapsed)) + 1
    BY <1>2, <2>2, PassTypes, PushCounts
  <2>4. Used(r) <= PassBudget
    BY <1>3, <2>2, <2>3, PassTypes DEF PassInv
  <2>5. job'.at = "saveSched" /\ job'.pass
    BY <1>6 DEF Save, Idle
  <2> HIDE DEF r
  <2>6. Covered(r, spent, 1, elapsed, real)
    <3> SUFFICES ASSUME NEW t \in 1 .. PassWindow
                 PROVE  Cardinality(Since(spent, t, real)) + 1
                          <= Cardinality(Fresh(r, t, elapsed))
      BY DEF Covered
    <3>1. Cardinality(Since(spent, t, real)) + 0
            <= Cardinality(Fresh(log, t, elapsed))
      BY <1>4 DEF Covered
    <3>2. /\ Cardinality(Since(spent, t, real)) \in Nat
          /\ Cardinality(Fresh(log, t, elapsed)) \in Nat
      BY <1>2, PassTypes, SpentSizes, LogSizes
    <3> QED
      BY <2>3, <3>1, <3>2
  <2> QED
    BY <1>0, <1>1, <2>1, <2>4, <2>5, <2>6 DEF PassInv, Unsaved
<1> QED
  BY <1>5, <1>6 DEF SpendPass, log

\* The negate of a pass reaches flash, and the record of it is owed.
LEMMA PassNegated ==
  ASSUME PromiseInv, PassInv, SaveSchedule, job.pass
  PROVE  PassInv'
<1> DEFINE new == [at |-> real, torn |-> FALSE]
           ap  == Append(spent, new)
           m   == Len(spent) + 1
<1>1. /\ flash'.ig = flash.ig /\ UNCHANGED <<ig, elapsed, real>>
      /\ job.at = "saveSched" /\ job'.at = "saveInteg" /\ job'.pass
      /\ spent' = ap
  BY HandlerTypes DEF SaveSchedule, PassInv, clocks, Jobs
<1>2. spent \in Seq(Passes) /\ new \in Passes /\ real \in Nat
  BY PassTypes DEF Passes
<1>3. new.at = real
  OBVIOUS
<1> HIDE DEF new
<1>4. /\ DOMAIN ap = (DOMAIN spent) \cup {m} /\ Len(ap) = m /\ ap[m] = new
      /\ \A k \in DOMAIN spent : ap[k] = spent[k] /\ k # m
  BY <1>2
<1>5. \A k \in DOMAIN spent' : spent'[k].at <= real
  BY <1>1, <1>2, <1>3, <1>4 DEF PassInv
<1>6. \A t : Since(Recorded', t, real) = Since(spent, t, real)
  <2> DEFINE last == [at |-> ap[m].at, torn |-> TRUE]
             marked == [ap EXCEPT ![m] = last]
  <2>1. last.torn = TRUE
    OBVIOUS
  <2>2. Recorded' = marked
    BY <1>1, <1>4 DEF Recorded
  <2> HIDE DEF last, ap, m
  <2>3. /\ DOMAIN marked = (DOMAIN spent) \cup {m} /\ marked[m] = last
        /\ \A k \in DOMAIN spent : marked[k] = spent[k]
    BY <1>4
  <2> QED
    BY <2>1, <2>2, <2>3 DEF Since
<1>7. Recorded = spent
  BY <1>1 DEF Recorded
<1>8. Covered(ig.spends, spent', 0, elapsed, real)
  <2> SUFFICES ASSUME NEW t \in 1 .. PassWindow
               PROVE  Cardinality(Since(ap, t, real)) + 0
                        <= Cardinality(Fresh(ig.spends, t, elapsed))
    BY <1>1 DEF Covered
  <2>1. Cardinality(Since(spent, t, real)) + 1
          <= Cardinality(Fresh(ig.spends, t, elapsed))
    BY <1>1 DEF PassInv, Covered, Unsaved
  <2>2. Cardinality(Since(spent, t, real)) \in Nat
    BY <1>2, SpentSizes
  <2>3. Cardinality(Since(ap, t, real)) = Cardinality(Since(spent, t, real)) + 1
    BY <1>2, SpentCounts DEF new
  <2> QED
    BY <2>1, <2>2, <2>3
<1>9. Covered(flash.ig.spends, Recorded', 0, elapsed, real)
  BY <1>6, <1>7 DEF PassInv, Covered
<1> QED
  BY <1>1, <1>5, <1>8, <1>9 DEF PassInv, Unsaved

LEMMA PassSaved == PromiseInv /\ PassInv /\ SaveIntegrity => PassInv'
<1> SUFFICES ASSUME PromiseInv, PassInv, SaveIntegrity PROVE PassInv'
  OBVIOUS
<1>1. /\ flash'.ig = ig /\ UNCHANGED <<ig, elapsed, real, spent>>
      /\ job.at = "saveInteg" /\ ~job'.pass
  BY HandlerTypes DEF SaveIntegrity, clocks, Idle
<1>2. Covered(ig.spends, spent, 0, elapsed, real)
  BY <1>1 DEF PassInv, Unsaved
<1>3. Recorded' = spent
  BY <1>1 DEF Recorded
<1> QED
  BY <1>1, <1>2, <1>3 DEF PassInv, Unsaved

LEMMA PassTick == PromiseInv /\ PassInv /\ Tick => PassInv'
<1> SUFFICES ASSUME PromiseInv, PassInv, Tick PROVE PassInv'
  OBVIOUS
<1>1. /\ UNCHANGED <<ig, job, spent>> /\ flash'.ig = flash.ig
      /\ elapsed' = elapsed + 1 /\ real' = real + 1 /\ ~job.pass
  BY HandlerTypes DEF Tick, PassInv
<1>4. Recorded = spent /\ Recorded' = spent
  BY <1>1 DEF Recorded
<1>2. /\ Covered(ig.spends, spent, 0, elapsed + 1, real + 1)
      /\ Covered(flash.ig.spends, spent, 0, elapsed + 1, real + 1)
  <2>1. /\ Covered(ig.spends, spent, 0, elapsed, real)
        /\ Covered(flash.ig.spends, spent, 0, elapsed, real)
        /\ \A k \in DOMAIN spent : spent[k].at <= real
    BY <1>1, <1>4 DEF PassInv, Unsaved
  <2>2. /\ elapsed + 1 \in Nat /\ real + 1 \in Nat
        /\ (elapsed + 1) - elapsed <= (real + 1) - real /\ real + 1 >= real
    BY PassTypes
  <2> QED
    BY <2>1, <2>2, PassTypes, CoveredLater
<1>3. \A k \in DOMAIN spent : spent[k].at <= real + 1
  BY PassTypes DEF PassInv
<1> QED
  BY <1>1, <1>2, <1>3, <1>4 DEF PassInv, Unsaved

LEMMA PassBoot ==
  ASSUME PromiseInv, PassInv, DelayInv, NEW off \in OffTimes, Boot(off)
  PROVE  PassInv'
<1>1. /\ UNCHANGED flash /\ spent' = Recorded /\ elapsed' = flash.elapsed
      /\ real' = real + off /\ off \in Nat
      /\ ig'.spends = flash.ig.spends /\ ig'.allowance = flash.ig.allowance
      /\ ~job'.pass
  BY IntegrityAssumption, HandlerTypes
  DEF Boot, RestoredElapsed, Idle, IsIntegrity
<1>2. /\ Recorded \in Seq(Passes)
      /\ \A k \in DOMAIN Recorded : Recorded[k].at \in Nat /\ Recorded[k].at <= real
  BY PassTypes, RecordedType DEF PassInv
<1>3. Covered(flash.ig.spends, Recorded, 0, flash.elapsed, real + off)
  <2>1. Covered(flash.ig.spends, Recorded, 0, elapsed, real)
    BY DEF PassInv
  <2>2. /\ real + off \in Nat /\ real + off >= real
        /\ flash.elapsed - elapsed <= (real + off) - real
    BY <1>1, PassTypes DEF DelayInv
  <2> QED
    BY <1>2, <2>1, <2>2, PassTypes, CoveredLater
<1>4. \A k \in DOMAIN Recorded : Recorded[k].at <= real + off
  BY <1>1, <1>2, PassTypes
<1>5. Recorded' = Recorded
  BY <1>1 DEF Recorded
<1> QED
  BY <1>1, <1>3, <1>4, <1>5 DEF PassInv, Unsaved

\* Steps that leave the log, the clocks and the copies of them alone.
LEMMA PassQuiet ==
  ASSUME PromiseInv, PassInv,
         UNCHANGED <<ig.spends, flash.ig, spent, elapsed, real>>,
         ig'.allowance <= ig.allowance, ig'.allowance \in Nat,
         ~job.pass, ~job'.pass
  PROVE  PassInv'
<1>1. ig'.allowance <= PassBudget
  BY PassTypes DEF PassInv
<1>2. Recorded = spent /\ Recorded' = spent
  BY DEF Recorded
<1> QED
  BY <1>1, <1>2 DEF PassInv, Unsaved

LEMMA PassStep ==
  PromiseInv /\ DelayInv /\ PassInv /\ [Next]_vars => PassInv'
<1> SUFFICES ASSUME PromiseInv, DelayInv, PassInv, [Next]_vars PROVE PassInv'
  OBVIOUS
<1>0. /\ ig.allowance <= ig.allowance /\ ig.allowance \in Nat
      /\ job.pass => job.at \in {"saveSched", "saveInteg"}
  BY PassTypes DEF PassInv
<1>1. CASE UNCHANGED vars
  BY <1>1 DEF vars, PassInv, Unsaved, Recorded
<1>9. CASE Refresh
  BY <1>0, <1>9, PassQuiet DEF Refresh, clocks
<1>2. CASE DeletionsDone \/ EndPush \/ (SaveSchedule /\ ~job.pass)
  <2>1. /\ UNCHANGED <<ig, spent, elapsed, real>> /\ flash'.ig = flash.ig
        /\ ~job.pass /\ job'.pass = job.pass
    BY <1>0, <1>2, HandlerTypes
    DEF DeletionsDone, EndPush, SaveSchedule, clocks, Jobs
  <2> QED
    BY <1>0, <2>1, PassQuiet
<1>3. CASE DeleteStep \/ UpsertStep \/ PromoteStep
  <2>1. /\ UNCHANGED <<flash, spent, elapsed, real>> /\ ~job.pass
        /\ job'.pass = job.pass
    BY <1>0, <1>3, HandlerTypes
    DEF DeleteStep, UpsertStep, PromoteStep, clocks, Jobs
  <2>2. \/ ig' = ig
        \/ \E q : ig' = [ig EXCEPT !.pending = q]
        \/ \E st, q : \/ ig' = [ig EXCEPT !.settle = st, !.pending = q]
                      \/ ig' = [ig EXCEPT !.pending = q, !.settle = st]
    BY <1>3 DEF DeleteStep, UpsertStep, PromoteStep
  <2>3. ig'.spends = ig.spends /\ ig'.allowance = ig.allowance
    BY <2>2, HandlerTypes DEF IsIntegrity
  <2> QED
    BY <1>0, <2>1, <2>3, PassQuiet
<1>4. CASE PromotionDone
  <2>1. ~job.pass /\ ~job'.pass /\ job.pass \in BOOLEAN /\ job'.pass = FALSE
    BY <1>0, <1>4, PassTypes DEF PromotionDone, Save, Idle
  <2> QED
    BY <1>0, <1>4, <2>1, PassQuiet DEF PromotionDone, clocks
<1>5. ASSUME NEW p \in Proposals, BeginPush(p) PROVE PassInv'
  <2>1. ig'.spends = ig.spends /\ ig'.allowance = ig.allowance
    BY <1>5, HandlerTypes DEF BeginPush, IsIntegrity
  <2>2. ~job.pass /\ job'.pass = job.pass
    BY <1>0, <1>5, PassTypes DEF BeginPush, Write, Idle
  <2> QED
    BY <1>0, <1>5, <2>1, <2>2, PassQuiet DEF BeginPush, Write
<1>6. ASSUME NEW a \in Allowances, SetAllowance(a) PROVE PassInv'
  <2>1. /\ ig'.spends = ig.spends /\ ig'.allowance = a /\ a <= ig.allowance
        /\ a \in Nat
    BY <1>6, HandlerTypes, IntegrityAssumption DEF SetAllowance, IsIntegrity
  <2>2. ~job.pass /\ job'.pass = job.pass
    BY <1>0, <1>6, PassTypes DEF SetAllowance, Write, Idle
  <2> QED
    BY <1>0, <1>6, <2>1, <2>2, PassQuiet DEF SetAllowance, Write
<1>7. ASSUME NEW w \in ClockWrites, SetTime(w[1], w[2]) PROVE PassInv'
  <2>1. flash'.ig = flash.ig
    BY <1>7, HandlerTypes DEF SetTime
  <2> QED
    BY <1>0, <1>7, <2>1, PassQuiet DEF SetTime, Write
<1>8. ASSUME NEW w \in ClockWrites, NEW s \in SettleWindows,
             ApplySettings(w[2], s)
      PROVE  PassInv'
  <2>1. PICK win : ig' = [ig EXCEPT !.win = win]
    BY <1>8 DEF ApplySettings
  <2>2. ig'.spends = ig.spends /\ ig'.allowance = ig.allowance
    BY <2>1, HandlerTypes DEF IsIntegrity
  <2>3. ~job.pass /\ job'.pass = job.pass /\ flash'.ig = flash.ig
    BY <1>0, <1>8, PassTypes, HandlerTypes DEF ApplySettings, Write, Idle
  <2> QED
    BY <1>0, <1>8, <2>2, <2>3, PassQuiet DEF ApplySettings, Write
<1> QED
  BY <1>1, <1>2, <1>3, <1>4, <1>5, <1>6, <1>7, <1>8, <1>9, PassSpend,
     PassNegated, PassSaved, PassTick, PassBoot
  DEF Next, Handler

\* No window of PassWindow of true time has more passes in it than the
\* budget, whatever reboots cost the elapsed clock: the log that is restored
\* is read against a clock that is behind, and so only counts for longer.  A
\* pass is in the window from the moment its negate is in flash; one whose
\* record was lost to a stop between the two saves of its handler is excepted.
THEOREM PassBudgetIsHeld == Spec => []PassBudgetHeld
<1>1. Init => PassInv
  <2> SUFFICES ASSUME Init PROVE PassInv
    OBVIOUS
  <2> DEFINE none == [i \in 1 .. MaxSpends |-> None]
  <2>1. /\ ig.spends = none /\ flash.ig.spends = none
        /\ ig.allowance = PassBudget /\ flash.ig.allowance = PassBudget
        /\ spent = <<>> /\ Recorded = spent /\ ~job.pass
    BY DEF Init, NoIntegrity, Idle, Recorded
  <2>2. none \in Logs
    BY DEF Logs
  <2>3. {i \in DOMAIN none : none[i] # None} = {}
    OBVIOUS
  <2>4. Used(none) = 0
    BY <2>3, FS_EmptySet DEF Used
  <2>5. DOMAIN spent = {} /\ \A t, re : Since(spent, t, re) = {}
    BY <2>1 DEF Since
  <2> HIDE DEF none
  <2>6. \A el, re : Covered(none, spent, 0, el, re)
    <3>1. \A t, re : Cardinality(Since(spent, t, re)) = 0
      BY <2>5, FS_EmptySet
    <3>2. \A t, el : Cardinality(Fresh(none, t, el)) \in Nat
      BY <2>2, LogSizes
    <3> QED
      BY <3>1, <3>2 DEF Covered
  <2> QED
    BY <2>1, <2>4, <2>6, ConstantTypes DEF PassInv, Unsaved
<1>2. PromiseInv /\ PassInv => PassBudgetHeld
  <2> SUFFICES ASSUME PromiseInv, PassInv PROVE PassBudgetHeld
    OBVIOUS
  <2> DEFINE W == Since(spent, PassWindow, real)
  <2>1. CASE PassWindow = 0
    <3>1. W = {}
      BY <2>1, PassTypes DEF Since, PassInv
    <3>2. Cardinality(W) = 0 /\ PassBudget \in Nat
      BY <3>1, FS_EmptySet, PassTypes
    <3> QED
      BY <3>2 DEF PassBudgetHeld, Since
  <2>2. CASE PassWindow # 0
    <3>1. PassWindow \in 1 .. PassWindow
      BY <2>2, PassTypes
    <3>2. Cardinality(W) + Unsaved
            <= Cardinality(Fresh(ig.spends, PassWindow, elapsed))
      BY <3>1 DEF PassInv, Covered
    <3>3. /\ Cardinality(W) \in Nat /\ Unsaved \in Nat
          /\ Cardinality(Fresh(ig.spends, PassWindow, elapsed)) \in Nat
          /\ Cardinality(Fresh(ig.spends, PassWindow, elapsed)) <= Used(ig.spends)
          /\ Used(ig.spends) \in Nat /\ Used(ig.spends) <= PassBudget
      BY PassTypes, SpentSizes, LogSizes DEF PassInv, Unsaved
    <3>4. Cardinality(W) <= PassBudget
      BY <3>2, <3>3, PassTypes
    <3> QED
      BY <3>4 DEF PassBudgetHeld, Since
  <2> QED
    BY <2>1, <2>2
<1> QED
  BY <1>1, <1>2, PassStep, PromiseInvAlways, DelayAlways, PTL DEF Spec

=============================================================================
