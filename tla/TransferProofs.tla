---------------------------- MODULE TransferProofs ----------------------------
(***************************************************************************)
(* Proofs about Transfer, for every set of schedules, settings and length. *)
(* What a restart finds of a schedule that was pushed, the records of a    *)
(* save being written one at a time; the types of the link, the workqueue  *)
(* and the app; what an acceptance promises; what an answer answers.       *)
(***************************************************************************)
EXTENDS Transfer, TLAPS

Names == Blobs \cup Settings \cup {NoBlob}
Items == {"ack", "end", "adv", "settings"}

\* The types of the flash, of the schedule in memory and of a save.
StoreTypes ==
  /\ saving \in [of : Schedules, at : 0 .. Done, lost : {"nothing", "write", "deletion"}]
  /\ held.crc \in Schedules /\ held.events \in Seq(Schedules)
  /\ Len(held.events) <= MaxEvents
  /\ flash \in [crc : Schedules, n : 0 .. MaxEvents, cell : [Cells -> Schedules]]
  /\ recent \subseteq Schedules

\* A save is of the schedule in memory, and what it has passed is written.
SaveSoFar ==
  Running =>
    /\ saving.of \in recent /\ held = Pushed(saving.of)
    /\ saving.lost = "write" => saving.at = Done
    /\ saving.lost # "write" =>
         /\ saving.at > 0 => flash.crc = saving.of
         /\ saving.at > 1 => flash.n = Count[saving.of]
         /\ \A i \in Cells : i <= Count[saving.of] /\ i + 1 < saving.at
                               => flash.cell[i] = saving.of
    /\ saving.lost = "nothing" =>
         \A i \in Cells : i > Count[saving.of] /\ i + 1 < saving.at
                            => flash.cell[i] = NoBlob

\* No record is of a schedule from before the last one saved whole.
RecordsAreRecent == \A i \in Cells : flash.cell[i] \in recent \cup {NoBlob}

StoreInv == StoreTypes /\ SaveSoFar /\ RecordsAreRecent /\ NoResurrection

-----------------------------------------------------------------------------
(* The constants and the operators.                                        *)

LEMMA Sizes ==
  /\ MaxEvents \in Nat /\ Done = MaxEvents + 2 /\ 0 \in 0 .. Done /\ Done \in 0 .. Done
  /\ NoBlob \notin Blobs /\ NoBlob \in Schedules
  /\ \A b \in Blobs : Count[b] \in 0 .. MaxEvents
BY TransferAssumption DEF Done, Schedules

\* A schedule as a push leaves it.
LEMMA PushedType ==
  ASSUME NEW b \in Blobs
  PROVE  /\ Pushed(b).crc = b /\ b \in Schedules
         /\ Pushed(b).events \in Seq(Schedules) /\ Len(Pushed(b).events) = Count[b]
         /\ \A i \in 1 .. Len(Pushed(b).events) : Pushed(b).events[i] = b
<1>1. b \in Schedules /\ Count[b] \in Nat
  BY Sizes DEF Schedules
<1>2. Pushed(b).crc = b /\ Pushed(b).events = [i \in 1 .. Count[b] |-> b]
  BY DEF Pushed
<1>3. [i \in 1 .. Count[b] |-> b] \in Seq(Schedules)
  BY <1>1
<1>4. Len([i \in 1 .. Count[b] |-> b]) = Count[b]
  BY <1>1, <1>3
<1> QED
  BY <1>1, <1>2, <1>3, <1>4

\* What a boot loads.
LEMMA LoadedType ==
  ASSUME StoreTypes
  PROVE  /\ Loaded.crc \in Schedules /\ Loaded.events \in Seq(Schedules)
         /\ Len(Loaded.events) = flash.n
         /\ \A i \in 1 .. flash.n : i \in Cells /\ Loaded.events[i] = flash.cell[i]
<1>1. flash.n \in Nat /\ flash.n <= MaxEvents /\ flash.crc \in Schedules
  BY Sizes DEF StoreTypes
<1>2. \A i \in 1 .. flash.n : i \in Cells /\ flash.cell[i] \in Schedules
  BY <1>1, Sizes DEF Cells, StoreTypes
<1>3. Loaded.crc = flash.crc
      /\ Loaded.events = [i \in 1 .. flash.n |-> flash.cell[i]]
  BY DEF Loaded
<1>4. [i \in 1 .. flash.n |-> flash.cell[i]] \in Seq(Schedules)
  BY <1>1, <1>2
<1>5. Len([i \in 1 .. flash.n |-> flash.cell[i]]) = flash.n
  BY <1>1, <1>4
<1> QED
  BY <1>1, <1>2, <1>3, <1>4, <1>5

-----------------------------------------------------------------------------
(* The steps that touch the store.                                         *)

LEMMA RunEndKeeps == ASSUME StoreInv, RunEnd PROVE StoreInv'
<1>1. PICK b \in Blobs :
        /\ held' = Pushed(b) /\ recent' = recent \cup {b}
        /\ saving' = [of |-> b, at |-> 0, lost |-> "nothing"]
        /\ flash' = flash
  BY DEF RunEnd, Received
<1>2. StoreTypes'
  BY <1>1, PushedType, Sizes DEF StoreInv, StoreTypes
<1>3. SaveSoFar'
  BY <1>1, Sizes DEF SaveSoFar, Running, Cells
<1>4. RecordsAreRecent'
  BY <1>1 DEF StoreInv, RecordsAreRecent
<1>5. NoResurrection'
  BY <1>1, PushedType DEF NoResurrection
<1> QED
  BY <1>2, <1>3, <1>4, <1>5 DEF StoreInv

\* What one record of a save changes.
LEMMA WrittenCells ==
  ASSUME StoreInv, Running, saving.at < Done, flash' = Written(flash, saving.at)
  PROVE  /\ flash' \in [crc : Schedules, n : 0 .. MaxEvents, cell : [Cells -> Schedules]]
         /\ flash'.crc = IF saving.at = 0 THEN saving.of ELSE flash.crc
         /\ flash'.n = IF saving.at = 1 THEN Count[saving.of] ELSE flash.n
         /\ \A i \in Cells : flash'.cell[i] =
              IF saving.at # i + 1 THEN flash.cell[i]
              ELSE IF i <= Count[saving.of] THEN saving.of ELSE NoBlob
<1> DEFINE at == saving.at
           b == saving.of
<1>1. b \in Blobs /\ b \in Schedules
  BY DEF StoreInv, StoreTypes, Running, Schedules
<1>2. /\ held.crc = b /\ Len(held.events) = Count[b]
      /\ \A i \in 1 .. Count[b] : held.events[i] = b
  BY <1>1, PushedType DEF StoreInv, SaveSoFar
<1>3. Count[b] \in Nat /\ Count[b] <= MaxEvents /\ MaxEvents \in Nat
  BY <1>1, Sizes
<1>4. at \in Nat /\ at < MaxEvents + 2
  BY Sizes DEF StoreInv, StoreTypes
<1>5. flash \in [crc : Schedules, n : 0 .. MaxEvents, cell : [Cells -> Schedules]]
  BY DEF StoreInv, StoreTypes
<1>6. CASE at = 0
  BY <1>1, <1>2, <1>5, <1>6 DEF Written, Cells
<1>7. CASE at = 1
  BY <1>1, <1>2, <1>3, <1>5, <1>7 DEF Written, Cells
<1>8. CASE at \in 2 .. Count[b] + 1
  <2>1. at - 1 \in 1 .. Count[b] /\ at - 1 \in Cells
    BY <1>3, <1>4, <1>8 DEF Cells
  <2>2. flash' = [flash EXCEPT !.cell[at - 1] = b]
    BY <1>2, <1>4, <1>8, <2>1 DEF Written
  <2>3. /\ flash'.crc = flash.crc /\ flash'.n = flash.n
        /\ flash'.cell = [flash.cell EXCEPT ![at - 1] = b]
        /\ flash' = [crc |-> flash.crc, n |-> flash.n, cell |-> flash'.cell]
    BY <1>5, <2>2
  <2>4. flash.cell \in [Cells -> Schedules] /\ flash'.cell \in [Cells -> Schedules]
    BY <1>1, <1>5, <2>3
  <2>5. flash' \in [crc : Schedules, n : 0 .. MaxEvents, cell : [Cells -> Schedules]]
    BY <1>5, <2>3, <2>4
  <2>6. ASSUME NEW i \in Cells
        PROVE  flash'.cell[i] = IF at # i + 1 THEN flash.cell[i]
                                ELSE IF i <= Count[b] THEN b ELSE NoBlob
    <3>1. i \in Nat /\ (at = i + 1 <=> i = at - 1)
      BY <1>3, <1>4 DEF Cells
    <3>2. flash'.cell[i] = IF i = at - 1 THEN b ELSE flash.cell[i]
      BY <2>1, <2>3, <2>4
    <3> QED
      BY <1>3, <1>4, <1>8, <3>1, <3>2
  <2> QED
    BY <1>3, <1>4, <1>8, <2>3, <2>5, <2>6
<1>9. CASE at > Count[b] + 1 /\ at > 1
  <2>1. at - 1 \in Cells
    BY <1>3, <1>4, <1>9 DEF Cells
  <2>2. flash' = [flash EXCEPT !.cell[at - 1] = NoBlob]
    BY <1>2, <1>3, <1>4, <1>9 DEF Written
  <2>3. /\ flash'.crc = flash.crc /\ flash'.n = flash.n
        /\ flash'.cell = [flash.cell EXCEPT ![at - 1] = NoBlob]
        /\ flash' = [crc |-> flash.crc, n |-> flash.n, cell |-> flash'.cell]
    BY <1>5, <2>2
  <2>4. flash.cell \in [Cells -> Schedules] /\ flash'.cell \in [Cells -> Schedules]
    BY <1>1, <1>5, <2>3, Sizes
  <2>5. flash' \in [crc : Schedules, n : 0 .. MaxEvents, cell : [Cells -> Schedules]]
    BY <1>5, <2>3, <2>4
  <2>6. ASSUME NEW i \in Cells
        PROVE  flash'.cell[i] = IF at # i + 1 THEN flash.cell[i]
                                ELSE IF i <= Count[b] THEN b ELSE NoBlob
    <3>1. i \in Nat /\ (at = i + 1 <=> i = at - 1)
      BY <1>3, <1>4 DEF Cells
    <3>2. flash'.cell[i] = IF i = at - 1 THEN NoBlob ELSE flash.cell[i]
      BY <2>1, <2>3, <2>4
    <3> QED
      BY <1>3, <1>4, <1>9, <3>1, <3>2
  <2> QED
    BY <1>3, <1>4, <1>9, <2>3, <2>5, <2>6
<1> QED
  BY <1>3, <1>4, <1>6, <1>7, <1>8, <1>9

LEMMA SaveKeeps == ASSUME StoreInv, NEW fails \in BOOLEAN, Save(fails) PROVE StoreInv'
<1>1. Running /\ saving.at < Done /\ UNCHANGED <<held, recent>>
  BY DEF Save
<1>2. /\ saving \in [of : Schedules, at : 0 .. Done, lost : {"nothing", "write", "deletion"}]
      /\ saving.of \in Blobs
  BY <1>1 DEF StoreInv, StoreTypes, Running, Schedules
<1>3. saving.at \in Nat /\ Done \in Nat
  BY <1>2, Sizes
<1>4. CASE ~fails
  <2>1. flash' = Written(flash, saving.at) /\ saving' = [saving EXCEPT !.at = @ + 1]
    BY <1>4 DEF Save
  <2>2. /\ saving' \in [of : Schedules, at : 0 .. Done,
                        lost : {"nothing", "write", "deletion"}]
        /\ saving'.of = saving.of /\ saving'.at = saving.at + 1 /\ saving'.lost = saving.lost
    BY <1>1, <1>2, <1>3, <2>1
  <2>3. StoreTypes'
    BY <1>1, <2>1, <2>2, WrittenCells DEF StoreInv, StoreTypes
  <2>4. Count[saving.of] \in Nat /\ \A i \in Cells : i \in Nat
    BY <1>2, Sizes DEF Cells
  <2>5. SaveSoFar'
    <3> DEFINE b == saving.of
    <3>1. b \in recent' /\ held' = Pushed(b)
      BY <1>1 DEF StoreInv, SaveSoFar
    <3>2. saving'.lost # "write"
      BY <1>1, <1>3, <2>2 DEF StoreInv, SaveSoFar
    <3>3. ASSUME saving.lost # "write"
          PROVE  /\ saving'.at > 0 => flash'.crc = b
                 /\ saving'.at > 1 => flash'.n = Count[b]
      BY <1>1, <1>3, <2>1, <2>2, <3>3, WrittenCells DEF StoreInv, SaveSoFar
    <3>4. ASSUME NEW i \in Cells, i + 1 < saving'.at
          PROVE  /\ saving.lost # "write" /\ i <= Count[b] => flash'.cell[i] = b
                 /\ saving.lost = "nothing" /\ i > Count[b] => flash'.cell[i] = NoBlob
      <4>1. flash'.cell[i] = IF saving.at # i + 1 THEN flash.cell[i]
                             ELSE IF i <= Count[b] THEN b ELSE NoBlob
        BY <1>1, <2>1, WrittenCells
      <4>2. saving.at # i + 1 => i + 1 < saving.at
        BY <1>3, <2>2, <2>4, <3>4
      <4>3. i <= Count[b] <=> ~(i > Count[b])
        BY <2>4
      <4> QED
        BY <1>1, <4>1, <4>2, <4>3 DEF StoreInv, SaveSoFar
    <3> QED
      BY <2>2, <3>1, <3>2, <3>3, <3>4 DEF SaveSoFar
  <2>6. RecordsAreRecent'
    BY <1>1, <2>1, WrittenCells DEF StoreInv, SaveSoFar, RecordsAreRecent
  <2>7. NoResurrection'
    BY <1>1 DEF StoreInv, NoResurrection
  <2> QED
    BY <2>3, <2>5, <2>6, <2>7 DEF StoreInv
<1>5. CASE fails
  <2>1. /\ flash' = flash
        /\ saving' = IF saving.at < Len(held.events) + 2
                     THEN [saving EXCEPT !.at = Done, !.lost = "write"]
                     ELSE [saving EXCEPT !.at = @ + 1, !.lost = "deletion"]
    BY <1>5 DEF Save
  <2>2. /\ saving' \in [of : Schedules, at : 0 .. Done,
                        lost : {"nothing", "write", "deletion"}]
        /\ saving'.of = saving.of /\ saving'.lost # "nothing"
    <3>1. CASE saving' = [saving EXCEPT !.at = Done, !.lost = "write"]
      BY <1>2, <3>1, Sizes
    <3>2. CASE saving' = [saving EXCEPT !.at = saving.at + 1, !.lost = "deletion"]
      <4>1. saving.at + 1 \in 0 .. Done
        BY <1>1, <1>3
      <4> QED
        BY <1>2, <3>2, <4>1
    <3> QED
      BY <2>1, <3>1, <3>2
  <2>3. Len(held.events) = Count[saving.of] /\ Count[saving.of] \in Nat
    BY <1>1, <1>2, PushedType, Sizes DEF StoreInv, SaveSoFar
  <2>4. saving'.lost # "write" =>
          saving'.at = saving.at + 1 /\ saving.at >= Count[saving.of] + 2
    <3>1. CASE saving.at < Len(held.events) + 2
      BY <1>2, <2>1, <3>1
    <3>2. CASE ~(saving.at < Len(held.events) + 2)
      BY <1>2, <1>3, <2>1, <2>3, <3>2
    <3> QED
      BY <3>1, <3>2
  <2> QED
    <3>1. StoreTypes'
      BY <1>1, <2>1, <2>2 DEF StoreInv, StoreTypes
    <3>2. SaveSoFar'
      <4> DEFINE b == saving.of
      <4>1. b \in recent' /\ held' = Pushed(b)
        BY <1>1 DEF StoreInv, SaveSoFar
      <4>2. saving'.lost = "write" => saving'.at = Done
        BY <1>2, <2>1
      <4>3. ASSUME saving'.lost # "write"
            PROVE  /\ flash.crc = b /\ flash.n = Count[b]
                   /\ \A i \in Cells : i <= Count[b] => flash.cell[i] = b
        <5>1. saving.at > 0 /\ saving.at > 1 /\ saving.at # Done
          BY <1>1, <1>3, <2>3, <2>4, <4>3
        <5>2. \A i \in Cells : i <= Count[b] => i + 1 < saving.at
          BY <1>3, <2>3, <2>4, <4>3, Sizes DEF Cells
        <5> QED
          BY <1>1, <5>1, <5>2 DEF StoreInv, SaveSoFar
      <4> QED
        BY <2>1, <2>2, <4>1, <4>2, <4>3 DEF SaveSoFar
    <3>3. RecordsAreRecent' /\ NoResurrection'
      BY <1>1, <2>1 DEF StoreInv, RecordsAreRecent, NoResurrection
    <3> QED
      BY <3>1, <3>2, <3>3 DEF StoreInv
<1> QED
  BY <1>4, <1>5

LEMMA EndDoneKeeps == ASSUME StoreInv, EndDone PROVE StoreInv'
<1>1. /\ Running /\ saving.at = Done /\ UNCHANGED <<held, flash>>
      /\ saving' = [NotSaving EXCEPT !.lost = saving.lost]
      /\ recent' = IF saving.lost = "nothing" THEN {saving.of} ELSE recent
  BY DEF EndDone
<1>2. saving.of \in Blobs /\ saving.of \in recent /\ held = Pushed(saving.of)
  BY <1>1 DEF StoreInv, StoreTypes, SaveSoFar, Running, Schedules
<1>3. StoreTypes'
  BY <1>1, <1>2, Sizes DEF StoreInv, StoreTypes, NotSaving
<1>4. SaveSoFar'
  BY <1>1 DEF SaveSoFar, Running, NotSaving
<1>5. RecordsAreRecent'
  <2>1. CASE saving.lost = "nothing"
    <3>1. \A i \in Cells : i + 1 < saving.at /\ i \in Nat
      BY <1>1, Sizes DEF Cells
    <3>2. \A i \in Cells : flash.cell[i] \in {saving.of, NoBlob}
      BY <1>1, <1>2, <2>1, <3>1, Sizes DEF StoreInv, SaveSoFar
    <3> QED
      BY <1>1, <2>1, <3>2 DEF RecordsAreRecent
  <2>2. CASE saving.lost # "nothing"
    BY <1>1, <2>2 DEF StoreInv, RecordsAreRecent
  <2> QED
    BY <2>1, <2>2
<1>6. NoResurrection'
  BY <1>1, <1>2, PushedType DEF StoreInv, NoResurrection
<1> QED
  BY <1>3, <1>4, <1>5, <1>6 DEF StoreInv

LEMMA ResetKeeps == ASSUME StoreInv, Reset PROVE StoreInv'
<1>1. saving' = NotSaving /\ held' = Loaded /\ UNCHANGED <<flash, recent>>
  BY DEF Reset
<1>2. StoreTypes'
  BY <1>1, LoadedType, Sizes DEF StoreInv, StoreTypes, NotSaving
<1>3. SaveSoFar'
  BY <1>1 DEF SaveSoFar, Running, NotSaving
<1>4. RecordsAreRecent' /\ NoResurrection'
  BY <1>1, LoadedType DEF StoreInv, RecordsAreRecent, NoResurrection
<1> QED
  BY <1>2, <1>3, <1>4 DEF StoreInv

LEMMA StoreInit == Init => StoreInv
<1> SUFFICES ASSUME Init PROVE StoreInv
  OBVIOUS
<1>1. /\ saving = NotSaving /\ held = [crc |-> NoBlob, events |-> <<>>] /\ recent = {}
      /\ flash = [crc |-> NoBlob, n |-> 0, cell |-> [i \in Cells |-> NoBlob]]
  BY DEF Init
<1> QED
  BY <1>1, Sizes DEF StoreInv, StoreTypes, SaveSoFar, Running, NotSaving,
                     RecordsAreRecent, NoResurrection

LEMMA StoreKeeps == StoreInv /\ [Next]_vars => StoreInv'
<1> SUFFICES ASSUME StoreInv, [Next]_vars PROVE StoreInv'
  OBVIOUS
<1>1. CASE UNCHANGED store
  BY <1>1 DEF store, StoreInv, StoreTypes, SaveSoFar, Running, RecordsAreRecent,
              NoResurrection
<1>2. CASE RunEnd \/ EndDone \/ Reset \/ \E fails \in BOOLEAN : Save(fails)
  BY <1>2, RunEndKeeps, EndDoneKeeps, ResetKeeps, SaveKeeps
<1>3. CASE Connect \/ Disconnect \/ OtherDisconnect \/ End \/ Abort \/ AppTakes \/ Stick
  BY <1>1, <1>3 DEF Connect, Disconnect, OtherDisconnect, End, Abort, AppTakes, Stick
<1>4. CASE \/ \E b \in Blobs : Begin(b)
           \/ \E v \in Settings : WriteSettings(v)
           \/ \E lost \in BOOLEAN : Data(lost)
  BY <1>1, <1>4 DEF Begin, WriteSettings, Data
<1>5. CASE RunAck \/ RunSettings \/ RunAdv \/ RunEndRefused
  BY <1>1, <1>5 DEF RunAck, RunSettings, RunAdv, RunEndRefused
<1>6. CASE UNCHANGED vars
  BY <1>1, <1>6 DEF vars
<1> QED
  BY <1>2, <1>3, <1>4, <1>5, <1>6 DEF Next, Work

\* A restart, wherever it hits a save and whatever writes have failed, brings
\* back no event from before the schedule that was saved last
\* (impulse_storage_save_schedule and load_cb).
THEOREM NothingResurrected == Spec => []NoResurrection
<1>1. StoreInv => NoResurrection
  BY DEF StoreInv
<1> QED
  BY <1>1, StoreInit, StoreKeeps, PTL DEF Spec

-----------------------------------------------------------------------------
(* The link, the workqueue and the app.                                    *)

\* Nothing that waits to be told over the acknowledgement item accepts a
\* schedule: only the end of its handler does.
AckIsNotEnd ==
  "ack" \in ToSet(queue) => ack \in Answers /\ ~(ack.to = "end" /\ ack.says = "accepted")

LinkTypes ==
  /\ trouble \in Troubles /\ link \in BOOLEAN /\ adv \in BOOLEAN /\ stuck \in BOOLEAN
  /\ slot \in Settings \cup {NoBlob}
  /\ xfer \in [active : BOOLEAN, got : Seq(Names \X Nat)] /\ Len(xfer.got) <= BufMax
  /\ ack \in Answers \cup {NoBlob}
  /\ queue \in Seq(Items) /\ IsInjective(queue)
  /\ notes \in Seq(Answers)
  /\ app \in [does : Doing, blob : Names, sent : Nat]

LinkInv == LinkTypes /\ AckIsNotEnd

LEMMA SubmitType ==
  ASSUME NEW item \in Items, queue \in Seq(Items), IsInjective(queue)
  PROVE  /\ Submit(queue, item) \in Seq(Items) /\ IsInjective(Submit(queue, item))
         /\ ToSet(Submit(queue, item)) = ToSet(queue) \cup {item}
<1>1. CASE item \in ToSet(queue)
  BY <1>1 DEF Submit
<1>2. CASE item \notin ToSet(queue)
  <2>1. Submit(queue, item) = Append(queue, item)
    BY <1>2 DEF Submit
  <2>2. \A i \in 1 .. Len(queue) : queue[i] # item
    BY <1>2 DEF ToSet
  <2>3. /\ Len(Append(queue, item)) = Len(queue) + 1
        /\ \A i \in 1 .. Len(queue) : Append(queue, item)[i] = queue[i]
        /\ Append(queue, item)[Len(queue) + 1] = item
    OBVIOUS
  <2>4. IsInjective(Append(queue, item))
    BY <2>2, <2>3 DEF IsInjective
  <2>5. ToSet(Append(queue, item)) = ToSet(queue) \cup {item}
    BY <2>3 DEF ToSet
  <2> QED
    BY <2>1, <2>4, <2>5
<1> QED
  BY <1>1, <1>2

LEMMA TailType ==
  ASSUME queue \in Seq(Items), IsInjective(queue), queue # <<>>
  PROVE  /\ Tail(queue) \in Seq(Items) /\ IsInjective(Tail(queue))
         /\ ToSet(Tail(queue)) \subseteq ToSet(queue) \ {Head(queue)}
         /\ Head(queue) \in ToSet(queue)
<1>1. /\ Len(queue) \in Nat /\ Len(queue) > 0 /\ Len(Tail(queue)) = Len(queue) - 1
      /\ \A i \in 1 .. Len(queue) - 1 : Tail(queue)[i] = queue[i + 1]
      /\ Head(queue) = queue[1]
  OBVIOUS
<1>2. \A i, j \in 1 .. Len(queue) : queue[i] = queue[j] => i = j
  BY DEF IsInjective
<1>3. IsInjective(Tail(queue))
  BY <1>1, <1>2 DEF IsInjective
<1>4. \A i \in 1 .. Len(queue) - 1 : i + 1 \in 1 .. Len(queue) /\ i + 1 # 1
  BY <1>1
<1>5. ToSet(Tail(queue)) \subseteq ToSet(queue) \ {Head(queue)}
  BY <1>1, <1>2, <1>4 DEF ToSet
<1>6. 1 \in DOMAIN queue /\ Head(queue) = queue[1]
  BY <1>1
<1>7. Head(queue) \in ToSet(queue)
  BY <1>6 DEF ToSet
<1> QED
  BY <1>3, <1>5, <1>7

\* What the handlers answer is an answer.
LEMMA AnswerType ==
  ASSUME LinkInv, NEW says \in Verdicts, NEW to \in Doing \ {"idle", "data"}
  PROVE  Answer(says, to) \in Answers /\ Answer(says, to).says = says
BY DEF LinkInv, LinkTypes, Answer, Answers, Names

LEMMA NotifyType ==
  ASSUME LinkInv, NEW a \in Answers, Notify(a)
  PROVE  /\ notes' \in Seq(Answers)
         /\ Len(notes') > Len(notes) => Last(notes') = a
BY DEF LinkInv, LinkTypes, Notify, Last

LEMMA NothingQueued ==
  <<>> \in Seq(Items) /\ <<>> \in Seq(Answers) /\ IsInjective(<<>>) /\ ToSet(<<>>) = {}
BY DEF IsInjective, ToSet

LEMMA XferEnded == Ended \in [active : BOOLEAN, got : Seq(Names \X Nat)] /\ Len(Ended.got) <= BufMax
BY TransferAssumption DEF Ended

-----------------------------------------------------------------------------

LEMMA LinksKeep ==
  ASSUME LinkInv, Connect \/ Disconnect \/ OtherDisconnect PROVE LinkInv'
<1>1. Idle \in [does : Doing, blob : Names, sent : Nat]
  BY DEF Idle, Doing, Names
<1>2. CASE Connect
  BY <1>1, <1>2 DEF Connect, LinkInv, LinkTypes, AckIsNotEnd
<1>3. "adv" \in Items /\ "adv" # "ack"
  BY DEF Items
<1>4. CASE Disconnect
  <2>1. xfer' = Ended /\ notes' = <<>> /\ queue' = Submit(queue, "adv") /\ app' = Idle
    BY <1>4 DEF Disconnect, Ended
  <2>2. /\ queue' \in Seq(Items) /\ IsInjective(queue')
        /\ ToSet(queue') = ToSet(queue) \cup {"adv"}
    BY <1>3, <2>1, SubmitType DEF LinkInv, LinkTypes
  <2> QED
    BY <1>1, <1>3, <1>4, <2>1, <2>2, XferEnded, NothingQueued
       DEF Disconnect, LinkInv, LinkTypes, AckIsNotEnd
<1>5. CASE OtherDisconnect
  BY <1>3, <1>5, SubmitType DEF OtherDisconnect, LinkInv, LinkTypes, AckIsNotEnd
<1> QED
  BY <1>2, <1>4, <1>5

LEMMA BeginKeeps == ASSUME LinkInv, NEW b \in Blobs, Begin(b) PROVE LinkInv'
<1>1. app' \in [does : Doing, blob : Names, sent : Nat]
  BY DEF Begin, Doing, Names
<1>2. xfer' \in [active : BOOLEAN, got : Seq(Names \X Nat)] /\ Len(xfer'.got) <= BufMax
  <2>1. CASE xfer' = [xfer EXCEPT !.active = FALSE]
    BY <2>1 DEF LinkInv, LinkTypes
  <2>2. CASE xfer' = [active |-> TRUE, got |-> <<>>]
    BY <2>2, TransferAssumption
  <2> QED
    BY <2>1, <2>2 DEF Begin
<1>3. ack' \in Answers /\ ack'.to # "end"
  BY DEF Begin, Answers, Verdicts, Doing
<1>4. /\ queue' \in Seq(Items) /\ IsInjective(queue')
  BY SubmitType DEF Begin, LinkInv, LinkTypes, Items
<1> QED
  BY <1>1, <1>2, <1>3, <1>4 DEF Begin, LinkInv, LinkTypes, AckIsNotEnd

LEMMA DataKeeps == ASSUME LinkInv, NEW lost \in BOOLEAN, Data(lost) PROVE LinkInv'
<1>1. app' = [app EXCEPT !.sent = @ + 1] /\ app' \in [does : Doing, blob : Names, sent : Nat]
  BY DEF Data, LinkInv, LinkTypes
<1>2. xfer' \in [active : BOOLEAN, got : Seq(Names \X Nat)] /\ Len(xfer'.got) <= BufMax
  <2>1. CASE xfer' = xfer
    BY <2>1 DEF LinkInv, LinkTypes
  <2>2. CASE xfer' = [xfer EXCEPT !.active = FALSE]
    BY <2>2 DEF LinkInv, LinkTypes
  <2>3. CASE HasRoom /\ xfer' = [xfer EXCEPT !.got = Append(@, <<app.blob, app'.sent>>)]
    <3>1. <<app.blob, app'.sent>> \in Names \X Nat
      BY <1>1 DEF LinkInv, LinkTypes
    <3>2. Append(xfer.got, <<app.blob, app'.sent>>) \in Seq(Names \X Nat)
      BY <3>1 DEF LinkInv, LinkTypes
    <3>3. Len(Append(xfer.got, <<app.blob, app'.sent>>)) <= BufMax
      BY <2>3, <3>1, TransferAssumption DEF HasRoom, LinkInv, LinkTypes
    <3> QED
      BY <2>3, <3>2, <3>3 DEF LinkInv, LinkTypes
  <2> QED
    BY <2>1, <2>2, <2>3 DEF Data
<1> QED
  BY <1>1, <1>2 DEF Data, LinkInv, LinkTypes, AckIsNotEnd

\* sched_ctrl_ack, for anything but the acceptance of a schedule.
LEMMA AckKeeps ==
  ASSUME LinkInv, NEW says \in Verdicts, NEW to \in Doing \ {"idle", "data"},
         Ack(says, to), says = "accepted" => to # "end"
  PROVE  /\ ack' \in Answers /\ ~(ack'.to = "end" /\ ack'.says = "accepted")
         /\ queue' \in Seq(Items) /\ IsInjective(queue')
<1>1. ack' = Answer(says, to) /\ Answer(says, to).to = to
  BY DEF Ack, Answer
<1>2. queue' \in Seq(Items) /\ IsInjective(queue')
  BY SubmitType DEF Ack, Items, LinkInv, LinkTypes
<1> QED
  BY <1>1, <1>2, AnswerType

LEMMA ControlsKeep ==
  ASSUME LinkInv, End \/ Abort \/ \E v \in Settings : WriteSettings(v) PROVE LinkInv'
<1>0. {"end", "abort"} \subseteq Doing \ {"idle", "data"}
      /\ {"accepted", "failed"} \subseteq Verdicts /\ "failed" # "accepted"
  BY DEF Doing, Verdicts
<1>1. CASE End
  <2>1. app' \in [does : Doing, blob : Names, sent : Nat]
    BY <1>0, <1>1 DEF End, LinkInv, LinkTypes
  <2>2. CASE UNCHANGED <<xfer, ack, queue>>
    BY <1>1, <2>1, <2>2 DEF End, LinkInv, LinkTypes, AckIsNotEnd
  <2>3. CASE queue' = Submit(queue, "end") /\ UNCHANGED <<xfer, ack>>
    <3>1. "end" \in Items /\ "end" # "ack"
      BY DEF Items
    <3> QED
      BY <1>1, <2>1, <2>3, <3>1, SubmitType DEF End, LinkInv, LinkTypes, AckIsNotEnd
  <2>4. CASE xfer' = Ended /\ Ack("failed", "end")
    BY <1>0, <1>1, <2>1, <2>4, AckKeeps, XferEnded DEF End, LinkInv, LinkTypes, AckIsNotEnd
  <2> QED
    BY <1>1, <2>2, <2>3, <2>4 DEF End, Checked, Ended
<1>2. CASE Abort
  <2>1. app' \in [does : Doing, blob : Names, sent : Nat]
    BY <1>0, <1>2 DEF Abort, LinkInv, LinkTypes
  <2>2. xfer' = Ended /\ Ack("accepted", "abort")
    BY <1>2 DEF Abort, Ended
  <2> QED
    BY <1>0, <1>2, <2>1, <2>2, AckKeeps, XferEnded DEF Abort, LinkInv, LinkTypes, AckIsNotEnd
<1>3. ASSUME NEW v \in Settings, WriteSettings(v) PROVE LinkInv'
  <2>1. app' \in [does : Doing, blob : Names, sent : Nat]
    BY <1>3 DEF WriteSettings, Doing, Names
  <2>2. "settings" \in Items /\ "settings" # "ack"
    BY DEF Items
  <2> QED
    BY <1>3, <2>1, <2>2, SubmitType DEF WriteSettings, LinkInv, LinkTypes, AckIsNotEnd
<1> QED
  BY <1>1, <1>2, <1>3

LEMMA TakesKeeps == ASSUME LinkInv, AppTakes PROVE LinkInv'
<1>1. notes' \in Seq(Answers)
  BY DEF AppTakes, LinkInv, LinkTypes
<1>2. app' \in [does : Doing, blob : Names, sent : Nat]
  BY DEF AppTakes, LinkInv, LinkTypes, Idle, Doing, Names
<1> QED
  BY <1>1, <1>2 DEF AppTakes, LinkInv, LinkTypes, AckIsNotEnd

-----------------------------------------------------------------------------

\* A work item leaves the queue: the acknowledgement is not in it twice.
LEMMA RunsType ==
  ASSUME LinkInv, NEW item, Runs(item)
  PROVE  /\ queue' \in Seq(Items) /\ IsInjective(queue')
         /\ item \in ToSet(queue) /\ ToSet(queue') \subseteq ToSet(queue) \ {item}
BY TailType DEF Runs, LinkInv, LinkTypes

LEMMA WorkKeeps ==
  ASSUME LinkInv, StoreInv, Work
  PROVE  /\ LinkInv'
         /\ Len(notes') > Len(notes) =>
              \/ EndDone /\ Last(notes') = Accepts(saving.of)
              \/ Last(notes').to # "end" \/ Last(notes').says # "accepted"
<1>1. CASE RunAck
  <2>1. /\ queue' \in Seq(Items) /\ IsInjective(queue')
        /\ "ack" \in ToSet(queue) /\ "ack" \notin ToSet(queue')
    BY <1>1, RunsType DEF RunAck
  <2>2. ack \in Answers /\ (ack.to # "end" \/ ack.says # "accepted")
    BY <2>1 DEF LinkInv, AckIsNotEnd
  <2>3. notes' \in Seq(Answers) /\ (Len(notes') > Len(notes) => Last(notes') = ack)
    BY <1>1, <2>2, NotifyType DEF RunAck
  <2> QED
    BY <1>1, <2>1, <2>2, <2>3 DEF RunAck, LinkInv, LinkTypes, AckIsNotEnd
<1>2. CASE RunSettings
  <2> DEFINE a == [says |-> "accepted", to |-> "settings", blob |-> slot]
  <2>1. a \in Answers /\ a.to # "end"
    BY DEF Answers, Verdicts, Doing, LinkInv, LinkTypes
  <2>2. notes' \in Seq(Answers) /\ (Len(notes') > Len(notes) => Last(notes') = a)
    BY <1>2, <2>1, NotifyType DEF RunSettings
  <2>3. /\ queue' \in Seq(Items) /\ IsInjective(queue')
        /\ ToSet(queue') \subseteq ToSet(queue)
    BY <1>2, RunsType DEF RunSettings
  <2> QED
    BY <1>2, <2>1, <2>2, <2>3 DEF RunSettings, LinkInv, LinkTypes, AckIsNotEnd
<1>3. CASE RunAdv
  <2>1. /\ queue' \in Seq(Items) /\ IsInjective(queue')
        /\ ToSet(queue') \subseteq ToSet(queue)
    BY <1>3, RunsType DEF RunAdv
  <2>2. notes' = notes /\ ~(Len(notes') > Len(notes))
    BY <1>3 DEF RunAdv, LinkInv, LinkTypes
  <2> QED
    BY <1>3, <2>1, <2>2 DEF RunAdv, LinkInv, LinkTypes, AckIsNotEnd
<1>4. CASE RunEndRefused
  <2> DEFINE v == IF Received = {} THEN "failed" ELSE "rejected"
  <2>0. v \in Verdicts /\ v # "accepted" /\ "end" \in Doing \ {"idle", "data"}
    BY DEF Verdicts, Doing
  <2>1. Answer(v, "end") \in Answers /\ Answer(v, "end").says = v
    BY <2>0, AnswerType
  <2>2. notes' \in Seq(Answers) /\ (Len(notes') > Len(notes) => Last(notes') = Answer(v, "end"))
    BY <1>4, <2>1, NotifyType DEF RunEndRefused
  <2>3. /\ queue' \in Seq(Items) /\ IsInjective(queue')
        /\ ToSet(queue') \subseteq ToSet(queue)
    BY <1>4, RunsType DEF RunEndRefused
  <2> QED
    BY <1>4, <2>0, <2>1, <2>2, <2>3, XferEnded
       DEF RunEndRefused, LinkInv, LinkTypes, AckIsNotEnd
<1>5. CASE RunEnd
  <2>1. /\ queue' \in Seq(Items) /\ IsInjective(queue')
        /\ ToSet(queue') \subseteq ToSet(queue)
    BY <1>5, RunsType DEF RunEnd
  <2>2. notes' = notes /\ ~(Len(notes') > Len(notes))
    BY <1>5 DEF RunEnd, LinkInv, LinkTypes
  <2> QED
    BY <1>5, <2>1, <2>2 DEF RunEnd, LinkInv, LinkTypes, AckIsNotEnd
<1>6. CASE EndDone
  <2>1. Accepts(saving.of) \in Answers
    BY <1>6 DEF EndDone, Accepts, Answers, Verdicts, Doing, Running, StoreInv, StoreTypes,
                Schedules
  <2>2. /\ notes' \in Seq(Answers)
        /\ Len(notes') > Len(notes) => Last(notes') = Accepts(saving.of)
    BY <1>6, <2>1, NotifyType DEF EndDone
  <2> QED
    BY <1>6, <2>2, XferEnded DEF EndDone, LinkInv, LinkTypes, AckIsNotEnd
<1>7. ASSUME NEW fails \in BOOLEAN, Save(fails)
      PROVE  LinkInv' /\ ~(Len(notes') > Len(notes))
  BY <1>7 DEF Save, LinkInv, LinkTypes, AckIsNotEnd
<1> QED
  BY <1>1, <1>2, <1>3, <1>4, <1>5, <1>6, <1>7 DEF Work

LEMMA RestartsKeep == ASSUME LinkInv, Stick \/ Reset PROVE LinkInv'
<1>1. CASE Stick
  BY <1>1 DEF Stick, LinkInv, LinkTypes, AckIsNotEnd
<1>2. CASE Reset
  <2>1. Idle \in [does : Doing, blob : Names, sent : Nat]
    BY DEF Idle, Doing, Names
  <2>2. /\ xfer' = Ended /\ queue' = <<>> /\ notes' = <<>> /\ app' = Idle
        /\ link' = FALSE /\ adv' = TRUE /\ stuck' = FALSE
        /\ slot' = NoBlob /\ ack' = NoBlob /\ trouble' = trouble
    BY <1>2 DEF Reset
  <2>3. LinkTypes'
    BY <2>1, <2>2, XferEnded, NothingQueued DEF LinkInv, LinkTypes
  <2> QED
    BY <2>2, <2>3, NothingQueued DEF LinkInv, AckIsNotEnd
<1> QED
  BY <1>1, <1>2

LEMMA LinkInit == Init => LinkInv
<1> SUFFICES ASSUME Init PROVE LinkInv
  OBVIOUS
<1>1. Idle \in [does : Doing, blob : Names, sent : Nat]
  BY DEF Idle, Doing, Names
<1>2. /\ xfer = Ended /\ queue = <<>> /\ notes = <<>> /\ app = Idle
      /\ link = FALSE /\ adv = TRUE /\ stuck = FALSE
      /\ slot = NoBlob /\ ack = NoBlob /\ trouble \in Troubles
  BY DEF Init, Ended
<1>3. LinkTypes
  BY <1>1, <1>2, XferEnded, NothingQueued DEF LinkTypes
<1> QED
  BY <1>2, <1>3, NothingQueued DEF LinkInv, AckIsNotEnd

LEMMA LinkKeeps == StoreInv /\ LinkInv /\ [Next]_vars => LinkInv'
<1> SUFFICES ASSUME StoreInv, LinkInv, [Next]_vars PROVE LinkInv'
  OBVIOUS
<1>1. CASE UNCHANGED vars
  BY <1>1 DEF vars, LinkInv, LinkTypes, AckIsNotEnd
<1> QED
  BY <1>1, LinksKeep, BeginKeeps, DataKeeps, ControlsKeep, TakesKeeps, WorkKeeps,
     RestartsKeep DEF Next

\* Every variable keeps its type; the buffer of a transfer never overflows.
THEOREM TransferTypes == Spec => []TypeOK
<1>1. StoreInv /\ LinkInv => TypeOK
  BY DEF StoreInv, StoreTypes, LinkInv, LinkTypes, TypeOK, Items, Doing
<1> QED
  BY <1>1, StoreInit, StoreKeeps, LinkInit, LinkKeeps, PTL DEF Spec

-----------------------------------------------------------------------------
(* What an acceptance promises.                                            *)

\* When a save ends that no write failed, what a boot loads is what it saved.
LEMMA SavedIsLoaded ==
  ASSUME StoreInv, Running, saving.at = Done, saving.lost # "write"
  PROVE  held = Pushed(saving.of) /\ Loaded = Pushed(saving.of)
<1> DEFINE b == saving.of
<1>1. b \in Blobs /\ held = Pushed(b)
  BY DEF StoreInv, StoreTypes, SaveSoFar, Running, Schedules
<1>2. Count[b] \in Nat /\ Count[b] <= MaxEvents /\ Done = MaxEvents + 2 /\ MaxEvents \in Nat
  BY <1>1, Sizes
<1>3. flash.crc = b /\ flash.n = Count[b]
  BY <1>2 DEF StoreInv, SaveSoFar
<1>4. \A i \in 1 .. Count[b] : i \in Cells /\ i + 1 < Done
  BY <1>2 DEF Cells
<1>5. \A i \in 1 .. Count[b] : flash.cell[i] = b
  BY <1>2, <1>4 DEF StoreInv, SaveSoFar
<1>6. [i \in 1 .. flash.n |-> flash.cell[i]] = [i \in 1 .. Count[b] |-> b]
  BY <1>3, <1>5
<1> QED
  BY <1>1, <1>3, <1>6 DEF Loaded, Pushed

\* The step of AcceptedIsSaved.
Told ==
  Len(notes') > Len(notes) =>
    LET a == Last(notes')
    IN  a.to = "end" /\ a.says = "accepted"
          => /\ held' = Pushed(a.blob)
             /\ held' = Loaded' \/ saving'.lost = "write"

LEMMA ToldHolds == StoreInv /\ LinkInv /\ [Next]_vars => [Told]_vars
<1> SUFFICES ASSUME StoreInv, LinkInv, [Next]_vars, Len(notes') > Len(notes),
                    Last(notes').to = "end", Last(notes').says = "accepted"
             PROVE  /\ held' = Pushed(Last(notes').blob)
                    /\ held' = Loaded' \/ saving'.lost = "write"
  BY DEF Told
<1>1. Len(notes) \in Nat /\ (notes # <<>> => Len(Tail(notes)) < Len(notes))
  BY DEF LinkInv, LinkTypes
<1>2. ~AppTakes /\ notes' # notes
  BY <1>1 DEF AppTakes
<1>3. notes' # <<>>
  BY <1>1
<1>4. Work
  BY <1>2, <1>3 DEF Next, Connect, Disconnect, OtherDisconnect, End, Abort, Begin,
                    WriteSettings, Data, Stick, Reset, vars
<1>5. EndDone /\ Last(notes') = Accepts(saving.of)
  BY <1>4, WorkKeeps
<1>6. /\ Running /\ saving.at = Done /\ held' = held /\ Loaded' = Loaded
      /\ saving'.lost = saving.lost
  BY <1>5 DEF EndDone, Loaded, NotSaving
<1>7. held = Pushed(saving.of)
  BY <1>6 DEF StoreInv, SaveSoFar
<1> QED
  BY <1>5, <1>6, <1>7, SavedIsLoaded DEF Accepts

\* An app is told that its schedule is accepted only when the watch goes by it
\* and a restart would find it, unless a write to flash failed
\* (sched_end_work_handler and impulse_storage_save_schedule).
THEOREM AcceptedMeansSaved == Spec => AcceptedIsSaved
BY StoreInit, StoreKeeps, LinkInit, LinkKeeps, ToldHolds, PTL
   DEF Spec, AcceptedIsSaved, Told

-----------------------------------------------------------------------------
(* What an answer answers.  While an app is connected one thing at most is *)
(* under way, in the queue, in the saves or on the air, and it is for the  *)
(* request the app waits on; what an earlier link has left behind is in    *)
(* the queue before the restart of advertising, without which no app can   *)
(* connect.                                                                *)

Quiet == link => "adv" \notin ToSet(queue)

Silent == queue = <<>> /\ ~Running /\ notes = <<>>

Waiting(item) == queue = <<item>> /\ ~Running /\ notes = <<>>

OneAnswer ==
  \/ Silent
  \/ Waiting("ack") /\ Matches(ack)
  \/ Waiting("end") /\ app.does = "end" /\ xfer.got = Whole(app.blob)
  \/ Waiting("settings") /\ app.does = "settings" /\ slot = app.blob
  \/ /\ Running /\ queue = <<>> /\ notes = <<>>
     /\ app.does = "end" /\ saving.of = app.blob
  \/ /\ Len(notes) = 1 /\ Matches(Head(notes))
     /\ queue = <<>> /\ ~Running

CallInv ==
  /\ link => ~adv /\ OneAnswer
  /\ ~link => notes = <<>>
  /\ ~link /\ adv => queue \in {<<>>, <<"adv">>} /\ ~Running
  /\ ~link /\ ~adv => queue # <<>> /\ Last(queue) = "adv"

LEMMA SubmitOne ==
  ASSUME NEW item
  PROVE  Submit(<<>>, item) = <<item>> /\ Tail(<<item>>) = <<>> /\ Head(<<item>>) = item
BY NothingQueued DEF Submit

\* An app that is idle, or sends its pieces, waits for nothing.
LEMMA NothingAsked ==
  ASSUME LinkInv, CallInv, link, app.does \in {"idle", "data"}
  PROVE  Silent
<1>1. \A a \in Answers : a.to \notin {"idle", "data"}
  BY DEF Answers
<1>2. ~(Waiting("ack") /\ Matches(ack))
  <2> SUFFICES ASSUME Waiting("ack"), Matches(ack) PROVE FALSE
    OBVIOUS
  <2>1. "ack" \in ToSet(queue)
    BY DEF Waiting, ToSet
  <2> QED
    BY <1>1, <2>1 DEF LinkInv, AckIsNotEnd, Matches
<1>3. ~(Len(notes) = 1 /\ Matches(Head(notes)))
  BY <1>1 DEF LinkInv, LinkTypes, Matches
<1> QED
  BY <1>2, <1>3 DEF CallInv, OneAnswer

\* What was received is of one schedule.
LEMMA ReceivedIsOne ==
  ASSUME NEW b \in Received, NEW c, xfer.got = Whole(c)
  PROVE  b = c
<1>1. b \in Blobs /\ Whole(b) = Whole(c)
  BY DEF Received
<1>2. Pieces[b] \in Nat \ {0}
  BY <1>1, TransferAssumption
<1>3. 1 \in DOMAIN Whole(b) /\ Whole(b)[1] = <<b, 1>>
  BY <1>2 DEF Whole
<1>4. 1 \in DOMAIN Whole(c)
  BY <1>1, <1>3
<1>5. Whole(c)[1] = <<c, 1>>
  BY <1>4 DEF Whole
<1> QED
  BY <1>1, <1>3, <1>5

LEMMA CallLinks ==
  ASSUME LinkInv, CallInv, Quiet, Quiet', Connect \/ Disconnect \/ OtherDisconnect
  PROVE  CallInv'
<1>1. CASE Connect
  <2>1. link' /\ ~adv' /\ queue' = queue /\ notes' = <<>> /\ Running' = Running
    BY <1>1 DEF Connect, CallInv, store, Running
  <2>2. queue # <<"adv">>
    <3>1. "adv" \in ToSet(<<"adv">>)
      BY DEF ToSet
    <3> QED
      BY <2>1, <3>1 DEF Quiet
  <2>3. queue = <<>> /\ ~Running
    BY <1>1, <2>2 DEF Connect, CallInv
  <2>4. Silent'
    BY <2>1, <2>3 DEF Silent
  <2> QED
    BY <2>1, <2>4 DEF CallInv, OneAnswer
<1>2. CASE Disconnect
  <2>1. link /\ ~link' /\ notes' = <<>> /\ adv' = adv /\ queue' = Submit(queue, "adv")
    BY <1>2 DEF Disconnect
  <2>2. ~adv /\ "adv" \notin ToSet(queue)
    BY <2>1 DEF CallInv, Quiet
  <2>3. queue' = Append(queue, "adv")
    BY <2>1, <2>2 DEF Submit
  <2>4. queue' # <<>> /\ Last(queue') = "adv"
    <3>1. Len(queue) \in Nat /\ queue \in Seq(Items) /\ "adv" \in Items
      BY DEF LinkInv, LinkTypes, Items
    <3>2. Len(queue') = Len(queue) + 1 /\ queue'[Len(queue) + 1] = "adv"
      BY <2>3, <3>1
    <3>3. queue' # <<>>
      BY <2>3, <3>1
    <3> QED
      BY <3>2, <3>3 DEF Last
  <2> QED
    BY <2>1, <2>2, <2>4 DEF CallInv
<1>3. CASE OtherDisconnect
  <2>1. /\ queue' = Submit(queue, "adv") /\ link' = link /\ adv' = adv
        /\ notes' = notes /\ Running' = Running
    BY <1>3 DEF OtherDisconnect, store, Running
  <2>2. ~link
    <3>1. "adv" \in ToSet(queue')
      BY <2>1, SubmitType DEF LinkInv, LinkTypes, Items
    <3> QED
      BY <2>1, <3>1 DEF Quiet
  <2>3. CASE adv
    <3>1. queue \in {<<>>, <<"adv">>} /\ ~Running
      BY <2>2, <2>3 DEF CallInv
    <3>2. "adv" \in ToSet(<<"adv">>)
      BY DEF ToSet
    <3>3. queue' = <<"adv">>
      BY <2>1, <3>1, <3>2, SubmitOne DEF Submit
    <3> QED
      BY <2>1, <2>2, <2>3, <3>1, <3>3 DEF CallInv
  <2>4. CASE ~adv
    <3>1. queue # <<>> /\ Last(queue) = "adv"
      BY <2>2, <2>4 DEF CallInv
    <3>2. "adv" \in ToSet(queue)
      BY <3>1 DEF LinkInv, LinkTypes, Last, ToSet
    <3>3. queue' = queue
      BY <2>1, <3>2 DEF Submit
    <3> QED
      BY <2>1, <2>2, <2>4, <3>1, <3>3 DEF CallInv
  <2> QED
    BY <2>3, <2>4 DEF LinkInv, LinkTypes
<1> QED
  BY <1>1, <1>2, <1>3

LEMMA CallRequests ==
  ASSUME LinkInv, CallInv,
         \/ End \/ Abort \/ \E b \in Blobs : Begin(b)
         \/ \E v \in Settings : WriteSettings(v)
         \/ \E lost \in BOOLEAN : Data(lost)
  PROVE  CallInv'
<1>1. /\ link /\ link' = link /\ adv' = adv /\ notes' = notes
      /\ Running' = Running /\ app.does \in {"idle", "data"}
  BY DEF End, Abort, Begin, WriteSettings, Data, store, Running
<1>2. Silent
  BY <1>1, NothingAsked
<1>3. ~adv' /\ notes' = <<>> /\ ~Running' /\ queue = <<>> /\ link'
  BY <1>1, <1>2 DEF CallInv, Silent
<1>4. app \in [does : Doing, blob : Names, sent : Nat]
  BY DEF LinkInv, LinkTypes
<1> SUFFICES OneAnswer'
  BY <1>3 DEF CallInv
<1>5. ASSUME NEW b \in Blobs, Begin(b) PROVE OneAnswer'
  <2>1. queue' = <<"ack">>
    BY <1>3, <1>5, SubmitOne DEF Begin
  <2>2. ack'.to = "begin" /\ ack'.blob = b /\ app'.does = "begin" /\ app'.blob = b
    BY <1>5 DEF Begin
  <2> QED
    BY <1>3, <2>1, <2>2 DEF OneAnswer, Waiting, Matches
<1>6. ASSUME NEW v \in Settings, WriteSettings(v) PROVE OneAnswer'
  <2>1. queue' = <<"settings">>
    BY <1>3, <1>6, SubmitOne DEF WriteSettings
  <2>2. app'.does = "settings" /\ app'.blob = v /\ slot' = v
    BY <1>6 DEF WriteSettings
  <2> QED
    BY <1>3, <2>1, <2>2 DEF OneAnswer, Waiting
<1>7. ASSUME NEW lost \in BOOLEAN, Data(lost) PROVE OneAnswer'
  BY <1>3, <1>7 DEF Data, OneAnswer, Silent
<1>8. CASE Abort
  <2>1. ack'.to = "abort" /\ ack'.blob = app.blob /\ queue' = <<"ack">>
    BY <1>3, <1>8, SubmitOne DEF Abort, Ack, Answer
  <2>2. app'.does = "abort" /\ app'.blob = app.blob
    BY <1>4, <1>8 DEF Abort
  <2> QED
    BY <1>3, <2>1, <2>2 DEF OneAnswer, Waiting, Matches
<1>9. CASE End
  <2>1. app'.does = "end" /\ app'.blob = app.blob
    BY <1>4, <1>9 DEF End
  <2>2. CASE ~xfer.active
    BY <1>3, <1>9, <2>2 DEF End, OneAnswer, Silent
  <2>3. CASE xfer.active /\ xfer.got = Whole(app.blob)
    <3>1. queue' = <<"end">> /\ xfer' = xfer
      BY <1>3, <1>9, <2>3, SubmitOne DEF End, Checked
    <3>2. xfer'.got = Whole(app'.blob)
      BY <2>1, <2>3, <3>1
    <3> QED
      BY <1>3, <2>1, <3>1, <3>2 DEF OneAnswer, Waiting
  <2>4. CASE xfer.active /\ xfer.got # Whole(app.blob)
    <3>1. ack'.to = "end" /\ ack'.blob = app.blob /\ queue' = <<"ack">>
      BY <1>3, <1>9, <2>4, SubmitOne DEF End, Checked, Ack, Answer
    <3> QED
      BY <1>3, <2>1, <3>1 DEF OneAnswer, Waiting, Matches
  <2> QED
    BY <2>2, <2>3, <2>4
<1> QED
  BY <1>5, <1>6, <1>7, <1>8, <1>9

LEMMA CallTakes == ASSUME LinkInv, CallInv, AppTakes PROVE CallInv'
<1>1. /\ notes # <<>> /\ notes' = Tail(notes) /\ link' = link /\ adv' = adv
      /\ queue' = queue /\ Running' = Running
  BY DEF AppTakes, store, Running
<1>2. link
  BY <1>1 DEF CallInv, LinkInv, LinkTypes
<1>3. Len(notes) = 1 /\ queue = <<>> /\ ~Running /\ ~adv
  BY <1>1, <1>2 DEF CallInv, OneAnswer, Silent, Waiting
<1>4. notes' = <<>>
  BY <1>1, <1>3 DEF LinkInv, LinkTypes
<1> QED
  BY <1>1, <1>2, <1>3, <1>4 DEF CallInv, OneAnswer, Silent

\* A work item that runs: over a link, the one that the app waits for; without
\* one, a leftover, or the restart of advertising behind the last of them.
LEMMA RunsFirst ==
  ASSUME LinkInv, CallInv, NEW item, Runs(item)
  PROVE  /\ ~Running
         /\ link => Waiting(item) /\ queue' = <<>> /\ ~adv
         /\ ~link => /\ notes = <<>>
                     /\ item = "adv" => queue' = <<>>
                     /\ item # "adv" => ~adv /\ queue' # <<>> /\ Last(queue') = "adv"
<1>1. ~Running /\ queue # <<>> /\ Head(queue) = item /\ queue' = Tail(queue)
  BY DEF Runs
<1>2. CASE link
  <2>1. \E x \in {"ack", "end", "settings"} : Waiting(x)
    BY <1>1, <1>2 DEF CallInv, OneAnswer, Silent
  <2>2. PICK x : Waiting(x)
    BY <2>1
  <2>3. queue = <<x>>
    BY <2>2 DEF Waiting
  <2>4. x = item /\ queue' = <<>>
    BY <1>1, <2>3, SubmitOne
  <2> QED
    BY <1>1, <1>2, <2>2, <2>4 DEF CallInv
<1>3. CASE ~link /\ adv
  <2>1. queue = <<"adv">> /\ notes = <<>>
    BY <1>1, <1>3 DEF CallInv
  <2> QED
    BY <1>1, <1>3, <2>1, SubmitOne
<1>4. CASE ~link /\ ~adv
  <2>1. Last(queue) = "adv" /\ notes = <<>>
    BY <1>4 DEF CallInv
  <2> DEFINE n == Len(queue)
  <2>2. /\ n \in Nat /\ n > 0 /\ queue[n] = "adv" /\ queue[1] = item
        /\ Len(Tail(queue)) = n - 1
        /\ \A i \in 1 .. n - 1 : Tail(queue)[i] = queue[i + 1]
    BY <1>1, <2>1 DEF LinkInv, LinkTypes, Last
  <2>3. item = "adv" => n = 1
    <3>1. \A i, j \in 1 .. n : queue[i] = queue[j] => i = j
      BY DEF LinkInv, LinkTypes, IsInjective
    <3>2. 1 \in 1 .. n /\ n \in 1 .. n
      BY <2>2
    <3> QED
      BY <2>2, <3>1, <3>2
  <2>4. CASE n = 1
    <3>1. queue' = <<>>
      <4>1. queue' \in Seq(Items) /\ Len(queue') = 0
        BY <1>1, <2>2, <2>4, RunsType
      <4> QED
        BY <4>1
    <3>2. item = "adv"
      BY <2>2, <2>4
    <3> QED
      BY <1>1, <1>4, <2>1, <3>1, <3>2
  <2>5. CASE n # 1
    <3>1. n - 1 \in 1 .. n - 1 /\ n - 1 + 1 = n
      BY <2>2, <2>5
    <3>2. queue' # <<>> /\ Last(queue') = "adv"
      BY <1>1, <2>2, <3>1 DEF Last
    <3> QED
      BY <1>1, <1>4, <2>1, <2>3, <2>5, <3>2
  <2> QED
    BY <2>4, <2>5
<1> QED
  BY <1>2, <1>3, <1>4 DEF LinkInv, LinkTypes

\* What an item of the queue, or the end of a save, tells an app.
LEMMA CallNotifies ==
  ASSUME LinkInv, CallInv, NEW a, Notify(a), ~Running', link' = link, adv' = adv,
         link => /\ notes = <<>> /\ queue' = <<>>
                 /\ a.to = app'.does /\ a.blob = app'.blob,
         ~link => /\ adv => queue' \in {<<>>, <<"adv">>}
                  /\ ~adv => queue' # <<>> /\ Last(queue') = "adv"
  PROVE  CallInv'
<1>1. CASE link
  <2>1. notes' = <<a>>
    BY <1>1 DEF Notify
  <2>2. Len(notes') = 1 /\ Head(notes') = a
    BY <2>1
  <2>3. Matches(Head(notes))'
    BY <1>1, <2>2 DEF Matches
  <2> QED
    BY <1>1, <2>2, <2>3 DEF CallInv, OneAnswer
<1>2. CASE ~link
  <2>1. notes' = <<>>
    BY <1>2 DEF Notify, CallInv
  <2> QED
    BY <1>2, <2>1 DEF CallInv
<1> QED
  BY <1>1, <1>2

LEMMA CallWork ==
  ASSUME StoreInv, LinkInv, CallInv, Quiet, Work
  PROVE  CallInv'
<1>1. CASE RunAck
  <2>1. Runs("ack") /\ Notify(ack) /\ link' = link /\ adv' = adv /\ app' = app
        /\ Running' = Running
    BY <1>1 DEF RunAck, store, Running
  <2>2. link => Matches(ack) /\ Waiting("ack") /\ queue' = <<>>
    BY <2>1, RunsFirst DEF CallInv, OneAnswer, Silent, Waiting
  <2>3. /\ ~Running' /\ (link => notes = <<>>)
        /\ ~link => ~adv /\ queue' # <<>> /\ Last(queue') = "adv"
    BY <2>1, <2>2, RunsFirst DEF Waiting
  <2> QED
    BY <2>1, <2>2, <2>3, CallNotifies DEF Matches
<1>2. CASE RunSettings
  <2> DEFINE a == [says |-> "accepted", to |-> "settings", blob |-> slot]
  <2>1. Runs("settings") /\ Notify(a) /\ link' = link /\ adv' = adv /\ app' = app
        /\ Running' = Running
    BY <1>2 DEF RunSettings, store, Running
  <2>2. /\ link => /\ app.does = "settings" /\ app.blob = slot
                   /\ Waiting("settings") /\ queue' = <<>>
        /\ a.to = "settings" /\ a.blob = slot
    BY <2>1, RunsFirst DEF CallInv, OneAnswer, Silent, Waiting
  <2>3. /\ ~Running' /\ (link => notes = <<>>)
        /\ ~link => ~adv /\ queue' # <<>> /\ Last(queue') = "adv"
    BY <2>1, <2>2, RunsFirst DEF Waiting
  <2> HIDE DEF a
  <2> QED
    BY <2>1, <2>2, <2>3, CallNotifies
<1>3. CASE RunAdv
  <2>1. /\ Runs("adv") /\ adv' = ~link /\ link' = link /\ notes' = notes
        /\ Running' = Running
    BY <1>3 DEF RunAdv, store, Running
  <2>2. ~link
    BY <2>1, RunsType DEF Quiet
  <2> QED
    BY <2>1, <2>2, RunsFirst DEF CallInv
<1>4. CASE RunEndRefused
  <2> DEFINE a == Answer(IF Received = {} THEN "failed" ELSE "rejected", "end")
  <2>1. Runs("end") /\ Notify(a) /\ link' = link /\ adv' = adv /\ app' = app
        /\ Running' = Running
    BY <1>4 DEF RunEndRefused, store, Running
  <2>2. /\ link => app.does = "end" /\ Waiting("end") /\ queue' = <<>>
        /\ a.to = "end" /\ a.blob = app.blob
    BY <2>1, RunsFirst DEF CallInv, OneAnswer, Silent, Waiting, Answer
  <2>3. /\ ~Running' /\ (link => notes = <<>>)
        /\ ~link => ~adv /\ queue' # <<>> /\ Last(queue') = "adv"
    BY <2>1, <2>2, RunsFirst DEF Waiting
  <2> HIDE DEF a
  <2> QED
    BY <2>1, <2>2, <2>3, CallNotifies
<1>5. CASE RunEnd
  <2>1. PICK b \in Received : saving' = [of |-> b, at |-> 0, lost |-> "nothing"]
    BY <1>5 DEF RunEnd
  <2>2. /\ Runs("end") /\ link' = link /\ adv' = adv /\ notes' = notes
        /\ app' = app /\ xfer' = xfer
    BY <1>5 DEF RunEnd
  <2>3. CASE link
    <3>1. /\ Waiting("end") /\ queue' = <<>> /\ ~adv
          /\ app.does = "end" /\ xfer.got = Whole(app.blob)
      BY <2>2, <2>3, RunsFirst DEF CallInv, OneAnswer, Silent, Waiting
    <3>2. b = app.blob /\ b # NoBlob
      <4>1. b = app.blob
        BY <3>1, ReceivedIsOne
      <4>2. b \in Blobs
        BY DEF Received
      <4> QED
        BY <4>1, <4>2, Sizes
    <3>3. Running' /\ saving'.of = app'.blob /\ app'.does = "end" /\ notes' = <<>>
      BY <2>1, <2>2, <3>1, <3>2 DEF Running, Waiting
    <3> QED
      BY <2>2, <2>3, <3>1, <3>3 DEF CallInv, OneAnswer
  <2>4. CASE ~link
    <3>1. /\ notes = <<>> /\ ~adv /\ queue' # <<>> /\ Last(queue') = "adv"
      BY <2>2, <2>4, RunsFirst
    <3> QED
      BY <2>2, <2>4, <3>1 DEF CallInv
  <2> QED
    BY <2>3, <2>4
<1>6. CASE EndDone
  <2> DEFINE a == Accepts(saving.of)
  <2>1. /\ Running /\ Notify(a) /\ link' = link /\ adv' = adv /\ app' = app
        /\ queue' = queue /\ ~Running' /\ a.to = "end" /\ a.blob = saving.of
    BY <1>6 DEF EndDone, Running, NotSaving, Accepts
  <2>2. link => /\ app.does = "end" /\ saving.of = app.blob
                /\ queue = <<>> /\ notes = <<>>
    BY <2>1 DEF CallInv, OneAnswer, Silent, Waiting
  <2>3. ~link => ~adv /\ queue # <<>> /\ Last(queue) = "adv"
    BY <2>1 DEF CallInv
  <2> HIDE DEF a
  <2> QED
    BY <2>1, <2>2, <2>3, CallNotifies
<1>7. ASSUME NEW fails \in BOOLEAN, Save(fails) PROVE CallInv'
  <2>1. /\ link' = link /\ adv' = adv /\ app' = app /\ queue' = queue
        /\ notes' = notes /\ xfer' = xfer /\ ack' = ack /\ slot' = slot
    BY <1>7 DEF Save
  <2>2. saving'.of = saving.of /\ Running' = Running
    BY <1>7 DEF Save, Running, StoreInv, StoreTypes
  <2> QED
    BY <2>1, <2>2 DEF CallInv, OneAnswer, Silent, Waiting, Matches
<1> QED
  BY <1>1, <1>2, <1>3, <1>4, <1>5, <1>6, <1>7 DEF Work

LEMMA CallKeeps ==
  StoreInv /\ LinkInv /\ CallInv /\ Quiet /\ Quiet' /\ [Next]_vars => CallInv'
<1> SUFFICES ASSUME StoreInv, LinkInv, CallInv, Quiet, Quiet', [Next]_vars
             PROVE  CallInv'
  OBVIOUS
<1>1. CASE UNCHANGED vars
  BY <1>1 DEF vars, store, CallInv, OneAnswer, Silent, Waiting, Matches, Running
<1>2. CASE Stick
  BY <1>2 DEF Stick, store, CallInv, OneAnswer, Silent, Waiting, Matches, Running
<1>3. CASE Reset
  BY <1>3 DEF Reset, CallInv, Running, NotSaving
<1> QED
  BY <1>1, <1>2, <1>3, CallLinks, CallRequests, CallTakes, CallWork DEF Next

\* Whatever the app is told is the answer to the request it waits for, and not
\* to one made over an earlier link (ble_watch.c:695 and 736), as long as the
\* link to the anchor does not drop while the app is connected.
THEOREM AnswersAlwaysMatch == Spec => AnswersMatch
<1>1. Init => CallInv
  BY DEF Init, CallInv, Running, NotSaving
<1>2. LinkInv /\ CallInv => (notes # <<>> => Matches(Head(notes)))
  BY DEF LinkInv, LinkTypes, CallInv, OneAnswer, Silent, Waiting
<1>3. (link => "adv" \notin ToSet(queue)) <=> Quiet
  BY DEF Quiet
<1> QED
  BY <1>1, <1>2, <1>3, StoreInit, StoreKeeps, LinkInit, LinkKeeps, CallKeeps, PTL
     DEF Spec, AnswersMatch, Undisturbed

=============================================================================
