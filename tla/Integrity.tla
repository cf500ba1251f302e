----------------------------- MODULE Integrity ------------------------------
(***************************************************************************)
(* Commitment integrity (integrity/integrity.c) as the watch runs it: the  *)
(* diff gate every schedule push goes through, the settle records, the     *)
(* quarantine queue and its promotion, the emergency pass, and the         *)
(* time-change gate, with the handlers of main.c that call them, the       *)
(* records they save, and reboots at any point of a handler.               *)
(*                                                                         *)
(* Two threads act on this state.  The system workqueue runs the handlers  *)
(* of BLE writes one at a time; it is cooperative, so that a handler is    *)
(* not interrupted between two flash writes.  `job' is the handler being   *)
(* run: a loop of the code is one action per iteration, and nothing else   *)
(* but a crash happens until the handler has finished its saves.  The main *)
(* loop refreshes `active' and counts time.                                *)
(*                                                                         *)
(* Time is in units of DayMinutes per local day; `elapsed' and every delay *)
(* use the same unit.  `real' is true time, which the program cannot read: *)
(* elapsed time loses what was not persisted when the device restarts.     *)
(***************************************************************************)
EXTENDS Classify, Sequences

CONSTANTS
  Events,        \* the events a blob may carry, and the negated forms of them
  Proposals,     \* the schedules the app may push: sequences of Events
  PassDays,      \* the days a pass may be spent on
  ClockWrites,   \* the <<utc, tz>> pairs the app may write
  Allowances,    \* the pass allowances the app may ask for
  SettleWindows, \* the settle windows the app may ask for
  OffTimes,      \* how long the device may stay off before it boots again
  StartUtc,      \* the wall clock of the first boot
  MaxEvents,     \* CONFIG_IMPULSE_MAX_EVENTS
  QueueMax,      \* CONFIG_IMPULSE_PENDING_QUEUE_MAX
  MaxSpends,     \* room in pass_spend_elapsed_s: 8
  LoosenDelay,   \* IMPULSE_LOOSEN_DELAY_H
  FreeHorizon,   \* IMPULSE_LOOSEN_FREE_HORIZON_H
  SettleDefault, SettleFloor, SettleCeil,  \* IMPULSE_SETTLE_WINDOW_*
  PassBudget,    \* IMPULSE_PASS_BUDGET_DEFAULT
  PassWindow,    \* IMPULSE_PASS_WINDOW_DAYS
  SaveEvery,     \* how often the main loop persists the elapsed base
  MaxReal,       \* bound: true time at which the model stops ticking
  MaxWrites,     \* bound: writes of the app
  MaxBoots       \* bound: reboots

\* The one-day negate a pass writes over the event it is spent on.
NegateOf(e, day) ==
  [e EXCEPT !.rec = "once", !.negate = TRUE, !.dow = 0, !.dom = 0,
            !.ref = UtcFromLocalMidnight(day, 0) + DayMinutes \div 2]

ASSUME IntegrityAssumption ==
  /\ None \notin Events /\ None \notin Nat
  /\ Proposals \subseteq Seq(Events)
  /\ \A p \in Proposals : Len(p) <= MaxEvents
  /\ \A e \in Events : e.start \in Nat
  /\ \A e \in Events, d \in PassDays :
       NegateOf(e, d) \in {x \in Events : x.id = e.id /\ x.negate}
  /\ \A w \in ClockWrites : w[1] \in Int /\ w[2] \in Int
  /\ Allowances \subseteq Nat /\ SettleWindows \subseteq Nat
  /\ OffTimes \subseteq Nat
  /\ StartUtc \in Int
  /\ {MaxEvents, QueueMax, MaxSpends} \subseteq Nat \ {0}
  /\ {LoosenDelay, FreeHorizon, PassBudget, PassWindow} \subseteq Nat
  /\ PassBudget <= MaxSpends
  /\ {MaxReal, MaxWrites, MaxBoots} \subseteq Nat
  /\ {SettleDefault, SettleFloor, SettleCeil} \subseteq Nat
  /\ SettleFloor <= SettleCeil
  /\ SaveEvery \in Nat \ {0}

VARIABLES
  sched,    \* g_schedule: ev is the array, n the count, crc names the blob
  ig,       \* g_integrity
  active,   \* g_enf.active: a pointer into sched.ev, 0 for NULL
  job,      \* the handler the workqueue is running, or the boot sequence
  utc, tz,  \* the wall clock and g_tz_offset_minutes
  elapsed,  \* impulse_elapsed_now_s()
  flash,    \* what the settings subsystem has stored
  real,     \* history: true time
  spent,    \* history: the passes whose negate has been saved, each with its
            \* true time and whether the device stopped before its record was
  torn,     \* history: the device has stopped between two saves of a handler
  count     \* the writes of the app and the reboots so far, for the bounds

vars ==
  <<sched, ig, active, job, utc, tz, elapsed, flash, real, spent, torn, count>>

\* What the steps of a handler leave alone.
clocks == <<utc, elapsed, real, torn, count>>

\* The app writes a characteristic.
Write == /\ job.at = "idle"
         /\ count.writes < MaxWrites
         /\ count' = [count EXCEPT !.writes = @ + 1]
         /\ UNCHANGED <<elapsed, real, torn>>

-----------------------------------------------------------------------------
(* struct impulse_schedule *)

Ids == {e.id : e \in Events}

NoSchedule == [ev |-> [i \in 1 .. MaxEvents |-> None], n |-> 0, crc |-> None]

View(s) == [i \in 1 .. s.n |-> s.ev[i]]

SlotsOf(s, id) == {i \in 1 .. s.n : s.ev[i].id = id}
Has(s, id)     == SlotsOf(s, id) # {}
SlotOf(s, id)  == CHOOSE i \in SlotsOf(s, id) : \A j \in SlotsOf(s, id) : i <= j
Find(s, id)    == s.ev[SlotOf(s, id)]

\* sched_upsert: in place, or appended when there is room.
HasRoom(s, id) == Has(s, id) \/ s.n < MaxEvents
Upsert(s, e) ==
  IF Has(s, e.id) THEN [s EXCEPT !.ev[SlotOf(s, e.id)] = e]
  ELSE IF s.n < MaxEvents THEN [s EXCEPT !.ev[s.n + 1] = e, !.n = @ + 1]
  ELSE s

\* Mutant: the events move down and the count stays.
DeleteKeepsCount(s, id) ==
  IF Has(s, id)
  THEN [s EXCEPT !.ev = [i \in 1 .. MaxEvents |->
                           IF SlotOf(s, id) <= i /\ i < s.n THEN s.ev[i + 1]
                           ELSE s.ev[i]]]
  ELSE s

\* sched_delete: the events above move down; the cell at the end keeps its
\* old content, which a pointer may still name.
Delete(s, id) ==
  IF Has(s, id)
  THEN [s EXCEPT !.ev = [i \in 1 .. MaxEvents |->
                           IF SlotOf(s, id) <= i /\ i < s.n THEN s.ev[i + 1]
                           ELSE s.ev[i]],
                 !.n = @ - 1]
  ELSE s

\* Mutant: the save stops one record short.
StoredShort(s) == [s EXCEPT !.ev = [i \in 1 .. MaxEvents |->
                                      IF i < s.n THEN s.ev[i] ELSE None]]

\* The cells a save writes: the records past the count are deleted.
Stored(s) == [s EXCEPT !.ev = [i \in 1 .. MaxEvents |->
                                 IF i <= s.n THEN s.ev[i] ELSE None]]

Listed(p, id) == \E k \in DOMAIN p : p[k].id = id
Proposed(p, id) ==
  p[CHOOSE k \in DOMAIN p : p[k].id = id /\ \A l \in 1 .. k - 1 : p[l].id # id]

-----------------------------------------------------------------------------
(* Settle records: a table of MaxEvents slots that are never freed, seen   *)
(* as a function on the UUIDs that have one.  The spends of passes are kept*)
(* in cells; the code compacts its array, but never looks at their order.  *)

Settle == [edit : Nat, has : BOOLEAN, base : Events \cup {None}]

NoIntegrity ==
  [settle |-> <<>>, pending |-> [i \in 1 .. QueueMax |-> None],
   win |-> SettleDefault, allowance |-> PassBudget,
   spends |-> [i \in 1 .. MaxSpends |-> None]]

RoomToSettle(st) == MaxEvents - Cardinality(DOMAIN st)

\* Mutant: an edit leaves the event settled.
NoteEditKeeps(st, id, now) ==
  IF id \in DOMAIN st THEN [st EXCEPT ![id].edit = now]
  ELSE IF RoomToSettle(st) > 0
  THEN [x \in DOMAIN st \cup {id} |->
          IF x = id THEN [edit |-> now, has |-> FALSE, base |-> None] ELSE st[x]]
  ELSE st

\* note_edit: an accepted change re-opens the settle window.
NoteEdit(st, id, now) ==
  IF id \in DOMAIN st
  THEN [st EXCEPT ![id] = [@ EXCEPT !.edit = now, !.has = FALSE]]
  ELSE IF RoomToSettle(st) > 0
  THEN [x \in DOMAIN st \cup {id} |->
          IF x = id THEN [edit |-> now, has |-> FALSE, base |-> None] ELSE st[x]]
  ELSE st

\* seal_unknown_events, in schedule order while slots last.
Unknown(st, s) ==
  {i \in 1 .. s.n : /\ s.ev[i].id \notin DOMAIN st
                    /\ \A j \in 1 .. i - 1 : s.ev[j].id # s.ev[i].id}

SealUnknown(st, s, now) ==
  LET fits == {i \in Unknown(st, s) :
                 Cardinality({j \in Unknown(st, s) : j <= i}) <= RoomToSettle(st)}
      new  == {s.ev[i].id : i \in fits}
  IN  [x \in DOMAIN st \cup new |->
         IF x \in DOMAIN st THEN st[x]
         ELSE [edit |-> now, has |-> TRUE, base |-> Find(s, x)]]

\* settle_tick: an event untouched for the settle window becomes settled.
SettleTick(st, s, win, now) ==
  [x \in DOMAIN st |->
     IF ~st[x].has /\ now >= st[x].edit + win /\ Has(s, x)
     THEN [st[x] EXCEPT !.has = TRUE, !.base = Find(s, x)]
     ELSE st[x]]

\* within_free_edit_window
WithinFreeEdit(st, e) ==
  e.id \in DOMAIN st /\ st[e.id].has => AtLeastAsBinding(st[e.id].base, e, tz)

\* beyond_free_horizon; `active' names whatever its cell holds now.
BeyondFreeHorizon(e) ==
  /\ ~(active # 0 /\ sched.ev[active].id = e.id)
  /\ NextStart(e, utc, tz) > FreeHorizon

-----------------------------------------------------------------------------
(* The quarantine queue.  `asked' is history: the true time of the push.   *)

Pending ==
  {p \in [kind : {"upsert", "delete"}, target : Ids, proposed : Events,
          after : Nat, asked : Nat] : p.proposed.id = p.target}

\* Mutant: the older change of the event stays queued.
CancelNothing(q, id) == q

\* cancel_pending_for
CancelFor(q, id) ==
  [i \in DOMAIN q |-> IF q[i] # None /\ q[i].target = id THEN None ELSE q[i]]

FreeCells(q) == {i \in DOMAIN q : q[i] = None}

\* queue_push: into the first free cell, dropped when there is none.
QueuePush(q, entry) ==
  IF FreeCells(q) = {} THEN q
  ELSE [q EXCEPT ![CHOOSE i \in FreeCells(q) :
                     \A j \in FreeCells(q) : i <= j] = entry]

\* The queue once a change of event e has been quarantined.
Quarantined(kind, e) ==
  QueuePush(CancelFor(ig.pending, e.id),
            [kind |-> kind, target |-> e.id, proposed |-> e,
             after |-> elapsed + LoosenDelay, asked |-> real])

-----------------------------------------------------------------------------
(* Handlers.  mark: in a push, something was quarantined or dropped; in    *)
(* the boot sequence, something was promoted.  pass: the handler is a pass *)
(* (history).  held: the event that `active' named when the push began, if *)
(* it named a cell in use (history).                                       *)

Idle == [at |-> "idle", prop |-> <<>>, i |-> 0, mark |-> FALSE,
         pass |-> FALSE, held |-> None]

Save == [Idle EXCEPT !.at = "saveSched"]

\* Mutant: only the deletion of the active event is refused.
DropsActive(p) == active # 0 /\ ~Listed(p, sched.ev[active].id)

\* The push would loosen the event being enforced.
LoosensActive(p) ==
  LET held == sched.ev[active]
  IN  /\ active # 0
      /\ ~(Listed(p, held.id) /\ AtLeastAsBinding(held, Proposed(p, held.id), tz))

\* impulse_app_apply_schedule up to the loops of apply_push: seal, settle,
\* and the whole-push rejection that protects the active event.
BeginPush(p) ==
  LET st   == SettleTick(SealUnknown(ig.settle, sched, elapsed),
                         sched, ig.win, elapsed)
      held == IF active \in 1 .. sched.n THEN sched.ev[active] ELSE None
  IN
    /\ Write
    /\ ig' = [ig EXCEPT !.settle = st]
    /\ job' = IF LoosensActive(p) THEN job
              ELSE [Idle EXCEPT !.at = "delete", !.prop = p, !.i = sched.n,
                                !.held = held]
    /\ UNCHANGED <<sched, active, tz, utc, flash, spent>>

\* One iteration of the deletion loop, which walks the schedule backwards.
DeleteStep ==
  LET e    == sched.ev[job.i]
      far  == BeyondFreeHorizon(e)
      next == [job EXCEPT !.i = @ - 1]
  IN
    /\ job.at = "delete" /\ job.i > 0
    /\ \/ /\ Listed(job.prop, e.id)
          /\ job' = next
          /\ UNCHANGED <<sched, ig>>
       \/ /\ ~Listed(job.prop, e.id) /\ far
          /\ sched' = Delete(sched, e.id)
          /\ ig' = [ig EXCEPT !.settle = NoteEdit(@, e.id, elapsed),
                              !.pending = CancelFor(@, e.id)]
          /\ job' = next
       \/ /\ ~Listed(job.prop, e.id) /\ ~far
          /\ ig' = [ig EXCEPT !.pending = Quarantined("delete", e)]
          /\ job' = [next EXCEPT !.mark = TRUE]
          /\ UNCHANGED sched
    /\ UNCHANGED <<active, tz, clocks, flash, spent>>

DeletionsDone ==
  /\ job.at = "delete" /\ job.i = 0
  /\ job' = [job EXCEPT !.at = "upsert", !.i = 1]
  /\ UNCHANGED <<sched, ig, active, tz, clocks, flash, spent>>

\* One iteration of the loop over additions and modifications.
ClassOf(e) == IF Has(sched, e.id)
              THEN ClassifyModified(Find(sched, e.id), e, tz)
              ELSE ClassifyAdded(e)

Instant(e) == \/ IsInstant(ClassOf(e))
              \/ WithinFreeEdit(ig.settle, e)
              \/ BeyondFreeHorizon(e)

UpsertStep ==
  LET e    == job.prop[job.i]
      next == [job EXCEPT !.i = @ + 1]
  IN
    /\ job.at = "upsert" /\ job.i <= Len(job.prop)
    /\ \/ /\ ClassOf(e) = "none"
          /\ job' = next
          /\ UNCHANGED <<sched, ig>>
       \/ /\ ClassOf(e) # "none" /\ Instant(e) /\ HasRoom(sched, e.id)
          /\ sched' = Upsert(sched, e)
          /\ ig' = [ig EXCEPT !.settle = NoteEdit(@, e.id, elapsed),
                              !.pending = CancelFor(@, e.id)]
          /\ job' = next
       \/ /\ ClassOf(e) # "none" /\ Instant(e) /\ ~HasRoom(sched, e.id)
          /\ job' = [next EXCEPT !.mark = TRUE]
          /\ UNCHANGED <<sched, ig>>
       \/ /\ ClassOf(e) # "none" /\ ~Instant(e)
          /\ ig' = [ig EXCEPT !.pending = Quarantined("upsert", e)]
          /\ job' = [next EXCEPT !.mark = TRUE]
          /\ UNCHANGED sched
    /\ UNCHANGED <<active, tz, clocks, flash, spent>>

\* The push is answered: 0x03 if something of it was left undone (mark),
\* else 0x01.  The CRC is that of the blob that was pushed.
EndPush ==
  /\ job.at = "upsert" /\ job.i > Len(job.prop)
  /\ sched' = [sched EXCEPT !.crc = job.prop]
  /\ job' = [job EXCEPT !.at = "saveSched"]
  /\ UNCHANGED <<ig, active, tz, clocks, flash, spent>>

\* impulse_storage_save_schedule, then impulse_storage_save_integrity.
SaveSchedule ==
  /\ job.at = "saveSched"
  /\ flash' = [flash EXCEPT !.sched = Stored(sched)]
  /\ job' = [job EXCEPT !.at = "saveInteg"]
  /\ spent' = IF job.pass THEN Append(spent, [at |-> real, torn |-> FALSE])
              ELSE spent
  /\ UNCHANGED <<sched, ig, active, tz, clocks>>

SaveIntegrity ==
  /\ job.at = "saveInteg"
  /\ flash' = [flash EXCEPT !.ig = ig]
  /\ job' = Idle
  /\ UNCHANGED <<sched, ig, active, tz, clocks, spent>>

-----------------------------------------------------------------------------
(* The other handlers of the app.                                          *)

\* The spends of the last PassWindow.
Recent(log, now) ==
  [i \in DOMAIN log |-> IF log[i] # None /\ log[i] + PassWindow > now
                        THEN log[i] ELSE None]

Used(log) == Cardinality({i \in DOMAIN log : log[i] # None})

\* Mutant: one pass too many.
AlmostExhausted(log) == Used(log) > ig.allowance

Exhausted(log) == Used(log) >= ig.allowance

\* impulse_integrity_spend_pass through impulse_app_pass_spend.
SpendPass(id, day) ==
  LET inWindow == Recent(ig.spends, elapsed)
      spendable == ~Exhausted(inWindow) /\ Has(sched, id)
  IN
    /\ Write
    /\ \/ /\ ~spendable
          /\ ig' = [ig EXCEPT !.spends = inWindow]
          /\ UNCHANGED <<sched, job>>
       \/ /\ spendable
          /\ sched' = Upsert(sched, NegateOf(Find(sched, id), day))
          /\ ig' = [ig EXCEPT !.spends = QueuePush(inWindow, elapsed)]
          /\ job' = [Save EXCEPT !.pass = TRUE]
    /\ UNCHANGED <<active, tz, utc, flash, spent>>

\* impulse_app_pass_set_allowance: only ever lowered.
SetAllowance(a) ==
  /\ Write
  /\ a <= ig.allowance
  /\ ig' = [ig EXCEPT !.allowance = a]
  /\ job' = [Idle EXCEPT !.at = "saveInteg"]
  /\ UNCHANGED <<sched, active, tz, utc, flash, spent>>

\* impulse_integrity_time_change_allowed: of the enforced event's window,
\* only the minute of the day is compared.
TimeChangeAllowed(newUtc, newTz) ==
  active # 0 /\ Covers(sched.ev[active], LocalMinute(utc, tz))
    => Covers(sched.ev[active], LocalMinute(newUtc, newTz))

\* impulse_app_apply_time, when it is allowed.
SetTime(newUtc, newTz) ==
  /\ Write
  /\ TimeChangeAllowed(newUtc, newTz)
  /\ utc' = newUtc /\ tz' = newTz
  /\ flash' = [flash EXCEPT !.tz = newTz]
  /\ UNCHANGED <<sched, ig, active, job, spent>>

\* impulse_app_apply_settings: the settle window is clamped and only ever
\* shortened; the rest is applied even so.
Clamp(win) == IF win < SettleFloor THEN SettleFloor
              ELSE IF win > SettleCeil THEN SettleCeil ELSE win

ApplySettings(newTz, win) ==
  /\ Write
  /\ newTz = tz \/ TimeChangeAllowed(utc, newTz)
  /\ ig' = [ig EXCEPT !.win = IF Clamp(win) > @ THEN @ ELSE Clamp(win)]
  /\ tz' = newTz
  /\ flash' = [flash EXCEPT !.tz = newTz]
  /\ job' = [Idle EXCEPT !.at = "saveInteg"]
  /\ UNCHANGED <<sched, active, utc, spent>>

-----------------------------------------------------------------------------
(* The main thread.                                                        *)

\* refresh_active_event
Refresh ==
  /\ job.at = "idle"
  /\ active' = ActiveSlot(View(sched), utc, tz)
  /\ UNCHANGED <<sched, ig, job, tz, clocks, flash, spent>>

\* Time passes.  The loop runs many times a unit, so the active event has
\* been refreshed; it persists the elapsed base when that is due.
Tick ==
  /\ job.at = "idle"
  /\ active = ActiveSlot(View(sched), utc, tz)
  /\ real < MaxReal
  /\ real' = real + 1 /\ utc' = utc + 1 /\ elapsed' = elapsed + 1
  /\ flash' = [flash EXCEPT !.elapsed = IF elapsed + 1 - @ >= SaveEvery
                                        THEN elapsed + 1 ELSE @]
  /\ UNCHANGED <<sched, ig, active, job, tz, spent, torn, count>>

\* Mutant: the base is rounded up to the next save.
RestoredAhead == flash.elapsed + SaveEvery

\* The elapsed clock starts from the base that was last persisted.
RestoredElapsed == flash.elapsed

\* The passes as they are if the device stops now: between the two saves of
\* a pass the negate is in flash and the record of the pass is not.
Recorded ==
  IF job.pass /\ job.at = "saveInteg"
  THEN [spent EXCEPT ![Len(spent)] = [at |-> @.at, torn |-> TRUE]] ELSE spent

\* The device stops at any point and boots `off' later: main() up to the
\* promotion.  Unknown events are sealed before the elapsed base is set.
\* The restored wall clock is a lower bound: it lags by the time spent off.
Boot(off) ==
  /\ real + off <= MaxReal /\ count.boots < MaxBoots
  /\ count' = [count EXCEPT !.boots = @ + 1]
  /\ real' = real + off
  /\ sched' = flash.sched
  /\ ig' = [flash.ig EXCEPT !.settle = SealUnknown(@, flash.sched, 0)]
  /\ elapsed' = RestoredElapsed
  /\ tz' = flash.tz
  /\ active' = 0
  /\ torn' = (torn \/ job.at = "saveInteg")
  /\ spent' = Recorded
  /\ job' = [Idle EXCEPT !.at = "promote", !.i = 1]
  /\ UNCHANGED <<utc, flash>>

\* Mutant: a boot promotes whatever is queued.
DueAtBoot(p) == p # None

Due(p) == p # None /\ elapsed >= p.after

\* One iteration of impulse_integrity_promote.
PromoteStep ==
  LET p    == ig.pending[job.i]
      due  == Due(p)
      expired == /\ p.kind = "upsert" /\ p.proposed.rec = "once"
                 /\ NextStart(p.proposed, utc, tz) = Never
      next == [job EXCEPT !.i = @ + 1]
  IN
    /\ job.at = "promote" /\ job.i <= QueueMax
    /\ \/ /\ ~due
          /\ job' = next
          /\ UNCHANGED <<sched, ig>>
       \/ /\ due /\ expired
          /\ ig' = [ig EXCEPT !.pending[job.i] = None]
          /\ job' = next
          /\ UNCHANGED sched
       \/ /\ due /\ ~expired
          /\ sched' = IF p.kind = "delete" THEN Delete(sched, p.target)
                      ELSE Upsert(sched, p.proposed)
          /\ ig' = [ig EXCEPT !.pending[job.i] = None,
                              !.settle = NoteEdit(@, p.target, elapsed)]
          /\ job' = [next EXCEPT !.mark = TRUE]
    /\ UNCHANGED <<active, tz, clocks, flash, spent>>

PromotionDone ==
  /\ job.at = "promote" /\ job.i > QueueMax
  /\ job' = IF job.mark THEN Save ELSE Idle
  /\ UNCHANGED <<sched, ig, active, tz, clocks, flash, spent>>

-----------------------------------------------------------------------------

Init ==
  /\ sched = NoSchedule /\ ig = NoIntegrity
  /\ active = 0 /\ job = Idle
  /\ utc = StartUtc /\ tz = 0 /\ elapsed = 0 /\ real = 0
  /\ flash = [sched |-> NoSchedule, ig |-> NoIntegrity, elapsed |-> 0, tz |-> 0]
  /\ spent = <<>> /\ torn = FALSE
  /\ count = [writes |-> 0, boots |-> 0]

Handler == DeleteStep \/ DeletionsDone \/ UpsertStep \/ EndPush
             \/ SaveSchedule \/ SaveIntegrity

Next ==
  \/ \E p \in Proposals : BeginPush(p)
  \/ Handler
  \/ \E id \in Ids, d \in PassDays : SpendPass(id, d)
  \/ \E a \in Allowances : SetAllowance(a)
  \/ \E w \in ClockWrites : SetTime(w[1], w[2])
  \/ \E w \in ClockWrites, s \in SettleWindows : ApplySettings(w[2], s)
  \/ Refresh
  \/ Tick
  \/ \E off \in OffTimes : Boot(off)
  \/ PromoteStep
  \/ PromotionDone

Spec == Init /\ [][Next]_vars

-----------------------------------------------------------------------------
(* Properties *)

Schedules == [ev : [1 .. MaxEvents -> Events \cup {None}], n : 0 .. MaxEvents,
              crc : Proposals \cup {None}]

\* No cell below the count is blank.
Filled(s) == \A i \in 1 .. s.n : s.ev[i] \in Events

IsIntegrity(g) ==
  /\ DOMAIN g.settle \subseteq Ids
  /\ g.settle \in [DOMAIN g.settle -> Settle]
  /\ g \in [settle : {g.settle},
            pending : [1 .. QueueMax -> Pending \cup {None}],
            win : Nat, allowance : Nat, spends : [1 .. MaxSpends -> Nat \cup {None}]]

Jobs ==
  [at : {"idle", "delete", "upsert", "promote", "saveSched", "saveInteg"},
   prop : Seq(Events), i : Nat, mark : BOOLEAN, pass : BOOLEAN,
   held : Events \cup {None}]

\* The loops stay within their arrays.
JobOK ==
  /\ job \in Jobs
  /\ job.at \in {"delete", "upsert"} => job.prop \in Proposals
  /\ job.at = "delete" => job.i <= sched.n
  /\ job.at \in {"upsert", "promote"} => job.i >= 1

\* Every variable has the type of what it models.
TypeOK ==
  /\ sched \in Schedules /\ Filled(sched)
  /\ IsIntegrity(ig)
  /\ active \in 0 .. MaxEvents
  /\ active # 0 => sched.ev[active] \in Events
  /\ JobOK
  /\ utc \in Int /\ tz \in Int /\ elapsed \in Nat /\ real \in Nat
  /\ flash \in [sched : Schedules, ig : {flash.ig}, elapsed : Nat, tz : Int]
  /\ Filled(flash.sched) /\ IsIntegrity(flash.ig)
  /\ spent \in Seq([at : Nat, torn : BOOLEAN]) /\ torn \in BOOLEAN
  /\ count \in [writes : Nat, boots : Nat]

\* At most one quarantined change per event, in RAM and in flash: the newer
\* change of an event always takes the place of the older one.
OnePending(q) ==
  \A i, j \in DOMAIN q :
    q[i] # None /\ q[j] # None /\ q[i].target = q[j].target => i = j

OnePendingPerEvent == OnePending(ig.pending) /\ OnePending(flash.ig.pending)

\* The delay is served in true time.  Whatever reboots do to the elapsed
\* clock, however the wall clock is written, a change the promotion would
\* find due was asked for at least LoosenDelay ago.
QuarantineServed ==
  \A i \in DOMAIN ig.pending :
    LET p == ig.pending[i]
    IN  p # None /\ elapsed >= p.after => real >= p.asked + LoosenDelay

\* No UUID is carried by two records.
NamedOnce(p) == \A k, l \in DOMAIN p : p[k].id = p[l].id => k = l

\* From the moment a push is let through while an event is being enforced,
\* and until its handler ends, that event is in the schedule and binds at
\* least as hard as it did.  Of a blob that names the event twice only the
\* first record is compared with it.
ActiveEventHeld ==
  job.held # None /\ NamedOnce(job.prop) =>
    /\ Has(sched, job.held.id)
    /\ AtLeastAsBinding(job.held, Find(sched, job.held.id), tz)

\* The settled baseline of an event is the event as the schedule has it,
\* unless a pass has been spent on it since, or a crash has separated the
\* schedule saved from the records saved with it.
BaselineIsCurrent ==
  ~torn => \A id \in DOMAIN ig.settle :
    ig.settle[id].has /\ Has(sched, id) =>
      \/ Find(sched, id) = ig.settle[id].base
      \/ Find(sched, id).negate

\* A push answered 0x01 has been taken whole: the schedule then holds the
\* events of the blob and no others, by the last record where the blob
\* names an event twice.
AcceptedMeansApplied ==
  job.at = "saveSched" /\ job.prop # <<>> /\ ~job.mark =>
    /\ \A k \in DOMAIN job.prop :
         (\A l \in k + 1 .. Len(job.prop) : job.prop[l].id # job.prop[k].id) =>
           /\ Has(sched, job.prop[k].id)
           /\ ClassifyModified(Find(sched, job.prop[k].id), job.prop[k], tz) = "none"
    /\ \A i \in 1 .. sched.n : Listed(job.prop, sched.ev[i].id)

\* No more passes than the budget are in force from any window of PassWindow
\* of true time, reboots included, from the moment the negate of each is in
\* flash.  The exception is a pass whose record the device stopped before
\* saving, between the two saves of its own handler: the log never counts it,
\* and another can be spent.
PassBudgetHeld ==
  Cardinality({k \in DOMAIN spent :
                 ~spent[k].torn /\ spent[k].at + PassWindow > real})
    <= PassBudget

-----------------------------------------------------------------------------
(* What the program promises (Quarantine), read off its state: the events  *)
(* below the count, and the cells of the queue without their deadlines.    *)

Book(s) == {s.ev[i] : i \in 1 .. s.n}

Request(p) == [kind |-> p.kind, target |-> p.target, proposed |-> p.proposed,
               asked |-> p.asked]

Requests(q) == {Request(q[i]) : i \in {j \in DOMAIN q : q[j] # None}}

Promise ==
  INSTANCE Quarantine
  WITH Delay <- LoosenDelay, book <- Book(sched),
       requests <- Requests(ig.pending), now <- real, up <- job.at # "promote",
       kept <- [book     |-> Book(flash.sched),
                requests |-> Requests(flash.ig.pending)]

\* The program keeps the promise: on its own it changes the schedule only by
\* promoting, at boot, a change that was asked for at least LoosenDelay of true
\* time ago and that nothing has replaced since; at any other time only a push
\* or a pass changes it; and what it restores is what it saved.
PromiseKept == Promise!Spec

=============================================================================
