# Impulse firmware: models, checks and proofs

This directory models the firmware of the Impulse wristband (the *watch*) and of
its companion device (the *anchor*) in TLA+. The repository's code, not its
comments, is what each definition translates; where a comment promises something
else, a run shows the difference (see "Where the code and its comments differ").

Run TLC on a module `M` and a configuration `C` with `tlc -config C.cfg M.tla`,
and the proofs of a module with `tlapm M.tla`. `PROJECT.json` lists the runs,
the line range behind every definition, the hazards, and for every checked
property a change of the model, written as an operator next to the original and
marked "Mutant", under which the property fails.

## 1. The system

The watch holds a schedule of *events*: windows of local time in which the
wearer is committed to something (be near an anchor, be away from it, wear the
watch, keep the phone away, be on a network). While a window is open and its
criterion is not met the watch buzzes and vibrates. The app on the phone
proposes schedules; the watch decides what it lets in, and a change that loosens
a commitment is *quarantined* for a day. Anchors are plugged in at home: they
lock a strap during their windows, and sound when the watch is taken off in one.

One image, built as watch or as anchor, runs these threads:

| thread | priority | runs |
|---|---|---|
| Bluetooth receive | cooperative | characteristic writes, connect and disconnect callbacks, channel-sounding results |
| system workqueue | cooperative | everything a write defers: diff gate, settings, clock, pass, acknowledgements, restart of advertising |
| channel-sounding engine | preemptible | scan, connect, set up, wait, release |
| main | preemptible | the loop: active event, polls, output profiles, worn sensor, WiFi tick; on the anchor window check and alarm tick |
| UDP receive | below main | datagrams to an anchor |

A cooperative thread is not preempted, but gives up the processor where it
sleeps: in a flash write, in the servo's travel time, in the Identify signal. It
preempts main at any instruction. No lock guards the schedule, the enforcement
context or the beep state.

### Inventory

| component | state | operations | makes it correct |
|---|---|---|---|
| schedule evaluation, `schedule/schedule.c` | none | date arithmetic, occurrence, day plan, active event, next start | agrees with the calendar; the next start is the first one ahead |
| change classification, `integrity/classify.c` | none | one relation per field, folded into instant or quarantined | chains of instant edits never loosen |
| commitment integrity, `integrity/integrity.c` | settle records, quarantine queue, pass spends, settle window | push gate, promotion, pass, time gate | delays served, one change per event, the active event held, budget kept |
| glue, `main.c` | schedule, clock, timezone, enforcement context, flags | the `impulse_app_*` handlers, boot, the loop | saves match what was applied; the active event is current |
| enforcement, `enforcement/enforcement.c` | active event, worn, met, profile, graces, lost link | enter, exit, poll, burst, link update, tick | output follows the criterion; silence of the radio is no way out |
| proximity verdict, `proximity/proximity.c` | verdict, runs, abstentions | ingest, force away, criterion | no verdict without a run of evidence |
| output profiles, `enforcement/profiles.c` | step, elapsed, cycles | start, stop, tick | patterns keep their shape |
| channel sounding, `proximity/cs_backend_nrf.c` | connection, wanted and enabled flags, semaphores; result buffer, anchor's data, live burst | scan, connect, set up, apply, release; result, fetch, estimate | no reference outlives its link; ranges in the end, and releases in the end; both halves of an estimate are of one procedure |
| burst fusion, `proximity/cs_fuse.c` | none | filters, median, distance | a burst is of one commitment's time, and bounded |
| persistent storage, `storage/storage.c` | records in flash | one save and one load per kind, record by record | a stop between two records brings nothing back that was replaced |
| watch BLE service, `ble/ble_watch.c` | transfer buffer, acknowledgement, link, one-slot buffers | control, data, settings, clock, pass writes | answers match requests; accepted means saved; every request is answered |
| schedule blob, `schedule/schedule_blob.c` | none | parse, CRC | refuses what it cannot represent |
| anchor, `anchor/anchor.c`, `hal/servo.c`, `ble/ble_anchor.c` | beep state, strap, cap | command, tick, toggle, window start, identify | locked in windows; sounds while the alarm runs, and the alarm ends |
| WiFi and UDP, `net/net_wifi.c`, `net/net_udp.c` | wanted and actual link | request, tick, events, send, receive | on only while of use; the alarm follows the watch |
| watchdogs, `main.c`, `fatal.c` | probe of the workqueue, saved fault | probe, reset | a stuck handler does not stop the device |
| reflector (`cs_reflector_nrf.c`), identity, other hardware | UUID, pins | | not modelled |

They interact as follows. The app's writes arrive on the Bluetooth thread and
are carried out on the workqueue; the diff gate changes the schedule the main
loop plans from and reads the event main enforces through a *pointer into the
same array*. The channel-sounding engine hands bursts and the time of the last
activity to the loop through atomics and two clock reads, and shares its
connection pointer and flags with the loop and the Bluetooth thread without a
lock. The loop tells anchors of a watch taken off, over BLE when a link is up
and over WiFi otherwise; the anchor reacts by its own copy of the schedule and
its own clock.

What is hard here: a handler that blocks in flash while links drop and return;
reboots that lose elapsed time; writes of the wall clock; messages lost and
reordered; pattern and cap of an alarm shared by three threads; a connection
torn down by one thread while another uses it; silence as an input; saves of
many records; long sequences of legal edits. `PROJECT.json` lists the hazards at
the lines where they bite.

## 2. Modules

```
Schedule <- Classify, Calendar <- Ratchet <- MCRatchet, RatchetProofs
Classify <- Integrity <- IntegrityClaims <- MCIntegrity
            Integrity <- IntegrityProofs
            Integrity -- INSTANCE --> Quarantine
Proximity <- Enforcement <- MCEnforcement, EnforcementProofs
Strap, Alarm <- Anchor <- MCAnchor, AnchorProofs
Escalation <- MCEscalation, EscalationProofs
Engine <- MCEngine, EngineProofs
Fusion <- Ranging <- MCRanging, RangingProofs
Transfer <- MCTransfer, TransferProofs
```

*Schedule* writes `schedule.c` as operators on event records: Gregorian dates,
recurrence (`OccursOn`), the plan of a day with one holder per slot (`DayPlan`),
the active slot, and the search for the next start. A day has `DayMinutes`
minutes. *Calendar* walks days with an independent definition of the calendar
beside it.

*Classify* holds the profile, window, recurrence, anchor, negation and grace
relations of `classify.c` and their fold. *Ratchet* is the abstract purpose of
the classification: an event edited any number of times, each edit instant,
compared with what it was at first through the *meaning* of events in Schedule,
which the classification does not consult.

*Integrity* is the core. `sched`, `ig`, `active`, `tz`, `utc` and `elapsed` are
`g_schedule`, `g_integrity`, `g_enf.active` (an index, 0 for NULL), and the
clocks; `flash` is what the settings subsystem stores. `job` is the handler that
the workqueue is running: a loop of `impulse_integrity_apply_push` or
`impulse_integrity_promote` is one action per iteration (`DeleteStep`,
`UpsertStep`, `PromoteStep`), a save one action per kind (`SaveSchedule`,
`SaveIntegrity`), and `Boot` may come between any two. `BeginPush`, `SpendPass`,
`SetAllowance`, `SetTime`, `ApplySettings` are the writes; `Refresh` and `Tick`
the main loop. `real` (true time), `spent` and `torn` are history the program
cannot read: `spent` has each pass from the moment its negate reaches flash, and
whether the device stopped before its record did (`Recorded`); `torn` says that
it has stopped between two saves of any handler.

*Quarantine* is what Integrity promises, with nothing of how: the events the
user is held to (`book`), a *set* of requests with the true time each was made,
and a copy of both that a stop goes back to. Left to itself it changes the book
only by granting, at a start, a request that has waited. Integrity implements it
(`PromiseKept`) under this mapping: `book` is what `g_schedule` holds,
`requests` the occupied cells of the queue with the history of when each was
filled, `kept` the same of flash, `now` true time, and `up` whether the boot
sequence is over.

*Proximity* is the verdict machine (`Ingest`, `ForceAway`, `CriterionMet`) as
operators; *Enforcement* is the loop's pass around it in two steps, `Refresh`
and `Work`, with schedule changes (`Turn`, `Shift`, `Accepted`) between any two,
since the workqueue preempts main. Time stamps are kept as ages, deadlines as
what is left of them, each up to the largest value any comparison can tell. What
the engine may report is `Signals`: activity, a burst and its distance, and the
jitter of an age read from two clocks.

*Strap* is the lock: `impulse_servo_set` drives the servo, sleeps, stops driving
and only then records the position, and two threads may be in it at once.
*Alarm* is beep state, pin, tick, cap and Identify; the tick is three steps
because a BLE command interrupts it, and a field read again after that may have
either value. *Anchor* composes the two over main loop, workqueue and Bluetooth
thread.

*Escalation* is the watch telling an anchor: `escalate_to_anchors` at its four
places (`WindowStart`, `WornEdge`, `Poll`, and the release in `WindowEnd`), the
requested and the actual WiFi association, a BLE line lost with its link,
datagrams as a set from which a message is received any number of times in any
order, or lost, and an anchor whose schedule and clock lag (`theirs`).

*Engine* is the connection machine: the engine thread as a program counter over
`Places` (`Restart`, `Scan`, `Connected`, the wait for each stage of `Stages`,
`Apply`, `Wake`, `Check`, then the release down to `Park`), the main loop's
request in two steps (`SetRanging`, `SetRangingReturns`), since the command to
the controller sleeps, and the callbacks (`ConnectedCb`, `LinkDown`, `Answers`,
`ProcedureEnableCb`, the scan's `Match` and the retry work) at any point of
both. `rreq` is the reference the RAS client takes on a connection and gives
back on release. `noted` is history: which of the races the code leaves open has
happened since the last restart (section 6).

*Ranging* is the data path: subevent results taken into the one buffer under
`sem_local_steps`, dropped or aborted; the anchor's data announced and fetched,
or arriving by itself; the estimate added to a burst. *Fusion* has the
arithmetic of that last part: which samples are refused, the median, the
conversion. `Stale` and `Loose` mark results that an earlier link or a failed
fetch left behind.

*Transfer* is what an app writes: the callbacks on the Bluetooth thread
(`Begin`, `Data`, `End`, `Abort`, `WriteSettings`), the one transfer buffer, the
one-slot buffer of a settings write (the clock and the pass have the same
shape), the one acknowledgement slot, and the workqueue with its items in order
and each at most once. The end handler blocks in its saves, which are one step
per record: CRC, count, each event, each deletion of a surplus event; a record's
write may fail, unnoticed, and a restart may come between any two. A handler may
hang (`stuck`), and the main loop's probe then reboots the watch. Links drop,
advertising is restarted. The CRC tells whether what arrived is what was sent.
`held` is `g_schedule`, `flash` the records, `recent` the history of what was
last saved.

## 3. The runs

Nine runs pass, three show a disagreement. Integer times are in model units.

| run | asks | bounds, and why they suffice |
|---|---|---|
| `ratchet` | `CalendarFollows`: the date arithmetic is the Gregorian calendar. `NextStartIsNext`: the search finds the first start ahead. `NeverUncovered`, `NeverSoftened`: any number of instant edits frees no committed minute and softens no demand | walks of 70 days across the epoch, into the leap day of 2000 and the end of a February 2100 that has none, at three timezones; the longest gap between two occurrences of a sample is 62 days, so each search both hits and crosses it. All windows of a three-minute day, six rules, negation, all ten profile values; edits relate pairs, so every chain is a path through the pairs |
| `quarantine` | `OnePendingPerEvent`, `QuarantineServed` (delays in true time), `PassBudgetHeld`, the types, and `PromiseKept`: Integrity implements Quarantine | one event in three forms and the negate of a pass, a queue of two, three writes, a true time of two full delays, two reboots that lose up to a save interval |
| `diff` | `ActiveEventHeld`, `BaselineIsCurrent`, `AcceptedMeansApplied` | three UUIDs over two cells and a queue of one, so that table and queue overflow; a jump of the clock, a reboot between any two steps |
| `enforcement` | `AwayInTime`: a jammed or lost anchor counts as away within the polls the code allows. `OutputFollowsCondition`, `ReleaseNeedsEvidence`, types; `AwayIsConcluded` and `GraceRunsOut` in the end | three pairs of events, with each ranged criterion, one that is not, and a donning grace; dwells of one and two, lost-link constants in the order of the code's; a push that moves the active cell |
| `engine` | `NoReferenceLeaks`: no reference outlives its link. `ConfirmedMeansOff`: a link is closed on a confirmation only with procedures off. `RangesInTheEnd`, `AnchorReleased`: it gets to where it is wanted; types | a set-up of three stages: one the phone's link may answer too, the one that takes the reference, the one that needs it. The others differ from these in nothing the machine looks at |
| `ranging` | `FetchedIsWhole`: both halves of an estimate are of one procedure. `LaterBurstsAreNew`, `DataFlows`, types | three counters, which wrap, procedures of two results, an anchor one procedure behind, bursts of three, a plain and a suspect sample |
| `anchor` | `LockedInWindow`, `SoundsWhileActive`, `CapEndsAlarm`, types | two profiles with different pauses, a cap present or absent; totals saturate above every cap |
| `escalation` | `WantedInWindow`: WiFi is asked for from the first attempt of a window until the watch gives up, and outside never. `UnwornSounds`, `AlarmEnds`, types | two windows with an anchor and one without, in any order; the give-up age saturates just above its limit |
| `transfer` | `NoResurrection`: a stop in a save brings back nothing from before the last one. `AcceptedIsSaved`, `AnswersMatch`, `Answered`, types | a buffer of two pieces, a table of two events; schedules of one and two pieces and of one and two events, one that does not parse, one too long to be declared, one longer than declared |
| `claim_baseline`, `claim_wake`, `claim_pass` | a comment's sentence, violated | see section 6 |

What they show. A loosening that the watch accepted is never in force before a
day of true time has passed, whatever reboots do to the elapsed clock; on its
own the watch changes nothing else. The event being enforced survives every push
with at least its strength. A verdict given for a push is true of schedule and
flash, also when the workqueue gets stuck, and a save cut short does not bring
an old schedule back. Jamming or leaving is counted as away within a fixed
number of polls, an alarm stops only on evidence, and outputs are never left
over from a finished window. Given an anchor that answers, the engine ranges in
the end, and lets the anchor go when nothing needs a distance, but for the races
section 6 names. An anchor's strap is open in a window only if it was already
being opened when the window began. A watch that stays off makes an anchor it
has a BLE link to sound again and again; once it stays on, the alarm ends even
if every message is lost, as long as the anchor has a cap. No window of true
time has more passes than the budget, but for one whose record a stop has lost.

`CHECK_DEADLOCK FALSE` is set where a behaviour may stop: Integrity at
`MaxReal`, Ratchet at the end of a walk, Engine when it is parked and nothing is
to change any more. Bounds on the behaviour are `MaxReal`, `MaxWrites` and
`MaxBoots` (Integrity), `WalkDays` (Calendar), `Creations` (Ratchet: a chain of
edits begins at one instant in one timezone, the relation of two events being of
whole days), `TopTotal` (Alarm), `TopAge` (Escalation), and in Transfer
`trouble`, which lets a behaviour have trouble with the link, with other writes
or with the flash but not with two of them, and `Between`, which lets a save be
interrupted in the middle only when the trouble is with the flash. In Ranging,
`Counters`, `Parts` and `Backlog` are small instances of the code's, and
`SuspectMax` saturates a counter. `TopTotal`, `TopAge` and `SuspectMax` hide no
behaviour.

Exclusions a property states for itself: `LockedInWindow` allows a strap that
was being opened when the window began (`late`); `SoundsWhileActive` allows a
return that came between a tick's test of the phase and its write of the pin,
for as long as the buzzer stays as that tick has set it (`cut`);
`BaselineIsCurrent` allows a stop between two saves of one handler (`torn`);
`PassBudgetHeld` does not count the pass whose record such a stop has lost
(`spent[k].torn`), and counts all others; `AnswersMatch` and `Answered` are for
an app during whose link the anchor's own link does not drop (`Undisturbed`);
`AcceptedIsSaved` allows a failed write (`saving.lost`); `AwayInTime`,
`ReleaseNeedsEvidence` and the step without output of `OutputFollowsCondition`
allow a push that has moved another event into the active cell (`seen.moved`);
`ActiveEventHeld` is for blobs that name no event twice (`NamedOnce`); Engine's
allow the races in `noted`, each property only its own; `FetchedIsWhole` allows
results left by an earlier link or a failed fetch (`Stale`, `Loose`). Each is a
behaviour of the code, described in section 6.

### Fairness

- *Enforcement*: `Running`, passes go on for ever. The hardware watchdog resets
  a device whose main loop does not feed it. Nothing is assumed of the radio.
- *Anchor*: weak fairness of the tick, same reason, and of the end of a sleep.
- *Escalation*: weak fairness of the poll (main loop), of delivery or loss of
  what is under way, of the anchor's clock, and of the cap (`CapEndsAlarm` of
  Anchor). The cap is there from boot on, but the app may set it to zero for
  none: `AlarmEnds` is about an anchor on which it has not. None of the WiFi
  driver, of datagrams arriving, or of links.
- *Engine*: weak fairness of the engine thread, each of whose waits has a
  timeout while ranging is wanted, of the main loop's command returning, of the
  retry of a scan, of a connection attempt ending, and of a link that is being
  closed going down: all of them timers or promises of the host. What the anchor
  does is assumed only once `calm` holds, from which point there are no faults
  and no changes of mind: it is found, it answers, its controller completes an
  enable, and an attempt to connect is not for ever just too late for the
  engine's timeout (strong fairness, as the engine may give an attempt up and
  make a new one).
- *Ranging*: over a calm link procedures go on and the anchor's data arrives.
  Nothing over any other.
- *Transfer*: weak fairness of the workqueue, of the app taking its
  notifications, and of the reboot when the queue is stuck: main probes it, and
  Kconfig has the limit "comfortably longer than any legitimate work item". The
  app need not go on with a transfer, and may leave at any point.
- *Integrity* has no liveness property: a quarantined change is promoted only at
  boot, and nothing makes a device reboot.

## 4. The proofs

Every theorem is for all values of the constants of its module, under the named
assumptions the module and those it extends state. These say what the code's
constants, its parser or its types ensure: a greatest cap of the alarm exists as
it has two bytes (`AlarmAssumption`), a sample event starts within its day
(`CalendarAssumption`, schedule_blob.c:97), a pass budget fits the log of spends
(`IntegrityAssumption`), and the lost-link and poll constants are in the order
of the code's (`EnforcementAssumption`).

All safety invariants, action properties and types that the runs check are
proved, and the refinement.

`RatchetProofs`, for every set of events whose fields are what the parser lets
through, every number of days and every timezone:

- `NeverUncoveredAlways`: `Spec => []NeverUncovered`. The property is inductive
  once one edit is known to uncover nothing (`EditCovers`): an edit is instant
  only if each field's relation is kept (`InstantKeeps`), a kept window covers
  the minutes of the old one and a kept rule its days.
- `NeverSoftenedAlways`: `Spec => []NeverSoftened`, because one edit demands no
  less (`EditDemands`) and `Demands` is transitive.
- `CalendarAlwaysFollows`: `Spec => []CalendarFollows`, for every integer day
  and not only those a walk reaches. `CivilFromDays` is arithmetic on an era of
  400 years, a year of it that begins in March, a day of that year and a month.
  These parts exist for every day (`CivilParts`) and no day has two
  (`PartsUnique`), so that the date of the next day follows from the parts of
  this one: within a month (`AfterSameMonth`), from month to month
  (`AfterMonth`), and from year to year, which is where the leap days are
  (`AfterYear`). `DaysInvert` is the inverse.
- `NextStartAlwaysNext`: `Spec => []NextStartIsNext`. The search looks at
  finitely many days, a start is at one minute of its day (`StartOfDay`,
  `StartIsOfADay`), and a start ahead of now and within the horizon is of a day
  that was looked at (`SearchedDays`, `AheadIsWithin`).

`IntegrityProofs`, for every set of events and pushes, every table and queue
size, delay and save interval, and any number of reboots:

- `TypeCorrect`: `Spec => []TypeOK`. `TypeOK` is inductive as it stands because
  it keeps the loops within their arrays (`JobOK`), says that no cell below the
  count is blank (`Filled`), and covers the flash copy. One lemma per action,
  resting on one lemma per operator (`UpsertType`, `DeleteType`,
  `QueuePushType`, `ActiveSlotType`, ...). "The first slot with this UUID" is a
  `CHOOSE` of a least element, which exists by `LeastExists`.
- `OnePendingAlways` and `QuarantineIsServed` share an argument. `QueueSteps`
  shows that every step does one of four things to the queue and its clocks: it
  empties cells and may save (`QuietStep`), it asks for one change after
  cancelling that event's others (`AskStep`), it advances both clocks
  (`TickStep`), or it falls back to flash (`BootStep`). An invariant of the
  queue then needs four cases instead of eleven. `QuarantineServed` is not
  inductive: a reboot replaces the queue *and* the elapsed clock by older
  copies. `DelayInv` says of every change, in RAM *and* in flash, that true time
  since it was asked for is at least what the elapsed clock has counted of its
  delay, and that the saved base is not ahead of the elapsed clock; a reboot
  takes queue and clock from flash, and so can only put a promotion further off.
- `PromiseIsKept`: `Spec => PromiseKept`, the refinement. Initial states map to
  initial states, and every step maps to a step of Quarantine or a stutter, with
  one lemma per handler. A table stands for the *set* of its events, which takes
  that no two cells below the count carry one UUID (`Distinct`, invariant in RAM
  and in flash): only then does writing over a cell replace exactly one event.
  That a grant comes when the request has waited is `QuarantineServed`, used
  here as a lemma; that the queue holds one request per event is
  `OnePendingPerEvent`.
- `BaselineStaysCurrent`: `Spec => []BaselineIsCurrent`. The property speaks of
  RAM and a reboot replaces RAM, so `BaselineInv` says it of flash too, but for
  the moments between the two saves of a handler, when the records in flash are
  behind the schedule there (`InStep`).
- `AcceptedIsApplied`: `Spec => []AcceptedMeansApplied`. `AppliedInv` is the
  invariant of the two loops of a push: the deletion loop has left only listed
  events behind it (`ListedFrom`), the other has taken in the records before its
  index, each by the last that carries its UUID (`TakenIn`), as long as nothing
  was left undone.
- `ActiveEventStaysHeld`: `Spec => []ActiveEventHeld`. While a loop runs, the
  event is in the table at least as binding (`HeldIn`), the blob lists it, and
  the record of the blob that carries it binds at least as hard (`HeldInv`),
  which is the gate's check carried through the loops.
- `PassBudgetIsHeld`: `Spec => []PassBudgetHeld`. The budget is in true time,
  the log in elapsed time, and a reboot takes both log and clock from flash.
  `PassInv` counts: for every stretch of the recent past, however short, no more
  passes were spent in it by true time than the log has cells in it by the
  elapsed clock (`Covered`), in RAM, and in flash as it would be after a stop at
  this moment (`Recorded`). A reboot only lowers the elapsed clock, and a cell
  overwritten has left the longest stretch. Between the two saves of a pass the
  log in flash lacks it: a stop there loses the record, and that pass is the one
  the property does not count. Without the exception the property is false: TLC
  finds a second pass spent after such a stop.

`EnforcementProofs`, for every schedule, dwell and time limit. The second half
of a pass is one expression of nested stages, as in the code; each stage has a
lemma of what it keeps, about any context.

- `TypeCorrect` and `OutputFollows`: `Spec => []OutputFollowsCondition`, from
  `ContextInv` (output runs just when the criterion is not met) and `PinsInv`
  (after a pass the pins are as the context says).
- `SilenceIsAway`: `Spec => []AwayInTime`. `VerdictInv` relates the history of
  bursts to what the program has counted of them, in eight parts. Two carry the
  bound: silence is charged at every poll, and no poll is later than `PollMet`
  after the last (`ChargeInv`); and a loss that has been concluded stays away
  until a burst comes (`LossInv`).
- `AlarmStopsOnEvidence`: `Spec => ReleaseNeedsEvidence`, from the same
  invariant: the run of far bursts is of bursts that came (`FarInv`), an
  abstention is of silence and one in a pass (`AbstainInv`), and a grace does
  not end before its time but by a burst that was not far (`GraceInv`).

`AnchorProofs`, for every set of patterns and caps:

- `TypeCorrect`, of strap and alarm together.
- `StrapStaysLocked`: `Spec => []LockedInWindow`. A thread has one move under
  way at most as it sleeps in it (`Asleep`), the servo obeys the call that began
  last (`LastDrives`), a strap that is open is known to be (`OpenIsKnown`), and
  in a window that found none opening it moves only close (`OnlyCloses`).
- `SoundsAreOfAnAlarm`: `Spec => []SoundsWhileActive`. A tick that turns the
  phase (`Turning`) is of a running alarm unless a return came in the middle of
  it (`cut`), and after such a return no alarm runs until the next removal
  (`AlarmInv`).

`EscalationProofs`: `EscalationTypes` and `WifiWantedInWindow`. The two are
inductive together; what an escalation does at any of its four places is one
lemma, `Escalates`.

`EngineProofs`, for set-ups of any stages: `EngineTypes`, `EngineLeaksNothing`,
`EngineClosesQuietly`. What makes them inductive: the reference is held only
over a connection object (`rreq` implies `conn`, but for a leak), and that one
only over a link that is up or closing; and a confirmation still to be consumed
is of the last command, so that whenever procedures are active none is there
(`ConfirmationIsFresh`).

`TransferProofs`, for any schedules, settings and lengths:

- `NothingResurrected` rests on `SaveSoFar`, which says record by record what
  the flash holds at each point of a save, failed writes included, and on
  `RecordsAreRecent`.
- `AcceptedMeansSaved` is an action property: from the same invariant, and from
  `AckIsNotEnd`, by which the one acknowledgement slot never holds the
  acceptance of a schedule, a step that notifies an acceptance is the end of a
  whole save (`ToldHolds`, `SavedIsLoaded`). `TransferTypes` needs no more.
- `AnswersAlwaysMatch`: `Spec => AnswersMatch`. `CallInv` says that while an app
  is connected one thing at most is under way, in the queue, in the saves or on
  the air, and that it is for the request the app waits on; and that what an
  earlier link has left is in the queue before the restart of advertising,
  without which no app connects. It is an invariant of the behaviours of which
  the property speaks: its hypothesis `Undisturbed` enters as `[]Quiet`.

`RangingProofs`, for any number of counters, results in a procedure and
procedures an anchor may be behind:

- `FetchedAlwaysWhole` from three facts. The buffer holds results of the
  procedure that took it (`OwnResults`), a procedure with a result missing is
  known to be dropped or adds to a free buffer (`GapIsKnown`), and a buffer
  short of a result is marked (`PartialIsDirty`). `RangingTypes` follows.
- `LaterBurstsAlwaysNew`: a burst that has been completed has taken the old
  samples with it (`BurstIsFresh`).

Only model-checked is liveness: `AwayIsConcluded`, `GraceRunsOut`,
`RangesInTheEnd`, `AnchorReleased`, `UnwornSounds`, `AlarmEnds`, `CapEndsAlarm`,
`DataFlows` and `Answered`. Each rests on fairness, so on `ENABLED`, which is
out of reach of the prover. Of the schedule evaluation, `DayPlan` and the active
slot are used by the runs but have no theorem of their own.

## 5. Not modelled

- `cs_reflector_nrf.c`, `identity.c`, `hal/` but for the servo: calls into the
  vendor's stack, pins, a shell. No state of their own that a property is about.
- `profiles.c`: the step tables; Enforcement only has a step with output or
  without.
- Of `cs_backend_nrf.c`: arithmetic on tones and round-trip times (Fusion begins
  with the three estimates), `impulse_cs_measure`, which nothing calls with this
  backend, and the exchange of the MTU, whose outcome is not looked at.
- `schedule_blob.c`'s byte layout: a blob parses or not.
- Storage of the boot counter and the wall clock; the record of the last fault.
- Of `servo.c`: the error return of `impulse_servo_set` (lines 61 to 70). Its
  arguments are constants and the device is ready once it has booted.
- BLE reads and status notifications. The loading order at boot, during which
  BLE already listens: a boot is one step in Transfer.
- The anchor's own transfer, which is the watch's without the gate, on another
  queue, and its advertising.
- The main loop between the steps of one handler: Integrity lets the loop run
  between handlers only, Enforcement sees a push as a whole. A clock set back,
  in Enforcement: its deadlines only come nearer.
- Stretches of WiFi that TLC would not tell apart: DHCP, credentials, retry
  times.

## 6. Where the code and its comments differ

Run and reproduced by a counterexample:

- `claim_baseline`, `FreeEditKeepsBaseline`: "a change to an UNSETTLED event
  whose resulting state is still at least as binding as its settled_baseline"
  (integrity.c:222). `note_edit` clears `has_baseline`, so one accepted
  tightening of a settled event makes the next loosening free.
- `claim_wake`, `NeverADayOverdue`: promotion is "called on every wake - RTC
  boundary, midnight, boot" (integrity.h:110). It is called at boot only.
- `claim_pass`, `PassLastsOneDay`: the pass "applies a one-day negate"
  (integrity.h:118). The negate takes the event's own cell, and a recurring
  event is gone for good.

Noticed while modelling, and not run:

- integrity.c:242: the far-event exception measures the proposed event, so an
  event due today is moved to a far day at once.
- integrity.c:361: a push that restores an event is skipped before its older
  quarantined loosening is cancelled.
- integrity.c:57: settle records are never freed; after the table has held as
  many UUIDs as it has cells, a new event is never sealed.
- integrity.c:289: of two records with the active UUID, only the first is
  compared with the active event, and the last is what the schedule ends up
  with. `ActiveEventHeld` excludes such blobs.
- integrity.c:289: the active event is read through `g_enf.active`, a pointer
  into the array. A push that deletes an event before it moves others down, and
  until the main loop's next pass a second push is compared with whichever event
  has come to be in that cell.
- integrity.c:541: only the minute of the day is compared; a clock write to the
  same minute of another day ends a weekly window.
- main.c:689: the CRC reported is that of the push, also when part of it is
  quarantined.
- main.c:375: a push that moves the active cell re-enters the event and opens a
  new donning grace in the middle of a window.
- enforcement.c:351: the burst that was a link's last activity is stamped after
  it and ends the lost-link grace that opens in the same pass.
- enforcement.c:232: the poll interval does not look at the end of a donning
  grace, which is noticed up to an interval late (but is noticed:
  `GraceRunsOut`).
- main.c:748: a clock set back moves `now_utc` before the deadlines of a donning
  grace and of the phone's tolerance, and both last the longer.
- main.c:362: the main loop plans from `g_schedule` while a push that has
  changed it is blocked in flash before its records.
- main.c:691, 775: a stop after the schedule of a handler is saved and before
  its integrity records are restores records older than the schedule. The
  baseline of an event edited by that push stays what it was before the edit
  (`torn`, which `BaselineIsCurrent` excludes). A pass whose negate was saved is
  in force and in no log, so that another can be spent in the same window:
  integrity.h's budget is exceeded by one for each such stop (`PassBudgetHeld`
  excludes that pass).
- main.c:690: the results of `save_schedule`'s writes are not looked at; the app
  is told its schedule is accepted all the same.
- storage.c:223: the CRC is written first, so that a save cut short reports the
  new CRC over old events after a restart.
- main.c:1184: BLE is started before schedule and integrity records are loaded.
  A push in that window meets an empty schedule, and the load then overwrites
  it.
- main.c:1410: a forced poll charges an abstention however short the time since
  the last one. Polls are forced by an accepted push, a write of the clock or of
  the anchors, and each worn edge (main.c:692, 744, 762, 776, 1640, 1678), so
  that `AbstainMax + 1` abstentions, which enforcement.h:52 counts as a minute,
  may be charged in as many passes. This is what `ReleaseNeedsEvidence` says.
- main.c:375: a push that moves another event into the active cell changes
  nothing the comparison of pointers sees, and that event goes on with the
  verdict, the graces and the running profile of the one before (`seen.moved`).
- main.c:338: the give-up clock of the WiFi escalation runs on through a return
  to the wrist and from window to window.
- net_wifi.c:170: letting go of WiFi while a connection is pending does not stop
  it, and the association completes unwanted.
- ble_anchor.c:91, anchor.c:198: a toggle that opens the strap is checked before
  the servo moves, and `servo_is_open` is set only after the sleep that follows
  (servo.c:77). A window that begins during the sleep finds the strap closed and
  does nothing, and the strap stays open in it (`late`, which `LockedInWindow`
  excludes).
- anchor.c:133: a return that interrupts the tick between its test and its write
  may leave the buzzer on, until something else writes the pin (`cut`, which
  `SoundsWhileActive` excludes).
- ble_anchor.c:128, anchor.c:119: a cap of zero, which the app may write, is no
  cap, and an anchor then sounds until a message comes through or it restarts.
  `AlarmEnds` and `CapEndsAlarm` are about a cap that is not zero.
- anchor.h:35: an alarm is not stopped by the end of its window, only by a
  message or the cap.
- ble_watch.c:727: the drop of the anchor's link queues a restart of advertising
  that may run ahead of the acknowledgements of an app that leaves next; an app
  that connects in between gets them, and the end handler left over works on its
  buffer. It takes another item that blocks between the two in the queue.
- ble_anchor.c:651: the anchor restarts advertising on a queue of its own, so
  the verdict of a push whose link dropped goes to the next connection.
- ble_anchor.c:651: advertising stops on a connect and restarts only on a
  disconnect, so that there is one link at most, though a comment speaks of
  phone and watch at once; and the anchor notifies from within the settings
  write, which ble_watch.c says fails.
- cs_backend_nrf.c:1376 and `anchor_sd` of ble_anchor.c say the scan must be
  active; it is passive, and works because it filters on what the advertisement
  itself carries.

Races of the engine, which `noted` names and its properties exclude:

- "leaked": a service discovery answered after the engine let its link go takes
  a reference that nobody gives back.
- "late": a connection completes after the restart's look for one to close; if
  ranging is not wanted any more, the engine parks and holds the anchor.
- "unseen": a connection made before the engine has noticed the loss of the
  previous one is neither set up nor closed.
- "misread", "refused": a command of the main loop and one of the engine cross,
  or an enable completes with an error, and `g_procedures_on` stays TRUE with
  procedures off.
- "again": ranging is wanted again between the confirmation and the close.
- A link lost during the wait for the confirmation leaves a NULL connection that
  is then used; with CONFIG_ASSERT the watch restarts (`Rebooted`).

And of its data path:

- cs_backend_nrf.c:1112: "at window start the burst buffer is empty". It holds
  what the last window left, so the first burst may be of two windows
  (`LaterBurstsAreNew` says that it is only the first).
- A link lost, or a fetch that failed, leaves the buffer taken and the results
  in it. What follows is dropped until the counter comes round to the same
  number, and is then mixed with them (`Stale`). A result whose counter equals
  the last one while the buffer is free is added unguarded (`Loose`). Data of a
  real-time anchor that does not match empties the buffer in the middle of a
  procedure.

## 7. Plan

Built so far, in this order: Schedule, Classify, Calendar, Ratchet; Integrity
with its claims and proofs; Proximity and Enforcement; Strap, Alarm, Anchor;
Escalation; Transfer; Quarantine with the refinement; Transfer's records,
one-slot buffer and watchdog; Engine; Fusion and Ranging; the proofs of
Escalation, Engine, Transfer and Ranging; the proofs of Enforcement and Anchor,
of the calendar, and of the rest of Integrity.

Left to model:

1. Boot in its order with BLE already listening, and the main loop between the
   steps of a handler: Integrity and Transfer composed.
2. Profiles: step tables and shrinking gaps as functions, against a closed form.
3. The anchor's transfer as a second instance of Transfer, and its advertising.
4. The record of the last fault, and the reflector as the engine's other side.

Left to prove: facts about operators that no run states as an invariant, such as
that a plan of a day gives each slot to one event, that the median of a burst
lies between its least and greatest sample, and that a verdict of Proximity
takes a run of its own kind.
