------------------------------ MODULE Transfer ------------------------------
(***************************************************************************)
(* What an app writes to the watch (ble/ble_watch.c): a schedule, by       *)
(* BEGIN, DATA in pieces, END or ABORT into one static buffer, and the     *)
(* settings, the clock and the pass, each through a buffer of one.         *)
(*                                                                         *)
(* Writes are handled on the Bluetooth thread.  Acknowledgements, the diff *)
(* gate with its saves, and the restart of advertising are work items of   *)
(* the system workqueue, which runs one at a time, in order, and blocks    *)
(* while it writes to flash, record by record (storage/storage.c).  The    *)
(* main loop finds out when it is stuck, and reboots.  The app waits for   *)
(* the answer to one request before it makes the next; its link may go at  *)
(* any time.                                                               *)
(*                                                                         *)
(* Bound: a behaviour has trouble with one thing, the link and what is     *)
(* pushed over it, the link and other writes, or the flash with restarts   *)
(* in the middle of a save.                                                *)
(***************************************************************************)
EXTENDS Naturals, Sequences, SequencesExt

CONSTANTS
  Blobs,     \* the schedules there are
  Pushes,    \* those the app may push, for each trouble
  Pieces,    \* DATA writes it takes to send each
  Declared,  \* what its BEGIN declares, in pieces
  Bad,       \* those that do not parse
  Count,     \* the events of each
  MaxEvents, \* CONFIG_IMPULSE_MAX_EVENTS
  Settings,  \* the settings the app may write
  BufMax,    \* SCHED_BUF_MAX
  NoBlob     \* the schedule before any push

Troubles == {"link", "writes", "flash"}

ASSUME TransferAssumption ==
  /\ Pieces \in [Blobs -> Nat \ {0}] /\ Declared \in [Blobs -> Nat]
  /\ Bad \subseteq Blobs /\ BufMax \in Nat \ {0}
  /\ Pushes \in [Troubles -> SUBSET Blobs]
  /\ MaxEvents \in Nat /\ Count \in [Blobs -> 0 .. MaxEvents]
  /\ Blobs \cap Settings = {} /\ NoBlob \notin Blobs \cup Settings

VARIABLES
  trouble,  \* the bound: what there is trouble with, for good
  link,     \* current_conn
  adv,      \* the watch advertises
  xfer,     \* sched_xfer: active, and the pieces received
  ack,      \* ack_pending and the request it answers, while it is queued
  queue,    \* the work items submitted
  slot,     \* pending_settings, while its item is queued
  stuck,    \* the workqueue runs nothing any more
  saving,   \* the blob whose end handler is in its saves, or NoBlob; the record
            \* it is at; what has failed in the last save
  held,     \* g_schedule: its CRC, and the schedule each of its events is of
  flash,    \* the records of the schedule: CRC, count and one for each event
  recent,   \* history: the schedule saved last, and those whose save was begun
            \* since or left a record behind
  notes,    \* notifications under way to the app
  app       \* the app: what it does, the blob, and the pieces sent

store == <<saving, held, flash, recent>>
vars == <<trouble, store, stuck, link, adv, xfer, ack, queue, slot, notes, app>>

Idle == [does |-> "idle", blob |-> NoBlob, sent |-> 0]
Doing == {"idle", "begin", "data", "end", "abort", "settings"}
Verdicts == {"accepted", "rejected", "failed"}
Answers == [says : Verdicts, to : Doing \ {"idle", "data"},
            blob : Blobs \cup Settings \cup {NoBlob}]

Cells == 1 .. MaxEvents
Schedules == Blobs \cup {NoBlob}

\* The records in the order they are saved: 0 the CRC, 1 the count, 1 + i event i.
Done == MaxEvents + 2

TypeOK ==
  /\ {link, adv} \subseteq BOOLEAN
  /\ xfer.active \in BOOLEAN /\ Len(xfer.got) <= BufMax
  /\ ack \in Answers \cup {NoBlob}
  /\ queue \in Seq({"ack", "end", "adv", "settings"}) /\ IsInjective(queue)
  /\ trouble \in Troubles
  /\ slot \in Settings \cup {NoBlob} /\ stuck \in BOOLEAN
  /\ saving \in [of : Schedules, at : 0 .. Done,
                lost : {"nothing", "write", "deletion"}]
  /\ held.crc \in Schedules /\ Len(held.events) <= MaxEvents
  /\ flash \in [crc : Schedules, n : 0 .. MaxEvents, cell : [Cells -> Schedules]]
  /\ recent \subseteq Schedules
  /\ notes \in Seq(Answers) /\ app.does \in Doing

Whole(b) == [i \in 1 .. Pieces[b] |-> <<b, i>>]

\* k_work_submit: an item that is queued stays where it is.
Submit(q, item) == IF item \in ToSet(q) THEN q ELSE Append(q, item)

\* The schedule a push of b leaves: what the diff gate does to it is Integrity's.
Pushed(b) == [crc |-> b, events |-> [i \in 1 .. Count[b] |-> b]]

\* load_cb: as many of the records as the count says, a missing one left empty.
Loaded == [crc |-> flash.crc, events |-> [i \in 1 .. flash.n |-> flash.cell[i]]]

NotSaving == [of |-> NoBlob, at |-> 0, lost |-> "nothing"]
Running == saving.of # NoBlob

Answer(says, to) == [says |-> says, to |-> to, blob |-> app.blob]

\* sched_ctrl_ack
Ack(says, to) == ack' = Answer(says, to) /\ queue' = Submit(queue, "ack")

\* bt_gatt_notify, when there is a link.
Notify(a) == notes' = IF link THEN Append(notes, a) ELSE notes

Init ==
  /\ trouble \in Troubles
  /\ link = FALSE /\ adv = TRUE /\ xfer = [active |-> FALSE, got |-> <<>>]
  /\ ack = NoBlob /\ queue = <<>> /\ slot = NoBlob /\ stuck = FALSE /\ saving = NotSaving
  /\ held = [crc |-> NoBlob, events |-> <<>>]
  /\ flash = [crc |-> NoBlob, n |-> 0, cell |-> [i \in Cells |-> NoBlob]]
  /\ recent = {} /\ notes = <<>> /\ app = Idle

-----------------------------------------------------------------------------
(* The Bluetooth thread.                                                   *)

\* connected: advertising ends with it.
Connect ==
  /\ adv /\ ~link /\ link' = TRUE /\ adv' = FALSE /\ app' = Idle
  /\ UNCHANGED <<trouble, xfer, ack, queue, stuck, store, slot, notes>>

\* Mutant: the callback restarts advertising itself.
DisconnectAdvertises ==
  /\ link /\ link' = FALSE /\ adv' = TRUE
  /\ xfer' = [active |-> FALSE, got |-> <<>>]
  /\ notes' = <<>> /\ app' = Idle
  /\ UNCHANGED <<trouble, ack, queue, stuck, store, slot>>

\* disconnected: a transfer does not survive the link, and neither does a
\* notification.
Disconnect ==
  /\ trouble # "flash" /\ link /\ link' = FALSE
  /\ queue' = Submit(queue, "adv")
  /\ xfer' = [active |-> FALSE, got |-> <<>>]
  /\ notes' = <<>> /\ app' = Idle
  /\ UNCHANGED <<trouble, adv, ack, stuck, store, slot>>

\* disconnected, for the link to the anchor.
OtherDisconnect ==
  /\ trouble # "flash" /\ queue' = Submit(queue, "adv")
  /\ UNCHANGED <<trouble, link, adv, xfer, ack, stuck, store, slot, notes, app>>

Refused(b) == Declared[b] = 0 \/ Declared[b] > BufMax

\* write_sched_ctrl, BEGIN
Begin(b) ==
  /\ b \in Pushes[trouble] /\ link /\ app.does = "idle"
  /\ app' = [does |-> "begin", blob |-> b, sent |-> 0]
  /\ xfer' = IF Refused(b) THEN [xfer EXCEPT !.active = FALSE]
             ELSE [active |-> TRUE, got |-> <<>>]
  /\ ack' = [says |-> IF Refused(b) THEN "failed" ELSE "accepted",
             to |-> "begin", blob |-> b]
  /\ queue' = Submit(queue, "ack")
  /\ UNCHANGED <<trouble, link, adv, stuck, store, slot, notes>>

\* Mutant: a piece is taken when the buffer is full.
RoomForOneMore == Len(xfer.got) <= BufMax

HasRoom == Len(xfer.got) < BufMax

\* write_sched_data: without response, so a piece may also be lost.
Data(lost) ==
  /\ lost => trouble # "flash"
  /\ link /\ app.does = "data" /\ app.sent < Pieces[app.blob]
  /\ app' = [app EXCEPT !.sent = @ + 1]
  /\ xfer' = IF lost \/ ~xfer.active THEN xfer
             ELSE IF ~HasRoom THEN [xfer EXCEPT !.active = FALSE]
             ELSE [xfer EXCEPT !.got = Append(@, <<app.blob, app'.sent>>)]
  /\ UNCHANGED <<trouble, link, adv, ack, queue, stuck, store, slot, notes>>

\* Mutant: a transfer that fails its check is dropped without a word.
CheckedSilently ==
  IF xfer.got = Whole(app.blob)
  THEN queue' = Submit(queue, "end") /\ UNCHANGED <<xfer, ack>>
  ELSE /\ xfer' = [active |-> FALSE, got |-> <<>>]
       /\ UNCHANGED <<ack, queue>>

\* The CRC of END: what was received is what the app sent.
Checked ==
  IF xfer.got = Whole(app.blob)
  THEN queue' = Submit(queue, "end") /\ UNCHANGED <<xfer, ack>>
  ELSE /\ xfer' = [active |-> FALSE, got |-> <<>>]
       /\ Ack("failed", "end")

\* write_sched_ctrl, END: without a transfer it is not answered.
End ==
  /\ link /\ app.does = "data" /\ app.sent = Pieces[app.blob]
  /\ app' = [app EXCEPT !.does = "end"]
  /\ IF xfer.active THEN Checked ELSE UNCHANGED <<xfer, ack, queue>>
  /\ UNCHANGED <<trouble, link, adv, stuck, store, slot, notes>>

\* write_sched_ctrl, ABORT
Abort ==
  /\ trouble = "link" /\ link /\ app.does = "data"
  /\ app' = [app EXCEPT !.does = "abort"]
  /\ xfer' = [active |-> FALSE, got |-> <<>>]
  /\ Ack("accepted", "abort")
  /\ UNCHANGED <<trouble, link, adv, stuck, store, slot, notes>>

\* write_settings; the clock and the pass go the same way.
WriteSettings(v) ==
  /\ trouble = "writes" /\ link /\ app.does = "idle"
  /\ app' = [does |-> "settings", blob |-> v, sent |-> 0]
  /\ slot' = v /\ queue' = Submit(queue, "settings")
  /\ UNCHANGED <<trouble, stuck, store, link, adv, xfer, ack, notes>>

\* The app takes a notification for the answer to its last request.
AppTakes ==
  /\ notes # <<>>
  /\ notes' = Tail(notes)
  /\ app' = IF app.does = "begin" /\ Head(notes).says = "accepted"
            THEN [app EXCEPT !.does = "data"]
            ELSE IF app.does = "data" THEN app ELSE Idle
  /\ UNCHANGED <<trouble, link, adv, xfer, ack, queue, stuck, store, slot>>

-----------------------------------------------------------------------------
(* The system workqueue.                                                   *)

Runs(item) ==
  /\ ~stuck /\ ~Running /\ queue # <<>> /\ Head(queue) = item
  /\ queue' = Tail(queue)

\* ack_work_handler
RunAck ==
  /\ Runs("ack") /\ Notify(ack) /\ ack' = NoBlob
  /\ UNCHANGED <<trouble, stuck, store, slot, link, adv, xfer, app>>

\* settings_work_handler: what is in the buffer by now is applied and answered;
\* how it is answered is Integrity's.
RunSettings ==
  /\ Runs("settings")
  /\ Notify([says |-> "accepted", to |-> "settings", blob |-> slot])
  /\ slot' = NoBlob
  /\ UNCHANGED <<trouble, stuck, store, link, adv, xfer, ack, app>>

\* adv_restart_work_handler: there is one slot for an app.
RunAdv ==
  /\ Runs("adv") /\ adv' = ~link
  /\ UNCHANGED <<trouble, stuck, store, slot, link, xfer, ack, notes, app>>

Received == {b \in Blobs \ Bad : xfer.got = Whole(b)}

Ended == [active |-> FALSE, got |-> <<>>]

\* sched_end_work_handler for what does not parse, or would loosen the active
\* event; the buffer is given up and the app told.
RunEndRefused ==
  /\ Runs("end")
  /\ Notify(Answer(IF Received = {} THEN "failed" ELSE "rejected", "end"))
  /\ xfer' = Ended
  /\ UNCHANGED <<trouble, stuck, store, slot, link, adv, ack, app>>

\* The same, for what is let in: applied, then saved.
RunEnd ==
  /\ Runs("end")
  /\ \E b \in Received :
       /\ held' = Pushed(b) /\ recent' = recent \cup {b}
       /\ saving' = [of |-> b, at |-> 0, lost |-> "nothing"]
  /\ UNCHANGED <<trouble, stuck, flash, slot, link, adv, xfer, ack, notes, app>>

\* Mutant: the records past the new count stay.
WrittenOnly(f, at) ==
  CASE at = 0 -> [f EXCEPT !.crc = held.crc]
    [] at = 1 -> [f EXCEPT !.n = Len(held.events)]
    [] at \in 2 .. Len(held.events) + 1 ->
         [f EXCEPT !.cell[at - 1] = held.events[at - 1]]
    [] OTHER -> f

\* impulse_storage_save_schedule: the CRC, the count, the events, and the records
\* past them deleted.
Written(f, at) ==
  CASE at = 0 -> [f EXCEPT !.crc = held.crc]
    [] at = 1 -> [f EXCEPT !.n = Len(held.events)]
    [] at \in 2 .. Len(held.events) + 1 ->
         [f EXCEPT !.cell[at - 1] = held.events[at - 1]]
    [] OTHER -> [f EXCEPT !.cell[at - 1] = NoBlob]

\* One record of it.  A write that fails ends the save; a deletion is not looked
\* at.
Save(fails) ==
  /\ ~stuck /\ Running /\ saving.at < Done
  /\ fails => trouble = "flash"
  /\ IF ~fails
     THEN flash' = Written(flash, saving.at) /\ saving' = [saving EXCEPT !.at = @ + 1]
     ELSE /\ UNCHANGED flash
          /\ saving' = IF saving.at < Len(held.events) + 2
                       THEN [saving EXCEPT !.at = Done, !.lost = "write"]
                       ELSE [saving EXCEPT !.at = @ + 1, !.lost = "deletion"]
  /\ UNCHANGED <<trouble, stuck, held, recent, slot, link, adv, xfer, ack, queue, notes, app>>

Accepts(b) == [says |-> "accepted", to |-> "end", blob |-> b]

\* Mutant: the app is told before the schedule is saved.
EndEarly ==
  /\ ~stuck /\ Running
  /\ \/ /\ xfer.active /\ xfer' = Ended
        /\ Notify(Accepts(saving.of))
        /\ UNCHANGED <<saving, recent>>
     \/ /\ ~xfer.active /\ saving.at = Done
        /\ saving' = NotSaving /\ recent' = {saving.of}
        /\ UNCHANGED <<xfer, notes>>
  /\ UNCHANGED <<trouble, stuck, held, flash, slot, link, adv, ack, queue, app>>

\* The saves are done, whatever they returned, and the buffer is given up.
EndDone ==
  /\ ~stuck /\ Running /\ saving.at = Done
  /\ saving' = [NotSaving EXCEPT !.lost = saving.lost] /\ xfer' = Ended
  /\ recent' = IF saving.lost = "nothing" THEN {saving.of} ELSE recent
  /\ Notify(Accepts(saving.of))
  /\ UNCHANGED <<trouble, stuck, held, flash, slot, link, adv, ack, queue, app>>

Work == \/ RunAck \/ RunSettings \/ RunAdv \/ RunEndRefused \/ RunEnd
        \/ EndDone \/ \E fails \in BOOLEAN : Save(fails)

-----------------------------------------------------------------------------
(* The watchdog of the workqueue, and restarts.                            *)

\* The bound: in the middle of a save only with trouble with the flash.
Between == trouble # "flash" => saving.at \in {0, Done}

\* A work item waits for something that never comes.
Stick ==
  /\ Between /\ ~stuck /\ stuck' = TRUE
  /\ UNCHANGED <<trouble, store, slot, link, adv, xfer, ack, queue, notes, app>>

\* The watch restarts from what it has saved.
Reset ==
  /\ Between
  /\ link' = FALSE /\ adv' = TRUE /\ xfer' = Ended /\ ack' = NoBlob
  /\ queue' = <<>> /\ slot' = NoBlob /\ notes' = <<>> /\ app' = Idle
  /\ saving' = NotSaving /\ stuck' = FALSE
  /\ held' = Loaded /\ UNCHANGED <<trouble, flash, recent>>

\* The main loop's probe of the workqueue has not run for
\* IMPULSE_SYSWORKQ_STALL_S, longer than any item of it takes.
Reboot == stuck /\ Reset

Next == \/ Connect \/ Disconnect \/ OtherDisconnect \/ End \/ Abort \/ AppTakes
        \/ \E b \in Blobs : Begin(b)
        \/ \E v \in Settings : WriteSettings(v)
        \/ \E lost \in BOOLEAN : Data(lost)
        \/ Work \/ Stick \/ Reset

\* The workqueue makes progress unless it is stuck, the main loop runs, and the
\* app listens.
Spec ==
  /\ Init /\ [][Next]_vars
  /\ WF_vars(Work) /\ WF_vars(AppTakes) /\ WF_vars(Reboot)

-----------------------------------------------------------------------------

\* The link to the anchor does not drop while the app's is up.  When it does,
\* the restart of advertising it queues may run ahead of the answers to an app
\* that leaves, and the next one gets them.
Undisturbed == [](link => "adv" \notin ToSet(queue))

Matches(a) == a.to = app.does /\ a.blob = app.blob

\* Whatever the app is told answers the request it is waiting for: not one made
\* over an earlier link, whose handler was still in its saves (ble_watch.c:695,
\* and ble_watch.c:736, "a schedule it never sent"), nor a write that another
\* replaced in its buffer.
AnswersMatch == Undisturbed => [](notes # <<>> => Matches(Head(notes)))

\* When the app is told that a schedule is accepted, the watch goes by it and a
\* restart would find it (storage.c:229, "confirm-rather-than-infer"), unless a
\* write to flash has failed, which the handler does not look at.
AcceptedIsSaved ==
  [][Len(notes') > Len(notes) =>
       LET a == Last(notes')
       IN  a.to = "end" /\ a.says = "accepted"
             => /\ held' = Pushed(a.blob)
                /\ held' = Loaded' \/ saving'.lost = "write"]_vars

\* A restart in the middle of a save may find a mixture, but nothing from before
\* the schedule that was saved last: a shortened schedule is not resurrected
\* (storage.c:252), not even by the records of a longer one begun later.
NoResurrection ==
  \A i \in 1 .. Len(held.events) : held.events[i] \in recent \cup {NoBlob}

\* An app that sends what it declares, or settings, gets an answer or loses the
\* link, even when the workqueue gets stuck.
Answered ==
  Undisturbed =>
    /\ \A b \in {c \in Blobs : Declared[c] = Pieces[c]} :
         app.does = "end" /\ app.blob = b ~> ~(app.does = "end" /\ app.blob = b)
    /\ app.does = "settings" ~> app.does # "settings"

=============================================================================
