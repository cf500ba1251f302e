------------------------------- MODULE Engine -------------------------------
(***************************************************************************)
(* The connection machine of the channel-sounding engine on the watch      *)
(* (proximity/cs_backend_nrf.c): scan for the anchor, connect, set the     *)
(* link up stage by stage, let procedures run while a commitment needs a   *)
(* distance, release the link when none does.                              *)
(*                                                                         *)
(* Three threads share `connection`, `g_ranging_wanted` and                *)
(* `g_procedures_on` without a lock: the engine, the main loop (which sets *)
(* what is wanted) and the Bluetooth thread, whose callbacks run at any    *)
(* point of the other two.  A test of `connection` and the call that       *)
(* follows it are one step here; a command to the controller that is       *)
(* answered and what the caller does with the answer are two.              *)
(***************************************************************************)
EXTENDS Naturals, Sequences, SequencesExt, FiniteSets

CONSTANT
  Stages   \* the stages of the set-up, in order; the exchange of the MTU, whose
           \* outcome is not looked at, is only a delay and not among them

ASSUME EngineAssumption ==
  /\ Stages \in Seq(STRING) /\ IsInjective(Stages)
  /\ {"security", "discovery", "features"} \subseteq ToSet(Stages)
  /\ ToSet(Stages) \cap {"connected", "off"} = {}

VARIABLES
  pc,        \* where the engine thread is
  stage,     \* the stage it waits for
  wanted,    \* g_ranging_wanted
  on,        \* g_procedures_on
  sent,      \* params.enable of the engine's command
  main,      \* the main loop is in a command of apply_ranging_state
  conn,      \* connection is not NULL
  link,      \* the link to the anchor
  scanning,  \* the scan module scans
  retry,     \* scan_retry_work is pending
  rreq,      \* the RAS initiator holds a reference on the connection
  sems,      \* the semaphores that are given
  asked,     \* the stages whose answer is outstanding
  ctrl,      \* the controller's procedures
  active,    \* g_cs_active
  ready,     \* this link has its procedure parameters
  noted,     \* history: what went amiss since the last restart
  calm       \* no fault and no change of mind from here on

thread == <<pc, stage>>
request == <<wanted, on, sent, main>>
scan == <<scanning, retry>>
held == <<conn, link, rreq>>
answers == <<sems, asked>>
controller == <<ctrl, active, ready>>
vars == <<thread, request, scan, held, answers, controller, noted, calm>>

AllStages == ToSet(Stages)
Places == {"restart", "still", "quiet", "drop", "unref", "reset", "park",
           "rest", "dial", "wait", "apply", "applying", "run", "check"}

TypeOK ==
  /\ pc \in Places /\ stage \in 0 .. Len(Stages)
  /\ {wanted, on, sent, main, conn, scanning, retry, rreq, active, ready, calm}
       \subseteq BOOLEAN
  /\ link \in {"down", "connecting", "up", "closing"}
  /\ sems \subseteq AllStages \cup {"connected", "off"} /\ asked \subseteq AllStages
  /\ ctrl \in {"off", "enabling", "on", "disabling"}
  /\ noted \subseteq {"refused", "misread", "leaked", "unseen", "late", "again"}

Init ==
  /\ pc = "restart" /\ stage = 0
  /\ wanted = FALSE /\ on = FALSE /\ sent = FALSE /\ main = FALSE
  /\ conn = FALSE /\ link = "down" /\ rreq = FALSE
  /\ scanning = FALSE /\ retry = FALSE
  /\ sems = {} /\ asked = {}
  /\ ctrl = "off" /\ active = FALSE /\ ready = FALSE
  /\ noted = {} /\ calm = FALSE

-----------------------------------------------------------------------------
\* The controller takes a command only in the state it is meant for, and may
\* refuse it even then.
Takes(enable) ==
  /\ link = "up" /\ ready
  /\ ctrl = (IF enable THEN "off" ELSE "on")

Commanded(enable) ==
  /\ Takes(enable)
  /\ ctrl' = IF enable THEN "enabling" ELSE "disabling"

Refusal(enable) == (Takes(enable) => ~calm) /\ UNCHANGED ctrl

\* apply_ranging_state up to its command, for the wanted' of the step:
\* nothing to do or refused, or on its way to the controller.
NothingToApply == ~conn \/ wanted' = on

AppliesWithout ==
  /\ IF NothingToApply THEN UNCHANGED ctrl ELSE Refusal(wanted')
  /\ on' = (on /\ conn)

AppliesWith == ~NothingToApply /\ Commanded(wanted') /\ UNCHANGED on

\* impulse_cs_set_ranging, from the main loop.
SetRanging(v) ==
  /\ ~calm /\ ~main /\ v # wanted
  /\ wanted' = v
  /\ \/ AppliesWithout /\ UNCHANGED main
     \/ AppliesWith /\ main' = TRUE
  /\ UNCHANGED sent
  /\ noted' = IF v /\ pc \in {"still", "quiet"} THEN noted \cup {"again"} ELSE noted
  /\ UNCHANGED <<thread, scan, held, answers, active, ready, calm>>

\* The command returns to the main loop.
SetRangingReturns ==
  /\ main /\ main' = FALSE /\ on' = wanted
  /\ UNCHANGED <<thread, wanted, sent, scan, held, answers, controller, noted, calm>>

-----------------------------------------------------------------------------
\* A NULL connection is used: the assertion of the host restarts the watch, or,
\* where it does not bite, nothing happens.
Rebooted ==
  /\ pc' = "restart" /\ stage' = 0
  /\ wanted' = FALSE /\ on' = FALSE /\ sent' = FALSE /\ main' = FALSE
  /\ conn' = FALSE /\ link' = "down" /\ rreq' = FALSE
  /\ scanning' = FALSE /\ retry' = FALSE
  /\ sems' = {} /\ asked' = {}
  /\ ctrl' = "off" /\ active' = FALSE /\ ready' = FALSE
  /\ noted' = {} /\ UNCHANGED calm

Goes(place) == pc' = place /\ stage' = 0

\* restart: up to the command or the wait of procedures_off_before_disconnect.
Restart ==
  /\ pc = "restart"
  /\ Goes(IF ~conn THEN "reset" ELSE IF active THEN "still" ELSE "drop")
  /\ IF conn /\ active THEN Commanded(FALSE) \/ Refusal(FALSE) ELSE UNCHANGED ctrl
  /\ noted' = noted \cap {"leaked", "unseen"}
  /\ UNCHANGED <<request, scan, held, answers, active, ready, calm>>

\* Procedures confirmed off.
Quiet ==
  /\ pc = "still" /\ "off" \in sems
  /\ sems' = sems \ {"off"} /\ Goes("quiet")
  /\ UNCHANGED <<request, scan, held, asked, controller, noted, calm>>

\* Two seconds without the confirmation.
NotQuiet ==
  /\ pc = "still" /\ "off" \notin sems
  /\ ~(calm /\ ctrl = "disabling")
  /\ Goes("drop")
  /\ UNCHANGED <<request, scan, held, answers, controller, noted, calm>>

\* bt_conn_disconnect.
Drop ==
  /\ pc \in {"quiet", "drop"}
  /\ \/ /\ Goes("unref")
        /\ link' = IF conn THEN "closing" ELSE link
        /\ UNCHANGED <<request, scan, conn, rreq, answers, controller, noted, calm>>
     \/ ~conn /\ Rebooted

\* The semaphores are reset and the scan is stopped.
Resets == sems' = sems \cap {"off"} /\ scanning' = FALSE

\* bt_ras_rreq_free, bt_conn_unref, connection = NULL, and at once the resets.
Unref ==
  /\ pc = "unref"
  /\ \/ /\ Goes("park") /\ conn' = FALSE
        /\ rreq' = (rreq /\ ~conn)
        /\ Resets
        /\ UNCHANGED <<request, retry, link, asked, controller, noted, calm>>
     \/ ~conn /\ Rebooted

\* The resets of a restart that found no connection: one that is made in
\* between gives a semaphore that is lost here.
Reset ==
  /\ pc = "reset" /\ Goes("park") /\ Resets
  /\ UNCHANGED <<request, retry, held, asked, controller, noted, calm>>

\* The engine parks until a commitment needs a distance, then rests a second.
Park ==
  /\ pc = "park" /\ wanted /\ Goes("rest")
  /\ UNCHANGED <<request, scan, held, answers, controller, noted, calm>>

\* After that second: a command of the main loop has returned by then.
Scan ==
  /\ pc = "rest" /\ ~main
  /\ \/ Goes("dial") /\ scanning' = TRUE
     \/ (~calm \/ link = "connecting") /\ Goes("restart") /\ UNCHANGED scanning
  /\ UNCHANGED <<request, retry, held, answers, controller, noted, calm>>

-----------------------------------------------------------------------------
\* Mutant: the stage waited for is the one after it.
AsksOneOff(k) ==
  /\ link = "up" /\ asked' = asked \cup {Stages[k]}
  /\ pc' = "wait" /\ stage' = k + 1

\* The request of stage k, on a connection that is there.
Asks(k) ==
  LET s == Stages[k]
      possible == link = "up" /\ (s = "features" => rreq)
  IN \/ /\ possible /\ asked' = asked \cup {s}
        /\ pc' = "wait" /\ stage' = k
     \/ /\ possible => ~calm
        /\ UNCHANGED asked /\ Goes("restart")

\* After the wait for semaphore s: the next stage, or the restart.
Proceeds(k) ==
  IF conn THEN Asks(k) ELSE Goes("restart") /\ UNCHANGED asked

Connected ==
  /\ pc = "dial" /\ "connected" \in sems
  /\ sems' = sems \ {"connected"}
  /\ Proceeds(1)
  /\ UNCHANGED <<request, scan, held, controller, noted, calm>>

\* Mutant: the wait for a connection is K_FOREVER.
ConnectWaitForever == FALSE

\* IMPULSE_CS_CONNECT_WAIT_S without a connection.
ConnectTimeout ==
  /\ pc = "dial" /\ "connected" \notin sems
  /\ ~(calm /\ link # "up" /\ (scanning \/ retry \/ link = "connecting"))
  /\ Goes("restart")
  /\ UNCHANGED <<request, scan, held, answers, controller, noted, calm>>

\* The wait of a stage ends, given or after 20 s: which, the engine does not ask.
Waited ==
  /\ pc = "wait"
  /\ Stages[stage] \in sems \/ ~(calm /\ Stages[stage] \in asked)

Stage ==
  /\ Waited /\ stage < Len(Stages)
  /\ sems' = sems \ {Stages[stage]}
  /\ Proceeds(stage + 1)
  /\ UNCHANGED <<request, scan, held, controller, noted, calm>>

\* The last stage: the procedure parameters are set, g_procedures_on is reset.
Arm ==
  /\ Waited /\ stage = Len(Stages)
  /\ sems' = sems \ {Stages[stage]}
  /\ \/ /\ conn /\ link = "up"
        /\ ready' = TRUE /\ on' = FALSE
        /\ pc' = "apply" /\ UNCHANGED stage
     \/ /\ ~(conn /\ link = "up" /\ calm)
        /\ Goes("restart") /\ UNCHANGED <<on, ready>>
  /\ UNCHANGED <<wanted, sent, main, scan, held, asked, ctrl, active, noted, calm>>

\* apply_ranging_state ends: after the set-up the engine waits, in its loop it
\* looks whether the link is still needed.
Applied == Goes(IF stage = 0 THEN "check" ELSE "run")

\* The engine's own apply_ranging_state.
Apply ==
  /\ pc = "apply" /\ wanted' = wanted
  /\ \/ AppliesWithout /\ Applied /\ UNCHANGED sent
     \/ AppliesWith /\ pc' = "applying" /\ sent' = wanted /\ UNCHANGED stage
  /\ UNCHANGED <<main, scan, held, answers, active, ready, noted, calm>>

\* The command returns: what is recorded is what is wanted by now.
ApplyReturns ==
  /\ pc = "applying" /\ Applied
  /\ on' = wanted
  /\ sent' = FALSE
  /\ noted' = IF on' = sent THEN noted ELSE noted \cup {"misread"}
  /\ UNCHANGED <<wanted, main, scan, held, answers, controller, calm>>

\* sem_distance_estimate_updated, or five seconds without it.
Wake ==
  /\ pc = "run" /\ Goes(IF conn THEN "apply" ELSE "restart")
  /\ UNCHANGED <<request, scan, held, answers, controller, noted, calm>>

\* Mutant: the link is kept when the window is over.
CheckKeepsLink ==
  /\ pc = "check" /\ Goes("run")
  /\ UNCHANGED <<request, scan, held, answers, controller, noted, calm>>

Check ==
  /\ pc = "check" /\ Goes(IF wanted THEN "run" ELSE "restart")
  /\ UNCHANGED <<request, scan, held, answers, controller, noted, calm>>

Engine ==
  \/ Restart \/ Quiet \/ NotQuiet \/ Drop \/ Unref \/ Reset \/ Park \/ Scan
  \/ Connected \/ ConnectTimeout \/ Stage \/ Arm
  \/ Apply \/ ApplyReturns \/ Wake \/ Check

-----------------------------------------------------------------------------
\* The Bluetooth thread.

\* The anchor, which advertises while it has no link, matches: the scan stops and
\* a connection is created, unless the host refuses it; scan_connecting_error
\* then asks for a retry.
Match ==
  /\ link # "up"
  /\ scanning /\ scanning' = FALSE
  /\ \/ /\ link = "down" /\ ~rreq
        /\ link' = "connecting" /\ UNCHANGED retry
     \/ /\ (link = "down" /\ ~rreq) => ~calm
        /\ retry' = TRUE /\ UNCHANGED link
  /\ UNCHANGED <<thread, request, conn, rreq, answers, controller, noted, calm>>

\* scan_retry_work_handler.
Retry ==
  /\ retry /\ retry' = FALSE
  /\ \/ wanted /\ scanning' = TRUE
     \/ (wanted => ~calm) /\ UNCHANGED scanning
  /\ UNCHANGED <<thread, request, held, answers, controller, noted, calm>>

\* connected_cb.
ConnectedCb(err) ==
  /\ link = "connecting"
  /\ err => ~calm
  /\ link' = IF err THEN "down" ELSE "up"
  /\ conn' = ~err
  /\ sems' = sems \cup {"connected"}
  /\ noted' = noted \cup (IF err THEN {} ELSE
                          CASE pc \in {"reset", "park", "rest"} -> {"late"}
                            [] pc \in {"restart", "dial"} -> {}
                            [] OTHER -> {"unseen"})
  /\ UNCHANGED <<thread, request, scan, rreq, asked, controller, calm>>

\* Mutant: the RAS initiator is not freed.
LinkDownKeepsRas ==
  /\ link' = "down" /\ asked' = {}
  /\ ctrl' = "off" /\ ready' = FALSE
  /\ IF conn
     THEN /\ active' = FALSE /\ conn' = FALSE
          /\ sems' = AllStages \cup {"connected", "off"}
     ELSE UNCHANGED <<active, conn, sems>>
  /\ noted' = noted \ {"unseen"}
  /\ UNCHANGED <<thread, request, scan, rreq, calm>>

\* disconnected_cb: the link the engine holds frees what it holds and wakes it;
\* the link it has let go of is not its own any more.
LinkDown ==
  /\ link' = "down" /\ asked' = {}
  /\ ctrl' = "off" /\ ready' = FALSE
  /\ IF conn
     THEN /\ active' = FALSE /\ rreq' = FALSE /\ conn' = FALSE
          /\ sems' = AllStages \cup {"connected", "off"}
     ELSE UNCHANGED <<active, rreq, conn, sems>>
  /\ noted' = noted \ {"unseen"}
  /\ UNCHANGED <<thread, request, scan, calm>>

DisconnectedCb == (link = "closing" \/ (link = "up" /\ ~calm)) /\ LinkDown

Answered(s) == s \in asked /\ link \in {"up", "closing"} /\ asked' = asked \ {s}

\* discovery_completed_cb takes the reference of the initiator; a failed
\* discovery closes the link.
Discovered ==
  /\ Answered("discovery")
  /\ \/ /\ sems' = sems \cup {"discovery"} /\ rreq' = TRUE
        /\ noted' = IF conn THEN noted ELSE noted \cup {"leaked"}
        /\ UNCHANGED link
     \/ ~calm /\ link' = "closing" /\ UNCHANGED <<sems, rreq, noted>>
  /\ UNCHANGED <<thread, request, scan, conn, controller, calm>>

\* ras_features_read_cb: also when the read fails.
FeaturesRead ==
  /\ Answered("features")
  /\ sems' = sems \cup {"features"}
  /\ UNCHANGED <<thread, request, scan, held, controller, noted, calm>>

\* The callbacks of the other stages: what fails gives no semaphore.
StageDone(s) ==
  /\ s \notin {"discovery", "features"} /\ Answered(s)
  /\ sems' = sems \cup {s} \/ (~calm /\ UNCHANGED sems)
  /\ UNCHANGED <<thread, request, scan, held, controller, noted, calm>>

Answers(s) ==
  \/ s = "discovery" /\ Discovered
  \/ s = "features" /\ FeaturesRead
  \/ StageDone(s)

\* security_changed is called for the phone's link as well.
PhoneSecured ==
  /\ ~calm /\ "security" \notin sems
  /\ sems' = sems \cup {"security"}
  /\ UNCHANGED <<thread, request, scan, held, asked, controller, noted, calm>>

\* Mutant: an enable leaves the confirmation of the last disable given.
ProcedureEnableCbNoReset(err) ==
  /\ ctrl \in {"enabling", "disabling"} /\ link \in {"up", "closing"}
  /\ err => ~calm
  /\ LET runs == (ctrl = "enabling") # err
     IN /\ ctrl' = IF runs THEN "on" ELSE "off"
        /\ active' = IF err THEN active ELSE runs
        /\ sems' = IF err \/ runs THEN sems ELSE sems \cup {"off"}
  /\ noted' = IF err /\ ctrl = "enabling" THEN noted \cup {"refused"} ELSE noted
  /\ UNCHANGED <<thread, request, scan, held, asked, ready, calm>>

\* procedure_enable_cb.
ProcedureEnableCb(err) ==
  /\ ctrl \in {"enabling", "disabling"} /\ link \in {"up", "closing"}
  /\ err => ~calm
  /\ LET runs == (ctrl = "enabling") # err
     IN /\ ctrl' = IF runs THEN "on" ELSE "off"
        /\ active' = IF err THEN active ELSE runs
        /\ sems' = IF err THEN sems
                   ELSE IF runs THEN sems \ {"off"} ELSE sems \cup {"off"}
  /\ noted' = IF err /\ ctrl = "enabling" THEN noted \cup {"refused"} ELSE noted
  /\ UNCHANGED <<thread, request, scan, held, asked, ready, calm>>

Callbacks ==
  \/ Match \/ Retry \/ DisconnectedCb \/ PhoneSecured
  \/ \E err \in BOOLEAN : ConnectedCb(err) \/ ProcedureEnableCb(err)
  \/ \E s \in AllStages : Answers(s)

\* From here on the anchor is in range and answers, and what is wanted stays.
Settle ==
  /\ ~calm /\ calm' = TRUE
  /\ UNCHANGED <<thread, request, scan, held, answers, controller, noted>>

Next ==
  \/ Engine \/ Callbacks \/ Settle
  \/ SetRangingReturns \/ \E v \in BOOLEAN : SetRanging(v)

\* The engine's waits are bounded, commands return, the workqueue runs, and a
\* connection that is being made or closed ends.  A match, an answer and the end
\* of a command in the controller are owed only once the surroundings are calm.
\* The engine is through its restart in microseconds: a connection is not
\* completed just there every time.
Fairness ==
  /\ WF_vars(Engine) /\ WF_vars(SetRangingReturns) /\ WF_vars(Retry)
  /\ WF_vars(\E err \in BOOLEAN : ConnectedCb(err))
  /\ WF_vars(link = "closing" /\ LinkDown)
  /\ SF_vars(calm /\ pc \notin {"restart", "reset"} /\ ConnectedCb(FALSE))
  /\ WF_vars(calm /\ Match)
  /\ WF_vars(calm /\ ProcedureEnableCb(FALSE))
  /\ \A s \in AllStages : WF_vars(calm /\ Answers(s))

Spec == Init /\ [][Next]_vars /\ Fairness

-----------------------------------------------------------------------------
\* A link that is gone leaves no reference behind on its connection object, or
\* the host refuses every later connection to the anchor.  The exception the
\* code leaves: a discovery answered after the engine let its link go.
NoReferenceLeaks ==
  rreq => (link \in {"up", "closing"} \/ conn \/ "leaked" \in noted)

\* When the engine closes a link because the controller has confirmed the
\* procedures off, they are off, unless the main loop wanted ranging again.
ConfirmedMeansOff ==
  pc = "quiet" => (ctrl \notin {"on", "disabling"} \/ "again" \in noted)

\* With the anchor in range and a commitment that needs a distance, procedures
\* end up running for good: no lost wake-up, no failed connection and no order
\* of restarts keeps the engine from ranging.  The exceptions the code leaves:
\* a leaked reference, a connection made before the engine noticed the loss of
\* the one before, an enable that completed with an error, and a record of
\* procedures that is not what the controller was sent.
RangesInTheEnd ==
  <>[](calm /\ wanted) =>
    <>[](ctrl = "on" \/ noted \cap {"leaked", "unseen", "refused", "misread"} # {})

\* When no commitment needs a distance any more the anchor is released and
\* stays released, whatever the engine was at.  The exceptions the code leaves:
\* a connection completed after the engine had looked for one to close, or made
\* before it noticed the loss of the one before.
AnchorReleased ==
  <>[]~wanted => <>[](link = "down" \/ noted \cap {"late", "unseen"} # {})
=============================================================================
