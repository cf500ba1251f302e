----------------------------- MODULE EngineProofs -----------------------------
(***************************************************************************)
(* What the engine's restart relies on, for every order of set-up stages:  *)
(* no reference outlives the connection it was taken for, and a link is    *)
(* closed on a confirmation only with the procedures off.                  *)
(***************************************************************************)
EXTENDS Engine, TLAPS

\* A reference is held on the connection the engine holds, and that connection
\* is one the host knows.
RefsHeld ==
  /\ rreq => conn \/ "leaked" \in noted
  /\ conn => link \in {"up", "closing"}

\* A confirmation that is waiting to be taken is that of the last disable: it is
\* withdrawn when procedures start, and nothing but the main loop starts them
\* while the engine waits for it or acts on it.
ConfirmationIsFresh ==
  /\ active => "off" \notin sems
  /\ pc = "still" /\ "off" \in sems /\ "again" \notin noted => ctrl = "off"
  /\ pc = "quiet" /\ "again" \notin noted => ctrl = "off"

Inv == TypeOK /\ RefsHeld /\ ConfirmationIsFresh

-----------------------------------------------------------------------------
(* The stages.                                                             *)

LEMMA StageNames ==
  /\ "connected" \notin AllStages /\ "off" \notin AllStages /\ "security" \in AllStages
  /\ Len(Stages) \in Nat /\ Len(Stages) > 0 /\ 0 \in 0 .. Len(Stages)
<1>1. "connected" \notin AllStages /\ "off" \notin AllStages /\ "security" \in AllStages
  BY EngineAssumption DEF AllStages
<1>2. Len(Stages) \in Nat /\ Len(Stages) > 0
  BY EngineAssumption DEF ToSet
<1> QED
  BY <1>1, <1>2

\* A stage that is asked for is one of the set-up's.
LEMMA StageInSetUp == ASSUME NEW k \in 1 .. Len(Stages) PROVE Stages[k] \in AllStages
BY EngineAssumption DEF AllStages, ToSet

\* Asking for stage k, or not getting there, leads to a wait or to the restart.
LEMMA ProceedsType ==
  ASSUME TypeOK, NEW k \in 1 .. Len(Stages), Proceeds(k)
  PROVE  /\ pc' \in {"wait", "restart"} /\ stage' \in 0 .. Len(Stages)
         /\ asked' \subseteq AllStages
<1>1. CASE conn /\ asked' = asked \cup {Stages[k]} /\ pc' = "wait" /\ stage' = k
  BY <1>1, StageInSetUp DEF TypeOK
<1>2. CASE UNCHANGED asked /\ Goes("restart")
  BY <1>2, StageNames DEF TypeOK, Goes
<1> QED
  BY <1>1, <1>2 DEF Proceeds, Asks

\* What a command does to the controller.
LEMMA CommandType ==
  ASSUME TypeOK, NEW enable \in BOOLEAN, Commanded(enable) \/ Refusal(enable)
  PROVE  /\ ctrl' \in {"off", "enabling", "on", "disabling"}
         /\ ctrl = "off" /\ ~enable => ctrl' = "off"
BY DEF TypeOK, Commanded, Refusal, Takes

-----------------------------------------------------------------------------
(* The main loop.                                                          *)

LEMMA SetRangingKeeps ==
  ASSUME Inv, NEW v \in BOOLEAN, SetRanging(v) PROVE Inv'
<1>1. /\ wanted' = v /\ main' \in BOOLEAN /\ on' \in BOOLEAN
      /\ UNCHANGED <<thread, sent, scan, held, answers, active, ready, calm>>
  BY DEF SetRanging, Inv, TypeOK, AppliesWithout, AppliesWith, request
<1>2. /\ ctrl' \in {"off", "enabling", "on", "disabling"}
      /\ ctrl = "off" /\ ~v => ctrl' = "off"
  BY CommandType DEF SetRanging, Inv, AppliesWithout, AppliesWith, NothingToApply, TypeOK
<1>3. /\ noted' = noted \/ noted' = noted \cup {"again"}
      /\ v /\ pc \in {"still", "quiet"} => "again" \in noted'
  BY DEF SetRanging
<1>4. TypeOK'
  BY <1>1, <1>2, <1>3 DEF Inv, TypeOK, thread, scan, held, answers
<1>5. RefsHeld'
  BY <1>1, <1>3 DEF Inv, RefsHeld, held
<1>6. ConfirmationIsFresh'
  BY <1>1, <1>2, <1>3 DEF Inv, ConfirmationIsFresh, thread, answers
<1> QED
  BY <1>4, <1>5, <1>6 DEF Inv

LEMMA ReturnKeeps == ASSUME Inv, SetRangingReturns PROVE Inv'
BY DEF Inv, TypeOK, RefsHeld, ConfirmationIsFresh, SetRangingReturns, thread, scan,
       held, answers, controller

-----------------------------------------------------------------------------
(* The engine's thread: its way to the park.                               *)

LEMMA RebootKeeps == ASSUME Inv, Rebooted PROVE Inv'
BY StageNames DEF Inv, TypeOK, Places, RefsHeld, ConfirmationIsFresh, Rebooted

LEMMA RestartKeeps == ASSUME Inv, Restart PROVE Inv'
<1>1. ctrl' \in {"off", "enabling", "on", "disabling"}
  BY CommandType DEF Restart, Inv, TypeOK
<1>2. noted' \subseteq noted /\ ("leaked" \in noted => "leaked" \in noted')
  BY DEF Restart
<1>3. pc' \in Places /\ stage' = 0 /\ pc' # "quiet" /\ (pc' = "still" => active)
  BY DEF Restart, Goes, Places
<1>4. TypeOK'
  BY <1>1, <1>2, <1>3, StageNames DEF Restart, Inv, TypeOK, request, scan, held, answers
<1>5. RefsHeld'
  BY <1>2 DEF Restart, Inv, RefsHeld, held
<1>6. ConfirmationIsFresh'
  BY <1>3 DEF Restart, Inv, ConfirmationIsFresh, answers
<1> QED
  BY <1>4, <1>5, <1>6 DEF Inv

LEMMA StopKeeps == ASSUME Inv, Quiet \/ NotQuiet \/ Drop PROVE Inv'
<1> USE StageNames DEF Inv, TypeOK, Places, RefsHeld, ConfirmationIsFresh, Goes,
                       request, scan, held, answers, controller
<1>1. CASE Quiet
  BY <1>1 DEF Quiet
<1>2. CASE NotQuiet
  BY <1>2 DEF NotQuiet
<1>3. CASE Drop /\ Goes("unref")
  <2>1. link' = IF conn THEN "closing" ELSE link
    BY <1>3 DEF Drop, Rebooted
  <2>2. UNCHANGED <<request, scan, conn, rreq, answers, controller, noted, calm>>
    BY <1>3 DEF Drop, Rebooted
  <2> QED
    BY <1>3, <2>1, <2>2
<1>4. CASE Rebooted
  BY <1>4, RebootKeeps
<1> QED
  BY <1>1, <1>2, <1>3, <1>4 DEF Drop

LEMMA ParkKeeps == ASSUME Inv, Unref \/ Reset \/ Park \/ Scan PROVE Inv'
<1> USE StageNames DEF Inv, TypeOK, Places, RefsHeld, ConfirmationIsFresh, Goes,
                       request, scan, held, answers, controller, Resets
<1>1. CASE Unref /\ Goes("park")
  <2>1. /\ conn' = FALSE /\ rreq' = (rreq /\ ~conn) /\ Resets
        /\ UNCHANGED <<request, retry, link, asked, controller, noted, calm>>
    BY <1>1 DEF Unref, Rebooted
  <2> QED
    BY <1>1, <2>1
<1>2. CASE Rebooted
  BY <1>2, RebootKeeps
<1>3. CASE Reset
  BY <1>3 DEF Reset
<1>4. CASE Park
  BY <1>4 DEF Park
<1>5. CASE Scan
  BY <1>5 DEF Scan
<1> QED
  BY <1>1, <1>3, <1>4, <1>5, <1>2 DEF Unref

-----------------------------------------------------------------------------
(* The engine's thread: the set-up and the loop.                           *)

LEMMA SetUpKeeps == ASSUME Inv, Connected \/ ConnectTimeout \/ Stage \/ Arm PROVE Inv'
<1> USE DEF request, scan, held, answers, controller
<1>1. CASE Connected
  <2>1. pc' \in {"wait", "restart"} /\ stage' \in 0 .. Len(Stages) /\ asked' \subseteq AllStages
    BY <1>1, StageNames, ProceedsType DEF Connected, Inv
  <2> QED
    BY <1>1, <2>1 DEF Connected, Inv, TypeOK, Places, RefsHeld, ConfirmationIsFresh
<1>2. CASE ConnectTimeout
  BY <1>2, StageNames
     DEF ConnectTimeout, Goes, Inv, TypeOK, Places, RefsHeld, ConfirmationIsFresh
<1>3. CASE Stage
  <2>1. stage + 1 \in 1 .. Len(Stages)
    BY <1>3, StageNames DEF Stage, Inv, TypeOK
  <2>2. pc' \in {"wait", "restart"} /\ stage' \in 0 .. Len(Stages) /\ asked' \subseteq AllStages
    BY <1>3, <2>1, ProceedsType DEF Stage, Inv
  <2>3. sems' \subseteq sems
    BY <1>3 DEF Stage
  <2> QED
    BY <1>3, <2>2, <2>3 DEF Stage, Inv, TypeOK, Places, RefsHeld, ConfirmationIsFresh
<1>4. CASE Arm
  <2>1. sems' \subseteq sems
    BY <1>4 DEF Arm
  <2>2. pc' \in {"apply", "restart"} /\ stage' \in 0 .. Len(Stages)
    BY <1>4, StageNames DEF Arm, Goes, Inv, TypeOK
  <2>3. on' \in BOOLEAN /\ ready' \in BOOLEAN
    BY <1>4 DEF Arm, Inv, TypeOK
  <2> QED
    BY <1>4, <2>1, <2>2, <2>3 DEF Arm, Inv, TypeOK, Places, RefsHeld, ConfirmationIsFresh
<1> QED
  BY <1>1, <1>2, <1>3, <1>4

LEMMA LoopKeeps == ASSUME Inv, Apply \/ ApplyReturns \/ Wake \/ Check PROVE Inv'
<1> USE DEF scan, held, answers, controller
<1>1. CASE Apply
  <2>1. ctrl' \in {"off", "enabling", "on", "disabling"}
    BY <1>1, CommandType DEF Apply, Inv, TypeOK, AppliesWithout, AppliesWith, NothingToApply
  <2>2. /\ pc' \in {"check", "run", "applying"} /\ stage' \in 0 .. Len(Stages)
        /\ on' \in BOOLEAN /\ sent' \in BOOLEAN
    BY <1>1, StageNames
       DEF Apply, AppliesWithout, AppliesWith, Applied, Goes, Inv, TypeOK
  <2> QED
    BY <1>1, <2>1, <2>2 DEF Apply, Inv, TypeOK, Places, RefsHeld, ConfirmationIsFresh
<1>2. CASE ApplyReturns
  <2>1. noted' = noted \/ noted' = noted \cup {"misread"}
    BY <1>2 DEF ApplyReturns
  <2>2. pc' \in {"check", "run"} /\ stage' = 0
    BY <1>2 DEF ApplyReturns, Applied, Goes
  <2> QED
    BY <1>2, <2>1, <2>2, StageNames
       DEF ApplyReturns, Inv, TypeOK, Places, RefsHeld, ConfirmationIsFresh
<1>3. CASE Wake
  BY <1>3, StageNames
     DEF Wake, Goes, request, Inv, TypeOK, Places, RefsHeld, ConfirmationIsFresh
<1>4. CASE Check
  BY <1>4, StageNames
     DEF Check, Goes, request, Inv, TypeOK, Places, RefsHeld, ConfirmationIsFresh
<1> QED
  BY <1>1, <1>2, <1>3, <1>4

-----------------------------------------------------------------------------
(* The Bluetooth thread.                                                   *)

LEMMA LinksKeep ==
  ASSUME Inv, Match \/ Retry \/ PhoneSecured \/ DisconnectedCb
                \/ \E err \in BOOLEAN : ConnectedCb(err)
  PROVE  Inv'
<1> USE DEF thread, request, scan, held, controller
<1>1. CASE Match
  BY <1>1 DEF Match, answers, Inv, TypeOK, RefsHeld, ConfirmationIsFresh
<1>2. CASE Retry
  BY <1>2 DEF Retry, answers, Inv, TypeOK, RefsHeld, ConfirmationIsFresh
<1>3. CASE PhoneSecured
  BY <1>3, StageNames DEF PhoneSecured, Inv, TypeOK, RefsHeld, ConfirmationIsFresh
<1>4. CASE DisconnectedCb
  BY <1>4 DEF DisconnectedCb, LinkDown, Inv, TypeOK, RefsHeld, ConfirmationIsFresh
<1>5. ASSUME NEW err \in BOOLEAN, ConnectedCb(err) PROVE Inv'
  <2>1. noted \subseteq noted'
        /\ noted' \subseteq noted \cup {"late", "unseen"}
    BY <1>5 DEF ConnectedCb
  <2>2. sems' = sems \cup {"connected"} /\ ~conn
    BY <1>5 DEF ConnectedCb, Inv, RefsHeld
  <2> QED
    BY <1>5, <2>1, <2>2 DEF ConnectedCb, Inv, TypeOK, RefsHeld, ConfirmationIsFresh
<1> QED
  BY <1>1, <1>3, <1>4, <1>5, <1>2

LEMMA AnswersKeep == ASSUME Inv, NEW s \in AllStages, Answers(s) PROVE Inv'
<1> USE DEF Answered, thread, request, scan, held, controller
<1>1. CASE s = "discovery" /\ Discovered
  <2>1. CASE /\ sems' = sems \cup {s} /\ rreq' = TRUE /\ link' = link
             /\ noted' = IF conn THEN noted ELSE noted \cup {"leaked"}
    BY <1>1, <2>1, StageNames DEF Discovered, Inv, TypeOK, RefsHeld, ConfirmationIsFresh
  <2>2. CASE link' = "closing" /\ UNCHANGED <<sems, rreq, noted>>
    BY <1>1, <2>2 DEF Discovered, Inv, TypeOK, RefsHeld, ConfirmationIsFresh
  <2> QED
    BY <1>1, <2>1, <2>2 DEF Discovered
<1>2. CASE s = "features" /\ FeaturesRead
  BY <1>2 DEF FeaturesRead, Inv, TypeOK, RefsHeld, ConfirmationIsFresh
<1>3. CASE StageDone(s)
  <2>1. s # "off"
    BY StageNames
  <2> QED
    BY <1>3, <2>1 DEF StageDone, Inv, TypeOK, RefsHeld, ConfirmationIsFresh
<1> QED
  BY <1>1, <1>2, <1>3 DEF Answers

LEMMA EnableKeeps ==
  ASSUME Inv, NEW err \in BOOLEAN, ProcedureEnableCb(err) PROVE Inv'
<1> DEFINE runs == (ctrl = "enabling") # err
<1>1. /\ ctrl \in {"enabling", "disabling"}
      /\ ctrl' = IF runs THEN "on" ELSE "off"
      /\ active' = IF err THEN active ELSE runs
      /\ sems' = IF err THEN sems
                 ELSE IF runs THEN sems \ {"off"} ELSE sems \cup {"off"}
      /\ UNCHANGED <<thread, request, scan, held, asked, ready, calm>>
  BY DEF ProcedureEnableCb
<1>2. noted' = noted \/ noted' = noted \cup {"refused"}
  BY DEF ProcedureEnableCb
<1>3. TypeOK'
  BY <1>1, <1>2 DEF Inv, TypeOK, thread, request, scan, held
<1>4. RefsHeld'
  BY <1>1, <1>2 DEF Inv, RefsHeld, held
<1>5. ConfirmationIsFresh'
  BY <1>1, <1>2 DEF Inv, ConfirmationIsFresh, thread
<1> QED
  BY <1>3, <1>4, <1>5 DEF Inv

-----------------------------------------------------------------------------

LEMMA InitHolds == Init => Inv
BY StageNames DEF Init, Inv, TypeOK, Places, RefsHeld, ConfirmationIsFresh

LEMMA NextKeeps == Inv /\ [Next]_vars => Inv'
<1> SUFFICES ASSUME Inv, [Next]_vars PROVE Inv'
  OBVIOUS
<1>1. CASE Engine
  BY <1>1, RestartKeeps, StopKeeps, ParkKeeps, SetUpKeeps, LoopKeeps DEF Engine
<1>2. CASE Callbacks
  BY <1>2, LinksKeep, AnswersKeep, EnableKeeps DEF Callbacks
<1>3. CASE SetRangingReturns \/ \E v \in BOOLEAN : SetRanging(v)
  BY <1>3, SetRangingKeeps, ReturnKeeps
<1>4. CASE Settle
  BY <1>4 DEF Settle, Inv, TypeOK, RefsHeld, ConfirmationIsFresh, thread, request,
              scan, held, answers, controller
<1>5. CASE UNCHANGED vars
  BY <1>5 DEF Inv, TypeOK, RefsHeld, ConfirmationIsFresh, vars, thread, request,
              scan, held, answers, controller
<1> QED
  BY <1>1, <1>2, <1>3, <1>4, <1>5 DEF Next

\* Every variable keeps its type, whatever thread runs when.
THEOREM EngineTypes == Spec => []TypeOK
BY InitHolds, NextKeeps, PTL DEF Spec, Inv

\* No reference on a connection object outlives the connection, but for the
\* discovery that is answered after the link was let go (disconnected_cb and the
\* restart of engine_thread_fn).
THEOREM EngineLeaksNothing == Spec => []NoReferenceLeaks
<1>1. Inv => NoReferenceLeaks
  BY DEF Inv, RefsHeld, NoReferenceLeaks
<1> QED
  BY <1>1, InitHolds, NextKeeps, PTL DEF Spec

\* The engine closes a link on the controller's confirmation only when the
\* procedures are off, unless the main loop has wanted ranging again meanwhile
\* (procedures_off_before_disconnect and procedure_enable_cb).
THEOREM EngineClosesQuietly == Spec => []ConfirmedMeansOff
<1>1. Inv => ConfirmedMeansOff
  BY DEF Inv, ConfirmationIsFresh, ConfirmedMeansOff
<1> QED
  BY <1>1, InitHolds, NextKeeps, PTL DEF Spec

=============================================================================
