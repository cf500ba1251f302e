------------------------------- MODULE Anchor -------------------------------
(***************************************************************************)
(* An anchor: the strap lock (Strap) and the removal alarm (Alarm) under   *)
(* the threads that drive them.  The main loop checks the window and ticks *)
(* the alarm; the system workqueue moves the strap for a toggle, applies a *)
(* pushed schedule and sounds Identify, one at a time, asleep in each; the *)
(* Bluetooth thread queues work, changes the cap and handles commands.     *)
(* A command that comes by UDP (net/net_udp.c) is handled by a thread the  *)
(* main loop preempts: it comes between two ticks, which BLE may as well.  *)
(***************************************************************************)
EXTENDS Strap, Alarm

vars == <<strapVars, alarmVars>>

MainFree == ~Busy("main")
WorkFree == identify # "on"

Init == StrapInit /\ AlarmInit

\* The clock, the servo and the Bluetooth thread, at any time.
Free == \/ ClockTurns \/ Arrive
        \/ \E v \in Positions : WriteToggle(v)

Command == \/ \E p \in Profiles : Removed(p, window)
           \/ Worn
           \/ \E n \in Caps : SetCap(n)
           \/ WriteIdentify \/ IdentifyOff

\* impulse_app_anchor_apply_schedule and toggle_work_handler
Work == \/ ToggleWork
        \/ \E w \in BOOLEAN : Push(w)

MainCheck == tick = "idle" /\ WindowCheck /\ UNCHANGED alarmVars
MainTick  == MainFree /\ Tick /\ UNCHANGED strapVars

Boot == StrapBoot /\ AlarmBoot

Next == \/ Free /\ UNCHANGED alarmVars
        \/ WorkFree /\ Work /\ UNCHANGED alarmVars
        \/ Command /\ UNCHANGED strapVars
        \/ ~Busy("work") /\ IdentifyOn /\ UNCHANGED strapVars
        \/ MainCheck \/ MainTick \/ Boot

\* The main loop keeps passing (a hardware watchdog resets a device on which
\* it does not), and a sleep ends.
Fairness == WF_vars(MainTick) /\ WF_vars(Arrive /\ UNCHANGED alarmVars)

Spec == Init /\ [][Next]_vars /\ Fairness

TypeOK == StrapTypeOK /\ AlarmTypeOK

-----------------------------------------------------------------------------

\* anchor.c:114: the cap is independent of the window and of the watch.  Once
\* no window is open here and a cap is set, no alarm keeps running, whatever
\* was lost and whichever steps of the tick were interrupted.
CapEndsAlarm == <>[](~window /\ cap > 0) => <>[]~beep.active

=============================================================================
