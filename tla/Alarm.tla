------------------------------- MODULE Alarm --------------------------------
(***************************************************************************)
(* The removal alarm of an anchor (anchor/anchor.c): beep_state, the pin   *)
(* of the buzzer, the tick the main loop drives the pattern with, and the  *)
(* Identify beep of the workqueue.  Module Anchor composes it.             *)
(*                                                                         *)
(* No lock guards beep_state.  A command over BLE is handled on a          *)
(* cooperative thread, which preempts the main loop in the middle of a     *)
(* tick; the tick is therefore three steps, and a field read again after   *)
(* the command may or may not have been kept in a register.                *)
(***************************************************************************)
EXTENDS Naturals

CONSTANTS
  Profiles,  \* anchor profiles
  OnTicks,   \* beep_patterns: on_ms
  OffTicks,  \* beep_patterns: off_ms, of each profile
  Caps,      \* values of max_beep_minutes, zero for none
  BootCap    \* the value the device starts with

ASSUME AlarmAssumption ==
  /\ Profiles # {}
  /\ OnTicks \in Nat \ {0} /\ OffTicks \in [Profiles -> Nat \ {0}]
  /\ Caps \subseteq Nat /\ BootCap \in Caps \ {0}
  /\ \E n \in Caps : \A m \in Caps : m <= n  \* two bytes

VARIABLES
  beep,      \* beep_state
  buzzer,    \* the pin
  tick,      \* where the main loop is in impulse_anchor_beep_tick
  identify,  \* identify_work: "no", "queued" or "on"
  cap,       \* g_max_beep_minutes
  cut        \* history: a WATCH_WORN has come in the middle of a tick, and
             \* the pin may be what that tick has made of it

alarmVars == <<beep, buzzer, tick, identify, cap, cut>>

Zeroed == [active |-> FALSE, profile |-> CHOOSE p \in Profiles : TRUE,
           on |-> FALSE, phase |-> 0, total |-> 0]

\* Bound: a total beyond every cap is a total beyond every cap.
TopTotal == CHOOSE n \in Caps : \A m \in Caps : m <= n

AlarmTypeOK ==
  /\ beep \in [active : BOOLEAN, profile : Profiles, on : BOOLEAN,
               phase : Nat, total : 0 .. TopTotal]
  /\ tick \in {"idle", "cap", "flip on", "flip off", "pin on", "pin off"}
  /\ identify \in {"no", "queued", "on"}
  /\ cap \in Caps /\ {buzzer, cut} \subseteq BOOLEAN

\* impulse_anchor_beep_start
BeepStart(p) ==
  IF beep.active /\ beep.profile = p THEN UNCHANGED <<beep, buzzer>>
  ELSE /\ beep' = [Zeroed EXCEPT !.active = TRUE, !.profile = p, !.on = TRUE]
       /\ buzzer' = TRUE

\* Mutant: the pin is left to the next tick, of which there is none.
BeepStopForgetsPin ==
  IF ~beep.active /\ ~beep.on THEN UNCHANGED <<beep, buzzer>>
  ELSE beep' = Zeroed /\ UNCHANGED buzzer

\* impulse_anchor_beep_stop
BeepStop ==
  IF ~beep.active /\ ~beep.on THEN UNCHANGED <<beep, buzzer>>
  ELSE beep' = Zeroed /\ buzzer' = FALSE

\* impulse_anchor_handle_command, WATCH_REMOVED for an event of this anchor
\* that is in force now; any other is ignored.
Removed(p, inForce) ==
  /\ inForce
  /\ BeepStart(p) /\ cut' = FALSE
  /\ UNCHANGED <<tick, identify, cap>>

\* The tick has found that the phase ends, and has not written the pin yet.
Turning == tick \in {"flip on", "flip off", "pin on", "pin off"}

\* The same, WATCH_WORN: whatever event it names.
Worn ==
  /\ BeepStop
  /\ cut' = (Turning \/ (cut /\ buzzer'))
  /\ UNCHANGED <<tick, identify, cap>>

\* Mutant: a change of phase starts the count of the cap over.
FlippedAfresh(b, on) == [b EXCEPT !.phase = 0, !.on = on, !.total = 0]

\* A phase ends.
Flipped(b, on) == [b EXCEPT !.phase = 0, !.on = on]

Limit(b) == IF b.on THEN OnTicks ELSE OffTicks[b.profile]

\* impulse_anchor_beep_tick up to its decision.
TickBegin ==
  /\ tick = "idle" /\ beep.active
  /\ LET b == [beep EXCEPT !.phase = @ + 1,
                           !.total = IF @ < TopTotal THEN @ + 1 ELSE @]
     IN  /\ beep' = b
         /\ tick' = IF cap > 0 /\ b.total >= cap THEN "cap"
                    ELSE IF b.phase < Limit(b) THEN "idle"
                    ELSE IF b.on THEN "flip off" ELSE "flip on"
  /\ UNCHANGED <<buzzer, identify, cap, cut>>

\* The cap is reached.
TickCap ==
  /\ tick = "cap" /\ tick' = "idle"
  /\ beep' = [beep EXCEPT !.active = FALSE, !.on = FALSE]
  /\ buzzer' = FALSE
  /\ UNCHANGED <<identify, cap, cut>>

\* The phase turns: from the buzzer_on that was tested, or that is there now.
TickFlip ==
  /\ tick \in {"flip on", "flip off"}
  /\ \E on \in {tick = "flip on", ~beep.on} :
       /\ beep' = Flipped(beep, on)
       /\ tick' = IF on THEN "pin on" ELSE "pin off"
  /\ UNCHANGED <<buzzer, identify, cap, cut>>

\* impulse_buzzer_set: with the value stored, or with what is there now.
TickPin ==
  /\ tick \in {"pin on", "pin off"} /\ tick' = "idle"
  /\ buzzer' \in {tick = "pin on", beep.on}
  /\ cut' = (cut /\ buzzer')
  /\ UNCHANGED <<beep, identify, cap>>

Tick == TickBegin \/ TickCap \/ TickFlip \/ TickPin

\* write_identify
WriteIdentify ==
  /\ identify = "no" /\ identify' = "queued"
  /\ UNCHANGED <<beep, buzzer, tick, cap, cut>>

\* impulse_anchor_identify, before and after its sleep.
IdentifyOn ==
  /\ identify = "queued" /\ identify' = "on" /\ buzzer' = TRUE
  /\ UNCHANGED <<beep, tick, cap, cut>>

IdentifyOff ==
  /\ identify = "on" /\ identify' = "no" /\ buzzer' = FALSE
  /\ cut' = (cut /\ Turning)
  /\ UNCHANGED <<beep, tick, cap>>

\* write_anchor_settings, impulse_app_anchor_set_settings
SetCap(n) ==
  /\ cap' = n
  /\ UNCHANGED <<beep, buzzer, tick, identify, cut>>

\* The anchor restarts.  The cap is not among the settings it has saved.
AlarmBoot ==
  /\ beep' = Zeroed /\ buzzer' = FALSE /\ tick' = "idle" /\ identify' = "no"
  /\ cut' = FALSE /\ cap' = BootCap

AlarmInit ==
  /\ beep = Zeroed /\ buzzer = FALSE /\ tick = "idle" /\ identify = "no"
  /\ cut = FALSE /\ cap = BootCap

-----------------------------------------------------------------------------

\* Between two ticks, the buzzer sounds only for Identify or for an alarm that
\* is running: no command, no cap and no restart leaves it on.  The exception
\* is a WATCH_WORN that comes after a tick has tested the phase and before it
\* writes the pin: that tick may still turn the buzzer on, which then stays on
\* until something else writes the pin.
SoundsWhileActive ==
  buzzer /\ tick = "idle" /\ identify # "on" /\ ~cut => beep.active

=============================================================================
