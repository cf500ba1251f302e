------------------------------- MODULE Strap --------------------------------
(***************************************************************************)
(* The strap lock of an anchor (anchor/anchor.c, hal/servo.c): toggles the *)
(* app writes (ble/ble_anchor.c), which the workqueue carries out, and the *)
(* closing at the start of a window, which the main loop or a push of a    *)
(* schedule (main.c) carries out.  Module Anchor composes it.              *)
(*                                                                         *)
(* impulse_servo_set drives the servo, sleeps for the time of the move,    *)
(* stops driving, and only then records the position.  Two threads may be  *)
(* in it at once; moves take the same time, so that they end in the order  *)
(* in which they began.                                                    *)
(***************************************************************************)
EXTENDS Naturals, Sequences

VARIABLES
  window,  \* impulse_app_anchor_in_active_event
  was,     \* was_in_event: the window as the main loop last saw it
  at,      \* where the strap is
  isOpen,  \* servo_is_open
  moves,   \* the calls of impulse_servo_set in their sleep
  driver,  \* the call that drives the servo
  toggle,  \* toggle_work: "none", or the value it is queued with
  late     \* history: the strap was being opened when the window began

strapVars == <<window, was, at, isOpen, moves, driver, toggle, late>>

Threads   == {"main", "work"}
Positions == {"open", "closed"}

StrapTypeOK ==
  /\ {window, was, isOpen, late} \subseteq BOOLEAN
  /\ at \in Positions \cup {"between"}
  /\ moves \in Seq([by : Threads, to : Positions]) /\ Len(moves) <= 2
  /\ driver \in Threads \cup {"none"} /\ toggle \in Positions \cup {"none"}

\* Mutant: impulse_servo_set does not hold its caller for the move.
NeverBusy(t) == FALSE

Busy(t) == \E i \in DOMAIN moves : moves[i].by = t

\* impulse_servo_set up to its sleep.
Drive(t, to) ==
  /\ moves' = Append(moves, [by |-> t, to |-> to])
  /\ at' = IF at = to THEN at ELSE "between"
  /\ driver' = t
  /\ UNCHANGED isOpen

Still == UNCHANGED <<moves, at, driver, isOpen>>

\* The rest of it: the strap has arrived if this call was driving all along,
\* and whoever was driving, nobody is now.
Arrive ==
  /\ moves # <<>>
  /\ LET m == Head(moves)
     IN  /\ at' = IF driver = m.by THEN m.to ELSE at
         /\ isOpen' = (m.to = "open")
  /\ driver' = "none"
  /\ moves' = Tail(moves)
  /\ UNCHANGED <<window, was, toggle, late>>

\* impulse_anchor_on_window_start
CloseIfOpen(t) == IF isOpen THEN Drive(t, "closed") ELSE Still

\* write_toggle: a value that has not been taken up yet is replaced.
WriteToggle(v) ==
  /\ toggle' = v
  /\ UNCHANGED <<window, was, at, isOpen, moves, driver, late>>

\* Mutant: a strap is opened whenever the app asks for it.
Obeyed(v) == TRUE

\* impulse_anchor_toggle: closing is always accepted.
Accepted(v) == v = "closed" \/ ~window

\* toggle_work_handler
ToggleWork ==
  /\ toggle # "none" /\ ~Busy("work")
  /\ toggle' = "none"
  /\ IF Accepted(toggle) THEN Drive("work", toggle) ELSE Still
  /\ UNCHANGED <<window, was, late>>

Began(w) == IF w /\ ~window THEN \E i \in DOMAIN moves : moves[i].to = "open"
            ELSE late /\ w

\* impulse_app_anchor_apply_schedule: the new schedule may begin or end a
\* window, and a window is checked at once.
Push(w) ==
  /\ ~Busy("work")
  /\ window' = w
  /\ late' = Began(w)
  /\ IF w THEN CloseIfOpen("work") ELSE Still
  /\ UNCHANGED <<was, toggle>>

\* The clock begins or ends a window.  Windows, and the gaps between them,
\* last a minute at least: the main loop has seen the last change.
ClockTurns ==
  /\ was = window
  /\ window' = ~window
  /\ late' = Began(~window)
  /\ UNCHANGED <<was, at, isOpen, moves, driver, toggle>>

\* The check of a pass of the main loop.
WindowCheck ==
  /\ ~Busy("main") /\ was # window
  /\ was' = window
  /\ IF window THEN CloseIfOpen("main") ELSE Still
  /\ UNCHANGED <<window, toggle, late>>

\* impulse_servo_init closes the strap before anything else runs.
StrapBoot ==
  /\ at' = "closed" /\ isOpen' = FALSE /\ moves' = <<>> /\ driver' = "none"
  /\ toggle' = "none" /\ was' = FALSE /\ late' = FALSE
  /\ UNCHANGED window

StrapInit ==
  /\ window = FALSE /\ was = FALSE /\ late = FALSE
  /\ at = "closed" /\ isOpen = FALSE
  /\ moves = <<>> /\ driver = "none" /\ toggle = "none"

-----------------------------------------------------------------------------

\* A strap is open in a window that the main loop has seen begin, and the
\* servo at rest, only if it was being opened when the window began (which
\* impulse_anchor_on_window_start does not see): toggles and window starts on
\* two threads, moves that close, and a schedule pushed meanwhile, leave it
\* open no other way.
LockedInWindow ==
  window /\ was /\ moves = <<>> /\ ~late => at # "open"

=============================================================================
