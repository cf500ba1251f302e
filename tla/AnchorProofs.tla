---------------------------- MODULE AnchorProofs ----------------------------
(***************************************************************************)
(* Proofs about an anchor, for every set of patterns and caps: the types,  *)
(* the strap that stays shut in a window, and the buzzer that sounds only  *)
(* for an alarm that is running.                                           *)
(***************************************************************************)
EXTENDS Anchor, TLAPS

-----------------------------------------------------------------------------
(* The strap.                                                              *)

Moves == [by : Threads, to : Positions]

\* A thread has at most one move under way: it sleeps in it.
Asleep == \A i, j \in DOMAIN moves : moves[i].by = moves[j].by => i = j

\* The call that drives the servo is the last that began, as long as none
\* has ended since.
LastDrives == driver # "none" => moves # <<>> /\ driver = moves[Len(moves)].by

\* A strap that is open is known to be, and nothing is closing it.
OpenIsKnown == at = "open" => isOpen /\ \A i \in DOMAIN moves : moves[i].to = "open"

\* No move opens the strap in a window that found none opening it, and once the
\* main loop has seen the window, or a push has begun it, it is not open.
OnlyCloses == window /\ ~late =>
                /\ \A i \in DOMAIN moves : moves[i].to = "closed"
                /\ was => at # "open"

StrapInv == StrapTypeOK /\ Asleep /\ LastDrives /\ OpenIsKnown /\ OnlyCloses

LEMMA StrapTypes ==
  ASSUME StrapInv
  PROVE  /\ window \in BOOLEAN /\ was \in BOOLEAN /\ isOpen \in BOOLEAN
         /\ late \in BOOLEAN /\ at \in Positions \cup {"between"}
         /\ moves \in Seq(Moves) /\ Len(moves) \in 0 .. 2
         /\ DOMAIN moves = 1 .. Len(moves)
         /\ \A i \in DOMAIN moves : moves[i].by \in Threads
                                      /\ moves[i].to \in Positions
<1>1. /\ window \in BOOLEAN /\ was \in BOOLEAN /\ isOpen \in BOOLEAN
      /\ late \in BOOLEAN /\ at \in Positions \cup {"between"}
  BY Zenon DEF StrapInv, StrapTypeOK
<1>2. moves \in Seq(Moves) /\ Len(moves) <= 2
  BY DEF StrapInv, StrapTypeOK, Moves
<1>3. \A i \in 1 .. Len(moves) : moves[i] \in Moves
  BY <1>2
<1>4. Len(moves) \in Nat /\ DOMAIN moves = 1 .. Len(moves)
  BY <1>2
<1>5. Len(moves) \in 0 .. 2
  BY <1>2, <1>4
<1> QED
  BY <1>1, <1>2, <1>3, <1>4, <1>5 DEF Moves

\* A call that begins, of a thread that is in none.
LEMMA DriveBegins ==
  ASSUME StrapInv, NEW t \in Threads, NEW to \in Positions,
         ~Busy(t), Drive(t, to)
  PROVE  /\ moves' \in Seq(Moves) /\ Len(moves') <= 2
         /\ at' \in Positions \cup {"between"} /\ driver' = t /\ isOpen' = isOpen
         /\ Asleep' /\ LastDrives' /\ OpenIsKnown'
         /\ \A i \in DOMAIN moves' :
              \/ i \in DOMAIN moves /\ moves'[i] = moves[i]
              \/ moves'[i].to = to
         /\ to = "closed" => at' # "open"
<1> DEFINE m == [by |-> t, to |-> to]
<1>1. /\ moves' = Append(moves, m) /\ m \in Moves /\ moves \in Seq(Moves)
      /\ m.by = t /\ m.to = to
  BY StrapTypes DEF Drive, Moves
<1> HIDE DEF m
<1>2. /\ moves' \in Seq(Moves) /\ Len(moves') = Len(moves) + 1
      /\ DOMAIN moves' = 1 .. Len(moves) + 1 /\ DOMAIN moves = 1 .. Len(moves)
      /\ moves'[Len(moves) + 1] = m
      /\ \A i \in 1 .. Len(moves) : moves'[i] = moves[i]
  BY <1>1
<1>3. \A i \in 1 .. Len(moves) : moves[i].by # t
  BY <1>2 DEF Busy
<1>4. Len(moves') <= 2
  <2>1. ASSUME Len(moves) = 2 PROVE FALSE
    <3>1. moves[1].by # moves[2].by
      BY <2>1, <1>2 DEF StrapInv, Asleep
    <3> QED
      BY <1>3, <2>1, <3>1, StrapTypes DEF Threads
  <2> QED
    BY <1>2, <2>1, StrapTypes
<1>5. Asleep'
  BY <1>1, <1>2, <1>3, StrapTypes DEF StrapInv, Asleep
<1>6. driver' = t /\ isOpen' = isOpen /\ at' = IF at = to THEN at ELSE "between"
  BY DEF Drive
<1>7. LastDrives'
  BY <1>1, <1>2, <1>6, StrapTypes DEF LastDrives
<1>8. OpenIsKnown'
  BY <1>1, <1>2, <1>6, StrapTypes DEF StrapInv, OpenIsKnown, Positions
<1> QED
  BY <1>1, <1>2, <1>4, <1>5, <1>6, <1>7, <1>8, StrapTypes DEF Positions

LEMMA StrapArrives == StrapInv /\ Arrive => StrapInv'
<1> SUFFICES ASSUME StrapInv, Arrive PROVE StrapInv'
  OBVIOUS
<1> DEFINE m == Head(moves)
<1>1. /\ moves \in Seq(Moves) /\ moves # <<>> /\ m = moves[1]
      /\ moves' = Tail(moves)
  BY StrapTypes DEF Arrive
<1>2. /\ moves' \in Seq(Moves) /\ Len(moves') = Len(moves) - 1
      /\ DOMAIN moves' = 1 .. Len(moves) - 1
      /\ \A i \in 1 .. Len(moves) - 1 : moves'[i] = moves[i + 1]
      /\ Len(moves) >= 1 /\ 1 \in DOMAIN moves /\ Len(moves) \in DOMAIN moves
  BY <1>1, StrapTypes
<1>3. /\ driver' = "none" /\ isOpen' = (m.to = "open")
      /\ at' = IF driver = m.by THEN m.to ELSE at
      /\ UNCHANGED <<window, was, toggle, late>>
  BY DEF Arrive
<1>4. m.by \in Threads /\ m.to \in Positions
  BY <1>1, <1>2, StrapTypes
<1>5. StrapTypeOK'
  BY <1>2, <1>3, <1>4, StrapTypes DEF StrapInv, StrapTypeOK, Moves
<1>6. Asleep'
  BY <1>2, StrapTypes DEF StrapInv, Asleep
\* Of two calls, the second drives: the first to end finds it is not driving.
<1>7. driver = m.by => Len(moves) = 1
  BY <1>1, <1>2, <1>4 DEF StrapInv, LastDrives, Asleep, Threads
<1> HIDE DEF m
<1>8. OpenIsKnown'
  <2> SUFFICES ASSUME at' = "open"
               PROVE  isOpen' /\ \A i \in DOMAIN moves' : moves'[i].to = "open"
    BY DEF OpenIsKnown
  <2>1. CASE driver = m.by
    <3>1. \A i \in DOMAIN moves' : FALSE
      <4>1. Len(moves) = 1
        BY <1>7, <2>1
      <4> QED
        BY <1>2, <4>1
    <3>2. isOpen'
      BY <1>3, <2>1
    <3> QED
      BY <3>1, <3>2
  <2>2. CASE driver # m.by
    <3>1. \A i \in DOMAIN moves : moves[i].to = "open"
      BY <1>3, <2>2 DEF StrapInv, OpenIsKnown
    <3>2. m.to = "open"
      BY <1>1, <1>2, <3>1
    <3>3. \A i \in DOMAIN moves' : moves'[i].to = "open"
      BY <1>2, <3>1, StrapTypes
    <3> QED
      BY <1>3, <3>2, <3>3
  <2> QED
    BY <2>1, <2>2
<1>9. OnlyCloses'
  <2> SUFFICES ASSUME window, ~late
               PROVE  /\ \A i \in DOMAIN moves' : moves'[i].to = "closed"
                      /\ was => at' # "open"
    BY <1>3 DEF OnlyCloses
  <2>1. \A i \in DOMAIN moves : moves[i].to = "closed"
    BY DEF StrapInv, OnlyCloses
  <2> QED
    BY <1>1, <1>2, <1>3, <2>1, StrapTypes DEF StrapInv, OnlyCloses, m
<1>10. LastDrives'
  BY <1>3 DEF LastDrives
<1> QED
  BY <1>5, <1>6, <1>8, <1>9, <1>10 DEF StrapInv

\* The strap is left alone: no call begins or ends.
LEMMA StrapStill ==
  ASSUME StrapInv, Still, {window', was', late'} \subseteq BOOLEAN,
         toggle' \in Positions \cup {"none"}, OnlyCloses'
  PROVE  StrapInv'
BY DEF StrapInv, Still, StrapTypeOK, Asleep, LastDrives, OpenIsKnown

LEMMA StrapDrives ==
  ASSUME StrapInv, NEW t \in Threads, NEW to \in Positions,
         ~Busy(t), Drive(t, to), {window', was', late'} \subseteq BOOLEAN,
         toggle' \in Positions \cup {"none"}, OnlyCloses'
  PROVE  StrapInv'
<1>1. /\ moves' \in Seq(Moves) /\ Len(moves') <= 2
      /\ at' \in Positions \cup {"between"} /\ driver' = t /\ isOpen' = isOpen
      /\ Asleep' /\ LastDrives' /\ OpenIsKnown'
  BY DriveBegins
<1> QED
  BY <1>1, StrapTypes DEF StrapInv, StrapTypeOK, Moves

LEMMA StrapToggles == StrapInv /\ ToggleWork => StrapInv'
<1> SUFFICES ASSUME StrapInv, ToggleWork PROVE StrapInv'
  OBVIOUS
<1>1. /\ toggle \in Positions /\ ~Busy("work") /\ toggle' = "none"
      /\ UNCHANGED <<window, was, late>>
  BY DEF ToggleWork, StrapInv, StrapTypeOK
<1>2. CASE Accepted(toggle) /\ Drive("work", toggle)
  <2>1. window => toggle = "closed"
    BY <1>2 DEF Accepted
  <2>2. OnlyCloses'
    BY <1>1, <1>2, <2>1, DriveBegins DEF StrapInv, OnlyCloses, Threads
  <2> QED
    BY <1>1, <1>2, <2>2, StrapDrives, StrapTypes DEF Threads
<1>3. CASE Still
  BY <1>1, <1>3, StrapStill, StrapTypes DEF StrapInv, OnlyCloses, Still
<1> QED
  BY <1>2, <1>3 DEF ToggleWork

\* A check that finds the strap open begins to close it.
LEMMA ChecksClosed ==
  ASSUME StrapInv, NEW t \in Threads, ~Busy(t), CloseIfOpen(t),
         {window', was', late'} \subseteq BOOLEAN,
         toggle' \in Positions \cup {"none"},
         window' /\ ~late' => \A i \in DOMAIN moves : moves[i].to = "closed"
  PROVE  StrapInv'
<1>1. CASE Drive(t, "closed")
  <2>1. OnlyCloses'
    BY <1>1, DriveBegins DEF OnlyCloses, Positions
  <2> QED
    BY <1>1, <2>1, StrapDrives DEF Positions
<1>2. CASE ~isOpen /\ Still
  <2>1. at' # "open"
    BY <1>2 DEF StrapInv, OpenIsKnown, Still
  <2>2. OnlyCloses'
    BY <1>2, <2>1 DEF OnlyCloses, Still
  <2> QED
    BY <1>2, <2>2, StrapStill
<1> QED
  BY <1>1, <1>2 DEF CloseIfOpen

\* A window that begins without an opening under way goes on without one.
LEMMA BeganQuiet ==
  ASSUME StrapInv, NEW w \in BOOLEAN, w, ~Began(w)
  PROVE  \A i \in DOMAIN moves : moves[i].to = "closed"
<1>1. CASE window
  BY <1>1 DEF StrapInv, OnlyCloses, Began
<1>2. CASE ~window
  <2>1. \A i \in DOMAIN moves : moves[i].to # "open"
    BY <1>2 DEF Began
  <2> QED
    BY <2>1, StrapTypes DEF Positions
<1> QED
  BY <1>1, <1>2

LEMMA BeganType ==
  ASSUME StrapInv, NEW w \in BOOLEAN
  PROVE  Began(w) \in BOOLEAN
BY StrapTypes DEF Began

LEMMA StrapPushes ==
  ASSUME StrapInv, NEW w \in BOOLEAN, Push(w)
  PROVE  StrapInv'
<1>1. /\ window' = w /\ late' = Began(w) /\ UNCHANGED <<was, toggle>>
      /\ ~Busy("work") /\ "work" \in Threads
  BY DEF Push, Threads
<1>2. Began(w) \in BOOLEAN
  BY BeganType
<1>3. toggle' \in Positions \cup {"none"}
  BY <1>1 DEF StrapInv, StrapTypeOK
<1>4. CASE w /\ CloseIfOpen("work")
  BY <1>1, <1>2, <1>3, <1>4, BeganQuiet, ChecksClosed, StrapTypes
<1>5. CASE ~w /\ Still
  <2>1. OnlyCloses'
    BY <1>1, <1>5 DEF OnlyCloses
  <2> QED
    BY <1>1, <1>2, <1>3, <1>5, <2>1, StrapStill, StrapTypes
<1> QED
  BY <1>4, <1>5 DEF Push

LEMMA StrapChecks == StrapInv /\ WindowCheck => StrapInv'
<1> SUFFICES ASSUME StrapInv, WindowCheck PROVE StrapInv'
  OBVIOUS
<1>1. /\ was' = window /\ UNCHANGED <<window, toggle, late>>
      /\ ~Busy("main") /\ "main" \in Threads
  BY DEF WindowCheck, Threads
<1>2. toggle' \in Positions \cup {"none"}
  BY <1>1 DEF StrapInv, StrapTypeOK
<1>3. CASE window /\ CloseIfOpen("main")
  <2>1. window' /\ ~late' => \A i \in DOMAIN moves : moves[i].to = "closed"
    BY <1>1 DEF StrapInv, OnlyCloses
  <2> QED
    BY <1>1, <1>2, <1>3, <2>1, ChecksClosed, StrapTypes
<1>4. CASE ~window /\ Still
  <2>1. OnlyCloses'
    BY <1>1, <1>4 DEF OnlyCloses
  <2> QED
    BY <1>1, <1>2, <1>4, <2>1, StrapStill, StrapTypes
<1> QED
  BY <1>3, <1>4 DEF WindowCheck

LEMMA StrapTurns == StrapInv /\ ClockTurns => StrapInv'
<1> SUFFICES ASSUME StrapInv, ClockTurns PROVE StrapInv'
  OBVIOUS
<1>1. /\ was = window /\ window' = ~window /\ late' = Began(~window)
      /\ UNCHANGED <<was, toggle>> /\ Still
  BY DEF ClockTurns, Still
<1>2. Began(~window) \in BOOLEAN /\ (~window) \in BOOLEAN
  <2>1. (~window) \in BOOLEAN
    OBVIOUS
  <2> QED
    BY <2>1, BeganType
<1>3. OnlyCloses'
  BY <1>1, <1>2, BeganQuiet DEF OnlyCloses, Still
<1> QED
  BY <1>1, <1>2, <1>3, StrapStill, StrapTypes DEF StrapInv, StrapTypeOK

LEMMA StrapWrites ==
  ASSUME StrapInv, NEW v \in Positions, WriteToggle(v)
  PROVE  StrapInv'
<1>1. Still /\ UNCHANGED <<window, was, late>> /\ toggle' \in Positions \cup {"none"}
  BY DEF WriteToggle, Still
<1>2. OnlyCloses'
  BY <1>1 DEF StrapInv, OnlyCloses, Still
<1> QED
  BY <1>1, <1>2, StrapStill, StrapTypes

\* A strap at rest, closed, with nothing under way.
LEMMA StrapAtRest ==
  ASSUME at = "closed", isOpen = FALSE, moves = <<>>, driver = "none",
         toggle = "none", was = FALSE, late = FALSE, window \in BOOLEAN
  PROVE  StrapInv
<1>1. moves \in Seq(Moves) /\ Len(moves) = 0 /\ DOMAIN moves = {}
  OBVIOUS
<1>2. {window, was, isOpen, late} \subseteq BOOLEAN
  BY Zenon
<1>3. StrapTypeOK
  BY <1>1, <1>2 DEF StrapTypeOK, Positions, Moves
<1> QED
  BY <1>1, <1>3 DEF StrapInv, Asleep, LastDrives, OpenIsKnown, OnlyCloses

LEMMA StrapBoots == StrapInv /\ StrapBoot => StrapInv'
<1> SUFFICES ASSUME StrapInv, StrapBoot PROVE StrapInv'
  OBVIOUS
<1>1. /\ at' = "closed" /\ isOpen' = FALSE /\ moves' = <<>> /\ driver' = "none"
      /\ toggle' = "none" /\ was' = FALSE /\ late' = FALSE /\ window' \in BOOLEAN
  BY StrapTypes DEF StrapBoot
<1>2. moves' \in Seq(Moves) /\ Len(moves') = 0 /\ DOMAIN moves' = {}
  BY <1>1
<1>3. {window', was', isOpen', late'} \subseteq BOOLEAN
  BY <1>1, Zenon
<1>4. StrapTypeOK'
  BY <1>1, <1>2, <1>3 DEF StrapTypeOK, Positions, Moves
<1> QED
  BY <1>1, <1>2, <1>4 DEF StrapInv, Asleep, LastDrives, OpenIsKnown, OnlyCloses

LEMMA StrapUntouched == StrapInv /\ UNCHANGED strapVars => StrapInv'
BY DEF StrapInv, strapVars, StrapTypeOK, Asleep, LastDrives, OpenIsKnown,
       OnlyCloses

LEMMA StrapStep == StrapInv /\ [Next]_vars => StrapInv'
<1> SUFFICES ASSUME StrapInv, [Next]_vars PROVE StrapInv'
  OBVIOUS
<1>1. CASE UNCHANGED strapVars
  BY <1>1, StrapUntouched
<1>2. CASE Free
  BY <1>2, StrapTurns, StrapArrives, StrapWrites DEF Free
<1>3. CASE Work
  BY <1>3, StrapToggles, StrapPushes DEF Work
<1>4. CASE WindowCheck
  BY <1>4, StrapChecks
<1>5. CASE StrapBoot
  BY <1>5, StrapBoots
<1> QED
  BY <1>1, <1>2, <1>3, <1>4, <1>5 DEF Next, MainCheck, MainTick, Boot, vars

\* A strap is not open in a window that the main loop has seen begin, unless
\* a move was under way when it began: for every interleaving of toggles,
\* pushes, checks and the servo's sleep.
THEOREM StrapStaysLocked == Spec => []LockedInWindow
<1>1. Init => StrapInv
  BY StrapAtRest DEF Init, StrapInit
<1>2. StrapInv => LockedInWindow
  BY DEF StrapInv, OnlyCloses, LockedInWindow
<1> QED
  BY <1>1, <1>2, StrapStep, PTL DEF Spec

-----------------------------------------------------------------------------
(* The alarm.                                                              *)

Beeps == [active : BOOLEAN, profile : Profiles, on : BOOLEAN, phase : Nat,
          total : 0 .. TopTotal]

LEMMA TopTotalType == TopTotal \in Nat /\ TopTotal >= 0
<1>1. \E n \in Caps : \A m \in Caps : m <= n
  BY AlarmAssumption
<1>2. TopTotal \in Caps
  BY <1>1 DEF TopTotal
<1> QED
  BY <1>2, AlarmAssumption

LEMMA ZeroedType == Zeroed \in Beeps /\ ~Zeroed.active /\ ~Zeroed.on
<1>1. (CHOOSE p \in Profiles : TRUE) \in Profiles
  BY AlarmAssumption
<1> QED
  BY <1>1, TopTotalType DEF Zeroed, Beeps

LEMMA FlippedType ==
  ASSUME NEW b \in Beeps, NEW on \in BOOLEAN
  PROVE  Flipped(b, on) \in Beeps
BY DEF Flipped, Beeps

LEMMA AlarmTypeStep == AlarmTypeOK /\ [Next]_vars => AlarmTypeOK'
<1> SUFFICES ASSUME AlarmTypeOK, [Next]_vars PROVE AlarmTypeOK'
  OBVIOUS
<1>0. /\ beep \in Beeps /\ identify \in {"no", "queued", "on"}
      /\ tick \in {"idle", "cap", "flip on", "flip off", "pin on", "pin off"}
      /\ cap \in Caps /\ buzzer \in BOOLEAN /\ cut \in BOOLEAN
  BY DEF AlarmTypeOK, Beeps
<1>1. CASE UNCHANGED alarmVars
  BY <1>1 DEF alarmVars, AlarmTypeOK
<1>2. ASSUME NEW p \in Profiles, Removed(p, window) PROVE AlarmTypeOK'
  <2>1. beep' \in Beeps /\ buzzer' \in BOOLEAN
    BY <1>0, <1>2, ZeroedType DEF Removed, BeepStart, Beeps
  <2> QED
    BY <1>0, <1>2, <2>1 DEF Removed, AlarmTypeOK, Beeps
<1>3. CASE Worn
  BY <1>0, <1>3, ZeroedType DEF Worn, BeepStop, AlarmTypeOK, Beeps
<1>4. ASSUME NEW n \in Caps, SetCap(n) PROVE AlarmTypeOK'
  BY <1>0, <1>4 DEF SetCap, AlarmTypeOK, Beeps
<1>5. CASE WriteIdentify \/ IdentifyOn \/ IdentifyOff
  BY <1>0, <1>5 DEF WriteIdentify, IdentifyOn, IdentifyOff, AlarmTypeOK, Beeps
<1>6. CASE TickBegin
  <2>1. /\ beep' = [beep EXCEPT !.phase = @ + 1,
                                !.total = IF @ < TopTotal THEN @ + 1 ELSE @]
        /\ tick' \in {"idle", "cap", "flip on", "flip off"}
        /\ UNCHANGED <<buzzer, identify, cap, cut>>
    BY <1>6 DEF TickBegin
  <2>2. beep' \in Beeps
    <3> DEFINE total == IF beep.total < TopTotal THEN beep.total + 1 ELSE beep.total
    <3>1. beep.total \in 0 .. TopTotal /\ beep.phase \in Nat
      BY <1>0 DEF Beeps
    <3>2. total \in 0 .. TopTotal
      BY <3>1, TopTotalType
    <3>3. beep' = [beep EXCEPT !.phase = beep.phase + 1, !.total = total]
      BY <1>0, <2>1 DEF Beeps
    <3> HIDE DEF total
    <3>4. beep.phase + 1 \in Nat
      BY <3>1
    <3> QED
      BY <1>0, <3>2, <3>3, <3>4 DEF Beeps
  <2> QED
    BY <1>0, <2>1, <2>2 DEF AlarmTypeOK, Beeps
<1>7. CASE TickCap
  BY <1>0, <1>7 DEF TickCap, AlarmTypeOK, Beeps
<1>8. CASE TickFlip
  <2>1. PICK on \in {tick = "flip on", ~beep.on} :
          beep' = Flipped(beep, on) /\ tick' \in {"pin on", "pin off"}
    BY <1>8 DEF TickFlip
  <2>2. on \in BOOLEAN
    BY <1>0, <2>1 DEF Beeps
  <2>3. Flipped(beep, on) \in Beeps
    BY <1>0, <2>2, FlippedType
  <2> QED
    BY <1>0, <1>8, <2>1, <2>3 DEF TickFlip, AlarmTypeOK, Beeps
<1>9. CASE TickPin
  BY <1>0, <1>9 DEF TickPin, AlarmTypeOK, Beeps
<1>10. CASE AlarmBoot
  BY <1>10, ZeroedType, AlarmAssumption DEF AlarmBoot, AlarmTypeOK, Beeps
<1> QED
  BY <1>1, <1>2, <1>3, <1>4, <1>5, <1>6, <1>7, <1>8, <1>9, <1>10
  DEF Next, Free, Work, Command, MainCheck, MainTick, Tick, Boot, vars

\* Every variable of an anchor keeps its type: no thread is in two moves of
\* the servo, and the count of the cap stays within the caps.
THEOREM TypeCorrect == Spec => []TypeOK
<1>1. Init => StrapInv /\ AlarmTypeOK
  <2>1. Init => AlarmTypeOK
    BY ZeroedType, AlarmAssumption DEF Init, AlarmInit, AlarmTypeOK, Beeps
  <2> QED
    BY <2>1, StrapAtRest DEF Init, StrapInit
<1>2. StrapInv /\ AlarmTypeOK => TypeOK
  BY DEF StrapInv, TypeOK
<1> QED
  BY <1>1, <1>2, StrapStep, AlarmTypeStep, PTL DEF Spec

\* A tick that turns the phase is of an alarm that is running, unless that was
\* called off in it; a removal starts another.
AlarmInv ==
  /\ cut => ~beep.active
  /\ Turning /\ ~cut => beep.active
  /\ SoundsWhileActive

LEMMA AlarmStep == AlarmTypeOK /\ AlarmInv /\ [Next]_vars => AlarmInv'
<1> SUFFICES ASSUME AlarmTypeOK, AlarmInv, [Next]_vars PROVE AlarmInv'
  OBVIOUS
<1>0. beep \in Beeps /\ buzzer \in BOOLEAN /\ cut \in BOOLEAN
  BY DEF AlarmTypeOK, Beeps
<1> USE DEF AlarmInv, SoundsWhileActive, Turning
<1>1. CASE UNCHANGED alarmVars
  BY <1>1 DEF alarmVars
<1>2. ASSUME NEW p \in Profiles, Removed(p, window) PROVE AlarmInv'
  <2>1. beep'.active /\ ~cut'
    BY <1>0, <1>2, ZeroedType DEF Removed, BeepStart, Beeps
  <2> QED
    BY <2>1
<1>3. CASE Worn
  <2>1. /\ ~beep'.active /\ UNCHANGED <<tick, identify>>
        /\ \/ ~buzzer'
           \/ ~beep.active /\ buzzer' = buzzer
    BY <1>0, <1>3, ZeroedType DEF Worn, BeepStop, Beeps
  <2>2. cut' <=> Turning \/ (cut /\ buzzer')
    BY <1>3 DEF Worn
  <2>3. Turning' <=> Turning
    BY <2>1
  <2>4. SoundsWhileActive'
    BY <1>0, <2>1, <2>2
  <2> QED
    BY <2>1, <2>2, <2>3, <2>4
<1>4. ASSUME NEW n \in Caps, SetCap(n) PROVE AlarmInv'
  BY <1>4 DEF SetCap
<1>5. CASE WriteIdentify \/ IdentifyOn \/ IdentifyOff
  <2>1. UNCHANGED <<beep, tick>>
    BY <1>5 DEF WriteIdentify, IdentifyOn, IdentifyOff
  <2>2. \/ UNCHANGED <<buzzer, cut>> /\ identify # "on"
        \/ UNCHANGED cut /\ identify' = "on"
        \/ ~buzzer' /\ (cut' <=> cut /\ Turning)
    BY <1>5 DEF WriteIdentify, IdentifyOn, IdentifyOff
  <2>3. Turning' <=> Turning
    BY <2>1
  <2>4. (cut' => cut) /\ (Turning /\ ~cut' => ~cut)
    <3>1. CASE cut' = cut
      BY <1>0, <3>1
    <3>2. CASE cut' <=> cut /\ Turning
      BY <1>0, <3>2
    <3> QED
      BY <2>2, <3>1, <3>2
  <2>5. SoundsWhileActive'
    BY <2>1, <2>2
  <2> QED
    BY <2>1, <2>3, <2>4, <2>5
<1>6. CASE TickBegin
  <2>1. beep'.active /\ ~cut'
    BY <1>0, <1>6 DEF TickBegin, Beeps
  <2> QED
    BY <2>1
<1>7. CASE TickCap
  <2>1. ~beep'.active /\ ~buzzer' /\ tick' = "idle"
    BY <1>0, <1>7 DEF TickCap, Beeps
  <2>2. ~Turning' /\ SoundsWhileActive'
    BY <2>1
  <2> QED
    BY <2>1, <2>2
<1>8. CASE TickFlip
  <2>1. PICK on : beep' = Flipped(beep, on)
    BY <1>8 DEF TickFlip
  <2>2. beep'.active = beep.active
    BY <1>0, <2>1 DEF Flipped, Beeps
  <2>3. Turning /\ cut' = cut /\ tick' \in {"pin on", "pin off"}
    BY <1>8 DEF TickFlip
  <2> QED
    BY <2>2, <2>3
<1>9. CASE TickPin
  BY <1>0, <1>9 DEF TickPin
<1>10. CASE AlarmBoot
  BY <1>10, ZeroedType DEF AlarmBoot
<1> QED
  BY <1>1, <1>2, <1>3, <1>4, <1>5, <1>6, <1>7, <1>8, <1>9, <1>10
  DEF Next, Free, Work, Command, MainCheck, MainTick, Tick, Boot, vars

\* Between two ticks the buzzer sounds for Identify or for a running alarm,
\* whatever commands, caps, signals and restarts came before: except where a
\* WATCH_WORN came after a tick had tested the phase and before it wrote the
\* pin, and that tick turned the buzzer on.
THEOREM SoundsAreOfAnAlarm == Spec => []SoundsWhileActive
<1>1. Init => AlarmInv
  BY ZeroedType DEF Init, AlarmInit, AlarmInv, SoundsWhileActive, Turning
<1>2. Spec => []AlarmTypeOK
  BY TypeCorrect, PTL DEF TypeOK
<1>3. AlarmInv => SoundsWhileActive
  BY DEF AlarmInv
<1> QED
  BY <1>1, <1>2, <1>3, AlarmStep, PTL DEF Spec

=============================================================================
