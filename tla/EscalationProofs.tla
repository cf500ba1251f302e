--------------------------- MODULE EscalationProofs ---------------------------
(***************************************************************************)
(* WiFi is asked for in the windows that have anchors to tell and nowhere  *)
(* else: for every set of events and of those with anchors, every give-up  *)
(* time and number of buffers, and whatever links, radio and anchor do.    *)
(* The two facts are inductive together, given the types.                  *)
(***************************************************************************)
EXTENDS Escalation, TLAPS

Inv == TypeOK /\ WantedInWindow

-----------------------------------------------------------------------------
(* What the watch changes when it escalates.                               *)

WatchTypes ==
  /\ want \in BOOLEAN /\ gaveUp \in BOOLEAN
  /\ net \in {"down", "trying", "up", "leaving"}
  /\ since \in 0 .. TopAge
  /\ line \in Seq(Message) /\ Len(line) <= Buffers
  /\ air \subseteq Message

LEMMA Bounds ==
  GiveUp \in Nat /\ Buffers \in Nat /\ TopAge \in Nat /\ {0, 1} \subseteq 0 .. TopAge
BY EscalationAssumption DEF TopAge

LEMMA RequestType ==
  ASSUME TypeOK, NEW w0 \in BOOLEAN, NEW w \in BOOLEAN, Request(w0, w)
  PROVE  want' = w /\ want' \in BOOLEAN /\ net' \in {"down", "trying", "up", "leaving"}
BY DEF TypeOK, Request

\* An escalation keeps the types, and asks for WiFi only in an event with
\* anchors; there, until it gives up, it does ask.
LEMMA Escalates ==
  ASSUME TypeOK, NEW cmd \in {"removed", "worn"}, NEW e, NEW w0 \in BOOLEAN,
         Escalate(cmd, e, w0)
  PROVE  /\ WatchTypes'
         /\ e \notin Beeping => want' = w0
         /\ e \in Beeping => (since' > 0 /\ ~gaveUp' => want')
<1> DEFINE m == [cmd |-> cmd, ev |-> e]
<1>1. CASE e \notin Beeping
  BY <1>1, RequestType DEF Escalate, TypeOK, WatchTypes
<1>2. CASE e \in Beeping /\ OverBle(m, w0)
  <2>1. m \in Message
    BY <1>2 DEF Message
  <2>2. line' = Append(line, m) /\ Len(line) < Buffers
    BY <1>2 DEF OverBle, Reaches
  <2>3. line' \in Seq(Message) /\ Len(line') <= Buffers
    BY <2>1, <2>2, Bounds DEF TypeOK
  <2>4. want' \in BOOLEAN /\ net' \in {"down", "trying", "up", "leaving"}
    BY <1>2, RequestType DEF OverBle
  <2>5. since' = 0 /\ gaveUp' = FALSE /\ air' = air
    BY <1>2 DEF OverBle
  <2>6. since' \in 0 .. TopAge
    BY <2>5, Bounds
  <2>7. gaveUp' \in BOOLEAN
    BY <2>5
  <2>8. WatchTypes'
    BY <2>3, <2>4, <2>5, <2>6, <2>7 DEF TypeOK, WatchTypes
  <2>9. ~(since' > 0)
    BY <2>5
  <2> QED
    BY <1>2, <2>8, <2>9
<1>3. CASE e \in Beeping /\ GivesUp(w0)
  <2>1. want' \in BOOLEAN /\ net' \in {"down", "trying", "up", "leaving"}
    BY <1>3, RequestType DEF GivesUp
  <2> QED
    BY <1>3, <2>1 DEF GivesUp, TypeOK, WatchTypes
<1>4. CASE e \in Beeping /\ OverUdp(m, w0)
  <2>1. m \in Message
    BY <1>4 DEF Message
  <2>2. want' = TRUE /\ net' \in {"down", "trying", "up", "leaving"}
    BY <1>4, RequestType DEF OverUdp
  <2>3. air' \subseteq Message /\ line' = line
    BY <1>4, <2>1 DEF OverUdp, TypeOK
  <2>4. since' \in 0 .. TopAge /\ gaveUp' \in BOOLEAN
    BY <1>4, Bounds DEF OverUdp, TypeOK
  <2> QED
    BY <1>4, <2>2, <2>3, <2>4 DEF TypeOK, WatchTypes
<1> QED
  BY <1>1, <1>2, <1>3, <1>4 DEF Escalate

-----------------------------------------------------------------------------
(* The actions of the watch.                                               *)

LEMMA StartKeeps ==
  ASSUME Inv, NEW e \in Events, WindowStart(e)
  PROVE  Inv'
<1>0. (e \in Beeping) \in BOOLEAN /\ want \in BOOLEAN
  BY DEF Inv, TypeOK
<1>1. CASE worn
  <2>1. want' = (e \in Beeping) /\ net' \in {"down", "trying", "up", "leaving"}
    BY <1>0, <1>1, RequestType DEF Inv, WindowStart
  <2>2. TypeOK'
    BY <1>1, <2>1 DEF Inv, TypeOK, WindowStart, anchor
  <2>3. WantedInWindow'
    BY <2>1 DEF WantedInWindow, WindowStart
  <2> QED
    BY <2>2, <2>3 DEF Inv
<1>2. CASE ~worn
  <2>1. Escalate("removed", e, e \in Beeping)
    BY <1>2 DEF WindowStart
  <2>2. /\ WatchTypes'
        /\ e \notin Beeping => want' = FALSE
        /\ e \in Beeping => (since' > 0 /\ ~gaveUp' => want')
    BY <1>0, <2>1, Escalates DEF Inv
  <2> QED
    BY <2>2 DEF Inv, TypeOK, WantedInWindow, WatchTypes, WindowStart, anchor
<1> QED
  BY <1>1, <1>2

LEMMA EndKeeps == ASSUME Inv, WindowEnd PROVE Inv'
<1>1. want' = FALSE /\ net' \in {"down", "trying", "up", "leaving"}
  BY RequestType DEF Inv, TypeOK, WindowEnd
<1>2. active' = None /\ since' = 0 /\ gaveUp' = FALSE
  BY DEF WindowEnd
<1>3. since' \in 0 .. TopAge
  BY <1>2, Bounds
<1>4. gaveUp' \in BOOLEAN /\ want' \in BOOLEAN
  BY <1>1, <1>2
<1>5. TypeOK'
  BY <1>1, <1>2, <1>3, <1>4 DEF Inv, TypeOK, WindowEnd, anchor
<1>6. WantedInWindow'
  BY <1>1, <1>2, EscalationAssumption DEF WantedInWindow
<1> QED
  BY <1>5, <1>6 DEF Inv

\* An escalation in the window that is open.
LEMMA SaysKeeps ==
  ASSUME Inv, active # None, NEW cmd \in {"removed", "worn"},
         Escalate(cmd, active, want), worn' \in BOOLEAN,
         UNCHANGED <<active, link, anchor>>
  PROVE  Inv'
<1>1. /\ WatchTypes'
      /\ active \notin Beeping => want' = want
      /\ active \in Beeping => (since' > 0 /\ ~gaveUp' => want')
  BY Escalates DEF Inv, TypeOK
<1> QED
  BY <1>1 DEF Inv, TypeOK, WantedInWindow, WatchTypes, anchor

LEMMA EdgeKeeps == ASSUME Inv, WornEdge PROVE Inv'
<1>0. worn' \in BOOLEAN
  BY DEF Inv, TypeOK, WornEdge
<1>1. CASE active = None
  BY <1>0, <1>1 DEF Inv, TypeOK, WantedInWindow, WornEdge, anchor
<1>2. CASE active # None
  BY <1>0, <1>2, SaysKeeps DEF WornEdge
<1> QED
  BY <1>1, <1>2

LEMMA PollKeeps == ASSUME Inv, Poll PROVE Inv'
BY SaysKeeps DEF Poll, Inv, TypeOK

LEMMA ElapseKeeps == ASSUME Inv, Elapse PROVE Inv'
BY Bounds DEF Inv, TypeOK, WantedInWindow, Elapse, anchor

-----------------------------------------------------------------------------
(* The carriers and the anchor leave what the watch wants alone.           *)

LEMMA OthersKeep ==
  ASSUME Inv,
         \/ Associate \/ WifiEvent \/ LinkUp \/ LinkDown \/ LoseAny
         \/ ArriveBle \/ (\E m \in Message : ArriveUdp(m))
         \/ AnchorCatchesUp \/ AlarmStops
  PROVE  Inv'
<1> USE DEF Inv, WantedInWindow, watch
<1>1. CASE Associate \/ WifiEvent
  BY <1>1 DEF TypeOK, Associate, WifiEvent, anchor
<1>2. CASE LinkUp
  BY <1>2 DEF TypeOK, LinkUp, anchor
<1>3. CASE LinkDown
  <2>1. line' \in Seq(Message) /\ Len(line') <= Buffers
    BY <1>3, Bounds DEF LinkDown
  <2> QED
    BY <1>3, <2>1 DEF TypeOK, LinkDown, anchor
<1>4. CASE LoseAny
  BY <1>4 DEF TypeOK, LoseAny, Lose, anchor
<1>5. CASE ArriveBle
  <2>1. line' \in Seq(Message) /\ Len(line') <= Buffers
    BY <1>5, Bounds DEF TypeOK, ArriveBle
  <2>2. theirs' = theirs /\ alarm' \in BOOLEAN
    BY <1>5 DEF TypeOK, ArriveBle, Handle
  <2> QED
    BY <1>5, <2>1, <2>2 DEF TypeOK, ArriveBle
<1>6. CASE \E m \in Message : ArriveUdp(m)
  <2>1. PICK m \in Message : ArriveUdp(m)
    BY <1>6
  <2>2. theirs' = theirs /\ alarm' \in BOOLEAN
    BY <2>1 DEF TypeOK, ArriveUdp, Handle
  <2> QED
    BY <2>1, <2>2 DEF TypeOK, ArriveUdp
<1>7. CASE AnchorCatchesUp
  BY <1>7 DEF TypeOK, AnchorCatchesUp
<1>8. CASE AlarmStops
  BY <1>8 DEF TypeOK, AlarmStops
<1> QED
  BY <1>1, <1>2, <1>3, <1>4, <1>5, <1>6, <1>7, <1>8

-----------------------------------------------------------------------------

LEMMA InitHolds == Init => Inv
<1> SUFFICES ASSUME Init PROVE Inv
  OBVIOUS
<1>1. line \in Seq(Message) /\ Len(line) <= Buffers
  BY Bounds DEF Init
<1>2. since \in 0 .. TopAge /\ ~(since > 0)
  BY Bounds DEF Init
<1>3. TypeOK
  BY <1>1, <1>2 DEF Init, TypeOK
<1>4. WantedInWindow
  BY <1>2 DEF Init, WantedInWindow
<1> QED
  BY <1>3, <1>4 DEF Inv

LEMMA NextKeeps == Inv /\ [Next]_vars => Inv'
<1> SUFFICES ASSUME Inv, [Next]_vars PROVE Inv'
  OBVIOUS
<1>1. CASE \E e \in Events : WindowStart(e)
  BY <1>1, StartKeeps
<1>2. CASE WindowEnd \/ WornEdge \/ Poll \/ Elapse
  BY <1>2, EndKeeps, EdgeKeeps, PollKeeps, ElapseKeeps
<1>3. CASE UNCHANGED vars
  BY <1>3 DEF Inv, TypeOK, WantedInWindow, vars
<1> QED
  BY <1>1, <1>2, <1>3, OthersKeep DEF Next

\* Every variable keeps its type, whatever is escalated, lost or repeated.
THEOREM EscalationTypes == Spec => []TypeOK
BY InitHolds, NextKeeps, PTL DEF Spec, Inv

\* WiFi is asked for only in a window that has anchors to tell, and from the
\* first attempt over it until the watch gives up in every such window
\* (escalate_to_anchors and refresh_active_event of main.c).
THEOREM WifiWantedInWindow == Spec => []WantedInWindow
BY InitHolds, NextKeeps, PTL DEF Spec, Inv

=============================================================================
