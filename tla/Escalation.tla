----------------------------- MODULE Escalation -----------------------------
(***************************************************************************)
(* The watch telling an anchor that it was taken off, or put back on, in a *)
(* window: escalate_to_anchors and its callers (main.c), the WiFi link it  *)
(* asks for (net/net_wifi.c), the two carriers, BLE (cs_backend_nrf.c) and *)
(* UDP (net/net_udp.c), and the alarm of the anchor (anchor/anchor.c).     *)
(*                                                                         *)
(* BLE writes are without response, in order, and lost with the link.      *)
(* Datagrams are lost, duplicated and reordered.  The anchor goes by its   *)
(* own schedule and clock, which may lag behind the watch's.               *)
(***************************************************************************)
EXTENDS Naturals, Sequences, FiniteSets

CONSTANTS
  Events,   \* the events of the schedule
  Beeping,  \* those with beepAnchors, this anchor being one
  None,     \* no event: NULL
  GiveUp,   \* CONFIG_IMPULSE_ESCALATION_WIFI_GIVEUP_MIN
  Buffers   \* room for BLE writes the controller has not sent

ASSUME EscalationAssumption ==
  /\ Beeping \subseteq Events /\ None \notin Events
  /\ GiveUp \in Nat \ {0} /\ Buffers \in Nat \ {0}

VARIABLES
  active,  \* g_enf.active
  worn,    \* g_enf.worn
  want,    \* g_want_link
  net,     \* the association: "up" and "leaving" are g_connected,
           \* "trying" is g_connect_pending
  since,   \* g_wifi_escalate_since_ms: 0, or 1 + its age
  gaveUp,  \* g_wifi_escalate_gave_up
  link,    \* the BLE link to the anchor, its characteristic found
  line,    \* BLE writes under way
  air,     \* datagrams under way
  theirs,  \* the event in force by the anchor's schedule and clock
  alarm    \* beep_state.active of the anchor

vars == <<active, worn, want, net, since, gaveUp, link, line, air, theirs,
          alarm>>

watch  == <<active, worn, want, since, gaveUp>>
anchor == <<theirs, alarm>>

Message == [cmd : {"removed", "worn"}, ev : Beeping]

\* Bound: an age beyond the give-up time is an age beyond it.
TopAge == GiveUp + 2

TypeOK ==
  /\ active \in Events \cup {None} /\ theirs \in Events \cup {None}
  /\ {worn, want, gaveUp, link, alarm} \subseteq BOOLEAN
  /\ net \in {"down", "trying", "up", "leaving"}
  /\ since \in 0 .. TopAge
  /\ line \in Seq(Message) /\ Len(line) <= Buffers
  /\ air \subseteq Message

Connected == net \in {"up", "leaving"}

\* impulse_wifi_request, asked first for w0 and then for w: a link that is
\* let go is dropped when there is one.
Request(w0, w) ==
  /\ want' = w
  /\ net' = IF (want \/ w0) /\ ~w /\ net = "up" THEN "leaving" ELSE net

Off(e, w) == e \in Beeping /\ ~w

Init ==
  /\ active = None /\ worn = FALSE /\ want = FALSE /\ net = "down"
  /\ since = 0 /\ gaveUp = FALSE /\ link = FALSE /\ line = <<>> /\ air = {}
  /\ theirs = None /\ alarm = FALSE

-----------------------------------------------------------------------------
(* The watch.                                                              *)

\* Mutant: a write is taken whatever is queued.
ReachesAnyway == link

\* impulse_cs_notify_watch_state: the write is taken.
Reaches == link /\ Len(line) < Buffers

OverBle(m, w0) ==
  /\ Reaches
  /\ line' = Append(line, m)
  /\ Request(w0, FALSE) /\ since' = 0 /\ gaveUp' = FALSE
  /\ UNCHANGED air

First == since = 0
TooLong == since > GiveUp + 1

GivesUp(w0) ==
  /\ TooLong /\ gaveUp' = TRUE
  /\ IF gaveUp THEN Request(w0, w0) ELSE Request(w0, FALSE)
  /\ UNCHANGED <<since, air, line>>

\* A datagram is sent if the link is there, and the link asked for if not.
OverUdp(m, w0) ==
  /\ ~TooLong
  /\ since' = IF First THEN 1 ELSE since
  /\ gaveUp' = (gaveUp /\ ~First)
  /\ Request(w0, TRUE)
  /\ air' = IF Connected THEN air \cup {m} ELSE air
  /\ UNCHANGED line

\* escalate_to_anchors, WiFi having been asked for w0 before.
Escalate(cmd, e, w0) ==
  LET m == [cmd |-> cmd, ev |-> e]
  IN  IF e \notin Beeping
      THEN Request(w0, w0) /\ UNCHANGED <<since, gaveUp, line, air>>
      ELSE OverBle(m, w0) \/ (~Reaches /\ (GivesUp(w0) \/ OverUdp(m, w0)))

\* refresh_active_event finds another event in force, or another cell.
WindowStart(e) ==
  /\ active' = e
  /\ IF worn THEN /\ Request(want, e \in Beeping)
                  /\ UNCHANGED <<since, gaveUp, line, air>>
     ELSE Escalate("removed", e, e \in Beeping)
  /\ UNCHANGED <<worn, link, anchor>>

\* Mutant: the end of a window lets the link go only if it was in use.
WindowEndIfTried ==
  /\ active # None /\ active' = None
  /\ IF since > 0 THEN Request(want, FALSE) ELSE Request(want, want)
  /\ since' = 0 /\ gaveUp' = FALSE
  /\ UNCHANGED <<worn, link, line, air, anchor>>

WindowEnd ==
  /\ active # None /\ active' = None
  /\ Request(want, FALSE) /\ since' = 0 /\ gaveUp' = FALSE
  /\ UNCHANGED <<worn, link, line, air, anchor>>

\* The worn sensor, sampled by the main loop.
WornEdge ==
  /\ worn' = ~worn
  /\ IF active = None
     THEN UNCHANGED <<want, net, since, gaveUp, line, air>>
     ELSE Escalate(IF worn' THEN "worn" ELSE "removed", active, want)
 
  /\ UNCHANGED <<active, link, anchor>>

\* Mutant: the removal is announced on the edge only.
PollSilent ==
  /\ active # None /\ ~worn
  /\ UNCHANGED vars

\* Mutant: the removal is announced whether the watch is off or not.
PollAlways ==
  /\ active # None
  /\ Escalate("removed", active, want)
  /\ UNCHANGED <<active, worn, link, anchor>>

\* A poll while the watch is off: a donning grace ended when it was taken off.
Poll ==
  /\ active # None /\ ~worn
  /\ Escalate("removed", active, want)
  /\ UNCHANGED <<active, worn, link, anchor>>

\* A unit of time.
Elapse ==
  /\ since \in 1 .. TopAge - 1 /\ since' = since + 1
  /\ UNCHANGED <<active, worn, want, net, gaveUp, link, line, air, anchor>>

-----------------------------------------------------------------------------
(* The carriers.                                                           *)

\* impulse_wifi_tick asks for an association.
Associate ==
  /\ want /\ net = "down" /\ net' = "trying"
  /\ UNCHANGED <<watch, link, line, air, anchor>>

\* wifi_evt: it is made or fails, or is lost or done with.
WifiEvent ==
  /\ \/ net = "trying" /\ net' \in {"up", "down"}
     \/ Connected /\ net' = "down"
  /\ UNCHANGED <<watch, link, line, air, anchor>>

LinkUp ==
  /\ ~link /\ link' = TRUE
  /\ UNCHANGED <<watch, net, line, air, anchor>>

LinkDown ==
  /\ link /\ link' = FALSE /\ line' = <<>>
  /\ UNCHANGED <<watch, net, air, anchor>>

Lose(m) ==
  /\ m \in air /\ air' = air \ {m}
  /\ UNCHANGED <<watch, net, link, line, anchor>>

-----------------------------------------------------------------------------
(* The anchor.                                                             *)

\* impulse_anchor_handle_command
Handle(m) ==
  /\ alarm' = IF m.cmd = "worn" THEN FALSE ELSE alarm \/ theirs = m.ev
  /\ UNCHANGED theirs

ArriveBle ==
  /\ line # <<>>
  /\ Handle(Head(line)) /\ line' = Tail(line)
  /\ UNCHANGED <<watch, net, link, air>>

\* A datagram arrives, and may arrive again.
ArriveUdp(m) ==
  /\ m \in air /\ Handle(m)
  /\ UNCHANGED <<watch, net, link, line, air>>

\* The anchor's clock reaches the window, or its schedule arrives.
AnchorCatchesUp ==
  /\ theirs # active /\ theirs' = active
  /\ UNCHANGED <<watch, net, link, line, air, alarm>>

\* The cap of the alarm, or a restart of the anchor.
AlarmStops ==
  /\ alarm /\ alarm' = FALSE
  /\ UNCHANGED <<watch, net, link, line, air, theirs>>

-----------------------------------------------------------------------------
LoseAny == \E m \in Message : Lose(m)

Next == \/ \E e \in Events : WindowStart(e)
        \/ WindowEnd \/ WornEdge \/ Poll \/ Elapse
        \/ Associate \/ WifiEvent \/ LinkUp \/ LinkDown \/ LoseAny
        \/ ArriveBle \/ \E m \in Message : ArriveUdp(m)
        \/ AnchorCatchesUp \/ AlarmStops

\* The main loop polls; what is in the air arrives or is lost; the anchor's
\* clock runs; its alarm has a cap (CapEndsAlarm of module Anchor), as it has
\* from boot until the app sets it to none (anchor.c:119, ble_anchor.c:128).
Fairness ==
  /\ WF_vars(Poll) /\ WF_vars(ArriveBle) /\ WF_vars(LoseAny)
  /\ WF_vars(AnchorCatchesUp) /\ WF_vars(AlarmStops)

Spec == Init /\ [][Next]_vars /\ Fairness

-----------------------------------------------------------------------------

\* WiFi is asked for only in a window that has anchors to tell (net_wifi.h:42,
\* and the release at the end of a window, main.c:386), and from the first
\* attempt over it until the watch gives up in every such window (main.c:355,
\* main.c:407).
WantedInWindow ==
  /\ want => active \in Beeping
  /\ since > 0 /\ ~gaveUp /\ active \in Beeping => want

\* main.c:1458: re-assertion survives a lost announcement, a cap that ran out
\* and an anchor that restarted: while the watch stays off in a window and the
\* BLE link is up, the anchor sounds again and again.
UnwornSounds ==
  \A e \in Beeping :
    <>[](active = e /\ ~worn /\ link) => []<>alarm

\* Once the watch stays on, or in no window, the alarm ends, even if no
\* message that says so arrives: by the cap of the anchor in the last resort,
\* so only while the app has not set that to none.
AlarmEnds == <>[](~Off(active, worn)) => <>[]~alarm

=============================================================================
