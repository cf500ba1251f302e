------------------------------ MODULE Ranging ------------------------------
(***************************************************************************)
(* The data path of channel sounding on the watch                          *)
(* (proximity/cs_backend_nrf.c): the controller's results of a procedure   *)
(* are collected in one buffer, the anchor's half of the same procedure is *)
(* fetched or arrives by itself, and both together give an estimate that   *)
(* is added to a burst.                                                    *)
(*                                                                         *)
(* sem_local_steps guards the buffer: it is taken with the first result of *)
(* a procedure and given when its data has been used or given up.  Nothing *)
(* of this is reset when the link is lost or when ranging stops.  The      *)
(* callbacks run one at a time on the Bluetooth thread.                    *)
(***************************************************************************)
EXTENDS Fusion, FiniteSets, SequencesExt

CONSTANTS
  Counters,   \* the ranging counters, 4096 in the code
  Parts,      \* subevents in a procedure
  Backlog,    \* procedures whose data the anchor keeps or sends
  Samples     \* the estimates a procedure can give

ASSUME RangingAssumption ==
  /\ Counters \in Nat \ {0} /\ Parts \in Nat \ {0} /\ Backlog \in Nat \ {0}
  /\ Samples \subseteq [ifft : Nat, slope : Nat, rtt : Nat]

None == -1
Stale == <<None, 0>>   \* a result left over from before
Loose == <<None, 1>>   \* a result that was added while the buffer was free

VARIABLES
  up,         \* the link is set up
  wanted,     \* g_ranging_wanted
  realtime,   \* RAS_FEAT_REALTIME_RD of this link's anchor
  counter,    \* the procedure the controller is at, and its results so far
  sem,        \* sem_local_steps
  recent,     \* most_recent_local_ranging_counter
  dropped,    \* dropped_ranging_counter
  steps,      \* latest_local_steps: whose results, and which
  peer,       \* procedures whose data the anchor has yet to announce or send
  fetch,      \* the data that is being fetched
  burst,      \* impulse_live_burst
  old,        \* history: it may hold samples from before ranging was resumed
  result,     \* impulse_last_result, whether it is old, how many since resuming
  gap,        \* history: a result of this procedure is not in the buffer
  partial,    \* history: nor one of the procedure the buffer holds
  calm        \* no fault from here on

controller == <<up, wanted, realtime, counter, gap>>
buffer == <<sem, recent, dropped, steps, partial>>
anchor == <<peer, fetch>>
estimate == <<burst, old, result>>
vars == <<controller, buffer, anchor, estimate, calm>>

Ids == 0 .. Counters - 1

TypeOK ==
  /\ {up, wanted, realtime, old, gap, partial, calm} \subseteq BOOLEAN
  /\ counter.id \in Ids /\ counter.part \in 0 .. Parts - 1
  /\ sem \in 0 .. 1 /\ {recent, dropped, fetch} \subseteq Ids \cup {None}
  /\ steps \subseteq (Ids \X (1 .. Parts)) \cup {Stale, Loose}
  /\ peer \in Seq(Ids) /\ Len(peer) <= Backlog
  /\ Len(burst.ifft) <= BurstMax /\ burst.relay \in 0 .. SuspectMax
  /\ result.old \in BOOLEAN /\ result.n \in 0 .. 2

Init ==
  /\ up = FALSE /\ wanted = FALSE /\ realtime = FALSE
  /\ counter = [id |-> 0, part |-> 0]
  /\ sem = 1 /\ recent = None /\ dropped = None
  /\ steps = {} /\ partial = FALSE /\ gap = FALSE
  /\ peer = <<>> /\ fetch = None
  /\ burst = EmptyBurst /\ old = FALSE
  /\ result = [of |-> Abstains, old |-> FALSE, n |-> 0]
  /\ calm = FALSE

-----------------------------------------------------------------------------
\* What the buffer holds when procedure id begins: the counter has wrapped.
Aged(s, id) == {IF t[1] = id THEN Stale ELSE t : t \in s}

\* net_buf_simple_reset of the local steps, which may be halfway a procedure.
EmptyBuffer == steps' = {} /\ partial' = FALSE

\* Mutant: the counter is not masked.
ProgressPastTop(done, missed) ==
  /\ counter' = IF done = "partial" THEN [counter EXCEPT !.part = @ + 1]
                ELSE [id |-> counter.id + 1, part |-> 0]
  /\ gap' = (missed /\ done = "partial") /\ UNCHANGED peer

\* The controller goes on to the next result, or to the next procedure, whose
\* data the anchor has if this one was completed.
Progress(done, missed) ==
  IF done = "partial"
  THEN counter' = [counter EXCEPT !.part = @ + 1] /\ gap' = missed /\ UNCHANGED peer
  ELSE /\ counter' = [id |-> (counter.id + 1) % Counters, part |-> 0]
       /\ gap' = FALSE
       /\ \/ done = "complete" /\ Len(peer) < Backlog /\ peer' = Append(peer, counter.id)
          \/ ~calm /\ UNCHANGED peer

\* The result comes for a procedure that is new to the buffer.
Takes == recent # counter.id

Add(done, has, held) ==
  LET new == IF ~Takes /\ sem = 1 THEN Loose ELSE <<counter.id, counter.part + 1>>
  IN /\ dropped' = None
     /\ Progress(done, gap)
     /\ IF done = "aborted" THEN EmptyBuffer /\ sem' = 1
        ELSE /\ steps' = IF has THEN held \cup {new} ELSE held
             /\ partial' = (partial \/ (has /\ gap))
             /\ sem' = IF Takes THEN 0 ELSE sem

\* Not enough memory after what was left in the buffer.
Overflow(done, has, held) ==
  /\ has /\ Stale \in held
  /\ dropped' = counter.id
  /\ Progress(done, TRUE)
  /\ EmptyBuffer /\ sem' = IF Takes THEN 0 ELSE sem

\* Mutant: the rest of a procedure whose beginning was dropped is collected.
DropForgets(done, held) ==
  /\ dropped' = None
  /\ Progress(done, TRUE)
  /\ steps' = held /\ UNCHANGED <<sem, recent, partial>>

Drop(done, held) ==
  /\ dropped' = counter.id
  /\ Progress(done, TRUE)
  /\ steps' = held /\ UNCHANGED <<sem, recent, partial>>

Results == {"partial", "complete", "aborted"}

\* subevent_result_cb: has says whether the result comes with steps.
Subevent(done, has) ==
  LET held == IF counter.part = 0 THEN Aged(steps, counter.id) ELSE steps
  IN /\ up /\ (wanted \/ counter.part > 0)
     \* The data of a procedure has come, or not, long before its counter is used again.
     /\ counter.part = 0 => ~Contains(peer, counter.id) /\ fetch # counter.id
     /\ done = "partial" => counter.part + 1 < Parts
     /\ done = "complete" => counter.part + 1 = Parts
     /\ (done = "aborted" \/ ~has) => ~calm
     /\ IF dropped = counter.id \/ (Takes /\ sem = 0) THEN Drop(done, held)
        ELSE /\ recent' = counter.id
             /\ Add(done, has, held) \/ Overflow(done, has, held)
     /\ UNCHANGED <<up, wanted, realtime, fetch, estimate, calm>>

-----------------------------------------------------------------------------
\* Mutant: the live burst is not cleared when it is finished.
OnEstimateKeeps(raw) ==
  LET b == BurstAdd(burst, raw)
  IN /\ burst' = b /\ UNCHANGED old
     /\ result' = IF Len(b.ifft) < MinAccepted THEN result
                  ELSE [of |-> BurstFinish(b), old |-> old,
                        n |-> IF result.n < 2 THEN result.n + 1 ELSE 2]

\* impulse_cs_on_estimate
OnEstimate(raw) ==
  LET b == BurstAdd(burst, raw)
  IN IF Len(b.ifft) >= MinAccepted
     THEN /\ result' = [of |-> BurstFinish(b), old |-> old,
                        n |-> IF result.n < 2 THEN result.n + 1 ELSE 2]
          /\ burst' = EmptyBurst /\ old' = FALSE
     ELSE burst' = b /\ UNCHANGED <<old, result>>

\* Mutant: the buffer is emptied and not given back.
FreeBufferKeeps ==
  /\ EmptyBuffer /\ UNCHANGED sem
  /\ gap' = (gap \/ (counter.part > 0 /\ \E t \in steps : t[1] = counter.id))

\* The buffer is emptied and given back.
FreeBuffer ==
  /\ EmptyBuffer /\ sem' = 1
  /\ gap' = (gap \/ (counter.part > 0 /\ \E t \in steps : t[1] = counter.id))

\* ranging_data_cb
RangingData(id, err) ==
  IF err THEN ~calm /\ UNCHANGED <<sem, steps, partial, gap, estimate>>
  ELSE /\ FreeBuffer
       /\ \/ (~calm \/ id # recent \/ steps = {}) /\ UNCHANGED estimate
          \/ id = recent /\ steps # {} /\ \E raw \in Samples : OnEstimate(raw)

\* Realtime data of the procedure the anchor sends next.
Arrives(err) ==
  /\ up /\ realtime /\ peer # <<>>
  /\ RangingData(Head(peer), err) /\ peer' = Tail(peer)
  /\ UNCHANGED <<up, wanted, realtime, counter, recent, dropped, fetch, calm>>

\* ranging_data_ready_cb: the data is fetched, or the fetch cannot be started.
Ready ==
  /\ up /\ ~realtime /\ peer # <<>> /\ peer' = Tail(peer)
  /\ IF Head(peer) # recent THEN UNCHANGED <<sem, steps, partial, gap, fetch>>
     ELSE \/ fetch = None /\ fetch' = recent /\ UNCHANGED <<sem, steps, partial, gap>>
          \/ (fetch = None => ~calm) /\ FreeBuffer /\ UNCHANGED fetch
  /\ UNCHANGED <<up, wanted, realtime, counter, recent, dropped, estimate, calm>>

Fetched(err) ==
  /\ up /\ fetch # None /\ fetch' = None
  /\ RangingData(fetch, err)
  /\ UNCHANGED <<up, wanted, realtime, counter, recent, dropped, peer, calm>>

-----------------------------------------------------------------------------
LinkUp(rt) ==
  /\ ~up /\ ~calm /\ up' = TRUE /\ realtime' = rt
  /\ UNCHANGED <<wanted, counter, gap, buffer, anchor, estimate, calm>>

\* The link goes with what is under way; the buffer stays as it is.
LinkLost ==
  /\ up /\ ~calm /\ up' = FALSE /\ realtime' = FALSE
  /\ counter' = [id |-> 0, part |-> 0] /\ gap' = FALSE
  /\ peer' = <<>> /\ fetch' = None
  /\ steps' = {Stale : t \in steps}
  /\ UNCHANGED <<wanted, sem, recent, dropped, partial, estimate, calm>>

\* impulse_cs_set_ranging: a window begins or ends; so does the link's part in it.
Resume ==
  /\ ~wanted /\ wanted' = TRUE
  /\ old' = (burst # EmptyBurst \/ steps # {}) /\ result' = [result EXCEPT !.n = 0]
  /\ UNCHANGED <<up, realtime, counter, gap, buffer, anchor, burst, calm>>

Stop ==
  /\ wanted /\ ~calm /\ wanted' = FALSE
  /\ UNCHANGED <<up, realtime, counter, gap, buffer, anchor, estimate, calm>>

\* From here on nothing fails, the link stays and so does the window.
Settle ==
  /\ ~calm /\ up /\ wanted /\ calm' = TRUE
  /\ UNCHANGED <<controller, buffer, anchor, estimate>>

Next ==
  \/ \E done \in Results, has \in BOOLEAN : Subevent(done, has)
  \/ Ready \/ \E err \in BOOLEAN : Arrives(err) \/ Fetched(err)
  \/ LinkLost \/ \E rt \in BOOLEAN : LinkUp(rt)
  \/ Resume \/ Stop \/ Settle

\* Over a calm link procedures go on, and the anchor's data comes.
Fairness ==
  /\ WF_vars(calm /\ \E done \in Results : Subevent(done, TRUE))
  /\ WF_vars(calm /\ (Ready \/ Arrives(FALSE)))
  /\ WF_vars(calm /\ Fetched(FALSE))

Spec == Init /\ [][Next]_vars /\ Fairness

-----------------------------------------------------------------------------
\* Data that is fetched is put together with all the results of its own
\* procedure and with no other: whatever was dropped, aborted or too late.  The
\* exception the code leaves are results that an earlier link or a failed fetch
\* has left in the buffer.
FetchedIsWhole ==
  (fetch = recent /\ fetch # None /\ steps \cap {Stale, Loose} = {}) =>
     /\ \A t \in steps : t[1] = fetch
     /\ ~partial

\* Of the bursts completed since ranging was resumed at most the first holds
\* samples taken before: what the live burst kept does not outlive it.
LaterBurstsAreNew == result.n >= 2 => ~result.old

\* Over a link that works the buffer is taken and given again and again: no
\* result, abortion, lost link or failed fetch of the past blocks it for good.
DataFlows == <>[]calm => ([]<>(sem = 0) /\ []<>(sem = 1))
=============================================================================
