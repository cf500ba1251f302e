------------------------------ MODULE Quarantine ------------------------------
(***************************************************************************)
(* What commitment integrity promises, without a queue of cells, an        *)
(* elapsed clock, settle records or handlers: the app may change a         *)
(* commitment while the device is up, at once or by a request that is put  *)
(* off; the device left to itself changes nothing but by granting, when it *)
(* starts, a request that has waited for Delay of true time and that no    *)
(* later change of the same event has replaced.  What it knows is kept in  *)
(* two copies that are not written together, and a stop goes back to them. *)
(***************************************************************************)
EXTENDS Naturals

CONSTANTS
  Events,  \* records with an id and a flag that a pass sets, negate
  Delay    \* how long a request waits

VARIABLES
  book,      \* the events the user is held to
  requests,  \* the changes put off
  kept,      \* the copies of both that a stop goes back to
  now,       \* true time
  up         \* the device has started

vars == <<book, requests, kept, now, up>>

Kinds == {"upsert", "delete"}

But(set, id)       == {e \in set : e.id # id}
Withdrawn(id)      == {r \in requests : r.target # id}
Put(e)             == But(book, e.id) \cup {e}

Init == /\ book = {} /\ requests = {}
        /\ kept = [book |-> {}, requests |-> {}]
        /\ now = 0 /\ up = TRUE

\* The app sets or clears an event at once; what was put off for it is void.
Set(e)   == /\ up /\ book' = Put(e)
            /\ requests' = Withdrawn(e.id) /\ UNCHANGED <<kept, now, up>>
Clear(e) == /\ up /\ book' = But(book, e.id)
            /\ requests' = Withdrawn(e.id) /\ UNCHANGED <<kept, now, up>>

\* A change of the app is put off, or dropped for want of room; either way it
\* voids the one put off before.
Ask(kind, e) ==
  LET r == [kind |-> kind, target |-> e.id, proposed |-> e, asked |-> now]
  IN  /\ up /\ requests' \in {Withdrawn(e.id), Withdrawn(e.id) \cup {r}}
      /\ UNCHANGED <<book, kept, now, up>>

\* A pass excuses the user of an event; what is put off stays so.
Excuse(e) == /\ up /\ e.negate /\ But(book, e.id) # book /\ book' = Put(e)
             /\ UNCHANGED <<requests, kept, now, up>>

\* A request that has waited is granted, or has become void.
Grant(r) ==
  /\ ~up /\ now >= r.asked + Delay
  /\ requests' = requests \ {r}
  /\ book' \in {book, IF r.kind = "delete" THEN But(book, r.target)
                      ELSE Put(r.proposed)}
  /\ UNCHANGED <<kept, now, up>>

KeepBook     == /\ kept' = [kept EXCEPT !.book = book]
                /\ UNCHANGED <<book, requests, now, up>>
KeepRequests == /\ kept' = [kept EXCEPT !.requests = requests]
                /\ UNCHANGED <<book, requests, now, up>>

Elapse == /\ now' \in Nat /\ now' > now
          /\ UNCHANGED <<book, requests, kept, up>>

\* The device stops, and begins to start at some later time.
Stop  == /\ up' = FALSE /\ book' = kept.book /\ requests' = kept.requests
         /\ now' \in Nat /\ now' >= now
         /\ UNCHANGED kept
Start == up' = TRUE /\ UNCHANGED <<book, requests, kept, now>>

Next == \/ \E e \in Events : Set(e) \/ Clear(e) \/ Excuse(e)
        \/ \E kind \in Kinds, e \in Events : Ask(kind, e)
        \/ \E r \in requests : Grant(r)
        \/ KeepBook \/ KeepRequests \/ Elapse \/ Stop \/ Start

Spec == Init /\ [][Next]_vars

=============================================================================
