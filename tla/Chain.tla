--------------------------------- MODULE Chain ---------------------------------
(***************************************************************************)
(* The hash of the objects and the chain of the ledger, and the data-only  *)
(* snapshot that is trusted by them (src/src/desi_layer9: core.py,         *)
(* hashing.py, snapshot.py, persistence.py).  The hash of the objects is   *)
(* kept up object by object: an event folds in what its references name.   *)
(* Each event carries the hash as it then was and is chained to the event  *)
(* before it.  A stored snapshot is used only if it reproduces the hash of *)
(* the committed file and its chain holds; otherwise the journal, whose    *)
(* replay is deterministic, is replayed.                                   *)
(*                                                                         *)
(* A hash is what it covers: the sum over the objects is the function of   *)
(* the contributions that are folded in, the hash of an event is the pair  *)
(* of the hash before it and of what it covers.  An object is the number   *)
(* of its changes and the event that names it, an event its number.        *)
(***************************************************************************)
EXTENDS Integers, Sequences, SequencesExt

CONSTANTS
  Object,
  MaxEvents   \* bound on the events of the ledger

ChainAssumption == MaxEvents \in Nat

VARIABLES
  pc,        \* "live" or "down"
  objects,   \* the objects: how often each was changed, and its ledger_event
  folded,    \* the contributions that the running hash holds
  ledger,
  saved,     \* the sidecar: objects and ledger, and whether it is as it was written
  head,      \* the snapshot_hash of the committed file, with what its journal makes
  intact     \* no sidecar was edited yet: one edit in a behaviour, which bounds it

vars == <<pc, objects, folded, ledger, saved, head, intact>>

-----------------------------------------------------------------------------
(* Hashes.                                                                 *)

Absent == [changes |-> 0, event |-> 0]

\* The sum over all objects, from scratch.
FullHash(os) == os

\* The contributions of the objects that are named are replaced.
Refolded(f, os, named) == [o \in Object |-> IF o \in named THEN os[o] ELSE f[o]]

Covered(event) == <<event.body, event.after>>

EventHash(previous, event) == <<previous, Covered(event)>>

Last_(events) == IF events = <<>> THEN [hash |-> <<>>, after |-> <<>>] ELSE Last(events)

\* The event that is emitted when the contributions of what it names are folded in.
Chained(events, body, after) ==
  LET bare == [body |-> body, before |-> Last_(events).after, after |-> after,
               previous |-> Last_(events).hash]
  IN  [body |-> bare.body, before |-> bare.before, after |-> bare.after,
       previous |-> bare.previous, hash |-> EventHash(bare.previous, bare)]

\* Each event is held against the hash that it says came before it.
VerifyEach(events) ==
  \A i \in DOMAIN events : events[i].hash = EventHash(events[i].previous, events[i])

\* Each event is held against the event that stands before it.
VerifyChain(events) ==
  \A i \in DOMAIN events :
    LET previous == IF i = 1 THEN <<>> ELSE events[i - 1].hash
    IN  events[i].hash = EventHash(previous, events[i]) /\ events[i].previous = previous

-----------------------------------------------------------------------------
Init ==
  /\ pc = "live"
  /\ objects = [o \in Object |-> Absent] /\ folded = [o \in Object |-> Absent]
  /\ ledger = <<>> /\ intact = TRUE
  /\ saved = [objects |-> objects, ledger |-> ledger]
  /\ head = [hash |-> folded, objects |-> objects, ledger |-> ledger, folded |-> folded]

Bumped(os, changed) == [o \in Object |-> IF o \in changed
                                         THEN [os[o] EXCEPT !.changes = @ + 1] ELSE os[o]]

Named(os, changed, event) == [o \in Object |-> IF o \in changed
                                               THEN [os[o] EXCEPT !.event = event] ELSE os[o]]

\* A handler changes objects and names them; the event gets the hash they then have, and only
\* afterwards are they given the event, and folded in again.
Accept(changed) ==
  /\ pc = "live" /\ Len(ledger) < MaxEvents
  /\ LET event == Len(ledger) + 1
         done == Bumped(objects, changed)
     IN  /\ ledger' = Append(ledger, Chained(ledger, event, Refolded(folded, done, changed)))
         /\ objects' = Named(done, changed, event)
         /\ folded' = Refolded(folded, objects', changed)
  /\ UNCHANGED <<pc, saved, head, intact>>

\* A handler raises after it has minted an object: the refusal is an event, but it names only
\* the proposal.
RefuseLate(orphan) ==
  /\ pc = "live" /\ Len(ledger) < MaxEvents
  /\ objects' = Bumped(objects, {orphan})
  /\ ledger' = Append(ledger, Chained(ledger, Len(ledger) + 1, folded))
  /\ UNCHANGED <<pc, folded, saved, head, intact>>

Save ==
  /\ pc = "live"
  /\ head' = [hash |-> folded, objects |-> objects, ledger |-> ledger, folded |-> folded]
  /\ saved' = [objects |-> objects, ledger |-> ledger]
  /\ UNCHANGED <<pc, objects, folded, ledger, intact>>

\* The process ends, after a save or before it.
Stop ==
  /\ pc = "live" /\ pc' = "down"
  /\ UNCHANGED <<objects, folded, ledger, saved, head, intact>>

Forged(events, i) == [events EXCEPT ![i].body = 0]

\* An event forged, and its hash computed again.
Resealed(events, i) ==
  [Forged(events, i) EXCEPT ![i].hash = EventHash(events[i].previous, Forged(events, i)[i])]

\* An event forged, and all hashes computed again.
Reforged(events, i) ==
  LET forged == Forged(events, i)
      hash[n \in 0 .. Len(events)] ==
        IF n = 0 THEN <<>> ELSE EventHash(hash[n - 1], forged[n])
  IN  [n \in 1 .. Len(events) |->
         [forged[n] EXCEPT !.previous = hash[n - 1], !.hash = hash[n]]]

\* What an edited sidecar may be: an object other than it was, or gone; an event forged, with its
\* hash, or the whole chain, put right or not; a field of it that no hash covers; an event
\* missing, at the end or before it; two events in the other order.
Edited(s) ==
  {[s EXCEPT !.objects = Bumped(s.objects, {o})] : o \in Object}
  \cup {[s EXCEPT !.objects[o] = Absent] : o \in Object}
  \cup {[s EXCEPT !.ledger = l] :
          l \in UNION {{Forged(s.ledger, i), Resealed(s.ledger, i), Reforged(s.ledger, i),
                        [s.ledger EXCEPT ![i].before = <<>>], RemoveAt(s.ledger, i)} :
                         i \in DOMAIN s.ledger}}
  \cup {[s EXCEPT !.ledger[i] = s.ledger[i + 1], !.ledger[i + 1] = s.ledger[i]] :
          i \in 1 .. Len(s.ledger) - 1}

Edit ==
  /\ pc = "down" /\ intact
  /\ intact' = FALSE
  /\ saved' \in Edited(saved)
  /\ UNCHANGED <<pc, objects, folded, ledger, head>>

\* The snapshot is restored, and its hash computed from scratch; what does not reproduce the
\* committed hash, or is no chain, gives way to the replay of the journal.
Load ==
  /\ pc = "down" /\ pc' = "live"
  /\ IF FullHash(saved.objects) = head.hash /\ VerifyChain(saved.ledger)
     THEN /\ objects' = saved.objects /\ ledger' = saved.ledger
          /\ folded' = FullHash(saved.objects)
     ELSE /\ objects' = head.objects /\ ledger' = head.ledger /\ folded' = head.folded
  /\ UNCHANGED <<saved, head, intact>>

Next ==
  \/ \E changed \in SUBSET Object \ {{}} : Accept(changed)
  \/ \E o \in Object : RefuseLate(o)
  \/ Save \/ Stop \/ Edit \/ Load

Spec == Init /\ [][Next]_vars

-----------------------------------------------------------------------------
(* Properties.                                                             *)

\* What a sidecar, edited in any way, can make of the state that is loaded.  Its objects have the
\* committed hash, and so are the committed ones wherever that hash counts all of them.  Its ledger
\* may be cut, forged or linked anew from some event on, and only from there: an event with the
\* hash of a committed event stands in its place, and vouches for all that is covered up to it.
\* (persistence.py:171-186, hashing.py:108-119; that the snapshot could "only ever produce a state
\* byte-identical to replay", snapshot.py:14-15, is more than the two checks come to.)
LoadsWhatIsVouchedFor ==
  [][pc = "down" /\ pc' = "live" =>
       /\ head.hash = FullHash(head.objects) => objects' = head.objects
       /\ \A i \in DOMAIN ledger', j \in DOMAIN head.ledger :
            ledger'[i].hash = head.ledger[j].hash =>
              i = j /\ \A k \in 1 .. i : Covered(ledger'[k]) = Covered(head.ledger[k])]_vars
=============================================================================
