------------------------------- MODULE Hindsight -------------------------------
(***************************************************************************)
(* The end of a cycle, where the conflicts that are still open are         *)
(* condensed into a few disputes (autonomy/disputes.py) and the            *)
(* provisional layer stages them beside the hints that were barred from    *)
(* reflection (method_trial/hindsight.py, provisional.py).  An entry of    *)
(* the layer that was salient enough carries a tag; an event of a later    *)
(* cycle makes it due for a review as long as its window is open.          *)
(*                                                                         *)
(* The layer is a file of records to which a cycle appends: the last one   *)
(* under an id counts.  An id hashes the kind, the text, the source and    *)
(* the cycle, and the text of a dispute names its topic, its size and the  *)
(* number of its claims: two disputes that agree in them are one entry.    *)
(***************************************************************************)
EXTENDS Integers, FiniteSets, Sequences, SequencesExt, FiniteSetsExt

CONSTANTS
  Claim,          \* numbers, in the order of the ids
  Topic,          \* [claim -> what it is about]
  Conflict,       \* the pairs of claims that may come to contradict each other
  Strong,         \* those of them whose texts share enough content words
  Hints,          \* the numbers of hints a cycle may bar
  Taggable,       \* the kinds of entry that are salient enough for a tag
  MaxClaims,      \* MAX_COMPONENT_CLAIMS
  MaxDisputes, MaxStaged, MaxIngest, MaxReview,
  Window, Ttl, Archive,
  MaxCycle        \* bound on the cycles

HindsightAssumption ==
  /\ Claim \subseteq Nat /\ IsFiniteSet(Claim)
  /\ Strong \subseteq Conflict /\ \A k \in Conflict : k \subseteq Claim /\ Cardinality(k) = 2
  /\ Taggable \subseteq {"dispute", "hint"}
  /\ Hints \subseteq Nat /\ {Window, Ttl} \subseteq Nat
  /\ {MaxClaims, MaxDisputes, MaxStaged, MaxIngest, MaxReview, Archive, MaxCycle}
       \subseteq Nat \ {0}

VARIABLES
  cycle,
  live,      \* the conflicts that are open or under review
  raised,    \* those that were ever raised
  dead,      \* the claims that are rejected, superseded or expired
  hints,     \* the number of hints this cycle's strengthening has barred
  resolved,  \* conflict_resolved: the conflicts the operator has ever decided
  gain,      \* this cycle a trial found a benefit or a skill was crystallised
  decided,   \* this cycle the operator decided a conflict
  disputes,  \* the disputes of the last cycle, the biggest first
  store      \* the entries, in the order of their first records

vars == <<cycle, live, raised, dead, hints, resolved, gain, decided, disputes, store>>

-----------------------------------------------------------------------------
(* The disputes.                                                           *)

First(n, s) == SubSeq(s, 1, Min({n, Len(s)}))

\* What the pairs connect a claim with: what is in every set with it that no pair leads out of.
Connected(c, claims, pairs) ==
  {d \in claims : \A s \in SUBSET claims :
     c \in s /\ (\A k \in pairs : k \cap s # {} => k \subseteq s) => d \in s}

Grouping(claims, pairs) == {Connected(c, claims, pairs) : c \in claims}

Inside(g) == {k \in live : k \subseteq g}

\* A group that is too large falls apart along the pairs that share little; what is then between
\* two parts is in no dispute.
Subsplit(g) == {h \in Grouping(g, Inside(g) \cap Strong) : Inside(h) # {}}

Units ==
  UNION {IF Cardinality(g) <= MaxClaims THEN {g} ELSE Subsplit(g)
         : g \in Grouping(UNION live, live)}

\* The topic of most of the claims; among equals the first that is met.
TopicOfMost(g) ==
  LET Of(c) == Cardinality({d \in g : Topic[d] = Topic[c]})
  IN  Topic[CHOOSE c \in g : \A d \in g : Of(c) > Of(d) \/ (Of(c) = Of(d) /\ c <= d)]

Dispute(g) == [claims |-> g, topic |-> TopicOfMost(g), size |-> Cardinality(Inside(g))]

Larger(d, e) ==
  \/ d.size > e.size
  \/ d.size = e.size /\ Cardinality(d.claims) >= Cardinality(e.claims)

\* The order of equals is that of a set, which is any.
Condensed ==
  {First(MaxDisputes, ds) :
     ds \in {order \in SetToSeqs({Dispute(g) : g \in Units}) :
               \A i, j \in DOMAIN order : i < j => Larger(order[i], order[j])}}

-----------------------------------------------------------------------------
(* The entries.                                                            *)

Entry(kind, says, refs) ==
  [kind |-> kind, says |-> says, refs |-> refs, since |-> cycle, reviews |-> 0,
   stage |-> IF kind \in Taggable THEN "tagged" ELSE "provisional",
   tagged |-> IF kind \in Taggable THEN cycle ELSE -1]

Id(e) == <<e.kind, e.says, e.since>>

Staged(ds) ==
  [i \in DOMAIN ds |-> Entry("dispute", <<ds[i].topic, ds[i].size, Cardinality(ds[i].claims)>>,
                             ds[i].claims)]

Barred == [i \in 1 .. hints |-> Entry("hint", <<i>>, {})]

\* Hints before disputes.
HintsFirst(ds) == First(MaxIngest, Barred \o Staged(ds))

\* The disputes have their places first, and the hints what is left.
Ingest(ds) == First(MaxIngest, First(MaxStaged, Staged(ds)) \o Barred)

Terminal == {"expired", "rejected", "linked_only", "contradiction_detected",
             "hypothesis_opened"}

Salient == gain \/ resolved # {}

InWindow(e) == e.stage = "tagged" /\ cycle <= e.tagged + Window

\* The first entries whose window is open.
Due ==
  LET open == {i \in DOMAIN store : InWindow(store[i])}
  IN  IF Salient THEN {i \in open : Cardinality({j \in open : j < i}) < MaxReview} ELSE {}

\* The text of a dispute is never a testable statement; that of a hint was barred for not being
\* one.
Decide(e) ==
  LET To(stage) == [e EXCEPT !.reviews = @ + 1, !.stage = stage]
  IN  IF e.refs \subseteq dead THEN To("rejected")
      ELSE IF e.kind = "dispute" THEN To("contradiction_detected")
      ELSE IF e.reviews + 1 >= Archive THEN To("expired")
      ELSE IF e.refs \cap dead = {} THEN To("linked_only")
      ELSE [e EXCEPT !.reviews = @ + 1, !.tagged = cycle]

Expired(e) == e.stage \notin Terminal /\ cycle > e.since + Ttl

\* Under one id the first record of a cycle is written.
Recorded(fresh) ==
  LET first == {i \in DOMAIN fresh : \A j \in 1 .. i - 1 : Id(fresh[j]) # Id(fresh[i])}
      Nth(k) == CHOOSE i \in first : Cardinality({j \in first : j < i}) = k - 1
  IN  [k \in 1 .. Cardinality(first) |-> fresh[Nth(k)]]

-----------------------------------------------------------------------------
Init ==
  /\ cycle = 1 /\ live = {} /\ raised = {} /\ dead = {} /\ hints \in Hints
  /\ resolved = {} /\ gain = FALSE /\ decided = FALSE
  /\ disputes = <<>> /\ store = <<>>

\* Two claims are found to contradict each other.
Raise ==
  \E k \in Conflict \ raised :
    /\ raised' = raised \cup {k}
    /\ live' = live \cup {k}
    /\ UNCHANGED <<cycle, dead, hints, resolved, gain, decided, disputes, store>>

\* The operator decides a conflict: for one side, or that there is none.
Settle ==
  \E k \in live : \E losers \in {{}} \cup {{c} : c \in k} :
    /\ live' = live \ {k}
    /\ dead' = dead \cup losers
    /\ resolved' = resolved \cup {k}
    /\ decided' = TRUE
    /\ UNCHANGED <<cycle, raised, hints, gain, disputes, store>>

\* A trial of this cycle found a benefit.
Benefit ==
  /\ ~gain
  /\ gain' = TRUE
  /\ UNCHANGED <<cycle, live, raised, dead, hints, resolved, decided, disputes, store>>

\* The condensed conflicts are what the layer is shown.
RunDisputes(ds) == ds \in Condensed /\ disputes' = ds

\* The end of a cycle: the conflicts are condensed and the layer stages, reviews and lets expire.
\* The strengthening of the next cycle bars hints anew.
Close ==
  \E ds \in Condensed :
    /\ cycle < MaxCycle
    /\ RunDisputes(ds)
    /\ store' = [i \in DOMAIN store |->
                   IF i \in Due THEN Decide(store[i])
                   ELSE IF Expired(store[i]) THEN [store[i] EXCEPT !.stage = "expired"]
                   ELSE store[i]] \o Recorded(Ingest(ds))
    /\ cycle' = cycle + 1
    /\ hints' \in Hints
    /\ gain' = FALSE /\ decided' = FALSE
    /\ UNCHANGED <<live, raised, dead, resolved>>

Next == Raise \/ Settle \/ Benefit \/ Close

Spec == Init /\ [][Next]_vars

-----------------------------------------------------------------------------
(* Properties.                                                             *)

\* When a cycle had disputes, an event of the next one finds something to review: however many
\* hints there were, they cannot have crowded the disputes out of the layer (the live-window bug
\* of hindsight.py's docstring).
EventsFindDisputes ==
  [][Close /\ disputes # <<>> /\ (gain \/ decided)
       => \E i \in DOMAIN store : store[i].stage = "tagged" /\ store'[i].reviews = 1]_vars
=============================================================================
