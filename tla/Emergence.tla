-------------------------------- MODULE Emergence --------------------------------
(***************************************************************************)
(* How structure emerges from what recurs in Joni's claims:                *)
(* src/src/joni/autonomy/emerge.py with term_judge.py, the topic gate of   *)
(* topic_review.py, the cache of model_call.py and, in homeostasis.py, the *)
(* drain of topics that nothing was added to.                              *)
(*                                                                         *)
(* Terms and topics are both words.  A model may answer or fail at any     *)
(* call; what it answered is kept under the prompt and never asked again.  *)
(***************************************************************************)
EXTENDS Semantics, FiniteSetsExt, SequencesExt

CONSTANTS
  Topic,       \* the topic of a claim
  Term,        \* words that mean something, numbered in their order
  OnDomain,    \* terms that are on the domain
  Good,        \* terms that would be a good topic
  Sink,        \* topics that collect what belongs nowhere
  Disputable,  \* pairs of claims a conflict may be opened for
  Families,    \* the external sources a claim rests on
  Judging,     \* the term judge is switched on
  Gate,        \* the topic gate is switched on
  MinClaims,   \* claims a term has to recur in
  MinTopics, MinAcross,   \* topics it has to span for a topic, and for a lens
  Retries,     \* answers without a verdict before a candidate is done with
  Group,       \* claims of a term that are measured for a lens
  Sample,      \* claims the topic gate is shown
  ClustersMax, \* clusters remembered as done
  Grace,       \* cycles a topic is given to grow
  MaxOrphans   \* topics drained in a cycle

EmergenceAssumption ==
  /\ SemanticsAssumption /\ \A c \in Claim : Topic[c] \in Nat \ {0}
  /\ Term \subseteq Nat \ {0} /\ OnDomain \cup Good \subseteq Term
  /\ Disputable \subseteq Claim \X Claim
  /\ Judging \in BOOLEAN /\ Gate \in BOOLEAN
  /\ {MinClaims, MinTopics, MinAcross, Retries, Group, Sample, ClustersMax, MaxOrphans}
       \subseteq Nat \ {0}
  /\ Grace \in Nat

VARIABLES
  pc,        \* the step the cycle has come to
  live,      \* the active claims
  layer,     \* DESi is there
  opposed,   \* pairs of claims in a live conflict
  tracker,   \* the claim that tracks an emergent topic: "none", "active" or "rejected"
  age,       \* cycles since it was minted
  earned,    \* trackers that something supports
  opinion,   \* what the term judge answered
  seen,      \* what the topic gate answered
  garbled,   \* what it was shown when its answer could not be read
  doneTopics, doneClusters, doneLenses,   \* what is done with
  tries,     \* answers without a verdict for a cluster, or for a lens: a term under 0
  hinted,    \* pattern hints recorded for a cluster, two standing for two and more
  methods    \* the lenses offered to Kevin

world == <<live, layer, opposed>>
topics == <<tracker, age, earned>>
judges == <<opinion, seen, garbled>>
vars == <<pc, world, topics, judges, doneTopics, doneClusters, doneLenses, tries, hinted, methods>>

Clusters == {Topic[c] : c \in Claim} \X Term

Init ==
  /\ pc = "rest" /\ live = {} /\ layer = FALSE /\ opposed = {}
  /\ tracker = [t \in Term |-> "none"] /\ age = [t \in Term |-> 0] /\ earned = {}
  /\ opinion = [t \in Term |-> "none"] /\ seen = [t \in Term |-> "none"] /\ garbled = {}
  /\ doneTopics = {} /\ doneClusters = {} /\ doneLenses = {}
  /\ tries = [x \in Clusters \cup ({0} \X Term) |-> 0]
  /\ hinted = [k \in Clusters |-> 0] /\ methods = {}

-----------------------------------------------------------------------------
Holding(t) == {c \in live : t \in Words[c]}
Spanned(t) == {Topic[c] : c \in Holding(t)}

FirstOf(S, n) == {c \in S : Cardinality({d \in S : d < c}) < n}

\* Claims come and go, and so do conflicts; a tracker may come to be supported.
Arrive(c) ==
  /\ pc = "rest" /\ live' = live \cup {c}
  /\ UNCHANGED <<pc, layer, opposed, topics, judges, doneTopics, doneClusters, doneLenses,
                 tries, hinted, methods>>

Leave(c) ==
  /\ pc = "rest" /\ live' = live \ {c}
  /\ UNCHANGED <<pc, layer, opposed, topics, judges, doneTopics, doneClusters, doneLenses,
                 tries, hinted, methods>>

Dispute(p) ==
  /\ pc = "rest"
  /\ opposed' = IF p \in opposed THEN opposed \ {p} ELSE opposed \cup {p}
  /\ UNCHANGED <<pc, live, layer, topics, judges, doneTopics, doneClusters, doneLenses,
                 tries, hinted, methods>>

Endorse(t) ==
  /\ pc = "rest" /\ tracker[t] = "active" /\ earned' = earned \cup {t}
  /\ UNCHANGED <<pc, world, tracker, age, judges, doneTopics, doneClusters, doneLenses,
                 tries, hinted, methods>>

\* Structure emerges only while intake is open.
Begin(there, open) ==
  /\ pc = "rest" /\ pc' = IF open THEN "topic" ELSE "drain"
  /\ layer' = there
  /\ UNCHANGED <<live, opposed, topics, judges, doneTopics, doneClusters, doneLenses,
                 tries, hinted, methods>>

-----------------------------------------------------------------------------
(***************************************************************************)
(* The term judge: a "no" drops a candidate, anything else leaves the rule *)
(* as it is.  An answer is kept, a failed call is not.                     *)
(***************************************************************************)
Answers == {"none", "no", "other"}

Opinion(t, answer) ==
  IF ~Judging THEN "none" ELSE IF opinion[t] # "none" THEN opinion[t] ELSE answer

Kept(asked, answer) ==
  [t \in Term |-> IF t \in asked THEN Opinion(t, answer[t]) ELSE opinion[t]]

-----------------------------------------------------------------------------
(***************************************************************************)
(* A term that recurs across topics becomes a topic of its own.            *)
(***************************************************************************)
Tracked == {Topic[c] : c \in live} \cup {t \in Term : tracker[t] = "active"}

TopicCandidates ==
  {t \in OnDomain \ (Tracked \cup doneTopics) :
     Cardinality(Holding(t)) >= MinClaims /\ Cardinality(Spanned(t)) >= MinTopics}

MoreClaims(t, u) ==
  LET n(x) == Cardinality(Holding(x)) IN n(t) > n(u) \/ (n(t) = n(u) /\ t < u)

FirstTopic == CHOOSE t \in TopicCandidates : \A u \in TopicCandidates \ {t} : MoreClaims(t, u)

VetoTopic(answer) ==
  /\ pc = "topic" /\ TopicCandidates # {}
  /\ Opinion(FirstTopic, answer) = "no"
  /\ doneTopics' = doneTopics \cup {FirstTopic}
  /\ opinion' = [opinion EXCEPT ![FirstTopic] = "no"]
  /\ UNCHANGED <<pc, world, topics, seen, garbled, doneClusters, doneLenses, tries, hinted,
                 methods>>

\* What the gate says of a term whose claims it is shown.
Shown(t) == <<t, FirstOf(Holding(t), Sample)>>

Verdict(t, reply) ==
  IF ~Gate THEN "valid" ELSE IF seen[t] # "none" THEN seen[t]
  ELSE IF Shown(t) \in garbled THEN "garbled" ELSE reply

MintTopic(answer, reply) ==
  LET t == FirstTopic
      verdict == Verdict(t, reply)
  IN  /\ pc = "topic" /\ pc' = "clusters" /\ TopicCandidates # {}
      /\ Opinion(t, answer) # "no"
      /\ opinion' = [opinion EXCEPT ![t] = Opinion(t, answer)]
      /\ seen' = IF Gate /\ verdict \in {"valid", "invalid"} THEN [seen EXCEPT ![t] = verdict]
                 ELSE seen
      /\ garbled' = IF verdict = "garbled" THEN garbled \cup {Shown(t)} ELSE garbled
      /\ doneTopics' = IF verdict \in {"valid", "invalid"} THEN doneTopics \cup {t}
                       ELSE doneTopics
      /\ tracker' = IF verdict = "valid" THEN [tracker EXCEPT ![t] = "active"] ELSE tracker
      /\ age' = IF verdict = "valid" THEN [age EXCEPT ![t] = 0] ELSE age
      /\ UNCHANGED <<world, earned, doneClusters, doneLenses, tries, hinted, methods>>

NoTopic ==
  /\ pc = "topic" /\ pc' = "clusters" /\ TopicCandidates = {}
  /\ UNCHANGED <<world, topics, judges, doneTopics, doneClusters, doneLenses, tries, hinted,
                 methods>>

-----------------------------------------------------------------------------
(***************************************************************************)
(* Claims of one topic that share a term.  What they are found to have in  *)
(* common is recorded as a hint, never as a claim: the sentence it would   *)
(* be is one that no reflection is spent on.                               *)
(***************************************************************************)
Members(k) == {c \in Holding(k[2]) : Topic[c] = k[1]}

Groundless(k) == k[1] \in Sink \/ k[2] \notin OnDomain \cap Good

\* On two sources that do not depend on each other, and without a live contradiction.
Grounded(k) ==
  /\ Cardinality(UNION {Families[c] : c \in Members(k)}) >= 2
  /\ \A p \in opposed : ~({p[1], p[2]} \subseteq Members(k))

KeyBefore(k, l) == k[1] < l[1] \/ (k[1] = l[1] /\ k[2] < l[2])
Remembered(S) == {k \in S : Cardinality({l \in S : KeyBefore(k, l)}) < ClustersMax}

Synthesise(answer) ==
  LET due == {k \in Clusters \ doneClusters : Cardinality(Members(k)) >= MinClaims}
      judged == {k \in due : ~Groundless(k) /\ Grounded(k)}
      vetoed == {k \in judged : Opinion(k[2], answer[k[2]]) = "no"}
      spent == {k \in judged \ vetoed : tries[k] >= Retries}
      asked == judged \ (vetoed \cup spent)
      decision(k) == GroupDecision(Members(k), layer, TRUE)
      open == {k \in asked : decision(k) = "insufficient"}
  IN  /\ pc = "clusters" /\ pc' = "lenses"
      /\ opinion' = Kept({k[2] : k \in judged}, answer)
      /\ doneClusters' =
           Remembered(doneClusters \cup {k \in due : Groundless(k)} \cup (judged \ open))
      /\ tries' = [x \in DOMAIN tries |-> IF x \in open THEN tries[x] + 1
                                          ELSE IF x \in asked \cup spent THEN 0 ELSE tries[x]]
      /\ hinted' = [k \in Clusters |-> IF k \in asked /\ Eligible(decision(k)) /\ hinted[k] < 2
                                       THEN hinted[k] + 1 ELSE hinted[k]]
      /\ UNCHANGED <<world, topics, seen, garbled, doneTopics, doneLenses, methods>>

-----------------------------------------------------------------------------
(***************************************************************************)
(* A term that recurs across topics is offered to Kevin as a lens.         *)
(***************************************************************************)
LensCandidates ==
  {t \in (OnDomain \cap Good) \ (Sink \cup doneLenses) :
     Cardinality(Holding(t)) >= MinClaims /\ Cardinality(Spanned(t)) >= MinAcross}

MoreTopics(t, u) ==
  LET n(x) == Cardinality(Spanned(x)) IN n(t) > n(u) \/ (n(t) = n(u) /\ MoreClaims(t, u))

FirstLens == CHOOSE t \in LensCandidates : \A u \in LensCandidates \ {t} : MoreTopics(t, u)

VetoLens(answer) ==
  /\ pc = "lenses" /\ LensCandidates # {}
  /\ Opinion(FirstLens, answer) = "no"
  /\ doneLenses' = doneLenses \cup {FirstLens}
  /\ opinion' = [opinion EXCEPT ![FirstLens] = "no"]
  /\ UNCHANGED <<pc, world, topics, seen, garbled, doneTopics, doneClusters, tries, hinted,
                 methods>>

\* Fault: a candidate no verdict is found for is asked about for ever.
NeverSpent(t) == FALSE

Spent(t) == tries[<<0, t>>] >= Retries

OfferLens(answer) ==
  LET t == FirstLens
      decision == GroupDecision(FirstOf(Holding(t), Group), layer, TRUE)
      done == Spent(t) \/ decision # "insufficient"
  IN  /\ pc = "lenses" /\ pc' = "drain" /\ LensCandidates # {}
      /\ Opinion(t, answer) # "no"
      /\ opinion' = [opinion EXCEPT ![t] = Opinion(t, answer)]
      /\ doneLenses' = IF done THEN doneLenses \cup {t} ELSE doneLenses
      /\ tries' = [tries EXCEPT ![<<0, t>>] = IF done THEN 0 ELSE IF @ < Retries THEN @ + 1 ELSE @]
      /\ methods' = IF ~Spent(t) /\ Eligible(decision) THEN methods \cup {t} ELSE methods
      /\ UNCHANGED <<world, topics, seen, garbled, doneTopics, doneClusters, hinted>>

NoLens ==
  /\ pc = "lenses" /\ pc' = "drain" /\ LensCandidates = {}
  /\ UNCHANGED <<world, topics, judges, doneTopics, doneClusters, doneLenses, tries, hinted,
                 methods>>

-----------------------------------------------------------------------------
\* Topics that nothing was added to within their grace are given up.
Drain ==
  LET orphans == {t \in Term : /\ tracker[t] = "active" /\ t \notin {Topic[c] : c \in live}
                               /\ seen[t] # "valid" /\ age[t] >= Grace /\ t \notin earned}
  IN  /\ pc = "drain" /\ pc' = "rest"
      /\ tracker' = [t \in Term |-> IF t \in FirstOf(orphans, MaxOrphans) THEN "rejected"
                                    ELSE tracker[t]]
      /\ age' = [t \in Term |-> IF tracker'[t] = "active" /\ age[t] < Grace THEN age[t] + 1
                                ELSE age[t]]
      /\ UNCHANGED <<world, earned, judges, doneTopics, doneClusters, doneLenses, tries, hinted,
                     methods>>

Cycle ==
  \/ \E there, open \in BOOLEAN : Begin(there, open)
  \/ \E a \in Answers : VetoTopic(a) \/ VetoLens(a) \/ OfferLens(a)
  \/ \E a \in Answers, r \in {"none", "valid", "invalid", "garbled"} : MintTopic(a, r)
  \/ NoTopic \/ NoLens \/ Drain
  \/ \E answer \in [Term -> Answers] : Synthesise(answer)

Next ==
  \/ Cycle
  \/ \E c \in Claim : Arrive(c) \/ Leave(c)
  \/ \E p \in Disputable : Dispute(p)
  \/ \E t \in Term : Endorse(t)

\* One cycle comes after the other, and intake is not shut for ever.
Fairness == WF_vars(Cycle) /\ SF_vars(\E there \in BOOLEAN : Begin(there, TRUE))

Spec == Init /\ [][Next]_vars /\ Fairness

-----------------------------------------------------------------------------
(***************************************************************************)
(* Properties.                                                             *)
(***************************************************************************)
\* Every term that could be a lens is settled in the end, whichever comes before it and whether
\* the semantic layer is there or not.  (emerge.py:286-325)
LensesAreSettled == \A t \in Term : []<>(t \notin LensCandidates)
=============================================================================
