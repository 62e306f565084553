--------------------------------- MODULE Ideas ---------------------------------
(***************************************************************************)
(* The life of claims and of Joni's own ideas within his cycles:           *)
(* src/src/joni/autonomy/core_state.py (the writes), develop.py,           *)
(* strengthen.py, homeostasis.py, reclassify.py and topic_review.py.       *)
(*                                                                         *)
(* A cycle learns from sources, opens conflicts, invents, tests ideas      *)
(* against claims and lets them rise, sheds what earned nothing, moves     *)
(* claims out of the sink topic and closes what was opened there by        *)
(* mistake.  The decisions of operators are ConflictResolution's.          *)
(***************************************************************************)
EXTENDS Naturals, Sequences, FiniteSetsExt

CONSTANTS
  Claim,      \* ids, in their order
  Text,       \* what sources say
  Idea,       \* what Joni may think up
  Offer,      \* what sources offer: a text, the topic it is filed under, the family of the source
  Akin,       \* pairs of texts or ideas that overlap enough to be compared
  Opposed,    \* pairs of texts one of which negates the other
  Routed,     \* texts that name the topic that is real
  Barred,     \* ideas that no reflection is spent on
  Trifles,    \* ideas that are not admissible
  Topics,     \* where ideas are filed
  MaxHyp,     \* ideas attended in a cycle
  MaxTests,   \* tests of an idea in a cycle
  Retries,    \* answers without a verdict before a pair counts as tested
  Barren,     \* tests without support after which an idea is shed
  MaxPrune,   \* ideas shed in a cycle as dead
  Cap,        \* ideas that may be live
  MaxShed,    \* claims a pass over topics or trifles sheds
  MaxRefile,  \* claims moved in a cycle
  BurnedAt,   \* corrected claims that make a topic burned
  Coherence   \* Doktores assesses ideas

IdeasAssumption ==
  /\ Claim \subseteq Nat /\ IsFiniteSet(Claim) /\ Text \cap Idea = {}
  /\ Offer \subseteq [text : Text, topic : {"real", "junk", "sink"}, source : STRING]
  /\ Akin \subseteq (Idea \cup Text) \X Text /\ Opposed \subseteq Text \X Text
  /\ Routed \subseteq Text /\ Barred \cup Trifles \subseteq Idea /\ Topics \subseteq {"real", "junk"}
  /\ {MaxHyp, MaxTests, Retries, Barren, MaxPrune, Cap, MaxShed, MaxRefile, BurnedAt}
       \subseteq Nat \ {0}
  /\ Coherence \in BOOLEAN

VARIABLES
  pc,        \* the step the cycle has come to
  claim,     \* the claims
  links,     \* pairs of a claim and one that supports it
  conflict,  \* pairs in conflict: "hard", "soft", or "closed"
  tested,    \* pairs of an idea and a claim it has been tested against
  fails,     \* answers without a verdict, for such pairs
  seen,      \* when the ideas were last attended, as ranks
  coherent,  \* the ideas Doktores found coherent
  todo       \* the ideas still to be attended in this cycle

attention == <<tested, fails, seen, coherent, todo>>
vars == <<pc, claim, links, conflict, attention>>

-----------------------------------------------------------------------------
Unminted == [status |-> "none", text |-> "none", topic |-> "none", source |-> "none", from |-> {}]

Pairs == {p \in SUBSET Claim : Cardinality(p) = 2}

Init ==
  /\ pc = "learn"
  /\ claim = [c \in Claim |-> Unminted]
  /\ links = {} /\ tested = {} /\ coherent = {} /\ todo = <<>>
  /\ conflict = [p \in Pairs |-> "none"]
  /\ fails = [p \in Claim \X Claim |-> 0]
  /\ seen = [c \in Claim |-> 0]

Having(status) == {c \in Claim : claim[c].status \in status}

Live == Having({"active"})
Dead == Having({"rejected", "superseded"})

Hypotheses == {c \in Having({"candidate"}) : claim[c].from # {}}

Fresh == CHOOSE c \in Having({"none"}) : \A d \in Having({"none"}) : c <= d

\* The first so many of a set, in the order of the ids.
First(S, n) == {c \in S : Cardinality({d \in S : d < c}) < n}

\* Fault: who is contested supports nothing.
SupportOfActive(c) == {d \in Claim : <<c, d>> \in links} \cap Live

\* Supporters that are not given up.
Support(c) == {d \in Claim : <<c, d>> \in links} \ Dead

IsOpen(state) == state \in {"hard", "soft"}

HardOn(conflicts, c) == \E p \in Pairs : c \in p /\ conflicts[p] = "hard"

\* Conflicts that are opened, one per pair for ever; they contest what is active.
Opened(hard, soft) ==
  [p \in Pairs |-> IF conflict[p] # "none" THEN conflict[p]
                   ELSE IF p \in hard THEN "hard" ELSE IF p \in soft THEN "soft" ELSE "none"]

Contested(after) ==
  LET hit == UNION {p \in Pairs : conflict[p] = "none" /\ IsOpen(after[p])}
  IN  [c \in Claim |-> IF c \in hit \cap Live THEN [claim[c] EXCEPT !.status = "contested"]
                       ELSE claim[c]]

Given(S, status) ==
  [c \in Claim |-> IF c \in S THEN [claim[c] EXCEPT !.status = status] ELSE claim[c]]

Then(from, to) == pc = from /\ pc' = to

-----------------------------------------------------------------------------
(***************************************************************************)
(* Taking in, inventing and assessing.                                     *)
(***************************************************************************)
\* Fault: what a source says becomes active whatever became of it before.
LearnedAnew(item) ==
  [status |-> "active", text |-> item.text, topic |-> item.topic, source |-> item.source,
   from |-> {}]

\* A text that was given up before comes back as a candidate, derived from what was given up.
Learned(item) ==
  LET twins == {c \in Dead : claim[c].text = item.text}
  IN  [status |-> IF twins = {} THEN "active" ELSE "candidate", text |-> item.text,
       topic |-> item.topic, source |-> item.source, from |-> First(twins, 1)]

Learn(item) ==
  /\ pc = "learn" /\ Having({"none"}) # {}
  /\ claim' = [claim EXCEPT ![Fresh] = Learned(item)]
  /\ UNCHANGED <<pc, links, conflict, attention>>

\* Claims on one subject that negate each other; a sink is no subject.
Detect ==
  LET clashing(p) ==
        \E a, b \in p : /\ a # b /\ claim[a].topic = claim[b].topic /\ claim[a].topic # "sink"
                        /\ <<claim[a].text, claim[b].text>> \in Opposed
  IN  /\ Then("learn", "develop")
      /\ conflict' = Opened({p \in Pairs : p \subseteq Live /\ clashing(p)}, {})
      /\ claim' = Contested(conflict')
      /\ UNCHANGED <<links, attention>>

Verdicts == {"support", "hard", "soft", "other", "insufficient"}

\* A pair on one subject is linked or found in conflict; what a pass of many pairs does is
\* Linking's.
Develop(a, b, verdict) ==
  /\ Then("develop", "invent")
  /\ {a, b} \subseteq Live /\ a < b /\ claim[a].topic = claim[b].topic
  /\ <<claim[a].text, claim[b].text>> \in Akin
  /\ links' = IF verdict = "support" THEN links \cup {<<a, b>>} ELSE links
  /\ conflict' = Opened({p \in {{a, b}} : verdict = "hard"}, {p \in {{a, b}} : verdict = "soft"})
  /\ claim' = Contested(conflict')
  /\ UNCHANGED attention

Undeveloped ==
  Then("develop", "invent") /\ UNCHANGED <<claim, links, conflict, attention>>

Invent(text, topic, parents) ==
  /\ Then("invent", "assess") /\ Having({"none"}) # {}
  /\ parents \subseteq Live /\ parents # {}
  /\ claim' = [claim EXCEPT ![Fresh] =
       [status |-> "candidate", text |-> text, topic |-> topic, source |-> "joni",
        from |-> parents]]
  /\ UNCHANGED <<links, conflict, attention>>

Uninspired ==
  Then("invent", "assess") /\ UNCHANGED <<claim, links, conflict, attention>>

\* One finding of coherence counts for good.
Assess(found) ==
  /\ Then("assess", "choose")
  /\ found \subseteq Hypotheses /\ (found # {} => Coherence)
  /\ coherent' = coherent \cup found
  /\ UNCHANGED <<claim, links, conflict, tested, fails, seen, todo>>

-----------------------------------------------------------------------------
(***************************************************************************)
(* Strengthening: strengthen.py.                                           *)
(***************************************************************************)
\* Fault: the newest ideas first.
NewestFirst(a, b) == a > b

\* Coherent ideas first, then those attended least recently, then the oldest.
Sooner(a, b) ==
  LET late(h) == h \notin coherent
  IN  \/ ~late(a) /\ late(b)
      \/ late(a) = late(b) /\ (seen[a] < seen[b] \/ (seen[a] = seen[b] /\ a < b))

Reflected == {h \in Hypotheses : claim[h].text \notin Barred}

\* The soonest of them, in their order: one sequence.
Chosen ==
  LET n == IF Cardinality(Reflected) < MaxHyp THEN Cardinality(Reflected) ELSE MaxHyp
  IN  {s \in [1..n -> Reflected] :
         /\ \A i, j \in 1..n : i < j => Sooner(s[i], s[j])
         /\ \A h \in Reflected \ Range(s) : \A i \in 1..n : Sooner(s[i], h)}

Choose ==
  /\ Then("choose", "attend")
  /\ \E chosen \in Chosen :
       LET now == 1 + Max({seen[h] : h \in Claim})
           at(h) == IF h \in Range(chosen) THEN now ELSE seen[h]
           rank(h) == Cardinality({at(g) : g \in {k \in Reflected : at(k) <= at(h)}} \ {0})
       IN  /\ todo' = chosen
           /\ seen' = [h \in Claim |-> IF h \in Reflected THEN rank(h) ELSE 0]
  /\ UNCHANGED <<claim, links, conflict, tested, fails, coherent>>

\* The sources that speak for an idea through claims not given up.
Families(h, supports) ==
  {claim[c].source : c \in {d \in Claim \ Dead : <<h, d>> \in supports}}

Burned(topic) ==
  topic # "sink" /\ Cardinality({c \in Dead : claim[c].topic = topic}) >= BurnedAt

Needed(h) == IF Burned(claim[h].topic) THEN 3 ELSE 2

\* On the strength of independent support, or of coherence unless the theme is burned.
Rises(h, supports, conflicts) ==
  /\ ~HardOn(conflicts, h)
  /\ \/ Cardinality(Families(h, supports)) >= Needed(h)
     \/ h \in coherent /\ ~Burned(claim[h].topic)

\* The claims an idea may be tested against, and those there is no use asking about any more.
Open(h) ==
  {c \in Live \ claim[h].from :
     <<claim[h].text, claim[c].text>> \in Akin /\ <<h, c>> \notin tested}
Worn(h) == {c \in Open(h) : fails[<<h, c>>] >= Retries}

\* What is asked about, and what is passed over before the tests of this cycle are used up.
Asked(h) == First(Open(h) \ Worn(h), MaxTests)
Passed(h) ==
  IF Cardinality(Asked(h)) < MaxTests THEN Worn(h)
  ELSE {c \in Worn(h) : \E d \in Asked(h) : c < d}

Attend(verdict) ==
  LET h == Head(todo)
      with(v) == {c \in Asked(h) : verdict[c] = v}
      undecided == {<<h, c>> : c \in with("insufficient")}
  IN  /\ pc = "attend" /\ todo # <<>> /\ todo' = Tail(todo)
      /\ tested' = (tested \cup ({h} \X (Asked(h) \cup Passed(h)))) \ undecided
      /\ fails' = [p \in Claim \X Claim |-> IF p \in tested' THEN 0
                                            ELSE IF p \in undecided THEN fails[p] + 1 ELSE fails[p]]
      /\ links' = links \cup ({h} \X with("support"))
      /\ conflict' = Opened({{h, c} : c \in with("hard")}, {{h, c} : c \in with("soft")})
      /\ claim' = IF Rises(h, links', conflict')
                  THEN [Contested(conflict') EXCEPT ![h].status = "active"]
                  ELSE Contested(conflict')
      /\ UNCHANGED <<pc, seen, coherent>>

Attended ==
  /\ Then("attend", "regulate") /\ todo = <<>>
  /\ UNCHANGED <<claim, links, conflict, attention>>

-----------------------------------------------------------------------------
(***************************************************************************)
(* Homeostasis.                                                            *)
(***************************************************************************)
Tests(h) == Cardinality({c \in Claim : <<h, c>> \in tested})

\* No idea supports another, so the order in which they go makes no difference.
DeadIdeas ==
  First({h \in Hypotheses : Support(h) = {} /\ (HardOn(conflict, h) \/ Tests(h) >= Barren)},
        MaxPrune)

\* As many as there are beyond the cap, of those that earned nothing.
BeyondCap(left) ==
  First({h \in left : Support(h) = {}}, IF Cardinality(left) > Cap THEN Cardinality(left) - Cap ELSE 0)

Regulate ==
  /\ Then("regulate", "topics")
  /\ claim' = Given(DeadIdeas \cup BeyondCap(Hypotheses \ DeadIdeas), "rejected")
  /\ UNCHANGED <<links, conflict, attention>>

\* Before and after the sink is gone through: of the claims on topics found to be junk, in their
\* order, each that has no support at its turn: what went before it no longer supports it.
Shed(junk) ==
  CHOOSE S \in SUBSET junk :
    \A c \in junk : c \in S <=> /\ Support(c) \subseteq {d \in S : d < c}
                                /\ Cardinality({d \in S : d < c}) < MaxShed

ShedTopics(junk) ==
  /\ Then("topics", "refile") \/ Then("review", "trifles")
  /\ junk \subseteq {c \in Live : claim[c].topic = "junk"}
  /\ claim' = Given(Shed(junk), "rejected")
  /\ UNCHANGED <<links, conflict, attention>>

\* A topic content can be moved to has two claims.
RealTopic == Cardinality({c \in Live : claim[c].topic = "real"}) >= 2

\* The live claims of the sink: those that name the topic move, as heirs with a new id, the same
\* text and source and what still supports them; the rest goes if nothing supported it before.
Refile ==
  LET stock == {c \in Live : claim[c].topic = "sink"}
      named == {c \in stock : RealTopic /\ claim[c].text \in Routed}
      free == Having({"none"})
      moved == First(First(named, MaxRefile), Cardinality(free))
      gone == {c \in stock \ named : Support(c) = {}}
      nth(S, x) == Cardinality({d \in S : d < x})
      heir(c) == CHOOSE d \in free : nth(free, d) = nth(moved, c)
      carried(c) == {d \in Support(c) : d \in moved \cup gone => d > c}
  IN  /\ Then("refile", "review")
      /\ claim' = [c \in Claim |->
           IF c \in moved THEN [claim[c] EXCEPT !.status = "superseded"]
           ELSE IF c \in gone THEN [claim[c] EXCEPT !.status = "rejected"]
           ELSE IF \E m \in moved : c = heir(m)
           THEN LET m == CHOOSE x \in moved : c = heir(x)
                IN  [claim[m] EXCEPT !.topic = "real", !.from = {m}]
           ELSE claim[c]]
      /\ links' = links \cup UNION {{heir(m)} \X carried(m) : m \in moved}
      /\ UNCHANGED <<conflict, tested, fails, seen, coherent, todo>>

ShedTrifles ==
  /\ Then("trifles", "tolerate")
  /\ claim' = Given(First({h \in Hypotheses : claim[h].text \in Trifles /\ Support(h) = {}},
                          MaxShed), "rejected")
  /\ UNCHANGED <<links, conflict, attention>>

\* Conflicts within the sink are closed; who is in no other open conflict is active again.
Tolerate ==
  LET false == {p \in Pairs : IsOpen(conflict[p]) /\ \A c \in p : claim[c].topic = "sink"}
      freed == {c \in (UNION false) \cap Having({"contested"}) :
                  \A p \in Pairs : c \in p /\ IsOpen(conflict[p]) => p \in false}
  IN  /\ Then("tolerate", "learn")
      /\ conflict' = [p \in Pairs |-> IF p \in false THEN "closed" ELSE conflict[p]]
      /\ claim' = Given(freed, "active")
      /\ UNCHANGED <<links, attention>>

Next ==
  \/ \E item \in Offer : Learn(item)
  \/ Detect
  \/ \E a, b \in Claim, v \in Verdicts : Develop(a, b, v)
  \/ Undeveloped
  \/ \E i \in Idea, topic \in Topics, parents \in SUBSET Claim : Invent(i, topic, parents)
  \/ Uninspired
  \/ \E found \in SUBSET Claim : Assess(found)
  \/ Choose
  \/ todo # <<>> /\ \E verdict \in [Asked(Head(todo)) -> Verdicts] : Attend(verdict)
  \/ Attended
  \/ Regulate
  \/ \E junk \in SUBSET Claim : ShedTopics(junk)
  \/ Refile \/ ShedTrifles \/ Tolerate

\* A cycle goes on, and after it comes another.
Spec == Init /\ [][Next]_vars /\ WF_vars(Next)

-----------------------------------------------------------------------------
(***************************************************************************)
(* Properties.                                                             *)
(***************************************************************************)
Stands(t) == \E c \in Claim : claim[c].text = t /\ claim[c].status \in {"active", "contested"}

GivenUp(t) == ~Stands(t) /\ \E c \in Dead : claim[c].text = t

\* What was given up does not stand again because it is said again: it has to rise like an idea,
\* on two sources or on its coherence.  (core_state.py:183-208)
NoSilentReturn ==
  [][\A t \in Text : GivenUp(t) /\ Stands(t)'
       => \E h \in Claim : /\ claim[h].text = t /\ claim[h].status = "candidate"
                           /\ claim'[h].status = "active"
                           /\ h \in coherent \/ Cardinality(Families(h, links')) >= 2]_vars

\* No pass gives up a claim or an idea that anything standing supports.  (homeostasis.py:226-299,
\* reclassify.py:92-97)
SupportKeepsAlive ==
  [][\A c, d \in Claim :
       claim[c].status # "rejected" /\ claim'[c].status = "rejected" /\ <<c, d>> \in links
         => claim'[d].status \in {"rejected", "superseded"}]_vars

\* Every idea is attended again and again for as long as it is one, unless so many ideas found
\* coherent come before it.  (strengthen.py:178-181)
NeverStarved ==
  \A h \in Claim :
    []<>(\/ h \notin Reflected
         \/ pc = "attend" /\ todo # <<>> /\ Head(todo) = h
         \/ h \notin coherent /\ Cardinality(coherent \cap Reflected) >= MaxHyp)
=============================================================================
