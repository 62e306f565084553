--------------------------------- MODULE Linking ---------------------------------
(***************************************************************************)
(* How Joni links his claims: src/src/joni/autonomy/develop.py, a pass     *)
(* over the pairs of a topic that stops when a budget is used up and goes  *)
(* on there in the next cycle, and reconsolidate.py, now and then a pass   *)
(* across the topics of a lens that Kevin found.                           *)
(***************************************************************************)
EXTENDS Semantics, FiniteSetsExt

CONSTANTS
  Topic,         \* the topic of a claim; "" is none
  Lens, Across,  \* methods that name two topics or more, in the order of their ids; the topics
  Embeddings,    \* releases of the local embedding; 0 stands for none
  Budget,        \* pairs compared in a cycle
  MaxLinks,      \* links drawn in a pass
  MaxBackfill,   \* pairs measured again in a cycle
  MaxReview,     \* conflicts whose review is opened in a cycle
  MaxPairs,      \* pairs asked about through a lens
  Every,         \* cycles from one lens to the next
  LinkedMax,     \* pairs remembered as examined
  MeasuredMax    \* measurements remembered

LinkingAssumption ==
  /\ SemanticsAssumption /\ Lens \subseteq Nat \ {0} /\ Embeddings \subseteq Nat
  /\ \A l \in Lens : Cardinality(Across[l]) >= 2
  /\ {Budget, MaxLinks, MaxBackfill, MaxReview, MaxPairs, Every, LinkedMax, MeasuredMax}
       \subseteq Nat \ {0}

VARIABLES
  pc,          \* the step the cycle has come to
  live,        \* the active claims
  layer,       \* DESi is there
  embedding,   \* the release of the embedding, 0 if none
  linked,      \* pairs remembered as examined
  measured,    \* pairs and the release they are remembered as measured under
  cursor,      \* the claim after which the pass goes on; 0 if from the front
  stock,       \* the claims this pass goes over
  ahead,       \* those it has still to come to
  compared, drawn,   \* pairs compared, links drawn in this pass
  records,     \* pairs the core has a semantic annotation of
  links,       \* links the core has
  conflict,    \* pairs in conflict: "open", "under_review" or "closed"
  lenses, last, cycle   \* the lenses there are, the one used last, cycles since

world == <<live, layer, embedding>>
pass == <<stock, ahead, compared, drawn>>
lensing == <<lenses, last, cycle>>
core == <<records, links, conflict>>
vars == <<pc, world, linked, measured, cursor, pass, core, lensing>>

-----------------------------------------------------------------------------
Pairs == {p \in Claim \X Claim : p[1] < p[2]}

Init ==
  /\ pc = "rest" /\ live = {} /\ layer = FALSE /\ embedding = 0
  /\ linked = {} /\ measured = {} /\ cursor = 0
  /\ stock = {} /\ ahead = {} /\ compared = 0 /\ drawn = 0
  /\ records = {} /\ links = {} /\ conflict = [p \in Pairs |-> "none"]
  /\ lenses = {} /\ last = 0 /\ cycle = 0

Verdict(p) == Decision(p[1], p[2], layer, embedding # 0)

\* What a link is drawn for, and what a conflict is opened for.
Acts(p) == Verdict(p) \in {"supports", "complementary"}
Clashes(p) == Verdict(p) \in {"contradictory", "tension"}

Before(p, q) == p[1] < q[1] \/ (p[1] = q[1] /\ p[2] < q[2])

\* The first, and the last, so many pairs in the order of their keys.
FirstPairs(S, n) == {p \in S : Cardinality({q \in S : Before(q, p)}) < n}
LastPairs(S, n) == {p \in S : Cardinality({q \in S : Before(p, q)}) < n}
LastTags(S, n) ==
  {t \in S : Cardinality({u \in S : Before(t[1], u[1]) \/ (t[1] = u[1] /\ t[2] < u[2])}) < n}

\* Pairs are asked about: what is found is annotated, linked or opened as a conflict, which
\* contests both sides.
Ask(asked, drawing) ==
  LET opened == {p \in asked : Clashes(p) /\ conflict[p] = "none"}
  IN  /\ records' = records \cup asked
      /\ links' = IF drawing THEN links \cup {p \in asked : Acts(p)} ELSE links
      /\ conflict' = [p \in Pairs |-> IF p \in opened THEN "open" ELSE conflict[p]]
      /\ live' = live \ UNION {{p[1], p[2]} : p \in opened}

-----------------------------------------------------------------------------
\* Claims come and go, conflicts are decided, Kevin finds a lens, and another process may find
\* other components installed.
Arrive(c) ==
  /\ pc = "rest" /\ c \notin live
  /\ \A p \in Pairs : c \in {p[1], p[2]} => conflict[p] \notin {"open", "under_review"}
  /\ live' = live \cup {c}
  /\ UNCHANGED <<pc, layer, embedding, linked, measured, cursor, pass, core, lensing>>

Leave(c) ==
  /\ pc = "rest" /\ c \in live /\ live' = live \ {c}
  /\ UNCHANGED <<pc, layer, embedding, linked, measured, cursor, pass, core, lensing>>

Decide(p) ==
  /\ pc = "rest" /\ conflict[p] \in {"open", "under_review"}
  /\ conflict' = [conflict EXCEPT ![p] = "closed"]
  /\ UNCHANGED <<pc, world, linked, measured, cursor, pass, records, links, lensing>>

Mint(l) ==
  /\ pc = "rest" /\ lenses' = lenses \cup {l}
  /\ UNCHANGED <<pc, world, linked, measured, cursor, pass, core, last, cycle>>

Begin(there, release) ==
  /\ pc = "rest" /\ pc' = "pass"
  /\ layer' = there /\ embedding' = release
  /\ stock' = live /\ compared' = 0 /\ drawn' = 0
  /\ LET rest == {c \in live : c > cursor}
     IN  ahead' = IF cursor # 0 /\ rest # {} THEN rest ELSE live
  /\ UNCHANGED <<live, linked, measured, cursor, core, lensing>>

-----------------------------------------------------------------------------
(***************************************************************************)
(* The pass over the pairs of a topic.                                     *)
(***************************************************************************)
Unseen(a) ==
  {b \in stock : b > a /\ Topic[b] = Topic[a] /\ Topic[a] # "" /\ <<a, b>> \notin linked}

\* The next claim is compared with those after it until a link is drawn.
Examine ==
  LET a == Min(ahead)
      visited == {b \in Unseen(a) :
                    \A d \in Unseen(a) : d < b /\ Near(a, d) => ~Acts(<<a, d>>)}
      asked == {<<a, b>> : b \in {d \in visited : Near(a, d)}}
  IN  /\ pc = "pass" /\ ahead # {} /\ drawn < MaxLinks /\ compared < Budget
      /\ ahead' = ahead \ {a}
      /\ compared' = compared + Cardinality(visited)
      /\ drawn' = drawn + Cardinality({p \in asked : Acts(p)})
      /\ linked' = linked \cup asked
      /\ measured' = measured \cup {<<p, embedding>> : p \in asked}
      /\ Ask(asked, TRUE)
      /\ UNCHANGED <<pc, layer, embedding, cursor, stock, lensing>>

\* Fault: a pass always begins at the front.
FromTheFront == 0

\* Where the next pass goes on: after the last claim if the budget was used up, else in front.
Resumed ==
  IF ahead # {} /\ drawn < MaxLinks THEN Max({c \in stock : c < Min(ahead)}) ELSE 0

Pause ==
  /\ pc = "pass" /\ pc' = "backfill"
  /\ ahead = {} \/ drawn >= MaxLinks \/ compared >= Budget
  /\ cursor' = Resumed
  /\ UNCHANGED <<world, linked, measured, pass, core, lensing>>

\* Pairs without a measurement under this release get one, if both sides are still live.
Backfill ==
  LET pending == {p \in linked : <<p, embedding>> \notin measured}
      able == {p \in pending : {p[1], p[2]} \subseteq live}
      asked == FirstPairs(able, MaxBackfill)
      passed == IF Cardinality(asked) < MaxBackfill THEN pending \ able
                ELSE {p \in pending \ able : \E q \in asked : Before(p, q)}
  IN  /\ pc = "backfill" /\ pc' = "review"
      /\ Ask(asked, FALSE)
      /\ linked' = LastPairs(linked, LinkedMax)
      /\ measured' = LastTags(measured \cup ((asked \cup passed) \X {embedding}), MeasuredMax)
      /\ UNCHANGED <<layer, embedding, cursor, pass, lensing>>

Review ==
  /\ pc = "review" /\ pc' = "lens"
  /\ conflict' = [p \in Pairs |->
       IF p \in FirstPairs({q \in Pairs : conflict[q] = "open"}, MaxReview)
       THEN "under_review" ELSE conflict[p]]
  /\ stock' = {} /\ ahead' = {} /\ compared' = 0 /\ drawn' = 0
  /\ UNCHANGED <<world, linked, measured, cursor, records, links, lensing>>

-----------------------------------------------------------------------------
(***************************************************************************)
(* The pass through a lens.                                                *)
(***************************************************************************)
\* The lens after the one used last, in the order of the ids.
Turn ==
  LET later == {l \in lenses : l > last}
  IN  IF later # {} THEN Min(later) ELSE Min(lenses)

Due == cycle = 0 /\ lenses # {}

Reconsolidate ==
  LET found == {p \in Pairs \ linked :
                  /\ {p[1], p[2]} \subseteq live /\ Topic[p[1]] # Topic[p[2]]
                  /\ {Topic[p[1]], Topic[p[2]]} \subseteq Across[Turn] /\ Near(p[1], p[2])}
      ahead_of(p) == {q \in found : Nearer(q, p) \/ (~Nearer(p, q) /\ Before(q, p))}
      asked == {p \in found : /\ Cardinality(ahead_of(p)) < MaxPairs
                              /\ Cardinality({q \in ahead_of(p) : Acts(q)}) < MaxLinks}
  IN  /\ pc = "lens" /\ pc' = "rest" /\ Due
      /\ last' = Turn /\ cycle' = (cycle + 1) % Every
      /\ Ask(asked, TRUE)
      /\ linked' = LastPairs(linked \cup asked, LinkedMax)
      /\ UNCHANGED <<layer, embedding, measured, cursor, pass, lenses>>

NoLens ==
  /\ pc = "lens" /\ pc' = "rest" /\ ~Due /\ cycle' = (cycle + 1) % Every
  /\ UNCHANGED <<world, linked, measured, cursor, pass, core, lenses, last>>

Cycle ==
  \/ \E there \in BOOLEAN, release \in Embeddings : Begin(there, release)
  \/ Examine \/ Pause \/ Backfill \/ Review \/ Reconsolidate \/ NoLens

Next ==
  \/ Cycle
  \/ \E c \in Claim : Arrive(c) \/ Leave(c)
  \/ \E p \in Pairs : Decide(p)
  \/ \E l \in Lens : Mint(l)

\* One cycle comes after the other.
Spec == Init /\ [][Next]_vars /\ WF_vars(Cycle)

-----------------------------------------------------------------------------
(***************************************************************************)
(* Properties.                                                             *)
(***************************************************************************)
Worth(p) == Topic[p[1]] = Topic[p[2]] /\ Topic[p[1]] # "" /\ Near(p[1], p[2])

\* Two claims of a topic with words in common are asked about, wherever they stand in the list,
\* unless one of them goes.  ("The cursor ... no claims starve; a cap that always begins at the
\* front would never have reached those at the back": develop.py:63-67, in German.)
NoPairStarves ==
  \A p \in Pairs : Worth(p) => []<>(p \in records \/ ~({p[1], p[2]} \subseteq live))

\* It is so as long as no examined pair is forgotten.  Forgotten are those in front: they are asked
\* about again, a link that is drawn again ends the pass, and the cursor returns to the front.
EveryPairIsExamined == <>[][linked \subseteq linked']_vars => NoPairStarves
=============================================================================
