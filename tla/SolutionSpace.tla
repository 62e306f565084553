----------------------------- MODULE SolutionSpace -----------------------------
(***************************************************************************)
(* The map of the solution space and the explorer that walks it            *)
(* (src/src/joni/solution_space: cartography.py, navigation.py).  A claim  *)
(* is a point with a governance vector and an embedding.  Points that are  *)
(* near form islands; an island without a claim that is established is an  *)
(* unreached region, and two islands that are close in topic but far in    *)
(* governance are a bridge to be built.  Both go on an agenda, of which    *)
(* the explorer takes the first item it has not taken before; what that    *)
(* does to the claims, and so to the next map, is up to the step it is     *)
(* given.                                                                  *)
(*                                                                         *)
(* One governance axis stands for the nine, and a topic for an embedding:  *)
(* the cosine of two points is 1 or 0.  Distances are compared in          *)
(* integers, with the defaults of cartograph (tau 0.35, both weights 0.5,  *)
(* a bridge at most 0.25 apart in topic and at least 0.5 in governance).   *)
(***************************************************************************)
EXTENDS Integers, FiniteSets, Sequences, SequencesExt, FiniteSetsExt, Relation

CONSTANTS
  Point,       \* the claims there may be, numbers in the order of their ids
  Axis,        \* [point -> its governance coordinate]
  Topic,       \* [point -> what it is about]
  First,       \* the claims there are at the beginning
  Top,         \* how long the agenda may be
  MaxSteps     \* how often the explorer may set out

SolutionSpaceAssumption ==
  /\ Point \subseteq Nat /\ IsFiniteSet(Point) /\ First \subseteq Point
  /\ Axis \in [Point -> Nat]
  /\ {Top, MaxSteps} \subseteq Nat \ {0}

VARIABLES
  present,    \* the claims
  anchored,   \* those that are established
  seen,       \* what the explorer remembers of the items it has taken
  trace,      \* the members of these items, in turn
  state       \* "exploring", "nothing new", or "out of steps"

vars == <<present, anchored, seen, trace, state>>

-----------------------------------------------------------------------------
(* Distances.                                                              *)

Apart(x, y) == IF x > y THEN x - y ELSE y - x

\* The range of the axis over some points.
Span(points) ==
  IF points = {} THEN 0
  ELSE Apart(Max({Axis[p] : p \in points}), Min({Axis[p] : p \in points}))

\* 0.5 * gov + 0.5 * sem <= 0.35, where gov = |difference| / span, sem is 0 for the same topic and
\* 0.5 for another.  Points that differ nowhere have the distance 0.
Near(span, p, q) ==
  IF Topic[p] = Topic[q] THEN 10 * Apart(Axis[p], Axis[q]) <= 7 * span
  ELSE 5 * Apart(Axis[p], Axis[q]) <= span

-----------------------------------------------------------------------------
(* Islands.                                                                *)

\* The root of a point: the last of its parents.
Find(parent, x) ==
  LET Root[y \in DOMAIN parent] == IF parent[y] = y THEN y ELSE Root[parent[y]]
  IN  Root[x]

\* Of two roots the lower stays one.
Union(parent, p, q) ==
  LET a == Find(parent, p)
      b == Find(parent, q)
  IN  IF a = b THEN parent ELSE [parent EXCEPT ![Max({a, b})] = Min({a, b})]

\* The pairs of near points, as the two loops come to them.
NearPairs(points) ==
  LET Earlier(a, b) == a[1] < b[1] \/ (a[1] = b[1] /\ a[2] < b[2])
  IN  SetToSortSeq({pq \in points \X points : pq[1] < pq[2] /\ Near(Span(points), pq[1], pq[2])},
                   Earlier)

Roots(points) ==
  FoldLeft(LAMBDA parent, pq : Union(parent, pq[1], pq[2]), [p \in points |-> p], NearPairs(points))

\* The islands, by their roots; their ids are the places here.
Islands(points) ==
  LET roots == Roots(points)
      tops == {Find(roots, p) : p \in points}
      Nth(k) == CHOOSE r \in tops : Cardinality({s \in tops : s < r}) = k - 1
      Members(r) == {p \in points : Find(roots, p) = r}
  IN  [k \in 1 .. Cardinality(tops) |-> Members(Nth(k))]

Anchored(island) == island \cap anchored # {}

\* The cosine of the centroids is at least 0.5, from the numbers of points each topic has.
CloseInTopic(g, h) ==
  LET Of(x, t) == Cardinality({p \in x : Topic[p] = t})
      topics == {Topic[p] : p \in g \cup h}
      Dot(x, y) == MapThenSumSet(LAMBDA t : Of(x, t) * Of(y, t), topics)
  IN  4 * Dot(g, h) * Dot(g, h) >= Dot(g, g) * Dot(h, h)

\* The centroids are at least half of the range apart.
FarInGovernance(span, g, h) ==
  LET Sum(x) == MapThenSumSet(LAMBDA p : Axis[p], x)
      m == Cardinality(g)
      n == Cardinality(h)
  IN  span > 0 /\ 2 * Apart(Sum(g) * n, Sum(h) * m) >= span * m * n

-----------------------------------------------------------------------------
(* The agenda.                                                             *)

Bridges(map) ==
  {ab \in (DOMAIN map) \X (DOMAIN map) :
     /\ ab[1] < ab[2]
     /\ CloseInTopic(map[ab[1]], map[ab[2]])
     /\ FarInGovernance(Span(present), map[ab[1]], map[ab[2]])}

\* A bridge leads from it to an island that is anchored.
Reachable(map, k) ==
  \E ab \in Bridges(map) : \E j \in {ab[1], ab[2]} \ {k} :
    k \in {ab[1], ab[2]} /\ Anchored(map[j])

Items(map) ==
  {[kind |-> "reach_island", target |-> {k}, members |-> map[k]] :
     k \in {j \in DOMAIN map : ~Anchored(map[j])}}
  \cup
  {[kind |-> "bridge", target |-> {ab[1], ab[2]}, members |-> map[ab[1]] \cup map[ab[2]]] :
     ab \in Bridges(map)}

\* Half of the weight is the size of the island, half whether it can be reached.
Before(map, i, j) ==
  LET largest == Max({Cardinality(map[k]) : k \in DOMAIN map})
      Weight(x) == Cardinality(x.members)
                   + IF Reachable(map, CHOOSE k \in x.target : TRUE) THEN largest ELSE 0
  IN  i.kind = "reach_island" /\ j.kind = "reach_island" /\ Weight(i) > Weight(j)

\* The best of the items; where a bridge comes among them depends on distances that are not
\* modelled.
Agendas(map) ==
  {agenda \in kSubset(Min({Top, Cardinality(Items(map))}), Items(map)) :
     \A j \in agenda : \A i \in Items(map) : Before(map, i, j) => i \in agenda}

\* An island or a bridge by its place on the map.
ByPlace(item) == <<item.kind, item.target>>

\* Ids of islands are places on this map; the points of an item are the same on every one.
Identity(item) == item.members

New(agenda) == {i \in agenda : Identity(i) \notin seen}

-----------------------------------------------------------------------------
Init ==
  /\ present = First
  /\ anchored \in SUBSET First
  /\ seen = {} /\ trace = <<>>
  /\ state = "exploring"

\* What exploring an item may do: nothing, establish or unsettle one of its claims, or find one.
Effect(item) ==
  \/ UNCHANGED <<present, anchored>>
  \/ \E p \in item.members : /\ anchored' = IF p \in anchored THEN anchored \ {p}
                                            ELSE anchored \cup {p}
                             /\ UNCHANGED present
  \/ \E p \in Point \ present : present' = present \cup {p} /\ UNCHANGED anchored

Explore ==
  /\ state = "exploring" /\ Len(trace) < MaxSteps
  /\ LET map == Islands(present) IN
     \E agenda \in Agendas(map) : \E item \in New(agenda) :
       /\ ~\E better \in New(agenda) : Before(map, better, item)
       /\ seen' = seen \cup {Identity(item)}
       /\ trace' = Append(trace, item.members)
       /\ Effect(item)
       /\ UNCHANGED state

\* Nothing on the agenda is new.
Rest ==
  /\ state = "exploring" /\ Len(trace) < MaxSteps
  /\ \E agenda \in Agendas(Islands(present)) : New(agenda) = {}
  /\ state' = "nothing new"
  /\ UNCHANGED <<present, anchored, seen, trace>>

GiveUp ==
  /\ state = "exploring" /\ Len(trace) = MaxSteps
  /\ state' = "out of steps"
  /\ UNCHANGED <<present, anchored, seen, trace>>

Next == Explore \/ Rest \/ GiveUp

Spec == Init /\ [][Next]_vars

-----------------------------------------------------------------------------
(* Properties.                                                             *)

\* The explorer rests only when every gap of the map as it is then has been explored, and none
\* twice, although each step may redraw the map and number the islands anew.  It takes an agenda
\* that holds all of the items.  (navigation.py:124-147)
GapsAreExplored ==
  /\ state = "nothing new" /\ Cardinality(Items(Islands(present))) <= Top
       => \A item \in Items(Islands(present)) : item.members \in Range(trace)
  /\ IsInjective(trace)
=============================================================================
