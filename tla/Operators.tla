------------------------------- MODULE Operators -------------------------------
(***************************************************************************)
(* The deep methods as operators on open gaps (src/src/joni/solution_space:*)
(* operators.py, operator_cycle.py, discovery.py, trial_store.py).  A      *)
(* cycle ranks the methods for every gap, applies the best of all, sees    *)
(* whether the gap is closed and appends a trial to a ledger.  By default  *)
(* the ranking is the table as it was given, whatever was tried; a caller  *)
(* may inject one that is told what is in the ledger, and what was adopted *)
(* of the discoverer's findings: which kinds of method help with which     *)
(* kinds of gap, also on the gaps kept out of its search.                  *)
(*                                                                         *)
(* Priorities are severity times relevance times what is left to try, in   *)
(* tenths, tenths and hundredths.                                          *)
(***************************************************************************)
EXTENDS Integers, FiniteSetsExt

CONSTANTS
  Method,      \* the deep methods
  KindOf,      \* [method -> its kind]
  Gap,         \* conflicts there may be
  GapKind,     \* [gap -> its kind]
  Severity,    \* [gap -> 10 or 6]
  Relevance,   \* [gap kind -> [kinds of method -> tenths]]: the taxonomy, or the base for a
               \* kind of gap it does not list
  Held,        \* the gaps kept out of the search for affinities
  Fit,         \* the pairs of a method and a gap where it does help
  MinSupport,  \* trials an affinity needs on each side
  MaxTrials    \* bound on the trials in the ledger

OperatorsAssumption ==
  /\ IsFiniteSet(Method) /\ IsFiniteSet(Gap)
  /\ KindOf \in [Method -> STRING] /\ GapKind \in [Gap -> STRING]
  /\ Severity \in [Gap -> {6, 10}]
  /\ \A g \in Gap : \A k \in DOMAIN Relevance[GapKind[g]] : Relevance[GapKind[g]][k] \in 5 .. 10
  /\ Held \subseteq Gap /\ Fit \subseteq Method \X Gap
  /\ {MinSupport, MaxTrials} \subseteq Nat \ {0}

VARIABLES
  open,      \* the gaps that are open
  closed,    \* those that are closed
  ledger,    \* [method, gap, result -> how many trials of it there are]
  adopted    \* pairs of a kind of method and a kind of gap, with their weight in tenths

vars == <<open, closed, ledger, adopted>>

Result == {"success", "no_benefit", "technical_failure"}

-----------------------------------------------------------------------------
(* The ranking.                                                            *)

Trials(m, g, r) == ledger[<<m, g, r>>]

MethodKinds == {KindOf[m] : m \in Method}

\* What the taxonomy says, raised by what was discovered.
RelevanceOf(k, gk) ==
  Max({0} \cup {Relevance[gk][k] : x \in {k} \cap DOMAIN Relevance[gk]}
          \cup {e.weight : e \in {f \in adopted : f.kind = k /\ f.gap = gk}})

\* What did not help is ranked with what merely failed.
LeftAlike(m, g) == IF Trials(m, g, "success") > 0 THEN 0
                   ELSE IF Trials(m, g, "no_benefit") + Trials(m, g, "technical_failure") > 0
                   THEN 90 ELSE 100

\* How much of a gap there is left for a method: nothing where it has helped, little where it has
\* not, nearly all where the attempt only failed.
Left(m, g) ==
  CASE Trials(m, g, "success") > 0 -> 0
    [] Trials(m, g, "success") = 0 /\ Trials(m, g, "no_benefit") > 0 -> 15
    [] Trials(m, g, "success") = 0 /\ Trials(m, g, "no_benefit") = 0
       /\ Trials(m, g, "technical_failure") > 0 -> 90
    [] OTHER -> 100

\* It has helped elsewhere and was not tried here.
IsBridge(m, g) ==
  /\ \A r \in Result : Trials(m, g, r) = 0
  /\ \E h \in Gap \ {g} : Trials(m, h, "success") > 0

Priority(m, g) == Severity[g] * RelevanceOf(KindOf[m], GapKind[g]) * Left(m, g)

Proposals == {p \in Method \X open : Priority(p[1], p[2]) > 0}

\* The first of the proposals of a ranking that knows the ledger; among equals a bridge, and then the first by name, which is any.
Best ==
  {p \in Proposals : \A q \in Proposals :
     \/ Priority(q[1], q[2]) < Priority(p[1], p[2])
     \/ /\ Priority(q[1], q[2]) = Priority(p[1], p[2])
        /\ IsBridge(q[1], q[2]) => IsBridge(p[1], p[2])}

\* What the table says alone.
Given(m, g) == Severity[g] * Max({0} \cup {Relevance[GapKind[g]][k] :
                                             k \in {KindOf[m]} \cap DOMAIN Relevance[GapKind[g]]})

\* The first of the proposals by default.
First ==
  {p \in Method \X open : Given(p[1], p[2]) > 0
     /\ \A q \in Method \X open : Given(q[1], q[2]) <= Given(p[1], p[2])}

-----------------------------------------------------------------------------
(* The discoverer.                                                         *)

\* The trials in the ledger that are of these, each with a number of its own.
Numbered(trials) == {e \in trials \X (1 .. MaxTrials) : e[2] <= ledger[e[1]]}

\* Trials of a kind of method on a kind of gap, among the gaps given, that say something.
Count(k, gk, gaps, rs) ==
  Cardinality(Numbered({t \in Method \X gaps \X rs : KindOf[t[1]] = k /\ GapKind[t[2]] = gk}))

Holds(k, gk, gaps) ==
  LET all == Count(k, gk, gaps, {"success", "no_benefit"})
  IN  all >= MinSupport /\ 10 * Count(k, gk, gaps, {"success"}) >= 6 * all

\* The affinities that hold on the gaps searched and on those kept out.
Confirmed ==
  {e \in MethodKinds \X {GapKind[g] : g \in Gap} :
     Holds(e[1], e[2], Gap \ Held) /\ Holds(e[1], e[2], Held)}

\* An edge weighs what it was worth on the gaps kept out.
Weighted(e) ==
  [kind |-> e[1], gap |-> e[2],
   weight |-> (10 * Count(e[1], e[2], Held, {"success"}))
              \div Count(e[1], e[2], Held, {"success", "no_benefit"})]

-----------------------------------------------------------------------------
Init ==
  /\ open \in SUBSET Gap /\ closed = {}
  /\ ledger = [t \in Method \X Gap \X Result |-> 0]
  /\ adopted = {}

Recorded == Cardinality(Numbered(DOMAIN ledger))

\* One cycle: the proposal is applied to its gap, which is then closed or is not.
Cycle(p) ==
  /\ Recorded < MaxTrials
  /\ \E r \in Result :
       LET gone == {p[2] : x \in {r} \cap {"success"}} IN
       /\ r = "success" => p \in Fit
       /\ ledger' = [ledger EXCEPT ![<<p[1], p[2], r>>] = @ + 1]
       /\ open' = open \ gone
       /\ closed' = closed \cup gone
       /\ UNCHANGED adopted

\* The measurement: every gap of a battery is tried with the method it declares, whatever the
\* taxonomy says of it.
Measure(m, g) ==
  /\ Recorded < MaxTrials
  /\ g \notin open /\ g \notin closed
  /\ LET r == IF <<m, g>> \in Fit THEN "success" ELSE "no_benefit"
     IN  ledger' = [ledger EXCEPT ![<<m, g, r>>] = @ + 1]
  /\ closed' = closed \cup {g}
  /\ UNCHANGED <<open, adopted>>

\* A conflict is found.
Find(g) ==
  /\ g \notin open \cup closed
  /\ open' = open \cup {g}
  /\ UNCHANGED <<closed, ledger, adopted>>

\* The operator takes over what the discoverer confirmed.
Adopt ==
  /\ adopted' = {Weighted(e) : e \in Confirmed}
  /\ adopted' # adopted
  /\ UNCHANGED <<open, closed, ledger>>

Next ==
  \/ \E p \in First : Cycle(p)
  \/ \E p \in Best : Cycle(p)
  \/ \E m \in Method, g \in Gap : Measure(m, g)
  \/ \E g \in Gap : Find(g)
  \/ Adopt

Spec == Init /\ [][Next]_vars

-----------------------------------------------------------------------------
(* Properties.                                                             *)

Tried(m, g) == Trials(m, g, "success") + Trials(m, g, "no_benefit") > 0

\* What did not help is not tried again on the same gap as long as there is anything untried that
\* is relevant to any gap that is open, no weight of a gap or of an affinity, adopted or given,
\* making up for it, unless the table has it first: a cycle that ranks by default asks that again
\* and again.  (operators.py:110-131, 169-184, operator_cycle.py:39-48)
FailuresWait ==
  [][\A m \in Method, g \in open :
       /\ Tried(m, g) /\ <<m, g>> \notin First
       /\ \E r \in Result : ledger'[<<m, g, r>>] > Trials(m, g, r)
       => \A n \in Method, h \in open :
           RelevanceOf(KindOf[n], GapKind[h]) > 0 => Tried(n, h)]_vars
=============================================================================
