------------------------------ MODULE Commissions ------------------------------
(***************************************************************************)
(* Two desks at which Joni asks people for what he may not do himself      *)
(* (commission.py; improve.py with governance.py): orders for an extension *)
(* when a detector finds a gap in his abilities, and asks about the core   *)
(* when what he reads keeps touching it.  Both wait until a signal holds   *)
(* for some cycles, and then are silent for a while.                       *)
(*                                                                         *)
(* Kinds of gaps are numbered in the order of the detectors.               *)
(***************************************************************************)
EXTENDS Naturals, FiniteSets, FiniteSetsExt

CONSTANTS
  Kind,       \* kinds of gaps
  Sustain,    \* cycles a gap of each kind must last
  Cooldown,   \* cycles between two orders of a kind
  MaxNew,     \* orders a cycle
  Target,     \* parts of the core a source may touch
  AskSustain, AskCooldown

CommissionsAssumption ==
  /\ Kind = 1..Cardinality(Kind)
  /\ Sustain \in [Kind -> Nat \ {0}]
  /\ {Cooldown, AskCooldown, MaxNew, AskSustain} \subseteq Nat \ {0}
  /\ Cardinality(Kind) <= Cooldown

VARIABLES
  gaps,      \* the detectors that find something in this cycle
  signals,   \* for how many cycles each has, up to what is needed
  filed,     \* cycles since the last order of each kind
  new,       \* the orders of this cycle
  touched,   \* the parts of the core that what was read in this cycle touches
  streak,    \* core_ask_signals
  asked,     \* cycles since the last ask about each target
  asks,      \* the asks of this cycle
  applied,   \* improvements that Joni applied to himself in this cycle
  running    \* history: cycles in a row in which each target was touched, up to what is needed

commissions == <<gaps, signals, filed, new>>
coreAsks == <<touched, streak, asked, asks, applied, running>>
vars == <<commissions, coreAsks>>

PeripheralKinds == {"track_topic", "note_capability"}

TypeOK ==
  /\ gaps \subseteq Kind /\ new \subseteq gaps /\ Cardinality(new) <= MaxNew
  /\ \A k \in Kind : signals[k] \in 0..Sustain[k]
  /\ filed \in [Kind -> 0..Cooldown]
  /\ touched \subseteq Target /\ asks \subseteq touched
  /\ {streak, running} \subseteq [Target -> 0..AskSustain]
  /\ asked \in [Target -> 0..AskCooldown]
  /\ applied \subseteq PeripheralKinds

Init ==
  /\ gaps = {} /\ new = {} /\ signals = [k \in Kind |-> 0] /\ filed = [k \in Kind |-> Cooldown]
  /\ touched = {} /\ asks = {} /\ applied = {}
  /\ streak = [t \in Target |-> 0] /\ running = streak
  /\ asked = [t \in Target |-> AskCooldown]

Older(n, max) == IF n < max THEN n + 1 ELSE n

-----------------------------------------------------------------------------
(***************************************************************************)
(* commission.assess.                                                      *)
(***************************************************************************)

\* Fault: an order that was filed is filed again while its gap lasts.
CoolingNever(k) == FALSE

Cooling(k) == Older(filed[k], Cooldown) < Cooldown

\* A gap that is open now is closed, or not, by what people and cycles have done meanwhile.
Detect == gaps' \in SUBSET Kind

Assess ==
  /\ Detect
  /\ signals' = [k \in Kind |-> IF k \in gaps' THEN Older(signals[k], Sustain[k]) ELSE 0]
  /\ LET ready == {k \in gaps' : signals'[k] = Sustain[k] /\ ~Cooling(k)}
     IN  new' = {k \in ready : Cardinality({j \in ready : j < k}) < MaxNew}
  /\ filed' = [k \in Kind |-> IF k \in new' THEN 0 ELSE Older(filed[k], Cooldown)]

-----------------------------------------------------------------------------
(***************************************************************************)
(* improve.gate_core_asks and what run.one_cycle does with its verdict.    *)
(***************************************************************************)

\* Fault: a target that is not seen keeps its streak.
Kept(t) == streak[t]

\* A streak ends with the first cycle that does not touch its target.
Decayed(t) == 0

Allowed == {t \in touched' : /\ Older(streak[t], AskSustain) = AskSustain
                             /\ Older(asked[t], AskCooldown) = AskCooldown}

\* Improvements are derived from what was read: at most one for each part of the core.
Derive == touched' \in SUBSET Target

ApplyPeripheral == applied' \in SUBSET PeripheralKinds

\* Those of a peripheral kind are applied; one that touches the core becomes an ask if the gate
\* allows it, or is held.
Improve ==
  /\ Derive
  /\ ApplyPeripheral
  /\ asks' = Allowed
  /\ streak' = [t \in Target |-> IF t \in Allowed THEN 0
                                 ELSE IF t \in touched' THEN Older(streak[t], AskSustain)
                                 ELSE Decayed(t)]
  /\ asked' = [t \in Target |-> IF t \in Allowed THEN 0 ELSE Older(asked[t], AskCooldown)]
  /\ running' = [t \in Target |-> IF t \in touched' THEN Older(running[t], AskSustain) ELSE 0]

Next == \/ Assess /\ UNCHANGED coreAsks
        \/ Improve /\ UNCHANGED commissions

Fairness == WF_vars(Assess /\ UNCHANGED coreAsks) /\ WF_vars(Improve /\ UNCHANGED commissions)

Spec == Init /\ [][Next]_vars /\ Fairness

-----------------------------------------------------------------------------
(***************************************************************************)
(* Properties.                                                             *)
(***************************************************************************)

\* A gap that stays open is ordered again and again, however many others come before it in the
\* order of the detectors: since an order that was filed makes room for its cooldown, nobody is
\* starved, as long as the cooldown is no shorter than the list of detectors is long.
LastingGapsAreOrdered == \A k \in Kind : <>[](k \in gaps) => []<>(k \in new)
=============================================================================
