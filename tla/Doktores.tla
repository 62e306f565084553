------------------------------- MODULE Doktores -------------------------------
(***************************************************************************)
(* Doktores (doktores.py): the arm that reads sources for a method that    *)
(* could improve one of Joni's own modules and writes an order for it, and *)
(* that judges Joni's ideas for coherence; with the review of extensions   *)
(* (extension_review.py), which switches the arm off for good when it has  *)
(* brought nothing for a whole window.                                     *)
(*                                                                         *)
(* Modules are numbered in the order of the allowlist; what a model names  *)
(* outside of it is Core.  Ideas are numbered in the order of their ids.   *)
(* Sources do not run out: a firing has a batch of some that were never    *)
(* seen, of which only the number matters.                                 *)
(* One cycle is a firing of the review, an assessment, a look at the       *)
(* extensions.                                                             *)
(***************************************************************************)
EXTENDS Naturals, Sequences, FiniteSets

CONSTANTS
  Module,      \* the non-core modules an order may target
  Idea,        \* conjectures
  Every,       \* cadence of the review
  HypEvery,    \* cadence of the assessments
  MaxReview,   \* sources of a firing
  Cooldown,    \* cycles before a module may be ordered again
  Window,      \* of the review of extensions
  DoneMax      \* assessments remembered

DoktoresAssumption ==
  /\ Module = 1..Cardinality(Module) /\ Module # {}
  /\ Idea = 1..Cardinality(Idea)
  /\ {Every, HypEvery, MaxReview, Cooldown, Window, DoneMax} \subseteq Nat \ {0}
  /\ Cardinality(Idea) <= DoneMax

VARIABLES
  desk,      \* what the cycle does next
  turn,      \* the module whose literature is scouted next
  target,    \* the module that the self-diagnosis names, then that this firing is about; or Core
  age,       \* cycles since the last firing
  filed,     \* cycles since the last order for each module
  batch,     \* sources of this firing still to be reviewed
  new,       \* the orders of this cycle
  hypAge,    \* cycles since the last assessment
  done,      \* ideas assessed, the newest last
  arm,       \* the extension review of this arm: its window, the logs with news, disabled or not
  quiet      \* history: cycles since an entry in a log of the arm

reviewing == <<turn, target, age, filed, batch, new>>
assessing == <<hypAge, done>>
vars == <<desk, reviewing, assessing, arm, quiet>>

Core == 0
Key == Module \cup {Core}

TypeOK ==
  /\ desk \in {"review", "examine", "ideas", "extensions"}
  /\ turn \in Module /\ target \in Key
  /\ age \in 0..Every /\ hypAge \in 0..HypEvery
  /\ batch \in 0..MaxReview
  /\ new \subseteq Module /\ Cardinality(new) <= 1
  /\ filed \in [Module -> 0..Cooldown]
  /\ done \in UNION {[1..n -> Idea] : n \in 0..DoneMax}
  /\ arm \in [since : 0..Window, news : SUBSET {"reviews", "ideas"}, disabled : BOOLEAN]
  /\ quiet \in 0..Window

\* Nothing was fired, filed or assessed before; whatever there is, the first look opens a window.
Init ==
  /\ desk = "review" /\ turn = 1 /\ target = Core
  /\ age = Every /\ hypAge = HypEvery
  /\ batch = 0 /\ new = {} /\ done = <<>>
  /\ filed = [m \in Module |-> Cooldown]
  /\ arm = [since |-> Window, news |-> {"reviews"}, disabled |-> FALSE]
  /\ quiet = 0

Enabled == ~arm.disabled

\* An entry in doktores_review or doktores_hyp_log.
Log(log) == arm' = [arm EXCEPT !.news = @ \cup {log}] /\ quiet' = 0
LogNothing == UNCHANGED <<arm, quiet>>

-----------------------------------------------------------------------------
(***************************************************************************)
(* The review.                                                             *)
(***************************************************************************)

ReviewDue == Enabled /\ age = Every

NoReview ==
  /\ desk = "review" /\ ~ReviewDue
  /\ desk' = "ideas"
  /\ UNCHANGED <<reviewing, assessing, arm, quiet>>

NextTurn == IF turn + 1 \in Module THEN turn + 1 ELSE 1

\* Fault: the turn goes on when the firing has found something to review.
NextTurnIfFound(found) == IF found THEN NextTurn ELSE turn

TurnAfter(found) == NextTurn

\* The module is the one the self-diagnosis has named, if any, else the next in turn; what scouting
\* finds for it comes first, then what the cycle has fetched.  Without anything unseen there is no
\* firing.
Scout ==
  /\ desk = "review" /\ ReviewDue
  /\ batch' \in 0..MaxReview
  /\ age' = IF batch' = 0 THEN age ELSE 0
  /\ desk' = IF batch' = 0 THEN "ideas" ELSE "examine"
  /\ \/ target \in Module /\ UNCHANGED <<target, turn>>
     \/ target = Core /\ target' = turn /\ turn' = TurnAfter(batch' # 0)
  /\ UNCHANGED <<filed, new, assessing, arm, quiet>>

\* No room in the budget: the review stops.
Stop == batch' = 0 /\ desk' = "ideas"

\* The source counts as seen before the model is asked.
Unanswered ==
  /\ desk = "examine" /\ batch # 0
  /\ Stop
  /\ LogNothing
  /\ UNCHANGED <<turn, target, age, filed, new, assessing>>

Answered ==
  /\ desk = "examine" /\ batch # 0
  /\ batch' = batch - 1
  /\ Log("reviews")
  /\ UNCHANGED <<desk, turn, target, age, assessing>>

\* Nobody has ordered the module lately, and this cycle has no order yet.
Orderable(m) == m \in Module /\ filed[m] = Cooldown /\ new = {}

\* The answer is no JSON, says no, names no module of the allowlist or one that may not be
\* ordered now; or the full text refutes the abstract or names a part of the core; or the
\* verifier, when it is enforced, holds the order back.
Dismiss ==
  /\ Answered
  /\ UNCHANGED <<filed, new>>

\* The abstract is about m; the module ordered is the one that the full text names, if there is
\* a full text, and the cooldown of that module is not looked at.
OrderFrom(m, k) ==
  /\ Orderable(m)
  /\ Answered
  /\ k \in Module
  /\ filed' = [filed EXCEPT ![k] = 0]
  /\ new' = {k}

BatchOver ==
  /\ desk = "examine" /\ batch = 0
  /\ desk' = "ideas"
  /\ UNCHANGED <<reviewing, assessing, arm, quiet>>

-----------------------------------------------------------------------------
(***************************************************************************)
(* The ideas: the first one, in the order of ids, not assessed yet.        *)
(***************************************************************************)

Assessed == {done[i] : i \in DOMAIN done}

Remembered(ideas) ==
  IF Len(ideas) <= DoneMax THEN ideas ELSE SubSeq(ideas, Len(ideas) - DoneMax + 1, Len(ideas))

AssessDue == Enabled /\ hypAge = HypEvery /\ Idea \ Assessed # {}

\* Not due, or the model has not answered.
NoAssessment ==
  /\ desk = "ideas"
  /\ desk' = "extensions"
  /\ UNCHANGED <<reviewing, assessing, arm, quiet>>

Assess ==
  /\ desk = "ideas" /\ AssessDue
  /\ LET idea == CHOOSE i \in Idea \ Assessed : \A j \in Idea \ Assessed : i <= j
     IN  done' = Remembered(Append(done, idea))
  /\ hypAge' = 0
  /\ Log("ideas")
  /\ desk' = "extensions"
  /\ UNCHANGED reviewing

-----------------------------------------------------------------------------
(***************************************************************************)
(* The review of extensions, and the end of the cycle.                     *)
(***************************************************************************)

Older(n, max) == IF n < max THEN n + 1 ELSE n

Aged(f) == [m \in Module |-> Older(f[m], Cooldown)]

News == arm.news # {}

\* At the end of a window the arm is switched off if nothing new is in its logs; else a new
\* window opens.
Looked ==
  IF arm.disabled \/ arm.since < Window THEN arm
  ELSE IF News THEN [arm EXCEPT !.since = 0, !.news = {}]
  ELSE [arm EXCEPT !.disabled = TRUE]

\* After it the self-diagnosis names the module of the top weakness, or none.
Review ==
  /\ desk = "extensions"
  /\ arm' = [Looked EXCEPT !.since = Older(@, Window)]
  /\ quiet' = Older(quiet, Window)
  /\ age' = Older(age, Every) /\ hypAge' = Older(hypAge, HypEvery)
  /\ filed' = Aged(filed)
  /\ new' = {} /\ target' \in Key
  /\ desk' = "review"
  /\ UNCHANGED <<turn, batch, done>>

Next ==
  \/ NoReview \/ Scout \/ Unanswered \/ Dismiss \/ BatchOver
  \/ \E m, k \in Module : OrderFrom(m, k)
  \/ NoAssessment \/ Assess \/ Review

\* The cycle goes on.
Spec == Init /\ [][Next]_vars /\ WF_vars(Next)

-----------------------------------------------------------------------------
(***************************************************************************)
(* Properties.                                                             *)
(***************************************************************************)

\* If the self-diagnosis again and again has nothing to name when a firing is due, every module has
\* its turn again and again, until the arm is switched off: not even a module for which no
\* literature is found keeps the others waiting.  (While a weakness lasts it is named in every
\* cycle, and the others wait: doktores.py:443-450, introspect.py:78-88.)
EveryModuleHasItsTurn ==
  []<>(desk = "review" /\ ReviewDue /\ target = Core) =>
    \A m \in Module : []<>(turn = m \/ arm.disabled)
=============================================================================
