-------------------------------- MODULE Verifier --------------------------------
(***************************************************************************)
(* The verifier of the Doktores (src/src/joni/autonomy/verifier, called by *)
(* doktores.py).  An order that is about to be filed is scored by a model, *)
(* a few times over; the scores are averaged dimension by dimension, the   *)
(* red flags gathered, and rules decide what should be done.  In shadow    *)
(* mode that is only logged; when it is enforced, everything but "file"    *)
(* holds the order back, for good, for the source counts as reviewed.  If  *)
(* no repetition gave a score, the order is filed.                         *)
(*                                                                         *)
(* Scores are tenths.  An answer is what could be parsed of it; one that   *)
(* could not be parsed has no scores.                                      *)
(***************************************************************************)
EXTENDS Integers, Sequences, SequencesExt, FiniteSetsExt

CONSTANTS
  Answer,   \* what the model may say: scores of some dimensions, and flags in order
  Reps,     \* how often it is asked
  Calls,    \* how many calls the cost cap of a verification pays for
  Modes     \* the modes the verifier may be in

Merits == [module_fit |-> 5, evidence_grounding |-> 5, consistency |-> 3,
           reasoning_stability |-> 2, hard_constraint_compliance |-> 3, impact |-> 2]

\* alternatives and error_safety are asked for, and no rule reads them.
Dimension == DOMAIN Merits \cup {"alternatives", "error_safety", "info_needed", "overclaim_risk"}

VerifierAssumption ==
  /\ \A a \in Answer : /\ DOMAIN a.scores \subseteq Dimension
                       /\ \A d \in DOMAIN a.scores : a.scores[d] \in 0 .. 10
                       /\ \A f \in Range(a.flags) : f.severity \in {"low", "medium", "high"}
  /\ Reps \in 1 .. 3 /\ Calls \in Nat
  /\ Modes \subseteq {"shadow", "enforce", "off"}

VARIABLES
  mode,
  pc,       \* "proposed", "scoring" or "done"
  asked,    \* the calls made
  usable,   \* the answers that gave a score
  action,   \* what the rules decided, "" for nothing
  filed     \* the order was filed

vars == <<mode, pc, asked, usable, action, filed>>

-----------------------------------------------------------------------------
(* What is made of the answers.                                            *)

\* An answer counts if it scores any dimension.
Usable(answer) == DOMAIN answer.scores # {}

\* The answers that judge a dimension, and what one of the three gives it.
Given(d) == {i \in DOMAIN usable : d \in DOMAIN usable[i].scores}
Count(d) == Cardinality(Given(d))
Value(d, i) == IF i \in Given(d) THEN usable[i].scores[d] ELSE 0

Scored(d) == Given(d) # {}

Total(d) == Value(d, 1) + Value(d, 2) + Value(d, 3)
Squares(d) ==
  Value(d, 1) * Value(d, 1) + Value(d, 2) * Value(d, 2) + Value(d, 3) * Value(d, 3)

\* The mean in sixtieths, exact for up to three values; a dimension nobody scored is taken to be
\* what the rule that asks for it takes it to be.
Score(d, default) == IF Scored(d) THEN (6 * Total(d)) \div Count(d) ELSE default

Half == 30

\* Fault: the first of the repetitions does not count towards the spread.
SpreadButFirst(d) ==
  LET v == Value(d, Min(Given(d)))
  IN  (Count(d) - 1) * (Squares(d) - v * v) - (Total(d) - v) * (Total(d) - v)

\* The spread of a dimension, over n values, times n * n.
Spread(d) == Count(d) * Squares(d) - Total(d) * Total(d)

\* The mean of the merits by weight, less half of the risks, is below 0.65.
Borderline ==
  LET present == {d \in DOMAIN Merits : Scored(d)}
      weight == MapThenSumSet(LAMBDA d : Merits[d], present)
      merit == MapThenSumSet(LAMBDA d : Merits[d] * Score(d, Half), present)
      risk == Score("info_needed", 0) + Score("overclaim_risk", 0)
  IN  IF present = {} THEN TRUE ELSE 2 * merit - weight * risk < 78 * weight

\* Of the flags of a type the one that was named first.
Flags ==
  LET all == FlattenSeq([i \in DOMAIN usable |-> usable[i].flags])
  IN  {all[i] : i \in {j \in DOMAIN all : \A k \in 1 .. j - 1 : all[k].type # all[j].type}}

CoreTypes == {"touches_core", "core", "protected_core", "could_degrade", "security", "egress",
              "persistence"}

\* Safety first, then evidence and fit, then what is oversold, unstable or borderline.
Verdict ==
  LET evidence == Score("evidence_grounding", Half)
  IN  CASE \E f \in Flags : f.severity = "high" \/ f.type \in CoreTypes -> "human_review"
        [] Score("hard_constraint_compliance", Half) < 30 -> "human_review"
        [] evidence < 21 ->
             IF Score("info_needed", 0) >= 30 THEN "read_full_text" ELSE "abstain"
        [] Score("module_fit", Half) < 24 -> "abstain"
        [] Score("overclaim_risk", 0) >= 36 /\ evidence < 36 -> "abstain"
        [] Scored("reasoning_stability") /\ Spread("reasoning_stability")
              > 15 * Count("reasoning_stability") * Count("reasoning_stability") ->
             "run_additional_pass"
        [] Borderline -> "run_additional_pass"
        [] OTHER -> "file"

-----------------------------------------------------------------------------
Init ==
  /\ mode \in Modes /\ pc = "proposed"
  /\ asked = 0 /\ usable = <<>> /\ action = "" /\ filed = FALSE

\* The verifier is off.
FileUnverified ==
  /\ pc = "proposed" /\ mode = "off"
  /\ pc' = "done" /\ filed' = TRUE
  /\ UNCHANGED <<mode, asked, usable, action>>

\* What is about to be filed is always escalated.
Escalate ==
  /\ pc = "proposed" /\ mode # "off"
  /\ pc' = "scoring"
  /\ UNCHANGED <<mode, asked, usable, action, filed>>

AnotherCall == asked < Reps /\ asked < Calls

Ask(answer) ==
  /\ pc = "scoring" /\ AnotherCall
  /\ asked' = asked + 1
  /\ usable' = IF Usable(answer) THEN Append(usable, answer) ELSE usable
  /\ UNCHANGED <<mode, pc, action, filed>>

\* No call gave a score: the order is filed as if there were no verifier.
Unscored ==
  /\ pc = "scoring" /\ ~AnotherCall /\ usable = <<>>
  /\ pc' = "done" /\ filed' = TRUE
  /\ UNCHANGED <<mode, asked, usable, action>>

Decide ==
  /\ pc = "scoring" /\ ~AnotherCall /\ usable # <<>>
  /\ pc' = "done"
  /\ action' = Verdict
  /\ filed' = (mode # "enforce" \/ Verdict = "file")
  /\ UNCHANGED <<mode, asked, usable>>

Next == FileUnverified \/ Escalate \/ (\E a \in Answer : Ask(a)) \/ Unscored \/ Decide

Spec == Init /\ [][Next]_vars

-----------------------------------------------------------------------------
(* Properties.                                                             *)

\* The values that the calls gave for a dimension; only `usable` answers have any.
Judged(d) == {a.scores[d] : a \in {b \in Range(usable) : d \in DOMAIN b.scores}}

\* Where the verifier is enforced, agreement cannot be averaged away: an order is not filed if
\* every repetition that judged its evidence, its fit or its hard constraints found it short, or
\* if two repetitions were at the opposite ends on how stable it is.  (scorer.py:107-143,
\* safety.py:75-93)
UnanimousDoubtHolds ==
  filed /\ mode = "enforce" /\ asked > 0 =>
    /\ \A d \in {"evidence_grounding", "module_fit"} :
         Judged(d) # {} => \E v \in Judged(d) : v >= 4
    /\ LET d == "hard_constraint_compliance" IN Judged(d) # {} => \E v \in Judged(d) : v >= 5
    /\ ~({0, 10} \subseteq Judged("reasoning_stability"))
=============================================================================
