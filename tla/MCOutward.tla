------------------------------- MODULE MCOutward -------------------------------
(***************************************************************************)
(* Instances for TLC, side by side, of the gate with a claim, its evidence *)
(* and its conflict, which this module extends; of the arms that spend; of *)
(* the forum that is posted to; and of the verifier that an order passes   *)
(* on its way out.  `part` says which of them a behaviour is about, the    *)
(* others stay in their initial states.                                    *)
(***************************************************************************)
EXTENDS Layer9, Sequences, TLC

CONSTANTS c1, x1, e1, l1

VARIABLES part,
  arm, points, budget, ext, circle, units, disk, origin, bill,
  main, pc, base, work, memory, relay, sent, pasted,
  mode, hearing, asked, usable, action, filed

-----------------------------------------------------------------------------
(* The gate. *)

NoIds == [k \in Kind |-> {}]

\* One claim, one conflict that may name it, one piece of evidence with its link.
ClaimIds == [NoIds EXCEPT !["claim"] = {c1}, !["conflict"] = {x1},
                          !["evidence"] = {e1}, !["evidence_link"] = {l1}]
ClaimTargets == {c1}
ClaimRevisions == {"active", "confirmed", "quarantined", "superseded"}
ClaimRequesters == {"local_model", "human", "unknown"}

\* The conflict is always a human's: no handler and no property asks who opened it.
HumanConflict == x1 \in Born => obj[x1].origin = "human"

-----------------------------------------------------------------------------
arms == <<arm, points, budget, ext, circle, units, disk, origin, bill>>
forum == <<main, pc, base, work, memory, relay, sent, pasted>>
verifier == <<mode, hearing, asked, usable, action, filed>>

A == INSTANCE Arms WITH
       Conflict <- {1}, Idea <- {11}, Cap <- 3, CallCost <- 1, CouncilCost <- 2, PanelCost <- 2,
       RunsPerWeek <- 2, Units <- 1, Seats <- 2, Followups <- 1, CouncilEvery <- 2,
       PanelEvery <- 2, Window <- 1, AskedMax <- 1, MaxDropped <- 1, MaxUnbilled <- 1, pc <- arm, main <- origin

F == INSTANCE Forum WITH
       Pasted <- {"p"}, Reaction <- {"r"}, Draft <- {"d"}, LoopLive <- TRUE, RelayLive <- TRUE,
       Enforce <- TRUE, Raising <- TRUE, Ambiguous <- TRUE,
       Many <- 1

-----------------------------------------------------------------------------
(* What the model may say of an order: everything at its best but one      *)
(* thing, everything middling, one dimension only, a flag of each kind.    *)

Rated == {"module_fit", "evidence_grounding", "consistency", "reasoning_stability",
          "hard_constraint_compliance", "impact", "alternatives", "error_safety"}
All(score) == [d \in Rated |-> score]
Plain(scores) == [scores |-> scores, flags |-> <<>>]
Flagged(type, severity) == [scores |-> All(10), flags |-> <<[type |-> type, severity |-> severity]>>]

Answers ==
  {Plain(<<>>), Plain(All(10)), Plain([All(10) EXCEPT !["evidence_grounding"] = 2]),
   Plain([All(10) EXCEPT !["module_fit"] = 2]),
   Plain([All(10) EXCEPT !["reasoning_stability"] = 0]),
   Plain([All(10) EXCEPT !["hard_constraint_compliance"] = 2]),
   Plain([d \in {"consistency"} |-> 10]), Plain([d \in {"evidence_grounding"} |-> 2]),
   Plain(All(6) @@ [d \in {"overclaim_risk", "info_needed"} |-> 6]),
   Plain([All(8) EXCEPT !["evidence_grounding"] = 5] @@ [d \in {"overclaim_risk"} |-> 6]),
   Flagged("unfalsifiable", "low"), Flagged("unfalsifiable", "high"), Flagged("security", "low")}

V == INSTANCE Verifier WITH
       Answer <- Answers, Reps <- 3, Calls <- 3, Modes <- {"shadow", "enforce", "off"},
       pc <- hearing

ASSUME A!ArmsAssumption /\ F!ForumAssumption /\ V!VerifierAssumption

-----------------------------------------------------------------------------
Start ==
  /\ part \in {"gate", "arms", "forum", "verifier"}
  /\ Init /\ A!Init /\ F!Init /\ V!Init
  /\ part = "verifier" \/ mode = "off"

GateStep == part = "gate" /\ Next /\ HumanConflict' /\ UNCHANGED <<part, arms, forum, verifier>>
ArmsStep == part = "arms" /\ A!Next /\ UNCHANGED <<part, vars, forum, verifier>>
ForumStep == part = "forum" /\ F!Next /\ UNCHANGED <<part, vars, arms, verifier>>
VerifierStep == part = "verifier" /\ V!Next /\ UNCHANGED <<part, vars, arms, forum>>

Step == GateStep \/ ArmsStep \/ ForumStep \/ VerifierStep

Behaviours == Start /\ [][Step]_<<part, vars, arms, forum, verifier>>

-----------------------------------------------------------------------------
\* See Arms: what a week may cost, over the cap and over what the purse says.
OverrunBounded == A!OverrunBounded

\* See Arms: a charge is written at once, so that none is lost.
ChargesAreKept == A!ChargesAreKept

\* See Forum: a reply that has come in is not lost.
RepliesAreKept == F!RepliesAreKept

\* See Verifier: agreement in doubt cannot be averaged away.
UnanimousDoubtHolds == V!UnanimousDoubtHolds
=============================================================================
