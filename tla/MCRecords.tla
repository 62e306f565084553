------------------------------- MODULE MCRecords -------------------------------
(***************************************************************************)
(* Instances for TLC, side by side, of components whose properties need no *)
(* fairness: the commits of the deployment, which this module extends, and *)
(* what is kept of trials, methods, disputes, gaps and corrected errors;   *)
(* of trials twice, in the gate's events and in the trial journal.         *)
(* `part` says which of them a behaviour is about, the others stay in      *)
(* their initial states.                                                   *)
(***************************************************************************)
EXTENDS Deployment, Integers, TLC

VARIABLES part,
  journal, newest, python,
  phase, shelf, sealed, ledger, core, saved, skills, advice, series,
  cycle, live, raised, dead, hints, resolved, gain, decided, disputes, store,
  present, anchored, seen, trace, state,
  open, closed, trialled, adopted,
  stage, held, settled, todo, lines, page, outputs, calls, spent, runs,
  object, disputed, linked, tried, noted, entered, drifted

trials == <<journal, newest, python>>
methods == <<phase, shelf, sealed, ledger, core, saved, skills, advice, series>>
hindsight == <<cycle, live, raised, dead, hints, resolved, gain, decided, disputes, store>>
map == <<present, anchored, seen, trace, state>>
operators == <<open, closed, trialled, adopted>>
persona == <<stage, held, settled, todo, lines, page, outputs, calls, spent, runs>>
gate == <<object, disputed, linked, tried, noted, entered, drifted>>
others == <<trials, methods, hindsight, map, operators, persona, gate>>

\* One conflict and one open question.  Proposers report what the rule they cite computes, what
\* the other rule would, or a null result where the measurement is a success.  Of three
\* documents of old releases one is of the journal that was attested, and accepted in full.
Trials == {[place |-> "p", variant |-> "a", sample |-> 1],
           [place |-> "p", variant |-> "a", sample |-> 2],
           [place |-> "p", variant |-> "b", sample |-> 2],
           [place |-> "q", variant |-> "b", sample |-> 1]}

Claims == {<<"above", "success">>, <<"above", "no_benefit">>, <<"below", "harmful">>,
           <<"null", "no_benefit">>, <<"null", "inconclusive">>}

Reports ==
  {[id |-> id, reading |-> c[1], run |-> "clean", maker |-> m, confounded |-> x,
    rule |-> r, result |-> c[2]] :
     id \in Trials, c \in Claims, m \in {"s", "t", "unknown"}, x \in BOOLEAN, r \in {1, 2}}

Submitted ==
  {b \in Reports : /\ b.confounded => b.reading = "null" /\ b.maker # "unknown"
                   /\ b.result = "inconclusive" => b.rule = 1
                   /\ b.rule = 1 => b.reading = "null"
                   /\ b.maker = "unknown" => b.reading = "null" /\ b.id.variant = "b"
                   /\ b.id.place = "q" => b.maker = "t" /\ ~b.confounded}

Old(id, rule) == [id |-> id, reading |-> "null", run |-> "clean", maker |-> "s",
                  confounded |-> FALSE, rule |-> rule, result |-> "no_benefit"]

Documents ==
  LET known == {Old(id, 2) : id \in {t \in Trials : t.variant = "b"}}
      all == {Old(id, 1) : id \in {t \in Trials : t.variant = "a"}} \cup known
  IN  {[entries |-> all, attestation |-> [journal |-> all, accepted |-> known]],
       [entries |-> known, attestation |-> [journal |-> all, accepted |-> all]],
       [entries |-> known, attestation |-> [journal |-> known, accepted |-> all]]}

T == INSTANCE TrialEvidence WITH
       Place <- {"p", "q"}, Open <- {"p"}, Variant <- {"a", "b"}, Trial <- Trials,
       Source <- {"s", "t"}, Reports <- Submitted, Documents <- Documents,
       Trusted <- {doc.attestation : doc \in Documents},
       Reading <- {"above", "below", "null", "torn"}, MaxRecorded <- 3, MaxPython <- 2

\* A method that matches a benchmark.
S == INSTANCE MethodShelf WITH
       Method <- {1}, Task <- 1 :> 11, Titled <- {}, Condition <- {"x", "y"},
       Case <- {1}, MinEffect <- 1,
       Synthetic <- TRUE, MaxTrials <- 1, Chances <- 2, Window <- 1, MaxAge <- 1,
       MaxRetire <- 1, MaxSwept <- 1, MaxSandbox <- 1, MaxRetrials <- 1, MaxRuns <- 3,
       Killed <- TRUE, pc <- phase

\* A chain of four claims, which share words at its ends; more hints than the layer takes.
Chain == {{1, 2}, {2, 3}, {3, 4}}

H == INSTANCE Hindsight WITH
       Claim <- 1 .. 4, Topic <- [c \in 1 .. 4 |-> 1], Conflict <- Chain,
       Strong <- {{1, 2}, {3, 4}}, Hints <- {0, 2}, Taggable <- {"dispute"}, MaxClaims <- 3,
       MaxDisputes <- 2, MaxStaged <- 1, MaxIngest <- 2, MaxReview <- 1, Window <- 1,
       Ttl <- 1, Archive <- 2, MaxCycle <- 4

\* Five points of two topics, three of which are there from the start; the agenda holds all that
\* they give, or all but a little.
Places == <<0, 10, 5, 8, 0>>

M == INSTANCE SolutionSpace WITH
       Point <- 1 .. 5, Axis <- Places, Topic <- <<1, 1, 1, 2, 2>>, First <- {1, 2, 5},
       Top <- 4, MaxSteps <- 6

\* Three methods of three kinds and two kinds of gap, of which two weigh less than the others.
Kinds == "m" :> "proof" @@ "n" :> "reduction" @@ "o" :> "search"
Gaps == <<"contradiction", "contradiction", "contradiction", "numeric">>
Relevances == "contradiction" :> ("proof" :> 10 @@ "reduction" :> 6)
              @@ "numeric" :> ("reduction" :> 5 @@ "proof" :> 7)

O == INSTANCE Operators WITH
       Method <- {"m", "n", "o"}, KindOf <- Kinds, Gap <- 1 .. 4, GapKind <- Gaps,
       Severity <- <<10, 6, 10, 6>>, Relevance <- Relevances, Held <- {3},
       Fit <- {<<"n", 1>>, <<"n", 3>>, <<"m", 4>>, <<"o", 2>>, <<"o", 3>>},
       MinSupport <- 1, MaxTrials <- 5, ledger <- trialled

\* Two claims, on a theme or on a sink, and money for one call.
P == INSTANCE Persona WITH
       Cap <- 1, Cost <- 1, RunsPerWeek <- 1, MaxCalls <- 2,
       Claim <- {1, 2}, Theme <- {1, 2}, Sink <- {2}, Threshold <- 2, MaxAnchors <- 1,
       Reason <- {"long"}, pc <- stage, core <- held, disk <- settled

\* A method and two writers of trial events about it, and of one trial.
MethodIds == [k \in {"claim", "evidence", "evidence_link", "conflict", "method", "goal",
                     "method_trial_event", "project", "preference", "memory_episode",
                     "self_model_claim", "operational_state", "narrative_summary",
                     "semantic_cluster"} |->
                CASE k = "method" -> {"m1"} [] k = "method_trial_event" -> {"t1", "t2"}
                  [] OTHER -> {}]

G == INSTANCE Layer9 WITH
       IdOf <- MethodIds, Requesters <- {"local_model", "deterministic_operator"},
       Addressed <- {"m1"}, Revisions <- {"active", "superseded"}, MaxTrials <- 3,
       TrialIds <- {"T1"}, TrialReports <- {"won", "lost"},
       obj <- object, conflict <- disputed, link <- linked, trial <- tried, record <- noted,
       ledgered <- entered, stale <- drifted

ASSUME
  /\ G!IdsAssumption /\ G!CallersAssumption /\ G!TrialsAssumption
  /\ T!TrialEvidenceAssumption /\ S!MethodShelfAssumption
  /\ H!HindsightAssumption /\ M!SolutionSpaceAssumption /\ O!OperatorsAssumption
  /\ P!PersonaAssumption

Start ==
  /\ part \in {"deployment", "trials", "methods", "hindsight", "map", "operators", "persona",
              "gate"}
  /\ Init /\ T!Init /\ S!Init /\ H!Init /\ M!Init /\ O!Init /\ P!Init /\ G!Init
  /\ part = "hindsight" \/ hints = 0
  /\ part = "map" \/ anchored = {}
  /\ part = "operators" \/ open = {}

DeploymentStep == part = "deployment" /\ Next /\ UNCHANGED <<part, others>>

TrialsStep ==
  part = "trials" /\ T!Next
  /\ UNCHANGED <<part, vars, methods, hindsight, map, operators, persona, gate>>

MethodsStep ==
  part = "methods" /\ S!Next
  /\ UNCHANGED <<part, vars, trials, hindsight, map, operators, persona, gate>>

HindsightStep ==
  part = "hindsight" /\ H!Next
  /\ UNCHANGED <<part, vars, trials, methods, map, operators, persona, gate>>

MapStep ==
  part = "map" /\ M!Next
  /\ UNCHANGED <<part, vars, trials, methods, hindsight, operators, persona, gate>>

OperatorsStep ==
  part = "operators" /\ O!Next
  /\ UNCHANGED <<part, vars, trials, methods, hindsight, map, persona, gate>>

PersonaStep ==
  part = "persona" /\ P!Next
  /\ UNCHANGED <<part, vars, trials, methods, hindsight, map, operators, gate>>

GateStep ==
  part = "gate" /\ G!Next
  /\ UNCHANGED <<part, vars, trials, methods, hindsight, map, operators, persona>>

Step ==
  \/ DeploymentStep \/ TrialsStep \/ MethodsStep \/ HindsightStep
  \/ MapStep \/ OperatorsStep \/ PersonaStep \/ GateStep

Behaviours == Start /\ [][Step]_<<part, vars, others>>

-----------------------------------------------------------------------------
\* See TrialEvidence: an event is found to be what it was found to be before.
VerdictsAreRepeatable == T!VerdictsAreRepeatable

\* See MethodShelf: a method that has won within the window is not retired.
WinsProtect == S!WinsProtect

\* See Hindsight: hints do not crowd out the disputes.
EventsFindDisputes == H!EventsFindDisputes

\* See SolutionSpace: every gap is explored, none twice.
GapsAreExplored == part = "map" => M!GapsAreExplored

\* See Operators: what did not help waits for what has not been tried.
FailuresWait == O!FailuresWait

\* See Layer9: the gate registers what a trial reports once.
TrialRecordedOnce == G!TrialRecordedOnce

\* See Persona: a maxim stands beside the errors it was made from.
MaximsFit == P!MaximsFit
=============================================================================
