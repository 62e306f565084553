-------------------------------- MODULE MCDesks --------------------------------
(***************************************************************************)
(* Instances for TLC, side by side, of components about which there is     *)
(* something to show in the long run: the regulators, which this module    *)
(* extends, the desks, the shelf of methods, the metabolism and the drop   *)
(* box for decisions.                                                      *)
(* `part` says which of them a behaviour is about, the others stay in      *)
(* their initial states.                                                   *)
(***************************************************************************)
EXTENDS Regulators, TLC

VARIABLES part,
  desk, turn, target, age, orderAge, batch, order, hypAge, done, arm, quiet,
  gaps, signals, filed, new, touched, streak, asked, asks, applied, running,
  phase, listed, sealed, ledger, listSaved, ledgerSaved, crystals, advice, series,
  beat, state, ideas, untested, conflicts, before, backlog, stagnation, developed,
  main, job, base, work, memory, tries, pasted, issues, attempted, answered, undone, compactor

doktores == <<desk, turn, target, age, orderAge, batch, order, hypAge, done, arm, quiet>>
commissions == <<gaps, signals, filed, new, touched, streak, asked, asks, applied, running>>
methods == <<phase, listed, sealed, ledger, listSaved, ledgerSaved, crystals, advice, series>>
metabolism == <<beat, state, ideas, untested, conflicts, before, backlog, stagnation, developed>>
deployment == <<main, job, base, work, memory, tries, pasted, issues, attempted, answered, undone,
                compactor>>
others == <<doktores, commissions, methods, metabolism, deployment>>
all == <<part, vars, others>>

D == INSTANCE Doktores WITH
       Module <- {1, 2, 3}, Idea <- {1, 2}, Every <- 2, HypEvery <- 2, MaxReview <- 1,
       Cooldown <- 2, Window <- 3, DoneMax <- 2, filed <- orderAge, new <- order

C == INSTANCE Commissions WITH
       Kind <- {1, 2, 3}, Sustain <- [k \in {1, 2, 3} |-> IF k = 2 THEN 1 ELSE 2],
       Cooldown <- 3, MaxNew <- 1, Target <- {1}, AskSustain <- 2, AskCooldown <- 2

\* Two methods the simulator tries, one of them shelved under the title of a paper; neither
\* matches a benchmark.
S == INSTANCE MethodShelf WITH
       Method <- {1, 2}, Task <- <<>>, Titled <- {2}, Condition <- {"x", "y"},
       Case <- {1}, MinEffect <- 1,
       Synthetic <- TRUE, MaxTrials <- 1, Chances <- 2, Window <- 1, MaxAge <- 1,
       MaxRetire <- 1, MaxSwept <- 1, MaxSandbox <- 1, MaxRetrials <- 1, MaxRuns <- 3,
       Killed <- FALSE, pc <- phase, shelf <- listed, core <- listSaved, saved <- ledgerSaved,
       skills <- crystals

\* In the code the backlog has a cap of 30 and the methods have one of 40.
M == INSTANCE Metabolism WITH
       Draining <- TRUE, BacklogCap <- 5, MethodCap <- 3, GrowthCap <- 2, StagnationCap <- 3,
       Ideas <- 6, Methods <- 3, Conflicts <- 2, MaxMinted <- 2, MaxShed <- 1, pc <- beat

\* Two decisions, and what else is committed: code.
B == INSTANCE Deployment WITH
       Fact <- {}, Decision <- {1, 2}, Order <- {}, MaxCode <- 1, PushTries <- 2,
       Raising <- TRUE, Compacting <- TRUE, pc <- job

ASSUME
  /\ B!DeploymentAssumption
  /\ D!DoktoresAssumption /\ C!CommissionsAssumption
  /\ S!MethodShelfAssumption /\ M!MetabolismAssumption

Start ==
  /\ part \in {"doktores", "commissions", "regulators", "methods", "metabolism",
              "deployment"}
  /\ Init /\ D!Init /\ C!Init /\ S!Init /\ M!Init /\ B!Init
  /\ part = "metabolism" \/ untested = 0

RegulatorsStep == part = "regulators" /\ Next /\ UNCHANGED <<part, others>>

DoktoresStep ==
  part = "doktores" /\ D!Next /\ UNCHANGED <<part, vars, commissions, methods, metabolism, deployment>>

CommissionsStep ==
  part = "commissions" /\ C!Next /\ UNCHANGED <<part, vars, doktores, methods, metabolism, deployment>>

MethodsStep ==
  part = "methods" /\ S!Next /\ UNCHANGED <<part, vars, doktores, commissions, metabolism, deployment>>

MetabolismStep ==
  part = "metabolism" /\ M!Next /\ UNCHANGED <<part, vars, doktores, commissions, methods, deployment>>

DeploymentStep ==
  part = "deployment" /\ B!Next
  /\ UNCHANGED <<part, vars, doktores, commissions, methods, metabolism>>

Step ==
  \/ RegulatorsStep \/ DoktoresStep \/ CommissionsStep \/ MethodsStep \/ MetabolismStep
  \/ DeploymentStep

\* The fairness of each part, as its own module states it: since the part never changes, a
\* disjunction over the parts is fair in each of them; the deployment has none.
Going ==
  /\ WF_all(RegulatorsStep \/ DoktoresStep \/ (CommissionsStep /\ C!Assess)
            \/ (MethodsStep /\ S!Go) \/ MetabolismStep)
  /\ WF_all(CommissionsStep /\ C!Improve)
  /\ SF_all((RegulatorsStep /\ \E hungry \in BOOLEAN : Gate(hungry))
            \/ (MetabolismStep /\ M!Attend))

Behaviours == Start /\ [][Step]_all /\ Going

-----------------------------------------------------------------------------
\* See Doktores: every module that is not crowded out has its turn again and again.
EveryModuleHasItsTurn == part = "doktores" => D!EveryModuleHasItsTurn

\* See Commissions: a gap that stays open is ordered again and again.
LastingGapsAreOrdered == part = "commissions" => C!LastingGapsAreOrdered

\* See MethodShelf: a method that has had its chances without a gain goes in the end.
HopelessGo == S!HopelessGo

\* See Regulators and Metabolism: intake is never shut for good, neither by sleep, from which the
\* machine wakes again and again, nor by methods that wait for trials.
IntakeResumes ==
  /\ part = "regulators" => WakesAndSleeps
  /\ part = "metabolism" => M!IntakeResumes

=============================================================================
