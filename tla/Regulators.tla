------------------------------ MODULE Regulators ------------------------------
(***************************************************************************)
(* What decides whether a cycle may take new methods in (src/joni/autonomy *)
(* run.py with sleep.py and digestion.py, src/joni/method_trial).          *)
(*                                                                         *)
(* Sleep looks at how long digestion has stalled, digestion at whether the *)
(* cycle tried a method or reviewed an entry, trials at what intake let    *)
(* in, reviews at what the trials and the operator brought about: a ring   *)
(* in which each reads what another has left on the disk.  The sleep       *)
(* state, the digestion marker, the entries and the skills are written     *)
(* at once, the core and the extensions at the end of the cycle, and the   *)
(* process may be killed in between, or in the middle of such a write.     *)
(*                                                                         *)
(* Cycle numbers only matter as differences: every variable that holds one *)
(* is modelled by its age, which grows when a cycle begins.                *)
(***************************************************************************)
EXTENDS Naturals, FiniteSets

CONSTANTS
  Method,      \* the methods for which there is a benchmark
  Gated,       \* JONI_SLEEP=1: sleep suppresses intake
  Coupled,     \* JONI_INTAKE_COUPLING=1: intake waits for digestion
  Trying,      \* what JONI_SANDBOX_LLM_TRIALS may be when a process starts
  Stall,       \* cycles without digestion that are pressure
  MinAwake, MaxAwake, MinSleep, MaxSleep, DeepAfter,  \* the sleep machine's limits
  Grace,       \* cycles for which digestion permits intake
  MaxTrials,   \* trials in one cycle, MAX_PER_CYCLE
  MaxRetrials, \* MAX_RETRIALS_PER_CYCLE
  Window       \* CAPTURE_WINDOW

ASSUME RegulatorsAssumption ==
  /\ {Stall, MinAwake, MaxAwake, MinSleep, MaxSleep, DeepAfter, Grace, Window} \subseteq Nat
  /\ {Gated, Coupled} \subseteq BOOLEAN
  /\ Trying \subseteq BOOLEAN /\ Trying # {}
  /\ {MaxTrials, MaxRetrials} \subseteq Nat \ {0}
  /\ MinSleep <= MaxSleep /\ MinAwake <= MaxAwake

VARIABLES
  pc,          \* the step of the cycle that is next
  trying,      \* the switch of this process
  sleep,       \* disk: state of the sleep machine, cycles in it, cycles since it fell asleep
  stalled,     \* disk: cycles since the last digestion noted
  tags,        \* disk: ages of the tagged entries that wait for a review
  skills,      \* disk: methods crystallised into a skill
  shelf, core, \* trials of each method: in memory, as last saved
  ext, saved,  \* what the arms report to each other: in memory, as last saved
  intake,      \* this cycle may take methods in
  fasting,     \* history: cycles in a row in which sleep has suppressed intake
  idle         \* history: cycles since something was really tried or reviewed

disk == <<sleep, stalled, tags, skills, core, saved>>
history == <<fasting, idle>>
vars == <<pc, trying, disk, shelf, ext, intake, history>>

Trials == {"unknown", "untested", "tried", "judged"}

\* Ages stop counting where no limit tells them apart any more.
OldSleep == MaxAwake + MaxSleep + DeepAfter
OldDigestion == Stall + Grace + 1

\* No digestion on record: an age that counting does not reach.
Never == OldDigestion + 1

Older(age, limit) == IF age < limit THEN age + 1 ELSE age

Asleep == {"SLEEP_LIGHT", "SLEEP_DEEP"}

NoReport == [tested |-> FALSE, benefit |-> FALSE, retried |-> FALSE,
             resolved |-> FALSE, reviewed |-> FALSE]

\* The sleep state is not on the disk, or cannot be read.
NoFile == [state |-> "NONE", since |-> 0, slept |-> 0]

Init ==
  /\ pc = "down" /\ trying \in Trying
  /\ sleep = NoFile
  /\ stalled = Never /\ tags = {} /\ skills = {}
  /\ shelf = [m \in Method |-> "unknown"] /\ core = shelf
  /\ ext = NoReport /\ saved = ext
  /\ intake = FALSE
  /\ fasting = 0 /\ idle = Never

Then(from, to) == pc = from /\ pc' = to

\* The tagged entries that the next cycle still finds in the capture window.
Waiting == {t + 1 : t \in tags \ {Window}}

Begin ==
  /\ Then("down", "gate")
  /\ trying' \in Trying
  /\ sleep' = CASE sleep.state = "NONE" -> NoFile
               [] sleep.state = "AWAKE" -> [sleep EXCEPT !.since = Older(@, OldSleep), !.slept = 0]
               [] OTHER -> [sleep EXCEPT !.since = Older(@, OldSleep), !.slept = Older(@, MaxSleep)]
  /\ stalled' = Older(stalled, OldDigestion)
  /\ tags' = Waiting
  /\ idle' = Older(idle, OldDigestion)
  /\ UNCHANGED <<skills, core, saved, shelf, ext, intake, fasting>>

(***************************************************************************)
(* The gate: one step of the sleep machine, then the verdict on intake.    *)
(***************************************************************************)
Pressure == stalled # Never /\ stalled >= Stall

\* Fault: the cap is measured from the last deepening.
CappedSinceDeep == sleep.since >= MaxSleep

Capped == sleep.slept >= MaxSleep

Tired == sleep.since >= MaxAwake

FallsAsleep == sleep.since >= MinAwake /\ (Pressure \/ Tired)

Wakes == Capped \/ (~Pressure /\ sleep.slept >= MinSleep)

\* Without a file he is awake, since this cycle.
State == IF sleep = NoFile THEN "AWAKE" ELSE sleep.state

Deepens == sleep.state = "SLEEP_LIGHT" /\ Pressure /\ sleep.since >= DeepAfter

Decide ==
  CASE State = "AWAKE" -> IF FallsAsleep THEN "SLEEP_LIGHT" ELSE "AWAKE"
    [] sleep.state \in Asleep /\ Wakes -> "WAKE_TRANSITION"
    [] sleep.state \in Asleep /\ ~Wakes -> IF Deepens THEN "SLEEP_DEEP" ELSE sleep.state
    [] OTHER -> "AWAKE"

Suppressed(state) == Gated /\ state # "AWAKE"

IntakePermitted == stalled = Never \/ stalled <= Grace

\* The state and its age are written only when it changes.
Stepped(next) ==
  IF next = sleep.state THEN sleep ELSE [sleep EXCEPT !.state = next, !.since = 0]

\* hungry: neither the metabolism nor the operator's switch withholds intake.
Gate(hungry) ==
  /\ Then("gate", "harvest")
  /\ LET next == Decide
     IN  /\ sleep' = Stepped(next)
         /\ intake' = (/\ hungry /\ ~Suppressed(next)
                       /\ Coupled => IntakePermitted)
         /\ fasting' = IF Suppressed(next) THEN Older(fasting, MaxSleep + 2) ELSE 0
  /\ UNCHANGED <<trying, stalled, tags, skills, shelf, core, ext, saved, idle>>

(***************************************************************************)
(* The arms of the cycle.                                                  *)
(***************************************************************************)
\* New methods reach the shelf, before the trials by harvest and after them by emergence.
Admit(ms) ==
  /\ ms \subseteq {m \in Method : shelf[m] = "unknown"}
  /\ ms # {} => intake
  /\ \/ Then("harvest", "trials")
     \/ Then("emerge", "decisions")
  /\ shelf' = [m \in Method |-> IF m \in ms THEN "untested" ELSE shelf[m]]
  /\ UNCHANGED <<trying, disk, ext, intake, history>>

\* Fault: a cycle without trials leaves the last report standing.
ReportIfTried(done, good) ==
  IF done = {} THEN ext ELSE [ext EXCEPT !.tested = TRUE, !.benefit = good # {}]

\* What the trials of done, of which good were a benefit, are reported as.
Report(done, good) == [ext EXCEPT !.tested = done # {}, !.benefit = good # {}]

\* A few untested methods are tried; those that were a benefit may become skills.  Switched
\* off, the arm tries nothing and returns before it reports.
Try(done, good) ==
  /\ Then("trials", "retrials")
  /\ done \subseteq {m \in Method : shelf[m] = "untested"} /\ Cardinality(done) <= MaxTrials
  /\ good \subseteq done
  /\ done # {} => trying
  /\ shelf' = [m \in Method |-> IF m \in done THEN "tried" ELSE shelf[m]]
  /\ ext' = IF trying THEN Report(done, good) ELSE ext
  /\ \E new \in SUBSET good : skills' = skills \cup new
  /\ idle' = IF done # {} THEN 0 ELSE idle
  /\ UNCHANGED <<trying, sleep, stalled, tags, core, saved, intake, fasting>>

Retriable == {m \in skills : shelf[m] \in {"untested", "tried"}}

\* Skills nothing is decided about are tried again; over are decided now.
Retry(done, over) ==
  /\ Then("retrials", "emerge")
  /\ done \subseteq Retriable /\ Cardinality(done) <= MaxRetrials
  /\ over \subseteq done
  /\ done # {} => trying
  /\ shelf' = [m \in Method |-> IF m \in over THEN "judged"
                                ELSE IF m \in done THEN "tried" ELSE shelf[m]]
  /\ ext' = IF skills = {} THEN ext ELSE [ext EXCEPT !.retried = done # {}]
  /\ idle' = IF done # {} THEN 0 ELSE idle
  /\ UNCHANGED <<trying, disk, intake, fasting>>

\* The operator's decisions are carried out; the list of what was ever resolved grows.
Resolve(any) ==
  /\ Then("decisions", "hindsight")
  /\ ext' = [ext EXCEPT !.resolved = @ \/ any]
  /\ UNCHANGED <<trying, disk, shelf, intake, fasting, idle>>

Salient == ext.benefit \/ ext.resolved

\* A salient event has some of the tagged entries reviewed.  Not all of an age need be, and
\* one that is not settled waits with a new tag, as open disputes do that are staged now.
Review(some, fresh) ==
  /\ Then("hindsight", "note")
  /\ some \subseteq tags
  /\ (some # {}) <=> (Salient /\ tags # {})
  /\ \E gone \in SUBSET some : tags' = (tags \ gone) \cup (IF fresh THEN {0} ELSE {})
  /\ ext' = [ext EXCEPT !.reviewed = some # {}]
  /\ idle' = IF some # {} THEN 0 ELSE idle
  /\ UNCHANGED <<trying, sleep, stalled, skills, shelf, core, saved, intake, fasting>>

Digested == ext.tested \/ ext.retried \/ ext.reviewed

Note ==
  /\ Then("note", "save")
  /\ stalled' = IF Digested THEN 0 ELSE stalled
  /\ UNCHANGED <<trying, sleep, tags, skills, shelf, core, ext, saved, intake, history>>

SaveCore ==
  /\ Then("save", "extensions")
  /\ core' = shelf
  /\ UNCHANGED <<trying, sleep, stalled, tags, skills, shelf, ext, saved, intake, history>>

\* What the process held is gone; the next one starts from the files.
Gone == intake' = FALSE /\ UNCHANGED <<trying, fasting, idle>>

SaveExtensions ==
  /\ Then("extensions", "down")
  /\ saved' = ext
  /\ UNCHANGED <<sleep, stalled, tags, skills, shelf, core, ext>> /\ Gone

\* The two markers are written in place: a kill in the middle leaves nothing to read.
Torn(step, file, none) == {file} \cup (IF pc = step THEN {none} ELSE {})

Crash ==
  /\ pc # "down" /\ pc' = "down"
  /\ shelf' = core /\ ext' = saved
  /\ sleep' \in Torn("gate", sleep, NoFile) /\ stalled' \in Torn("note", stalled, Never)
  /\ UNCHANGED <<tags, skills, core, saved>> /\ Gone

Next ==
  \/ Begin
  \/ \E hungry \in BOOLEAN : Gate(hungry)
  \/ \E ms \in SUBSET Method : Admit(ms)
  \/ \E done, good \in SUBSET Method : Try(done, good)
  \/ \E done, over \in SUBSET Method : Retry(done, over)
  \/ \E any \in BOOLEAN : Resolve(any)
  \/ \E some \in SUBSET (0..Window), fresh \in BOOLEAN : Review(some, fresh)
  \/ Note \/ SaveCore \/ SaveExtensions
  \/ Crash

\* A process goes on or is killed, a new one is always started, and not every one of them is
\* killed before its gate.
Fairness == WF_vars(Next) /\ SF_vars(\E hungry \in BOOLEAN : Gate(hungry))

Spec == Init /\ [][Next]_vars /\ Fairness

-----------------------------------------------------------------------------
(***************************************************************************)
(* Properties.                                                             *)
(***************************************************************************)
Reports == [tested: BOOLEAN, benefit: BOOLEAN, retried: BOOLEAN,
            resolved: BOOLEAN, reviewed: BOOLEAN]
Steps == {"down", "gate", "harvest", "trials", "retrials", "emerge", "decisions",
          "hindsight", "note", "save", "extensions"}

TypeOK ==
  /\ pc \in Steps
  /\ trying \in Trying
  /\ sleep \in [state: {"NONE", "AWAKE", "WAKE_TRANSITION"} \cup Asleep,
                since: 0..OldSleep, slept: 0..MaxSleep]
  /\ {stalled, idle} \subseteq 0..Never
  /\ tags \subseteq 0..Window /\ skills \subseteq Method
  /\ {shelf, core} \subseteq [Method -> Trials] /\ {ext, saved} \subseteq Reports
  /\ intake \in BOOLEAN
  /\ fasting \in 0..(MaxSleep + 2)

\* Sleep never keeps intake shut for more cycles in a row than the cap and the cycle of
\* transition, deepening and kills included.
FastsEnd == fasting <= MaxSleep + 1

\* A cycle that takes methods in under the coupling has real work behind it: something was
\* tried, tried again or reviewed at most Grace cycles ago, unless no digestion is on record.
IntakeFollowsDigestion ==
  pc \notin {"down", "gate"} /\ Coupled /\ intake => stalled = Never \/ idle <= Grace

\* Whatever the gates have starved, the machine wakes again and again; and however well digestion
\* goes, it sleeps again and again, unless kills tear its file again and again.
WakesAndSleeps ==
  /\ []<>(sleep.state = "AWAKE")
  /\ []<>(sleep.state \in Asleep) \/ []<>(sleep = NoFile)
=============================================================================
