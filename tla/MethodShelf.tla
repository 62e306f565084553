------------------------------ MODULE MethodShelf ------------------------------
(***************************************************************************)
(* The life of a method on the shelf: src/src/joni/autonomy/trials.py,     *)
(* method_review.py, method_ledger.py and, of src/src/joni/method_trial,   *)
(* lifecycle.py, skill_lifecycle.py, skill.py and what a trial runs:       *)
(* sandbox_trial.py, solver_synth.py and sandbox.py.                       *)
(*                                                                         *)
(* A cycle shelves methods, has the simulator try them if it is on,        *)
(* retires those that gain nothing, tries a few in the sandbox, tries the  *)
(* skills that came of it again, weeds out junk and projects the history.  *)
(* The core and the extensions are saved one after the other at the end;   *)
(* the skills, their sheet and the history are written on the spot.        *)
(***************************************************************************)
EXTENDS Naturals, FiniteSets, Functions

CONSTANTS
  Method,      \* ids, in their order
  Task,        \* the methods that match a benchmark, and what its trials call their method
  Titled,      \* the methods shelved in the past under the title of a paper
  Condition,   \* what the simulator tries methods on
  Case,        \* the cases of a benchmark
  MinEffect,   \* the gain it asks for, in cases
  Synthetic,   \* the simulator is on, JONI_SYNTHETIC_TRIALS
  MaxTrials,   \* trials after which a method has to show a gain
  Chances,     \* trials after which a new condition is no excuse
  Window,      \* cycles a win protects for
  MaxAge,      \* cycles an untried method stays
  MaxRetire,   \* methods retired in a cycle
  MaxSwept,    \* titles retired in a cycle
  MaxSandbox,  \* methods tried in the sandbox in a cycle
  MaxRetrials, \* skills tried again in a cycle
  MaxRuns,     \* bound on the trials of a method
  Killed       \* a process may be killed

MethodShelfAssumption ==
  /\ Method \subseteq Nat /\ {Synthetic, Killed} \subseteq BOOLEAN
  /\ DOMAIN Task \subseteq Method /\ Range(Task) \cap Method = {}
  /\ Titled \subseteq Method \ DOMAIN Task
  /\ {MaxTrials, Chances, Window, MaxAge, MaxRetire, MaxSwept, MaxSandbox, MaxRetrials, MaxRuns}
       \subseteq Nat \ {0}
  /\ IsFiniteSet(Case) /\ MinEffect \in 1..Cardinality(Case)

VARIABLES
  pc,      \* the step the cycle has come to
  shelf,   \* memory: the methods in the core
  sealed,  \* memory: the sealed trial events, what they call the method and what they found
  ledger,  \* memory: what the extensions know of the live methods
  core,    \* disk: shelf and sealed
  saved,   \* disk: ledger
  skills,  \* disk: the status of the skill made of a method
  advice,  \* disk: what the last sheet recommends for it
  series   \* disk: the state the history says a method is in

vars == <<pc, shelf, sealed, ledger, core, saved, skills, advice, series>>
files == <<core, saved, skills, advice, series>>

-----------------------------------------------------------------------------
\* Trials and wins; how long ago the last win was, which only the properties use.
Absent == [status |-> "none", runs |-> 0, wins |-> 0, won |-> Window]

\* Nothing on record: never seen, no win within the window, no condition met.
Unknown == [known |-> FALSE, wins |-> 0, age |-> 0, won |-> Window, passed |-> {}, last |-> "none"]

Init ==
  /\ pc = "down"
  /\ shelf = [m \in Method |-> IF m \in Titled THEN [Absent EXCEPT !.status = "candidate"]
                               ELSE Absent]
  /\ sealed = {}
  /\ ledger = [m \in Method |-> Unknown]
  /\ core = [shelf |-> shelf, sealed |-> sealed] /\ saved = ledger
  /\ skills = [m \in Method |-> "none"] /\ advice = skills /\ series = skills

Live == {m \in Method : shelf[m].status = "candidate"}

Untried == {m \in Live : shelf[m].runs = 0}

Then(from, to) == pc = from /\ pc' = to

Older(age, limit) == IF age < limit THEN age + 1 ELSE age

\* The cycles are numbered by the protocol, which a killed one has written to as well.
Begin ==
  /\ Then("down", "harvest")
  /\ shelf' = [m \in Method |-> [core.shelf[m] EXCEPT !.won = Older(@, Window)]]
  /\ core' = [core EXCEPT !.shelf = shelf']
  /\ ledger' = [m \in Method |-> [saved[m] EXCEPT !.won = Older(@, Window),
                                    !.age = IF saved[m].known THEN Older(@, MaxAge) ELSE @]]
  /\ saved' = ledger'
  /\ UNCHANGED <<sealed, skills, advice, series>>

\* A long title is not shelved any more.
Shelve(ms) ==
  /\ Then("harvest", "simulate")
  /\ ms \subseteq {m \in Method \ Titled : shelf[m].status = "none"}
  /\ shelf' = [m \in Method |-> IF m \in ms THEN [shelf[m] EXCEPT !.status = "candidate"]
                                ELSE shelf[m]]
  /\ UNCHANGED <<sealed, ledger, files>>

\* A trial moves the counters of the method, whatever its status.
Counted(done, good) ==
  [m \in Method |->
     IF m \notin done THEN shelf[m]
     ELSE [shelf[m] EXCEPT !.runs = @ + 1,
                           !.wins = IF m \in good THEN @ + 1 ELSE @,
                           !.won = IF m \in good THEN 0 ELSE @]]

CanRun(ms) == \A m \in ms : shelf[m].runs < MaxRuns

\* The simulator tries live methods under a condition of the cycle, which the ledger notes.
Simulate(done, good, condition) ==
  /\ Then("simulate", "retire")
  /\ done \subseteq Live /\ good \subseteq done /\ CanRun(done)
  /\ done # {} => Synthetic
  /\ shelf' = Counted(done, good)
  /\ ledger' = [m \in Method |->
                 IF m \notin done THEN ledger[m]
                 ELSE [ledger[m] EXCEPT !.last = condition,
                                        !.passed = @ \cup {condition : x \in good \cap {m}}]]
  /\ UNCHANGED <<sealed, files>>

-----------------------------------------------------------------------------
(***************************************************************************)
(* Retirement.                                                             *)
(***************************************************************************)
\* Fault: a win is new only to a ledger that has met the method.
NotedIfKnown(m) ==
  IF m \notin Live THEN Unknown
  ELSE [ledger[m] EXCEPT !.known = TRUE, !.wins = shelf[m].wins,
          !.won = IF ledger[m].known /\ shelf[m].wins > ledger[m].wins THEN 0 ELSE @]

\* The ledger after a look at the live methods: a win it does not know of is of this cycle.
Noted(m) ==
  IF m \notin Live THEN Unknown
  ELSE [ledger[m] EXCEPT !.known = TRUE, !.wins = shelf[m].wins,
          !.won = IF shelf[m].wins > ledger[m].wins THEN 0 ELSE @]

Outlived(m, entry) == shelf[m].runs = 0 /\ entry.age >= MaxAge

Fruitless(m) == shelf[m].runs >= MaxTrials /\ 2 * shelf[m].wins <= shelf[m].runs

RecentWin(entry) == entry.won < Window

\* Fault: a method may fail on ever new grounds.
NewGroundForEver(m, entry) == entry.passed # {} /\ entry.last \notin entry.passed \cup {"none"}

\* It has passed under some condition, failed last under one that is new to it, and not had
\* all its chances.  Under a condition it has passed, a failure is its own.
NewGround(m, entry) ==
  /\ entry.passed # {} /\ entry.last \notin entry.passed \cup {"none"}
  /\ shelf[m].runs < Chances

Due(m, entry) ==
  \/ Outlived(m, entry)
  \/ Fruitless(m) /\ ~RecentWin(entry) /\ ~NewGround(m, entry)

\* By successes less failures, then by id.
Worse(a, b) ==
  LET net(m) == 2 * shelf[m].wins + shelf[b].runs + shelf[a].runs - shelf[m].runs
  IN  net(a) < net(b) \/ (net(a) = net(b) /\ a < b)

Reject(ms) == [m \in Method |-> IF m \in ms THEN [shelf[m] EXCEPT !.status = "rejected"]
                                ELSE shelf[m]]

\* The worst of those that are due, as many as a cycle retires.
Retire ==
  LET noted == [m \in Method |-> Noted(m)]
      due == {m \in Live : Due(m, noted[m])}
  IN  /\ Then("retire", "sweep")
      /\ ledger' = noted
      /\ shelf' = Reject({m \in due : Cardinality({n \in due : Worse(n, m)}) < MaxRetire})
      /\ UNCHANGED <<sealed, files>>

\* Untried titles of papers go, in the order of the core.
Sweep ==
  LET due == Titled \cap Untried
  IN  /\ Then("sweep", "sandbox")
      /\ shelf' = Reject({m \in due : Cardinality({n \in due : n < m}) < MaxSwept})
      /\ UNCHANGED <<sealed, ledger, files>>

-----------------------------------------------------------------------------
(***************************************************************************)
(* Trials in the sandbox, skills, junk and the history.                    *)
(***************************************************************************)
\* What a solver answers to a case in a process of its own: one that imports what it may not,
\* takes too long or too much memory, crashes or prints no answer has none.
Answers == {"gold", "other", "none"}

\* One run of a benchmark.
Runs == [{"baseline", "intervention", "control"} -> [Case -> Answers]]

Errors(run, role) == Cardinality({c \in Case : run[role][c] # "gold"})

Beats(run, role) == Errors(run, role) + MinEffect <= Errors(run, "baseline")

\* A gain that the negative control has as well is noise.
Passed(run) == Beats(run, "intervention") /\ ~Beats(run, "control")

\* The rule that judges what is sealed sees the gain, not the control.  Nothing is sealed of a
\* solver with the source of an earlier one.
Certificates == {IF Beats(run, "intervention") THEN "positive" ELSE "negative" : run \in Runs}
                  \cup {"none"}

\* The solver runs twice: the verdict is of the first run, what is sealed is of the second.
Trials == [passed : {Passed(run) : run \in Runs}, sealed : Certificates]

Good(trials) == {m \in DOMAIN trials : trials[m].passed}

\* A trial is sealed under the name the benchmark gives its own method.
Sealed(trials) ==
  LET kept == {m \in DOMAIN trials : trials[m].sealed # "none"}
  IN  sealed \cup {<<Task[m], trials[m].sealed>> : m \in kept}

Matching == DOMAIN Task

\* A skill, of which the status matters; what is proposed is on probation.
Statuses == {"probationary", "active", "archived"}

\* Only a pass makes a skill, and what is written of it may lack a part.
Crystallised(trials) == SUBSET Good(trials)

\* The method it comes of, its only evidence, is in the core.
Admissible(m) == shelf[m].status # "none"

\* The proposal is a line appended to the file of skills, where the latest line of a skill counts.
Propose(ms) ==
  skills' = [m \in Method |-> IF m \in ms /\ Admissible(m) THEN "probationary" ELSE skills[m]]

\* A few untried methods that match a benchmark; any may fail to yield a solver.  Of a benefit
\* a skill is made at once, unless the proposal fails.
Try ==
  /\ Then("sandbox", "skills")
  /\ \E done \in SUBSET (Untried \cap Matching) :
       /\ Cardinality(done) <= MaxSandbox
       /\ \E trials \in [done -> Trials] :
            /\ shelf' = Counted(done, Good(trials))
            /\ sealed' = Sealed(trials)
            /\ \E new \in Crystallised(trials) : Propose(new)
  /\ UNCHANGED <<ledger, core, saved, advice, series>>

MinPasses == 3
MinTrials == 3

Promotable(r) == r.wins >= MinPasses /\ 4 * r.wins >= 3 * r.runs

Failing(r) == r.runs >= MinTrials /\ 100 * r.wins <= 34 * r.runs

\* Not decidable yet: too few passes, and no measured failure.
Eligible(m) ==
  /\ skills[m] = "probationary" /\ shelf[m].status # "none"
  /\ shelf[m].wins < MinPasses /\ ~Failing(shelf[m])

\* What is recommended for the skill of m; nothing here writes its status.
Assess(m, r) ==
  CASE skills[m] = "none" -> "none"
    [] skills[m] = "archived" \/ r.status = "none" -> "hold"
    [] OTHER -> IF Failing(r) THEN "archive"
                ELSE IF skills[m] = "probationary" /\ Promotable(r) THEN "promote" ELSE "hold"

Retry ==
  /\ Then("skills", "weed")
  /\ \E done \in SUBSET {m \in Method : Eligible(m)} :
       /\ Cardinality(done) <= MaxRetrials /\ CanRun(done)
       /\ \E trials \in [done -> Trials] :
            /\ shelf' = Counted(done, Good(trials))
            /\ sealed' = Sealed(trials)
  /\ advice' = [m \in Method |-> Assess(m, shelf'[m])]
  /\ UNCHANGED <<ledger, core, saved, skills, series>>

\* Off-domain candidates go, and untried ones the reviewer takes for junk.
Weed(junk) ==
  /\ Then("weed", "project")
  /\ junk \subseteq Live
  /\ shelf' = Reject(junk)
  /\ UNCHANGED <<sealed, ledger, files>>

StateOf(m) ==
  LET found == {s[2] : s \in {t \in sealed : t[1] = m}}
  IN  CASE shelf[m].status = "none" -> "none"
        [] shelf[m].status = "rejected" -> "retired"
        [] OTHER -> IF found = {} THEN "proposed"
                    ELSE IF "positive" \in found THEN "ready" ELSE "shelved"

Project ==
  /\ Then("project", "save")
  /\ series' = [m \in Method |-> IF StateOf(m) = "none" THEN series[m] ELSE StateOf(m)]
  /\ UNCHANGED <<shelf, sealed, ledger, core, saved, skills, advice>>

SaveCore ==
  /\ Then("save", "extensions")
  /\ core' = [shelf |-> shelf, sealed |-> sealed]
  /\ UNCHANGED <<shelf, sealed, ledger, saved, skills, advice, series>>

SaveExtensions ==
  /\ Then("extensions", "down")
  /\ saved' = ledger
  /\ UNCHANGED <<shelf, sealed, ledger, core, skills, advice, series>>

\* The next process starts from the files.
Crash ==
  /\ Killed /\ pc # "down" /\ pc' = "down"
  /\ shelf' = core.shelf /\ sealed' = core.sealed /\ ledger' = saved
  /\ UNCHANGED files

\* Somebody acts on a recommendation: the status is a line appended to the file of skills.
Follow(m) ==
  /\ pc = "down" /\ advice[m] \in {"promote", "archive"}
  /\ skills' = [skills EXCEPT ![m] = IF advice[m] = "promote" THEN "active" ELSE "archived"]
  /\ UNCHANGED <<pc, shelf, sealed, ledger, core, saved, advice, series>>

Go ==
  \/ Begin
  \/ \E ms \in SUBSET Method : Shelve(ms)
  \/ \E done, good \in SUBSET Method, c \in Condition : Simulate(done, good, c)
  \/ Retire \/ Sweep
  \/ Try \/ Retry
  \/ \E junk \in SUBSET Method : Weed(junk)
  \/ Project \/ SaveCore \/ SaveExtensions

Next == Go \/ Crash \/ \E m \in Method : Follow(m)

\* A process goes on, and after it another one is started.
Spec == Init /\ [][Next]_vars /\ WF_vars(Go)

-----------------------------------------------------------------------------
(***************************************************************************)
(* Properties.                                                             *)
(***************************************************************************)
\* A method that has won a trial within the window is not retired for want of a gain, even if
\* the cycle that saved the win was killed before it saved the ledger.  (trials.py:150-155)
WinsProtect ==
  [][\A m \in Method : pc = "retire" /\ m \in Live /\ shelf'[m].status = "rejected"
       => shelf[m].won >= Window]_vars

\* A method that has had all its chances without a gain is retired in the end, whatever else
\* stands in the queue, unless it wins again.  (trials.py:222-234)
HopelessGo ==
  \A m \in Method :
    (/\ core.shelf[m].status = "candidate" /\ core.shelf[m].runs >= Chances
     /\ 2 * core.shelf[m].wins <= core.shelf[m].runs)
      ~> (core.shelf[m].status = "rejected" \/ core.shelf[m].won < Window)
=============================================================================
