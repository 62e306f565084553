------------------------------ MODULE SelfReview ------------------------------
(***************************************************************************)
(* The report that the agent writes about itself, self_review.py, over the *)
(* logs of the calls its arms have made and the core it is minted into.    *)
(*                                                                         *)
(* A report covers the time since the last one.  What was called in that   *)
(* time is the length of each log less its length at the last report; the  *)
(* arms cut their logs to the newest entries.  Traits are minted into the  *)
(* core once, by key; the core is saved before the extensions that         *)
(* remember the keys.                                                      *)
(***************************************************************************)
EXTENDS Integers, Sequences, FiniteSetsExt, Functions

CONSTANTS
  Log,          \* of calls that were made
  Keep,         \* entries an arm keeps of one
  EveryRuns,    \* that make a report due
  MaxRuns, MaxDiary, MaxCalls

SelfReviewAssumption ==
  {Keep, EveryRuns, MaxRuns, MaxDiary, MaxCalls} \subseteq Nat \ {0}

VARIABLES
  pc,       \* what the cycle is at
  runs, late,     \* the window; an hour has passed since the last report
  spending, \* euros since the last report, or none
  world,    \* what the core holds that a report looks at
  core,     \* the traits in the core, and the reports rendered into it
  ext,      \* extensions.json, in memory; history: the calls made since the last report
  disk      \* both as saved

vars == <<pc, runs, late, spending, world, core, ext, disk>>

None == -1
Nothing == [log \in Log |-> 0]

Init ==
  /\ pc = "cycle" /\ runs = 0 /\ late = FALSE /\ spending = FALSE
  /\ world = [live |-> FALSE, confirmed |-> FALSE, conflicts |-> FALSE, topics |-> FALSE]
  /\ core = [traits |-> <<>>, narratives |-> 0]
  /\ ext = [logs |-> Nothing, base |-> Nothing, run |-> None, seen |-> {}, stances |-> {},
            diary |-> <<>>, called |-> 0]
  /\ disk = [core |-> core, ext |-> ext]

Keys == {"holds_revisable", "holds_contradictions", "broadens_topics", "uses_model_layer",
         "deterministic_hour", "commissions_are_self_change"}

TypeOK ==
  /\ pc \in {"cycle", "save", "saved"}
  /\ ext.logs \in [Log -> Nat] /\ \A log \in Log : ext.logs[log] <= Keep
  /\ ext.seen \subseteq Keys /\ Range(core.traits) \subseteq Keys
  /\ Len(ext.diary) <= MaxDiary

-----------------------------------------------------------------------------
\* Before the report: an arm calls a model, and cuts its log; the core changes.
CallModel(log) ==
  /\ pc = "cycle" /\ ext.called < MaxCalls
  /\ ext' = [ext EXCEPT !.called = @ + 1,
                        !.logs[log] = IF @ < Keep THEN @ + 1 ELSE Keep]
  /\ UNCHANGED <<pc, runs, late, spending, world, core, disk>>

Pay == pc = "cycle" /\ spending' = TRUE
       /\ UNCHANGED <<pc, runs, late, world, core, ext, disk>>

Live ==
  /\ pc = "cycle"
  /\ \E fact \in DOMAIN world : world' = [world EXCEPT ![fact] = ~@]
  /\ UNCHANGED <<pc, runs, late, spending, core, ext, disk>>

-----------------------------------------------------------------------------
Due ==
  \/ ext.run = None
  \/ runs - ext.run >= EveryRuns
  \/ late

\* The calls of the window, as the report computes them.
Activity == ext.logs
InWindow(log) == IF Activity[log] > ext.base[log] THEN Activity[log] - ext.base[log] ELSE 0
WindowCalls == MapThenSumSet(InWindow, Log)

\* The traits that hold, of which the report takes three, and the one that is always there.
Traits ==
  LET held(fact, key) == IF fact THEN <<key>> ELSE <<>>
      all == held(world.live /\ ~world.confirmed, "holds_revisable")
               \o held(world.conflicts, "holds_contradictions")
               \o held(world.topics, "broadens_topics")
               \o held(WindowCalls > 0, "uses_model_layer")
               \o held(WindowCalls = 0 /\ ~spending, "deterministic_hour")
  IN  SubSeq(all, 1, IF Len(all) < 3 THEN Len(all) ELSE 3) \o <<"commissions_are_self_change">>

\* The stances that the report states, each the first time it bites.
Stances ==
  ext.stances
    \cup (IF world.conflicts THEN {"hold_tension"} ELSE {})
    \cup (IF world.live /\ ~world.confirmed THEN {"no_confirmed"} ELSE {})

\* What the report says of the models: calls, or that none was made.
Entry == [quiet |-> WindowCalls = 0, calls |-> ext.called]

Latest(s) == SubSeq(s, IF Len(s) > MaxDiary THEN Len(s) - MaxDiary + 1 ELSE 1, Len(s))

Review ==
  LET minted == SelectSeq(Traits, LAMBDA key : key \notin ext.seen)
  IN  /\ pc = "cycle" /\ Due
      /\ core' = [traits |-> core.traits \o minted,
                  narratives |-> IF minted = <<>> THEN core.narratives ELSE core.narratives + 1]
      /\ ext' = [ext EXCEPT !.base = Activity, !.called = 0, !.run = runs, !.stances = Stances,
                            !.seen = @ \cup Range(minted), !.diary = Latest(Append(@, Entry))]
      /\ pc' = "save" /\ late' = FALSE /\ spending' = FALSE
      /\ UNCHANGED <<runs, world, disk>>

NoReview == pc = "cycle" /\ ~Due /\ pc' = "save"
            /\ UNCHANGED <<runs, late, spending, world, core, ext, disk>>

\* _finish: the core first, the extensions last.
SaveCore ==
  /\ pc = "save" /\ pc' = "saved" /\ disk' = [disk EXCEPT !.core = core]
  /\ UNCHANGED <<runs, late, spending, world, core, ext>>

SaveExtensions ==
  /\ pc = "saved" /\ pc' = "cycle" /\ disk' = [disk EXCEPT !.ext = ext]
  /\ runs < MaxRuns /\ runs' = runs + 1 /\ late' \in BOOLEAN
  /\ UNCHANGED <<spending, world, core, ext>>

\* A kill in between: what the core has and the extensions have not is done again.
Kill ==
  /\ pc # "cycle" /\ pc' = "cycle" /\ core' = disk.core /\ ext' = disk.ext
  /\ UNCHANGED <<runs, late, spending, world, disk>>

Next ==
  \/ \E log \in Log : CallModel(log)
  \/ Pay \/ Live \/ Review \/ NoReview \/ SaveCore \/ SaveExtensions \/ Kill

Spec == Init /\ [][Next]_vars

-----------------------------------------------------------------------------
(***************************************************************************)
(* A report that says that no model was called is right: none was called   *)
(* since the report before it.                                             *)
(***************************************************************************)
QuietIsTrue == \A i \in DOMAIN ext.diary : ext.diary[i].quiet => ext.diary[i].calls = 0
=============================================================================
