------------------------------ MODULE Deployment ------------------------------
(***************************************************************************)
(* How cycles become commits (.github/workflows/autonomy.yml with run.py,  *)
(* compact.yml).                                                           *)
(*                                                                         *)
(* The branch main is the only memory between jobs.  The loop resets its   *)
(* checkout to main, runs one cycle, files the orders the cycle left as    *)
(* issues, commits whatever the cycle has left in state/, and pushes, with *)
(* a rebase when main has moved.  Operators commit decisions into the drop *)
(* box and developers commit code meanwhile; a job is killed at its time   *)
(* limit; a cycle may raise, and what it had written by then is committed  *)
(* all the same, since only the exit code 42 is looked at.  The compaction *)
(* job has a checkout of its own and is not serialised with the loop.      *)
(*                                                                         *)
(* A commit is its tree, a record with one field for each file, or group   *)
(* of files, that changes independently of the others.                     *)
(***************************************************************************)
EXTENDS Naturals, FiniteSets

CONSTANTS
  Fact,        \* what a cycle may learn
  Decision,    \* what operators may paste into the drop box
  Order,       \* the kinds of orders a cycle may raise
  MaxCode,     \* bound: commits of developers
  PushTries,   \* attempts to push one cycle
  Raising,     \* a cycle may raise an exception
  Compacting   \* bound: the compaction job is run, once

ASSUME DeploymentAssumption ==
  /\ MaxCode \in Nat
  /\ PushTries \in Nat \ {0}
  /\ {Raising, Compacting} \subseteq BOOLEAN

VARIABLES
  main,      \* the tree at origin/main
  pc,        \* what the loop does next
  base,      \* the tree the loop's checkout was reset to or rebased onto
  work,      \* the tree in the loop's checkout
  memory,    \* what the running cycle holds and has not saved
  tries,     \* pushes of this commit that were rejected
  pasted,    \* history: decisions pasted so far
  issues,    \* the issues filed for each order (two stands for more)
  attempted, \* history: the orders the loop has tried to file
  answered,  \* history: decisions that a pushed cycle has read and taken out of the box
  undone,    \* history: decisions that the compaction job has taken out of it
  compactor  \* the compaction job: its step, the tree in its index

loop == <<pc, base, work, memory, tries>>
history == <<pasted, attempted, answered, undone>>
vars == <<main, loop, issues, history, compactor>>

(***************************************************************************)
(* core: layer9.json with its chunks.  box: conflict_decisions.txt.        *)
(* news: commissions_new.json.  filed: extensions.json, of which only      *)
(* commissions_filed matters here.  code: src/.                            *)
(***************************************************************************)
Core == [known : SUBSET (Fact \cup Decision), lean : BOOLEAN]

Tree == [core : Core, box : SUBSET Decision, news : SUBSET Order, filed : SUBSET Order, code : 0..MaxCode]

Memory == [learned : SUBSET (Fact \cup Decision), read : BOOLEAN, raised : SUBSET Order]

NoMemory == [learned |-> {}, read |-> FALSE, raised |-> {}]
FirstTree == [core |-> [known |-> {}, lean |-> FALSE], box |-> {}, news |-> {},
              filed |-> {}, code |-> 0]

Steps == {"none", "sync", "think", "decide", "raise", "news", "core", "ext", "file",
          "commit", "push"}

TypeOK ==
  /\ {main, base, work} \subseteq Tree
  /\ pc \in Steps
  /\ memory \in Memory
  /\ tries \in 0..(PushTries - 1)
  /\ pasted \subseteq Decision /\ attempted \subseteq Order
  /\ answered \subseteq Decision /\ undone \subseteq Decision
  /\ issues \in [Order -> 0..2]
  /\ compactor \in [pc : {"none", "compact", "done"}, index : Tree]

Init ==
  /\ main = FirstTree /\ base = FirstTree /\ work = FirstTree
  /\ pc = "none" /\ memory = NoMemory /\ tries = 0
  /\ pasted = {} /\ attempted = {} /\ answered = {} /\ undone = {}
  /\ issues = [o \in Order |-> 0]
  /\ compactor = [pc |-> "none", index |-> FirstTree]

-----------------------------------------------------------------------------
(***************************************************************************)
(* The others who commit to main.                                          *)
(***************************************************************************)

\* An operator pastes a decision; like every commit, it is made on the current main.
Paste(d) ==
  /\ d \notin pasted
  /\ main' = [main EXCEPT !.box = @ \cup {d}]
  /\ pasted' = pasted \cup {d}
  /\ UNCHANGED <<loop, issues, attempted, answered, undone, compactor>>

Develop ==
  /\ main.code < MaxCode
  /\ main' = [main EXCEPT !.code = @ + 1]
  /\ UNCHANGED <<loop, issues, history, compactor>>

-----------------------------------------------------------------------------
(***************************************************************************)
(* The job and its cycle.                                                  *)
(***************************************************************************)

Checkout(tree) == base' = tree /\ work' = tree /\ memory' = NoMemory /\ tries' = 0

StartJob ==
  /\ pc = "none"
  /\ Checkout(main)
  /\ pc' = "sync"
  /\ UNCHANGED <<main, issues, history, compactor>>

\* git fetch && git reset --hard, or neither: the loop goes on with what it has.
Sync ==
  /\ pc = "sync"
  /\ \E tree \in {main, base} : Checkout(tree)
  /\ pc' = "think"
  /\ UNCHANGED <<main, issues, history, compactor>>

\* The arms of the cycle learn things, in memory.
Think ==
  /\ pc = "think"
  /\ \E facts \in SUBSET Fact : memory' = [memory EXCEPT !.learned = @ \cup facts]
  /\ pc' = "decide"
  /\ UNCHANGED <<main, base, work, tries, issues, history, compactor>>


\* The box is read, its lines are answered in memory, and it is emptied on the disk.
Decide ==
  /\ pc = "decide"
  /\ memory' = [memory EXCEPT !.learned = @ \cup work.box, !.read = TRUE]
  /\ work' = [work EXCEPT !.box = {}]
  /\ pc' = "raise"
  /\ UNCHANGED <<main, base, tries, issues, history, compactor>>

\* Fault: the record of an order is on the disk before the order is.
RaiseAndRecord ==
  /\ pc = "raise"
  /\ \E new \in SUBSET (Order \ work.filed) :
       /\ memory' = [memory EXCEPT !.raised = new]
       /\ work' = [work EXCEPT !.filed = @ \cup new]
  /\ pc' = "news"
  /\ UNCHANGED <<main, base, tries, issues, history, compactor>>

\* An order is raised unless it is in commissions_filed (its cooldown is longer than the model).
Raise ==
  /\ pc = "raise"
  /\ \E new \in SUBSET (Order \ work.filed) :
       /\ Cardinality(new) <= 1
       /\ memory' = [memory EXCEPT !.raised = new]
  /\ pc' = "news"
  /\ UNCHANGED <<main, base, work, tries, issues, history, compactor>>

SaveNews ==
  /\ pc = "news"
  /\ work' = [work EXCEPT !.news = memory.raised]
  /\ pc' = "core"
  /\ UNCHANGED <<main, base, memory, tries, issues, history, compactor>>

SaveCore ==
  /\ pc = "core"
  /\ work' = [work EXCEPT !.core.known = @ \cup memory.learned]
  /\ pc' = "ext"
  /\ UNCHANGED <<main, base, memory, tries, issues, history, compactor>>

SaveExtensions ==
  /\ pc = "ext"
  /\ work' = [work EXCEPT !.filed = @ \cup memory.raised]
  /\ pc' = "file"
  /\ UNCHANGED <<main, base, memory, tries, issues, history, compactor>>

\* The cycle ends early: by an exception, or because the runtime window is over (in which case
\* the core and the extensions are saved as they were loaded, and the news are not written).
Break ==
  /\ Raising
  /\ pc \in {"think", "decide", "raise", "news", "core", "ext"}
  /\ pc' = "file"
  /\ UNCHANGED <<main, base, work, memory, tries, issues, history, compactor>>

\* One gh issue create for each order of commissions_new.json; it may fail (check=False).
File ==
  /\ pc = "file"
  /\ \E done \in SUBSET work.news :
       issues' = [o \in Order |-> IF o \in done /\ issues[o] < 2 THEN issues[o] + 1
                                  ELSE issues[o]]
  /\ attempted' = attempted \cup work.news
  /\ pc' = "commit"
  /\ UNCHANGED <<main, base, work, memory, tries, pasted, answered, undone, compactor>>

Commit ==
  /\ pc = "commit"
  /\ pc' = IF work = base THEN "sync" ELSE "push"
  /\ UNCHANGED <<main, base, work, memory, tries, issues, history, compactor>>

\* Fault: the push is forced.
PublishForced ==
  /\ pc = "push"
  /\ main' = work /\ base' = work
  /\ answered' = answered \cup ((main.box \ work.box) \cap memory.learned)
  /\ pc' = "sync"
  /\ UNCHANGED <<work, memory, tries, issues, pasted, attempted, undone, compactor>>

\* A push is accepted if it continues main.
Publish ==
  /\ pc = "push" /\ main = base
  /\ main' = work /\ base' = work
  /\ answered' = answered \cup ((main.box \ work.box) \cap memory.learned)
  /\ pc' = "sync"
  /\ UNCHANGED <<work, memory, tries, issues, pasted, attempted, undone, compactor>>

\* git rebase: what only one side has changed is taken from that side, a file that both have
\* changed is a conflict.
Files == DOMAIN FirstTree

Merges == \A f \in Files : base[f] \in {work[f], main[f]} \/ work[f] = main[f]
Merged == [f \in Files |-> IF work[f] = base[f] THEN main[f] ELSE work[f]]

\* After a push that was rejected, or that the network swallowed.
Rebase ==
  /\ pc = "push" /\ tries + 1 < PushTries
  /\ Merges
  /\ base' = main /\ work' = Merged
  /\ tries' = tries + 1
  /\ UNCHANGED <<main, pc, memory, issues, history, compactor>>

\* The cycle is dropped, on a conflict or when no attempt is left, for the main last fetched.
Drop ==
  /\ pc = "push"
  /\ ~Merges \/ tries + 1 = PushTries
  /\ \E tree \in {main, base} : Checkout(tree)
  /\ pc' = "sync"
  /\ UNCHANGED <<main, issues, history, compactor>>

\* The job ends, by its time limit or otherwise; its checkout is gone.
Kill ==
  /\ pc # "none"
  /\ pc' = "none"
  /\ Checkout(FirstTree)
  /\ UNCHANGED <<main, issues, history, compactor>>

-----------------------------------------------------------------------------
(***************************************************************************)
(* The compaction job: checkout; compact; fetch, reset --soft, add         *)
(* layer9.json, commit; push once.  The index is that of the checkout.     *)
(***************************************************************************)

StartCompaction ==
  /\ Compacting /\ compactor.pc = "none"
  /\ compactor' = [pc |-> "compact", index |-> main]
  /\ UNCHANGED <<main, loop, issues, history>>

\* The commit replaces main, or is rejected because main moved after the fetch.
PushCompacted ==
  /\ compactor.pc = "compact"
  /\ main' \in {main, [compactor.index EXCEPT !.core.lean = TRUE]}
  /\ undone' = undone \cup (main.box \ main'.box)
  /\ compactor' = [pc |-> "done", index |-> FirstTree]
  /\ UNCHANGED <<loop, issues, pasted, attempted, answered>>

-----------------------------------------------------------------------------
Cycle ==
  \/ Sync \/ Think \/ Decide \/ Raise \/ SaveNews \/ SaveCore \/ SaveExtensions
  \/ File \/ Commit \/ Publish \/ Rebase \/ Drop

Next ==
  \/ \E d \in Decision : Paste(d)
  \/ Develop \/ StartJob \/ Cycle \/ Break \/ Kill
  \/ StartCompaction \/ PushCompacted

Spec == Init /\ [][Next]_vars

-----------------------------------------------------------------------------
(***************************************************************************)
(* Properties.                                                             *)
(***************************************************************************)

\* Whatever cycles, operators and developers do at the same time, a commit never takes back what
\* an earlier one brought to main: no fact and no applied decision leaves the core, no code and no
\* filed order disappears, and a decision leaves the box only with a cycle that has read it.  Only
\* the compaction job, whose index is older, may do that.
NothingReverted ==
  [][PushCompacted \/ /\ main.core.known \subseteq main'.core.known
                      /\ main.filed \subseteq main'.filed
                      /\ main.code <= main'.code
                      /\ main.core.lean => main'.core.lean
                      /\ \A d \in main.box \ main'.box : memory.read /\ d \in memory.learned]_vars

\* An order that main records as filed has been handed to the tracker: the record, which blocks
\* the order for its cooldown, is never pushed for an order nobody was asked to carry out.
RecordedOrdersAreFiled == main.filed \subseteq attempted

\* A cycle that has read the box ends with what it leaves at main: by a push, or because there is
\* nothing to push.
Done == memory.read /\ (Publish \/ (Commit /\ work = base /\ main = base))

=============================================================================
