---------------------------- MODULE ComponentProofs ----------------------------
(***************************************************************************)
(* What holds, for every value of their constants, of components that are  *)
(* instances wherever they are used: the two abstract specifications, the  *)
(* forums, the method shelf, the second store of the kernel, the arms that *)
(* spend, the deep methods on open gaps, the import of the old stores, the *)
(* chain of the ledger, the explorer of the solution space, the persona,   *)
(* the evidence of trials, the spaces, the verifier and the provisional    *)
(* layer.  They have nothing to do with each other; each is an instance    *)
(* with the variables and the constants of its module.                     *)
(***************************************************************************)
EXTENDS Integers, Sequences, FiniteSets, FiniteSetTheorems, WellFoundedInduction, TLAPS

CONSTANTS Thing, Operation
VARIABLES standing, tainted, validated, inForce, log, draft

Contract == INSTANCE Standing
Log == INSTANCE CommitLog

CONSTANTS Pasted, Reaction, Draft, LoopLive, RelayLive, Enforce, Raising, Ambiguous, Many
VARIABLES main, pc, base, work, memory, relay, sent, pasted

F == INSTANCE Forum

CONSTANTS
  Method, Task, Titled, Condition, Case, MinEffect, Synthetic, MaxTrials, Chances, Window, MaxAge,
  MaxRetire, MaxSwept, MaxSandbox, MaxRetrials, MaxRuns, Killed
VARIABLES phase, shelf, sealed, ledger, core, saved, skills, advice, series

S == INSTANCE MethodShelf WITH pc <- phase

CONSTANT MaxOps
VARIABLES backend, database, checkpoint, head, where, journal, objects, count

R == INSTANCE RuntimeStore

CONSTANTS
  Conflict, Idea, Cap, CallCost, CouncilCost, PanelCost, RunsPerWeek, Units, Seats, Followups,
  CouncilEvery, PanelEvery, AskedMax, MaxDropped, MaxUnbilled
VARIABLES arm, points, budget, ext, circle, units, disk, origin, bill

A == INSTANCE Arms WITH pc <- arm, main <- origin

CONSTANTS KindOf, Gap, GapKind, Severity, Relevance, Held, Fit, MinSupport
VARIABLES open, closed, trialled, adopted

O == INSTANCE Operators WITH ledger <- trialled

CONSTANTS Documents
VARIABLES doc, left, claims, goals, methods, idmap, imported

M == INSTANCE Migration

CONSTANTS Object, MaxEvents
VARIABLES folded, intact

L == INSTANCE Chain

CONSTANTS Point, Axis, Topic, First, Top, MaxSteps
VARIABLES present, anchored, seen, trace, state

N == INSTANCE SolutionSpace

CONSTANTS Claim, Theme, Sink, Threshold, MaxAnchors, Reason, Cost, MaxCalls
VARIABLES todo, lines, page, outputs, calls, spent, runs

P == INSTANCE Persona

CONSTANTS Place, Open, Variant, Trial, Source, Reports, Trusted, Reading, MaxRecorded, MaxPython
VARIABLES newest, python

E == INSTANCE TrialEvidence

CONSTANTS Kind, Edge, Status, Writer, User, Project
VARIABLES links, overlays, scopes, snapshot, read

D == INSTANCE Spaces

CONSTANTS Answer, Reps, Calls, Modes
VARIABLES mode, queries, usable, action, filed

Q == INSTANCE Verifier WITH asked <- queries

CONSTANTS Strong, Hints, Taggable, MaxClaims, MaxDisputes, MaxStaged, MaxIngest, MaxReview, Ttl,
          Archive, MaxCycle
VARIABLES cycle, live, raised, dead, hints, resolved, gain, decided, disputes, layer

K == INSTANCE Hindsight WITH store <- layer

-----------------------------------------------------------------------------
(***************************************************************************)
(* The abstract specifications: what follows from the promise alone.       *)
(***************************************************************************)

\* Authority over contaminated material has a sign-off behind it for as long as it lasts:
\* contamination is fixed before authority can be granted, and sign-offs stay.
THEOREM SignOffBehindAuthority == Contract!StandingSpec => []Contract!SignedOff
<1> DEFINE AbsentIsClear == \A t \in Thing : standing[t] = "absent" => t \notin inForce
           IInv == Contract!StandingTypeOK /\ AbsentIsClear /\ Contract!SignedOff
<1>1. Contract!StandingInit => IInv
  BY DEF Contract!StandingInit, Contract!StandingTypeOK, Contract!SignedOff
<1>2. IInv /\ [Contract!StandingNext]_Contract!svars => IInv'
  <2> SUFFICES ASSUME IInv, [Contract!StandingNext]_Contract!svars PROVE IInv'
    OBVIOUS
  <2>1. CASE \E t \in Thing, contaminated \in BOOLEAN : Contract!Introduce(t, contaminated)
    BY <2>1 DEF Contract!Introduce, Contract!StandingTypeOK, Contract!SignedOff
  <2>2. CASE \E t \in Thing : Contract!SignOff(t)
    BY <2>2 DEF Contract!SignOff, Contract!StandingTypeOK, Contract!SignedOff
  <2>3. CASE \E t \in Thing : Contract!Grant(t)
    BY <2>3 DEF Contract!Grant, Contract!StandingTypeOK, Contract!SignedOff
  <2>4. CASE \E t \in Thing : Contract!GiveUp(t)
    BY <2>4 DEF Contract!GiveUp, Contract!StandingTypeOK, Contract!SignedOff
  <2>5. CASE UNCHANGED Contract!svars
    BY <2>5 DEF Contract!svars, Contract!StandingTypeOK, Contract!SignedOff
  <2>6. QED
    BY <2>1, <2>2, <2>3, <2>4, <2>5 DEF Contract!StandingNext
<1>3. IInv => Contract!SignedOff
  OBVIOUS
<1>4. QED
  BY <1>1, <1>2, <1>3, PTL DEF Contract!StandingSpec

\* The draft of every process continues what is committed, however many processes were
\* killed before it.
THEOREM DraftContinues == Log!LogSpec => [](Log!LogTypeOK /\ Log!DraftExtendsLog)
<1> DEFINE IInv == Log!LogTypeOK /\ Log!DraftExtendsLog
<1>1. Log!LogInit => IInv
  BY DEF Log!LogInit, Log!LogTypeOK, Log!DraftExtendsLog, Log!Extends
<1>2. IInv /\ [Log!LogNext]_Log!lvars => IInv'
  <2> SUFFICES ASSUME IInv, [Log!LogNext]_Log!lvars PROVE IInv'
    OBVIOUS
  <2>1. CASE \E op \in Operation : Log!Record(op)
    BY <2>1 DEF Log!Record, Log!LogTypeOK, Log!DraftExtendsLog, Log!Extends
  <2>2. CASE Log!Commit
    BY <2>2 DEF Log!Commit, Log!LogTypeOK, Log!DraftExtendsLog, Log!Extends
  <2>3. CASE Log!Restart
    BY <2>3 DEF Log!Restart, Log!LogTypeOK, Log!DraftExtendsLog, Log!Extends
  <2>4. CASE UNCHANGED Log!lvars
    BY <2>4 DEF Log!lvars, Log!LogTypeOK, Log!DraftExtendsLog, Log!Extends
  <2>5. QED
    BY <2>1, <2>2, <2>3, <2>4 DEF Log!LogNext
<1>3. QED
  BY <1>1, <1>2, PTL DEF Log!LogSpec

\* Nothing committed is ever lost or changed.
THEOREM CommittedIsForever == Log!LogSpec => Log!LogOnlyGrows
<1>1. Log!LogTypeOK /\ Log!DraftExtendsLog /\ [Log!LogNext]_Log!lvars => [Log!Extends(log', log)]_Log!lvars
  BY DEF Log!LogNext, Log!Record, Log!Commit, Log!Restart, Log!lvars, Log!LogTypeOK,
       Log!DraftExtendsLog, Log!Extends
<1>2. QED
  BY <1>1, DraftContinues, PTL DEF Log!LogSpec, Log!LogOnlyGrows

-----------------------------------------------------------------------------
(***************************************************************************)
(* Forum.  Nobody but the cycle writes the claims and the extensions, so   *)
(* while it is at work those at main are those it started from; the drop   *)
(* box only grows at main and is emptied in the checkout alone, and the    *)
(* inbox only grows.                                                       *)
(***************************************************************************)
HeardIsClaimed ==
  /\ \A tree \in {main, base, work, relay.base, relay.tree} : tree.ext.seen \subseteq tree.core
  /\ memory.ext.seen \subseteq memory.core

\* The checkout has what it was reset to, what it had in memory or both; the claims come first.
CheckoutFits ==
  /\ pc = "ext" => work.core = memory.core
  /\ pc # "sync" => work.ext.seen \subseteq memory.core

\* At main since the checkout was reset: claims and extensions as they were, replies added.
MainKeeps ==
  pc # "sync" =>
    /\ main.core = base.core /\ main.ext = base.ext
    /\ base.box \subseteq main.box /\ base.inbox \subseteq main.inbox

\* What is emptied out of the drop box is in the inbox.
BoxFolded ==
  /\ pc # "sync" =>
       /\ base.inbox \subseteq work.inbox
       /\ work.box = base.box \/ (work.box = {} /\ base.box \subseteq work.inbox)
  /\ pc = "fold" => work.box = base.box
  /\ pc = "reset" => base.box \subseteq work.inbox

RelayKeeps ==
  /\ relay.tree.core = relay.base.core /\ relay.tree.ext = relay.base.ext
  /\ relay.tree.box = relay.base.box
  /\ relay.base.inbox \subseteq relay.tree.inbox

ForumInv ==
  /\ F!TypeOK /\ F!RepliesAreKept
  /\ HeardIsClaimed /\ CheckoutFits /\ MainKeeps /\ BoxFolded /\ RelayKeeps

\* The assumption of Forum, under which its theorems hold.
LEMMA ForumTypes ==
  ASSUME F!ForumAssumption
  PROVE  /\ F!FirstTree \in F!Tree /\ F!FirstTree.ext \in F!Ext
         /\ DOMAIN F!FirstTree = {"box", "inbox", "outbox", "approved", "core", "ext"}
         /\ F!Merges => F!Merged = [box |-> F!Merged.box, inbox |-> F!Merged.inbox,
              outbox |-> F!Merged.outbox, approved |-> F!Merged.approved,
              core |-> F!Merged.core, ext |-> F!Merged.ext]
<1>1. F!NoDrafts \in [Draft -> F!DraftStatus]
  BY DEF F!NoDrafts, F!DraftStatus
<1>2. DOMAIN F!FirstTree = {"box", "inbox", "outbox", "approved", "core", "ext"}
  BY DEF F!FirstTree
<1>3. F!FirstTree \in F!Tree /\ F!FirstTree.ext \in F!Ext
  BY <1>1 DEF F!FirstTree, F!Tree, F!Ext
<1>4. F!Merged = [box |-> F!Merged.box, inbox |-> F!Merged.inbox,
              outbox |-> F!Merged.outbox, approved |-> F!Merged.approved,
              core |-> F!Merged.core, ext |-> F!Merged.ext]
  BY <1>2 DEF F!Merged
<1>5. QED
  BY <1>2, <1>3, <1>4

LEMMA ForumInit ==
  ASSUME F!ForumAssumption, F!Init
  PROVE  ForumInv
<1>1. F!TypeOK
  BY ForumTypes DEF F!Init, F!TypeOK, F!Steps, F!NoMemory, F!ForumAssumption
<1>2. QED
  BY <1>1 DEF F!Init, F!FirstTree, F!NoMemory, ForumInv, F!RepliesAreKept, HeardIsClaimed,
       CheckoutFits, MainKeeps, BoxFolded, RelayKeeps

LEMMA ForumTypeStep ==
  ASSUME F!ForumAssumption, F!TypeOK, F!Next
  PROVE  F!TypeOK'
<1> USE DEF F!TypeOK, F!Steps, F!cycle
<1>1. ASSUME NEW r \in Pasted, F!Paste(r) PROVE F!TypeOK'
  BY <1>1 DEF F!Paste, F!Tree
<1>2. ASSUME NEW d \in Draft, F!Approve(d) PROVE F!TypeOK'
  BY <1>2 DEF F!Approve, F!Tree
<1>3. CASE F!Sync
  BY <1>3 DEF F!Sync, F!Tree
<1>4. CASE F!Fold
  BY <1>4 DEF F!Fold, F!Tree, F!Reply
<1>5. CASE F!Reset
  BY <1>5 DEF F!Reset, F!Tree
<1>6. CASE F!Pull
  BY <1>6 DEF F!Pull, F!Tree, F!Reply
<1>7. CASE F!Hear
  BY <1>7 DEF F!Hear, F!Tree, F!Ext
<1>8. CASE F!WriteDraft
  BY <1>8 DEF F!WriteDraft, F!Ext, F!DraftStatus
<1>9. ASSUME NEW d \in Draft, F!Post(d) PROVE F!TypeOK'
  BY <1>9 DEF F!Post, F!OnceMore, F!Ext, F!DraftStatus, F!ForumAssumption
<1>10. ASSUME NEW d \in Draft, F!PostFails(d) PROVE F!TypeOK'
  BY <1>10 DEF F!PostFails, F!OnceMore, F!ForumAssumption
<1>11. CASE F!PostsNoMore \/ F!Break
  BY <1>11 DEF F!PostsNoMore, F!Break
<1>12. CASE F!SaveOutbox
  BY <1>12 DEF F!SaveOutbox, F!Tree, F!Ext
<1>13. CASE F!SaveCore
  BY <1>13 DEF F!SaveCore, F!Tree
<1>14. CASE F!SaveExtensions
  BY <1>14 DEF F!SaveExtensions, F!Tree
<1>15. CASE F!Push
  <2>1. F!Merged \in F!Tree
    BY ForumTypes DEF F!Merged, F!Tree
  <2>2. QED
    BY <1>15, <2>1 DEF F!Push
<1>16. CASE F!RelayPull
  BY <1>16 DEF F!RelayPull
<1>17. CASE F!RelayPosts
  <2>1. relay.tree \in F!Tree
    BY DEF F!TypeOK
  <2>2. PICK ds \in SUBSET (IF RelayLive THEN F!RelayPostable ELSE {}) :
          /\ sent' = [d \in Draft |-> IF d \in ds /\ sent[d] < Many THEN sent[d] + 1 ELSE sent[d]]
          /\ relay' = [relay EXCEPT !.pc = "fetch",
               !.tree.outbox = [d \in Draft |-> IF d \in ds THEN "posted" ELSE @[d]]]
    BY <1>17 DEF F!RelayPosts
  <2>3. [d \in Draft |-> IF d \in ds THEN "posted" ELSE relay.tree.outbox[d]]
          \in [Draft -> F!DraftStatus]
    BY <2>1 DEF F!Tree, F!DraftStatus
  <2>4. relay'.tree \in F!Tree /\ relay' = [relay EXCEPT !.pc = "fetch", !.tree = relay'.tree]
    BY <2>1, <2>2, <2>3 DEF F!Tree
  <2>5. sent' \in [Draft -> 0..Many]
    BY <2>2 DEF F!ForumAssumption
  <2>6. QED
    BY <1>17, <2>4, <2>5 DEF F!RelayPosts
<1>18. CASE F!RelayFetches
  <2>1. PICK rs \in SUBSET Reaction :
          relay' = [relay EXCEPT !.pc = "push", !.tree.inbox = @ \cup rs]
    BY <1>18 DEF F!RelayFetches
  <2>2. relay'.tree \in F!Tree /\ relay' = [relay EXCEPT !.pc = "push", !.tree = relay'.tree]
    BY <2>1 DEF F!Tree, F!Reply
  <2>3. QED
    BY <1>18, <2>2 DEF F!RelayFetches
<1>19. CASE F!RelayPushes
  BY <1>19 DEF F!RelayPushes
<1>20. CASE F!RelayKilled
  BY <1>20 DEF F!RelayKilled
<1>21. QED
  BY <1>1, <1>2, <1>3, <1>4, <1>5, <1>6, <1>7, <1>8, <1>9, <1>10, <1>11, <1>12, <1>13, <1>14,
     <1>15, <1>16, <1>17, <1>18, <1>19, <1>20
     DEF F!Next, F!Operator, F!Cycle, F!Relay

\* Everything of the invariant but the types.
ForumParts == F!RepliesAreKept /\ HeardIsClaimed /\ CheckoutFits /\ MainKeeps /\ BoxFolded /\ RelayKeeps

LEMMA MergedTree ==
  ASSUME F!ForumAssumption, ForumInv, pc = "push", F!Merges
  PROVE  /\ F!Merged.core = work.core /\ F!Merged.ext = work.ext
         /\ main.box \cup main.inbox \subseteq F!Merged.box \cup F!Merged.inbox
         /\ main.inbox \subseteq F!Merged.inbox
<1> DEFINE fields == {"box", "inbox", "outbox", "approved", "core", "ext"}
<1>1. /\ \A f \in fields : base[f] \in {work[f], main[f]} \/ work[f] = main[f]
      /\ \A f \in fields : F!Merged[f] = IF work[f] = base[f] THEN main[f] ELSE work[f]
  BY ForumTypes DEF F!Merges, F!Merged
<1>2. /\ main.core = base.core /\ main.ext = base.ext
      /\ base.box \subseteq main.box /\ base.inbox \subseteq main.inbox
      /\ base.inbox \subseteq work.inbox
      /\ work.box = base.box \/ (work.box = {} /\ base.box \subseteq work.inbox)
  BY DEF ForumInv, MainKeeps, BoxFolded
<1>3. F!Merged.core = work.core /\ F!Merged.ext = work.ext
  BY <1>1, <1>2
<1>4. main.inbox \subseteq F!Merged.inbox /\ work.inbox \subseteq F!Merged.inbox
  BY <1>1, <1>2
<1>5. main.box \subseteq F!Merged.box \cup F!Merged.inbox
  BY <1>1, <1>2, <1>4
<1>6. QED
  BY <1>3, <1>4, <1>5

LEMMA ForumStep ==
  ASSUME F!ForumAssumption, ForumInv, F!Next
  PROVE  ForumInv'
<1>1. F!TypeOK'
  BY ForumTypeStep DEF ForumInv
<1> SUFFICES ForumParts'
  BY <1>1 DEF ForumInv, ForumParts
<1> USE DEF ForumInv, ForumParts, F!RepliesAreKept, HeardIsClaimed, CheckoutFits, MainKeeps,
        BoxFolded, RelayKeeps, F!TypeOK, F!cycle
<1>2. ASSUME NEW r \in Pasted, F!Paste(r) PROVE ForumParts'
  BY <1>2 DEF F!Paste, F!Tree
<1>3. ASSUME NEW d \in Draft, F!Approve(d) PROVE ForumParts'
  BY <1>3 DEF F!Approve, F!Tree
<1>4. CASE F!Sync
  BY <1>4 DEF F!Sync
<1>5. CASE F!Fold
  BY <1>5 DEF F!Fold, F!Tree
<1>6. CASE F!Reset
  BY <1>6 DEF F!Reset, F!Tree
<1>7. CASE F!Pull
  BY <1>7 DEF F!Pull, F!Tree
<1>8. CASE F!Hear
  BY <1>8 DEF F!Hear, F!Ext
<1>9. CASE F!WriteDraft
  BY <1>9 DEF F!WriteDraft, F!Ext
<1>10. ASSUME NEW d \in Draft, F!Post(d) PROVE ForumParts'
  BY <1>10 DEF F!Post, F!Ext
<1>11. ASSUME NEW d \in Draft, F!PostFails(d) PROVE ForumParts'
  BY <1>11 DEF F!PostFails
<1>12. CASE F!PostsNoMore
  BY <1>12 DEF F!PostsNoMore
<1>13. CASE F!SaveOutbox
  BY <1>13 DEF F!SaveOutbox, F!Tree
<1>14. CASE F!SaveCore
  BY <1>14 DEF F!SaveCore, F!Tree
<1>15. CASE F!SaveExtensions
  BY <1>15 DEF F!SaveExtensions, F!Tree
<1>16. CASE F!Break
  BY <1>16 DEF F!Break
<1>17. CASE F!Push
  <2>1. CASE main' = main
    BY <1>17, <2>1 DEF F!Push
  <2>2. CASE F!Merges /\ main' = F!Merged
    BY <1>17, <2>2, MergedTree DEF F!Push
  <2>3. QED
    BY <1>17, <2>1, <2>2 DEF F!Push
<1>18. CASE F!RelayPull
  BY <1>18 DEF F!RelayPull
<1>19. CASE F!RelayPosts
  BY <1>19 DEF F!RelayPosts, F!Tree
<1>20. CASE F!RelayFetches
  BY <1>20 DEF F!RelayFetches, F!Tree
<1>21. CASE F!RelayPushes
  BY <1>21 DEF F!RelayPushes
<1>22. CASE F!RelayKilled
  BY <1>22 DEF F!RelayKilled
<1>23. QED
  BY <1>2, <1>3, <1>4, <1>5, <1>6, <1>7, <1>8, <1>9, <1>10, <1>11, <1>12, <1>13, <1>14, <1>15,
     <1>16, <1>17, <1>18, <1>19, <1>20, <1>21, <1>22
     DEF F!Next, F!Operator, F!Cycle, F!Relay

\* No reply that the operator has pasted is lost, and none counts as heard without its claim, for
\* any replies, drafts and switches, through cycles that raise or are dropped by a push and passes
\* of the relay that are killed or rejected.  (humans.py, the relay and the loop's rebase)
THEOREM RepliesKept ==
  ASSUME F!ForumAssumption
  PROVE  F!Spec => []F!RepliesAreKept
<1>1. F!Init => ForumInv
  BY ForumInit
<1>2. ForumInv /\ [F!Next]_F!vars => ForumInv'
  <2>1. ForumInv /\ UNCHANGED F!vars => ForumInv'
    BY DEF ForumInv, F!vars, F!cycle, F!TypeOK, F!RepliesAreKept, HeardIsClaimed, CheckoutFits,
         MainKeeps, BoxFolded, RelayKeeps
  <2>2. QED
    BY <2>1, ForumStep
<1>3. ForumInv => F!RepliesAreKept
  BY DEF ForumInv
<1>4. QED
  BY <1>1, <1>2, <1>3, PTL DEF F!Spec

-----------------------------------------------------------------------------
(***************************************************************************)
(* MethodShelf.  The ledger may know of fewer wins than the shelf, when a  *)
(* process was killed between the two saves.  It must never know of as     *)
(* many and date them earlier, and that for every pair of a ledger and a   *)
(* shelf that can come together: in memory, on disk, and the old ledger on *)
(* disk with the new shelf.                                                *)
(***************************************************************************)
Record == [status : {"none", "candidate", "rejected"}, runs : Nat, wins : Nat, won : 0..Window]
Entry == [known : BOOLEAN, wins : Nat, age : Nat, won : 0..Window,
          passed : SUBSET Condition, last : Condition \cup {"none"}]

\* Trials are counted with their wins, and without a win there is no date.
Counts(counters) ==
  /\ counters \in [Method -> Record]
  /\ \A m \in Method : counters[m].wins <= counters[m].runs /\ (counters[m].wins = 0 => counters[m].won = Window)

Trails(entries, counters) ==
  \A m \in Method :
    /\ entries[m].wins <= counters[m].wins
    /\ entries[m].wins = counters[m].wins => entries[m].won <= counters[m].won

\* Whatever the files say was retired stays so.
Retired(before, after) ==
  \A m \in Method : before[m].status = "rejected" => after[m].status = "rejected"

ShelfInv ==
  /\ Counts(shelf) /\ Counts(core.shelf)
  /\ core = [shelf |-> core.shelf, sealed |-> core.sealed]
  /\ {ledger, saved} \subseteq [Method -> Entry]
  /\ Trails(ledger, shelf) /\ Trails(saved, core.shelf) /\ Trails(saved, shelf)
  /\ phase = "extensions" => core.shelf = shelf
  /\ Retired(core.shelf, shelf)

LEMMA OlderFits ==
  ASSUME NEW limit \in Nat, NEW age \in 0..limit
  PROVE  /\ S!Older(age, limit) \in 0..limit
         /\ S!Older(limit, limit) = limit
         /\ \A later \in 0..limit : age <= later => S!Older(age, limit) <= S!Older(later, limit)
  BY DEF S!Older

LEMMA ShelfInit ==
  ASSUME S!MethodShelfAssumption, S!Init
  PROVE  ShelfInv
<1>1. Window \in Nat \ {0}
  BY DEF S!MethodShelfAssumption
<1>2. S!Absent \in Record /\ [S!Absent EXCEPT !.status = "candidate"] \in Record /\ S!Unknown \in Entry
  BY <1>1 DEF S!Absent, S!Unknown, Record, Entry
<1>3. Counts(shelf)
  BY <1>1, <1>2 DEF S!Init, S!Absent, Counts
<1>4. Trails(ledger, shelf)
  BY <1>1 DEF S!Init, S!Absent, S!Unknown, Trails
<1>5. QED
  BY <1>2, <1>3, <1>4 DEF S!Init, ShelfInv, Retired

\* A trial adds a run, and a win with its date.
LEMMA CountedFits ==
  ASSUME S!MethodShelfAssumption, ShelfInv, NEW done, NEW good
  PROVE  /\ Counts(S!Counted(done, good))
         /\ \A entries \in [Method -> Entry] :
              Trails(entries, shelf) => Trails(entries, S!Counted(done, good))
         /\ Retired(core.shelf, S!Counted(done, good))
<1>1. Window \in Nat /\ 0 \in 0..Window
  BY DEF S!MethodShelfAssumption
<1>2. ASSUME NEW m \in Method
      PROVE  LET new == S!Counted(done, good)[m]
             IN  /\ new \in Record
                 /\ new.wins <= new.runs /\ (new.wins = 0 => new.won = Window)
                 /\ shelf[m].wins <= new.wins
                 /\ new.wins = shelf[m].wins => new.won = shelf[m].won
  <2>1. /\ shelf[m] \in Record /\ shelf[m].wins <= shelf[m].runs
        /\ shelf[m].wins = 0 => shelf[m].won = Window
    BY DEF ShelfInv, Counts
  <2>2. CASE m \notin done
    BY <2>1, <2>2 DEF S!Counted, Record
  <2>3. CASE m \in done /\ m \in good
    <3>1. S!Counted(done, good)[m]
            = [shelf[m] EXCEPT !.runs = @ + 1, !.wins = @ + 1, !.won = 0]
      BY <2>3 DEF S!Counted
    <3>2. /\ {shelf[m].runs, shelf[m].wins, shelf[m].runs + 1, shelf[m].wins + 1} \subseteq Nat
          /\ shelf[m].won \in 0..Window
      BY <2>1 DEF Record
    <3>3. /\ S!Counted(done, good)[m] \in Record
          /\ S!Counted(done, good)[m].runs = shelf[m].runs + 1
          /\ S!Counted(done, good)[m].wins = shelf[m].wins + 1
      BY <1>1, <2>1, <3>1, <3>2 DEF Record
    <3>4. QED
      BY <1>1, <2>1, <3>2, <3>3
  <2>4. CASE m \in done /\ m \notin good
    <3>1. S!Counted(done, good)[m] = [shelf[m] EXCEPT !.runs = @ + 1, !.wins = @, !.won = @]
      BY <2>4 DEF S!Counted
    <3>2. /\ {shelf[m].runs, shelf[m].wins, shelf[m].runs + 1, shelf[m].wins + 1} \subseteq Nat
          /\ shelf[m].won \in 0..Window
      BY <2>1 DEF Record
    <3>3. /\ S!Counted(done, good)[m] \in Record
          /\ S!Counted(done, good)[m].runs = shelf[m].runs + 1
          /\ S!Counted(done, good)[m].wins = shelf[m].wins
          /\ S!Counted(done, good)[m].won = shelf[m].won
      BY <2>1, <3>1, <3>2 DEF Record
    <3>4. QED
      BY <1>1, <2>1, <3>2, <3>3
  <2>5. QED
    BY <2>2, <2>3, <2>4
<1>3. Counts(S!Counted(done, good))
  BY <1>2 DEF Counts, S!Counted
<1>4. ASSUME NEW entries \in [Method -> Entry], Trails(entries, shelf)
      PROVE  Trails(entries, S!Counted(done, good))
  <2> SUFFICES ASSUME NEW m \in Method
               PROVE  LET new == S!Counted(done, good)[m]
                      IN  /\ entries[m].wins <= new.wins
                          /\ entries[m].wins = new.wins => entries[m].won <= new.won
    BY DEF Trails
  <2>1. entries[m] \in Entry /\ shelf[m] \in Record
    BY <1>4 DEF ShelfInv, Counts
  <2>2. /\ entries[m].wins <= shelf[m].wins
        /\ entries[m].wins = shelf[m].wins => entries[m].won <= shelf[m].won
    BY <1>4 DEF Trails
  <2>3. S!Counted(done, good)[m] \in Record
    BY <1>2
  <2>4. /\ {entries[m].wins, shelf[m].wins, S!Counted(done, good)[m].wins} \subseteq Nat
        /\ shelf[m].wins <= S!Counted(done, good)[m].wins
        /\ S!Counted(done, good)[m].wins = shelf[m].wins
             => S!Counted(done, good)[m].won = shelf[m].won
    BY <1>2, <2>1, <2>3 DEF Record, Entry
  <2>5. QED
    BY <2>2, <2>4
<1>5. Retired(core.shelf, S!Counted(done, good))
  BY DEF Retired, ShelfInv, Counts, Record, S!Counted
<1>6. QED
  BY <1>3, <1>4, <1>5

\* What retires methods changes their status only.
LEMMA RejectFits ==
  ASSUME ShelfInv, NEW ms
  PROVE  /\ Counts(S!Reject(ms))
         /\ \A entries : Trails(entries, shelf) => Trails(entries, S!Reject(ms))
         /\ Retired(core.shelf, S!Reject(ms))
<1>1. ASSUME NEW m \in Method
      PROVE  LET new == S!Reject(ms)[m]
             IN  new \in Record /\ new.wins = shelf[m].wins /\ new.runs = shelf[m].runs /\ new.won = shelf[m].won
  BY <1>1 DEF ShelfInv, Counts, Record, S!Reject
<1>2. Retired(core.shelf, S!Reject(ms))
  BY DEF Retired, ShelfInv, Counts, Record, S!Reject
<1>3. QED
  BY <1>1, <1>2 DEF ShelfInv, Counts, Trails, S!Reject

\* A look at the live methods brings the ledger up to date.
LEMMA NotedFits ==
  ASSUME S!MethodShelfAssumption, ShelfInv
  PROVE  /\ [m \in Method |-> S!Noted(m)] \in [Method -> Entry]
         /\ Trails([m \in Method |-> S!Noted(m)], shelf)
<1>1. ASSUME NEW m \in Method
      PROVE  /\ S!Noted(m) \in Entry
             /\ S!Noted(m).wins <= shelf[m].wins
             /\ S!Noted(m).wins = shelf[m].wins => S!Noted(m).won <= shelf[m].won
  <2>1. Window \in Nat /\ 0 \in 0..Window /\ S!Unknown \in Entry
    BY DEF S!MethodShelfAssumption, S!Unknown, Entry
  <2>2. ledger[m] \in Entry /\ shelf[m] \in Record
    BY DEF ShelfInv, Counts
  <2>3. CASE m \notin S!Live
    BY <2>1, <2>2, <2>3 DEF S!Noted, S!Unknown, ShelfInv, Counts, Record
  <2>4. CASE m \in S!Live
    <3>1. S!Noted(m) = [ledger[m] EXCEPT !.known = TRUE, !.wins = shelf[m].wins,
            !.won = IF shelf[m].wins > ledger[m].wins THEN 0 ELSE ledger[m].won]
      BY <2>4 DEF S!Noted
    <3>2. S!Noted(m) \in Entry /\ S!Noted(m).wins = shelf[m].wins
      BY <2>1, <2>2, <3>1 DEF Record, Entry
    <3>3. /\ ledger[m].wins <= shelf[m].wins
          /\ ledger[m].wins = shelf[m].wins => ledger[m].won <= shelf[m].won
      BY DEF ShelfInv, Trails
    <3>4. {ledger[m].wins, shelf[m].wins} \subseteq Nat /\ shelf[m].won \in Nat
      BY <2>1, <2>2 DEF Record, Entry
    <3>5. S!Noted(m).won = IF shelf[m].wins > ledger[m].wins THEN 0 ELSE ledger[m].won
      BY <2>2, <3>1 DEF Entry
    <3>6. QED
      BY <3>2, <3>3, <3>4, <3>5
  <2>5. QED
    BY <2>3, <2>4
<1>2. QED
  BY <1>1 DEF Trails

\* A cycle begins a cycle further from every win.
LEMMA BeginFits ==
  ASSUME S!MethodShelfAssumption, ShelfInv, S!Begin
  PROVE  ShelfInv'
<1>1. Window \in Nat /\ MaxAge \in Nat /\ 0 \in 0..Window
  BY DEF S!MethodShelfAssumption
<1>2. ASSUME NEW m \in Method
      PROVE  /\ shelf'[m] \in Record /\ ledger'[m] \in Entry
             /\ shelf'[m].runs = core.shelf[m].runs /\ shelf'[m].wins = core.shelf[m].wins
             /\ shelf'[m].won = S!Older(core.shelf[m].won, Window)
             /\ ledger'[m].wins = saved[m].wins
             /\ ledger'[m].won = S!Older(saved[m].won, Window)
  <2>1. core.shelf[m] \in Record /\ saved[m] \in Entry
    BY DEF ShelfInv, Counts
  <2>2. shelf'[m] = [core.shelf[m] EXCEPT !.won = S!Older(core.shelf[m].won, Window)]
    BY <2>1 DEF S!Begin, Record
  <2>3. PICK age \in {saved[m].age, S!Older(saved[m].age, MaxAge)} :
          ledger'[m] = [saved[m] EXCEPT !.won = S!Older(saved[m].won, Window), !.age = age]
    BY <2>1 DEF S!Begin, Entry
  <2>4. /\ S!Older(core.shelf[m].won, Window) \in 0..Window
        /\ S!Older(saved[m].won, Window) \in 0..Window /\ age \in Nat
    BY <1>1, <2>1, OlderFits DEF Record, Entry, S!Older
  <2>5. QED
    BY <2>1, <2>2, <2>3, <2>4 DEF Record, Entry
<1>3. /\ shelf' = [m \in Method |-> shelf'[m]] /\ ledger' = [m \in Method |-> ledger'[m]]
      /\ core' = [shelf |-> shelf', sealed |-> core.sealed] /\ saved' = ledger'
      /\ phase' = "harvest"
  BY DEF S!Begin, S!Then, ShelfInv
<1>4. Counts(shelf')
  <2>1. ASSUME NEW m \in Method PROVE shelf'[m].wins <= shelf'[m].runs
                                      /\ (shelf'[m].wins = 0 => shelf'[m].won = Window)
    BY <1>1, <1>2, OlderFits DEF ShelfInv, Counts
  <2>2. QED
    BY <1>2, <1>3, <2>1 DEF Counts
<1>5. Trails(ledger', shelf')
  <2> SUFFICES ASSUME NEW m \in Method
               PROVE  /\ ledger'[m].wins <= shelf'[m].wins
                      /\ ledger'[m].wins = shelf'[m].wins => ledger'[m].won <= shelf'[m].won
    BY DEF Trails
  <2>1. /\ saved[m].wins <= core.shelf[m].wins
        /\ saved[m].wins = core.shelf[m].wins => saved[m].won <= core.shelf[m].won
    BY DEF ShelfInv, Trails
  <2>2. saved[m].won \in 0..Window /\ core.shelf[m].won \in 0..Window
    BY DEF ShelfInv, Counts, Record, Entry
  <2>3. QED
    BY <1>1, <1>2, <2>1, <2>2, OlderFits
<1>6. QED
  BY <1>2, <1>3, <1>4, <1>5 DEF ShelfInv, Retired

LEMMA ShelfStep ==
  ASSUME S!MethodShelfAssumption, ShelfInv, S!Next
  PROVE  ShelfInv'
<1> USE DEF S!Then
<1>1. CASE S!Begin
  BY <1>1, BeginFits
<1>2. ASSUME NEW ms \in SUBSET Method, S!Shelve(ms) PROVE ShelfInv'
  <2>1. ASSUME NEW m \in Method
        PROVE  shelf'[m] \in Record /\ shelf'[m].runs = shelf[m].runs
               /\ shelf'[m].wins = shelf[m].wins /\ shelf'[m].won = shelf[m].won
               /\ (shelf[m].status = "rejected" => shelf'[m].status = "rejected")
    BY <1>2 DEF S!Shelve, ShelfInv, Counts, Record
  <2>2. QED
    BY <1>2, <2>1 DEF S!Shelve, S!files, ShelfInv, Counts, Trails, Retired
<1>3. ASSUME NEW done \in SUBSET Method, NEW good \in SUBSET Method, NEW c \in Condition,
             S!Simulate(done, good, c)
      PROVE  ShelfInv'
  <2>1. /\ Counts(shelf') /\ Trails(ledger, shelf') /\ Trails(saved, shelf')
        /\ Retired(core.shelf, shelf')
    BY <1>3, CountedFits DEF S!Simulate, ShelfInv
  <2>2. ASSUME NEW m \in Method
        PROVE  ledger'[m] \in Entry /\ ledger'[m].wins = ledger[m].wins
               /\ ledger'[m].won = ledger[m].won
    <3>1. ledger[m] \in Entry /\ c \in Condition
      BY <1>3 DEF ShelfInv
    <3>2. ledger'[m] = IF m \notin done THEN ledger[m]
                       ELSE [ledger[m] EXCEPT !.last = c,
                                              !.passed = @ \cup {c : x \in good \cap {m}}]
      BY <1>3 DEF S!Simulate
    <3>3. CASE m \notin done
      BY <3>1, <3>2, <3>3
    <3>4. CASE m \in done
      <4> DEFINE p == ledger[m].passed \cup {c : x \in good \cap {m}}
      <4>1. ledger'[m] = [ledger[m] EXCEPT !.last = c, !.passed = p]
        BY <3>2, <3>4, Zenon
      <4>2. p \in SUBSET Condition
        BY <3>1 DEF Entry
      <4> HIDE DEF p
      <4>3. PICK q \in SUBSET Condition :
              ledger'[m] = [ledger[m] EXCEPT !.last = c, !.passed = q]
        BY <4>1, <4>2, Zenon
      <4>4. PICK e \in Entry : e = ledger[m]
        BY <3>1
      <4>5. ledger'[m] = [e EXCEPT !.last = c, !.passed = q]
        BY <4>3, <4>4, Zenon
      <4>6. /\ [e EXCEPT !.last = c, !.passed = q] \in Entry
            /\ [e EXCEPT !.last = c, !.passed = q].wins = e.wins
            /\ [e EXCEPT !.last = c, !.passed = q].won = e.won
        BY <3>1 DEF Entry
      <4>7. QED
        BY <4>4, <4>5, <4>6, Zenon
    <3>5. QED
      BY <3>3, <3>4
  <2>3. ledger' \in [Method -> Entry] /\ Trails(ledger', shelf')
    BY <1>3, <2>1, <2>2 DEF S!Simulate, Trails
  <2>4. QED
    BY <1>3, <2>1, <2>3 DEF S!Simulate, S!files, ShelfInv
<1>4. CASE S!Retire
  <2>1. PICK ms : shelf' = S!Reject(ms)
    BY <1>4 DEF S!Retire
  <2>2. QED
    BY <1>4, <2>1, RejectFits, NotedFits DEF S!Retire, S!files, ShelfInv
<1>5. CASE S!Sweep
  <2>1. PICK ms : shelf' = S!Reject(ms)
    BY <1>5 DEF S!Sweep
  <2>2. QED
    BY <1>5, <2>1, RejectFits DEF S!Sweep, S!files, ShelfInv
<1>6. CASE S!Try
  <2>1. PICK done, good : shelf' = S!Counted(done, good)
    BY <1>6 DEF S!Try
  <2>2. QED
    BY <1>6, <2>1, CountedFits DEF S!Try, ShelfInv
<1>7. CASE S!Retry
  <2>1. PICK done, good : shelf' = S!Counted(done, good)
    BY <1>7 DEF S!Retry
  <2>2. QED
    BY <1>7, <2>1, CountedFits DEF S!Retry, ShelfInv
<1>8. ASSUME NEW junk \in SUBSET Method, S!Weed(junk) PROVE ShelfInv'
  BY <1>8, RejectFits DEF S!Weed, S!files, ShelfInv
<1>9. CASE S!Project
  BY <1>9 DEF S!Project, ShelfInv
<1>10. CASE S!SaveCore
  BY <1>10 DEF S!SaveCore, ShelfInv, Retired
<1>11. CASE S!SaveExtensions
  BY <1>11 DEF S!SaveExtensions, ShelfInv
<1>12. CASE S!Crash
  BY <1>12 DEF S!Crash, S!files, ShelfInv, Retired
<1>13. ASSUME NEW m \in Method, S!Follow(m) PROVE ShelfInv'
  BY <1>13 DEF S!Follow, ShelfInv
<1>14. QED
  BY <1>1, <1>2, <1>3, <1>4, <1>5, <1>6, <1>7, <1>8, <1>9, <1>10, <1>11, <1>12, <1>13
     DEF S!Next, S!Go

\* A method that has won a trial within the window is not retired for want of a gain, for any
\* methods, limits and outcomes, wherever a cycle was killed: also where the shelf was saved with
\* the win and the ledger without it.  (trials.py:150-155)
THEOREM WinsAreSafe ==
  ASSUME S!MethodShelfAssumption
  PROVE  S!Spec => S!WinsProtect
<1> DEFINE Protects == \A m \in Method :
             phase = "retire" /\ m \in S!Live /\ shelf'[m].status = "rejected"
               => shelf[m].won >= Window
<1>1. S!Init => ShelfInv
  BY ShelfInit
<1>2. ShelfInv /\ [S!Next]_S!vars => ShelfInv'
  <2>1. ShelfInv /\ UNCHANGED S!vars => ShelfInv'
    BY DEF ShelfInv, S!vars
  <2>2. QED
    BY <2>1, ShelfStep
<1>3. ShelfInv /\ S!Next => Protects
  <2> SUFFICES ASSUME ShelfInv, S!Next, NEW m \in Method, phase = "retire", m \in S!Live,
                      shelf'[m].status = "rejected"
               PROVE  shelf[m].won >= Window
    OBVIOUS
  <2>1. Window \in Nat \ {0} /\ MaxTrials \in Nat \ {0}
    BY DEF S!MethodShelfAssumption
  <2>2. /\ shelf[m] \in Record /\ ledger[m] \in Entry /\ shelf[m].status = "candidate"
        /\ shelf[m].wins <= shelf[m].runs /\ (shelf[m].wins = 0 => shelf[m].won = Window)
        /\ ledger[m].wins <= shelf[m].wins
        /\ ledger[m].wins = shelf[m].wins => ledger[m].won <= shelf[m].won
    BY DEF ShelfInv, Counts, Trails, S!Live
  <2>3. CASE S!Retire
    <3>1. S!Due(m, S!Noted(m))
      BY <2>2, <2>3 DEF S!Retire, S!Reject, Record
    <3>2. CASE S!Outlived(m, S!Noted(m))
      BY <2>1, <2>2, <3>2 DEF S!Outlived, Record
    <3>3. CASE ~S!RecentWin(S!Noted(m))
      <4>1. S!Noted(m).won = IF shelf[m].wins > ledger[m].wins THEN 0 ELSE ledger[m].won
        BY <2>2 DEF S!Noted, Entry
      <4>2. ~(S!Noted(m).won < Window)
        BY <3>3 DEF S!RecentWin
      <4>3. QED
        BY <2>1, <2>2, <4>1, <4>2 DEF Record, Entry
    <3>4. QED
      BY <3>1, <3>2, <3>3 DEF S!Due
  <2>4. CASE S!Crash
    BY <2>2, <2>4 DEF S!Crash, ShelfInv, Retired
  <2>5. QED
    BY <2>2, <2>3, <2>4
       DEF S!Next, S!Go, S!Then, S!Begin, S!Shelve, S!Simulate, S!Sweep, S!Try, S!Retry, S!Weed,
           S!Project, S!SaveCore, S!SaveExtensions, S!Follow
<1>4. ShelfInv /\ [S!Next]_S!vars => [Protects]_S!vars
  BY <1>3
<1>5. QED
  BY <1>1, <1>2, <1>4, PTL DEF S!Spec, S!WinsProtect

-----------------------------------------------------------------------------
(***************************************************************************)
(* RuntimeStore.  The database is written before the journal, so a save of *)
(* the backend that writes both leaves it ahead, never behind.  The other  *)
(* backend leaves it where it is.                                          *)
(***************************************************************************)
File == [there : BOOLEAN, journal : SUBSET Nat, objects : SUBSET Nat]

\* Between the first and the last write of a save.
SaveFits ==
  /\ where \in {"database", "checkpoint"} => backend = "sqlite"
  /\ where \in {"checkpoint", "journal"} /\ backend = "sqlite" =>
       database.there /\ database.journal = journal

RuntimeInv ==
  /\ {database, checkpoint, head} \subseteq File
  /\ backend \in {"json", "sqlite"}
  /\ where \in {"down", "idle", "database", "checkpoint", "journal"}
  /\ journal \subseteq Nat /\ objects \subseteq Nat /\ count \in Nat
  /\ ~head.there => head.journal = {}
  /\ database.there => database.journal = database.objects
  /\ SaveFits /\ R!LoadedWhole

LEMMA RuntimeStep ==
  ASSUME R!RuntimeStoreAssumption, RuntimeInv, R!Next
  PROVE  RuntimeInv' /\ (~R!Behind /\ R!Behind' => backend = "json")
<1> USE DEF RuntimeInv, SaveFits, R!LoadedWhole, R!Behind, File, R!disk, R!memory, R!Hold
<1>1. CASE R!Checkout
  BY <1>1 DEF R!Checkout, R!NoFile
<1>2. CASE R!Switch
  BY <1>2 DEF R!Switch
<1>3. CASE R!Load
  BY <1>3 DEF R!Load, R!LoadWarm, R!LoadCold, R!LoadJournal, R!Seed, R!Accepted, R!Seal
<1>4. CASE R!Submit
  BY <1>4 DEF R!Submit
<1>5. CASE R!BeginSave
  BY <1>5 DEF R!BeginSave
<1>6. CASE R!SaveDatabase
  BY <1>6 DEF R!SaveDatabase
<1>7. CASE R!WriteCheckpoint
  <2>1. R!NoFile \in File /\ [there |-> TRUE, journal |-> {}, objects |-> objects] \in File
    BY DEF R!NoFile
  <2>2. checkpoint' \in {R!NoFile, [there |-> TRUE, journal |-> {}, objects |-> objects]}
    BY <1>7 DEF R!WriteCheckpoint
  <2>3. checkpoint' \in File
    BY <2>1, <2>2
  <2>4. QED
    BY <1>7, <2>3 DEF R!WriteCheckpoint
<1>8. CASE R!SaveJournal
  BY <1>8 DEF R!SaveJournal
<1>9. CASE R!Checkpoint
  BY <1>9 DEF R!Checkpoint
<1>10. CASE R!Stop
  BY <1>10 DEF R!Stop
<1>11. QED
  BY <1>1, <1>2, <1>3, <1>4, <1>5, <1>6, <1>7, <1>8, <1>9, <1>10 DEF R!Next

\* Whatever a process starts from, its objects are those its journal makes, and nothing that is
\* committed is missing unless the database it starts from is behind; and a database falls behind
\* only by a save of the backend that leaves it alone: for any number of operations, kills between
\* any two writes, fresh checkouts and changes of the backend.  (desi_store.py, core_state.py)
THEOREM LoadedFromAnyFile ==
  ASSUME R!RuntimeStoreAssumption
  PROVE  R!Spec => []R!LoadedWhole /\ R!OnlyJsonOutruns
<1>1. R!Init => RuntimeInv
  BY DEF R!Init, R!NoFile, RuntimeInv, SaveFits, R!LoadedWhole, R!Behind, File
<1>2. RuntimeInv /\ [R!Next]_R!vars
        => RuntimeInv' /\ [~R!Behind /\ R!Behind' => backend = "json"]_R!vars
  <2>1. RuntimeInv /\ UNCHANGED R!vars => RuntimeInv'
    BY DEF RuntimeInv, SaveFits, R!LoadedWhole, R!Behind, R!vars, R!disk, R!memory
  <2>2. QED
    BY <2>1, RuntimeStep
<1>3. RuntimeInv => R!LoadedWhole
  BY DEF RuntimeInv
<1>4. QED
  BY <1>1, <1>2, <1>3, PTL DEF R!Spec, R!OnlyJsonOutruns

-----------------------------------------------------------------------------
(***************************************************************************)
(* Arms.  A call is admitted when it and its like in every run still to    *)
(* come fit into what remains, a round of the panel when it fits itself:   *)
(* neither passes the cap.  A voice of the circle is admitted while        *)
(* anything remains, and may pass it by what it costs.                     *)
(***************************************************************************)
Purse == [spent : Nat, runs : 0..RunsPerWeek]

Bound == Cap + CouncilCost

Within(purse) == purse \in Purse /\ purse.spent < Bound

\* What has been paid is in the purse on the disk, or was lost with a purse that was within the
\* bound, or was never counted.
Accounted(on) ==
  bill.paid <= on.budget.spent + bill.dropped * Bound + bill.unbilled * CallCost

ArmsInv ==
  /\ Within(budget) /\ Within(disk.budget) /\ Within(origin.budget)
  /\ disk = [budget |-> disk.budget, ext |-> disk.ext]
  /\ origin = [budget |-> origin.budget, ext |-> origin.ext]
  /\ bill \in [paid : Nat, dropped : Nat, unbilled : Nat]
  /\ arm \notin {"idle", "push"} => budget.spent = disk.budget.spent
  /\ Accounted(disk)

LEMMA CostTimesRuns ==
  ASSUME NEW cost \in Nat, NEW n \in Nat \ {0}
  PROVE  cost <= cost * n
<1>1. PICK m \in Nat : n = m + 1
  BY n - 1 \in Nat
<1>2. cost * n = cost * m + cost /\ cost * m \in Nat
  BY <1>1
<1>3. QED
  BY <1>2

LEMMA Products ==
  ASSUME NEW m \in Nat, NEW n \in Nat
  PROVE  m * n \in Nat /\ (m + 1) * n = m * n + n
OBVIOUS

\* Numbers of which the account consists.
LEMMA AccountIsCounted ==
  ASSUME A!ArmsAssumption, ArmsInv
  PROVE  /\ Bound \in Nat /\ CallCost \in Nat
         /\ bill.paid \in Nat /\ disk.budget.spent \in Nat /\ origin.budget.spent \in Nat
         /\ bill.dropped \in Nat /\ bill.unbilled \in Nat
         /\ bill.dropped * Bound \in Nat /\ bill.unbilled * CallCost \in Nat
<1>1. Bound \in Nat /\ CallCost \in Nat
  BY DEF A!ArmsAssumption, Bound
<1>2. /\ bill.paid \in Nat /\ disk.budget.spent \in Nat /\ origin.budget.spent \in Nat
      /\ bill.dropped \in Nat /\ bill.unbilled \in Nat
  BY DEF ArmsInv, Within, Purse
<1>3. QED
  BY <1>1, <1>2, Products

\* An amount that fits into what remains of the week.
LEMMA ChargeFits ==
  ASSUME A!ArmsAssumption, CouncilCost # 0, ArmsInv, NEW amount \in Nat,
         amount <= A!Remaining \/ (amount = CouncilCost /\ ~A!OverBudget),
         A!Charge(amount), origin' = origin, arm \notin {"idle", "push"}
  PROVE  ArmsInv'
<1>1. Cap \in Nat /\ CouncilCost \in Nat \ {0}
  BY DEF A!ArmsAssumption
<1>2. budget.spent \in Nat /\ budget.spent < Cap + CouncilCost
  BY DEF ArmsInv, Within, Purse, Bound
<1>3. budget.spent + amount < Cap + CouncilCost
  BY <1>1, <1>2 DEF A!Remaining, A!OverBudget
<1>4. /\ budget'.spent = budget.spent + amount /\ budget'.runs = budget.runs
      /\ budget' = [spent |-> budget'.spent, runs |-> budget'.runs]
  BY DEF A!Charge, ArmsInv, Within, Purse
<1>5. Within(budget')
  <2>1. budget.runs \in 0..RunsPerWeek /\ budget.spent + amount \in Nat
    BY DEF ArmsInv, Within, Purse
  <2>2. QED
    BY <1>3, <1>4, <2>1 DEF Within, Purse, Bound
<1>6. disk' = [budget |-> budget', ext |-> disk.ext]
  BY DEF A!Charge, ArmsInv
<1>7. bill' = [paid |-> bill.paid + amount, dropped |-> bill.dropped, unbilled |-> bill.unbilled]
  BY DEF A!Charge, ArmsInv
<1>8. Accounted(disk)'
  <2>1. budget.spent = disk.budget.spent /\ Accounted(disk)
    BY DEF ArmsInv
  <2>2. bill.paid + amount
          <= disk.budget.spent + amount + bill.dropped * Bound + bill.unbilled * CallCost
    BY <2>1, AccountIsCounted DEF Accounted
  <2>3. disk'.budget.spent = disk.budget.spent + amount
    BY <1>4, <1>6, <2>1
  <2>4. QED
    BY <1>7, <2>2, <2>3 DEF Accounted, Bound
<1>9. bill' \in [paid : Nat, dropped : Nat, unbilled : Nat]
  BY <1>7, AccountIsCounted
<1>10. QED
  BY <1>5, <1>6, <1>8, <1>9 DEF ArmsInv

\* A call comes back with nothing, from a file, or paid for.
LEMMA CallFits ==
  ASSUME A!ArmsAssumption, CouncilCost # 0, ArmsInv, arm \notin {"idle", "push"},
         A!Failed \/ A!Replayed \/ A!Live, origin' = origin
  PROVE  ArmsInv'
<1>1. CASE A!SpendNothing
  BY <1>1 DEF A!SpendNothing, ArmsInv, Accounted
<1>2. CASE A!BilledInVain
  <2>1. bill' = [paid |-> bill.paid + CallCost, dropped |-> bill.dropped,
                 unbilled |-> bill.unbilled + 1]
    BY <1>2 DEF A!BilledInVain, ArmsInv
  <2>2. (bill.unbilled + 1) * CallCost = bill.unbilled * CallCost + CallCost
    BY AccountIsCounted, Products
  <2>3. Accounted(disk)
    BY DEF ArmsInv
  <2>4. bill.paid + CallCost
          <= disk.budget.spent + bill.dropped * Bound + (bill.unbilled + 1) * CallCost
    BY <2>2, <2>3, AccountIsCounted DEF Accounted
  <2>5. disk' = disk /\ budget' = budget
    BY <1>2 DEF A!BilledInVain
  <2>6. Accounted(disk)'
    BY <2>1, <2>4, <2>5 DEF Accounted, Bound
  <2>7. bill' \in [paid : Nat, dropped : Nat, unbilled : Nat]
    BY <2>1, AccountIsCounted
  <2>8. QED
    BY <2>5, <2>6, <2>7 DEF ArmsInv
<1>3. CASE A!Live
  <2>1. A!RunsLeft \in Nat \ {0} /\ A!Remaining \in Nat /\ CallCost \in Nat
    BY DEF A!RunsLeft, A!Remaining, A!ArmsAssumption, ArmsInv, Within, Purse
  <2>2. CallCost <= CallCost * A!RunsLeft /\ CallCost * A!RunsLeft \in Nat
    BY <2>1, CostTimesRuns
  <2>3. CallCost * A!RunsLeft <= A!Remaining
    BY <1>3 DEF A!Live, A!CanSpend
  <2>4. CallCost <= A!Remaining
    BY <2>1, <2>2, <2>3
  <2>5. QED
    BY <1>3, <2>1, <2>4, ChargeFits DEF A!Live
<1>4. QED
  BY <1>1, <1>2, <1>3 DEF A!Failed, A!Replayed

\* The charges of a cycle are lost: they were within the bound.
LEMMA LossFits ==
  ASSUME A!ArmsAssumption, ArmsInv, A!Reset
  PROVE  Accounted(disk)' /\ bill' \in [paid : Nat, dropped : Nat, unbilled : Nat]
<1>1. disk' = origin
  BY DEF A!Reset
<1>2. Accounted(disk)
  BY DEF ArmsInv
<1>3. CASE disk.budget.spent = origin.budget.spent /\ bill' = bill
  BY <1>1, <1>2, <1>3 DEF Accounted, Bound, ArmsInv
<1>4. CASE bill' = [bill EXCEPT !.dropped = @ + 1]
  <2>1. bill' = [paid |-> bill.paid, dropped |-> bill.dropped + 1, unbilled |-> bill.unbilled]
    BY <1>4 DEF ArmsInv
  <2>2. (bill.dropped + 1) * Bound = bill.dropped * Bound + Bound
    BY AccountIsCounted, Products
  <2>3. disk.budget.spent < Bound
    BY DEF ArmsInv, Within
  <2>4. bill.paid
          <= origin.budget.spent + (bill.dropped + 1) * Bound + bill.unbilled * CallCost
    BY <1>2, <2>2, <2>3, AccountIsCounted DEF Accounted
  <2>5. QED
    BY <1>1, <2>1, <2>4, AccountIsCounted DEF Accounted, Bound
<1>5. QED
  BY <1>3, <1>4 DEF A!Reset

LEMMA ArmsStep ==
  ASSUME A!ArmsAssumption, CouncilCost # 0, ArmsInv, A!Next
  PROVE  ArmsInv'
<1> USE DEF A!process
<1>0. A!Fresh \in Purse /\ Within(A!Fresh) /\ A!Fresh.spent = 0
  BY DEF A!ArmsAssumption, A!Fresh, Purse, Within, Bound
<1>1. CASE A!Begin
  <2>1. disk.budget \in Purse /\ RunsPerWeek \in Nat
    BY DEF ArmsInv, Within, A!ArmsAssumption
  <2>2. Within([disk.budget EXCEPT !.runs = A!OneMore(@)])
    BY <2>1 DEF A!OneMore, ArmsInv, Within, Purse
  <2>3. budget'.spent = disk.budget.spent
    BY <1>1, <2>1 DEF A!Begin, Purse
  <2>4. QED
    BY <1>0, <1>1, <2>2, <2>3 DEF A!Begin, ArmsInv, Accounted
<1>2. CASE A!Project \/ A!EscalateConflict \/ A!EscalateGap \/ A!Kevin
  <2>1. arm \notin {"idle", "push"} /\ origin' = origin
    BY <1>2 DEF A!Project, A!EscalateConflict, A!EscalateGap, A!Kevin
  <2>2. A!Failed \/ A!Replayed \/ A!Live
    BY <1>2 DEF A!Project, A!EscalateConflict, A!EscalateGap, A!Kevin, A!Failed, A!Replayed
  <2>3. QED
    BY <2>1, <2>2, CallFits
<1>3. CASE A!Voice \/ A!Convene
  <2>1. CouncilCost \in Nat /\ PanelCost \in Nat
    BY DEF A!ArmsAssumption
  <2>2. CASE A!Voice
    BY <2>1, <2>2, ChargeFits DEF A!Voice, A!VoiceAllowed
  <2>3. CASE A!Convene
    <3>1. PanelCost <= A!Remaining
      BY <2>1, <2>3 DEF A!Convene, A!PanelDue, A!Remaining, ArmsInv, Within, Purse, A!ArmsAssumption
    <3>2. arm = "panel"
      BY <2>3 DEF A!Convene, A!PanelDue
    <3>3. QED
      BY <2>1, <2>3, <3>1, <3>2, ChargeFits DEF A!Convene
  <2>4. QED
    BY <1>3, <2>2, <2>3
<1>4. CASE A!Detect \/ A!NoSitting \/ A!FollowUp \/ A!Adjourn \/ A!Defer \/ A!NoPanel \/ A!Close
  <2>1. UNCHANGED <<budget, disk, origin, bill>>
    BY <1>4 DEF A!Detect, A!NoSitting, A!FollowUp, A!Adjourn, A!Defer, A!NoPanel, A!Close
  <2>2. arm' \notin {"idle", "push"} => arm \notin {"idle", "push"}
    BY <1>4
    DEF A!Detect, A!NoSitting, A!FollowUp, A!Adjourn, A!Defer, A!NoPanel, A!PanelDue, A!Close
  <2>3. QED
    BY <2>1, <2>2 DEF ArmsInv, Accounted
<1>5. CASE A!Save
  <2>1. arm = "save" /\ disk' = [budget |-> budget, ext |-> ext] /\ arm' = "push"
        /\ origin' = origin /\ bill' = bill /\ budget' = A!Fresh
    BY <1>5 DEF A!Save, A!ProcessEnds
  <2>2. budget.spent = disk.budget.spent /\ Within(budget)
    BY <2>1 DEF ArmsInv
  <2>3. disk'.budget.spent = disk.budget.spent
    BY <2>1, <2>2
  <2>4. QED
    BY <1>0, <2>1, <2>2, <2>3 DEF ArmsInv, Accounted
<1>6. CASE A!Raise
  BY <1>0, <1>6 DEF A!Raise, A!ProcessEnds, ArmsInv, Accounted
<1>7. CASE A!Push
  BY <1>7 DEF A!Push, ArmsInv, Accounted
<1>8. CASE A!Reset
  BY <1>0, <1>8, LossFits DEF A!Reset, A!ProcessEnds, ArmsInv
<1>9. CASE A!WeekIsOver
  <2>1. /\ disk' = [budget |-> A!Fresh, ext |-> disk.ext]
        /\ origin' = [budget |-> A!Fresh, ext |-> origin.ext]
        /\ bill' = [paid |-> 0, dropped |-> 0, unbilled |-> 0]
        /\ arm' = "idle" /\ budget' = budget
    BY <1>9 DEF A!WeekIsOver, A!NoBill, ArmsInv
  <2>2. Bound \in Nat /\ CallCost \in Nat
    BY AccountIsCounted
  <2>3. Accounted(disk)'
    BY <1>0, <2>1, <2>2 DEF Accounted, Bound
  <2>4. QED
    BY <1>0, <2>1, <2>3 DEF ArmsInv
<1>10. QED
  BY <1>1, <1>2, <1>3, <1>4, <1>5, <1>6, <1>7, <1>8, <1>9 DEF A!Next, A!Council, A!Panel

\* What a week really costs, for any costs, cadences and numbers of seats, as long as a voice costs
\* anything: never as much as the cap and a voice of the circle for each purse that is lost with
\* its commit or its job, once more for the purse that is left, and the price of a call for each
\* call that was billed and raised.  (budget.py, model_call.py, council.py, experts.py)
THEOREM OverrunInvariant ==
  ASSUME A!ArmsAssumption, CouncilCost # 0
  PROVE  A!Spec => []A!OverrunBounded
<1>1. A!Init => ArmsInv
  <2> SUFFICES ASSUME A!Init PROVE ArmsInv
    OBVIOUS
  <2>1. Cap \in Nat /\ CouncilCost \in Nat /\ CallCost \in Nat /\ RunsPerWeek \in Nat
    BY DEF A!ArmsAssumption
  <2>2. Within(A!Fresh) /\ A!Fresh.spent = 0
    BY <2>1 DEF A!Fresh, Purse, Within, Bound
  <2>3. bill = [paid |-> 0, dropped |-> 0, unbilled |-> 0]
    BY DEF A!Init, A!NoBill
  <2>4. Accounted(disk)
    BY <2>1, <2>2, <2>3 DEF Accounted, A!Init, Bound
  <2>5. QED
    BY <2>2, <2>3, <2>4 DEF A!Init, ArmsInv
<1>2. ArmsInv /\ [A!Next]_A!vars => ArmsInv'
  <2>1. ArmsInv /\ UNCHANGED A!vars => ArmsInv'
    BY DEF ArmsInv, Accounted, A!vars, A!process
  <2>2. QED
    BY <2>1, ArmsStep
<1>3. ArmsInv => A!OverrunBounded
  <2> SUFFICES ASSUME ArmsInv PROVE A!OverrunBounded
    OBVIOUS
  <2>1. (bill.dropped + 1) * Bound = bill.dropped * Bound + Bound
    BY AccountIsCounted, Products
  <2>2. disk.budget.spent < Bound /\ Accounted(disk)
    BY DEF ArmsInv, Within
  <2>3. bill.paid < (bill.dropped + 1) * Bound + bill.unbilled * CallCost
    BY <2>1, <2>2, AccountIsCounted DEF Accounted
  <2>4. QED
    BY <2>3 DEF A!OverrunBounded, Bound
<1>4. QED
  BY <1>1, <1>2, <1>3, PTL DEF A!Spec

-----------------------------------------------------------------------------
(***************************************************************************)
(* The deep methods on open gaps.  A weight that is adopted is a share of  *)
(* the trials that say something, at least six tenths and at most ten.     *)
(***************************************************************************)

Ledger == [Method \X Gap \X O!Result -> Nat]

WeightsFit == \A e \in adopted : e.weight \in 6 .. 10

OperatorsInv == open \in SUBSET Gap /\ trialled \in Ledger /\ WeightsFit

\* Triples of members of finite sets are finitely many.
LEMMA Triples ==
  ASSUME NEW U, NEW V, NEW W, IsFiniteSet(U), IsFiniteSet(V), IsFiniteSet(W)
  PROVE  IsFiniteSet(U \X V \X W)
<1> DEFINE f == [x \in U \X (V \X W) |-> <<x[1], x[2][1], x[2][2]>>]
<1>1. IsFiniteSet(U \X (V \X W))
  <2>1. IsFiniteSet(V \X W)
    BY FS_Product
  <2>2. QED
    BY <2>1, FS_Product
<1>2. f \in Surjection(U \X (V \X W), U \X V \X W)
  <2>1. f \in [U \X (V \X W) -> U \X V \X W]
    OBVIOUS
  <2>2. ASSUME NEW t \in U \X V \X W PROVE \E x \in U \X (V \X W) : f[x] = t
    <3>1. f[<<t[1], <<t[2], t[3]>>>>] = t
      OBVIOUS
    <3>2. QED
      BY <3>1
  <2> HIDE DEF f
  <2>3. QED
    BY <2>1, <2>2 DEF Surjection
<1> HIDE DEF f
<1>3. QED
  BY <1>1, <1>2, FS_Surjection

\* Of the trials that say something some helped, and there are finitely many.
LEMMA FewerAreCounted ==
  ASSUME O!OperatorsAssumption, NEW k, NEW gk, NEW gaps \in SUBSET Gap
  PROVE  /\ O!Count(k, gk, gaps, {"success", "no_benefit"}) \in Nat
         /\ O!Count(k, gk, gaps, {"success"}) \in Nat
         /\ O!Count(k, gk, gaps, {"success"}) <= O!Count(k, gk, gaps, {"success", "no_benefit"})
<1> DEFINE Of(rs) == {t \in Method \X gaps \X rs : KindOf[t[1]] = k /\ GapKind[t[2]] = gk}
           All == (Method \X gaps \X {"success", "no_benefit"}) \X (1 .. MaxTrials)
<1>1. IsFiniteSet(All)
  <2>1. /\ IsFiniteSet(Method) /\ IsFiniteSet(gaps) /\ IsFiniteSet({"success", "no_benefit"})
    <3>1. IsFiniteSet({"success"} \cup {"no_benefit"})
      BY FS_Singleton, FS_Union
    <3>2. {"success"} \cup {"no_benefit"} = {"success", "no_benefit"}
      OBVIOUS
    <3>3. IsFiniteSet(Method) /\ IsFiniteSet(Gap)
      BY DEF O!OperatorsAssumption, O!IsFiniteSet, IsFiniteSet
    <3>4. IsFiniteSet(gaps)
      BY <3>3, FS_Subset
    <3>5. QED
      BY <3>1, <3>2, <3>3, <3>4
  <2>2. IsFiniteSet(Method \X gaps \X {"success", "no_benefit"})
    BY <2>1, Triples
  <2>3. IsFiniteSet(1 .. MaxTrials)
    <3>1. {MinSupport, MaxTrials} \subseteq Nat \ {0}
      BY DEF O!OperatorsAssumption
    <3>2. 1 \in Int /\ MaxTrials \in Int
      BY <3>1
    <3>3. QED
      BY <3>2, FS_Interval
  <2>4. QED
    BY <2>2, <2>3, FS_Product
<1>2. O!Numbered(Of({"success", "no_benefit"})) \in SUBSET All
  BY DEF O!Numbered
<1>3. O!Numbered(Of({"success"})) \in SUBSET O!Numbered(Of({"success", "no_benefit"}))
  BY DEF O!Numbered
<1>4. /\ O!Count(k, gk, gaps, {"success", "no_benefit"})
           = Cardinality(O!Numbered(Of({"success", "no_benefit"})))
      /\ O!Count(k, gk, gaps, {"success"}) = Cardinality(O!Numbered(Of({"success"})))
  BY DEF O!Count, O!Cardinality, Cardinality
<1> HIDE DEF Of, All
<1>5. QED
  BY <1>1, <1>2, <1>3, <1>4, FS_Subset, FS_CardinalityType

\* An affinity that holds on the gaps kept out weighs from six tenths to ten.
LEMMA AdoptedWeightsFit ==
  ASSUME O!OperatorsAssumption, NEW e \in O!Confirmed
  PROVE  O!Weighted(e).weight \in 6 .. 10
<1> DEFINE all == O!Count(e[1], e[2], Held, {"success", "no_benefit"})
           good == O!Count(e[1], e[2], Held, {"success"})
<1>1. all \in Nat /\ good \in Nat /\ good <= all
  BY FewerAreCounted DEF O!OperatorsAssumption
<1>2. all >= 1 /\ 10 * good >= 6 * all
  <2>1. all >= MinSupport /\ 10 * good >= 6 * all
    BY DEF O!Confirmed, O!Holds
  <2> HIDE DEF all, good
  <2>2. QED
    BY <1>1, <2>1 DEF O!OperatorsAssumption
<1>3. O!Weighted(e).weight = (10 * good) \div all
  BY DEF O!Weighted
<1> HIDE DEF all, good
<1> DEFINE q == (10 * good) \div all
<1>4. q \in Int /\ all * q <= 10 * good /\ 10 * good < all * q + all
  BY <1>1, <1>2
<1>5. q >= 6
  BY <1>1, <1>2, <1>4
<1>6. q <= 10
  BY <1>1, <1>2, <1>4
<1>7. QED
  BY <1>3, <1>4, <1>5, <1>6

\* A set of weights has a greatest one.
LEMMA GreatestWeight ==
  ASSUME NEW Weights \in SUBSET (0 .. 10), Weights # {}
  PROVE  O!Max(Weights) \in Weights /\ \A y \in Weights : y <= O!Max(Weights)
<1> DEFINE T == {n \in Nat : \E x \in Weights : n = 10 - x}
<1>1. T # {} /\ T \in SUBSET Nat
  <2>1. PICK x \in Weights : TRUE
    OBVIOUS
  <2>2. 10 - x \in T
    OBVIOUS
  <2>3. QED
    BY <2>2
<1>2. PICK n \in T : \A m \in T : ~(<<m, n>> \in OpToRel(<, Nat))
  BY <1>1, NatLessThanWellFounded, WFMin
<1>3. \A m \in T : n <= m
  <2>1. SUFFICES ASSUME NEW m \in T PROVE n <= m
    OBVIOUS
  <2>2. m \in Nat /\ n \in Nat
    BY <1>1
  <2> HIDE DEF T
  <2>3. ~(m < n)
    BY <1>2, <2>2 DEF OpToRel
  <2>4. QED
    BY <2>2, <2>3
<1>4. PICK x \in Weights : n = 10 - x
  OBVIOUS
<1>5. \A y \in Weights : x >= y
  <2>1. SUFFICES ASSUME NEW y \in Weights PROVE x >= y
    OBVIOUS
  <2>2. 10 - y \in T
    OBVIOUS
  <2>3. QED
    BY <1>3, <1>4, <2>2
<1>6. O!Max(Weights) \in Weights /\ \A y \in Weights : O!Max(Weights) >= y
  BY <1>5 DEF O!Max
<1>7. QED
  BY <1>6

\* What is relevant at all is relevant by half, and nothing by more than the whole.
LEMMA RelevanceIsTenths ==
  ASSUME O!OperatorsAssumption, WeightsFit, NEW k, NEW g \in Gap
  PROVE  LET r == O!RelevanceOf(k, GapKind[g])
         IN  r \in 0 .. 10 /\ (r > 0 => r >= 5)
<1> DEFINE Given == {Relevance[GapKind[g]][k] : x \in {k} \cap DOMAIN Relevance[GapKind[g]]}
           Found == {e.weight : e \in {f \in adopted : f.kind = k /\ f.gap = GapKind[g]}}
           Weights == {0} \cup Given \cup Found
<1>1. \A x \in Given : x \in 5 .. 10
  BY DEF O!OperatorsAssumption
<1>2. \A x \in Found : x \in 6 .. 10
  BY DEF WeightsFit
<1>3. O!RelevanceOf(k, GapKind[g]) = O!Max(Weights)
  BY DEF O!RelevanceOf
<1> HIDE DEF Given, Found
<1>4. Weights \in SUBSET (0 .. 10) /\ Weights # {}
  BY <1>1, <1>2
<1>5. O!Max(Weights) \in Weights
  <2> HIDE DEF Weights
  <2>1. QED
    BY <1>4, GreatestWeight
<1>6. QED
  BY <1>1, <1>2, <1>3, <1>5

\* Where something that says anything was tried, little is left; elsewhere nearly all is.
LEMMA LeftSays ==
  ASSUME trialled \in Ledger, NEW m \in Method, NEW g \in Gap
  PROVE  IF O!Tried(m, g) THEN O!Left(m, g) \in {0, 15} ELSE O!Left(m, g) \in {90, 100}
<1>1. /\ O!Trials(m, g, "success") \in Nat /\ O!Trials(m, g, "no_benefit") \in Nat
      /\ O!Trials(m, g, "technical_failure") \in Nat
  <2>1. \A r \in O!Result : <<m, g, r>> \in Method \X Gap \X O!Result
    OBVIOUS
  <2>2. {"success", "no_benefit", "technical_failure"} \subseteq O!Result
    BY DEF O!Result
  <2>3. QED
    BY <2>1, <2>2 DEF O!Trials, Ledger
<1> DEFINE s == O!Trials(m, g, "success")
           b == O!Trials(m, g, "no_benefit")
           f == O!Trials(m, g, "technical_failure")
<1>2. O!Left(m, g) = CASE s > 0 -> 0
                       [] s = 0 /\ b > 0 -> 15
                       [] s = 0 /\ b = 0 /\ f > 0 -> 90
                       [] OTHER -> 100
  BY DEF O!Left
<1>3. O!Tried(m, g) <=> s + b > 0
  BY DEF O!Tried
<1>4. s \in Nat /\ b \in Nat /\ f \in Nat
  BY <1>1
<1> HIDE DEF s, b, f
<1>5. CASE s > 0
  BY <1>2, <1>3, <1>4, <1>5
<1>6. CASE s = 0 /\ b > 0
  BY <1>2, <1>3, <1>4, <1>6
<1>7. CASE s = 0 /\ b = 0
  BY <1>2, <1>3, <1>4, <1>7
<1>8. QED
  BY <1>4, <1>5, <1>6, <1>7

\* Six tenths of severity and half of relevance, nearly all left, outweigh ten of each with
\* fifteen hundredths left.
LEMMA TriedWeighsLess ==
  ASSUME O!OperatorsAssumption, OperatorsInv,
         NEW m \in Method, NEW g \in Gap, O!Tried(m, g),
         NEW n \in Method, NEW h \in Gap, ~O!Tried(n, h),
         O!RelevanceOf(KindOf[n], GapKind[h]) > 0
  PROVE  /\ O!Priority(n, h) \in Nat /\ O!Priority(m, g) \in Nat
         /\ O!Priority(n, h) > O!Priority(m, g)
<1> DEFINE s1 == Severity[g]
           s2 == Severity[h]
           r1 == O!RelevanceOf(KindOf[m], GapKind[g])
           r2 == O!RelevanceOf(KindOf[n], GapKind[h])
           l1 == O!Left(m, g)
           l2 == O!Left(n, h)
<1>1. s1 \in {6, 10} /\ s2 \in {6, 10}
  BY DEF O!OperatorsAssumption
<1>2. r1 \in 0 .. 10
  BY RelevanceIsTenths DEF OperatorsInv
<1>3. r2 \in 5 .. 10
  <2>1. r2 \in 0 .. 10 /\ (r2 > 0 => r2 >= 5)
    BY RelevanceIsTenths DEF OperatorsInv
  <2>2. r2 > 0
    OBVIOUS
  <2> HIDE DEF r2
  <2>3. QED
    BY <2>1, <2>2
<1>4. l1 \in {0, 15} /\ l2 \in {90, 100}
  BY LeftSays DEF OperatorsInv
<1>5. O!Priority(m, g) = s1 * r1 * l1 /\ O!Priority(n, h) = s2 * r2 * l2
  BY DEF O!Priority
<1> HIDE DEF s1, s2, r1, r2, l1, l2
<1>6. s1 * r1 * l1 \in Nat /\ s1 * r1 * l1 <= 1500
  <2>1. CASE s1 = 6 /\ l1 = 0
    BY <1>2, <2>1
  <2>2. CASE s1 = 6 /\ l1 = 15
    BY <1>2, <2>2
  <2>3. CASE s1 = 10 /\ l1 = 0
    BY <1>2, <2>3
  <2>4. CASE s1 = 10 /\ l1 = 15
    BY <1>2, <2>4
  <2>5. QED
    BY <1>1, <1>4, <2>1, <2>2, <2>3, <2>4
<1>7. s2 * r2 * l2 \in Nat /\ s2 * r2 * l2 >= 2700
  <2>1. CASE s2 = 6 /\ l2 = 90
    BY <1>3, <2>1
  <2>2. CASE s2 = 6 /\ l2 = 100
    BY <1>3, <2>2
  <2>3. CASE s2 = 10 /\ l2 = 90
    BY <1>3, <2>3
  <2>4. CASE s2 = 10 /\ l2 = 100
    BY <1>3, <2>4
  <2>5. QED
    BY <1>1, <1>4, <2>1, <2>2, <2>3, <2>4
<1>8. QED
  BY <1>5, <1>6, <1>7

\* No cycle, measurement or adoption takes the weights out of their range.
LEMMA OperatorsStep ==
  ASSUME O!OperatorsAssumption, OperatorsInv, [O!Next]_O!vars
  PROVE  OperatorsInv'
<1>1. CASE \E p \in O!First \cup O!Best : O!Cycle(p)
  <2>1. PICK p \in O!First \cup O!Best, r \in O!Result :
          /\ trialled' = [trialled EXCEPT ![<<p[1], p[2], r>>] = @ + 1]
          /\ open' = open \ {p[2] : x \in {r} \cap {"success"}}
          /\ UNCHANGED adopted
    BY <1>1 DEF O!Cycle
  <2>2. p[1] \in Method /\ p[2] \in Gap
    BY DEF O!First, O!Best, O!Proposals, OperatorsInv
  <2>3. trialled' \in Ledger
    <3>1. <<p[1], p[2], r>> \in Method \X Gap \X O!Result
      BY <2>2
    <3>2. QED
      BY <2>1, <3>1 DEF Ledger, OperatorsInv
  <2>4. QED
    BY <2>1, <2>3 DEF OperatorsInv, WeightsFit
<1>2. ASSUME NEW m \in Method, NEW g \in Gap, O!Measure(m, g)
      PROVE  OperatorsInv'
  <2>1. PICK r \in O!Result : trialled' = [trialled EXCEPT ![<<m, g, r>>] = @ + 1]
    BY <1>2 DEF O!Measure, O!Result
  <2>2. trialled' \in Ledger
    <3>1. <<m, g, r>> \in Method \X Gap \X O!Result
      OBVIOUS
    <3>2. QED
      BY <2>1, <3>1 DEF Ledger, OperatorsInv
  <2>3. QED
    BY <1>2, <2>2 DEF O!Measure, OperatorsInv, WeightsFit
<1>3. ASSUME NEW g \in Gap, O!Find(g) PROVE OperatorsInv'
  BY <1>3 DEF O!Find, OperatorsInv, WeightsFit
<1>4. CASE O!Adopt
  <2>1. adopted' = {O!Weighted(e) : e \in O!Confirmed} /\ UNCHANGED <<open, trialled>>
    BY <1>4 DEF O!Adopt
  <2>2. \A e \in O!Confirmed : O!Weighted(e).weight \in 6 .. 10
    BY AdoptedWeightsFit
  <2>3. \A e \in adopted' : e.weight \in 6 .. 10
    BY <2>1, <2>2
  <2>4. QED
    BY <2>1, <2>3 DEF OperatorsInv, WeightsFit
<1>5. CASE UNCHANGED O!vars
  BY <1>5 DEF O!vars, OperatorsInv, WeightsFit
<1>6. QED
  BY <1>1, <1>2, <1>3, <1>4, <1>5 DEF O!Next

\* A method whose failure on a gap says something is not applied to that gap again, by a cycle with
\* the ledger or by one without it, while anything untried is relevant to any open gap, unless the
\* table alone puts the two first; for any methods, kinds, weights of the taxonomy and gaps kept
\* out, and with any affinities the operator has taken over: none of them can weigh more than ten
\* tenths.  (operators.py, operator_cycle.py, discovery.py)
THEOREM FailuresAreLast ==
  ASSUME O!OperatorsAssumption
  PROVE  O!Spec => O!FailuresWait
<1> DEFINE Waits ==
      \A m \in Method, g \in open :
        /\ O!Tried(m, g) /\ <<m, g>> \notin O!First
        /\ \E r \in O!Result : trialled'[<<m, g, r>>] > O!Trials(m, g, r)
        => \A n \in Method, h \in open :
            O!RelevanceOf(KindOf[n], GapKind[h]) > 0 => O!Tried(n, h)
<1>1. O!Init => OperatorsInv
  BY DEF O!Init, OperatorsInv, Ledger, WeightsFit
<1>2. OperatorsInv /\ [O!Next]_O!vars => OperatorsInv'
  BY OperatorsStep
<1>3. OperatorsInv /\ [O!Next]_O!vars => [Waits]_O!vars
  <2> SUFFICES ASSUME OperatorsInv, O!Next,
                      NEW m \in Method, NEW g \in open, O!Tried(m, g), <<m, g>> \notin O!First,
                      NEW r \in O!Result, trialled'[<<m, g, r>>] > O!Trials(m, g, r),
                      NEW n \in Method, NEW h \in open, ~O!Tried(n, h),
                      O!RelevanceOf(KindOf[n], GapKind[h]) > 0
               PROVE  FALSE
    OBVIOUS
  <2>1. /\ g \in Gap /\ h \in Gap /\ <<m, g, r>> \in Method \X Gap \X O!Result
        /\ trialled[<<m, g, r>>] \in Nat /\ trialled'[<<m, g, r>>] # trialled[<<m, g, r>>]
    <3>1. g \in Gap /\ h \in Gap
      BY DEF OperatorsInv
    <3>2. trialled[<<m, g, r>>] \in Nat
      BY <3>1 DEF OperatorsInv, Ledger
    <3>3. QED
      BY <3>1, <3>2 DEF O!Trials
  <2>2. \E p \in O!First \cup O!Best : O!Cycle(p)
    <3>1. ASSUME NEW a \in Method, NEW c \in Gap, O!Measure(a, c) PROVE FALSE
      <4>1. c # g
        BY <3>1 DEF O!Measure
      <4>2. PICK q \in O!Result : trialled' = [trialled EXCEPT ![<<a, c, q>>] = @ + 1]
        BY <3>1 DEF O!Measure, O!Result
      <4>3. <<a, c, q>> # <<m, g, r>>
        BY <4>1
      <4>4. QED
        BY <2>1, <4>2, <4>3 DEF OperatorsInv, Ledger
    <3>2. ASSUME NEW c \in Gap, O!Find(c) PROVE FALSE
      BY <2>1, <3>2 DEF O!Find
    <3>3. ~O!Adopt
      BY <2>1 DEF O!Adopt
    <3>4. QED
      BY <3>1, <3>2, <3>3 DEF O!Next
  <2>3. PICK p \in O!First \cup O!Best, q \in O!Result :
          trialled' = [trialled EXCEPT ![<<p[1], p[2], q>>] = @ + 1]
    BY <2>2 DEF O!Cycle
  <2>4. p[1] = m /\ p[2] = g /\ p \in O!Best
    <3>1. <<p[1], p[2], q>> = <<m, g, r>>
      BY <2>1, <2>3 DEF OperatorsInv, Ledger
    <3>2. p = <<p[1], p[2]>>
      BY DEF O!First, O!Best, O!Proposals
    <3>3. QED
      BY <3>1, <3>2
  <2>5. /\ O!Priority(n, h) \in Nat /\ O!Priority(m, g) \in Nat
        /\ O!Priority(n, h) > O!Priority(m, g)
    BY <2>1, TriedWeighsLess
  <2>6. <<n, h>> \in O!Proposals
    <3>1. O!Priority(n, h) > 0
      BY <2>5
    <3>2. QED
      BY <3>1 DEF O!Proposals
  <2>7. \/ O!Priority(n, h) < O!Priority(m, g)
        \/ O!Priority(n, h) = O!Priority(m, g)
    <3>1. \A w \in O!Proposals : \/ O!Priority(w[1], w[2]) < O!Priority(p[1], p[2])
                                 \/ O!Priority(w[1], w[2]) = O!Priority(p[1], p[2])
      BY <2>4 DEF O!Best
    <3>2. \/ O!Priority(<<n, h>>[1], <<n, h>>[2]) < O!Priority(p[1], p[2])
          \/ O!Priority(<<n, h>>[1], <<n, h>>[2]) = O!Priority(p[1], p[2])
      BY <2>6, <3>1
    <3>3. QED
      BY <2>4, <3>2
  <2>8. QED
    BY <2>5, <2>7
<1>4. QED
  BY <1>1, <1>2, <1>3, PTL DEF O!Spec, O!FailuresWait
-----------------------------------------------------------------------------
(***************************************************************************)
(* The import of the old stores.  Until the last claim is read the rows    *)
(* that are still to come are accounted for; from then on every sound one  *)
(* is found by its old id.                                                 *)
(***************************************************************************)

IsSeq(s) == \E T : s \in Seq(T)

\* The claim that was made of a row is where the map says it is.
FoundById(row) ==
  /\ row.id \in DOMAIN idmap /\ idmap[row.id] \in DOMAIN claims
  /\ claims[idmap[row.id]].of = row

MigrationInv ==
  /\ doc \in Documents /\ left \in [M!Stores -> Seq(M!Rows)]
  /\ M!Range(left["claims"]) \subseteq M!Range(doc["claims"])
  /\ IsSeq(claims) /\ IsSeq(memory)
  /\ \A row \in M!Range(doc["claims"]) :
       row.flaw = "none" => row \in M!Range(left["claims"]) \/ FoundById(row)
  /\ M!RefsLeadHome

\* A sequence consists of its head and what is left.
LEMMA HeadAndTail ==
  ASSUME NEW T, NEW s \in Seq(T), s # <<>>
  PROVE  /\ Head(s) \in T /\ Tail(s) \in Seq(T)
         /\ M!Range(s) = {Head(s)} \cup M!Range(Tail(s))
<1>1. Head(s) \in T /\ Tail(s) \in Seq(T) /\ Len(s) \in Nat \ {0} /\ Len(Tail(s)) = Len(s) - 1
  OBVIOUS
<1>2. ASSUME NEW i \in DOMAIN s PROVE s[i] \in {Head(s)} \cup M!Range(Tail(s))
  <2>1. CASE i = 1
    BY <2>1
  <2>2. CASE i # 1
    <3>1. i - 1 \in DOMAIN Tail(s) /\ Tail(s)[i - 1] = s[i]
      BY <1>1, <2>2
    <3>2. QED
      BY <3>1 DEF M!Range
  <2>3. QED
    BY <2>1, <2>2
<1>3. Head(s) \in M!Range(s)
  <2>1. 1 \in DOMAIN s /\ s[1] = Head(s)
    BY <1>1
  <2>2. QED
    BY <2>1 DEF M!Range
<1>4. ASSUME NEW i \in DOMAIN Tail(s) PROVE Tail(s)[i] \in M!Range(s)
  <2>1. i + 1 \in DOMAIN s /\ Tail(s)[i] = s[i + 1]
    BY <1>1
  <2>2. QED
    BY <2>1 DEF M!Range
<1>5. QED
  BY <1>1, <1>2, <1>3, <1>4 DEF M!Range

Continues(s, t) ==
  IsSeq(t) /\ DOMAIN s \subseteq DOMAIN t /\ \A i \in DOMAIN s : t[i] = s[i]

\* What is appended leaves everything in its place.
LEMMA Lengthened ==
  ASSUME NEW s, IsSeq(s), NEW a, NEW b
  PROVE  /\ Len(s) + 1 \in DOMAIN Append(s, a) /\ Append(s, a)[Len(s) + 1] = a
         /\ Continues(s, Append(s, a)) /\ Continues(s, s \o <<a, b>>)
<1>1. PICK T : s \in Seq(T)
  BY DEF IsSeq
<1> DEFINE U == T \cup {a, b}
<1>2. s \in Seq(U) /\ a \in U /\ b \in U
  BY <1>1
<1>3. Append(s, a) \in Seq(U) /\ s \o <<a, b>> \in Seq(U)
  BY <1>2
<1> HIDE DEF U
<1>4. /\ Len(Append(s, a)) = Len(s) + 1 /\ Append(s, a)[Len(s) + 1] = a
      /\ \A i \in 1 .. Len(s) : Append(s, a)[i] = s[i]
  BY <1>2
<1>5. Len(s \o <<a, b>>) = Len(s) + 2 /\ \A i \in 1 .. Len(s) : (s \o <<a, b>>)[i] = s[i]
  BY <1>2
<1>6. Len(s) \in Nat /\ DOMAIN s = 1 .. Len(s)
  BY <1>1
<1>7. DOMAIN Append(s, a) = 1 .. Len(s) + 1 /\ DOMAIN (s \o <<a, b>>) = 1 .. Len(s) + 2
  BY <1>3, <1>4, <1>5
<1>8. QED
  BY <1>3, <1>4, <1>5, <1>6, <1>7 DEF IsSeq, Continues

\* What a row leaves behind when it is read: the rows to come are fewer by it.
LEMMA RowRead ==
  ASSUME MigrationInv, NEW store \in M!Stores, M!Reads(store)
  PROVE  /\ doc' = doc /\ left' \in [M!Stores -> Seq(M!Rows)]
         /\ M!Row(store) \in M!Rows
         /\ IF store = "claims"
            THEN M!Range(left["claims"]) = {M!Row("claims")} \cup M!Range(left'["claims"])
            ELSE left'["claims"] = left["claims"]
<1>1. /\ doc' = doc /\ left[store] # <<>> /\ left' = [left EXCEPT ![store] = Tail(@)]
      /\ left \in [M!Stores -> Seq(M!Rows)] /\ "claims" \in M!Stores
  BY DEF M!Reads, MigrationInv, M!Stores, M!Flaws
<1>2. left[store] \in Seq(M!Rows)
  BY <1>1
<1>3. /\ Head(left[store]) \in M!Rows /\ Tail(left[store]) \in Seq(M!Rows)
      /\ M!Range(left[store]) = {Head(left[store])} \cup M!Range(Tail(left[store]))
  BY <1>1, <1>2, HeadAndTail
<1>4. left' \in [M!Stores -> Seq(M!Rows)] /\ left'[store] = Tail(left[store])
  BY <1>1, <1>3
<1>5. store # "claims" => left'["claims"] = left["claims"]
  BY <1>1
<1>6. QED
  BY <1>1, <1>3, <1>4, <1>5 DEF M!Row

\* As long as nothing happens to the claims there are and to the memories, what was found stays.
LEMMA FoundStays ==
  ASSUME MigrationInv, doc' = doc, memory' = memory,
         claims' = claims \/ \E a, b : claims' \in {Append(claims, a), claims \o <<a, b>>}
  PROVE  /\ IsSeq(claims') /\ M!RefsLeadHome'
         /\ idmap' = idmap => \A row : FoundById(row) => FoundById(row)'
<1>1. /\ IsSeq(claims') /\ DOMAIN claims \subseteq DOMAIN claims'
      /\ \A i \in DOMAIN claims : claims'[i] = claims[i]
  <2>1. CASE claims' = claims
    BY <2>1 DEF MigrationInv
  <2>2. CASE \E a, b : claims' \in {Append(claims, a), claims \o <<a, b>>}
    <3>1. PICK a, b : claims' \in {Append(claims, a), claims \o <<a, b>>}
      BY <2>2
    <3>2. IsSeq(claims)
      BY DEF MigrationInv
    <3>3. Continues(claims, Append(claims, a)) /\ Continues(claims, claims \o <<a, b>>)
      BY <3>2, Lengthened
    <3>4. QED
      BY <3>1, <3>3 DEF Continues
  <2>3. QED
    BY <2>1, <2>2
<1>2. M!RefsLeadHome'
  BY <1>1 DEF MigrationInv, M!RefsLeadHome
<1>3. ASSUME idmap' = idmap, NEW row, FoundById(row) PROVE FoundById(row)'
  BY <1>1, <1>3 DEF FoundById
<1>4. QED
  BY <1>1, <1>2, <1>3

\* A row that is not a sound claim is read, whatever is quarantined for it.
LEMMA OtherRowRead ==
  ASSUME MigrationInv, NEW store \in M!Stores, M!Reads(store),
         store = "claims" => M!Row(store).flaw # "none",
         UNCHANGED <<idmap, memory>>,
         claims' = claims \/ \E a, b : claims' \in {Append(claims, a), claims \o <<a, b>>}
  PROVE  MigrationInv'
<1>1. /\ doc' = doc /\ left' \in [M!Stores -> Seq(M!Rows)]
      /\ IF store = "claims"
         THEN M!Range(left["claims"]) = {M!Row("claims")} \cup M!Range(left'["claims"])
         ELSE left'["claims"] = left["claims"]
  BY RowRead
<1>2. IsSeq(claims') /\ M!RefsLeadHome' /\ \A row : FoundById(row) => FoundById(row)'
  BY <1>1, FoundStays
<1>3. M!Range(left'["claims"]) \subseteq M!Range(left["claims"])
  BY <1>1
<1>4. ASSUME NEW row \in M!Range(doc["claims"]), row.flaw = "none"
      PROVE  row \in M!Range(left'["claims"]) \/ FoundById(row)'
  BY <1>1, <1>2, <1>4 DEF MigrationInv
<1>5. QED
  BY <1>1, <1>2, <1>3, <1>4 DEF MigrationInv

\* A claim that is imported takes the place of no other in the map: the old ids are distinct.
LEMMA ClaimImported ==
  ASSUME M!MigrationAssumption, MigrationInv, M!ImportClaim
  PROVE  MigrationInv'
<1> DEFINE row == M!Row("claims")
           new == M!Created(row, M!Target(row), FALSE)
<1>1. "claims" \in M!Stores /\ M!Reads("claims")
  BY DEF M!Stores, M!Flaws, M!ImportClaim
<1>2. /\ row \in M!Rows /\ row \in M!Range(doc["claims"])
      /\ doc' = doc /\ left' \in [M!Stores -> Seq(M!Rows)]
      /\ M!Range(left["claims"]) = {row} \cup M!Range(left'["claims"])
  BY <1>1, RowRead DEF MigrationInv
<1>3. CASE row.flaw \in {"foreign", "status", "text", "id"}
  <2>1. UNCHANGED <<idmap, memory>>
    BY <1>3 DEF M!ImportClaim, M!Abort, M!Quarantine, M!core
  <2>2. claims' = claims \/ \E a, b : claims' \in {Append(claims, a), claims \o <<a, b>>}
    BY <1>3 DEF M!ImportClaim, M!Abort, M!Quarantine, M!core
  <2>3. QED
    BY <1>1, <1>3, <2>1, <2>2, OtherRowRead
<1>4. CASE row.flaw \notin {"foreign", "status", "text", "id"}
  <2>1. /\ claims' = Append(claims, new) /\ memory' = memory
        /\ idmap' = [o \in DOMAIN idmap \cup {row.id} |->
                       IF o = row.id THEN Len(claims) + 1 ELSE idmap[o]]
    BY <1>4 DEF M!ImportClaim
  <2> HIDE DEF row, new
  <2>2. IsSeq(claims') /\ M!RefsLeadHome'
    BY <1>2, <2>1, FoundStays
  <2>3. PICK r0 : r0 = row
    OBVIOUS
  <2>4. new.of = r0
    BY <2>3 DEF new, M!Created
  <2>5. /\ Len(claims) + 1 \in DOMAIN claims' /\ claims'[Len(claims) + 1] = new
        /\ DOMAIN claims \subseteq DOMAIN claims'
        /\ \A i \in DOMAIN claims : claims'[i] = claims[i]
    BY <2>1, Lengthened DEF MigrationInv, Continues
  <2>6. FoundById(r0)'
    <3>1. r0.id \in DOMAIN idmap' /\ idmap'[r0.id] = Len(claims) + 1
      BY <2>1, <2>3
    <3>2. claims'[idmap'[r0.id]].of = r0
      BY <2>4, <2>5, <3>1
    <3>3. QED
      BY <2>5, <3>1, <3>2 DEF FoundById
  <2>7. ASSUME NEW r \in M!Range(doc["claims"]), FoundById(r) PROVE FoundById(r)'
    <3>1. CASE r.id = r0.id
      <4>1. r = r0
        <5>1. PICK i \in DOMAIN doc["claims"], j \in DOMAIN doc["claims"] :
                r = doc["claims"][i] /\ r0 = doc["claims"][j]
          BY <1>2, <2>3 DEF M!Range
        <5>2. i = j
          BY <3>1, <5>1 DEF M!MigrationAssumption, MigrationInv
        <5>3. QED
          BY <5>1, <5>2
      <4>2. QED
        BY <2>6, <4>1 DEF FoundById
    <3>2. CASE r.id # r0.id
      BY <2>1, <2>3, <2>5, <2>7, <3>2 DEF FoundById
    <3>3. QED
      BY <3>1, <3>2
  <2>8. ASSUME NEW r \in M!Range(doc["claims"]), r.flaw = "none"
        PROVE  r \in M!Range(left'["claims"]) \/ FoundById(r)'
    <3>1. CASE r = r0
      BY <2>6, <3>1 DEF FoundById
    <3>2. CASE r # r0
      <4>1. r \in M!Range(left["claims"]) \/ FoundById(r)
        BY <2>8 DEF MigrationInv
      <4>2. r \in M!Range(left["claims"]) => r \in M!Range(left'["claims"])
        BY <1>2, <2>3, <3>2
      <4>3. QED
        BY <2>7, <4>1, <4>2
    <3>3. QED
      BY <3>1, <3>2
  <2>9. QED
    BY <1>2, <2>1, <2>2, <2>8 DEF MigrationInv
<1>5. QED
  BY <1>3, <1>4

\* A memory is imported when every sound claim has been found.
LEMMA MemoryImported ==
  ASSUME MigrationInv, M!ImportMemory
  PROVE  MigrationInv'
<1> DEFINE row == M!Row("memory")
<1>1. "memory" \in M!Stores /\ M!Reads("memory") /\ left["claims"] = <<>>
  BY DEF M!Stores, M!Flaws, M!ImportMemory, M!Reads, M!Before
<1>2. CASE row.flaw # "none"
  <2>1. /\ UNCHANGED <<idmap, memory>>
        /\ claims' = Append(claims, M!Quarantined(row))
    BY <1>2 DEF M!ImportMemory, M!Quarantine
  <2>2. \E a, b : claims' \in {Append(claims, a), claims \o <<a, b>>}
    BY <2>1
  <2>3. QED
    BY <1>1, <2>1, <2>2, OtherRowRead
<1>3. CASE row.flaw = "none"
  <2> DEFINE new == [of |-> row, refs |-> M!NewRefs(row.refs)]
  <2>1. memory' = Append(memory, new) /\ UNCHANGED <<claims, idmap>>
    BY <1>3 DEF M!ImportMemory
  <2>2. doc' = doc /\ left' \in [M!Stores -> Seq(M!Rows)] /\ left'["claims"] = left["claims"]
    BY <1>1, RowRead
  <2>3. \A r \in M!Range(doc["claims"]) : r.flaw = "none" => FoundById(r)
    BY <1>1 DEF MigrationInv, M!Range
  <2>4. new.of = row /\ new.refs = M!NewRefs(row.refs)
    OBVIOUS
  <2> HIDE DEF row, new
  <2>5. /\ IsSeq(memory')
        /\ \A m \in M!Range(memory') : m \in M!Range(memory) \/ m = new
    <3>1. PICK T : memory \in Seq(T)
      BY DEF MigrationInv, IsSeq
    <3>2. memory \in Seq(T \cup {new}) /\ new \in T \cup {new}
      BY <3>1
    <3>3. memory' \in Seq(T \cup {new})
      BY <2>1, <3>2
    <3>4. Len(memory') = Len(memory) + 1 /\ Len(memory) \in Nat
      BY <2>1, <3>2
    <3>5. ASSUME NEW i \in DOMAIN memory' PROVE memory'[i] \in M!Range(memory) \/ memory'[i] = new
      <4>1. i \in 1 .. Len(memory) + 1
        BY <3>3, <3>4
      <4>2. CASE i = Len(memory) + 1
        BY <2>1, <3>2, <4>2
      <4>3. CASE i \in 1 .. Len(memory)
        <5>1. memory'[i] = memory[i] /\ i \in DOMAIN memory
          BY <2>1, <3>2, <4>3
        <5>2. QED
          BY <5>1 DEF M!Range
      <4>4. QED
        BY <3>4, <4>1, <4>2, <4>3
    <3>6. QED
      BY <3>3, <3>5 DEF M!Range, IsSeq
  <2>6. ASSUME NEW r \in M!Range(doc["claims"]), r.flaw = "none", r.id \in row.refs
        PROVE  \E x \in new.refs : x \in DOMAIN claims /\ claims[x].of = r
    <3>1. FoundById(r)
      BY <2>3, <2>6
    <3>2. idmap[r.id] \in M!NewRefs(row.refs)
      BY <2>6, <3>1 DEF FoundById, M!NewRefs
    <3>3. QED
      BY <2>4, <3>1, <3>2 DEF FoundById
  <2>7. M!RefsLeadHome'
    BY <2>1, <2>2, <2>4, <2>5, <2>6 DEF MigrationInv, M!RefsLeadHome
  <2>8. QED
    BY <2>1, <2>2, <2>5, <2>7 DEF MigrationInv, FoundById
<1>4. QED
  BY <1>2, <1>3

\* Every row that is read keeps the account.
LEMMA MigrationStep ==
  ASSUME M!MigrationAssumption, MigrationInv, [M!Next]_M!vars
  PROVE  MigrationInv'
<1>1. CASE M!ImportGoal
  <2>1. "goals" \in M!Stores /\ M!Reads("goals") /\ UNCHANGED <<idmap, memory>>
    BY <1>1 DEF M!Stores, M!Flaws, M!ImportGoal, M!Quarantine
  <2>2. claims' = claims \/ claims' = Append(claims, M!Quarantined(M!Row("goals")))
    BY <1>1 DEF M!ImportGoal, M!Quarantine
  <2>3. QED
    BY <2>1, <2>2, OtherRowRead
<1>2. CASE M!ImportMethod
  <2>1. "methods" \in M!Stores /\ M!Reads("methods") /\ UNCHANGED <<idmap, memory>>
    BY <1>2 DEF M!Stores, M!Flaws, M!ImportMethod, M!Quarantine, M!Abort, M!core
  <2>2. claims' = claims \/ claims' = Append(claims, M!Quarantined(M!Row("methods")))
    BY <1>2 DEF M!ImportMethod, M!Quarantine, M!Abort, M!core
  <2>3. QED
    BY <2>1, <2>2, OtherRowRead
<1>3. CASE M!Finish
  BY <1>3 DEF M!Finish, M!core, MigrationInv, FoundById, M!RefsLeadHome
<1>4. CASE UNCHANGED M!vars
  BY <1>4 DEF M!vars, M!core, MigrationInv, FoundById, M!RefsLeadHome
<1>5. QED
  BY <1>1, <1>2, <1>3, <1>4, ClaimImported, MemoryImported DEF M!Next

\* After any sequence of good and bad rows a memory refers to the claim that was made of the one
\* it used to refer to, whatever was left out, kept in quarantine or minted twice before it.
\* (migration.py)
THEOREM ReferencesLeadHome ==
  ASSUME M!MigrationAssumption
  PROVE  M!Spec => []M!RefsLeadHome
<1>1. M!Init => MigrationInv
  <2> SUFFICES ASSUME M!Init PROVE MigrationInv
    OBVIOUS
  <2>1. doc \in [M!Stores -> Seq(M!Rows)]
    BY DEF M!Init, M!MigrationAssumption
  <2>2. IsSeq(<<>>) /\ M!Range(<<>>) = {}
    <3>1. <<>> \in Seq({})
      OBVIOUS
    <3>2. QED
      BY <3>1 DEF IsSeq, M!Range
  <2>3. QED
    BY <2>1, <2>2 DEF M!Init, MigrationInv, M!RefsLeadHome
<1>2. MigrationInv /\ [M!Next]_M!vars => MigrationInv'
  BY MigrationStep
<1>3. MigrationInv => M!RefsLeadHome
  BY DEF MigrationInv
<1>4. QED
  BY <1>1, <1>2, <1>3, PTL DEF M!Spec
-----------------------------------------------------------------------------
(***************************************************************************)
(* The chain of the ledger.  A hash holds the hash before it: whoever has  *)
(* the hash of a committed event has all that was committed before it.     *)
(***************************************************************************)

IsLedger(l) == IsSeq(l) /\ L!VerifyChain(l)

IsSidecar(s) == s = [objects |-> s.objects, ledger |-> s.ledger] /\ IsSeq(s.ledger)

ChainInv == IsLedger(ledger) /\ IsLedger(head.ledger) /\ IsSidecar(saved)

\* What the events with the hashes of others vouch for.
Vouches(s, t) ==
  \A i \in DOMAIN s, j \in DOMAIN t :
    s[i].hash = t[j].hash =>
      i = j /\ \A k \in 1 .. i : L!Covered(s[k]) = L!Covered(t[k])

LEMMA HashesVouch ==
  ASSUME NEW s, IsLedger(s), NEW t, IsLedger(t)
  PROVE  Vouches(s, t)
<1> DEFINE Same(i, j) == i = j /\ \A k \in 1 .. i : L!Covered(s[k]) = L!Covered(t[k])
           Bad == {i \in DOMAIN s : \E j \in DOMAIN t : s[i].hash = t[j].hash /\ ~Same(i, j)}
<1>1. /\ Len(s) \in Nat /\ DOMAIN s = 1 .. Len(s) /\ Len(t) \in Nat /\ DOMAIN t = 1 .. Len(t)
      /\ L!VerifyChain(s) /\ L!VerifyChain(t)
  BY DEF IsLedger, IsSeq
<1>2. SUFFICES ASSUME Bad # {} PROVE FALSE
  BY DEF Vouches
<1>3. PICK i \in Bad : \A h \in Bad : ~(<<h, i>> \in OpToRel(<, Nat))
  <2>1. Bad \subseteq Nat
    BY <1>1
  <2> HIDE DEF Bad
  <2>2. QED
    BY <1>2, <2>1, NatLessThanWellFounded, WFMin
<1>4. PICK j \in DOMAIN t : s[i].hash = t[j].hash /\ ~Same(i, j)
  OBVIOUS
<1> DEFINE before(l, n) == IF n = 1 THEN <<>> ELSE l[n - 1].hash
<1>5. /\ s[i].hash = <<before(s, i), L!Covered(s[i])>>
      /\ t[j].hash = <<before(t, j), L!Covered(t[j])>>
  BY <1>1 DEF L!VerifyChain, L!EventHash
<1>6. before(s, i) = before(t, j) /\ L!Covered(s[i]) = L!Covered(t[j])
  <2> HIDE DEF before
  <2>1. <<before(s, i), L!Covered(s[i])>> = <<before(t, j), L!Covered(t[j])>>
    BY <1>4, <1>5
  <2>2. QED
    BY <2>1
<1>7. \A n \in DOMAIN s : n # 1 => s[n - 1].hash # <<>>
  <2>1. ASSUME NEW n \in DOMAIN s, n # 1 PROVE s[n - 1].hash # <<>>
    <3>1. n - 1 \in DOMAIN s
      BY <1>1, <2>1
    <3>2. \E x, y : s[n - 1].hash = <<x, y>>
      BY <1>1, <3>1 DEF L!VerifyChain, L!EventHash
    <3>3. QED
      BY <3>2
  <2>2. QED
    BY <2>1
<1>8. \A n \in DOMAIN t : n # 1 => t[n - 1].hash # <<>>
  <2>1. ASSUME NEW n \in DOMAIN t, n # 1 PROVE t[n - 1].hash # <<>>
    <3>1. n - 1 \in DOMAIN t
      BY <1>1, <2>1
    <3>2. \E x, y : t[n - 1].hash = <<x, y>>
      BY <1>1, <3>1 DEF L!VerifyChain, L!EventHash
    <3>3. QED
      BY <3>2
  <2>2. QED
    BY <2>1
<1>9. i = 1 <=> j = 1
  BY <1>6, <1>7, <1>8
<1>10. CASE i = 1
  <2>1. Same(i, j)
    BY <1>6, <1>9, <1>10
  <2>2. QED
    BY <1>4, <2>1
<1>11. CASE i # 1
  <2>1. i - 1 \in DOMAIN s /\ j - 1 \in DOMAIN t /\ s[i - 1].hash = t[j - 1].hash
    BY <1>1, <1>6, <1>9, <1>11
  <2>2. i - 1 \notin Bad
    <3>1. <<i - 1, i>> \in OpToRel(<, Nat)
      BY <1>1, <2>1 DEF OpToRel
    <3> HIDE DEF Bad
    <3>2. QED
      BY <1>3, <3>1
  <2>3. Same(i - 1, j - 1)
    <3> HIDE DEF Same
    <3>1. QED
      BY <2>1, <2>2
  <2>4. i = j /\ \A k \in 1 .. i - 1 : L!Covered(s[k]) = L!Covered(t[k])
    BY <1>1, <2>3
  <2>5. Same(i, j)
    <3>1. \A k \in 1 .. i : k = i \/ k \in 1 .. i - 1
      BY <1>1
    <3>2. QED
      BY <1>6, <2>4, <3>1
  <2>6. QED
    BY <1>4, <2>5
<1>12. QED
  BY <1>10, <1>11

\* The ledger grows by an event that is chained to its last.
LEMMA LedgerGrows ==
  ASSUME NEW l, IsLedger(l), NEW body, NEW after
  PROVE  IsLedger(Append(l, L!Chained(l, body, after)))
<1> DEFINE e == L!Chained(l, body, after)
           t == Append(l, e)
<1>1. e.hash = <<e.previous, L!Covered(e)>>
  BY DEF L!Chained, L!EventHash, L!Covered
<1>2. e.previous = IF Len(l) + 1 = 1 THEN <<>> ELSE l[Len(l)].hash
  <2>1. Len(l) \in Nat /\ (l = <<>> <=> Len(l) = 0)
    BY DEF IsLedger, IsSeq
  <2>2. e.previous = IF l = <<>> THEN <<>> ELSE l[Len(l)].hash
    BY DEF L!Chained, L!Last_, L!Last
  <2>3. QED
    BY <2>1, <2>2
<1> HIDE DEF e
<1>3. PICK U : l \in Seq(U)
  BY DEF IsLedger, IsSeq
<1>4. /\ t \in Seq(U \cup {e}) /\ Len(l) \in Nat /\ DOMAIN l = 1 .. Len(l)
      /\ DOMAIN t = 1 .. Len(l) + 1 /\ t[Len(l) + 1] = e
      /\ \A i \in 1 .. Len(l) : t[i] = l[i]
  <2>1. l \in Seq(U \cup {e}) /\ e \in U \cup {e}
    BY <1>3
  <2>2. QED
    BY <2>1
<1> HIDE DEF t
<1>5. ASSUME NEW i \in DOMAIN t
      PROVE  LET previous == IF i = 1 THEN <<>> ELSE t[i - 1].hash
             IN  t[i].hash = L!EventHash(previous, t[i]) /\ t[i].previous = previous
  <2>1. CASE i \in 1 .. Len(l)
    <3>1. t[i] = l[i] /\ i \in DOMAIN l /\ (i # 1 => t[i - 1] = l[i - 1])
      BY <1>4, <2>1
    <3>2. QED
      BY <3>1 DEF IsLedger, L!VerifyChain
  <2>2. CASE i = Len(l) + 1
    <3>1. t[i] = e /\ (i # 1 => t[i - 1] = l[Len(l)])
      BY <1>4, <2>2
    <3>2. QED
      BY <1>1, <1>2, <2>2, <3>1 DEF L!EventHash
  <2>3. QED
    BY <1>4, <2>1, <2>2
<1>6. L!VerifyChain(t)
  BY <1>5 DEF L!VerifyChain
<1>7. QED
  BY <1>4, <1>6 DEF IsLedger, IsSeq, t, e

\* Events in other forms are as many events.
LEMMA AsMany ==
  ASSUME NEW l, IsSeq(l), NEW t, t = [j \in DOMAIN l |-> t[j]]
  PROVE  IsSeq(t)
<1>1. Len(l) \in Nat /\ DOMAIN l = 1 .. Len(l)
  BY DEF IsSeq
<1>2. t \in [1 .. Len(l) -> {t[j] : j \in DOMAIN l}]
  BY <1>1
<1>3. t \in Seq({t[j] : j \in DOMAIN l})
  BY <1>1, <1>2
<1>4. QED
  BY <1>3 DEF IsSeq

\* An edited sidecar is still one.
LEMMA EditsParse ==
  ASSUME NEW w, IsSidecar(w), NEW s \in L!Edited(w)
  PROVE  IsSidecar(s)
<1> DEFINE l == w.ledger
<1>0. w = [objects |-> w.objects, ledger |-> l] /\ IsSeq(l)
      /\ Len(l) \in Nat /\ DOMAIN l = 1 .. Len(l)
  BY DEF IsSidecar, IsSeq
<1>1. ASSUME NEW o \in Object,
             \/ s = [w EXCEPT !.objects = L!Bumped(w.objects, {o})]
             \/ s = [w EXCEPT !.objects[o] = L!Absent]
      PROVE  IsSidecar(s)
  BY <1>0, <1>1 DEF IsSidecar
<1>2. ASSUME NEW i \in DOMAIN l,
             NEW t \in {L!Forged(l, i), L!Resealed(l, i), L!Reforged(l, i),
                        [l EXCEPT ![i].before = <<>>], L!RemoveAt(l, i)},
             s = [w EXCEPT !.ledger = t]
      PROVE  IsSidecar(s)
  <2>1. ASSUME t \in {L!Forged(l, i), L!Resealed(l, i), L!Reforged(l, i),
                      [l EXCEPT ![i].before = <<>>]}
        PROVE  IsSeq(t)
    <3>1. t = [j \in DOMAIN l |-> t[j]]
      <4> HIDE DEF l
      <4>1. CASE t = L!Forged(l, i) \/ t = [l EXCEPT ![i].before = <<>>]
        BY <1>0, <4>1 DEF L!Forged
      <4>2. CASE t = L!Resealed(l, i)
        BY <1>0, <4>2 DEF L!Forged, L!Resealed
      <4>3. CASE t = L!Reforged(l, i)
        BY <1>0, <4>3 DEF L!Reforged
      <4>4. QED
        BY <2>1, <4>1, <4>2, <4>3
    <3> HIDE DEF l
    <3>2. QED
      BY <1>0, <3>1, AsMany
  <2>2. ASSUME t = L!RemoveAt(l, i) PROVE IsSeq(t)
    <3> HIDE DEF l
    <3>1. PICK U : l \in Seq(U)
      BY <1>0 DEF IsSeq
    <3>2. t = SubSeq(l, 1, i - 1) \o SubSeq(l, i + 1, Len(l))
      BY <2>2 DEF L!RemoveAt
    <3>3. SubSeq(l, 1, i - 1) \in Seq(U) /\ SubSeq(l, i + 1, Len(l)) \in Seq(U)
      BY <1>0, <3>1
    <3>4. t \in Seq(U)
      BY <3>2, <3>3
    <3>5. QED
      BY <3>4 DEF IsSeq
  <2>3. s = [objects |-> w.objects, ledger |-> t]
    BY <1>0, <1>2
  <2>4. QED
    BY <2>1, <2>2, <2>3 DEF IsSidecar
<1>3. ASSUME NEW i \in 1 .. Len(l) - 1,
             s = [w EXCEPT !.ledger[i] = l[i + 1], !.ledger[i + 1] = l[i]]
      PROVE  IsSidecar(s)
  <2>1. s = [objects |-> w.objects,
             ledger |-> [[l EXCEPT ![i] = l[i + 1]] EXCEPT ![i + 1] = l[i]]]
    BY <1>0, <1>3
  <2>2. s.ledger = [j \in DOMAIN l |-> s.ledger[j]]
    BY <2>1
  <2>3. IsSeq(s.ledger)
    BY <1>0, <2>2, AsMany
  <2>4. QED
    BY <2>1, <2>3 DEF IsSidecar
<1>4. \/ \E o \in Object : \/ s = [w EXCEPT !.objects = L!Bumped(w.objects, {o})]
                           \/ s = [w EXCEPT !.objects[o] = L!Absent]
      \/ \E i \in DOMAIN l :
           \E t \in {L!Forged(l, i), L!Resealed(l, i), L!Reforged(l, i),
                     [l EXCEPT ![i].before = <<>>], L!RemoveAt(l, i)} :
             s = [w EXCEPT !.ledger = t]
      \/ \E i \in 1 .. Len(l) - 1 :
           s = [w EXCEPT !.ledger[i] = l[i + 1], !.ledger[i + 1] = l[i]]
  <2> DEFINE Altered(i) == {L!Forged(l, i), L!Resealed(l, i), L!Reforged(l, i),
                            [l EXCEPT ![i].before = <<>>], L!RemoveAt(l, i)}
  <2>1. \/ s \in {[w EXCEPT !.objects = L!Bumped(w.objects, {o})] : o \in Object}
        \/ s \in {[w EXCEPT !.objects[o] = L!Absent] : o \in Object}
        \/ s \in {[w EXCEPT !.ledger = t] : t \in UNION {Altered(i) : i \in DOMAIN l}}
        \/ s \in {[w EXCEPT !.ledger[i] = l[i + 1], !.ledger[i + 1] = l[i]] :
                  i \in 1 .. Len(l) - 1}
    BY Zenon DEF L!Edited
  <2>2. ASSUME s \in {[w EXCEPT !.ledger = t] : t \in UNION {Altered(i) : i \in DOMAIN l}}
        PROVE  \E i \in DOMAIN l : \E t \in Altered(i) : s = [w EXCEPT !.ledger = t]
    <3> HIDE DEF Altered, l
    <3>1. PICK t \in UNION {Altered(i) : i \in DOMAIN l} : s = [w EXCEPT !.ledger = t]
      BY <2>2
    <3>2. QED
      BY <3>1
  <2>3. QED
    BY <2>1, <2>2
<1>5. QED
  BY <1>1, <1>2, <1>3, <1>4

Vouched ==
  pc = "down" /\ pc' = "live" =>
    /\ head.hash = L!FullHash(head.objects) => objects' = head.objects
    /\ Vouches(ledger', head.ledger)

\* What is loaded is a ledger, and so is what it grows to.
LEMMA ChainStep ==
  ASSUME ChainInv, [L!Next]_L!vars
  PROVE  ChainInv' /\ Vouched
<1>1. ASSUME NEW changed \in SUBSET Object \ {{}}, L!Accept(changed)
      PROVE  ChainInv' /\ pc = "live"
  <2>1. /\ \E after : ledger' = Append(ledger, L!Chained(ledger, Len(ledger) + 1, after))
        /\ UNCHANGED <<saved, head>> /\ pc = "live"
    BY <1>1 DEF L!Accept
  <2>2. QED
    BY <2>1, LedgerGrows DEF ChainInv
<1>2. ASSUME NEW o \in Object, L!RefuseLate(o)
      PROVE  ChainInv' /\ pc = "live"
  <2>1. /\ ledger' = Append(ledger, L!Chained(ledger, Len(ledger) + 1, folded))
        /\ UNCHANGED <<saved, head>> /\ pc = "live"
    BY <1>2 DEF L!RefuseLate
  <2>2. QED
    BY <2>1, LedgerGrows DEF ChainInv
<1>3. ASSUME L!Save PROVE ChainInv' /\ pc = "live"
  BY <1>3 DEF L!Save, ChainInv, IsSidecar, IsLedger
<1>4. ASSUME L!Stop PROVE ChainInv' /\ pc' = "down"
  BY <1>4 DEF L!Stop, ChainInv
<1>5. ASSUME L!Edit PROVE ChainInv' /\ pc' = "down"
  BY <1>5, EditsParse DEF L!Edit, ChainInv
<1>6. ASSUME L!Load PROVE ChainInv' /\ Vouched
  <2>1. IsLedger(ledger') /\ UNCHANGED <<saved, head>>
    BY <1>6 DEF L!Load, ChainInv, IsLedger, IsSidecar
  <2>2. Vouches(ledger', head.ledger)
    BY <2>1, HashesVouch DEF ChainInv
  <2>3. head.hash = L!FullHash(head.objects) => objects' = head.objects
    BY <1>6 DEF L!Load, L!FullHash
  <2>4. QED
    BY <2>1, <2>2, <2>3 DEF ChainInv, Vouched
<1>7. CASE UNCHANGED L!vars
  BY <1>7 DEF L!vars, ChainInv, Vouched
<1>8. QED
  BY <1>1, <1>2, <1>3, <1>4, <1>5, <1>6, <1>7 DEF L!Next, Vouched

\* However a cached copy is edited while no process runs, also with its hashes put right: the
\* objects a process starts from are the committed ones where the committed hash counts them all,
\* and an event with the hash of a committed event stands where that one stood, behind the same
\* events.  (persistence.py, hashing.py)
THEOREM HashesVouchForWhatIsLoaded == L!Spec => L!LoadsWhatIsVouchedFor
<1>1. L!Init => ChainInv
  <2>1. IsLedger(<<>>)
    <3>1. <<>> \in Seq({})
      OBVIOUS
    <3>2. QED
      BY <3>1 DEF IsLedger, IsSeq, L!VerifyChain
  <2>2. QED
    BY <2>1 DEF L!Init, ChainInv, IsSidecar, IsLedger
<1>2. ChainInv /\ [L!Next]_L!vars => ChainInv'
  BY ChainStep
<1>3. ChainInv /\ [L!Next]_L!vars => [Vouched]_L!vars
  BY ChainStep
<1>4. QED
  BY <1>1, <1>2, <1>3, PTL DEF L!Spec, L!LoadsWhatIsVouchedFor, Vouched, Vouches

-----------------------------------------------------------------------------
(***************************************************************************)
(* The explorer of the solution space.                                     *)
(***************************************************************************)
LEMMA SmallestOfTwo ==
  ASSUME NEW m \in Nat, NEW n \in Nat, n <= m
  PROVE  N!Min({m, n}) = n
<1>1. n \in {m, n} /\ \A y \in {m, n} : n <= y
  OBVIOUS
<1>2. \A x \in {m, n} : (\A y \in {m, n} : x <= y) => x = n
  OBVIOUS
<1>3. QED
  BY <1>1, <1>2 DEF N!Min

LEMMA ImagesAreFinite ==
  ASSUME NEW f, IsFiniteSet(DOMAIN f)
  PROVE  IsFiniteSet({f[x] : x \in DOMAIN f})
<1> DEFINE g == [x \in DOMAIN f |-> f[x]]
<1>1. g \in Surjection(DOMAIN f, {f[x] : x \in DOMAIN f})
  BY DEF Surjection
<1> HIDE DEF g
<1>2. QED
  BY <1>1, FS_Surjection

\* There are finitely many islands, of points that there are, and finitely many items.
LEMMA IslandsAreFew ==
  ASSUME N!SolutionSpaceAssumption, present \subseteq Point
  PROVE  /\ IsFiniteSet(DOMAIN N!Islands(present))
         /\ \A k \in DOMAIN N!Islands(present) : N!Islands(present)[k] \subseteq present
<1> DEFINE roots == N!Roots(present)
           f == [p \in present |-> N!Find(roots, p)]
           tops == {N!Find(roots, p) : p \in present}
           Nth(k) == CHOOSE r \in tops : Cardinality({s \in tops : s < r}) = k - 1
           Members(r) == {p \in present : N!Find(roots, p) = r}
<1>1. N!Islands(present) = [k \in 1 .. Cardinality(tops) |-> Members(Nth(k))]
  BY DEF N!Islands, N!Cardinality, Cardinality
<1>2. IsFiniteSet(present)
  BY FS_Subset DEF N!SolutionSpaceAssumption, N!IsFiniteSet, IsFiniteSet
<1>3. tops = {f[x] : x \in DOMAIN f} /\ DOMAIN f = present
  OBVIOUS
<1>4. IsFiniteSet(tops)
  <2> HIDE DEF f, tops
  <2>1. QED
    BY <1>2, <1>3, ImagesAreFinite
<1>5. IsFiniteSet(1 .. Cardinality(tops))
  <2>1. Cardinality(tops) \in Nat
    BY <1>4, FS_CardinalityType
  <2>2. QED
    BY <2>1, FS_Interval
<1>6. \A r : Members(r) \subseteq present
  OBVIOUS
<1> HIDE DEF tops, Members, Nth
<1>7. QED
  BY <1>1, <1>5, <1>6

LEMMA ItemsAreFew ==
  ASSUME NEW map, IsFiniteSet(DOMAIN map)
  PROVE  IsFiniteSet(N!Items(map))
<1> DEFINE alone == {j \in DOMAIN map : ~N!Anchored(map[j])}
           f == [k \in alone |-> [kind |-> "reach_island", target |-> {k}, members |-> map[k]]]
           g == [ab \in N!Bridges(map) |->
                   [kind |-> "bridge", target |-> {ab[1], ab[2]},
                    members |-> map[ab[1]] \cup map[ab[2]]]]
<1>1. N!Items(map) = {f[k] : k \in DOMAIN f} \cup {g[ab] : ab \in DOMAIN g}
  BY DEF N!Items
<1>2. IsFiniteSet(DOMAIN f)
  BY FS_Subset
<1>3. IsFiniteSet(DOMAIN g)
  <2>1. IsFiniteSet((DOMAIN map) \X (DOMAIN map))
    BY FS_Product
  <2>2. N!Bridges(map) \subseteq (DOMAIN map) \X (DOMAIN map)
    BY DEF N!Bridges
  <2>3. QED
    BY <2>1, <2>2, FS_Subset
<1> HIDE DEF f, g
<1>4. QED
  BY <1>1, <1>2, <1>3, ImagesAreFinite, FS_Union

\* The agenda that holds all items is the only one, where there is room for all.
LEMMA AgendaHoldsAll ==
  ASSUME N!SolutionSpaceAssumption, present \subseteq Point,
         Cardinality(N!Items(N!Islands(present))) <= Top,
         NEW agenda \in N!Agendas(N!Islands(present))
  PROVE  agenda = N!Items(N!Islands(present))
<1> DEFINE items == N!Items(N!Islands(present))
<1>1. IsFiniteSet(items)
  BY IslandsAreFew, ItemsAreFew
<1>2. Cardinality(items) \in Nat /\ Top \in Nat
  BY <1>1, FS_CardinalityType DEF N!SolutionSpaceAssumption
<1>3. N!Min({Top, Cardinality(items)}) = Cardinality(items)
  BY <1>2, SmallestOfTwo
<1>4. agenda \in SUBSET items /\ Cardinality(agenda) = N!Min({Top, Cardinality(items)})
  BY DEF N!Agendas, N!kSubset, N!Cardinality, Cardinality
<1>5. agenda = items
  <2> HIDE DEF items
  <2>1. QED
    BY <1>1, <1>3, <1>4, FS_Subset
<1>6. QED
  BY <1>5

\* What has been taken is what is remembered, and nothing twice; at rest nothing is left.
Explored ==
  /\ present \subseteq Point
  /\ trace \in Seq(SUBSET Point)
  /\ seen = {trace[i] : i \in DOMAIN trace}
  /\ \A i, j \in DOMAIN trace : trace[i] = trace[j] => i = j
  /\ state = "nothing new" /\ Cardinality(N!Items(N!Islands(present))) <= Top
       => \A item \in N!Items(N!Islands(present)) : item.members \in seen

LEMMA MembersArePoints ==
  ASSUME N!SolutionSpaceAssumption, present \subseteq Point, NEW item \in N!Items(N!Islands(present))
  PROVE  item.members \subseteq present
<1> DEFINE map == N!Islands(present)
<1>1. \A k \in DOMAIN map : map[k] \subseteq present
  BY IslandsAreFew
<1> HIDE DEF map
<1>2. \A x \in N!Items(map) : x.members \subseteq present
  BY <1>1 DEF N!Items, N!Bridges
<1>3. QED
  BY <1>2 DEF map

LEMMA ExploredStep ==
  ASSUME N!SolutionSpaceAssumption, Explored, [N!Next]_N!vars
  PROVE  Explored'
<1>1. CASE N!Explore
  <2>1. PICK agenda \in N!Agendas(N!Islands(present)) : \E item \in N!New(agenda) :
          /\ seen' = seen \cup {N!Identity(item)}
          /\ trace' = Append(trace, item.members)
          /\ N!Effect(item)
    BY <1>1 DEF N!Explore
  <2>2. PICK item \in N!New(agenda) :
          /\ seen' = seen \cup {item.members}
          /\ trace' = Append(trace, item.members)
          /\ N!Effect(item)
    BY <2>1 DEF N!Identity
  <2>3. item \in N!Items(N!Islands(present)) /\ item.members \notin seen
    BY <2>1, <2>2 DEF N!New, N!Identity, N!Agendas, N!kSubset
  <2>4. item.members \in SUBSET Point
    BY <2>3, MembersArePoints DEF Explored
  <2>5. present' \subseteq Point
    BY <2>2 DEF Explored, N!Effect
  <2>6. state' = "exploring"
    BY <1>1 DEF N!Explore
  <2>7. /\ trace' \in Seq(SUBSET Point)
        /\ DOMAIN trace' = DOMAIN trace \cup {Len(trace) + 1} /\ Len(trace) + 1 \notin DOMAIN trace
        /\ \A i \in DOMAIN trace : trace'[i] = trace[i]
        /\ trace'[Len(trace) + 1] = item.members
    <3>1. trace \in Seq(SUBSET Point) /\ trace' = Append(trace, item.members)
      BY <2>2 DEF Explored
    <3> HIDE DEF N!Items
    <3>2. PICK m : m = item.members
      OBVIOUS
    <3>3. trace' = Append(trace, m) /\ m \in SUBSET Point
      BY <2>4, <3>1, <3>2
    <3>4. /\ trace' \in Seq(SUBSET Point) /\ Len(trace') = Len(trace) + 1
          /\ DOMAIN trace = 1 .. Len(trace) /\ DOMAIN trace' = 1 .. Len(trace') /\ Len(trace) \in Nat
      BY <3>1, <3>3
    <3>5. (\A i \in 1 .. Len(trace) : trace'[i] = trace[i]) /\ trace'[Len(trace) + 1] = m
      BY <3>1, <3>3
    <3>6. QED
      BY <3>2, <3>4, <3>5
  <2>8. seen' = {trace'[i] : i \in DOMAIN trace'}
    <3>1. seen = {trace[i] : i \in DOMAIN trace} /\ seen' = seen \cup {item.members}
      BY <2>2 DEF Explored
    <3>2. {trace'[i] : i \in DOMAIN trace'}
            = {trace'[i] : i \in DOMAIN trace} \cup {trace'[Len(trace) + 1]}
      BY <2>7
    <3>3. {trace'[i] : i \in DOMAIN trace} = {trace[i] : i \in DOMAIN trace}
      BY <2>7
    <3>4. QED
      BY <2>7, <3>1, <3>2, <3>3
  <2>9. \A i \in DOMAIN trace : trace[i] # item.members
    BY <2>3 DEF Explored
  <2>10. \A i, j \in DOMAIN trace' : trace'[i] = trace'[j] => i = j
    BY <2>7, <2>9 DEF Explored
  <2>11. QED
    BY <2>5, <2>6, <2>7, <2>8, <2>10 DEF Explored
<1>2. CASE N!Rest
  <2>1. UNCHANGED <<present, anchored, seen, trace>>
    BY <1>2 DEF N!Rest
  <2>2. PICK agenda \in N!Agendas(N!Islands(present)) : N!New(agenda) = {}
    BY <1>2 DEF N!Rest
  <2>3. Cardinality(N!Items(N!Islands(present))) <= Top
          => \A item \in N!Items(N!Islands(present)) : item.members \in seen
    BY <2>2, AgendaHoldsAll DEF Explored, N!New, N!Identity
  <2>4. (N!Items(N!Islands(present)))' = N!Items(N!Islands(present))
    BY <2>1 DEF N!Items, N!Anchored, N!Bridges
  <2>5. QED
    BY <2>1, <2>3, <2>4 DEF Explored
<1>3. CASE N!GiveUp
  BY <1>3 DEF N!GiveUp, Explored
<1>4. CASE UNCHANGED N!vars
  <2>1. (N!Items(N!Islands(present)))' = N!Items(N!Islands(present))
    BY <1>4 DEF N!vars, N!Items, N!Anchored, N!Bridges
  <2>2. QED
    BY <1>4, <2>1 DEF N!vars, Explored
<1>5. QED
  BY <1>1, <1>2, <1>3, <1>4 DEF N!Next

\* Whatever points there are and come, however the islands are numbered, and whatever exploring
\* does to the claims: the explorer takes nothing twice, and rests, where the agenda has room for
\* all, only when it has taken every gap of the map as it is.  (navigation.py)
THEOREM NoGapIsLeft ==
  ASSUME N!SolutionSpaceAssumption
  PROVE  N!Spec => []N!GapsAreExplored
<1>1. N!Init => Explored
  BY DEF N!Init, Explored, N!SolutionSpaceAssumption
<1>2. Explored => N!GapsAreExplored
  BY DEF Explored, N!GapsAreExplored, N!IsInjective, N!Range, N!Cardinality, Cardinality
<1>3. Explored /\ [N!Next]_N!vars => Explored'
  BY ExploredStep
<1>4. QED
  BY <1>1, <1>2, <1>3, PTL DEF N!Spec

-----------------------------------------------------------------------------
(***************************************************************************)
(* The persona.                                                            *)
(***************************************************************************)
Fits(line) == line.maxim # P!None => line.maxim.about = P!Prompt(line.lesson)

\* A file is about what it is named by, and a maxim about the lesson it stands beside.
FitInv ==
  /\ \A k \in DOMAIN outputs : outputs[k].about = k
  /\ \E U : lines \in Seq(U)
  /\ \A i \in DOMAIN lines : Fits(lines[i])
  /\ \A i \in DOMAIN page : Fits(page[i])

LEMMA FilesAreNamed ==
  ASSUME FitInv, NEW asked, NEW text, text.about = asked, P!File(asked, text)
  PROVE  \A k \in DOMAIN outputs' : outputs'[k].about = k
BY DEF FitInv, P!File, P!Key

LEMMA AnswersFit ==
  ASSUME FitInv, NEW asked, NEW text, P!Call(asked, text)
  PROVE  /\ \A k \in DOMAIN outputs' : outputs'[k].about = k
         /\ text = P!None \/ text.about = asked
<1> USE DEF FitInv
<1>1. CASE P!Replay(asked, text)
  BY <1>1 DEF P!Replay, P!Filed, P!Key
<1>2. CASE P!Refused(asked, text) \/ P!Failed(asked, text)
  BY <1>2 DEF P!Refused, P!Failed, P!seam
<1>3. CASE P!Answered(asked, text)
  <2>1. text.about = asked
    BY <1>3 DEF P!Answered, P!Replies, P!Whole, P!Empty
  <2>2. outputs' = outputs \/ P!File(asked, text)
    BY <1>3 DEF P!Answered
  <2>3. QED
    BY <2>1, <2>2, FilesAreNamed
<1>4. QED
  BY <1>1, <1>2, <1>3 DEF P!Call

LEMMA CutShortFits ==
  ASSUME FitInv, NEW asked, P!CutShort(asked)
  PROVE  \A k \in DOMAIN outputs' : outputs'[k].about = k
<1>1. \/ outputs' = outputs
      \/ \E text \in {P!Empty(asked), P!Torn(asked), P!Whole(asked)} : P!File(asked, text)
  BY DEF P!CutShort
<1>2. \A text \in {P!Empty(asked), P!Torn(asked), P!Whole(asked)} : text.about = asked
  BY DEF P!Empty, P!Torn, P!Whole
<1>3. QED
  BY <1>1, <1>2, FilesAreNamed DEF FitInv

LEMMA PlainFits == \A lessons : \A i \in DOMAIN P!Plain(lessons) : Fits(P!Plain(lessons)[i])
BY DEF P!Plain, P!Line, Fits

LEMMA OneMoreFits ==
  ASSUME NEW U, lines \in Seq(U), NEW line, Fits(line), \A i \in DOMAIN lines : Fits(lines[i]),
         lines' = Append(lines, line)
  PROVE  (\E T : lines' \in Seq(T)) /\ \A i \in DOMAIN lines' : Fits(lines'[i])
<1>1. lines \in Seq(U \cup {line})
  OBVIOUS
<1>2. lines' \in Seq(U \cup {line})
  BY <1>1
<1>3. /\ Len(lines) \in Nat /\ DOMAIN lines = 1 .. Len(lines)
      /\ DOMAIN lines' = 1 .. Len(lines) + 1
      /\ \A i \in 1 .. Len(lines) : lines'[i] = lines[i]
      /\ lines'[Len(lines) + 1] = line
  BY <1>1
<1>4. \A i \in DOMAIN lines' : Fits(lines'[i])
  BY <1>3
<1>5. QED
  BY <1>2, <1>4

LEMMA NoLines == (\E U : <<>> \in Seq(U)) /\ \A i \in DOMAIN <<>> : Fits(<<>>[i])
<1>1. <<>> \in Seq({})
  OBVIOUS
<1>2. QED
  BY <1>1

LEMMA FitStep ==
  ASSUME FitInv, [P!Next]_P!vars
  PROVE  FitInv'
<1> USE DEF FitInv, Fits
<1>1. CASE UNCHANGED <<outputs, lines, page>>
  BY <1>1
<1>2. CASE \/ \E c \in Claim, t \in Theme : P!Learn(c, t)
           \/ \E c \in Claim, why \in Reason : P!Reject(c, why)
           \/ \E c, d \in Claim : P!Settle(c, d)
           \/ \E c, d \in Claim, t \in Theme : P!Refile(c, d, t)
           \/ P!Finish
  BY <1>1, <1>2 DEF P!Learn, P!Reject, P!Settle, P!Refile, P!Finish, P!seam
<1>3. ASSUME NEW reviewed \in BOOLEAN, NEW phrase \in BOOLEAN, P!Project(reviewed, phrase)
      PROVE  FitInv'
  <2>1. outputs' = outputs
    BY <1>3 DEF P!Project, P!seam
  <2>2. CASE lines' = <<>> /\ page' = page
    BY <2>1, <2>2, NoLines
  <2>3. CASE lines' = lines /\ page' = P!Plain(P!Lessons(reviewed))
    BY <2>1, <2>3, PlainFits
  <2>4. QED
    BY <1>3, <2>2, <2>3 DEF P!Project, P!Write
<1>4. CASE P!Phrase
  <2> DEFINE lesson == Head(todo)
             asked == P!Prompt(lesson)
  <2>1. PICK text : P!Call(asked, text) /\ lines' = Append(lines, P!Line(lesson, P!Maxim(lesson, text)))
    BY <1>4 DEF P!Phrase
  <2>2. page' = page
    BY <1>4 DEF P!Phrase
  <2>3. /\ \A k \in DOMAIN outputs' : outputs'[k].about = k
        /\ text = P!None \/ text.about = asked
    BY <2>1, AnswersFit
  <2>4. Fits(P!Line(lesson, P!Maxim(lesson, text)))
    BY <2>3 DEF P!Line, P!Maxim
  <2>5. PICK line : line = P!Line(lesson, P!Maxim(lesson, text))
    OBVIOUS
  <2>6. (\E T : lines' \in Seq(T)) /\ \A i \in DOMAIN lines' : Fits(lines'[i])
    BY <2>1, <2>4, <2>5, OneMoreFits
  <2>7. QED
    BY <2>2, <2>3, <2>6
<1>5. CASE P!WritePhrased
  BY <1>5, NoLines DEF P!WritePhrased, P!Write, P!seam
<1>6. CASE P!Kill
  BY <1>6, NoLines DEF P!Kill, P!Lost, P!seam
<1>7. CASE P!KillInCall
  BY <1>7, NoLines, CutShortFits DEF P!KillInCall, P!Lost
<1>8. CASE UNCHANGED P!vars
  BY <1>1, <1>8 DEF P!vars, P!seam
<1>9. QED
  BY <1>2, <1>3, <1>4, <1>5, <1>6, <1>7, <1>8 DEF P!Next

\* Whatever corrections, answers, refusals and kills there are, in a call or outside of one: what
\* the page says of the errors beside a maxim is what the model was told when it made it.
\* (persona.py, model_call.py)
THEOREM MaximsStandByTheirErrors == P!Spec => []P!MaximsFit
<1>1. P!Init => FitInv
  BY NoLines DEF P!Init, P!SeamInit, FitInv
<1>2. FitInv /\ [P!Next]_P!vars => FitInv'
  BY FitStep
<1>3. FitInv => P!MaximsFit
  <2> SUFFICES ASSUME FitInv, NEW i \in DOMAIN page, page[i].maxim # P!None
               PROVE  LET said == page[i].maxim.about
                          lesson == page[i].lesson
                      IN  /\ <<said.theme, said.depth, said.replaced>>
                               = <<lesson.theme, lesson.depth, lesson.replaced>>
                          /\ [k \in DOMAIN said.anchors |-> said.anchors[k].before]
                               = [k \in DOMAIN lesson.anchors |-> lesson.anchors[k].before]
    BY DEF P!MaximsFit
  <2>1. page[i].maxim.about = P!Prompt(page[i].lesson)
    BY DEF FitInv, Fits
  <2>2. \A lesson : LET said == P!Prompt(lesson)
                    IN  /\ <<said.theme, said.depth, said.replaced>>
                             = <<lesson.theme, lesson.depth, lesson.replaced>>
                        /\ [k \in DOMAIN said.anchors |-> said.anchors[k].before]
                             = [k \in DOMAIN lesson.anchors |-> lesson.anchors[k].before]
    BY DEF P!Prompt, P!Told
  <2>3. QED
    BY <2>1, <2>2
<1>4. QED
  BY <1>1, <1>2, <1>3, PTL DEF P!Spec

-----------------------------------------------------------------------------
(***************************************************************************)
(* The evidence of trials, and the import into the spaces: facts of single *)
(* steps.                                                                  *)
(***************************************************************************)
\* What a stored event was found to be it is found to be again, whatever is released, imported or
\* recorded in between, and however often its Python comes and goes.  (evaluate_envelope)
THEOREM FoundAgain == E!Spec => E!VerdictsAreRepeatable
<1>1. ASSUME NEW s \in journal, {E!Standing(s), E!Standing(s)'} \subseteq {"verified", "inconsistent"}
      PROVE  E!Standing(s)' = E!Standing(s)
  <2>1. s.envelope # "operational" /\ s.capsule \in E!Catalog /\ E!Executable(s.capsule)
    BY <1>1 DEF E!Standing
  <2>2. (s.capsule \in E!Catalog)' /\ E!Executable(s.capsule)'
    BY <1>1, <2>1 DEF E!Standing
  <2>3. E!Repeats(s.body, s.capsule.rule)' = E!Repeats(s.body, s.capsule.rule)
    BY DEF E!Repeats
  <2>4. QED
    BY <2>1, <2>2, <2>3 DEF E!Standing
<1>2. [E!Next]_E!vars
        => [\A s \in journal :
              {E!Standing(s), E!Standing(s)'} \subseteq {"verified", "inconsistent"}
                => E!Standing(s)' = E!Standing(s)]_E!vars
  BY <1>1
<1>3. QED
  BY <1>2, PTL DEF E!Spec, E!VerdictsAreRepeatable

\* Whatever a snapshot of the kernel holds, importing it changes no object that is there and no
\* link that was ever made.  (spaces)
THEOREM ImportsAdd == D!Spec => D!ImportNeverUndoes
<1>1. ASSUME NEW d \in Documents, D!Import(d)
      PROVE  /\ \A o \in D!Present : objects'[o] = objects[o]
             /\ \A e \in Edge : links[e] # "none" => links'[e] = links[e]
  <2>1. /\ objects' = [o \in Object |-> D!RowAfterImport(d, o)]
        /\ links' = [e \in Edge |-> D!LinkAfterImport(d, e)]
    BY <1>1 DEF D!Import
  <2>2. QED
    BY <2>1 DEF D!Present, D!RowAfterImport, D!LinkAfterImport
<1>2. [D!Next]_D!vars
        => [(\E d \in Documents : D!Import(d)) =>
              /\ \A o \in D!Present : objects'[o] = objects[o]
              /\ \A e \in Edge : links[e] # "none" => links'[e] = links[e]]_D!vars
  BY <1>1
<1>3. QED
  BY <1>2, PTL DEF D!Spec, D!ImportNeverUndoes

-----------------------------------------------------------------------------
(***************************************************************************)
(* The verifier of the Doktores.                                           *)
(***************************************************************************)

\* What the rules demand of what they file, of all that they look at.
Cleared ==
  /\ ~(Q!Score("evidence_grounding", Q!Half) < 21)
  /\ ~(Q!Score("module_fit", Q!Half) < 24)
  /\ ~(Q!Score("hard_constraint_compliance", Q!Half) < 30)
  /\ ~(/\ Q!Scored("reasoning_stability")
       /\ Q!Spread("reasoning_stability")
            > 15 * Q!Count("reasoning_stability") * Q!Count("reasoning_stability"))

\* What was asked is what has been answered or failed, and an enforced verifier files only what its
\* rules file.
VerifierInv ==
  /\ queries \in Nat /\ queries <= Reps /\ usable \in Seq(Answer) /\ Len(usable) <= queries
  /\ pc \in {"proposed", "scoring", "done"}
  /\ filed /\ mode = "enforce" => pc = "done" /\ (usable = <<>> \/ Cleared)

\* A dimension that somebody judged, by at most three answers.
LEMMA Judgements ==
  ASSUME Q!VerifierAssumption, VerifierInv, NEW d
  PROVE  /\ Q!Given(d) \subseteq 1 .. 3
         /\ \A i \in Q!Given(d) : Q!Value(d, i) \in 0 .. 10 /\ Q!Value(d, i) \in Q!Judged(d)
         /\ \A i \in (1 .. 3) \ Q!Given(d) : Q!Value(d, i) = 0
         /\ \A v \in Q!Judged(d) : \E i \in Q!Given(d) : v = Q!Value(d, i)
<1>1. usable \in Seq(Answer) /\ Len(usable) \in 0 .. 3
  <2>1. Reps \in 1 .. 3
    BY DEF Q!VerifierAssumption
  <2>2. usable \in Seq(Answer) /\ Len(usable) <= queries /\ queries \in Nat /\ queries <= Reps
    BY DEF VerifierInv
  <2>3. PICK n \in Nat : n = Len(usable)
    BY <2>2
  <2>4. n <= 3
    BY <2>1, <2>2, <2>3
  <2>5. QED
    BY <2>2, <2>3, <2>4
<1>2. DOMAIN usable \subseteq 1 .. 3 /\ \A i \in DOMAIN usable : usable[i] \in Answer
  BY <1>1
<1>3. \A i \in Q!Given(d) : i \in DOMAIN usable /\ d \in DOMAIN usable[i].scores
                             /\ Q!Value(d, i) = usable[i].scores[d]
  BY DEF Q!Given, Q!Value
<1>4. \A i \in Q!Given(d) : Q!Value(d, i) \in 0 .. 10
  <2>1. \A a \in Answer : \A x \in DOMAIN a.scores : a.scores[x] \in 0 .. 10
    BY DEF Q!VerifierAssumption
  <2>2. QED
    BY <1>2, <1>3, <2>1
<1>5. Q!Judged(d) = {usable[i].scores[d] : i \in Q!Given(d)}
  BY DEF Q!Judged, Q!Range, Q!Given
<1>6. \A i \in Q!Given(d) : Q!Value(d, i) \in Q!Judged(d)
  BY <1>3, <1>5
<1>7. \A v \in Q!Judged(d) : \E i \in Q!Given(d) : v = Q!Value(d, i)
  BY <1>3, <1>5
<1>8. \A i : i \notin Q!Given(d) => Q!Value(d, i) = 0
  BY DEF Q!Value
<1>9. Q!Given(d) \subseteq 1 .. 3
  BY <1>2 DEF Q!Given
<1>10. QED
  BY <1>4, <1>6, <1>7, <1>8, <1>9

\* As many as the numbers of the answers that judge it.
LEMMA JudgesCounted ==
  ASSUME NEW d, Q!Given(d) \subseteq 1 .. 3
  PROVE  Q!Count(d) = (IF 1 \in Q!Given(d) THEN 1 ELSE 0) + (IF 2 \in Q!Given(d) THEN 1 ELSE 0)
                        + (IF 3 \in Q!Given(d) THEN 1 ELSE 0)
<1> DEFINE G == Q!Given(d)
<1>1. Q!Count(d) = Cardinality(G)
  BY DEF Q!Count, Q!Cardinality, Cardinality
<1>2. G \in {{}, {1}, {2}, {3}, {1, 2}, {1, 3}, {2, 3}, {1, 2, 3}}
  OBVIOUS
<1>3. Cardinality({}) = 0
  BY FS_EmptySet
<1>4. \A x : Cardinality({x}) = 1 /\ IsFiniteSet({x})
  BY FS_Singleton
<1>5. \A x, y : x # y => Cardinality({x, y}) = 2 /\ IsFiniteSet({x, y})
  <2> SUFFICES ASSUME NEW x, NEW y, x # y PROVE Cardinality({x, y}) = 2 /\ IsFiniteSet({x, y})
    OBVIOUS
  <2>1. {x, y} = {x} \cup {y} /\ y \notin {x} /\ IsFiniteSet({x}) /\ Cardinality({x}) = 1
    BY FS_Singleton
  <2>2. IsFiniteSet({x} \cup {y}) /\ Cardinality({x} \cup {y}) = 1 + 1
    BY <2>1, FS_AddElement
  <2>3. QED
    BY <2>1, <2>2
<1>6. Cardinality({1, 2, 3}) = 3
  <2>1. {1, 2, 3} = {1, 2} \cup {3} /\ 3 \notin {1, 2} /\ 1 # 2
    OBVIOUS
  <2>2. IsFiniteSet({1, 2}) /\ Cardinality({1, 2}) = 2
    BY <1>5, <2>1, Zenon
  <2>3. Cardinality({1, 2} \cup {3}) = 2 + 1
    BY <2>1, <2>2, FS_AddElement
  <2>4. QED
    BY <2>1, <2>3
<1>7. Cardinality(G) = (IF 1 \in G THEN 1 ELSE 0) + (IF 2 \in G THEN 1 ELSE 0)
                         + (IF 3 \in G THEN 1 ELSE 0)
  <2> PICK H : H = G
    OBVIOUS
  <2> HIDE DEF G
  <2>1. CASE H = {}
    BY <1>3, <2>1
  <2>2. CASE H = {1, 2, 3}
    BY <1>6, <2>2
  <2>3. CASE H = {1} \/ H = {2} \/ H = {3}
    <3>1. Cardinality({1}) = 1 /\ Cardinality({2}) = 1 /\ Cardinality({3}) = 1
      BY <1>4
    <3>2. QED
      BY <2>3, <3>1
  <2>4. CASE H = {1, 2} \/ H = {1, 3} \/ H = {2, 3}
    <3>1. 1 # 2 /\ 1 # 3 /\ 2 # 3
      OBVIOUS
    <3>2. Cardinality({1, 2}) = 2 /\ Cardinality({1, 3}) = 2 /\ Cardinality({2, 3}) = 2
      BY <1>5, <3>1, Zenon
    <3>3. QED
      BY <2>4, <3>2
  <2>5. QED
    BY <1>2, <2>1, <2>2, <2>3, <2>4
<1>8. QED
  BY <1>1, <1>7

\* Where all find too little, so does the mean.
LEMMA MeansFollow ==
  ASSUME Q!VerifierAssumption, VerifierInv, NEW d, NEW most \in {3, 4}, Q!Judged(d) # {},
         \A v \in Q!Judged(d) : v <= most
  PROVE  \A default : Q!Score(d, default) \in Int /\ Q!Score(d, default) <= 6 * most
<1>1. Q!Scored(d)
  BY Judgements DEF Q!Scored
<1>2. Q!Given(d) \subseteq 1 .. 3
  BY Judgements
<1>3. \A i \in 1 .. 3 : /\ Q!Value(d, i) \in 0 .. 10
                        /\ IF i \in Q!Given(d) THEN Q!Value(d, i) <= most ELSE Q!Value(d, i) = 0
  BY Judgements
<1>4. PICK a, b, c : a = Q!Value(d, 1) /\ b = Q!Value(d, 2) /\ c = Q!Value(d, 3)
  OBVIOUS
<1>5. a \in 0 .. 10 /\ b \in 0 .. 10 /\ c \in 0 .. 10 /\ Q!Total(d) = a + b + c
  BY <1>3, <1>4 DEF Q!Total
<1>6. PICK n \in 1 .. 3 : n = Q!Count(d) /\ a + b + c <= n * most
  BY <1>1, <1>2, <1>3, <1>4, <1>5, JudgesCounted DEF Q!Scored
<1>7. (6 * (a + b + c)) \div n \in Int /\ (6 * (a + b + c)) \div n <= 6 * most
  BY <1>5, <1>6
<1>8. QED
  BY <1>1, <1>5, <1>6, <1>7 DEF Q!Score

\* The opposite ends are further apart than any third value can make up for.
LEMMA EndsShow ==
  ASSUME Q!VerifierAssumption, VerifierInv, NEW d, {0, 10} \subseteq Q!Judged(d)
  PROVE  Q!Scored(d) /\ Q!Spread(d) > 15 * Q!Count(d) * Q!Count(d)
<1>1. Q!Given(d) \subseteq 1 .. 3
  BY Judgements
<1>2. PICK i \in Q!Given(d), j \in Q!Given(d) : Q!Value(d, i) = 0 /\ Q!Value(d, j) = 10
  BY Judgements
<1>3. \A k \in 1 .. 3 : /\ Q!Value(d, k) \in 0 .. 10
                        /\ k \notin Q!Given(d) => Q!Value(d, k) = 0
  BY Judgements
<1>4. i # j
  BY <1>2
<1>5. PICK k \in 1 .. 3 : {i, j, k} = 1 .. 3 /\ k # i /\ k # j
  BY <1>1, <1>4
<1>6. PICK x \in 0 .. 10 : x = Q!Value(d, k)
  BY <1>3
<1>7. Q!Total(d) = 10 + x /\ Q!Squares(d) = 100 + x * x
  BY <1>1, <1>2, <1>5, <1>6 DEF Q!Total, Q!Squares
<1>8. Q!Count(d) = IF k \in Q!Given(d) THEN 3 ELSE 2
  BY <1>1, <1>2, <1>5, JudgesCounted
<1>9. Q!Scored(d)
  BY <1>2 DEF Q!Scored
<1>10. CASE k \in Q!Given(d)
  <2>1. 3 * (100 + x * x) - (10 + x) * (10 + x) > 15 * 3 * 3
    BY <1>6
  <2>2. QED
    BY <1>7, <1>8, <1>9, <1>10, <2>1 DEF Q!Spread
<1>11. CASE k \notin Q!Given(d)
  <2>1. x = 0
    BY <1>3, <1>5, <1>6, <1>11
  <2>2. QED
    BY <1>7, <1>8, <1>9, <1>11, <2>1 DEF Q!Spread
<1>12. QED
  BY <1>10, <1>11

LEMMA FiledIsCleared == Q!Verdict = "file" => Cleared
BY DEF Q!Verdict, Cleared

LEMMA VerifierStep ==
  ASSUME Q!VerifierAssumption, VerifierInv, [Q!Next]_Q!vars
  PROVE  VerifierInv'
<1> USE DEF VerifierInv
<1>1. Reps \in Nat
  BY DEF Q!VerifierAssumption
<1>2. CASE Q!FileUnverified
  BY <1>1, <1>2 DEF Q!FileUnverified
<1>3. CASE Q!Escalate
  BY <1>1, <1>3 DEF Q!Escalate
<1>4. ASSUME NEW answer \in Answer, Q!Ask(answer) PROVE VerifierInv'
  <2>1. ~(filed /\ mode = "enforce")
    BY <1>4 DEF Q!Ask
  <2>2. /\ queries' \in Nat /\ queries' <= Reps /\ queries' = queries + 1
        /\ pc' = pc /\ filed' = filed /\ mode' = mode
    BY <1>1, <1>4 DEF Q!Ask, Q!AnotherCall
  <2>3. usable' \in Seq(Answer) /\ Len(usable') <= Len(usable) + 1
    BY <1>4 DEF Q!Ask
  <2>4. QED
    BY <1>1, <2>1, <2>2, <2>3
<1>5. CASE Q!Unscored
  BY <1>1, <1>5 DEF Q!Unscored
<1>6. CASE Q!Decide
  <2>1. UNCHANGED <<mode, queries, usable>> /\ pc' = "done"
    BY <1>6 DEF Q!Decide
  <2>2. Cleared' = Cleared
    BY <2>1 DEF Cleared, Q!Score, Q!Scored, Q!Total, Q!Count, Q!Value, Q!Given, Q!Spread, Q!Squares
  <2>3. filed' /\ mode' = "enforce" => Cleared
    BY <1>6, FiledIsCleared DEF Q!Decide
  <2>4. QED
    BY <2>1, <2>2, <2>3
<1>7. CASE UNCHANGED Q!vars
  <2>1. Cleared' = Cleared
    BY <1>7 DEF Q!vars, Cleared, Q!Score, Q!Scored, Q!Total, Q!Count, Q!Value, Q!Given, Q!Spread,
              Q!Squares
  <2>2. QED
    BY <1>7, <2>1 DEF Q!vars
<1>8. QED
  BY <1>2, <1>3, <1>4, <1>5, <1>6, <1>7 DEF Q!Next

\* Where the verifier is enforced, an order that all who judged its evidence, its fit or its hard
\* constraints found short is not filed, nor one on whose stability two were at the opposite ends,
\* for every set of answers and up to three repetitions.  (verifier)
THEOREM DoubtIsHeard ==
  ASSUME Q!VerifierAssumption
  PROVE  Q!Spec => []Q!UnanimousDoubtHolds
<1>1. Q!Init => VerifierInv
  <2> SUFFICES ASSUME Q!Init PROVE VerifierInv
    OBVIOUS
  <2>1. queries = 0 /\ usable = <<>> /\ pc = "proposed" /\ ~filed
    BY Zenon DEF Q!Init
  <2>2. 0 <= Reps
    BY DEF Q!VerifierAssumption
  <2>3. <<>> \in Seq(Answer) /\ Len(<<>>) = 0
    OBVIOUS
  <2>4. QED
    BY <2>1, <2>2, <2>3 DEF VerifierInv
<1>2. VerifierInv /\ [Q!Next]_Q!vars => VerifierInv'
  BY VerifierStep
<1>3. VerifierInv => Q!UnanimousDoubtHolds
  <2> SUFFICES ASSUME VerifierInv, filed, mode = "enforce"
               PROVE  /\ \A d \in {"evidence_grounding", "module_fit"} :
                           Q!Judged(d) # {} => \E v \in Q!Judged(d) : v >= 4
                      /\ LET d == "hard_constraint_compliance"
                         IN  Q!Judged(d) # {} => \E v \in Q!Judged(d) : v >= 5
                      /\ ~({0, 10} \subseteq Q!Judged("reasoning_stability"))
    BY DEF Q!UnanimousDoubtHolds
  <2>1. \A d : Q!Judged(d) \subseteq 0 .. 10
    BY Judgements
  <2>2. CASE usable = <<>>
    BY <2>2 DEF Q!Judged, Q!Range
  <2>3. CASE Cleared
    <3>1. \A d \in {"evidence_grounding", "module_fit"} :
            Q!Judged(d) # {} => \E v \in Q!Judged(d) : v >= 4
      <4> SUFFICES ASSUME NEW d \in {"evidence_grounding", "module_fit"}, Q!Judged(d) # {},
                          ~(\E v \in Q!Judged(d) : v >= 4)
                   PROVE  FALSE
        OBVIOUS
      <4>1. \A v \in Q!Judged(d) : v <= 3
        BY <2>1
      <4>2. Q!Score(d, Q!Half) \in Int /\ Q!Score(d, Q!Half) <= 6 * 3
        BY <4>1, MeansFollow
      <4>3. QED
        BY <2>3, <4>2 DEF Cleared
    <3>2. ASSUME NEW d, d = "hard_constraint_compliance", Q!Judged(d) # {}
          PROVE  \E v \in Q!Judged(d) : v >= 5
      <4> SUFFICES ASSUME ~(\E v \in Q!Judged(d) : v >= 5) PROVE FALSE
        OBVIOUS
      <4>1. \A v \in Q!Judged(d) : v <= 4
        BY <2>1
      <4>2. Q!Score(d, Q!Half) \in Int /\ Q!Score(d, Q!Half) <= 6 * 4
        BY <3>2, <4>1, MeansFollow
      <4>3. QED
        BY <2>3, <3>2, <4>2 DEF Cleared
    <3>3. ~({0, 10} \subseteq Q!Judged("reasoning_stability"))
      BY <2>3, EndsShow DEF Cleared
    <3>4. QED
      BY <3>1, <3>2, <3>3
  <2>4. QED
    BY <2>2, <2>3 DEF VerifierInv
<1>4. QED
  BY <1>1, <1>2, <1>3, PTL DEF Q!Spec

-----------------------------------------------------------------------------
(***************************************************************************)
(* The provisional layer.  What carries a tag was never reviewed, for a    *)
(* review of it ends it; so that what the last cycle has tagged, or        *)
(* something before it, is there to be found.                              *)
(***************************************************************************)
\* The naturals are well-founded.
LEMMA LeastNatural ==
  ASSUME NEW X, X \subseteq Nat, X # {}
  PROVE  \E m \in X : \A x \in X : m <= x
<1>1. IsWellFoundedOn(OpToRel(<, Nat), Nat)
  BY NatLessThanWellFounded
<1>2. PICK m \in X : \A y \in X : ~(<<y, m>> \in OpToRel(<, Nat))
  BY <1>1, WFMin
<1>3. ASSUME NEW x \in X PROVE m <= x
  <2>1. ~(x < m)
    BY <1>2 DEF OpToRel
  <2>2. QED
    BY <2>1
<1>4. QED
  BY <1>3

\* What a cycle may write.
NewEntry(e) ==
  /\ DOMAIN e = {"kind", "says", "refs", "since", "reviews", "stage", "tagged"}
  /\ e.reviews = 0 /\ e.kind \in {"dispute", "hint"} /\ e.tagged \in Int
  /\ e.kind = "hint" => e.refs = {}

\* A tag is of an entry that was never reviewed.
Tagged(e) ==
  /\ DOMAIN e = {"kind", "says", "refs", "since", "reviews", "stage", "tagged"}
  /\ e.stage = "tagged" =>
       /\ e.reviews = 0 /\ e.tagged \in Int
       /\ e.kind = "dispute" \/ e.refs = {}

\* The last disputes left a tag that is a cycle old.
HindsightInv ==
  /\ cycle \in Nat /\ live \subseteq Conflict /\ hints \in Nat
  /\ decided => resolved # {}
  /\ \E X : layer \in Seq(X)
  /\ \A i \in DOMAIN layer : Tagged(layer[i])
  /\ disputes # <<>> =>
       \E i \in DOMAIN layer : layer[i].stage = "tagged" /\ layer[i].tagged = cycle - 1

LEMMA FirstOf ==
  ASSUME NEW X, NEW s \in Seq(X), NEW n \in Nat \ {0}
  PROVE  /\ K!First(n, s) \in Seq(X)
         /\ \A i \in DOMAIN K!First(n, s) : i \in DOMAIN s /\ K!First(n, s)[i] = s[i]
         /\ s # <<>> => 1 \in DOMAIN K!First(n, s)
<1>1. PICK l \in Nat : l = Len(s)
  OBVIOUS
<1>2. PICK m \in {n, l} : m = K!Min({n, l}) /\ m <= n /\ m <= l
  <2>1. \E x \in {n, l} : \A y \in {n, l} : x <= y
    BY <1>1
  <2>2. QED
    BY <2>1 DEF K!Min
<1>3. K!First(n, s) = SubSeq(s, 1, m)
  BY <1>1, <1>2 DEF K!First
<1>4. m \in Nat /\ m <= Len(s)
  BY <1>1, <1>2
<1>5. /\ SubSeq(s, 1, m) \in Seq(X) /\ Len(SubSeq(s, 1, m)) = m
      /\ \A i \in 1 .. m : SubSeq(s, 1, m)[i] = s[i]
  BY <1>4
<1>6. s # <<>> => m >= 1
  <2>1. s # <<>> => l >= 1
    BY <1>1
  <2>2. QED
    BY <1>2, <2>1
<1>7. QED
  BY <1>3, <1>4, <1>5, <1>6

LEMMA DisputesAreListed ==
  ASSUME K!HindsightAssumption, live \subseteq Conflict, NEW ds \in K!Condensed
  PROVE  \E X : ds \in Seq(X)
<1>1. UNION live \subseteq Claim /\ IsFiniteSet(Claim)
  <2>1. \A k \in Conflict : k \subseteq Claim
    BY DEF K!HindsightAssumption
  <2>2. IsFiniteSet(Claim)
    BY DEF K!HindsightAssumption, K!IsFiniteSet, IsFiniteSet
  <2>3. QED
    BY <2>1, <2>2
<1>2. \A g \in SUBSET Claim : \A ks : K!Grouping(g, ks) \subseteq SUBSET Claim
  BY DEF K!Grouping, K!Connected
<1>3. K!Units \subseteq SUBSET Claim
  <2>1. \A g \in K!Grouping(UNION live, live) : g \in SUBSET Claim
    BY <1>1, <1>2
  <2>2. \A g \in SUBSET Claim : K!Subsplit(g) \subseteq SUBSET Claim
    BY <1>2 DEF K!Subsplit
  <2>3. ASSUME NEW u \in K!Units PROVE u \in SUBSET Claim
    <3>1. PICK g \in K!Grouping(UNION live, live) : u = g \/ u \in K!Subsplit(g)
      BY <2>3, Zenon DEF K!Units
    <3>2. QED
      BY <2>1, <2>2, <3>1
  <2>4. QED
    BY <2>3
<1>4. IsFiniteSet(K!Units)
  <2>1. IsFiniteSet(SUBSET Claim)
    BY <1>1, FS_SUBSET
  <2>2. QED
    BY <1>3, <2>1, FS_Subset
<1> DEFINE Listed == {K!Dispute(g) : g \in K!Units}
           f == [g \in K!Units |-> K!Dispute(g)]
<1>5. IsFiniteSet(Listed)
  <2>1. f \in Surjection(K!Units, Listed)
    BY DEF Surjection
  <2>2. QED
    BY <1>4, <2>1, FS_Surjection
<1>6. PICK n \in Nat : n = K!Cardinality(Listed)
  BY <1>5, FS_CardinalityType DEF K!Cardinality, Cardinality
<1>7. PICK order \in [1 .. n -> Listed] : ds = K!First(MaxDisputes, order)
  BY <1>6 DEF K!Condensed, K!SetToSeqs
<1> HIDE DEF Listed
<1>8. order \in Seq(Listed)
  BY <1>6, <1>7
<1>9. MaxDisputes \in Nat \ {0}
  BY DEF K!HindsightAssumption
<1>10. K!First(MaxDisputes, order) \in Seq(Listed)
  BY <1>8, <1>9, FirstOf
<1>11. QED
  BY <1>7, <1>10

\* The ranks in a finite set of naturals are those below its size.
LEMMA RanksAreTaken ==
  ASSUME NEW X \in SUBSET Nat, IsFiniteSet(X), NEW k \in 1 .. Cardinality(X)
  PROVE  \E x \in X : Cardinality({y \in X : y < x}) = k - 1
<1> DEFINE Below(x) == {y \in X : y < x}
           n == Cardinality(X)
           rank == [x \in X |-> Cardinality(Below(x)) + 1]
<1>1. n \in Nat
  BY FS_CardinalityType
<1>2. \A x \in X : IsFiniteSet(Below(x)) /\ Cardinality(Below(x)) \in Nat
  <2> TAKE x \in X
  <2>1. Below(x) \in SUBSET X
    OBVIOUS
  <2>2. QED
    BY <2>1, FS_Subset, FS_CardinalityType
<1>3. \A x \in X : Cardinality(Below(x)) < n
  <2> TAKE x \in X
  <2>1. Below(x) \in SUBSET X /\ Below(x) # X
    OBVIOUS
  <2>2. QED
    BY <1>1, <1>2, <2>1, FS_Subset
<1>4. \A x, y \in X : x < y => Cardinality(Below(x)) < Cardinality(Below(y))
  <2> TAKE x, y \in X
  <2> SUFFICES ASSUME x < y PROVE Cardinality(Below(x)) < Cardinality(Below(y))
    OBVIOUS
  <2>1. Below(x) \in SUBSET Below(y) /\ Below(x) # Below(y)
    <3>1. x \in Below(y) /\ x \notin Below(x)
      OBVIOUS
    <3>2. \A z \in X : z < x => z < y
      OBVIOUS
    <3>3. QED
      BY <3>1, <3>2
  <2>2. /\ Cardinality(Below(x)) <= Cardinality(Below(y))
        /\ Cardinality(Below(y)) # Cardinality(Below(x))
    BY <1>2, <2>1, FS_Subset
  <2>3. QED
    BY <1>2, <2>2
<1>5. rank \in Injection(X, 1 .. n)
  <2>1. rank \in [X -> 1 .. n]
    BY <1>1, <1>2, <1>3
  <2>2. \A x, y \in X : rank[x] = rank[y] => x = y
    <3> TAKE x, y \in X
    <3> SUFFICES ASSUME x # y PROVE rank[x] # rank[y]
      OBVIOUS
    <3>1. x < y \/ y < x
      OBVIOUS
    <3>2. QED
      BY <1>2, <1>4, <3>1
  <2>3. QED
    BY <2>1, <2>2 DEF Injection, IsInjective
<1>6. rank \in Surjection(X, 1 .. n)
  <2>1. IsFiniteSet(1 .. n) /\ Cardinality(1 .. n) = n
    BY <1>1, FS_Interval
  <2>2. QED
    BY <1>5, <2>1, FS_Injection
<1>7. PICK x \in X : rank[x] = k
  BY <1>6 DEF Surjection
<1>8. Cardinality(Below(x)) = k - 1
  BY <1>2, <1>7
<1>9. QED
  BY <1>8

\* What a cycle records is among what it ingests, the first of it first.
LEMMA RecordedOf ==
  ASSUME NEW X, NEW fresh \in Seq(X)
  PROVE  /\ K!Recorded(fresh) \in Seq(X)
         /\ \A k \in DOMAIN K!Recorded(fresh) :
              \E i \in DOMAIN fresh : K!Recorded(fresh)[k] = fresh[i]
         /\ fresh # <<>> => /\ 1 \in DOMAIN K!Recorded(fresh)
                            /\ K!Recorded(fresh)[1] = fresh[1]
<1> DEFINE Firsts == {i \in DOMAIN fresh : \A j \in 1 .. i - 1 : K!Id(fresh[j]) # K!Id(fresh[i])}
           Below(i) == {j \in Firsts : j < i}
           Nth(k) == CHOOSE i \in Firsts : Cardinality(Below(i)) = k - 1
           n == Cardinality(Firsts)
<1>1. K!Recorded(fresh) = [k \in 1 .. n |-> fresh[Nth(k)]]
  BY DEF K!Recorded, K!Cardinality, Cardinality
<1>2. Firsts \in SUBSET Nat /\ IsFiniteSet(Firsts) /\ n \in Nat
  <2>1. Len(fresh) \in Nat /\ Firsts \in SUBSET (1 .. Len(fresh))
    OBVIOUS
  <2>2. IsFiniteSet(1 .. Len(fresh))
    BY <2>1, FS_Interval
  <2>3. IsFiniteSet(Firsts)
    BY <2>1, <2>2, FS_Subset
  <2>4. QED
    BY <2>1, <2>3, FS_CardinalityType
<1>3. \A i \in Firsts : i \in DOMAIN fresh /\ i \in 1 .. Len(fresh) /\ fresh[i] \in X
  OBVIOUS
<1>4. fresh # <<>> => 1 \in Firsts
  <2>1. fresh # <<>> => 1 \in DOMAIN fresh
    OBVIOUS
  <2>2. 1 .. 1 - 1 = {}
    OBVIOUS
  <2>3. QED
    BY <2>1, <2>2
<1> HIDE DEF Firsts
<1>5. ASSUME NEW k \in 1 .. n
      PROVE  Nth(k) \in Firsts /\ Cardinality(Below(Nth(k))) = k - 1
  <2>1. \E i \in Firsts : Cardinality(Below(i)) = k - 1
    BY <1>2, RanksAreTaken
  <2>2. QED
    BY <2>1, Zenon
<1>6. ASSUME fresh # <<>> PROVE 1 \in 1 .. n /\ Nth(1) = 1
  <2>1. n # 0
    BY <1>2, <1>4, <1>6, FS_EmptySet
  <2>2. 1 \in 1 .. n /\ 1 - 1 = 0
    BY <1>2, <2>1
  <2> HIDE DEF n
  <2>3. PICK i : i = Nth(1)
    OBVIOUS
  <2>4. i \in Firsts /\ Cardinality(Below(i)) = 0
    BY <1>5, <2>2, <2>3
  <2>5. Below(i) = {}
    <3>1. Below(i) \in SUBSET Firsts
      OBVIOUS
    <3>2. IsFiniteSet(Below(i))
      BY <1>2, <3>1, FS_Subset
    <3>3. QED
      BY <2>4, <3>2, FS_EmptySet
  <2>6. i = 1
    <3>1. i \in 1 .. Len(fresh) /\ Len(fresh) \in Nat
      BY <1>3, <2>4
    <3>2. ~(1 < i)
      BY <1>4, <1>6, <2>5
    <3>3. QED
      BY <3>1, <3>2
  <2>7. QED
    BY <2>2, <2>3, <2>6
<1> HIDE DEF Nth, n
<1>7. \A k \in 1 .. n : fresh[Nth(k)] \in X /\ Nth(k) \in DOMAIN fresh
  BY <1>3, <1>5
<1>8. K!Recorded(fresh) \in Seq(X)
  BY <1>1, <1>2, <1>7
<1>9. DOMAIN K!Recorded(fresh) = 1 .. n
  BY <1>1
<1>10. \A k \in 1 .. n : K!Recorded(fresh)[k] = fresh[Nth(k)]
  BY <1>1
<1>11. QED
  BY <1>6, <1>7, <1>8, <1>9, <1>10

\* What a cycle ingests is new, and disputes come first and tagged.
LEMMA IngestedOf ==
  ASSUME K!HindsightAssumption, cycle \in Nat, hints \in Nat, NEW Y, NEW ds \in Seq(Y)
  PROVE  /\ \E X : K!Ingest(ds) \in Seq(X)
         /\ \A i \in DOMAIN K!Ingest(ds) : NewEntry(K!Ingest(ds)[i])
         /\ ds # <<>> /\ "dispute" \in Taggable =>
              /\ K!Ingest(ds) # <<>>
              /\ K!Ingest(ds)[1].stage = "tagged" /\ K!Ingest(ds)[1].tagged = cycle
<1> DEFINE staged == K!Staged(ds)
           barred == K!Barred
           some == K!First(MaxStaged, staged)
           X == {staged[i] : i \in DOMAIN staged} \cup {barred[i] : i \in DOMAIN barred}
<1>1. MaxStaged \in Nat \ {0} /\ MaxIngest \in Nat \ {0}
  BY DEF K!HindsightAssumption
<1>2. \A says, refs : /\ NewEntry(K!Entry("dispute", says, refs))
                      /\ "dispute" \in Taggable => /\ K!Entry("dispute", says, refs).stage = "tagged"
                                                   /\ K!Entry("dispute", says, refs).tagged = cycle
  BY DEF K!Entry, NewEntry
<1>3. \A says : NewEntry(K!Entry("hint", says, {}))
  BY DEF K!Entry, NewEntry
<1>4. /\ staged \in Seq(X) /\ DOMAIN staged = DOMAIN ds
      /\ \A i \in DOMAIN staged : /\ NewEntry(staged[i])
                                  /\ "dispute" \in Taggable => /\ staged[i].stage = "tagged"
                                                               /\ staged[i].tagged = cycle
  <2>1. DOMAIN staged = 1 .. Len(ds) /\ Len(ds) \in Nat
    BY DEF K!Staged
  <2>2. \A i \in DOMAIN staged : \E says, refs : staged[i] = K!Entry("dispute", says, refs)
    BY DEF K!Staged
  <2>3. staged = [i \in 1 .. Len(ds) |-> staged[i]]
    BY DEF K!Staged
  <2> HIDE DEF staged, barred
  <2>4. staged \in Seq(X)
    BY <2>1, <2>3
  <2>5. DOMAIN ds = 1 .. Len(ds)
    OBVIOUS
  <2>6. QED
    BY <1>2, <2>1, <2>2, <2>4, <2>5
<1>5. barred \in Seq(X) /\ \A i \in DOMAIN barred : NewEntry(barred[i])
  <2>1. DOMAIN barred = 1 .. hints /\ barred = [i \in 1 .. hints |-> barred[i]]
    BY DEF K!Barred
  <2>2. \A i \in DOMAIN barred : \E says : barred[i] = K!Entry("hint", says, {})
    BY DEF K!Barred
  <2> HIDE DEF staged, barred
  <2>3. barred \in Seq(X)
    BY <2>1
  <2>4. QED
    BY <1>3, <2>2, <2>3
<1> HIDE DEF X, staged, barred
<1>6. /\ some \in Seq(X) /\ \A i \in DOMAIN some : i \in DOMAIN staged /\ some[i] = staged[i]
      /\ staged # <<>> => 1 \in DOMAIN some
  BY <1>1, <1>4, FirstOf
<1> HIDE DEF some
<1> DEFINE both == some \o barred
<1>7. /\ both \in Seq(X) /\ \A i \in DOMAIN both : NewEntry(both[i])
      /\ 1 \in DOMAIN some => both # <<>> /\ both[1] = some[1]
  <2>1. both \in Seq(X)
    BY <1>5, <1>6
  <2>2. \A i \in DOMAIN some : NewEntry(some[i])
    BY <1>4, <1>6
  <2>3. \A i \in DOMAIN both : \/ i \in DOMAIN some /\ both[i] = some[i]
                               \/ \E j \in DOMAIN barred : both[i] = barred[j]
    <3>1. /\ Len(some) \in Nat /\ DOMAIN some = 1 .. Len(some)
          /\ Len(barred) \in Nat /\ DOMAIN barred = 1 .. Len(barred)
      BY <1>5, <1>6
    <3>2. Len(both) = Len(some) + Len(barred) /\ DOMAIN both = 1 .. Len(both)
      BY <1>5, <1>6
    <3>3. \A i \in 1 .. Len(both) :
            both[i] = IF i <= Len(some) THEN some[i] ELSE barred[i - Len(some)]
      BY <1>5, <1>6
    <3>4. QED
      BY <3>1, <3>2, <3>3
  <2>4. 1 \in DOMAIN some => both # <<>> /\ both[1] = some[1]
    BY <1>5, <1>6
  <2> HIDE DEF both
  <2>5. QED
    BY <1>5, <2>1, <2>2, <2>3, <2>4
<1>8. K!Ingest(ds) = K!First(MaxIngest, both)
  BY DEF K!Ingest, both, some, staged, barred
<1> HIDE DEF both
<1>9. /\ K!Ingest(ds) \in Seq(X)
      /\ \A i \in DOMAIN K!Ingest(ds) : i \in DOMAIN both /\ K!Ingest(ds)[i] = both[i]
      /\ both # <<>> => 1 \in DOMAIN K!Ingest(ds)
  <2>1. /\ K!First(MaxIngest, both) \in Seq(X)
        /\ \A i \in DOMAIN K!First(MaxIngest, both) :
             i \in DOMAIN both /\ K!First(MaxIngest, both)[i] = both[i]
        /\ both # <<>> => 1 \in DOMAIN K!First(MaxIngest, both)
    BY <1>1, <1>7, FirstOf
  <2>2. QED
    BY <1>8, <2>1, Zenon
<1>10. ds # <<>> => staged # <<>>
  BY <1>4
<1>11. ASSUME ds # <<>>, "dispute" \in Taggable
       PROVE  /\ K!Ingest(ds) # <<>>
              /\ K!Ingest(ds)[1].stage = "tagged" /\ K!Ingest(ds)[1].tagged = cycle
  <2>1. 1 \in DOMAIN K!Ingest(ds) /\ K!Ingest(ds)[1] = staged[1] /\ 1 \in DOMAIN staged
    BY <1>6, <1>7, <1>9, <1>10, <1>11
  <2>2. K!Ingest(ds) # <<>>
    BY <1>9, <2>1
  <2>3. QED
    BY <1>4, <1>11, <2>1, <2>2
<1>12. QED
  BY <1>7, <1>9, <1>11

\* A review of what carries a tag is its first, and its last.
LEMMA DecideOf ==
  ASSUME NEW e, Tagged(e), e.stage = "tagged"
  PROVE  Tagged(K!Decide(e)) /\ K!Decide(e).reviews = 1
<1>1. DOMAIN e = {"kind", "says", "refs", "since", "reviews", "stage", "tagged"}
      /\ e.reviews = 0 /\ (e.kind = "dispute" \/ e.refs = {})
  BY DEF Tagged
<1>2. PICK outcome \in {"rejected", "contradiction_detected"} :
        K!Decide(e) = [e EXCEPT !.reviews = @ + 1, !.stage = outcome]
  BY <1>1 DEF K!Decide
<1>3. DOMAIN K!Decide(e) = DOMAIN e
  BY <1>2
<1>4. K!Decide(e).reviews = 1 /\ K!Decide(e).stage = outcome
  BY <1>1, <1>2
<1>5. QED
  BY <1>1, <1>3, <1>4 DEF Tagged

LEMMA CloseStep ==
  ASSUME K!HindsightAssumption, "dispute" \in Taggable, HindsightInv, K!Close
  PROVE  HindsightInv'
<1>1. PICK ds \in K!Condensed :
        /\ disputes' = ds
        /\ layer' = [i \in DOMAIN layer |->
                       IF i \in K!Due THEN K!Decide(layer[i])
                       ELSE IF K!Expired(layer[i]) THEN [layer[i] EXCEPT !.stage = "expired"]
                       ELSE layer[i]] \o K!Recorded(K!Ingest(ds))
        /\ cycle' = cycle + 1 /\ hints' \in Hints /\ decided' = FALSE
        /\ live' = live
  BY DEF K!Close, K!RunDisputes
<1>2. cycle \in Nat /\ hints \in Nat /\ live \subseteq Conflict
  BY DEF HindsightInv
<1>3. PICK Y : ds \in Seq(Y)
  BY <1>2, DisputesAreListed
<1> DEFINE new == K!Recorded(K!Ingest(ds))
           old == [i \in DOMAIN layer |->
                     IF i \in K!Due THEN K!Decide(layer[i])
                     ELSE IF K!Expired(layer[i]) THEN [layer[i] EXCEPT !.stage = "expired"]
                     ELSE layer[i]]
<1>4. PICK X : K!Ingest(ds) \in Seq(X)
  BY <1>2, <1>3, IngestedOf
<1>5. /\ new \in Seq(X) /\ \A k \in DOMAIN new : NewEntry(new[k])
      /\ ds # <<>> => /\ 1 \in DOMAIN new
                      /\ new[1].stage = "tagged" /\ new[1].tagged = cycle
  <2>1. /\ \A i \in DOMAIN K!Ingest(ds) : NewEntry(K!Ingest(ds)[i])
        /\ ds # <<>> => /\ K!Ingest(ds) # <<>>
                        /\ K!Ingest(ds)[1].stage = "tagged" /\ K!Ingest(ds)[1].tagged = cycle
    BY <1>2, <1>3, IngestedOf
  <2>2. /\ new \in Seq(X)
        /\ \A k \in DOMAIN new : \E i \in DOMAIN K!Ingest(ds) : new[k] = K!Ingest(ds)[i]
        /\ K!Ingest(ds) # <<>> => 1 \in DOMAIN new /\ new[1] = K!Ingest(ds)[1]
    BY <1>4, RecordedOf
  <2> HIDE DEF new
  <2>3. QED
    BY <2>1, <2>2
<1>6. PICK Z : layer \in Seq(Z)
  BY DEF HindsightInv
<1>7. /\ DOMAIN old = DOMAIN layer /\ DOMAIN layer = 1 .. Len(layer) /\ Len(layer) \in Nat
      /\ old \in Seq({old[i] : i \in DOMAIN layer})
  <2>1. DOMAIN layer = 1 .. Len(layer) /\ Len(layer) \in Nat
    BY <1>6
  <2>2. DOMAIN old = DOMAIN layer /\ old = [i \in DOMAIN layer |-> old[i]]
    OBVIOUS
  <2> HIDE DEF old
  <2>3. old \in [1 .. Len(layer) -> {old[i] : i \in DOMAIN layer}]
    BY <2>1, <2>2
  <2>4. QED
    BY <2>1, <2>2, <2>3
<1>8. \A i \in DOMAIN old : Tagged(old[i])
  <2> TAKE i \in DOMAIN old
  <2>1. Tagged(layer[i])
    BY <1>7 DEF HindsightInv
  <2>2. CASE i \in K!Due
    <3>1. layer[i].stage = "tagged"
      BY <2>2 DEF K!Due, K!InWindow
    <3>2. old[i] = K!Decide(layer[i])
      BY <1>7, <2>2
    <3>3. QED
      BY <2>1, <3>1, <3>2, DecideOf
  <2>3. CASE i \notin K!Due /\ K!Expired(layer[i])
    <3>1. old[i] = [layer[i] EXCEPT !.stage = "expired"]
      BY <1>7, <2>3
    <3>2. DOMAIN old[i] = DOMAIN layer[i] /\ old[i].stage = "expired"
      BY <2>1, <3>1 DEF Tagged
    <3>3. QED
      BY <2>1, <3>2 DEF Tagged
  <2>4. CASE i \notin K!Due /\ ~K!Expired(layer[i])
    BY <1>7, <2>1, <2>4
  <2>5. QED
    BY <2>2, <2>3, <2>4
<1>9. layer' = old \o new
  BY <1>1
<1> HIDE DEF old, new
<1>10. PICK W : old \in Seq(W) /\ new \in Seq(W)
  <2>1. PICK V : old \in Seq(V)
    BY <1>7
  <2>2. old \in Seq(V \cup X) /\ new \in Seq(V \cup X)
    BY <1>5, <2>1
  <2>3. QED
    BY <2>2
<1>11. /\ layer' \in Seq(W)
       /\ \A k \in DOMAIN layer' : \/ k \in DOMAIN old /\ layer'[k] = old[k]
                                   \/ \E j \in DOMAIN new : layer'[k] = new[j]
       /\ 1 \in DOMAIN new => \E k \in DOMAIN layer' : layer'[k] = new[1]
  <2>1. /\ Len(old) \in Nat /\ DOMAIN old = 1 .. Len(old)
        /\ Len(new) \in Nat /\ DOMAIN new = 1 .. Len(new)
    BY <1>10
  <2>2. /\ layer' \in Seq(W) /\ Len(layer') = Len(old) + Len(new)
        /\ DOMAIN layer' = 1 .. Len(layer')
    BY <1>9, <1>10
  <2>3. \A k \in 1 .. Len(layer') :
          layer'[k] = IF k <= Len(old) THEN old[k] ELSE new[k - Len(old)]
    BY <1>9, <1>10
  <2>4. 1 \in DOMAIN new => Len(old) + 1 \in DOMAIN layer' /\ layer'[Len(old) + 1] = new[1]
    BY <2>1, <2>2, <2>3
  <2>5. \A k \in DOMAIN layer' : \/ k \in DOMAIN old /\ layer'[k] = old[k]
                                 \/ k - Len(old) \in DOMAIN new /\ layer'[k] = new[k - Len(old)]
    BY <2>1, <2>2, <2>3
  <2>6. QED
    BY <2>2, <2>4, <2>5
<1>12. \A k \in DOMAIN layer' : Tagged(layer'[k])
  BY <1>5, <1>8, <1>11 DEF NewEntry, Tagged
<1>13. ASSUME ds # <<>>
       PROVE  \E i \in DOMAIN layer' : layer'[i].stage = "tagged" /\ layer'[i].tagged = cycle' - 1
  <2>1. PICK k \in DOMAIN layer' : layer'[k] = new[1]
    BY <1>5, <1>11, <1>13
  <2>2. layer'[k].stage = "tagged" /\ layer'[k].tagged = cycle
    BY <1>5, <1>13, <2>1
  <2>3. cycle = cycle' - 1
    BY <1>1, <1>2
  <2>4. QED
    BY <2>2, <2>3
<1>14. cycle' \in Nat /\ hints' \in Nat /\ live' \subseteq Conflict /\ ~decided'
  BY <1>1, <1>2 DEF K!HindsightAssumption
<1>15. QED
  BY <1>1, <1>11, <1>12, <1>13, <1>14 DEF HindsightInv

\* Where a tag is open, something is reviewed for the first time.
LEMMA EventFinds ==
  ASSUME K!HindsightAssumption, 1 <= Window, HindsightInv, K!Close, disputes # <<>>,
         gain \/ decided
  PROVE  \E i \in DOMAIN layer : layer[i].stage = "tagged" /\ layer'[i].reviews = 1
<1> DEFINE due == {i \in DOMAIN layer : K!InWindow(layer[i])}
<1>1. due # {}
  <2>1. PICK i \in DOMAIN layer : layer[i].stage = "tagged" /\ layer[i].tagged = cycle - 1
    BY DEF HindsightInv
  <2>2. cycle \in Nat /\ Window \in Nat
    BY DEF HindsightInv, K!HindsightAssumption
  <2>3. cycle <= layer[i].tagged + Window
    BY <2>1, <2>2
  <2>4. i \in due
    BY <2>1, <2>3 DEF K!InWindow
  <2>5. QED
    BY <2>4
<1>2. PICK X : layer \in Seq(X)
  BY DEF HindsightInv
<1>3. due \subseteq Nat
  BY <1>2
<1>4. PICK m \in due : \A x \in due : m <= x
  BY <1>1, <1>3, LeastNatural
<1>5. {j \in due : j < m} = {}
  <2>1. \A j \in due : j \in Nat /\ m \in Nat /\ m <= j
    BY <1>3, <1>4
  <2>2. QED
    BY <2>1
<1>6. K!Cardinality({j \in due : j < m}) = 0
  BY <1>5, FS_EmptySet DEF K!Cardinality, Cardinality
<1>7. K!Salient
  BY DEF HindsightInv, K!Salient
<1>8. 0 < MaxReview
  BY DEF K!HindsightAssumption
<1>9. m \in K!Due
  BY <1>4, <1>6, <1>7, <1>8 DEF K!Due
<1>10. m \in DOMAIN layer /\ layer[m].stage = "tagged" /\ Tagged(layer[m])
  BY <1>4 DEF K!InWindow, HindsightInv
<1>11. K!Decide(layer[m]).reviews = 1
  BY <1>10, DecideOf
<1>12. layer'[m] = K!Decide(layer[m])
  <2>1. PICK ds \in K!Condensed :
          layer' = [i \in DOMAIN layer |->
                      IF i \in K!Due THEN K!Decide(layer[i])
                      ELSE IF K!Expired(layer[i]) THEN [layer[i] EXCEPT !.stage = "expired"]
                      ELSE layer[i]] \o K!Recorded(K!Ingest(ds))
    BY DEF K!Close
  <2> DEFINE new == K!Recorded(K!Ingest(ds))
             old == [i \in DOMAIN layer |->
                       IF i \in K!Due THEN K!Decide(layer[i])
                       ELSE IF K!Expired(layer[i]) THEN [layer[i] EXCEPT !.stage = "expired"]
                       ELSE layer[i]]
  <2>2. old[m] = K!Decide(layer[m])
    BY <1>9, <1>10
  <2>3. DOMAIN old = 1 .. Len(layer) /\ Len(layer) \in Nat /\ m \in 1 .. Len(layer)
    BY <1>2, <1>10
  <2>4. layer' = old \o new
    BY <2>1
  <2>5. PICK Z : new \in Seq(Z)
    <3>1. cycle \in Nat /\ hints \in Nat /\ live \subseteq Conflict
      BY DEF HindsightInv
    <3>2. PICK Y : ds \in Seq(Y)
      BY <3>1, DisputesAreListed
    <3>3. PICK V : K!Ingest(ds) \in Seq(V)
      BY <3>1, <3>2, IngestedOf
    <3>4. QED
      BY <3>3, RecordedOf
  <2>6. old = [i \in 1 .. Len(layer) |-> old[i]]
    BY <2>3
  <2> HIDE DEF old, new
  <2>7. PICK W : old \in Seq(W) /\ new \in Seq(W)
    <3> DEFINE W == {old[i] : i \in 1 .. Len(layer)} \cup Z
    <3>1. old \in [1 .. Len(layer) -> W]
      BY <2>6
    <3> HIDE DEF W
    <3>2. old \in Seq(W)
      BY <2>3, <3>1
    <3>3. new \in Seq(W)
      BY <2>5 DEF W
    <3>4. QED
      BY <3>2, <3>3
  <2>8. Len(old) = Len(layer)
    BY <2>3, <2>7
  <2>9. (old \o new)[m] = old[m]
    BY <2>3, <2>7, <2>8
  <2>10. QED
    BY <2>2, <2>4, <2>9
<1>13. QED
  BY <1>10, <1>11, <1>12

\* When a cycle had disputes, a gain or a decision in the next one has something to review that
\* was never reviewed, however many hints were barred, wherever a dispute may be tagged and a tag
\* is open for a cycle.  (hindsight)
THEOREM DisputesAreReviewed ==
  ASSUME K!HindsightAssumption, "dispute" \in Taggable, 1 <= Window
  PROVE  K!Spec => K!EventsFindDisputes
<1>1. K!Init => HindsightInv
  <2> SUFFICES ASSUME K!Init PROVE HindsightInv
    OBVIOUS
  <2>1. /\ cycle = 1 /\ live = {} /\ hints \in Hints /\ resolved = {} /\ ~decided
        /\ disputes = <<>> /\ layer = <<>>
    BY Zenon DEF K!Init
  <2>2. hints \in Nat
    BY <2>1 DEF K!HindsightAssumption
  <2>3. layer \in Seq({}) /\ DOMAIN layer = {}
    BY <2>1
  <2>4. QED
    BY <2>1, <2>2, <2>3 DEF HindsightInv
<1>2. HindsightInv /\ [K!Next]_K!vars => HindsightInv'
  <2> SUFFICES ASSUME HindsightInv, [K!Next]_K!vars PROVE HindsightInv'
    OBVIOUS
  <2>1. CASE K!Raise
    <3>1. UNCHANGED <<cycle, hints, resolved, decided, disputes, layer>>
      BY <2>1 DEF K!Raise
    <3>2. live' \subseteq Conflict
      BY <2>1 DEF K!Raise, HindsightInv
    <3>3. QED
      BY <3>1, <3>2 DEF HindsightInv
  <2>2. CASE K!Settle
    <3>1. UNCHANGED <<cycle, hints, disputes, layer>>
      BY <2>2 DEF K!Settle
    <3>2. live' \subseteq Conflict /\ resolved' # {}
      BY <2>2 DEF K!Settle, HindsightInv
    <3>3. QED
      BY <3>1, <3>2 DEF HindsightInv
  <2>3. CASE K!Benefit
    BY <2>3 DEF K!Benefit, HindsightInv
  <2>4. CASE K!Close
    BY <2>4, CloseStep
  <2>5. CASE UNCHANGED K!vars
    BY <2>5 DEF K!vars, HindsightInv
  <2>6. QED
    BY <2>1, <2>2, <2>3, <2>4, <2>5 DEF K!Next
<1>3. HindsightInv /\ [K!Next]_K!vars
        => [K!Close /\ disputes # <<>> /\ (gain \/ decided)
              => \E i \in DOMAIN layer : layer[i].stage = "tagged" /\ layer'[i].reviews = 1]_K!vars
  BY EventFinds
<1>4. QED
  BY <1>1, <1>2, <1>3, PTL DEF K!Spec, K!EventsFindDisputes
=============================================================================
