-------------------------- MODULE DeploymentProofs --------------------------
(***************************************************************************)
(* What holds of main however many cycles, operators, developers and       *)
(* orders there are, and wherever a job is killed.                         *)
(***************************************************************************)
EXTENDS Deployment, TLAPS

-----------------------------------------------------------------------------
(* Trees. *)

LEMMA TreeFiles == Files = {"core", "box", "news", "filed", "code"}
  BY DEF Files, FirstTree

LEMMA FirstTreeIsTree == FirstTree \in Tree /\ NoMemory \in Memory
  BY DeploymentAssumption DEF FirstTree, Tree, Core, NoMemory, Memory

LEMMA MergedIsTree ==
  ASSUME main \in Tree, base \in Tree, work \in Tree
  PROVE  /\ Merged \in Tree
         /\ Merged.core = IF work.core = base.core THEN main.core ELSE work.core
         /\ Merged.box = IF work.box = base.box THEN main.box ELSE work.box
         /\ Merged.news = IF work.news = base.news THEN main.news ELSE work.news
         /\ Merged.filed = IF work.filed = base.filed THEN main.filed ELSE work.filed
         /\ Merged.code = IF work.code = base.code THEN main.code ELSE work.code
  BY TreeFiles DEF Merged, Tree

\* What the compaction commits.
Compacted == [compactor.index EXCEPT !.core.lean = TRUE]

LEMMA CompactedIsTree ==
  ASSUME compactor.index \in Tree
  PROVE  /\ Compacted \in Tree
         /\ Compacted.filed = compactor.index.filed
  BY DEF Compacted, Tree, Core

-----------------------------------------------------------------------------
(* Types. *)

LEMMA CheckoutTypes ==
  ASSUME TypeOK, NEW tree \in Tree, Checkout(tree)
  PROVE  /\ base' = tree /\ work' = tree /\ tree \in Tree
         /\ memory' \in Memory /\ tries' \in 0..(PushTries - 1)
  BY FirstTreeIsTree, DeploymentAssumption DEF Checkout

\* The variables stay in their types, whoever acts.
THEOREM TypeInvariant == Spec => []TypeOK
<1>1. Init => TypeOK
  BY FirstTreeIsTree, DeploymentAssumption DEF Init, TypeOK, Steps
<1>2. TypeOK /\ [Next]_vars => TypeOK'
  <2> SUFFICES ASSUME TypeOK, [Next]_vars PROVE TypeOK'
    OBVIOUS
  <2> USE DEF TypeOK, Steps, history
  <2>1. ASSUME NEW d \in Decision, Paste(d) PROVE TypeOK'
    BY <2>1 DEF Paste, loop, Tree
  <2>2. CASE Develop
    BY <2>2, DeploymentAssumption DEF Develop, loop, Tree
  <2>3. CASE StartJob \/ Sync \/ Drop \/ Kill
    <3>1. PICK tree \in Tree : Checkout(tree)
      BY <2>3, FirstTreeIsTree DEF StartJob, Sync, Drop, Kill
    <3>2. QED
      BY <2>3, <3>1, CheckoutTypes DEF StartJob, Sync, Drop, Kill
  <2>4. CASE Think
    BY <2>4 DEF Think, Memory
  <2>5. CASE Decide
    BY <2>5 DEF Decide, Memory, Tree
  <2>6. CASE Raise
    BY <2>6 DEF Raise, Memory
  <2>7. CASE SaveNews
    BY <2>7 DEF SaveNews, Memory, Tree
  <2>8. CASE SaveCore
    BY <2>8 DEF SaveCore, Memory, Tree, Core
  <2>9. CASE SaveExtensions
    BY <2>9 DEF SaveExtensions, Memory, Tree
  <2>10. CASE Break
    BY <2>10 DEF Break
  <2>11. CASE File
    <3>1. attempted' \subseteq Order
      BY <2>11 DEF File, Tree
    <3>2. issues' \in [Order -> 0..2]
      BY <2>11 DEF File
    <3>3. QED
      BY <2>11, <3>1, <3>2 DEF File
  <2>12. CASE Commit
    BY <2>12 DEF Commit
  <2>13. CASE Publish
    BY <2>13 DEF Publish, Tree
  <2>14. CASE Rebase
    BY <2>14, MergedIsTree, DeploymentAssumption DEF Rebase
  <2>15. CASE StartCompaction
    BY <2>15 DEF StartCompaction, loop
  <2>16. CASE PushCompacted
    <3>1. compactor.index \in Tree /\ compactor' = [pc |-> "done", index |-> FirstTree]
      BY <2>16 DEF PushCompacted
    <3>2. main' \in Tree
      BY <2>16, <3>1, CompactedIsTree DEF PushCompacted, Compacted
    <3>3. QED
      BY <2>16, <3>1, <3>2, FirstTreeIsTree DEF PushCompacted, loop, Tree
  <2>17. CASE UNCHANGED vars
    BY <2>17 DEF vars, loop
  <2>18. QED
    BY <2>1, <2>2, <2>3, <2>4, <2>5, <2>6, <2>7, <2>8, <2>9, <2>10, <2>11, <2>12, <2>13,
       <2>14, <2>15, <2>16, <2>17 DEF Next, Cycle
<1>3. QED
  BY <1>1, <1>2, PTL DEF Spec

-----------------------------------------------------------------------------
(* The checkout of the loop. *)

\* What a cycle leaves in the checkout takes nothing back from the tree it started from, but
\* for decisions it has read.
CheckoutAdds ==
  /\ base.core.known \subseteq work.core.known
  /\ base.core.lean => work.core.lean
  /\ base.filed \subseteq work.filed
  /\ base.code <= work.code
  /\ \A d \in base.box \ work.box : memory.read /\ d \in memory.learned

\* A merge keeps that, for the tree of main it is rebased onto.
LEMMA MergeAdds ==
  ASSUME TypeOK, CheckoutAdds, Rebase
  PROVE  CheckoutAdds'
<1>1. /\ base' = main /\ work' = Merged /\ memory' = memory
      /\ {main, base, work} \subseteq Tree
  BY DEF Rebase, TypeOK
<1>2. \A f \in {"core", "box", "news", "filed", "code"} :
        base[f] = work[f] \/ base[f] = main[f] \/ work[f] = main[f]
  BY TreeFiles DEF Rebase, Merges
<1>3. /\ main.code \in Nat /\ base.code \in Nat /\ work.code \in Nat
  BY <1>1, DeploymentAssumption DEF Tree
<1>4. /\ base.core = work.core \/ base.core = main.core \/ work.core = main.core
      /\ base.box = work.box \/ base.box = main.box \/ work.box = main.box
      /\ base.filed = work.filed \/ base.filed = main.filed \/ work.filed = main.filed
      /\ base.code = work.code \/ base.code = main.code \/ work.code = main.code
  BY <1>1, <1>2 DEF Tree
<1>5. QED
  BY <1>1, <1>3, <1>4, MergedIsTree DEF CheckoutAdds

LEMMA CheckoutAddsInvariant == Spec => []CheckoutAdds
<1>1. Init => CheckoutAdds
  BY DEF Init, CheckoutAdds, FirstTree
<1>2. TypeOK /\ CheckoutAdds /\ [Next]_vars => CheckoutAdds'
  <2> SUFFICES ASSUME TypeOK, CheckoutAdds, [Next]_vars PROVE CheckoutAdds'
    OBVIOUS
  <2>1. CASE UNCHANGED <<base, work, memory>>
    BY <2>1 DEF CheckoutAdds
  <2>2. CASE StartJob \/ Sync \/ Drop \/ Kill
    <3>1. PICK tree \in Tree : base' = tree /\ work' = tree
      BY <2>2, FirstTreeIsTree DEF StartJob, Sync, Drop, Kill, Checkout, TypeOK
    <3>2. tree.code \in Nat
      BY DeploymentAssumption DEF Tree
    <3>3. QED
      BY <3>1, <3>2 DEF CheckoutAdds
  <2>3. CASE Think \/ Raise
    BY <2>3 DEF Think, Raise, CheckoutAdds, TypeOK, Memory
  <2>4. CASE Decide
    BY <2>4 DEF Decide, CheckoutAdds, TypeOK, Memory, Tree
  <2>5. CASE SaveNews \/ SaveExtensions
    BY <2>5 DEF SaveNews, SaveExtensions, CheckoutAdds, TypeOK, Tree
  <2>6. CASE SaveCore
    BY <2>6 DEF SaveCore, CheckoutAdds, TypeOK, Tree, Core
  <2>7. CASE Publish
    <3>1. work.code \in Nat
      BY DeploymentAssumption DEF TypeOK, Tree
    <3>2. QED
      BY <2>7, <3>1 DEF Publish, CheckoutAdds
  <2>8. CASE Rebase
    BY <2>8, MergeAdds
  <2>9. QED
    BY <2>1, <2>2, <2>3, <2>4, <2>5, <2>6, <2>7, <2>8
    DEF Next, Cycle, Paste, Develop, Break, File, Commit, StartCompaction, PushCompacted,
        loop, vars
<1>3. QED
  BY <1>1, <1>2, TypeInvariant, PTL DEF Spec

\* No commit of a cycle, an operator or a developer takes back what is on main.
THEOREM CyclesNeverRevert == Spec => NothingReverted
<1> DEFINE Adds ==
      /\ main.core.known \subseteq main'.core.known
      /\ main.filed \subseteq main'.filed
      /\ main.code <= main'.code
      /\ main.core.lean => main'.core.lean
      /\ \A d \in main.box \ main'.box : memory.read /\ d \in memory.learned
<1>1. TypeOK /\ CheckoutAdds /\ [Next]_vars => [PushCompacted \/ Adds]_vars
  <2> SUFFICES ASSUME TypeOK, CheckoutAdds, Next, ~PushCompacted PROVE Adds
    OBVIOUS
  <2>1. main \in Tree /\ main.code \in Nat
    BY DeploymentAssumption DEF TypeOK, Tree
  <2>2. CASE main' = main
    BY <2>1, <2>2
  <2>3. ASSUME NEW d \in Decision, Paste(d) PROVE Adds
    BY <2>1, <2>3 DEF Paste, Tree
  <2>4. CASE Develop
    BY <2>1, <2>4 DEF Develop, Tree
  <2>5. CASE Publish
    BY <2>5 DEF Publish, CheckoutAdds
  <2>6. QED
    BY <2>2, <2>3, <2>4, <2>5
    DEF Next, Cycle, StartJob, Sync, Think, Decide, Raise, SaveNews, SaveCore, SaveExtensions,
        Break, File, Commit, Rebase, Drop, Kill, StartCompaction
<1>2. QED
  BY <1>1, TypeInvariant, CheckoutAddsInvariant, PTL DEF Spec, NothingReverted

-----------------------------------------------------------------------------
(* Orders. *)

\* Wherever a cycle is killed or raises, a record of an order waits in the checkout only with
\* the order itself still to be filed from there.
OrdersAreFiled ==
  /\ RecordedOrdersAreFiled
  /\ base.filed \subseteq attempted
  /\ compactor.index.filed \subseteq attempted
  /\ pc \in {"core", "ext"} => memory.raised = work.news
  /\ work.filed \subseteq attempted \cup (IF pc = "file" THEN work.news ELSE {})

\* An order recorded as filed has been handed to the tracker.
THEOREM RecordsAreTrue == Spec => []RecordedOrdersAreFiled
<1>1. Init => OrdersAreFiled
  BY DEF Init, OrdersAreFiled, RecordedOrdersAreFiled, FirstTree
<1>2. TypeOK /\ OrdersAreFiled /\ [Next]_vars => OrdersAreFiled'
  <2> SUFFICES ASSUME TypeOK, OrdersAreFiled, [Next]_vars PROVE OrdersAreFiled'
    OBVIOUS
  <2> USE DEF OrdersAreFiled, RecordedOrdersAreFiled
  <2>1. main \in Tree /\ base \in Tree /\ work \in Tree /\ memory \in Memory
    BY DEF TypeOK
  <2>2. ASSUME NEW d \in Decision, Paste(d) PROVE OrdersAreFiled'
    BY <2>1, <2>2 DEF Paste, Tree, loop
  <2>3. CASE Develop
    BY <2>1, <2>3 DEF Develop, Tree, loop, history
  <2>4. CASE StartJob \/ Sync \/ Drop \/ Kill
    BY <2>4 DEF StartJob, Sync, Drop, Kill, Checkout, FirstTree, history
  <2>5. CASE Think \/ Raise
    BY <2>1, <2>5 DEF Think, Raise, Memory, history
  <2>6. CASE Decide
    BY <2>1, <2>6 DEF Decide, Tree, history
  <2>7. CASE SaveNews
    BY <2>1, <2>7 DEF SaveNews, Tree, history
  <2>8. CASE SaveCore
    BY <2>1, <2>8 DEF SaveCore, Tree, history
  <2>9. CASE SaveExtensions
    BY <2>1, <2>9 DEF SaveExtensions, Tree, history
  <2>10. CASE Break \/ Commit
    BY <2>10 DEF Break, Commit, history
  <2>11. CASE File
    BY <2>11 DEF File
  <2>12. CASE Publish
    BY <2>12 DEF Publish, history
  <2>13. CASE Rebase
    BY <2>1, <2>13, MergedIsTree DEF Rebase, history
  <2>14. CASE StartCompaction
    BY <2>14 DEF StartCompaction, loop, history
  <2>15. CASE PushCompacted
    <3>1. compactor' = [pc |-> "done", index |-> FirstTree]
      BY <2>15 DEF PushCompacted
    <3>2. main'.filed = main.filed \/ main'.filed = compactor.index.filed
      BY <2>15, CompactedIsTree DEF PushCompacted, Compacted, TypeOK
    <3>3. QED
      BY <2>15, <3>1, <3>2 DEF PushCompacted, FirstTree, loop, history
  <2>16. CASE UNCHANGED vars
    BY <2>16 DEF vars, loop, history
  <2>17. QED
    BY <2>2, <2>3, <2>4, <2>5, <2>6, <2>7, <2>8, <2>9, <2>10, <2>11, <2>12, <2>13, <2>14,
       <2>15, <2>16 DEF Next, Cycle
<1>3. QED
  BY <1>1, <1>2, TypeInvariant, PTL DEF Spec, OrdersAreFiled
=============================================================================
