---------------------- MODULE ConflictResolutionProofs ----------------------
(***************************************************************************)
(* What holds of claims and conflicts for every set of them, every paste   *)
(* of the operator and every kill.  What memory holds and what the disk, pasted    *)
(* holds satisfy the same invariant, since a kill makes the one the other. *)
(***************************************************************************)
EXTENDS ConflictResolution, TLAPS

-----------------------------------------------------------------------------
(* Types. *)

LEMMA SidesArePairs ==
  ASSUME NEW x \in Conflict
  PROVE  /\ Sides[x] \subseteq Thesis /\ Nobody \notin Sides[x]
         /\ \E a, b \in Thesis : a # b /\ Sides[x] = {a, b}
  BY SidesAssumption DEF Thesis

LEMMA HelperTypes ==
  ASSUME NEW st \in [Thesis -> Status], NEW cs
  PROVE  /\ Contest(st, cs) \in [Thesis -> Status]
         /\ Activate(st, cs) \in [Thesis -> Status]
         /\ Supersede(st, cs) \in [Thesis -> Status]
  BY DEF Contest, Activate, Supersede, Status

LEMMA MoveTypes ==
  ASSUME TypeOK, NEW x \in Conflict, NEW from, NEW to \in Stage,
         NEW w \in Sides[x] \cup {Nobody}, Move(x, from, to, w)
  PROVE  /\ stage' \in [Conflict -> Stage]
         /\ winner' \in [Conflict -> Thesis \cup {Nobody}]
         /\ \A y \in Conflict : winner'[y] \in Sides[y] \cup {Nobody}
  BY SidesArePairs DEF TypeOK, Move, Cores, Core

\* The winners on the disk, pasted are sides, too.
SavedWinners == \A x \in Conflict : core.winner[x] \in Sides[x] \cup {Nobody}

LEMMA CurrentIsLine ==
  ASSUME TypeOK, lines # <<>>
  PROVE  /\ Current \in Line /\ Current.conflict \in Conflict
         /\ Tail(lines) \in Seq(Line) /\ Len(Tail(lines)) <= MaxLines
<1>1. lines \in Seq(Line) /\ Len(lines) <= MaxLines /\ MaxLines \in Nat
  BY LimitsAssumption DEF TypeOK
<1>2. Current \in Line
  BY <1>1 DEF Current
<1>3. Tail(lines) \in Seq(Line) /\ Len(Tail(lines)) <= MaxLines
  BY <1>1
<1>4. QED
  BY <1>2, <1>3 DEF Line

\* Every step keeps the types, those of what is saved and of what is read included.
LEMMA TypeStep ==
  ASSUME TypeOK, SavedWinners, [Next]_vars
  PROVE  TypeOK' /\ SavedWinners'
<1> USE DEF SavedWinners
<1>1. CASE Begin \/ NothingPasted
  BY <1>1 DEF Begin, NothingPasted, TypeOK, memory, disk, pasted, pass, Core
<1>2. ASSUME NEW c \in Thesis, Learn(c) \/ Hypothesize(c) \/ Promote(c) \/ Retire(c) \/ Refile(c)
      PROVE  TypeOK' /\ SavedWinners'
  <2>0. status \in [Thesis -> Status]
    BY DEF TypeOK, Core, Cores
  <2>1. status' \in [Thesis -> Status] /\ UNCHANGED <<stage, winner>>
    BY <1>2, <2>0, HelperTypes
    DEF Learn, Hypothesize, Promote, Retire, Refile, Status
  <2>2. InPasses
    BY <1>2 DEF Learn, Hypothesize, Promote, Retire, Refile
  <2>3. QED
    BY <2>1, <2>2 DEF InPasses, TypeOK, Core, Cores, disk, pasted, pass
<1>3. ASSUME NEW xs \in SUBSET Conflict, InPasses, Open(xs)
      PROVE  TypeOK' /\ SavedWinners'
  <2>1. status' \in [Thesis -> Status]
    BY <1>3, HelperTypes DEF Open, TypeOK, Core, Cores
  <2>2. stage' \in [Conflict -> Stage]
    BY <1>3 DEF Open, TypeOK, Core, Cores, Stage
  <2>3. QED
    BY <1>3, <2>1, <2>2 DEF Open, InPasses, TypeOK, Core, Cores, disk, pasted, pass
<1>4. ASSUME NEW x \in Conflict, Review(x) PROVE TypeOK' /\ SavedWinners'
  BY <1>4 DEF Review, InPasses, TypeOK, Core, Cores, Stage, disk, pasted, pass
<1>5. ASSUME NEW x \in Conflict, Tolerate(x) PROVE TypeOK' /\ SavedWinners'
  <2>1. status' \in [Thesis -> Status]
    BY <1>5, HelperTypes DEF Tolerate, TypeOK, Core, Cores
  <2>2. /\ stage' \in [Conflict -> Stage]
        /\ winner' \in [Conflict -> Thesis \cup {Nobody}]
        /\ \A y \in Conflict : winner'[y] \in Sides[y] \cup {Nobody}
    BY <1>5, MoveTypes DEF Tolerate, CloseAsSpurious, Stage
  <2>3. QED
    BY <1>5, <2>1, <2>2 DEF Tolerate, InPasses, TypeOK, Core, Cores, disk, pasted, pass
<1>6. ASSUME NEW l \in Line, Paste(l) PROVE TypeOK' /\ SavedWinners'
  <2>1. box' \in Seq(Line) /\ Len(box') <= MaxLines
    BY <1>6, LimitsAssumption DEF Paste, TypeOK
  <2>2. QED
    BY <1>6, <2>1 DEF Paste, TypeOK, Core, memory, pass, Line
<1>7. CASE Read
  BY <1>7, LimitsAssumption DEF Read, TypeOK, Core, Cores, Live, memory, disk, pasted
<1>8. CASE Skip
  BY <1>8, CurrentIsLine DEF Skip, Unread, TypeOK, Core, memory, disk, pasted
<1>9. ASSUME NEW x \in Conflict, NEW w \in Sides[x] \cup {Nobody}, lines # <<>>,
             applied < MaxApply, CarriedOut(x),
             status' \in [Thesis -> Status],
             CloseAsSpurious(x) \/ Resolve(x, w)
      PROVE  TypeOK' /\ SavedWinners'
  <2>1. /\ stage' \in [Conflict -> Stage]
        /\ winner' \in [Conflict -> Thesis \cup {Nobody}]
        /\ \A y \in Conflict : winner'[y] \in Sides[y] \cup {Nobody}
    BY <1>9, MoveTypes DEF CloseAsSpurious, Resolve, Stage
  <2>2. lines' \in Seq(Line) /\ Len(lines') <= MaxLines
    BY <1>9, CurrentIsLine DEF CarriedOut
  <2>3. applied' \in 0..MaxApply
    BY <1>9, LimitsAssumption DEF CarriedOut, TypeOK
  <2>4. QED
    BY <1>9, <2>1, <2>2, <2>3 DEF CarriedOut, TypeOK, Core, Cores, disk, pasted
<1>10. CASE DeclareSpurious
  <2>1. Unread /\ Current.conflict \in Conflict /\ lines # <<>> /\ applied < MaxApply
    BY <1>10, CurrentIsLine DEF DeclareSpurious, Unread
  <2>2. status' \in [Thesis -> Status]
    BY <1>10, HelperTypes DEF DeclareSpurious, TypeOK, Core, Cores
  <2>3. QED
    BY <1>9, <1>10, <2>1, <2>2 DEF DeclareSpurious
<1>11. CASE Object
  <2>1. lines # <<>> /\ Current.conflict \in Conflict /\ Current.winner \in Sides[Current.conflict]
    BY <1>11, CurrentIsLine DEF Object, Unread, Decidable
  <2>2. /\ objection' \in [Conflict -> Thesis \cup {Nobody}]
        /\ \A x \in Conflict : objection'[x] \in Sides[x] \cup {Nobody}
    BY <1>11, <2>1, SidesArePairs DEF Object, TypeOK
  <2>3. QED
    BY <1>11, <2>1, <2>2, CurrentIsLine DEF Object, TypeOK, Core, memory, disk, pasted
<1>12. ASSUME NEW lean \in Thesis \cup {Nobody}, Settle(lean) PROVE TypeOK' /\ SavedWinners'
  <2>1. /\ Current.conflict \in Conflict /\ lines # <<>> /\ applied < MaxApply
        /\ Current.winner \in Sides[Current.conflict]
    BY <1>12, CurrentIsLine DEF Settle, Unread, Decidable
  <2>2. status' \in [Thesis -> Status]
    BY <1>12, HelperTypes DEF Settle, TypeOK, Core, Cores
  <2>3. QED
    BY <1>9, <1>12, <2>1, <2>2 DEF Settle
<1>13. CASE Empty
  BY <1>13, LimitsAssumption, SidesAssumption
  DEF Empty, TypeOK, Core, NothingSeen, Status, memory
<1>14. CASE SaveCore
  BY <1>14 DEF SaveCore, TypeOK, Core, Cores, memory, pasted, pass
<1>15. CASE SaveObjections
  BY <1>15 DEF SaveObjections, TypeOK, Core, memory, pasted, pass
<1>16. CASE Crash
  BY <1>16, LimitsAssumption DEF Crash, TypeOK, Core, Cores, NothingSeen, Status, disk, pasted
<1>17. CASE UNCHANGED vars
  BY <1>17 DEF vars, TypeOK, Core
<1>18. QED
  BY <1>1, <1>2, <1>3, <1>4, <1>5, <1>6, <1>7, <1>8, <1>10, <1>11, <1>12, <1>13, <1>14, <1>15,
     <1>16, <1>17 DEF Next, Detect, Challenge

\* The variables stay in their types, and no saved core has a winner of a conflict it is no side of.
THEOREM TypeInvariant == Spec => [](TypeOK /\ SavedWinners)
<1>1. Init => TypeOK /\ SavedWinners
  BY LimitsAssumption
  DEF Init, TypeOK, SavedWinners, Core, Cores, NothingSeen, Status, Stage
<1>2. QED
  BY <1>1, TypeStep, PTL DEF Spec

-----------------------------------------------------------------------------
(* Claims and the conflicts about them. *)

LiveIn(sg) == {x \in Conflict : sg[x] \in {"open", "under_review"}}

\* What a core may say, st of the claims and sg of the conflicts: whoever is contested has a
\* live conflict, whoever has a hard one does not work, and conflicts are about claims there are.
Consistent(st, sg) ==
  /\ \A c \in Thesis : st[c] = "contested" => \E x \in LiveIn(sg) : c \in Sides[x]
  /\ \A x \in LiveIn(sg) \cap Hard : \A c \in Sides[x] : st[c] # "active"
  /\ \A x \in Conflict : sg[x] # "unopened" => \A c \in Sides[x] : st[c] # "unborn"

\* The pass knows everybody who is contested still.
SeenContested ==
  pc = "lines" => \A c \in Thesis : status[c] = "contested" => seen.status[c] = "contested"

LEMMA LiveIsLiveIn == Live = LiveIn(stage) /\ Live' = LiveIn(stage')
  BY DEF Live, LiveIn

\* A claim that is not contested changes without harm, unless it begins to work.
LEMMA ClaimStep ==
  ASSUME TypeOK, Consistent(status, stage), NEW c \in Thesis, NEW s \in Status,
         status' = [status EXCEPT ![c] = s], stage' = stage,
         s \notin {"unborn", "contested"},
         s = "active" => \A x \in Live \cap Hard : c \notin Sides[x]
  PROVE  Consistent(status', stage')
<1>1. status \in [Thesis -> Status]
  BY DEF TypeOK, Core, Cores
<1>2. status'[c] = s /\ \A d \in Thesis \ {c} : status'[d] = status[d]
  BY <1>1
<1>3. QED
  BY <1>2, LiveIsLiveIn, SidesArePairs DEF Consistent, LiveIn

LEMMA OpenStep ==
  ASSUME TypeOK, Consistent(status, stage), NEW xs \in SUBSET Conflict, Open(xs),
         \A x \in xs : \A c \in Sides[x] : status[c] # "unborn"
  PROVE  Consistent(status', stage')
<1>1. /\ \A x \in Conflict : stage'[x] = IF x \in xs THEN "open" ELSE stage[x]
      /\ status' = Contest(status, UNION {Sides[x] : x \in xs})
      /\ LiveIn(stage') = LiveIn(stage) \cup xs
  BY DEF Open, LiveIn
<1>2. ASSUME NEW c \in Thesis
      PROVE  status'[c] = IF (\E x \in xs : c \in Sides[x]) /\ status[c] = "active"
                            THEN "contested" ELSE status[c]
  BY <1>1 DEF Contest
<1>3. ASSUME NEW c \in Thesis, status'[c] = "contested"
      PROVE  \E x \in LiveIn(stage') : c \in Sides[x]
  BY <1>1, <1>2, <1>3 DEF Consistent
<1>4. ASSUME NEW x \in LiveIn(stage') \cap Hard, NEW c \in Sides[x]
      PROVE  status'[c] # "active"
  <2>1. c \in Thesis
    BY LimitsAssumption, SidesArePairs
  <2>2. QED
    BY <1>1, <1>2, <2>1 DEF Consistent
<1>5. ASSUME NEW x \in Conflict, stage'[x] # "unopened", NEW c \in Sides[x]
      PROVE  status'[c] # "unborn"
  <2>1. c \in Thesis
    BY SidesArePairs
  <2>2. QED
    BY <1>1, <1>2, <1>5, <2>1 DEF Consistent
<1>6. QED
  BY <1>3, <1>4, <1>5 DEF Consistent

\* A conflict is closed, in whatever way: its losers (none, when there is no contradiction) go,
\* and of its other sides those come back that no other live conflict holds.
LEMMA CloseStep ==
  ASSUME TypeOK, Consistent(status, stage), NEW x \in Conflict, NEW known,
         NEW losers \in SUBSET Sides[x],
         \A c \in Thesis : status[c] = "contested" => known[c] = "contested",
         \/ stage' = [stage EXCEPT ![x] = "tolerated"]
         \/ stage' = [stage EXCEPT ![x] = "resolved"]
         \/ stage' = stage /\ x \notin Live,
         stage[x] # "unopened" \/ stage' = stage,
         status' = Activate(Supersede(status, losers), Revivable(known, Sides[x] \ losers, x))
  PROVE  /\ Consistent(status', stage')
         /\ \A c \in Thesis : status'[c] = "contested" => status[c] = "contested"
<1> DEFINE Back(c) == c \in Sides[x] \ losers /\ known[c] = "contested" /\ ~OtherOpen(c, x)
<1>1. LiveIn(stage') = LiveIn(stage) \ {x} /\ Live = LiveIn(stage)
  BY DEF LiveIn, Live, TypeOK, Core, Cores
<1>2. \A c : OtherOpen(c, x) <=> \E y \in LiveIn(stage') : c \in Sides[y]
  BY <1>1 DEF OtherOpen
<1>3. ASSUME NEW c \in Thesis
      PROVE  status'[c] = IF c \in losers
                            THEN IF status[c] \in {"active", "contested"} THEN "superseded"
                                 ELSE status[c]
                            ELSE IF Back(c) /\ status[c] \in {"candidate", "contested"}
                                   THEN "active" ELSE status[c]
  BY DEF Activate, Supersede, Revivable
<1>4. ASSUME NEW c \in Thesis, status'[c] = "contested"
      PROVE  status[c] = "contested" /\ \E y \in LiveIn(stage') : c \in Sides[y]
  <2>1. status[c] = "contested" /\ c \notin losers /\ ~Back(c)
    BY <1>3, <1>4
  <2>2. PICK y \in LiveIn(stage) : c \in Sides[y]
    BY <2>1 DEF Consistent
  <2>3. QED
    BY <1>1, <1>2, <2>1, <2>2
<1>5. ASSUME NEW y \in LiveIn(stage') \cap Hard, NEW c \in Sides[y]
      PROVE  status'[c] # "active"
  <2>1. c \in Thesis /\ status[c] # "active" /\ ~Back(c)
    BY <1>1, <1>2, LimitsAssumption, SidesArePairs DEF Consistent
  <2>2. QED
    BY <1>3, <2>1
<1>6. ASSUME NEW y \in Conflict, stage'[y] # "unopened", NEW c \in Sides[y]
      PROVE  status'[c] # "unborn"
  <2>1. stage[y] # "unopened"
    BY <1>6 DEF TypeOK, Core, Cores
  <2>2. c \in Thesis /\ status[c] # "unborn"
    BY <2>1, SidesArePairs DEF Consistent
  <2>3. QED
    BY <1>3, <2>2
<1>7. QED
  BY <1>4, <1>5, <1>6 DEF Consistent

CoresConsistent ==
  /\ Consistent(status, stage)
  /\ Consistent(core.status, core.stage)
  /\ SeenContested

LEMMA ConsistencyStep ==
  ASSUME TypeOK, CoresConsistent, [Next]_vars
  PROVE  CoresConsistent'
<1>1. status \in [Thesis -> Status] /\ stage \in [Conflict -> Stage]
  BY DEF TypeOK, Core, Cores
<1> USE DEF CoresConsistent
<1>2. CASE UNCHANGED <<status, stage>> /\ (core' = core \/ core' = Core)
             /\ (pc' # "lines" \/ (seen' = seen /\ pc = "lines"))
  BY <1>2 DEF Core, SeenContested
<1>3. ASSUME NEW c \in Thesis, Learn(c) \/ Hypothesize(c) \/ Promote(c) \/ Retire(c) \/ Refile(c)
      PROVE  CoresConsistent'
  <2>1. InPasses /\ stage' = stage
    BY <1>3 DEF Learn, Hypothesize, Promote, Retire, Refile
  <2>2. PICK s \in Status : /\ status' = [status EXCEPT ![c] = s]
                            /\ s \notin {"unborn", "contested"}
                            /\ s = "active" => \A x \in Live \cap Hard : c \notin Sides[x]
    <3>1. CASE Learn(c)
      <4>1. \A x \in Live : c \notin Sides[x]
        BY <3>1, LiveIsLiveIn DEF Learn, Consistent, LiveIn
      <4>2. QED
        BY <3>1, <4>1 DEF Learn, Status
    <3>2. CASE Promote(c)
      <4>1. status' = [status EXCEPT ![c] = "active"]
        BY <1>1, <3>2 DEF Promote, Promotable, Activate
      <4>2. QED
        BY <3>2, <4>1 DEF Promote, Promotable, Status
    <3>3. CASE Hypothesize(c) \/ Retire(c) \/ Refile(c)
      BY <3>3 DEF Hypothesize, Retire, Refile, Status
    <3>4. QED
      BY <1>3, <3>1, <3>2, <3>3
  <2>3. Consistent(status', stage')
    BY <2>1, <2>2, ClaimStep
  <2>4. QED
    BY <2>1, <2>3 DEF InPasses, disk, pasted, SeenContested
<1>4. ASSUME NEW xs \in SUBSET Conflict, InPasses, Open(xs),
             \A x \in xs : \A c \in Sides[x] : status[c] # "unborn"
      PROVE  CoresConsistent'
  BY <1>4, OpenStep DEF InPasses, disk, pasted, SeenContested
<1>5. CASE Detect
  BY <1>4, <1>5 DEF Detect, Working
<1>6. ASSUME NEW x \in Conflict, Challenge(x) PROVE CoresConsistent'
  BY <1>4, <1>6 DEF Challenge
<1>7. ASSUME NEW x \in Conflict, Review(x) PROVE CoresConsistent'
  <2>1. LiveIn(stage') = LiveIn(stage) /\ \A y \in Conflict : stage'[y] # "unopened" => stage[y] # "unopened"
    BY <1>1, <1>7 DEF Review, LiveIn
  <2>2. QED
    BY <1>7, <2>1 DEF Review, InPasses, Consistent, disk, pasted, SeenContested
<1>8. ASSUME NEW x \in Conflict, NEW known, NEW losers \in SUBSET Sides[x], NEW w,
             CloseAsSpurious(x) \/ Resolve(x, w),
             \A c \in Thesis : status[c] = "contested" => known[c] = "contested",
             status' = Activate(Supersede(status, losers), Revivable(known, Sides[x] \ losers, x)),
             core' = core, pc' = pc, seen' = seen
      PROVE  CoresConsistent'
  <2>1. /\ \/ stage' = [stage EXCEPT ![x] = "tolerated"]
           \/ stage' = [stage EXCEPT ![x] = "resolved"]
           \/ stage' = stage /\ x \notin Live
        /\ stage[x] # "unopened" \/ stage' = stage
    BY <1>8 DEF CloseAsSpurious, Resolve, Move, Live
  <2>2. /\ Consistent(status', stage')
        /\ \A c \in Thesis : status'[c] = "contested" => status[c] = "contested"
    BY <1>8, <2>1, CloseStep
  <2>3. QED
    BY <1>8, <2>2 DEF SeenContested
<1>9. \A cs : Supersede(status, {}) = status /\ cs \ {} = cs
  BY <1>1 DEF Supersede
<1>10. ASSUME NEW x \in Conflict, Tolerate(x) PROVE CoresConsistent'
  BY <1>8, <1>9, <1>10 DEF Tolerate, InPasses, disk, pasted, pass
<1>11. CASE Read
  BY <1>11 DEF Read, SeenContested, memory, disk, pasted
<1>12. CASE DeclareSpurious
  <2>1. pc = "lines" /\ Current.conflict \in Conflict
    BY <1>12, CurrentIsLine DEF DeclareSpurious, Unread
  <2>2. QED
    BY <1>8, <1>9, <1>12, <2>1 DEF DeclareSpurious, CarriedOut, disk, pasted, SeenContested
<1>13. ASSUME NEW lean \in Thesis \cup {Nobody}, Settle(lean) PROVE CoresConsistent'
  <2> DEFINE x == Current.conflict
             w == Current.winner
  <2>1. pc = "lines" /\ x \in Conflict /\ w \in Sides[x]
    BY <1>13, CurrentIsLine DEF Settle, Unread, Decidable
  <2>2. Losers(x, w) \subseteq Sides[x] /\ Sides[x] \ Losers(x, w) = {w}
    BY <2>1 DEF Losers
  <2>3. QED
    BY <1>8, <1>13, <2>1, <2>2 DEF Settle, CarriedOut, disk, pasted, SeenContested
<1>14. CASE Crash
  BY <1>14 DEF Crash, disk, pasted, SeenContested
<1>15. QED
  BY <1>2, <1>3, <1>5, <1>6, <1>7, <1>10, <1>11, <1>12, <1>13, <1>14
  DEF Next, Begin, NothingPasted, Paste, Skip, Object, Empty, SaveCore, SaveObjections,
      memory, disk, pasted, pass, vars

\* In memory and on the disk, pasted, whoever is contested has a live conflict, and nobody works on under
\* a hard one; the pass over the lines knows who is contested.
THEOREM ConsistencyInvariant == Spec => []CoresConsistent
<1>1. Init => CoresConsistent
  BY DEF Init, CoresConsistent, Consistent, LiveIn, SeenContested, Core
<1>2. QED
  BY <1>1, ConsistencyStep, TypeInvariant, PTL DEF Spec

\* However the conflicts around a claim are closed, nobody is left contested without one.
THEOREM LimboInvariant == Spec => []NobodyInLimbo
<1>1. CoresConsistent => NobodyInLimbo
  BY LiveIsLiveIn DEF CoresConsistent, Consistent, NobodyInLimbo
<1>2. QED
  BY <1>1, ConsistencyInvariant, PTL

\* No claim works on while a hard conflict about it is live.
THEOREM HardInvariant == Spec => []HardConflictsHold
<1>1. CoresConsistent => HardConflictsHold
  BY LiveIsLiveIn DEF CoresConsistent, Consistent, HardConflictsHold
<1>2. QED
  BY <1>1, ConsistencyInvariant, PTL

-----------------------------------------------------------------------------
(* Winners, losers and objections, and the conflicts that a paste named twice. *)

\* Only a conflict in `twice` is in two of the lines.
Distinct(ls) ==
  \A i, j \in 1..Len(ls) : ls[i].conflict = ls[j].conflict => i = j \/ ls[i].conflict \in twice

\* The claim has lost the conflict, or two lines of a paste have been about it.
Lost(c, y, w) == c \in Sides[y] /\ (w[y] \notin {c, Nobody} \/ y \in twice)

\* Only a resolved conflict has a winner, and only its losers are superseded.
Accounted(st, sg, w) ==
  /\ \A x \in Conflict : w[x] # Nobody => sg[x] = "resolved"
  /\ \A c \in Thesis : st[c] = "superseded" => \E y \in Conflict : Lost(c, y, w)

\* What the pass knows of the conflicts of the lines ahead of it holds still, since no other
\* line is about them; neither has an objection to one been raised or lifted.
Ahead(x) ==
  x \in twice \/ ((x \in seen.live => x \in Live) /\ objection[x] = raised[x])

AccountedPass ==
  /\ Distinct(box) /\ Distinct(lines)
  /\ Accounted(status, stage, winner)
  /\ Accounted(core.status, core.stage, core.winner)
  /\ pc = "lines" => \A i \in 1..Len(lines) : Ahead(lines[i].conflict)
  /\ pc \in {"down", "passes"} => objection = raised

LEMMA AppendDistinct ==
  ASSUME TypeOK, Distinct(box), NEW l \in Line, Paste(l)
  PROVE  twice \subseteq twice' /\ Distinct(box)'
<1>1. box \in Seq(Line)
  BY DEF TypeOK
<1>2. /\ Len(Append(box, l)) = Len(box) + 1 /\ Len(box) \in Nat
      /\ \A i \in 1..Len(box) : Append(box, l)[i] = box[i]
      /\ Append(box, l)[Len(box) + 1] = l
  BY <1>1
<1>3. /\ box' = Append(box, l) /\ twice \subseteq twice'
      /\ \A i \in 1..Len(box) : box[i].conflict = l.conflict => l.conflict \in twice'
  BY DEF Paste
<1>4. QED
  BY <1>2, <1>3 DEF Distinct

LEMMA LinesBehind ==
  ASSUME TypeOK, lines # <<>>, Distinct(lines)
  PROVE  /\ 1 \in 1..Len(lines) /\ lines[1] = Current
         /\ Distinct(Tail(lines))
         /\ \A i \in 1..Len(Tail(lines)) :
              \E j \in 1..Len(lines) :
                /\ Tail(lines)[i] = lines[j]
                /\ lines[j].conflict # Current.conflict \/ lines[j].conflict \in twice
<1>1. lines \in Seq(Line)
  BY DEF TypeOK
<1>2. Len(lines) \in Nat /\ Len(lines) > 0 /\ Current = lines[1]
  BY <1>1 DEF Current
<1>3. Len(Tail(lines)) = Len(lines) - 1 /\ \A i \in 1..Len(Tail(lines)) : Tail(lines)[i] = lines[i + 1]
  BY <1>1
<1>4. QED
  BY <1>2, <1>3 DEF Distinct

\* A conflict is closed, with a winner or without, or was closed before and is named twice.
LEMMA CloseAccounts ==
  ASSUME TypeOK, Accounted(status, stage, winner), twice' = twice,
         NEW x \in Conflict, NEW w \in Sides[x] \cup {Nobody}, x \in Live \/ x \in twice,
         (w = Nobody /\ CloseAsSpurious(x)) \/ (w # Nobody /\ Resolve(x, w)),
         \A c \in Thesis : status'[c] = "superseded" =>
           status[c] = "superseded" \/ (w # Nobody /\ c \in Losers(x, w))
  PROVE  Accounted(status, stage, winner)'
<1>1. /\ winner'[x] # Nobody => stage'[x] = "resolved"
      /\ \A y \in Conflict \ {x} : stage'[y] = stage[y] /\ winner'[y] = winner[y]
      /\ x \in Live => winner'[x] = w /\ winner[x] = Nobody
  BY DEF CloseAsSpurious, Resolve, Move, Live, TypeOK, Core, Cores, Accounted
<1>2. \A c \in Thesis, y \in Conflict : Lost(c, y, winner) => Lost(c, y, winner)'
  BY <1>1 DEF Lost
<1>3. ASSUME NEW c \in Thesis, w # Nobody, c \in Losers(x, w) PROVE Lost(c, x, winner)'
  BY <1>1, <1>3 DEF Lost, Losers
<1>4. \A y \in Conflict : winner'[y] # Nobody => stage'[y] = "resolved"
  BY <1>1 DEF Accounted
<1>5. QED
  BY <1>2, <1>3, <1>4 DEF Accounted

LEMMA StepAccounts ==
  ASSUME TypeOK, Accounted(status, stage, winner), winner' = winner, twice \subseteq twice',
         \A x \in Conflict : stage[x] = "resolved" => stage'[x] = "resolved",
         \A c \in Thesis : status'[c] = "superseded" => status[c] = "superseded"
  PROVE  Accounted(status, stage, winner)'
  BY DEF Accounted, Lost

LEMMA AccountedStep ==
  ASSUME TypeOK, AccountedPass, [Next]_vars
  PROVE  AccountedPass'
<1>1. status \in [Thesis -> Status] /\ stage \in [Conflict -> Stage]
  BY DEF TypeOK, Core, Cores
<1> USE DEF AccountedPass
<1>2. CASE /\ UNCHANGED <<status, stage, winner, objection, raised, core, lines>>
           /\ twice \subseteq twice' /\ (<<box, twice>>' = <<box, twice>> \/ Distinct(box)')
           /\ \/ pc' = pc /\ seen' = seen
              \/ <<pc, pc'>> \in {<<"passes", "save">>, <<"down", "passes">>}
  <2>1. Accounted(status, stage, winner)' /\ Accounted(core.status, core.stage, core.winner)'
    BY <1>2 DEF Accounted, Lost
  <2>2. Distinct(box)' /\ Distinct(lines)'
    BY <1>2 DEF Distinct
  <2>3. QED
    BY <1>2, <2>1, <2>2 DEF Ahead, Live
<1>3. ASSUME InPasses, winner' = winner,
             \A x \in Conflict : stage[x] = "resolved" => stage'[x] = "resolved",
             \A c \in Thesis : status'[c] = "superseded" => status[c] = "superseded"
      PROVE  AccountedPass'
  <2>1. Accounted(status, stage, winner)' /\ UNCHANGED <<objection, core, raised, box, twice, pc, lines>>
    BY <1>3, StepAccounts DEF InPasses, disk, pasted, pass
  <2>2. QED
    BY <1>3, <2>1 DEF InPasses, Accounted, Lost, Distinct
<1>4. ASSUME NEW c \in Thesis, Learn(c) \/ Hypothesize(c) \/ Promote(c) \/ Retire(c) \/ Refile(c)
      PROVE  AccountedPass'
  <2>1. \A d \in Thesis : status'[d] = "superseded" => status[d] = "superseded"
    BY <1>1, <1>4 DEF Learn, Hypothesize, Promote, Retire, Refile, Activate
  <2>2. QED
    BY <1>3, <1>4, <2>1 DEF Learn, Hypothesize, Promote, Retire, Refile
<1>5. ASSUME NEW xs \in SUBSET Conflict, InPasses, Open(xs) PROVE AccountedPass'
  <2>1. /\ \A d \in Thesis : status'[d] = "superseded" => status[d] = "superseded"
        /\ \A x \in Conflict : stage[x] = "resolved" => stage'[x] = "resolved"
    BY <1>1, <1>5 DEF Open, Contest
  <2>2. QED
    BY <1>3, <1>5, <2>1 DEF Open
<1>6. CASE Detect \/ \E x \in Conflict : Challenge(x)
  BY <1>5, <1>6 DEF Detect, Challenge
<1>7. ASSUME NEW x \in Conflict, Review(x) PROVE AccountedPass'
  BY <1>1, <1>3, <1>7 DEF Review
<1>8. ASSUME NEW x \in Conflict, Tolerate(x) PROVE AccountedPass'
  <2>1. \A c \in Thesis : status'[c] = "superseded" => status[c] = "superseded"
    BY <1>8 DEF Tolerate, Activate
  <2>2. Accounted(status, stage, winner)'
    BY <1>8, <2>1, CloseAccounts DEF Tolerate, InPasses, disk, pasted, Live
  <2>3. QED
    BY <1>8, <2>2 DEF Tolerate, InPasses, disk, pasted, pass, Accounted, Lost, Distinct
<1>9. ASSUME NEW l \in Line, Paste(l) PROVE AccountedPass'
  <2>1. Distinct(box)' /\ twice \subseteq twice'
    BY <1>9, AppendDistinct
  <2>2. UNCHANGED <<status, stage, winner, objection, raised, core, lines, pc, seen>>
    BY <1>9 DEF Paste, memory, pass
  <2>3. QED
    BY <1>2, <2>1, <2>2
<1>10. CASE Read
  BY <1>10 DEF Read, Ahead, Live, memory, disk, pasted, Accounted, Lost, Distinct
<1>10a. ASSUME lines # <<>>, pc = "lines", lines' = Tail(lines), twice' = twice,
              \A y \in Conflict \ {Current.conflict} : Ahead(y) => Ahead(y)',
              \A y \in twice : Ahead(y)'
       PROVE  Distinct(lines)' /\ \A i \in 1..Len(lines') : Ahead(lines[i].conflict)'
  <2>1. Distinct(lines)'
    <3>1. Distinct(Tail(lines))
      BY <1>10a, LinesBehind
    <3>2. QED
      BY <1>10a, <3>1 DEF Distinct
  <2>2. ASSUME NEW i \in 1..Len(lines') PROVE Ahead(lines[i].conflict)'
    <3>1. PICK j \in 1..Len(lines) : /\ lines'[i] = lines[j]
                                     /\ lines[j].conflict # Current.conflict \/ lines[j].conflict \in twice
      BY <1>10a, LinesBehind
    <3>2. lines \in Seq(Line)
      BY DEF TypeOK
    <3>3. lines[j] \in Line
      BY <3>2
    <3>4. Ahead(lines[j].conflict)
      BY <1>10a
    <3>5. QED
      BY <1>10a, <3>1, <3>3, <3>4 DEF Ahead, Line
  <2>3. QED
    BY <2>1, <2>2
<1>11. CASE Skip
  <2>1. /\ UNCHANGED <<status, stage, winner, objection, core, raised, box, twice, pc, seen>>
        /\ lines' = Tail(lines) /\ lines # <<>> /\ pc = "lines"
    BY <1>11 DEF Skip, Unread, memory, disk, pasted
  <2>2. QED
    <3>1. \A y \in Conflict : Ahead(y) => Ahead(y)'
      BY <2>1 DEF Ahead, Live
    <3>2. \A y \in twice : Ahead(y)'
      BY <2>1 DEF Ahead
    <3>3. Distinct(lines)' /\ \A i \in 1..Len(lines') : Ahead(lines[i].conflict)'
      BY <1>10a, <2>1, <3>1, <3>2
    <3>4. Accounted(status, stage, winner)' /\ Accounted(core.status, core.stage, core.winner)'
      BY <2>1 DEF Accounted, Lost
    <3>5. QED
      BY <2>1, <3>3, <3>4 DEF Distinct
<1>12. CASE Object
  <2>1. /\ UNCHANGED <<status, stage, winner, core, raised, box, twice, pc, seen>>
        /\ lines' = Tail(lines) /\ lines # <<>> /\ pc = "lines"
        /\ \A y \in Conflict \ {Current.conflict} : objection'[y] = objection[y]
    BY <1>12 DEF Object, Unread, memory, disk, pasted, TypeOK
  <2>2. \A y \in Conflict \ {Current.conflict} : Ahead(y) => Ahead(y)'
    BY <2>1 DEF Ahead, Live
  <2>3. \A y \in twice : Ahead(y)'
    BY <2>1 DEF Ahead
  <2>4. QED
    <3>1. Distinct(lines)' /\ \A i \in 1..Len(lines') : Ahead(lines[i].conflict)'
      BY <1>10a, <2>1, <2>2, <2>3
    <3>2. Accounted(status, stage, winner)' /\ Accounted(core.status, core.stage, core.winner)'
      BY <2>1 DEF Accounted, Lost
    <3>3. QED
      BY <2>1, <3>1, <3>2 DEF Distinct
<1>13. ASSUME NEW w \in Sides[Current.conflict] \cup {Nobody}, pc = "lines", lines # <<>>,
              CarriedOut(Current.conflict), Current.conflict \in seen.live,
              (w = Nobody /\ CloseAsSpurious(Current.conflict))
                \/ (w # Nobody /\ Resolve(Current.conflict, w)),
              \A c \in Thesis : status'[c] = "superseded" =>
                status[c] = "superseded" \/ (w # Nobody /\ c \in Losers(Current.conflict, w))
       PROVE  AccountedPass'
  <2> DEFINE x == Current.conflict
  <2>1. x \in Conflict /\ (x \in Live \/ x \in twice)
    BY <1>13, LinesBehind, CurrentIsLine DEF Ahead
  <2>2. lines' = Tail(lines) /\ UNCHANGED <<core, raised, box, twice, pc, seen>>
    BY <1>13 DEF CarriedOut, disk, pasted
  <2>3. Accounted(status, stage, winner)'
    BY <1>13, <2>1, <2>2, CloseAccounts
  <2>4. \A y \in Conflict \ {x} : stage'[y] = stage[y] /\ objection'[y] = objection[y]
    BY <1>1, <1>13 DEF CloseAsSpurious, Resolve, Move, CarriedOut, TypeOK
  <2>5. \A y \in Conflict \ {x} : Ahead(y) => Ahead(y)'
    BY <2>2, <2>4 DEF Ahead, Live
  <2>6. \A y \in twice : Ahead(y)'
    BY <2>2 DEF Ahead
  <2>7. QED
    <3>1. Distinct(lines)' /\ \A i \in 1..Len(lines') : Ahead(lines[i].conflict)'
      BY <1>13, <1>10a, <2>2, <2>5, <2>6
    <3>2. Accounted(core.status, core.stage, core.winner)'
      BY <2>2 DEF Accounted, Lost
    <3>3. QED
      BY <1>13, <2>2, <2>3, <3>1, <3>2 DEF Distinct
<1>14. CASE DeclareSpurious
  <2>1. \A c \in Thesis : status'[c] = "superseded" => status[c] = "superseded"
    BY <1>14 DEF DeclareSpurious, Activate
  <2>2. QED
    BY <1>13, <1>14, <2>1 DEF DeclareSpurious, Unread, Decidable
<1>15. ASSUME NEW lean \in Thesis \cup {Nobody}, Settle(lean) PROVE AccountedPass'
  <2>1. \A c \in Thesis : status'[c] = "superseded" =>
          status[c] = "superseded" \/ c \in Losers(Current.conflict, Current.winner)
    BY <1>15 DEF Settle, Activate, Supersede
  <2>2. QED
    BY <1>13, <1>15, <2>1 DEF Settle, Unread, Decidable
<1>16. CASE Empty
  BY <1>16 DEF Empty, Distinct, memory, Accounted, Lost
<1>17. CASE SaveCore \/ SaveObjections
  <2>1. /\ UNCHANGED <<status, stage, winner, objection, box, twice, lines>>
        /\ core' \in {core, Core} /\ pc' \in {"objections", "down"}
        /\ pc' = "down" => raised' = objection
    BY <1>17 DEF SaveCore, SaveObjections, memory, pasted, pass
  <2>2. Accounted(status, stage, winner)' /\ Accounted(core.status, core.stage, core.winner)'
    BY <2>1 DEF Accounted, Lost, Core
  <2>3. QED
    BY <2>1, <2>2 DEF Distinct
<1>18. CASE Crash
  BY <1>18 DEF Crash, Distinct, disk, pasted, Accounted, Lost
<1>19. QED
  BY <1>2, <1>4, <1>6, <1>7, <1>8, <1>9, <1>10, <1>11, <1>12, <1>14, <1>15, <1>16, <1>17, <1>18
  DEF Next, Begin, NothingPasted, memory, disk, pasted, pass, vars

\* Where a paste decides each conflict once, what the pass has read of the lines still ahead of it
\* holds when their turn comes.
THEOREM AccountsInvariant == Spec => []AccountedPass
<1>1. Init => AccountedPass
  BY DEF Init, AccountedPass, Accounted, Distinct, Core
<1>2. TypeOK /\ AccountedPass /\ [Next]_vars => AccountedPass'
  BY AccountedStep
<1>3. QED
  BY <1>1, <1>2, TypeInvariant, PTL DEF Spec

\* A claim that has won is superseded only if it has lost another conflict.
THEOREM WinnersInvariant == Spec => []WinnersStand
<1>1. TypeOK /\ AccountedPass => WinnersStand
  BY DEF AccountedPass, Accounted, Lost, WinnersStand
<1>2. QED
  BY <1>1, TypeInvariant, AccountsInvariant, PTL

\* A decision against the evidence follows an objection that was on the disk, pasted before the cycle.
THEOREM OverruledOnRecord == Spec => OverruledKnowingly
<1>1. TypeOK /\ AccountedPass =>
        \A x \in Conflict, lean \in Thesis :
          Settle(lean) /\ Current.conflict = x /\ lean \in Losers(x, Current.winner)
            => raised[x] = Current.winner \/ x \in twice
  <2> SUFFICES ASSUME TypeOK, AccountedPass, NEW x \in Conflict, NEW lean \in Thesis, Settle(lean),
                      Current.conflict = x, lean \in Losers(x, Current.winner)
               PROVE  raised[x] = Current.winner \/ x \in twice
    OBVIOUS
  <2>1. lines # <<>> /\ pc = "lines" /\ objection[x] = Current.winner
    BY DEF Settle, Unread, Confirmed
  <2>2. Ahead(x)
    BY <2>1, LinesBehind DEF AccountedPass
  <2>3. QED
    BY <2>1, <2>2 DEF Ahead
<1>2. QED
  BY <1>1, TypeInvariant, AccountsInvariant, PTL DEF OverruledKnowingly
=============================================================================
