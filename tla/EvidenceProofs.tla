----------------------------- MODULE EvidenceProofs -----------------------------
(***************************************************************************)
(* What holds of the evidence for all claims, packages and links, and for  *)
(* memories and sheets of any size: a package is not taken in twice while  *)
(* it lies in the inbox, what the sheet says is what an objection would    *)
(* say, and the map shows or counts everything.                            *)
(***************************************************************************)
EXTENDS Evidence, FiniteSetTheorems, TLAPS

-----------------------------------------------------------------------------
(***************************************************************************)
(* Types.                                                                  *)
(***************************************************************************)
LEMMA PidsAreFinite ==
  /\ IsFiniteSet(Pids) /\ \A q \in Package : Pid[q] \in Pids
  /\ \A S \in SUBSET Pids : IsFiniteSet(S) /\ Cardinality(S) \in Nat
<1>1. IsFiniteSet(Pids)
  <2> DEFINE f == [q \in Package |-> Pid[q]]
  <2>1. f \in Surjection(Package, Pids)
    BY DEF Surjection, Pids
  <2> HIDE DEF f
  <2>2. QED
    BY <2>1, EvidenceAssumption, FS_Surjection
<1>2. ASSUME NEW S \in SUBSET Pids PROVE IsFiniteSet(S) /\ Cardinality(S) \in Nat
  BY <1>1, FS_Subset, FS_CardinalityType
<1>3. QED
  BY <1>1, <1>2 DEF Pids

Stages == {"none", "open", "under_review", "resolved", "tolerated"}

LEMMA OpenedIsTyped ==
  ASSUME NEW stages \in [Conflict -> Stages], NEW S
  PROVE  Opened(stages, S) \in [Conflict -> Stages]
BY DEF Opened, Stages

LEMMA ContestIsTyped ==
  ASSUME NEW st \in [Claim -> Status], NEW before, NEW after
  PROVE  Contest(st, before, after) \in [Claim -> Status]
<1> DEFINE hit == UNION {Sides(p) : p \in {x \in Conflict : before[x] = "none" /\ after[x] = "open"}}
<1>1. Contest(st, before, after)
        = [c \in Claim |-> IF c \in hit \cap LiveIn(st) THEN "contested" ELSE st[c]]
  BY DEF Contest
<1> HIDE DEF hit
<1>2. QED
  BY <1>1 DEF Status

LEMMA HearIsTyped ==
  ASSUME status \in [Claim -> Status], stage \in [Conflict -> Stages],
         NEW updates, NEW whole \in BOOLEAN, Hear(updates, whole)
  PROVE  status' \in [Claim -> Status] /\ stage' \in [Conflict -> Stages]
<1> DEFINE said == {u \in updates : Free(u.text) # {}}
           new == {Minted(u) : u \in said}
           born == [c \in Claim |-> IF c \in new THEN Entering(c) ELSE status[c]]
           against == UNION {{<<Minted(u), a>> : a \in u.against \cap Live} : u \in said}
           raised == Opened(stage, against)
           held == Contest(born, stage, raised)
<1>1. IF whole THEN /\ stage' = Opened(raised, Found(held, raised))
                    /\ status' = Contest(held, raised, stage')
      ELSE stage' = raised /\ status' = held
  BY DEF Hear
<1> HIDE DEF new, against
<1>2. born \in [Claim -> Status]
  BY DEF Entering, Status
<1> HIDE DEF born
<1>3. raised \in [Conflict -> Stages]
  BY OpenedIsTyped
<1> HIDE DEF raised
<1>4. held \in [Claim -> Status]
  BY <1>2, ContestIsTyped
<1> HIDE DEF held
<1>5. CASE whole
  <2>1. stage' \in [Conflict -> Stages]
    BY <1>1, <1>3, <1>5, OpenedIsTyped
  <2>2. status' \in [Claim -> Status]
    BY <1>1, <1>4, <1>5, ContestIsTyped
  <2>3. QED
    BY <2>1, <2>2
<1>6. CASE ~whole
  BY <1>1, <1>3, <1>4, <1>6
<1>7. QED
  BY <1>5, <1>6

Memory == [objection : [Conflict -> Claim \cup {0}], since : [Pids -> Nat]]
CoreTyped == status \in [Claim -> Status] /\ stage \in [Conflict -> Stages] /\ links \subseteq Linkable
MemoryTyped ==
  /\ objection \in [Conflict -> Claim \cup {0}] /\ since \in [Pids -> Nat]
  /\ filed \in Memory
RestTyped ==
  /\ queue \subseteq Package /\ inbox \subseteq Package /\ archive \subseteq Package
  /\ present \subseteq Pids
  /\ torn \in 0 .. MaxTorn /\ taken \in [Package -> Nat]

LEMMA TypeParts == TypeOK <=> CoreTyped /\ MemoryTyped /\ RestTyped
BY DEF TypeOK, CoreTyped, MemoryTyped, RestTyped, Memory, Extensions, Stages

LEMMA CoreStep == TypeOK /\ [Next]_vars => CoreTyped'
<1> SUFFICES ASSUME TypeOK, [Next]_vars PROVE CoreTyped'
  OBVIOUS
<1> USE DEF CoreTyped
<1>1. CoreTyped
  BY TypeParts
<1>2. CASE UNCHANGED vars
  BY <1>1, <1>2 DEF vars, core
<1>3. CASE UNCHANGED core
  BY <1>1, <1>3 DEF core
<1>4. CASE \E c \in Claim : Learn(c) \/ Reject(c) \/ Confirm(c)
  BY <1>1, <1>4 DEF Learn, Reject, Confirm, Entering, Status
<1>5. CASE \E l \in Linkable : Attach(l)
  BY <1>1, <1>5 DEF Attach
<1>6. CASE Detect
  BY <1>1, <1>6, OpenedIsTyped, ContestIsTyped DEF Detect
<1>7. CASE \E p \in Conflict : Review(p)
  BY <1>1, <1>7 DEF Review, Stages
<1>8. ASSUME NEW p \in Conflict, NEW w \in Claim, Settle(p, w) PROVE CoreTyped'
  <2>1. stage' \in [Conflict -> Stages] /\ links' = links
    BY <1>1, <1>8 DEF Settle, Deciding, Stages
  <2>2. status' \in [Claim -> Status]
    BY <1>1, <1>8 DEF Settle, Status
  <2>3. QED
    BY <1>1, <2>1, <2>2
<1>9. ASSUME NEW p \in Conflict, Declare(p) PROVE CoreTyped'
  <2>1. stage' \in [Conflict -> Stages] /\ links' = links
    BY <1>1, <1>9 DEF Declare, Deciding, Stages
  <2>2. status' \in [Claim -> Status]
    BY <1>1, <1>9 DEF Declare, Status
  <2>3. QED
    BY <1>1, <2>1, <2>2
<1>10. ASSUME NEW q \in Package, TakeIn(q) PROVE CoreTyped'
  <2>1. links' = links
    BY <1>10 DEF TakeIn
  <2>2. CASE Judgement[q] = "reject"
    BY <1>1, <1>10, <2>1, <2>2 DEF TakeIn
  <2>3. CASE Judgement[q] # "reject"
    <3>1. Hear(Updates[q], Whole[q]) /\ Whole[q] \in BOOLEAN
      BY <1>10, <2>3, EvidenceAssumption DEF TakeIn
    <3>2. QED
      BY <1>1, <2>1, <3>1, HearIsTyped
  <2>4. QED
    BY <2>2, <2>3
<1>11. CASE NoDecision \/ Skipped \/ \E p \in Conflict : \E w \in Claim : Object(p, w)
  BY <1>1, <1>11 DEF NoDecision, Skipped, Object, Deciding
<1>12. CASE MeasureFails \/ \E m \in Mood : Measure(m)
  BY <1>3, <1>12 DEF MeasureFails, Measure
<1>13. CASE WriteSheet \/ NoIntake \/ ReadInbox \/ Trim
  BY <1>3, <1>13 DEF WriteSheet, NoIntake, ReadInbox, Trim
<1>14. CASE \E q \in Package : Skip(q) \/ Deliver(q) \/ Clear(q)
  BY <1>3, <1>14 DEF Skip, Deliver, Clear
<1>15. CASE SaveCore \/ SaveExtensions \/ Killed \/ Render \/ NextCycle
  BY <1>3, <1>15 DEF SaveCore, SaveExtensions, Killed, Render, NextCycle
<1>16. QED
  BY <1>2, <1>4, <1>5, <1>6, <1>7, <1>8, <1>9, <1>10, <1>11, <1>12, <1>13, <1>14, <1>15 DEF Next

LEMMA MemoryStep == TypeOK /\ [Next]_vars => MemoryTyped'
<1> SUFFICES ASSUME TypeOK, [Next]_vars PROVE MemoryTyped'
  OBVIOUS
<1> USE DEF MemoryTyped
<1>1. MemoryTyped /\ RestTyped
  BY TypeParts
<1>2. CASE UNCHANGED <<extensions, filed>>
  BY <1>1, <1>2 DEF extensions
<1>3. CASE UNCHANGED vars
  BY <1>2, <1>3 DEF vars
<1>4. ASSUME NEW o \in [Conflict -> Claim \cup {0}], NEW stages
      PROVE  Pruned(o, stages) \in [Conflict -> Claim \cup {0}]
  BY <1>4 DEF Pruned
<1>5. CASE NoDecision \/ Skipped
  BY <1>1, <1>4, <1>5 DEF NoDecision, Skipped, Deciding
<1>6. ASSUME NEW p \in Conflict, NEW w \in Claim, Object(p, w) \/ Settle(p, w)
      PROVE  MemoryTyped'
  <2>1. UNCHANGED <<since, filed>>
    BY <1>6 DEF Object, Settle, Deciding
  <2>2. CASE Object(p, w)
    <3>1. [objection EXCEPT ![p] = w] \in [Conflict -> Claim \cup {0}]
      BY <1>1
    <3>2. QED
      BY <1>1, <1>4, <2>1, <2>2, <3>1 DEF Object
  <2>3. CASE Settle(p, w)
    BY <1>1, <1>4, <2>1, <2>3 DEF Settle
  <2>4. QED
    BY <1>6, <2>2, <2>3
<1>7. ASSUME NEW p \in Conflict, Declare(p) PROVE MemoryTyped'
  <2>1. UNCHANGED <<since, filed>> /\ objection' = Pruned(objection, stage')
    BY <1>7 DEF Declare, Deciding
  <2>2. QED
    BY <1>1, <1>4, <2>1
<1>8. ASSUME NEW q \in Package, TakeIn(q) PROVE MemoryTyped'
  <2>1. Cardinality(Remembered) + 1 \in Nat
    BY PidsAreFinite DEF Remembered
  <2>2. QED
    BY <1>1, <1>8, <2>1 DEF TakeIn
<1>9. CASE Trim
  <2>1. \A S \in SUBSET Pids : Cardinality(S) \in Nat
    BY PidsAreFinite
  <2>2. Recent \subseteq Pids /\ Retained \subseteq Pids
    BY DEF Recent, Retained, Remembered
  <2>3. since' \in [Pids -> Nat]
    <3>1. Cardinality(Recent) \in Nat
      BY <2>1, <2>2
    <3>2. \A i \in Pids : /\ Cardinality({j \in Recent : since[j] <= since[i]}) \in Nat
                         /\ Cardinality({j \in Retained \ Recent : since[j] <= since[i]}) \in Nat
      BY <2>1, <2>2
    <3>3. QED
      BY <1>9, <3>1, <3>2 DEF Trim
  <2>4. UNCHANGED <<objection, filed>>
    BY <1>9 DEF Trim
  <2>5. QED
    BY <1>1, <2>3, <2>4
<1>10. CASE SaveExtensions
  BY <1>1, <1>10 DEF SaveExtensions, Extensions, Memory, extensions
<1>11. CASE Killed
  BY <1>1, <1>11 DEF Killed, Memory
<1>12. CASE \/ \E c \in Claim : Learn(c) \/ Reject(c) \/ Confirm(c)
            \/ \E l \in Linkable : Attach(l)
            \/ Detect \/ \E p \in Conflict : Review(p)
  BY <1>2, <1>12 DEF Learn, Reject, Confirm, Attach, Detect, Review, Working
<1>13. CASE MeasureFails \/ \E m \in Mood : Measure(m)
  BY <1>2, <1>13 DEF MeasureFails, Measure
<1>14. CASE WriteSheet \/ NoIntake \/ ReadInbox
  BY <1>2, <1>14 DEF WriteSheet, NoIntake, ReadInbox
<1>15. CASE \E q \in Package : Skip(q) \/ Deliver(q) \/ Clear(q)
  BY <1>2, <1>15 DEF Skip, Deliver, Clear
<1>16. CASE SaveCore \/ Render \/ NextCycle
  BY <1>2, <1>16 DEF SaveCore, Render, NextCycle
<1>17. QED
  BY <1>3, <1>5, <1>6, <1>7, <1>8, <1>9, <1>10, <1>11, <1>12, <1>13, <1>14, <1>15, <1>16 DEF Next

LEMMA RestStep == TypeOK /\ [Next]_vars => RestTyped'
<1> SUFFICES ASSUME TypeOK, [Next]_vars PROVE RestTyped'
  OBVIOUS
<1> USE DEF RestTyped
<1>1. RestTyped /\ MaxTorn \in Nat
  BY TypeParts, EvidenceAssumption
<1>2. CASE UNCHANGED <<inbox, intake, archive, history>>
  BY <1>1, <1>2 DEF intake, history
<1>3. CASE UNCHANGED vars
  BY <1>2, <1>3 DEF vars
<1>4. CASE ReadInbox
  BY <1>1, <1>4, PidsAreFinite DEF ReadInbox, history
<1>5. CASE Trim
  BY <1>1, <1>5 DEF Trim, history
<1>6. ASSUME NEW q \in Package, Skip(q) PROVE RestTyped'
  BY <1>1, <1>6 DEF Skip, history
<1>7. ASSUME NEW q \in Package, TakeIn(q) PROVE RestTyped'
  BY <1>1, <1>7 DEF TakeIn
<1>8. ASSUME NEW q \in Package, Deliver(q) \/ Clear(q) PROVE RestTyped'
  BY <1>1, <1>8 DEF Deliver, Clear, intake
<1>9. CASE Killed
  BY <1>1, <1>9 DEF Killed, intake
<1>10. CASE \/ \E c \in Claim : Learn(c) \/ Reject(c) \/ Confirm(c)
            \/ \E l \in Linkable : Attach(l)
            \/ Detect \/ \E p \in Conflict : Review(p)
  BY <1>2, <1>10 DEF Learn, Reject, Confirm, Attach, Detect, Review, Working
<1>11. CASE MeasureFails \/ \E m \in Mood : Measure(m)
  BY <1>2, <1>11 DEF MeasureFails, Measure
<1>12. CASE \/ NoDecision \/ Skipped
            \/ \E p \in Conflict : Declare(p) \/ \E w \in Claim : Object(p, w) \/ Settle(p, w)
  BY <1>2, <1>12 DEF NoDecision, Skipped, Declare, Object, Settle, Deciding
<1>13. CASE WriteSheet \/ NoIntake \/ SaveCore \/ SaveExtensions \/ Render \/ NextCycle
  BY <1>2, <1>13 DEF WriteSheet, NoIntake, SaveCore, SaveExtensions, Render, NextCycle
<1>14. QED
  BY <1>3, <1>4, <1>5, <1>6, <1>7, <1>8, <1>9, <1>10, <1>11, <1>12, <1>13 DEF Next

LEMMA TypedAtFirst == Init => TypeOK
<1> SUFFICES ASSUME Init PROVE TypeOK
  OBVIOUS
<1>1. CoreTyped
  BY DEF Init, CoreTyped, Status, Stages
<1>2. MemoryTyped
  BY DEF Init, MemoryTyped, Memory, Extensions
<1>3. RestTyped
  BY EvidenceAssumption DEF Init, RestTyped
<1>4. QED
  BY <1>1, <1>2, <1>3, TypeParts

LEMMA TypeStep == TypeOK /\ [Next]_vars => TypeOK'
<1> SUFFICES ASSUME TypeOK, [Next]_vars PROVE TypeOK'
  OBVIOUS
<1>1. CoreTyped' /\ MemoryTyped' /\ RestTyped'
  BY CoreStep, MemoryStep, RestStep
<1>2. QED
  BY <1>1 DEF TypeOK, CoreTyped, MemoryTyped, RestTyped, Memory, Extensions, Stages

\* Claims, conflicts and links, the memory in both copies, and what the intake is at, are well
\* typed, kills and unreadable packages included.
THEOREM TypeInvariant == Spec => []TypeOK
<1>1. QED
  BY TypedAtFirst, TypeStep, PTL DEF Spec

-----------------------------------------------------------------------------
(***************************************************************************)
(* The inbox.  What was taken in as often as it may be since it came is    *)
(* remembered; what the cycle took in, or a former one, of what lies there *)
(* is among what this cycle has read, so that Trim leaves it remembered.   *)
(***************************************************************************)
Stay ==
  /\ \A q \in queue : Pid[q] \in present
  /\ \A q \in inbox : pc = "packages" /\ taken[q] > 0 => Pid[q] \in present
  /\ \A q \in inbox : taken[q] <= torn + 1 /\ (taken[q] = torn + 1 => since[Pid[q]] # 0)

StayInv == TypeOK /\ Stay

\* What Trim retains keeps a rank.
LEMMA RetainedAreRemembered ==
  ASSUME TypeOK, Trim, NEW i \in Retained
  PROVE  since'[i] # 0
<1>1. Recent \subseteq Pids /\ Retained \subseteq Pids /\ since \in [Pids -> Nat]
  BY TypeParts DEF Recent, Retained, Remembered, MemoryTyped
<1>2. ASSUME NEW S \in SUBSET Pids, i \in S PROVE Cardinality(S) \in Nat \ {0}
  <2>1. IsFiniteSet(S) /\ Cardinality(S) \in Nat
    BY PidsAreFinite
  <2>2. Cardinality(S) # 0
    BY <1>2, <2>1, FS_EmptySet
  <2>3. QED
    BY <2>1, <2>2
<1>3. CASE i \in Recent
  <2> DEFINE S == {j \in Recent : since[j] <= since[i]}
  <2>1. since'[i] = Cardinality(S)
    BY <1>1, <1>3 DEF Trim
  <2>2. i \in S /\ S \in SUBSET Pids
    BY <1>1, <1>3
  <2> HIDE DEF S
  <2>3. QED
    BY <1>2, <2>1, <2>2
<1>4. CASE i \notin Recent
  <2> DEFINE S == {j \in Retained \ Recent : since[j] <= since[i]}
  <2>1. since'[i] = Cardinality(Recent) + Cardinality(S)
    BY <1>1, <1>4 DEF Trim
  <2>2. i \in S /\ S \in SUBSET Pids
    BY <1>1, <1>4
  <2> HIDE DEF S
  <2>3. Cardinality(Recent) \in Nat
    BY <1>1, PidsAreFinite
  <2>4. QED
    BY <1>2, <2>1, <2>2, <2>3
<1>5. QED
  BY <1>3, <1>4

LEMMA StayStep == StayInv /\ [Next]_vars => Stay'
<1> SUFFICES ASSUME StayInv, [Next]_vars PROVE Stay'
  OBVIOUS
<1>1. TypeOK /\ RestTyped /\ since \in [Pids -> Nat] /\ torn \in Nat
  BY TypeParts, EvidenceAssumption DEF StayInv, MemoryTyped, RestTyped
<1> USE DEF Stay
<1>2. Stay
  BY DEF StayInv
<1>3. CASE UNCHANGED <<since, inbox, intake, history>> /\ (pc' = "packages" => pc = "packages")
  BY <1>2, <1>3 DEF intake, history
<1>4. CASE UNCHANGED vars
  BY <1>3, <1>4 DEF vars, extensions
<1>5. CASE ReadInbox
  BY <1>2, <1>5 DEF ReadInbox, extensions, history
<1>6. ASSUME NEW q \in Package, Skip(q) PROVE Stay'
  BY <1>2, <1>6 DEF Skip, extensions, history
<1>7. ASSUME NEW q \in Package, TakeIn(q) PROVE Stay'
  <2>1. /\ q \in queue /\ since[Pid[q]] = 0 /\ pc = "packages" /\ pc' = pc
        /\ taken' = [taken EXCEPT ![q] = @ + 1] /\ queue' = queue \ {q}
        /\ UNCHANGED <<inbox, present, torn>>
    BY <1>7 DEF TakeIn
  <2>2. \A i \in Pids : since[i] # 0 \/ i = Pid[q] => since'[i] # 0
    <3>1. Cardinality(Remembered) + 1 \in Nat \ {0}
      BY PidsAreFinite DEF Remembered
    <3>2. since' = [since EXCEPT ![Pid[q]] = Cardinality(Remembered) + 1]
      BY <1>7 DEF TakeIn
    <3>3. QED
      BY <1>1, <3>1, <3>2, PidsAreFinite
  <2>3. \A p \in queue' : Pid[p] \in present'
    BY <1>2, <2>1
  <2>4. ASSUME NEW p \in inbox
        PROVE  /\ taken'[p] > 0 => Pid[p] \in present
               /\ taken'[p] <= torn + 1 /\ (taken'[p] = torn + 1 => since'[Pid[p]] # 0)
    <3>1. p \in Package /\ Pid[p] \in Pids /\ taken[p] \in Nat
      BY <1>1, PidsAreFinite DEF RestTyped
    <3>2. CASE p = q
      <4>1. taken[p] <= torn
        BY <1>1, <1>2, <2>1, <3>1, <3>2
      <4>2. QED
        BY <1>1, <1>2, <2>1, <2>2, <3>1, <3>2, <4>1 DEF RestTyped
    <3>3. CASE p # q
      <4>1. taken'[p] = taken[p]
        BY <1>1, <2>1, <3>1, <3>3 DEF RestTyped
      <4>2. QED
        BY <1>2, <2>1, <2>2, <3>1, <4>1
    <3>4. QED
      BY <3>2, <3>3
  <2>5. QED
    BY <2>1, <2>3, <2>4
<1>8. CASE Trim
  <2>1. /\ pc = "packages" /\ pc' = "save" /\ queue' = queue /\ queue = {}
        /\ UNCHANGED <<inbox, torn, taken>>
    BY <1>8 DEF Trim, Then, history
  <2>2. ASSUME NEW q \in inbox, taken[q] = torn + 1 PROVE since'[Pid[q]] # 0
    <3>1. Pid[q] \in present /\ since[Pid[q]] # 0 /\ Pid[q] \in Pids
      BY <1>1, <1>2, <2>1, <2>2, PidsAreFinite DEF RestTyped
    <3>2. Pid[q] \in Retained
      BY <3>1 DEF Retained, Remembered
    <3>3. QED
      BY <1>1, <1>8, <3>2, RetainedAreRemembered
  <2>3. QED
    BY <1>2, <2>1, <2>2
<1>9. ASSUME NEW q \in Package, Deliver(q) PROVE Stay'
  <2>1. /\ inbox' = inbox \cup {q} /\ taken' = [taken EXCEPT ![q] = 0]
        /\ UNCHANGED <<queue, present, since, torn, pc>>
    BY <1>9 DEF Deliver, extensions, intake
  <2>2. taken'[q] = 0 /\ \A p \in inbox \ {q} : taken'[p] = taken[p]
    BY <1>1, <2>1 DEF RestTyped
  <2>3. QED
    BY <1>1, <1>2, <2>1, <2>2
<1>10. ASSUME NEW q \in Package, Clear(q) PROVE Stay'
  <2>1. /\ inbox' = inbox \ {q} /\ taken' = [taken EXCEPT ![q] = 0]
        /\ UNCHANGED <<queue, present, since, torn, pc>>
    BY <1>10 DEF Clear, extensions, intake
  <2>2. \A p \in inbox \ {q} : taken'[p] = taken[p]
    BY <1>1, <2>1 DEF RestTyped
  <2>3. QED
    BY <1>1, <1>2, <2>1, <2>2
<1>11. CASE Killed
  <2>1. /\ torn' = torn + 1 /\ pc' = "work"
        /\ UNCHANGED <<inbox, queue, present, taken>>
    BY <1>11 DEF Killed, Then, intake
  <2>2. \A q \in inbox : taken[q] \in Nat
    BY <1>1 DEF RestTyped
  <2>3. \A q \in inbox : taken'[q] <= torn' + 1 /\ taken'[q] # torn' + 1
    BY <1>1, <1>2, <2>1, <2>2
  <2>4. QED
    BY <1>2, <2>1, <2>3
<1>12. CASE \/ \E c \in Claim : Learn(c) \/ Reject(c) \/ Confirm(c)
            \/ \E l \in Linkable : Attach(l)
            \/ Detect \/ \E p \in Conflict : Review(p)
  BY <1>3, <1>12 DEF Learn, Reject, Confirm, Attach, Detect, Review, Working, extensions
<1>13. CASE MeasureFails \/ \E m \in Mood : Measure(m)
  BY <1>3, <1>13 DEF MeasureFails, Measure, Then, extensions
<1>14. CASE \/ NoDecision \/ Skipped
            \/ \E p \in Conflict : Declare(p) \/ \E w \in Claim : Object(p, w) \/ Settle(p, w)
  BY <1>3, <1>14 DEF NoDecision, Skipped, Declare, Object, Settle, Deciding, Then
<1>15. CASE WriteSheet \/ NoIntake \/ SaveCore \/ SaveExtensions \/ Render \/ NextCycle
  BY <1>3, <1>15 DEF WriteSheet, NoIntake, SaveCore, SaveExtensions, Render, NextCycle, Then, extensions
<1>16. QED
  BY <1>4, <1>5, <1>6, <1>7, <1>8, <1>9, <1>10, <1>11, <1>12, <1>13, <1>14, <1>15 DEF Next

\* A package is taken in once for as long as it lies in the inbox, and once more for each kill
\* between the two saves of a cycle: whatever the size of the memory of ids, however many other
\* packages pass through it, and whether or not packages share an id.
THEOREM OnceInvariant == Spec => []OncePerStay
<1>1. Init => StayInv
  BY TypedAtFirst DEF Init, StayInv, Stay
<1>2. StayInv /\ [Next]_vars => StayInv'
  BY TypeStep, StayStep DEF StayInv
<1>3. StayInv => OncePerStay
  BY DEF StayInv, Stay, OncePerStay
<1>4. QED
  BY <1>1, <1>2, <1>3, PTL DEF Spec

-----------------------------------------------------------------------------
(***************************************************************************)
(* The sheet.  It weighs with two maps over all links, an objection with a *)
(* scan of the links of a claim: both come to the same.                    *)
(***************************************************************************)
LEMMA MapsAgree ==
  ASSUME NEW c
  PROVE  Mapped(c) = Scanned(c)
<1>1. (IF c \in DOMAIN SupportsMap THEN SupportsMap[c] ELSE 0) = SupportsOn(c)
  <2> DEFINE counted == {l \in links : Supporting(l) /\ ~Void(l)}
             on == {l \in counted : l.claim = c}
  <2>1. SupportsOn(c) = Cardinality(on)
    <3>1. on = {l \in links : l.claim = c /\ Supporting(l)
                             /\ ~(l.by \in Claim /\ status[l.by] \in Dead)}
      BY DEF Void
    <3>2. QED
      BY <3>1 DEF SupportsOn
  <2>2. CASE on = {}
    <3>1. c \notin DOMAIN SupportsMap
      BY <2>2 DEF SupportsMap
    <3>2. Cardinality(on) = 0
      BY <2>2, FS_EmptySet
    <3>3. QED
      BY <2>1, <3>1, <3>2
  <2>3. CASE on # {}
    <3>1. c \in {l.claim : l \in counted}
      BY <2>3
    <3>2. c \in DOMAIN SupportsMap /\ SupportsMap[c] = Cardinality(on)
      BY <3>1 DEF SupportsMap
    <3>3. QED
      BY <2>1, <3>2
  <2>4. QED
    BY <2>2, <2>3
<1>2. (IF c \in DOMAIN FamiliesMap THEN Cardinality(FamiliesMap[c]) ELSE 0)
        = Cardinality(SupporterFamilies(c))
  <2> DEFINE backing == {l \in links : l.claim = c /\ Supporting(l)}
             families == {From[l.by] : l \in {k \in links : Supporting(k) /\ k.claim = c /\ ~Void(k)}}
  <2>1. SupporterFamilies(c) = families
    <3>1. {k \in links : Supporting(k) /\ k.claim = c /\ ~Void(k)}
            = {k \in backing : k.by \in Claim /\ status[k.by] \notin Dead}
                \cup {k \in backing : k.by \notin Claim}
      BY DEF Void
    <3>2. SupporterFamilies(c)
            = {From[l.by] : l \in {k \in backing : k.by \in Claim /\ status[k.by] \notin Dead}
                                   \cup {k \in backing : k.by \notin Claim}}
      BY DEF SupporterFamilies
    <3>3. QED
      BY <3>1, <3>2
  <2>2. CASE backing = {}
    <3>1. c \notin DOMAIN FamiliesMap /\ families = {}
      BY <2>2 DEF FamiliesMap
    <3>2. QED
      BY <2>1, <3>1, FS_EmptySet
  <2>3. CASE backing # {}
    <3>1. c \in {l.claim : l \in {k \in links : Supporting(k)}}
      BY <2>3
    <3>2. c \in DOMAIN FamiliesMap /\ FamiliesMap[c] = families
      BY <3>1 DEF FamiliesMap
    <3>3. QED
      BY <2>1, <3>2
  <2>4. QED
    BY <2>2, <2>3
<1>3. QED
  BY <1>1, <1>2 DEF Mapped, Scanned

\* What speaks for the one speaks against the other.
LEMMA LeanTurns ==
  ASSUME NEW m, NEW n, \A i \in 1 .. 3 : m[i] \in Int /\ n[i] \in Int
  PROVE  Lean(m, n) = 1 <=> Lean(n, m) = -1
<1> DEFINE to == {Sign(m[i], n[i]) : i \in Axes(m, n)}
           fro == {Sign(n[i], m[i]) : i \in Axes(n, m)}
<1>1. Axes(m, n) = Axes(n, m)
  BY DEF Axes
<1>2. \A i \in Axes(m, n) : Sign(n[i], m[i]) = - Sign(m[i], n[i]) /\ Sign(m[i], n[i]) \in {1, -1}
  BY DEF Axes, Sign
<1>3. to = {1} <=> fro = {-1}
  <2>1. ASSUME to = {1} PROVE fro = {-1}
    <3>1. \A i \in Axes(n, m) : Sign(n[i], m[i]) = -1
      BY <1>1, <1>2, <2>1
    <3>2. Axes(n, m) # {}
      BY <1>1, <2>1
    <3>3. QED
      BY <3>1, <3>2
  <2>2. ASSUME fro = {-1} PROVE to = {1}
    <3>1. \A i \in Axes(m, n) : Sign(m[i], n[i]) = 1
      BY <1>1, <1>2, <2>2
    <3>2. Axes(m, n) # {}
      BY <1>1, <2>2
    <3>3. QED
      BY <3>1, <3>2
  <2>3. QED
    BY <2>1, <2>2
<1>4. Lean(m, n) = (IF to = {1} THEN 1 ELSE IF to = {-1} THEN -1 ELSE 0)
  BY DEF Lean
<1>5. Lean(n, m) = (IF fro = {1} THEN 1 ELSE IF fro = {-1} THEN -1 ELSE 0)
  BY DEF Lean
<1> HIDE DEF to, fro
<1>6. {1} # {-1}
  OBVIOUS
<1>7. QED
  BY <1>3, <1>4, <1>5, <1>6

LEMMA ScannedIsNumbers ==
  ASSUME TypeOK, NEW c \in Claim
  PROVE  \A i \in 1 .. 3 : Scanned(c)[i] \in Int
<1>1. \A S \in SUBSET links : IsFiniteSet(S) /\ Cardinality(S) \in Nat
  BY TypeParts, EvidenceAssumption, FS_Subset, FS_CardinalityType DEF CoreTyped
<1>2. SupportsOn(c) \in Nat
  BY <1>1 DEF SupportsOn
<1>3. Cardinality(SupporterFamilies(c)) \in Nat
  <2> DEFINE backing == {l \in links : l.claim = c /\ Supporting(l)}
             S == {k \in backing : k.by \in Claim /\ status[k.by] \notin Dead}
                    \cup {k \in backing : k.by \notin Claim}
             f == [l \in S |-> From[l.by]]
  <2>1. S \in SUBSET links
    OBVIOUS
  <2>2. SupporterFamilies(c) = {From[l.by] : l \in S}
    BY DEF SupporterFamilies
  <2> HIDE DEF S
  <2>3. f \in Surjection(S, SupporterFamilies(c))
    BY <2>2 DEF Surjection
  <2> HIDE DEF f
  <2>4. QED
    BY <1>1, <2>1, <2>3, FS_Surjection, FS_CardinalityType
<1>4. Weight[From[c]] \in Int
  <2>1. From[c] \in Source
    BY DEF Source
  <2>2. QED
    BY <2>1, EvidenceAssumption
<1>5. QED
  BY <1>2, <1>3, <1>4 DEF Scanned, Weighing

LEMMA ItemAgrees ==
  ASSUME TypeOK, NEW p \in Decidable
  PROVE  /\ Open(Item(p).conflict) /\ Item(p).favours \in Sides(Item(p).conflict)
         /\ ~Speaks(Item(p).conflict, Item(p).favours)
         /\ Speaks(Item(p).conflict, Other(Item(p).conflict, Item(p).favours))
<1> DEFINE a == Scanned(p[1])
           b == Scanned(p[2])
<1>1. p[1] \in Claim /\ p[2] \in Claim /\ p[1] # p[2] /\ Open(p) /\ Lean(a, b) # 0
  BY MapsAgree DEF Decidable, Conflict
<1>2. Lean(a, b) \in {1, -1, 0}
  BY DEF Lean
<1>3. \A i \in 1 .. 3 : a[i] \in Int /\ b[i] \in Int
  BY <1>1, ScannedIsNumbers
<1>4. Item(p).conflict = p /\ Item(p).favours = IF Lean(a, b) = 1 THEN p[1] ELSE p[2]
  BY MapsAgree DEF Item
<1>5. (Speaks(p, p[1]) <=> Lean(a, b) = -1) /\ (Speaks(p, p[2]) <=> Lean(b, a) = -1)
  BY <1>1 DEF Speaks, Other
<1>6. (Lean(a, b) = 1 <=> Lean(b, a) = -1) /\ (Lean(b, a) = 1 <=> Lean(a, b) = -1)
  <2> HIDE DEF a, b
  <2>1. QED
    BY <1>3, LeanTurns
<1>7. Other(p, p[1]) = p[2] /\ Other(p, p[2]) = p[1]
  BY <1>1 DEF Other
<1> HIDE DEF a, b
<1>8. ASSUME NEW w \in Sides(p), Item(p).favours = w, ~Speaks(p, w), Speaks(p, Other(p, w))
      PROVE  /\ Open(Item(p).conflict) /\ Item(p).favours \in Sides(Item(p).conflict)
             /\ ~Speaks(Item(p).conflict, Item(p).favours)
             /\ Speaks(Item(p).conflict, Other(Item(p).conflict, Item(p).favours))
  BY <1>1, <1>4, <1>8
<1>9. CASE Lean(a, b) = 1
  <2>1. Item(p).favours = p[1] /\ ~Speaks(p, p[1]) /\ Speaks(p, p[2])
    <3>1. 1 # -1
      OBVIOUS
    <3>2. QED
      BY <1>4, <1>5, <1>6, <1>9, <3>1
  <2>2. QED
    BY <1>7, <1>8, <2>1 DEF Sides
<1>10. CASE Lean(a, b) = -1
  <2>1. Item(p).favours = p[2] /\ ~Speaks(p, p[2]) /\ Speaks(p, p[1])
    <3>1. 1 # -1
      OBVIOUS
    <3>2. QED
      BY <1>4, <1>5, <1>6, <1>10, <3>1
  <2>2. QED
    BY <1>7, <1>8, <2>1 DEF Sides
<1>11. QED
  BY <1>1, <1>2, <1>9, <1>10

LEMMA SheetStep == TypeOK /\ SheetAgrees /\ [Next]_vars => SheetAgrees'
<1> SUFFICES ASSUME TypeOK, SheetAgrees, [Next]_vars PROVE SheetAgrees'
  OBVIOUS
<1>1. CASE pc' # "inbox"
  BY <1>1 DEF SheetAgrees
<1>2. CASE UNCHANGED vars
  BY <1>2 DEF vars, core, pages, SheetAgrees, Open, Speaks, Scanned, Weighing, SupportsOn,
              SupporterFamilies
<1>3. CASE WriteSheet
  <2>1. UNCHANGED core
    BY <1>3 DEF WriteSheet
  <2>2. \A p, w : Open(p)' = Open(p) /\ Speaks(p, w)' = Speaks(p, w)
    BY <2>1 DEF core, Open, Speaks, Scanned, Weighing, SupportsOn, SupporterFamilies
  <2>3. ASSUME NEW i \in sheet' PROVE \E p \in Decidable : i = Item(p)
    BY <1>3, <2>3 DEF WriteSheet
  <2>4. QED
    BY <2>2, <2>3, ItemAgrees DEF SheetAgrees
<1>4. CASE \/ \E c \in Claim : Learn(c) \/ Reject(c) \/ Confirm(c)
           \/ \E l \in Linkable : Attach(l)
           \/ Detect \/ \E p \in Conflict : Review(p)
  BY <1>1, <1>4 DEF Learn, Reject, Confirm, Attach, Detect, Review, Working
<1>5. CASE MeasureFails \/ \E m \in Mood : Measure(m)
  BY <1>1, <1>5 DEF MeasureFails, Measure, Then
<1>6. CASE \/ NoDecision \/ Skipped
           \/ \E p \in Conflict : Declare(p) \/ \E w \in Claim : Object(p, w) \/ Settle(p, w)
  BY <1>1, <1>6 DEF NoDecision, Skipped, Declare, Object, Settle, Deciding, Then
<1>7. CASE NoIntake \/ ReadInbox \/ Trim
  BY <1>1, <1>7 DEF NoIntake, ReadInbox, Trim, Then
<1>8. CASE \E q \in Package : Skip(q) \/ TakeIn(q) \/ Deliver(q) \/ Clear(q)
  BY <1>1, <1>8 DEF Skip, TakeIn, Deliver, Clear
<1>9. CASE SaveCore \/ SaveExtensions \/ Killed \/ Render \/ NextCycle
  BY <1>1, <1>9 DEF SaveCore, SaveExtensions, Killed, Render, NextCycle, Then
<1>10. QED
  BY <1>2, <1>3, <1>4, <1>5, <1>6, <1>7, <1>8, <1>9 DEF Next

\* Whatever the links, the sources and the length of the sheet: no objection speaks against
\* the side a line of the sheet is for, and one speaks against the other side.
THEOREM SheetInvariant == Spec => []SheetAgrees
<1>1. Init => SheetAgrees
  BY DEF Init, SheetAgrees
<1>2. QED
  BY <1>1, TypedAtFirst, TypeStep, SheetStep, PTL DEF Spec

-----------------------------------------------------------------------------
(***************************************************************************)
(* The map.                                                                *)
(***************************************************************************)
Alive == {c \in Claim : status[c] \notin Dead \cup {"unborn"}}

\* What the map counts and what it leaves out add up, however long the tail of the dead is.
LEMMA CountsAddUp ==
  Cardinality(Included) + (Cardinality(Given) - Cardinality(Tailed))
    = Cardinality({c \in Claim : status[c] # "unborn"})
<1>1. \A S \in SUBSET Claim : IsFiniteSet(S) /\ Cardinality(S) \in Nat
  BY EvidenceAssumption, FS_Subset, FS_CardinalityType
<1>2. Alive \in SUBSET Claim /\ Given \in SUBSET Claim /\ Tailed \in SUBSET Given
  BY DEF Alive, Given, Tailed
<1>3. Alive \cap Given = {} /\ Alive \cap Tailed = {}
  BY <1>2 DEF Alive, Given
<1>4. Included = Alive \cup Tailed /\ {c \in Claim : status[c] # "unborn"} = Alive \cup Given
  BY DEF Included, Alive, Given, Dead
<1>5. ASSUME NEW S \in SUBSET Claim, Alive \cap S = {}
      PROVE  Cardinality(Alive \cup S) = Cardinality(Alive) + Cardinality(S)
  <2>1. Cardinality(Alive \cap S) = 0
    BY <1>5, FS_EmptySet
  <2>2. /\ IsFiniteSet(Alive) /\ IsFiniteSet(S)
        /\ Cardinality(Alive) \in Nat /\ Cardinality(S) \in Nat
    BY <1>1, <1>2
  <2>3. Cardinality(Alive \cup S)
          = Cardinality(Alive) + Cardinality(S) - Cardinality(Alive \cap S)
    BY <2>2, FS_Union
  <2>4. QED
    BY <2>1, <2>2, <2>3
<1>6. /\ Cardinality(Included) = Cardinality(Alive) + Cardinality(Tailed)
      /\ Cardinality({c \in Claim : status[c] # "unborn"}) = Cardinality(Alive) + Cardinality(Given)
  BY <1>2, <1>3, <1>4, <1>5
<1>7. Cardinality(Alive) \in Nat /\ Cardinality(Tailed) \in Nat /\ Cardinality(Given) \in Nat
  BY <1>1, <1>2
<1>8. QED
  BY <1>6, <1>7

LEMMA MapStep == MapIsWhole /\ [Next]_vars => MapIsWhole'
<1> SUFFICES ASSUME MapIsWhole, [Next]_vars PROVE MapIsWhole'
  OBVIOUS
<1>1. CASE pc' # "shown"
  BY <1>1 DEF MapIsWhole
<1>2. CASE UNCHANGED vars
  BY <1>2 DEF vars, core, pages, MapIsWhole
<1>3. CASE Render
  <2>1. UNCHANGED <<status, links>>
    BY <1>3 DEF Render, core
  <2>2. /\ map'.claims = Included /\ map'.links = {l \in links : l.claim \in Included}
        /\ map'.omitted = Cardinality(Given) - Cardinality(Tailed)
    BY <1>3 DEF Render
  <2>3. Alive \subseteq Included
    BY DEF Included, Alive
  <2>4. \A c \in Claim : status[c] \notin Dead \cup {"unborn"} => c \in map'.claims
    BY <2>2, <2>3 DEF Alive
  <2>5. \A l \in links : l \in map'.links <=> l.claim \in map'.claims
    BY <2>2
  <2>6. Cardinality(map'.claims) + map'.omitted = Cardinality({c \in Claim : status[c] # "unborn"})
    BY <2>2, CountsAddUp
  <2>7. QED
    BY <2>1, <2>4, <2>5, <2>6 DEF MapIsWhole
<1>4. CASE \/ \E c \in Claim : Learn(c) \/ Reject(c) \/ Confirm(c)
           \/ \E l \in Linkable : Attach(l)
           \/ Detect \/ \E p \in Conflict : Review(p)
  BY <1>1, <1>4 DEF Learn, Reject, Confirm, Attach, Detect, Review, Working
<1>5. CASE MeasureFails \/ \E m \in Mood : Measure(m)
  BY <1>1, <1>5 DEF MeasureFails, Measure, Then
<1>6. CASE \/ NoDecision \/ Skipped
           \/ \E p \in Conflict : Declare(p) \/ \E w \in Claim : Object(p, w) \/ Settle(p, w)
  BY <1>1, <1>6 DEF NoDecision, Skipped, Declare, Object, Settle, Deciding, Then
<1>7. CASE WriteSheet \/ NoIntake \/ ReadInbox \/ Trim
  BY <1>1, <1>7 DEF WriteSheet, NoIntake, ReadInbox, Trim, Then
<1>8. CASE \E q \in Package : Skip(q) \/ TakeIn(q) \/ Deliver(q) \/ Clear(q)
  BY <1>1, <1>8 DEF Skip, TakeIn, Deliver, Clear
<1>9. CASE SaveCore \/ SaveExtensions \/ Killed \/ NextCycle
  BY <1>1, <1>9 DEF SaveCore, SaveExtensions, Killed, NextCycle, Then
<1>10. QED
  BY <1>2, <1>3, <1>4, <1>5, <1>6, <1>7, <1>8, <1>9 DEF Next

\* Whatever there is of claims and links, and whatever the tail of the dead: the map shows all
\* that stands with its links, and what it shows and what it says it leaves out is all there is.
THEOREM MapInvariant == Spec => []MapIsWhole
<1>1. Init => MapIsWhole
  BY DEF Init, MapIsWhole
<1>2. QED
  BY <1>1, MapStep, PTL DEF Spec
=============================================================================
