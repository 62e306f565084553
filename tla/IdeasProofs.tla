------------------------------ MODULE IdeasProofs ------------------------------
(***************************************************************************)
(* What holds of the life of claims and ideas for every finite set of      *)
(* claims, all texts, offers and limits: what was given up stays so under  *)
(* its id, what stands keeps its supporters, and what was given up does    *)
(* not stand again by being said again.                                    *)
(***************************************************************************)
EXTENDS Ideas, FiniteSetTheorems, WellFoundedInduction, TLAPS

-----------------------------------------------------------------------------
(***************************************************************************)
(* Choices that are determined step by step, in the order of the ids: each *)
(* exists, by the least id at which it would not.                          *)
(***************************************************************************)
LEMMA LeastNatural ==
  ASSUME NEW T \in SUBSET Nat, T # {}
  PROVE  \E n \in T : \A m \in T : n <= m
<1>1. IsWellFoundedOn(OpToRel(<, Nat), Nat)
  BY NatLessThanWellFounded
<1>2. PICK n \in T : \A m \in T : ~(<<m, n>> \in OpToRel(<, Nat))
  BY <1>1, WFMin
<1>3. ASSUME NEW m \in T PROVE n <= m
  <2>1. ~(m < n)
    BY <1>2 DEF OpToRel
  <2>2. QED
    BY <2>1
<1>4. QED
  BY <1>3

\* A finite set of numbers has an element with as many below it as one likes.
LEMMA NthExists ==
  ASSUME NEW T \in SUBSET Nat, IsFiniteSet(T), NEW k \in Nat, k < Cardinality(T)
  PROVE  \E d \in T : Cardinality({e \in T : e < d}) = k
<1> DEFINE Nth(d, n) == d \in T /\ Cardinality({e \in T : e < d}) = n
           Missing == {n \in Nat : n < Cardinality(T) /\ ~\E d \in T : Nth(d, n)}
<1>1. Cardinality(T) \in Nat
  BY FS_CardinalityType
<1>2. SUFFICES ASSUME k \in Missing PROVE FALSE
  OBVIOUS
<1>3. PICK n \in Missing : \A m \in Missing : n <= m
  BY <1>2, LeastNatural
<1>4. n # 0
  <2>1. SUFFICES ASSUME n = 0 PROVE FALSE
    OBVIOUS
  <2>2. T # {}
    BY <1>3, <2>1, FS_EmptySet
  <2>3. PICK d \in T : \A e \in T : d <= e
    BY <2>2, LeastNatural
  <2>4. {e \in T : e < d} = {}
    <3>1. \A e \in T : ~(e < d)
      BY <2>3
    <3>2. QED
      BY <3>1
  <2>5. Nth(d, 0)
    BY <2>4, FS_EmptySet
  <2>6. QED
    BY <1>3, <2>1, <2>5
<1>5. n - 1 \in Nat /\ n - 1 < Cardinality(T) /\ n - 1 \notin Missing
  BY <1>1, <1>3, <1>4
<1>6. PICK d \in T : Nth(d, n - 1)
  BY <1>5
<1> DEFINE low == {e \in T : e < d}
           high == {e \in T : d < e}
<1>7. IsFiniteSet(low) /\ Cardinality(low) = n - 1 /\ d \notin low
  BY <1>6, FS_Subset
<1>8. IsFiniteSet(low \cup {d}) /\ Cardinality(low \cup {d}) = n
  <2>1. n \in Nat
    BY <1>3
  <2>2. IsFiniteSet(low \cup {d}) /\ Cardinality(low \cup {d}) = (n - 1) + 1
    BY <1>7, FS_AddElement
  <2>3. QED
    BY <2>1, <2>2
<1>9. high # {}
  <2>1. SUFFICES ASSUME high = {} PROVE FALSE
    OBVIOUS
  <2>2. T = low \cup {d}
    <3>1. \A e \in T : e < d \/ e = d
      BY <2>1
    <3>2. QED
      BY <3>1
  <2>3. QED
    BY <1>3, <1>8, <2>2
<1>10. PICK x \in high : \A y \in high : x <= y
  BY <1>9, LeastNatural
<1>11. {e \in T : e < x} = low \cup {d}
  <2>1. d < x /\ x \in T
    BY <1>10
  <2>2. \A e \in T : e < x <=> (e < d \/ e = d)
    BY <1>10, <2>1
  <2>3. QED
    BY <2>2
<1>12. Nth(x, n)
  BY <1>8, <1>10, <1>11
<1>13. QED
  BY <1>3, <1>12

LEMMA Bounded ==
  ASSUME NEW T \in SUBSET Nat, IsFiniteSet(T)
  PROVE  \E n \in Nat : \A c \in T : c < n
<1>1. CASE T = {}
  BY <1>1
<1>2. CASE T # {}
  <2>1. Cardinality(T) \in Nat /\ Cardinality(T) # 0
    BY <1>2, FS_CardinalityType, FS_EmptySet
  <2>2. PICK d \in T : Cardinality({e \in T : e < d}) = Cardinality(T) - 1
    BY <2>1, NthExists
  <2> DEFINE low == {e \in T : e < d}
  <2>3. IsFiniteSet(low) /\ d \notin low
    BY FS_Subset
  <2>4. Cardinality(low \cup {d}) = Cardinality(T)
    <3>1. Cardinality(low \cup {d}) = (Cardinality(T) - 1) + 1
      BY <2>2, <2>3, FS_AddElement
    <3>2. QED
      BY <2>1, <3>1
  <2>5. low \cup {d} = T
    BY <2>4, FS_Subset
  <2>6. \A c \in T : c < d + 1
    BY <2>5
  <2>7. QED
    BY <2>6
<1>3. QED
  BY <1>1, <1>2

\* What a pass over topics sheds: of the claims whose turn has come, those without support then.
LEMMA ShedExists ==
  ASSUME IdeasAssumption, NEW junk \in SUBSET Claim
  PROVE  /\ Shed(junk) \subseteq junk
         /\ \A c \in Shed(junk) : Support(c) \subseteq Shed(junk)
<1> DEFINE Below(S, c) == {d \in S : d < c}
           Goes(S, c) == Support(c) \subseteq Below(S, c) /\ Cardinality(Below(S, c)) < MaxShed
           Until(S, n) == /\ S \in SUBSET {c \in junk : c < n}
                          /\ \A c \in junk : c < n => (c \in S <=> Goes(S, c))
           Missing == {n \in Nat : ~\E S : Until(S, n)}
<1>1. junk \subseteq Nat /\ IsFiniteSet(junk)
  BY FS_Subset DEF IdeasAssumption
<1>2. Missing = {}
  <2>1. SUFFICES ASSUME Missing # {} PROVE FALSE
    OBVIOUS
  <2>2. PICK n \in Missing : \A m \in Missing : n <= m
    <3>1. Missing \in SUBSET Nat
      OBVIOUS
    <3> HIDE DEF Missing
    <3>2. QED
      BY <2>1, <3>1, LeastNatural
  <2>3. n \in Nat /\ ~\E S : Until(S, n)
    OBVIOUS
  <2>4. n # 0
    <3>1. \A c \in junk : ~(c < 0)
      BY <1>1
    <3>2. Until({}, 0)
      BY <3>1
    <3>3. SUFFICES ASSUME n = 0 PROVE FALSE
      OBVIOUS
    <3>4. ~\E S : Until(S, 0)
      BY <2>3, <3>3
    <3> HIDE DEF Until
    <3>5. QED
      BY <3>2, <3>4
  <2>5. n - 1 \in Nat /\ n - 1 \notin Missing
    <3>1. n - 1 \in Nat /\ ~(n <= n - 1)
      BY <2>3, <2>4
    <3> HIDE DEF Missing
    <3>2. QED
      BY <2>2, <3>1
  <2>6. PICK S : Until(S, n - 1)
    <3> HIDE DEF Until
    <3>1. QED
      BY <2>5
  <2> DEFINE x == n - 1
             R == IF x \in junk /\ Goes(S, x) THEN S \cup {x} ELSE S
  <2>7. \A c \in junk : c < n => c < x \/ c = x
    BY <1>1, <2>3
  <2>8. ASSUME NEW c \in junk, c <= x PROVE Below(R, c) = Below(S, c)
    BY <1>1, <2>5, <2>8
  <2>9. x \notin S
    BY <2>5, <2>6
  <2>10. R \in SUBSET {c \in junk : c < n}
    <3>1. \A c \in S : c \in junk /\ c < n
      BY <1>1, <2>3, <2>6
    <3>2. x < n
      BY <2>3
    <3>3. QED
      BY <3>1, <3>2
  <2>11. ASSUME NEW c \in junk, c < n PROVE c \in R <=> Goes(R, c)
    <3>1. CASE c < x
      <4>1. c \in R <=> c \in S
        BY <1>1, <2>5, <3>1
      <4>2. Below(R, c) = Below(S, c)
        BY <1>1, <2>5, <2>8, <3>1
      <4>3. c \in S <=> Goes(S, c)
        BY <2>6, <3>1
      <4>4. QED
        BY <4>1, <4>2, <4>3
    <3>2. CASE c = x
      <4>1. Below(R, c) = Below(S, c)
        BY <2>5, <2>8, <3>2
      <4>2. c \in R <=> Goes(S, x)
        BY <2>9, <3>2
      <4>3. QED
        BY <3>2, <4>1, <4>2
    <3>3. QED
      BY <2>7, <2>11, <3>1, <3>2
  <2>12. Until(R, n)
    BY <2>10, <2>11
  <2> HIDE DEF Until, R, x
  <2>13. QED
    BY <2>3, <2>12
<1>3. PICK n \in Nat : \A c \in junk : c < n
  BY <1>1, Bounded
<1>4. PICK S : Until(S, n)
  <2>1. n \notin Missing
    BY <1>2
  <2> HIDE DEF Until
  <2>2. QED
    BY <2>1
<1>5. S \in SUBSET junk /\ \A c \in junk : c \in S <=> Goes(S, c)
  BY <1>3, <1>4
<1>6. /\ Shed(junk) \in SUBSET junk
      /\ \A c \in junk : c \in Shed(junk) <=> Goes(Shed(junk), c)
  BY <1>5 DEF Shed
<1>7. QED
  BY <1>6

-----------------------------------------------------------------------------
(***************************************************************************)
(* The types, and what still waits to be attended in a cycle.              *)
(***************************************************************************)
Record ==
  [status : {"none", "candidate", "active", "contested", "rejected", "superseded"},
   text : Text \cup Idea \cup {"none"}, topic : {"none", "real", "junk", "sink"},
   source : STRING \cup {"none", "joni"}, from : SUBSET Claim]

TypeOK == claim \in [Claim -> Record] /\ todo \in Seq(Claim)

Standing == {"active", "contested"}

AttendedAreLive ==
  pc = "attend" =>
    \A i \in DOMAIN todo : claim[todo[i]].status \in Standing \cup {"candidate"}

IdeasInv == TypeOK /\ AttendedAreLive

-----------------------------------------------------------------------------
(***************************************************************************)
(* What every step keeps to.                                               *)
(***************************************************************************)
DeadStay == \A c \in Dead : claim'[c] = claim[c]

\* An idea that has risen.
Risen(h) ==
  /\ claim[h].status = "candidate" /\ claim'[h].status = "active"
  /\ claim'[h].text = claim[h].text
  /\ h \in coherent \/ Cardinality(Families(h, links')) >= 2

\* An id that says what nobody has given up, or what somebody says who stands.
Minted(c) ==
  \/ \A d \in Dead : claim[d].text # claim'[c].text
  \/ \E m \in Claim : claim[m].status \in Standing /\ claim[m].text = claim'[c].text

StandLawfully ==
  \A c \in Claim : claim'[c].status \in Standing =>
    \/ claim[c].status \in Standing /\ claim'[c].text = claim[c].text
    \/ Risen(c)
    \/ Minted(c)

ShedFairly ==
  \A c \in Claim : claim[c].status # "rejected" /\ claim'[c].status = "rejected" =>
    \A d \in Support(c) : claim'[d].status \in {"rejected", "superseded"}

Lawful == DeadStay /\ StandLawfully /\ ShedFairly

Restated(r, status) == [r EXCEPT !.status = status]

LEMMA Restating ==
  ASSUME NEW r \in Record, NEW status \in {"active", "contested", "rejected", "superseded"}
  PROVE  /\ Restated(r, status) \in Record
         /\ Restated(r, status).status = status
         /\ Restated(r, status).text = r.text
BY DEF Record, Restated

LEMMA GivenKeeps ==
  ASSUME TypeOK, NEW S \in SUBSET Claim, NEW status \in {"active", "rejected"}
  PROVE  /\ Given(S, status) \in [Claim -> Record]
         /\ \A c \in Claim : Given(S, status)[c].text = claim[c].text
         /\ \A c \in S : Given(S, status)[c].status = status
         /\ \A c \in Claim \ S : Given(S, status)[c] = claim[c]
<1>1. \A c \in S : Given(S, status)[c] = Restated(claim[c], status)
  BY DEF Given, Restated
<1>2. \A c \in Claim \ S : Given(S, status)[c] = claim[c]
  BY DEF Given
<1>3. \A c \in S : LET g == Given(S, status)[c]
                   IN  g \in Record /\ g.status = status /\ g.text = claim[c].text
  <2>1. SUFFICES ASSUME NEW c \in S
                 PROVE  LET g == Given(S, status)[c]
                        IN  g \in Record /\ g.status = status /\ g.text = claim[c].text
    OBVIOUS
  <2>2. claim[c] \in Record /\ status \in {"active", "contested", "rejected", "superseded"}
    BY DEF TypeOK
  <2>3. QED
    BY <1>1, <2>2, Restating
<1>4. \A c \in Claim : Given(S, status)[c] \in Record
  BY <1>2, <1>3 DEF TypeOK
<1>5. Given(S, status) = [c \in Claim |-> Given(S, status)[c]]
  BY DEF Given
<1>6. QED
  BY <1>2, <1>3, <1>4, <1>5

LEMMA UnchangedIsLawful ==
  ASSUME TypeOK, claim' = claim
  PROVE  Lawful
BY DEF TypeOK, Record, Lawful, DeadStay, StandLawfully, ShedFairly, Dead, Having

\* The ids that are to be used next are free.
LEMMA FreshIsFree ==
  ASSUME IdeasAssumption, Having({"none"}) # {}
  PROVE  Fresh \in Having({"none"})
<1>1. Having({"none"}) \in SUBSET Nat
  BY DEF Having, IdeasAssumption
<1>2. \E c \in Having({"none"}) : \A d \in Having({"none"}) : c <= d
  BY <1>1, LeastNatural
<1>3. QED
  BY <1>2 DEF Fresh

\* A new claim or idea disturbs nobody.
LEMMA MintingIsLawful ==
  ASSUME TypeOK, NEW f \in Having({"none"}),
         NEW r \in Record, r.status \in {"candidate", "active"},
         r.status = "active" => \A d \in Dead : claim[d].text # r.text,
         claim' = [claim EXCEPT ![f] = r], todo' \in Seq(Claim)
  PROVE  Lawful /\ TypeOK'
<1>1. f \in Claim /\ claim[f].status = "none" /\ f \notin Dead
  BY DEF Having, Dead
<1>2. claim'[f] = r /\ \A c \in Claim \ {f} : claim'[c] = claim[c]
  BY <1>1 DEF TypeOK, Record
<1>3. TypeOK'
  BY <1>1 DEF TypeOK, Record
<1>4. DeadStay
  BY <1>1, <1>2 DEF DeadStay, Dead, Having
<1>5. StandLawfully
  BY <1>2 DEF StandLawfully, Minted, Standing
<1>6. ShedFairly
  BY <1>2 DEF ShedFairly
<1>7. QED
  BY <1>3, <1>4, <1>5, <1>6 DEF Lawful

\* A pass that sheds what nothing supports but what it sheds with it.
LEMMA SheddingIsLawful ==
  ASSUME TypeOK, NEW S \in SUBSET (Claim \ Dead), \A c \in S : Support(c) \subseteq S,
         claim' = Given(S, "rejected"), todo' \in Seq(Claim)
  PROVE  Lawful /\ TypeOK'
<1>1. \A c \in Claim \ S : claim'[c] = claim[c]
  BY GivenKeeps
<1>2. \A c \in S : claim'[c].status = "rejected" /\ claim'[c].text = claim[c].text
  BY GivenKeeps
<1>3. TypeOK'
  BY GivenKeeps DEF TypeOK, Record
<1>4. DeadStay
  BY <1>1 DEF DeadStay, Dead, Having
<1>5. StandLawfully
  BY <1>1, <1>2 DEF StandLawfully, Standing
<1>6. ShedFairly
  BY <1>1, <1>2 DEF ShedFairly
<1>7. QED
  BY <1>3, <1>4, <1>5, <1>6 DEF Lawful

\* A conflict that is opened contests what stands; it gives nothing up.
LEMMA ContestedKeeps ==
  ASSUME TypeOK, NEW after
  PROVE  /\ Contested(after) \in [Claim -> Record]
         /\ \A c \in Claim :
              LET s == Contested(after)[c]
              IN  /\ s.text = claim[c].text
                  /\ \/ s = claim[c]
                     \/ claim[c].status = "active" /\ s.status = "contested"
<1> DEFINE hit == UNION {p \in Pairs : conflict[p] = "none" /\ IsOpen(after[p])}
           s(c) == IF c \in hit \cap Live THEN [claim[c] EXCEPT !.status = "contested"]
                   ELSE claim[c]
<1>1. Contested(after) = [c \in Claim |-> s(c)]
  BY DEF Contested
<1> HIDE DEF hit
<1>2. ASSUME NEW c \in Claim
      PROVE  /\ s(c) \in Record /\ s(c).text = claim[c].text
             /\ \/ s(c) = claim[c]
                \/ claim[c].status = "active" /\ s(c).status = "contested"
  <2>1. claim[c] \in Record
    BY DEF TypeOK
  <2>2. CASE c \in hit \cap Live
    <3>1. s(c) = Restated(claim[c], "contested") /\ claim[c].status = "active"
      BY <2>2 DEF Live, Having, Restated
    <3> HIDE DEF s
    <3>2. QED
      BY <2>1, <3>1, Restating
  <2>3. CASE c \notin hit \cap Live
    <3>1. s(c) = claim[c]
      BY <2>3
    <3> HIDE DEF s
    <3>2. QED
      BY <2>1, <3>1
  <2>4. QED
    BY <2>2, <2>3
<1>3. QED
  <2> HIDE DEF s
  <2>1. QED
    BY <1>1, <1>2

LEMMA ContestingIsLawful ==
  ASSUME TypeOK, NEW after, claim' = Contested(after), todo' \in Seq(Claim)
  PROVE  Lawful /\ TypeOK'
<1>1. /\ claim' \in [Claim -> Record]
      /\ \A c \in Claim : /\ claim'[c].text = claim[c].text
                          /\ \/ claim'[c] = claim[c]
                             \/ claim[c].status = "active" /\ claim'[c].status = "contested"
  BY ContestedKeeps
<1>2. \A c \in Claim : /\ claim'[c].text = claim[c].text
                       /\ claim'[c].status \in {claim[c].status, "contested"}
  BY <1>1
<1>3. TypeOK'
  BY <1>1 DEF TypeOK, Record
<1>4. DeadStay
  BY <1>1 DEF DeadStay, Dead, Having, TypeOK
<1>5. StandLawfully
  BY <1>1, <1>2 DEF StandLawfully, Standing
<1>6. ShedFairly
  BY <1>2 DEF ShedFairly
<1>7. QED
  BY <1>3, <1>4, <1>5, <1>6 DEF Lawful

-----------------------------------------------------------------------------
(***************************************************************************)
(* The actions.                                                            *)
(***************************************************************************)
LEMMA LearnIsLawful ==
  ASSUME IdeasAssumption, TypeOK, NEW item \in Offer, Learn(item)
  PROVE  Lawful /\ TypeOK'
<1> DEFINE twins == {c \in Dead : claim[c].text = item.text}
<1>1. /\ item.text \in Text /\ item.topic \in {"real", "junk", "sink"} /\ item.source \in STRING
  BY DEF IdeasAssumption
<1>2. First(twins, 1) \in SUBSET Claim
  BY DEF First, Dead, Having
<1>3. Learned(item) = [status |-> IF twins = {} THEN "active" ELSE "candidate", text |-> item.text,
                       topic |-> item.topic, source |-> item.source, from |-> First(twins, 1)]
  BY DEF Learned
<1>4. Learned(item) \in Record /\ Learned(item).status \in {"candidate", "active"}
  <2> HIDE DEF twins
  <2>1. QED
    BY <1>1, <1>2, <1>3 DEF Record
<1>5. Learned(item).status = "active" => \A d \in Dead : claim[d].text # Learned(item).text
  BY <1>3
<1>6. QED
  BY <1>4, <1>5, FreshIsFree, MintingIsLawful DEF Learn, attention, TypeOK

LEMMA InventIsLawful ==
  ASSUME IdeasAssumption, TypeOK, NEW i \in Idea, NEW topic \in Topics, NEW parents \in SUBSET Claim,
         Invent(i, topic, parents)
  PROVE  Lawful /\ TypeOK'
<1> DEFINE r == [status |-> "candidate", text |-> i, topic |-> topic, source |-> "joni",
                 from |-> parents]
<1>1. r \in Record
  <2>1. topic \in {"real", "junk", "sink"}
    BY DEF IdeasAssumption
  <2>2. QED
    BY <2>1 DEF Record
<1>2. r.status = "candidate"
  OBVIOUS
<1>3. claim' = [claim EXCEPT ![Fresh] = r] /\ Having({"none"}) # {} /\ todo' = todo
  BY DEF Invent, attention
<1> HIDE DEF r
<1>4. QED
  BY <1>1, <1>2, <1>3, FreshIsFree, MintingIsLawful DEF TypeOK

LEMMA ChooseIsLawful ==
  ASSUME IdeasAssumption, TypeOK, Choose
  PROVE  Lawful /\ TypeOK' /\ AttendedAreLive'
<1> DEFINE n == IF Cardinality(Reflected) < MaxHyp THEN Cardinality(Reflected) ELSE MaxHyp
<1>1. Reflected \subseteq Claim /\ \A h \in Reflected : claim[h].status = "candidate"
  BY DEF Reflected, Hypotheses, Having
<1>2. n \in Nat
  BY <1>1, FS_Subset, FS_CardinalityType DEF IdeasAssumption
<1>3. todo' \in [1..n -> Reflected] /\ claim' = claim
  BY DEF Choose, Chosen
<1> HIDE DEF n
<1>4. todo' \in Seq(Claim) /\ DOMAIN todo' = 1..n
  BY <1>1, <1>2, <1>3
<1>5. AttendedAreLive'
  BY <1>1, <1>3, <1>4 DEF AttendedAreLive
<1>6. QED
  BY <1>3, <1>4, <1>5, UnchangedIsLawful DEF TypeOK

\* What is needed to rise is two sources, or three.
LEMMA TwoAtLeast ==
  ASSUME IdeasAssumption, NEW h \in Claim, NEW supports,
         Cardinality(Families(h, supports)) >= Needed(h)
  PROVE  Cardinality(Families(h, supports)) >= 2
<1> DEFINE S == {d \in Claim \ Dead : <<h, d>> \in supports}
<1>1. IsFiniteSet(S)
  BY FS_Subset DEF IdeasAssumption
<1>2. Families(h, supports) = {claim[c].source : c \in S}
  BY DEF Families
<1>3. IsFiniteSet({claim[c].source : c \in S})
  <2> DEFINE f == [c \in S |-> claim[c].source]
             T == {claim[c].source : c \in S}
  <2>1. f \in Surjection(S, T)
    BY DEF Surjection
  <2> HIDE DEF f, T, S
  <2>2. IsFiniteSet(T)
    BY <1>1, <2>1, FS_Surjection
  <2>3. QED
    BY <2>2 DEF T
<1>4. Cardinality(Families(h, supports)) \in Nat
  BY <1>2, <1>3, FS_CardinalityType
<1>5. QED
  BY <1>4 DEF Needed

LEMMA AttendIsLawful ==
  ASSUME IdeasAssumption, IdeasInv, pc = "attend", todo # <<>>,
         NEW verdict \in [Asked(Head(todo)) -> Verdicts], Attend(verdict)
  PROVE  Lawful /\ TypeOK' /\ AttendedAreLive'
<1> DEFINE h == Head(todo)
           before == Contested(conflict')
<1>1. h \in Claim /\ h = todo[1] /\ 1 \in DOMAIN todo
  BY DEF IdeasInv, TypeOK
<1>2. claim[h].status \in Standing \cup {"candidate"}
  BY <1>1 DEF IdeasInv, AttendedAreLive
<1>3. /\ before \in [Claim -> Record]
      /\ \A c \in Claim :
           /\ before[c].text = claim[c].text
           /\ \/ before[c] = claim[c]
              \/ claim[c].status = "active" /\ before[c].status = "contested"
  BY ContestedKeeps DEF IdeasInv
<1>4. /\ todo' \in Seq(Claim)
      /\ \A i \in DOMAIN todo' : i + 1 \in DOMAIN todo /\ todo'[i] = todo[i + 1]
  BY DEF Attend, IdeasInv, TypeOK
<1>5. CASE ~Rises(h, links', conflict')
  <2>1. claim' = before
    BY <1>5 DEF Attend
  <2>2. Lawful /\ TypeOK'
    BY <1>4, <2>1, ContestingIsLawful DEF IdeasInv
  <2>3. AttendedAreLive'
    BY <1>3, <1>4, <2>1 DEF IdeasInv, AttendedAreLive, Standing, TypeOK
  <2>4. QED
    BY <2>2, <2>3
<1>6. CASE Rises(h, links', conflict')
  <2>1. claim' = [before EXCEPT ![h].status = "active"]
    BY <1>6 DEF Attend
  <2> HIDE DEF h, before
  <2>2. \A c \in Claim \ {h} : claim'[c] = before[c]
    BY <1>3, <2>1
  <2>3. claim'[h] \in Record /\ claim'[h].status = "active" /\ claim'[h].text = claim[h].text
    <3>1. claim'[h] = Restated(before[h], "active") /\ before[h] \in Record
      BY <1>1, <1>3, <2>1 DEF Restated
    <3>2. QED
      BY <1>1, <1>3, <3>1, Restating
  <2>4. TypeOK'
    BY <1>1, <1>3, <1>4, <2>1, <2>3 DEF TypeOK
  <2>5. DeadStay
    BY <1>2, <1>3, <2>2 DEF DeadStay, Dead, Having, Standing
  <2>6. claim[h].status = "candidate" => Risen(h)
    BY <1>1, <1>6, <2>3, TwoAtLeast DEF Rises, Risen
  <2>7. StandLawfully
    BY <1>2, <1>3, <2>2, <2>3, <2>6 DEF StandLawfully, Standing
  <2>8. ShedFairly
    BY <1>3, <2>2, <2>3 DEF ShedFairly
  <2>9. AttendedAreLive'
    <3>1. \A c \in Claim : claim[c].status \in Standing \cup {"candidate"}
                             => claim'[c].status \in Standing \cup {"candidate"}
      BY <1>3, <2>2, <2>3 DEF Standing
    <3>2. QED
      BY <1>4, <3>1 DEF IdeasInv, AttendedAreLive, TypeOK
  <2>10. QED
    BY <2>4, <2>5, <2>7, <2>8, <2>9 DEF Lawful
<1>7. QED
  BY <1>5, <1>6

LEMMA RegulateIsLawful ==
  ASSUME TypeOK, Regulate
  PROVE  Lawful /\ TypeOK'
<1> DEFINE S == DeadIdeas \cup BeyondCap(Hypotheses \ DeadIdeas)
<1>1. \A c \in S : c \in Hypotheses /\ Support(c) = {}
  BY DEF DeadIdeas, BeyondCap, First
<1>2. S \in SUBSET (Claim \ Dead)
  BY <1>1 DEF Hypotheses, Dead, Having
<1> HIDE DEF S
<1>3. claim' = Given(S, "rejected") /\ todo' = todo
  BY DEF Regulate, S, attention
<1>4. QED
  BY <1>1, <1>2, <1>3, SheddingIsLawful DEF TypeOK

LEMMA ShedTopicsIsLawful ==
  ASSUME IdeasAssumption, TypeOK, NEW junk \in SUBSET Claim, ShedTopics(junk)
  PROVE  Lawful /\ TypeOK'
<1>1. junk \in SUBSET (Claim \ Dead)
  BY DEF ShedTopics, Live, Dead, Having
<1>2. Shed(junk) \in SUBSET (Claim \ Dead) /\ \A c \in Shed(junk) : Support(c) \subseteq Shed(junk)
  BY <1>1, ShedExists
<1>3. claim' = Given(Shed(junk), "rejected") /\ todo' = todo
  BY DEF ShedTopics, attention
<1>4. QED
  BY <1>2, <1>3, SheddingIsLawful DEF TypeOK

LEMMA ShedTriflesIsLawful ==
  ASSUME TypeOK, ShedTrifles
  PROVE  Lawful /\ TypeOK'
<1> DEFINE S == First({h \in Hypotheses : claim[h].text \in Trifles /\ Support(h) = {}}, MaxShed)
<1>1. \A c \in S : c \in Hypotheses /\ Support(c) = {}
  BY DEF First
<1>2. S \in SUBSET (Claim \ Dead)
  BY <1>1 DEF Hypotheses, Dead, Having
<1> HIDE DEF S
<1>3. claim' = Given(S, "rejected") /\ todo' = todo
  BY DEF ShedTrifles, S, attention
<1>4. QED
  BY <1>1, <1>2, <1>3, SheddingIsLawful DEF TypeOK

LEMMA TolerateIsLawful ==
  ASSUME TypeOK, Tolerate
  PROVE  Lawful /\ TypeOK'
<1> DEFINE false == {p \in Pairs : IsOpen(conflict[p]) /\ \A c \in p : claim[c].topic = "sink"}
           freed == {c \in (UNION false) \cap Having({"contested"}) :
                       \A p \in Pairs : c \in p /\ IsOpen(conflict[p]) => p \in false}
<1>1. claim' = Given(freed, "active") /\ todo' = todo
  BY DEF Tolerate, attention
<1>2. freed \in SUBSET Claim /\ \A c \in freed : claim[c].status = "contested"
  BY DEF Having
<1> HIDE DEF freed
<1>3. /\ claim' \in [Claim -> Record]
      /\ \A c \in Claim : claim'[c].text = claim[c].text
      /\ \A c \in freed : claim'[c].status = "active"
      /\ \A c \in Claim \ freed : claim'[c] = claim[c]
  BY <1>1, <1>2, GivenKeeps
<1>4. TypeOK'
  BY <1>1, <1>3 DEF TypeOK, Record
<1>5. DeadStay
  BY <1>2, <1>3 DEF DeadStay, Dead, Having
<1>6. StandLawfully
  BY <1>2, <1>3 DEF StandLawfully, Standing
<1>7. ShedFairly
  BY <1>3 DEF ShedFairly
<1>8. QED
  BY <1>4, <1>5, <1>6, <1>7 DEF Lawful

\* There is a free id for every claim that moves.
LEMMA HeirExists ==
  ASSUME IdeasAssumption, NEW S \in SUBSET Claim, NEW free \in SUBSET Claim,
         NEW m \in First(S, Cardinality(free))
  PROVE  \E d \in free : Cardinality({e \in free : e < d})
                           = Cardinality({e \in First(S, Cardinality(free)) : e < m})
<1> DEFINE n == Cardinality(free)
           lower == {e \in S : e < m}
           lowest == {e \in First(S, n) : e < m}
<1>1. IsFiniteSet(free) /\ n \in Nat
  BY FS_Subset, FS_CardinalityType DEF IdeasAssumption
<1>2. IsFiniteSet(lower) /\ Cardinality(lower) \in Nat /\ Cardinality(lower) < n
  BY FS_Subset, FS_CardinalityType DEF IdeasAssumption, First
<1>3. lowest \in SUBSET lower
  BY DEF First
<1>4. Cardinality(lowest) \in Nat /\ Cardinality(lowest) <= Cardinality(lower)
  <2> HIDE DEF lowest, lower
  <2>1. QED
    BY <1>2, <1>3, FS_Subset, FS_CardinalityType
<1>5. free \in SUBSET Nat
  BY DEF IdeasAssumption
<1> HIDE DEF lowest, lower
<1>6. Cardinality(lowest) < Cardinality(free)
  BY <1>1, <1>2, <1>4
<1>7. \E d \in free : Cardinality({e \in free : e < d}) = Cardinality(lowest)
  BY <1>1, <1>4, <1>5, <1>6, NthExists
<1>8. QED
  BY <1>7 DEF lowest

LEMMA RefileIsLawful ==
  ASSUME IdeasAssumption, TypeOK, Refile
  PROVE  Lawful /\ TypeOK'
<1> DEFINE stock == {c \in Live : claim[c].topic = "sink"}
           named == {c \in stock : RealTopic /\ claim[c].text \in Routed}
           free == Having({"none"})
           few == First(named, MaxRefile)
           moved == First(few, Cardinality(free))
           gone == {c \in stock \ named : Support(c) = {}}
           nth(S, x) == Cardinality({d \in S : d < x})
           heir(c) == CHOOSE d \in free : nth(free, d) = nth(moved, c)
           source(c) == CHOOSE x \in moved : c = heir(x)
           moving(m) == [claim[m] EXCEPT !.topic = "real", !.from = {m}]
<1>1. /\ todo' = todo
      /\ claim' = [c \in Claim |->
           IF c \in moved THEN [claim[c] EXCEPT !.status = "superseded"]
           ELSE IF c \in gone THEN [claim[c] EXCEPT !.status = "rejected"]
           ELSE IF \E m \in moved : c = heir(m) THEN moving(source(c))
           ELSE claim[c]]
  BY DEF Refile
<1>2. /\ few \in SUBSET Claim /\ free \in SUBSET Claim
      /\ \A c \in moved \cup gone : c \in Claim /\ claim[c].status = "active"
      /\ \A c \in gone : Support(c) = {}
      /\ \A c \in free : claim[c].status = "none"
  BY DEF First, Live, Having
<1>3. ASSUME NEW m \in moved PROVE heir(m) \in free
  <2>1. \E d \in free : nth(free, d) = nth(moved, m)
    BY <1>2, HeirExists
  <2> HIDE DEF moved, free, nth
  <2>2. QED
    BY <2>1
<1>4. ASSUME NEW m \in Claim
      PROVE  /\ claim[m] \in Record
             /\ moving(m) \in Record /\ moving(m).text = claim[m].text
             /\ moving(m).status = claim[m].status
  <2>1. claim[m] \in Record
    BY DEF TypeOK
  <2>2. QED
    BY <2>1 DEF Record
<1> HIDE DEF moved, gone, free, heir, moving, few
<1>5. \A c \in moved : claim'[c] \in Record /\ claim'[c].status = "superseded"
  <2>1. \A c \in moved : claim[c] \in Record /\ claim'[c] = Restated(claim[c], "superseded")
    BY <1>1, <1>2, <1>4 DEF Restated
  <2>2. QED
    BY <2>1, Restating
<1>6. \A c \in gone \ moved : claim'[c] \in Record /\ claim'[c].status = "rejected"
  <2>1. \A c \in gone \ moved : claim[c] \in Record /\ claim'[c] = Restated(claim[c], "rejected")
    BY <1>1, <1>2, <1>4 DEF Restated
  <2>2. QED
    BY <2>1, Restating
<1>7. ASSUME NEW c \in Claim, c \notin moved \cup gone, claim'[c] # claim[c]
      PROVE  /\ claim[c].status = "none" /\ claim'[c] \in Record
             /\ claim'[c].status = "active"
             /\ \E m \in Claim : claim[m].status = "active" /\ claim[m].text = claim'[c].text
  <2>1. (\E m \in moved : c = heir(m)) /\ claim'[c] = moving(source(c))
    BY <1>1, <1>7
  <2>2. source(c) \in moved /\ c = heir(source(c))
    BY <2>1
  <2> HIDE DEF source
  <2>3. claim[c].status = "none"
    BY <1>2, <1>3, <2>2
  <2>4. QED
    BY <1>2, <1>4, <2>1, <2>2, <2>3
<1>8. TypeOK'
  <2>1. \A c \in Claim : claim'[c] \in Record
    BY <1>4, <1>5, <1>6, <1>7
  <2>2. claim' = [c \in Claim |-> claim'[c]]
    BY <1>1
  <2>3. claim' \in [Claim -> Record]
    BY <2>1, <2>2
  <2>4. QED
    BY <1>1, <2>3 DEF TypeOK, Record
<1>9. DeadStay
  BY <1>2, <1>7 DEF DeadStay, Dead, Having
<1>10. StandLawfully
  BY <1>5, <1>6, <1>7 DEF StandLawfully, Minted, Standing
<1>11. ShedFairly
  BY <1>2, <1>5, <1>7 DEF ShedFairly
<1>12. QED
  BY <1>8, <1>9, <1>10, <1>11 DEF Lawful

-----------------------------------------------------------------------------
(***************************************************************************)
(* The invariant, and what follows for the properties.                     *)
(***************************************************************************)
LEMMA StepIsLawful ==
  ASSUME IdeasAssumption, IdeasInv, [Next]_vars
  PROVE  Lawful /\ IdeasInv'
<1>1. TypeOK
  BY DEF IdeasInv
<1>2. ASSUME NEW item \in Offer, Learn(item) PROVE Lawful /\ IdeasInv'
  <2>1. pc' # "attend"
    BY <1>2 DEF Learn
  <2>2. QED
    BY <1>1, <1>2, <2>1, LearnIsLawful DEF IdeasInv, AttendedAreLive
<1>3. CASE Detect
  <2>1. PICK after : claim' = Contested(after)
    BY <1>3 DEF Detect
  <2>2. todo' = todo /\ pc' # "attend"
    BY <1>3 DEF Detect, Then, attention
  <2>3. QED
    BY <1>1, <2>1, <2>2, ContestingIsLawful DEF IdeasInv, AttendedAreLive, TypeOK
<1>4. ASSUME NEW a \in Claim, NEW b \in Claim, NEW v \in Verdicts, Develop(a, b, v)
      PROVE  Lawful /\ IdeasInv'
  <2>1. claim' = Contested(conflict')
    BY <1>4 DEF Develop
  <2>2. todo' = todo /\ pc' # "attend"
    BY <1>4 DEF Develop, Then, attention
  <2>3. QED
    BY <1>1, <2>1, <2>2, ContestingIsLawful DEF IdeasInv, AttendedAreLive, TypeOK
<1>5. ASSUME NEW i \in Idea, NEW topic \in Topics, NEW parents \in SUBSET Claim,
             Invent(i, topic, parents)
      PROVE  Lawful /\ IdeasInv'
  <2>1. pc' # "attend"
    BY <1>5 DEF Invent, Then
  <2>2. QED
    BY <1>1, <1>5, <2>1, InventIsLawful DEF IdeasInv, AttendedAreLive
<1>6. CASE Undeveloped \/ Uninspired \/ \E found \in SUBSET Claim : Assess(found)
  <2>1. claim' = claim /\ todo' = todo /\ pc' # "attend"
    BY <1>6 DEF Undeveloped, Uninspired, Assess, Then, attention
  <2>2. QED
    BY <1>1, <2>1, UnchangedIsLawful DEF IdeasInv, AttendedAreLive, TypeOK
<1>7. CASE Choose
  BY <1>1, <1>7, ChooseIsLawful DEF IdeasInv
<1>8. CASE todo # <<>> /\ \E verdict \in [Asked(Head(todo)) -> Verdicts] : Attend(verdict)
  <2>1. PICK verdict \in [Asked(Head(todo)) -> Verdicts] : Attend(verdict)
    BY <1>8
  <2>2. pc = "attend"
    BY <2>1 DEF Attend
  <2>3. QED
    BY <1>8, <2>1, <2>2, AttendIsLawful DEF IdeasInv
<1>9. CASE Attended
  <2>1. claim' = claim /\ todo' = todo /\ pc' # "attend"
    BY <1>9 DEF Attended, Then, attention
  <2>2. QED
    BY <1>1, <2>1, UnchangedIsLawful DEF IdeasInv, AttendedAreLive, TypeOK
<1>10. CASE Regulate
  <2>1. pc' # "attend"
    BY <1>10 DEF Regulate, Then
  <2>2. QED
    BY <1>1, <1>10, <2>1, RegulateIsLawful DEF IdeasInv, AttendedAreLive
<1>11. ASSUME NEW junk \in SUBSET Claim, ShedTopics(junk) PROVE Lawful /\ IdeasInv'
  <2>1. pc' # "attend"
    BY <1>11 DEF ShedTopics, Then
  <2>2. QED
    BY <1>1, <1>11, <2>1, ShedTopicsIsLawful DEF IdeasInv, AttendedAreLive
<1>12. CASE Refile
  <2>1. pc' # "attend"
    BY <1>12 DEF Refile, Then
  <2>2. QED
    BY <1>1, <1>12, <2>1, RefileIsLawful DEF IdeasInv, AttendedAreLive
<1>13. CASE ShedTrifles
  <2>1. pc' # "attend"
    BY <1>13 DEF ShedTrifles, Then
  <2>2. QED
    BY <1>1, <1>13, <2>1, ShedTriflesIsLawful DEF IdeasInv, AttendedAreLive
<1>14. CASE Tolerate
  <2>1. pc' # "attend"
    BY <1>14 DEF Tolerate, Then
  <2>2. QED
    BY <1>1, <1>14, <2>1, TolerateIsLawful DEF IdeasInv, AttendedAreLive
<1>15. CASE UNCHANGED vars
  BY <1>1, <1>15, UnchangedIsLawful DEF vars, attention, IdeasInv, AttendedAreLive, TypeOK
<1>16. QED
  BY <1>2, <1>3, <1>4, <1>5, <1>6, <1>7, <1>8, <1>9, <1>10, <1>11, <1>12, <1>13, <1>14, <1>15
     DEF Next

LEMMA InitHolds ==
  ASSUME Init
  PROVE  IdeasInv
BY DEF Init, IdeasInv, TypeOK, AttendedAreLive, Record, Unminted

\* Every id keeps its shape, and what still waits to be attended in a cycle is an idea or has
\* risen meanwhile: no pass between choosing and attending gives it up.
THEOREM IdeasInvariant == IdeasAssumption => (Spec => []IdeasInv)
<1> SUFFICES ASSUME IdeasAssumption PROVE Spec => []IdeasInv
  OBVIOUS
<1>1. Init => IdeasInv
  BY InitHolds
<1>2. IdeasInv /\ [Next]_vars => IdeasInv'
  BY StepIsLawful
<1>3. QED
  BY <1>1, <1>2, PTL DEF Spec

\* An id that was rejected or superseded keeps its record for good: what comes back comes under
\* a new id.
THEOREM GivenUpForGood == IdeasAssumption => (Spec => [][DeadStay]_vars)
<1> SUFFICES ASSUME IdeasAssumption PROVE Spec => [][DeadStay]_vars
  OBVIOUS
<1>1. IdeasInv /\ [Next]_vars => [DeadStay]_vars
  BY StepIsLawful DEF Lawful
<1>2. QED
  BY <1>1, IdeasInvariant, PTL DEF Spec

\* No pass gives up a claim or an idea that anything standing supports: whoever supported it was
\* given up before, or goes with it.
THEOREM SupportIsKept == IdeasAssumption => (Spec => SupportKeepsAlive)
<1> SUFFICES ASSUME IdeasAssumption PROVE Spec => SupportKeepsAlive
  OBVIOUS
<1> DEFINE Kept ==
      \A c, d \in Claim :
        claim[c].status # "rejected" /\ claim'[c].status = "rejected" /\ <<c, d>> \in links
          => claim'[d].status \in {"rejected", "superseded"}
<1>1. IdeasInv /\ [Next]_vars => [Kept]_vars
  <2>1. SUFFICES ASSUME IdeasInv, [Next]_vars, NEW c \in Claim, NEW d \in Claim,
                        claim[c].status # "rejected", claim'[c].status = "rejected",
                        <<c, d>> \in links
                 PROVE  claim'[d].status \in {"rejected", "superseded"}
    OBVIOUS
  <2>2. Lawful
    BY <2>1, StepIsLawful
  <2>3. CASE d \in Dead
    BY <2>2, <2>3 DEF Lawful, DeadStay, Dead, Having
  <2>4. CASE d \notin Dead
    <3>1. d \in Support(c)
      BY <2>1, <2>4 DEF Support
    <3>2. QED
      BY <2>1, <2>2, <3>1 DEF Lawful, ShedFairly
  <2>5. QED
    BY <2>3, <2>4
<1>2. QED
  BY <1>1, IdeasInvariant, PTL DEF Spec, SupportKeepsAlive

\* What was given up does not stand again because it is said again, filed anew or invented: it
\* has risen, on two sources or on its coherence.
THEOREM NothingReturnsSilently == IdeasAssumption => (Spec => NoSilentReturn)
<1> SUFFICES ASSUME IdeasAssumption PROVE Spec => NoSilentReturn
  OBVIOUS
<1> DEFINE Earned ==
      \A t \in Text : GivenUp(t) /\ Stands(t)'
        => \E h \in Claim : /\ claim[h].text = t /\ claim[h].status = "candidate"
                            /\ claim'[h].status = "active"
                            /\ h \in coherent \/ Cardinality(Families(h, links')) >= 2
<1>1. IdeasInv /\ [Next]_vars => [Earned]_vars
  <2>1. SUFFICES ASSUME IdeasInv, [Next]_vars, NEW t \in Text, GivenUp(t), Stands(t)'
                 PROVE  \E h \in Claim : claim[h].text = t /\ Risen(h)
    BY DEF Risen
  <2>2. Lawful
    BY <2>1, StepIsLawful
  <2>3. PICK c \in Claim : claim'[c].text = t /\ claim'[c].status \in Standing
    BY <2>1 DEF Stands, Standing
  <2>4. \A m \in Claim : ~(claim[m].text = t /\ claim[m].status \in Standing)
    BY <2>1 DEF GivenUp, Stands, Standing
  <2>5. ~Minted(c)
    BY <2>1, <2>3, <2>4 DEF GivenUp, Minted
  <2>6. Risen(c)
    BY <2>2, <2>3, <2>4, <2>5 DEF Lawful, StandLawfully
  <2>7. QED
    BY <2>3, <2>6 DEF Risen
<1>2. QED
  BY <1>1, IdeasInvariant, PTL DEF Spec, NoSilentReturn
=============================================================================
