------------------------- MODULE ConflictResolution -------------------------
(***************************************************************************)
(* How a contradiction is settled (src/joni/autonomy/conflict_resolution). *)
(* The operator pastes decisions into a drop box; once per cycle they are  *)
(* read, carried out line by line through the gate, and the box is         *)
(* emptied.  Before that, in the same cycle, the other passes learn,       *)
(* conjecture, open conflicts, promote and retire.  The core and the       *)
(* bookkeeping of objections are saved one after the other at the end; a   *)
(* cycle that dies before that leaves the emptied box and the old core.    *)
(*                                                                         *)
(* The gate refuses an illegal transition without raising, and no caller   *)
(* here looks at its answer: a refused step is a step that changes         *)
(* nothing.                                                                *)
(***************************************************************************)
EXTENDS Naturals, Sequences, FiniteSets

CONSTANTS
  Claim,       \* claims the sources bring
  Hypothesis,  \* conjectures of the program's own
  Conflict,    \* contradictions there may be
  Sides,       \* the two sides of each
  Hard,        \* the conflicts that would be opened as hard ones
  Nobody,      \* no claim
  MaxApply,    \* decisions carried out in one cycle, max_apply
  MaxLines     \* bound on the lines in the drop box

Thesis == Claim \cup Hypothesis

ASSUME SidesAssumption ==
  /\ Claim \cap Hypothesis = {} /\ Nobody \notin Thesis
  /\ Sides \in [Conflict -> SUBSET Thesis]
  /\ \A x \in Conflict : \E a, b \in Thesis : a # b /\ Sides[x] = {a, b}

ASSUME LimitsAssumption ==
  /\ Hard \subseteq Conflict
  /\ MaxApply \in Nat \ {0} /\ MaxLines \in Nat

VARIABLES
  status,     \* of each claim
  stage,      \* of each conflict
  winner,     \* its resolution
  objection,  \* the winner a pending objection is about
  core,       \* disk: status, stage and winner as last saved
  raised,     \* disk: the objections as last saved
  box,        \* disk: the lines of the drop box
  twice,      \* history: the conflicts that some paste has named twice
  pc,         \* where the cycle is
  lines,      \* the lines this cycle has read and is not through with
  applied,    \* how many of those before them it carried out
  seen        \* status and live conflicts as the pass found them

memory == <<status, stage, winner>>
pasted == <<box, twice>>
disk == <<core, raised, pasted>>
pass == <<lines, applied, seen>>
vars ==
  <<status, stage, winner, objection, core, raised, box, twice, pc, lines, applied, seen>>

Status == {"unborn", "candidate", "active", "contested", "rejected", "superseded",
           "refiled"}  \* superseded by a copy under another topic
Stage == {"unopened", "open", "under_review", "resolved", "tolerated"}

\* 'keiner': the operator says that there is no contradiction.
Line == [conflict: Conflict, winner: Thesis \cup {Nobody}]

Live == {x \in Conflict : stage[x] \in {"open", "under_review"}}

Working == {c \in Thesis : status[c] = "active"}

Core == [status |-> status, stage |-> stage, winner |-> winner]

NothingSeen == [status |-> [c \in Thesis |-> "unborn"], live |-> {}]

(***************************************************************************)
(* What the gate does with the operations of this component.               *)
(***************************************************************************)
Contest(st, cs) ==
  [c \in Thesis |-> IF c \in cs /\ st[c] = "active" THEN "contested" ELSE st[c]]

Activate(st, cs) ==
  [c \in Thesis |-> IF c \in cs /\ st[c] \in {"candidate", "contested"} THEN "active" ELSE st[c]]

Supersede(st, cs) ==
  [c \in Thesis |-> IF c \in cs /\ st[c] \in {"active", "contested"} THEN "superseded" ELSE st[c]]

Move(x, from, to, w) ==
  IF stage[x] \in from
    THEN stage' = [stage EXCEPT ![x] = to] /\ winner' = [winner EXCEPT ![x] = w]
    ELSE UNCHANGED <<stage, winner>>

Resolve(x, w) == Move(x, {"open", "under_review", "tolerated"}, "resolved", w)
CloseAsSpurious(x) == Move(x, {"open", "under_review"}, "tolerated", Nobody)

\* Fault: the conflict that is being closed counts too.
OtherOrSame(c, x) == \E y \in Live : c \in Sides[y]

\* Some other live conflict keeps the claim contested.
OtherOpen(c, x) == \E y \in Live \ {x} : c \in Sides[y]

\* Of some sides of x, those to revive: contested as far as the pass knows, and by x alone.
Revivable(known, cs, x) == {c \in cs : known[c] = "contested" /\ ~OtherOpen(c, x)}

(***************************************************************************)
(* The passes before the drop box is read.                                 *)
(***************************************************************************)
Init ==
  /\ status = [c \in Thesis |-> "unborn"]
  /\ stage = [x \in Conflict |-> "unopened"]
  /\ winner = [x \in Conflict |-> Nobody]
  /\ objection = [x \in Conflict |-> Nobody]
  /\ core = Core /\ raised = objection
  /\ box = <<>> /\ twice = {} /\ pc = "down"
  /\ lines = <<>> /\ applied = 0 /\ seen = NothingSeen

\* A cycle starts from what is saved, which is what memory holds in this model.
Begin ==
  /\ pc = "down"
  /\ pc' = "passes"
  /\ UNCHANGED <<memory, objection, disk, pass>>

InPasses == pc = "passes" /\ UNCHANGED <<objection, disk, pc, pass>>

\* A source's claim works at once, a conjecture has to earn it.
Learn(c) ==
  /\ InPasses /\ c \in Claim /\ status[c] = "unborn"
  /\ status' = [status EXCEPT ![c] = "active"]
  /\ UNCHANGED <<stage, winner>>

Hypothesize(h) ==
  /\ InPasses /\ h \in Hypothesis /\ status[h] = "unborn"
  /\ status' = [status EXCEPT ![h] = "candidate"]
  /\ UNCHANGED <<stage, winner>>

\* One conflict per pair, ever; its sides become contested if they were working.
Open(xs) ==
  /\ \A x \in xs : stage[x] = "unopened"
  /\ stage' = [x \in Conflict |-> IF x \in xs THEN "open" ELSE stage[x]]
  /\ status' = Contest(status, UNION {Sides[x] : x \in xs})
  /\ UNCHANGED winner

\* Contradictions among the working claims, all found in one sweep.
Detect ==
  /\ InPasses
  /\ \E xs \in SUBSET {x \in Conflict : Sides[x] \subseteq Working} \ {{}} : Open(xs)

\* A conjecture, or a claim just learned, is found to contradict one that worked when the
\* pass began: another conflict of the same pass may have contested it since.
Challenge(x) ==
  /\ InPasses
  /\ \E c \in Sides[x] : /\ status[c] \in {"candidate", "active"}
                        /\ \A d \in Sides[x] \ {c} : status[d] \in {"active", "contested"}
  /\ Open({x})

Review(x) ==
  /\ InPasses /\ stage[x] = "open"
  /\ stage' = [stage EXCEPT ![x] = "under_review"]
  /\ UNCHANGED <<status, winner>>

\* Fault: only conflicts nobody looks at yet stand in the way of a promotion.
PromotableOnReview(h) ==
  status[h] = "candidate" /\ \A x \in Hard : stage[x] = "open" => h \notin Sides[x]

Promotable(h) == status[h] = "candidate" /\ \A x \in Live \cap Hard : h \notin Sides[x]

Promote(h) ==
  /\ InPasses /\ Promotable(h)
  /\ status' = Activate(status, {h})
  /\ UNCHANGED <<stage, winner>>

\* A conflict between claims that have no subject is closed without a decision.
Tolerate(x) ==
  /\ InPasses /\ x \in Live
  /\ CloseAsSpurious(x)
  /\ status' = Activate(status, Revivable(status, Sides[x], x))

\* A claim or conjecture that nothing supports is given up.
Retire(c) ==
  /\ InPasses /\ status[c] \in {"active", "candidate"}
  /\ status' = [status EXCEPT ![c] = "rejected"]
  /\ UNCHANGED <<stage, winner>>

\* A claim is filed under its subject: a copy takes its place.
Refile(c) ==
  /\ InPasses /\ status[c] = "active"
  /\ status' = [status EXCEPT ![c] = "refiled"]
  /\ UNCHANGED <<stage, winner>>

(***************************************************************************)
(* The drop box.                                                           *)
(***************************************************************************)
\* The operator knows the conflicts that a saved core holds, the closed ones too, and may write
\* one line after another about the same conflict.
Paste(l) ==
  /\ Len(box) < MaxLines
  /\ core.stage[l.conflict] # "unopened"
  /\ box' = Append(box, l)
  /\ twice' = twice \cup ({l.conflict} \cap {box[i].conflict : i \in 1..Len(box)})
  /\ UNCHANGED <<memory, objection, core, raised, pc, pass>>

NothingPasted ==
  /\ pc = "passes" /\ box = <<>>
  /\ pc' = "save"
  /\ UNCHANGED <<memory, objection, disk, pass>>

Read ==
  /\ pc = "passes" /\ box # <<>>
  /\ lines' = box /\ applied' = 0
  /\ seen' = [status |-> status, live |-> Live]
  /\ pc' = "lines"
  /\ UNCHANGED <<memory, objection, disk>>

Unread == pc = "lines" /\ lines # <<>> /\ applied < MaxApply

Current == Head(lines)

\* Fault: a closed conflict may be decided again.
DecidableAgain(l) ==
  stage[l.conflict] # "unopened" /\ l.winner \in Sides[l.conflict] \cup {Nobody}

\* The pass found the conflict live, and the winner is one of its sides.
Decidable(l) ==
  l.conflict \in seen.live /\ l.winner \in Sides[l.conflict] \cup {Nobody}

Skip ==
  /\ Unread /\ ~Decidable(Current)
  /\ lines' = Tail(lines)
  /\ UNCHANGED <<memory, objection, disk, pc, applied, seen>>

CarriedOut(x) ==
  /\ lines' = Tail(lines) /\ applied' = applied + 1
  /\ objection' = [objection EXCEPT ![x] = Nobody]
  /\ UNCHANGED <<disk, pc, seen>>

DeclareSpurious ==
  /\ Unread /\ Decidable(Current) /\ Current.winner = Nobody
  /\ LET x == Current.conflict
     IN  /\ CloseAsSpurious(x)
         /\ status' = Activate(status, Revivable(seen.status, Sides[x], x))
         /\ CarriedOut(x)

\* Fault: an objection to one winner confirms the other as well.
ConfirmedByAny(x, w) == objection[x] # Nobody

\* The operator has entered the decision again after an objection.
Confirmed(x, w) == objection[x] = w

\* The evidence leans to the losing side: the decision rests.
Object ==
  /\ Unread /\ Decidable(Current) /\ Current.winner # Nobody
  /\ ~Confirmed(Current.conflict, Current.winner)
  /\ objection' = [objection EXCEPT ![Current.conflict] = Current.winner]
  /\ lines' = Tail(lines)
  /\ UNCHANGED <<memory, disk, pc, applied, seen>>

Losers(x, w) == Sides[x] \ {w}

\* lean: the side the evidence is for, if any.
Settle(lean) ==
  /\ Unread /\ Decidable(Current) /\ Current.winner # Nobody
  /\ LET x == Current.conflict
         w == Current.winner
     IN  /\ lean \in Losers(x, w) => Confirmed(x, w)
         /\ Resolve(x, w)
         /\ status' = Activate(Supersede(status, Losers(x, w)),
                               Revivable(seen.status, {w}, x))
         /\ CarriedOut(x)

\* The box is emptied, of what was read and of what was not; so are the objections to
\* conflicts that are closed by now.
Empty ==
  /\ pc = "lines" /\ ~Unread
  /\ objection' = [x \in Conflict |-> IF x \in Live THEN objection[x] ELSE Nobody]
  /\ box' = <<>>
  /\ pc' = "save"
  /\ lines' = <<>> /\ applied' = 0 /\ seen' = NothingSeen
  /\ UNCHANGED <<memory, core, raised, twice>>

(***************************************************************************)
(* The end of the cycle.                                                   *)
(***************************************************************************)
SaveCore ==
  /\ pc = "save"
  /\ core' = Core
  /\ pc' = "objections"
  /\ UNCHANGED <<memory, objection, raised, pasted, pass>>

SaveObjections ==
  /\ pc = "objections"
  /\ raised' = objection
  /\ pc' = "down"
  /\ UNCHANGED <<memory, objection, core, pasted, pass>>

\* A kill anywhere: the next cycle starts from what the disk holds.
Crash ==
  /\ pc # "down"
  /\ status' = core.status /\ stage' = core.stage /\ winner' = core.winner
  /\ objection' = raised
  /\ lines' = <<>> /\ applied' = 0 /\ seen' = NothingSeen
  /\ pc' = "down"
  /\ UNCHANGED disk

Next ==
  \/ Begin \/ Detect \/ NothingPasted \/ Read
  \/ \E c \in Thesis : Learn(c) \/ Hypothesize(c) \/ Promote(c) \/ Retire(c) \/ Refile(c)
  \/ \E x \in Conflict : Challenge(x) \/ Review(x) \/ Tolerate(x)
  \/ \E l \in Line : Paste(l)
  \/ Skip \/ DeclareSpurious \/ Object
  \/ \E lean \in Thesis \cup {Nobody} : Settle(lean)
  \/ Empty \/ SaveCore \/ SaveObjections \/ Crash

Spec == Init /\ [][Next]_vars

-----------------------------------------------------------------------------
(***************************************************************************)
(* Properties.                                                             *)
(***************************************************************************)
Cores == [status: [Thesis -> Status], stage: [Conflict -> Stage],
          winner: [Conflict -> Thesis \cup {Nobody}]]

TypeOK ==
  /\ Core \in Cores /\ core \in Cores
  /\ objection \in [Conflict -> Thesis \cup {Nobody}]
  /\ raised \in [Conflict -> Thesis \cup {Nobody}]
  /\ \A x \in Conflict : {winner[x], objection[x], raised[x]} \subseteq Sides[x] \cup {Nobody}
  /\ box \in Seq(Line) /\ Len(box) <= MaxLines /\ twice \subseteq Conflict
  /\ lines \in Seq(Line) /\ Len(lines) <= MaxLines
  /\ applied \in 0..MaxApply
  /\ pc \in {"down", "passes", "lines", "save", "objections"}
  /\ seen \in [status: [Thesis -> Status], live: SUBSET Conflict]

\* A claim is contested only while a conflict about it is live: however the conflicts around
\* it are closed, in whatever order, nobody is left in limbo.
NobodyInLimbo ==
  \A c \in Thesis : status[c] = "contested" => \E x \in Live : c \in Sides[x]

\* No claim works on while a hard conflict about it is live: it is neither promoted nor
\* revived by the end of some other conflict.
HardConflictsHold ==
  \A x \in Live \cap Hard : \A c \in Sides[x] : status[c] # "active"

Gone == {"rejected", "superseded"}

\* What apply_decisions says of every side, conjectures included.
EveryLoserGone ==
  \A x \in Conflict : winner[x] # Nobody =>
    \A c \in Losers(x, winner[x]) : status[c] \in Gone

\* A claim is superseded only if it has lost a conflict or is a side of one that a paste
\* named twice: of two lines about one conflict both are carried out, on both sides.
WinnersStand ==
  \A c \in Thesis : status[c] = "superseded" =>
    \E y \in Conflict : c \in Sides[y] /\ (winner[y] \notin {c, Nobody} \/ y \in twice)

\* A decision against the evidence is carried out only if the objection to it was on the
\* disk before the cycle began, for the operator to see, or a paste named the conflict twice.
OverruledKnowingly ==
  [][\A x \in Conflict, lean \in Thesis :
       Settle(lean) /\ Current.conflict = x /\ lean \in Losers(x, Current.winner)
         => raised[x] = Current.winner \/ x \in twice]_vars
=============================================================================
