--------------------------------- MODULE Arms ---------------------------------
(***************************************************************************)
(* The arms of a cycle that pay for models, and their purse: budget.py,    *)
(* model_call.py, projection.py, escalation.py, kevin_llm.py, council.py,  *)
(* experts.py, in the order of run.one_cycle.                              *)
(*                                                                         *)
(* Each arm has its own rule for when it may spend: a model call asks the  *)
(* budget for room in this week and in this run, the circle asks whether   *)
(* the cap is reached, the panel whether the week has room for a round.    *)
(* What an arm remembers of its own spending (whom it asked, when) is in   *)
(* the extensions, which are saved at the end of the cycle; what it paid   *)
(* is in budget.json at once.  What the week really costs is more: charges *)
(* go with a commit that is dropped and with a job that is killed, and a   *)
(* call that raises may have been billed.  The history variable `bill`     *)
(* keeps that account, which no code does.                                 *)
(*                                                                         *)
(* Points are what an arm can ask about: open conflicts and ideas (methods *)
(* and hypotheses).  They are numbers, in the order of their keys: the key *)
(* of a conflict sorts before those of ideas, and earlier before later.    *)
(***************************************************************************)
EXTENDS Naturals, Sequences, FiniteSetsExt

CONSTANTS
  Conflict, Idea,                           \* what may be open, what may be proposed
  Cap,                                      \* the weekly cap
  CallCost, CouncilCost, PanelCost,         \* of a call, a voice of the circle, a round
  RunsPerWeek,
  Units,                                    \* passages projected in a cycle
  Seats, Followups,                         \* of the circle
  CouncilEvery, PanelEvery,                 \* cadences, in cycles
  Window,                                   \* rounds that escalation looks back on
  AskedMax,                                 \* keys the panel remembers
  MaxDropped, MaxUnbilled                   \* faults in a week, of either kind

ArmsAssumption ==
  /\ Conflict \subseteq Nat /\ Idea \subseteq Nat
  /\ \A c \in Conflict, i \in Idea : c < i
  /\ {Cap, CallCost, CouncilCost, PanelCost, Units, Followups, MaxDropped, MaxUnbilled}
       \subseteq Nat
  /\ {RunsPerWeek, Seats, CouncilEvery, PanelEvery, Window, AskedMax}
       \subseteq Nat \ {0}

VARIABLES
  pc,      \* the arm whose turn it is
  points,  \* the conflicts that are open and the ideas there are
  budget,  \* the purse in memory
  ext,     \* the arms' memory, in memory
  circle,  \* the conversation of the circle
  units,   \* passages projected so far
  disk,    \* budget.json and extensions.json in the checkout
  main,    \* the same at origin/main
  bill     \* what the week has cost, the losses of charges, the calls that failed billed

process == <<pc, budget, ext, circle, units>>
vars == <<process, points, disk, main, bill>>

Point == Conflict \cup Idea
Fresh == [spent |-> 0, runs |-> 0]
NoBill == [paid |-> 0, dropped |-> 0, unbilled |-> 0]
NotSitting == [round |-> 0, seat |-> 1, heard |-> FALSE]

\* Ages stop at the cadence: the arm is due.
NoMemory ==
  [asked |-> {}, panelAge |-> PanelEvery, councilAge |-> CouncilEvery,
   escalated |-> {}, rounds |-> <<>>]

Budget == [spent : 0..(Cap + CouncilCost), runs : 0..RunsPerWeek]
Memory ==
  [asked : SUBSET Point, panelAge : 0..PanelEvery, councilAge : 0..CouncilEvery,
   escalated : SUBSET Conflict,
   rounds : UNION {[1..n -> BOOLEAN] : n \in 0..Window}]

TypeOK ==
  /\ pc \in {"idle", "project", "escalate", "kevin", "council", "panel", "save", "push"}
  /\ points \subseteq Point
  /\ budget \in Budget /\ ext \in Memory
  /\ circle \in [round : 0..Followups, seat : 1..(Seats + 1), heard : BOOLEAN]
  /\ units \in 0..Units
  /\ \A tree \in {disk, main} : tree.budget \in Budget /\ tree.ext \in Memory
  /\ bill \in [paid : Nat, dropped : 0..MaxDropped, unbilled : 0..MaxUnbilled]

Init ==
  /\ pc = "idle" /\ points = {} /\ budget = Fresh /\ ext = NoMemory
  /\ circle = NotSitting /\ units = 0
  /\ disk = [budget |-> Fresh, ext |-> NoMemory] /\ main = disk
  /\ bill = NoBill

-----------------------------------------------------------------------------
(***************************************************************************)
(* The purse.                                                              *)
(***************************************************************************)

Remaining == IF budget.spent >= Cap THEN 0 ELSE Cap - budget.spent
RunsLeft == IF budget.runs >= RunsPerWeek THEN 1 ELSE RunsPerWeek - budget.runs

\* Room in the week, and in this run's even share of what remains.
CanSpend(amount) == amount * RunsLeft <= Remaining

OverBudget == budget.spent >= Cap

\* Counted, and written at once.
Charge(amount) ==
  /\ budget' = [budget EXCEPT !.spent = @ + amount]
  /\ disk' = [disk EXCEPT !.budget = budget']
  /\ bill' = [bill EXCEPT !.paid = @ + amount]

SpendNothing == UNCHANGED <<budget, disk, bill>>

\* The provider has worked for it and the answer does not arrive: nothing is counted.
BilledInVain ==
  /\ CanSpend(CallCost) /\ bill.unbilled < MaxUnbilled
  /\ bill' = [bill EXCEPT !.paid = @ + CallCost, !.unbilled = @ + 1]
  /\ UNCHANGED <<budget, disk>>

(***************************************************************************)
(* A model call.  Nothing comes back when there is no room and when the    *)
(* provider fails.  A recorded answer is replayed free of charge.  A paid  *)
(* answer may be empty, which is recorded as no answer.                    *)
(***************************************************************************)
Failed == SpendNothing \/ BilledInVain
Replayed == SpendNothing
Live == CanSpend(CallCost) /\ Charge(CallCost)

-----------------------------------------------------------------------------
(***************************************************************************)
(* A cycle begins: the files are read.                                     *)
(***************************************************************************)

Older(age, every) == IF age >= every THEN every ELSE age + 1

Aged(mem) ==
  [mem EXCEPT !.panelAge = Older(@, PanelEvery), !.councilAge = Older(@, CouncilEvery)]

OneMore(runs) == IF runs = RunsPerWeek THEN runs ELSE runs + 1

Begin ==
  /\ pc = "idle"
  /\ budget' = [disk.budget EXCEPT !.runs = OneMore(@)]
  /\ ext' = Aged(disk.ext)
  /\ circle' = NotSitting /\ units' = 0
  /\ pc' = "project"
  /\ UNCHANGED <<points, disk, main, bill>>

\* Seven days have passed: whichever purse is read next is replaced by an empty one, so both
\* are as good as empty from here on.
WeekIsOver ==
  /\ pc = "idle"
  /\ disk' = [disk EXCEPT !.budget = Fresh] /\ main' = [main EXCEPT !.budget = Fresh]
  /\ bill' = NoBill
  /\ UNCHANGED <<process, points>>

\* One passage of what was read, and what it leads to.
Project ==
  /\ pc = "project" /\ units < Units
  /\ Failed \/ Live
  /\ units' = units + 1
  /\ UNCHANGED <<pc, points, ext, circle, main>>

\* The contradictions that the reading has opened, and the ideas that were proposed.
Detect ==
  /\ pc = "project"
  /\ \E new \in SUBSET (Point \ points) : Cardinality(new) <= 1 /\ points' = points \cup new
  /\ pc' = "escalate"
  /\ UNCHANGED <<budget, ext, circle, units, disk, main, bill>>

-----------------------------------------------------------------------------
(***************************************************************************)
(* Escalation: at most one round, about the first conflict not escalated   *)
(* yet, or about thin coverage unless the last rounds all came to nothing. *)
(* A round is recorded with whether it brought claims.                     *)
(***************************************************************************)

NovelConflicts == (points \cap Conflict) \ ext.escalated

StandsDown == Len(ext.rounds) = Window /\ \A i \in 1..Window : ~ext.rounds[i]

Recorded(claims) ==
  IF Len(ext.rounds) < Window THEN Append(ext.rounds, claims)
  ELSE Append(Tail(ext.rounds), claims)

EscalateConflict ==
  /\ pc = "escalate" /\ NovelConflicts # {}
  /\ LET k == Min(NovelConflicts)
     IN  \/ Failed /\ ext' = ext
         \/ /\ Live \/ Replayed
            /\ \E claims \in BOOLEAN :
                 ext' = [ext EXCEPT !.escalated = @ \cup {k}, !.rounds = Recorded(claims)]
  /\ pc' = "kevin"
  /\ UNCHANGED <<points, circle, units, main>>

\* Coverage is thin, or something is underspecified; or no rule fires.
EscalateGap ==
  /\ pc = "escalate" /\ NovelConflicts = {}
  /\ \/ SpendNothing /\ ext' = ext
     \/ ~StandsDown /\ BilledInVain /\ ext' = ext
     \/ /\ ~StandsDown
        /\ Live \/ Replayed
        /\ \E claims \in BOOLEAN :
             ext' = [ext EXCEPT !.rounds = Recorded(claims)]
  /\ pc' = "kevin"
  /\ UNCHANGED <<points, circle, units, main>>

-----------------------------------------------------------------------------
\* Kevin: one creative call, if it is his turn and he is given something he has not had.  His own
\* memory decides nothing for the others and is left out.
Kevin ==
  /\ pc = "kevin"
  /\ \/ SpendNothing
     \/ points # {} /\ (BilledInVain \/ Live \/ Replayed)
  /\ pc' = "council"
  /\ UNCHANGED <<points, ext, circle, units, main>>

-----------------------------------------------------------------------------
(***************************************************************************)
(* The circle.  Each voice is paid, whether it answers or not; a further   *)
(* round follows one that has opened a contradiction.                      *)
(***************************************************************************)

SittingDue == ext.councilAge = CouncilEvery

\* Not due; or due, and the week's budget is spent or there is nothing to ask.
NoSitting ==
  /\ pc = "council" /\ circle = NotSitting
  /\ \/ ~SittingDue /\ ext' = ext
     \/ SittingDue /\ ext' = [ext EXCEPT !.councilAge = 0]
  /\ pc' = "panel"
  /\ UNCHANGED <<points, budget, circle, units, disk, main, bill>>

\* Fault: the cap is looked at before a round, not before a voice.
VoiceAllowedInRound == circle.seat > 1 \/ ~OverBudget

VoiceAllowed == ~OverBudget

Voice ==
  /\ pc = "council" /\ SittingDue
  /\ circle.seat <= Seats /\ VoiceAllowed
  /\ Charge(CouncilCost)
  /\ \E answered \in BOOLEAN :
       circle' = [circle EXCEPT !.seat = @ + 1, !.heard = @ \/ answered]
  /\ UNCHANGED <<pc, points, ext, units, main>>

RoundOver == circle # NotSitting /\ (circle.seat > Seats \/ ~VoiceAllowed)

\* The round was heard and has opened a contradiction.
FollowUp ==
  /\ pc = "council" /\ RoundOver /\ circle.heard /\ circle.round < Followups
  /\ VoiceAllowed
  /\ circle' = [round |-> circle.round + 1, seat |-> 1, heard |-> TRUE]
  /\ UNCHANGED <<pc, points, budget, ext, units, disk, main, bill>>

\* Without any answer the sitting leaves no mark.
Adjourn ==
  /\ pc = "council" /\ RoundOver
  /\ ext' = IF circle.heard THEN [ext EXCEPT !.councilAge = 0] ELSE ext
  /\ circle' = NotSitting
  /\ pc' = "panel"
  /\ UNCHANGED <<points, budget, units, disk, main, bill>>

-----------------------------------------------------------------------------
(***************************************************************************)
(* The panel: the first open conflict it has not assessed, else the newest *)
(* idea it has not.                                                        *)
(***************************************************************************)

Unasked == points \ ext.asked
Topic == IF Unasked \cap Conflict # {} THEN Min(Unasked \cap Conflict) ELSE Max(Unasked)

\* The keys remembered are the last ones in the order of keys, whenever they were asked.
Remembered(asked) == CHOOSE kept \in SUBSET asked :
                       /\ Cardinality(kept) = IF Cardinality(asked) > AskedMax THEN AskedMax
                                              ELSE Cardinality(asked)
                       /\ \A k \in kept, l \in asked \ kept : l < k

\* The billed calls were made, whether or not two assessors have answered.
Anchor(convened) == [ext EXCEPT !.asked = Remembered(@ \cup {Topic}),
                       !.panelAge = 0]

Defer ==
  /\ pc = "panel"
  /\ Unasked = {} \/ ext.panelAge < PanelEvery \/ Remaining < PanelCost
  /\ pc' = "save"
  /\ UNCHANGED <<points, budget, ext, circle, units, disk, main, bill>>

PanelDue == pc = "panel" /\ Unasked # {} /\ ext.panelAge = PanelEvery /\ Remaining >= PanelCost

Convene ==
  /\ PanelDue
  /\ Charge(PanelCost)
  /\ \E convened \in BOOLEAN : ext' = Anchor(convened)
  /\ pc' = "save"
  /\ UNCHANGED <<points, circle, units, main>>

\* Fewer than two assessors are configured: the key counts as asked and nothing is paid.
NoPanel ==
  /\ PanelDue
  /\ ext' = [ext EXCEPT !.asked = Remembered(@ \cup {Topic})]
  /\ pc' = "save"
  /\ UNCHANGED <<points, budget, circle, units, disk, main, bill>>

-----------------------------------------------------------------------------
(***************************************************************************)
(* The end of a cycle.                                                     *)
(***************************************************************************)

ProcessEnds == budget' = Fresh /\ ext' = NoMemory /\ circle' = NotSitting /\ units' = 0

Save ==
  /\ pc = "save"
  /\ disk' = [budget |-> budget, ext |-> ext]
  /\ pc' = "push" /\ ProcessEnds
  /\ UNCHANGED <<points, main, bill>>

\* The cycle raises; what is on the disk is committed all the same.
Raise ==
  /\ pc \notin {"idle", "push"}
  /\ pc' = "push" /\ ProcessEnds
  /\ UNCHANGED <<points, disk, main, bill>>

Push ==
  /\ pc = "push"
  /\ main' = disk
  /\ pc' = "idle"
  /\ UNCHANGED <<points, budget, ext, circle, units, disk, bill>>

\* The commit is dropped, or the job is killed: the next checkout is that of main.
Reset ==
  /\ pc # "idle"
  /\ disk' = main
  /\ \/ disk.budget.spent = main.budget.spent /\ bill' = bill
     \/ /\ disk.budget.spent # main.budget.spent /\ bill.dropped < MaxDropped
        /\ bill' = [bill EXCEPT !.dropped = @ + 1]
  /\ pc' = "idle" /\ ProcessEnds
  /\ UNCHANGED <<points, main>>

\* Conflicts are resolved by others.
Close ==
  /\ pc = "idle"
  /\ \E k \in points \cap Conflict : points' = points \ {k}
  /\ UNCHANGED <<process, disk, main, bill>>

Council == NoSitting \/ Voice \/ FollowUp \/ Adjourn
Panel == Defer \/ Convene \/ NoPanel

Next ==
  \/ Begin \/ WeekIsOver \/ Project \/ Detect \/ EscalateConflict \/ EscalateGap \/ Kevin \/ Council \/ Panel
  \/ Save \/ Raise \/ Push \/ Reset \/ Close

Spec == Init /\ [][Next]_vars

-----------------------------------------------------------------------------
(***************************************************************************)
(* Properties.                                                             *)
(***************************************************************************)

\* Three rules admit spending, none of which knows of the others' calls in flight.  Together they
\* let a week cost less than the cap and one voice of the circle, which is admitted while anything
\* is left at all; and as much again for every commit or job that took its charges with it, and
\* the price of a call for every call that failed and was billed.
OverrunBounded ==
  bill.paid < (bill.dropped + 1) * (Cap + CouncilCost) + bill.unbilled * CallCost

\* What writing a charge at once is there for: with no call billed in vain, the week costs no more
\* than the rules admit, whatever becomes of its cycles.
ChargesAreKept == bill.unbilled = 0 => bill.paid < Cap + CouncilCost
=============================================================================
