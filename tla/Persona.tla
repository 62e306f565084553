------------------------------- MODULE Persona -------------------------------
(***************************************************************************)
(* The persona, a projection of corrected errors: persona.py, with the     *)
(* operations of core_state.py that leave corrections behind.              *)
(*                                                                         *)
(* Once a cycle the claims that ended rejected or superseded are grouped   *)
(* by theme; a theme that has learned enough becomes a lesson, with the    *)
(* one or two errors that teach most.  If phrasing is on, a model is asked *)
(* for a maxim for each lesson, deepest first, through the one seam to a   *)
(* model, model_call.call with the purse of budget.py.  The page is        *)
(* written when all have been asked, before the core of the cycle is       *)
(* saved.                                                                  *)
(***************************************************************************)
EXTENDS Naturals, Sequences, SequencesExt

CONSTANTS
  Claim, Theme,   \* numbers, in the order of their names
  Sink,           \* themes on which nobody is an expert
  Threshold,      \* corrections that make a lesson
  MaxAnchors,
  Reason,         \* that a rejection may record
  Cap,            \* of a week
  Cost,           \* of one live call; nothing for the prepaid model
  RunsPerWeek,
  MaxCalls        \* bound on the log

PersonaAssumption ==
  /\ {Cap, Cost, RunsPerWeek, MaxCalls} \subseteq Nat
  /\ Claim \subseteq Nat /\ Theme \subseteq Nat /\ Sink \subseteq Theme
  /\ {Threshold, MaxAnchors} \subseteq Nat \ {0}
  /\ Reason \subseteq {"none", "short", "long"}

VARIABLES
  pc,       \* what the cycle is at
  core,     \* claims and resolved conflicts, in memory
  disk,     \* the same, saved
  todo,     \* lessons that still want a maxim
  lines,    \* lessons with what was found for them
  page,     \* persona.md
  outputs,  \* the files of answers
  calls,    \* calls.jsonl, as telemetry counts it
  spent,    \* budget.json: what the week has cost,
  runs      \* and its runs

seam == <<outputs, calls, spent>>

None == [how |-> "none"]
Empty(asked) == [about |-> asked, how |-> "empty"]
Whole(asked) == [about |-> asked, how |-> "whole"]
Torn(asked) == [about |-> asked, how |-> "torn"]

SeamInit == outputs = <<>> /\ calls = [live |-> 0, cached |-> 0, empty |-> 0] /\ spent = 0 /\ runs = 0

vars == <<pc, core, disk, todo, lines, page, seam, runs>>

Unborn == [status |-> "unborn", theme |-> 0, text |-> 0, why |-> "none"]

Init ==
  /\ SeamInit /\ pc = "work"
  /\ core = [claims |-> [c \in Claim |-> Unborn], resolved |-> {}] /\ disk = core
  /\ todo = <<>> /\ lines = <<>> /\ page = <<>>

TypeOK ==
  /\ pc \in {"work", "phrase", "save"}
  /\ \A c \in Claim :
       core.claims[c].status \in {"unborn", "active", "rejected", "superseded"}
  /\ core.resolved \subseteq [winner : Claim, loser : Claim]
  /\ spent <= Cap /\ calls.live + calls.cached <= MaxCalls

-----------------------------------------------------------------------------
(***************************************************************************)
(* The seam: model_call.call.                                              *)
(*                                                                         *)
(* An answer is a file named by what was asked, configuration included; a  *)
(* question that has its file is answered from it and costs nothing.  Any  *)
(* other question needs room in the week and in the run, may fail, and is  *)
(* charged as soon as it has been answered.  The file comes after that,    *)
(* and the record of the call in the log last: a kill can come between any *)
(* two of them, or in the middle of the file, which is written in place.   *)
(* An answer is [about, how], a text on what was asked that is whole or    *)
(* torn.  An empty one is kept in no file.                                 *)
(***************************************************************************)
\* Budget.remaining, per_run_allowance and can_spend: an even share for each run that is left.
Remaining == IF spent < Cap THEN Cap - spent ELSE 0
RunsLeft == IF runs < RunsPerWeek THEN RunsPerWeek - runs ELSE 1
Allowance == Remaining \div RunsLeft
CanSpend(amount) == amount <= Remaining /\ amount <= Allowance

Key(asked) == asked

Filed(asked) == Key(asked) \in DOMAIN outputs
MayCall(asked) == ~Filed(asked) /\ (Cost = 0 \/ CanSpend(Cost))

Charge == spent' = spent + Cost
File(asked, text) ==
  outputs' = [k \in DOMAIN outputs \cup {Key(asked)} |-> IF k = Key(asked) THEN text ELSE outputs[k]]

\* What telemetry makes of one more line of the log.
Counted(text, live) ==
  CASE ~live -> [calls EXCEPT !.cached = @ + 1]
    [] live /\ text.how = "empty" -> [calls EXCEPT !.live = @ + 1, !.empty = @ + 1]
    [] OTHER -> [calls EXCEPT !.live = @ + 1]

Record(text, live) == calls.live + calls.cached < MaxCalls /\ calls' = Counted(text, live)

\* What a provider may answer: reasoning may leave nothing of the budget for the answer.
Replies(asked) == {Whole(asked), Empty(asked)}

\* The call that ends with a text, or with none: an answer from its file; no room; an error
\* of the provider; a live answer, kept for good unless it is empty.
Replay(asked, text) ==
  /\ Filed(asked) /\ text = outputs[Key(asked)]
  /\ Record(text, FALSE) /\ UNCHANGED <<outputs, spent>>

Refused(asked, text) ==
  ~Filed(asked) /\ ~MayCall(asked) /\ text = None /\ UNCHANGED seam

Failed(asked, text) == MayCall(asked) /\ text = None /\ UNCHANGED seam

Answered(asked, text) ==
  /\ MayCall(asked) /\ text \in Replies(asked)
  /\ Charge
  /\ IF text = Empty(asked) THEN UNCHANGED outputs ELSE File(asked, text)
  /\ Record(text, TRUE)

Call(asked, text) ==
  \/ Replay(asked, text) \/ Refused(asked, text)
  \/ Failed(asked, text) \/ Answered(asked, text)

\* The process is killed inside a live call: charged, with no file, a piece of one (an empty one,
\* when nothing was written yet) or all of it, and never logged.
CutShort(asked) ==
  /\ MayCall(asked) /\ Charge /\ UNCHANGED calls
  /\ \/ UNCHANGED outputs
     \/ \E text \in {Empty(asked), Torn(asked), Whole(asked)} : File(asked, text)

-----------------------------------------------------------------------------
(***************************************************************************)
(* The cycle before the projection: claims come, are rejected for a reason *)
(* or for none, lose a conflict, or are filed again under another theme.   *)
(***************************************************************************)
Active(c) == core.claims[c].status = "active"
Fresh(c) == core.claims[c] = Unborn /\ \A d \in Claim : d < c => core.claims[d] # Unborn
Born(c, theme, text) == [c EXCEPT !.status = "active", !.theme = theme, !.text = text]
Ended(c, how, why) == [c EXCEPT !.status = how, !.why = why]

Learn(c, theme) ==
  /\ pc = "work" /\ Fresh(c)
  /\ core' = [core EXCEPT !.claims[c] = Born(@, theme, c)]
  /\ UNCHANGED <<pc, disk, todo, lines, page, seam, runs>>

Reject(c, why) ==
  /\ pc = "work" /\ Active(c)
  /\ core' = [core EXCEPT !.claims[c] = Ended(@, "rejected", why)]
  /\ UNCHANGED <<pc, disk, todo, lines, page, seam, runs>>

Settle(winner, loser) ==
  /\ pc = "work" /\ winner # loser /\ Active(winner) /\ Active(loser)
  /\ core' = [core EXCEPT !.claims[loser] = Ended(@, "superseded", "none"),
                          !.resolved = @ \cup {[winner |-> winner, loser |-> loser]}]
  /\ UNCHANGED <<pc, disk, todo, lines, page, seam, runs>>

\* refile_claim: a successor of the same text, and the original superseded.
Refile(c, successor, theme) ==
  /\ pc = "work" /\ Active(c) /\ Fresh(successor) /\ theme # core.claims[c].theme
  /\ core' = [core EXCEPT !.claims[successor] = Born(@, theme, core.claims[c].text),
                          !.claims[c] = Ended(@, "superseded", "none")]
  /\ UNCHANGED <<pc, disk, todo, lines, page, seam, runs>>

-----------------------------------------------------------------------------
(***************************************************************************)
(* extract_corrections.  Any resolved conflict of a claim counts as what   *)
(* drove its correction, one that it won as well; what came after it is    *)
(* the winner of a conflict it lost.                                       *)
(***************************************************************************)
Conflicts(c) == {x \in core.resolved : c \in {x.winner, x.loser}}
After(c) ==
  LET lost == {x \in Conflicts(c) : x.winner # c}
  IN  IF lost = {} THEN 0 ELSE core.claims[(CHOOSE x \in lost : TRUE).winner].text

Correction(c) ==
  [claim |-> c, kind |-> core.claims[c].status, before |-> core.claims[c].text,
   after |-> After(c), why |-> core.claims[c].why, via_conflict |-> Conflicts(c) # {}]

Corrections(theme) ==
  {Correction(c) : c \in {d \in Claim : /\ core.claims[d].status \in {"rejected", "superseded"}
                                        /\ core.claims[d].theme = theme}}

\* How much an error teaches, and the errors that teach most; the date plays no part.
Instructiveness(x) ==
  LET one(fact) == IF fact THEN 1 ELSE 0
  IN  2 * one(x.via_conflict) + one(x.via_conflict \/ x.why # "none")
        + one(x.after # 0) + one(x.why = "long")

TeachesMore(x, y) ==
  \/ Instructiveness(x) > Instructiveness(y)
  \/ /\ Instructiveness(x) = Instructiveness(y)
     /\ x.claim > y.claim

RankAnchors(corrections) == SetToSortSeq(corrections, TeachesMore)
FirstFew(s) == SubSeq(s, 1, IF Len(s) < MaxAnchors THEN Len(s) ELSE MaxAnchors)

\* The lesson of a theme: what was learned, how often an error was replaced rather than dropped.
Lesson(theme) ==
  LET all == Corrections(theme)
  IN  [theme |-> theme, depth |-> Cardinality(all), anchors |-> FirstFew(RankAnchors(all)),
       replaced |-> Cardinality({x \in all : x.kind = "superseded"}),
       trail |-> {x.claim : x \in all}]

\* crystallize: a resolved conflict, enough corrections, or the window of a self-review.
Earned(theme, reviewed) ==
  LET all == Corrections(theme)
  IN  /\ theme \notin Sink /\ all # {}
      /\ \/ \E x \in all : x.via_conflict
         \/ Cardinality(all) >= Threshold
         \/ reviewed

Deeper(x, y) == x.depth > y.depth \/ (x.depth = y.depth /\ x.theme > y.theme)
Lessons(reviewed) ==
  SetToSortSeq({Lesson(t) : t \in {u \in Theme : Earned(u, reviewed)}}, Deeper)

-----------------------------------------------------------------------------
\* project: without phrasing the page is what the rules found.
Line(lesson, maxim) == [lesson |-> lesson, maxim |-> maxim]
Plain(lessons) == [i \in DOMAIN lessons |-> Line(lessons[i], None)]

Write(found) == page' = found /\ pc' = "save"

Project(reviewed, phrase) ==
  LET lessons == Lessons(reviewed)
  IN  /\ pc = "work"
      /\ IF phrase /\ lessons # <<>>
           THEN pc' = "phrase" /\ todo' = lessons /\ lines' = <<>> /\ UNCHANGED page
           ELSE Write(Plain(lessons)) /\ UNCHANGED <<todo, lines>>
      /\ UNCHANGED <<core, disk, seam, runs>>

\* What the model is shown: not the trail nor the ids, but all that is said of the errors.
Told(x) ==
  [kind |-> x.kind, before |-> x.before, after |-> x.after, why |-> x.why,
   via_conflict |-> x.via_conflict]

Prompt(lesson) ==
  [theme |-> lesson.theme, depth |-> lesson.depth, replaced |-> lesson.replaced,
   anchors |-> [i \in DOMAIN lesson.anchors |-> Told(lesson.anchors[i])]]

\* A cycle in which nothing came back keeps what the page says of the theme.
KeptMaxim(lesson, text) ==
  LET old == {x \in Range(page) : x.lesson.theme = lesson.theme}
  IN  CASE text \notin {None, Empty(Prompt(lesson))} -> text
        [] old # {} -> (CHOOSE x \in old : TRUE).maxim
        [] OTHER -> None

Maxim(lesson, text) == IF text = None \/ text = Empty(Prompt(lesson)) THEN None ELSE text

Phrase ==
  LET lesson == Head(todo)
      asked == Prompt(lesson)
      texts == {None} \cup Replies(asked)
                 \cup (IF Filed(asked) THEN {outputs[Key(asked)]} ELSE {})
  IN  /\ pc = "phrase" /\ todo # <<>>
      /\ \E text \in texts :
           /\ Call(asked, text)
           /\ lines' = Append(lines, Line(lesson, Maxim(lesson, text)))
      /\ todo' = Tail(todo)
      /\ UNCHANGED <<pc, core, disk, page, runs>>

WritePhrased ==
  /\ pc = "phrase" /\ todo = <<>> /\ Write(lines) /\ lines' = <<>>
  /\ UNCHANGED <<core, disk, todo, seam, runs>>

\* The end of the cycle.
Finish ==
  /\ pc = "save" /\ disk' = core /\ pc' = "work" /\ runs < RunsPerWeek /\ runs' = runs + 1
  /\ UNCHANGED <<core, todo, lines, page, seam>>

Lost == pc' = "work" /\ core' = disk /\ todo' = <<>> /\ lines' = <<>>

Kill == pc # "work" /\ Lost /\ UNCHANGED <<disk, page, seam, runs>>

KillInCall ==
  /\ pc = "phrase" /\ todo # <<>> /\ CutShort(Prompt(Head(todo))) /\ Lost
  /\ UNCHANGED <<disk, page, runs>>

Next ==
  \/ \E c \in Claim, t \in Theme : Learn(c, t)
  \/ \E c \in Claim, why \in Reason : Reject(c, why)
  \/ \E c, d \in Claim : Settle(c, d)
  \/ \E c, d \in Claim, t \in Theme : Refile(c, d, t)
  \/ \E reviewed, phrase \in BOOLEAN : Project(reviewed, phrase)
  \/ Phrase \/ WritePhrased \/ Finish \/ Kill \/ KillInCall

Spec == Init /\ [][Next]_vars

-----------------------------------------------------------------------------
(***************************************************************************)
(* A maxim stands beside the errors it was made from: whatever was         *)
(* rejected, replayed, refused, cut short or torn since the model was      *)
(* asked, the theme, the counts and the anchors that the page lists under  *)
(* a maxim are those the model was shown.                                  *)
(***************************************************************************)
MaximsFit ==
  \A i \in DOMAIN page :
    LET said == page[i].maxim.about
        lesson == page[i].lesson
    IN  page[i].maxim # None =>
          /\ <<said.theme, said.depth, said.replaced>>
               = <<lesson.theme, lesson.depth, lesson.replaced>>
          /\ [k \in DOMAIN said.anchors |-> said.anchors[k].before]
               = [k \in DOMAIN lesson.anchors |-> lesson.anchors[k].before]
=============================================================================
