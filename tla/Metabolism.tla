------------------------------- MODULE Metabolism -------------------------------
(***************************************************************************)
(* The metabolism couples what a cycle takes in to what it has digested    *)
(* (src/src/joni/autonomy: metabolism.py, homeostasis.py, run.py).  At the *)
(* start of a cycle the worst of a few pressures is held against a band:   *)
(* above it he is sated, below it he is hungry again, in between he stays  *)
(* what he was.  A sated cycle takes no methods in; other arms go on to    *)
(* invent and to learn.  The passes that shed and consolidate run in any   *)
(* case, and at the end of the cycle his vitality is measured, which the   *)
(* next cycle reads.                                                       *)
(*                                                                         *)
(* Claims, ideas and methods are counted.  JONI_METABOLISM is on.          *)
(***************************************************************************)
EXTENDS Integers, FiniteSetsExt

CONSTANTS
  Draining,       \* the sandbox trials are on: the untested methods do not gate
  BacklogCap, MethodCap, GrowthCap, StagnationCap,   \* what makes a pressure 1
  Ideas, Methods, Conflicts,   \* bounds on how many there are
  MaxMinted,      \* bound on what a cycle takes in of each
  MaxShed         \* methods retired in one pass, max_retire

MetabolismAssumption ==
  /\ Draining \in BOOLEAN
  /\ {BacklogCap, MethodCap, GrowthCap, StagnationCap, MaxShed} \subseteq Nat \ {0}
  /\ {Ideas, Methods, Conflicts, MaxMinted} \subseteq Nat

VARIABLES
  pc,          \* the step of the cycle that is next
  state,       \* "hungry" or "sated"
  ideas,       \* unsupported ideas
  untested,    \* methods without a trial
  conflicts,   \* open conflicts
  before,      \* how many there were when the last cycle began
  backlog,     \* the unsupported ideas when vitality was last measured
  stagnation,  \* cycles without development by then, up to the cap
  developed    \* this cycle an idea found support or rose

vars == <<pc, state, ideas, untested, conflicts, before, backlog, stagnation, developed>>

-----------------------------------------------------------------------------
(* A pressure is a count over its cap.                                     *)

Growth == Max({0, conflicts - before})

Pressures == {<<backlog, BacklogCap>>, <<Growth, GrowthCap>>, <<stagnation, StagnationCap>>,
              <<untested, MethodCap>>}

\* Every pressure counts, whether or not trials work it off.
GatingAll == Pressures

\* What the trials are working off does not count.
Gating == IF Draining THEN Pressures \ {<<untested, MethodCap>>} ELSE Pressures

\* The worst of them is at least 0.70.
High == \E p \in Gating : 10 * p[1] >= 7 * p[2]

\* All of them are at most 0.40.
Low == \A p \in Gating : 10 * p[1] <= 4 * p[2]

NextState == IF state = "sated" THEN IF Low THEN "hungry" ELSE "sated"
             ELSE IF High THEN "sated" ELSE "hungry"

-----------------------------------------------------------------------------
Init ==
  /\ pc = "observe" /\ state = "hungry"
  /\ ideas = 0 /\ untested \in 0 .. Methods /\ conflicts = 0 /\ before = 0
  /\ backlog = 0 /\ stagnation = 0 /\ developed = FALSE

Observe ==
  /\ pc = "observe" /\ pc' = "intake"
  /\ state' = NextState
  /\ before' = conflicts
  /\ developed' = FALSE
  /\ UNCHANGED <<ideas, untested, conflicts, backlog, stagnation>>

\* What a cycle takes in: methods, which are harvested and emerge when he is hungry; ideas, and
\* claims that contradict what there is, at any time, since neither invention nor reading is gated.
Intake ==
  /\ pc = "intake" /\ pc' = "digest"
  /\ \E m, i, c \in 0 .. MaxMinted :
       /\ state = "sated" => m = 0
       /\ untested' = Min({Methods, untested + m})
       /\ ideas' = Min({Ideas, ideas + i})
       /\ conflicts' = Min({Conflicts, conflicts + c})
  /\ UNCHANGED <<state, before, backlog, stagnation, developed>>

\* An idea is tested: it finds support, or it is given up at last.
Attend ==
  /\ pc = "digest" /\ pc' = "shed"
  /\ ideas > 0
  /\ ideas' = ideas - 1 /\ developed' \in BOOLEAN
  /\ UNCHANGED <<state, untested, conflicts, before, backlog, stagnation>>

\* Nothing is tested, for want of an idea, of a budget or of a verdict; evidence may still come in
\* for what stands.
Skip ==
  /\ pc = "digest" /\ pc' = "shed"
  /\ developed' \in BOOLEAN
  /\ UNCHANGED <<state, ideas, untested, conflicts, before, backlog, stagnation>>

\* Ideas above the cap are shed, methods that are off the domain go, conflicts are decided, and
\* perhaps a method is tried.
Shed ==
  /\ pc = "shed" /\ pc' = "measure"
  /\ ideas' = Min({ideas, BacklogCap})
  /\ \E gone \in 0 .. Min({untested, MaxShed}) : untested' = untested - gone
  /\ conflicts' \in 0 .. conflicts
  /\ UNCHANGED <<state, before, backlog, stagnation, developed>>

Measure ==
  /\ pc = "measure" /\ pc' = "observe"
  /\ backlog' = ideas
  /\ stagnation' = IF developed THEN 0 ELSE Min({StagnationCap, stagnation + 1})
  /\ UNCHANGED <<state, ideas, untested, conflicts, before, developed>>

Next == Observe \/ Intake \/ Attend \/ Skip \/ Shed \/ Measure

\* The loop goes on, and the ideas are attended again and again.
Fairness == WF_vars(Next) /\ SF_vars(Attend)

Spec == Init /\ [][Next]_vars /\ Fairness

-----------------------------------------------------------------------------
(* Properties.                                                             *)

\* He does not starve on the methods that wait for trials, however many there are and although the
\* trials may never come: if in the end he develops in every cycle and nothing but methods comes in
\* while he is sated, he is hungry again and again.  (metabolism.py:94-117)  The condition is not
\* idle: nothing keeps a sated cycle from inventing and learning.
IntakeResumes ==
  /\ <>[](pc = "measure" => developed)
  /\ <>[][state = "sated" => ideas' <= ideas /\ conflicts' <= conflicts]_vars
  => []<>(state = "hungry")
=============================================================================
