-------------------------------- MODULE Evidence --------------------------------
(***************************************************************************)
(* What speaks for and against the claims, and what people are shown of    *)
(* it: the inbox of Doktores (research_intake.py), the balance of a        *)
(* conflict and the sheet for the operator (conflict_resolution.py), the   *)
(* early warning over the contradictions (collapse_panel.py) and the map   *)
(* of the claims (core_state.py).                                          *)
(*                                                                         *)
(* A cycle goes through all of them in turn.  A cycle that is killed       *)
(* before its first save leaves the disk as it found it, so that only the  *)
(* kill between the two saves, of the core and of the extensions, is a     *)
(* step.  Which claims there may be is given: who says what, about what.   *)
(***************************************************************************)
EXTENDS Integers, Sequences, FiniteSetsExt

CONSTANTS
  Claim,      \* ids, in their order; also the bound on the claims
  Says,       \* the text of each
  From,       \* its first source; a card is its own
  About,      \* its topic
  Weight,     \* of a source: 2 research hub, 1 a named voice, 0 a model or nobody
  Sinks,      \* topics that are none
  Disputes,   \* pairs of claims that negate each other
  Card,       \* evidence that is not a claim
  Linkable,   \* what may be attached: [claim, by, relation]
  Package,    \* what Doktores may deliver,
  Pid,        \* the id it is known by: its own, or that of its theory
  Judgement,  \* of the adversarial reviewer
  Updates,    \* the [text, against] it recommends, up to the one that cannot be read
  Whole,      \* all of them can be read
  Keep,       \* pids remembered
  MaxItems,   \* conflicts on a sheet
  DeadTail,   \* dead claims on the map
  Mood,       \* what the panel may find in the protocol and the state
  MaxTorn     \* bound on kills between the saves

Pids == {Pid[q] : q \in Package}
Source == {From[c] : c \in Claim}

ASSUME EvidenceAssumption ==
  /\ Claim \subseteq Nat \ {0} /\ IsFiniteSet(Claim) /\ Card \subseteq Nat \ Claim
  /\ Weight \in [Source -> 0 .. 2]
  /\ Disputes \subseteq Claim \X Claim
  /\ Linkable \subseteq [claim : Claim, by : Claim \cup Card, relation : STRING]
  /\ IsFiniteSet(Linkable) /\ IsFiniteSet(Package)
  /\ Whole \in [Package -> BOOLEAN]
  /\ {Keep, MaxItems} \subseteq Nat \ {0} /\ {DeadTail, MaxTorn} \subseteq Nat

VARIABLES
  status,     \* of the claims
  stage,      \* of the conflicts, by the pair as it was opened
  links,      \* the evidence links
  objection,  \* the winner an objection is about, 0 for none
  since,      \* research_seen: the rank of a pid in it, 0 for none
  filed,      \* the extensions as last saved
  inbox,      \* research_inbox.json
  queue,      \* what this cycle has read of it and is not through with,
  present,    \* and the pids of it all
  archive,    \* the publications
  sheet,      \* [conflict, favours]
  row,        \* of this cycle, in collapse_series.jsonl
  map,        \* of the claims
  pc,
  torn,       \* history: kills between the saves,
  taken       \* and how often a package was taken in since it came

core == <<status, stage, links>>
extensions == <<objection, since>>
intake == <<queue, present>>
pages == <<sheet, row, map>>
history == <<torn, taken>>
vars == <<core, extensions, filed, inbox, intake, archive, pages, pc, history>>

Status == {"unborn", "candidate", "active", "confirmed", "contested", "rejected", "superseded"}
Dead == {"rejected", "superseded"}
Conflict == {p \in Claim \X Claim : p[1] # p[2]}
Nothing == [conflicts |-> "none"]
Extensions == [objection |-> objection, since |-> since]

Init ==
  /\ status = [c \in Claim |-> "unborn"] /\ stage = [p \in Conflict |-> "none"] /\ links = {}
  /\ objection = [p \in Conflict |-> 0] /\ since = [i \in Pids |-> 0] /\ filed = Extensions
  /\ inbox = {} /\ queue = {} /\ present = {} /\ archive = {}
  /\ sheet = {} /\ row = Nothing /\ map = Nothing
  /\ pc = "work" /\ torn = 0 /\ taken = [q \in Package |-> 0]

Then(from, to) == pc = from /\ pc' = to

-----------------------------------------------------------------------------
(***************************************************************************)
(* Claims and conflicts.                                                   *)
(***************************************************************************)
LiveIn(st) == {c \in Claim : st[c] \in {"active", "confirmed"}}
Live == LiveIn(status)

Open(p) == stage[p] \in {"open", "under_review"}
Known(stages, p) == stages[p] # "none" \/ stages[<<p[2], p[1]>>] # "none"

Sides(p) == {p[1], p[2]}
Other(p, w) == IF p[1] = w THEN p[2] ELSE p[1]

\* What is said of what was given up before has to earn its way back.
Entering(c) ==
  IF \E d \in Claim : Says[d] = Says[c] /\ status[d] \in Dead THEN "candidate" ELSE "active"

Opened(stages, S) ==
  [p \in Conflict |-> IF p \in S /\ ~Known(stages, p) THEN "open" ELSE stages[p]]

Contest(st, before, after) ==
  LET hit == UNION {Sides(p) : p \in {x \in Conflict : before[x] = "none" /\ after[x] = "open"}}
  IN  [c \in Claim |-> IF c \in hit \cap LiveIn(st) THEN "contested" ELSE st[c]]

Found(st, stages) == {p \in Disputes \cap Conflict :
  /\ Sides(p) \subseteq LiveIn(st) /\ ~Known(stages, p)
  /\ About[p[1]] = About[p[2]] /\ About[p[1]] \notin Sinks}

-----------------------------------------------------------------------------
(***************************************************************************)
(* What else a cycle does with them; when a claim is given up is Ideas'.   *)
(***************************************************************************)
Working == pc = "work" /\ UNCHANGED <<extensions, filed, inbox, intake, archive, pages, pc, history>>

Learn(c) ==
  /\ Working /\ status[c] = "unborn" /\ From[c] # "doktores"
  /\ status' = [status EXCEPT ![c] = Entering(c)]
  /\ UNCHANGED <<stage, links>>

Attach(l) ==
  /\ Working /\ l \notin links /\ l.claim \in Live /\ l.by \in Live \cup Card
  /\ links' = links \cup {l}
  /\ UNCHANGED <<status, stage>>

Detect ==
  /\ Working /\ Found(status, stage) # {}
  /\ stage' = Opened(stage, Found(status, stage))
  /\ status' = Contest(status, stage, stage')
  /\ UNCHANGED links

Review(p) ==
  /\ Working /\ stage[p] = "open"
  /\ stage' = [stage EXCEPT ![p] = "under_review"]
  /\ UNCHANGED <<status, links>>

Reject(c) ==
  /\ Working /\ status[c] \in {"candidate", "active"}
  /\ status' = [status EXCEPT ![c] = "rejected"]
  /\ UNCHANGED <<stage, links>>

\* The operator's.
Confirm(c) ==
  /\ Working /\ status[c] = "active"
  /\ status' = [status EXCEPT ![c] = "confirmed"]
  /\ UNCHANGED <<stage, links>>

-----------------------------------------------------------------------------
(***************************************************************************)
(* The panel: levels of what it measures, the worst of them over all.      *)
(***************************************************************************)
Rank == [ok |-> 0, warn |-> 1, alarm |-> 2]
Worst(levels) == CHOOSE l \in levels : \A k \in levels : Rank[k] <= Rank[l]
Level(n, warn, alarm) == IF n >= alarm THEN "alarm" ELSE IF n >= warn THEN "warn" ELSE "ok"
Share(n, of, warn, alarm) == Level(100 * n, warn * of, alarm * of)

Bucket(t) == Cardinality({c \in Live : About[c] = t})
Topics == {About[c] : c \in Live}

Dominance == IF Live = {} THEN "ok" ELSE Share(Max({Bucket(t) : t \in Topics}), Cardinality(Live), 65, 80)

\* The entropy of the real topics is left open unless it is at one of its ends.
Entropies ==
  LET real == Topics \ Sinks
  IN  IF Cardinality(real) <= 1 THEN {"alarm"}
      ELSE IF \A t, u \in real : Bucket(t) = Bucket(u) THEN {"ok"} ELSE {"ok", "warn", "alarm"}

\* The gate attaches evidence that has no source, so that nothing has an external family.
ExternalFamilies(c) == {}
Presented == {c \in Live : status[c] = "confirmed"}
Weakness ==
  IF Presented = {} THEN "ok"
  ELSE Share(Cardinality({c \in Presented : ExternalFamilies(c) = {}}), Cardinality(Presented), 70, 90)

Degeneracy(m) == IF m.degeneration > 0 THEN "warn" ELSE "ok"

Edges == {Sides(p) : p \in {x \in Conflict : Open(x)}}

\* What the search from each node finds: closed under the edges, and no less.
Components(E) ==
  LET nodes == UNION E
      Closed(K) == K # {} /\ \A e \in E : e \cap K = {} \/ e \subseteq K
  IN  {K \in SUBSET nodes : Closed(K) /\ \A J \in SUBSET K : Closed(J) => J = K}

\* As many edges as nodes: more than a tree has.
Cyclic(E) == {K \in Components(E) : Cardinality({e \in E : e \subseteq K}) >= Cardinality(K)}

Depth(E) ==
  LET largest == IF E = {} THEN 0 ELSE Max({Cardinality(K) : K \in Components(E)})
  IN  Worst({Level(largest, 10, 25), IF Cyclic(E) # {} THEN "warn" ELSE "ok"})

Latest(s, n) == {i \in DOMAIN s : i > Len(s) - n}
Total(s, window) == MapThenSumSet(LAMBDA i : s[i], window)

Novelty(fresh) ==
  LET fast == Latest(fresh, 7)
      slow == Latest(fresh, 30)
      dry == {i \in slow : fresh[i] = 0}
  IN  IF fast # {} /\ Total(fresh, fast) = 0 THEN "alarm"
      ELSE IF \/ Total(fresh, slow) < Cardinality(slow) \/ slow = {}
              \/ 2 * Cardinality(dry) > Cardinality(slow) THEN "warn" ELSE "ok"

Repetition(m) ==
  Worst({Share(m.duplicates, m.developed, 85, 97), Share(m.minted - m.distinct, m.minted, 50, 80)})

Guards(m) == IF m.embeddings THEN "ok" ELSE IF m.semantics THEN "warn" ELSE "alarm"

ColdReplay(m) == IF m.load = 0 THEN "ok" ELSE Level(m.load, 45, 180)

Overall(m, entropy) ==
  Worst({Dominance, entropy, Weakness, Degeneracy(m), Depth(Edges), Novelty(m.fresh), Repetition(m),
         Guards(m), ColdReplay(m)})

Measure(m) ==
  /\ Then("work", "decisions")
  /\ \E entropy \in Entropies :
       row' = [conflicts |-> Depth(Edges), overall |-> Overall(m, entropy)]
  /\ UNCHANGED <<core, extensions, filed, inbox, intake, archive, sheet, map, history>>

\* An error of the panel is swallowed.
MeasureFails ==
  /\ Then("work", "decisions")
  /\ UNCHANGED <<core, extensions, filed, inbox, intake, archive, pages, history>>
-----------------------------------------------------------------------------
(***************************************************************************)
(* The balance of a conflict: supports, their families, the own source.    *)
(***************************************************************************)
\* Fault: a supporter that was given up still counts.
NeverVoid(l) == FALSE

\* What a rejected or superseded claim supports, it supports no longer.
Void(l) == l.by \in Claim /\ status[l.by] \in Dead

Supporting(l) == l.relation \in {"supports", "contextualizes"}

\* In one pass over the links, as the sheet does it ...
SupportsMap ==
  LET counted == {l \in links : Supporting(l) /\ ~Void(l)}
  IN  [c \in {l.claim : l \in counted} |-> Cardinality({l \in counted : l.claim = c})]

FamiliesMap ==
  [c \in {l.claim : l \in {k \in links : Supporting(k)}} |->
     {From[l.by] : l \in {k \in links : Supporting(k) /\ k.claim = c /\ ~Void(k)}}]

\* ... and for one claim, as an objection does it.
SupportsOn(c) ==
  Cardinality({l \in links : l.claim = c /\ Supporting(l)
                             /\ ~(l.by \in Claim /\ status[l.by] \in Dead)})

SupporterFamilies(c) ==
  LET backing == {l \in links : l.claim = c /\ Supporting(l)}
  IN  {From[l.by] : l \in {k \in backing : k.by \in Claim /\ status[k.by] \notin Dead}}
        \cup {From[l.by] : l \in {k \in backing : k.by \notin Claim}}

Sign(a, b) == IF a > b THEN 1 ELSE IF a < b THEN -1 ELSE 0

Weighing(c, supports, families) == <<supports, families, Weight[From[c]]>>

Mapped(c) ==
  Weighing(c, IF c \in DOMAIN SupportsMap THEN SupportsMap[c] ELSE 0,
           IF c \in DOMAIN FamiliesMap THEN Cardinality(FamiliesMap[c]) ELSE 0)

Scanned(c) == Weighing(c, SupportsOn(c), Cardinality(SupporterFamilies(c)))

Axes(m, n) == {i \in 1 .. 3 : m[i] # n[i]}

\* 1 for the first, -1 for the second, 0 if nothing speaks for either or something for both.
Lean(m, n) ==
  LET signs == {Sign(m[i], n[i]) : i \in Axes(m, n)}
  IN  IF signs = {1} THEN 1 ELSE IF signs = {-1} THEN -1 ELSE 0

-----------------------------------------------------------------------------
(***************************************************************************)
(* The operator's line, at most one a cycle here, and his sheet.           *)
(***************************************************************************)
Deciding ==
  Then("decisions", "sheet") /\ UNCHANGED <<links, since, filed, inbox, intake, archive, pages, history>>

\* Objections to what is closed by now are dropped.
Pruned(objections, stages) ==
  [p \in Conflict |-> IF stages[p] \in {"open", "under_review"} THEN objections[p] ELSE 0]

\* The drop box is empty.
NoDecision == Deciding /\ UNCHANGED <<status, stage, objection>>

\* What it names is not open, or has no such winner.
Skipped == Deciding /\ objection' = Pruned(objection, stage) /\ UNCHANGED <<status, stage>>

Speaks(p, w) == Lean(Scanned(w), Scanned(Other(p, w))) = -1

Object(p, w) ==
  /\ Deciding /\ Open(p) /\ w \in Sides(p)
  /\ Speaks(p, w) /\ objection[p] # w
  /\ objection' = Pruned([objection EXCEPT ![p] = w], stage)
  /\ UNCHANGED <<status, stage>>

\* Contested by no other conflict.
Freed(p, w) == status[w] = "contested" /\ \A x \in Conflict \ {p} : Open(x) => w \notin Sides(x)

Settle(p, w) ==
  /\ Deciding /\ Open(p) /\ w \in Sides(p)
  /\ Speaks(p, w) => objection[p] = w
  /\ stage' = [stage EXCEPT ![p] = "resolved"]
  /\ status' = [c \in Claim |->
       IF c = Other(p, w) /\ status[c] \in {"active", "contested"} THEN "superseded"
       ELSE IF c = w /\ Freed(p, w) THEN "active" ELSE status[c]]
  /\ objection' = Pruned(objection, stage')

\* 'keiner': there is no contradiction.
Declare(p) ==
  /\ Deciding /\ Open(p)
  /\ stage' = [stage EXCEPT ![p] = "tolerated"]
  /\ status' = [c \in Claim |-> IF c \in Sides(p) /\ Freed(p, c) THEN "active" ELSE status[c]]
  /\ objection' = Pruned(objection, stage')

\* Neither side is gone, and the evidence is for one of them.
Decidable ==
  {p \in Conflict : /\ Open(p) /\ \A c \in Sides(p) : status[c] \notin Dead
                    /\ Lean(Mapped(p[1]), Mapped(p[2])) # 0}

Item(p) ==
  [conflict |-> p, favours |-> IF Lean(Mapped(p[1]), Mapped(p[2])) = 1 THEN p[1] ELSE p[2]]

\* More axes, then a greater distance of the supports, then more of them; then the ids decide.
Outranks(p, q) ==
  LET Key(x) == LET a == Mapped(x[1])[1]  b == Mapped(x[2])[1]
                IN  <<Cardinality(Axes(Mapped(x[1]), Mapped(x[2]))),
                      IF a > b THEN a - b ELSE b - a, IF a > b THEN a ELSE b>>
  IN  \E i \in 1 .. 3 : Key(p)[i] > Key(q)[i] /\ \A j \in 1 .. i - 1 : Key(p)[j] = Key(q)[j]

WriteSheet ==
  /\ Then("sheet", "inbox")
  /\ \E S \in SUBSET Decidable :
       /\ Cardinality(S) = (IF Cardinality(Decidable) < MaxItems THEN Cardinality(Decidable) ELSE MaxItems)
       /\ \A p \in S, q \in Decidable \ S : ~Outranks(q, p)
       /\ sheet' = {Item(p) : p \in S}
  /\ UNCHANGED <<core, extensions, filed, inbox, intake, archive, row, map, history>>

-----------------------------------------------------------------------------
(***************************************************************************)
(* The inbox of Doktores.                                                  *)
(***************************************************************************)
Remembered == {i \in Pids : since[i] # 0}

\* Metabolism may keep the cycle from taking anything in.
NoIntake ==
  /\ Then("inbox", "save")
  /\ UNCHANGED <<core, extensions, filed, inbox, intake, archive, pages, history>>

ReadInbox ==
  /\ Then("inbox", "packages") /\ inbox # {}
  /\ queue' = inbox /\ present' = {Pid[q] : q \in inbox}
  /\ UNCHANGED <<core, extensions, filed, inbox, archive, pages, history>>

Skip(q) ==
  /\ pc = "packages" /\ q \in queue /\ since[Pid[q]] # 0
  /\ queue' = queue \ {q}
  /\ UNCHANGED <<core, extensions, filed, inbox, present, archive, pages, pc, history>>

\* The ids that are left for a text; one that finds none stays unsaid.
Free(text) == {c \in Claim : Says[c] = text /\ From[c] = "doktores" /\ status[c] = "unborn"}
Minted(update) == CHOOSE c \in Free(update.text) : \A d \in Free(update.text) : c <= d

\* The recommended updates come in as sources, and contradict what was held before them.
Hear(updates, whole) ==
  LET said == {u \in updates : Free(u.text) # {}}
      new == {Minted(u) : u \in said}
      born == [c \in Claim |-> IF c \in new THEN Entering(c) ELSE status[c]]
      against == UNION {{<<Minted(u), a>> : a \in u.against \cap Live} : u \in said}
      raised == Opened(stage, against)
      held == Contest(born, stage, raised)
  IN  IF whole THEN /\ stage' = Opened(raised, Found(held, raised))
                    /\ status' = Contest(held, raised, stage')
      ELSE stage' = raised /\ status' = held

\* What cannot be read to its end counts as seen, and is not published.
TakeIn(q) ==
  /\ pc = "packages" /\ q \in queue /\ since[Pid[q]] = 0
  /\ queue' = queue \ {q}
  /\ since' = [since EXCEPT ![Pid[q]] = Cardinality(Remembered) + 1]
  /\ taken' = [taken EXCEPT ![q] = @ + 1]
  /\ IF Judgement[q] = "reject" THEN UNCHANGED <<status, stage>> ELSE Hear(Updates[q], Whole[q])
  /\ archive' = IF Judgement[q] = "reject" \/ Whole[q] THEN archive \cup {q} ELSE archive
  /\ UNCHANGED <<links, objection, filed, inbox, present, pages, pc, torn>>

Recent ==
  {i \in Remembered : Cardinality({j \in Remembered : since[j] > since[i]}) < Keep}

\* Fault: what fell out of the window is forgotten, whether it is still there or not.
RecentOnly == Recent

\* The most recent, and behind them what is still in the inbox.
Retained == Recent \cup (Remembered \cap present)

Trim ==
  /\ Then("packages", "save") /\ queue = {}
  /\ since' = [i \in Pids |->
       IF i \notin Retained THEN 0
       ELSE IF i \in Recent THEN Cardinality({j \in Recent : since[j] <= since[i]})
       ELSE Cardinality(Recent) + Cardinality({j \in Retained \ Recent : since[j] <= since[i]})]
  /\ present' = {}
  /\ UNCHANGED <<core, objection, filed, inbox, queue, archive, pages, history>>

\* Doktores delivers, and clears away, when it likes; outside the intake it makes no
\* difference when.
Deliver(q) ==
  /\ pc \in {"work", "packages"} /\ q \notin inbox
  /\ inbox' = inbox \cup {q} /\ taken' = [taken EXCEPT ![q] = 0]
  /\ UNCHANGED <<core, extensions, filed, intake, archive, pages, pc, torn>>

Clear(q) ==
  /\ pc \in {"work", "packages"} /\ q \in inbox
  /\ inbox' = inbox \ {q} /\ taken' = [taken EXCEPT ![q] = 0]
  /\ UNCHANGED <<core, extensions, filed, intake, archive, pages, pc, torn>>

-----------------------------------------------------------------------------
(***************************************************************************)
(* The end of the cycle: the saves, and the map.                           *)
(***************************************************************************)
SaveCore ==
  /\ Then("save", "extensions")
  /\ UNCHANGED <<core, extensions, filed, inbox, intake, archive, pages, history>>

SaveExtensions ==
  /\ Then("extensions", "render")
  /\ filed' = Extensions
  /\ UNCHANGED <<core, extensions, inbox, intake, archive, pages, history>>

Killed ==
  /\ Then("extensions", "work") /\ torn < MaxTorn
  /\ objection' = filed.objection /\ since' = filed.since
  /\ torn' = torn + 1
  /\ sheet' = {} /\ row' = Nothing
  /\ UNCHANGED <<core, filed, inbox, intake, archive, map, taken>>

Given == {c \in Claim : status[c] \in Dead}

\* The last of the dead; with a tail of none, a slice from the end that leaves nothing out.
Tailed ==
  IF DeadTail = 0 THEN Given ELSE {c \in Given : Cardinality({d \in Given : d > c}) < DeadTail}

Included == {c \in Claim : status[c] \notin Dead \cup {"unborn"}} \cup Tailed

\* Of its text there is one, and its topic is one.
Usable == {c \in Live : About[c] \notin Sinks /\ \A d \in Live : Says[d] = Says[c] => d = c}

Render ==
  /\ Then("render", "shown")
  /\ map' = [claims |-> Included, links |-> {l \in links : l.claim \in Included},
             omitted |-> Cardinality(Given) - Cardinality(Tailed), usable |-> Usable]
  /\ UNCHANGED <<core, extensions, filed, inbox, intake, archive, sheet, row, history>>

\* The pages of a cycle are not followed into the next.
NextCycle ==
  /\ Then("shown", "work")
  /\ sheet' = {} /\ row' = Nothing /\ map' = Nothing
  /\ UNCHANGED <<core, extensions, filed, inbox, intake, archive, history>>

Next ==
  \/ \E c \in Claim : Learn(c) \/ Reject(c) \/ Confirm(c)
  \/ \E l \in Linkable : Attach(l)
  \/ Detect \/ \E p \in Conflict : Review(p)
  \/ MeasureFails \/ \E m \in Mood : Measure(m)
  \/ NoDecision \/ Skipped \/ \E p \in Conflict : Declare(p) \/ \E w \in Claim : Object(p, w) \/ Settle(p, w)
  \/ WriteSheet
  \/ NoIntake \/ ReadInbox \/ Trim
  \/ \E q \in Package : Skip(q) \/ TakeIn(q) \/ Deliver(q) \/ Clear(q)
  \/ SaveCore \/ SaveExtensions \/ Killed \/ Render \/ NextCycle

Spec == Init /\ [][Next]_vars

-----------------------------------------------------------------------------
(***************************************************************************)
(* Properties.                                                             *)
(***************************************************************************)
TypeOK ==
  /\ status \in [Claim -> Status] /\ links \subseteq Linkable
  /\ stage \in [Conflict -> {"none", "open", "under_review", "resolved", "tolerated"}]
  /\ Extensions \in [objection : [Conflict -> Claim \cup {0}], since : [Pids -> Nat]]
  /\ filed \in [objection : [Conflict -> Claim \cup {0}], since : [Pids -> Nat]]
  /\ queue \subseteq Package /\ inbox \subseteq Package /\ archive \subseteq Package
  /\ present \subseteq Pids
  /\ torn \in 0 .. MaxTorn /\ taken \in [Package -> Nat]

\* research_intake: a package is taken in once while it lies in the inbox, however many others
\* pass through the memory of pids; each kill between the saves may cost one more time.
OncePerStay == \A q \in inbox : taken[q] <= torn + 1

\* conflict_resolution: what the sheet says the evidence is for, no objection speaks against,
\* and a decision for the other side is objected to.
SheetAgrees ==
  pc = "inbox" => \A i \in sheet :
    /\ Open(i.conflict) /\ i.favours \in Sides(i.conflict)
    /\ ~Speaks(i.conflict, i.favours) /\ Speaks(i.conflict, Other(i.conflict, i.favours))

\* A set of edges in which no node is an end.
Circular(F) == F # {} /\ \A e \in F : \A c \in e : \E f \in F \ {e} : c \in f

\* collapse_panel: contradictions that go round in a circle are warned of, and no others are
\* while there are few.
TanglesAreSeen ==
  pc = "decisions" /\ row # Nothing =>
    (row.conflicts # "ok" <=> \E F \in SUBSET {Sides(p) : p \in {x \in Conflict : Open(x)}} : Circular(F))

\* core_state: the map shows all that stands, the links of what it shows, and says how much
\* it leaves out.
MapIsWhole ==
  pc = "shown" =>
    /\ \A c \in Claim : status[c] \notin Dead \cup {"unborn"} => c \in map.claims
    /\ \A l \in links : l \in map.links <=> l.claim \in map.claims
    /\ Cardinality(map.claims) + map.omitted = Cardinality({c \in Claim : status[c] # "unborn"})

\* What people are shown is what is there.
ReportsAreTrue == SheetAgrees /\ TanglesAreSeen /\ MapIsWhole
=============================================================================
