---------------------------- MODULE TrialEvidence ----------------------------
(***************************************************************************)
(* What becomes of a measured trial of a method: the writer seals it       *)
(* (trial_event_schema.py, kevin_trial_bridge.py), the gate of Layer 9     *)
(* looks at its structure alone (trial_event_validation.py), and the       *)
(* projector (trial_event_projector.py) asks on every cycle which of the   *)
(* stored events still are evidence, and what the evidence allows to be    *)
(* said of a way of thinking.                                              *)
(*                                                                         *)
(* A verdict belongs to a capsule: a rule, everything the rule runs with,  *)
(* and the version of Python it is run under.  Rules are numbered as they  *)
(* were released; the older are kept in the catalog.  Layer9 models that   *)
(* the gate registers an id once; here a trial is known by its id, the     *)
(* variant measured at a place (a target and a scope) on a sample.         *)
(***************************************************************************)
EXTENDS Naturals, FiniteSets

CONSTANTS
  Place,       \* targets with their scopes
  Open,        \* those that are open conflicts
  Variant,     \* variants of methods with one affinity
  Trial,       \* ids: [place, variant, sample]
  Source,      \* makers: the implementation, model family and evaluator of a trial
  Reports,     \* the bodies that proposers submit
  Documents,   \* journals of old releases with what is attested of them
  Trusted,     \* the attestations that a migrator was built with
  Reading,     \* the measurements that occur
  MaxRecorded, \* bound: trials recorded
  MaxPython    \* bound: versions of Python

Unknown == "unknown"
Rules == 1..2

\* An effect and its interval, against the smallest effect that matters: beyond it, beyond it
\* downwards, within it around zero, within it to one side of zero, across it; no interval;
\* nothing measured; and numbers that contradict each other.
Readings == {"above", "below", "null", "small", "across", "no_interval", "none", "torn"}

Runs == {"clean", "failed", "cancelled", "invalid", "unclear"}
Evaluable == {"success", "partial_success", "no_benefit", "harmful", "inconclusive"}
Results == Evaluable \cup {"not_evaluated"}

Capsule == [rule : Rules, python : 1..MaxPython]
NoCapsule == [rule |-> 0, python |-> 0]

\* What a writer reports.
Body == [id : Trial, reading : Reading, run : Runs, maker : Source \cup {Unknown},
         confounded : BOOLEAN, rule : Rules \cup {0}, result : Results]

\* A verifier has seen a journal, entry by entry, and accepted some of its entries.
Attestation == [journal : SUBSET Body, accepted : SUBSET Body]
Document == [entries : SUBSET Body, attestation : Attestation]

TrialEvidenceAssumption ==
  /\ Open \subseteq Place /\ Unknown \notin Source
  /\ Trial \subseteq [place : Place, variant : Variant, sample : Nat]
  /\ Reports \subseteq Body
  /\ Documents \subseteq Document /\ Trusted \subseteq Attestation
  /\ Reading \subseteq Readings
  /\ MaxRecorded \in Nat /\ MaxPython \in Nat \ {0}

VARIABLES
  journal,  \* what Layer 9 has stored: bodies with their seals
  newest,   \* the rule of the release that runs
  python    \* the version of Python it runs under

vars == <<journal, newest, python>>

Seal == [body : Body, envelope : {"evaluation", "operational"}, capsule : Capsule \cup {NoCapsule}]

TypeOK ==
  /\ journal \subseteq Seal
  /\ newest \in Rules /\ python \in 1..MaxPython

Init == journal = {} /\ newest = 1 /\ python = 1

-----------------------------------------------------------------------------
\* A capsule binds its rule to everything the rule runs with.
Bind(rule) == [rule |-> rule, python |-> python]

\* The capsules of this release, built anew when it starts.
Catalog == {Bind(rule) : rule \in 1..newest}

Contract(reading) == reading \notin {"none", "no_interval"}

Consistent(reading) == reading # "torn"

\* Rule 1 takes an interval around zero for undecided, rule 2 for a null result.
Verdict(rule, reading) ==
  CASE reading = "above" -> "success"
    [] reading = "below" -> "harmful"
    [] reading = "small" -> "no_benefit"
    [] reading = "null" -> (IF rule = 1 THEN "inconclusive" ELSE "no_benefit")
    [] OTHER -> "inconclusive"

\* What the gate demands of a body; it computes no verdict.
Structure(b) ==
  /\ Consistent(b.reading)
  /\ b.run # "clean" => b.result = "not_evaluated"
  /\ b.result \in Evaluable => Contract(b.reading) /\ b.rule # 0

CapsuleOf(rule) == IF rule \in 1..newest THEN Bind(rule) ELSE NoCapsule

Sealed(b) ==
  IF b.result \in Evaluable
  THEN [body |-> b, envelope |-> "evaluation", capsule |-> CapsuleOf(b.rule)]
  ELSE [body |-> b, envelope |-> "operational", capsule |-> NoCapsule]

\* An epistemic seal without a capsule is none.
SealHolds(s) == s.envelope = "evaluation" => s.capsule # NoCapsule

Recorded == {s.body.id : s \in journal}

\* What the gate answers to a sealed event.
Register(s) ==
  /\ Structure(s.body) /\ SealHolds(s) /\ s.body.id \notin Recorded
  /\ journal' = journal \cup {s}

-----------------------------------------------------------------------------
\* Any proposer: the gate does not ask whether the verdict is the rule's.
Report(b) ==
  /\ Cardinality(journal) < MaxRecorded
  /\ Register(Sealed(b))
  /\ UNCHANGED <<newest, python>>

\* The rule decides, not who measured; what it cannot evaluate is recorded as just that.
Measured(id, reading) ==
  [id |-> id, reading |-> reading, run |-> "clean", maker |-> Unknown, confounded |-> FALSE,
   rule |-> newest,
   result |-> IF Contract(reading) /\ Consistent(reading) THEN Verdict(newest, reading)
              ELSE "not_evaluated"]

\* Kevin's trial of a cycle.  One whose id is on record is not looked at again, even if it
\* came out otherwise; one that the gate refuses is lost.
Measure(id, reading) ==
  /\ Cardinality(journal) < MaxRecorded
  /\ id \notin Recorded
  /\ Register(Sealed(Measured(id, reading)))
  /\ UNCHANGED <<newest, python>>

\* A document cannot bring its own trust: its attestation is one that was pinned, and is of the
\* journal that is delivered.
Attested(doc, trusted) ==
  doc.attestation \in trusted /\ doc.attestation.journal = doc.entries

\* A journal of an old release is taken over whole or not at all: every trial in it has been
\* accepted, and cites a rule that is known.
Migrate(doc, trusted) ==
  /\ journal = {}
  /\ doc.entries # {} => Attested(doc, trusted)
  /\ doc.entries \subseteq doc.attestation.accepted
  /\ \A b \in doc.entries : b.result \in Evaluable => CapsuleOf(b.rule) # NoCapsule
  /\ \A b \in doc.entries : Structure(b)
  /\ journal' = {Sealed(b) : b \in doc.entries}
  /\ UNCHANGED <<newest, python>>

\* The loader of production trusts no verifier; a deployment builds its own.
LoadMigrated(doc) == Migrate(doc, {})

\* A release with a newer rule.
Release ==
  /\ newest + 1 \in Rules /\ newest' = newest + 1
  /\ UNCHANGED <<journal, python>>

\* The runner comes with another Python.
ChangePython ==
  /\ python' \in 1..MaxPython \ {python}
  /\ UNCHANGED <<journal, newest>>

Next ==
  \/ \E b \in Reports : Report(b)
  \/ \E id \in Trial, reading \in Reading : Measure(id, reading)
  \/ \E doc \in Documents : Migrate(doc, Trusted) \/ LoadMigrated(doc)
  \/ Release
  \/ ChangePython

Spec == Init /\ [][Next]_vars

-----------------------------------------------------------------------------
\* The rule of an event's own capsule computes what was reported.
Repeats(b, rule) ==
  Contract(b.reading) /\ Consistent(b.reading) /\ Verdict(rule, b.reading) = b.result

\* Fault: an old event is evaluated by the rule of the running release.
StandingByNewest(s) ==
  IF s.envelope = "operational" THEN "operational"
  ELSE IF Repeats(s.body, newest) THEN "verified"
  ELSE "inconsistent"

\* The environment of a capsule is attested anew before any of its code is run.
Executable(capsule) == capsule.python = python

\* What an event is worth, by the capsule of its own seal.
Standing(s) ==
  IF s.envelope = "operational" THEN "operational"
  ELSE IF s.capsule \notin Catalog THEN "sealed_unknown_capsule"
  ELSE IF ~Executable(s.capsule) THEN "unverifiable"
  ELSE IF Repeats(s.body, s.capsule.rule) THEN "verified"
  ELSE "inconsistent"

Evidence == {s.body : s \in {t \in journal : Structure(t.body) /\ Standing(t) = "verified"}}

\* The projector rebuilds a record from the stored body, without the note that explains why
\* nothing was evaluated, and so takes such an event for malformed.
Usable(b) == b.run = "clean" => b.result \in Evaluable

Shown(s) ==
  [status |-> IF Usable(s.body) THEN Standing(s) ELSE "not_applicable",
   weight |-> IF Usable(s.body) /\ Standing(s) = "verified" /\ s.body.run = "clean"
              THEN "measured_candidate" ELSE "none"]

\* What an event without a verdict tells, to those who only ask what was tried.
Class(b) ==
  CASE b.run = "failed" -> "technical_failure"
    [] b.run = "cancelled" -> "cancelled"
    [] b.run = "invalid" -> "protocol_invalid"
    [] b.run = "clean" -> "unevaluated"
    [] OTHER -> "unknown_operational"

Tried == {[id |-> s.body.id, class |-> Class(s.body)] :
            s \in {t \in journal : t.envelope = "operational"}}

\* The evidence about a variant at a place.
Cell(p, v) == {b \in Evidence : b.id.place = p /\ b.id.variant = v}
ResultsIn(c) == {b.result : b \in c}
Succeeded(c) == ResultsIn(c) \cap {"success", "partial_success"} # {}

Outcome(c) ==
  CASE Succeeded(c) /\ "harmful" \in ResultsIn(c) -> "conflicting"
    [] "harmful" \in ResultsIn(c) -> "harmful"
    [] Succeeded(c) -> "success"
    [] "no_benefit" \in ResultsIn(c) -> "no_benefit"
    [] "inconclusive" \in ResultsIn(c) -> "inconclusive"
    [] OTHER -> "not_evaluated"

Tested(p) == {v \in Variant : Cell(p, v) # {}}
Failing(p) == {v \in Tested(p) : Outcome(Cell(p, v)) \in {"no_benefit", "harmful"}}

Known(m) == m # Unknown

Makers(c) == {m \in {b.maker : b \in c} : Known(m)}
Samples(c) == {b.id.sample : b \in c}

\* Known for every variant, and shared by no two.
Distinct(values) ==
  /\ \A v \in DOMAIN values : values[v] # {}
  /\ \A v, w \in DOMAIN values : v # w => values[v] \cap values[w] = {}

Confounded(p, vs) == {v \in vs : \E b \in Cell(p, v) : b.confounded}

Profile(p, vs) ==
  [variants |-> Cardinality(vs),
   makers_distinct |-> Distinct([v \in vs |-> Makers(Cell(p, v))]),
   samples_distinct |-> Distinct([v \in vs |-> Samples(Cell(p, v))]),
   shared_confounders |-> Cardinality(Confounded(p, vs)) >= 2]

Satisfied(profile) ==
  /\ profile.variants >= 2
  /\ profile.makers_distinct /\ profile.samples_distinct
  /\ ~profile.shared_confounders

Independent(p, vs) == Satisfied(Profile(p, vs))

\* What may be said against the affinity at a place.
Strength(p) ==
  IF \E v \in Tested(p) : Succeeded(Cell(p, v)) THEN "none"
  ELSE IF ~Independent(p, Failing(p)) THEN "none"
  ELSE IF Cardinality(Failing(p)) >= 3 THEN "supported"
  ELSE "limited"

\* How many variants may be compared at a place.
Depth(p) ==
  IF Cardinality(Tested(p)) < 2 \/ Independent(p, Tested(p)) THEN Cardinality(Tested(p)) ELSE 1

\* The open conflicts with enough history for an analysis of gaps.
Ready == {p \in Open : Depth(p) >= 2}

\* What DESi hears of a variant: a conflict of success and harm is no verdict against it.
Told(p, v) ==
  IF Outcome(Cell(p, v)) = "conflicting" THEN "inconclusive" ELSE Outcome(Cell(p, v))

\* What is heard of all variants that have been tested.
AllTold == UNION {{<<p, v, Told(p, v)>> : v \in Tested(p)} : p \in Place}

\* Whether the history is enough for an analysis of gaps.
Dataset ==
  [registered |-> Cardinality(journal), verified |-> Cardinality(Evidence),
   covered |-> {p \in Open : Tested(p) # {}}, ready |-> Ready,
   affinity_known |-> \E p \in Place : Strength(p) # "none",
   verdict |-> IF Ready # {} THEN "sufficient" ELSE "insufficient"]

\* The projection of a cycle, which weighs nothing but the evidence.
Projection ==
  [events |-> {Shown(s) : s \in journal},
   outcomes |-> [p \in Place |-> [v \in Tested(p) |-> Outcome(Cell(p, v))]],
   strength |-> [p \in Place |-> Strength(p)],
   operational |-> Tried, told |-> AllTold, dataset |-> Dataset]

-----------------------------------------------------------------------------
\* What an event was found to be it is found to be again, whatever rules are released after
\* it, for as long as its capsule can be run (evaluate_envelope).
VerdictsAreRepeatable ==
  [][\A s \in journal :
       {Standing(s), Standing(s)'} \subseteq {"verified", "inconsistent"}
         => Standing(s)' = Standing(s)]_vars
=============================================================================
