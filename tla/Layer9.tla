------------------------------- MODULE Layer9 -------------------------------
(***************************************************************************)
(* The update gate of the Layer-9 kernel (src/desi_layer9/core.py).  Every *)
(* change of epistemic state is one call of Layer9.submit: the policy      *)
(* check, then the operator's handler, then the re-folding of the objects  *)
(* the handler names into the incremental snapshot hash, then a Decision.  *)
(* The kernel is single threaded, so one submit is one action.             *)
(*                                                                         *)
(* Objects live in one store whatever their class, as in Layer9._objects:  *)
(* a handler looks its target up by id and mostly never asks for the class.*)
(* Texts, ticks and salience are left out.  The running hash is kept as    *)
(* the set of ids whose contribution to the sum is out of date.            *)
(***************************************************************************)
EXTENDS Integers, FiniteSets

CONSTANTS
  IdOf,         \* the ids of each object class: a function on Kind
  Requesters,   \* origins that submit proposals, a subset of Origin
  Addressed,    \* ids a caller names as the target of a status operator
  Revisions,    \* statuses a caller asks claim_revise for
  MaxTrials,    \* bound on the recorded trials of a method
  TrialIds,     \* trial ids a writer registers trial events under
  TrialReports  \* what a trial event may report

Kind == {"claim", "evidence", "evidence_link", "conflict", "method", "goal",
         "method_trial_event", "project", "preference", "memory_episode",
         "self_model_claim", "operational_state", "narrative_summary",
         "semantic_cluster"}

Origin == {"user", "source", "local_model", "external_model",
           "deterministic_operator", "human", "imported_state", "unknown"}

Status == {"candidate", "provisional", "active", "confirmed", "contested",
           "rejected", "superseded", "quarantined", "expired"}

Authority == {"untrusted", "candidate", "authoritative"}

AbandonedStatus == {"rejected", "superseded"}

Stage == {"open", "under_review", "resolved", "tolerated", "superseded"}

Id == UNION {IdOf[k] : k \in Kind}

ASSUME IdsAssumption ==
  /\ IdOf \in [Kind -> SUBSET Id]
  /\ \A j, k \in Kind : j # k => IdOf[j] \cap IdOf[k] = {}

ASSUME CallersAssumption ==
  Requesters \subseteq Origin /\ Addressed \subseteq Id /\ Revisions \subseteq Status

ASSUME TrialsAssumption == MaxTrials \in Nat

VARIABLES
  obj,       \* id -> the governance fields every object carries
  conflict,  \* conflict id -> its stage, its severity and the claims it names
  link,      \* evidence link id -> the object it is about and how
  trial,     \* method id -> how many trials it had and how many it won
  record,    \* trial event id -> the trial it registers and what it reports
  ledgered,  \* ids whose ledger_event is set
  stale      \* ids whose contribution to the running hash is out of date

vars == <<obj, conflict, link, trial, record, ledgered, stale>>

(***************************************************************************)
(* Policy and transition tables.                                           *)
(***************************************************************************)
Generative == {"local_model", "external_model", "user", "source"}

Authoritative == {"claim_confirm", "goal_create", "project_create",
                  "method_promote", "conflict_resolve", "proposal_accept",
                  "operational_state", "human_validate", "claim_reject",
                  "claim_supersede"}

\* The one control operator, proposal_accept, has no handler: it is always refused.
MayRequest(o, op) == ~(o \in Generative /\ op \in Authoritative)

ClaimMoves ==
  [candidate   |-> {"provisional", "active", "rejected", "quarantined"},
   provisional |-> {"active", "contested", "rejected", "superseded",
                    "quarantined", "expired"},
   active      |-> {"confirmed", "contested", "rejected", "superseded",
                    "quarantined", "expired"},
   confirmed   |-> {"contested", "superseded", "expired"},
   contested   |-> {"active", "confirmed", "rejected", "superseded"},
   rejected    |-> {},
   superseded  |-> {},
   quarantined |-> {"candidate", "rejected"},
   expired     |-> {"active", "rejected"}]

MethodMoves ==
  [candidate   |-> {"provisional", "rejected", "quarantined"},
   provisional |-> {"active", "rejected", "superseded", "quarantined"},
   active      |-> {"superseded", "rejected", "expired"},
   confirmed   |-> {},
   contested   |-> {},
   rejected    |-> {},
   superseded  |-> {},
   quarantined |-> {"candidate", "rejected"},
   expired     |-> {"active", "rejected"}]

GoalMoves ==
  [candidate   |-> {"active", "rejected"},
   provisional |-> {},
   active      |-> {"confirmed", "rejected", "superseded", "expired"},
   confirmed   |-> {"superseded"},
   contested   |-> {},
   rejected    |-> {},
   superseded  |-> {},
   quarantined |-> {},
   expired     |-> {"active", "rejected"}]

StageMoves ==
  [open         |-> {"under_review", "resolved", "tolerated", "superseded"},
   under_review |-> {"open", "resolved", "tolerated", "superseded"},
   tolerated    |-> {"under_review", "resolved", "superseded"},
   resolved     |-> {"open", "superseded"},
   superseded   |-> {}]

\* Staying put is always allowed (validate_transition).
MayMove(moves, from, to) == to = from \/ to \in moves[from]

(***************************************************************************)
(* Objects.                                                                *)
(***************************************************************************)
Unborn == [status |-> "unborn", authority |-> "untrusted", origin |-> "unknown",
           tainted |-> FALSE, validated |-> FALSE, parents |-> {}, early |-> {}]

Object == [status: Status, authority: Authority, origin: Origin,
           tainted: BOOLEAN, validated: BOOLEAN, parents: SUBSET Id, early: SUBSET Id]

NoConflict == [stage |-> "open", hard |-> FALSE, claims |-> {}]
NoLink == [about |-> {}, supports |-> FALSE, reviewed |-> FALSE]
NoTrial == [runs |-> 0, wins |-> 0]
NoRecord == [trial |-> "none", report |-> "none"]

Born == {i \in Id : obj[i].status # "unborn"}

\* Fault: only the proposer's own origin taints, not what it derives from.
OriginTaintOnly(o, targets) == o \in {"local_model", "external_model"}

\* merge_all over the targets there are: contamination is OR-ed and a sign-off is never
\* inherited; output of a model is contaminated from the start.
ProposerTaint(o, targets) ==
  \/ o \in {"local_model", "external_model"}
  \/ \E t \in targets : obj[t].tainted

\* A proposal may name ids nobody has: all its targets become the parents, and a
\* history field keeps which of them were not there yet.
Minted(o, targets, status, authority) ==
  [status |-> status, authority |-> authority, origin |-> o,
   tainted |-> ProposerTaint(o, targets), validated |-> FALSE,
   parents |-> targets, early |-> targets \ Born]

\* What a create operator mints: class, first status, first authority.
Creates ==
  [claim_create             |-> <<"claim", "candidate", "candidate">>,
   method_propose           |-> <<"method", "candidate", "untrusted">>,
   goal_create              |-> <<"goal", "active", "authoritative">>,
   project_create           |-> <<"project", "active", "authoritative">>,
   preference_propose       |-> <<"preference", "candidate", "untrusted">>,
   memory_record            |-> <<"memory_episode", "active", "untrusted">>,
   self_model_propose       |-> <<"self_model_claim", "candidate", "untrusted">>,
   operational_state        |-> <<"operational_state", "active", "authoritative">>,
   semantic_cluster_propose |-> <<"semantic_cluster", "candidate", "untrusted">>,
   narrative_render         |-> <<"narrative_summary", "active", "untrusted">>]

Init ==
  /\ obj = [i \in Id |-> Unborn]
  /\ conflict = [x \in IdOf["conflict"] |-> NoConflict]
  /\ link = [l \in IdOf["evidence_link"] |-> NoLink]
  /\ trial = [m \in IdOf["method"] |-> NoTrial]
  /\ record = [e \in IdOf["method_trial_event"] |-> NoRecord]
  /\ ledgered = {}
  /\ stale = {}

(***************************************************************************)
(* The end of submit.  An accepted operator's ledger event names its       *)
(* targets and the ids the handler returned as changed; exactly those are  *)
(* re-folded into the hash, and the changed ones point at the event.  The  *)
(* proposal and the Decision are re-folded in both outcomes.               *)
(***************************************************************************)
FoldTargetsOnly(targets, changed, mutated) ==  \* Fault: output_refs are not re-folded.
  /\ ledgered' = ledgered \cup changed
  /\ stale' = (stale \cup mutated) \ targets

Accept(targets, changed, mutated) ==
  /\ ledgered' = ledgered \cup changed
  /\ stale' = (stale \cup mutated) \ (targets \cup changed)

Reject(mutated) ==
  /\ stale' = stale \cup mutated
  /\ UNCHANGED ledgered

(***************************************************************************)
(* The operator handlers.                                                  *)
(***************************************************************************)

\* Every operator that only mints one object.
Create(o, op, i, targets) ==
  LET mint == Creates[op] IN
  /\ MayRequest(o, op)
  /\ i \in IdOf[mint[1]] \ Born
  /\ obj' = [obj EXCEPT ![i] = Minted(o, targets, mint[2], mint[3])]
  /\ Accept(targets, {i}, {i})
  /\ UNCHANGED <<conflict, link, trial, record>>

\* The status operators: the table each one consults and where it may lead.  None
\* of them looks at the class of its target.
StatusOps ==
  [claim_revise    |-> [moves |-> ClaimMoves,  to |-> Revisions],
   claim_contest   |-> [moves |-> ClaimMoves,  to |-> {"contested"}],
   claim_reject    |-> [moves |-> ClaimMoves,  to |-> {"rejected"}],
   method_reject   |-> [moves |-> MethodMoves, to |-> {"rejected"}],
   goal_abandon    |-> [moves |-> GoalMoves,   to |-> {"rejected"}],
   project_abandon |-> [moves |-> GoalMoves,   to |-> {"rejected"}]]

ChangeStatus(o, op, x, to) ==
  /\ MayRequest(o, op)
  /\ x \in Addressed \cap Born
  /\ to \in StatusOps[op].to
  /\ MayMove(StatusOps[op].moves, obj[x].status, to)
  /\ obj' = [obj EXCEPT ![x].status = to]
  /\ Accept({x}, {x}, {x})
  /\ UNCHANGED <<conflict, link, trial, record>>

\* goal_update and memory_recall change salience only, never a governance field.
Touch(o, op, x) ==
  /\ x \in Addressed \cap Born
  /\ op = "memory_recall" => x \in IdOf["memory_episode"]
  /\ Accept({x}, {x}, {x})
  /\ UNCHANGED <<obj, conflict, link, trial, record>>

Supports(x) == {l \in IdOf["evidence_link"] \cap Born :
                  x \in link[l].about /\ link[l].supports /\ link[l].reviewed}

\* Fault: a conflict under review no longer counts as open.
UnreviewedConflicts == {k \in IdOf["conflict"] \cap Born : conflict[k].stage = "open"}

OpenConflicts == {k \in IdOf["conflict"] \cap Born :
                    conflict[k].stage \in {"open", "under_review"}}

HardConflict(x) == \E k \in OpenConflicts : conflict[k].hard /\ x \in conflict[k].claims

\* Fault: taint is computed but never enforced.
TaintIgnored(x) == TRUE

TaintCleared(x) == obj[x].tainted => obj[x].validated

\* Fault: the rules of confirmation forget the provenance.
CanConfirmUnsourced(x) ==
  /\ Supports(x) # {}
  /\ ~HardConflict(x)
  /\ obj[x].status # "quarantined"
  /\ TaintCleared(x)

CanConfirm(x) ==
  /\ Supports(x) # {}
  /\ ~HardConflict(x)
  /\ obj[x].origin # "unknown"
  /\ obj[x].status # "quarantined"
  /\ TaintCleared(x)

Confirm(o, x) ==
  /\ MayRequest(o, "claim_confirm")
  /\ x \in Addressed \cap Born
  /\ CanConfirm(x)
  /\ MayMove(ClaimMoves, obj[x].status, "confirmed")
  /\ obj' = [obj EXCEPT ![x].status = "confirmed", ![x].authority = "authoritative"]
  /\ Accept({x}, {x}, {x})
  /\ UNCHANGED <<conflict, link, trial, record>>

\* Nothing asks whether the target exists.
Attach(o, e, l, x, supports, reviewed) ==
  LET new == Minted(o, {x}, "candidate", "untrusted") IN
  /\ e \in IdOf["evidence"] \ Born
  /\ l \in IdOf["evidence_link"] \ Born
  /\ obj' = [obj EXCEPT ![e] = new, ![l] = new]
  /\ link' = [link EXCEPT ![l] = [about |-> {x}, supports |-> supports,
                                  reviewed |-> reviewed]]
  /\ Accept({x}, {e, l}, {e, l})
  /\ UNCHANGED <<conflict, trial, record>>

\* The Evidence is minted before the link's fields are read: an unknown relation or an
\* empty target list raises in between: the request is
\* refused and the Evidence stays in the store.
AttachFails(o, e, targets) ==
  /\ e \in IdOf["evidence"] \ Born
  /\ obj' = [obj EXCEPT ![e] = Minted(o, targets, "candidate", "untrusted")]
  /\ Reject({e})
  /\ UNCHANGED <<conflict, link, trial, record>>

Contestable(x) == obj[x].status \in {"active", "confirmed", "provisional"}

OpenConflict(o, k, claims, hard) ==
  LET contested == {c \in claims : Contestable(c)} IN
  /\ k \in IdOf["conflict"] \ Born
  /\ obj' = [i \in Id |->
               IF i = k THEN Minted(o, claims, "active", "authoritative")
               ELSE IF i \in contested THEN [obj[i] EXCEPT !.status = "contested"]
               ELSE obj[i]]
  /\ conflict' = [conflict EXCEPT ![k] = [stage |-> "open", hard |-> hard,
                                          claims |-> claims]]
  /\ Accept(claims, {k} \cup contested, {k} \cup contested)
  /\ UNCHANGED <<link, trial, record>>

\* A claim id that cannot be looked up raises in the loop over the claims: the request is
\* refused, but the conflict stays in the store, and so does the status of those claims
\* that came before it.  What cannot be looked up names no claim and is left out.
OpenConflictFails(o, k, claims, done, hard) ==
  /\ k \in IdOf["conflict"] \ Born
  /\ done \subseteq {c \in claims : Contestable(c)}
  /\ obj' = [i \in Id |->
               IF i = k THEN Minted(o, claims, "active", "authoritative")
               ELSE IF i \in done THEN [obj[i] EXCEPT !.status = "contested"]
               ELSE obj[i]]
  /\ conflict' = [conflict EXCEPT ![k] = [stage |-> "open", hard |-> hard,
                                          claims |-> claims]]
  /\ Reject({k} \cup done)
  /\ UNCHANGED <<link, trial, record>>

\* conflict_review and conflict_resolve; neither touches the claims of the conflict.
MoveConflict(o, op, k, to) ==
  /\ MayRequest(o, op)
  /\ k \in IdOf["conflict"] \cap Born
  /\ op = "conflict_review" => to = "under_review"
  /\ MayMove(StageMoves, conflict[k].stage, to)
  /\ conflict' = [conflict EXCEPT ![k].stage = to]
  /\ Accept({k}, {k}, {k})
  /\ UNCHANGED <<obj, link, trial, record>>

RecordTrial(o, m, won) ==
  /\ m \in IdOf["method"] \cap Born
  /\ trial[m].runs < MaxTrials
  /\ trial' = [trial EXCEPT ![m].runs = @ + 1, ![m].wins = @ + (IF won THEN 1 ELSE 0)]
  /\ Accept({m}, {m}, {m})
  /\ UNCHANGED <<obj, conflict, link, record>>

\* method_trial_recorded registers a sealed trial event and moves no counter.  The
\* trial id is the key: the same report again records nothing.
Registered(t) == {e \in IdOf["method_trial_event"] \cap Born : record[e].trial = t}

\* Fault: the retry check compares reports only, a trial id may be reused.
RegisterReport(o, e, m, t, report) ==
  /\ \A r \in Registered(t) : record[r].report # report
  /\ e \in IdOf["method_trial_event"] \ Born
  /\ obj' = [obj EXCEPT ![e] = Minted(o, {m}, "active", "authoritative")]
  /\ record' = [record EXCEPT ![e] = [trial |-> t, report |-> report]]
  /\ Accept({m}, {e}, {e})
  /\ UNCHANGED <<conflict, link, trial>>

RegisterTrial(o, e, m, t, report) ==
  /\ \/ /\ Registered(t) = {}
        /\ e \in IdOf["method_trial_event"] \ Born
        /\ obj' = [obj EXCEPT ![e] = Minted(o, {m}, "active", "authoritative")]
        /\ record' = [record EXCEPT ![e] = [trial |-> t, report |-> report]]
        /\ Accept({m}, {e}, {e})
     \/ /\ \E r \in Registered(t) : record[r].report = report
        /\ Accept({m}, {}, {})
        /\ UNCHANGED <<obj, record>>
  /\ UNCHANGED <<conflict, link, trial>>

TrialsForActive == 3

EarnedActive(m) ==
  /\ m \in IdOf["method"]
  /\ trial[m].runs >= TrialsForActive
  /\ trial[m].wins > trial[m].runs - trial[m].wins

\* One gate takes a candidate to provisional, only a tried one goes on to active.
Promote(o, x) ==
  /\ MayRequest(o, "method_promote")
  /\ x \in Addressed \cap Born
  /\ \/ /\ obj[x].status = "candidate"
        /\ obj' = [obj EXCEPT ![x].status = "provisional"]
     \/ /\ obj[x].status = "provisional"
        /\ EarnedActive(x)
        /\ TaintCleared(x)
        /\ obj' = [obj EXCEPT ![x].status = "active", ![x].authority = "authoritative"]
  /\ Accept({x}, {x}, {x})
  /\ UNCHANGED <<conflict, link, trial, record>>

Validate(o, x) ==
  /\ MayRequest(o, "human_validate")
  /\ x \in Addressed \cap Born
  /\ obj' = [obj EXCEPT ![x].validated = TRUE]
  /\ Accept({x}, {x}, {x})
  /\ UNCHANGED <<conflict, link, trial, record>>

\* A request the gate refuses, or whose handler raises before it writes: no operator,
\* an operator this origin may not use, an id nobody has, an illegal transition, a
\* trial id already registered with another report.
Refuse(o) ==
  /\ Reject({})
  /\ UNCHANGED <<obj, conflict, link, trial, record>>

\* What a caller derives a new object from: none, one or two of the addressed ids.
Parents == {T \in SUBSET Addressed : Cardinality(T) <= 2}

\* One call of submit by a proposer of origin o.
Submit(o) ==
  \/ \E op \in DOMAIN Creates, T \in Parents :
       \E i \in IdOf[Creates[op][1]] : Create(o, op, i, T)
  \/ \E op \in DOMAIN StatusOps, x \in Addressed :
       \E to \in StatusOps[op].to : ChangeStatus(o, op, x, to)
  \/ \E op \in {"goal_update", "memory_recall"}, x \in Addressed : Touch(o, op, x)
  \/ \E x \in Addressed : Confirm(o, x) \/ Promote(o, x) \/ Validate(o, x)
  \/ \E e \in IdOf["evidence"], l \in IdOf["evidence_link"], x \in Addressed :
       \E supports, reviewed \in BOOLEAN : Attach(o, e, l, x, supports, reviewed)
  \/ \E e \in IdOf["evidence"], T \in Parents : AttachFails(o, e, T)
  \/ \E k \in IdOf["conflict"], T \in Parents \ {{}}, hard \in BOOLEAN :
       OpenConflict(o, k, T, hard)
  \/ \E k \in IdOf["conflict"], T \in Parents, done \in SUBSET Addressed,
        hard \in BOOLEAN : OpenConflictFails(o, k, T, done, hard)
  \/ \E op \in {"conflict_review", "conflict_resolve"}, k \in IdOf["conflict"] :
       \E to \in Stage : MoveConflict(o, op, k, to)
  \/ \E m \in IdOf["method"], won \in BOOLEAN : RecordTrial(o, m, won)
  \/ \E e \in IdOf["method_trial_event"], m \in IdOf["method"] :
       \E t \in TrialIds, report \in TrialReports : RegisterTrial(o, e, m, t, report)
  \/ Refuse(o)

Next == \E o \in Requesters : Submit(o)

Spec == Init /\ [][Next]_vars

-----------------------------------------------------------------------------
(***************************************************************************)
(* Properties.                                                             *)
(***************************************************************************)
TypeOK ==
  /\ obj \in [Id -> Object \cup {Unborn}]
  /\ conflict \in [IdOf["conflict"] -> [stage: Stage, hard: BOOLEAN, claims: SUBSET Id]]
  /\ link \in [IdOf["evidence_link"] ->
                 [about: SUBSET Id, supports: BOOLEAN, reviewed: BOOLEAN]]
  /\ trial \in [IdOf["method"] -> [runs: Nat, wins: Nat]]
  /\ record \in [IdOf["method_trial_event"] ->
                   [trial: TrialIds \cup {"none"}, report: TrialReports \cup {"none"}]]
  /\ ledgered \subseteq Born
  /\ stale \subseteq Born

\* Claims and methods are minted without authority: theirs is always granted.
Earned == IdOf["claim"] \cup IdOf["method"]
InForce(i) == obj[i].authority = "authoritative"

\* A claim or method in force is backed by what the store still holds, whatever
\* happened since it was granted: its taint is absent or signed off, and there is a
\* reviewed supporting link about it or, for a method, the required trials.
AuthorityIsEarned ==
  \A i \in Earned : InForce(i) =>
    /\ TaintCleared(i)
    /\ i \in IdOf["claim"] => obj[i].origin # "unknown"
    /\ \/ Supports(i) # {}
       \/ i \in IdOf["method"] /\ trial[i].runs >= TrialsForActive

\* Whatever was derived from contaminated material is contaminated itself, through any
\* number of derivations.  One way out is left: a derivation that named its parent
\* before the parent was there has escaped the parent's taint.
TaintSurvivesDerivation ==
  \A i \in Born : (\E p \in obj[i].parents \ obj[i].early : obj[p].tainted) => obj[i].tainted

\* What a request that was refused half-way leaves behind: Evidence or a conflict that
\* no ledger event names, and the claims that a conflict had already contested.
Leftover(i) ==
  \/ i \in (IdOf["evidence"] \cup IdOf["conflict"]) \ ledgered
  \/ /\ obj[i].status = "contested"
     /\ \E k \in IdOf["conflict"] \cap Born : i \in conflict[k].claims

\* The running hash can be wrong about nothing but such leftovers, and nothing in the
\* store but Evidence and conflicts is ever without a ledger event.
DriftIsLeftover ==
  /\ \A i \in stale : Leftover(i)
  /\ Born \ ledgered \subseteq IdOf["evidence"] \cup IdOf["conflict"]

\* Rejected and superseded are final, whatever class the operator was meant for.
AbandonedIsFinal ==
  [][\A i \in Id : obj[i].status \in AbandonedStatus => obj'[i].status = obj[i].status]_vars

\* A claim that an unresolved hard conflict names does not come into force.
NoAuthorityUnderContradiction ==
  [][\A i \in IdOf["claim"] :
       ~InForce(i) /\ obj'[i].authority = "authoritative"
         => ~\E k \in IdOf["conflict"] \cap Born :
               /\ i \in conflict[k].claims
               /\ conflict[k].hard
               /\ conflict[k].stage \notin {"resolved", "tolerated", "superseded"}]_vars

\* Two records of one trial would count it twice: a trial id has one record at most,
\* however often and by whomever it is registered.
TrialRecordedOnce == \A t \in TrialIds : Cardinality(Registered(t)) <= 1

\* The gate implements the abstract contract of Standing for claims and methods.
StandingOf(i) ==
  IF obj[i].status = "unborn" THEN "absent"
  ELSE IF obj[i].status \in AbandonedStatus THEN "given_up" ELSE "open"

Contract == INSTANCE Standing WITH
  Thing     <- Earned,
  standing  <- [i \in Earned |-> StandingOf(i)],
  tainted   <- {i \in Earned : obj[i].tainted},
  validated <- {i \in Earned : obj[i].validated},
  inForce   <- {i \in Earned : InForce(i)}

\* Every submit is a step of the contract, or leaves claims and methods as they were.
RefinesStanding == Contract!StandingSpec
=============================================================================
