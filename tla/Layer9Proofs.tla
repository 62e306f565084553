---------------------------- MODULE Layer9Proofs ----------------------------
(***************************************************************************)
(* Theorems about the gate, for every set of ids, of callers and of        *)
(* addressed objects.  All of them rest on one lemma per operator: what    *)
(* the operator may do to the store (StepOK), whoever asks for it.         *)
(***************************************************************************)
EXTENDS Layer9, TLAPS, FiniteSetTheorems

-----------------------------------------------------------------------------
(* The tables. *)

\* What a create operator mints has a kind, a status and an authority, and authority is
\* given at birth only to kinds that need not earn it.
LEMMA CreatesTable ==
  ASSUME NEW op \in DOMAIN Creates
  PROVE  /\ Creates[op][1] \in Kind
         /\ Creates[op][2] \in Status
         /\ Creates[op][3] \in Authority
         /\ Creates[op][1] \in {"claim", "method"} => Creates[op][3] # "authoritative"
         /\ Creates[op][1] # "method_trial_event"
  BY DEF Creates, Kind, Status, Authority

\* Every status operator leads to a status, and out of none of the abandoned ones.
LEMMA StatusTable ==
  ASSUME NEW op \in DOMAIN StatusOps, NEW to \in StatusOps[op].to
  PROVE  /\ to \in Status
         /\ \A s \in AbandonedStatus : MayMove(StatusOps[op].moves, s, to) => to = s
<1>1. StatusOps[op].moves \in {ClaimMoves, MethodMoves, GoalMoves}
  BY DEF StatusOps
<1>2. StatusOps[op].to \in {Revisions, {"contested"}, {"rejected"}}
  BY DEF StatusOps
<1>3. to \in Status
  BY <1>2, CallersAssumption DEF Status
<1>4. ASSUME NEW s \in AbandonedStatus
      PROVE  ClaimMoves[s] = {} /\ MethodMoves[s] = {} /\ GoalMoves[s] = {}
  BY DEF AbandonedStatus, ClaimMoves, MethodMoves, GoalMoves
<1>5. QED
  BY <1>1, <1>3, <1>4 DEF MayMove

LEMMA MintedIsObject ==
  ASSUME NEW o \in Origin, NEW T \in SUBSET Id, NEW s \in Status, NEW a \in Authority
  PROVE  Minted(o, T, s, a) \in Object
  BY DEF Minted, Object, Born, ProposerTaint

-----------------------------------------------------------------------------
(* What any operator may do to the store. *)

\* An object stays what it is: whatever happens to it, its origin, its contamination
\* and its parents are fixed at birth, a sign-off stays, and abandoned is final.
Kept(i) ==
  /\ obj'[i].status # "unborn"
  /\ obj'[i].origin = obj[i].origin
  /\ obj'[i].tainted = obj[i].tainted
  /\ obj'[i].parents = obj[i].parents
  /\ obj'[i].early = obj[i].early
  /\ obj[i].validated => obj'[i].validated
  /\ obj[i].status \in AbandonedStatus => obj'[i].status = obj[i].status

\* An object comes into being without a sign-off, with the contamination of its
\* parents and, if authority has to be earned, without authority.
Fresh(i) ==
  /\ ~obj'[i].validated
  /\ obj'[i].parents \ obj'[i].early \subseteq Born
  /\ (\E p \in obj'[i].parents : obj[p].tainted) => obj'[i].tainted
  /\ i \in Earned => obj'[i].authority # "authoritative"

\* Authority is granted for reviewed support or for the required trials.
Granted(i) ==
  /\ obj'[i].validated = obj[i].validated
  /\ obj[i].status \notin AbandonedStatus
  /\ obj'[i].status \notin AbandonedStatus
  /\ TaintCleared(i)
  /\ i \in IdOf["claim"] => obj[i].origin # "unknown" /\ ~HardConflict(i)
  /\ \/ Supports(i) # {}
     \/ i \in IdOf["method"] /\ trial[i].runs >= TrialsForActive

\* Only Evidence and conflicts escape the ledger; only a leftover goes stale, and while it
\* is stale it stays one.
Accounted ==
  /\ Born' \ Born \subseteq ledgered' \cup IdOf["evidence"] \cup IdOf["conflict"]
  /\ ledgered \subseteq ledgered'
  /\ \A i \in stale' : i \in stale \/ Leftover(i)'
  /\ \A i \in stale' \cap stale : Leftover(i) => Leftover(i)'

\* What a conflict names stays what it named.
ClaimsKept ==
  \A k \in IdOf["conflict"] \cap Born : k \in Born' /\ conflict'[k].claims = conflict[k].claims

\* A record of a trial stays what it is; a new one comes alone, under a trial id that no
\* record bears yet.
TrialEvents == IdOf["method_trial_event"] \cap Born

RegistersOnce ==
  \A e \in TrialEvents' :
    IF e \in TrialEvents
    THEN record'[e] = record[e]
    ELSE Registered(record'[e].trial) = {} /\ TrialEvents' \ TrialEvents = {e}

StepOK ==
  /\ Accounted
  /\ RegistersOnce
  /\ \A i \in Born : Kept(i)
  /\ \A i \in Id \ Born : i \in Born' => Fresh(i)
  /\ \A i \in Earned \cap Born : ~InForce(i) /\ InForce(i)' => Granted(i)
  /\ \A l \in IdOf["evidence_link"] \cap Born : link'[l] = link[l]
  /\ \A m \in IdOf["method"] : trial'[m].runs >= trial[m].runs

LEMMA AcceptAccounts ==
  ASSUME NEW T, NEW changed, NEW mutated \in SUBSET changed,
         Accept(T, changed, mutated), Born' \ Born \subseteq changed,
         stale \subseteq Born, ClaimsKept,
         \A i \in Born \ changed : obj'[i].status = obj[i].status
  PROVE  Accounted
<1>1. stale' \subseteq stale \ changed /\ ledgered' = ledgered \cup changed
  BY DEF Accept
<1>2. ASSUME NEW i \in stale', Leftover(i)
      PROVE  Leftover(i)'
  <2>1. i \in Born \ changed
    BY <1>1, <1>2
  <2>2. QED
    BY <1>1, <1>2, <2>1 DEF Leftover, ClaimsKept
<1>3. QED
  BY <1>1, <1>2 DEF Accounted

\* Nothing happens to what is stale in a refusal that comes before the first write.
LEMMA NothingAccounts ==
  ASSUME UNCHANGED <<obj, conflict>>, ledgered' = ledgered, stale' \subseteq stale
  PROVE  Accounted
  BY DEF Accounted, Leftover, Born

LEMMA NothingRegistered ==
  ASSUME UNCHANGED record, NEW N, Born' \subseteq Born \cup N,
         N \cap IdOf["method_trial_event"] = {}
  PROVE  RegistersOnce
  BY DEF RegistersOnce, TrialEvents

LEMMA NobodyBorn ==
  ASSUME UNCHANGED record, Born' = Born
  PROVE  RegistersOnce
  BY DEF RegistersOnce, TrialEvents

LEMMA CreateStep ==
  ASSUME TypeOK, NEW o \in Requesters, NEW op \in DOMAIN Creates, NEW T \in Parents,
         NEW i \in IdOf[Creates[op][1]], Create(o, op, i, T)
  PROVE  TypeOK' /\ StepOK
<1> DEFINE s == Creates[op][2]
           a == Creates[op][3]
           new == Minted(o, T, s, a)
<1>1. /\ i \in Id /\ i \notin Born /\ T \subseteq Id /\ o \in Origin
      /\ obj' = [obj EXCEPT ![i] = new]
      /\ UNCHANGED <<conflict, link, trial, record>>
      /\ Accept(T, {i}, {i})
  BY CreatesTable, IdsAssumption, CallersAssumption DEF Create, Parents, Id
<1>2. new \in Object /\ new.status # "unborn"
  BY <1>1, MintedIsObject, CreatesTable DEF Minted, Status
<1>3. Born' = Born \cup {i} /\ obj' \in [Id -> Object \cup {Unborn}]
  BY <1>1, <1>2 DEF TypeOK, Born
<1>4. TypeOK'
  BY <1>1, <1>3 DEF TypeOK, Accept
<1>5. i \in Earned => a # "authoritative"
  BY CreatesTable, IdsAssumption DEF Earned, Kind
<1>6. Fresh(i)
  BY <1>1, <1>5 DEF Fresh, Minted, ProposerTaint, TypeOK
<1>7. \A j \in Born : obj'[j] = obj[j]
  BY <1>1 DEF TypeOK, Born
<1>8. Accounted
  BY <1>1, <1>3, <1>7, AcceptAccounts DEF ClaimsKept, TypeOK
<1>9. {i} \cap IdOf["method_trial_event"] = {}
  BY CreatesTable, IdsAssumption DEF Kind
<1>10. RegistersOnce
  BY <1>1, <1>3, <1>9, NothingRegistered
<1>11. QED
  BY <1>1, <1>8, <1>10, <1>3, <1>4, <1>6, <1>7 DEF StepOK, Kept, InForce, TypeOK, Born

\* Most operators rewrite one object there is, and leave the others alone.
LEMMA RewriteOne ==
  ASSUME TypeOK, NEW x \in Born, NEW new \in Object, obj' = [obj EXCEPT ![x] = new]
  PROVE  /\ Born' = Born
         /\ obj' \in [Id -> Object \cup {Unborn}]
         /\ obj'[x] = new
         /\ \A j \in Id \ {x} : obj'[j] = obj[j]
<1>1. new.status # "unborn"
  BY DEF Object, Status
<1>2. obj' \in [Id -> Object \cup {Unborn}] /\ x \in Id
  BY DEF TypeOK, Born
<1>3. obj'[x] = new /\ \A j \in Id \ {x} : obj'[j] = obj[j]
  BY <1>2 DEF TypeOK
<1>4. QED
  BY <1>1, <1>2, <1>3 DEF Born

LEMMA BornIsObject ==
  ASSUME TypeOK, NEW x \in Born
  PROVE  x \in Id /\ obj[x] \in Object
  BY DEF TypeOK, Born, Unborn

LEMMA ChangeStatusStep ==
  ASSUME TypeOK, NEW o \in Requesters, NEW op \in DOMAIN StatusOps, NEW x \in Addressed,
         NEW to \in StatusOps[op].to, ChangeStatus(o, op, x, to)
  PROVE  TypeOK' /\ StepOK
<1> DEFINE new == [obj[x] EXCEPT !.status = to]
<1>1. /\ x \in Born /\ obj' = [obj EXCEPT ![x] = new]
      /\ MayMove(StatusOps[op].moves, obj[x].status, to)
      /\ Accept({x}, {x}, {x})
      /\ UNCHANGED <<conflict, link, trial, record>>
  BY DEF ChangeStatus, TypeOK, Born
<1>2. x \in Id /\ obj[x] \in Object /\ to \in Status /\ o \in Origin
  BY <1>1, BornIsObject, StatusTable, CallersAssumption
<1>3. new \in Object
  BY <1>2 DEF Object
<1>4. /\ Born' = Born
      /\ obj' \in [Id -> Object \cup {Unborn}]
      /\ obj'[x] = new
      /\ \A j \in Id \ {x} : obj'[j] = obj[j]
  BY <1>1, <1>3, RewriteOne
<1>5. TypeOK'
  BY <1>1, <1>2, <1>4 DEF TypeOK, Accept
<1>6. Kept(x)
  BY <1>1, <1>2, <1>4, StatusTable DEF Kept, Object, Status
<1>7. \A j \in Born \ {x} : Kept(j)
  BY <1>4 DEF Kept, Born
<1>8. \A j \in Id : obj'[j].authority = obj[j].authority
  BY <1>2, <1>4 DEF Object
<1>9. Accounted
  BY <1>1, <1>4, AcceptAccounts DEF ClaimsKept, TypeOK, Born
<1>10. RegistersOnce
  BY <1>1, <1>4, NobodyBorn
<1>11. QED
  BY <1>10, <1>1, <1>9, <1>4, <1>5, <1>6, <1>7, <1>8, IdsAssumption
     DEF StepOK, InForce, TypeOK, Earned, Born

LEMMA TouchStep ==
  ASSUME TypeOK, NEW o \in Requesters, NEW op, NEW x \in Addressed, Touch(o, op, x)
  PROVE  TypeOK' /\ StepOK
<1>1. /\ x \in Born /\ o \in Origin
      /\ Accept({x}, {x}, {x})
      /\ UNCHANGED <<obj, conflict, link, trial, record>>
  BY CallersAssumption DEF Touch
<1>2. \A m \in IdOf["method"] : trial'[m].runs >= trial[m].runs
  BY <1>1 DEF TypeOK
<1>3. TypeOK'
  BY <1>1 DEF TypeOK, Accept, Born
<1>4. Accounted
  BY <1>1, AcceptAccounts DEF ClaimsKept, TypeOK, Born
<1>5. RegistersOnce
  BY <1>1, NobodyBorn DEF Born
<1>6. QED
  BY <1>5, <1>1, <1>4, <1>2, <1>3 DEF StepOK, Kept, InForce, Born

LEMMA ConfirmStep ==
  ASSUME TypeOK, NEW o \in Requesters, NEW x \in Addressed, Confirm(o, x)
  PROVE  TypeOK' /\ StepOK
<1> DEFINE new == [obj[x] EXCEPT !.status = "confirmed", !.authority = "authoritative"]
<1>1. /\ x \in Born /\ obj' = [obj EXCEPT ![x] = new]
      /\ CanConfirm(x)
      /\ MayMove(ClaimMoves, obj[x].status, "confirmed")
      /\ Accept({x}, {x}, {x})
      /\ UNCHANGED <<conflict, link, trial, record>>
  BY DEF Confirm, TypeOK, Born
<1>2. x \in Id /\ obj[x] \in Object /\ o \in Origin
  BY <1>1, BornIsObject, CallersAssumption
<1>3. new \in Object
  BY <1>2 DEF Object, Status, Authority
<1>4. /\ Born' = Born
      /\ obj' \in [Id -> Object \cup {Unborn}]
      /\ obj'[x] = new
      /\ \A j \in Id \ {x} : obj'[j] = obj[j]
  BY <1>1, <1>3, RewriteOne
<1>5. TypeOK'
  BY <1>1, <1>2, <1>4 DEF TypeOK, Accept
<1>6. obj[x].status \notin AbandonedStatus
  BY <1>1 DEF MayMove, ClaimMoves, AbandonedStatus
<1>7. \A j \in Born : Kept(j)
  BY <1>2, <1>4, <1>6 DEF Kept, Object, Born
<1>8. Granted(x)
  BY <1>1, <1>2, <1>4, <1>6 DEF Granted, CanConfirm, AbandonedStatus, Object
<1>9. Accounted
  BY <1>1, <1>4, AcceptAccounts DEF ClaimsKept, TypeOK, Born
<1>10. RegistersOnce
  BY <1>1, <1>4, NobodyBorn
<1>11. QED
  BY <1>10, <1>1, <1>9, <1>4, <1>5, <1>7, <1>8, IdsAssumption DEF StepOK, InForce, TypeOK, Earned, Born

LEMMA PromoteStep ==
  ASSUME TypeOK, NEW o \in Requesters, NEW x \in Addressed, Promote(o, x)
  PROVE  TypeOK' /\ StepOK
<1>1. x \in Born /\ x \in Id /\ obj[x] \in Object /\ o \in Origin
  BY BornIsObject, CallersAssumption DEF Promote
<1>2. Accept({x}, {x}, {x}) /\ UNCHANGED <<conflict, link, trial, record>>
  BY DEF Promote
<1>3. CASE obj[x].status = "candidate" /\ obj' = [obj EXCEPT ![x].status = "provisional"]
  <2> DEFINE new == [obj[x] EXCEPT !.status = "provisional"]
  <2>1. new \in Object /\ obj' = [obj EXCEPT ![x] = new]
    BY <1>1, <1>3 DEF Object, Status, TypeOK
  <2>2. /\ Born' = Born
        /\ obj' \in [Id -> Object \cup {Unborn}]
        /\ obj'[x] = new
        /\ \A j \in Id \ {x} : obj'[j] = obj[j]
    BY <1>1, <2>1, RewriteOne
  <2>3. TypeOK'
    BY <1>1, <1>2, <2>2 DEF TypeOK, Accept
  <2>4. \A j \in Born : Kept(j)
    BY <1>1, <1>3, <2>2 DEF Kept, Object, Born, AbandonedStatus
  <2>5. \A j \in Id : obj'[j].authority = obj[j].authority
    BY <1>1, <2>2 DEF Object
  <2>6. Accounted
    BY <1>2, <2>2, AcceptAccounts DEF ClaimsKept, TypeOK, Born
  <2>7. RegistersOnce
    BY <1>2, <2>2, NobodyBorn
  <2>8. QED
    BY <2>7, <1>2, <2>2, <2>3, <2>4, <2>5, <2>6, IdsAssumption DEF StepOK, InForce, TypeOK, Earned, Born
<1>4. CASE /\ obj[x].status = "provisional"
           /\ EarnedActive(x)
           /\ TaintCleared(x)
           /\ obj' = [obj EXCEPT ![x].status = "active", ![x].authority = "authoritative"]
  <2> DEFINE new == [obj[x] EXCEPT !.status = "active", !.authority = "authoritative"]
  <2>1. new \in Object /\ obj' = [obj EXCEPT ![x] = new]
    BY <1>1, <1>4 DEF Object, Status, Authority, TypeOK
  <2>2. /\ Born' = Born
        /\ obj' \in [Id -> Object \cup {Unborn}]
        /\ obj'[x] = new
        /\ \A j \in Id \ {x} : obj'[j] = obj[j]
    BY <1>1, <2>1, RewriteOne
  <2>3. TypeOK'
    BY <1>1, <1>2, <2>2 DEF TypeOK, Accept
  <2>4. \A j \in Born : Kept(j)
    BY <1>1, <1>4, <2>2 DEF Kept, Object, Born, AbandonedStatus
  <2>5. x \in IdOf["method"] /\ x \notin IdOf["claim"]
    BY <1>4, IdsAssumption DEF EarnedActive, Kind
  <2>6. Granted(x)
    BY <1>1, <1>4, <2>2, <2>5 DEF Granted, EarnedActive, AbandonedStatus, Object
  <2>7. \A j \in Id \ {x} : obj'[j].authority = obj[j].authority
    BY <2>2
  <2>8. \A m \in IdOf["method"] : trial'[m].runs >= trial[m].runs
    BY <1>2 DEF TypeOK
  <2>9. \A i \in Earned \cap Born : ~InForce(i) /\ InForce(i)' => Granted(i)
    BY <2>6, <2>7 DEF InForce, Born
  <2>10. Accounted
    BY <1>2, <2>2, AcceptAccounts DEF ClaimsKept, TypeOK, Born
  <2>11. RegistersOnce
    BY <1>2, <2>2, NobodyBorn
  <2>12. QED
    BY <2>11, <1>2, <2>2, <2>3, <2>4, <2>8, <2>9, <2>10 DEF StepOK
<1>5. QED
  BY <1>3, <1>4 DEF Promote

LEMMA ValidateStep ==
  ASSUME TypeOK, NEW o \in Requesters, NEW x \in Addressed, Validate(o, x)
  PROVE  TypeOK' /\ StepOK
<1> DEFINE new == [obj[x] EXCEPT !.validated = TRUE]
<1>1. /\ x \in Born /\ obj' = [obj EXCEPT ![x] = new]
      /\ Accept({x}, {x}, {x})
      /\ UNCHANGED <<conflict, link, trial, record>>
  BY DEF Validate, TypeOK, Born
<1>2. x \in Id /\ obj[x] \in Object /\ o \in Origin
  BY <1>1, BornIsObject, CallersAssumption
<1>3. new \in Object
  BY <1>2 DEF Object
<1>4. /\ Born' = Born
      /\ obj' \in [Id -> Object \cup {Unborn}]
      /\ obj'[x] = new
      /\ \A j \in Id \ {x} : obj'[j] = obj[j]
  BY <1>1, <1>3, RewriteOne
<1>5. TypeOK'
  BY <1>1, <1>2, <1>4 DEF TypeOK, Accept
<1>6. \A j \in Born : Kept(j)
  BY <1>2, <1>4 DEF Kept, Object, Born
<1>7. \A j \in Id : obj'[j].authority = obj[j].authority
  BY <1>2, <1>4 DEF Object
<1>8. Accounted
  BY <1>1, <1>4, AcceptAccounts DEF ClaimsKept, TypeOK, Born
<1>9. RegistersOnce
  BY <1>1, <1>4, NobodyBorn
<1>10. QED
  BY <1>9, <1>1, <1>8, <1>4, <1>5, <1>6, <1>7, IdsAssumption DEF StepOK, InForce, TypeOK, Earned, Born

LEMMA AttachStep ==
  ASSUME TypeOK, NEW o \in Requesters, NEW e \in IdOf["evidence"],
         NEW l \in IdOf["evidence_link"], NEW x \in Addressed,
         NEW supports \in BOOLEAN, NEW reviewed \in BOOLEAN,
         Attach(o, e, l, x, supports, reviewed)
  PROVE  TypeOK' /\ StepOK
<1> DEFINE new == Minted(o, {x}, "candidate", "untrusted")
<1>1. /\ e \in Id \ Born /\ l \in Id \ Born /\ l \in IdOf["evidence_link"]
      /\ x \in Id /\ o \in Origin
      /\ obj' = [obj EXCEPT ![e] = new, ![l] = new]
      /\ link' = [link EXCEPT ![l] = [about |-> {x}, supports |-> supports,
                                      reviewed |-> reviewed]]
      /\ Accept({x}, {e, l}, {e, l})
      /\ UNCHANGED <<conflict, trial, record>>
  BY IdsAssumption, CallersAssumption DEF Attach, Kind
<1>2. new \in Object /\ new.status # "unborn"
  BY <1>1, MintedIsObject DEF Minted, Status, Authority
<1>3. Born' = Born \cup {e, l} /\ obj' \in [Id -> Object \cup {Unborn}]
  BY <1>1, <1>2 DEF TypeOK, Born
<1>4. TypeOK'
  BY <1>1, <1>3 DEF TypeOK, Accept
<1>5. Fresh(e) /\ Fresh(l)
  BY <1>1 DEF Fresh, Minted, ProposerTaint, TypeOK
<1>6. \A j \in Born : obj'[j] = obj[j]
  BY <1>1 DEF TypeOK, Born
<1>7. \A k \in IdOf["evidence_link"] \cap Born : link'[k] = link[k]
  BY <1>1 DEF TypeOK
<1>8. \A i \in Born : Kept(i)
  BY <1>6 DEF Kept, Born
<1>9. \A i \in Id \ Born : i \in Born' => Fresh(i)
  BY <1>3, <1>5
<1>10. \A i \in Earned \cap Born : InForce(i)' => InForce(i)
  BY <1>6 DEF InForce
<1>11. \A m \in IdOf["method"] : trial'[m].runs >= trial[m].runs
  BY <1>1 DEF TypeOK
<1>12. Accounted
  <2>1. ClaimsKept /\ stale \subseteq Born
    BY <1>1, <1>3 DEF ClaimsKept, TypeOK
  <2>2. Born' \ Born \subseteq {e, l} /\ \A i \in Born \ {e, l} : obj'[i].status = obj[i].status
    BY <1>3, <1>6
  <2>3. QED
    BY <1>1, <2>1, <2>2, AcceptAccounts
<1>13. RegistersOnce
  BY <1>1, <1>3, NothingRegistered, IdsAssumption DEF Kind
<1>14. QED
  BY <1>13, <1>12, <1>4, <1>7, <1>8, <1>9, <1>10, <1>11 DEF StepOK

LEMMA AttachFailsStep ==
  ASSUME TypeOK, NEW o \in Requesters, NEW e \in IdOf["evidence"], NEW T \in Parents,
         AttachFails(o, e, T)
  PROVE  TypeOK' /\ StepOK
<1> DEFINE new == Minted(o, T, "candidate", "untrusted")
<1>1. /\ e \in Id \ Born /\ T \subseteq Id /\ o \in Origin
      /\ obj' = [obj EXCEPT ![e] = new]
      /\ Reject({e})
      /\ UNCHANGED <<conflict, link, trial, record>>
  BY IdsAssumption, CallersAssumption DEF AttachFails, Kind, Parents
<1>2. new \in Object /\ new.status # "unborn"
  BY <1>1, MintedIsObject DEF Minted, Status, Authority
<1>3. Born' = Born \cup {e} /\ obj' \in [Id -> Object \cup {Unborn}]
  BY <1>1, <1>2 DEF TypeOK, Born
<1>4. TypeOK'
  BY <1>1, <1>3 DEF TypeOK, Reject
<1>5. Fresh(e)
  BY <1>1 DEF Fresh, Minted, ProposerTaint, TypeOK
<1>6. \A j \in Born : obj'[j] = obj[j]
  BY <1>1 DEF TypeOK, Born
<1>7. Accounted
  <2>1. \A i \in stale' : i \in stale \/ i = e
    BY <1>1 DEF Reject
  <2>2. \A i \in stale \cap stale' : Leftover(i) => Leftover(i)'
    BY <1>1, <1>3, <1>6 DEF Reject, Leftover, TypeOK
  <2>3. Leftover(e)'
    BY <1>1 DEF Reject, Leftover, TypeOK
  <2>4. QED
    BY <1>1, <1>3, <2>1, <2>2, <2>3 DEF Reject, Accounted
<1>8. RegistersOnce
  BY <1>1, <1>3, NothingRegistered, IdsAssumption DEF Kind
<1>9. QED
  BY <1>8, <1>1, <1>7, <1>3, <1>4, <1>5, <1>6 DEF StepOK, Kept, InForce, TypeOK, Born

LEMMA OpenConflictStep ==
  ASSUME TypeOK, NEW o \in Requesters, NEW k \in IdOf["conflict"], NEW T \in Parents,
         NEW hard \in BOOLEAN, OpenConflict(o, k, T, hard)
  PROVE  TypeOK' /\ StepOK
<1> DEFINE new == Minted(o, T, "active", "authoritative")
           contested == {c \in T : Contestable(c)}
<1>1. /\ k \in Id \ Born /\ k \notin Earned /\ T \subseteq Id /\ o \in Origin
      /\ obj' = [i \in Id |->
                   IF i = k THEN new
                   ELSE IF i \in contested THEN [obj[i] EXCEPT !.status = "contested"]
                   ELSE obj[i]]
      /\ conflict' = [conflict EXCEPT ![k] = [stage |-> "open", hard |-> hard, claims |-> T]]
      /\ Accept(T, {k} \cup contested, {k} \cup contested)
      /\ UNCHANGED <<link, trial, record>>
  BY IdsAssumption, CallersAssumption DEF OpenConflict, Kind, Parents, Earned
<1>2. new \in Object /\ new.status # "unborn"
  BY <1>1, MintedIsObject DEF Minted, Status, Authority
<1>3. \A c \in contested : /\ c \in Born /\ obj[c] \in Object
                           /\ [obj[c] EXCEPT !.status = "contested"] \in Object
                           /\ obj[c].status \notin AbandonedStatus
  <2>1. ASSUME NEW c \in contested PROVE c \in Born /\ obj[c].status \notin AbandonedStatus
    BY <1>1 DEF Contestable, Born, AbandonedStatus
  <2>2. ASSUME NEW c \in contested
        PROVE  obj[c] \in Object /\ [obj[c] EXCEPT !.status = "contested"] \in Object
    BY <2>1, BornIsObject DEF Object, Status
  <2>3. QED
    BY <2>1, <2>2
<1>4. /\ \A i \in Id \ ({k} \cup contested) : obj'[i] = obj[i]
      /\ \A i \in contested : obj'[i] = [obj[i] EXCEPT !.status = "contested"]
      /\ obj'[k] = new
  BY <1>1, <1>3
<1>5. obj' \in [Id -> Object \cup {Unborn}]
  BY <1>1, <1>2, <1>3 DEF TypeOK
<1>6. \A j \in Born : Kept(j)
  BY <1>1, <1>3, <1>4 DEF Kept, Object, Born
<1>7. Born' = Born \cup {k}
  <2>1. ASSUME NEW i \in Id, i \notin Born, i # k
        PROVE  obj'[i].status = "unborn"
    BY <1>3, <1>4, <2>1 DEF Born
  <2>2. \A i \in Born : obj'[i].status # "unborn"
    BY <1>6 DEF Kept
  <2>3. obj'[k].status # "unborn" /\ k \in Id
    BY <1>1, <1>2, <1>4
  <2>4. QED
    BY <2>1, <2>2, <2>3 DEF Born
<1>8. TypeOK'
  <2>1. ledgered' \subseteq Born' /\ stale' \subseteq Born'
    BY <1>1, <1>3, <1>7 DEF TypeOK, Accept
  <2>2. conflict' \in [IdOf["conflict"] ->
                         [stage: Stage, hard: BOOLEAN, claims: SUBSET Id]]
    BY <1>1 DEF TypeOK, Stage
  <2>3. QED
    BY <1>1, <1>5, <2>1, <2>2 DEF TypeOK, Accept
<1>9. Fresh(k)
  BY <1>1, <1>4 DEF Fresh, Minted, ProposerTaint, TypeOK
<1>10. \A i \in Earned \cap Born : InForce(i)' => InForce(i)
  BY <1>1, <1>3, <1>4 DEF InForce, Object, Born, Earned
<1>11. \A i \in Id \ Born : i \in Born' => Fresh(i)
  BY <1>7, <1>9
<1>12. \A m \in IdOf["method"] : trial'[m].runs >= trial[m].runs
  BY <1>1 DEF TypeOK
<1>13. Accounted
  <2>1. ClaimsKept /\ \A i \in Born \ ({k} \cup contested) : obj'[i].status = obj[i].status
    BY <1>1, <1>4, <1>7 DEF ClaimsKept, TypeOK, Born
  <2>2. Born' \ Born \subseteq {k} \cup contested /\ stale \subseteq Born
    BY <1>7 DEF TypeOK
  <2>3. QED
    BY <1>1, <2>1, <2>2, AcceptAccounts
<1>14. RegistersOnce
  BY <1>1, <1>7, NothingRegistered, IdsAssumption DEF Kind
<1>15. QED
  BY <1>14, <1>1, <1>13, <1>6, <1>8, <1>10, <1>11, <1>12 DEF StepOK

LEMMA OpenConflictFailsStep ==
  ASSUME TypeOK, NEW o \in Requesters, NEW k \in IdOf["conflict"], NEW T \in Parents,
         NEW done \in SUBSET Addressed, NEW hard \in BOOLEAN,
         OpenConflictFails(o, k, T, done, hard)
  PROVE  TypeOK' /\ StepOK
<1> DEFINE new == Minted(o, T, "active", "authoritative")
<1>1. /\ k \in Id \ Born /\ k \notin Earned /\ T \subseteq Id /\ o \in Origin
      /\ done \subseteq {c \in T : Contestable(c)}
      /\ obj' = [i \in Id |->
                   IF i = k THEN new
                   ELSE IF i \in done THEN [obj[i] EXCEPT !.status = "contested"]
                   ELSE obj[i]]
      /\ conflict' = [conflict EXCEPT ![k] = [stage |-> "open", hard |-> hard, claims |-> T]]
      /\ Reject({k} \cup done)
      /\ UNCHANGED <<link, trial, record>>
  BY IdsAssumption, CallersAssumption DEF OpenConflictFails, Kind, Parents, Earned
<1>2. new \in Object /\ new.status # "unborn"
  BY <1>1, MintedIsObject DEF Minted, Status, Authority
<1>3. \A c \in done : /\ c \in Born /\ c \in T /\ obj[c] \in Object
                      /\ [obj[c] EXCEPT !.status = "contested"] \in Object
                      /\ obj[c].status \notin AbandonedStatus
  <2>1. ASSUME NEW c \in done
        PROVE  c \in T /\ c \in Born /\ obj[c].status \notin AbandonedStatus
    BY <1>1 DEF Contestable, Born, AbandonedStatus
  <2>2. ASSUME NEW c \in done
        PROVE  obj[c] \in Object /\ [obj[c] EXCEPT !.status = "contested"] \in Object
    BY <2>1, BornIsObject DEF Object, Status
  <2>3. QED
    BY <2>1, <2>2
<1>4. /\ \A i \in Id \ ({k} \cup done) : obj'[i] = obj[i]
      /\ \A i \in done : obj'[i] = [obj[i] EXCEPT !.status = "contested"]
      /\ obj'[k] = new
  BY <1>1, <1>3
<1>5. obj' \in [Id -> Object \cup {Unborn}]
  BY <1>1, <1>2, <1>3 DEF TypeOK
<1>6. \A j \in Born : Kept(j)
  BY <1>1, <1>3, <1>4 DEF Kept, Object, Born
<1>7. Born' = Born \cup {k}
  <2>1. ASSUME NEW i \in Id, i \notin Born, i # k
        PROVE  obj'[i].status = "unborn"
    BY <1>3, <1>4, <2>1 DEF Born
  <2>2. \A i \in Born : obj'[i].status # "unborn"
    BY <1>6 DEF Kept
  <2>3. obj'[k].status # "unborn" /\ k \in Id
    BY <1>1, <1>2, <1>4
  <2>4. QED
    BY <2>1, <2>2, <2>3 DEF Born
<1>8. TypeOK'
  <2>1. ledgered' \subseteq Born' /\ stale' \subseteq Born'
    BY <1>1, <1>3, <1>7 DEF TypeOK, Reject
  <2>2. conflict' \in [IdOf["conflict"] ->
                         [stage: Stage, hard: BOOLEAN, claims: SUBSET Id]]
    BY <1>1 DEF TypeOK, Stage
  <2>3. QED
    BY <1>1, <1>5, <2>1, <2>2 DEF TypeOK, Reject
<1>9. \A i \in Id \ Born : i \in Born' => Fresh(i)
  BY <1>1, <1>4, <1>7 DEF Fresh, Minted, ProposerTaint, TypeOK
<1>10. \A i \in Earned \cap Born : InForce(i)' => InForce(i)
  BY <1>1, <1>3, <1>4 DEF InForce, Object, Born, Earned
<1>11. \A m \in IdOf["method"] : trial'[m].runs >= trial[m].runs
  BY <1>1 DEF TypeOK
<1>12. Accounted
  <2>1. k \in IdOf["conflict"] \cap Born' /\ conflict'[k].claims = T
    BY <1>1, <1>7 DEF TypeOK
  <2>2. \A i \in done : Leftover(i)'
    BY <1>3, <1>4, <2>1 DEF Leftover, Object
  <2>3. Leftover(k)'
    BY <1>1 DEF Reject, Leftover, TypeOK
  <2>4. ASSUME NEW i \in stale, Leftover(i)
        PROVE  Leftover(i)'
    <3>1. i \in Born /\ i # k
      BY <1>1, <2>4 DEF TypeOK
    <3>2. CASE i \in done
      BY <2>2, <3>2
    <3>3. CASE i \notin done
      <4>1. obj'[i] = obj[i] /\ ledgered' = ledgered
        BY <1>1, <1>4, <3>1, <3>3 DEF Reject, Born
      <4>2. \A c \in IdOf["conflict"] \cap Born :
               c \in Born' /\ conflict'[c].claims = conflict[c].claims
        BY <1>1, <1>7 DEF TypeOK
      <4>3. QED
        BY <2>4, <4>1, <4>2 DEF Leftover
    <3>4. QED
      BY <3>2, <3>3
  <2>5. QED
    BY <1>1, <1>7, <2>2, <2>3, <2>4 DEF Reject, Accounted
<1>13. RegistersOnce
  BY <1>1, <1>7, NothingRegistered, IdsAssumption DEF Kind
<1>14. QED
  BY <1>1, <1>6, <1>8, <1>9, <1>10, <1>11, <1>12, <1>13 DEF StepOK

LEMMA MoveConflictStep ==
  ASSUME TypeOK, NEW o \in Requesters, NEW op, NEW k \in IdOf["conflict"],
         NEW to \in Stage, MoveConflict(o, op, k, to)
  PROVE  TypeOK' /\ StepOK
<1>1. /\ k \in Born /\ o \in Origin
      /\ conflict' = [conflict EXCEPT ![k].stage = to]
      /\ Accept({k}, {k}, {k})
      /\ UNCHANGED <<obj, link, trial, record>>
  BY CallersAssumption DEF MoveConflict
<1>2. conflict' \in [IdOf["conflict"] ->
                        [stage: Stage, hard: BOOLEAN, claims: SUBSET Id]]
  BY <1>1 DEF TypeOK
<1>3. TypeOK'
  BY <1>1, <1>2 DEF TypeOK, Accept, Born
<1>4. \A m \in IdOf["method"] : trial'[m].runs >= trial[m].runs
  BY <1>1 DEF TypeOK
<1>5. Accounted
  BY <1>1, AcceptAccounts DEF ClaimsKept, TypeOK, Born
<1>6. RegistersOnce
  BY <1>1, NobodyBorn DEF Born
<1>7. QED
  BY <1>6, <1>1, <1>5, <1>3, <1>4 DEF StepOK, Kept, InForce, Born

LEMMA RecordTrialStep ==
  ASSUME TypeOK, NEW o \in Requesters, NEW m \in IdOf["method"], NEW won \in BOOLEAN,
         RecordTrial(o, m, won)
  PROVE  TypeOK' /\ StepOK
<1>1. /\ m \in Born /\ o \in Origin
      /\ trial' = [trial EXCEPT ![m].runs = @ + 1,
                                ![m].wins = @ + (IF won THEN 1 ELSE 0)]
      /\ Accept({m}, {m}, {m})
      /\ UNCHANGED <<obj, conflict, link, record>>
  BY CallersAssumption DEF RecordTrial
<1>2. trial' \in [IdOf["method"] -> [runs: Nat, wins: Nat]]
  BY <1>1 DEF TypeOK
<1>3. \A n \in IdOf["method"] : trial'[n].runs >= trial[n].runs
  BY <1>1 DEF TypeOK
<1>4. TypeOK'
  BY <1>1, <1>2 DEF TypeOK, Accept, Born
<1>5. Accounted
  BY <1>1, AcceptAccounts DEF ClaimsKept, TypeOK, Born
<1>6. RegistersOnce
  BY <1>1, NobodyBorn DEF Born
<1>7. QED
  BY <1>6, <1>1, <1>5, <1>3, <1>4 DEF StepOK, Kept, InForce, Born

LEMMA RegisterTrialStep ==
  ASSUME TypeOK, NEW o \in Requesters, NEW e \in IdOf["method_trial_event"],
         NEW m \in IdOf["method"], NEW t \in TrialIds, NEW report \in TrialReports,
         RegisterTrial(o, e, m, t, report)
  PROVE  TypeOK' /\ StepOK
<1> DEFINE new == Minted(o, {m}, "active", "authoritative")
<1>1. /\ e \in Id /\ e \notin Earned /\ m \in Id /\ o \in Origin
      /\ UNCHANGED <<conflict, link, trial>>
  BY IdsAssumption, CallersAssumption DEF RegisterTrial, Kind, Earned
<1>2. \A n \in IdOf["method"] : trial'[n].runs >= trial[n].runs
  BY <1>1 DEF TypeOK
<1>3. CASE /\ e \notin Born
           /\ Registered(t) = {}
           /\ obj' = [obj EXCEPT ![e] = new]
           /\ record' = [record EXCEPT ![e] = [trial |-> t, report |-> report]]
           /\ Accept({m}, {e}, {e})
  <2>1. new \in Object /\ new.status # "unborn"
    BY <1>1, MintedIsObject DEF Minted, Status, Authority
  <2>2. Born' = Born \cup {e} /\ obj' \in [Id -> Object \cup {Unborn}]
    BY <1>1, <1>3, <2>1 DEF TypeOK, Born
  <2>3. record' \in [IdOf["method_trial_event"] ->
                       [trial: TrialIds \cup {"none"}, report: TrialReports \cup {"none"}]]
    BY <1>3 DEF TypeOK
  <2>4. TypeOK'
    BY <1>1, <1>3, <2>2, <2>3 DEF TypeOK, Accept
  <2>5. Fresh(e)
    BY <1>1, <1>3 DEF Fresh, Minted, ProposerTaint, TypeOK
  <2>6. \A j \in Born : obj'[j] = obj[j]
    BY <1>3 DEF TypeOK, Born
  <2>7. Accounted
    BY <1>1, <1>3, <2>2, <2>6, AcceptAccounts DEF ClaimsKept, TypeOK
  <2>8. RegistersOnce
    <3>1. TrialEvents' = TrialEvents \cup {e} /\ e \notin TrialEvents
      BY <1>3, <2>2 DEF TrialEvents
    <3>2. record'[e].trial = t /\ \A r \in TrialEvents : record'[r] = record[r]
      BY <1>3, <3>1 DEF TypeOK, TrialEvents
    <3>3. QED
      BY <1>3, <3>1, <3>2 DEF RegistersOnce
  <2>9. QED
    BY <1>1, <1>2, <2>2, <2>4, <2>5, <2>6, <2>7, <2>8 DEF StepOK, Kept, InForce, Born
<1>4. CASE Accept({m}, {}, {}) /\ UNCHANGED <<obj, record>>
  <2>1. TypeOK'
    BY <1>1, <1>4 DEF TypeOK, Accept, Born
  <2>2. Accounted
    BY <1>1, <1>4, NothingAccounts DEF Accept
  <2>3. RegistersOnce
    BY <1>4, NothingRegistered DEF Born
  <2>4. QED
    BY <1>1, <1>2, <1>4, <2>1, <2>2, <2>3 DEF StepOK, Kept, InForce, Born
<1>5. QED
  BY <1>3, <1>4 DEF RegisterTrial

LEMMA RefuseStep ==
  ASSUME TypeOK, NEW o \in Requesters, Refuse(o)
  PROVE  TypeOK' /\ StepOK
<1>1. /\ o \in Origin /\ Reject({})
      /\ UNCHANGED <<obj, conflict, link, trial, record>>
  BY CallersAssumption DEF Refuse
<1>2. \A m \in IdOf["method"] : trial'[m].runs >= trial[m].runs
  BY <1>1 DEF TypeOK
<1>3. TypeOK'
  BY <1>1 DEF TypeOK, Reject, Born
<1>4. Accounted
  BY <1>1, NothingAccounts DEF Reject
<1>5. RegistersOnce
  BY <1>1, NothingRegistered DEF Born
<1>6. QED
  BY <1>5, <1>1, <1>4, <1>2, <1>3 DEF StepOK, Kept, InForce, Born

LEMMA EveryStep ==
  ASSUME TypeOK, [Next]_vars
  PROVE  TypeOK' /\ StepOK
<1>1. CASE UNCHANGED vars
  <2>1. TypeOK'
    BY <1>1 DEF vars, TypeOK, Born
  <2>2. \A m \in IdOf["method"] : trial'[m].runs >= trial[m].runs
    BY <1>1 DEF vars, TypeOK
  <2>3. Accounted
    BY <1>1, NothingAccounts DEF vars
  <2>4. RegistersOnce
    BY <1>1, NobodyBorn DEF vars, Born
  <2>5. QED
    BY <1>1, <2>1, <2>2, <2>3, <2>4 DEF vars, StepOK, Kept, InForce, Born
<1>2. CASE Next
  <2> PICK o \in Requesters : Submit(o)
    BY <1>2 DEF Next
  <2>1. CASE \E op \in DOMAIN Creates, T \in Parents :
               \E i \in IdOf[Creates[op][1]] : Create(o, op, i, T)
    BY <2>1, CreateStep
  <2>2. CASE \E op \in DOMAIN StatusOps, x \in Addressed :
               \E to \in StatusOps[op].to : ChangeStatus(o, op, x, to)
    BY <2>2, ChangeStatusStep
  <2>3. CASE \E op \in {"goal_update", "memory_recall"}, x \in Addressed : Touch(o, op, x)
    BY <2>3, TouchStep
  <2>4. CASE \E x \in Addressed : Confirm(o, x) \/ Promote(o, x) \/ Validate(o, x)
    BY <2>4, ConfirmStep, PromoteStep, ValidateStep
  <2>5. CASE \E e \in IdOf["evidence"], l \in IdOf["evidence_link"], x \in Addressed :
               \E supports, reviewed \in BOOLEAN : Attach(o, e, l, x, supports, reviewed)
    BY <2>5, AttachStep
  <2>6. CASE \E e \in IdOf["evidence"], T \in Parents : AttachFails(o, e, T)
    BY <2>6, AttachFailsStep
  <2>7. CASE \E k \in IdOf["conflict"], T \in Parents \ {{}}, hard \in BOOLEAN :
               OpenConflict(o, k, T, hard)
    BY <2>7, OpenConflictStep
  <2>7b. CASE \E k \in IdOf["conflict"], T \in Parents, done \in SUBSET Addressed,
                 hard \in BOOLEAN : OpenConflictFails(o, k, T, done, hard)
    BY <2>7b, OpenConflictFailsStep
  <2>8. CASE \E op \in {"conflict_review", "conflict_resolve"}, k \in IdOf["conflict"] :
               \E to \in Stage : MoveConflict(o, op, k, to)
    BY <2>8, MoveConflictStep
  <2>9. CASE \E m \in IdOf["method"], won \in BOOLEAN : RecordTrial(o, m, won)
    BY <2>9, RecordTrialStep
  <2>10. CASE \E e \in IdOf["method_trial_event"], m \in IdOf["method"] :
                \E t \in TrialIds, report \in TrialReports :
                  RegisterTrial(o, e, m, t, report)
    BY <2>10, RegisterTrialStep
  <2>11. CASE Refuse(o)
    BY <2>11, RefuseStep
  <2>12. QED
    BY <2>1, <2>2, <2>3, <2>4, <2>5, <2>6, <2>7, <2>7b, <2>8, <2>9, <2>10, <2>11
       DEF Submit
<1>3. QED
  BY <1>1, <1>2

-----------------------------------------------------------------------------
(* The theorems. *)

\* The store stays well typed: in particular no operator ever gives an object an
\* authority outside the three the gate hands out, and the ledger and the running hash
\* only ever speak of objects there are.
THEOREM TypeInvariant == Spec => []TypeOK
<1>1. Init => TypeOK
  BY DEF Init, TypeOK, NoConflict, NoLink, NoTrial, NoRecord, Stage, Origin
<1>2. TypeOK /\ [Next]_vars => TypeOK'
  BY EveryStep
<1>3. QED
  BY <1>1, <1>2, PTL DEF Spec

\* Whoever proposes what in which order, a claim or method in force keeps the evidence,
\* the provenance and the sign-off its authority was granted for.
THEOREM AuthorityInvariant == Spec => []AuthorityIsEarned
<1>1. Init => AuthorityIsEarned
  BY IdsAssumption DEF Init, AuthorityIsEarned, InForce, Unborn, Earned, Kind, Id
<1>2. TypeOK /\ AuthorityIsEarned /\ [Next]_vars => AuthorityIsEarned'
  <2> SUFFICES ASSUME TypeOK, AuthorityIsEarned, [Next]_vars,
                      NEW i \in Earned, InForce(i)'
               PROVE  /\ TaintCleared(i)'
                      /\ i \in IdOf["claim"] => obj'[i].origin # "unknown"
                      /\ \/ Supports(i)' # {}
                         \/ i \in IdOf["method"] /\ trial'[i].runs >= TrialsForActive
    BY DEF AuthorityIsEarned
  <2>1. TypeOK' /\ StepOK
    BY EveryStep
  <2>2. i \in Id
    BY IdsAssumption DEF Earned, Kind
  <2>3. i \in Born
    <3>1. obj'[i] \in Object
      BY <2>1, <2>2 DEF TypeOK, InForce, Unborn
    <3>2. i \in Born'
      BY <2>2, <3>1 DEF Born, Object, Status
    <3>3. QED
      BY <2>1, <2>2, <3>2 DEF StepOK, Fresh, InForce
  <2>4. /\ TaintCleared(i)
        /\ i \in IdOf["claim"] => obj[i].origin # "unknown"
        /\ \/ Supports(i) # {}
           \/ i \in IdOf["method"] /\ trial[i].runs >= TrialsForActive
    BY <2>1, <2>3 DEF StepOK, Granted, AuthorityIsEarned
  <2>5. Kept(i)
    BY <2>1, <2>3 DEF StepOK
  <2>6. Supports(i) \subseteq Supports(i)'
    BY <2>1 DEF StepOK, Supports, Kept, Born
  <2>7. i \in IdOf["method"] => trial'[i].runs >= trial[i].runs
    BY <2>1 DEF StepOK
  <2>8. i \in IdOf["method"] => trial[i].runs \in Nat /\ trial'[i].runs \in Nat
    BY <2>1 DEF TypeOK
  <2>9. QED
    BY <2>4, <2>5, <2>6, <2>7, <2>8 DEF Kept, TaintCleared, TrialsForActive
<1>3. QED
  BY <1>1, <1>2, TypeInvariant, PTL DEF Spec

\* A parent that is not remembered as named early was there when it was named.
ParentsBorn == \A i \in Born : obj[i].parents \ obj[i].early \subseteq Born

\* Whatever is proposed in which order, and however often ids are named before anybody has
\* them: taint reaches all that was derived from it while it was there.
THEOREM TaintInvariant == Spec => []TaintSurvivesDerivation
<1>1. Init => ParentsBorn /\ TaintSurvivesDerivation
  BY DEF Init, ParentsBorn, TaintSurvivesDerivation, Born, Unborn
<1>2. TypeOK /\ ParentsBorn /\ TaintSurvivesDerivation /\ [Next]_vars
        => ParentsBorn' /\ TaintSurvivesDerivation'
  <2> SUFFICES ASSUME TypeOK, ParentsBorn, TaintSurvivesDerivation, [Next]_vars,
                      NEW i \in Born'
               PROVE  /\ obj'[i].parents \ obj'[i].early \subseteq Born'
                      /\ (\E p \in obj'[i].parents \ obj'[i].early : obj'[p].tainted)
                           => obj'[i].tainted
    BY DEF ParentsBorn, TaintSurvivesDerivation
  <2>1. StepOK /\ i \in Id
    BY EveryStep DEF Born
  <2>2. \A p \in Born : p \in Born' /\ obj'[p].tainted = obj[p].tainted
    BY <2>1 DEF StepOK, Kept, Born
  <2>3. CASE i \in Born
    <3>1. /\ obj'[i].parents = obj[i].parents /\ obj'[i].early = obj[i].early
          /\ obj[i].parents \ obj[i].early \subseteq Born
      BY <2>1, <2>3 DEF StepOK, Kept, ParentsBorn
    <3>2. QED
      BY <2>2, <2>3, <3>1 DEF TaintSurvivesDerivation
  <2>4. CASE i \notin Born
    BY <2>1, <2>2, <2>4 DEF StepOK, Fresh
  <2>5. QED
    BY <2>3, <2>4
<1>3. QED
  BY <1>1, <1>2, TypeInvariant, PTL DEF Spec

\* What was rejected or superseded stays so, through operators of every class.
THEOREM AbandonedStaysSo == Spec => AbandonedIsFinal
<1>1. TypeOK /\ [Next]_vars
        => [\A i \in Id : obj[i].status \in AbandonedStatus
                            => obj'[i].status = obj[i].status]_vars
  <2> SUFFICES ASSUME TypeOK, [Next]_vars, NEW i \in Id, obj[i].status \in AbandonedStatus
               PROVE  obj'[i].status = obj[i].status
    OBVIOUS
  <2>1. i \in Born
    BY DEF Born, AbandonedStatus
  <2>2. QED
    BY <2>1, EveryStep DEF StepOK, Kept
<1>2. QED
  BY <1>1, TypeInvariant, PTL DEF Spec, AbandonedIsFinal

\* Whatever is refused half-way, and whatever happens afterwards to what it left: the
\* running hash is wrong about such leftovers only, and only Evidence and conflicts
\* are missing from the ledger.
THEOREM DriftInvariant == Spec => []DriftIsLeftover
<1>1. Init => DriftIsLeftover
  BY DEF Init, DriftIsLeftover, Born, Unborn
<1>2. TypeOK /\ DriftIsLeftover /\ [Next]_vars => DriftIsLeftover'
  <2> SUFFICES ASSUME TypeOK, DriftIsLeftover, [Next]_vars
               PROVE  DriftIsLeftover'
    OBVIOUS
  <2>1. TypeOK' /\ Accounted
    BY EveryStep DEF StepOK
  <2>2. \A i \in stale' : Leftover(i)'
    BY <2>1 DEF Accounted, DriftIsLeftover
  <2>3. Born' \ ledgered' \subseteq IdOf["evidence"] \cup IdOf["conflict"]
    BY <2>1 DEF Accounted, DriftIsLeftover
  <2>4. QED
    BY <2>2, <2>3 DEF DriftIsLeftover
<1>3. QED
  BY <1>1, <1>2, TypeInvariant, PTL DEF Spec

\* A claim comes into force only while no unresolved hard conflict names it, whatever
\* was opened, reviewed and closed before.
THEOREM ContradictionBars == Spec => NoAuthorityUnderContradiction
<1> DEFINE Unresolved(i) == \E k \in IdOf["conflict"] \cap Born :
                              /\ i \in conflict[k].claims
                              /\ conflict[k].hard
                              /\ conflict[k].stage \notin {"resolved", "tolerated", "superseded"}
<1>1. TypeOK /\ [Next]_vars
        => [\A i \in IdOf["claim"] :
              ~InForce(i) /\ obj'[i].authority = "authoritative" => ~Unresolved(i)]_vars
  <2> SUFFICES ASSUME TypeOK, [Next]_vars, NEW i \in IdOf["claim"],
                      ~InForce(i), obj'[i].authority = "authoritative"
               PROVE  ~Unresolved(i)
    OBVIOUS
  <2>1. TypeOK' /\ StepOK /\ i \in Id /\ i \in Earned
    BY EveryStep, IdsAssumption DEF Earned, Kind
  <2>2. i \in Born'
    <3>1. obj'[i] \in Object
      BY <2>1 DEF TypeOK, Unborn
    <3>2. QED
      BY <2>1, <3>1 DEF Born, Object, Status
  <2>3. i \in Born
    BY <2>1, <2>2 DEF StepOK, Fresh
  <2>4. ~HardConflict(i)
    BY <2>1, <2>3 DEF StepOK, Granted, InForce
  <2>5. \A k \in IdOf["conflict"] : conflict[k].stage \in Stage
    BY <2>1 DEF TypeOK
  <2>6. QED
    BY <2>4, <2>5 DEF HardConflict, OpenConflicts, Stage
<1>2. QED
  BY <1>1, TypeInvariant, PTL DEF Spec, NoAuthorityUnderContradiction

\* No two events in the store record one trial.
OneRecordEach ==
  \A e, f \in TrialEvents : record[e].trial = record[f].trial => e = f

\* However often and by whomever a trial is registered, it has one record at most.
THEOREM TrialsInvariant == Spec => []TrialRecordedOnce
<1>1. Init => OneRecordEach
  BY DEF Init, OneRecordEach, TrialEvents, Born, Unborn
<1>2. TypeOK /\ OneRecordEach /\ [Next]_vars => OneRecordEach'
  <2> SUFFICES ASSUME TypeOK, OneRecordEach, [Next]_vars,
                      NEW e \in TrialEvents', NEW f \in TrialEvents',
                      record'[e].trial = record'[f].trial
               PROVE  e = f
    BY DEF OneRecordEach
  <2>1. RegistersOnce
    BY EveryStep DEF StepOK
  <2>2. CASE e \in TrialEvents /\ f \in TrialEvents
    BY <2>1, <2>2 DEF RegistersOnce, OneRecordEach
  <2>3. ASSUME NEW n \in TrialEvents' \ TrialEvents, NEW o \in TrialEvents' \cap TrialEvents
        PROVE  record'[n].trial # record'[o].trial
    BY <2>1, <2>3 DEF RegistersOnce, Registered, TrialEvents
  <2>4. CASE e \notin TrialEvents /\ f \notin TrialEvents
    BY <2>1, <2>4 DEF RegistersOnce
  <2>5. QED
    BY <2>2, <2>3, <2>4
<1>3. OneRecordEach => TrialRecordedOnce
  <2> SUFFICES ASSUME OneRecordEach, NEW t \in TrialIds
               PROVE  Cardinality(Registered(t)) <= 1
    BY DEF TrialRecordedOnce
  <2>1. CASE Registered(t) = {}
    BY <2>1, FS_EmptySet
  <2>2. CASE Registered(t) # {}
    <3>1. PICK e \in Registered(t) : TRUE
      BY <2>2
    <3>2. Registered(t) = {e}
      BY <3>1 DEF Registered, OneRecordEach, TrialEvents
    <3>3. QED
      BY <3>2, FS_Singleton
  <2>3. QED
    BY <2>1, <2>2
<1>4. QED
  BY <1>1, <1>2, <1>3, TypeInvariant, PTL DEF Spec

-----------------------------------------------------------------------------
(***************************************************************************)
(* The gate implements the contract of module Standing: a submit changes   *)
(* the standing of at most one claim or method, in one of the contract's   *)
(* four ways.                                                              *)
(***************************************************************************)

Same(i) ==
  /\ StandingOf(i)' = StandingOf(i)
  /\ obj'[i].tainted = obj[i].tainted
  /\ obj'[i].validated = obj[i].validated
  /\ InForce(i)' = InForce(i)

Introduced(i) ==
  /\ StandingOf(i) = "absent" /\ StandingOf(i)' = "open"
  /\ obj[i] = Unborn
  /\ ~obj'[i].validated /\ ~InForce(i)'

SignedOffNow(i) ==
  /\ StandingOf(i) # "absent" /\ StandingOf(i)' = StandingOf(i)
  /\ obj'[i].tainted = obj[i].tainted
  /\ obj'[i].validated
  /\ InForce(i)' = InForce(i)

GrantedNow(i) ==
  /\ StandingOf(i) = "open" /\ StandingOf(i)' = "open"
  /\ obj'[i].tainted = obj[i].tainted
  /\ obj'[i].validated = obj[i].validated
  /\ TaintCleared(i)
  /\ InForce(i)'

GivenUpNow(i) ==
  /\ StandingOf(i) = "open" /\ StandingOf(i)' = "given_up"
  /\ obj'[i].tainted = obj[i].tainted
  /\ obj'[i].validated = obj[i].validated
  /\ InForce(i)' = InForce(i)

Moved(i) == Introduced(i) \/ SignedOffNow(i) \/ GrantedNow(i) \/ GivenUpNow(i) \/ Same(i)

\* All the contract sees of a step.
Simulated ==
  \/ \A i \in Earned : Same(i)
  \/ \E x \in Earned : Moved(x) /\ \A i \in Earned \ {x} : Same(i)

-----------------------------------------------------------------------------
(* Same or moved: what the contract makes of it. *)

LEMMA AllSame ==
  ASSUME \A i \in Earned : Same(i)
  PROVE  UNCHANGED Contract!svars
<1>1. [i \in Earned |-> StandingOf(i)]' = [i \in Earned |-> StandingOf(i)]
  BY DEF Same, Earned
<1>2. {i \in Earned : obj[i].tainted}' = {i \in Earned : obj[i].tainted}
  BY DEF Same, Earned
<1>3. {i \in Earned : obj[i].validated}' = {i \in Earned : obj[i].validated}
  BY DEF Same, Earned
<1>4. {i \in Earned : InForce(i)}' = {i \in Earned : InForce(i)}
  BY DEF Same, Earned
<1>5. QED
  BY <1>1, <1>2, <1>3, <1>4 DEF Contract!svars

LEMMA OneMoved ==
  ASSUME NEW x \in Earned, Moved(x), \A i \in Earned \ {x} : Same(i)
  PROVE  [Contract!StandingNext]_Contract!svars
<1>1. CASE Introduced(x)
  <2>1. [i \in Earned |-> StandingOf(i)]'
          = [[i \in Earned |-> StandingOf(i)] EXCEPT ![x] = "open"]
    BY <1>1 DEF Introduced, Same, Earned
  <2>2. {i \in Earned : obj[i].tainted}'
          = {i \in Earned : obj[i].tainted} \cup (IF obj'[x].tainted THEN {x} ELSE {})
    BY <1>1 DEF Introduced, Unborn, Same, Earned
  <2>3. {i \in Earned : obj[i].validated}' = {i \in Earned : obj[i].validated}
    BY <1>1 DEF Introduced, Unborn, Same, Earned
  <2>4. {i \in Earned : InForce(i)}' = {i \in Earned : InForce(i)}
    BY <1>1 DEF Introduced, Unborn, InForce, Same, Earned
  <2>5. [i \in Earned |-> StandingOf(i)][x] = "absent"
    BY <1>1 DEF Introduced
  <2>6. \E contaminated \in BOOLEAN : Contract!Introduce(x, contaminated)
    <3>1. CASE obj'[x].tainted
      BY <2>1, <2>2, <2>3, <2>4, <2>5, <3>1 DEF Contract!Introduce
    <3>2. CASE ~obj'[x].tainted
      BY <2>1, <2>2, <2>3, <2>4, <2>5, <3>2 DEF Contract!Introduce
    <3>3. QED
      BY <3>1, <3>2
  <2>7. QED
    BY <2>6 DEF Contract!StandingNext
<1>2. CASE SignedOffNow(x)
  <2>1. [i \in Earned |-> StandingOf(i)]' = [i \in Earned |-> StandingOf(i)]
    BY <1>2 DEF SignedOffNow, Same, Earned
  <2>2. {i \in Earned : obj[i].tainted}' = {i \in Earned : obj[i].tainted}
    BY <1>2 DEF SignedOffNow, Same, Earned
  <2>3. {i \in Earned : obj[i].validated}' = {i \in Earned : obj[i].validated} \cup {x}
    BY <1>2 DEF SignedOffNow, Same, Earned
  <2>4. {i \in Earned : InForce(i)}' = {i \in Earned : InForce(i)}
    BY <1>2 DEF SignedOffNow, Same, Earned
  <2>5. [i \in Earned |-> StandingOf(i)][x] # "absent"
    BY <1>2 DEF SignedOffNow
  <2>6. Contract!SignOff(x)
    BY <2>1, <2>2, <2>3, <2>4, <2>5 DEF Contract!SignOff
  <2>7. QED
    BY <2>6 DEF Contract!StandingNext
<1>3. CASE GrantedNow(x)
  <2>1. [i \in Earned |-> StandingOf(i)]' = [i \in Earned |-> StandingOf(i)]
    BY <1>3 DEF GrantedNow, Same, Earned
  <2>2. {i \in Earned : obj[i].tainted}' = {i \in Earned : obj[i].tainted}
    BY <1>3 DEF GrantedNow, Same, Earned
  <2>3. {i \in Earned : obj[i].validated}' = {i \in Earned : obj[i].validated}
    BY <1>3 DEF GrantedNow, Same, Earned
  <2>4. {i \in Earned : InForce(i)}' = {i \in Earned : InForce(i)} \cup {x}
    BY <1>3 DEF GrantedNow, Same, Earned
  <2>5. /\ [i \in Earned |-> StandingOf(i)][x] = "open"
        /\ x \in {i \in Earned : obj[i].tainted} => x \in {i \in Earned : obj[i].validated}
    BY <1>3 DEF GrantedNow, TaintCleared
  <2>6. Contract!Grant(x)
    BY <2>1, <2>2, <2>3, <2>4, <2>5 DEF Contract!Grant
  <2>7. QED
    BY <2>6 DEF Contract!StandingNext
<1>4. CASE GivenUpNow(x)
  <2>1. [i \in Earned |-> StandingOf(i)]'
          = [[i \in Earned |-> StandingOf(i)] EXCEPT ![x] = "given_up"]
    BY <1>4 DEF GivenUpNow, Same, Earned
  <2>2. {i \in Earned : obj[i].tainted}' = {i \in Earned : obj[i].tainted}
    BY <1>4 DEF GivenUpNow, Same, Earned
  <2>3. {i \in Earned : obj[i].validated}' = {i \in Earned : obj[i].validated}
    BY <1>4 DEF GivenUpNow, Same, Earned
  <2>4. {i \in Earned : InForce(i)}' = {i \in Earned : InForce(i)}
    BY <1>4 DEF GivenUpNow, Same, Earned
  <2>5. [i \in Earned |-> StandingOf(i)][x] = "open"
    BY <1>4 DEF GivenUpNow
  <2>6. Contract!GiveUp(x)
    BY <2>1, <2>2, <2>3, <2>4, <2>5 DEF Contract!GiveUp
  <2>7. QED
    BY <2>6 DEF Contract!StandingNext
<1>5. CASE Same(x)
  BY <1>5, AllSame
<1>6. QED
  BY <1>1, <1>2, <1>3, <1>4, <1>5 DEF Moved

-----------------------------------------------------------------------------
(* Each operator. *)

\* Only Earned objects matter, and an object nothing touches stays the same.
LEMMA UntouchedIsSame ==
  ASSUME NEW i, obj'[i] = obj[i]
  PROVE  Same(i)
  BY DEF Same, StandingOf, InForce

\* What is not yet in the store has no field set.
LEMMA AbsentIsUnborn ==
  ASSUME TypeOK, NEW i \in Id \ Born
  PROVE  obj[i] = Unborn
  BY DEF TypeOK, Born, Object, Status

LEMMA EarnedIsId == Earned \subseteq Id
  BY IdsAssumption DEF Earned, Kind

LEMMA CreateSim ==
  ASSUME TypeOK, NEW o \in Requesters, NEW op \in DOMAIN Creates, NEW T \in Parents,
         NEW x \in IdOf[Creates[op][1]], Create(o, op, x, T)
  PROVE  Simulated
<1> DEFINE s == Creates[op][2]
           a == Creates[op][3]
<1>1. x \in Id \ Born /\ obj' = [obj EXCEPT ![x] = Minted(o, T, s, a)]
  BY CreatesTable, IdsAssumption DEF Create
<1>2. \A i \in Earned \ {x} : Same(i)
  BY <1>1, EarnedIsId, UntouchedIsSame DEF TypeOK
<1>3. CASE x \in Earned
  <2>1. s = "candidate" /\ a # "authoritative"
    <3>1. Creates[op][1] \in {"claim", "method"}
      BY <1>3, CreatesTable, IdsAssumption DEF Earned, Kind
    <3>2. QED
      BY <3>1 DEF Creates
  <2>2. obj'[x] = Minted(o, T, s, a) /\ obj[x] = Unborn
    BY <1>1, AbsentIsUnborn DEF TypeOK
  <2>3. Introduced(x)
    BY <2>1, <2>2 DEF Introduced, StandingOf, InForce, Minted, Unborn, AbandonedStatus
  <2>4. QED
    BY <1>2, <1>3, <2>3 DEF Simulated, Moved
<1>4. QED
  BY <1>2, <1>3 DEF Simulated

LEMMA ChangeStatusSim ==
  ASSUME TypeOK, NEW o \in Requesters, NEW op \in DOMAIN StatusOps, NEW x \in Addressed,
         NEW to \in StatusOps[op].to, ChangeStatus(o, op, x, to)
  PROVE  Simulated
<1>1. /\ x \in Born /\ x \in Id /\ obj[x] \in Object
      /\ obj' = [obj EXCEPT ![x].status = to]
      /\ MayMove(StatusOps[op].moves, obj[x].status, to)
  BY BornIsObject DEF ChangeStatus
<1>2. \A i \in Earned \ {x} : Same(i)
  BY <1>1, EarnedIsId, UntouchedIsSame DEF TypeOK
<1>3. obj'[x] = [obj[x] EXCEPT !.status = to]
  BY <1>1 DEF TypeOK
<1>4. to \in Status /\ (obj[x].status \in AbandonedStatus => to = obj[x].status)
  BY <1>1, StatusTable
<1>5. Same(x) \/ GivenUpNow(x)
  BY <1>1, <1>3, <1>4
     DEF Same, GivenUpNow, StandingOf, InForce, Object, Status, AbandonedStatus
<1>6. QED
  BY <1>2, <1>5 DEF Simulated, Moved

LEMMA ConfirmSim ==
  ASSUME TypeOK, NEW o \in Requesters, NEW x \in Addressed, Confirm(o, x)
  PROVE  Simulated
<1>1. /\ x \in Born /\ x \in Id /\ obj[x] \in Object
      /\ obj' = [obj EXCEPT ![x].status = "confirmed", ![x].authority = "authoritative"]
      /\ TaintCleared(x)
      /\ MayMove(ClaimMoves, obj[x].status, "confirmed")
  BY BornIsObject DEF Confirm, CanConfirm
<1>2. \A i \in Earned \ {x} : Same(i)
  BY <1>1, EarnedIsId, UntouchedIsSame DEF TypeOK
<1>3. obj'[x] = [obj[x] EXCEPT !.status = "confirmed", !.authority = "authoritative"]
  BY <1>1 DEF TypeOK
<1>4. obj[x].status \notin AbandonedStatus
  BY <1>1 DEF MayMove, ClaimMoves, AbandonedStatus
<1>5. /\ obj'[x].status = "confirmed" /\ obj'[x].authority = "authoritative"
      /\ obj'[x].tainted = obj[x].tainted
      /\ obj'[x].validated = obj[x].validated
  BY <1>1, <1>3 DEF Object
<1>6. StandingOf(x) = "open" /\ StandingOf(x)' = "open"
  BY <1>1, <1>4, <1>5 DEF StandingOf, AbandonedStatus, Born
<1>7. GrantedNow(x)
  BY <1>1, <1>5, <1>6 DEF GrantedNow, InForce
<1>8. QED
  BY <1>2, <1>7 DEF Simulated, Moved

LEMMA PromoteSim ==
  ASSUME TypeOK, NEW o \in Requesters, NEW x \in Addressed, Promote(o, x)
  PROVE  Simulated
<1>1. x \in Born /\ x \in Id /\ obj[x] \in Object
  BY BornIsObject DEF Promote
<1>2. CASE obj[x].status = "candidate" /\ obj' = [obj EXCEPT ![x].status = "provisional"]
  <2>1. \A i \in Earned \ {x} : Same(i)
    BY <1>2, EarnedIsId, UntouchedIsSame DEF TypeOK
  <2>2. obj'[x] = [obj[x] EXCEPT !.status = "provisional"]
    BY <1>1, <1>2 DEF TypeOK
  <2>3. Same(x)
    BY <1>1, <1>2, <2>2 DEF Same, StandingOf, InForce, Object, AbandonedStatus
  <2>4. QED
    BY <2>1, <2>3 DEF Simulated
<1>3. CASE /\ obj[x].status = "provisional"
           /\ TaintCleared(x)
           /\ obj' = [obj EXCEPT ![x].status = "active", ![x].authority = "authoritative"]
  <2>1. \A i \in Earned \ {x} : Same(i)
    BY <1>3, EarnedIsId, UntouchedIsSame DEF TypeOK
  <2>2. obj'[x] = [obj[x] EXCEPT !.status = "active", !.authority = "authoritative"]
    BY <1>1, <1>3 DEF TypeOK
  <2>3. /\ obj'[x].status = "active" /\ obj'[x].authority = "authoritative"
        /\ obj'[x].tainted = obj[x].tainted
        /\ obj'[x].validated = obj[x].validated
    BY <1>1, <2>2 DEF Object
  <2>4. StandingOf(x) = "open" /\ StandingOf(x)' = "open"
    BY <1>3, <2>3 DEF StandingOf, AbandonedStatus
  <2>5. GrantedNow(x)
    BY <1>3, <2>3, <2>4 DEF GrantedNow, InForce
  <2>6. QED
    BY <2>1, <2>5 DEF Simulated, Moved
<1>4. QED
  BY <1>2, <1>3 DEF Promote

LEMMA ValidateSim ==
  ASSUME TypeOK, NEW o \in Requesters, NEW x \in Addressed, Validate(o, x)
  PROVE  Simulated
<1>1. /\ x \in Born /\ x \in Id /\ obj[x] \in Object
      /\ obj' = [obj EXCEPT ![x].validated = TRUE]
  BY BornIsObject DEF Validate
<1>2. \A i \in Earned \ {x} : Same(i)
  BY <1>1, EarnedIsId, UntouchedIsSame DEF TypeOK
<1>3. obj'[x] = [obj[x] EXCEPT !.validated = TRUE]
  BY <1>1 DEF TypeOK
<1>4. SignedOffNow(x)
  BY <1>1, <1>3 DEF SignedOffNow, StandingOf, InForce, Object, Born
<1>5. QED
  BY <1>2, <1>4 DEF Simulated, Moved

LEMMA AttachSim ==
  ASSUME TypeOK, NEW o, NEW e \in IdOf["evidence"], NEW l \in IdOf["evidence_link"],
         NEW x, NEW supports, NEW reviewed, Attach(o, e, l, x, supports, reviewed)
  PROVE  Simulated
<1>1. e \notin Earned /\ l \notin Earned
  BY IdsAssumption DEF Earned, Kind
<1>2. \A i \in Earned : obj'[i] = obj[i]
  BY <1>1, EarnedIsId DEF Attach, TypeOK
<1>3. QED
  BY <1>2, UntouchedIsSame DEF Simulated

LEMMA AttachFailsSim ==
  ASSUME TypeOK, NEW o, NEW e \in IdOf["evidence"], NEW T, AttachFails(o, e, T)
  PROVE  Simulated
<1>1. e \notin Earned
  BY IdsAssumption DEF Earned, Kind
<1>2. \A i \in Earned : obj'[i] = obj[i]
  BY <1>1, EarnedIsId DEF AttachFails, TypeOK
<1>3. QED
  BY <1>2, UntouchedIsSame DEF Simulated

\* To be contested is still to stand.
LEMMA OpenConflictSim ==
  ASSUME TypeOK, NEW o, NEW k \in IdOf["conflict"], NEW T, NEW hard,
         OpenConflict(o, k, T, hard)
  PROVE  Simulated
<1>1. k \notin Earned
  BY IdsAssumption DEF Earned, Kind
<1>2. ASSUME NEW i \in Earned
      PROVE  Same(i)
  <2>1. CASE i \in T /\ Contestable(i)
    <3>1. i \in Born /\ i \in Id
      BY <2>1, EarnedIsId DEF Contestable, Born
    <3>2. obj[i] \in Object /\ obj'[i] = [obj[i] EXCEPT !.status = "contested"]
      BY <1>1, <2>1, <3>1, BornIsObject DEF OpenConflict
    <3>3. QED
      BY <2>1, <3>2 DEF Same, StandingOf, InForce, Contestable, Object, AbandonedStatus
  <2>2. CASE ~(i \in T /\ Contestable(i))
    BY <1>1, <2>2, EarnedIsId, UntouchedIsSame DEF OpenConflict
  <2>3. QED
    BY <2>1, <2>2
<1>3. QED
  BY <1>2 DEF Simulated

LEMMA OpenConflictFailsSim ==
  ASSUME TypeOK, NEW o, NEW k \in IdOf["conflict"], NEW T, NEW done, NEW hard,
         OpenConflictFails(o, k, T, done, hard)
  PROVE  Simulated
<1>1. k \notin Earned
  BY IdsAssumption DEF Earned, Kind
<1>2. ASSUME NEW i \in Earned
      PROVE  Same(i)
  <2>1. CASE i \in done
    <3>1. i \in Born /\ i \in Id /\ Contestable(i)
      BY <2>1, EarnedIsId DEF OpenConflictFails, Contestable, Born
    <3>2. obj[i] \in Object /\ obj'[i] = [obj[i] EXCEPT !.status = "contested"]
      BY <1>1, <2>1, <3>1, BornIsObject DEF OpenConflictFails
    <3>3. QED
      BY <3>1, <3>2 DEF Same, StandingOf, InForce, Contestable, Object, AbandonedStatus
  <2>2. CASE i \notin done
    BY <1>1, <2>2, EarnedIsId, UntouchedIsSame DEF OpenConflictFails
  <2>3. QED
    BY <2>1, <2>2
<1>3. QED
  BY <1>2 DEF Simulated

LEMMA RegisterTrialSim ==
  ASSUME TypeOK, NEW o, NEW e \in IdOf["method_trial_event"], NEW m, NEW t, NEW report,
         RegisterTrial(o, e, m, t, report)
  PROVE  Simulated
<1>1. e \notin Earned
  BY IdsAssumption DEF Earned, Kind
<1>2. \A i \in Earned : obj'[i] = obj[i]
  BY <1>1, EarnedIsId DEF RegisterTrial, TypeOK
<1>3. QED
  BY <1>2, UntouchedIsSame DEF Simulated

LEMMA NoObjectTouched ==
  ASSUME UNCHANGED obj
  PROVE  Simulated
  BY UntouchedIsSame DEF Simulated

LEMMA EveryStepSimulated ==
  ASSUME TypeOK, Next
  PROVE  Simulated
<1> PICK o \in Requesters : Submit(o)
  BY DEF Next
<1>1. CASE \E op \in DOMAIN Creates, T \in Parents :
             \E i \in IdOf[Creates[op][1]] : Create(o, op, i, T)
  BY <1>1, CreateSim
<1>2. CASE \E op \in DOMAIN StatusOps, x \in Addressed :
             \E to \in StatusOps[op].to : ChangeStatus(o, op, x, to)
  BY <1>2, ChangeStatusSim
<1>3. CASE \E x \in Addressed : Confirm(o, x) \/ Promote(o, x) \/ Validate(o, x)
  BY <1>3, ConfirmSim, PromoteSim, ValidateSim
<1>4. CASE \E e \in IdOf["evidence"], l \in IdOf["evidence_link"], x \in Addressed :
             \E supports, reviewed \in BOOLEAN : Attach(o, e, l, x, supports, reviewed)
  BY <1>4, AttachSim
<1>5. CASE \E e \in IdOf["evidence"], T \in Parents : AttachFails(o, e, T)
  BY <1>5, AttachFailsSim
<1>6. CASE \E k \in IdOf["conflict"], T \in Parents \ {{}}, hard \in BOOLEAN :
             OpenConflict(o, k, T, hard)
  BY <1>6, OpenConflictSim
<1>6b. CASE \E k \in IdOf["conflict"], T \in Parents, done \in SUBSET Addressed,
               hard \in BOOLEAN : OpenConflictFails(o, k, T, done, hard)
  BY <1>6b, OpenConflictFailsSim
<1>7. CASE \E e \in IdOf["method_trial_event"], m \in IdOf["method"] :
              \E t \in TrialIds, report \in TrialReports :
                RegisterTrial(o, e, m, t, report)
  BY <1>7, RegisterTrialSim
<1>8. CASE \/ \E op \in {"goal_update", "memory_recall"}, x \in Addressed : Touch(o, op, x)
           \/ \E op \in {"conflict_review", "conflict_resolve"}, k \in IdOf["conflict"] :
                \E to \in Stage : MoveConflict(o, op, k, to)
           \/ \E m \in IdOf["method"], won \in BOOLEAN : RecordTrial(o, m, won)
           \/ Refuse(o)
  <2>1. UNCHANGED obj
    BY <1>8 DEF Touch, MoveConflict, RecordTrial, Refuse
  <2>2. QED
    BY <2>1, NoObjectTouched
<1>9. QED
  BY <1>1, <1>2, <1>3, <1>4, <1>5, <1>6, <1>6b, <1>7, <1>8 DEF Submit

\* The contract of module Standing holds of every behaviour of the gate.
THEOREM GateKeepsContract == Spec => RefinesStanding
<1>1. Init => Contract!StandingInit
  <2> SUFFICES ASSUME Init PROVE Contract!StandingInit
    OBVIOUS
  <2>1. \A i \in Earned : obj[i] = Unborn
    BY EarnedIsId DEF Init
  <2>2. [i \in Earned |-> StandingOf(i)] = [i \in Earned |-> "absent"]
    BY <2>1 DEF StandingOf, Unborn
  <2>3. /\ {i \in Earned : obj[i].tainted} = {}
        /\ {i \in Earned : obj[i].validated} = {}
        /\ {i \in Earned : InForce(i)} = {}
    BY <2>1 DEF InForce, Unborn
  <2>4. QED
    BY <2>2, <2>3 DEF Contract!StandingInit
<1>2. TypeOK /\ [Next]_vars => [Contract!StandingNext]_Contract!svars
  <2> SUFFICES ASSUME TypeOK, [Next]_vars PROVE [Contract!StandingNext]_Contract!svars
    OBVIOUS
  <2>1. Simulated
    BY EveryStepSimulated, NoObjectTouched DEF vars
  <2>2. CASE \A i \in Earned : Same(i)
    BY <2>2, AllSame
  <2>3. CASE \E x \in Earned : Moved(x) /\ \A i \in Earned \ {x} : Same(i)
    BY <2>3, OneMoved
  <2>4. QED
    BY <2>1, <2>2, <2>3 DEF Simulated
<1>3. QED
  BY <1>1, <1>2, TypeInvariant, PTL DEF Spec, RefinesStanding, Contract!StandingSpec
=============================================================================
