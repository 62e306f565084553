------------------------------- MODULE Migration -------------------------------
(***************************************************************************)
(* The import of the old informal stores into a fresh Layer-9 core         *)
(* (src/src/desi_layer9/migration.py).  The rows of the old state are read *)
(* one after the other: the claims, the goals, the memories, and then the  *)
(* lines of Kevin's file of methods.  Each is proposed to the gate, whose  *)
(* answer nobody looks at; a row that raises is kept as a quarantined      *)
(* claim; an exception the import does not expect ends it, and with it the *)
(* core, which nobody has seen yet.                                        *)
(*                                                                         *)
(* Of a row only its id, its old status, the claims it refers to and what  *)
(* is wrong with it are kept; a new object is its place in the order in    *)
(* which the objects of its class are minted, which is what its id says.   *)
(***************************************************************************)
EXTENDS Integers, Sequences, SequencesExt

CONSTANTS
  Documents   \* the old stores: the rows of each, in order

Flaws ==
  [claims  |-> {"foreign", "status", "text", "id"},
   goals   |-> {"foreign", "text", "priority"},
   memory  |-> {"foreign", "summary", "refs"},
   methods |-> {"json", "foreign", "name", "steps", "affinities"}]

Stores == DOMAIN Flaws

\* The stores that are read before a store.
Before == [claims |-> {}, goals |-> {"claims"}, memory |-> {"claims", "goals"},
           methods |-> Stores \ {"methods"}]

OldStatus == {"tentative", "active", "confirmed", "rejected", "superseded", "odd"}

\* The rows there are, of whatever store.
Rows == UNION {UNION {Range(d[s]) : s \in Stores} : d \in Documents}

MigrationAssumption ==
  /\ Documents \subseteq [Stores -> Seq(Rows)]
  /\ \A d \in Documents :
    /\ \A s \in Stores : \A row \in Range(d[s]) : row.flaw \in Flaws[s] \cup {"none"}
    /\ \A row \in Range(d["claims"]) : row.status \in OldStatus /\ row.id \in Nat
    /\ \A i, j \in DOMAIN d["claims"] : d["claims"][i].id = d["claims"][j].id => i = j
    /\ \A row \in Range(d["memory"]) : row.refs \subseteq Nat

VARIABLES
  doc,        \* the old stores
  left,       \* the rows not yet read
  claims, goals, memory, methods,   \* what the core holds, as it was minted
  idmap,      \* old claim id -> new claim id
  imported,   \* the rows counted as imported
  pc          \* "importing", "done" or "aborted"

core == <<claims, goals, memory, methods>>
vars == <<doc, left, claims, goals, memory, methods, idmap, imported, pc>>

-----------------------------------------------------------------------------
(* What the gate makes of a claim.                                         *)

\* The moves of a claim the import asks for that the gate allows.
Moves == [candidate |-> {"active", "rejected", "quarantined"}, active |-> {"superseded"},
          rejected |-> {}, superseded |-> {}, quarantined |-> {}]

\* Confirmation has to be earned anew; a status nobody knows counts as tentative.
Target(row) == CASE row.status = "confirmed" -> "active"
                 [] row.status \in {"tentative", "odd"} -> "candidate"
                 [] OTHER -> row.status

PathTo(target) == CASE target = "candidate" -> <<>>
                    [] target = "superseded" -> <<"active", "superseded">>
                    [] OTHER -> <<target>>

Moved(status, to) == IF to \in Moves[status] THEN to ELSE status

Created(row, target, copy) ==
  [of |-> row, copy |-> copy, status |-> FoldLeft(Moved, "candidate", PathTo(target))]

Quarantined(row) == Created(row, "quarantined", TRUE)

-----------------------------------------------------------------------------
Init ==
  /\ doc \in Documents /\ left = doc
  /\ claims = <<>> /\ goals = <<>> /\ memory = <<>> /\ methods = <<>>
  /\ idmap = <<>> /\ imported = {} /\ pc = "importing"

\* The next row of a store, when the stores before it are done with.
Row(store) == Head(left[store])

Reads(store) ==
  /\ pc = "importing" /\ left[store] # <<>>
  /\ \A s \in Before[store] : left[s] = <<>>
  /\ left' = [left EXCEPT ![store] = Tail(@)]
  /\ UNCHANGED doc

Counted(row) == imported' = imported \cup {row}

Abort == pc' = "aborted" /\ UNCHANGED <<core, idmap, imported>>

Quarantine(row) ==
  /\ claims' = Append(claims, Quarantined(row))
  /\ UNCHANGED <<goals, memory, methods, idmap, imported, pc>>

\* The claim is in the core before its old id is asked for.
ImportClaim ==
  /\ Reads("claims")
  /\ LET row == Row("claims")
         new == Created(row, Target(row), FALSE)
     IN  CASE row.flaw = "foreign" -> Abort
           [] row.flaw \in {"status", "text"} -> Quarantine(row)
           [] row.flaw = "id" ->
                /\ claims' = claims \o <<new, Quarantined(row)>>
                /\ UNCHANGED <<goals, memory, methods, idmap, imported, pc>>
           [] OTHER ->
                /\ claims' = Append(claims, new)
                /\ idmap' = [o \in DOMAIN idmap \cup {row.id} |->
                               IF o = row.id THEN Len(claims) + 1 ELSE idmap[o]]
                /\ Counted(row)
                /\ UNCHANGED <<goals, memory, methods, pc>>

\* A priority that is no number raises in the gate, which refuses; the row counts all the same.
ImportGoal ==
  /\ Reads("goals")
  /\ LET row == Row("goals")
     IN  IF row.flaw \in {"foreign", "text"} THEN Quarantine(row)
         ELSE /\ goals' = IF row.flaw = "priority" THEN goals ELSE Append(goals, [of |-> row])
              /\ Counted(row)
              /\ UNCHANGED <<claims, memory, methods, idmap, pc>>

\* Whatever was referred to is referred to by its old id.
OldRefs(refs) == refs

\* A reference to a claim that was imported follows it, another stays as it was.
NewRefs(refs) == {IF r \in DOMAIN idmap THEN idmap[r] ELSE r : r \in refs}

ImportMemory ==
  /\ Reads("memory")
  /\ LET row == Row("memory")
     IN  IF row.flaw # "none" THEN Quarantine(row)
         ELSE /\ memory' = Append(memory, [of |-> row, refs |-> NewRefs(row.refs)])
              /\ Counted(row)
              /\ UNCHANGED <<claims, goals, methods, idmap, pc>>

\* The method proposed last is promoted once: a candidate becomes provisional, a method that is
\* provisional has no trials yet and stays.
PromoteLast(ms) == [ms EXCEPT ![Len(ms)].status = "provisional"]

\* A proposal that the gate refuses leaves the method before it to be promoted, if there is one.
ImportMethod ==
  /\ Reads("methods")
  /\ LET row == Row("methods")
         proposed == IF row.flaw = "affinities" THEN methods
                     ELSE Append(methods, [of |-> row, status |-> "candidate"])
     IN  CASE row.flaw \in {"json", "name"} -> Quarantine(row)
           [] row.flaw \in {"foreign", "steps"} -> Abort
           [] OTHER ->
                IF proposed = <<>> THEN Abort
                ELSE /\ methods' = PromoteLast(proposed)
                     /\ Counted(row)
                     /\ UNCHANGED <<claims, goals, memory, idmap, pc>>

Finish ==
  /\ pc = "importing" /\ \A s \in Stores : left[s] = <<>>
  /\ pc' = "done"
  /\ UNCHANGED <<doc, left, core, idmap, imported>>

Next == ImportClaim \/ ImportGoal \/ ImportMemory \/ ImportMethod \/ Finish

Spec == Init /\ [][Next]_vars

-----------------------------------------------------------------------------
(* Properties.                                                             *)

\* A memory leads to what it was about: where the claim it referred to could be read, whatever
\* was left out, quarantined or doubled before it, the new reference names the claim made of it.
\* (migration.py:107-143)
RefsLeadHome ==
  \A m \in Range(memory) : \A row \in Range(doc["claims"]) :
    row.flaw = "none" /\ row.id \in m.of.refs =>
      \E r \in m.refs : r \in DOMAIN claims /\ claims[r].of = row
=============================================================================
