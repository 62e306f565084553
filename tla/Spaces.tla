--------------------------------- MODULE Spaces ---------------------------------
(***************************************************************************)
(* The second store of the epistemic state, in SQLite                      *)
(* (src/src/joni/layer9_v2): objects of three spaces in one table, typed   *)
(* links between them, what users and projects think of an object, and a   *)
(* journal of all writes.  Several connections write; SQLite lets one of   *)
(* them write at a time, but what a write starts from was read before.     *)
(* The import copies a snapshot of the kernel, now and again.              *)
(***************************************************************************)
EXTENDS Naturals, Sequences, FiniteSets

CONSTANTS
  Object,      \* identifiers
  Kind,        \* what each is: "claim", "conflict", "question" or of an unknown type
  Edge,        \* the links there may be: [from, rel, to]
  Status,      \* the statuses writers give, those of Documents among them
  Documents,   \* snapshots of the kernel: [status: of the objects it holds, torn: those that
               \* do not decode, edges: the links its references say]
  Writer, User, Project,
  MaxEvents    \* bound on the length of the journal

SpacesAssumption ==
  /\ Kind \in [Object -> {"claim", "conflict", "question", "unknown"}]
  /\ \A e \in Edge : e.from \in Object /\ e.to \in Object
  /\ \A d \in Documents :
       /\ DOMAIN d.status \subseteq Object /\ d.torn \subseteq DOMAIN d.status
       /\ \A o \in DOMAIN d.status : d.status[o] \in Status
       /\ d.edges \subseteq Edge
  /\ MaxEvents \in Nat

VARIABLES
  objects,   \* the row of an object: [space, status, version]
  links,     \* of each link: "none", "active" or "retired"
  overlays,  \* rows of the users' overlays, oldest first
  scopes,    \* the projects' overlays
  journal,   \* what was written and where: [what, on]
  snapshot,  \* the last checkpoint: the tables it sealed, the length of the journal then
  read       \* what a writer has read and is about to write to

tables == <<objects, links>>
vars == <<objects, links, overlays, scopes, journal, snapshot, read>>

Absent == [space |-> "none", status |-> "none", version |-> 0]
Nothing == "nothing"
NotLooked == [on |-> Nothing, row |-> Absent]
Unsealed == [sealed |-> FALSE, objects |-> <<>>, links |-> <<>>, length |-> 0]

Init ==
  /\ objects = [o \in Object |-> Absent]
  /\ links = [e \in Edge |-> "none"]
  /\ overlays = <<>>
  /\ scopes = [s \in Project \X Object |-> "unset"]
  /\ journal = <<>>
  /\ snapshot = Unsealed
  /\ read = [w \in Writer |-> NotLooked]

Present == {o \in Object : objects[o] # Absent}

\* Every write ends with an event, in the transaction of the write.
Record(what, o) ==
  /\ Len(journal) < MaxEvents
  /\ journal' = Append(journal, [what |-> what, on |-> o])

-----------------------------------------------------------------------------
(* Objects.  The row is looked up before the first statement that writes,  *)
(* so outside of the transaction.                                          *)

Look(w, o) ==
  /\ read[w] = NotLooked
  /\ read' = [read EXCEPT ![w] = [on |-> o, row |-> objects[o]]]
  /\ UNCHANGED <<tables, overlays, scopes, journal, snapshot>>

\* A new row, or all of an old one replaced: its space and its status, too.
Put(w, space, status) ==
  /\ read[w] # NotLooked
  /\ LET o == read[w].on
         old == read[w].row
     IN  /\ objects' = [objects EXCEPT
              ![o] = [space |-> space, status |-> status, version |-> old.version + 1]]
         /\ Record(IF old = Absent THEN "object_created" ELSE "object_updated", o)
  /\ read' = [read EXCEPT ![w] = NotLooked]
  /\ UNCHANGED <<links, overlays, scopes, snapshot>>

SetStatus(w, status) ==
  /\ read[w] # NotLooked
  /\ read[w].row # Absent
  /\ LET o == read[w].on
     IN  /\ objects' = [objects EXCEPT ![o].status = status, ![o].version = @ + 1]
         /\ Record("status_changed", o)
  /\ read' = [read EXCEPT ![w] = NotLooked]
  /\ UNCHANGED <<links, overlays, scopes, snapshot>>

\* The caller's transaction is rolled back, or its process ends: nothing of it stays.
Abandon(w) ==
  /\ read[w] # NotLooked
  /\ read' = [read EXCEPT ![w] = NotLooked]
  /\ UNCHANGED <<tables, overlays, scopes, journal, snapshot>>

-----------------------------------------------------------------------------
(* Links and overlays.                                                     *)

\* A link to an object that is not there breaks the foreign key: rolled back.  A retired link
\* is in force again.
AddLink(e) ==
  /\ {e.from, e.to} \subseteq Present
  /\ links' = [links EXCEPT ![e] = "active"]
  /\ Record("link_added", e.from)
  /\ UNCHANGED <<objects, overlays, scopes, snapshot, read>>

\* Journalled also where there is no such link.
RetireLink(e) ==
  /\ links' = [links EXCEPT ![e] = IF @ = "none" THEN "none" ELSE "retired"]
  /\ Record("link_retired", e.from)
  /\ UNCHANGED <<objects, overlays, scopes, snapshot, read>>

\* The conflict clause meets an older row of the same user, project and object, but NULL is
\* no project at all: without one, there never is an older row.
SetUserOverlay(u, p, o, weight) ==
  /\ o \in Present
  /\ LET row == [user |-> u, project |-> p, on |-> o, weight |-> weight]
         Same(r) == p # Nothing /\ r.user = u /\ r.project = p /\ r.on = o
     IN  overlays' = IF \E i \in DOMAIN overlays : Same(overlays[i])
                     THEN [i \in DOMAIN overlays |->
                             IF Same(overlays[i]) THEN row ELSE overlays[i]]
                     ELSE Append(overlays, row)
  /\ Record("user_overlay_set", o)
  /\ UNCHANGED <<tables, scopes, snapshot, read>>

SetProjectOverlay(p, o, active) ==
  /\ o \in Present
  /\ scopes' = [scopes EXCEPT ![<<p, o>>] = IF active THEN "active" ELSE "hidden"]
  /\ Record("project_overlay_set", o)
  /\ UNCHANGED <<tables, overlays, snapshot, read>>

TakeSnapshot ==
  /\ snapshot' = [sealed |-> TRUE, objects |-> objects, links |-> links, length |-> Len(journal)]
  /\ UNCHANGED <<tables, overlays, scopes, journal, read>>

\* verify_against: the tables are those that were sealed.
Verifies == snapshot.objects = objects /\ snapshot.links = links

-----------------------------------------------------------------------------
(* The import: one transaction, one event.                                 *)

SpaceOf(o) == IF Kind[o] = "question" THEN "question" ELSE "content"

Imported(d, o) ==
  [space |-> SpaceOf(o), version |-> 1,
   status |-> IF Kind[o] = "unknown" THEN "needs_review" ELSE d.status[o]]

\* What has been decoded, whether or not it is there already.
Decoded(d) == DOMAIN d.status \ d.torn

\* Fault: the snapshot wins.
RowOfSnapshot(d, o) == IF o \in Decoded(d) THEN Imported(d, o) ELSE objects[o]

\* A row that is there stays as it is.
RowAfterImport(d, o) ==
  IF o \in Decoded(d) /\ objects[o] = Absent THEN Imported(d, o) ELSE objects[o]

LinkAfterImport(d, e) ==
  IF /\ e \in d.edges /\ {e.from, e.to} \subseteq Decoded(d) /\ e.from # e.to
     /\ links[e] = "none"
  THEN "active" ELSE links[e]

RecordImport(d) == Record("legacy_import", Nothing)

Import(d) ==
  /\ objects' = [o \in Object |-> RowAfterImport(d, o)]
  /\ links' = [e \in Edge |-> LinkAfterImport(d, e)]
  /\ RecordImport(d)
  /\ UNCHANGED <<overlays, scopes, snapshot, read>>

\* convert --reset: the file is unlinked, and made anew from the snapshot.  Whoever has it
\* open is left with the old one.
Reset(d) ==
  /\ \A w \in Writer : read[w] = NotLooked
  /\ objects' = [o \in Object |-> IF o \in Decoded(d) THEN Imported(d, o) ELSE Absent]
  /\ links' = [e \in Edge |->
       IF e \in d.edges /\ {e.from, e.to} \subseteq Decoded(d) /\ e.from # e.to
       THEN "active" ELSE "none"]
  /\ overlays' = <<>>
  /\ scopes' = [s \in Project \X Object |-> "unset"]
  /\ journal' = <<[what |-> "legacy_import", on |-> Nothing]>>
  /\ snapshot' = Unsealed
  /\ UNCHANGED read

Next ==
  \/ \E w \in Writer, o \in Object : Look(w, o)
  \/ \E w \in Writer, s \in Status :
       \/ \E space \in {"content", "question"} : Put(w, space, s)
       \/ SetStatus(w, s)
  \/ \E w \in Writer : Abandon(w)
  \/ \E e \in Edge : AddLink(e) \/ RetireLink(e)
  \/ \E u \in User, p \in Project \cup {Nothing}, o \in Object, weight \in {1, 2} :
       SetUserOverlay(u, p, o, weight)
  \/ \E p \in Project, o \in Object, active \in BOOLEAN : SetProjectOverlay(p, o, active)
  \/ TakeSnapshot
  \/ \E d \in Documents : Import(d) \/ Reset(d)

Spec == Init /\ [][Next]_vars

-----------------------------------------------------------------------------
(* What DESi, the router and the slice check are shown.  All of it is read *)
(* from the tables.                                                        *)

Live == {"active", "contested"}

IsClaim(o) == Kind[o] = "claim" /\ objects[o].space = "content"

Into(o, rel) == {e \in Edge : e.to = o /\ e.rel = rel /\ links[e] = "active"}
OutOf(o, rel) == {e \in Edge : e.from = o /\ e.rel = rel /\ links[e] = "active"}

Against(o) == {e.from : e \in Into(o, "contradicts")}
Supporting(o) == {e.from : e \in Into(o, "supports")}

\* desi_adapter: the live claims, and the pressure on each.
ClaimSlice ==
  {[id |-> o, support |-> Cardinality(Supporting(o)),
    contradiction |-> Cardinality(Against(o))] :
     o \in {c \in Present : IsClaim(c) /\ objects[c].status \in Live}}

\* router_adapter: a join of the claims with the links into them.
ContestedClaims ==
  {o \in Present : /\ IsClaim(o) /\ objects[o].status \in Live
                   /\ \E e \in Edge : /\ e.to = o /\ e.rel = "contradicts"
                                      /\ links[e] = "active"}

OpenQuestions ==
  {o \in Present : objects[o].space = "question" /\ objects[o].status = "open"}

InReview ==
  {o \in Present : objects[o].space = "content" /\ objects[o].status = "needs_review"}

\* With a project, only what it marks as active.
Within(p, S) == IF p = Nothing THEN S ELSE {o \in S : scopes[<<p, o>>] = "active"}

Hint(p) ==
  IF Within(p, ContestedClaims) # {} THEN "resolve_conflict"
  ELSE IF Within(p, OpenQuestions) # {} THEN "answer_question"
  ELSE IF Within(p, InReview) # {} THEN "triage_review" ELSE "idle"

\* slice_scan: what stands against a slice of claims and is not in it.
Opposition(slice) ==
  UNION {LET rels == {"contradicts", "supersedes", "invalidates"}
             either(r) == {e.to : e \in OutOf(o, r)} \cup {e.from : e \in Into(o, r)}
             asked(r) == {e.to : e \in OutOf(o, r)}
         IN  UNION {either(r) : r \in rels}
               \cup asked("answers") \cup asked("belongs_to_question") : o \in slice} \ slice

-----------------------------------------------------------------------------

\* Importing a snapshot again undoes nothing that was written here since: the status, space
\* and version of an object stay, and a link that was retired stays retired.
ImportNeverUndoes ==
  [][(\E d \in Documents : Import(d)) =>
       /\ \A o \in Present : objects'[o] = objects[o]
       /\ \A e \in Edge : links[e] # "none" => links'[e] = links[e]]_vars
=============================================================================
