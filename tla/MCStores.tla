-------------------------------- MODULE MCStores --------------------------------
(***************************************************************************)
(* Instances for TLC, side by side: the state file, which this module      *)
(* extends, with payloads that have detail to strip and payloads that have *)
(* none; and the smaller parts that keep state of their own, the object    *)
(* store of Layer-9 v2, the two backends of the kernel, the first identity *)
(* and the shadow observer, the chain of the ledger and the import of the  *)
(* old stores.  `part` says which of them a behaviour is about, the others *)
(* stay in their initial states.                                           *)
(***************************************************************************)
EXTENDS JournalStore, TLC

CONSTANTS lean, fat

VARIABLES part,
  objects, links, overlays, scopes, events, snapshot, read,
  backend, database, checkpoint, tracked, where, recorded, derived, count,
  up, tick, claims, conflicts, progress, tastes, projects, billed, bank, cursor, spent, file,
  cycle, watch, standing, said, met, since, kept, log, outcomes,
  phase, things, folded, ledger, cached, committed, intact,
  doc, left, minted, goals, memories, methods, idmap, imported, import

spaces == <<objects, links, overlays, scopes, events, snapshot, read>>
backends == <<backend, database, checkpoint, tracked, where, recorded, derived, count>>
identity == <<up, tick, claims, conflicts, progress, tastes, projects, billed, bank, cursor,
              spent, file>>
shadow == <<cycle, watch, standing, said, met, since, kept, log, outcomes>>
chain == <<phase, things, folded, ledger, cached, committed, intact>>
migration == <<doc, left, minted, goals, memories, methods, idmap, imported, import>>
small == <<spaces, backends, identity, shadow, chain, migration>>

-----------------------------------------------------------------------------
Stripping == [body \in Body |-> lean]

\* Two claims that a document may declare to contradict each other, and an object of a kind the
\* spaces do not know; a newer document in which one claim does not parse.
Kinds == [o \in {"p", "q", "x"} |-> IF o = "x" THEN "unknown" ELSE "claim"]
Contradicts == {[from |-> "p", rel |-> "contradicts", to |-> "q"]}
Exports ==
  {[status |-> [o \in {"p", "q"} |-> "active"], torn |-> {}, edges |-> Contradicts],
   [status |-> [o \in {"p", "q", "x"} |-> "contested"], torn |-> {"p"}, edges |-> Contradicts]}

S == INSTANCE Spaces WITH
       Object <- {"p", "q", "x"}, Kind <- Kinds, Edge <- Contradicts,
       Status <- {"active", "contested", "rejected"}, Documents <- Exports, Writer <- {"w"},
       User <- {"u"}, Project <- {"j"}, MaxEvents <- 3,
       journal <- events

R == INSTANCE RuntimeStore WITH
       MaxOps <- 3, journal <- recorded, objects <- derived,
       head <- tracked

\* Of the first topic four texts, of which each contradicts another.
Texts == 1 .. 5
Subjects == [x \in Texts |-> IF x = 5 THEN 2 ELSE 1]
Supports == <<2, 2, 3, 1, 1>>
Clashes == {{1, 3}, {1, 4}, {2, 4}}
Found == {[t \in {1, 2} |-> IF t = 1 THEN <<x, y>> ELSE <<5>>] : x \in 1 .. 4, y \in 3 .. 4}

I == INSTANCE Identity WITH
       Topic <- {1, 2}, Text <- Texts, TopicOf <- Subjects, Support <- Supports,
       Clash <- Clashes, Seeds <- <<1, 2, 5>>, Banks <- Found, Goal <- {1, 2}, Steps <- 2,
       Budget <- 2, MaxTick <- 4, MaxBilled <- 3

W == INSTANCE Shadow WITH
       Method <- {"m"}, Conflict <- {"c"}, Verdict <- {"v"}, Commission <- {"r"}, Stale <- 1,
       MaxCycle <- 2, stage <- watch

H == INSTANCE Chain WITH
       Object <- {"o", "p"}, MaxEvents <- 3, pc <- phase, objects <- things, saved <- cached,
       head <- committed

\* Old stores with a claim that may be flawed before one that may be flawed and one that is
\* sound, a goal, and a memory of all three; or with two methods.
Flawed(store) == CASE store = "claims" -> {"none", "foreign", "status", "text", "id"}
                   [] store = "goals" -> {"none", "foreign", "text", "priority"}
                   [] store = "memory" -> {"none", "foreign", "summary", "refs"}
                   [] store = "methods" -> {"none", "json", "foreign", "name", "steps", "affinities"}
OldClaims ==
  {<<[id |-> 2, status |-> s, flaw |-> f], [id |-> 3, status |-> "tentative", flaw |-> g],
     [id |-> 1, status |-> "superseded", flaw |-> "none"]>> :
     s \in {"confirmed", "odd", "rejected"}, f \in Flawed("claims"), g \in Flawed("claims")}
Nothing == [claims |-> <<>>, goals |-> <<>>, memory |-> <<>>, methods |-> <<>>]
OldStores ==
  {[Nothing EXCEPT !.claims = c, !.goals = <<[id |-> 1, flaw |-> f]>>,
                   !.memory = <<[id |-> 1, refs |-> {1, 2, 3}, flaw |-> g]>>] :
     c \in OldClaims, f \in Flawed("goals"), g \in Flawed("memory")}
  \cup {[Nothing EXCEPT !.methods = <<[id |-> 1, flaw |-> f], [id |-> 2, flaw |-> g]>>] :
          f \in Flawed("methods"), g \in Flawed("methods")}
  \cup {Nothing}

G == INSTANCE Migration WITH
       Documents <- OldStores, claims <- minted, memory <- memories, pc <- import

ASSUME
  /\ S!SpacesAssumption /\ R!RuntimeStoreAssumption /\ I!IdentityAssumption
  /\ W!ShadowAssumption /\ H!ChainAssumption /\ G!MigrationAssumption

-----------------------------------------------------------------------------
Start ==
  /\ part \in {"file", "spaces", "backends", "identity", "shadow", "chain", "migration"}
  /\ Init /\ S!Init /\ R!Init /\ I!Init /\ W!Init /\ H!Init
  /\ IF part = "migration" THEN doc \in OldStores ELSE doc = Nothing
  /\ G!Init
  /\ part # "file" => size = CHOOSE n \in ChunkSizes : TRUE
  /\ part # "identity" => bank = CHOOSE found \in Found : TRUE
  /\ part # "backends" => backend = "json"

FileStep == part = "file" /\ Next /\ UNCHANGED <<part, small>>

SpacesStep ==
  part = "spaces" /\ S!Next
  /\ UNCHANGED <<part, vars, backends, identity, shadow, chain, migration>>

BackendsStep ==
  part = "backends" /\ R!Next
  /\ UNCHANGED <<part, vars, spaces, identity, shadow, chain, migration>>

IdentityStep ==
  part = "identity" /\ I!Next
  /\ UNCHANGED <<part, vars, spaces, backends, shadow, chain, migration>>

ShadowStep ==
  part = "shadow" /\ W!Next
  /\ UNCHANGED <<part, vars, spaces, backends, identity, chain, migration>>

ChainStep ==
  part = "chain" /\ H!Next
  /\ UNCHANGED <<part, vars, spaces, backends, identity, shadow, migration>>

MigrationStep ==
  part = "migration" /\ G!Next
  /\ UNCHANGED <<part, vars, spaces, backends, identity, shadow, chain>>

Step ==
  FileStep \/ SpacesStep \/ BackendsStep \/ IdentityStep \/ ShadowStep \/ ChainStep
    \/ MigrationStep

Behaviours == Start /\ [][Step]_<<part, vars, small>>

-----------------------------------------------------------------------------

\* See Spaces: what was written here outlives an import.
ImportNeverUndoes == S!ImportNeverUndoes

\* See Shadow: what a subject came to is on record, once.
OutcomesOnRecord == W!OutcomesOnRecord

\* See RuntimeStore and Chain: what is loaded is all that was saved, but after a change back to a
\* backend that was outrun; and what was committed as far as the hashes reach, whatever became of
\* the cache.
LoadsAreVouchedFor ==
  []R!LoadedWhole /\ R!OnlyJsonOutruns /\ H!LoadsWhatIsVouchedFor

\* See Migration: a memory leads to what it was about.
RefsLeadHome == G!RefsLeadHome
=============================================================================
