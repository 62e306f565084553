------------------------------ MODULE RuntimeStore ------------------------------
(***************************************************************************)
(* The second way to keep the kernel: a SQLite file that is loaded without *)
(* a replay (src/src/joni/layer9_v2/runtime/desi_store.py, chosen by       *)
(* JONI_PERSISTENCE in autonomy/core_state.py).  A save writes the         *)
(* database, then a checkpoint, then the journal, which is the one that is *)
(* committed; JournalStore models that last file, here it is written at    *)
(* once.  A job that starts on a fresh checkout has no database.           *)
(*                                                                         *)
(* A state is the set of the operations that made it; hashes tell states   *)
(* apart.                                                                  *)
(***************************************************************************)
EXTENDS Naturals

CONSTANT MaxOps   \* bound on the operations there are

RuntimeStoreAssumption == MaxOps \in Nat

VARIABLES
  backend,     \* "json" or "sqlite"
  database,    \* disk: [there, journal, objects]
  checkpoint,  \* disk: [there, objects]; a torn one is not there
  head,        \* disk: [there, journal]; its seal is the state that the journal makes
  where,       \* "down", "idle", or what save writes next
  journal,     \* memory: the operations recorded
  objects,     \* memory: the operations the objects derive from
  count        \* operations there have been

disk == <<database, checkpoint, head>>
memory == <<journal, objects>>
vars == <<backend, disk, where, memory, count>>

NoFile == [there |-> FALSE, journal |-> {}, objects |-> {}]

Init ==
  /\ backend \in {"json", "sqlite"}
  /\ database = NoFile /\ checkpoint = NoFile /\ head = NoFile
  /\ where = "down" /\ journal = {} /\ objects = {} /\ count = 0

Hold(ops, derived) == journal' = ops /\ objects' = derived

\* A fresh checkout: what is not tracked is gone.
Checkout ==
  /\ where = "down" /\ database.there
  /\ database' = NoFile
  /\ UNCHANGED <<backend, checkpoint, head, where, memory, count>>

\* The environment names another backend at the next start; the database stays where it is.
Switch ==
  /\ where = "down"
  /\ backend' = IF backend = "json" THEN "sqlite" ELSE "json"
  /\ UNCHANGED <<disk, where, memory, count>>

-----------------------------------------------------------------------------
(* Loading.                                                                *)

Seal(file) == file.objects

\* load_via_checkpoint: only if it seals to what the journal's head records.
Accepted == checkpoint.there /\ head.there /\ Seal(checkpoint) = head.journal

LoadWarm ==
  /\ backend = "sqlite" /\ database.there
  /\ Hold(database.journal, database.objects)

LoadCold ==
  /\ backend = "sqlite" /\ ~database.there /\ Accepted
  /\ Hold(head.journal, checkpoint.objects)

\* No cache, or the other backend: the journal is replayed.
LoadJournal ==
  /\ backend = "json" \/ (~database.there /\ ~Accepted)
  /\ head.there
  /\ Hold(head.journal, head.journal)

Seed ==
  /\ backend = "json" \/ ~database.there
  /\ ~head.there
  /\ Hold({}, {})

Load ==
  /\ where = "down"
  /\ LoadWarm \/ LoadCold \/ LoadJournal \/ Seed
  /\ where' = "idle"
  /\ UNCHANGED <<backend, disk, count>>

Submit ==
  /\ where = "idle" /\ count < MaxOps
  /\ count' = count + 1
  /\ Hold(journal \cup {count'}, objects \cup {count'})
  /\ UNCHANGED <<backend, disk, where>>

-----------------------------------------------------------------------------
(* Saving.                                                                 *)

BeginSave ==
  /\ where = "idle"
  /\ where' = IF backend = "sqlite" THEN "database" ELSE "journal"
  /\ UNCHANGED <<backend, disk, memory, count>>

\* One transaction.
SaveDatabase ==
  /\ where = "database"
  /\ database' = [there |-> TRUE, journal |-> journal, objects |-> objects]
  /\ where' = "checkpoint"
  /\ UNCHANGED <<backend, checkpoint, head, memory, count>>

\* Written in place: a kill may leave it torn, and a torn one is as good as none.
WriteCheckpoint ==
  /\ where = "checkpoint"
  /\ \/ checkpoint' = [there |-> TRUE, journal |-> {}, objects |-> objects]
        /\ where' = "journal" /\ UNCHANGED memory
     \/ checkpoint' = NoFile /\ where' = "down" /\ Hold({}, {})
  /\ UNCHANGED <<backend, database, head, count>>

SaveJournal ==
  /\ where = "journal"
  /\ head' = [there |-> TRUE, journal |-> journal, objects |-> {}]
  /\ where' = "idle"
  /\ UNCHANGED <<backend, database, checkpoint, memory, count>>

\* The checkpoint command: the state the committed files stand for, sealed anew.
Checkpoint ==
  /\ where = "down" /\ head.there
  /\ checkpoint' = [there |-> TRUE, journal |-> {},
       objects |-> IF Accepted THEN checkpoint.objects ELSE head.journal]
  /\ UNCHANGED <<backend, database, head, where, memory, count>>

\* A kill, or the end.
Stop ==
  /\ where # "down"
  /\ where' = "down" /\ Hold({}, {})
  /\ UNCHANGED <<backend, disk, count>>

Next ==
  \/ Checkout \/ Switch \/ Load \/ Submit
  \/ BeginSave \/ SaveDatabase \/ WriteCheckpoint \/ SaveJournal
  \/ Checkpoint \/ Stop

Spec == Init /\ [][Next]_vars

-----------------------------------------------------------------------------
\* The database lacks what the journal on disk records.
Behind == database.there /\ ~(head.journal \subseteq database.journal)

\* Whichever of the three files a process starts from, after a kill between any two writes of a
\* save: its objects are those its journal makes; and nothing that the journal on disk records is
\* missing, but from a process that goes by a database that is behind.  ("The journal stays the
\* source of truth, the checkpoint is a verified cache": core_state.py:857-860.)
LoadedWhole ==
  where # "down" =>
    /\ journal = objects
    /\ head.journal \subseteq journal \/ (backend = "sqlite" /\ Behind)

\* A database falls behind in one way: it is left in place when the backend is changed, and the
\* other one saves.  Then a change back ("reversible via the env var": core_state.py:843) loses
\* what that one has recorded, and the next save takes it out of the journal as well.
OnlyJsonOutruns == [][~Behind /\ Behind' => backend = "json"]_vars
=============================================================================
