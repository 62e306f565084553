---------------------------- MODULE JournalStore ----------------------------
(***************************************************************************)
(* Saving and loading the kernel state (src/desi_layer9/persistence.py).   *)
(* The journal is written as chunk files, then the head that names them,   *)
(* then the fast-load sidecar.  Each file is replaced atomically, and the  *)
(* process may be killed between any two of these writes.                  *)
(*                                                                         *)
(* The state is a deterministic function of the journal and its hash is    *)
(* taken to be injective, so a hash is the sequence of operations the      *)
(* hashed state was built from.  An operation is its tick and its body;    *)
(* all that matters of a body is what compaction makes of it.              *)
(***************************************************************************)
EXTENDS Integers, Sequences

CONSTANTS
  Body,        \* payloads of an operation
  Slim,        \* what compaction makes of a payload, a function on Body
  ChunkSizes,  \* JONI_JOURNAL_CHUNK, as the processes may be started with it
  MaxEntries,  \* bound on the length of the journal
  MaxTick      \* bound on the logical clock

ASSUME BodyAssumption ==
  Slim \in [Body -> Body] /\ \A b \in Body : Slim[Slim[b]] = Slim[b]

ASSUME SizeAssumption == ChunkSizes \subseteq Nat \ {0}

ASSUME BoundsAssumption == MaxEntries \in Nat /\ MaxTick \in Nat

VARIABLES
  chunk,    \* disk: the chunk files there are, by number, and their content
  head,     \* disk: the state file, or NoHead
  sidecar,  \* disk: the fast-load snapshot, or NoSidecar
  pc,       \* what the process is at: down, idle, or a phase of save
  after,    \* where pc goes when the save is done
  at,       \* the chunk that save writes next
  size,     \* the process's chunk size
  fast,     \* the process's JONI_FAST_LOAD
  journal,  \* memory: the recorded operations
  built,    \* memory: the operations the objects derive from
  clock     \* memory: the logical clock

disk == <<chunk, head, sidecar>>
memory == <<journal, built, clock>>
process == <<after, size, fast>>
vars == <<chunk, head, sidecar, pc, after, at, size, fast, journal, built, clock>>

Operation == [tick: 0..MaxTick, body: Body]
ChunkId == 1..MaxEntries

NoHead == [files |-> <<>>, seal |-> <<>>, tick |-> 0]
NoSidecar == [there |-> FALSE, seal |-> <<>>, tick |-> 0]

Smaller(a, b) == IF a <= b THEN a ELSE b

(***************************************************************************)
(* Reading.                                                                *)
(***************************************************************************)
Committed == head.files # <<>>

TailId == Len(head.files)

\* Only the tail chunk may hold more lines than the head records.
Readable ==
  \A i \in 1..TailId :
    /\ i \in DOMAIN chunk
    /\ head.files[i] <= Len(chunk[i])
    /\ head.files[i] = Len(chunk[i]) \/ i = TailId

\* Fault: a chunk is read to its end, whatever the head records.
AssembledWhole ==
  LET upTo[i \in 0..TailId] == IF i = 0 THEN <<>> ELSE upTo[i - 1] \o chunk[i]
  IN  upTo[TailId]

\* The recorded prefix of each chunk, chunk after chunk.
Assembled ==
  LET upTo[i \in 0..TailId] ==
        IF i = 0 THEN <<>> ELSE upTo[i - 1] \o SubSeq(chunk[i], 1, head.files[i])
  IN  upTo[TailId]

SlimAll(ops) == [i \in 1..Len(ops) |-> [ops[i] EXCEPT !.body = Slim[@]]]

\* replay leaves the clock at the last operation's tick, the head's if there is none.
ReplayClock(ops) == IF ops = <<>> THEN head.tick ELSE ops[Len(ops)].tick

\* The sidecar stands in for a replay if it reproduces the hash of the head.
Cached == fast' /\ sidecar.there /\ sidecar.seal = head.seal

(***************************************************************************)
(* A process starts, works, and stops.                                     *)
(***************************************************************************)
Init ==
  /\ chunk = <<>>
  /\ head = NoHead
  /\ sidecar = NoSidecar
  /\ pc = "down" /\ after = "down" /\ at = 1
  /\ size \in ChunkSizes /\ fast \in BOOLEAN
  /\ journal = <<>> /\ built = <<>> /\ clock = 0

Configure == size' \in ChunkSizes /\ fast' \in BOOLEAN

Hold(ops, objects, tick) == journal' = ops /\ built' = objects /\ clock' = tick

\* No state file yet: a fresh core.
Seed ==
  /\ pc = "down" /\ ~Committed
  /\ Configure
  /\ Hold(<<>>, <<>>, 0)
  /\ pc' = "idle" /\ after' = "idle"
  /\ UNCHANGED <<disk, at>>

\* The journal always comes from the chunks, the objects from the sidecar or a replay.
Load ==
  /\ pc = "down" /\ Committed /\ Readable
  /\ Configure
  /\ \/ Cached /\ Hold(Assembled, sidecar.seal, sidecar.tick)
     \/ /\ ~Cached /\ Assembled = head.seal
        /\ Hold(Assembled, Assembled, ReplayClock(Assembled))
  /\ pc' = "idle" /\ after' = "idle"
  /\ UNCHANGED <<disk, at>>

\* The replay does not reproduce the recorded hash: load_or_migrate re-seals what the
\* replay gives.  (The ledger chain that repair verifies comes out of that replay.)
Repair ==
  /\ pc = "down" /\ Committed /\ Readable
  /\ Configure
  /\ ~Cached /\ Assembled # head.seal
  /\ Hold(Assembled, Assembled, ReplayClock(Assembled))
  /\ pc' = "chunks" /\ after' = "idle" /\ at' = 1
  /\ UNCHANGED disk

\* The maintenance command: replay the slimmed journal, save it, check, stop.
Compact ==
  /\ pc = "down" /\ Committed /\ Readable
  /\ Configure
  /\ LET ops == SlimAll(Assembled) IN Hold(ops, ops, ReplayClock(ops))
  /\ pc' = "chunks" /\ after' = "down" /\ at' = 1
  /\ UNCHANGED disk

Submit(b) ==
  /\ pc = "idle" /\ Len(journal) < MaxEntries
  /\ LET op == [tick |-> clock, body |-> b]
     IN  Hold(Append(journal, op), Append(built, op), clock)
  /\ UNCHANGED <<disk, process, pc, at>>

SetClock(t) ==
  /\ pc = "idle" /\ t > clock
  /\ Hold(journal, built, t)
  /\ UNCHANGED <<disk, process, pc, at>>

\* Everything a process holds dies with it.
Forget == Hold(<<>>, <<>>, 0)

\* A kill at any point, or the end of a process that did all it wanted.
Crash ==
  /\ pc # "down"
  /\ Forget
  /\ pc' = "down" /\ after' = "down" /\ at' = 1
  /\ UNCHANGED <<disk, size, fast>>

(***************************************************************************)
(* save.                                                                   *)
(***************************************************************************)
BeginSave ==
  /\ pc = "idle"
  /\ pc' = "chunks" /\ at' = 1
  /\ UNCHANGED <<disk, process, memory>>

\* An empty journal still has one, empty, chunk.
ChunkCount ==
  IF journal = <<>> THEN 1 ELSE (Len(journal) + size - 1) \div size

Piece(i) == SubSeq(journal, (i - 1) * size + 1, Smaller(i * size, Len(journal)))

\* A full chunk that the previous head records as full is not rewritten.
Kept(i) ==
  /\ Len(Piece(i)) = size
  /\ i <= TailId /\ head.files[i] = size
  /\ i \in DOMAIN chunk

WriteChunk ==
  /\ pc = "chunks" /\ at <= ChunkCount
  /\ chunk' = IF Kept(at) THEN chunk
              ELSE [i \in DOMAIN chunk \cup {at} |-> IF i = at THEN Piece(at) ELSE chunk[i]]
  /\ at' = at + 1
  /\ UNCHANGED <<head, sidecar, process, pc, memory>>

StaleFromCount == {i \in DOMAIN chunk : i >= ChunkCount}  \* Fault: off by one.

Stale == {i \in DOMAIN chunk : i > ChunkCount}

DropStale ==
  /\ pc = "chunks" /\ at > ChunkCount
  /\ \E i \in Stale : chunk' = [j \in DOMAIN chunk \ {i} |-> chunk[j]]
  /\ UNCHANGED <<head, sidecar, process, pc, at, memory>>

\* The commit point.
WriteHead ==
  /\ pc = "chunks" /\ at > ChunkCount /\ Stale = {}
  /\ head' = [files |-> [i \in 1..ChunkCount |-> Len(Piece(i))],
              seal |-> built, tick |-> clock]
  /\ pc' = "sidecar"
  /\ UNCHANGED <<chunk, sidecar, process, at, memory>>

\* The fast-load snapshot is renewed or, with fast load off, removed.
WriteSidecar ==
  /\ pc = "sidecar"
  /\ sidecar' = IF fast THEN [there |-> TRUE, seal |-> built, tick |-> clock]
                        ELSE NoSidecar
  /\ pc' = after
  /\ IF after = "down" THEN Forget ELSE UNCHANGED memory
  /\ UNCHANGED <<chunk, head, process, at>>

Next ==
  \/ Seed \/ Load \/ Repair \/ Compact \/ Crash
  \/ \E b \in Body : Submit(b)
  \/ \E t \in 1..MaxTick : SetClock(t)
  \/ BeginSave \/ WriteChunk \/ DropStale \/ WriteHead \/ WriteSidecar

Spec == Init /\ [][Next]_vars

-----------------------------------------------------------------------------
(***************************************************************************)
(* Properties.                                                             *)
(***************************************************************************)
Journals == UNION {[1..n -> Operation] : n \in 0..MaxEntries}

TypeOK ==
  /\ DOMAIN chunk \subseteq ChunkId /\ \A i \in DOMAIN chunk : chunk[i] \in Journals
  /\ head.seal \in Journals /\ head.tick \in 0..MaxTick
  /\ \A i \in 1..TailId : head.files[i] \in 0..MaxEntries
  /\ sidecar \in [there: BOOLEAN, seal: Journals, tick: 0..MaxTick]
  /\ pc \in {"down", "idle", "chunks", "sidecar"} /\ after \in {"down", "idle"}
  /\ at \in 1..MaxEntries + 1 /\ size \in ChunkSizes /\ fast \in BOOLEAN
  /\ journal \in Journals /\ built \in Journals /\ clock \in 0..MaxTick

\* At every instant, in the middle of a save too, a kill leaves a state file that every
\* chunk the head names is there for.
AlwaysReadable == Committed => Readable

\* Taken up to the detail compaction strips, the files implement the commit log.
Durable == IF Committed /\ Readable THEN SlimAll(Assembled) ELSE <<>>
Log == INSTANCE CommitLog WITH
  log <- Durable,
  draft <- IF pc = "down" THEN Durable ELSE SlimAll(journal)

\* A save commits all of the draft or nothing, nothing committed is ever lost or
\* changed, and a load finds exactly the last commit.
RefinesCommitLog == Log!LogSpec
=============================================================================
