----------------------------- MODULE CommitLog -----------------------------
(***************************************************************************)
(* What the state file promises to the cycle that loads and saves it: the  *)
(* log of committed operations only ever grows, a save commits the whole   *)
(* draft or nothing of it, and whatever stops a process leaves exactly the *)
(* last commit to continue from.                                           *)
(***************************************************************************)
EXTENDS Integers, Sequences

CONSTANT Operation  \* what can be recorded

VARIABLES
  log,   \* the committed operations
  draft  \* the operations the running process holds

lvars == <<log, draft>>

LogInit == log = <<>> /\ draft = <<>>

Record(op) == draft' = Append(draft, op) /\ UNCHANGED log

Commit == log' = draft /\ UNCHANGED draft

\* A crash, the end of a process: the next one starts from the log.
Restart == draft' = log /\ UNCHANGED log

LogNext == (\E op \in Operation : Record(op)) \/ Commit \/ Restart

LogSpec == LogInit /\ [][LogNext]_lvars

-----------------------------------------------------------------------------
Extends(long, short) ==
  Len(short) <= Len(long) /\ \A i \in 1..Len(short) : long[i] = short[i]

LogTypeOK == log \in Seq(Operation) /\ draft \in Seq(Operation)

\* The draft of a process continues what is committed, and a commit keeps all of it.
DraftExtendsLog == Extends(draft, log)
LogOnlyGrows == [][Extends(log', log)]_lvars
=============================================================================
