--------------------------------- MODULE Shadow ---------------------------------
(***************************************************************************)
(* The shadow observer of Joni's own judgement (src/src/joni/autonomy/     *)
(* metacognition): after a cycle it writes an episode for every method,    *)
(* conflict, verdict and commission it meets for the first time, and, when *)
(* the subject has come to something, an outcome event that refers to the  *)
(* episode.  The log is only appended to; which subjects it has met it     *)
(* keeps among the extensions, and these the cycle has saved before it     *)
(* looks (run.py, one_cycle): what a job notes there dies with the job.    *)
(*                                                                         *)
(* An id hashes what an episode says, here its subject and the cycle it    *)
(* gives: the present one for a method and a conflict, the one the verdict *)
(* was given in for the other two.                                         *)
(***************************************************************************)
EXTENDS Integers, FiniteSets, Bags

CONSTANTS
  Method, Conflict, Verdict, Commission,   \* what is observed, by the seam it belongs to
  Stale,         \* cycles after which an open conflict counts as a failure
  MaxCycle       \* bound on the cycles

Subject == Method \cup Conflict \cup Verdict \cup Commission

ShadowAssumption ==
  /\ IsFiniteSet(Subject)
  /\ Cardinality(Subject) = Cardinality(Method) + Cardinality(Conflict)
                            + Cardinality(Verdict) + Cardinality(Commission)
  /\ {Stale, MaxCycle} \subseteq Nat \ {0}

VARIABLES
  cycle,
  stage,     \* "idle", "work", or the seam that is looked at next
  standing,  \* [subject -> where it stands in the kernel, or "none"]
  said,      \* [verdict or review -> the cycle it was given in]
  met,       \* memory: [subject -> the cycle of its episode, 0 if it is not known]
  since,     \* memory: [subject -> the cycle it was met in]
  kept,      \* disk: met and since, as the extensions have them
  log,       \* disk: a bag of episodes, one entry for each line
  outcomes   \* disk: a bag of outcome events

memory == <<met, since>>
disk == <<kept, log, outcomes>>
vars == <<cycle, stage, standing, said, memory, disk>>

-----------------------------------------------------------------------------
(* What a subject has come to.                                             *)

Standings(s) ==
  CASE s \in Method -> {"candidate", "provisional", "leading", "active", "retired"}
    [] s \in Conflict -> {"open", "resolved"}
    [] s \in Verdict -> {"tentative", "active", "rejected"}
    [] s \in Commission -> {"asked", "implemented"}

Fresh(s) ==
  CASE s \in Method -> "candidate"
    [] s \in Conflict -> "open"
    [] s \in Verdict -> "tentative"
    [] s \in Commission -> "asked"

\* method_gate.resolve; "leading" is provisional with more trials passed than failed.
MethodOutcome(s) ==
  CASE standing[s] = "retired" -> "failure"
    [] standing[s] \in {"active", "leading"} -> "success"
    [] OTHER -> "unknown"

ConflictOutcome(s, first) ==
  CASE standing[s] = "resolved" -> "success"
    [] standing[s] # "resolved" /\ cycle - first >= Stale -> "failure"
    [] OTHER -> "unknown"

VerdictOutcome(s) ==
  CASE standing[s] = "active" -> "success"
    [] standing[s] = "rejected" -> "failure"
    [] OTHER -> "unknown"

\* Only what was implemented is on record, never what was turned down.
ReviewOutcome(s) == IF standing[s] = "implemented" THEN "success" ELSE "unknown"

Outcome(s, first) ==
  CASE s \in Method -> MethodOutcome(s)
    [] s \in Conflict -> ConflictOutcome(s, first)
    [] s \in Verdict -> VerdictOutcome(s)
    [] s \in Commission -> ReviewOutcome(s)

-----------------------------------------------------------------------------
(* The log.                                                                *)

Episode(s, at) == [subject |-> s, cycle |-> at]

Resolved == {event.episode : event \in BagToSet(outcomes)}

\* The episodes that have no outcome yet, in a log with these lines.
Pending(lines) == BagToSet(lines) \ Resolved

-----------------------------------------------------------------------------
Nothing == [met |-> [s \in Subject |-> 0], since |-> [s \in Subject |-> 0]]

Init ==
  /\ cycle = 0 /\ stage = "idle"
  /\ standing = [s \in Subject |-> "none"] /\ said = [s \in Subject |-> 0]
  /\ met = Nothing.met /\ since = Nothing.since
  /\ kept = Nothing /\ log = EmptyBag /\ outcomes = EmptyBag

\* A job starts with the extensions it loads.
Begin ==
  /\ stage = "idle" /\ cycle < MaxCycle
  /\ cycle' = cycle + 1 /\ stage' = "work"
  /\ met' = kept.met /\ since' = kept.since
  /\ UNCHANGED <<standing, said, disk>>

\* The cycle finds, tries, decides: a subject appears or moves.
Work(s, next) ==
  /\ stage = "work" /\ next # standing[s]
  /\ next \in IF standing[s] = "none" THEN {Fresh(s)} ELSE Standings(s)
  /\ standing' = [standing EXCEPT ![s] = next]
  /\ said' = [said EXCEPT ![s] = IF standing[s] = "none" THEN cycle ELSE @]
  /\ UNCHANGED <<cycle, stage, memory, disk>>

\* The extensions are saved, then the observer is called, if it is switched on.
Finish ==
  /\ stage = "work" /\ kept' = [met |-> met, since |-> since]
  /\ stage' \in {"methods", "idle"}
  /\ UNCHANGED <<cycle, standing, said, memory, log, outcomes>>

-----------------------------------------------------------------------------
(* One seam is looked at.                                                  *)

EpisodeCycle(s) == IF s \in Verdict \cup Commission THEN said[s] ELSE cycle

Observe(seam, here, next) ==
  LET new == {s \in here : standing[s] # "none" /\ met[s] = 0}
      lines == log (+) SetToBag({Episode(s, EpisodeCycle(s)) : s \in new})
      known == [s \in Subject |-> IF s \in new THEN EpisodeCycle(s) ELSE met[s]]
      first == [s \in Subject |-> IF s \in new THEN EpisodeCycle(s) ELSE since[s]]
      settled == {s \in here : /\ known[s] # 0 /\ Episode(s, known[s]) \in Pending(lines)
                               /\ Outcome(s, first[s]) # "unknown"}
  IN /\ stage = seam /\ stage' = next
     /\ met' = known /\ since' = first
     /\ log' = lines
     /\ outcomes' = outcomes (+)
          SetToBag({[episode |-> Episode(s, known[s]), outcome |-> Outcome(s, first[s])] :
                      s \in settled})
     /\ UNCHANGED <<cycle, standing, said, kept>>

ObserveMethods == Observe("methods", Method, "conflicts")

ObserveConflicts == Observe("conflicts", Conflict, "verdicts")

ObserveDoktores == Observe("verdicts", Verdict, "reviews")

ObserveLiterature == Observe("reviews", Commission, "idle")

\* An error anywhere ends the observation, and never the cycle; so does a kill.
GiveUp ==
  /\ stage \in {"methods", "conflicts", "verdicts", "reviews"} /\ stage' = "idle"
  /\ UNCHANGED <<cycle, standing, said, memory, disk>>

Next ==
  \/ Begin
  \/ \E s \in Subject : \E next \in Standings(s) : Work(s, next)
  \/ Finish
  \/ ObserveMethods
  \/ ObserveConflicts
  \/ ObserveDoktores
  \/ ObserveLiterature
  \/ GiveUp

Spec == Init /\ [][Next]_vars

-----------------------------------------------------------------------------
(* Properties.                                                             *)

TypeOK ==
  /\ cycle \in 0 .. MaxCycle
  /\ stage \in {"idle", "work", "methods", "conflicts", "verdicts", "reviews"}
  /\ \A s \in Subject : standing[s] \in Standings(s) \cup {"none"}
  /\ {said, met, since, kept.met, kept.since} \subseteq [Subject -> 0 .. MaxCycle]
  /\ IsABag(log) /\ IsABag(outcomes)

Seam == [methods |-> Method, conflicts |-> Conflict, verdicts |-> Verdict, reviews |-> Commission]

\* When a seam has been looked at, each of its subjects that has come to something has an
\* outcome for its latest episode, and no episode has two: whatever jobs were lost in between, an
\* outcome is on record as soon as there is one, and later turns do not rewrite it.
OutcomesOnRecord ==
  /\ [][\A seam \in DOMAIN Seam : (stage = seam /\ (met' # met \/ stage' # "idle")) =>
          \A s \in Seam[seam] : (met'[s] # 0 /\ Outcome(s, since'[s]) # "unknown") =>
            \E event \in BagToSet(outcomes') : event.episode = Episode(s, met'[s])]_vars
  /\ [](\A one, other \in BagToSet(outcomes) :
          one.episode = other.episode => one = other /\ CopiesIn(one, outcomes) = 1)
=============================================================================
