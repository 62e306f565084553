-------------------------------- MODULE Identity --------------------------------
(***************************************************************************)
(* The first Joni, an identity that is lived tick by tick and kept in one  *)
(* JSON file (src/src/joni: loops, operators, conflict, router, identity,  *)
(* persistence, and the API that serves it).  A tick harvests a finding,   *)
(* looks for contradictions, settles the open ones by rejecting the weaker *)
(* claim, and goes on to goals, preferences and projects.  It raises where *)
(* the claim to be rejected has been rejected already; what it has done by *)
(* then stays done.                                                        *)
(***************************************************************************)
EXTENDS Naturals, Sequences, FiniteSets

CONSTANTS
  Topic,    \* in the order of their names
  Text, TopicOf, Support,   \* what may be claimed, about what, how well supported
  Clash,    \* pairs of texts on a topic that contradict each other
  Seeds,    \* the texts of the seed
  Banks,    \* the findings on each topic, in the order a harvester has them
  Goal,     \* goals, by falling priority
  Steps,    \* advances until a goal is achieved
  Budget,   \* hard judgements the budget of a process pays for
  MaxTick,
  MaxBilled \* bound on the judgements billed, for answers

IdentityAssumption ==
  /\ Topic \subseteq Nat /\ Goal \subseteq Nat
  /\ TopicOf \in [Text -> Topic] /\ Support \in [Text -> Nat]
  /\ \A p \in Clash : \E a, b \in Text : p = {a, b} /\ TopicOf[a] = TopicOf[b]
  /\ Seeds \in Seq(Text) /\ Banks \subseteq [Topic -> Seq(Text)]
  /\ Steps \in Nat \ {0} /\ {Budget, MaxTick, MaxBilled} \subseteq Nat

VARIABLES
  up,         \* a process serves the identity
  tick,
  claims,     \* in the order of their ids: [text, born, live]
  conflicts,  \* in the order of their ids: [sides, open]
  progress,   \* of each goal
  tastes,     \* topics a preference was formed on
  projects,   \* topics there is an active project on
  billed,     \* hard judgements the ledger has the price of
  bank,       \* the bank of this process's harvester
  cursor,     \* how much of it has been harvested
  spent,      \* hard judgements paid for, by this process
  file        \* disk: the state last saved, or none, or what a kill has left

state == <<tick, claims, conflicts, progress, tastes, projects, billed>>
process == <<bank, cursor, spent>>
vars == <<up, state, process, file>>

Smaller(a, b) == IF a < b THEN a ELSE b

NoFile == [kind |-> "none", of |-> <<>>]
Torn == [kind |-> "torn", of |-> <<>>]

Born(text, t) == [text |-> text, born |-> t, live |-> TRUE]

Seeded ==
  <<0, [i \in DOMAIN Seeds |-> Born(Seeds[i], 0)], <<>>, [g \in Goal |-> 0], {}, {}, 0>>

\* The state of an identity is what it is in s.
Become(s) ==
  /\ tick' = s[1] /\ claims' = s[2] /\ conflicts' = s[3] /\ progress' = s[4]
  /\ tastes' = s[5] /\ projects' = s[6] /\ billed' = s[7]

\* A harvester at the head of its bank, a router with all of its budget.
Fresh == bank' \in Banks /\ cursor' = [t \in Topic |-> 0] /\ spent' = 0

Init ==
  /\ up = FALSE /\ file = NoFile
  /\ tick = 0 /\ claims = Seeded[2] /\ conflicts = <<>> /\ progress = Seeded[4]
  /\ tastes = {} /\ projects = {} /\ billed = 0
  /\ bank \in Banks /\ cursor = [t \in Topic |-> 0] /\ spent = 0

-----------------------------------------------------------------------------
(* A tick.                                                                 *)

About(c) == TopicOf[c.text]

On(t) == {i \in DOMAIN claims : About(claims[i]) = t}

\* By claims made, most first, then by name; before there are any, the topics of the bank.
Topics == IF claims = <<>> THEN Topic ELSE {About(claims[i]) : i \in DOMAIN claims}

Earlier(t, u) ==
  \/ Cardinality(On(t)) > Cardinality(On(u))
  \/ Cardinality(On(t)) = Cardinality(On(u)) /\ t < u

TopicOfTick ==
  CHOOSE t \in Topics :
    Cardinality({u \in Topics : Earlier(u, t)}) = tick % Cardinality(Topics)

\* The claims with the next finding on the topic, if there is one.
Harvested(t) ==
  IF cursor[t] < Len(bank[t])
  THEN Append(claims, Born(bank[t][cursor[t] + 1], tick + 1)) ELSE claims

\* Pairs of live claims that contradict each other and have never been in conflict.
NewPairs(known) ==
  {p \in (DOMAIN known) \X (DOMAIN known) :
     /\ p[1] < p[2] /\ known[p[1]].live /\ known[p[2]].live
     /\ {known[p[1]].text, known[p[2]].text} \in Clash
     /\ \A x \in DOMAIN conflicts : conflicts[x].sides # p}

Before(p, q) == p[1] < q[1] \/ (p[1] = q[1] /\ p[2] < q[2])

Ordered(S) ==
  [i \in 1..Cardinality(S) |->
     CHOOSE p \in S : Cardinality({q \in S : Before(q, p)}) = i - 1]

Opened(pairs) ==
  LET new == Ordered(pairs)
  IN  conflicts \o [i \in DOMAIN new |-> [sides |-> new[i], open |-> TRUE]]

Detected(known) == Opened(NewPairs(known))

\* The lower support loses, then the later tick, then the higher id.
Loser(known, x) ==
  LET a == x.sides[1]
      b == x.sides[2]
      s(i) == Support[known[i].text]
  IN  IF s(a) # s(b) THEN (IF s(a) < s(b) THEN a ELSE b)
      ELSE IF known[a].born # known[b].born
           THEN (IF known[a].born > known[b].born THEN a ELSE b) ELSE b

Open(all) == {x \in DOMAIN all : all[x].open}

\* Where the loser is rejected already, by an earlier tick or by an earlier conflict of this
\* one, revise_opinion raises, and the tick ends there.
Raises(known, all, x) ==
  LET loser(y) == Loser(known, all[y])
  IN  \/ ~known[loser(x)].live
      \/ \E y \in Open(all) : y < x /\ loser(y) = loser(x)

Settled(known, all) ==
  {x \in Open(all) : \A y \in Open(all) : y <= x => ~Raises(known, all, y)}

Aborts(known, all) == Settled(known, all) # Open(all)

Judged(known, all) ==
  LET lost == {Loser(known, all[x]) : x \in Settled(known, all)}
  IN  [i \in DOMAIN known |-> [known[i] EXCEPT !.live = @ /\ i \notin lost]]

Resolved(known, all) ==
  [x \in DOMAIN all |-> [all[x] EXCEPT !.open = @ /\ x \notin Settled(known, all)]]

\* Each hard judgement is paid for first, as long as the budget lasts, and billed when the
\* claim has been revised.
Charge(settled, aborts) ==
  LET left == Budget - spent
      tried == settled + (IF aborts THEN 1 ELSE 0)
  IN  /\ spent' = spent + Smaller(tried, left)
      /\ billed' = billed + Smaller(settled, left)

\* The active goal of the highest priority.
Advanced ==
  LET active == {g \in Goal : progress[g] < Steps}
  IN  [g \in Goal |-> IF g \in active /\ \A h \in active : g <= h
                      THEN progress[g] + 1 ELSE progress[g]]

LiveTopics(known) == {About(known[i]) : i \in {j \in DOMAIN known : known[j].live}}

\* Every third tick, on the topic of the best supported live claim.
Tasted(known) ==
  LET live == {i \in DOMAIN known : known[i].live}
      s(i) == Support[known[i].text]
      top == CHOOSE i \in live : \A j \in live : s(i) > s(j) \/ (s(i) = s(j) /\ i <= j)
  IN  IF (tick + 1) % 3 = 0 /\ live # {} THEN tastes \cup {About(known[top])} ELSE tastes

\* Every fourth tick one is started; one whose topic has no live claim is abandoned.
Pursued(known, t) ==
  LET started == IF (tick + 1) % 4 = 0 THEN projects \cup {t} ELSE projects
  IN  started \cap LiveTopics(known)

RunTick ==
  LET t == TopicOfTick
      known == Harvested(t)
      all == Detected(known)
      aborts == Aborts(known, all)
      judged == Judged(known, all)
  IN  /\ tick' = tick + 1
      /\ cursor' = [cursor EXCEPT ![t] = Smaller(@ + 1, Len(bank[t]))]
      /\ claims' = judged
      /\ conflicts' = Resolved(known, all)
      /\ Charge(Cardinality(Settled(known, all)), aborts)
      /\ \/ /\ aborts
            /\ UNCHANGED <<progress, tastes, projects>>
         \/ /\ ~aborts
            /\ progress' = Advanced
            /\ tastes' = Tasted(judged)
            /\ projects' = Pursued(judged, t)

-----------------------------------------------------------------------------
(* The process.                                                            *)

\* The file is written in place.
Save == file' = [kind |-> "state", of |-> state']

\* One of the ticks of live but the last, or one that raises: nothing is saved.
Live ==
  /\ up /\ tick < MaxTick
  /\ RunTick
  /\ UNCHANGED <<up, bank, file>>

\* The last one, or the only one, is saved if it has not raised.
Tick ==
  /\ up /\ tick < MaxTick
  /\ RunTick
  /\ ~Aborts(Harvested(TopicOfTick), Detected(Harvested(TopicOfTick)))
  /\ Save
  /\ UNCHANGED <<up, bank>>

\* Where a claim on the topic was rejected the answer is a hard case, paid for and billed as
\* the budget lasts.  Answering saves whatever there is.
Respond(t) ==
  /\ up /\ billed < MaxBilled
  /\ LET hard == \E i \in On(t) : ~claims[i].live
         cost == IF hard THEN Smaller(1, Budget - spent) ELSE 0
     IN  spent' = spent + cost /\ billed' = billed + cost
  /\ UNCHANGED <<up, tick, claims, conflicts, progress, tastes, projects, bank, cursor>>
  /\ Save

\* A process reads the file, or begins with the seed.  The harvester and the router begin anew.
Start ==
  /\ ~up /\ file.kind # "torn"
  /\ up' = TRUE
  /\ Become(IF file.kind = "state" THEN file.of ELSE Seeded)
  /\ Fresh
  /\ UNCHANGED file

Reset ==
  /\ up
  /\ Become(Seeded)
  /\ Fresh /\ Save
  /\ UNCHANGED up

\* A kill, now or amid a write of the file.
Stop ==
  /\ up
  /\ up' = FALSE
  /\ file' \in {file, Torn}
  /\ Become(Seeded)
  /\ UNCHANGED bank /\ cursor' = [t \in Topic |-> 0] /\ spent' = 0

Next == Live \/ Tick \/ (\E t \in Topics : Respond(t)) \/ Start \/ Reset \/ Stop

Spec == Init /\ [][Next]_vars

-----------------------------------------------------------------------------
=============================================================================
