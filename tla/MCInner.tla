-------------------------------- MODULE MCInner --------------------------------
(***************************************************************************)
(* Instances for TLC, side by side, of what Joni finds between his claims: *)
(* the links he draws, the structure that emerges, what speaks for and     *)
(* against them (Evidence, which this module extends).  `part` says which  *)
(* of them a behaviour is about, the others stay in their initial states;  *)
(* "gated" is Emergence again, with the topic gate in place of the term    *)
(* judge; "stays", "balance" and "broken" are Evidence with a part of what *)
(* it can do.                                                              *)
(***************************************************************************)
EXTENDS Evidence, TLC

CONSTANT LinkedMax   \* pairs remembered as examined, of the six there are

VARIABLES part,
  at, live, layer, embedding, linked, measured, cursor, stock, ahead, compared, drawn,
  records, edges, dispute, lenses, last, cycle,
  step, holds, there, opposed, tracker, age, earned, opinion, seen, garbled,
  doneTopics, doneClusters, doneLenses, tries, hinted, methods

linking == <<at, live, layer, embedding, linked, measured, cursor, stock, ahead, compared, drawn,
             records, edges, dispute, lenses, last, cycle>>
emergence == <<step, holds, there, opposed, tracker, age, earned, opinion, seen, garbled,
               doneTopics, doneClusters, doneLenses, tries, hinted, methods>>
all == <<part, vars, linking, emergence>>

-----------------------------------------------------------------------------
Three == 1 .. 3
Four == 1 .. 4

\* Four claims of one frame, each near the next; the second and the third are in tension, the
\* fourth is of another topic.
Chain == <<{1, 2}, {1, 2, 3}, {2, 3, 4}, {3, 4}>>
Framed == [c \in Four |-> "f"]
Unaudited == [c \in Four |-> "open"]
Tense == [p \in Four \X Four |-> IF p = <<2, 3>> THEN "tension" ELSE "confirmed"]
Backing == [p \in Four \X Four |-> "supports"]
Subject == <<"a", "a", "a", "b">>
Bridges == <<{"a", "b"}>>

L == INSTANCE Linking WITH
       Claim <- Four, Words <- Chain, Denies <- {}, Antonyms <- {}, Frame <- Framed,
       Audit <- Unaudited, Tension <- Tense, Distance <- Backing, Topic <- Subject,
       Lens <- {1}, Across <- Bridges, Embeddings <- {0, 1}, Budget <- 1, MaxLinks <- 1,
       MaxBackfill <- 1, MaxReview <- 1, MaxPairs <- 1, Every <- 1,
       MeasuredMax <- 20, pc <- at, links <- edges, conflict <- dispute

\* Three claims with two terms that recur, in the sink as well as outside it.
Recurring == <<{1, 2}, {1, 2}, {1}>>
Calm == [p \in Three \X Three |-> "confirmed"]
Related == [p \in Three \X Three |-> "complementary"]
FramedThree == [c \in Three |-> "f"]
UnauditedThree == [c \in Three |-> "open"]
Place == <<8, 9, 9>>
Sources == <<{"r"}, {"r"}, {"s"}>>

E == INSTANCE Emergence WITH
       Claim <- Three, Words <- Recurring, Denies <- {}, Antonyms <- {}, Frame <- FramedThree,
       Audit <- UnauditedThree, Tension <- Calm, Distance <- Related, Topic <- Place,
       Term <- {1, 2}, OnDomain <- {1, 2}, Good <- {1, 2}, Sink <- {8},
       Disputable <- {<<2, 3>>}, Families <- Sources, Judging <- TRUE, Gate <- FALSE,
       MinClaims <- 2, MinTopics <- 2, MinAcross <- 2, Retries <- 1, Group <- 2, Sample <- 1,
       ClustersMax <- 4, Grace <- 1, MaxOrphans <- 1, pc <- step, live <- holds, layer <- there

G == INSTANCE Emergence WITH
       Claim <- Three, Words <- Recurring, Denies <- {}, Antonyms <- {}, Frame <- FramedThree,
       Audit <- UnauditedThree, Tension <- Calm, Distance <- Related, Topic <- Place,
       Term <- {1, 2}, OnDomain <- {1, 2}, Good <- {1, 2}, Sink <- {8},
       Disputable <- {<<2, 3>>}, Families <- Sources, Judging <- FALSE, Gate <- TRUE,
       MinClaims <- 2, MinTopics <- 2, MinAcross <- 2, Retries <- 1, Group <- 2, Sample <- 1,
       ClustersMax <- 4, Grace <- 1, MaxOrphans <- 1, pc <- step, live <- holds, layer <- there

ASSUME
  L!LinkingAssumption /\ E!EmergenceAssumption /\ G!EmergenceAssumption

-----------------------------------------------------------------------------
(* Evidence: a paper, what the forum says and what Doktores found negate each other; the     *)
(* finding of Doktores speaks for the paper, a hypothesis card for the forum.                *)

Texts == <<"a", "b", "r", "b">>
Firsts ==
  [c \in Four \cup {9} |->
     CASE c = 1 -> "arxiv" [] c = 2 -> "forum" [] c = 9 -> "card" [] OTHER -> "doktores"]
OneTopic == [c \in Four |-> "t"]
Weights == [arxiv |-> 2, forum |-> 1, doktores |-> 1]
Negations == {<<1, 2>>, <<1, 3>>, <<2, 3>>}
Evident ==
  {[claim |-> 1, by |-> 3, relation |-> "supports"], [claim |-> 2, by |-> 9, relation |-> "supports"]}

\* The second is rejected, the third cannot be read to its end.
Packages == {"A", "B", "C"}
OwnIds == [q \in Packages |-> q]
Verdicts == [q \in Packages |-> IF q = "B" THEN "reject" ELSE "accept"]
Recommended ==
  [q \in Packages |->
     IF q = "C" THEN {[text |-> "b", against |-> {}]} ELSE {[text |-> "r", against |-> {1}]}]
Legible == [q \in Packages |-> q # "C"]

Healthy ==
  [degeneration |-> 0, fresh |-> <<1>>, duplicates |-> 0, developed |-> 1, minted |-> 1,
   distinct |-> 1, embeddings |-> TRUE, semantics |-> TRUE, load |-> 0]
Moods == {Healthy, [Healthy EXCEPT !.fresh = <<1, 0, 0>>, !.embeddings = FALSE, !.load = 50]}

-----------------------------------------------------------------------------
Start ==
  /\ part \in {"linking", "emergence", "gated", "stays", "balance", "broken"}
  /\ Init /\ L!Init /\ E!Init

LinkingStep == part = "linking" /\ L!Next /\ UNCHANGED <<part, vars, emergence>>
EmergenceStep == part = "emergence" /\ E!Next /\ UNCHANGED <<part, vars, linking>>
GatedStep == part = "gated" /\ G!Next /\ UNCHANGED <<part, vars, linking>>

\* Packages come and go and cycles are killed, but the claims change by the intake only.
StaysStep ==
  /\ part = "stays" /\ Next /\ UNCHANGED <<part, linking, emergence>>
  /\ inbox' \subseteq {"A", "B"} /\ (pc = "work" => UNCHANGED core)

\* One package that comes and goes between the cycles, no kill, and everything that is done
\* with claims.
BalanceStep ==
  /\ part = "balance" /\ Next /\ UNCHANGED <<part, linking, emergence>>
  /\ inbox' \subseteq {"A"} /\ torn' = 0 /\ (pc = "work" \/ UNCHANGED inbox)

\* The package that cannot be read to its end.
BrokenStep ==
  /\ part = "broken" /\ Next /\ UNCHANGED <<part, linking, emergence>>
  /\ inbox' \subseteq {"C"} /\ torn' = 0 /\ links' = {}

Step == LinkingStep \/ EmergenceStep \/ GatedStep \/ StaysStep \/ BalanceStep \/ BrokenStep

\* The fairness of each part, as its own module states it.
Cycle ==
  \/ part = "linking" /\ L!Cycle /\ UNCHANGED <<part, vars, emergence>>
  \/ part = "emergence" /\ E!Cycle /\ UNCHANGED <<part, vars, linking>>
  \/ part = "gated" /\ G!Cycle /\ UNCHANGED <<part, vars, linking>>

Opening ==
  /\ part \in {"emergence", "gated"} /\ UNCHANGED <<part, vars, linking>>
  /\ \E answering \in BOOLEAN : E!Begin(answering, TRUE)

Fairness == WF_all(Cycle) /\ SF_all(Opening)

Behaviours == Start /\ [][Step]_all /\ Fairness

-----------------------------------------------------------------------------
\* See Linking: pairs worth asking about are asked about, in a pass that goes on where the last
\* one stopped, while what was examined is remembered.
EveryPairIsExamined == part = "linking" => L!EveryPairIsExamined

\* See Linking: the same of any pass.
NoPairStarves == part = "linking" => L!NoPairStarves

\* See Emergence: what could be a lens is settled.
LensesAreSettled == part \in {"emergence", "gated"} => E!LensesAreSettled
=============================================================================
