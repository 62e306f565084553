-------------------------------- MODULE Semantics --------------------------------
(***************************************************************************)
(* What Layer 9 makes of two claims: src/src/desi_layer9/semantics/ and    *)
(* the binding to DESi in src/src/joni/autonomy/desi_semantics.py.         *)
(*                                                                         *)
(* What DESi's components say of a text (its frame, its logical audit, the *)
(* tension between two frames, the distance between two meanings) is       *)
(* given; whether they answer at all changes from process to process.      *)
(***************************************************************************)
EXTENDS Naturals, FiniteSets

CONSTANTS
  Claim,     \* ids, in their order
  Words,     \* the content words of a claim
  Denies,    \* claims with a negation
  Antonyms,  \* pairs of claims of which one uses a word and the other its opposite
  Frame,     \* the frame of a claim, or "undeclared"
  Audit,     \* the logical audit of a claim: "supported", "rejected" or "open"
  Tension,   \* the consistency of a claim's frame with another's, for ordered pairs
  Distance   \* the distance of the meanings of two claims, for ordered pairs

Bands == {"duplicate", "complementary", "supports", "borderline", "far"}

SemanticsAssumption ==
  /\ Claim \subseteq Nat /\ Denies \subseteq Claim /\ Antonyms \subseteq Claim \X Claim
  /\ \A c \in Claim : IsFiniteSet(Words[c]) /\ Audit[c] \in {"supported", "rejected", "open"}
  /\ Tension \in [Claim \X Claim -> {"confirmed", "tension", "conflict", "undecidable"}]
  /\ Distance \in [Claim \X Claim -> Bands]

-----------------------------------------------------------------------------
\* The share of the words of two claims that they have in common is so many in ten at least.
Overlap(a, b, tenths) ==
  /\ Words[a] # {} /\ Words[b] # {}
  /\ 10 * Cardinality(Words[a] \cap Words[b]) >= tenths * Cardinality(Words[a] \cup Words[b])

\* Worth asking the semantic layer about.
Near(a, b) == Overlap(a, b, 3)

\* The overlap of the first pair is the greater one.
Nearer(p, q) ==
  LET shared(r) == Cardinality(Words[r[1]] \cap Words[r[2]])
      all(r) == Cardinality(Words[r[1]] \cup Words[r[2]])
  IN  shared(p) * all(q) > shared(q) * all(p)

Polarity(a, b) ==
  (a \in Denies) # (b \in Denies) \/ <<a, b>> \in Antonyms \/ <<b, a>> \in Antonyms

Declared(a, b) == Frame[a] # "undeclared" /\ Frame[b] # "undeclared"
Match(a, b) == Declared(a, b) /\ Frame[a] = Frame[b]

\* What DESi measures: nothing without the layer, no distance without a local embedding.
Measured(a, b, layer, embedding) ==
  IF ~layer THEN [error |-> TRUE]
  ELSE [error |-> FALSE,
        tension |-> Tension[<<a, b>>], rejected |-> "rejected" \in {Audit[a], Audit[b]},
        supported |-> "supported" \in {Audit[a], Audit[b]},
        declared |-> Declared(a, b), match |-> Match(a, b), clash |-> Polarity(a, b),
        distance |-> IF embedding THEN Distance[<<a, b>>] ELSE "none",
        wording |-> Overlap(a, b, 8)]

\* A decision from the distance, refined by the frames and the polarity.
FromDistance(m) ==
  LET apart == m.declared /\ ~m.match
  IN  CASE m.distance \in {"duplicate", "complementary", "supports"} /\ m.clash -> "contradictory"
        [] m.distance = "far" -> "unrelated"
        [] m.distance \in {"duplicate", "complementary"} /\ apart -> "unrelated"
        [] m.distance = "borderline" -> "insufficient"
        [] OTHER -> m.distance

FromFrames(m) ==
  CASE ~m.declared \/ m.tension = "undecidable" -> "insufficient"
    [] ~m.match /\ m.declared -> "unrelated"
    [] m.wording -> "duplicate"
    [] m.supported -> "supports"
    [] OTHER -> "complementary"

Classify(m) ==
  IF m.error THEN "insufficient"
  ELSE IF m.tension = "conflict" \/ m.rejected THEN "contradictory"
  ELSE IF m.tension = "tension" THEN "tension"
  ELSE IF m.distance # "none" THEN FromDistance(m) ELSE FromFrames(m)

Decision(a, b, layer, embedding) == Classify(Measured(a, b, layer, embedding))

\* Of a group: the worst that is found of a pair of it.
Aggregate(found) ==
  CASE found = {} -> "insufficient"
    [] "contradictory" \in found -> "contradictory"
    [] "tension" \in found -> "tension"
    [] "unrelated" \in found -> "unrelated"
    [] "insufficient" \in found -> "insufficient"
    [] found = {"duplicate"} -> "duplicate"
    [] "complementary" \in found -> "complementary"
    [] OTHER -> "supports"

GroupDecision(group, layer, embedding) ==
  Aggregate({Decision(p[1], p[2], layer, embedding) : p \in {q \in group \X group : q[1] < q[2]}})

\* Only of what is related without being the same may something new be made.
Eligible(decision) == decision = "complementary"
=============================================================================
