-------------------------------- MODULE MCIdeas --------------------------------
(***************************************************************************)
(* Instances of Ideas for TLC: two texts that contradict each other, of    *)
(* which one comes into the sink as well as on the subject, so that two    *)
(* claims may say the same, and an idea akin to the other.                 *)
(***************************************************************************)
EXTENDS Ideas

ASSUME IdeasAssumption

Offers == {[text |-> "t", topic |-> "sink", source |-> "s"],
           [text |-> "t", topic |-> "real", source |-> "r"],
           [text |-> "u", topic |-> "real", source |-> "s"]}

Alike == {<<"t", "t">>, <<"i", "u">>, <<"t", "u">>}

Contrary == {<<"t", "u">>}
=============================================================================
