------------------------ MODULE MCConflictResolution ------------------------
(* Instances of the drop box: three claims in a chain of two conflicts. *)
EXTENDS ConflictResolution

CONSTANTS a, b, h, ab, bh

\* b is a side of both conflicts; one of them is with a conjecture.
ChainSides == [z \in {ab, bh} |-> IF z = ab THEN {a, b} ELSE {b, h}]

\* Bound: only the conflict ab is named twice in a paste.
Repeats == twice \subseteq {ab}
=============================================================================
