------------------------------ MODULE Standing ------------------------------
(***************************************************************************)
(* What the Layer-9 gate promises about an object whose authority has to   *)
(* be earned (a claim or a method), whoever submits the proposals and in   *)
(* whatever order they arrive:                                             *)
(*   - contamination is decided when the object is introduced and stays;   *)
(*   - a sign-off is never withdrawn, and never comes with the object;     *)
(*   - authority is granted to an object that has not been given up, and   *)
(*     to a contaminated one only after the sign-off;                      *)
(*   - what has been given up is never taken up again.                     *)
(***************************************************************************)
CONSTANT Thing  \* the objects that may ever be introduced

VARIABLES
  standing,   \* "absent", "open" or "given_up"
  tainted,    \* the contaminated objects
  validated,  \* the objects somebody signed off
  inForce     \* the objects with authority

svars == <<standing, tainted, validated, inForce>>

StandingTypeOK ==
  /\ standing \in [Thing -> {"absent", "open", "given_up"}]
  /\ tainted \subseteq Thing
  /\ validated \subseteq Thing
  /\ inForce \subseteq Thing

StandingInit ==
  /\ standing = [t \in Thing |-> "absent"]
  /\ tainted = {}
  /\ validated = {}
  /\ inForce = {}

Introduce(t, contaminated) ==
  /\ standing[t] = "absent"
  /\ standing' = [standing EXCEPT ![t] = "open"]
  /\ tainted' = tainted \cup (IF contaminated THEN {t} ELSE {})
  /\ UNCHANGED <<validated, inForce>>

SignOff(t) ==
  /\ standing[t] # "absent"
  /\ validated' = validated \cup {t}
  /\ UNCHANGED <<standing, tainted, inForce>>

Grant(t) ==
  /\ standing[t] = "open"
  /\ t \in tainted => t \in validated
  /\ inForce' = inForce \cup {t}
  /\ UNCHANGED <<standing, tainted, validated>>

GiveUp(t) ==
  /\ standing[t] = "open"
  /\ standing' = [standing EXCEPT ![t] = "given_up"]
  /\ UNCHANGED <<tainted, validated, inForce>>

StandingNext ==
  \E t \in Thing :
    \/ \E contaminated \in BOOLEAN : Introduce(t, contaminated)
    \/ SignOff(t)
    \/ Grant(t)
    \/ GiveUp(t)

StandingSpec == StandingInit /\ [][StandingNext]_svars

-----------------------------------------------------------------------------
\* Authority over contaminated material always has a sign-off behind it.
SignedOff == inForce \cap tainted \subseteq validated
=============================================================================
