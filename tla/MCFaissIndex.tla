---------------------------- MODULE MCFaissIndex ----------------------------
(* Instances of FaissIndex for model checking. *)
EXTENDS FaissIndex, TLC

CONSTANTS w1, w2, r1

TwoReplicas == {w1, w2}
OneWriter   == {w1}
OneReader   == {r1}
NoReader    == {}

\* w1 shares the reader's process (the dev test UI); the others do not.
Homes    == [w \in Writers |-> IF w = w1 THEN Readers ELSE {}]
NoHomes  == [w \in Writers |-> {}]

\* Students are alike.
Symmetric == Permutations(Students)

=============================================================================
