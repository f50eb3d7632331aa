---------------------------- MODULE MCOwnerAdmission ----------------------------
(* Instances of OwnerAdmission for TLC.  The signals are on different pairs; the *)
(* second registry version drops the second pair.                                *)
EXTENDS OwnerAdmission, TLC


CONSTANTS c1, c2, i1, i2, i3, p1, p2, v1, v2

MCPairOf == [i \in Intents |-> IF i = i2 THEN p2 ELSE p1]
MCHalalPairs == [v \in Versions |-> IF v = v1 THEN {p1, p2} ELSE {p1}]
MCNominal == [i \in Intents |-> IF i = i1 THEN 3 ELSE 2]
\* Coordinators are interchangeable.
CoordinatorSymmetry == Permutations(Coordinators)
================================================================================
