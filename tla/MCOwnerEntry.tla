------------------------------ MODULE MCOwnerEntry ------------------------------
(* Instances of OwnerEntry for TLC. *)
EXTENDS OwnerEntry, TLC

\* Intents are interchangeable (safety runs only).
IntentSymmetry == Permutations(Intents)
================================================================================
