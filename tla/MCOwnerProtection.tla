--------------------------- MODULE MCOwnerProtection ---------------------------
(* Instances of OwnerProtection for TLC. *)
EXTENDS OwnerProtection
================================================================================
