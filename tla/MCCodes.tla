------------------------------ MODULE MCCodes -------------------------------
(* Instances of Codes for TLC. *)
EXTENDS Codes, TLC

Interchangeable == Permutations(Slots) \cup Permutations(Devices \ {Unknown})
=============================================================================
