----------------------------- MODULE MCMembers ------------------------------
(* Instances of Members for TLC. *)
EXTENDS Members, TLC

Interchangeable == Permutations(Slots) \cup Permutations(Raters)
=============================================================================
