----------------------------- MODULE MCMessages -----------------------------
(* Small instances of YampMessages for TLC. *)
EXTENDS YampMessages, TLC

Symmetry == Permutations(Users) \cup Permutations(Ids)
=============================================================================
