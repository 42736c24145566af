----------------------------- MODULE MCRegistry -----------------------------
(* Small instances of YampRegistry for TLC. *)
EXTENDS YampRegistry, TLC

\* Accounts and descriptors are interchangeable: no definition orders them.
Symmetry == Permutations(Users) \cup Permutations(FDs)
=============================================================================
