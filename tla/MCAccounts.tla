----------------------------- MODULE MCAccounts -----------------------------
(* Small instances of YampAccounts for TLC. *)
EXTENDS YampAccounts, TLC

\* Nothing orders slots, names or credentials.
Symmetry == Permutations(Slots) \cup Permutations(Names) \cup Permutations(Creds)
=============================================================================
