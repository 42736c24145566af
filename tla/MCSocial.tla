------------------------------ MODULE MCSocial ------------------------------
(* Small instances of YampSocial for TLC. *)
EXTENDS YampSocial, TLC

\* Names are unique and none of them is an id.
MCNameOf == [u \in Users |-> <<u>>]

Symmetry == Permutations(Users)
=============================================================================
