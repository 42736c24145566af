----------------------------- MODULE MCProfiles -----------------------------
(* Small instances of YampProfiles for TLC. *)
EXTENDS YampProfiles, TLC

\* Account 1 asked account 2; every further account asked account 1.
MCFriendships == {<<1, 2>>} \cup {<<u, 1>> : u \in Users \ {1, 2}}

Symmetry == Permutations(FDs) \cup Permutations(Texts)
=============================================================================
