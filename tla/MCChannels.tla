----------------------------- MODULE MCChannels -----------------------------
(* Small instances of YampChannels for TLC. *)
EXTENDS YampChannels, TLC

MCAskedPos == {0, 2}

Symmetry == Permutations(Users)
=============================================================================
