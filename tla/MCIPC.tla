------------------------------- MODULE MCIPC -------------------------------
(* Small instances of YampIPC for TLC. *)
EXTENDS YampIPC
=============================================================================
