------------------------------ MODULE MCFraming ------------------------------
(* Small instances of YampFraming for TLC. *)
EXTENDS YampFraming

\* Two frames of the plain client; one of the TLS client and the next head.
MCMaxUnits == [c \in Clients |-> IF c \in TLS THEN FrameLen + 1 ELSE 2 * FrameLen]
=============================================================================
