------------------------------ MODULE MCDgramLink ------------------------------
(* DgramLink for TLC. *)
EXTENDS DgramLink, TLC
=============================================================================
