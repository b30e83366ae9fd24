------------------------------ MODULE MCSharedMem ------------------------------
(* SharedMem for TLC. *)
EXTENDS SharedMem, TLC
=============================================================================
