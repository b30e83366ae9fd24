----------------------------- MODULE MCMappedFile -----------------------------
(* MappedFile for TLC. *)
EXTENDS MappedFile
================================================================================
