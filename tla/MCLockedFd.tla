------------------------------ MODULE MCLockedFd ------------------------------
(* LockedFd for TLC: one reader, one writer and one holder. *)
EXTENDS LockedFd, TLC
=============================================================================
