----------------------------- MODULE MCQueueReader -----------------------------
(* QueueReader for TLC: the parent, the child and a few values. *)
EXTENDS QueueReader, TLC
=============================================================================
