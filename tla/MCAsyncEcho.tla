------------------------------ MODULE MCAsyncEcho ------------------------------
(* AsyncEcho for TLC. *)
EXTENDS AsyncEcho, TLC
=============================================================================
