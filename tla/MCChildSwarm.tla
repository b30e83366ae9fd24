----------------------------- MODULE MCChildSwarm -----------------------------
EXTENDS ChildSwarm
================================================================================
