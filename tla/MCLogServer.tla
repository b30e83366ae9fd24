----------------------------- MODULE MCLogServer ------------------------------
EXTENDS LogServer
================================================================================
