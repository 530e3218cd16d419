----------------------------- MODULE MCReadNode -----------------------------
EXTENDS ReadNode, TLC
=============================================================================
