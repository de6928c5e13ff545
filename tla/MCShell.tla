------------------------------ MODULE MCShell -------------------------------
EXTENDS Shell
=============================================================================
