----------------------------- MODULE MCTeedRun -----------------------------
EXTENDS TeedRun
=============================================================================
