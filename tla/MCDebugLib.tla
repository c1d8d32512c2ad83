----------------------------- MODULE MCDebugLib -----------------------------
EXTENDS DebugLib
=============================================================================
