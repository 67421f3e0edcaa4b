----------------------------- MODULE MCUtim64 -----------------------------
EXTENDS Utim64
=============================================================================
