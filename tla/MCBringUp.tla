----------------------------- MODULE MCBringUp -----------------------------
EXTENDS BringUp
=============================================================================
