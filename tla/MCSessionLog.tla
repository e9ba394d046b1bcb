---------------------------- MODULE MCSessionLog ----------------------------
EXTENDS SessionLog
=============================================================================
