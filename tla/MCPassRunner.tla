---------------------------- MODULE MCPassRunner ----------------------------
EXTENDS PassRunner, TLC
=============================================================================
