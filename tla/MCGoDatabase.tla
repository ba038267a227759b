------------------------------ MODULE MCGoDatabase ------------------------------
EXTENDS GoDatabase
=============================================================================
