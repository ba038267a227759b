------------------------------ MODULE MCCsDatabase ------------------------------
EXTENDS CsDatabase
=============================================================================
