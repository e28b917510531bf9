------------------------------- MODULE MCInput -------------------------------
EXTENDS Input
=============================================================================
