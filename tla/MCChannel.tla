------------------------------ MODULE MCChannel ------------------------------
EXTENDS Channel
==============================================================================
