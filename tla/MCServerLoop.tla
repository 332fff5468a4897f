---------------------------- MODULE MCServerLoop ----------------------------
EXTENDS ServerLoop
=============================================================================
