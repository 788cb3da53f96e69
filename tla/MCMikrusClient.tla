-------------------------- MODULE MCMikrusClient --------------------------
EXTENDS MikrusClient
=============================================================================
