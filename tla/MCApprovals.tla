---------------------------- MODULE MCApprovals ----------------------------
EXTENDS Approvals, TLC

Interchangeable ==
    Permutations(Servers) \cup Permutations(Tokens)
=============================================================================
