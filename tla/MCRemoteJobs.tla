---------------------------- MODULE MCRemoteJobs ----------------------------
EXTENDS RemoteJobs, TLC

Interchangeable ==
    Permutations(Jobs) \cup Permutations(Callers)
        \cup Permutations(Principals) \cup Permutations(Bindings)
=============================================================================
