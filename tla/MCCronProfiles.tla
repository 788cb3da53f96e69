--------------------------- MODULE MCCronProfiles ---------------------------
EXTENDS CronProfiles, TLC

Interchangeable ==
    Permutations(Callers) \cup Permutations(Profiles)
        \cup Permutations(CronContents) \cup Permutations(Foreign)
=============================================================================
