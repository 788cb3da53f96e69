--------------------------- MODULE MCDockerPlans ---------------------------
EXTENDS DockerPlans, TLC

CONSTANTS plain, inherited, setting, t1, t2

(* Definitions that differ in a setting, in the core and in the image, and *)
(* one that names no image.                                                *)
Definitions ==
    { [core |-> plain, env |-> {}, tag |-> t1, named |-> TRUE],
      [core |-> plain, env |-> {setting}, tag |-> t1, named |-> TRUE],
      [core |-> inherited, env |-> {}, tag |-> t2, named |-> TRUE],
      [core |-> plain, env |-> {}, tag |-> t1, named |-> FALSE] }

Interchangeable ==
    Permutations(Callers) \cup Permutations(Digests)
        \cup Permutations(FileSets)
=============================================================================
