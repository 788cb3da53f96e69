------------------------- MODULE RemoteJobLifecycle -------------------------
(***************************************************************************)
(* What a managed host promises about durable remote jobs, seen from the   *)
(* record.json another process can read and from the number of times the   *)
(* program was launched: a job is accepted once, launched at most once,    *)
(* and its recorded state only moves forward until retention removes it.   *)
(* RemoteJobHost implements this specification; RemoteJobs uses it as the  *)
(* remote half of the system.                                              *)
(***************************************************************************)
EXTENDS Naturals

CONSTANT Jobs       \* job identifiers

VARIABLES
    remote,         \* remote[j]: state in record.json, "absent" or "removed"
    launches        \* launches[j]: how often j's program was spawned

lifecycleVars == <<remote, launches>>

Settled == {"succeeded", "failed", "cancelled"}

RemoteState == {"absent", "queued", "running", "removed"} \cup Settled

LifecycleInit ==
    /\ remote = [j \in Jobs |-> "absent"]
    /\ launches = [j \in Jobs |-> 0]

Move(j, from, to) ==
    /\ remote[j] \in from
    /\ remote' = [remote EXCEPT ![j] = to]

(* The start operation writes the first record. *)
Accept(j) == Move(j, {"absent"}, "queued") /\ UNCHANGED launches

(* The worker spawns the program; a cancellation may already be recorded. *)
Launch(j) ==
    /\ remote[j] \in {"queued", "cancelled"}
    /\ launches[j] = 0
    /\ launches' = [launches EXCEPT ![j] = 1]
    /\ UNCHANGED remote

(* The program cannot be spawned. *)
Refuse(j) ==
    /\ launches[j] = 0
    /\ Move(j, {"queued", "cancelled"}, "failed")
    /\ UNCHANGED launches

(* The worker publishes the running program. *)
Run(j) ==
    /\ launches[j] = 1
    /\ Move(j, {"queued"}, "running")
    /\ UNCHANGED launches

(* The worker records how the program ended. *)
Settle(j) ==
    /\ \E outcome \in {"succeeded", "failed"} : Move(j, {"running"}, outcome)
    /\ UNCHANGED launches

Cancel(j) == Move(j, {"queued", "running"}, "cancelled") /\ UNCHANGED launches

(* Garbage collection removes the job directory. *)
Remove(j) ==
    /\ Move(j, {"queued", "running"} \cup Settled, "removed")
    /\ UNCHANGED launches

LifecycleStep(j) ==
    \/ Accept(j) \/ Launch(j) \/ Refuse(j) \/ Run(j)
    \/ Settle(j) \/ Cancel(j) \/ Remove(j)

LifecycleNext == \E j \in Jobs : LifecycleStep(j)

LifecycleSpec == LifecycleInit /\ [][LifecycleNext]_lifecycleVars
=============================================================================
