--------------------------- MODULE RemoteJobHost ---------------------------
(***************************************************************************)
(* Durable remote jobs on the managed host: the start helper, the detached *)
(* worker, the program's process group, the cancel helper and the garbage  *)
(* collector, all embedded in clients/ssh.py and run as separate           *)
(* processes that share one directory per job.                             *)
(*                                                                         *)
(* Only the cancel helper keeps the record lock over several steps; every  *)
(* other holder reads, decides and writes inside one critical section, so  *)
(* the lock is free exactly when cancel[j] = "none".  The start helper     *)
(* and the garbage collector never take the lock.                          *)
(*                                                                         *)
(* Time is abstracted to the age of record.json and its directory: young,  *)
(* older than grace_seconds, older than retention_seconds.  Steps that     *)
(* take seconds do not age a record; waiting for the program may.          *)
(*                                                                         *)
(* The process group is the program, its leader, and any number of         *)
(* descendants.  Of these it matters whether one holds the job's pipes and *)
(* whether one has redirected them.                                        *)
(***************************************************************************)
EXTENDS Integers

CONSTANT Jobs           \* job identifiers, each started at most once

VARIABLES
    record,     \* record.json of each job, or its absence
    age,        \* 0 young, 1 past the grace period, 2 past retention
    starter,    \* progress of the start helper
    worker,     \* progress of the detached worker
    leader,     \* the program, leader of its process group
    tail,       \* kinds of descendants that are alive in the group
    killed,     \* has the group been sent SIGKILL
    immune,     \* the program changed credentials: signals are refused
    verdict,    \* how the worker will judge the program
    cancel,     \* the cancel helper that holds the record lock
    unread,     \* living members of the group its listing of /proc shows
    slipped,    \* history: was a member left out of the listing, or has one
                \* been forked since
    doomed,     \* the garbage collector decided to remove the directory
    launches    \* how often the program was spawned

vars == <<record, age, starter, worker, leader, tail, killed, immune,
          verdict, cancel, unread, slipped, doomed, launches>>

Terminal == {"succeeded", "failed", "cancelled"}

RecordState == {"none", "dir", "queued", "running", "removed"} \cup Terminal

NoRecord == [state |-> "none", published |-> FALSE, terminated |-> FALSE]

(* published: runtimeIdentity is present; terminated: the cancel reply says *)
(* that no member of the process group is left.                            *)
Record == [state : RecordState, published : BOOLEAN, terminated : BOOLEAN]

(* Descendants that inherited the job's pipes, and those that did not.     *)
Kinds == {"holding", "detached"}

TypeOK ==
    /\ record \in [Jobs -> Record]
    /\ age \in [Jobs -> 0..2]
    /\ starter \in [Jobs -> {"idle", "mkdir", "queued", "done"}]
    /\ worker \in [Jobs -> {"none", "claim", "spawn", "refused", "publish",
                            "feed", "wait", "drain", "finish", "done",
                            "dead"}]
    /\ leader \in [Jobs -> {"none", "alive", "zombie", "gone", "reused"}]
    /\ tail \in [Jobs -> SUBSET Kinds]
    /\ killed \in [Jobs -> BOOLEAN]
    /\ immune \in [Jobs -> BOOLEAN]
    /\ verdict \in [Jobs -> {"unknown", "succeeded", "failed"}]
    /\ cancel \in [Jobs -> {"none", "grace", "report", "scan"}]
    /\ unread \in [Jobs -> SUBSET ({"leader"} \cup Kinds)]
    /\ slipped \in [Jobs -> BOOLEAN]
    /\ doomed \in [Jobs -> BOOLEAN]
    /\ launches \in [Jobs -> Nat]

Init ==
    /\ record = [j \in Jobs |-> NoRecord]
    /\ age = [j \in Jobs |-> 0]
    /\ starter = [j \in Jobs |-> "idle"]
    /\ worker = [j \in Jobs |-> "none"]
    /\ leader = [j \in Jobs |-> "none"]
    /\ tail = [j \in Jobs |-> {}]
    /\ killed = [j \in Jobs |-> FALSE]
    /\ immune = [j \in Jobs |-> FALSE]
    /\ verdict = [j \in Jobs |-> "unknown"]
    /\ cancel = [j \in Jobs |-> "none"]
    /\ unread = [j \in Jobs |-> {}]
    /\ slipped = [j \in Jobs |-> FALSE]
    /\ doomed = [j \in Jobs |-> FALSE]
    /\ launches = [j \in Jobs |-> 0]

programVars == <<leader, tail, immune, launches>>
cancelVars == <<cancel, unread, slipped>>

-----------------------------------------------------------------------------
(* Record and process helpers.                                             *)

HasRecord(j) == record[j].state \notin {"none", "dir", "removed"}

LockFree(j) == cancel[j] = "none"

(* write_record: the file is replaced, which also touches its directory.   *)
Write(j, r) ==
    /\ record' = [record EXCEPT ![j] = r]
    /\ age' = [age EXCEPT ![j] = 0]

SetState(j, s) == Write(j, [record[j] EXCEPT !.state = s])

Members(j) ==
    tail[j] \cup (IF leader[j] = "alive" THEN {"leader"} ELSE {})

GroupAlive(j) == Members(j) # {}

(* Somebody has the other end of the job's stdin, stdout and stderr.       *)
PipesHeld(j) == leader[j] = "alive" \/ "holding" \in tail[j]

(* killpg(SIGKILL); an OSError is swallowed and the group lives on.        *)
Kill(j) == killed' = [killed EXCEPT ![j] = @ \/ ~immune[j]]

-----------------------------------------------------------------------------
(* The start helper.                                                       *)

StartMkdir(j) ==
    /\ starter[j] = "idle"
    /\ SetState(j, "dir")
    /\ starter' = [starter EXCEPT ![j] = "mkdir"]
    /\ UNCHANGED <<worker, programVars, killed, verdict, cancelVars, doomed>>

StartWrite(j) ==
    /\ starter[j] = "mkdir"
    /\ SetState(j, "queued")
    /\ starter' = [starter EXCEPT ![j] = "queued"]
    /\ UNCHANGED <<worker, programVars, killed, verdict, cancelVars, doomed>>

StartWorker(j) ==
    /\ starter[j] = "queued"
    /\ starter' = [starter EXCEPT ![j] = "done"]
    /\ worker' = [worker EXCEPT ![j] = "claim"]
    /\ UNCHANGED <<record, age, programVars, killed, verdict, cancelVars, doomed>>

(* The SSH session ends and takes the helper with it.                      *)
StartDies(j) ==
    /\ starter[j] \in {"mkdir", "queued"}
    /\ starter' = [starter EXCEPT ![j] = "done"]
    /\ UNCHANGED <<record, age, worker, programVars, killed, verdict, cancelVars,
                   doomed>>

-----------------------------------------------------------------------------
(* The worker.                                                             *)

WorkerGoes(j, from, to) ==
    /\ worker[j] = from
    /\ worker' = [worker EXCEPT ![j] = to]

WorkerClaim(j) ==
    /\ LockFree(j)
    /\ WorkerGoes(j, "claim", IF record[j].state = "queued" THEN "spawn"
                                                          ELSE "done")
    /\ UNCHANGED <<record, age, starter, programVars, killed, verdict,
                   cancelVars, doomed>>

WorkerSpawn(j) ==
    /\ WorkerGoes(j, "spawn", "publish")
    /\ leader' = [leader EXCEPT ![j] = "alive"]
    /\ launches' = [launches EXCEPT ![j] = @ + 1]
    /\ \E refused \in BOOLEAN : immune' = [immune EXCEPT ![j] = refused]
    /\ UNCHANGED <<record, age, starter, tail, killed, verdict, cancelVars,
                   doomed>>

WorkerSpawnFails(j) ==
    /\ WorkerGoes(j, "spawn", "refused")
    /\ UNCHANGED <<record, age, starter, programVars, killed, verdict,
                   cancelVars, doomed>>

(* fail_record: the state is overwritten whatever it is by now.            *)
WorkerFails(j) ==
    /\ LockFree(j)
    /\ WorkerGoes(j, "refused", "done")
    /\ SetState(j, "failed")
    /\ UNCHANGED <<starter, programVars, killed, verdict, cancelVars, doomed>>

(* Fault: the publication overlooks a cancellation recorded meanwhile.     *)
PublishOverCancel(j) ==
    /\ LockFree(j)
    /\ WorkerGoes(j, "publish", "feed")
    /\ Write(j, [record[j] EXCEPT !.state = "running", !.published = TRUE])
    /\ UNCHANGED <<starter, programVars, killed, verdict, cancelVars, doomed>>

WorkerPublish(j) ==
    /\ LockFree(j)
    /\ record[j].state # "cancelled"
    /\ WorkerGoes(j, "publish", "feed")
    /\ Write(j, [record[j] EXCEPT !.state = "running", !.published = TRUE])
    /\ UNCHANGED <<starter, programVars, killed, verdict, cancelVars, doomed>>

(* Fault: the worker notices the cancellation but leaves the program alone. *)
YieldWithoutKill(j) ==
    /\ LockFree(j)
    /\ record[j].state = "cancelled"
    /\ WorkerGoes(j, "publish", "done")
    /\ UNCHANGED <<record, age, starter, programVars, killed, verdict, cancelVars,
                   doomed>>

(* The job was cancelled before its identity was published.                *)
WorkerYields(j) ==
    /\ LockFree(j)
    /\ record[j].state = "cancelled"
    /\ WorkerGoes(j, "publish", "done")
    /\ Kill(j)
    /\ UNCHANGED <<record, age, starter, programVars, verdict, cancelVars, doomed>>

(* The worker writes stdin before it waits: the pipe takes it, the program *)
(* reads it, or nobody is left who could, and the write fails.             *)
WorkerFeeds(j) ==
    /\ WorkerGoes(j, "feed", "wait")
    /\ UNCHANGED <<record, age, starter, programVars, killed, verdict,
                   cancelVars, doomed>>

WorkerReaps(j) ==
    /\ leader[j] = "zombie"
    /\ WorkerGoes(j, "wait", "drain")
    /\ leader' = [leader EXCEPT ![j] = "gone"]
    /\ UNCHANGED <<record, age, starter, tail, killed, immune, verdict,
                   cancelVars, doomed, launches>>

(* child.wait() raises: the group is killed and the job has failed.        *)
WorkerWaitError(j) ==
    /\ worker[j] = "wait"
    /\ verdict[j] # "failed"
    /\ verdict' = [verdict EXCEPT ![j] = "failed"]
    /\ Kill(j)
    /\ UNCHANGED <<record, age, starter, worker, programVars, cancelVars, doomed>>

(* End of file on both pipes: nobody holds them, whoever else is alive.    *)
WorkerDrained(j) ==
    /\ "holding" \notin tail[j]
    /\ WorkerGoes(j, "drain", "finish")
    /\ UNCHANGED <<record, age, starter, programVars, killed, verdict,
                   cancelVars, doomed>>

(* Fault: the drain threads are joined without a deadline.                 *)
DrainForever(j) ==
    /\ "holding" \notin tail[j]
    /\ WorkerGoes(j, "drain", "finish")
    /\ UNCHANGED <<record, age, starter, programVars, killed, verdict,
                   cancelVars, doomed>>

(* A member of the group still holds the pipes after the drain grace.      *)
WorkerDrainTimeout(j) ==
    /\ "holding" \in tail[j]
    /\ WorkerGoes(j, "drain", "finish")
    /\ Kill(j)
    /\ verdict' = [verdict EXCEPT ![j] = "failed"]
    /\ UNCHANGED <<record, age, starter, programVars, cancelVars, doomed>>

(* Fault: the final record overwrites a cancellation.                      *)
FinishOverCancel(j) ==
    /\ LockFree(j)
    /\ HasRecord(j)
    /\ WorkerGoes(j, "finish", "done")
    /\ SetState(j, verdict[j])
    /\ UNCHANGED <<starter, programVars, killed, verdict, cancelVars, doomed>>

WorkerFinish(j) ==
    /\ LockFree(j)
    /\ HasRecord(j)
    /\ WorkerGoes(j, "finish", "done")
    /\ SetState(j, IF record[j].state = "cancelled" THEN "cancelled"
                                                    ELSE verdict[j])
    /\ UNCHANGED <<starter, programVars, killed, verdict, cancelVars, doomed>>

(* The directory is gone: opening the lock file raises.                    *)
WorkerLosesDirectory(j) ==
    /\ record[j].state = "removed"
    /\ WorkerGoes(j, "finish", "dead")
    /\ UNCHANGED <<record, age, starter, programVars, killed, verdict,
                   cancelVars, doomed>>

(* The worker process is killed; the program is reparented.                *)
WorkerDies(j) ==
    /\ worker[j] \notin {"none", "done", "dead"}
    /\ worker' = [worker EXCEPT ![j] = "dead"]
    /\ UNCHANGED <<record, age, starter, programVars, killed, verdict,
                   cancelVars, doomed>>

-----------------------------------------------------------------------------
(* The program and the operating system.                                   *)

LeaderExits(j) ==
    /\ leader[j] = "alive"
    /\ leader' = [leader EXCEPT ![j] = "zombie"]
    /\ unread' = [unread EXCEPT ![j] = @ \ {"leader"}]
    /\ \E v \in {"succeeded", "failed"} :
        verdict' = [verdict EXCEPT ![j] =
                      IF @ = "failed" \/ killed[j] THEN "failed" ELSE v]
    /\ UNCHANGED <<record, age, starter, worker, tail, killed, immune, cancel,
                   slipped, doomed, launches>>

(* A fork; the pipes can only be inherited from a process that has them.   *)
TailForks(j, kind) ==
    /\ ~killed[j]
    /\ PipesHeld(j) \/ (kind = "detached" /\ tail[j] # {})
    /\ kind \notin tail[j]
    /\ tail' = [tail EXCEPT ![j] = @ \cup {kind}]
    /\ slipped' = [slipped EXCEPT ![j] = @ \/ cancel[j] = "scan"]
    /\ UNCHANGED <<record, age, starter, worker, leader, killed, immune,
                   verdict, cancel, unread, doomed, launches>>

(* A descendant forks another of its kind and exits.                       *)
TailRespawns(j, kind) ==
    /\ ~killed[j]
    /\ kind \in tail[j] \cap unread[j]
    /\ unread' = [unread EXCEPT ![j] = @ \ {kind}]
    /\ slipped' = [slipped EXCEPT ![j] = TRUE]
    /\ UNCHANGED <<record, age, starter, worker, programVars, killed, verdict,
                   cancel, doomed>>

TailExits(j, kind) ==
    /\ kind \in tail[j]
    /\ tail' = [tail EXCEPT ![j] = @ \ {kind}]
    /\ unread' = [unread EXCEPT ![j] = @ \ {kind}]
    /\ UNCHANGED <<record, age, starter, worker, leader, killed, immune,
                   verdict, cancel, slipped, doomed, launches>>

(* Without its worker the program is reaped by init.                       *)
InitReaps(j) ==
    /\ leader[j] = "zombie"
    /\ worker[j] \in {"done", "dead"}
    /\ leader' = [leader EXCEPT ![j] = "gone"]
    /\ UNCHANGED <<record, age, starter, worker, tail, killed, immune,
                   verdict, cancelVars, doomed, launches>>

(* Another program gets the pid.  The kernel never reuses it while a       *)
(* member of the group is left; reuse within the seconds between the       *)
(* identity check of a cancel helper and its report is not modelled.       *)
PidReused(j) ==
    /\ leader[j] = "gone" /\ tail[j] = {} /\ LockFree(j)
    /\ leader' = [leader EXCEPT ![j] = "reused"]
    /\ UNCHANGED <<record, age, starter, worker, tail, killed, immune,
                   verdict, cancelVars, doomed, launches>>

-----------------------------------------------------------------------------
(* The cancel helper.                                                      *)

CancelQueued(j) ==
    /\ LockFree(j)
    /\ record[j].state = "queued" /\ ~record[j].published
    /\ SetState(j, "cancelled")
    /\ UNCHANGED <<starter, worker, programVars, killed, verdict, cancelVars,
                   doomed>>

(* startTicks still names the program: SIGTERM, which it may ignore.       *)
CancelSignals(j) ==
    /\ LockFree(j)
    /\ HasRecord(j) /\ record[j].published
    /\ leader[j] \in {"alive", "zombie"}
    /\ cancel' = [cancel EXCEPT ![j] = "grace"]
    /\ UNCHANGED <<record, age, starter, worker, programVars, killed, verdict,
                   unread, slipped, doomed>>

(* The leader is gone, or it outlived the grace period and is killed.      *)
CancelGraceOver(j) ==
    /\ cancel[j] = "grace"
    /\ cancel' = [cancel EXCEPT ![j] = "report"]
    /\ IF leader[j] = "alive" THEN Kill(j) ELSE UNCHANGED killed
    /\ UNCHANGED <<record, age, starter, worker, programVars, verdict, unread,
                   slipped, doomed>>

(* /proc is listed once; entries past the 4096th are not looked at, and a  *)
(* stat file that cannot be read is passed over.                           *)
CancelLists(j) ==
    /\ cancel[j] = "report"
    /\ cancel' = [cancel EXCEPT ![j] = "scan"]
    /\ \E listed \in SUBSET Members(j) :
        /\ unread' = [unread EXCEPT ![j] = listed]
        /\ slipped' = [slipped EXCEPT ![j] = @ \/ listed # Members(j)]
    /\ UNCHANGED <<record, age, starter, worker, programVars, killed, verdict,
                   doomed>>

CancelledAs(j, terminated) ==
    /\ HasRecord(j)
    /\ cancel' = [cancel EXCEPT ![j] = "none"]
    /\ unread' = [unread EXCEPT ![j] = {}]
    /\ Write(j, [record[j] EXCEPT !.state = "cancelled",
                                  !.terminated = terminated])
    /\ UNCHANGED <<starter, worker, programVars, killed, verdict, slipped,
                   doomed>>

(* Fault: only the leader is looked for, not the rest of the group.        *)
ReportLeaderOnly(j) ==
    /\ cancel[j] = "scan"
    /\ CancelledAs(j, leader[j] # "alive")

(* The stat files have been read one by one; those of members that died in *)
(* the meantime were gone.                                                 *)
CancelReports(j) ==
    /\ cancel[j] = "scan"
    /\ CancelledAs(j, unread[j] = {})

(* The helper dies with its SSH session, or finds the directory removed.   *)
CancelDies(j) ==
    /\ cancel[j] # "none"
    /\ cancel' = [cancel EXCEPT ![j] = "none"]
    /\ unread' = [unread EXCEPT ![j] = {}]
    /\ UNCHANGED <<record, age, starter, worker, programVars, killed, verdict,
                   slipped, doomed>>

-----------------------------------------------------------------------------
(* Time and garbage collection.                                            *)

(* Only an unbounded wait lets a record grow old.                          *)
Ages(j) ==
    /\ record[j].state \notin {"none", "removed"}
    /\ age[j] < 2
    /\ starter[j] = "done"
    /\ worker[j] \in {"none", "feed", "wait", "done", "dead"}
    /\ LockFree(j)
    /\ ~doomed[j]
    /\ age' = [age EXCEPT ![j] = @ + 1]
    /\ UNCHANGED <<record, starter, worker, programVars, killed, verdict,
                   cancelVars, doomed>>

(* Fault: a running record is judged by its age alone.                     *)
CollectableByAge(j) ==
    \/ record[j].state \in Terminal /\ age[j] = 2
    \/ record[j].state \in {"dir", "queued", "running"} /\ age[j] >= 1

(* process_managed_job: a terminal record past retention, or one that is   *)
(* past the grace period and is not a running job with a live identity.    *)
Collectable(j) ==
    \/ record[j].state \in Terminal /\ age[j] = 2
    \/ record[j].state \in {"dir", "queued"} /\ age[j] >= 1
    \/ record[j].state = "running" /\ leader[j] # "alive" /\ age[j] >= 1

GcInspects(j) ==
    /\ Collectable(j) /\ ~doomed[j]
    /\ doomed' = [doomed EXCEPT ![j] = TRUE]
    /\ UNCHANGED <<record, age, starter, worker, programVars, killed, verdict,
                   cancelVars>>

(* The removal follows the decision without another look at the record.    *)
GcDiscards(j) ==
    /\ doomed[j]
    /\ doomed' = [doomed EXCEPT ![j] = FALSE]
    /\ record' = [record EXCEPT ![j] =
                     IF record[j].state = "dir" THEN NoRecord
                     ELSE [NoRecord EXCEPT !.state = "removed"]]
    /\ UNCHANGED <<age, starter, worker, programVars, killed, verdict,
                   cancelVars>>

-----------------------------------------------------------------------------
StartStep(j) == StartMkdir(j) \/ StartWrite(j) \/ StartWorker(j)

WorkerStep(j) ==
    \/ WorkerClaim(j) \/ WorkerSpawn(j) \/ WorkerSpawnFails(j)
    \/ WorkerFails(j) \/ WorkerPublish(j) \/ WorkerYields(j)
    \/ WorkerReaps(j) \/ WorkerDrained(j) \/ WorkerDrainTimeout(j)
    \/ WorkerFinish(j) \/ WorkerLosesDirectory(j)

ProgramStep(j) ==
    \/ LeaderExits(j) \/ InitReaps(j) \/ PidReused(j)
    \/ \E kind \in Kinds :
        TailForks(j, kind) \/ TailRespawns(j, kind) \/ TailExits(j, kind)

CancelStep(j) ==
    \/ CancelGraceOver(j) \/ CancelLists(j) \/ CancelReports(j)
    \/ CancelDies(j)

Step(j) ==
    \/ StartStep(j) \/ StartDies(j)
    \/ WorkerStep(j) \/ WorkerFeeds(j) \/ WorkerWaitError(j) \/ WorkerDies(j)
    \/ ProgramStep(j)
    \/ CancelQueued(j) \/ CancelSignals(j) \/ CancelStep(j)
    \/ Ages(j) \/ GcInspects(j) \/ GcDiscards(j)

Next == \E j \in Jobs : Step(j)

Spec == Init /\ [][Next]_vars

(* A live worker is scheduled and its turn at the record lock comes (flock *)
(* waiters are queued), but its write to stdin ends for certain only when  *)
(* nobody is left who could read it.  A helper holding the lock is bounded *)
(* by its own deadlines; a delivered SIGKILL takes effect.  Nothing makes  *)
(* a program exit, or read its input, by itself.                           *)
Fairness ==
    \A j \in Jobs :
        /\ SF_vars(WorkerStep(j))
        /\ WF_vars(~PipesHeld(j) /\ WorkerFeeds(j))
        /\ WF_vars(CancelStep(j))
        /\ WF_vars(killed[j] /\ LeaderExits(j))
        /\ \A kind \in Kinds : WF_vars(killed[j] /\ TailExits(j, kind))

FairSpec == Spec /\ Fairness

-----------------------------------------------------------------------------
(* Properties.                                                             *)

(* A cancel reply that says "terminated" is honest: from then on no member *)
(* of the job's process group is alive (src README, "honest terminated     *)
(* field"), though the program goes on forking, exiting and being killed   *)
(* between the steps of the helper.  The promise needs a listing of /proc  *)
(* that shows every member and no fork while the listed processes are read *)
(* one by one: slipped records that one of these failed.                   *)
HonestTermination ==
    \A j \in Jobs : record[j].terminated /\ ~slipped[j] => ~GroupAlive(j)

(* Once the program's identity was published, the recorded outcome never   *)
(* changes, whatever cancel, finish, worker death and retries race; before *)
(* that only a cancellation may turn into "failed", and only for a program *)
(* that never ran.                                                         *)
OutcomeFrozen ==
    [][\A j \in Jobs :
        record[j].state \in Terminal =>
            \/ record'[j].state \in {record[j].state, "removed"}
            \/ /\ ~record[j].published /\ launches'[j] = 0
               /\ record[j].state = "cancelled"
               /\ record'[j].state = "failed"]_vars

(* Garbage collection never removes a running job whose published program  *)
(* is alive, though it inspects and removes without the record lock.       *)
CollectionSparesLiveJobs ==
    [][\A j \in Jobs :
        record[j].state = "running" /\ record'[j].state = "removed" =>
            leader[j] # "alive"]_vars

(* A cancellation ends in the death of the program and of every descendant *)
(* that kept its pipes, also when it was recorded while the worker was     *)
(* between spawning the program and publishing it, unless the worker dies  *)
(* or is stuck writing stdin, or the signals are refused.  Nothing is said *)
(* of descendants that redirected their output: once the leader has died   *)
(* of SIGTERM nobody sends SIGKILL to one that ignores it.                 *)
CancelledGroupDies ==
    \A j \in Jobs :
        (record[j].state = "cancelled" /\ PipesHeld(j) /\ worker[j] # "feed")
            ~> (~PipesHeld(j) \/ immune[j] \/ worker[j] = "dead")

(* When the program has exited, an outcome is recorded or the directory is *)
(* gone, even if descendants keep its output pipes open; only a worker     *)
(* whose input such a descendant leaves unread may be stuck before that.   *)
ExitIsRecorded ==
    \A j \in Jobs :
        (/\ leader[j] \in {"zombie", "gone"}
         /\ \/ worker[j] \in {"wait", "drain"}
            \/ worker[j] = "feed" /\ ~PipesHeld(j))
            ~> (record[j].state \in Terminal \cup {"removed"}
                    \/ worker[j] = "dead")

-----------------------------------------------------------------------------
(* The abstract life of a job as seen through record.json.                 *)

Observed(j) ==
    IF record[j].state \in {"none", "dir"} THEN "absent" ELSE record[j].state

Lifecycle == INSTANCE RemoteJobLifecycle WITH
    remote <- [j \in Jobs |-> Observed(j)]

ImplementsLifecycle == Lifecycle!LifecycleSpec
=============================================================================
