-------------------------- MODULE JobHelper_proofs ---------------------------
(****************************************************************************)
(* Theorems about the programs of the job helper on the managed host.       *)
(*                                                                          *)
(* RemoteJobHost, for any set of jobs: the type invariant, the safety       *)
(* properties the runs check, and that the host implements                  *)
(* RemoteJobLifecycle.  All of them follow from one inductive invariant,    *)
(* which ties the record on disk to the progress of the processes that      *)
(* share it.                                                                *)
(*                                                                          *)
(* RemoteJobSweep, for any helpers, directories, budgets and faults: every  *)
(* pass keeps within its budgets, and the legacy segment skips nothing      *)
(* between two ends of file.  The invariant says that one cookie file is in *)
(* use at a time, by the helper that has the lock, and that nothing behind  *)
(* a stored cookie remains to be read.                                      *)
(****************************************************************************)
EXTENDS RemoteJobHost, RemoteJobSweep, FiniteSetTheorems, WellFoundedInduction,
        TLAPS

(* The start helper works alone: until it is done there is no worker, and  *)
(* the young directory is no concern of the garbage collector.             *)
StarterAlone(j) ==
    /\ starter[j] # "done" => worker[j] = "none" /\ age[j] = 0 /\ ~doomed[j]
    /\ starter[j] = "idle" => record[j].state = "none"
    /\ starter[j] = "mkdir" => record[j].state = "dir"
    /\ starter[j] = "queued" => record[j].state \in {"queued", "cancelled"}

(* Before the spawn nothing of the program exists.                         *)
NotYetSpawned(j) ==
    worker[j] \in {"none", "claim", "spawn", "refused"} =>
        /\ leader[j] = "none" /\ launches[j] = 0
        /\ ~record[j].published

(* Until the worker has published, the record can only be cancelled; the   *)
(* record is too young to be collected.                                    *)
Unpublished(j) ==
    /\ worker[j] = "none" =>
        record[j].state \in {"none", "dir", "queued", "cancelled", "removed"}
    /\ worker[j] \in {"claim", "spawn", "refused", "publish"} =>
        /\ record[j].state \in {"queued", "cancelled"}
        /\ age[j] = 0 /\ ~doomed[j]
    /\ worker[j] = "publish" =>
        /\ leader[j] \in {"alive", "zombie"} /\ launches[j] = 1
        /\ ~record[j].published

(* After that it is running until the worker finishes or a cancel reports. *)
Published(j) ==
    /\ worker[j] \in {"feed", "wait", "drain", "finish"} =>
        record[j].state \in {"running", "cancelled", "removed"}
    /\ worker[j] \in {"feed", "wait"} => leader[j] \in {"alive", "zombie"}
    /\ worker[j] \in {"drain", "finish"} => leader[j] \in {"gone", "reused"}
    /\ record[j].published =>
        record[j].state \notin {"none", "dir", "queued"}

(* Only a worker that is done leaves an outcome, and the verdict is known  *)
(* as soon as the leader has exited.                                       *)
OutcomeIsFinal(j) ==
    /\ record[j].state \in {"succeeded", "failed"} =>
        /\ worker[j] \in {"done", "dead"}
        /\ leader[j] \notin {"alive", "zombie"}
    /\ leader[j] \in {"zombie", "gone", "reused"} => verdict[j] # "unknown"

(* A cancel helper holds the lock of a spawned job without an outcome.     *)
CancelHolds(j) ==
    cancel[j] # "none" =>
        /\ leader[j] # "none"
        /\ record[j].state \in {"running", "cancelled", "removed"}

(* What the collector decided to remove is still there, and is no live job.*)
DoomedIsDead(j) ==
    doomed[j] =>
        /\ record[j].state \notin {"none", "removed"}
        /\ record[j].state = "running" => leader[j] # "alive"

(* A reply that says "terminated" was given about a spawned program.       *)
Terminated(j) ==
    record[j].terminated =>
        /\ leader[j] # "none"
        /\ ~slipped[j] => leader[j] # "alive" /\ tail[j] = {}

(* A scan that misses nobody still has every living member to read.        *)
StillToRead(j) ==
    cancel[j] = "scan" /\ ~slipped[j] => Members(j) \subseteq unread[j]

JobInv(j) ==
    /\ StarterAlone(j) /\ NotYetSpawned(j) /\ Unpublished(j) /\ Published(j)
    /\ OutcomeIsFinal(j) /\ CancelHolds(j) /\ DoomedIsDead(j) /\ Terminated(j)
    /\ StillToRead(j)

IInv == TypeOK /\ \A j \in Jobs : JobInv(j)
-----------------------------------------------------------------------------
(* Writing records.                                                        *)

(* The updates the helpers make keep a record a record.                    *)
LEMMA RecordUpdated ==
    ASSUME NEW r \in Record, NEW s \in RecordState, NEW b \in BOOLEAN
    PROVE  /\ [r EXCEPT !.state = s] \in Record
           /\ [r EXCEPT !.state = s, !.published = b] \in Record
           /\ [r EXCEPT !.state = s, !.terminated = b] \in Record
  BY DEF Record

(* write_record replaces one record and makes its directory young again.   *)
LEMMA RecordWritten ==
    ASSUME TypeOK, NEW j \in Jobs, NEW r \in Record, Write(j, r)
    PROVE  /\ record' \in [Jobs -> Record] /\ age' \in [Jobs -> 0..2]
           /\ record'[j] = r /\ age'[j] = 0
  BY DEF TypeOK, Write

(* A report that finds the group dead is right unless a member slipped.    *)
LEMMA CancelReply ==
    ASSUME IInv, NEW j \in Jobs, CancelReports(j)
    PROVE  \E t \in BOOLEAN :
            /\ Write(j, [record[j] EXCEPT !.state = "cancelled",
                                          !.terminated = t])
            /\ t /\ ~slipped[j] => leader[j] # "alive" /\ tail[j] = {}
  <1>1. (unread[j] = {}) \in BOOLEAN
    OBVIOUS
  <1>2. unread[j] = {} /\ ~slipped[j] => leader[j] # "alive" /\ tail[j] = {}
    BY DEF CancelReports, IInv, JobInv, StillToRead, Members
  <1> QED
    BY <1>1, <1>2, Zenon DEF CancelReports, CancelledAs

(* A worker that finishes knows the outcome: its program has been reaped.  *)
LEMMA FinishKnowsVerdict ==
    ASSUME IInv, NEW j \in Jobs, worker[j] = "finish"
    PROVE  verdict[j] \in {"succeeded", "failed"}
  BY DEF IInv, TypeOK, JobInv, Published, OutcomeIsFinal

-----------------------------------------------------------------------------
(* The invariant is inductive.                                             *)

(* Nothing exists at first, so every part holds.                           *)
LEMMA InitIInv == Init => IInv
  BY DEF Init, IInv, TypeOK, NoRecord, Record, RecordState, Terminal, JobInv,
      StarterAlone, NotYetSpawned, Unpublished, Published, OutcomeIsFinal,
      CancelHolds, DoomedIsDead, Terminated, StillToRead

(* An action on one job leaves every other job as it was.                  *)
LEMMA JobsAreIndependent ==
    ASSUME TypeOK, NEW j \in Jobs, Step(j), NEW i \in Jobs, i # j
    PROVE  /\ record'[i] = record[i] /\ age'[i] = age[i]
           /\ starter'[i] = starter[i] /\ worker'[i] = worker[i]
           /\ leader'[i] = leader[i] /\ tail'[i] = tail[i]
           /\ verdict'[i] = verdict[i] /\ cancel'[i] = cancel[i]
           /\ doomed'[i] = doomed[i] /\ launches'[i] = launches[i]
           /\ unread'[i] = unread[i] /\ slipped'[i] = slipped[i]
  <1> DEFINE Same ==
           /\ record'[i] = record[i] /\ age'[i] = age[i]
           /\ starter'[i] = starter[i] /\ worker'[i] = worker[i]
           /\ leader'[i] = leader[i] /\ tail'[i] = tail[i]
           /\ verdict'[i] = verdict[i] /\ cancel'[i] = cancel[i]
           /\ doomed'[i] = doomed[i] /\ launches'[i] = launches[i]
           /\ unread'[i] = unread[i] /\ slipped'[i] = slipped[i]
  <1> USE DEF TypeOK, cancelVars
  <1>1. CASE StartMkdir(j)
    BY <1>1 DEF StartMkdir, SetState, programVars, Write
  <1>2. CASE StartWrite(j)
    BY <1>2 DEF StartWrite, SetState, programVars, Write
  <1>3. CASE StartWorker(j)
    BY <1>3 DEF StartWorker, programVars
  <1>4. CASE StartDies(j)
    BY <1>4 DEF StartDies, programVars
  <1>5. CASE WorkerClaim(j)
    BY <1>5 DEF WorkerClaim, WorkerGoes, programVars
  <1>6. CASE WorkerSpawn(j)
    BY <1>6 DEF WorkerSpawn, WorkerGoes
  <1>7. CASE WorkerSpawnFails(j)
    BY <1>7 DEF WorkerSpawnFails, WorkerGoes, programVars
  <1>8. CASE WorkerFails(j)
    BY <1>8 DEF WorkerFails, WorkerGoes, SetState, programVars, Write
  <1>9. CASE WorkerPublish(j)
    BY <1>9 DEF WorkerPublish, WorkerGoes, Write, programVars
  <1>10. CASE WorkerYields(j)
    BY <1>10 DEF WorkerYields, WorkerGoes, programVars
  <1>11. CASE WorkerReaps(j)
    BY <1>11 DEF WorkerReaps, WorkerGoes
  <1>12. CASE WorkerDrained(j)
    BY <1>12 DEF WorkerDrained, WorkerGoes, programVars
  <1>13. CASE WorkerDrainTimeout(j)
    BY <1>13 DEF WorkerDrainTimeout, WorkerGoes, programVars
  <1>14. CASE WorkerFinish(j)
    BY <1>14 DEF WorkerFinish, WorkerGoes, SetState, programVars, Write
  <1>15. CASE WorkerLosesDirectory(j)
    BY <1>15 DEF WorkerLosesDirectory, WorkerGoes, programVars
  <1>16. CASE WorkerWaitError(j)
    BY <1>16 DEF WorkerWaitError, programVars
  <1>17. CASE WorkerDies(j)
    BY <1>17 DEF WorkerDies, programVars
  <1>18. CASE LeaderExits(j)
    BY <1>18 DEF LeaderExits
  <1>19. ASSUME NEW kind \in Kinds, TailForks(j, kind) PROVE Same
    BY <1>19 DEF TailForks, Kinds
  <1>20. ASSUME NEW kind \in Kinds, TailExits(j, kind) PROVE Same
    BY <1>20 DEF TailExits, Kinds
  <1>35. ASSUME NEW kind \in Kinds, TailRespawns(j, kind) PROVE Same
    BY <1>35 DEF TailRespawns, Kinds, programVars
  <1>21. CASE InitReaps(j)
    BY <1>21 DEF InitReaps
  <1>22. CASE PidReused(j)
    BY <1>22 DEF PidReused
  <1>23. CASE CancelQueued(j)
    BY <1>23 DEF CancelQueued, SetState, programVars, Write
  <1>24. CASE CancelSignals(j)
    BY <1>24 DEF CancelSignals, programVars
  <1>25. CASE CancelGraceOver(j)
    BY <1>25 DEF CancelGraceOver, programVars
  <1>26. CASE CancelReports(j)
    BY <1>26 DEF CancelReports, CancelledAs, Write, programVars
  <1>27. CASE CancelDies(j)
    BY <1>27 DEF CancelDies, programVars
  <1>36. CASE CancelLists(j)
    BY <1>36 DEF CancelLists, programVars
  <1>37. CASE WorkerFeeds(j)
    BY <1>37 DEF WorkerFeeds, WorkerGoes, programVars
  <1>28. CASE Ages(j)
    BY <1>28 DEF Ages, programVars
  <1>29. CASE GcInspects(j)
    BY <1>29 DEF GcInspects, programVars
  <1>30. CASE GcDiscards(j)
    BY <1>30 DEF GcDiscards, programVars
  <1> HIDE DEF TypeOK, cancelVars
  <1>31. CASE StartStep(j)
    BY <1>1, <1>2, <1>3, <1>31, Zenon DEF StartStep
  <1>32. CASE WorkerStep(j)
    BY <1>5, <1>6, <1>7, <1>8, <1>9, <1>10, <1>11, <1>12, <1>13, <1>14,
       <1>15, <1>32, Zenon
    DEF WorkerStep
  <1>33. CASE ProgramStep(j)
    BY <1>18, <1>19, <1>20, <1>21, <1>22, <1>33, <1>35, Zenon DEF ProgramStep
  <1>34. CASE CancelStep(j)
    BY <1>25, <1>26, <1>27, <1>34, <1>36, Zenon DEF CancelStep
  <1> QED
    BY <1>4, <1>16, <1>17, <1>23, <1>24, <1>28, <1>29, <1>30, <1>31, <1>32,
       <1>33, <1>34, <1>37, Zenon
    DEF Step

(* Every action keeps the types; only a worker that finishes and a cancel  *)
(* helper that reports write values that need an argument.                 *)
LEMMA TypeStep ==
    ASSUME IInv, NEW j \in Jobs, Step(j)
    PROVE  TypeOK'
  <1> USE DEF IInv, TypeOK, cancelVars
  <1>1. CASE StartMkdir(j)
    <2>1. [record[j] EXCEPT !.state = "dir"] \in Record
      BY RecordUpdated DEF RecordState
    <2> QED
      BY <1>1, <2>1, RecordWritten DEF StartMkdir, SetState, programVars
  <1>2. CASE StartWrite(j)
    <2>1. [record[j] EXCEPT !.state = "queued"] \in Record
      BY RecordUpdated DEF RecordState
    <2> QED
      BY <1>2, <2>1, RecordWritten DEF StartWrite, SetState, programVars
  <1>3. CASE StartWorker(j)
    BY <1>3 DEF StartWorker, programVars
  <1>4. CASE StartDies(j)
    BY <1>4 DEF StartDies, programVars
  <1>5. CASE WorkerClaim(j)
    BY <1>5 DEF WorkerClaim, WorkerGoes, programVars
  <1>6. CASE WorkerSpawn(j)
    BY <1>6 DEF WorkerSpawn, WorkerGoes
  <1>7. CASE WorkerSpawnFails(j)
    BY <1>7 DEF WorkerSpawnFails, WorkerGoes, programVars
  <1>8. CASE WorkerFails(j)
    <2>1. [record[j] EXCEPT !.state = "failed"] \in Record
      BY RecordUpdated DEF RecordState, Terminal
    <2> QED
      BY <1>8, <2>1, RecordWritten, ZenonT(40)
      DEF WorkerFails, WorkerGoes, SetState, programVars
  <1>9. CASE WorkerPublish(j)
    <2>1. [record[j] EXCEPT !.state = "running", !.published = TRUE] \in Record
      BY RecordUpdated DEF RecordState
    <2> QED
      BY <1>9, <2>1, RecordWritten
      DEF WorkerPublish, WorkerGoes, programVars
  <1>10. CASE WorkerYields(j)
    BY <1>10 DEF WorkerYields, WorkerGoes, Kill, programVars
  <1>11. CASE WorkerReaps(j)
    BY <1>11 DEF WorkerReaps, WorkerGoes
  <1>12. CASE WorkerDrained(j)
    BY <1>12 DEF WorkerDrained, WorkerGoes, programVars
  <1>13. CASE WorkerDrainTimeout(j)
    BY <1>13 DEF WorkerDrainTimeout, WorkerGoes, Kill, programVars
  <1>14. CASE WorkerFinish(j)
    <2>1. verdict[j] \in {"succeeded", "failed"}
      BY <1>14, FinishKnowsVerdict DEF WorkerFinish, WorkerGoes
    <2>2. [record[j] EXCEPT !.state = IF record[j].state = "cancelled"
                                      THEN "cancelled" ELSE verdict[j]]
            \in Record
      BY <2>1 DEF RecordState, Terminal, Record
    <2> QED
      BY <1>14, <2>2, RecordWritten
      DEF WorkerFinish, WorkerGoes, SetState, programVars
  <1>15. CASE WorkerLosesDirectory(j)
    BY <1>15 DEF WorkerLosesDirectory, WorkerGoes, programVars
  <1>16. CASE WorkerWaitError(j)
    BY <1>16 DEF WorkerWaitError, Kill, programVars
  <1>17. CASE WorkerDies(j)
    BY <1>17 DEF WorkerDies, programVars
  <1>18. CASE LeaderExits(j)
    BY <1>18 DEF LeaderExits
  <1>19. ASSUME NEW kind \in Kinds, TailForks(j, kind) PROVE TypeOK'
    BY <1>19 DEF TailForks, Kinds
  <1>20. ASSUME NEW kind \in Kinds, TailExits(j, kind) PROVE TypeOK'
    BY <1>20 DEF TailExits, Kinds
  <1>35. ASSUME NEW kind \in Kinds, TailRespawns(j, kind) PROVE TypeOK'
    BY <1>35 DEF TailRespawns, Kinds, programVars
  <1>21. CASE InitReaps(j)
    BY <1>21 DEF InitReaps
  <1>22. CASE PidReused(j)
    BY <1>22 DEF PidReused
  <1>23. CASE CancelQueued(j)
    <2>1. [record[j] EXCEPT !.state = "cancelled"] \in Record
      BY RecordUpdated DEF RecordState, Terminal
    <2> QED
      BY <1>23, <2>1, RecordWritten, ZenonT(40)
      DEF CancelQueued, SetState, programVars
  <1>24. CASE CancelSignals(j)
    BY <1>24 DEF CancelSignals, programVars
  <1>25. CASE CancelGraceOver(j)
    BY <1>25
    DEF CancelGraceOver, Kill, programVars, Record, RecordState, Terminal
  <1>26. CASE CancelReports(j)
    <2>1. PICK t \in BOOLEAN :
            Write(j, [record[j] EXCEPT !.state = "cancelled",
                                       !.terminated = t])
      BY <1>26, CancelReply
    <2>2. [record[j] EXCEPT !.state = "cancelled", !.terminated = t] \in Record
      BY RecordUpdated DEF RecordState, Terminal
    <2> QED
      BY <1>26, <2>1, <2>2, RecordWritten, ZenonT(40)
      DEF CancelReports, CancelledAs, programVars
  <1>27. CASE CancelDies(j)
    BY <1>27 DEF CancelDies, programVars
  <1>36. CASE CancelLists(j)
    <2>1. PICK listed \in SUBSET Members(j) :
            unread' = [unread EXCEPT ![j] = listed]
      BY <1>36, Zenon DEF CancelLists
    <2>2. listed \in SUBSET ({"leader"} \cup Kinds)
      BY <2>1 DEF Members
    <2>3. slipped' \in [Jobs -> BOOLEAN]
      BY <1>36 DEF CancelLists
    <2> QED
      BY <1>36, <2>1, <2>2, <2>3 DEF CancelLists, programVars
  <1>37. CASE WorkerFeeds(j)
    BY <1>37 DEF WorkerFeeds, WorkerGoes, programVars
  <1>28. CASE Ages(j)
    BY <1>28 DEF Ages, programVars
  <1>29. CASE GcInspects(j)
    BY <1>29 DEF GcInspects, programVars
  <1>30. CASE GcDiscards(j)
    BY <1>30
    DEF GcDiscards, NoRecord, programVars, Record, RecordState, Terminal
  <1> QED
    BY <1>1, <1>2, <1>3, <1>4, <1>5, <1>6, <1>7, <1>8, <1>9, <1>10,
       <1>11, <1>12, <1>13, <1>14, <1>15, <1>16, <1>17, <1>18, <1>19, <1>20,
       <1>21, <1>22, <1>23, <1>24, <1>25, <1>26, <1>27, <1>28, <1>29, <1>30,
       <1>35, <1>36, <1>37
    DEF StartStep, WorkerStep, ProgramStep, CancelStep, Step

(* Every action keeps the invariant of the job it acts on.                 *)
LEMMA JobStep ==
    ASSUME IInv, TypeOK', NEW j \in Jobs, Step(j)
    PROVE  JobInv(j)'
  <1> USE DEF IInv, TypeOK, JobInv, StarterAlone, NotYetSpawned, Unpublished,
              Published, OutcomeIsFinal, CancelHolds, DoomedIsDead, Terminated,
              StillToRead, Members, cancelVars
  <1>1. CASE StartMkdir(j)
    BY <1>1 DEF StartMkdir, SetState, programVars, Write
  <1>2. CASE StartWrite(j)
    BY <1>2 DEF StartWrite, SetState, programVars, Write
  <1>3. CASE StartWorker(j)
    BY <1>3 DEF StartWorker, programVars
  <1>4. CASE StartDies(j)
    BY <1>4 DEF StartDies, programVars
  <1>5. CASE WorkerClaim(j)
    BY <1>5 DEF WorkerClaim, WorkerGoes, programVars
  <1>6. CASE WorkerSpawn(j)
    BY <1>6 DEF WorkerSpawn, WorkerGoes
  <1>7. CASE WorkerSpawnFails(j)
    BY <1>7 DEF WorkerSpawnFails, WorkerGoes, programVars
  <1>8. CASE WorkerFails(j)
    BY <1>8 DEF WorkerFails, WorkerGoes, SetState, programVars, Write
  <1>9. CASE WorkerPublish(j)
    BY <1>9 DEF WorkerPublish, WorkerGoes, Write, programVars
  <1>10. CASE WorkerYields(j)
    BY <1>10 DEF WorkerYields, WorkerGoes, programVars
  <1>11. CASE WorkerReaps(j)
    BY <1>11 DEF WorkerReaps, WorkerGoes
  <1>12. CASE WorkerDrained(j)
    BY <1>12 DEF WorkerDrained, WorkerGoes, programVars
  <1>13. CASE WorkerDrainTimeout(j)
    BY <1>13 DEF WorkerDrainTimeout, WorkerGoes, programVars
  <1>14. CASE WorkerFinish(j)
    BY <1>14
    DEF WorkerFinish, LockFree, WorkerGoes, SetState, programVars,
        Write
  <1>15. CASE WorkerLosesDirectory(j)
    BY <1>15 DEF WorkerLosesDirectory, WorkerGoes, programVars
  <1>16. CASE WorkerWaitError(j)
    BY <1>16 DEF WorkerWaitError, programVars
  <1>17. CASE WorkerDies(j)
    BY <1>17 DEF WorkerDies, programVars
  <1>18. CASE LeaderExits(j)
    <2>1. Members(j)' \subseteq Members(j) \ {"leader"}
      BY <1>18 DEF LeaderExits, Kinds
    <2>2. /\ unread'[j] = unread[j] \ {"leader"}
          /\ UNCHANGED <<cancel, slipped>>
      BY <1>18 DEF LeaderExits
    <2>3. StillToRead(j)'
      <3> HIDE DEF Members
      <3> QED BY <2>1, <2>2
    <2>4. Terminated(j)'
      BY <1>18 DEF LeaderExits
    <2> HIDE DEF StillToRead, Terminated, Members
    <2> QED
      BY <1>18, <2>3, <2>4 DEF LeaderExits
  <1>19. ASSUME NEW kind \in Kinds, TailForks(j, kind) PROVE JobInv(j)'
    <2>1. ~record[j].terminated \/ slipped[j]
      BY <1>19 DEF TailForks, PipesHeld
    <2>2. slipped'[j] \/ (~slipped[j] /\ cancel[j] # "scan")
      <3>1. slipped \in [Jobs -> BOOLEAN]
        OBVIOUS
      <3>2. slipped' = [slipped EXCEPT ![j] = @ \/ cancel[j] = "scan"]
        BY <1>19 DEF TailForks
      <3> HIDE DEF IInv
      <3> QED
        BY <3>1, <3>2, Zenon
    <2>3. StillToRead(j)' /\ Terminated(j)'
      BY <1>19, <2>1, <2>2 DEF TailForks
    <2> HIDE DEF StillToRead, Terminated, Members
    <2> QED
      BY <1>19, <2>3 DEF TailForks
  <1>20. ASSUME NEW kind \in Kinds, TailExits(j, kind) PROVE JobInv(j)'
    <2>1. Members(j)' = Members(j) \ {kind}
      BY <1>20 DEF TailExits, Kinds
    <2>2. /\ unread'[j] = unread[j] \ {kind} /\ tail'[j] = tail[j] \ {kind}
          /\ UNCHANGED <<cancel, slipped>>
      BY <1>20 DEF TailExits
    <2>3. StillToRead(j)'
      <3> HIDE DEF Members
      <3> QED BY <2>1, <2>2
    <2>4. Terminated(j)'
      BY <1>20, <2>2 DEF TailExits
    <2> HIDE DEF StillToRead, Terminated, Members
    <2> QED
      BY <1>20, <2>3, <2>4 DEF TailExits
  <1>35. ASSUME NEW kind \in Kinds, TailRespawns(j, kind) PROVE JobInv(j)'
    BY <1>35 DEF TailRespawns, Kinds, programVars
  <1>21. CASE InitReaps(j)
    BY <1>21 DEF InitReaps
  <1>22. CASE PidReused(j)
    BY <1>22 DEF PidReused
  <1>23. CASE CancelQueued(j)
    BY <1>23 DEF CancelQueued, SetState, programVars, Write
  <1>24. CASE CancelSignals(j)
    BY <1>24
    DEF CancelSignals, programVars, Record, RecordState, Terminal
  <1>25. CASE CancelGraceOver(j)
    BY <1>25 DEF CancelGraceOver, programVars
  <1>26. CASE CancelReports(j)
    <2>1. PICK t \in BOOLEAN :
            /\ Write(j, [record[j] EXCEPT !.state = "cancelled",
                                          !.terminated = t])
            /\ t /\ ~slipped[j] => leader[j] # "alive" /\ tail[j] = {}
      BY <1>26, CancelReply
    <2>2. record'[j] = [record[j] EXCEPT !.state = "cancelled",
                                         !.terminated = t]
      BY <2>1 DEF Write
    <2>3. /\ record'[j].state = "cancelled" /\ record'[j].terminated = t
          /\ record'[j].published = record[j].published
      BY <2>2 DEF Record
    <2> QED
      BY <1>26, <2>1, <2>3 DEF CancelReports, CancelledAs, Write, programVars
  <1>27. CASE CancelDies(j)
    BY <1>27 DEF CancelDies, programVars
  <1>36. CASE CancelLists(j)
    <2>1. PICK listed \in SUBSET Members(j) :
            /\ unread' = [unread EXCEPT ![j] = listed]
            /\ slipped' = [slipped EXCEPT ![j] = @ \/ listed # Members(j)]
      BY <1>36, Zenon DEF CancelLists
    <2>2. unread'[j] = listed /\ (~slipped'[j] => listed = Members(j)
                                               /\ ~slipped[j])
      <3>1. slipped \in [Jobs -> BOOLEAN] /\ unread \in
              [Jobs -> SUBSET ({"leader"} \cup Kinds)]
        OBVIOUS
      <3> HIDE DEF IInv
      <3> QED
        BY <2>1, <3>1, Zenon
    <2>3. Members(j)' = Members(j) /\ StillToRead(j)'
      BY <1>36, <2>2 DEF CancelLists, programVars
    <2>4. Terminated(j)'
      BY <1>36, <2>2 DEF CancelLists, programVars
    <2> HIDE DEF StillToRead, Terminated, Members
    <2> QED
      BY <1>36, <2>3, <2>4 DEF CancelLists, programVars
  <1>37. CASE WorkerFeeds(j)
    BY <1>37 DEF WorkerFeeds, WorkerGoes, programVars
  <1>28. CASE Ages(j)
    BY <1>28 DEF Ages, programVars
  <1>29. CASE GcInspects(j)
    BY <1>29 DEF GcInspects, Collectable, programVars, Terminal
  <1>30. CASE GcDiscards(j)
    BY <1>30 DEF GcDiscards, NoRecord, programVars
  <1> QED
    BY <1>1, <1>2, <1>3, <1>4, <1>5, <1>6, <1>7, <1>8, <1>9, <1>10,
       <1>11, <1>12, <1>13, <1>14, <1>15, <1>16, <1>17, <1>18, <1>19, <1>20,
       <1>21, <1>22, <1>23, <1>24, <1>25, <1>26, <1>27, <1>28, <1>29, <1>30,
       <1>35, <1>36, <1>37
    DEF StartStep, WorkerStep, ProgramStep, CancelStep, Step

-----------------------------------------------------------------------------
(* What one step does to the record of a job and to its launch count.      *)

Quiet(j) == record'[j].state = record[j].state /\ launches' = launches

Prepared(j) ==
    /\ record[j].state = "none" /\ record'[j].state = "dir"
    /\ launches' = launches

Accepted(j) ==
    /\ record[j].state = "dir" /\ record'[j].state = "queued"
    /\ launches' = launches

Launched(j) ==
    /\ record[j].state \in {"queued", "cancelled"} /\ record' = record
    /\ launches[j] = 0 /\ launches' = [launches EXCEPT ![j] = 1]

Refused(j) ==
    /\ record[j].state \in {"queued", "cancelled"}
    /\ record'[j].state = "failed"
    /\ launches[j] = 0 /\ ~record[j].published /\ launches' = launches

Ran(j) ==
    /\ record[j].state = "queued" /\ record'[j].state = "running"
    /\ launches[j] = 1 /\ launches' = launches

Settled(j) ==
    /\ record[j].state = "running"
    /\ record'[j].state \in {"succeeded", "failed"}
    /\ launches' = launches

Cancelled(j) ==
    /\ record[j].state \in {"queued", "running"}
    /\ record'[j].state = "cancelled"
    /\ launches' = launches

Removed(j) ==
    /\ record[j].state \notin {"none", "removed"}
    /\ record[j].state = "running" => leader[j] # "alive"
    /\ record'[j].state = IF record[j].state = "dir" THEN "none" ELSE "removed"
    /\ launches' = launches

(* All the ways a step can change a record, and when the program launches. *)
LEMMA RecordMoves ==
    ASSUME IInv, NEW j \in Jobs, Step(j)
    PROVE  \/ Quiet(j) \/ Prepared(j) \/ Accepted(j) \/ Launched(j)
           \/ Refused(j) \/ Ran(j) \/ Settled(j) \/ Cancelled(j) \/ Removed(j)
  <1> USE DEF IInv, TypeOK, JobInv, Record
  <1>1. CASE StartMkdir(j)
    <2> Prepared(j)
      BY <1>1
      DEF StartMkdir, SetState, Write, StarterAlone, Prepared, programVars
    <2> QED OBVIOUS
  <1>2. CASE StartWrite(j)
    <2> Accepted(j)
      BY <1>2
      DEF StartWrite, SetState, Write, StarterAlone, Accepted, programVars
    <2> QED OBVIOUS
  <1>3. CASE WorkerSpawn(j)
    <2>1. launches[j] = 0 /\ record[j].state \in {"queued", "cancelled"}
      BY <1>3 DEF WorkerSpawn, WorkerGoes, NotYetSpawned, Unpublished
    <2>2. launches' = [launches EXCEPT ![j] = 1] /\ record' = record
      BY <1>3, <2>1 DEF WorkerSpawn
    <2> QED
      BY <2>1, <2>2 DEF Launched
  <1>4. CASE WorkerFails(j)
    <2> Refused(j)
      BY <1>4 DEF WorkerFails, WorkerGoes, SetState, Write, NotYetSpawned,
                  Unpublished, Refused, programVars
    <2> QED OBVIOUS
  <1>5. CASE WorkerPublish(j)
    <2> Ran(j)
      BY <1>5
      DEF WorkerPublish, WorkerGoes, Write, Unpublished, Ran, programVars
    <2> QED OBVIOUS
  <1>6. CASE WorkerFinish(j)
    <2>1. verdict[j] \in {"succeeded", "failed"}
      BY <1>6, FinishKnowsVerdict DEF WorkerFinish, WorkerGoes
    <2>2. record[j].state \in {"running", "cancelled"}
      BY <1>6 DEF WorkerFinish, WorkerGoes, HasRecord, Published
    <2>3. record'[j] = [record[j] EXCEPT !.state =
                          IF record[j].state = "cancelled" THEN "cancelled"
                                                           ELSE verdict[j]]
      BY <1>6 DEF WorkerFinish, SetState, Write
    <2>4. record'[j].state = IF record[j].state = "cancelled" THEN "cancelled"
                                                              ELSE verdict[j]
      BY <2>3
    <2>5. launches' = launches
      BY <1>6 DEF WorkerFinish, programVars
    <2> QED
      BY <2>1, <2>2, <2>4, <2>5 DEF Quiet, Settled
  <1>7. CASE CancelQueued(j)
    <2> Cancelled(j)
      BY <1>7 DEF CancelQueued, SetState, Write, Cancelled, programVars
    <2> QED OBVIOUS
  <1>8. CASE CancelReports(j)
    <2>1. PICK t \in BOOLEAN :
            Write(j, [record[j] EXCEPT !.state = "cancelled",
                                       !.terminated = t])
      BY <1>8, CancelReply
    <2>2. record'[j].state = "cancelled"
      BY <2>1 DEF Write
    <2>3. record[j].state \in {"running", "cancelled"} /\ launches' = launches
      BY <1>8 DEF CancelReports, CancelledAs, HasRecord, CancelHolds, programVars
    <2> QED
      BY <2>2, <2>3 DEF Quiet, Cancelled
  <1>9. CASE GcDiscards(j)
    <2> Removed(j)
      BY <1>9 DEF GcDiscards, DoomedIsDead, Removed, NoRecord, programVars
    <2> QED OBVIOUS
  <1>10. CASE StartWorker(j) \/ StartDies(j) \/ WorkerClaim(j) \/
          WorkerSpawnFails(j) \/ WorkerYields(j) \/ WorkerReaps(j) \/
          WorkerDrained(j) \/ WorkerDrainTimeout(j) \/ WorkerLosesDirectory(j)
          \/ WorkerFeeds(j) \/ WorkerWaitError(j) \/ WorkerDies(j) \/
          LeaderExits(j) \/ InitReaps(j) \/ PidReused(j) \/ CancelSignals(j)
          \/ CancelGraceOver(j) \/ CancelLists(j) \/ CancelDies(j) \/ Ages(j)
          \/ GcInspects(j) \/ (\E kind \in Kinds :
               TailForks(j, kind) \/ TailRespawns(j, kind) \/ TailExits(j, kind))
    <2> Quiet(j)
      BY <1>10 DEF Quiet, programVars,
        StartWorker, StartDies, WorkerClaim, WorkerSpawnFails,
        WorkerYields, WorkerReaps, WorkerDrained, WorkerDrainTimeout,
        WorkerLosesDirectory, WorkerWaitError, WorkerDies, WorkerFeeds,
        LeaderExits, TailForks, TailRespawns, TailExits, InitReaps, PidReused,
        CancelSignals, CancelGraceOver, CancelLists, CancelDies, Ages, GcInspects
    <2> QED OBVIOUS
  <1> QED
    BY <1>1, <1>2, <1>3, <1>4, <1>5, <1>6, <1>7, <1>8, <1>9, <1>10
    DEF StartStep, WorkerStep, ProgramStep, CancelStep, Step

-----------------------------------------------------------------------------
(* Theorems.                                                               *)

(* A step of the environment of the host changes nothing.                  *)
LEMMA StutterKeepsIInv == IInv /\ UNCHANGED vars => IInv'
  BY DEF IInv, vars, TypeOK, JobInv, StarterAlone, NotYetSpawned, Unpublished,
         Published, OutcomeIsFinal, CancelHolds, DoomedIsDead, Terminated,
         StillToRead, Members

(* One job moves, by TypeStep and JobStep; the others stay as they were.   *)
LEMMA NextKeepsIInv == IInv /\ [Next]_vars => IInv'
  <1> SUFFICES ASSUME IInv, [Next]_vars PROVE IInv'
    OBVIOUS
  <1>1. CASE UNCHANGED vars
    BY <1>1, StutterKeepsIInv
  <1>2. ASSUME NEW j \in Jobs, Step(j) PROVE IInv'
    <2>1. TypeOK'
      BY <1>2, TypeStep
    <2>2. JobInv(j)'
      BY <1>2, <2>1, JobStep
    <2>3. ASSUME NEW i \in Jobs, i # j PROVE JobInv(i)'
      BY <1>2, <2>3, JobsAreIndependent
      DEF IInv, JobInv, StarterAlone, NotYetSpawned, Unpublished, Published,
          OutcomeIsFinal, CancelHolds, DoomedIsDead, Terminated, StillToRead,
          Members
    <2> QED
      BY <2>1, <2>2, <2>3 DEF IInv
  <1> QED
    BY <1>1, <1>2 DEF Next

(* The inductive invariant holds for any set of jobs.                       *)
THEOREM InvariantHolds == Spec => []IInv
  BY InitIInv, NextKeepsIInv, PTL DEF Spec

(* Records, processes and verdicts keep their types; in particular the     *)
(* worker never writes the verdict "unknown" into a record.                *)
THEOREM TypeCorrect == Spec => []TypeOK
  <1>1. IInv => TypeOK
    BY DEF IInv
  <1> QED
    BY InvariantHolds, <1>1, PTL

(* A cancel reply that says "terminated" was and stays true, however the   *)
(* program forks, exits and is killed around the scan of /proc, unless     *)
(* slipped says that a member was left out of the listing or was forked    *)
(* behind it: every living member is still to be read, so a scan that has  *)
(* nobody left to read has found the group dead, and nothing revives it.   *)
THEOREM TerminationIsHonest == Spec => []HonestTermination
  <1>1. IInv => HonestTermination
    BY DEF IInv, JobInv, Terminated, HonestTermination, GroupAlive, Members
  <1> QED
    BY InvariantHolds, <1>1, PTL

(* A recorded outcome is final: only retention touches it, except that a   *)
(* job cancelled before its program ran may still turn into "failed".      *)
THEOREM OutcomesAreFrozen == Spec => OutcomeFrozen
  <1> DEFINE Frozen(i) ==
        record[i].state \in Terminal =>
            \/ record'[i].state \in {record[i].state, "removed"}
            \/ /\ ~record[i].published /\ launches'[i] = 0
               /\ record[i].state = "cancelled"
               /\ record'[i].state = "failed"
  <1>1. ASSUME IInv, Next, NEW i \in Jobs PROVE Frozen(i)
    <2>1. PICK j \in Jobs : Step(j)
      BY <1>1 DEF Next
    <2>2. CASE i = j
      BY <1>1, <2>1, <2>2, RecordMoves
      DEF Terminal, Quiet, Prepared, Accepted, Launched, Refused, Ran, Settled,
          Cancelled, Removed
    <2>3. CASE i # j
      BY <1>1, <2>1, <2>3, JobsAreIndependent DEF IInv
    <2> QED
      BY <2>2, <2>3
  <1>2. IInv /\ [Next]_vars => [\A j \in Jobs : Frozen(j)]_vars
    BY <1>1
  <1> QED
    BY <1>2, InvariantHolds, PTL DEF Spec, OutcomeFrozen

(* The collector never removes a running job whose program is alive: while *)
(* it can doom the record, no worker is left that could revive the job.    *)
THEOREM LiveJobsAreSpared == Spec => CollectionSparesLiveJobs
  <1> DEFINE Spared(i) ==
        record[i].state = "running" /\ record'[i].state = "removed" =>
            leader[i] # "alive"
  <1>1. ASSUME IInv, Next, NEW i \in Jobs PROVE Spared(i)
    <2>1. PICK j \in Jobs : Step(j)
      BY <1>1 DEF Next
    <2>2. CASE i = j
      BY <1>1, <2>1, <2>2, RecordMoves
      DEF Quiet, Prepared, Accepted, Launched, Refused, Ran, Settled,
          Cancelled, Removed
    <2>3. CASE i # j
      BY <1>1, <2>1, <2>3, JobsAreIndependent DEF IInv
    <2> QED
      BY <2>2, <2>3
  <1>2. IInv /\ [Next]_vars => [\A j \in Jobs : Spared(j)]_vars
    BY <1>1
  <1> QED
    BY <1>2, InvariantHolds, PTL DEF Spec, CollectionSparesLiveJobs

-----------------------------------------------------------------------------
(* The host implements the abstract life of a job.                         *)

(* An absent or half-made directory is an absent job.                      *)
LEMMA ObservedRecord ==
    ASSUME NEW j \in Jobs
    PROVE  /\ record[j].state \in {"none", "dir"} => Observed(j) = "absent"
           /\ record[j].state \notin {"none", "dir"} =>
                Observed(j) = record[j].state
  BY DEF Observed

(* A step changes the abstract state of no other job.                      *)
LEMMA AbstractMove ==
    ASSUME IInv, NEW j \in Jobs, Step(j)
    PROVE  [i \in Jobs |-> Observed(i)]' =
              [[i \in Jobs |-> Observed(i)] EXCEPT ![j] = Observed(j)']
  BY JobsAreIndependent DEF Observed, IInv

(* Each move of a record is a step of the abstract life, or none.          *)
LEMMA StepSimulates ==
    ASSUME IInv, NEW j \in Jobs, Step(j)
    PROVE  Lifecycle!LifecycleStep(j) \/ UNCHANGED Lifecycle!lifecycleVars
  <1> DEFINE R == [i \in Jobs |-> Observed(i)]
  <1>1. R' = [R EXCEPT ![j] = Observed(j)'] /\ R[j] = Observed(j)
    BY AbstractMove
  <1>2. R' = R <=> Observed(j)' = Observed(j)
    BY <1>1
  <1>3. CASE Quiet(j) \/ Prepared(j)
    BY <1>2, <1>3 DEF Quiet, Prepared, Observed, Lifecycle!lifecycleVars
  <1>4. CASE Accepted(j)
    <2> Lifecycle!Accept(j)
      BY <1>1, <1>4 DEF Accepted, Observed, Lifecycle!Accept, Lifecycle!Move
    <2> QED
      BY DEF Lifecycle!LifecycleStep
  <1>5. CASE Launched(j)
    <2> Lifecycle!Launch(j)
      BY <1>1, <1>2, <1>5 DEF Launched, Observed, Lifecycle!Launch
    <2> QED
      BY DEF Lifecycle!LifecycleStep
  <1>6. CASE Refused(j)
    <2> Lifecycle!Refuse(j)
      BY <1>1, <1>6 DEF Refused, Observed, Lifecycle!Refuse, Lifecycle!Move
    <2> QED
      BY DEF Lifecycle!LifecycleStep
  <1>7. CASE Ran(j)
    <2> Lifecycle!Run(j)
      BY <1>1, <1>7 DEF Ran, Observed, Lifecycle!Run, Lifecycle!Move
    <2> QED
      BY DEF Lifecycle!LifecycleStep
  <1>8. CASE Settled(j)
    <2> Lifecycle!Settle(j)
      BY <1>1, <1>8 DEF Settled, Observed, Lifecycle!Settle, Lifecycle!Move
    <2> QED
      BY DEF Lifecycle!LifecycleStep
  <1>9. CASE Cancelled(j)
    <2> Lifecycle!Cancel(j)
      BY <1>1, <1>9 DEF Cancelled, Observed, Lifecycle!Cancel, Lifecycle!Move
    <2> QED
      BY DEF Lifecycle!LifecycleStep
  <1>10. CASE Removed(j)
    <2>1. CASE record[j].state = "dir"
      BY <1>2, <1>10, <2>1 DEF Removed, Observed, Lifecycle!lifecycleVars
    <2>2. CASE record[j].state # "dir"
      <3>1. record[j].state \in {"queued", "running"} \cup Lifecycle!Settled
        BY <1>10, <2>2
        DEF Removed, IInv, TypeOK, Record, RecordState, Terminal,
            Lifecycle!Settled
      <3>2. Lifecycle!Remove(j)
        BY <1>1, <1>10, <2>2, <3>1
        DEF Removed, Observed, Lifecycle!Remove, Lifecycle!Move
      <3> QED
        BY <3>2 DEF Lifecycle!LifecycleStep
    <2> QED
      BY <2>1, <2>2
  <1> QED
    BY <1>3, <1>4, <1>5, <1>6, <1>7, <1>8, <1>9, <1>10, RecordMoves

(* The host keeps the promises of RemoteJobLifecycle, on which the server  *)
(* side relies: accepted once, launched at most once, forward only.        *)
THEOREM HostImplementsLifecycle == Spec => ImplementsLifecycle
  <1>1. Init => Lifecycle!LifecycleInit
    BY DEF Init, NoRecord, Observed, Lifecycle!LifecycleInit
  <1>2. IInv /\ [Next]_vars =>
          [Lifecycle!LifecycleNext]_(Lifecycle!lifecycleVars)
    <2>1. ASSUME IInv, NEW j \in Jobs, Step(j)
          PROVE  [Lifecycle!LifecycleNext]_(Lifecycle!lifecycleVars)
      BY <2>1, StepSimulates DEF Lifecycle!LifecycleNext
    <2>2. UNCHANGED vars => UNCHANGED Lifecycle!lifecycleVars
      BY DEF vars, Observed, Lifecycle!lifecycleVars
    <2> QED
      BY <2>1, <2>2 DEF Next
  <1> QED
    BY <1>1, <1>2, InvariantHolds, PTL
    DEF Spec, ImplementsLifecycle, Lifecycle!LifecycleSpec

-----------------------------------------------------------------------------
(* The collector's sweep.                                                   *)

-----------------------------------------------------------------------------
(* What makes the sweep sound.                                             *)

(* The lock is held by the helper that reads the root, and by no other.    *)
LockHeld ==
    \A h \in Helpers : pass[h].step = "raw" <=> lock = h

(* A walk stays among the leaves of the shard of its pass, and counts no   *)
(* more entries than it has read.                                          *)
Walks(p) ==
    /\ p.step = "idle" <=> p.shard = None
    /\ p.step \in {"leaf", "legacy", "raw", "store"}
        => p.at \in 1 .. Len(Leaves[p.shard]) + 1
    /\ p.step \in {"idle", "rotate", "load"} => p.consumed = 0
    /\ p.step = "leaf" => p.consumed + p.iters <= IterBudget
    /\ p.step = "raw" <=> p.file # None

(* One cookie file is in use: the recovery file is made, and read, only    *)
(* while there is no canonical one, and the other way round.               *)
OneFile ==
    /\ cookie["recovery"] # Odd
    /\ cookie["recovery"] # None => cookie["canonical"] \in {Odd, None}
    /\ \A h \in Helpers :
        /\ pass[h].file = "recovery" => cookie["canonical"] \in {Odd, None}
        /\ pass[h].file = "canonical" => cookie["recovery"] = None

(* Behind a cookie nothing is left that has not been read.                 *)
ReadUpTo(f) ==
    cookie[f] \notin {Odd, None} =>
        \A i \in 1 .. cookie[f] : There(Legacy[i]) => Legacy[i] \notin owed

(* What is owed is in the root, or was removed from it.                    *)
OwedIsFlat == owed \subseteq Flat /\ \A e \in owed : entry[e] # "absent"

SweepInv ==
    /\ SweepTypeOK
    /\ LockHeld
    /\ \A h \in Helpers : Walks(pass[h])
    /\ OneFile
    /\ \A f \in Files : ReadUpTo(f)
    /\ OwedIsFlat

-----------------------------------------------------------------------------
(* The first positions of a set of positions.                              *)

LEMMA LeastExists ==
    ASSUME NEW S, S \subseteq Nat, S # {}
    PROVE  \E m \in S : \A x \in S : m <= x
  <1> DEFINE R == {ss \in Nat \X Nat : ss[1] < ss[2]}
  <1>1. IsWellFoundedOn(R, Nat)
    BY NatLessThanWellFounded DEF OpToRel
  <1>2. \A x, y \in Nat : x < y => <<x, y>> \in R
    OBVIOUS
  <1> HIDE DEF R
  <1>3. PICK m \in S : \A x \in S : ~(<<x, m>> \in R)
    BY <1>1, WFMin, Zenon
  <1>4. \A x \in S : ~(x < m)
    BY <1>2, <1>3
  <1> QED
    BY <1>4

LEMMA GreatestExists ==
    ASSUME NEW N \in Nat, NEW S, S \subseteq 0 .. N, S # {}
    PROVE  \E m \in S : \A x \in S : x <= m
  <1> DEFINE T == {N - x : x \in S}
  <1>1. T \subseteq Nat /\ T # {}
    <2>1. PICK x \in S : TRUE
      OBVIOUS
    <2>2. N - x \in T
      BY <2>1
    <2>3. \A y \in S : N - y \in Nat
      OBVIOUS
    <2>4. T \subseteq Nat
      BY <2>3
    <2> QED
      BY <2>2, <2>4
  <1>2. PICK t \in T : \A y \in T : t <= y
    <2> HIDE DEF T
    <2> QED
      BY <1>1, LeastExists
  <1>3. PICK m \in S : t = N - m
    BY <1>2
  <1>4. \A x \in S : N - x \in T
    OBVIOUS
  <1>5. ASSUME NEW x \in S PROVE x <= m
    <2>1. t <= N - x
      BY <1>2, <1>4
    <2> QED
      BY <2>1, <1>3
  <1> QED
    BY <1>5

(* A set of positions of a sequence, and each of its parts, is finite.     *)
LEMMA PositionsFinite ==
    ASSUME NEW N \in Nat, NEW is, is \subseteq 1 .. N
    PROVE  IsFiniteSet(is) /\ Cardinality(is) \in Nat
  <1>1. IsFiniteSet(1 .. N)
    BY FS_Interval
  <1> QED
    BY <1>1, FS_Subset, FS_CardinalityType

(* There are n of them at most.                                            *)
LEMMA FirstBounded ==
    ASSUME NEW N \in Nat, NEW is, is \subseteq 1 .. N, NEW n \in Nat
    PROVE  Cardinality(First(n, is)) \in 0 .. n
  <1>1. First(n, is) \subseteq is
    BY DEF First
  <1>2. First(n, is) \subseteq 1 .. N
    BY <1>1
  <1>3. Cardinality(First(n, is)) \in Nat
    BY <1>2, PositionsFinite
  <1>4. CASE First(n, is) = {}
    BY <1>4, FS_EmptySet
  <1>5. CASE First(n, is) # {}
    <2>1. First(n, is) \subseteq 0 .. N
      BY <1>2
    <2>2. PICK m \in First(n, is) : \A x \in First(n, is) : x <= m
      BY <2>1, <1>5, GreatestExists
    <2>3. First(n, is) \subseteq {j \in is : j <= m}
      BY <2>2, <1>1
    <2>4. IsFiniteSet({j \in is : j <= m}) /\ Cardinality({j \in is : j <= m}) \in Nat
      <3>1. {j \in is : j <= m} \subseteq 1 .. N
        OBVIOUS
      <3> QED
        BY <3>1, PositionsFinite
    <2>5. Cardinality(First(n, is)) <= Cardinality({j \in is : j <= m})
      BY <2>3, <2>4, FS_Subset
    <2>6. Cardinality({j \in is : j <= m}) <= n
      BY <2>2 DEF First
    <2> QED
      BY <1>3, <2>4, <2>5, <2>6
  <1> QED
    BY <1>4, <1>5

(* What precedes one of them is one of them.                               *)
LEMMA FirstIsPrefix ==
    ASSUME NEW N \in Nat, NEW is, is \subseteq 1 .. N, NEW n \in Nat,
           NEW i \in First(n, is), NEW j \in is, j <= i
    PROVE  j \in First(n, is)
  <1> DEFINE Upto(k) == {x \in is : x <= k}
  <1>1. i \in is /\ Cardinality(Upto(i)) <= n
    BY DEF First
  <1>2. Upto(j) \subseteq Upto(i)
    <2>1. i \in Nat /\ j \in Nat /\ \A x \in is : x \in Nat
      BY <1>1
    <2>2. \A x \in is : x <= j => x <= i
      BY <2>1
    <2> QED
      BY <2>2
  <1>3. Upto(i) \subseteq 1 .. N
    OBVIOUS
  <1>4. IsFiniteSet(Upto(i)) /\ Cardinality(Upto(i)) \in Nat
    BY <1>3, PositionsFinite
  <1>5. Cardinality(Upto(j)) \in Nat /\ Cardinality(Upto(j)) <= Cardinality(Upto(i))
    BY <1>2, <1>4, FS_Subset, FS_CardinalityType
  <1> HIDE DEF Upto
  <1>6. Cardinality(Upto(j)) <= n
    BY <1>1, <1>4, <1>5
  <1> QED
    BY <1>6 DEF First, Upto

(* If there are fewer, they are all.                                       *)
LEMMA FirstIsAll ==
    ASSUME NEW N \in Nat, NEW is, is \subseteq 1 .. N, NEW n \in Nat,
           Cardinality(First(n, is)) < n
    PROVE  First(n, is) = is
  <1> DEFINE F == First(n, is)
             Rest == {i \in is : i \notin First(n, is)}
             Upto(m) == {j \in is : j <= m}
  <1>1. F \subseteq is /\ F \subseteq 1 .. N
    BY DEF First
  <1>2. (Rest = {} => F = is) /\ Rest \subseteq Nat
    <2>1. Rest = {} => is \subseteq F
      OBVIOUS
    <2>2. Rest \subseteq Nat
      <3>1. \A i \in is : i \in Nat
        OBVIOUS
      <3> QED
        BY <3>1
    <2> QED
      BY <1>1, <2>1, <2>2
  <1>3. ASSUME Rest # {} PROVE FALSE
    <2>1. PICK m \in Rest : \A x \in Rest : m <= x
      <3> HIDE DEF Rest
      <3> QED
        BY <1>2, <1>3, LeastExists
    <2>2. m \in is /\ m \notin F /\ ~(Cardinality(Upto(m)) <= n)
      BY <2>1 DEF First
    <2>3. Upto(m) \subseteq F \cup {m} /\ Upto(m) \subseteq 1 .. N
      <3>1. ASSUME NEW j \in is, j <= m PROVE j \in F \cup {m}
        <4>1. CASE j \in Rest
          BY <4>1, <3>1, <2>1
        <4>2. CASE j \notin Rest
          BY <4>2, <3>1
        <4> QED
          BY <4>1, <4>2
      <3> QED
        BY <3>1
    <2>4. Cardinality(F) < n
      OBVIOUS
    <2> HIDE DEF F, Rest, Upto
    <2>5. IsFiniteSet(F) /\ Cardinality(F) \in Nat
      BY <1>1, PositionsFinite
    <2>6. IsFiniteSet(F \cup {m}) /\ Cardinality(F \cup {m}) = Cardinality(F) + 1
      BY <2>2, <2>5, FS_AddElement
    <2>7. Cardinality(Upto(m)) <= Cardinality(F \cup {m})
      BY <2>3, <2>6, FS_Subset
    <2>8. Cardinality(Upto(m)) \in Nat
      BY <2>3, PositionsFinite
    <2> QED
      BY <2>2, <2>4, <2>5, <2>6, <2>7, <2>8
  <1> QED
    BY <1>2, <1>3

-----------------------------------------------------------------------------
(* Processing entries.                                                     *)

(* The entries of a directory are entries.                                 *)
LEMMA DirectoriesTyped ==
    /\ \A s \in Shard : Leaves[s] \in Seq(DOMAIN Content) /\ Len(Leaves[s]) \in Nat
    /\ \A l \in DOMAIN Content : Content[l] \in Seq(Entries)
    /\ Legacy \in Seq(Entries) /\ Len(Legacy) \in Nat
    /\ DOMAIN Legacy = 1 .. Len(Legacy)
    /\ \A s \in Shard : DOMAIN Leaves[s] = 1 .. Len(Leaves[s])
  BY SweepAssumption DEF Shard

(* Processing makes jobs "gone" and nothing else of any entry, and does no *)
(* more removals than the pass has left.                                   *)
LEMMA Processed ==
    ASSUME SweepTypeOK, NEW h \in Helpers, NEW dir \in Seq(Entries),
           NEW is, is \subseteq DOMAIN dir
    PROVE  /\ Process(h, dir, is) =>
                /\ entry' \in [Entries -> {"absent", "kept", "due", "gone"}]
                /\ \A e \in Entries : entry'[e] \in {entry[e], "gone"}
           /\ pass[h].scanned + Cardinality(Tried(h, dir, is))
                \in 0 .. RemovalBudget
  <1> DEFINE due == {i \in is : Due(dir[i])}
             left == RemovalBudget - pass[h].scanned
  <1>1. RemovalBudget \in Nat /\ pass[h].scanned \in 0 .. RemovalBudget
    BY SweepAssumption DEF SweepTypeOK, Pass
  <1>2. left \in Nat
    BY <1>1
  <1>3. due \subseteq 1 .. Len(dir) /\ Len(dir) \in Nat
    OBVIOUS
  <1>4. Tried(h, dir, is) = First(left, due)
    BY DEF Tried
  <1>5. left = RemovalBudget - pass[h].scanned
    OBVIOUS
  <1>6. ASSUME Process(h, dir, is)
        PROVE  /\ entry' \in [Entries -> {"absent", "kept", "due", "gone"}]
               /\ \A e \in Entries : entry'[e] \in {entry[e], "gone"}
    BY <1>6 DEF Process, SweepTypeOK
  <1> HIDE DEF due, left
  <1>7. Cardinality(First(left, due)) \in 0 .. left
    BY <1>2, <1>3, FirstBounded
  <1>8. pass[h].scanned + Cardinality(Tried(h, dir, is)) \in 0 .. RemovalBudget
    BY <1>1, <1>4, <1>5, <1>7
  <1> QED
    BY <1>6, <1>8

-----------------------------------------------------------------------------
(* A step that only concerns one pass.                                     *)

(* The state that a pass is left in replaces the pass, and no other.       *)
LEMMA PassReplaced ==
    ASSUME SweepInv, NEW h \in Helpers, NEW p \in Pass, Walks(p),
           pass' = [pass EXCEPT ![h] = p]
    PROVE  /\ pass' \in [Helpers -> Pass]
           /\ \A g \in Helpers : Walks(pass'[g])
           /\ pass'[h] = p
           /\ \A g \in Helpers \ {h} : pass'[g] = pass[g]
  <1>1. pass \in [Helpers -> Pass]
    BY DEF SweepInv, SweepTypeOK
  <1>2. /\ pass' \in [Helpers -> Pass]
        /\ pass'[h] = p
        /\ \A g \in Helpers \ {h} : pass'[g] = pass[g]
    BY <1>1
  <1>3. ASSUME NEW g \in Helpers PROVE Walks(pass'[g])
    <2>1. CASE g = h
      BY <2>1, <1>2
    <2>2. CASE g # h
      <3>1. pass'[g] = pass[g] /\ Walks(pass[g])
        BY <2>2, <1>2 DEF SweepInv
      <3> QED
        BY <3>1
    <2> QED
      BY <2>1, <2>2
  <1> QED
    BY <1>2, <1>3

(* A step outside the legacy segment disturbs nothing that the segment     *)
(* relies on: entries are removed at most, and the helper has no part in   *)
(* the segment before or after it.                                         *)
LEMMA Elsewhere ==
    ASSUME SweepInv, NEW h \in Helpers, NEW p \in Pass, Walks(p),
           pass' = [pass EXCEPT ![h] = p],
           pass[h].step # "raw", p.step # "raw",
           \A e \in Entries : entry'[e] \in {entry[e], "gone"},
           UNCHANGED <<cookie, lock, owed>>
    PROVE  /\ LockHeld' /\ OneFile' /\ OwedIsFlat'
           /\ \A g \in Helpers : Walks(pass[g])'
           /\ \A f \in Files : ReadUpTo(f)'
  <1>1. /\ \A g \in Helpers : Walks(pass'[g])
        /\ pass'[h] = p
        /\ \A g \in Helpers \ {h} : pass'[g] = pass[g]
    BY PassReplaced
  <1>2. p.file = None /\ pass[h].file = None
    BY DEF SweepInv, Walks
  <1>3. LockHeld'
    BY <1>1 DEF SweepInv, LockHeld
  <1>4. \A g \in Helpers : pass'[g].file = pass[g].file
    BY <1>1, <1>2
  <1>5. OneFile'
    BY <1>4 DEF SweepInv, OneFile
  <1>6. owed \subseteq Entries /\ \A i \in 1 .. Len(Legacy) : Legacy[i] \in Entries
    BY DirectoriesTyped DEF SweepInv, SweepTypeOK
  <1>7. OwedIsFlat'
    BY <1>6 DEF SweepInv, OwedIsFlat
  <1>8. \A e \in Entries : There(e)' => There(e)
    BY DEF There
  <1>9. ASSUME NEW f \in Files PROVE ReadUpTo(f)'
    <2>1. ReadUpTo(f) /\ cookie[f] \in 1 .. Len(Legacy) \cup {Odd, None}
      BY DEF SweepInv, SweepTypeOK
    <2>2. SUFFICES ASSUME cookie[f] \notin {Odd, None}, NEW i \in 1 .. cookie[f],
                          There(Legacy[i])'
                   PROVE  Legacy[i] \notin owed
      BY DEF ReadUpTo
    <2>3. i \in 1 .. Len(Legacy)
      BY <2>1, <2>2, DirectoriesTyped
    <2>4. There(Legacy[i])
      BY <2>2, <2>3, <1>6, <1>8
    <2> QED
      BY <2>1, <2>2, <2>4 DEF ReadUpTo
  <1> QED
    BY <1>1, <1>3, <1>5, <1>7, <1>9

CursorsTyped ==
    /\ cursor \in [Shard -> [at : Nat, o : 0 .. IterBudget] \cup {None}]
    /\ \A s \in Shard : cursor[s] # None => cursor[s].at \in DOMAIN Leaves[s]

(* So the invariant survives if the variables that such a step changes     *)
(* keep their types.                                                       *)
LEMMA PrivateStep ==
    ASSUME SweepInv, NEW h \in Helpers, NEW p \in Pass, Walks(p),
           pass' = [pass EXCEPT ![h] = p],
           pass[h].step # "raw", p.step # "raw",
           entry' \in [Entries -> {"absent", "kept", "due", "gone"}],
           \A e \in Entries : entry'[e] \in {entry[e], "gone"},
           UNCHANGED <<cookie, lock, owed>>,
           rotation' \in 1 .. Len(Shards), CursorsTyped',
           faults' \in 0 .. MaxFaults
    PROVE  SweepInv'
  <1>1. /\ LockHeld' /\ OneFile' /\ OwedIsFlat'
        /\ \A g \in Helpers : Walks(pass[g])'
        /\ \A f \in Files : ReadUpTo(f)'
    BY Elsewhere
  <1>2. pass' \in [Helpers -> Pass]
    BY PassReplaced
  <1>3. SweepTypeOK'
    BY <1>2 DEF SweepInv, SweepTypeOK, CursorsTyped
  <1> QED
    BY <1>1, <1>3 DEF SweepInv

(* The same when the entries and the shared variables are left alone.      *)
LEMMA QuietStep ==
    ASSUME SweepInv, NEW h \in Helpers, NEW p \in Pass, Walks(p),
           pass' = [pass EXCEPT ![h] = p],
           pass[h].step # "raw", p.step # "raw",
           UNCHANGED <<entry, cookie, lock, owed>>,
           rotation' \in 1 .. Len(Shards), CursorsTyped',
           faults' \in 0 .. MaxFaults
    PROVE  SweepInv'
  <1>1. /\ entry' \in [Entries -> {"absent", "kept", "due", "gone"}]
        /\ \A e \in Entries : entry'[e] \in {entry[e], "gone"}
    BY DEF SweepInv, SweepTypeOK
  <1> QED
    BY <1>1, PrivateStep

-----------------------------------------------------------------------------
(* The invariant holds at first.                                           *)

(* A helper that does nothing has no part in anything.                     *)
LEMMA IdleWalks ==
    Idle \in Pass /\ Idle.step = "idle" /\ Idle.file = None /\ Walks(Idle)
  <1>1. IterBudget \in Nat /\ VisitBudget \in Nat /\ RemovalBudget \in Nat
    BY SweepAssumption
  <1>2. Idle \in Pass
    BY <1>1 DEF Idle, Pass
  <1>3. /\ Idle.step = "idle" /\ Idle.shard = None
        /\ Idle.file = None /\ Idle.consumed = 0
    BY DEF Idle
  <1>4. Walks(Idle)
    BY <1>3 DEF Walks
  <1> QED
    BY <1>2, <1>3, <1>4

LEMMA InitSweepInv == SweepInit => SweepInv
  <1> SUFFICES ASSUME SweepInit PROVE SweepInv
    OBVIOUS
  <1>1. IterBudget \in Nat /\ VisitBudget \in Nat /\ RemovalBudget \in Nat
        /\ MaxFaults \in Nat /\ Odd # None /\ None \notin Helpers
    BY SweepAssumption
  <1>2. Len(Shards) \in Nat \ {0}
    BY SweepAssumption
  <1>3. Idle \in Pass /\ Idle.step = "idle" /\ Idle.file = None /\ Walks(Idle)
    BY IdleWalks
  <1>4. Flat \subseteq Entries
    BY DirectoriesTyped DEF Flat
  <1>5. SweepTypeOK
    <2>1. entry \in [Entries -> {"absent", "kept", "due", "gone"}]
      BY DEF SweepInit
    <2>2. rotation \in 1 .. Len(Shards)
      BY <1>2 DEF SweepInit
    <2> QED
      BY <1>1, <1>3, <1>4, <2>1, <2>2 DEF SweepInit, SweepTypeOK
  <1>6. LockHeld /\ OneFile
    BY <1>1, <1>3 DEF SweepInit, LockHeld, OneFile, Files
  <1>7. \A f \in Files : ReadUpTo(f)
    BY DEF SweepInit, ReadUpTo
  <1>8. OwedIsFlat
    BY <1>4 DEF SweepInit, OwedIsFlat
  <1>9. \A h \in Helpers : Walks(pass[h])
    BY <1>3 DEF SweepInit
  <1> QED
    BY <1>5, <1>6, <1>7, <1>8, <1>9 DEF SweepInv

-----------------------------------------------------------------------------
(* The beginning of a pass.                                                *)

LEMMA InvFacts ==
    ASSUME SweepInv, NEW h \in Helpers
    PROVE  /\ pass \in [Helpers -> Pass] /\ pass[h] \in Pass /\ Walks(pass[h])
           /\ rotation \in 1 .. Len(Shards) /\ CursorsTyped
           /\ faults \in 0 .. MaxFaults
           /\ IterBudget \in Nat /\ VisitBudget \in Nat
           /\ RemovalBudget \in Nat /\ MaxFaults \in Nat
           /\ Len(Shards) \in Nat \ {0}
           /\ Odd # None /\ None \notin Shard \cup Helpers
  <1>1. /\ pass \in [Helpers -> Pass] /\ rotation \in 1 .. Len(Shards)
        /\ CursorsTyped /\ faults \in 0 .. MaxFaults
    BY DEF SweepInv, SweepTypeOK, CursorsTyped
  <1>2. Walks(pass[h])
    BY DEF SweepInv
  <1>3. /\ IterBudget \in Nat /\ VisitBudget \in Nat
        /\ RemovalBudget \in Nat /\ MaxFaults \in Nat
        /\ Odd # None /\ None \notin Shard \cup Helpers
    BY SweepAssumption DEF Shard
  <1>4. Len(Shards) \in Nat \ {0}
    BY SweepAssumption
  <1> QED
    BY <1>1, <1>2, <1>3, <1>4

LEMMA BeginKeeps ==
    ASSUME SweepInv, NEW h \in Helpers, Begin(h)
    PROVE  SweepInv'
  <1> DEFINE E == [pass[h] EXCEPT !.step = "rotate", !.shard = Shards[rotation]]
  <1>1. pass' = [pass EXCEPT ![h] = E]
    BY InvFacts DEF Begin
  <1>2. Shards[rotation] \in Shard /\ Shards[rotation] # None
    BY InvFacts, SweepAssumption DEF Shard
  <1>3. E \in Pass
    BY <1>2, InvFacts DEF Pass
  <1>4. pass[h].step = "idle"
    BY DEF Begin
  <1>5. E.step = "rotate" /\ E.shard # None /\ E.file = pass[h].file
        /\ E.consumed = pass[h].consumed
    BY <1>2, InvFacts DEF Pass
  <1>6. UNCHANGED <<entry, cookie, lock, owed, rotation, cursor, faults>>
    BY DEF Begin, shared
  <1>7. rotation' \in 1 .. Len(Shards) /\ CursorsTyped' /\ faults' \in 0 .. MaxFaults
    BY <1>6, InvFacts DEF CursorsTyped
  <1> HIDE DEF E
  <1>8. Walks(E)
    BY <1>4, <1>5, InvFacts DEF Walks
  <1> QED
    BY <1>1, <1>3, <1>4, <1>5, <1>6, <1>7, <1>8, QuietStep

LEMMA RotateKeeps ==
    ASSUME SweepInv, NEW h \in Helpers, Rotate(h) \/ RotateFails(h)
    PROVE  SweepInv'
  <1> DEFINE E == [pass[h] EXCEPT !.step = "load"]
  <1>1. pass' = [pass EXCEPT ![h] = E]
    BY InvFacts DEF Rotate, RotateFails
  <1>2. E \in Pass
    BY InvFacts DEF Pass
  <1>3. pass[h].step = "rotate"
    BY DEF Rotate, RotateFails
  <1>4. /\ E.step = "load" /\ E.shard = pass[h].shard
        /\ E.file = pass[h].file /\ E.consumed = pass[h].consumed
    BY InvFacts DEF Pass
  <1>5. UNCHANGED <<entry, cookie, lock, owed, cursor>>
    BY DEF Rotate, RotateFails, shared
  <1>6. rotation' \in 1 .. Len(Shards)
    <2>1. CASE Rotate(h)
      <3>1. PICK i \in 1 .. Len(Shards) : rotation' = (i % Len(Shards)) + 1
        BY <2>1 DEF Rotate, NextShard
      <3>2. i % Len(Shards) \in 0 .. Len(Shards) - 1
        BY InvFacts
      <3> QED
        BY <3>1, <3>2, InvFacts
    <2>2. CASE RotateFails(h)
      BY <2>2, InvFacts DEF RotateFails, shared
    <2> QED
      BY <2>1, <2>2
  <1>7. faults' \in 0 .. MaxFaults
    BY InvFacts DEF Rotate, RotateFails
  <1>8. CursorsTyped'
    BY <1>5, InvFacts DEF CursorsTyped
  <1> HIDE DEF E
  <1>9. Walks(E)
    BY <1>3, <1>4, InvFacts DEF Walks
  <1> QED
    BY <1>1, <1>2, <1>3, <1>4, <1>5, <1>6, <1>7, <1>8, <1>9, QuietStep

(* The walk begins at the first leaf or where the cursor says.             *)
LEMMA LoadCursorKeeps ==
    ASSUME SweepInv, NEW h \in Helpers, LoadCursor(h)
    PROVE  SweepInv'
  <1> DEFINE c == cursor[pass[h].shard]
             at == IF c = None THEN 1 ELSE c.at
             skip == IF c = None THEN 0 ELSE c.o
             E == [pass[h] EXCEPT !.step = "leaf", !.iters = IterBudget,
                                  !.at = at, !.skip = skip]
  <1>1. pass' = [pass EXCEPT ![h] = E]
    BY InvFacts DEF LoadCursor
  <1>2. pass[h].step = "load"
    BY DEF LoadCursor
  <1>3. pass[h].shard \in Shard /\ pass[h].file = None /\ pass[h].consumed = 0
    BY <1>2, InvFacts DEF Walks, Pass
  <1>4. Len(Leaves[pass[h].shard]) \in Nat
        /\ DOMAIN Leaves[pass[h].shard] = 1 .. Len(Leaves[pass[h].shard])
    BY <1>3, DirectoriesTyped
  <1>5. c # None => /\ c \in [at : Nat, o : 0 .. IterBudget]
                    /\ c.at \in DOMAIN Leaves[pass[h].shard]
    BY <1>3, InvFacts DEF CursorsTyped
  <1>6. at \in 1 .. Len(Leaves[pass[h].shard]) + 1 /\ skip \in 0 .. IterBudget
    BY <1>4, <1>5, InvFacts
  <1>7. UNCHANGED <<entry, cookie, lock, owed, rotation, cursor, faults>>
    BY DEF LoadCursor, shared
  <1> HIDE DEF at, skip
  <1>8. at \in Nat
    BY <1>4, <1>6
  <1>9. E \in Pass
    <2>1. IterBudget \in 0 .. IterBudget /\ pass[h] \in Pass
      BY InvFacts
    <2> QED
      BY <1>6, <1>8, <2>1 DEF Pass
  <1>10. /\ E.step = "leaf" /\ E.shard = pass[h].shard /\ E.at = at
         /\ E.file = pass[h].file /\ E.consumed = pass[h].consumed
         /\ E.iters = IterBudget
    BY InvFacts DEF Pass
  <1>11. rotation' \in 1 .. Len(Shards) /\ CursorsTyped' /\ faults' \in 0 .. MaxFaults
    BY <1>7, InvFacts DEF CursorsTyped
  <1> HIDE DEF E
  <1>12. Walks(E)
    BY <1>2, <1>3, <1>6, <1>10, InvFacts DEF Walks
  <1> QED
    BY <1>1, <1>2, <1>7, <1>9, <1>10, <1>11, <1>12, QuietStep

-----------------------------------------------------------------------------
(* The walk.                                                               *)

(* What a pass does at a leaf: the counters stay within their bounds.      *)
LEMMA LeafFacts ==
    ASSUME SweepInv, NEW h \in Helpers, AtLeaf(h),
           NEW k \in 0 .. IterBudget, Reaches(h, k)
    PROVE  /\ pass[h].step = "leaf" /\ pass[h].shard \in Shard
           /\ pass[h].file = None
           /\ pass[h].at \in 1 .. Len(Leaves[pass[h].shard])
           /\ Len(Leaves[pass[h].shard]) \in Nat
           /\ k <= pass[h].iters
           /\ Visited(h, k) \in 0 .. VisitBudget
           /\ Scanned(h, k) \in 0 .. RemovalBudget
           /\ pass[h].consumed + k \in 0 .. IterBudget
           /\ ProcessLeaf(h, k) =>
                /\ entry' \in [Entries -> {"absent", "kept", "due", "gone"}]
                /\ \A e \in Entries : entry'[e] \in {entry[e], "gone"}
                /\ UNCHANGED <<cookie, lock, owed, rotation, cursor, faults>>
                /\ rotation' \in 1 .. Len(Shards) /\ CursorsTyped'
                /\ faults' \in 0 .. MaxFaults
  <1>1. /\ pass[h].step = "leaf" /\ pass[h].shard \in Shard /\ pass[h].file = None
        /\ pass[h].consumed + pass[h].iters <= IterBudget
    BY InvFacts DEF AtLeaf, Walks, Pass
  <1>2. /\ pass[h].at \in 1 .. Len(Leaves[pass[h].shard])
        /\ Len(Leaves[pass[h].shard]) \in Nat
    BY <1>1, DirectoriesTyped DEF AtLeaf, Walk
  <1>3. Here(h) \in DOMAIN Content
    <2>1. Leaves[pass[h].shard] \in Seq(DOMAIN Content)
      BY <1>1, DirectoriesTyped
    <2> QED
      BY <1>2, <2>1 DEF Here, Walk
  <1> DEFINE dir == Content[Here(h)]
  <1>4. dir \in Seq(Entries)
    BY <1>3, DirectoriesTyped
  <1>5. NewJobs(h, k) \subseteq DOMAIN dir
    BY DEF NewJobs, First, Listing, Present
  <1>6. /\ k <= pass[h].iters
        /\ Cardinality(NewJobs(h, k)) <= VisitBudget - pass[h].visited
    BY DEF Reaches, Affords
  <1>7. /\ pass[h].iters \in 0 .. IterBudget /\ pass[h].consumed \in 0 .. IterBudget
        /\ pass[h].visited \in 0 .. VisitBudget
    BY InvFacts DEF Pass
  <1>8. Cardinality(NewJobs(h, k)) \in Nat
    <2>1. DOMAIN dir = 1 .. Len(dir) /\ Len(dir) \in Nat
      BY <1>4
    <2> HIDE DEF dir
    <2> QED
      BY <1>5, <2>1, PositionsFinite
  <1>9. Visited(h, k) \in 0 .. VisitBudget
    BY <1>6, <1>7, <1>8, InvFacts, SMTT(30) DEF Visited
  <1>10. pass[h].consumed + k \in 0 .. IterBudget
    BY <1>1, <1>6, <1>7, InvFacts, SMTT(30)
  <1>11. Scanned(h, k) \in 0 .. RemovalBudget
    <2>1. SweepTypeOK
      BY DEF SweepInv
    <2> HIDE DEF dir
    <2>2. pass[h].scanned + Cardinality(Tried(h, dir, NewJobs(h, k))) \in 0 .. RemovalBudget
      BY <1>4, <1>5, <2>1, Processed
    <2> QED
      BY <2>2 DEF Scanned, dir
  <1>12. ASSUME ProcessLeaf(h, k)
         PROVE  /\ entry' \in [Entries -> {"absent", "kept", "due", "gone"}]
                /\ \A e \in Entries : entry'[e] \in {entry[e], "gone"}
                /\ UNCHANGED <<cookie, lock, owed, rotation, cursor, faults>>
                /\ rotation' \in 1 .. Len(Shards) /\ CursorsTyped'
                /\ faults' \in 0 .. MaxFaults
    <2>1. Process(h, dir, NewJobs(h, k)) /\ UNCHANGED <<shared, faults>>
      BY <1>12 DEF ProcessLeaf
    <2>2. SweepTypeOK
      BY DEF SweepInv
    <2>3. UNCHANGED <<cookie, lock, owed, rotation, cursor, faults>>
      BY <2>1 DEF shared
    <2>4. rotation' \in 1 .. Len(Shards) /\ CursorsTyped' /\ faults' \in 0 .. MaxFaults
      BY <2>3, InvFacts DEF CursorsTyped
    <2> HIDE DEF dir
    <2> QED
      BY <1>4, <1>5, <2>1, <2>2, <2>3, <2>4, Processed
  <1> QED
    BY <1>1, <1>2, <1>6, <1>9, <1>10, <1>11, <1>12

(* The walk stops: whatever cursor it leaves, the bounds hold.             *)
LEMMA StoppedKeeps ==
    ASSUME SweepInv, NEW h \in Helpers, pass[h].step = "leaf",
           NEW consumed \in 0 .. IterBudget, NEW scanned \in 0 .. RemovalBudget,
           pass' = [pass EXCEPT ![h] = Stopped(pass[h], consumed, scanned)],
           entry' \in [Entries -> {"absent", "kept", "due", "gone"}],
           \A e \in Entries : entry'[e] \in {entry[e], "gone"},
           UNCHANGED <<cookie, lock, owed, rotation, cursor, faults>>
    PROVE  SweepInv'
  <1> DEFINE E == Stopped(pass[h], consumed, scanned)
  <1>1. E \in Pass
    <2>1. 0 \in 0 .. IterBudget /\ 0 \in 0 .. VisitBudget
      BY InvFacts
    <2>2. pass[h] \in Pass
      BY InvFacts
    <2> QED
      BY <2>1, <2>2 DEF Stopped, Pass
  <1>2. /\ E.step = "legacy" /\ E.shard = pass[h].shard
        /\ E.file = pass[h].file /\ E.at = pass[h].at
    BY InvFacts DEF Stopped, Pass
  <1>3. rotation' \in 1 .. Len(Shards) /\ CursorsTyped' /\ faults' \in 0 .. MaxFaults
    BY InvFacts DEF CursorsTyped
  <1>4. pass' = [pass EXCEPT ![h] = E]
    OBVIOUS
  <1> HIDE DEF E
  <1>5. Walks(E)
    BY <1>2, InvFacts DEF Walks
  <1> QED
    BY <1>1, <1>2, <1>3, <1>4, <1>5, PrivateStep

LEMMA LeafDoneKeeps ==
    ASSUME SweepInv, NEW h \in Helpers, NEW k \in 0 .. IterBudget, LeafDone(h, k)
    PROVE  SweepInv'
  <1> DEFINE visited == Visited(h, k)
             scanned == Scanned(h, k)
             at == pass[h].at + 1
             iters == pass[h].iters - k
             E == [pass[h] EXCEPT !.at = at, !.skip = 0, !.consumed = 0,
                                  !.visited = visited, !.scanned = scanned,
                                  !.iters = iters]
  <1>1. AtLeaf(h) /\ Reaches(h, k) /\ ProcessLeaf(h, k)
    BY DEF LeafDone
  <1>2. pass' = [pass EXCEPT ![h] = E]
    BY InvFacts DEF LeafDone
  <1>3. /\ pass[h].step = "leaf" /\ pass[h].file = None /\ pass[h].shard \in Shard
        /\ pass[h].at \in 1 .. Len(Leaves[pass[h].shard])
        /\ Len(Leaves[pass[h].shard]) \in Nat
        /\ k <= pass[h].iters /\ visited \in 0 .. VisitBudget
        /\ scanned \in 0 .. RemovalBudget
    BY <1>1, LeafFacts
  <1>4. /\ entry' \in [Entries -> {"absent", "kept", "due", "gone"}]
        /\ \A e \in Entries : entry'[e] \in {entry[e], "gone"}
        /\ UNCHANGED <<cookie, lock, owed, rotation, cursor, faults>>
        /\ rotation' \in 1 .. Len(Shards) /\ CursorsTyped'
        /\ faults' \in 0 .. MaxFaults
    BY <1>1, LeafFacts
  <1>5. pass[h] \in Pass /\ IterBudget \in Nat
    BY InvFacts
  <1>6. iters \in 0 .. IterBudget /\ at \in 1 .. Len(Leaves[pass[h].shard]) + 1
        /\ at \in Nat /\ 0 \in 0 .. IterBudget
    <2>1. pass[h].iters \in 0 .. IterBudget
      BY <1>5 DEF Pass
    <2>2. iters \in 0 .. IterBudget /\ 0 \in 0 .. IterBudget
      BY <1>3, <1>5, <2>1
    <2> QED
      BY <1>3, <2>2
  <1> HIDE DEF visited, scanned, at, iters
  <1>7. E \in Pass
    BY <1>3, <1>5, <1>6 DEF Pass
  <1>8. /\ E.step = "leaf" /\ E.shard = pass[h].shard /\ E.file = None
        /\ E.at = at /\ E.consumed = 0 /\ E.iters = iters
    BY <1>3, <1>5 DEF Pass
  <1> HIDE DEF E
  <1>9. Walks(E)
    BY <1>3, <1>6, <1>8, InvFacts DEF Walks
  <1> QED
    BY <1>2, <1>3, <1>4, <1>7, <1>8, <1>9, PrivateStep

LEMMA LeafDoneAtLimitKeeps ==
    ASSUME SweepInv, NEW h \in Helpers, NEW k \in 0 .. IterBudget,
           LeafDoneAtLimit(h, k) \/ StopWithin(h, k)
    PROVE  SweepInv'
  <1>1. AtLeaf(h) /\ Reaches(h, k) /\ ProcessLeaf(h, k)
    BY DEF LeafDoneAtLimit, StopWithin
  <1>2. /\ pass[h].step = "leaf" /\ Scanned(h, k) \in 0 .. RemovalBudget
        /\ pass[h].consumed + k \in 0 .. IterBudget
        /\ entry' \in [Entries -> {"absent", "kept", "due", "gone"}]
        /\ \A e \in Entries : entry'[e] \in {entry[e], "gone"}
        /\ UNCHANGED <<cookie, lock, owed, rotation, cursor, faults>>
    BY <1>1, LeafFacts
  <1>3. PICK consumed \in 0 .. IterBudget :
          pass' = [pass EXCEPT ![h] = Stopped(pass[h], consumed, Scanned(h, k))]
    <2>1. CASE LeafDoneAtLimit(h, k)
      <3>1. 0 \in 0 .. IterBudget
        BY InvFacts
      <3>2. pass' = [pass EXCEPT ![h] = Stopped(pass[h], 0, Scanned(h, k))]
        BY <2>1 DEF LeafDoneAtLimit
      <3> QED
        BY <3>1, <3>2
    <2>2. CASE StopWithin(h, k)
      <3>1. pass' = [pass EXCEPT ![h] =
                       Stopped(pass[h], pass[h].consumed + k, Scanned(h, k))]
        BY <2>2 DEF StopWithin, Counted
      <3> QED
        BY <1>2, <3>1
    <2> QED
      BY <2>1, <2>2
  <1> QED
    BY <1>2, <1>3, StoppedKeeps

(* The next bucket is further on among the leaves of the shard.            *)
LEMMA NextBucketIsAhead ==
    ASSUME NEW h \in Helpers, NEW N \in Nat, Len(Walk(h)) = N,
           pass[h].at \in 1 .. N
    PROVE  NextBucket(h) \in 1 .. N + 1
  <1> DEFINE later == {i \in pass[h].at + 1 .. Len(Walk(h)) :
                         Bucket[Walk(h)[i]] # Bucket[Here(h)]}
             S == later \cup {Len(Walk(h)) + 1}
  <1>1. S \subseteq 1 .. N + 1 /\ S # {}
    <2>1. \A i \in pass[h].at + 1 .. N : i \in 1 .. N + 1
      OBVIOUS
    <2> QED
      BY <2>1
  <1>2. NextBucket(h) = CHOOSE x \in S : \A y \in S : x =< y
    BY DEF NextBucket, Min
  <1> HIDE DEF S
  <1>3. S \subseteq Nat
    BY <1>1
  <1>4. PICK m \in S : \A x \in S : m <= x
    BY <1>1, <1>3, LeastExists
  <1>5. NextBucket(h) \in S
    BY <1>2, <1>4
  <1> QED
    BY <1>1, <1>5

LEMMA ReadsExhaustedKeeps ==
    ASSUME SweepInv, NEW h \in Helpers, NEW k \in 0 .. IterBudget,
           ReadsExhausted(h, k)
    PROVE  SweepInv'
  <1> DEFINE visited == Visited(h, k)
             scanned == Scanned(h, k)
             consumed == pass[h].consumed + k
             at == NextBucket(h)
             E == [pass[h] EXCEPT !.at = at, !.skip = 0, !.consumed = consumed,
                                  !.visited = visited, !.scanned = scanned,
                                  !.iters = 0]
  <1>1. AtLeaf(h) /\ Reaches(h, k) /\ ProcessLeaf(h, k)
    BY DEF ReadsExhausted
  <1>2. \/ pass' = [pass EXCEPT ![h] = E]
        \/ pass' = [pass EXCEPT ![h] = Stopped(pass[h], consumed, scanned)]
    BY InvFacts DEF ReadsExhausted
  <1>3. /\ pass[h].step = "leaf" /\ pass[h].file = None /\ pass[h].shard \in Shard
        /\ pass[h].at \in 1 .. Len(Leaves[pass[h].shard])
        /\ Len(Leaves[pass[h].shard]) \in Nat
        /\ visited \in 0 .. VisitBudget /\ scanned \in 0 .. RemovalBudget
        /\ consumed \in 0 .. IterBudget
    BY <1>1, LeafFacts
  <1>4. /\ entry' \in [Entries -> {"absent", "kept", "due", "gone"}]
        /\ \A e \in Entries : entry'[e] \in {entry[e], "gone"}
        /\ UNCHANGED <<cookie, lock, owed, rotation, cursor, faults>>
        /\ rotation' \in 1 .. Len(Shards) /\ CursorsTyped'
        /\ faults' \in 0 .. MaxFaults
    BY <1>1, LeafFacts
  <1>5. pass[h] \in Pass /\ IterBudget \in Nat
    BY InvFacts
  <1>6. at \in 1 .. Len(Leaves[pass[h].shard]) + 1 /\ at \in Nat
        /\ 0 \in 0 .. IterBudget
    <2>1. Len(Walk(h)) = Len(Leaves[pass[h].shard])
      BY DEF Walk
    <2> HIDE DEF at
    <2>2. NextBucket(h) \in 1 .. Len(Leaves[pass[h].shard]) + 1
      BY <1>3, <2>1, NextBucketIsAhead
    <2> QED
      BY <1>3, <1>5, <2>2 DEF at
  <1> HIDE DEF visited, scanned, consumed, at
  <1>7. CASE pass' = [pass EXCEPT ![h] = E]
    <2>1. E \in Pass
      BY <1>3, <1>5, <1>6 DEF Pass
    <2>2. /\ E.step = "leaf" /\ E.shard = pass[h].shard /\ E.file = None
          /\ E.at = at /\ E.consumed = consumed /\ E.iters = 0
      BY <1>3, <1>5 DEF Pass
    <2> HIDE DEF E
    <2>3. E.consumed + E.iters <= IterBudget
      BY <1>3, <1>5, <2>2
    <2>4. Walks(E)
      BY <1>3, <1>6, <2>2, <2>3, InvFacts DEF Walks
    <2> QED
      BY <1>3, <1>4, <1>7, <2>1, <2>2, <2>4, PrivateStep
  <1>8. CASE pass' = [pass EXCEPT ![h] = Stopped(pass[h], consumed, scanned)]
    BY <1>3, <1>4, <1>8, StoppedKeeps
  <1> QED
    BY <1>2, <1>7, <1>8

LEMMA LeavesDoneKeeps ==
    ASSUME SweepInv, NEW h \in Helpers, LeavesDone(h)
    PROVE  SweepInv'
  <1>1. pass[h].step = "leaf"
    BY DEF LeavesDone
  <1>2. pass' = [pass EXCEPT ![h] =
                   Stopped(pass[h], pass[h].consumed, pass[h].scanned)]
    BY DEF LeavesDone
  <1>3. UNCHANGED <<entry, cookie, lock, owed, rotation, cursor, faults>>
    BY DEF LeavesDone, shared
  <1>4. pass[h].consumed \in 0 .. IterBudget /\ pass[h].scanned \in 0 .. RemovalBudget
    BY InvFacts DEF Pass
  <1>5. /\ entry' \in [Entries -> {"absent", "kept", "due", "gone"}]
        /\ \A e \in Entries : entry'[e] \in {entry[e], "gone"}
    BY <1>3 DEF SweepInv, SweepTypeOK
  <1> QED
    BY <1>1, <1>2, <1>3, <1>4, <1>5, StoppedKeeps

(* The cursor that a pass stores names the leaf that it has come to.       *)
LEMMA StoreCursorKeeps ==
    ASSUME SweepInv, NEW h \in Helpers, StoreCursor(h)
    PROVE  SweepInv'
  <1> DEFINE p == pass[h]
             value == IF p.at = Len(Walk(h)) + 1 THEN None
                      ELSE [at |-> p.at, o |-> p.consumed]
  <1>1. /\ p.step = "store" /\ cursor' = [cursor EXCEPT ![p.shard] = value]
        /\ pass' = [pass EXCEPT ![h] = Idle]
        /\ UNCHANGED <<entry, rotation, cookie, lock, owed, faults>>
    BY DEF StoreCursor
  <1>2. /\ p.shard \in Shard /\ p.at \in 1 .. Len(Leaves[p.shard]) + 1
        /\ p.at \in Nat /\ p.consumed \in 0 .. IterBudget
    BY <1>1, InvFacts DEF Walks, Pass
  <1>3. Len(Leaves[p.shard]) \in Nat /\ DOMAIN Leaves[p.shard] = 1 .. Len(Leaves[p.shard])
    BY <1>2, DirectoriesTyped
  <1>4. value # None => value.at \in DOMAIN Leaves[p.shard]
    BY <1>2, <1>3 DEF Walk
  <1>5. value \in [at : Nat, o : 0 .. IterBudget] \cup {None}
    BY <1>2
  <1> HIDE DEF value, p
  <1>6. CursorsTyped'
    BY <1>1, <1>2, <1>4, <1>5, InvFacts DEF CursorsTyped
  <1>7. Idle \in Pass /\ Idle.step = "idle" /\ Walks(Idle)
    BY IdleWalks
  <1>8. rotation' \in 1 .. Len(Shards) /\ faults' \in 0 .. MaxFaults
    BY <1>1, InvFacts
  <1>9. pass[h].step # "raw"
    BY <1>1 DEF p
  <1>10. Idle.step # "raw"
    BY <1>7
  <1> QED
    BY <1>1, <1>6, <1>7, <1>8, <1>9, <1>10, QuietStep

-----------------------------------------------------------------------------
(* The legacy segment.                                                     *)

(* A pass that finds the lock taken does without the segment.              *)
LEMMA LegacySkippedKeeps ==
    ASSUME SweepInv, NEW h \in Helpers, LegacySkipped(h)
    PROVE  SweepInv'
  <1> DEFINE E == [pass[h] EXCEPT !.step = "store", !.scanned = 0]
  <1>1. pass' = [pass EXCEPT ![h] = E] /\ pass[h].step = "legacy"
    BY InvFacts DEF LegacySkipped
  <1>2. E \in Pass
    <2>1. pass[h] \in Pass /\ 0 \in 0 .. RemovalBudget
      BY InvFacts
    <2> QED
      BY <2>1 DEF Pass
  <1>3. /\ E.step = "store" /\ E.shard = pass[h].shard /\ E.at = pass[h].at
        /\ E.file = pass[h].file
    BY InvFacts DEF Pass
  <1>4. UNCHANGED <<entry, cookie, lock, owed, rotation, cursor, faults>>
    BY DEF LegacySkipped, shared
  <1>5. rotation' \in 1 .. Len(Shards) /\ CursorsTyped' /\ faults' \in 0 .. MaxFaults
    BY <1>4, InvFacts DEF CursorsTyped
  <1> HIDE DEF E
  <1>6. Walks(E)
    BY <1>1, <1>3, InvFacts DEF Walks
  <1> QED
    BY <1>1, <1>2, <1>3, <1>4, <1>5, <1>6, QuietStep

(* A pass takes the lock when nobody has it, and the file in use with it.  *)
LEMMA LegacyBeginsKeeps ==
    ASSUME SweepInv, NEW h \in Helpers, LegacyBegins(h)
    PROVE  SweepInv'
  <1> DEFINE E == [pass[h] EXCEPT !.step = "raw", !.file = Selected]
  <1>1. pass' = [pass EXCEPT ![h] = E] /\ pass[h].step = "legacy"
        /\ lock = None /\ lock' = h
    BY InvFacts DEF LegacyBegins
  <1>2. Selected \in Files /\ None \notin Files /\ None \notin Helpers
    BY SweepAssumption DEF Selected, Files
  <1>3. E \in Pass
    BY <1>2, InvFacts DEF Pass
  <1>4. /\ E.step = "raw" /\ E.shard = pass[h].shard /\ E.at = pass[h].at
        /\ E.file = Selected
    BY <1>2, InvFacts DEF Pass
  <1>5. UNCHANGED <<entry, cookie, owed, rotation, cursor, faults>>
    BY DEF LegacyBegins
  <1> HIDE DEF E
  <1>6. Walks(E)
    BY <1>1, <1>2, <1>4, InvFacts DEF Walks
  <1>7. /\ pass' \in [Helpers -> Pass]
        /\ \A g \in Helpers : Walks(pass'[g])
        /\ pass'[h] = E
        /\ \A g \in Helpers \ {h} : pass'[g] = pass[g]
    BY <1>1, <1>3, <1>6, PassReplaced
  <1>8. SweepTypeOK'
    BY <1>1, <1>5, <1>7 DEF SweepInv, SweepTypeOK
  <1>9. \A g \in Helpers : pass[g].step # "raw"
    BY <1>1, <1>2 DEF SweepInv, LockHeld
  <1>10. LockHeld'
    BY <1>1, <1>4, <1>7, <1>9 DEF LockHeld
  <1>11. \A g \in Helpers \ {h} : pass'[g].file = None
    BY <1>7, <1>9 DEF SweepInv, Walks
  <1>12. OneFile
    BY DEF SweepInv
  <1>13. OneFile'
    BY <1>2, <1>4, <1>5, <1>7, <1>11, <1>12 DEF OneFile, Selected, Files
  <1>14. OwedIsFlat' /\ \A f \in Files : ReadUpTo(f)'
    BY <1>5 DEF SweepInv, OwedIsFlat, ReadUpTo, There
  <1> QED
    BY <1>7, <1>8, <1>10, <1>13, <1>14 DEF SweepInv

(* After the segment nobody reads the root.                                *)
LEMMA SegmentOver ==
    ASSUME SweepInv, NEW h \in Helpers, LegacyOver(h)
    PROVE  /\ pass[h].file \in Files /\ lock = h
           /\ pass' \in [Helpers -> Pass] /\ lock' = None
           /\ \A g \in Helpers : Walks(pass'[g])
           /\ LockHeld'
           /\ \A g \in Helpers : pass'[g].file = None
  <1> DEFINE E == [pass[h] EXCEPT !.step = "store", !.file = None, !.scanned = 0]
  <1>1. pass' = [pass EXCEPT ![h] = E] /\ pass[h].step = "raw" /\ lock' = None
    BY InvFacts DEF LegacyOver
  <1>2. None \notin Helpers
    BY InvFacts
  <1>3. pass[h].file \in Files
    BY <1>1, InvFacts DEF Walks, Pass
  <1>4. E \in Pass
    <2>1. pass[h] \in Pass /\ 0 \in 0 .. RemovalBudget
      BY InvFacts
    <2> QED
      BY <2>1 DEF Pass
  <1>5. /\ E.step = "store" /\ E.shard = pass[h].shard /\ E.at = pass[h].at
        /\ E.file = None
    BY InvFacts DEF Pass
  <1> HIDE DEF E
  <1>6. Walks(E)
    BY <1>1, <1>5, InvFacts DEF Walks
  <1>7. /\ pass' \in [Helpers -> Pass]
        /\ \A g \in Helpers : Walks(pass'[g])
        /\ pass'[h] = E
        /\ \A g \in Helpers \ {h} : pass'[g] = pass[g]
    BY <1>1, <1>4, <1>6, PassReplaced
  <1>8. lock = h
    BY <1>1 DEF SweepInv, LockHeld
  <1>9. \A g \in Helpers \ {h} : pass[g].step # "raw"
    BY <1>8 DEF SweepInv, LockHeld
  <1>10. \A g \in Helpers : pass'[g].step # "raw"
    BY <1>5, <1>7, <1>9
  <1>11. LockHeld'
    BY <1>1, <1>2, <1>10 DEF LockHeld
  <1>12. \A g \in Helpers : pass'[g].file = None
    BY <1>7, <1>10 DEF Walks
  <1> QED
    BY <1>1, <1>3, <1>7, <1>8, <1>11, <1>12

LEMMA LegacyFailsKeeps ==
    ASSUME SweepInv, NEW h \in Helpers, LegacyFails(h)
    PROVE  SweepInv'
  <1>1. LegacyOver(h) /\ UNCHANGED <<entry, rotation, cursor, cookie, owed>>
    BY DEF LegacyFails
  <1>2. faults' \in 0 .. MaxFaults
    BY InvFacts DEF LegacyFails
  <1>3. /\ pass' \in [Helpers -> Pass] /\ lock' = None
        /\ \A g \in Helpers : Walks(pass'[g])
        /\ LockHeld'
        /\ \A g \in Helpers : pass'[g].file = None
    BY <1>1, SegmentOver
  <1>4. SweepTypeOK'
    BY <1>1, <1>2, <1>3 DEF SweepInv, SweepTypeOK
  <1>5. None \notin Files
    BY SweepAssumption
  <1>6. OneFile'
    BY <1>1, <1>3, <1>5 DEF SweepInv, OneFile, Files
  <1>7. OwedIsFlat' /\ \A f \in Files : ReadUpTo(f)'
    BY <1>1 DEF SweepInv, OwedIsFlat, ReadUpTo, There
  <1> QED
    BY <1>3, <1>4, <1>6, <1>7 DEF SweepInv

(* What a pass reads: where it resumes nothing behind it is owed, and it   *)
(* reads everything from there on, or up to where the next one resumes.    *)
LEMMA BatchFacts ==
    ASSUME SweepInv, NEW h \in Helpers, pass[h].file \in Files
    PROVE  /\ Batch(h) \subseteq Ahead(h) /\ Ahead(h) \subseteq 1 .. Len(Legacy)
           /\ \A i \in 1 .. Len(Legacy) :
                There(Legacy[i]) /\ Legacy[i] \in owed => i \in Ahead(h)
           /\ \A i \in Batch(h), j \in Ahead(h) : j <= i => j \in Batch(h)
           /\ Cardinality(Batch(h)) < VisitBudget => Batch(h) = Ahead(h)
           /\ Cardinality(Batch(h)) = VisitBudget =>
                /\ Resume(h) \in Batch(h)
                /\ \A i \in Batch(h) : i <= Resume(h)
  <1> DEFINE N == Len(Legacy)
  <1>1. N \in Nat /\ VisitBudget \in Nat \ {0}
    BY DirectoriesTyped, SweepAssumption
  <1>2. cookie[pass[h].file] \in 1 .. N \cup {Odd, None}
    BY DEF SweepInv, SweepTypeOK
  <1>3. /\ Start(h) \in 0 .. N
        /\ Start(h) # 0 => Start(h) = cookie[pass[h].file]
                           /\ cookie[pass[h].file] \notin {Odd, None}
    BY <1>1, <1>2 DEF Start
  <1>4. Ahead(h) \subseteq 1 .. N
    <2>1. \A i \in Start(h) + 1 .. N : i \in 1 .. N
      BY <1>1, <1>3
    <2> QED
      BY <2>1 DEF Ahead
  <1>5. Batch(h) \subseteq Ahead(h)
    BY DEF Batch, First
  <1>6. ASSUME NEW i \in 1 .. N, There(Legacy[i]), Legacy[i] \in owed
        PROVE  i \in Ahead(h)
    <2>1. CASE i \in Start(h) + 1 .. N
      BY <1>6, <2>1 DEF Ahead
    <2>2. CASE i \notin Start(h) + 1 .. N
      <3>1. i <= Start(h) /\ Start(h) # 0
        BY <2>2, <1>1, <1>3
      <3>2. i \in 1 .. cookie[pass[h].file] /\ cookie[pass[h].file] \notin {Odd, None}
        BY <3>1, <1>3
      <3>3. ReadUpTo(pass[h].file)
        BY DEF SweepInv
      <3> QED
        BY <1>6, <3>2, <3>3 DEF ReadUpTo
    <2> QED
      BY <2>1, <2>2
  <1> HIDE DEF N
  <1>7. \A i \in Batch(h), j \in Ahead(h) : j <= i => j \in Batch(h)
    BY <1>1, <1>4, FirstIsPrefix DEF Batch
  <1>8. Cardinality(Batch(h)) < VisitBudget => Batch(h) = Ahead(h)
    BY <1>1, <1>4, FirstIsAll DEF Batch
  <1>9. ASSUME Cardinality(Batch(h)) = VisitBudget
        PROVE  Resume(h) \in Batch(h) /\ \A i \in Batch(h) : i <= Resume(h)
    <2>1. Batch(h) # {}
      BY <1>1, <1>9, FS_EmptySet
    <2>2. Batch(h) \subseteq 0 .. N
      BY <1>1, <1>4, <1>5
    <2>3. PICK m \in Batch(h) : \A x \in Batch(h) : x <= m
      BY <1>1, <2>1, <2>2, GreatestExists
    <2>4. \A x \in Batch(h) : m >= x
      BY <2>2, <2>3
    <2>5. Resume(h) = CHOOSE x \in Batch(h) : \A y \in Batch(h) : x >= y
      BY DEF Resume, Max
    <2>6. Resume(h) \in Batch(h) /\ \A y \in Batch(h) : Resume(h) >= y
      BY <2>4, <2>5
    <2> QED
      BY <2>2, <2>6
  <1> QED
    BY <1>4, <1>5, <1>6, <1>7, <1>8, <1>9 DEF N

(* What both ways of reading the root have in common.                      *)
LEMMA BatchRead ==
    ASSUME SweepInv, NEW h \in Helpers, ReadBatch(h)
    PROVE  /\ entry' \in [Entries -> {"absent", "kept", "due", "gone"}]
           /\ \A e \in Entries : entry'[e] \in {entry[e], "gone"}
           /\ \A i \in 1 .. Len(Legacy) : There(Legacy[i])' => There(Legacy[i])
           /\ CursorsTyped' /\ rotation' \in 1 .. Len(Shards)
           /\ faults' \in 0 .. MaxFaults
  <1> DEFINE is == {i \in Batch(h) : IsJob(Legacy[i])}
  <1>1. LegacyOver(h) /\ Process(h, Legacy, is) /\ UNCHANGED <<rotation, cursor, faults>>
    BY DEF ReadBatch
  <1>2. pass[h].file \in Files
    BY <1>1, SegmentOver
  <1>3. Batch(h) \subseteq 1 .. Len(Legacy)
    BY <1>2, BatchFacts
  <1>4. is \subseteq DOMAIN Legacy
    BY <1>3, DirectoriesTyped
  <1>5. SweepTypeOK
    BY DEF SweepInv
  <1> HIDE DEF is
  <1>6. /\ entry' \in [Entries -> {"absent", "kept", "due", "gone"}]
        /\ \A e \in Entries : entry'[e] \in {entry[e], "gone"}
    BY <1>1, <1>4, <1>5, DirectoriesTyped, Processed
  <1>7. \A i \in 1 .. Len(Legacy) : There(Legacy[i])' => There(Legacy[i])
    BY <1>6, DirectoriesTyped DEF There
  <1>8. CursorsTyped' /\ rotation' \in 1 .. Len(Shards) /\ faults' \in 0 .. MaxFaults
    BY <1>1, InvFacts DEF CursorsTyped
  <1> QED
    BY <1>6, <1>7, <1>8

(* A position that a pass stores is that of an entry.                      *)
LEMMA LegacyPausesKeeps ==
    ASSUME SweepInv, NEW h \in Helpers, LegacyPauses(h)
    PROVE  SweepInv'
  <1> DEFINE f == pass[h].file
  <1>1. ReadBatch(h) /\ LegacyOver(h) /\ Cardinality(Batch(h)) = VisitBudget
        /\ Put(f, Resume(h)) /\ owed' = owed \ Batched(h)
    BY DEF LegacyPauses, ReadBatch
  <1>2. /\ f \in Files
        /\ pass' \in [Helpers -> Pass] /\ lock' = None
        /\ \A g \in Helpers : Walks(pass'[g])
        /\ LockHeld'
        /\ \A g \in Helpers : pass'[g].file = None
    BY <1>1, SegmentOver
  <1>3. /\ entry' \in [Entries -> {"absent", "kept", "due", "gone"}]
        /\ \A e \in Entries : entry'[e] \in {entry[e], "gone"}
        /\ \A i \in 1 .. Len(Legacy) : There(Legacy[i])' => There(Legacy[i])
        /\ CursorsTyped' /\ rotation' \in 1 .. Len(Shards)
        /\ faults' \in 0 .. MaxFaults
    BY <1>1, BatchRead
  <1>4. /\ Batch(h) \subseteq Ahead(h) /\ Ahead(h) \subseteq 1 .. Len(Legacy)
        /\ \A i \in 1 .. Len(Legacy) :
             There(Legacy[i]) /\ Legacy[i] \in owed => i \in Ahead(h)
        /\ \A i \in Batch(h), j \in Ahead(h) : j <= i => j \in Batch(h)
        /\ Resume(h) \in Batch(h)
    BY <1>1, <1>2, BatchFacts
  <1>5. Resume(h) \in 1 .. Len(Legacy) /\ Resume(h) \notin {Odd, None}
    BY <1>4, SweepAssumption
  <1>6. cookie \in [Files -> 1 .. Len(Legacy) \cup {Odd, None}] /\ owed \subseteq Entries
    BY DEF SweepInv, SweepTypeOK
  <1> HIDE DEF f
  <1>7. /\ cookie' \in [Files -> 1 .. Len(Legacy) \cup {Odd, None}]
        /\ \A g \in Files \ {f} : cookie'[g] = cookie[g]
        /\ cookie'[f] = IF cookie[f] = Odd THEN Odd ELSE Resume(h)
    BY <1>1, <1>2, <1>5, <1>6 DEF Put
  <1>8. SweepTypeOK'
    BY <1>1, <1>2, <1>3, <1>6, <1>7 DEF SweepTypeOK, CursorsTyped
  <1>9. None \notin Files
    BY SweepAssumption
  <1>10. /\ cookie["recovery"] # Odd
         /\ f = "recovery" => cookie["canonical"] \in {Odd, None}
         /\ f = "canonical" => cookie["recovery"] = None
         /\ cookie["recovery"] # None => cookie["canonical"] \in {Odd, None}
    BY DEF SweepInv, OneFile, f
  <1>11. OneFile'
    <2>1. CASE f = "recovery"
      BY <1>2, <1>5, <1>7, <1>9, <1>10, <2>1 DEF OneFile, Files
    <2>2. CASE f = "canonical"
      BY <1>2, <1>5, <1>7, <1>9, <1>10, <2>2 DEF OneFile, Files
    <2> QED
      BY <1>2, <2>1, <2>2 DEF Files
  <1>12. OwedIsFlat'
    BY <1>1, <1>3, <1>6 DEF SweepInv, OwedIsFlat
  <1>13. ASSUME NEW g \in Files PROVE ReadUpTo(g)'
    <2>1. SUFFICES ASSUME cookie'[g] \notin {Odd, None}, NEW i \in 1 .. cookie'[g],
                          There(Legacy[i])', Legacy[i] \in owed'
                   PROVE  FALSE
      BY DEF ReadUpTo
    <2>2. i \in 1 .. Len(Legacy)
      BY <2>1, <1>7, DirectoriesTyped
    <2>3. There(Legacy[i]) /\ Legacy[i] \in owed /\ Legacy[i] \notin Batched(h)
      BY <1>1, <1>3, <2>1, <2>2
    <2>4. CASE g = f
      <3>1. i <= Resume(h)
        BY <1>5, <1>7, <2>1, <2>4
      <3>2. i \in Batch(h)
        BY <1>4, <2>2, <2>3, <3>1
      <3> QED
        BY <2>3, <3>2 DEF Batched
    <2>5. CASE g # f
      <3>1. cookie'[g] = cookie[g]
        BY <1>7, <2>5
      <3>2. ReadUpTo(g)
        BY DEF SweepInv
      <3> QED
        BY <2>1, <2>3, <3>1, <3>2 DEF ReadUpTo
    <2> QED
      BY <2>4, <2>5
  <1> QED
    BY <1>2, <1>8, <1>11, <1>12, <1>13 DEF SweepInv

(* At the end of the root no cookie is left that stands anywhere.          *)
LEMMA LegacyEndsKeeps ==
    ASSUME SweepInv, NEW h \in Helpers, LegacyEnds(h)
    PROVE  SweepInv'
  <1> DEFINE f == pass[h].file
  <1>1. ReadBatch(h) /\ LegacyOver(h) /\ Put(f, None)
        /\ owed' = {e \in Flat : entry'[e] \in {"kept", "due"}}
    BY DEF LegacyEnds, ReadBatch
  <1>2. /\ f \in Files
        /\ pass' \in [Helpers -> Pass] /\ lock' = None
        /\ \A g \in Helpers : Walks(pass'[g])
        /\ LockHeld'
        /\ \A g \in Helpers : pass'[g].file = None
    BY <1>1, SegmentOver
  <1>3. /\ entry' \in [Entries -> {"absent", "kept", "due", "gone"}]
        /\ CursorsTyped' /\ rotation' \in 1 .. Len(Shards)
        /\ faults' \in 0 .. MaxFaults
    BY <1>1, BatchRead
  <1>4. /\ cookie["recovery"] # Odd
        /\ f = "recovery" => cookie["canonical"] \in {Odd, None}
        /\ f = "canonical" => cookie["recovery"] = None
    BY DEF SweepInv, OneFile, f
  <1>5. cookie \in [Files -> 1 .. Len(Legacy) \cup {Odd, None}]
    BY DEF SweepInv, SweepTypeOK
  <1>6. Flat \subseteq Entries
    BY DirectoriesTyped DEF Flat
  <1>7. None \notin Files /\ Odd # None
    BY SweepAssumption
  <1> HIDE DEF f
  <1>8. /\ cookie' \in [Files -> 1 .. Len(Legacy) \cup {Odd, None}]
        /\ \A g \in Files \ {f} : cookie'[g] = cookie[g]
        /\ cookie'[f] = IF cookie[f] = Odd THEN Odd ELSE None
    BY <1>1, <1>2, <1>5 DEF Put
  <1>9. cookie'["canonical"] \in {Odd, None} /\ cookie'["recovery"] = None
    <2>1. CASE f = "recovery"
      BY <1>4, <1>8, <2>1 DEF Files
    <2>2. CASE f = "canonical"
      BY <1>4, <1>8, <2>2 DEF Files
    <2> QED
      BY <1>2, <2>1, <2>2 DEF Files
  <1>10. OneFile'
    BY <1>2, <1>7, <1>9 DEF OneFile, Files
  <1>11. \A g \in Files : ReadUpTo(g)'
    BY <1>9 DEF ReadUpTo, Files
  <1>12. OwedIsFlat'
    BY <1>1 DEF OwedIsFlat
  <1>13. SweepTypeOK'
    BY <1>1, <1>2, <1>3, <1>6, <1>8 DEF SweepTypeOK, CursorsTyped
  <1> QED
    BY <1>2, <1>10, <1>11, <1>12, <1>13 DEF SweepInv

-----------------------------------------------------------------------------
(* What happens around a pass.                                             *)

(* A helper that is killed leaves the lock to the others.                  *)
LEMMA KilledKeeps ==
    ASSUME SweepInv, NEW h \in Helpers, Killed(h)
    PROVE  SweepInv'
  <1>1. /\ lock' = IF lock = h THEN None ELSE lock
        /\ pass' = [pass EXCEPT ![h] = Idle]
        /\ UNCHANGED <<entry, rotation, cursor, cookie, owed>>
    BY DEF Killed
  <1>2. Idle \in Pass /\ Walks(Idle) /\ Idle.step = "idle" /\ Idle.file = None
    BY IdleWalks
  <1>3. /\ pass' \in [Helpers -> Pass]
        /\ \A g \in Helpers : Walks(pass'[g])
        /\ pass'[h] = Idle
        /\ \A g \in Helpers \ {h} : pass'[g] = pass[g]
    BY <1>1, <1>2, PassReplaced
  <1>4. faults' \in 0 .. MaxFaults
    BY InvFacts DEF Killed
  <1>5. SweepTypeOK'
    BY <1>1, <1>3, <1>4 DEF SweepInv, SweepTypeOK
  <1>6. None \notin Files /\ None \notin Helpers
    BY SweepAssumption
  <1>7. LockHeld'
    BY <1>1, <1>2, <1>3, <1>6 DEF SweepInv, LockHeld
  <1>8. OneFile'
    BY <1>1, <1>2, <1>3, <1>6 DEF SweepInv, OneFile, Files
  <1>9. OwedIsFlat' /\ \A f \in Files : ReadUpTo(f)'
    BY <1>1 DEF SweepInv, OwedIsFlat, ReadUpTo, There
  <1> QED
    BY <1>3, <1>5, <1>7, <1>8, <1>9 DEF SweepInv

(* A job that is started, or falls due, owes the sweep nothing new.        *)
LEMMA EntryKeeps ==
    ASSUME SweepInv, NEW e \in Entries, JobStarted(e) \/ FallsDue(e)
    PROVE  SweepInv'
  <1>1. UNCHANGED <<rotation, cursor, cookie, lock, owed, pass, faults>>
    BY DEF JobStarted, FallsDue, shared
  <1>2. PICK s \in {"kept", "due"} :
          /\ entry' = [entry EXCEPT ![e] = s]
          /\ entry[e] \in {"absent", "kept"}
          /\ entry[e] = "absent" \/ There(e)
    BY DEF JobStarted, FallsDue, There
  <1>3. entry \in [Entries -> {"absent", "kept", "due", "gone"}] /\ owed \subseteq Entries
        /\ OwedIsFlat
    BY DEF SweepInv, SweepTypeOK
  <1>4. SweepTypeOK'
    BY <1>1, <1>2, <1>3 DEF SweepInv, SweepTypeOK
  <1>5. OwedIsFlat'
    BY <1>1, <1>2, <1>3 DEF OwedIsFlat
  <1>6. \A x \in owed : There(x)' => There(x)
    BY <1>2, <1>3 DEF OwedIsFlat, There
  <1>7. ASSUME NEW f \in Files PROVE ReadUpTo(f)'
    <2>1. ReadUpTo(f)
      BY DEF SweepInv
    <2> QED
      BY <1>1, <1>6, <2>1 DEF ReadUpTo
  <1>8. /\ LockHeld' /\ OneFile' /\ \A g \in Helpers : Walks(pass[g])'
    BY <1>1 DEF SweepInv, LockHeld, OneFile
  <1> QED
    BY <1>4, <1>5, <1>7, <1>8 DEF SweepInv

(* Something odd at the canonical path, or its repair, loses a position at *)
(* most.                                                                   *)
LEMMA CanonicalKeeps ==
    ASSUME SweepInv, Obstructed \/ Repaired
    PROVE  SweepInv'
  <1>1. /\ UNCHANGED <<entry, rotation, cursor, lock, pass, owed>>
        /\ \E c \in {Odd, None} : cookie' = [cookie EXCEPT !["canonical"] = c]
    BY DEF Obstructed, Repaired
  <1>2. faults' \in 0 .. MaxFaults
    <2>1. faults \in 0 .. MaxFaults /\ MaxFaults \in Nat
      BY SweepAssumption DEF SweepInv, SweepTypeOK
    <2> QED
      BY <2>1 DEF Obstructed, Repaired
  <1>3. cookie \in [Files -> 1 .. Len(Legacy) \cup {Odd, None}]
    BY DEF SweepInv, SweepTypeOK
  <1>4. /\ cookie' \in [Files -> 1 .. Len(Legacy) \cup {Odd, None}]
        /\ cookie'["canonical"] \in {Odd, None}
        /\ cookie'["recovery"] = cookie["recovery"]
    BY <1>1, <1>3 DEF Files
  <1>5. SweepTypeOK'
    BY <1>1, <1>2, <1>4 DEF SweepInv, SweepTypeOK
  <1>6. OneFile'
    BY <1>1, <1>4 DEF SweepInv, OneFile
  <1>7. ASSUME NEW f \in Files PROVE ReadUpTo(f)'
    <2>1. ReadUpTo(f)
      BY DEF SweepInv
    <2> QED
      BY <1>1, <1>4, <2>1 DEF ReadUpTo, Files, There
  <1>8. LockHeld' /\ OwedIsFlat' /\ \A g \in Helpers : Walks(pass[g])'
    BY <1>1 DEF SweepInv, LockHeld, OwedIsFlat
  <1> QED
    BY <1>5, <1>6, <1>7, <1>8 DEF SweepInv

-----------------------------------------------------------------------------
(* What the collector guarantees.                                          *)

LEMMA StepsKeep ==
    ASSUME SweepInv, NEW h \in Helpers, Steps(h)
    PROVE  SweepInv'
  <1>1. CASE Begin(h)
    BY <1>1, BeginKeeps
  <1>2. CASE Rotate(h) \/ RotateFails(h)
    BY <1>2, RotateKeeps
  <1>3. CASE LoadCursor(h)
    BY <1>3, LoadCursorKeeps
  <1>4. ASSUME NEW k \in 0 .. IterBudget,
               \/ LeafDone(h, k) \/ LeafDoneAtLimit(h, k)
               \/ StopWithin(h, k) \/ ReadsExhausted(h, k)
        PROVE  SweepInv'
    BY <1>4, LeafDoneKeeps, LeafDoneAtLimitKeeps, ReadsExhaustedKeeps
  <1>5. CASE LeavesDone(h)
    BY <1>5, LeavesDoneKeeps
  <1>6. CASE LegacyBegins(h) \/ LegacySkipped(h)
    BY <1>6, LegacyBeginsKeeps, LegacySkippedKeeps
  <1>7. CASE LegacyPauses(h) \/ LegacyEnds(h) \/ LegacyFails(h)
    BY <1>7, LegacyPausesKeeps, LegacyEndsKeeps, LegacyFailsKeeps
  <1>8. CASE StoreCursor(h)
    BY <1>8, StoreCursorKeeps
  <1> QED
    BY <1>1, <1>2, <1>3, <1>4, <1>5, <1>6, <1>7, <1>8 DEF Steps

LEMMA SweepNextKeeps == SweepInv /\ [SweepNext]_sweepVars => SweepInv'
  <1> SUFFICES ASSUME SweepInv, [SweepNext]_sweepVars PROVE SweepInv'
    OBVIOUS
  <1>1. CASE UNCHANGED sweepVars
    BY <1>1
    DEF sweepVars, SweepInv, SweepTypeOK, LockHeld, OneFile, ReadUpTo,
        OwedIsFlat, There
  <1>2. ASSUME NEW h \in Helpers, Steps(h) \/ Killed(h) PROVE SweepInv'
    BY <1>2, StepsKeep, KilledKeeps
  <1>3. ASSUME NEW e \in Entries, JobStarted(e) \/ FallsDue(e) PROVE SweepInv'
    BY <1>3, EntryKeeps
  <1>4. CASE Obstructed \/ Repaired
    BY <1>4, CanonicalKeeps
  <1> QED
    BY <1>1, <1>2, <1>3, <1>4 DEF SweepNext

(* Every state of every sweep satisfies the invariant.                     *)
THEOREM SweepInvariantHolds == SweepSpec => []SweepInv
  BY InitSweepInv, SweepNextKeeps, PTL DEF SweepSpec

(* No pass does more work than its budgets allow, however many overlap,    *)
(* and the cursor of a shard always names one of its leaves.               *)
THEOREM SweepTypeCorrect == SweepSpec => []SweepTypeOK
  <1>1. SweepInv => SweepTypeOK
    BY DEF SweepInv
  <1> QED
    BY <1>1, SweepInvariantHolds, PTL

(* Nothing in the root is skipped between two ends of file, whichever      *)
(* passes, killed or not, and whichever cookie files the sweep went        *)
(* through.                                                                *)
THEOREM LegacySweepSafe == SweepSpec => LegacySweepIsComplete
  <1> DEFINE Complete(h) ==
        LegacyEnds(h) => \A e \in owed : There(e) => e \in Batched(h)
  <1>1. ASSUME SweepInv, NEW h \in Helpers PROVE Complete(h)
    <2>1. SUFFICES ASSUME LegacyEnds(h), NEW e \in owed, There(e)
                   PROVE  e \in Batched(h)
      OBVIOUS
    <2>2. LegacyOver(h) /\ Cardinality(Batch(h)) < VisitBudget
      BY <2>1 DEF LegacyEnds, ReadBatch
    <2>3. pass[h].file \in Files
      BY <1>1, <2>2, SegmentOver
    <2>4. PICK i \in 1 .. Len(Legacy) : Legacy[i] = e
      BY <1>1, DirectoriesTyped DEF SweepInv, OwedIsFlat, Flat
    <2>5. i \in Batch(h)
      BY <1>1, <2>1, <2>2, <2>3, <2>4, BatchFacts
    <2> QED
      BY <2>4, <2>5 DEF Batched
  <1>2. SweepInv => [\A h \in Helpers : Complete(h)]_sweepVars
    BY <1>1
  <1> QED
    BY <1>2, SweepInvariantHolds, PTL DEF LegacySweepIsComplete
=============================================================================
