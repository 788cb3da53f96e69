----------------------------- MODULE FilePatch ------------------------------
(***************************************************************************)
(* The two ways in which a file of a managed host is written: the compare- *)
(* and-swap of file_patch_atomic (_FILE_PATCH_HELPER in clients/ssh.py),   *)
(* which holds cas.lock from before it reads the file until after it has   *)
(* replaced it, and write_file (_REMOTE_ATOMIC_WRITE in clients/common.py),*)
(* which takes no lock.  Both fill a temporary file beside the target,     *)
(* fsync it, rename it over the target and fsync the directory.            *)
(*                                                                         *)
(* A helper may be killed between any two steps, its client may stop       *)
(* waiting for it, and the host may crash: of a file it then keeps a       *)
(* version that is at least as new as the last one whose directory was     *)
(* synchronised, and of that version no byte that was not synchronised.    *)
(***************************************************************************)
EXTENDS Integers, Sequences

CONSTANTS
    Paths,
    Patches,        \* calls of file_patch_atomic
    Writes,         \* calls of write_file
    Target,         \* Target[o]: the path that call o names
    Expected,       \* Expected[p]: the content whose digest patch p was given
    New,            \* New[o]: the content that call o brings
    Initially,      \* Initially[f]: the first content of file f, or Absent
    Contents, Absent,
    MaxCrashes,     \* bound: crashes of the host
    None

Calls == Patches \cup Writes

ASSUME FilePatchAssumption ==
    /\ Patches \cap Writes = {}
    /\ None \notin Calls \cup {"REPLACED"}
    /\ Absent \notin Contents
    /\ Target \in [Calls -> Paths]
    /\ Expected \in [Patches -> Contents]
    /\ New \in [Calls -> Contents]
    /\ Initially \in [Paths -> Contents \cup {Absent}]
    /\ MaxCrashes \in Nat

VARIABLES
    log,        \* log[f]: the versions of file f, the last is the present one
    durable,    \* durable[f]: how many of them no crash undoes
    lock,       \* who holds cas.lock
    helper,     \* helper[o]: where the process of call o is, and its verdict
    temp,       \* temp[o]: the temporary file of call o
    answer,     \* answer[o]: what the caller has been told
    crashes

vars == <<log, durable, lock, helper, temp, answer, crashes>>

(* REFUSED stands for every refusal of a path or a content.                *)
Verdicts == {"REPLACED", "CONFLICT", "NOT_FOUND", "REFUSED", "WRITE_FAILED", None}

(* ambiguous: the client's timeout; broken: the output ended without a     *)
(* result, which is UPSTREAM_PROTOCOL.                                     *)
Answers == Verdicts \cup {"ambiguous", "broken"}

(* The steps in which a patch holds the lock.                              *)
Reading == {"open", "create"}
Filling == {"fill", "sync", "rename"}
Inside == Reading \cup Filling \cup {"settle", "unlock"}
Running == Inside \cup {"lock", "exit"}
Steps == Running \cup {"new", "over"}

FileStates == {"partial", "written", "synced"}

Version == [by : Calls \cup {None}, value : Contents \cup {Absent}, state : FileStates]

TypeOK ==
    /\ log \in [Paths -> Seq(Version)]
    /\ durable \in [Paths -> Nat \ {0}]
    /\ \A f \in Paths : durable[f] <= Len(log[f])
    /\ lock \in Patches \cup {None}
    /\ \A p \in Patches : helper[p].step \in Inside <=> lock = p
    /\ helper \in [Calls -> [step : Steps, verdict : Verdicts]]
    /\ temp \in [Calls -> FileStates \cup {None}]
    /\ answer \in [Calls -> Answers]
    /\ crashes \in 0 .. MaxCrashes

Init ==
    /\ log = [f \in Paths |-> <<[by |-> None, value |-> Initially[f], state |-> "synced"]>>]
    /\ durable = [f \in Paths |-> 1]
    /\ lock = None
    /\ helper = [o \in Calls |-> [step |-> "new", verdict |-> None]]
    /\ temp = [o \in Calls |-> None]
    /\ answer = [o \in Calls |-> None]
    /\ crashes = 0

Present(f) == log[f][Len(log[f])]

At(o, step) == helper[o].step = step

(* The call o goes on at a step, or ends with a verdict: a patch then still *)
(* has to release the lock.                                                *)
Moves(o, step) == helper' = [helper EXCEPT ![o].step = step]

Ends(o, verdict) ==
    helper' = [helper EXCEPT ![o] = [step |-> IF o \in Patches THEN "unlock" ELSE "exit",
                                     verdict |-> verdict]]

-----------------------------------------------------------------------------
(* The helpers.                                                            *)

Begins(o) ==
    /\ At(o, "new")
    /\ Moves(o, IF o \in Patches THEN "lock" ELSE "open")
    /\ UNCHANGED <<log, durable, lock, temp, answer, crashes>>

(* Fault: LOCK_SH, which several patches hold together.                    *)
LockShared == lock \in Patches \cup {None}

(* flock(LOCK_EX) on cas.lock, one file for all the paths of the host.     *)
LockFree == lock = None

Locks(o) ==
    /\ At(o, "lock")
    /\ LockFree
    /\ lock' = o
    /\ Moves(o, "open")
    /\ UNCHANGED <<log, durable, temp, answer, crashes>>

(* The request, or the lock file, is not what the helper accepts.          *)
Refuses(o) ==
    /\ At(o, "lock")
    /\ helper' = [helper EXCEPT ![o] = [step |-> "exit", verdict |-> "REFUSED"]]
    /\ UNCHANGED <<log, durable, lock, temp, answer, crashes>>

(* The file is opened once, and a file is never written in place: what is  *)
(* read is one version.                                                    *)
Compares(o) ==
    /\ At(o, "open")
    /\ o \in Patches
    /\ LET found == Present(Target[o]).value
       IN \/ /\ found = Absent
             /\ Ends(o, "NOT_FOUND")
          \/ /\ found \notin {Absent, Expected[o]}
             /\ Ends(o, "CONFLICT")
          \/ Ends(o, "REFUSED")
          \/ /\ found = Expected[o]
             /\ Moves(o, "create")
    /\ UNCHANGED <<log, durable, lock, temp, answer, crashes>>

(* write_file only looks whether the target is a regular file or missing.  *)
Looks(o) ==
    /\ At(o, "open")
    /\ o \in Writes
    /\ Moves(o, "create") \/ Ends(o, "REFUSED")
    /\ UNCHANGED <<log, durable, lock, temp, answer, crashes>>

Creates(o) ==
    /\ At(o, "create")
    /\ temp' = [temp EXCEPT ![o] = "partial"]
    /\ Moves(o, "fill")
    /\ UNCHANGED <<log, durable, lock, answer, crashes>>

Fills(o) ==
    /\ At(o, "fill")
    /\ temp' = [temp EXCEPT ![o] = "written"]
    /\ Moves(o, "sync")
    /\ UNCHANGED <<log, durable, lock, answer, crashes>>

TempSynced(o) == temp' = [temp EXCEPT ![o] = "synced"]

Syncs(o) ==
    /\ At(o, "sync")
    /\ TempSynced(o)
    /\ Moves(o, "rename")
    /\ UNCHANGED <<log, durable, lock, answer, crashes>>

Replaces(o) ==
    /\ At(o, "rename")
    /\ log' = [log EXCEPT ![Target[o]] =
                 Append(@, [by |-> o, value |-> New[o], state |-> temp[o]])]
    /\ temp' = [temp EXCEPT ![o] = None]
    /\ Moves(o, "settle")
    /\ UNCHANGED <<durable, lock, answer, crashes>>

(* Fault: the directory is left to the kernel to write.                    *)
DirectoryLeft(o) == durable' = durable

DirectorySynced(o) == durable' = [durable EXCEPT ![Target[o]] = Len(log[Target[o]])]

Settles(o) ==
    /\ At(o, "settle")
    /\ DirectorySynced(o)
    /\ Ends(o, "REPLACED")
    /\ UNCHANGED <<log, lock, temp, answer, crashes>>

(* OSError: the temporary file is unlinked.  After the rename the error is *)
(* the same, although the file has been replaced.                          *)
Fails(o) ==
    /\ helper[o].step \in {"create", "settle"} \cup Filling
    /\ Ends(o, "WRITE_FAILED")
    /\ temp' = [temp EXCEPT ![o] = None]
    /\ UNCHANGED <<log, durable, lock, answer, crashes>>

Unlocks(o) ==
    /\ At(o, "unlock")
    /\ lock' = None
    /\ Moves(o, "exit")
    /\ UNCHANGED <<log, durable, temp, answer, crashes>>

-----------------------------------------------------------------------------
(* What becomes of a helper, and its client.                               *)

Gone == [step |-> "over", verdict |-> None]

Told(o, what) == [answer EXCEPT ![o] = IF @ = None THEN what ELSE @]

(* The output is flushed when the process exits.                           *)
Exits(o) ==
    /\ At(o, "exit")
    /\ helper' = [helper EXCEPT ![o] = Gone]
    /\ answer' = Told(o, helper[o].verdict)
    /\ UNCHANGED <<log, durable, lock, temp, crashes>>

(* SIGTERM and SIGKILL end the helper without its finally blocks: the      *)
(* temporary file stays, and the kernel releases the lock.                 *)
Killed(o) ==
    /\ helper[o].step \in Running
    /\ helper' = [helper EXCEPT ![o] = Gone]
    /\ lock' = IF lock = o THEN None ELSE lock
    /\ answer' = Told(o, "broken")
    /\ UNCHANGED <<log, durable, temp, crashes>>

(* The client's timeout; a terminated helper is Killed, one whose host the *)
(* signal does not reach goes on.                                          *)
GivesUp(o) ==
    /\ helper[o].step \in Running
    /\ answer[o] = None
    /\ answer' = Told(o, "ambiguous")
    /\ UNCHANGED <<log, durable, lock, helper, temp, crashes>>

(* What is left of a version when the host crashes.                        *)
AfterCrash(version) ==
    [version EXCEPT !.state = IF @ = "synced" THEN @ ELSE "partial"]

HostCrashes ==
    /\ crashes < MaxCrashes
    /\ \E kept \in [Paths -> UNION {1 .. Len(log[f]) : f \in Paths}] :
         /\ \A f \in Paths : kept[f] \in durable[f] .. Len(log[f])
         /\ log' = [f \in Paths |-> [i \in 1 .. kept[f] |-> AfterCrash(log[f][i])]]
         /\ durable' = kept
    /\ lock' = None
    /\ helper' = [o \in Calls |-> IF helper[o].step \in Running
                                  THEN Gone ELSE helper[o]]
    /\ answer' = [o \in Calls |-> IF helper[o].step \in Running /\ answer[o] = None
                                  THEN "broken" ELSE answer[o]]
    /\ crashes' = crashes + 1
    /\ UNCHANGED temp

Step(o) ==
    \/ Begins(o) \/ Refuses(o) \/ Locks(o) \/ Compares(o) \/ Looks(o)
    \/ Creates(o) \/ Fills(o) \/ Syncs(o) \/ Replaces(o) \/ Settles(o)
    \/ Fails(o) \/ Unlocks(o) \/ Exits(o) \/ Killed(o) \/ GivesUp(o)

Next == HostCrashes \/ \E o \in Calls : Step(o)

Spec == Init /\ [][Next]_vars

-----------------------------------------------------------------------------
(* Properties.                                                             *)

(* One of the first n versions has what patch o expected, and whatever has *)
(* come after it was put there by write_file.                              *)
Follows(o, versions, n) ==
    \E k \in 1 .. n :
        /\ versions[k].value = Expected[o]
        /\ \A m \in k + 1 .. n : versions[m].by \in Writes

(* No patch undoes another unseen: the version that a patch puts follows a *)
(* version with the content the patch was given the digest of, and no      *)
(* other patch comes between the two, whatever is killed or crashes.       *)
PatchesAreSerial ==
    \A f \in Paths : \A i \in 2 .. Len(log[f]) :
        log[f][i].by \in Patches => Follows(log[f][i].by, log[f], i - 1)

(* A file always holds a whole content that somebody gave: not a part of   *)
(* one, not even after a crash of the host.                                *)
FilesAreWhole == \A f \in Paths : Present(f).state = "synced"

(* What a caller was told to be in place stays in the file's past, whole:  *)
(* a crash of the host neither undoes it nor tears it.                     *)
AnsweredIsDurable ==
    \A o \in Calls : answer[o] = "REPLACED" =>
        \E i \in 1 .. durable[Target[o]] :
            log[Target[o]][i].by = o /\ log[Target[o]][i].state = "synced"
=============================================================================
