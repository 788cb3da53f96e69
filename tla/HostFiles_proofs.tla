-------------------------- MODULE HostFiles_proofs ---------------------------
(****************************************************************************)
(* Theorems about the two components that rewrite a file on the managed     *)
(* host which others write too: the compare-and-swap patch and the          *)
(* crontab.                                                                 *)
(*                                                                          *)
(* FilePatch, for any number of paths, patches, writes and crashes.  The    *)
(* inductive invariant adds to the properties what a helper knows at each   *)
(* of its steps: a patch past its comparison still follows the version      *)
(* that it expects, because only its own patch may replace the file while   *)
(* it holds the lock.                                                       *)
(*                                                                          *)
(* CronProfiles, for any callers, profiles and contents, any capacity and   *)
(* any number of edits by hand.  An invocation installs a whole crontab     *)
(* that it computed from one it has read; the invariant says what every     *)
(* text, read or installed, that is on its way looks like, and of the       *)
(* invocations of one profile, which of them may still write.               *)
(****************************************************************************)
EXTENDS FilePatch, CronProfiles, SequenceTheorems, FiniteSetTheorems, TLAPS

Comparing == {"create"} \cup Filling

StillExpected ==
    \A p \in Patches : helper[p].step \in Comparing =>
        Follows(p, log[Target[p]], Len(log[Target[p]]))

WritesDoNotLock == \A w \in Writes : helper[w].step \notin {"lock", "unlock"}

AllSynced ==
    /\ \A f \in Paths : \A i \in 1 .. Len(log[f]) : log[f][i].state = "synced"
    /\ \A o \in Calls : helper[o].step = "rename" => temp[o] = "synced"

(* Call o is among the first n versions of its file.                       *)
Among(o, n) == \E i \in 1 .. n : log[Target[o]][i].by = o

TrueVerdicts ==
    \A o \in Calls :
        /\ helper[o].step = "settle" => Among(o, Len(log[Target[o]]))
        /\ helper[o].verdict = "REPLACED" => Among(o, durable[Target[o]])

(* What o was told to be in place no crash undoes.                         *)
AnswersKept ==
    \A o \in Calls : answer[o] = "REPLACED" => Among(o, durable[Target[o]])

IInv ==
    /\ TypeOK
    /\ WritesDoNotLock
    /\ PatchesAreSerial
    /\ StillExpected
    /\ AllSynced
    /\ TrueVerdicts
    /\ AnswersKept

-----------------------------------------------------------------------------
(* What the steps do to the versions of a file.                            *)

LEMMA LogTypes ==
  ASSUME TypeOK
  PROVE  \A f \in Paths :
           /\ log[f] \in Seq(Version) /\ Len(log[f]) \in Nat
           /\ durable[f] \in Nat \ {0} /\ durable[f] <= Len(log[f])
<1> TAKE f \in Paths
<1>1. log[f] \in Seq(Version)
  BY DEF TypeOK
<1>2. Len(log[f]) \in Nat
  BY <1>1
<1> QED
  BY <1>1, <1>2 DEF TypeOK

(* A rename adds one version, of the target of the call, behind the others.*)
LEMMA RenameAdds ==
  ASSUME TypeOK, NEW o \in Calls, Replaces(o)
  PROVE  /\ temp[o] \in FileStates => log' \in [Paths -> Seq(Version)]
         /\ \A f \in Paths : f # Target[o] => log'[f] = log[f]
         /\ Len(log'[Target[o]]) = Len(log[Target[o]]) + 1
         /\ \A i \in 1 .. Len(log[Target[o]]) : log'[Target[o]][i] = log[Target[o]][i]
         /\ log'[Target[o]][Len(log[Target[o]]) + 1] =
              [by |-> o, value |-> New[o], state |-> temp[o]]
<1> DEFINE new == [by |-> o, value |-> New[o], state |-> temp[o]]
<1>1. Target[o] \in Paths /\ New[o] \in Contents
  BY FilePatchAssumption DEF Calls
<1>2. log \in [Paths -> Seq(Version)] /\ log[Target[o]] \in Seq(Version)
  BY <1>1 DEF TypeOK
<1>3. log' = [log EXCEPT ![Target[o]] = Append(@, new)]
  BY DEF Replaces
<1>4. log'[Target[o]] = Append(log[Target[o]], new)
      /\ \A f \in Paths : f # Target[o] => log'[f] = log[f]
  BY <1>1, <1>2, <1>3
<1>5. temp[o] \in FileStates => new \in Version
  BY <1>1 DEF Version
<1>6. temp[o] \in FileStates => log' \in [Paths -> Seq(Version)]
  <2> HIDE DEF new
  <2> QED
    BY <1>1, <1>2, <1>3, <1>5
<1> HIDE DEF new
<1>7. /\ Len(Append(log[Target[o]], new)) = Len(log[Target[o]]) + 1
      /\ \A i \in 1 .. Len(log[Target[o]]) :
           Append(log[Target[o]], new)[i] = log[Target[o]][i]
      /\ Append(log[Target[o]], new)[Len(log[Target[o]]) + 1] = new
  BY <1>2
<1> QED
  BY <1>4, <1>6, <1>7 DEF new

(* A crash keeps a prefix of every file's versions, the durable ones among *)
(* them, and leaves those that were synchronised as they are.              *)
LEMMA CrashCuts ==
  ASSUME TypeOK, HostCrashes
  PROVE  /\ log' \in [Paths -> Seq(Version)]
         /\ durable' \in [Paths -> Nat \ {0}]
         /\ \A f \in Paths :
              /\ Len(log'[f]) = durable'[f]
              /\ durable'[f] \in durable[f] .. Len(log[f])
              /\ \A i \in 1 .. Len(log'[f]) :
                   /\ log'[f][i].by = log[f][i].by
                   /\ log'[f][i].value = log[f][i].value
                   /\ log[f][i].state = "synced" => log'[f][i] = log[f][i]
<1>1. PICK kept \in [Paths -> UNION {1 .. Len(log[f]) : f \in Paths}] :
        /\ \A f \in Paths : kept[f] \in durable[f] .. Len(log[f])
        /\ log' = [f \in Paths |-> [i \in 1 .. kept[f] |-> AfterCrash(log[f][i])]]
        /\ durable' = kept
  BY DEF HostCrashes
<1>2. ASSUME NEW f \in Paths
      PROVE  /\ kept[f] \in Nat \ {0}
             /\ kept[f] \in durable[f] .. Len(log[f])
             /\ [i \in 1 .. kept[f] |-> AfterCrash(log[f][i])] \in Seq(Version)
             /\ Len([i \in 1 .. kept[f] |-> AfterCrash(log[f][i])]) = kept[f]
             /\ \A i \in 1 .. kept[f] :
                   /\ AfterCrash(log[f][i]).by = log[f][i].by
                   /\ AfterCrash(log[f][i]).value = log[f][i].value
                   /\ log[f][i].state = "synced" => AfterCrash(log[f][i]) = log[f][i]
  <2>1. /\ log[f] \in Seq(Version)
        /\ durable[f] \in Nat \ {0}
        /\ kept[f] \in durable[f] .. Len(log[f])
    BY <1>1 DEF TypeOK
  <2>2. kept[f] \in Nat \ {0} /\ kept[f] <= Len(log[f])
    BY <2>1
  <2>3. ASSUME NEW i \in 1 .. kept[f]
        PROVE  /\ AfterCrash(log[f][i]) \in Version
               /\ AfterCrash(log[f][i]).by = log[f][i].by
               /\ AfterCrash(log[f][i]).value = log[f][i].value
               /\ log[f][i].state = "synced" => AfterCrash(log[f][i]) = log[f][i]
    <3>1. log[f][i] \in Version
      BY <2>1, <2>2
    <3>2. AfterCrash(log[f][i]) =
            [log[f][i] EXCEPT !.state = IF @ = "synced" THEN @ ELSE "partial"]
      BY DEF AfterCrash
    <3>3. log[f][i].state = "synced" => AfterCrash(log[f][i]) = log[f][i]
      BY <3>1, <3>2 DEF Version
    <3> QED
      BY <3>1, <3>2, <3>3 DEF Version, FileStates
  <2>4. [i \in 1 .. kept[f] |-> AfterCrash(log[f][i])] \in Seq(Version)
    <3>1. [i \in 1 .. kept[f] |-> AfterCrash(log[f][i])] \in [1 .. kept[f] -> Version]
      BY <2>3
    <3>2. \A n \in Nat : [1 .. n -> Version] \subseteq Seq(Version)
      BY SeqDef, Zenon
    <3>3. [1 .. kept[f] -> Version] \subseteq Seq(Version)
      BY <2>2, <3>2, Zenon
    <3> QED
      BY <3>1, <3>3
  <2>5. Len([i \in 1 .. kept[f] |-> AfterCrash(log[f][i])]) = kept[f]
    BY <2>2
  <2> QED
    BY <2>1, <2>2, <2>3, <2>4, <2>5
<1>3. log' \in [Paths -> Seq(Version)] /\ durable' \in [Paths -> Nat \ {0}]
  BY <1>1, <1>2
<1>4. ASSUME NEW f \in Paths
      PROVE  /\ Len(log'[f]) = durable'[f]
             /\ durable'[f] \in durable[f] .. Len(log[f])
             /\ \A i \in 1 .. Len(log'[f]) :
                   /\ log'[f][i].by = log[f][i].by
                   /\ log'[f][i].value = log[f][i].value
                   /\ log[f][i].state = "synced" => log'[f][i] = log[f][i]
  <2>1. log'[f] = [i \in 1 .. kept[f] |-> AfterCrash(log[f][i])] /\ durable'[f] = kept[f]
    BY <1>1
  <2>2. \A i \in 1 .. kept[f] : log'[f][i] = AfterCrash(log[f][i])
    BY <2>1
  <2> QED
    BY <1>2, <2>1, <2>2
<1> QED
  BY <1>3, <1>4

(* Every other step leaves the versions alone.                             *)
LEMMA OthersKeep ==
  ASSUME NEW o \in Calls, Step(o), ~ Replaces(o)
  PROVE  log' = log /\ (Settles(o) \/ durable' = durable)
BY DEF Step, Begins, Refuses, Locks, Compares, Looks, Creates, Fills, Syncs, Settles, Fails,
       Unlocks, Exits, Killed, GivesUp

-----------------------------------------------------------------------------
(* Types, and who holds the lock.                                          *)

(* A helper that moves keeps the lock, takes it free or gives it back.     *)
HelperStates == [step : Steps, verdict : Verdicts]

LEMMA LockKept ==
  ASSUME TypeOK, WritesDoNotLock, NEW o \in Calls, NEW h \in HelperStates,
         helper' = [helper EXCEPT ![o] = h],
         o \in Writes => h.step \notin {"lock", "unlock"},
         \/ lock' = lock /\ (o \in Patches => (h.step \in Inside <=> helper[o].step \in Inside))
         \/ o \in Patches /\ lock = None /\ lock' = o /\ h.step \in Inside
         \/ o \in Patches /\ lock = o /\ lock' = None /\ h.step \notin Inside
  PROVE  /\ helper' \in [Calls -> HelperStates]
         /\ lock' \in Patches \cup {None}
         /\ \A p \in Patches : helper'[p].step \in Inside <=> lock' = p
         /\ WritesDoNotLock'
<1>1. helper \in [Calls -> HelperStates] /\ lock \in Patches \cup {None}
      /\ \A p \in Patches : helper[p].step \in Inside <=> lock = p
  BY DEF TypeOK, HelperStates
<1>2. /\ helper' \in [Calls -> HelperStates]
      /\ helper'[o] = h
      /\ \A q \in Calls : q # o => helper'[q] = helper[q]
  BY <1>1
<1>3. lock' \in Patches \cup {None}
  BY <1>1
<1>4. ASSUME NEW p \in Patches
      PROVE  helper'[p].step \in Inside <=> lock' = p
  <2>1. p \in Calls /\ p # None
    BY FilePatchAssumption DEF Calls
  <2>2. CASE p = o
    BY <1>1, <1>2, <2>1, <2>2
  <2>3. CASE p # o
    <3>1. helper'[p] = helper[p]
      BY <1>2, <2>1, <2>3
    <3> QED
      BY <1>1, <2>1, <2>3, <3>1
  <2> QED
    BY <2>2, <2>3
<1>5. WritesDoNotLock'
  BY <1>2, FilePatchAssumption DEF WritesDoNotLock, Calls
<1> QED
  BY <1>2, <1>3, <1>4, <1>5

(* Which of the three it is, and where the call gets to.                   *)
LEMMA HelperSteps ==
  ASSUME TypeOK, WritesDoNotLock, NEW o \in Calls, Step(o), ~ GivesUp(o)
  PROVE  \E h \in HelperStates :
           /\ helper' = [helper EXCEPT ![o] = h]
           /\ o \in Writes => h.step \notin {"lock", "unlock"}
           /\ \/ lock' = lock /\ (o \in Patches => (h.step \in Inside <=> helper[o].step \in Inside))
              \/ o \in Patches /\ lock = None /\ lock' = o /\ h.step \in Inside
              \/ o \in Patches /\ lock = o /\ lock' = None /\ h.step \notin Inside
<1> DEFINE at(step) == [helper[o] EXCEPT !.step = step]
           end(v) == [step |-> IF o \in Patches THEN "unlock" ELSE "exit", verdict |-> v]
<1> USE DEF HelperStates, Steps, Running, Inside, Reading, Filling, Verdicts, At
<1>1. /\ helper[o] \in HelperStates /\ helper \in [Calls -> HelperStates]
      /\ o \in Patches => (helper[o].step \in Inside <=> lock = o)
      /\ o \in Patches <=> o \notin Writes
      /\ o # None
  BY FilePatchAssumption DEF TypeOK, Calls
<1>2. ASSUME NEW step \in Steps
      PROVE  /\ at(step) \in HelperStates
             /\ at(step).step = step
             /\ Moves(o, step) <=> helper' = [helper EXCEPT ![o] = at(step)]
  <2>1. [helper EXCEPT ![o].step = step] = [helper EXCEPT ![o] = at(step)]
    BY <1>1
  <2> QED
    BY <1>1, <2>1 DEF Moves
<1>3. ASSUME NEW v \in Verdicts
      PROVE  /\ end(v) \in HelperStates
             /\ end(v).step = IF o \in Patches THEN "unlock" ELSE "exit"
             /\ Ends(o, v) <=> helper' = [helper EXCEPT ![o] = end(v)]
  BY DEF Ends
<1>4. Gone \in HelperStates /\ Gone.step = "over"
  BY DEF Gone
<1> HIDE DEF at, end
<1>5. CASE Begins(o)
  BY <1>1, <1>2, <1>5 DEF Begins
<1>6. CASE Refuses(o)
  <2>1. [step |-> "exit", verdict |-> "REFUSED"] \in HelperStates
    OBVIOUS
  <2> QED
    BY <1>1, <1>6, <2>1 DEF Refuses
<1>7. CASE Locks(o)
  BY <1>1, <1>2, <1>7 DEF Locks, LockFree, WritesDoNotLock
<1>8. CASE Compares(o)
  BY <1>1, <1>2, <1>3, <1>8 DEF Compares
<1>9. CASE Looks(o)
  BY <1>1, <1>2, <1>3, <1>9 DEF Looks
<1>10. CASE Creates(o) \/ Fills(o) \/ Syncs(o) \/ Replaces(o)
  BY <1>1, <1>2, <1>10 DEF Creates, Fills, Syncs, Replaces
<1>11. CASE Settles(o) \/ Fails(o)
  BY <1>1, <1>3, <1>11 DEF Settles, Fails
<1>12. CASE Unlocks(o)
  BY <1>1, <1>2, <1>12 DEF Unlocks, WritesDoNotLock
<1>13. CASE Exits(o)
  BY <1>1, <1>4, <1>13 DEF Exits
<1>14. CASE Killed(o)
  BY <1>1, <1>4, <1>14 DEF Killed, TypeOK
<1> QED
  BY <1>5, <1>6, <1>7, <1>8, <1>9, <1>10, <1>11, <1>12, <1>13, <1>14 DEF Step

LEMMA TypeKept ==
  ASSUME TypeOK, WritesDoNotLock, AllSynced, Next
  PROVE  TypeOK' /\ WritesDoNotLock'
<1>1. CASE HostCrashes
  <2>1. log' \in [Paths -> Seq(Version)] /\ durable' \in [Paths -> Nat \ {0}]
        /\ \A f \in Paths : durable'[f] <= Len(log'[f])
    <3>1. \A f \in Paths : durable'[f] \in Nat /\ Len(log'[f]) = durable'[f]
      BY <1>1, CrashCuts
    <3> QED
      BY <1>1, <3>1, CrashCuts
  <2>2. lock' = None /\ None \notin Patches /\ temp' = temp
    BY <1>1, FilePatchAssumption DEF HostCrashes, Calls
  <2>3. helper' \in [Calls -> HelperStates] /\ answer' \in [Calls -> Answers]
    BY <1>1 DEF HostCrashes, TypeOK, HelperStates, Gone, Steps, Verdicts, Answers
  <2>4. \A o \in Calls : helper'[o].step \notin Running
    BY <1>1 DEF HostCrashes, Gone, Running, Inside, Reading, Filling
  <2>5. crashes' \in 0 .. MaxCrashes
    BY <1>1, FilePatchAssumption DEF HostCrashes, TypeOK
  <2>6. \A p \in Patches : helper'[p].step \notin Inside
    BY <2>4 DEF Running, Calls
  <2>7. WritesDoNotLock'
    BY <2>4 DEF WritesDoNotLock, Running, Inside, Calls
  <2> QED
    BY <2>1, <2>2, <2>3, <2>5, <2>6, <2>7 DEF TypeOK, HelperStates
<1>2. ASSUME NEW o \in Calls, Step(o)
      PROVE  TypeOK' /\ WritesDoNotLock'
  <2>1. /\ helper' \in [Calls -> HelperStates]
        /\ lock' \in Patches \cup {None}
        /\ \A p \in Patches : helper'[p].step \in Inside <=> lock' = p
        /\ WritesDoNotLock'
    <3>1. CASE GivesUp(o)
      BY <3>1 DEF GivesUp, TypeOK, HelperStates, WritesDoNotLock
    <3>2. CASE ~ GivesUp(o)
      <4>1. PICK h \in HelperStates :
           /\ helper' = [helper EXCEPT ![o] = h]
           /\ o \in Writes => h.step \notin {"lock", "unlock"}
           /\ \/ lock' = lock /\ (o \in Patches => (h.step \in Inside <=> helper[o].step \in Inside))
              \/ o \in Patches /\ lock = None /\ lock' = o /\ h.step \in Inside
              \/ o \in Patches /\ lock = o /\ lock' = None /\ h.step \notin Inside
        BY <1>2, <3>2, HelperSteps
      <4> QED
        BY <4>1, LockKept
    <3> QED
      BY <3>1, <3>2
  <2>2. log' \in [Paths -> Seq(Version)] /\ \A f \in Paths : Len(log[f]) <= Len(log'[f])
    <3>1. CASE Replaces(o)
      <4>1. temp[o] \in FileStates
        BY <3>1 DEF Replaces, AllSynced, At, FileStates
      <4>2. /\ log' \in [Paths -> Seq(Version)]
            /\ \A f \in Paths : f # Target[o] => log'[f] = log[f]
            /\ Len(log'[Target[o]]) = Len(log[Target[o]]) + 1
        BY <3>1, <4>1, RenameAdds
      <4>3. \A f \in Paths : Len(log[f]) \in Nat
        BY LogTypes
      <4>4. ASSUME NEW f \in Paths
            PROVE  Len(log[f]) <= Len(log'[f])
        BY <4>2, <4>3
      <4> QED
        BY <4>2, <4>4
    <3>2. CASE ~ Replaces(o)
      <4>1. \A f \in Paths : Len(log[f]) \in Nat
        BY LogTypes
      <4> QED
        BY <1>2, <3>2, <4>1, OthersKeep DEF TypeOK
    <3> QED
      BY <3>1, <3>2
  <2>3. durable' \in [Paths -> Nat \ {0}] /\ \A f \in Paths : durable'[f] <= Len(log'[f])
    <3>1. CASE Settles(o)
      <4>1. /\ log' = log
            /\ durable' = [durable EXCEPT ![Target[o]] = Len(log[Target[o]])]
        BY <3>1 DEF Settles, DirectorySynced
      <4>2. \A f \in Paths : /\ Len(log[f]) \in Nat
                             /\ durable[f] \in Nat \ {0}
                             /\ durable[f] <= Len(log[f])
        BY LogTypes
      <4>3. \A f \in Paths : durable'[f] \in {durable[f], Len(log[f])}
        BY <4>1 DEF TypeOK
      <4>4. durable' \in [Paths -> Nat \ {0}]
        <5>1. Len(log[Target[o]]) \in Nat \ {0}
          BY <4>2, FilePatchAssumption
        <5> QED
          BY <4>1, <5>1 DEF TypeOK
      <4> QED
        BY <4>1, <4>2, <4>3, <4>4
    <3>2. CASE ~ Settles(o)
      <4>1. durable' = durable
        <5>1. CASE Replaces(o)
          BY <5>1 DEF Replaces
        <5> QED
          BY <1>2, <3>2, <5>1, OthersKeep
      <4>2. \A f \in Paths : /\ Len(log[f]) \in Nat /\ Len(log'[f]) \in Nat
                             /\ durable[f] \in Nat
                             /\ durable[f] <= Len(log[f])
        BY <2>2 DEF TypeOK
      <4> QED
        BY <2>2, <4>1, <4>2 DEF TypeOK
    <3> QED
      BY <3>1, <3>2
  <2>4. temp' \in [Calls -> FileStates \cup {None}]
    BY <1>2 DEF TypeOK, Step, Begins, Refuses, Locks, Compares, Looks, Creates, Fills, Syncs,
         TempSynced, Replaces, Settles, Fails, Unlocks, Exits, Killed, GivesUp, FileStates
  <2>5. answer' \in [Calls -> Answers]
    BY <1>2 DEF TypeOK, Step, Begins, Refuses, Locks, Compares, Looks, Creates, Fills, Syncs,
         Replaces, Settles, Fails, Unlocks, Exits, Killed, GivesUp, Told, Answers
  <2>6. crashes' \in 0 .. MaxCrashes
    BY <1>2 DEF TypeOK, Step, Begins, Refuses, Locks, Compares, Looks, Creates, Fills, Syncs,
         Replaces, Settles, Fails, Unlocks, Exits, Killed, GivesUp
  <2> QED
    BY <2>1, <2>2, <2>3, <2>4, <2>5, <2>6 DEF TypeOK, HelperStates
<1> QED
  BY <1>1, <1>2 DEF Next

-----------------------------------------------------------------------------
(* The patches of a file.                                                  *)

(* Whether the first n versions have what a patch expects depends on them  *)
(* only.                                                                   *)
LEMMA SamePrefix ==
  ASSUME NEW o, NEW s, NEW t, NEW n \in Nat,
         \A i \in 1 .. n : s[i].by = t[i].by /\ s[i].value = t[i].value,
         Follows(o, s, n)
  PROVE  Follows(o, t, n)
<1>1. PICK k \in 1 .. n :
        /\ s[k].value = Expected[o]
        /\ \A m \in k + 1 .. n : s[m].by \in Writes
  BY DEF Follows
<1>2. \A m \in k + 1 .. n : m \in 1 .. n
  OBVIOUS
<1> QED
  BY <1>1, <1>2 DEF Follows

(* Only the patch that holds the lock is past its comparison.              *)
LEMMA OneCompares ==
  ASSUME TypeOK, NEW p \in Patches, NEW q \in Patches,
         helper[p].step \in Comparing, helper[q].step \in Comparing
  PROVE  p = q
BY DEF TypeOK, Comparing, Filling, Inside, Reading

LEMMA SerialKept ==
  ASSUME TypeOK, PatchesAreSerial, StillExpected, Next
  PROVE  PatchesAreSerial' /\ StillExpected'
<1>0. \A f \in Paths : log[f] \in Seq(Version) /\ Len(log[f]) \in Nat
  BY LogTypes
<1>1. CASE HostCrashes
  <2>1. ASSUME NEW f \in Paths
        PROVE  /\ Len(log'[f]) \in Nat
               /\ Len(log'[f]) <= Len(log[f])
               /\ \A i \in 1 .. Len(log'[f]) :
                    log'[f][i].by = log[f][i].by /\ log'[f][i].value = log[f][i].value
    <3>1. durable[f] \in Nat /\ Len(log'[f]) \in durable[f] .. Len(log[f])
      BY <1>1, CrashCuts DEF TypeOK
    <3> QED
      BY <1>0, <1>1, <3>1, CrashCuts
  <2>2. ASSUME NEW f \in Paths, NEW i \in 2 .. Len(log'[f]), log'[f][i].by \in Patches
        PROVE  Follows(log'[f][i].by, log'[f], i - 1)
    <3>1. i \in 2 .. Len(log[f]) /\ i - 1 \in Nat /\ i \in 1 .. Len(log'[f])
      BY <1>0, <2>1
    <3>2. log'[f][i].by = log[f][i].by
      BY <2>1, <3>1
    <3>3. Follows(log[f][i].by, log[f], i - 1)
      BY <2>2, <3>1, <3>2 DEF PatchesAreSerial
    <3>4. \A j \in 1 .. i - 1 :
            log[f][j].by = log'[f][j].by /\ log[f][j].value = log'[f][j].value
      BY <2>1, <3>1
    <3> QED
      BY <3>1, <3>2, <3>3, <3>4, SamePrefix
  <2>3. StillExpected'
    BY <1>1 DEF HostCrashes, StillExpected, Comparing, Filling, Running, Inside, Reading, Gone,
         Calls
  <2> QED
    BY <2>2, <2>3 DEF PatchesAreSerial
<1>2. ASSUME NEW o \in Calls, Step(o), ~ Replaces(o)
      PROVE  PatchesAreSerial' /\ StillExpected'
  <2>1. log' = log
    BY <1>2, OthersKeep
  <2>2. ASSUME NEW p \in Patches, helper'[p].step \in Comparing
        PROVE  Follows(p, log[Target[p]], Len(log[Target[p]]))
    <3>0. p \in Calls /\ Target[p] \in Paths /\ p \notin Writes
      BY FilePatchAssumption DEF Calls
    <3>1. CASE helper[p].step \in Comparing
      BY <3>1 DEF StillExpected
    <3>2. CASE helper[p].step \notin Comparing
      <4>1. o = p /\ Compares(p) /\ Present(Target[p]).value = Expected[p]
        BY <1>2, <2>2, <3>0, <3>2 DEF TypeOK, Step, Begins, Refuses, Locks, Compares, Looks,
           Creates, Fills, Syncs, Settles, Fails, Unlocks, Exits, Killed, GivesUp, Moves, Ends,
           At, Gone, Comparing, Filling
      <4>2. Len(log[Target[p]]) \in 1 .. Len(log[Target[p]])
        <5>1. durable[Target[p]] \in Nat \ {0} /\ durable[Target[p]] <= Len(log[Target[p]])
          BY <3>0 DEF TypeOK
        <5> QED
          BY <1>0, <3>0, <5>1
      <4>3. \A m \in Len(log[Target[p]]) + 1 .. Len(log[Target[p]]) : FALSE
        BY <1>0, <3>0
      <4> QED
        BY <4>1, <4>2, <4>3 DEF Follows, Present
    <3> QED
      BY <3>1, <3>2
  <2> QED
    BY <2>1, <2>2 DEF PatchesAreSerial, StillExpected
<1>3. ASSUME NEW o \in Calls, Replaces(o)
      PROVE  PatchesAreSerial' /\ StillExpected'
  <2> DEFINE f == Target[o]
             n == Len(log[f])
  <2>0. f \in Paths /\ n \in Nat
    BY <1>0, FilePatchAssumption
  <2>1. /\ \A g \in Paths : g # f => log'[g] = log[g]
        /\ Len(log'[f]) = n + 1
        /\ \A i \in 1 .. n : log'[f][i] = log[f][i]
        /\ log'[f][n + 1].by = o
    <3>1. /\ \A g \in Paths : g # Target[o] => log'[g] = log[g]
          /\ Len(log'[Target[o]]) = Len(log[Target[o]]) + 1
          /\ \A i \in 1 .. Len(log[Target[o]]) : log'[Target[o]][i] = log[Target[o]][i]
          /\ log'[Target[o]][Len(log[Target[o]]) + 1] =
               [by |-> o, value |-> New[o], state |-> temp[o]]
      BY <1>3, RenameAdds
    <3> QED
      BY <3>1
  <2>2. o \in Patches => Follows(o, log[f], n)
    BY <1>3 DEF Replaces, At, StillExpected, Comparing, Filling
  <2>3. ASSUME NEW q, NEW m \in 0 .. n, Follows(q, log[f], m)
        PROVE  Follows(q, log'[f], m)
    <3>1. m \in Nat /\ \A i \in 1 .. m : i \in 1 .. n
      BY <2>0
    <3> HIDE DEF f, n
    <3> QED
      BY <2>1, <2>3, <3>1, SamePrefix
  <2>4. ASSUME NEW g \in Paths, NEW i \in 2 .. Len(log'[g]), log'[g][i].by \in Patches
        PROVE  Follows(log'[g][i].by, log'[g], i - 1)
    <3>1. CASE g # f
      BY <2>1, <2>4, <3>1 DEF PatchesAreSerial
    <3>2. CASE g = f /\ i = n + 1
      BY <2>0, <2>1, <2>2, <2>3, <2>4, <3>2
    <3>3. CASE g = f /\ i # n + 1
      <4>1. i \in 2 .. n /\ i \in 1 .. n /\ i - 1 \in 0 .. n
        BY <2>0, <2>1, <2>4, <3>3
      <4>2. log'[f][i] = log[f][i]
        BY <2>1, <4>1
      <4>3. Follows(log[f][i].by, log[f], i - 1)
        BY <2>0, <2>4, <3>3, <4>1, <4>2 DEF PatchesAreSerial
      <4> QED
        BY <2>3, <3>3, <4>1, <4>2, <4>3
    <3> QED
      BY <3>1, <3>2, <3>3
  <2>5. ASSUME NEW p \in Patches, helper'[p].step \in Comparing
        PROVE  Follows(p, log'[Target[p]], Len(log'[Target[p]]))
    <3>1. p \in Calls /\ Target[p] \in Paths
      BY FilePatchAssumption DEF Calls
    <3>2. p # o /\ helper[p] = helper'[p]
      BY <1>3, <2>5, <3>1 DEF Replaces, Moves, TypeOK, Comparing, Filling
    <3>3. Follows(p, log[Target[p]], Len(log[Target[p]]))
      BY <2>5, <3>2 DEF StillExpected
    <3>4. CASE Target[p] # f
      BY <2>1, <3>1, <3>3, <3>4
    <3>5. CASE Target[p] = f
      <4>1. o \notin Patches
        BY <1>3, <2>5, <3>2, OneCompares DEF Replaces, At, Comparing, Filling
      <4>2. o \in Writes
        BY <4>1 DEF Calls
      <4>3. PICK k \in 1 .. n :
              /\ log[f][k].value = Expected[p]
              /\ \A m \in k + 1 .. n : log[f][m].by \in Writes
        BY <3>3, <3>5 DEF Follows
      <4>4. k \in 1 .. n + 1 /\ log'[f][k].value = Expected[p]
        BY <2>0, <2>1, <4>3
      <4>5. ASSUME NEW m \in k + 1 .. n + 1
            PROVE  log'[f][m].by \in Writes
        <5>1. CASE m = n + 1
          BY <2>1, <4>2, <5>1
        <5>2. CASE m # n + 1
          <6>1. m \in k + 1 .. n /\ m \in 1 .. n
            BY <2>0, <4>3, <4>5, <5>2
          <6> QED
            BY <2>1, <4>3, <6>1
        <5> QED
          BY <5>1, <5>2
      <4> QED
        BY <2>1, <3>5, <4>4, <4>5 DEF Follows
    <3> QED
      BY <3>4, <3>5
  <2> QED
    BY <2>4, <2>5 DEF PatchesAreSerial, StillExpected
<1> QED
  BY <1>1, <1>2, <1>3 DEF Next

-----------------------------------------------------------------------------
(* What a crash leaves.                                                    *)

LEMMA SyncedKept ==
  ASSUME TypeOK, AllSynced, Next
  PROVE  AllSynced'
<1>0. \A f \in Paths : log[f] \in Seq(Version) /\ Len(log[f]) \in Nat
  BY LogTypes
<1>1. CASE HostCrashes
  <2>1. ASSUME NEW f \in Paths, NEW i \in 1 .. Len(log'[f])
        PROVE  log'[f][i].state = "synced"
    <3>1. durable[f] \in Nat /\ Len(log'[f]) \in durable[f] .. Len(log[f])
      BY <1>1, CrashCuts, LogTypes
    <3>2. i \in 1 .. Len(log[f])
      BY <1>0, <3>1
    <3> QED
      BY <1>1, <3>2, CrashCuts DEF AllSynced
  <2>2. \A o \in Calls : helper'[o].step # "rename"
    BY <1>1 DEF HostCrashes, Running, Inside, Filling, Gone
  <2> QED
    BY <2>1, <2>2 DEF AllSynced
<1>2. ASSUME NEW o \in Calls, Step(o)
      PROVE  AllSynced'
  <2>1. \A c \in Calls : helper'[c].step = "rename" => temp'[c] = "synced"
    BY <1>2 DEF AllSynced, TypeOK, Step, Begins, Refuses, Locks, Compares, Looks, Creates, Fills,
       Syncs, TempSynced, Replaces, Settles, Fails, Unlocks, Exits, Killed, GivesUp, Moves, Ends,
       At, Gone
  <2>2. CASE Replaces(o)
    <3>1. temp[o] = "synced"
      BY <2>2 DEF Replaces, AllSynced, At
    <3>2. /\ \A g \in Paths : g # Target[o] => log'[g] = log[g]
          /\ Len(log'[Target[o]]) = Len(log[Target[o]]) + 1
          /\ \A i \in 1 .. Len(log[Target[o]]) : log'[Target[o]][i] = log[Target[o]][i]
          /\ log'[Target[o]][Len(log[Target[o]]) + 1].state = temp[o]
      <4>1. /\ \A g \in Paths : g # Target[o] => log'[g] = log[g]
            /\ Len(log'[Target[o]]) = Len(log[Target[o]]) + 1
            /\ \A i \in 1 .. Len(log[Target[o]]) : log'[Target[o]][i] = log[Target[o]][i]
            /\ log'[Target[o]][Len(log[Target[o]]) + 1] =
                 [by |-> o, value |-> New[o], state |-> temp[o]]
        BY <2>2, RenameAdds
      <4> QED
        BY <4>1
    <3>3. ASSUME NEW g \in Paths, NEW i \in 1 .. Len(log'[g])
          PROVE  log'[g][i].state = "synced"
      <4>1. CASE g # Target[o]
        BY <3>2, <4>1 DEF AllSynced
      <4>2. CASE g = Target[o] /\ i = Len(log[g]) + 1
        BY <3>1, <3>2, <4>2
      <4>3. CASE g = Target[o] /\ i # Len(log[g]) + 1
        <5>1. i \in 1 .. Len(log[g])
          BY <1>0, <3>2, <3>3, <4>3
        <5> QED
          BY <3>2, <4>3, <5>1 DEF AllSynced
      <4> QED
        BY <4>1, <4>2, <4>3
    <3> QED
      BY <2>1, <3>3 DEF AllSynced
  <2>3. CASE ~ Replaces(o)
    BY <1>2, <2>1, <2>3, OthersKeep DEF AllSynced
  <2> QED
    BY <2>2, <2>3
<1> QED
  BY <1>1, <1>2 DEF Next

(* A version among the durable ones stays among them.                      *)
LEMMA DurableStays ==
  ASSUME TypeOK, AllSynced, Next, NEW c \in Calls, Among(c, durable[Target[c]])
  PROVE  Among(c, durable[Target[c]])'
<1> DEFINE f == Target[c]
<1>0. /\ f \in Paths
      /\ log[f] \in Seq(Version) /\ Len(log[f]) \in Nat
      /\ durable[f] \in Nat \ {0} /\ durable[f] <= Len(log[f])
  BY LogTypes, FilePatchAssumption
<1>1. PICK i \in 1 .. durable[f] : log[f][i].by = c
  BY DEF Among
<1>2. CASE HostCrashes
  <2>1. durable'[f] \in durable[f] .. Len(log[f]) /\ Len(log'[f]) = durable'[f]
    BY <1>0, <1>2, CrashCuts
  <2>2. i \in 1 .. durable'[f] /\ i \in 1 .. Len(log'[f])
    BY <1>0, <2>1
  <2>3. log'[f][i].by = log[f][i].by
    BY <1>0, <1>2, <2>2, CrashCuts
  <2> QED
    BY <1>1, <2>2, <2>3 DEF Among
<1>3. ASSUME NEW o \in Calls, Step(o)
      PROVE  Among(c, durable[Target[c]])'
  <2>1. i \in 1 .. Len(log[f])
    BY <1>0
  <2>2. log'[f][i] = log[f][i]
    <3>1. CASE Replaces(o)
      <4>1. CASE f = Target[o]
        <5>1. \A j \in 1 .. Len(log[Target[o]]) : log'[Target[o]][j] = log[Target[o]][j]
          BY <3>1, RenameAdds
        <5> QED
          BY <2>1, <4>1, <5>1
      <4>2. CASE f # Target[o]
        BY <1>0, <3>1, <4>2, RenameAdds
      <4> QED
        BY <4>1, <4>2
    <3> QED
      BY <1>3, <3>1, OthersKeep
  <2>3. i \in 1 .. durable'[f]
    <3>1. CASE Settles(o)
      <4>1. durable' = [durable EXCEPT ![Target[o]] = Len(log[Target[o]])]
        BY <3>1 DEF Settles, DirectorySynced
      <4>2. durable'[f] \in {durable[f], Len(log[f])}
        BY <1>0, <4>1 DEF TypeOK
      <4> QED
        BY <2>1, <4>2
    <3>2. CASE ~ Settles(o)
      <4>1. durable' = durable
        BY <1>3, <3>2, OthersKeep DEF Replaces
      <4> QED
        BY <4>1
    <3> QED
      BY <3>1, <3>2
  <2> QED
    BY <1>1, <2>2, <2>3 DEF Among
<1> QED
  BY <1>2, <1>3 DEF Next

LEMMA VerdictsKept ==
  ASSUME TypeOK, AllSynced, TrueVerdicts, AnswersKept, Next
  PROVE  TrueVerdicts' /\ AnswersKept'
<1>0. \A c \in Calls : AnswersKept /\ answer[c] = "REPLACED" => Among(c, durable[Target[c]])
  BY DEF AnswersKept, Among
<1>1. CASE HostCrashes
  <2>1. ASSUME NEW c \in Calls
        PROVE  /\ helper'[c].step # "settle"
               /\ helper'[c].verdict = "REPLACED" => helper[c].verdict = "REPLACED"
               /\ answer'[c] = "REPLACED" => answer[c] = "REPLACED"
    BY <1>1, FilePatchAssumption DEF HostCrashes, Running, Inside, Gone
  <2> QED
    BY <1>0, <2>1, DurableStays DEF TrueVerdicts, AnswersKept, Among
<1>2. ASSUME NEW o \in Calls, Step(o)
      PROVE  TrueVerdicts' /\ AnswersKept'
  <2>1. ASSUME NEW c \in Calls, answer'[c] = "REPLACED"
        PROVE  answer[c] = "REPLACED" \/ helper[c].verdict = "REPLACED"
    BY <1>2, <2>1, FilePatchAssumption DEF TypeOK, Step, Begins, Refuses, Locks, Compares, Looks, Creates, Fills,
       Syncs, Replaces, Settles, Fails, Unlocks, Exits, Killed, GivesUp, Told
  <2>2. ASSUME NEW c \in Calls, helper'[c].verdict = "REPLACED"
        PROVE  helper[c].verdict = "REPLACED" \/ (c = o /\ Settles(o))
    BY <1>2, <2>2, FilePatchAssumption DEF TypeOK, Step, Begins, Refuses, Locks, Compares, Looks, Creates, Fills,
       Syncs, Replaces, Settles, Fails, Unlocks, Exits, Killed, GivesUp, Moves, Ends, Gone
  <2>3. ASSUME NEW c \in Calls, helper'[c].step = "settle"
        PROVE  helper[c].step = "settle" \/ (c = o /\ Replaces(o))
    BY <1>2, <2>3 DEF TypeOK, Step, Begins, Refuses, Locks, Compares, Looks, Creates, Fills,
       Syncs, Replaces, Settles, Fails, Unlocks, Exits, Killed, GivesUp, Moves, Ends, Gone
  <2>4. ASSUME NEW c \in Calls, helper'[c].step = "settle"
        PROVE  Among(c, Len(log[Target[c]]))'
    <3>0. /\ Target[c] \in Paths /\ Len(log[Target[c]]) \in Nat
      BY LogTypes, FilePatchAssumption
    <3>1. CASE c = o /\ Replaces(o)
      <4>1. /\ Len(log'[Target[o]]) = Len(log[Target[o]]) + 1
            /\ log'[Target[o]][Len(log[Target[o]]) + 1].by = o
        <5>1. log'[Target[o]][Len(log[Target[o]]) + 1] =
                [by |-> o, value |-> New[o], state |-> temp[o]]
          BY <3>1, RenameAdds
        <5> QED
          BY <3>1, <5>1, RenameAdds
      <4>2. Len(log[Target[o]]) + 1 \in 1 .. Len(log'[Target[o]])
        BY <3>0, <3>1, <4>1
      <4> QED
        BY <3>1, <4>1, <4>2 DEF Among
    <3>2. CASE helper[c].step = "settle"
      <4>1. PICK i \in 1 .. Len(log[Target[c]]) : log[Target[c]][i].by = c
        BY <3>2 DEF TrueVerdicts, Among
      <4>2. log'[Target[c]][i] = log[Target[c]][i] /\ i \in 1 .. Len(log'[Target[c]])
        <5>1. CASE Replaces(o) /\ Target[o] = Target[c]
          <6>1. /\ Len(log'[Target[o]]) = Len(log[Target[o]]) + 1
                /\ \A j \in 1 .. Len(log[Target[o]]) : log'[Target[o]][j] = log[Target[o]][j]
            BY <5>1, RenameAdds
          <6> QED
            BY <3>0, <5>1, <6>1
        <5>2. CASE Replaces(o) /\ Target[o] # Target[c]
          BY <3>0, <5>2, RenameAdds
        <5>3. CASE ~ Replaces(o)
          BY <1>2, <5>3, OthersKeep
        <5> QED
          BY <5>1, <5>2, <5>3
      <4> QED
        BY <4>1, <4>2 DEF Among
    <3> QED
      BY <2>3, <2>4, <3>1, <3>2
  <2>5. ASSUME Settles(o)
        PROVE  Among(o, durable[Target[o]])'
    <3>1. /\ log' = log
          /\ durable' = [durable EXCEPT ![Target[o]] = Len(log[Target[o]])]
          /\ helper[o].step = "settle"
      BY <2>5 DEF Settles, DirectorySynced, At
    <3>2. durable'[Target[o]] = Len(log[Target[o]])
      BY <3>1, FilePatchAssumption DEF TypeOK
    <3>3. Among(o, Len(log[Target[o]]))
      BY <3>1 DEF TrueVerdicts
    <3> QED
      BY <3>1, <3>2, <3>3 DEF Among
  <2>6. \A c \in Calls : Among(c, durable[Target[c]]) => Among(c, durable[Target[c]])'
    BY DurableStays
  <2>7. TrueVerdicts'
    BY <2>2, <2>4, <2>5, <2>6 DEF TrueVerdicts
  <2>8. \A c \in Calls : answer'[c] = "REPLACED" => Among(c, durable[Target[c]])'
    BY <1>0, <2>1, <2>6 DEF TrueVerdicts
  <2> QED
    BY <2>7, <2>8 DEF AnswersKept, Among
<1> QED
  BY <1>1, <1>2 DEF Next

-----------------------------------------------------------------------------

(* The inductive invariant holds in every reachable state.                 *)
THEOREM InvariantHolds == Spec => []IInv
<1>1. Init => IInv
  <2> SUFFICES ASSUME Init PROVE IInv
    OBVIOUS
  <2>1. \A f \in Paths : /\ log[f] = <<[by |-> None, value |-> Initially[f], state |-> "synced"]>>
                         /\ Len(log[f]) = 1
                         /\ log[f] \in Seq(Version)
    <3> TAKE f \in Paths
    <3>1. [by |-> None, value |-> Initially[f], state |-> "synced"] \in Version
      BY FilePatchAssumption DEF Version, FileStates
    <3>2. log[f] = <<[by |-> None, value |-> Initially[f], state |-> "synced"]>>
      BY DEF Init
    <3> QED
      BY <3>1, <3>2
  <2>2. log \in [Paths -> Seq(Version)]
    BY <2>1 DEF Init
  <2>3. TypeOK
    <3>1. /\ helper \in [Calls -> [step : Steps, verdict : Verdicts]]
          /\ \A p \in Patches : helper[p].step \in Inside <=> lock = p
      BY FilePatchAssumption DEF Init, Steps, Running, Inside, Reading, Filling, Verdicts, Calls
    <3>2. durable \in [Paths -> Nat \ {0}]
      BY DEF Init
    <3>4. \A f \in Paths : durable[f] <= Len(log[f])
      <4>1. \A f \in Paths : durable[f] = 1
        BY DEF Init
      <4>2. \A f \in Paths : Len(log[f]) = 1
        BY <2>1
      <4>3. 1 <= 1
        OBVIOUS
      <4>4. ASSUME NEW f \in Paths
            PROVE  durable[f] <= Len(log[f])
        BY <4>1, <4>2, <4>3, Zenon
      <4> QED
        BY <4>4
    <3>3. /\ temp \in [Calls -> FileStates \cup {None}]
          /\ answer \in [Calls -> Answers]
          /\ crashes \in 0 .. MaxCrashes
          /\ lock \in Patches \cup {None}
      BY FilePatchAssumption DEF Init, Answers, Verdicts
    <3> QED
      BY <2>2, <3>1, <3>2, <3>3, <3>4, Zenon DEF TypeOK
  <2>4. PatchesAreSerial
    <3>1. ASSUME NEW f \in Paths, NEW i \in 2 .. Len(log[f])
          PROVE  FALSE
      <4>1. Len(log[f]) = 1
        BY <2>1, Zenon
      <4>2. i \in 2 .. 1
        BY <3>1, <4>1, Zenon
      <4> QED
        BY <4>2
    <3> QED
      BY <3>1 DEF PatchesAreSerial
  <2>5. WritesDoNotLock /\ StillExpected /\ TrueVerdicts /\ AnswersKept
    BY FilePatchAssumption DEF Init, WritesDoNotLock, StillExpected, TrueVerdicts,
       AnswersKept, Comparing, Filling, Calls
  <2>6. AllSynced
    BY <2>1 DEF Init, AllSynced
  <2> QED
    BY <2>3, <2>4, <2>5, <2>6 DEF IInv
<1>2. IInv /\ [Next]_vars => IInv'
  <2> SUFFICES ASSUME IInv, [Next]_vars PROVE IInv'
    OBVIOUS
  <2>1. CASE Next
    BY <2>1, TypeKept, SerialKept, SyncedKept, VerdictsKept DEF IInv
  <2>2. CASE UNCHANGED vars
    BY <2>2 DEF vars, IInv, TypeOK, WritesDoNotLock, PatchesAreSerial, StillExpected, AllSynced,
       TrueVerdicts, AnswersKept, Among
  <2> QED
    BY <2>1, <2>2
<1> QED
  BY <1>1, <1>2, PTL DEF Spec

(* Types; and a patch is past the lock exactly when it holds it.           *)
THEOREM TypeCorrect == Spec => []TypeOK
<1>1. IInv => TypeOK
  BY DEF IInv
<1> QED
  BY <1>1, InvariantHolds, PTL

(* No patch undoes another unseen.                                         *)
THEOREM PatchesSerial == Spec => []PatchesAreSerial
<1>1. IInv => PatchesAreSerial
  BY DEF IInv
<1> QED
  BY <1>1, InvariantHolds, PTL

(* A file holds a whole content at any time, after a crash too.            *)
THEOREM WholeFiles == Spec => []FilesAreWhole
<1>1. IInv => FilesAreWhole
  <2> SUFFICES ASSUME IInv, NEW f \in Paths PROVE Present(f).state = "synced"
    BY DEF FilesAreWhole
  <2>1. Len(log[f]) \in 1 .. Len(log[f])
    <3>1. Len(log[f]) \in Nat /\ durable[f] \in Nat \ {0} /\ durable[f] <= Len(log[f])
      BY LogTypes DEF IInv
    <3> QED
      BY <3>1
  <2> QED
    BY <2>1 DEF Present, IInv, AllSynced
<1> QED
  BY <1>1, InvariantHolds, PTL

(* What a caller was told to be in place is never undone by a crash.       *)
THEOREM DurableAnswers == Spec => []AnsweredIsDurable
<1>1. IInv => AnsweredIsDurable
  <2> SUFFICES ASSUME IInv, NEW o \in Calls, answer[o] = "REPLACED"
               PROVE  \E i \in 1 .. durable[Target[o]] :
                        log[Target[o]][i].by = o /\ log[Target[o]][i].state = "synced"
    BY DEF AnsweredIsDurable
  <2>1. Target[o] \in Paths
    BY FilePatchAssumption
  <2>2. /\ Len(log[Target[o]]) \in Nat /\ durable[Target[o]] \in Nat
        /\ durable[Target[o]] <= Len(log[Target[o]])
    BY <2>1, LogTypes DEF IInv
  <2>3. PICK i \in 1 .. durable[Target[o]] : log[Target[o]][i].by = o
    BY DEF IInv, AnswersKept, Among
  <2>4. i \in 1 .. Len(log[Target[o]])
    BY <2>2, <2>3
  <2>5. log[Target[o]][i].state = "synced"
    BY <2>1, <2>4 DEF IInv, AllSynced
  <2> QED
    BY <2>3, <2>5
<1> QED
  BY <1>1, InvariantHolds, PTL

-----------------------------------------------------------------------------
(* Cron profiles.                                                          *)

(* A text in which pairs are whole.                                        *)
Whole(text) ==
    /\ \A i, j \in DOMAIN text :
         /\ text[i].kind = "marker" /\ text[j].kind = "marker"
         /\ text[i].profile = text[j].profile
         => i = j
    /\ \A i \in DOMAIN text :
         /\ text[i].kind = "marker"
            => i < Len(text) /\ text[i + 1] = Job(text[i].content)
         /\ text[i].kind = "job" => i > 1 /\ text[i - 1].kind = "marker"

(* What a text says of a profile: nothing, or the content of its marker.   *)
Said(text, p) == {text[i].content : i \in Markers(text, p)}

Active == {"read", "install", "reconcile"}

(* What an invocation carries while it needs it.                           *)
Formed(e) ==
    /\ e.step # "idle" => e.op \in {"upsert", "remove"} /\ e.profile \in Profiles
    /\ e.step \in {"idle", "read"} => e.request = "none"
    /\ e.step \in {"install", "reconcile"} => e.request # "none"
    /\ e.step = "reconcile" => e.op = "upsert"
    /\ e.op = "upsert" /\ (e.step \in Active \/ e.request = "sent")
       => e.content \in CronContents
    /\ e.reply = "REMOVED" => e.step = "done"

(* Of two invocations of one operation on one profile, one has ended.      *)
Exclusive ==
    \A c, d \in Callers :
        /\ call[c].op = call[d].op /\ call[c].profile = call[d].profile
        /\ call[c].step \in Active /\ call[d].step \in Active
        => c = d

Clean(p) ==
    \A c \in Callers : call[c].profile = p /\ call[c].step = "done" => Definite(c)

(* An upsert between its two writes.                                       *)
Writing(c, p) == /\ call[c].op = "upsert" /\ call[c].profile = p
                 /\ call[c].step \in {"install", "reconcile"}

(* A removal that may have taken the pair away and not yet the record.     *)
Takes(r, p) ==
    /\ call[r].op = "remove" /\ call[r].profile = p
    /\ call[r].step = "install"
    /\ call[r].request \in {"installed", "unverified", "failed"}

Removing(p) == \E r \in Callers : Takes(r, p)

(* Record and crontab agree, but for a removal that is under way or done.  *)
Stands(p, record) ==
    IF record = NoRecord THEN Said(crontab, p) = {} \/ Removed(p)
    ELSE Removing(p) \/ Said(crontab, p) = {record.content}

(* An upsert that is writing has its candidate in the store, unless a      *)
(* removal has taken it; while its install has not been executed the       *)
(* record it replaced is the one that agrees with the crontab.             *)
WriterInv(u, p) ==
    /\ records[p] \in {Candidate(u), NoRecord}
    /\ records[p] = NoRecord => Removed(p)
    /\ records[p] = Candidate(u) /\ call[u].request \in {"sent", "conflict"}
       => Stands(p, call[u].previous)
    /\ records[p] = Candidate(u) /\ call[u].request = "installed"
       => Stands(p, Candidate(u))
    /\ call[u].request = "sent"
       => Said(crontab, p) \in {{}, Said(call[u].text, p)}

(* An install that is still to come after a definite answer says what the  *)
(* text it was computed from says already.                                 *)
LateInv(c, p) ==
    call[c].profile = p /\ call[c].step = "done" /\ call[c].request = "sent"
    => /\ call[c].op = "upsert"
       /\ Said(call[c].text, p) = {call[c].content}

Agreed(p) ==
    /\ (\A c \in Callers : ~Writing(c, p)) => Stands(p, records[p])
    /\ \A c \in Callers : Writing(c, p) => WriterInv(c, p)
    /\ \A c \in Callers : LateInv(c, p)

Listed == {p \in Profiles : records[p] # NoRecord}

CronInv ==
    /\ CronTypeOK
    /\ IsFiniteSet(Listed)
    /\ \A c \in Callers : Formed(call[c])
    /\ Exclusive
    /\ ~torn => /\ Whole(crontab)
                /\ \A p \in Profiles : Clean(p) => Agreed(p)
-----------------------------------------------------------------------------
(* Texts                                                                   *)

(* What the lines of a text are made of.                                   *)
LEMMA LineKinds ==
    ASSUME NEW l \in Line
    PROVE  /\ l.kind \in {"marker", "job", "foreign"}
           /\ l.kind = "marker" => l.profile \in Profiles /\ l.content \in CronContents
BY DEF Line, Marker, Job, ForeignLine

(* In a whole text a marker and its job line are neighbours.               *)
LEMMA Neighbours ==
    ASSUME NEW t \in Seq(Line), Whole(t), NEW i \in 1 .. Len(t)
    PROVE  /\ t[i].kind = "marker"
              => i < Len(t) /\ i + 1 \in 1 .. Len(t) /\ t[i + 1].kind = "job"
           /\ t[i].kind = "job"
              => i > 1 /\ i - 1 \in 1 .. Len(t) /\ t[i - 1].kind = "marker"
<1>1. i \in DOMAIN t /\ Len(t) \in Nat
  OBVIOUS
<1>2. ASSUME t[i].kind = "marker"
      PROVE  i < Len(t) /\ t[i + 1] = Job(t[i].content)
  BY <1>1, <1>2 DEF Whole
<1>3. \A v : Job(v).kind = "job"
  BY DEF Job
<1>4. ASSUME t[i].kind = "job" PROVE i > 1 /\ t[i - 1].kind = "marker"
  BY <1>1, <1>4 DEF Whole
<1> QED
  BY <1>1, <1>2, <1>3, <1>4

(* A text picked from a whole one is whole if with a marker it has the     *)
(* line after it and with a job line the line before it.                   *)
LEMMA PickedWhole ==
    ASSUME NEW t \in Seq(Line), Whole(t), NEW u \in Seq(Line),
           NEW f \in [1 .. Len(u) -> 1 .. Len(t)],
           \A k \in 1 .. Len(u) : u[k] = t[f[k]],
           \A j, k \in 1 .. Len(u) : f[j] = f[k] => j = k,
           \A k \in 1 .. Len(u) :
             /\ t[f[k]].kind = "marker" => k < Len(u) /\ f[k + 1] = f[k] + 1
             /\ t[f[k]].kind = "job" => k > 1 /\ f[k - 1] = f[k] - 1
    PROVE  Whole(u)
<1>1. DOMAIN u = 1 .. Len(u) /\ DOMAIN t = 1 .. Len(t)
  OBVIOUS
<1>2. Len(u) \in Nat /\ Len(t) \in Nat
  OBVIOUS
<1>3. ASSUME NEW i \in DOMAIN u, NEW j \in DOMAIN u,
             u[i].kind = "marker", u[j].kind = "marker",
             u[i].profile = u[j].profile
      PROVE  i = j
  <2>1. f[i] \in DOMAIN t /\ f[j] \in DOMAIN t
    BY <1>1
  <2>2. f[i] = f[j]
    BY <1>1, <1>3, <2>1 DEF Whole
  <2> QED
    BY <1>1, <2>2
<1>4. ASSUME NEW i \in DOMAIN u, u[i].kind = "marker"
      PROVE  i < Len(u) /\ u[i + 1] = Job(u[i].content)
  <2>1. f[i] \in DOMAIN t /\ t[f[i]].kind = "marker"
    BY <1>1, <1>4
  <2>2. t[f[i] + 1] = Job(t[f[i]].content)
    BY <2>1 DEF Whole
  <2>3. i < Len(u) /\ f[i + 1] = f[i] + 1 /\ i + 1 \in 1 .. Len(u)
    BY <1>1, <1>2, <2>1
  <2> QED
    BY <1>1, <2>2, <2>3
<1>5. ASSUME NEW i \in DOMAIN u, u[i].kind = "job"
      PROVE  i > 1 /\ u[i - 1].kind = "marker"
  <2>1. f[i] \in DOMAIN t /\ t[f[i]].kind = "job"
    BY <1>1, <1>5
  <2>2. t[f[i] - 1].kind = "marker"
    BY <2>1 DEF Whole
  <2>3. i > 1 /\ f[i - 1] = f[i] - 1 /\ i - 1 \in 1 .. Len(u)
    BY <1>1, <1>2, <2>1
  <2> QED
    BY <1>1, <2>2, <2>3
<1> QED
  BY <1>3, <1>4, <1>5 DEF Whole

(* And it says of a profile what the whole one says, if it has its marker. *)
LEMMA PickedSays ==
    ASSUME NEW t \in Seq(Line), NEW u \in Seq(Line), NEW q,
           NEW f \in [1 .. Len(u) -> 1 .. Len(t)],
           \A k \in 1 .. Len(u) : u[k] = t[f[k]],
           \A i \in Markers(t, q) : \E k \in 1 .. Len(u) : f[k] = i
    PROVE  Said(u, q) = Said(t, q)
<1>1. DOMAIN u = 1 .. Len(u) /\ DOMAIN t = 1 .. Len(t)
  OBVIOUS
<1>2. ASSUME NEW k \in Markers(u, q) PROVE u[k].content \in Said(t, q)
  <2>1. f[k] \in Markers(t, q) /\ u[k] = t[f[k]]
    BY <1>1 DEF Markers
  <2> QED
    BY <2>1 DEF Said
<1>3. ASSUME NEW i \in Markers(t, q) PROVE t[i].content \in Said(u, q)
  <2>1. PICK k \in 1 .. Len(u) : f[k] = i
    OBVIOUS
  <2>2. k \in Markers(u, q) /\ u[k] = t[i]
    BY <1>1, <2>1 DEF Markers
  <2> QED
    BY <2>2 DEF Said
<1> QED
  BY <1>2, <1>3 DEF Said

(* Lines picked in their order, with every line of others among them, keep *)
(* the lines of others in their places.                                    *)
LEMMA PickedForeign ==
    ASSUME NEW t \in Seq(Line), NEW u \in Seq(Line),
           NEW f \in [1 .. Len(u) -> 1 .. Len(t)],
           \A k \in 1 .. Len(u) : u[k] = t[f[k]],
           \A j, k \in 1 .. Len(u) : j <= k <=> f[j] <= f[k],
           \A i \in Others(t) : \E k \in 1 .. Len(u) : f[k] = i
    PROVE  ForeignLines(u) = ForeignLines(t)
<1>1. /\ DOMAIN u = 1 .. Len(u) /\ DOMAIN t = 1 .. Len(t)
      /\ Len(u) \in Nat /\ Len(t) \in Nat
  OBVIOUS
<1>2. Others(u) \subseteq 1 .. Len(u) /\ Others(t) \subseteq 1 .. Len(t)
  BY <1>1 DEF Others
<1>3. \A k \in Others(u) : f[k] \in Others(t)
  BY <1>1 DEF Others
<1>4. \A i \in Others(t) : \E k \in Others(u) : f[k] = i
  BY <1>1 DEF Others
<1>5. \A j, k \in 1 .. Len(u) : f[j] = f[k] => j = k
  <2> SUFFICES ASSUME NEW j \in 1 .. Len(u), NEW k \in 1 .. Len(u), f[j] = f[k]
               PROVE  j = k
    OBVIOUS
  <2>1. f[j] \in 1 .. Len(t) /\ f[j] <= f[k] /\ f[k] <= f[j]
    BY <1>1
  <2>2. j <= k /\ k <= j
    BY <2>1
  <2> QED
    BY <1>1, <2>2
<1>6. ASSUME NEW k \in Others(u)
      PROVE  Place(k, u) = Place(f[k], t)
  <2> DEFINE A == {j \in Others(u) : j <= k}
             B == {j \in Others(t) : j <= f[k]}
             g == [j \in A |-> f[j]]
  <2>1. A \subseteq 1 .. Len(u) /\ A \subseteq Others(u)
    BY <1>2
  <2>2. IsFiniteSet(A)
    <3> HIDE DEF A
    <3>1. IsFiniteSet(1 .. Len(u))
      BY <1>1, FS_Interval
    <3> QED
      BY <2>1, <3>1, FS_Subset
  <2>3. \A j \in A : f[j] \in B
    BY <1>2, <1>3, <2>1
  <2>4. ASSUME NEW i \in B PROVE \E j \in A : f[j] = i
    <3>1. PICK j \in Others(u) : f[j] = i
      BY <1>4
    <3>2. j \in 1 .. Len(u) /\ k \in 1 .. Len(u) /\ f[j] <= f[k]
      BY <1>2, <3>1
    <3> QED
      BY <3>1, <3>2
  <2>5. g \in Bijection(A, B)
    <3>1. g \in [A -> B]
      BY <2>3
    <3>2. \A a, b \in A : g[a] = g[b] => a = b
      BY <1>5, <2>1
    <3>3. \A i \in B : \E a \in A : g[a] = i
      BY <2>4
    <3> HIDE DEF g, A, B
    <3>4. g \in Injection(A, B)
      BY <3>1, <3>2 DEF Injection, IsInjective
    <3>5. g \in Surjection(A, B)
      BY <3>1, <3>3 DEF Surjection
    <3> QED
      BY <3>4, <3>5 DEF Bijection
  <2>6. Place(k, u) = Cardinality(A) /\ Place(f[k], t) = Cardinality(B)
    BY DEF Place
  <2> HIDE DEF g, A, B
  <2> QED
    BY <2>2, <2>5, <2>6, FS_Bijection DEF ExistsBijection
<1>7. \A k \in Others(u) : u[k] = t[f[k]]
  BY <1>2
<1>8. ForeignLines(u) \subseteq ForeignLines(t)
  <2> SUFFICES ASSUME NEW k \in Others(u)
               PROVE  \E i \in Others(t) :
                        <<Place(k, u), u[k]>> = <<Place(i, t), t[i]>>
    BY DEF ForeignLines
  <2> QED
    BY <1>3, <1>6, <1>7
<1>9. ForeignLines(t) \subseteq ForeignLines(u)
  <2> SUFFICES ASSUME NEW i \in Others(t)
               PROVE  \E k \in Others(u) :
                        <<Place(i, t), t[i]>> = <<Place(k, u), u[k]>>
    BY DEF ForeignLines
  <2>1. PICK k \in Others(u) : f[k] = i
    BY <1>4
  <2> QED
    BY <1>6, <1>7, <2>1
<1> QED
  BY <1>8, <1>9

(* The line that goes with the marker of a profile is no line of others.   *)
LEMMA PairDropped ==
    ASSUME NEW t \in Seq(Line), NEW p,
           \A m \in Markers(t, p) : m < Len(t) => t[m + 1].kind # "foreign"
    PROVE  ForeignLines(WithoutPair(t, p)) = ForeignLines(t)
<1>1. CASE Markers(t, p) = {}
  BY <1>1 DEF WithoutPair
<1>2. CASE Markers(t, p) # {}
  <2> DEFINE i == CHOOSE m \in Markers(t, p) : TRUE
             a == SubSeq(t, 1, i - 1)
             b == SubSeq(t, i + 2, Len(t))
             u == a \o b
             rest == IF i = Len(t) THEN 0 ELSE Len(t) - i - 1
  <2>1. i \in Markers(t, p)
    BY <1>2
  <2>2. WithoutPair(t, p) = u
    BY <1>2 DEF WithoutPair
  <2> HIDE DEF i
  <2>3. /\ i \in 1 .. Len(t) /\ t[i].kind = "marker" /\ Len(t) \in Nat
        /\ i < Len(t) => t[i + 1].kind # "foreign"
    BY <2>1 DEF Markers
  <2>4. \A k \in 1 .. Len(t) : t[k] \in Line
    OBVIOUS
  <2>5. /\ a \in Seq(Line) /\ Len(a) = i - 1
        /\ \A k \in 1 .. i - 1 : a[k] = t[k]
    <3>1. 1 \in Int /\ i - 1 \in Int /\ \A k \in 1 .. i - 1 : t[k] \in Line
      BY <2>3, <2>4
    <3>2. /\ a \in Seq(Line)
          /\ Len(a) = IF 1 <= i - 1 THEN i - 1 - 1 + 1 ELSE 0
          /\ \A k \in 1 .. i - 1 - 1 + 1 : a[k] = t[1 + k - 1]
      BY <3>1, SubSeqProperties
    <3> HIDE DEF a
    <3> QED
      BY <2>3, <3>2
  <2>6. rest \in Nat
    BY <2>3
  <2>7. /\ b \in Seq(Line) /\ Len(b) = rest
        /\ \A k \in 1 .. rest : b[k] = t[i + 1 + k]
    <3>1. /\ i + 2 \in Int /\ Len(t) \in Int
          /\ \A k \in i + 2 .. Len(t) : t[k] \in Line
      BY <2>3, <2>4
    <3>2. /\ b \in Seq(Line)
          /\ Len(b) = IF i + 2 <= Len(t) THEN Len(t) - (i + 2) + 1 ELSE 0
          /\ \A k \in 1 .. Len(t) - (i + 2) + 1 : b[k] = t[i + 2 + k - 1]
      BY <3>1, SubSeqProperties
    <3> HIDE DEF b
    <3>3. \A k \in 1 .. rest :
            /\ i + 2 + k - 1 = i + 1 + k
            /\ k \in 1 .. Len(t) - (i + 2) + 1
      BY <2>3
    <3>4. Len(b) = rest
      BY <2>3, <3>2
    <3> QED
      BY <3>2, <3>3, <3>4
  <2> HIDE DEF a, b
  <2>8. /\ u \in Seq(Line) /\ Len(u) = Len(a) + Len(b)
        /\ \A k \in 1 .. Len(a) + Len(b) :
             u[k] = IF k <= Len(a) THEN a[k] ELSE b[k - Len(a)]
    BY <2>5, <2>7, ConcatProperties
  <2> HIDE DEF u
  <2>9. Len(u) = i - 1 + rest
    BY <2>3, <2>5, <2>7, <2>8
  <2>10. i < Len(t) => rest = Len(t) - i - 1
    BY <2>3
  <2>11. i = Len(t) => rest = 0
    OBVIOUS
  <2> HIDE DEF rest
  <2> DEFINE f == [k \in 1 .. Len(u) |-> IF k < i THEN k ELSE k + 2]
  <2>12. f \in [1 .. Len(u) -> 1 .. Len(t)]
    BY <2>3, <2>6, <2>9, <2>10, <2>11
  <2>13. \A k \in 1 .. Len(u) :
           /\ k < i => f[k] = k
           /\ k >= i => f[k] = k + 2
    BY <2>3
  <2> HIDE DEF f
  <2>14. ASSUME NEW k \in 1 .. Len(u) PROVE u[k] = t[f[k]]
    <3>1. CASE k < i
      <4>1. k \in 1 .. i - 1
        BY <2>3, <2>9, <3>1
      <4>2. k <= Len(a) /\ k \in 1 .. Len(a) + Len(b)
        BY <2>5, <2>8, <4>1
      <4>3. u[k] = a[k]
        BY <2>8, <4>2
      <4> QED
        BY <2>5, <2>13, <3>1, <4>1, <4>3
    <3>2. CASE k >= i
      <4>1. k - (i - 1) \in 1 .. rest /\ ~(k <= i - 1)
        BY <2>3, <2>6, <2>9, <3>2
      <4>2. u[k] = b[k - (i - 1)]
        BY <2>5, <2>7, <2>8, <2>9, <4>1
      <4>3. i + 1 + (k - (i - 1)) = k + 2
        BY <2>3
      <4>4. b[k - (i - 1)] = t[k + 2]
        BY <2>7, <4>1, <4>3
      <4> QED
        BY <2>13, <3>2, <4>2, <4>4
    <3> QED
      BY <2>3, <3>1, <3>2
  <2>15. ASSUME NEW j \in 1 .. Len(u), NEW k \in 1 .. Len(u)
         PROVE  j <= k <=> f[j] <= f[k]
    <3>1. /\ j < i => f[j] = j
          /\ j >= i => f[j] = j + 2
          /\ k < i => f[k] = k
          /\ k >= i => f[k] = k + 2
      BY <2>13
    <3>2. i \in Int /\ j \in Int /\ k \in Int
      BY <2>3
    <3> QED
      BY <3>1, <3>2
  <2>16. ASSUME NEW j \in Others(t) PROVE \E k \in 1 .. Len(u) : f[k] = j
    <3>1. j \in 1 .. Len(t) /\ t[j].kind = "foreign"
      BY DEF Others
    <3>2. j # i /\ j # i + 1
      BY <2>3, <3>1
    <3>3. CASE j < i
      <4>1. j \in 1 .. Len(u) /\ f[j] = j
        BY <2>3, <2>6, <2>9, <2>13, <3>1, <3>3
      <4> QED
        BY <4>1
    <3>4. CASE j > i + 1
      <4>1. j - 2 \in 1 .. Len(u) /\ f[j - 2] = j
        BY <2>3, <2>9, <2>10, <2>13, <3>1, <3>4
      <4> QED
        BY <4>1
    <3> QED
      BY <2>3, <3>1, <3>2, <3>3, <3>4
  <2>17. ForeignLines(u) = ForeignLines(t)
    BY <2>8, <2>12, <2>14, <2>15, <2>16, PickedForeign
  <2> QED
    BY <2>2, <2>17
<1> QED
  BY <1>1, <1>2

(* The marker of a profile and its job line go together, and nothing else. *)
LEMMA WithoutPairKeeps ==
    ASSUME NEW t \in Seq(Line), Whole(t), NEW p
    PROVE  /\ WithoutPair(t, p) \in Seq(Line)
           /\ Whole(WithoutPair(t, p))
           /\ Markers(WithoutPair(t, p), p) = {}
           /\ \A q : q # p => Said(WithoutPair(t, p), q) = Said(t, q)
           /\ ForeignLines(WithoutPair(t, p)) = ForeignLines(t)
<1>1. CASE Markers(t, p) = {}
  BY <1>1 DEF WithoutPair
<1>2. CASE Markers(t, p) # {}
  <2> DEFINE i == CHOOSE m \in Markers(t, p) : TRUE
             a == SubSeq(t, 1, i - 1)
             b == SubSeq(t, i + 2, Len(t))
             u == a \o b
  <2>1. i \in Markers(t, p)
    BY <1>2
  <2>2. WithoutPair(t, p) = u
    BY <1>2 DEF WithoutPair
  <2> HIDE DEF i
  <2>3. /\ i \in 1 .. Len(t) /\ t[i].kind = "marker" /\ t[i].profile = p
        /\ Len(t) \in Nat
    BY <2>1 DEF Markers
  <2>4. i < Len(t) /\ i + 1 \in 1 .. Len(t) /\ t[i + 1].kind = "job"
    BY <2>3, Neighbours
  <2>5. \A k \in 1 .. Len(t) : t[k] \in Line
    OBVIOUS
  <2>6. /\ a \in Seq(Line) /\ Len(a) = i - 1
        /\ \A k \in 1 .. i - 1 : a[k] = t[k]
    <3>1. 1 \in Int /\ i - 1 \in Int /\ \A k \in 1 .. i - 1 : t[k] \in Line
      BY <2>3, <2>5
    <3>2. /\ a \in Seq(Line)
          /\ Len(a) = IF 1 <= i - 1 THEN i - 1 - 1 + 1 ELSE 0
          /\ \A k \in 1 .. i - 1 - 1 + 1 : a[k] = t[1 + k - 1]
      BY <3>1, SubSeqProperties
    <3> HIDE DEF a
    <3> QED
      BY <2>3, <3>2
  <2>7. /\ b \in Seq(Line) /\ Len(b) = Len(t) - i - 1
        /\ \A k \in 1 .. Len(t) - i - 1 : b[k] = t[i + 1 + k]
    <3>1. /\ i + 2 \in Int /\ Len(t) \in Int
          /\ \A k \in i + 2 .. Len(t) : t[k] \in Line
      BY <2>3, <2>5
    <3>2. /\ b \in Seq(Line)
          /\ Len(b) = IF i + 2 <= Len(t) THEN Len(t) - (i + 2) + 1 ELSE 0
          /\ \A k \in 1 .. Len(t) - (i + 2) + 1 : b[k] = t[i + 2 + k - 1]
      BY <3>1, SubSeqProperties
    <3> HIDE DEF b
    <3>3. \A k \in 1 .. Len(t) - i - 1 : i + 2 + k - 1 = i + 1 + k
      BY <2>3
    <3>4. Len(t) - (i + 2) + 1 = Len(t) - i - 1
      BY <2>3
    <3>5. Len(b) = Len(t) - i - 1
      BY <2>3, <2>4, <3>2
    <3> QED
      BY <3>2, <3>3, <3>4, <3>5
  <2> HIDE DEF a, b
  <2>8. /\ u \in Seq(Line) /\ Len(u) = Len(a) + Len(b)
        /\ \A k \in 1 .. Len(a) + Len(b) :
             u[k] = IF k <= Len(a) THEN a[k] ELSE b[k - Len(a)]
    BY <2>6, <2>7, ConcatProperties
  <2> HIDE DEF u
  <2>9. Len(u) = Len(t) - 2
    BY <2>3, <2>6, <2>7, <2>8
  <2> DEFINE f == [k \in 1 .. Len(u) |-> IF k < i THEN k ELSE k + 2]
  <2>10. f \in [1 .. Len(u) -> 1 .. Len(t)]
    BY <2>3, <2>4, <2>9
  <2>11. \A k \in 1 .. Len(u) :
           /\ k < i => f[k] = k
           /\ k >= i => f[k] = k + 2
    BY <2>3
  <2> HIDE DEF f
  <2>12. ASSUME NEW k \in 1 .. Len(u) PROVE u[k] = t[f[k]]
    <3>1. CASE k < i
      <4>1. k \in 1 .. i - 1
        BY <2>3, <2>9, <3>1
      <4>2. k <= Len(a) /\ k \in 1 .. Len(a) + Len(b)
        BY <2>6, <2>8, <4>1
      <4>3. u[k] = a[k]
        BY <2>8, <4>2
      <4> QED
        BY <2>6, <2>11, <3>1, <4>1, <4>3
    <3>2. CASE k >= i
      <4>1. k - (i - 1) \in 1 .. Len(t) - i - 1 /\ ~(k <= i - 1)
        BY <2>3, <2>9, <3>2
      <4>2. u[k] = b[k - (i - 1)]
        BY <2>6, <2>7, <2>8, <2>9, <4>1
      <4>3. i + 1 + (k - (i - 1)) = k + 2
        BY <2>3
      <4>4. b[k - (i - 1)] = t[k + 2]
        BY <2>7, <4>1, <4>3
      <4> QED
        BY <2>11, <3>2, <4>2, <4>4
    <3> QED
      BY <2>3, <3>1, <3>2
  <2>13. \A j, k \in 1 .. Len(u) : f[j] = f[k] => j = k
    BY <2>3, <2>9, <2>11
  <2>14. ASSUME NEW k \in 1 .. Len(u), t[f[k]].kind = "marker"
         PROVE  k < Len(u) /\ f[k + 1] = f[k] + 1
    <3>1. f[k] \in 1 .. Len(t)
      BY <2>10
    <3>2. f[k] < Len(t) /\ t[f[k] + 1].kind = "job"
      BY <3>1, <2>14, Neighbours
    <3>3. f[k] + 1 # i
      BY <3>2, <2>3
    <3>4. k < Len(u)
      BY <2>3, <2>4, <2>9, <2>11, <3>2, <3>3
    <3>5. k + 1 \in 1 .. Len(u)
      BY <2>8, <3>4
    <3> QED
      BY <2>3, <2>11, <3>3, <3>4, <3>5
  <2>15. ASSUME NEW k \in 1 .. Len(u), t[f[k]].kind = "job"
         PROVE  k > 1 /\ f[k - 1] = f[k] - 1
    <3>1. f[k] \in 1 .. Len(t)
      BY <2>10
    <3>2. f[k] > 1 /\ t[f[k] - 1].kind = "marker"
      BY <3>1, <2>15, Neighbours
    <3>3. f[k] - 1 # i + 1
      BY <3>2, <2>4
    <3>4. CASE k < i
      <4>1. f[k] = k
        BY <2>11, <3>4
      <4>2. k > 1
        BY <3>2, <4>1
      <4>3. k - 1 \in 1 .. Len(u) /\ k - 1 < i
        BY <2>3, <2>9, <3>4, <4>2
      <4>4. f[k - 1] = k - 1
        BY <2>11, <4>3
      <4> QED
        BY <4>1, <4>2, <4>4
    <3>5. CASE k >= i
      <4>1. f[k] = k + 2
        BY <2>11, <3>5
      <4>2. k # i
        BY <2>3, <3>3, <4>1
      <4>3. k - 1 \in 1 .. Len(u) /\ k - 1 >= i
        BY <2>3, <2>9, <3>5, <4>2
      <4>4. f[k - 1] = k + 1
        BY <2>11, <4>3
      <4> QED
        BY <2>3, <3>5, <4>1, <4>2, <4>4
    <3> QED
      BY <2>3, <3>4, <3>5
  <2>16. Whole(u)
    BY <2>8, <2>10, <2>12, <2>13, <2>14, <2>15, PickedWhole
  <2>17. Markers(u, p) = {}
    <3> SUFFICES ASSUME NEW k \in Markers(u, p) PROVE FALSE
      OBVIOUS
    <3>1. k \in 1 .. Len(u) /\ u[k].kind = "marker" /\ u[k].profile = p
      BY <2>8 DEF Markers
    <3>2. f[k] \in DOMAIN t /\ i \in DOMAIN t
      BY <2>3, <2>10, <3>1
    <3>3. f[k] = i
      BY <2>3, <2>12, <3>1, <3>2 DEF Whole
    <3> QED
      BY <2>3, <2>9, <2>11, <3>1, <3>3
  <2>18. ASSUME NEW j \in 1 .. Len(t), j # i, j # i + 1
         PROVE  \E k \in 1 .. Len(u) : f[k] = j
    <3>1. CASE j < i
      <4>1. j \in 1 .. Len(u) /\ f[j] = j
        BY <2>3, <2>4, <2>9, <2>11, <3>1
      <4> QED
        BY <4>1
    <3>2. CASE j > i + 1
      <4>1. j - 2 \in 1 .. Len(u) /\ f[j - 2] = j
        BY <2>3, <2>9, <2>11, <3>2
      <4> QED
        BY <4>1
    <3> QED
      BY <2>3, <2>18, <3>1, <3>2
  <2>19. ASSUME NEW q, q # p PROVE Said(u, q) = Said(t, q)
    <3>1. ASSUME NEW j \in Markers(t, q)
          PROVE  \E k \in 1 .. Len(u) : f[k] = j
      <4>1. /\ j \in 1 .. Len(t) /\ t[j].kind = "marker" /\ t[j].profile = q
        BY DEF Markers
      <4>2. j # i /\ j # i + 1
        BY <2>3, <2>4, <2>19, <4>1
      <4> QED
        BY <2>18, <4>1, <4>2
    <3> QED
      BY <2>8, <2>10, <2>12, <3>1, PickedSays
  <2>20. ForeignLines(u) = ForeignLines(t)
    <3>1. \A m \in Markers(t, p) : m < Len(t) => t[m + 1].kind # "foreign"
      BY Neighbours DEF Markers
    <3> QED
      BY <2>2, <3>1, PairDropped
  <2> QED
    BY <2>2, <2>8, <2>16, <2>17, <2>19, <2>20
<1> QED
  BY <1>1, <1>2

(* A pair at the end leaves the lines of others where they are.            *)
LEMMA PairAtTheEnd ==
    ASSUME NEW s \in Seq(Line), NEW p \in Profiles, NEW v \in CronContents
    PROVE  ForeignLines(s \o <<Marker(p, v), Job(v)>>) = ForeignLines(s)
<1> DEFINE e == <<Marker(p, v), Job(v)>>
           u == s \o e
<1>1. /\ Marker(p, v) \in Line /\ Job(v) \in Line
      /\ Marker(p, v).kind = "marker" /\ Job(v).kind = "job"
  BY DEF Line, Marker, Job
<1>2. e \in Seq(Line) /\ Len(e) = 2 /\ e[1] = Marker(p, v) /\ e[2] = Job(v)
  BY <1>1
<1> HIDE DEF e
<1>3. /\ u \in Seq(Line) /\ Len(u) = Len(s) + Len(e)
      /\ \A k \in 1 .. Len(s) + Len(e) :
           u[k] = IF k <= Len(s) THEN s[k] ELSE e[k - Len(s)]
  BY <1>2, ConcatProperties
<1> HIDE DEF u
<1>4. /\ Len(s) \in Nat /\ Len(u) = Len(s) + 2
      /\ \A k \in 1 .. Len(s) : u[k] = s[k]
      /\ u[Len(s) + 1] = Marker(p, v) /\ u[Len(s) + 2] = Job(v)
  BY <1>2, <1>3
<1>5. DOMAIN u = 1 .. Len(s) + 2 /\ DOMAIN s = 1 .. Len(s)
  BY <1>3, <1>4
<1>6. Others(u) = Others(s)
  BY <1>1, <1>4, <1>5 DEF Others
<1>7. \A i \in Others(s) : u[i] = s[i]
  BY <1>4, <1>5 DEF Others
<1>8. ForeignLines(u) = ForeignLines(s)
  BY <1>6, <1>7 DEF ForeignLines, Place
<1> QED
  BY <1>8 DEF u, e

(* A pair at the end of a whole text that does not know the profile.       *)
LEMMA PairAppended ==
    ASSUME NEW s \in Seq(Line), Whole(s), NEW p \in Profiles,
           NEW v \in CronContents, Markers(s, p) = {}
    PROVE  LET u == s \o <<Marker(p, v), Job(v)>>
           IN  /\ u \in Seq(Line) /\ Whole(u) /\ Said(u, p) = {v}
               /\ \A q : q # p => Said(u, q) = Said(s, q)
               /\ ForeignLines(u) = ForeignLines(s)
<1> DEFINE e == <<Marker(p, v), Job(v)>>
           u == s \o e
<1>1. /\ Marker(p, v) \in Line /\ Job(v) \in Line
      /\ Marker(p, v).kind = "marker" /\ Marker(p, v).profile = p
      /\ Marker(p, v).content = v /\ Job(v).kind = "job"
  BY DEF Line, Marker, Job
<1>2. e \in Seq(Line) /\ Len(e) = 2 /\ e[1] = Marker(p, v) /\ e[2] = Job(v)
  BY <1>1
<1> HIDE DEF e
<1>3. /\ u \in Seq(Line) /\ Len(u) = Len(s) + Len(e)
      /\ \A k \in 1 .. Len(s) + Len(e) :
           u[k] = IF k <= Len(s) THEN s[k] ELSE e[k - Len(s)]
  BY <1>2, ConcatProperties
<1> HIDE DEF u
<1>4. /\ Len(s) \in Nat /\ Len(u) = Len(s) + 2
      /\ \A k \in 1 .. Len(s) : u[k] = s[k]
      /\ u[Len(s) + 1] = Marker(p, v) /\ u[Len(s) + 2] = Job(v)
  BY <1>2, <1>3
<1>5. DOMAIN u = 1 .. Len(s) + 2 /\ DOMAIN s = 1 .. Len(s)
  BY <1>3, <1>4
<1>6. \A k \in 1 .. Len(s) : s[k].kind = "marker" => s[k].profile # p
  BY <1>5 DEF Markers
<1>7. \A i \in DOMAIN u : u[i].kind = "marker" =>
        i \in 1 .. Len(s) \/ i = Len(s) + 1
  BY <1>1, <1>4, <1>5
<1>8. ASSUME NEW i \in DOMAIN u, NEW j \in DOMAIN u,
             u[i].kind = "marker", u[j].kind = "marker",
             u[i].profile = u[j].profile
      PROVE  i = j
  <2>1. CASE i \in 1 .. Len(s) /\ j \in 1 .. Len(s)
    BY <1>4, <1>5, <1>8, <2>1 DEF Whole
  <2>2. CASE i \in 1 .. Len(s) /\ j = Len(s) + 1
    BY <1>1, <1>4, <1>6, <1>8, <2>2
  <2>3. CASE i = Len(s) + 1 /\ j \in 1 .. Len(s)
    BY <1>1, <1>4, <1>6, <1>8, <2>3
  <2> QED
    BY <1>7, <1>8, <2>1, <2>2, <2>3
<1>9. ASSUME NEW i \in DOMAIN u, u[i].kind = "marker"
      PROVE  i < Len(u) /\ u[i + 1] = Job(u[i].content)
  <2>1. CASE i \in 1 .. Len(s)
    <3>1. s[i].kind = "marker" /\ u[i] = s[i]
      BY <1>4, <1>9, <2>1
    <3>2. i < Len(s) /\ s[i + 1] = Job(s[i].content)
      BY <1>5, <2>1, <3>1 DEF Whole
    <3>3. i + 1 \in 1 .. Len(s)
      BY <1>4, <2>1, <3>2
    <3> QED
      BY <1>4, <2>1, <3>1, <3>2, <3>3
  <2>2. CASE i = Len(s) + 1
    BY <1>1, <1>4, <2>2
  <2> QED
    BY <1>7, <1>9, <2>1, <2>2
<1>10. ASSUME NEW i \in DOMAIN u, u[i].kind = "job"
       PROVE  i > 1 /\ u[i - 1].kind = "marker"
  <2>1. CASE i \in 1 .. Len(s)
    <3>1. i > 1 /\ i - 1 \in 1 .. Len(s) /\ s[i - 1].kind = "marker"
      BY <1>4, <1>10, <2>1, Neighbours
    <3> QED
      BY <1>4, <3>1
  <2>2. CASE i = Len(s) + 1
    BY <1>1, <1>4, <1>10, <2>2
  <2>3. CASE i = Len(s) + 2
    <3>1. i - 1 = Len(s) + 1 /\ i > 1
      BY <1>4, <2>3
    <3> QED
      BY <1>1, <1>4, <3>1
  <2> QED
    BY <1>4, <1>5, <2>1, <2>2, <2>3
<1>11. Whole(u)
  BY <1>8, <1>9, <1>10 DEF Whole
<1>12. Markers(u, p) = {Len(s) + 1}
  BY <1>1, <1>4, <1>5, <1>6, <1>7 DEF Markers
<1>13. Said(u, p) = {v}
  BY <1>1, <1>4, <1>12 DEF Said
<1>14. ASSUME NEW q, q # p PROVE Said(u, q) = Said(s, q)
  <2>1. Markers(u, q) = Markers(s, q)
    BY <1>1, <1>4, <1>5, <1>7, <1>14 DEF Markers
  <2>2. \A i \in Markers(s, q) : u[i] = s[i]
    BY <1>4, <1>5 DEF Markers
  <2> QED
    BY <2>1, <2>2 DEF Said
<1>15. ForeignLines(u) = ForeignLines(s)
  BY PairAtTheEnd DEF u, e
<1> QED
  BY <1>3, <1>11, <1>13, <1>14, <1>15 DEF u, e

LEMMA WithPairKeeps ==
    ASSUME NEW t \in Seq(Line), Whole(t), NEW p \in Profiles, NEW v \in CronContents
    PROVE  /\ WithPair(t, p, v) \in Seq(Line)
           /\ Whole(WithPair(t, p, v))
           /\ Said(WithPair(t, p, v), p) = {v}
           /\ \A q : q # p => Said(WithPair(t, p, v), q) = Said(t, q)
           /\ ForeignLines(WithPair(t, p, v)) = ForeignLines(t)
<1> DEFINE s == WithoutPair(t, p)
<1>1. /\ s \in Seq(Line) /\ Whole(s) /\ Markers(s, p) = {}
      /\ \A q : q # p => Said(s, q) = Said(t, q)
      /\ ForeignLines(s) = ForeignLines(t)
  BY WithoutPairKeeps
<1>2. WithPair(t, p, v) = s \o <<Marker(p, v), Job(v)>>
  BY DEF WithPair
<1> HIDE DEF s
<1> QED
  BY <1>1, <1>2, PairAppended

(* A whole text is in sync with what it says.                              *)
LEMMA SyncIsSaid ==
    ASSUME NEW t \in Seq(Line), Whole(t), NEW p, NEW v
    PROVE  InSync(t, p, v) <=> Said(t, p) = {v}
<1>1. \A i, j \in Markers(t, p) : i = j
  BY DEF Whole, Markers
<1>2. CASE Markers(t, p) = {}
  <2>1. Said(t, p) = {} /\ Cardinality(Markers(t, p)) = 0
    BY <1>2, FS_EmptySet DEF Said
  <2> QED
    BY <2>1 DEF InSync
<1>3. ASSUME NEW i \in Markers(t, p)
      PROVE  InSync(t, p, v) <=> Said(t, p) = {v}
  <2>1. Markers(t, p) = {i}
    BY <1>1
  <2>2. Cardinality({i}) = 1
    BY FS_Singleton
  <2>3. Cardinality(Markers(t, p)) = 1
    BY <2>1, <2>2
  <2>4. Said(t, p) = {t[i].content}
    BY <2>1 DEF Said
  <2>5. i < Len(t) /\ t[i + 1] = Job(t[i].content)
    BY DEF Markers, Whole
  <2> QED
    BY <2>1, <2>3, <2>4, <2>5 DEF InSync
<1> QED
  BY <1>2, <1>3

(* And it has at most one marker of a profile.                             *)
LEMMA OneMarker ==
    ASSUME NEW t \in Seq(Line), Whole(t), NEW p
    PROVE  Cardinality(Markers(t, p)) <= 1
<1>1. \A i, j \in Markers(t, p) : i = j
  BY DEF Whole, Markers
<1>2. CASE Markers(t, p) = {}
  BY <1>2, FS_EmptySet
<1>3. ASSUME NEW i \in Markers(t, p)
      PROVE  Cardinality(Markers(t, p)) <= 1
  <2>1. Markers(t, p) = {i}
    BY <1>1
  <2>2. Cardinality({i}) = 1
    BY FS_Singleton
  <2> QED
    BY <2>1, <2>2
<1> QED
  BY <1>2, <1>3

(* Edits by hand that leave pairs alone: a foreign line is added at the    *)
(* end or in between, or taken out.                                        *)
LEMMA ForeignAppended ==
    ASSUME NEW t \in Seq(Line), Whole(t), NEW l \in Line, l.kind = "foreign"
    PROVE  /\ Append(t, l) \in Seq(Line) /\ Whole(Append(t, l))
           /\ \A q : Said(Append(t, l), q) = Said(t, q)
<1> DEFINE u == Append(t, l)
<1>1. /\ u \in Seq(Line) /\ Len(u) = Len(t) + 1
      /\ \A k \in 1 .. Len(t) : u[k] = t[k]
      /\ u[Len(t) + 1] = l
  BY AppendProperties
<1> HIDE DEF u
<1>2. /\ Len(t) \in Nat /\ DOMAIN t = 1 .. Len(t)
      /\ DOMAIN u = 1 .. Len(t) + 1
  BY <1>1
<1>3. \A i \in DOMAIN u :
        u[i].kind # "foreign" => i \in 1 .. Len(t) /\ u[i] = t[i]
  BY <1>1, <1>2
<1>4. \A i, j \in DOMAIN u :
        /\ u[i].kind = "marker" /\ u[j].kind = "marker"
        /\ u[i].profile = u[j].profile
        => i = j
  BY <1>2, <1>3 DEF Whole
<1>5. ASSUME NEW i \in DOMAIN u, u[i].kind = "marker"
      PROVE  i < Len(u) /\ u[i + 1] = Job(u[i].content)
  <2>1. i \in 1 .. Len(t) /\ u[i] = t[i]
    BY <1>3, <1>5
  <2>2. i < Len(t) /\ t[i + 1] = Job(t[i].content)
    BY <1>2, <1>5, <2>1 DEF Whole
  <2>3. i + 1 \in 1 .. Len(t)
    BY <1>2, <2>1, <2>2
  <2> QED
    BY <1>1, <1>2, <2>1, <2>2, <2>3
<1>6. ASSUME NEW i \in DOMAIN u, u[i].kind = "job"
      PROVE  i > 1 /\ u[i - 1].kind = "marker"
  <2>1. i \in 1 .. Len(t) /\ u[i] = t[i]
    BY <1>3, <1>6
  <2>2. i > 1 /\ i - 1 \in 1 .. Len(t) /\ t[i - 1].kind = "marker"
    BY <1>6, <2>1, Neighbours
  <2> QED
    BY <1>1, <2>2
<1>7. Whole(u)
  BY <1>4, <1>5, <1>6 DEF Whole
<1>8. ASSUME NEW q PROVE Said(u, q) = Said(t, q)
  <2>1. Markers(u, q) = Markers(t, q)
    BY <1>1, <1>2, <1>3 DEF Markers
  <2>2. \A i \in Markers(t, q) : u[i] = t[i]
    BY <1>1, <1>2 DEF Markers
  <2> QED
    BY <2>1, <2>2 DEF Said
<1> QED
  BY <1>1, <1>7, <1>8 DEF u

LEMMA ForeignInserted ==
    ASSUME NEW t \in Seq(Line), NEW k \in 0 .. Len(t), NEW l \in Line
    PROVE  LET u == SubSeq(t, 1, k) \o <<l>> \o SubSeq(t, k + 1, Len(t))
           IN  /\ u \in Seq(Line)
               /\ Whole(t) /\ l.kind = "foreign"
                     /\ (k > 0 => t[k].kind # "marker") =>
                    Whole(u) /\ \A q : Said(u, q) = Said(t, q)
<1> DEFINE a == SubSeq(t, 1, k)
           e == <<l>>
           b == SubSeq(t, k + 1, Len(t))
           ae == a \o e
<1>1. Len(t) \in Nat /\ \A i \in 1 .. Len(t) : t[i] \in Line
  OBVIOUS
<1>2. /\ a \in Seq(Line) /\ Len(a) = k
      /\ \A i \in 1 .. k : a[i] = t[i]
  <2>1. 1 \in Int /\ k \in Int /\ \A i \in 1 .. k : t[i] \in Line
    BY <1>1
  <2>2. /\ a \in Seq(Line)
        /\ Len(a) = IF 1 <= k THEN k - 1 + 1 ELSE 0
        /\ \A i \in 1 .. k - 1 + 1 : a[i] = t[1 + i - 1]
    BY <2>1, SubSeqProperties
  <2> HIDE DEF a
  <2> QED
    BY <1>1, <2>2
<1>3. /\ b \in Seq(Line) /\ Len(b) = Len(t) - k
      /\ \A i \in 1 .. Len(t) - k : b[i] = t[k + i]
  <2>1. /\ k + 1 \in Int /\ Len(t) \in Int
        /\ \A i \in k + 1 .. Len(t) : t[i] \in Line
    BY <1>1
  <2>2. /\ b \in Seq(Line)
        /\ Len(b) = IF k + 1 <= Len(t) THEN Len(t) - (k + 1) + 1 ELSE 0
        /\ \A i \in 1 .. Len(t) - (k + 1) + 1 : b[i] = t[k + 1 + i - 1]
    BY <2>1, SubSeqProperties
  <2> HIDE DEF b
  <2> QED
    BY <1>1, <2>2
<1>4. e \in Seq(Line) /\ Len(e) = 1 /\ e[1] = l
  OBVIOUS
<1> HIDE DEF a, b, e
<1>5. /\ ae \in Seq(Line) /\ Len(ae) = Len(a) + Len(e)
      /\ \A i \in 1 .. Len(a) + Len(e) :
           ae[i] = IF i <= Len(a) THEN a[i] ELSE e[i - Len(a)]
  BY <1>2, <1>4, ConcatProperties
<1> HIDE DEF ae
<1> DEFINE u == ae \o b
<1>6. /\ u \in Seq(Line) /\ Len(u) = Len(ae) + Len(b)
      /\ \A i \in 1 .. Len(ae) + Len(b) :
           u[i] = IF i <= Len(ae) THEN ae[i] ELSE b[i - Len(ae)]
  <2>1. ae \in Seq(Line) /\ b \in Seq(Line)
    BY <1>3, <1>5
  <2> QED
    BY <2>1, ConcatProperties
<1> HIDE DEF u
<1>7. Len(ae) = k + 1 /\ Len(u) = Len(t) + 1
  BY <1>1, <1>2, <1>3, <1>4, <1>5, <1>6
<1>8. \A i \in 1 .. k : u[i] = t[i]
  <2> SUFFICES ASSUME NEW i \in 1 .. k PROVE u[i] = t[i]
    OBVIOUS
  <2>1. i \in 1 .. Len(ae) + Len(b) /\ i <= Len(ae)
    BY <1>1, <1>3, <1>7
  <2>2. u[i] = ae[i]
    BY <1>6, <2>1
  <2>3. i \in 1 .. Len(a) + Len(e) /\ i <= Len(a)
    BY <1>2, <1>4
  <2> QED
    BY <1>2, <1>5, <2>2, <2>3
<1>9. u[k + 1] = l
  <2>1. k + 1 \in 1 .. Len(ae) + Len(b) /\ k + 1 <= Len(ae)
    BY <1>1, <1>3, <1>7
  <2>2. k + 1 \in 1 .. Len(a) + Len(e) /\ ~(k + 1 <= Len(a)) /\ k + 1 - Len(a) = 1
    BY <1>2, <1>4
  <2> QED
    BY <1>4, <1>5, <1>6, <2>1, <2>2
<1>10. \A i \in k + 1 .. Len(t) : u[i + 1] = t[i]
  <2> SUFFICES ASSUME NEW i \in k + 1 .. Len(t) PROVE u[i + 1] = t[i]
    OBVIOUS
  <2>1. /\ i + 1 \in 1 .. Len(ae) + Len(b) /\ ~(i + 1 <= Len(ae))
        /\ i + 1 - Len(ae) = i - k
    BY <1>1, <1>3, <1>7
  <2>2. u[i + 1] = b[i + 1 - Len(ae)]
    BY <1>6, <2>1
  <2>3. i - k \in 1 .. Len(t) - k /\ k + (i - k) = i
    BY <1>1
  <2> QED
    BY <1>3, <2>1, <2>2, <2>3
<1>11. ASSUME Whole(t), l.kind = "foreign", k > 0 => t[k].kind # "marker"
       PROVE  Whole(u) /\ \A q : Said(u, q) = Said(t, q)
  <2> DEFINE g == [i \in 1 .. Len(t) |-> IF i <= k THEN i ELSE i + 1]
  <2>1. /\ DOMAIN t = 1 .. Len(t) /\ DOMAIN u = 1 .. Len(t) + 1
        /\ k \in Nat
    <3>1. DOMAIN u = 1 .. Len(u)
      BY <1>6
    <3> QED
      BY <1>1, <1>7, <3>1
  <2>2. \A i \in 1 .. Len(t) :
          /\ i <= k => g[i] = i
          /\ i > k => g[i] = i + 1
          /\ g[i] \in DOMAIN u
    BY <1>1, <2>1
  <2> HIDE DEF g
  <2>3. \A i \in 1 .. Len(t) : u[g[i]] = t[i]
    BY <1>1, <1>8, <1>10, <2>1, <2>2
  <2>4. ASSUME NEW j \in DOMAIN u, u[j].kind # "foreign"
        PROVE  \E i \in 1 .. Len(t) : g[i] = j
    <3>1. j # k + 1
      BY <1>9, <1>11, <2>4
    <3>2. CASE j <= k
      <4>1. j \in 1 .. Len(t) /\ g[j] = j
        BY <1>1, <2>1, <2>2, <3>2
      <4> QED
        BY <4>1
    <3>3. CASE j > k + 1
      <4>1. j - 1 \in 1 .. Len(t) /\ g[j - 1] = j
        BY <1>1, <2>1, <2>2, <3>3
      <4> QED
        BY <4>1
    <3> QED
      BY <2>1, <3>1, <3>2, <3>3
  <2>5. ASSUME NEW i \in DOMAIN u, NEW j \in DOMAIN u,
               u[i].kind = "marker", u[j].kind = "marker",
               u[i].profile = u[j].profile
        PROVE  i = j
    <3>1. PICK m \in 1 .. Len(t) : g[m] = i
      BY <2>4, <2>5
    <3>2. PICK n \in 1 .. Len(t) : g[n] = j
      BY <2>4, <2>5
    <3>3. t[m] = u[i] /\ t[n] = u[j]
      BY <2>3, <3>1, <3>2
    <3>4. m = n
      BY <1>11, <2>1, <2>5, <3>3 DEF Whole
    <3> QED
      BY <3>1, <3>2, <3>4
  <2>6. ASSUME NEW j \in DOMAIN u, u[j].kind = "marker"
        PROVE  j < Len(u) /\ u[j + 1] = Job(u[j].content)
    <3>1. PICK i \in 1 .. Len(t) : g[i] = j
      BY <2>4, <2>6
    <3>2. t[i] = u[j]
      BY <2>3, <3>1
    <3>3. i < Len(t) /\ i + 1 \in 1 .. Len(t) /\ t[i + 1] = Job(t[i].content)
      BY <1>11, <2>1, <2>6, <3>2, Neighbours DEF Whole
    <3>4. i # k
      BY <1>11, <2>1, <2>6, <3>2
    <3>5. g[i + 1] = j + 1
      BY <1>1, <2>1, <2>2, <3>1, <3>3, <3>4
    <3>6. u[j + 1] = t[i + 1]
      BY <2>3, <3>3, <3>5
    <3>7. j + 1 \in DOMAIN u
      BY <2>2, <3>3, <3>5
    <3>8. j < Len(u)
      BY <1>7, <2>1, <3>7
    <3> QED
      BY <3>2, <3>3, <3>6, <3>8
  <2>7. ASSUME NEW j \in DOMAIN u, u[j].kind = "job"
        PROVE  j > 1 /\ u[j - 1].kind = "marker"
    <3>1. PICK i \in 1 .. Len(t) : g[i] = j
      BY <2>4, <2>7
    <3>2. t[i] = u[j]
      BY <2>3, <3>1
    <3>3. i > 1 /\ i - 1 \in 1 .. Len(t) /\ t[i - 1].kind = "marker"
      BY <1>11, <2>7, <3>2, Neighbours
    <3>4. i - 1 # k
      BY <1>11, <2>1, <3>3
    <3>5. g[i - 1] = j - 1
      BY <1>1, <2>1, <2>2, <3>1, <3>3, <3>4
    <3>6. u[j - 1] = t[i - 1]
      BY <2>3, <3>3, <3>5
    <3>7. j - 1 \in DOMAIN u
      BY <2>2, <3>3, <3>5
    <3> QED
      BY <2>1, <3>3, <3>6, <3>7
  <2>8. Whole(u)
    BY <2>5, <2>6, <2>7 DEF Whole
  <2>9. ASSUME NEW q PROVE Said(u, q) = Said(t, q)
    <3>1. \A j \in Markers(u, q) : \E i \in Markers(t, q) : u[j] = t[i]
      BY <2>1, <2>3, <2>4 DEF Markers
    <3>2. \A i \in Markers(t, q) : g[i] \in Markers(u, q) /\ u[g[i]] = t[i]
      BY <2>1, <2>2, <2>3 DEF Markers
    <3> QED
      BY <3>1, <3>2 DEF Said
  <2> QED
    BY <2>8, <2>9
<1> QED
  BY <1>6, <1>11 DEF u, ae, a, b, e

LEMMA LineDropped ==
    ASSUME NEW t \in Seq(Line), NEW i \in 1 .. Len(t)
    PROVE  LET u == SubSeq(t, 1, i - 1) \o SubSeq(t, i + 1, Len(t))
           IN  /\ u \in Seq(Line)
               /\ Whole(t) /\ t[i].kind = "foreign" =>
                    Whole(u) /\ \A q : Said(u, q) = Said(t, q)
<1> DEFINE a == SubSeq(t, 1, i - 1)
           b == SubSeq(t, i + 1, Len(t))
           u == a \o b
<1>1. \A k \in 1 .. Len(t) : t[k] \in Line
  OBVIOUS
<1>2. Len(t) \in Nat
  OBVIOUS
<1>3. /\ a \in Seq(Line) /\ Len(a) = i - 1
      /\ \A k \in 1 .. i - 1 : a[k] = t[k]
  <2>1. 1 \in Int /\ i - 1 \in Int /\ \A k \in 1 .. i - 1 : t[k] \in Line
    BY <1>1, <1>2
  <2>2. /\ a \in Seq(Line)
        /\ Len(a) = IF 1 <= i - 1 THEN i - 1 - 1 + 1 ELSE 0
        /\ \A k \in 1 .. i - 1 - 1 + 1 : a[k] = t[1 + k - 1]
    BY <2>1, SubSeqProperties
  <2> HIDE DEF a
  <2> QED
    BY <1>2, <2>2
<1>4. /\ b \in Seq(Line) /\ Len(b) = Len(t) - i
      /\ \A k \in 1 .. Len(t) - i : b[k] = t[i + k]
  <2>1. /\ i + 1 \in Int /\ Len(t) \in Int
        /\ \A k \in i + 1 .. Len(t) : t[k] \in Line
    BY <1>1, <1>2
  <2>2. /\ b \in Seq(Line)
        /\ Len(b) = IF i + 1 <= Len(t) THEN Len(t) - (i + 1) + 1 ELSE 0
        /\ \A k \in 1 .. Len(t) - (i + 1) + 1 : b[k] = t[i + 1 + k - 1]
    BY <2>1, SubSeqProperties
  <2> HIDE DEF b
  <2> QED
    BY <1>2, <2>2
<1> HIDE DEF a, b
<1>5. /\ u \in Seq(Line) /\ Len(u) = Len(a) + Len(b)
      /\ \A k \in 1 .. Len(a) + Len(b) :
           u[k] = IF k <= Len(a) THEN a[k] ELSE b[k - Len(a)]
  BY <1>3, <1>4, ConcatProperties
<1> HIDE DEF u
<1>6. Len(u) = Len(t) - 1
  BY <1>2, <1>3, <1>4, <1>5
<1> DEFINE f == [k \in 1 .. Len(u) |-> IF k < i THEN k ELSE k + 1]
<1>7. f \in [1 .. Len(u) -> 1 .. Len(t)]
  BY <1>2, <1>6
<1>8. \A k \in 1 .. Len(u) : /\ k < i => f[k] = k
                             /\ k >= i => f[k] = k + 1
  BY <1>2
<1> HIDE DEF f
<1>9. ASSUME NEW k \in 1 .. Len(u) PROVE u[k] = t[f[k]]
  <2>1. CASE k < i
    <3>1. u[k] = a[k] /\ k \in 1 .. i - 1
      BY <1>2, <1>3, <1>5, <2>1
    <3> QED
      BY <1>3, <1>8, <2>1, <3>1
  <2>2. CASE k >= i
    <3>1. u[k] = b[k - (i - 1)] /\ k - (i - 1) \in 1 .. Len(t) - i
      BY <1>2, <1>3, <1>4, <1>5, <1>6, <2>2
    <3>2. i + (k - (i - 1)) = k + 1
      BY <1>2
    <3> QED
      BY <1>4, <1>8, <2>2, <3>1, <3>2
  <2> QED
    BY <1>2, <2>1, <2>2
<1>10. \A j, k \in 1 .. Len(u) : f[j] = f[k] => j = k
  BY <1>2, <1>6, <1>8
<1>11. ASSUME Whole(t), t[i].kind = "foreign"
       PROVE  Whole(u) /\ \A q : Said(u, q) = Said(t, q)
  <2>1. ASSUME NEW k \in 1 .. Len(u), t[f[k]].kind = "marker"
        PROVE  k < Len(u) /\ f[k + 1] = f[k] + 1
    <3>1. f[k] \in 1 .. Len(t)
      BY <1>7
    <3>2. f[k] < Len(t) /\ t[f[k] + 1].kind = "job"
      BY <1>11, <2>1, <3>1, Neighbours
    <3>3. f[k] + 1 # i
      BY <1>11, <3>2
    <3>4. k < Len(u)
      BY <1>2, <1>6, <1>8, <3>2, <3>3
    <3>5. k + 1 \in 1 .. Len(u)
      BY <1>5, <3>4
    <3>6. CASE k < i
      <4>1. f[k] = k /\ k + 1 < i
        BY <1>2, <1>8, <3>3, <3>6
      <4>2. f[k + 1] = k + 1
        BY <1>8, <3>5, <4>1
      <4> QED
        BY <3>4, <4>1, <4>2
    <3>7. CASE k >= i
      <4>1. f[k] = k + 1 /\ k + 1 >= i
        BY <1>2, <1>8, <3>7
      <4>2. f[k + 1] = k + 2
        BY <1>8, <3>5, <4>1
      <4> QED
        BY <3>4, <4>1, <4>2
    <3> QED
      BY <3>6, <3>7
  <2>2. ASSUME NEW k \in 1 .. Len(u), t[f[k]].kind = "job"
        PROVE  k > 1 /\ f[k - 1] = f[k] - 1
    <3>1. f[k] \in 1 .. Len(t)
      BY <1>7
    <3>2. f[k] > 1 /\ t[f[k] - 1].kind = "marker"
      BY <1>11, <2>2, <3>1, Neighbours
    <3>3. f[k] - 1 # i
      BY <1>11, <3>2
    <3> QED
      BY <1>2, <1>6, <1>8, <3>2, <3>3
  <2>3. Whole(u)
    BY <1>5, <1>7, <1>9, <1>10, <1>11, <2>1, <2>2, PickedWhole
  <2>4. ASSUME NEW q PROVE Said(u, q) = Said(t, q)
    <3>1. ASSUME NEW j \in Markers(t, q)
          PROVE  \E k \in 1 .. Len(u) : f[k] = j
      <4>1. j \in 1 .. Len(t) /\ j # i
        BY <1>11 DEF Markers
      <4>2. CASE j < i
        <5>1. j \in 1 .. Len(u) /\ f[j] = j
          BY <1>2, <1>6, <1>8, <4>1, <4>2
        <5> QED
          BY <5>1
      <4>3. CASE j > i
        <5>1. j - 1 \in 1 .. Len(u) /\ f[j - 1] = j
          BY <1>2, <1>6, <1>8, <4>1, <4>3
        <5> QED
          BY <5>1
      <4> QED
        BY <4>1, <4>2, <4>3
    <3> QED
      BY <1>5, <1>7, <1>9, <3>1, PickedSays
  <2> QED
    BY <2>3, <2>4
<1> QED
  BY <1>5, <1>11 DEF u, a, b

(* Whatever people do to the crontab, it consists of lines; and if they    *)
(* tear no pair, it stays whole and says what it said.                     *)
LEMMA EditKeeps ==
    ASSUME crontab \in Seq(Line), EditedByHand, torn \in BOOLEAN
    PROVE  /\ crontab' \in Seq(Line) /\ torn' \in BOOLEAN
           /\ ~torn' => ~torn
           /\ ~torn' /\ Whole(crontab) =>
                Whole(crontab') /\ \A q : Said(crontab', q) = Said(crontab, q)
<1>1. ASSUME NEW f \in Foreign, NEW k \in 0 .. Len(crontab), LineAdded(f, k)
      PROVE  /\ crontab' \in Seq(Line)
             /\ ~torn' /\ Whole(crontab) =>
                  Whole(crontab') /\ \A q : Said(crontab', q) = Said(crontab, q)
  <2>1. ForeignLine(f) \in Line /\ ForeignLine(f).kind = "foreign"
    BY DEF Line, ForeignLine
  <2>2. /\ crontab' = SubSeq(crontab, 1, k) \o <<ForeignLine(f)>>
                          \o SubSeq(crontab, k + 1, Len(crontab))
        /\ ~torn' => ~(k > 0 /\ crontab[k].kind = "marker")
    BY <1>1 DEF LineAdded
  <2> QED
    BY <2>1, <2>2, ForeignInserted
<1>2. ASSUME NEW i \in 1 .. Len(crontab)
      PROVE  /\ crontab[i] \in Line
             /\ Loose(i) /\ Whole(crontab) => crontab[i].kind = "foreign"
  <2>1. crontab[i].kind \in {"marker", "job", "foreign"}
    BY LineKinds
  <2> QED
    BY <1>2, <2>1, Neighbours DEF Loose
<1>3. ASSUME NEW i \in 1 .. Len(crontab), LineCopied(i)
      PROVE  /\ crontab' \in Seq(Line)
             /\ ~torn' /\ Whole(crontab) =>
                  Whole(crontab') /\ \A q : Said(crontab', q) = Said(crontab, q)
  <2>1. crontab' = Append(crontab, crontab[i]) /\ (~torn' => Loose(i))
    BY <1>3 DEF LineCopied
  <2> QED
    BY <1>2, <2>1, ForeignAppended, AppendProperties
<1>4. ASSUME NEW i \in 1 .. Len(crontab), LineDeleted(i)
      PROVE  /\ crontab' \in Seq(Line)
             /\ ~torn' /\ Whole(crontab) =>
                  Whole(crontab') /\ \A q : Said(crontab', q) = Said(crontab, q)
  <2>1. /\ crontab' = SubSeq(crontab, 1, i - 1)
                          \o SubSeq(crontab, i + 1, Len(crontab))
        /\ ~torn' => Loose(i)
    BY <1>4 DEF LineDeleted
  <2> QED
    BY <1>2, <2>1, LineDropped
<1>5. DOMAIN crontab = 1 .. Len(crontab)
  OBVIOUS
<1>6. torn' \in BOOLEAN /\ (~torn' => ~torn)
  BY DEF EditedByHand, LineAdded, LineCopied, LineDeleted
<1> QED
  BY <1>1, <1>3, <1>4, <1>5, <1>6 DEF EditedByHand

-----------------------------------------------------------------------------
(* Invocations                                                             *)

(* Only invocation c moves.                                                *)
Only(c) == /\ call' \in [Callers -> Call]
           /\ \A d \in Callers \ {c} : call'[d] = call[d]

HasRemoved(c, p) ==
    call[c].op = "remove" /\ call[c].profile = p /\ call[c].reply = "REMOVED"

(* Whoever has removed a profile has done so for good, and who is removing *)
(* it is told by the invocations alone.                                    *)
LEMMA RemovalsKept ==
    ASSUME NEW c \in Callers, Only(c), NEW p,
           HasRemoved(c, p) => HasRemoved(c, p)',
           Takes(c, p) <=> Takes(c, p)'
    PROVE  /\ Removed(p) => Removed(p)'
           /\ Removing(p) <=> Removing(p)'
<1>1. \A d \in Callers : HasRemoved(d, p) => HasRemoved(d, p)'
  BY DEF Only, HasRemoved
<1>2. \A d \in Callers : Takes(d, p) <=> Takes(d, p)'
  BY DEF Only, Takes
<1>3. Removed(p) <=> \E d \in Callers : HasRemoved(d, p)
  BY DEF Removed, HasRemoved
<1>4. Removed(p)' <=> \E d \in Callers : HasRemoved(d, p)'
  BY DEF Removed, HasRemoved
<1> QED
  BY <1>1, <1>2, <1>3, <1>4 DEF Removing

(* A step that neither writes nor takes anything of a profile leaves the   *)
(* agreement about the profile as it was.                                  *)
LEMMA QuietKept ==
    ASSUME NEW c \in Callers, Only(c), NEW p \in Profiles, Agreed(p),
           records'[p] = records[p], Said(crontab', p) = Said(crontab, p),
           ~Writing(c, p), ~Writing(c, p)', ~Takes(c, p), ~Takes(c, p)',
           HasRemoved(c, p) => HasRemoved(c, p)',
           LateInv(c, p)'
    PROVE  Agreed(p)'
<1>1. Removed(p) => Removed(p)'
  BY RemovalsKept
<1>2. Removing(p) <=> Removing(p)'
  BY RemovalsKept
<1>3. ASSUME NEW d \in Callers
      PROVE  /\ Writing(d, p)' => d # c /\ Writing(d, p)
             /\ Writing(d, p) => Writing(d, p)'
             /\ LateInv(d, p)'
  BY DEF Only, Writing, LateInv, Agreed
<1>4. (\A d \in Callers : ~Writing(d, p)') => Stands(p, records[p])'
  BY <1>1, <1>2, <1>3 DEF Agreed, Stands
<1>5. ASSUME NEW d \in Callers, Writing(d, p)' PROVE WriterInv(d, p)'
  <2>1. call'[d] = call[d] /\ WriterInv(d, p)
    BY <1>3, <1>5 DEF Only, Agreed
  <2> QED
    BY <2>1, <1>1, <1>2 DEF WriterInv, Stands, Candidate
<1> QED
  BY <1>3, <1>4, <1>5 DEF Agreed

(* A step of the only upsert that is writing the profile.                  *)
LEMMA WriterKept ==
    ASSUME NEW c \in Callers, Only(c), NEW p \in Profiles, Agreed(p),
           Exclusive', Writing(c, p)', WriterInv(c, p)'
    PROVE  Agreed(p)'
<1>1. ASSUME NEW d \in Callers, Writing(d, p)' PROVE d = c
  BY <1>1 DEF Exclusive, Writing, Active
<1>2. ASSUME NEW d \in Callers PROVE LateInv(d, p)'
  BY DEF Only, LateInv, Agreed, Writing
<1> QED
  BY <1>1, <1>2 DEF Agreed

(* Its end.                                                                *)
LEMMA WriterDone ==
    ASSUME NEW c \in Callers, Only(c), NEW p \in Profiles, Agreed(p),
           Exclusive, Writing(c, p), call'[c].step = "done",
           Stands(p, records[p])', LateInv(c, p)'
    PROVE  Agreed(p)'
<1>1. ASSUME NEW d \in Callers PROVE ~Writing(d, p)'
  <2>1. Writing(d, p) => d = c
    BY DEF Exclusive, Writing, Active
  <2> QED
    BY <2>1 DEF Only, Writing
<1>2. ASSUME NEW d \in Callers PROVE LateInv(d, p)'
  BY DEF Only, LateInv, Agreed
<1> QED
  BY <1>1, <1>2 DEF Agreed

(* A profile for which nothing indefinite has been answered was such one   *)
(* before a step of an invocation that had not ended yet.                  *)
LEMMA CleanBefore ==
    ASSUME NEW c \in Callers, Only(c), NEW p, Clean(p)',
           call[c].step = "done" /\ call[c].profile = p => Definite(c)
    PROVE  Clean(p)
BY DEF Clean, Only, Definite

(* An indefinite answer ends what is known of a profile.                   *)
LEMMA Indefinite ==
    ASSUME NEW c \in Callers, NEW p, call'[c].profile = p,
           call'[c].step = "done", ~Definite(c)'
    PROVE  ~Clean(p)'
BY DEF Clean

(* At most one invocation of an operation on a profile is under way.       *)
LEMMA ExclusiveKept ==
    ASSUME Exclusive, NEW c \in Callers, Only(c),
           call'[c].step \in Active =>
               /\ call[c].step \in Active /\ call'[c].op = call[c].op
               /\ call'[c].profile = call[c].profile
    PROVE  Exclusive'
<1>1. ASSUME NEW d \in Callers, call'[d].step \in Active
      PROVE  /\ call[d].step \in Active /\ call'[d].op = call[d].op
             /\ call'[d].profile = call[d].profile
  BY <1>1 DEF Only
<1> QED
  BY <1>1 DEF Exclusive

(* What an end leaves of an invocation.                                    *)
LEMMA CallEnded ==
    ASSUME CronInv, NEW c \in Callers, NEW reply \in Replies, End(c, reply),
           call[c].step # "idle"
    PROVE  /\ Only(c) /\ Exclusive' /\ Formed(call'[c])
           /\ call'[c].step = "done" /\ call'[c].reply = reply
           /\ call'[c].op = call[c].op /\ call'[c].profile = call[c].profile
           /\ call'[c].request = call[c].request
           /\ call'[c].text = call[c].text
           /\ call[c].request = "sent" => call'[c].content = call[c].content
<1> DEFINE D == [call[c] EXCEPT !.step = "done", !.reply = reply,
                                !.previous = NoRecord]
           E == Spent(D)
<1>1. call \in [Callers -> Call] /\ Formed(call[c])
  BY DEF CronInv, CronTypeOK
<1>2. D \in Call
  BY <1>1 DEF Call
<1>3. /\ D.step = "done" /\ D.reply = reply /\ D.op = call[c].op
      /\ D.profile = call[c].profile /\ D.request = call[c].request
      /\ D.text = call[c].text /\ D.content = call[c].content
  BY <1>1 DEF Call
<1>4. call' = [call EXCEPT ![c] = E]
  BY <1>1 DEF End
<1> HIDE DEF D
<1>5. E = IF D.request # "sent" THEN [D EXCEPT !.content = Nil] ELSE D
  BY <1>3 DEF Spent
<1>6. [D EXCEPT !.content = Nil] \in Call
  BY <1>2 DEF Call
<1>7. /\ [D EXCEPT !.content = Nil].step = D.step
      /\ [D EXCEPT !.content = Nil].reply = D.reply
      /\ [D EXCEPT !.content = Nil].op = D.op
      /\ [D EXCEPT !.content = Nil].profile = D.profile
      /\ [D EXCEPT !.content = Nil].request = D.request
      /\ [D EXCEPT !.content = Nil].text = D.text
  BY <1>2 DEF Call
<1>8. /\ E \in Call
      /\ E.step = "done" /\ E.reply = reply /\ E.op = call[c].op
      /\ E.profile = call[c].profile /\ E.request = call[c].request
      /\ E.text = call[c].text
      /\ call[c].request = "sent" => E.content = call[c].content
  BY <1>2, <1>3, <1>5, <1>6, <1>7
<1> HIDE DEF E
<1>9. Only(c) /\ call'[c] = E
  BY <1>1, <1>4, <1>8 DEF Only
<1>10. Formed(E)
  BY <1>1, <1>8 DEF Formed, Active
<1>11. Exclusive'
  BY <1>8, <1>9, ExclusiveKept DEF CronInv, Active
<1> QED
  BY <1>8, <1>9, <1>10, <1>11

(* What the helper's answer makes of it.                                   *)
LEMMA CallAnswered ==
    ASSUME CronInv, NEW c \in Callers, NEW outcome \in Requests \ {"none", "sent"},
           Answer(c, outcome), call[c].request = "sent"
    PROVE  /\ Only(c) /\ Exclusive' /\ Formed(call'[c])
           /\ call'[c].step = call[c].step /\ call'[c].reply = call[c].reply
           /\ call'[c].op = call[c].op /\ call'[c].profile = call[c].profile
           /\ call'[c].request = outcome
           /\ call'[c].previous = call[c].previous
           /\ call[c].step # "done" => call'[c].content = call[c].content
<1> DEFINE D == [call[c] EXCEPT !.request = outcome, !.text = <<>>]
           E == Spent(D)
<1>1. call \in [Callers -> Call] /\ Formed(call[c])
  BY DEF CronInv, CronTypeOK
<1>2. D \in Call
  <2>1. <<>> \in Seq(Line)
    OBVIOUS
  <2> QED
    BY <1>1, <2>1 DEF Call
<1>3. /\ D.step = call[c].step /\ D.reply = call[c].reply
      /\ D.op = call[c].op /\ D.profile = call[c].profile
      /\ D.request = outcome /\ D.previous = call[c].previous
      /\ D.content = call[c].content
  BY <1>1 DEF Call
<1>4. call' = [call EXCEPT ![c] = E]
  BY <1>1 DEF Answer
<1> HIDE DEF D
<1>5. E = IF D.step = "done" THEN [D EXCEPT !.content = Nil] ELSE D
  BY <1>3 DEF Spent
<1>6. [D EXCEPT !.content = Nil] \in Call
  BY <1>2 DEF Call
<1>7. /\ [D EXCEPT !.content = Nil].step = D.step
      /\ [D EXCEPT !.content = Nil].reply = D.reply
      /\ [D EXCEPT !.content = Nil].op = D.op
      /\ [D EXCEPT !.content = Nil].profile = D.profile
      /\ [D EXCEPT !.content = Nil].request = D.request
      /\ [D EXCEPT !.content = Nil].previous = D.previous
  BY <1>2 DEF Call
<1>8. /\ E \in Call
      /\ E.step = call[c].step /\ E.reply = call[c].reply
      /\ E.op = call[c].op /\ E.profile = call[c].profile
      /\ E.request = outcome /\ E.previous = call[c].previous
      /\ call[c].step # "done" => E.content = call[c].content
  BY <1>2, <1>3, <1>5, <1>6, <1>7
<1> HIDE DEF E
<1>9. Only(c) /\ call'[c] = E
  BY <1>1, <1>4, <1>8 DEF Only
<1>10. Formed(E)
  BY <1>1, <1>8 DEF Formed, Active
<1>11. Exclusive'
  BY <1>8, <1>9, ExclusiveKept DEF CronInv, Active
<1> QED
  BY <1>8, <1>9, <1>10, <1>11

-----------------------------------------------------------------------------
(* Records                                                                 *)

RecordsOK ==
    /\ records \in [Profiles -> Record \cup {NoRecord}]
    /\ IsFiniteSet(Listed)
    /\ Cardinality(Listed) <= MaxRecords

(* A record of a call is one.                                              *)
LEMMA CandidateIsRecord ==
    ASSUME NEW c \in Callers, call[c].content \in CronContents
    PROVE  Candidate(c) \in Record /\ Candidate(c) # NoRecord
<1>1. Candidate(c).content # Nil
  BY CronAssumption DEF Candidate
<1>2. NoRecord.content = Nil
  BY DEF NoRecord
<1> QED
  BY <1>1, <1>2 DEF Candidate, Record

(* The store keeps its bound, if only what is listed already is replaced   *)
(* without asking whether there is room.                                   *)
LEMMA RecordsKept ==
    ASSUME RecordsOK, NEW p \in Profiles, NEW r \in Record \cup {NoRecord},
           r = NoRecord \/ ~Full(p),
           records' = [records EXCEPT ![p] = r]
    PROVE  RecordsOK'
<1>1. records' \in [Profiles -> Record \cup {NoRecord}]
  BY DEF RecordsOK
<1>2. /\ records'[p] = r
      /\ \A q \in Profiles : q # p => records'[q] = records[q]
  BY DEF RecordsOK
<1>3. Cardinality(Listed) \in Nat /\ MaxRecords \in Nat
  BY FS_CardinalityType, CronAssumption DEF RecordsOK
<1>4. CASE r = NoRecord \/ records[p] # NoRecord
  <2>1. Listed' \subseteq Listed
    BY <1>2, <1>4 DEF Listed
  <2>2. IsFiniteSet(Listed') /\ Cardinality(Listed') <= Cardinality(Listed)
    BY <2>1, FS_Subset DEF RecordsOK
  <2>3. Cardinality(Listed') \in Nat
    BY <2>2, FS_CardinalityType
  <2> QED
    BY <1>1, <1>3, <2>2, <2>3 DEF RecordsOK
<1>5. CASE r # NoRecord /\ records[p] = NoRecord
  <2>1. Listed' = Listed \cup {p} /\ p \notin Listed
    BY <1>2, <1>5 DEF Listed
  <2>2. ~(Cardinality(Listed) >= MaxRecords)
    BY <1>5 DEF Full, Listed
  <2>3. /\ IsFiniteSet(Listed \cup {p})
        /\ Cardinality(Listed \cup {p}) = Cardinality(Listed) + 1
    BY <2>1, FS_AddElement DEF RecordsOK
  <2> QED
    BY <1>1, <1>3, <2>1, <2>2, <2>3 DEF RecordsOK
<1> QED
  BY <1>4, <1>5

(* What a rollback leaves in the store.                                    *)
LEMMA RolledBackKept ==
    ASSUME CronInv, NEW c \in Callers, call[c].profile \in Profiles,
           call[c].content \in CronContents, records' = RolledBack(c)
    PROVE  /\ RecordsOK'
           /\ \A q \in Profiles : q # call[c].profile => records'[q] = records[q]
           /\ records'[call[c].profile] =
                IF records[call[c].profile] = Candidate(c)
                THEN call[c].previous ELSE records[call[c].profile]
<1>1. /\ RecordsOK /\ records \in [Profiles -> Record \cup {NoRecord}]
      /\ call[c].previous \in Record \cup {NoRecord}
  BY DEF CronInv, CronTypeOK, RecordsOK, Listed, Call
<1>2. CASE records[call[c].profile] = Candidate(c)
  <2>1. ~Full(call[c].profile)
    BY <1>2, CandidateIsRecord DEF Full
  <2>2. records' = [records EXCEPT ![call[c].profile] = call[c].previous]
    BY <1>2 DEF RolledBack
  <2> QED
    BY <1>1, <1>2, <2>1, <2>2, RecordsKept
<1>3. CASE records[call[c].profile] # Candidate(c)
  <2>1. records' = records
    BY <1>3 DEF RolledBack
  <2> QED
    BY <1>1, <1>3, <2>1 DEF RecordsOK, Listed
<1> QED
  BY <1>2, <1>3

(* The parts of the invariant make the whole.                              *)
LEMMA Composed ==
    ASSUME CronInv, NEW c \in Callers, Only(c), Formed(call'[c]), Exclusive',
           RecordsOK', crontab' \in Seq(Line), UNCHANGED <<edits, torn>>,
           ~torn => /\ Whole(crontab')
                           /\ \A p \in Profiles : Clean(p)' => Agreed(p)'
    PROVE  CronInv'
<1>1. \A d \in Callers : Formed(call[d])'
  BY DEF CronInv, Only, Formed
<1>2. CronTypeOK' /\ IsFiniteSet(Listed)'
  BY DEF CronInv, CronTypeOK, RecordsOK, Listed, Only
<1>3. ~torn => Whole(crontab)'
  OBVIOUS
<1> QED
  BY <1>1, <1>2, <1>3 DEF CronInv

(* A step of an invocation that leaves records and crontab alone, and      *)
(* neither was nor gets between the two writes.                            *)
LEMMA QuietStep ==
    ASSUME CronInv, NEW c \in Callers, Only(c), Formed(call'[c]), Exclusive',
           UNCHANGED <<records, crontab, edits, torn>>,
           \A p \in Profiles :
              /\ ~Writing(c, p) /\ ~Writing(c, p)'
              /\ ~Takes(c, p) /\ ~Takes(c, p)' /\ ~HasRemoved(c, p),
           call[c].step # "done", call'[c].request # "sent" \/ call'[c].step # "done"
    PROVE  CronInv'
<1>1. RecordsOK' /\ crontab' \in Seq(Line)
  BY DEF CronInv, CronTypeOK, RecordsOK, Listed
<1>2. ASSUME NEW p \in Profiles, ~torn, Clean(p)' PROVE Agreed(p)'
  <2>1. Agreed(p)
    BY <1>2, CleanBefore DEF CronInv
  <2>2. LateInv(c, p)'
    BY DEF LateInv
  <2>3. Said(crontab', p) = Said(crontab, p) /\ records'[p] = records[p]
    OBVIOUS
  <2> QED
    BY <2>1, <2>2, <2>3, QuietKept
<1>3. ~torn => Whole(crontab')
  BY DEF CronInv
<1> QED
  BY <1>1, <1>2, <1>3, Composed

(* A step disturbs nothing but the profile it is about.                    *)
LEMMA OwnProfile ==
    ASSUME CronInv, NEW c \in Callers, Only(c), Formed(call'[c]), Exclusive',
           NEW p \in Profiles, call'[c].profile = p,
           call[c].profile = p \/ call[c].step = "idle",
           RecordsOK', crontab' \in Seq(Line), UNCHANGED <<edits, torn>>,
           \A q \in Profiles : q # p => records'[q] = records[q],
           ~torn =>
              /\ Whole(crontab')
              /\ \A q \in Profiles : q # p => Said(crontab', q) = Said(crontab, q)
              /\ Clean(p)' => Agreed(p)'
    PROVE  CronInv'
<1>1. Formed(call[c])
  BY DEF CronInv
<1>2. ASSUME NEW q \in Profiles, q # p, ~torn, Clean(q)'
      PROVE  Agreed(q)'
  <2>1. call[c].step = "idle" \/ call[c].profile # q
    BY <1>2
  <2>2. /\ ~Writing(c, q) /\ ~Writing(c, q)' /\ ~Takes(c, q) /\ ~Takes(c, q)'
        /\ ~HasRemoved(c, q) /\ LateInv(c, q)'
    BY <1>1, <1>2, <2>1 DEF Writing, Takes, HasRemoved, LateInv, Formed
  <2>3. Clean(q)
    BY <1>2, <2>1, CleanBefore
  <2>4. Agreed(q)
    BY <1>2, <2>3 DEF CronInv
  <2>5. Said(crontab', q) = Said(crontab, q) /\ records'[q] = records[q]
    BY <1>2
  <2> QED
    BY <2>2, <2>4, <2>5, QuietKept
<1>3. ~torn => \A q \in Profiles : Clean(q)' => Agreed(q)'
  BY <1>2
<1> QED
  BY <1>3, Composed

(* The end of an invocation that was under way.                            *)
LEMMA EndStep ==
    ASSUME CronInv, NEW c \in Callers, NEW reply \in Replies, End(c, reply),
           call[c].step \in Active, NEW p, call[c].profile = p,
           UNCHANGED <<crontab, edits, torn>>, RecordsOK',
           \A q \in Profiles : q # p => records'[q] = records[q],
           ~torn /\ Whole(crontab) /\ Clean(p)' /\ Agreed(p)
              => Agreed(p)'
    PROVE  CronInv'
<1>1. /\ Only(c) /\ Exclusive' /\ Formed(call'[c])
      /\ call'[c].profile = p /\ Formed(call[c])
  BY CallEnded DEF CronInv, Active
<1>2. p \in Profiles /\ call[c].step # "done"
  BY <1>1 DEF Formed, Active
<1>3. crontab' \in Seq(Line) /\ UNCHANGED <<edits, torn>>
  BY DEF CronInv, CronTypeOK
<1>4. ASSUME ~torn
      PROVE  /\ Whole(crontab')
             /\ \A q \in Profiles : q # p => Said(crontab', q) = Said(crontab, q)
             /\ Clean(p)' => Agreed(p)'
  <2>1. Whole(crontab) /\ (Clean(p) => Agreed(p))
    BY <1>2, <1>4 DEF CronInv
  <2>2. Clean(p)' => Clean(p)
    BY <1>1, <1>2, CleanBefore
  <2> QED
    BY <1>4, <2>1, <2>2
<1> QED
  BY <1>1, <1>2, <1>3, <1>4, OwnProfile

(* The store as it is.                                                     *)
LEMMA RecordsStay ==
    ASSUME CronInv, records' = records
    PROVE  RecordsOK' /\ \A q \in Profiles : records'[q] = records[q]
BY DEF CronInv, CronTypeOK, RecordsOK, Listed

(* An end after which nothing is known of the profile.                     *)
LEMMA IndefiniteEnd ==
    ASSUME CronInv, NEW c \in Callers, NEW reply \in Replies, End(c, reply),
           call[c].step \in Active, UNCHANGED <<crontab, edits, torn>>, RecordsOK',
           \A q \in Profiles : q # call[c].profile => records'[q] = records[q],
           \/ reply \in {"AMBIGUOUS", "INSTALL_FAILED"}
           \/ reply = "READ_FAILED" /\ call[c].request # "none"
    PROVE  CronInv'
<1> DEFINE p == call[c].profile
<1>1. /\ call'[c].profile = p /\ call'[c].step = "done"
      /\ call'[c].reply = reply /\ call'[c].request = call[c].request
  BY CallEnded DEF Active
<1>2. ~Definite(c)'
  BY <1>1 DEF Definite
<1>3. PICK q : q = p
  OBVIOUS
<1>4. ~Clean(q)'
  BY <1>1, <1>2, <1>3, Indefinite
<1> QED
  BY <1>3, <1>4, EndStep

(* The end of an invocation that has only read.                            *)
LEMMA EarlyEnd ==
    ASSUME CronInv, NEW c \in Callers, NEW reply \in Replies, End(c, reply),
           call[c].step = "read", UNCHANGED <<records, crontab, edits, torn>>
    PROVE  CronInv'
<1>1. /\ Only(c) /\ Exclusive' /\ Formed(call'[c]) /\ call'[c].step = "done"
      /\ call'[c].request = call[c].request /\ Formed(call[c])
  BY CallEnded DEF CronInv
<1>2. call'[c].request = "none"
  BY <1>1 DEF Formed
<1>3. ASSUME NEW p \in Profiles
      PROVE  /\ ~Writing(c, p) /\ ~Writing(c, p)'
             /\ ~Takes(c, p) /\ ~Takes(c, p)' /\ ~HasRemoved(c, p)
  BY <1>1 DEF Writing, Takes, HasRemoved, Formed
<1> QED
  BY <1>1, <1>2, <1>3, QuietStep

-----------------------------------------------------------------------------
(* Beginning                                                               *)

LEMMA IdleIsCall == Idle \in Call
<1>1. <<>> \in Seq(Line)
  OBVIOUS
<1> QED
  BY <1>1 DEF Idle, Call, Requests

LEMMA UpsertBeginsKept ==
    ASSUME CronInv, NEW c \in Callers, NEW p \in Profiles, NEW content \in CronContents,
           UpsertBegins(c, p, content)
    PROVE  CronInv'
<1> DEFINE E == [Idle EXCEPT !.op = "upsert", !.step = "read",
                             !.profile = p, !.content = content]
<1>1. E \in Call
  BY IdleIsCall DEF Call
<1>2. /\ E.op = "upsert" /\ E.step = "read" /\ E.profile = p
      /\ E.content = content /\ E.request = "none" /\ E.reply = Nil
  BY DEF Idle
<1>3. /\ call \in [Callers -> Call] /\ Formed(call[c]) /\ Exclusive
      /\ call[c].step = "idle" /\ ~Busy("upsert", p)
      /\ UNCHANGED <<records, crontab, edits, torn>>
      /\ call' = [call EXCEPT ![c] = E]
  BY DEF CronInv, CronTypeOK, UpsertBegins
<1> HIDE DEF E
<1>4. Only(c) /\ call'[c] = E
  BY <1>1, <1>3 DEF Only
<1>5. Formed(E)
  BY <1>2, NoReply DEF Formed, Replies
<1>6. Exclusive'
  <2>1. \A d \in Callers : call[d].op = "upsert" /\ call[d].profile = p
                           => call[d].step \notin Active
    BY <1>3 DEF Busy, Active
  <2> QED
    BY <1>2, <1>3, <1>4, <2>1 DEF Exclusive, Only
<1>7. ASSUME NEW q \in Profiles
      PROVE  /\ ~Writing(c, q) /\ ~Writing(c, q)'
             /\ ~Takes(c, q) /\ ~Takes(c, q)' /\ ~HasRemoved(c, q)
  BY <1>2, <1>3, <1>4 DEF Writing, Takes, HasRemoved, Formed
<1> QED
  BY <1>2, <1>3, <1>4, <1>5, <1>6, <1>7, QuietStep

LEMMA RemoveBeginsKept ==
    ASSUME CronInv, NEW c \in Callers, NEW p \in Profiles, RemoveBegins(c, p)
    PROVE  CronInv'
<1> DEFINE E == IF records[p] = NoRecord
                THEN [Idle EXCEPT !.op = "remove", !.step = "done",
                                  !.profile = p, !.reply = "PROFILE_NOT_FOUND"]
                ELSE [Idle EXCEPT !.op = "remove", !.step = "read", !.profile = p]
<1>1. E \in Call
  BY IdleIsCall DEF Call, Replies
<1>2. /\ E.op = "remove" /\ E.step \in {"read", "done"} /\ E.profile = p
      /\ E.request = "none" /\ E.reply \in {Nil, "PROFILE_NOT_FOUND"}
  BY DEF Idle
<1>3. /\ call \in [Callers -> Call] /\ Formed(call[c]) /\ Exclusive
      /\ call[c].step = "idle" /\ ~Busy("remove", p)
      /\ UNCHANGED <<records, crontab, edits, torn>>
      /\ call' = [call EXCEPT ![c] = E]
  BY DEF CronInv, CronTypeOK, RemoveBegins
<1> HIDE DEF E
<1>4. Only(c) /\ call'[c] = E
  BY <1>1, <1>3 DEF Only
<1>5. Formed(E)
  BY <1>2, NoReply DEF Formed, Replies
<1>6. Exclusive'
  <2>1. \A d \in Callers : call[d].op = "remove" /\ call[d].profile = p
                           => call[d].step \notin Active
    BY <1>3 DEF Busy, Active
  <2> QED
    BY <1>2, <1>3, <1>4, <2>1 DEF Exclusive, Only
<1>7. ASSUME NEW q \in Profiles
      PROVE  /\ ~Writing(c, q) /\ ~Writing(c, q)'
             /\ ~Takes(c, q) /\ ~Takes(c, q)' /\ ~HasRemoved(c, q)
  BY <1>2, <1>3, <1>4 DEF Writing, Takes, HasRemoved, Formed
<1> QED
  BY <1>2, <1>3, <1>4, <1>5, <1>6, <1>7, QuietStep

LEMMA ReadFailsKept ==
    ASSUME CronInv, NEW c \in Callers, ReadFails(c)
    PROVE  CronInv'
<1>1. /\ End(c, "READ_FAILED") /\ UNCHANGED <<records, crontab, edits, torn>>
      /\ call[c].step \in {"read", "reconcile"} /\ Formed(call[c])
      /\ "READ_FAILED" \in Replies
  BY DEF ReadFails, CronInv, Replies
<1>2. CASE call[c].step = "read"
  BY <1>1, <1>2, EarlyEnd
<1>3. CASE call[c].step = "reconcile"
  <2>1. call[c].request # "none" /\ call[c].step \in Active
    BY <1>1, <1>3 DEF Formed, Active
  <2> QED
    BY <1>1, <2>1, RecordsStay, IndefiniteEnd
<1> QED
  BY <1>1, <1>2, <1>3

LEMMA AbandonedKept ==
    ASSUME CronInv, NEW c \in Callers, Abandoned(c)
    PROVE  CronInv'
<1>1. /\ End(c, "AMBIGUOUS") /\ UNCHANGED <<records, crontab, edits, torn>>
      /\ call[c].step \in Active /\ "AMBIGUOUS" \in Replies
  BY DEF Abandoned, Active, Replies
<1> QED
  BY <1>1, RecordsStay, IndefiniteEnd

-----------------------------------------------------------------------------
(* Reading                                                                 *)

LEMMA UpsertReadsKept ==
    ASSUME CronInv, NEW c \in Callers, UpsertReads(c)
    PROVE  CronInv'
<1>1. /\ call \in [Callers -> Call] /\ Formed(call[c])
      /\ crontab \in Seq(Line) /\ RecordsOK /\ Exclusive
      /\ call[c].op = "upsert" /\ call[c].step = "read"
      /\ UNCHANGED <<crontab, edits, torn>>
  BY DEF CronInv, CronTypeOK, UpsertReads, RecordsOK, Listed
<1>2. PICK p \in Profiles : p = call[c].profile
  BY <1>1 DEF Formed
<1>3. CASE \E reply \in {"DUPLICATE_MARKER", "CAPACITY"} :
             End(c, reply) /\ records' = records
  <2>1. "DUPLICATE_MARKER" \in Replies /\ "CAPACITY" \in Replies
    BY DEF Replies
  <2> QED
    BY <1>1, <1>3, <2>1, EarlyEnd
<1>4. CASE /\ ~Full(p)
           /\ call' = [call EXCEPT ![c].step = "install",
                                   ![c].text = crontab,
                                   ![c].previous = records[p],
                                   ![c].request = "sent"]
           /\ records' = [records EXCEPT ![p] = Candidate(c)]
  <2> DEFINE E == [call[c] EXCEPT !.step = "install", !.text = crontab,
                                  !.previous = records[p], !.request = "sent"]
  <2>1. call' = [call EXCEPT ![c] = E]
    BY <1>1, <1>4
  <2>2. records[p] \in Record \cup {NoRecord}
    BY <1>1 DEF RecordsOK
  <2>3. E \in Call
    BY <1>1, <2>2 DEF Call, Requests
  <2>4. /\ E.op = "upsert" /\ E.step = "install" /\ E.profile = p
        /\ E.content = call[c].content /\ E.text = crontab
        /\ E.previous = records[p] /\ E.request = "sent"
        /\ E.reply = call[c].reply
    BY <1>1, <1>2 DEF Call
  <2> HIDE DEF E
  <2>5. Only(c) /\ call'[c] = E
    BY <1>1, <2>1, <2>3 DEF Only
  <2>6. call[c].content \in CronContents
    BY <1>1 DEF Formed, Active
  <2>7. Formed(call'[c])
    BY <1>1, <2>4, <2>5, <2>6 DEF Formed, Active
  <2>8. Exclusive'
    BY <1>1, <1>2, <2>4, <2>5, ExclusiveKept DEF Active
  <2>9. Candidate(c) \in Record /\ Candidate(c) # NoRecord
    BY <2>6, CandidateIsRecord
  <2>10. RecordsOK'
    BY <1>1, <1>4, <2>9, RecordsKept
  <2>11. /\ records'[p] = Candidate(c)
         /\ \A q \in Profiles : q # p => records'[q] = records[q]
    BY <1>1, <1>4 DEF RecordsOK
  <2>12. ASSUME ~torn, Clean(p)' PROVE Agreed(p)'
    <3>1. Clean(p)
      BY <1>1, <2>5, <2>12, CleanBefore
    <3>2. Agreed(p)
      BY <2>12, <3>1 DEF CronInv
    <3>3. \A d \in Callers : ~Writing(d, p)
      BY <1>1, <1>2 DEF Exclusive, Writing, Active
    <3>4. Stands(p, records[p])
      BY <3>2, <3>3 DEF Agreed
    <3>5. /\ ~Takes(c, p) /\ ~Takes(c, p)' /\ ~HasRemoved(c, p)
      BY <1>1, <2>4, <2>5 DEF Takes, HasRemoved
    <3>6. (Removed(p) => Removed(p)') /\ (Removing(p) <=> Removing(p)')
      BY <2>5, <3>5, RemovalsKept
    <3>7. Writing(c, p)'
      BY <2>4, <2>5 DEF Writing
    <3>8. Candidate(c)' = Candidate(c)
      BY <2>4, <2>5 DEF Candidate
    <3>9. WriterInv(c, p)'
      BY <1>1, <2>4, <2>5, <2>9, <2>11, <3>4, <3>6, <3>8 DEF WriterInv, Stands
    <3> QED
      BY <2>5, <2>8, <3>2, <3>7, <3>9, WriterKept
  <2>13. /\ crontab' \in Seq(Line) /\ UNCHANGED <<edits, torn>>
         /\ ~torn => Whole(crontab')
         /\ \A q \in Profiles : q # p => Said(crontab', q) = Said(crontab, q)
    BY <1>1 DEF CronInv
  <2> QED
    BY <1>2, <2>4, <2>5, <2>7, <2>8, <2>10, <2>11, <2>12, <2>13, OwnProfile
<1> QED
  BY <1>2, <1>3, <1>4 DEF UpsertReads

LEMMA RemoveReadsKept ==
    ASSUME CronInv, NEW c \in Callers, RemoveReads(c)
    PROVE  CronInv'
<1>1. /\ call \in [Callers -> Call] /\ Formed(call[c]) /\ Exclusive
      /\ crontab \in Seq(Line)
      /\ call[c].op = "remove" /\ call[c].step = "read"
      /\ UNCHANGED <<records, crontab, edits, torn>>
  BY DEF CronInv, CronTypeOK, RemoveReads
<1>2. CASE \E reply \in {"DUPLICATE_MARKER", "PROFILE_NOT_FOUND"} : End(c, reply)
  <2>1. "DUPLICATE_MARKER" \in Replies /\ "PROFILE_NOT_FOUND" \in Replies
    BY DEF Replies
  <2> QED
    BY <1>1, <1>2, <2>1, EarlyEnd
<1>3. CASE call' = [call EXCEPT ![c].step = "install", ![c].text = crontab,
                                ![c].request = "sent"]
  <2> DEFINE E == [call[c] EXCEPT !.step = "install", !.text = crontab,
                                  !.request = "sent"]
  <2>1. call' = [call EXCEPT ![c] = E]
    BY <1>1, <1>3
  <2>2. E \in Call
    BY <1>1 DEF Call, Requests
  <2>3. /\ E.op = "remove" /\ E.step = "install"
        /\ E.profile = call[c].profile /\ E.request = "sent"
        /\ E.reply = call[c].reply
    BY <1>1 DEF Call
  <2> HIDE DEF E
  <2>4. Only(c) /\ call'[c] = E
    BY <1>1, <2>1, <2>2 DEF Only
  <2>5. Formed(call'[c])
    BY <1>1, <2>3, <2>4 DEF Formed, Active
  <2>6. Exclusive'
    BY <1>1, <2>3, <2>4, ExclusiveKept DEF Active
  <2>7. ASSUME NEW p \in Profiles
        PROVE  /\ ~Writing(c, p) /\ ~Writing(c, p)'
               /\ ~Takes(c, p) /\ ~Takes(c, p)' /\ ~HasRemoved(c, p)
    BY <1>1, <2>3, <2>4 DEF Writing, Takes, HasRemoved, Formed
  <2>8. call[c].step # "done" /\ call'[c].step # "done"
    BY <1>1, <2>3, <2>4
  <2> QED
    BY <1>1, <2>4, <2>5, <2>6, <2>7, <2>8, QuietStep
<1> QED
  BY <1>2, <1>3 DEF RemoveReads

-----------------------------------------------------------------------------
(* The host                                                                *)

LEMMA WithoutPairType ==
    ASSUME NEW t \in Seq(Line), NEW p
    PROVE  WithoutPair(t, p) \in Seq(Line)
<1>1. CASE Markers(t, p) = {}
  BY <1>1 DEF WithoutPair
<1>2. CASE Markers(t, p) # {}
  <2> DEFINE i == CHOOSE m \in Markers(t, p) : TRUE
             a == SubSeq(t, 1, i - 1)
             b == SubSeq(t, i + 2, Len(t))
  <2>1. WithoutPair(t, p) = a \o b
    BY <1>2 DEF WithoutPair
  <2>2. i \in Markers(t, p)
    BY <1>2
  <2> HIDE DEF i
  <2>3. i \in 1 .. Len(t) /\ Len(t) \in Int /\ 1 \in Int /\ i - 1 \in Int /\ i + 2 \in Int
    BY <2>2 DEF Markers
  <2>4. \A k \in 1 .. i - 1 : t[k] \in Line
    BY <2>3
  <2>5. \A k \in i + 2 .. Len(t) : t[k] \in Line
    BY <2>3
  <2>6. a \in Seq(Line)
    BY <2>3, <2>4, SubSeqProperties
  <2>7. b \in Seq(Line)
    BY <2>3, <2>5, SubSeqProperties
  <2> QED
    BY <2>1, <2>6, <2>7, ConcatProperties
<1> QED
  BY <1>1, <1>2

(* An invocation with an install to come is of one of these kinds.         *)
LEMMA SentKinds ==
    ASSUME CronInv, NEW c \in Callers, call[c].request = "sent"
    PROVE  /\ call[c].profile \in Profiles /\ call[c].op \in {"upsert", "remove"}
           /\ call[c].op = "upsert" => call[c].content \in CronContents
           /\ \/ call[c].op = "upsert" /\ call[c].step \in {"install", "reconcile"}
              \/ call[c].op = "remove" /\ call[c].step = "install"
              \/ call[c].step = "done"
<1>1. Formed(call[c]) /\ call[c] \in Call
  BY DEF CronInv, CronTypeOK
<1>2. call[c].step \in {"idle", "read", "install", "reconcile", "done"}
  BY <1>1 DEF Call
<1> QED
  BY <1>1, <1>2 DEF Formed

(* What the host installs says of the profile what was asked for, and of   *)
(* the others what the crontab said before.                                *)
LEMMA Executes ==
    ASSUME CronInv, NEW c \in Callers, call[c].request = "sent", SameText(c),
           crontab' = NewText(c)
    PROVE  /\ crontab' \in Seq(Line)
           /\ ~torn =>
                /\ Whole(crontab')
                /\ \A q : q # call[c].profile =>
                     Said(crontab', q) = Said(crontab, q)
                /\ Said(crontab', call[c].profile) =
                     IF call[c].op = "upsert" THEN {call[c].content} ELSE {}
           /\ \/ ForeignLines(crontab') = ForeignLines(crontab)
              \/ torn /\ Exposed(call[c].profile)
<1> DEFINE p == call[c].profile
           v == call[c].content
<1>1. /\ crontab \in Seq(Line) /\ call[c].text = crontab
      /\ p \in Profiles /\ (call[c].op = "upsert" => v \in CronContents)
      /\ ~torn => Whole(crontab)
  BY SentKinds DEF CronInv, CronTypeOK, SameText
<1>4. \/ ForeignLines(WithoutPair(crontab, p)) = ForeignLines(crontab)
      \/ torn /\ Exposed(p)
  <2>1. CASE ~torn
    BY <1>1, <2>1, WithoutPairKeeps
  <2>2. CASE ~Exposed(p)
    <3>1. \A m \in Markers(crontab, p) :
            m < Len(crontab) => crontab[m + 1].kind # "foreign"
      BY <2>2 DEF Exposed
    <3> QED
      BY <1>1, <3>1, PairDropped
  <2> QED
    BY <2>1, <2>2
<1>2. CASE call[c].op = "upsert"
  <2>1. crontab' = WithPair(crontab, p, v)
    BY <1>1, <1>2 DEF NewText
  <2>2. WithPair(crontab, p, v) \in Seq(Line)
    <3>1. Marker(p, v) \in Line /\ Job(v) \in Line
      BY <1>1, <1>2 DEF Line
    <3>2. <<Marker(p, v), Job(v)>> \in Seq(Line)
      BY <3>1
    <3> QED
      BY <1>1, <3>2, WithoutPairType, ConcatProperties DEF WithPair
  <2>3. ForeignLines(crontab') = ForeignLines(WithoutPair(crontab, p))
    BY <1>1, <1>2, <2>1, WithoutPairType, PairAtTheEnd DEF WithPair
  <2>4. \/ ForeignLines(crontab') = ForeignLines(crontab)
        \/ torn /\ Exposed(p)
    BY <1>4, <2>3
  <2> QED
    BY <1>1, <1>2, <2>1, <2>2, <2>4, WithPairKeeps
<1>3. CASE call[c].op # "upsert"
  <2>1. crontab' = WithoutPair(crontab, p)
    BY <1>1, <1>3 DEF NewText
  <2>2. Markers(crontab', p) = {} => Said(crontab', p) = {}
    BY DEF Said
  <2> QED
    BY <1>1, <1>3, <1>4, <2>1, <2>2, WithoutPairType, WithoutPairKeeps
<1> QED
  BY <1>2, <1>3

(* The removal whose install the host has executed, or may have executed.  *)
LEMMA TakenKept ==
    ASSUME NEW c \in Callers, Only(c), NEW p \in Profiles, Agreed(p),
           records'[p] = records[p],
           Said(crontab', p) \in {{}, Said(crontab, p)},
           ~Writing(c, p), ~Writing(c, p)', Takes(c, p)',
           HasRemoved(c, p) => HasRemoved(c, p)',
           LateInv(c, p)'
    PROVE  Agreed(p)'
<1>1. Removed(p) => Removed(p)'
  <2>1. \A d \in Callers : HasRemoved(d, p) => HasRemoved(d, p)'
    BY DEF Only, HasRemoved
  <2>2. Removed(p) <=> \E d \in Callers : HasRemoved(d, p)
    BY DEF Removed, HasRemoved
  <2>3. Removed(p)' <=> \E d \in Callers : HasRemoved(d, p)'
    BY DEF Removed, HasRemoved
  <2> QED
    BY <2>1, <2>2, <2>3
<1>2. Removing(p)'
  BY DEF Removing
<1>3. ASSUME NEW d \in Callers
      PROVE  /\ Writing(d, p)' => d # c /\ Writing(d, p)
             /\ Writing(d, p) => Writing(d, p)'
             /\ LateInv(d, p)'
  BY DEF Only, Writing, LateInv, Agreed
<1>4. (\A d \in Callers : ~Writing(d, p)') => Stands(p, records[p])'
  BY <1>1, <1>2, <1>3 DEF Agreed, Stands
<1>5. ASSUME NEW d \in Callers, Writing(d, p)' PROVE WriterInv(d, p)'
  <2>1. call'[d] = call[d] /\ WriterInv(d, p)
    BY <1>3, <1>5 DEF Only, Agreed
  <2> QED
    BY <2>1, <1>1, <1>2 DEF WriterInv, Stands, Candidate
<1> QED
  BY <1>3, <1>4, <1>5 DEF Agreed

(* What the helper does to the agreement about the profile it is run for.  *)
LEMMA HelperKept ==
    ASSUME CronInv, NEW c \in Callers, NEW outcome \in Requests \ {"none", "sent"},
           Answer(c, outcome), call[c].request = "sent",
           NEW p \in Profiles, call[c].profile = p, Agreed(p), ~torn,
           records' = records,
           \/ /\ SameText(c) /\ outcome # "conflict"
              /\ Said(crontab', p) =
                   IF call[c].op = "upsert" THEN {call[c].content} ELSE {}
           \/ /\ outcome \in {"conflict", "failed"}
              /\ Said(crontab', p) = Said(crontab, p)
    PROVE  Agreed(p)'
<1>1. /\ Only(c) /\ Exclusive' /\ Formed(call'[c])
      /\ call'[c].step = call[c].step /\ call'[c].reply = call[c].reply
      /\ call'[c].op = call[c].op /\ call'[c].profile = p
      /\ call'[c].request = outcome /\ call'[c].previous = call[c].previous
      /\ call[c].step # "done" => call'[c].content = call[c].content
  BY CallAnswered
<1>2. /\ outcome # "sent" /\ records'[p] = records[p]
      /\ HasRemoved(c, p) => HasRemoved(c, p)'
      /\ LateInv(c, p)'
  BY <1>1 DEF HasRemoved, LateInv
<1>3. CASE call[c].op = "upsert" /\ call[c].step \in {"install", "reconcile"}
  <2>1. Writing(c, p) /\ Writing(c, p)'
    BY <1>1, <1>3 DEF Writing
  <2>2. WriterInv(c, p)
    BY <2>1 DEF Agreed
  <2>3. Candidate(c)' = Candidate(c)
    BY <1>1, <1>3 DEF Candidate
  <2>4. ~Takes(c, p) /\ ~Takes(c, p)'
    BY <1>1, <1>3 DEF Takes
  <2>5. (Removed(p) => Removed(p)') /\ (Removing(p) <=> Removing(p)')
    BY <1>1, <1>2, <2>4, RemovalsKept
  <2>6. call[c].content \in CronContents
    BY <1>3, SentKinds
  <2>7. Candidate(c) # NoRecord /\ Candidate(c).content = call[c].content
    BY <2>6, CandidateIsRecord DEF Candidate
  <2>8. Stands(p, call[c].previous) /\ outcome = "conflict"
          => Stands(p, call[c].previous)'
    BY <1>1, <2>5 DEF Stands
  <2>9. outcome = "installed" => Stands(p, Candidate(c))'
    BY <1>3, <2>3, <2>7 DEF Stands
  <2>10. WriterInv(c, p)'
    BY <1>1, <1>2, <2>2, <2>3, <2>5, <2>8, <2>9 DEF WriterInv
  <2> QED
    BY <1>1, <2>1, <2>10, WriterKept
<1>4. CASE call[c].op = "remove" /\ call[c].step = "install"
  <2>1. ~Writing(c, p) /\ ~Writing(c, p)' /\ ~Takes(c, p)
    BY <1>1, <1>4 DEF Writing, Takes
  <2>2. CASE outcome = "conflict"
    <3>1. ~Takes(c, p)' /\ Said(crontab', p) = Said(crontab, p)
      BY <1>1, <2>2 DEF Takes
    <3> QED
      BY <1>1, <1>2, <2>1, <3>1, QuietKept
  <2>3. CASE outcome # "conflict"
    <3>1. Takes(c, p)'
      BY <1>1, <1>2, <1>4, <2>3 DEF Takes, Requests
    <3>2. Said(crontab', p) \in {{}, Said(crontab, p)}
      BY <1>4
    <3> QED
      BY <1>1, <1>2, <2>1, <3>1, <3>2, TakenKept
  <2> QED
    BY <2>2, <2>3
<1>5. CASE call[c].step = "done"
  <2>1. ~Writing(c, p) /\ ~Writing(c, p)' /\ ~Takes(c, p) /\ ~Takes(c, p)'
    BY <1>1, <1>5 DEF Writing, Takes
  <2>2. call[c].op = "upsert" /\ Said(call[c].text, p) = {call[c].content}
    BY <1>5 DEF Agreed, LateInv
  <2>3. Said(crontab', p) = Said(crontab, p)
    BY <2>2 DEF SameText
  <2> QED
    BY <1>1, <1>2, <2>1, <2>3, QuietKept
<1> QED
  BY <1>3, <1>4, <1>5, SentKinds

(* A step of the host keeps the invariant.                                 *)
LEMMA HostKept ==
    ASSUME CronInv, NEW c \in Callers, NEW outcome \in Requests \ {"none", "sent"},
           Answer(c, outcome), call[c].request = "sent",
           UNCHANGED <<records, edits, torn>>,
           \/ SameText(c) /\ outcome # "conflict" /\ crontab' = NewText(c)
           \/ outcome \in {"conflict", "failed"} /\ crontab' = crontab
    PROVE  CronInv'
<1>1. PICK p \in Profiles : p = call[c].profile
  BY SentKinds
<1>2. /\ Only(c) /\ Exclusive' /\ Formed(call'[c])
      /\ call'[c].step = call[c].step /\ call'[c].reply = call[c].reply
      /\ call'[c].profile = p /\ call'[c].request = outcome
  BY <1>1, CallAnswered
<1>3. RecordsOK' /\ \A q \in Profiles : records'[q] = records[q]
  BY RecordsStay
<1>4. /\ crontab' \in Seq(Line)
      /\ ~torn =>
           /\ Whole(crontab')
           /\ \A q \in Profiles : q # p => Said(crontab', q) = Said(crontab, q)
           /\ \/ /\ SameText(c) /\ outcome # "conflict"
                 /\ Said(crontab', p) =
                      IF call[c].op = "upsert" THEN {call[c].content} ELSE {}
              \/ /\ outcome \in {"conflict", "failed"}
                 /\ Said(crontab', p) = Said(crontab, p)
  BY <1>1, Executes DEF CronInv, CronTypeOK
<1>5. ASSUME ~torn, Clean(p)' PROVE Agreed(p)'
  <2>1. call[c].step = "done" => Definite(c)
    BY <1>2, <1>5 DEF Clean, Definite
  <2>2. Clean(p)
    BY <1>2, <1>5, <2>1, CleanBefore
  <2>3. Agreed(p)
    BY <1>5, <2>2 DEF CronInv
  <2> QED
    BY <1>1, <1>4, <1>5, <2>3, HelperKept
<1> QED
  BY <1>1, <1>2, <1>3, <1>4, <1>5, OwnProfile

LEMMA HostStepsKept ==
    ASSUME CronInv, NEW c \in Callers, HostRefuses(c) \/ Installing(c)
    PROVE  CronInv'
<1>1. /\ "conflict" \in Requests \ {"none", "sent"}
      /\ "installed" \in Requests \ {"none", "sent"}
      /\ "unverified" \in Requests \ {"none", "sent"}
      /\ "failed" \in Requests \ {"none", "sent"}
  BY DEF Requests
<1>2. CASE HostRefuses(c)
  <2>1. /\ call[c].request = "sent" /\ Answer(c, "conflict")
        /\ UNCHANGED <<records, edits, torn>> /\ crontab' = crontab
    BY <1>2 DEF HostRefuses
  <2> QED
    BY <1>1, <2>1, HostKept
<1>3. CASE HostInstalls(c)
  <2>1. PICK outcome \in {"installed", "unverified"} : Answer(c, outcome)
    BY <1>3 DEF HostInstalls
  <2>2. /\ call[c].request = "sent" /\ SameText(c) /\ crontab' = NewText(c)
        /\ UNCHANGED <<records, edits, torn>>
    BY <1>3 DEF HostInstalls
  <2>3. outcome # "conflict" /\ outcome \in Requests \ {"none", "sent"}
    BY <1>1
  <2> QED
    BY <2>1, <2>2, <2>3, HostKept
<1>4. CASE HostFails(c)
  <2>1. /\ call[c].request = "sent" /\ Answer(c, "failed")
        /\ UNCHANGED <<records, edits, torn>>
        /\ \/ SameText(c) /\ crontab' = NewText(c)
           \/ crontab' = crontab
    BY <1>4 DEF HostFails
  <2> QED
    BY <1>1, <2>1, HostKept
<1> QED
  BY <1>2, <1>3, <1>4 DEF Installing

-----------------------------------------------------------------------------
(* Its answer                                                              *)

(* What an upsert that is writing knows, and what its end has to leave.    *)
LEMMA WriterEnd ==
    ASSUME CronInv, NEW c \in Callers, NEW reply \in Replies, End(c, reply),
           NEW p \in Profiles, Writing(c, p), Agreed(p), Clean(p)',
           UNCHANGED <<crontab, edits, torn>>,
           \/ records'[p] = NoRecord /\ Removed(p)
           \/ Stands(p, records'[p]),
           call[c].request = "sent" => Said(call[c].text, p) = {call[c].content}
    PROVE  Agreed(p)'
<1>1. /\ Only(c) /\ call'[c].step = "done" /\ call'[c].op = call[c].op
      /\ call'[c].profile = call[c].profile
      /\ call'[c].request = call[c].request /\ call'[c].text = call[c].text
      /\ call[c].request = "sent" => call'[c].content = call[c].content
  BY CallEnded DEF Writing
<1>2. ~Takes(c, p) /\ ~Takes(c, p)' /\ ~HasRemoved(c, p)
  BY <1>1 DEF Writing, Takes, HasRemoved
<1>3. (Removed(p) => Removed(p)') /\ (Removing(p) <=> Removing(p)')
  BY <1>1, <1>2, RemovalsKept
<1>4. Stands(p, records[p])'
  BY <1>3 DEF Stands
<1>5. LateInv(c, p)'
  BY <1>1 DEF LateInv, Writing
<1> QED
  BY <1>1, <1>4, <1>5, WriterDone DEF CronInv

LEMMA UpsertAnsweredKept ==
    ASSUME CronInv, NEW c \in Callers, UpsertAnswered(c)
    PROVE  CronInv'
<1>1. /\ Formed(call[c]) /\ call[c].op = "upsert" /\ call[c].step = "install"
      /\ UNCHANGED <<crontab, edits, torn>>
  BY DEF CronInv, UpsertAnswered
<1>2. /\ call[c].profile \in Profiles /\ call[c].content \in CronContents
      /\ call[c].step \in Active
  BY <1>1 DEF Formed, Active
<1>3. PICK p \in Profiles : p = call[c].profile
  BY <1>2
<1>4. Writing(c, p)
  BY <1>1, <1>3 DEF Writing
<1>5. Agreed(p) => WriterInv(c, p)
  BY <1>4 DEF Agreed
<1>6. CASE /\ call[c].request = "installed" /\ End(c, "IN_SYNC")
           /\ records' = records
  <2>1. RecordsOK' /\ \A q \in Profiles : records'[q] = records[q]
    BY <1>6, RecordsStay
  <2>2. "IN_SYNC" \in Replies
    BY DEF Replies
  <2>3. Agreed(p) => \/ records'[p] = NoRecord /\ Removed(p)
                     \/ Stands(p, records'[p])
    BY <1>5, <1>6, <2>1 DEF WriterInv
  <2>4. Agreed(p) /\ Clean(p)' => Agreed(p)'
    BY <1>1, <1>4, <1>6, <2>2, <2>3, WriterEnd
  <2> QED
    BY <1>1, <1>2, <1>3, <1>6, <2>1, <2>2, <2>4, EndStep
<1>7. CASE /\ call[c].request = "conflict" /\ End(c, "CONCURRENT_MODIFICATION")
           /\ records' = RolledBack(c)
  <2>1. /\ RecordsOK' /\ \A q \in Profiles : q # p => records'[q] = records[q]
        /\ records'[p] = IF records[p] = Candidate(c)
                         THEN call[c].previous ELSE records[p]
    BY <1>2, <1>3, <1>7, RolledBackKept
  <2>2. "CONCURRENT_MODIFICATION" \in Replies
    BY DEF Replies
  <2>3. Agreed(p) => \/ records'[p] = NoRecord /\ Removed(p)
                     \/ Stands(p, records'[p])
    BY <1>5, <1>7, <2>1 DEF WriterInv
  <2>4. Agreed(p) /\ Clean(p)' => Agreed(p)'
    BY <1>1, <1>4, <1>7, <2>2, <2>3, WriterEnd
  <2> QED
    BY <1>1, <1>2, <1>3, <1>7, <2>1, <2>2, <2>4, EndStep
<1>8. CASE End(c, "INSTALL_FAILED") /\ records' = RolledBack(c)
  <2>1. /\ RecordsOK'
        /\ \A q \in Profiles : q # call[c].profile => records'[q] = records[q]
    BY <1>2, <1>8, RolledBackKept
  <2>2. "INSTALL_FAILED" \in Replies
    BY DEF Replies
  <2> QED
    BY <1>1, <1>2, <1>8, <2>1, <2>2, IndefiniteEnd
<1> QED
  BY <1>6, <1>7, <1>8 DEF UpsertAnswered

LEMMA UpsertUncertainKept ==
    ASSUME CronInv, NEW c \in Callers, UpsertUncertain(c)
    PROVE  CronInv'
<1> DEFINE E == [call[c] EXCEPT !.step = "reconcile"]
<1>1. /\ call \in [Callers -> Call] /\ Formed(call[c]) /\ Exclusive
      /\ call[c].op = "upsert" /\ call[c].step = "install"
      /\ UNCHANGED <<records, crontab, edits, torn>>
      /\ call' = [call EXCEPT ![c] = E]
  BY DEF CronInv, CronTypeOK, UpsertUncertain
<1>2. E \in Call
  BY <1>1 DEF Call
<1>3. /\ E.op = "upsert" /\ E.step = "reconcile"
      /\ E.profile = call[c].profile /\ E.request = call[c].request
      /\ E.reply = call[c].reply /\ E.text = call[c].text
      /\ E.content = call[c].content /\ E.previous = call[c].previous
  BY <1>1 DEF Call
<1> HIDE DEF E
<1>4. Only(c) /\ call'[c] = E
  BY <1>1, <1>2 DEF Only
<1>5. Formed(call'[c])
  BY <1>1, <1>3, <1>4 DEF Formed, Active
<1>6. Exclusive'
  BY <1>1, <1>3, <1>4, ExclusiveKept DEF Active
<1>7. PICK p \in Profiles : p = call[c].profile
  BY <1>1 DEF Formed
<1>8. /\ RecordsOK' /\ \A q \in Profiles : records'[q] = records[q]
      /\ crontab' \in Seq(Line) /\ UNCHANGED <<edits, torn>>
      /\ ~torn => Whole(crontab')
      /\ \A q \in Profiles : Said(crontab', q) = Said(crontab, q)
  BY <1>1, RecordsStay DEF CronInv, CronTypeOK
<1>9. ASSUME ~torn, Clean(p)' PROVE Agreed(p)'
  <2>1. Clean(p)
    BY <1>1, <1>4, <1>9, CleanBefore
  <2>2. Agreed(p)
    BY <1>9, <2>1 DEF CronInv
  <2>3. Writing(c, p) /\ Writing(c, p)'
    BY <1>1, <1>3, <1>4, <1>7 DEF Writing
  <2>4. ~Takes(c, p) /\ ~Takes(c, p)' /\ ~HasRemoved(c, p)
    BY <1>1, <1>3, <1>4 DEF Takes, HasRemoved
  <2>5. (Removed(p) => Removed(p)') /\ (Removing(p) <=> Removing(p)')
    BY <1>4, <2>4, RemovalsKept
  <2>6. WriterInv(c, p) /\ Candidate(c)' = Candidate(c)
    BY <1>3, <1>4, <2>2, <2>3 DEF Agreed, Candidate
  <2>7. WriterInv(c, p)'
    BY <1>1, <1>3, <1>4, <2>5, <2>6 DEF WriterInv, Stands
  <2> QED
    BY <1>4, <1>6, <2>2, <2>3, <2>7, WriterKept
<1> QED
  BY <1>3, <1>4, <1>5, <1>6, <1>7, <1>8, <1>9, OwnProfile

LEMMA ReconcileKept ==
    ASSUME CronInv, NEW c \in Callers, Reconcile(c)
    PROVE  CronInv'
<1>1. /\ Formed(call[c]) /\ call[c].op = "upsert"
      /\ call[c].step = "reconcile" /\ call[c].step \in Active
      /\ UNCHANGED <<crontab, edits, torn>>
  BY DEF CronInv, Reconcile, Formed, Active
<1>2. call[c].profile \in Profiles /\ call[c].content \in CronContents
  BY <1>1 DEF Formed, Active
<1>3. PICK p \in Profiles : p = call[c].profile
  BY <1>2
<1>4. Writing(c, p)
  BY <1>1, <1>3 DEF Writing
<1>5. Agreed(p) => WriterInv(c, p)
  BY <1>4 DEF Agreed
<1>6. CASE ~SeesItself(c)
  <2>1. End(c, "AMBIGUOUS") /\ records' = RolledBack(c)
    BY <1>6 DEF Reconcile
  <2>2. /\ RecordsOK'
        /\ \A q \in Profiles : q # call[c].profile => records'[q] = records[q]
    BY <1>2, <2>1, RolledBackKept
  <2>3. "AMBIGUOUS" \in Replies
    BY DEF Replies
  <2> QED
    BY <1>1, <2>1, <2>2, <2>3, IndefiniteEnd
<1>7. CASE SeesItself(c)
  <2>1. ASSUME ~torn, Whole(crontab), Agreed(p)
        PROVE  /\ Said(crontab, p) = {call[c].content}
               /\ call[c].request = "sent"
                  => Said(call[c].text, p) = {call[c].content}
    <3>1. Said(crontab, p) = {call[c].content}
      BY <1>3, <1>7, <2>1, SyncIsSaid DEF SeesItself, CronInv, CronTypeOK
    <3> QED
      BY <1>5, <2>1, <3>1 DEF WriterInv
  <2>2. CASE Full(p)
    <3>1. End(c, "CAPACITY") /\ records' = records /\ records[p] = NoRecord
      BY <1>3, <1>7, <2>2 DEF Reconcile, Full
    <3>2. RecordsOK' /\ \A q \in Profiles : records'[q] = records[q]
      BY <3>1, RecordsStay
    <3>3. "CAPACITY" \in Replies
      BY DEF Replies
    <3>4. Agreed(p) => records'[p] = NoRecord /\ Removed(p)
      BY <1>5, <3>1 DEF WriterInv
    <3>5. ~torn /\ Whole(crontab) /\ Clean(p)' /\ Agreed(p) => Agreed(p)'
      BY <1>1, <1>4, <2>1, <3>1, <3>3, <3>4, WriterEnd
    <3> QED
      BY <1>1, <1>3, <3>1, <3>2, <3>3, <3>5, EndStep
  <2>3. CASE ~Full(p)
    <3>1. /\ End(c, "IN_SYNC")
          /\ records' = [records EXCEPT ![p] = Candidate(c)]
      BY <1>3, <1>7, <2>3 DEF Reconcile
    <3>2. /\ Candidate(c) \in Record /\ Candidate(c) # NoRecord
          /\ Candidate(c).content = call[c].content
      BY <1>2, CandidateIsRecord DEF Candidate
    <3>3. RecordsOK
      BY DEF CronInv, CronTypeOK, RecordsOK, Listed
    <3>4. /\ RecordsOK' /\ records'[p] = Candidate(c)
          /\ \A q \in Profiles : q # p => records'[q] = records[q]
      BY <2>3, <3>1, <3>2, <3>3, RecordsKept DEF RecordsOK
    <3>5. "IN_SYNC" \in Replies
      BY DEF Replies
    <3>6. Said(crontab, p) = {call[c].content} => Stands(p, records'[p])
      BY <3>2, <3>4 DEF Stands
    <3>7. ~torn /\ Whole(crontab) /\ Clean(p)' /\ Agreed(p) => Agreed(p)'
      BY <1>1, <1>4, <2>1, <3>1, <3>5, <3>6, WriterEnd
    <3> QED
      BY <1>1, <1>3, <3>1, <3>4, <3>5, <3>7, EndStep
  <2> QED
    BY <2>2, <2>3
<1> QED
  BY <1>6, <1>7

(* A removal that has taken the pair takes the record as well.             *)
LEMMA RecordTaken ==
    ASSUME CronInv, NEW c \in Callers, NEW reply \in Replies, End(c, reply),
           NEW p \in Profiles, Agreed(p), call[c].op = "remove",
           call[c].step = "install", call[c].profile = p,
           call[c].request = "installed", UNCHANGED <<crontab, edits, torn>>,
           records[p] # NoRecord => reply = "REMOVED",
           records'[p] = NoRecord
    PROVE  Agreed(p)'
<1>1. /\ Only(c) /\ call'[c].step = "done" /\ call'[c].op = "remove"
      /\ call'[c].profile = p /\ call'[c].reply = reply
      /\ call'[c].request = "installed"
  BY CallEnded
<1>2. Removed(p) => Removed(p)'
  <2>1. call[c].reply # "REMOVED"
    BY DEF CronInv, Formed
  <2>2. \A d \in Callers : HasRemoved(d, p) => HasRemoved(d, p)'
    BY <1>1, <2>1 DEF Only, HasRemoved
  <2>3. Removed(p) <=> \E d \in Callers : HasRemoved(d, p)
    BY DEF Removed, HasRemoved
  <2>4. Removed(p)' <=> \E d \in Callers : HasRemoved(d, p)'
    BY DEF Removed, HasRemoved
  <2> QED
    BY <2>2, <2>3, <2>4
<1>3. records[p] # NoRecord => Removed(p)'
  BY <1>1 DEF Removed
<1>4. ASSUME NEW d \in Callers
      PROVE  /\ Writing(d, p)' => d # c /\ Writing(d, p)
             /\ Writing(d, p) => Writing(d, p)'
             /\ LateInv(d, p)'
  BY <1>1 DEF Only, Writing, LateInv, Agreed
<1>5. (\A d \in Callers : ~Writing(d, p)') => Stands(p, records[p])'
  BY <1>2, <1>3, <1>4 DEF Agreed, Stands
<1>6. ASSUME NEW d \in Callers, Writing(d, p)' PROVE WriterInv(d, p)'
  <2>1. call'[d] = call[d] /\ WriterInv(d, p) /\ Writing(d, p)
    BY <1>1, <1>4, <1>6 DEF Only, Agreed
  <2>2. Candidate(d)' = Candidate(d) /\ Candidate(d) # NoRecord
    <3>1. call[d].content \in CronContents
      BY <2>1 DEF CronInv, Formed, Writing, Active
    <3> QED
      BY <2>1, <3>1, CandidateIsRecord DEF Candidate
  <2> QED
    BY <1>2, <1>3, <2>1, <2>2 DEF WriterInv
<1> QED
  BY <1>4, <1>5, <1>6 DEF Agreed

LEMMA RemoveAnsweredKept ==
    ASSUME CronInv, NEW c \in Callers, RemoveAnswered(c)
    PROVE  CronInv'
<1>1. /\ Formed(call[c]) /\ call[c].op = "remove" /\ call[c].step = "install"
      /\ call[c].step \in Active /\ UNCHANGED <<crontab, edits, torn>> /\ RecordsOK
  BY DEF CronInv, RemoveAnswered, Active, CronTypeOK, RecordsOK, Listed
<1>2. PICK p \in Profiles : p = call[c].profile
  BY <1>1 DEF Formed
<1>3. CASE /\ call[c].request = "installed"
           /\ End(c, IF records[p] = NoRecord THEN "PROFILE_NOT_FOUND"
                     ELSE "REMOVED")
           /\ records' = [records EXCEPT ![p] = NoRecord]
  <2>1. PICK reply \in Replies :
          /\ End(c, reply)
          /\ records[p] # NoRecord => reply = "REMOVED"
    BY <1>3 DEF Replies
  <2>2. /\ RecordsOK' /\ records'[p] = NoRecord
        /\ \A q \in Profiles : q # p => records'[q] = records[q]
    BY <1>1, <1>3, RecordsKept DEF RecordsOK
  <2>3. Agreed(p) => Agreed(p)'
    BY <1>1, <1>2, <1>3, <2>1, <2>2, RecordTaken
  <2> QED
    BY <1>1, <1>2, <2>1, <2>2, <2>3, EndStep
<1>4. CASE /\ call[c].request = "conflict" /\ End(c, "CONCURRENT_MODIFICATION")
           /\ records' = records
  <2>1. "CONCURRENT_MODIFICATION" \in Replies
    BY DEF Replies
  <2>2. /\ Only(c) /\ Exclusive' /\ Formed(call'[c]) /\ call'[c].step = "done"
        /\ call'[c].request = "conflict"
    BY <1>1, <1>4, <2>1, CallEnded
  <2>3. ASSUME NEW q \in Profiles
        PROVE  /\ ~Writing(c, q) /\ ~Writing(c, q)'
               /\ ~Takes(c, q) /\ ~Takes(c, q)' /\ ~HasRemoved(c, q)
    BY <1>1, <1>4, <2>2 DEF Writing, Takes, HasRemoved, Formed
  <2> QED
    BY <1>1, <1>4, <2>2, <2>3, QuietStep
<1>5. CASE \E reply \in {"INSTALL_FAILED", "AMBIGUOUS"} :
             End(c, reply) /\ records' = records
  <2>1. "INSTALL_FAILED" \in Replies /\ "AMBIGUOUS" \in Replies
    BY DEF Replies
  <2> QED
    BY <1>1, <1>5, <2>1, RecordsStay, IndefiniteEnd
<1> QED
  BY <1>2, <1>3, <1>4, <1>5 DEF RemoveAnswered

-----------------------------------------------------------------------------
(* People, and the theorems                                                *)

LEMMA EditedByHandKept ==
    ASSUME CronInv, EditedByHand
    PROVE  CronInv'
<1>1. /\ edits' = edits + 1 /\ edits < MaxEdits /\ UNCHANGED <<records, call>>
      /\ crontab \in Seq(Line) /\ edits \in 0 .. MaxEdits /\ torn \in BOOLEAN
  BY DEF EditedByHand, CronInv, CronTypeOK
<1>2. edits' \in 0 .. MaxEdits
  BY <1>1, CronAssumption
<1>3. /\ crontab' \in Seq(Line) /\ torn' \in BOOLEAN
      /\ ~torn' => ~torn
      /\ ~torn' /\ Whole(crontab) =>
           Whole(crontab') /\ \A q : Said(crontab', q) = Said(crontab, q)
  BY <1>1, EditKeeps
<1>4. CronTypeOK' /\ IsFiniteSet(Listed)' /\ \A c \in Callers : Formed(call[c])'
  BY <1>1, <1>2, <1>3 DEF CronInv, CronTypeOK, Listed, Formed
<1>5. Exclusive'
  BY <1>1 DEF CronInv, Exclusive
<1>6. ASSUME ~torn', NEW p \in Profiles, Clean(p)'
      PROVE  Agreed(p)'
  <2>1. Clean(p)
    BY <1>1, <1>6 DEF Clean, Definite
  <2>2. Agreed(p) /\ Said(crontab', p) = Said(crontab, p)
    BY <1>3, <1>6, <2>1 DEF CronInv
  <2>3. (Removed(p) <=> Removed(p)') /\ (Removing(p) <=> Removing(p)')
    BY <1>1 DEF Removed, Removing, Takes
  <2>4. \A c \in Callers : /\ Writing(c, p) <=> Writing(c, p)'
                           /\ LateInv(c, p) => LateInv(c, p)'
    BY <1>1 DEF Writing, LateInv
  <2>5. \A c \in Callers : WriterInv(c, p) => WriterInv(c, p)'
    BY <1>1, <2>2, <2>3 DEF WriterInv, Stands, Candidate
  <2>6. Stands(p, records[p]) => Stands(p, records[p])'
    BY <1>1, <2>2, <2>3 DEF Stands
  <2> QED
    BY <2>2, <2>4, <2>5, <2>6 DEF Agreed
<1>7. ~torn' => Whole(crontab)'
  BY <1>3 DEF CronInv
<1> QED
  BY <1>4, <1>5, <1>6, <1>7 DEF CronInv

LEMMA InitKept == CronInit => CronInv
<1> SUFFICES ASSUME CronInit PROVE CronInv
  OBVIOUS
<1>1. Listed = {}
  BY DEF CronInit, Listed
<1>2. IsFiniteSet(Listed) /\ Cardinality(Listed) = 0
  BY <1>1, FS_EmptySet
<1>3. \A f \in Foreign : ForeignLine(f) \in Line /\ ForeignLine(f).kind = "foreign"
  BY DEF Line, ForeignLine
<1>4. crontab \in Seq(Line) /\ \A i \in DOMAIN crontab : crontab[i].kind = "foreign"
  <2>1. CASE crontab = <<>>
    BY <2>1
  <2>2. ASSUME NEW f \in Foreign, crontab = <<ForeignLine(f)>>
        PROVE  crontab \in Seq(Line) /\ \A i \in DOMAIN crontab : crontab[i].kind = "foreign"
    BY <1>3, <2>2
  <2> QED
    BY <2>1, <2>2 DEF CronInit
<1>5. Whole(crontab)
  BY <1>4 DEF Whole
<1>6. /\ call \in [Callers -> Call]
      /\ \A c \in Callers : call[c] = Idle
  BY IdleIsCall DEF CronInit
<1>7. \A c \in Callers : /\ call[c].step = "idle" /\ call[c].request = "none"
                         /\ call[c].reply = Nil
  BY <1>6 DEF Idle
<1>12. torn \in BOOLEAN
  BY DEF CronInit
<1>8. CronTypeOK
  BY <1>2, <1>4, <1>6, <1>12, CronAssumption DEF CronInit, CronTypeOK, Listed
<1>9. \A c \in Callers : Formed(call[c])
  BY <1>7, NoReply DEF Formed, Active, Replies
<1>10. Exclusive
  BY <1>7 DEF Exclusive, Active
<1>11. ASSUME NEW p \in Profiles PROVE Agreed(p)
  <2>1. Said(crontab, p) = {}
    BY <1>4 DEF Said, Markers
  <2>2. records[p] = NoRecord
    BY DEF CronInit
  <2> QED
    BY <1>7, <2>1, <2>2 DEF Agreed, Stands, Writing, LateInv
<1> QED
  BY <1>2, <1>5, <1>8, <1>9, <1>10, <1>11 DEF CronInv

LEMMA CallStepKept ==
    ASSUME CronInv, NEW c \in Callers, CallStep(c)
    PROVE  CronInv'
BY UpsertBeginsKept, RemoveBeginsKept, ReadFailsKept, UpsertReadsKept,
   RemoveReadsKept, HostStepsKept, UpsertAnsweredKept, UpsertUncertainKept,
   ReconcileKept, RemoveAnsweredKept, AbandonedKept DEF CallStep

LEMMA StutterKept ==
    ASSUME CronInv, UNCHANGED cronVars
    PROVE  CronInv'
<1>1. UNCHANGED <<records, crontab, call, edits, torn>>
  BY DEF cronVars
<1>2. \A p \in Profiles : Clean(p)' => Clean(p)
  BY <1>1 DEF Clean, Definite
<1>3. \A p \in Profiles : Agreed(p) => Agreed(p)'
  BY <1>1 DEF Agreed, WriterInv, LateInv, Stands, Writing, Removed, Removing,
              Takes, Candidate
<1> QED
  BY <1>1, <1>2, <1>3 DEF CronInv, CronTypeOK, Listed, Formed, Exclusive

LEMMA StepKept == CronInv /\ [CronNext]_cronVars => CronInv'
BY CallStepKept, EditedByHandKept, StutterKept DEF CronNext

(* The inductive invariant holds.                                          *)
THEOREM CronInvariantHolds == CronSpec => []CronInv
BY InitKept, StepKept, PTL DEF CronSpec

(* Every variable has its type, and the store never holds more records     *)
(* than its bound, for any number of calls, profiles and edits.            *)
THEOREM CronTypesCorrect == CronSpec => []CronTypeOK
<1>1. CronInv => CronTypeOK
  BY DEF CronInv
<1> QED
  BY <1>1, CronInvariantHolds, PTL

(* Installs that are executed late or in another order leave no half pair, *)
(* and no profile with two.                                                *)
THEOREM PairsSafe == CronSpec => []PairsStayWhole
<1>1. CronInv => PairsStayWhole
  <2> SUFFICES ASSUME CronInv, ~torn PROVE PairsStayWhole
    BY DEF PairsStayWhole
  <2>1. crontab \in Seq(Line) /\ Whole(crontab)
    BY DEF CronInv, CronTypeOK
  <2>2. \A p \in Profiles : Cardinality(Markers(crontab, p)) <= 1
    BY <2>1, OneMarker
  <2> QED
    BY <2>1, <2>2 DEF Whole, PairsStayWhole
<1> QED
  BY <1>1, CronInvariantHolds, PTL

(* Once every call on a profile has had a definite answer, its record and  *)
(* its pair agree, but for a profile that has been removed.                *)
THEOREM RecordsMatchSafe == CronSpec => []RecordsMatchCrontab
<1>1. CronInv => RecordsMatchCrontab
  <2> SUFFICES ASSUME CronInv, ~torn, NEW p \in Profiles, Settled(p)
               PROVE  IF records[p] # NoRecord
                      THEN InSync(crontab, p, records[p].content)
                      ELSE Markers(crontab, p) = {} \/ Removed(p)
    BY DEF RecordsMatchCrontab
  <2>1. \A c \in Callers : call[c].profile = p => call[c].step = "done"
    BY DEF Settled, Definite
  <2>2. Clean(p)
    BY DEF Clean, Settled
  <2>3. Agreed(p) /\ crontab \in Seq(Line) /\ Whole(crontab)
    BY <2>2 DEF CronInv, CronTypeOK
  <2>4. ~Removing(p) /\ \A c \in Callers : ~Writing(c, p)
    BY <2>1 DEF Removing, Takes, Writing
  <2>5. Stands(p, records[p])
    BY <2>3, <2>4 DEF Agreed
  <2>6. CASE records[p] # NoRecord
    BY <2>3, <2>4, <2>5, <2>6, SyncIsSaid DEF Stands
  <2>7. CASE records[p] = NoRecord
    <3>1. Said(crontab, p) = {} => Markers(crontab, p) = {}
      BY DEF Said
    <3> QED
      BY <2>5, <2>7, <3>1 DEF Stands
  <2> QED
    BY <2>6, <2>7
<1> QED
  BY <1>1, CronInvariantHolds, PTL

(* An install, whenever it is executed and whether or not it is known to   *)
(* have succeeded, keeps every line of others in its place among them;     *)
(* but for the line behind a marker that people have torn from its job.    *)
THEOREM ForeignLinesSafe == CronSpec => ForeignLinesPreserved
<1>1. ASSUME CronInv, NEW c \in Callers, Installing(c)
      PROVE  \/ ForeignLines(crontab') = ForeignLines(crontab)
             \/ torn /\ Exposed(call[c].profile)
  <2>1. /\ call[c].request = "sent"
        /\ \/ SameText(c) /\ crontab' = NewText(c)
           \/ crontab' = crontab
    BY <1>1 DEF Installing, HostInstalls, HostFails
  <2> QED
    BY <1>1, <2>1, Executes
<1>2. CronInv /\ [CronNext]_cronVars
      => [\A c \in Callers : Installing(c) =>
            \/ ForeignLines(crontab') = ForeignLines(crontab)
            \/ torn /\ Exposed(call[c].profile)]_cronVars
  BY <1>1
<1> QED
  BY <1>2, CronInvariantHolds, PTL DEF CronSpec, ForeignLinesPreserved
=============================================================================
