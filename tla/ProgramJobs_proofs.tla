-------------------------- MODULE ProgramJobs_proofs --------------------------
(***************************************************************************)
(* Theorems about typed program jobs, for any number of jobs, any callers  *)
(* and any capacity of the registry.                                       *)
(***************************************************************************)
EXTENDS ProgramJobs, FiniteSetTheorems, TLAPS

(* A job that reads as ended while its task goes on has been cancelled,    *)
(* and the task will end so.                                               *)
WillBeCancelled(j) ==
    /\ job[j].state = "cancelled"
    /\ job[j].requested \/ (job[j].at = "ending" /\ job[j].why = "cancel")

(* A task that ends, or will end, without having begun leaves no terminal  *)
(* state; nobody is told of such a job unless the server is closing.       *)
NobodyAsks(j) == closing # "no" \/ kept[j] = "no"

JobFits(j) ==
    /\ job[j].at = "none" =>
        job[j].state = "queued" /\ ~job[j].requested /\ kept[j] = "no"
    /\ Unfinished(j) /\ job[j].state \in Terminal => WillBeCancelled(j)
    /\ job[j].at = "created" /\ job[j].requested /\ job[j].state \notin Terminal
        => NobodyAsks(j)
    /\ job[j].at = "done" /\ job[j].state \notin Terminal => NobodyAsks(j)

(* Before the process is collected the program has not been started, or    *)
(* the connection is gone; afterwards a signal is on its way to a helper   *)
(* that has yet to start the program or to end it.                         *)
HostFits(j) ==
    /\ host[j].running => host[j].helper \in {"bare", "guarded", "gone"}
    /\ job[j].at \in {"none", "created", "opening"} => host[j] = Absent
    /\ job[j].at = "writing" => ~host[j].sigterm
    /\ job[j].at = "writing" /\ connected => host[j].helper = "reading"
    /\ connected /\ job[j].at \in {"ending", "done"}
            /\ host[j].helper \in {"fed", "bare", "guarded"}
        => host[j].sigterm

CallFits(c) ==
    /\ call[c].step # "idle" => call[c].job \in Jobs
    /\ call[c].step = "waiting" => job[call[c].job].state = "cancelled"

IInv ==
    /\ TypeOK
    /\ \A j \in Jobs : JobFits(j) /\ HostFits(j)
    /\ \A c \in Callers : CallFits(c)
    /\ AnswersStayTrue
-----------------------------------------------------------------------------
(* Steps of one job: its task or its host moves, and nothing else does.    *)

(* What such a step must show of the job it is about.                      *)
LEMMA OneJob ==
    ASSUME IInv, NEW j \in Jobs, NEW J \in Job, NEW H \in Host,
           job' = [job EXCEPT ![j] = J], host' = [host EXCEPT ![j] = H],
           UNCHANGED <<kept, call, told, closing, awaited, connected>>,
           JobFits(j)', HostFits(j)',
           job[j].state \in Terminal => J.state = job[j].state
    PROVE  IInv'
<1>1. job \in [Jobs -> Job] /\ host \in [Jobs -> Host]
  BY DEF IInv, TypeOK
<1>2. TypeOK'
  BY <1>1 DEF IInv, TypeOK
<1>3. ASSUME NEW i \in Jobs PROVE JobFits(i)' /\ HostFits(i)'
  <2>1. CASE i = j
    BY <2>1
  <2>2. CASE i # j
    <3>1. job'[i] = job[i] /\ host'[i] = host[i]
      BY <1>1, <2>2
    <3>2. JobFits(i) /\ HostFits(i)
      BY DEF IInv
    <3> QED
      BY <3>1, <3>2 DEF JobFits, HostFits, Unfinished, WillBeCancelled, NobodyAsks
  <2> QED
    BY <2>1, <2>2
<1>4. \A i \in Jobs : job[i].state \in Terminal => job'[i].state = job[i].state
  BY <1>1
<1>5. \A c \in Callers : CallFits(c)'
  BY <1>4 DEF IInv, CallFits, Terminal
<1>6. AnswersStayTrue'
  BY <1>4 DEF IInv, AnswersStayTrue
<1> QED
  BY <1>2, <1>3, <1>5, <1>6 DEF IInv

(* The records of a job and of its host, field by field.                   *)
LEMMA JobRecord ==
    ASSUME NEW s \in States, NEW a, NEW w, NEW r \in BOOLEAN,
           a \in {"created", "opening", "writing", "collecting", "ending", "done"},
           w \in {"limit", "cancel", None}
    PROVE  [state |-> s, at |-> a, why |-> w, requested |-> r] \in Job
  BY DEF Job

LEMMA JobFields ==
    ASSUME NEW r \in Job
    PROVE  /\ r = [state |-> r.state, at |-> r.at, why |-> r.why, requested |-> r.requested]
           /\ r.state \in States /\ r.requested \in BOOLEAN
           /\ r.at \in {"none", "created", "opening", "writing", "collecting", "ending", "done"}
           /\ r.why \in {"limit", "cancel", None}
  BY DEF Job

LEMMA HostFields ==
    ASSUME NEW h \in Host
    PROVE  /\ h = [helper |-> h.helper, running |-> h.running, sigterm |-> h.sigterm]
           /\ h.running \in BOOLEAN /\ h.sigterm \in BOOLEAN
           /\ h.helper \in {"absent", "reading", "fed", "bare", "guarded", "answered", "gone"}
  BY DEF Host

(* The task ends, in a state that it may end in.                           *)
LEMMA TaskEndKeeps ==
    ASSUME IInv, NEW j \in Jobs, NEW s \in States, TaskEnds(j, s),
           UNCHANGED <<kept, host, call, told, closing, awaited, connected>>,
           job[j].state \in Terminal => s = job[j].state,
           s \notin Terminal => NobodyAsks(j),
           host[j].running => host[j].helper \in {"bare", "guarded", "gone"},
           connected /\ host[j].helper \in {"fed", "bare", "guarded"} => host[j].sigterm
    PROVE  IInv'
<1> DEFINE J == [state |-> s, at |-> "done", why |-> None, requested |-> FALSE]
<1>1. job \in [Jobs -> Job] /\ host \in [Jobs -> Host]
  BY DEF IInv, TypeOK
<1>2. job' = [job EXCEPT ![j] = J]
  <2>1. job[j] = [state |-> job[j].state, at |-> job[j].at, why |-> job[j].why,
                  requested |-> job[j].requested]
    BY <1>1, JobFields
  <2>2. DOMAIN job = Jobs /\ job = [i \in Jobs |-> job[i]]
    BY <1>1
  <2>3. job'[j] = J /\ DOMAIN job' = Jobs
    BY <2>1, <2>2 DEF TaskEnds
  <2>4. \A i \in Jobs \ {j} : job'[i] = job[i]
    BY <2>2 DEF TaskEnds
  <2>5. job' = [i \in Jobs |-> job'[i]]
    BY <2>2 DEF TaskEnds
  <2> HIDE DEF J
  <2> QED
    BY <2>2, <2>3, <2>4, <2>5
<1>3. J \in Job
  BY JobRecord
<1>4. host' = [host EXCEPT ![j] = host[j]] /\ host[j] \in Host
  BY <1>1
<1>5. job'[j] = J /\ host'[j] = host[j]
  BY <1>1, <1>2
<1>6. JobFits(j)'
  BY <1>5 DEF JobFits, Unfinished, WillBeCancelled, NobodyAsks
<1>7. HostFits(j)'
  BY <1>5 DEF HostFits
<1>8. job[j].state \in Terminal => J.state = job[j].state
  OBVIOUS
<1> HIDE DEF J
<1> QED
  BY <1>2, <1>3, <1>4, <1>6, <1>7, <1>8, OneJob

LEMMA BrokenKeeps == ASSUME IInv, NEW j \in Jobs, Broken(j) PROVE IInv'
<1>1. JobFits(j) /\ HostFits(j) /\ job[j] \in Job
  BY DEF IInv, TypeOK
<1>2. job[j].state \notin Terminal
  BY <1>1 DEF Broken, At, JobFits, WillBeCancelled, Unfinished
<1>3. host[j].running => host[j].helper \in {"bare", "guarded", "gone"}
  BY <1>1 DEF HostFits
<1> QED
  BY <1>2, <1>3, TaskEndKeeps DEF Broken, States, Terminal

LEMMA CollectedKeeps == ASSUME IInv, NEW j \in Jobs, Collected(j) PROVE IInv'
<1>1. JobFits(j) /\ HostFits(j) /\ job[j] \in Job
  BY DEF IInv, TypeOK
<1>2. job[j].state \notin Terminal
  BY <1>1 DEF Collected, At, JobFits, WillBeCancelled, Unfinished
<1>3. host[j].running => host[j].helper \in {"bare", "guarded", "gone"}
  BY <1>1 DEF HostFits
<1>4. PICK s \in {"succeeded", "failed"} :
        /\ TaskEnds(j, s)
        /\ connected => host[j].helper \in {"answered", "gone"}
  BY DEF Collected
<1>5. s \in States /\ s \in Terminal
  BY DEF States, Terminal
<1>6. connected /\ host[j].helper \in {"fed", "bare", "guarded"} => host[j].sigterm
  BY <1>4
<1>7. UNCHANGED <<kept, host, call, told, closing, awaited, connected>>
  BY DEF Collected
<1> QED
  BY <1>2, <1>3, <1>4, <1>5, <1>6, <1>7, TaskEndKeeps

LEMMA EndedKeeps == ASSUME IInv, NEW j \in Jobs, Ended(j) PROVE IInv'
<1> DEFINE s == IF job[j].why = "cancel" THEN "cancelled" ELSE "failed"
<1>1. JobFits(j) /\ HostFits(j) /\ job[j] \in Job
  BY DEF IInv, TypeOK
<1>2. job[j].at = "ending" /\ ~job[j].requested /\ TaskEnds(j, s)
  BY DEF Ended, At
<1>3. job[j].state \in Terminal => s = job[j].state
  BY <1>1, <1>2 DEF JobFits, WillBeCancelled, Unfinished
<1>4. s \in States /\ s \in Terminal
  BY DEF States, Terminal
<1>5. /\ host[j].running => host[j].helper \in {"bare", "guarded", "gone"}
      /\ connected /\ host[j].helper \in {"fed", "bare", "guarded"} => host[j].sigterm
  BY <1>1, <1>2 DEF HostFits
<1>6. UNCHANGED <<kept, host, call, told, closing, awaited, connected>>
  BY DEF Ended
<1> HIDE DEF s
<1> QED
  BY <1>2, <1>3, <1>4, <1>5, <1>6, TaskEndKeeps

LEMMA CancelledEarlyKeeps == ASSUME IInv, NEW j \in Jobs, CancelledEarly(j) PROVE IInv'
<1> DEFINE s == IF job[j].at = "created" THEN job[j].state ELSE "cancelled"
<1>1. JobFits(j) /\ HostFits(j) /\ job[j] \in Job
  BY DEF IInv, TypeOK
<1>2. /\ job[j].at \in {"created", "opening", "writing"} /\ job[j].requested
      /\ TaskEnds(j, s)
  BY DEF CancelledEarly
<1>3. job[j].state \in Terminal => s = job[j].state
  BY <1>1, <1>2 DEF JobFits, WillBeCancelled, Unfinished
<1>4. s \in States
  BY <1>1 DEF States, Terminal, Job
<1>5. s \notin Terminal => NobodyAsks(j)
  BY <1>1, <1>2 DEF JobFits, Terminal
<1>6. /\ host[j].running => host[j].helper \in {"bare", "guarded", "gone"}
      /\ connected /\ host[j].helper \in {"fed", "bare", "guarded"} => host[j].sigterm
  BY <1>1, <1>2 DEF HostFits, Absent
<1>7. UNCHANGED <<kept, host, call, told, closing, awaited, connected>>
  BY DEF CancelledEarly
<1> HIDE DEF s
<1> QED
  BY <1>2, <1>3, <1>4, <1>5, <1>6, <1>7, TaskEndKeeps

LEMMA CancelledWhileEndingKeeps ==
    ASSUME IInv, NEW j \in Jobs, CancelledWhileEnding(j) PROVE IInv'
<1>1. JobFits(j) /\ HostFits(j) /\ job[j] \in Job
  BY DEF IInv, TypeOK
<1>2. job[j].at = "ending" /\ TaskEnds(j, "cancelled")
  BY DEF CancelledWhileEnding, Interrupted
<1>3. job[j].state \in Terminal => "cancelled" = job[j].state
  BY <1>1, <1>2 DEF JobFits, WillBeCancelled, Unfinished
<1>4. "cancelled" \in States /\ "cancelled" \in Terminal
  BY DEF States, Terminal
<1>5. /\ host[j].running => host[j].helper \in {"bare", "guarded", "gone"}
      /\ connected /\ host[j].helper \in {"fed", "bare", "guarded"} => host[j].sigterm
  BY <1>1, <1>2 DEF HostFits
<1>6. UNCHANGED <<kept, host, call, told, closing, awaited, connected>>
  BY DEF CancelledWhileEnding
<1> QED
  BY <1>2, <1>3, <1>4, <1>5, <1>6, TaskEndKeeps

LEMMA BeginKeeps == ASSUME IInv, NEW j \in Jobs, Begin(j) PROVE IInv'
<1> DEFINE s == IF connected THEN "running" ELSE "failed"
           a == IF connected THEN "opening" ELSE "done"
           J == [state |-> s, at |-> a, why |-> job[j].why, requested |-> FALSE]
<1>1. /\ JobFits(j) /\ HostFits(j) /\ job[j] \in Job
      /\ job \in [Jobs -> Job] /\ host \in [Jobs -> Host]
  BY DEF IInv, TypeOK
<1>2. /\ job[j].at = "created" /\ ~job[j].requested
      /\ job' = [job EXCEPT ![j].at = a, ![j].state = s]
      /\ UNCHANGED <<kept, host, call, told, closing, awaited, connected>>
  BY DEF Begin, At
<1>3. job[j].state \notin Terminal
  BY <1>1, <1>2 DEF JobFits, WillBeCancelled, Unfinished
<1>4. job' = [job EXCEPT ![j] = J]
  <2>1. /\ job[j] = [state |-> job[j].state, at |-> job[j].at, why |-> job[j].why,
                     requested |-> job[j].requested]
        /\ job[j].requested = FALSE
    BY <1>1, <1>2, JobFields
  <2>2. DOMAIN job = Jobs /\ job = [i \in Jobs |-> job[i]]
    BY <1>1
  <2>3. job'[j] = J /\ DOMAIN job' = Jobs
    BY <2>1, <2>2, <1>2
  <2>4. \A i \in Jobs \ {j} : job'[i] = job[i]
    BY <2>2, <1>2
  <2>5. job' = [i \in Jobs |-> job'[i]]
    BY <2>2, <1>2
  <2> HIDE DEF J
  <2> QED
    BY <2>2, <2>3, <2>4, <2>5
<1>5. J \in Job
  BY <1>1, JobFields, JobRecord DEF States, Terminal
<1>6. host' = [host EXCEPT ![j] = host[j]] /\ host[j] \in Host
  BY <1>1, <1>2
<1>7. job'[j] = J /\ host'[j] = host[j] /\ connected' = connected
  BY <1>1, <1>2, <1>4
<1>8. JobFits(j)'
  BY <1>7 DEF JobFits, Unfinished, Terminal
<1>9. HostFits(j)'
  BY <1>1, <1>2, <1>7 DEF HostFits
<1> HIDE DEF J
<1> QED
  BY <1>2, <1>3, <1>4, <1>5, <1>6, <1>8, <1>9, OneJob

(* The task goes on, to its next await.                                    *)
LEMMA NextAwait ==
    ASSUME IInv, NEW j \in Jobs, NEW a, NEW h, At(j, job[j].at),
           job[j].at \in {"opening", "writing"}, a \in {"writing", "collecting"},
           a = "writing" => h = "reading" /\ host[j] = Absent,
           h \in {"reading", "fed"}, ~host[j].running,
           job' = [job EXCEPT ![j].at = a],
           host' = [host EXCEPT ![j].helper = h],
           UNCHANGED <<kept, call, told, closing, awaited, connected>>
    PROVE  IInv'
<1> DEFINE J == [state |-> job[j].state, at |-> a, why |-> job[j].why,
                 requested |-> job[j].requested]
           H == [helper |-> h, running |-> host[j].running, sigterm |-> host[j].sigterm]
<1>1. /\ JobFits(j) /\ HostFits(j) /\ job[j] \in Job /\ host[j] \in Host
      /\ job \in [Jobs -> Job] /\ host \in [Jobs -> Host]
  BY DEF IInv, TypeOK
<1>2. job' = [job EXCEPT ![j] = J]
  <2>1. job[j] = [state |-> job[j].state, at |-> job[j].at, why |-> job[j].why,
                  requested |-> job[j].requested]
    BY <1>1, JobFields
  <2>2. DOMAIN job = Jobs /\ job = [i \in Jobs |-> job[i]]
    BY <1>1
  <2>3. job'[j] = J /\ DOMAIN job' = Jobs
    BY <2>1, <2>2
  <2>4. \A i \in Jobs \ {j} : job'[i] = job[i]
    BY <2>2
  <2>5. job' = [i \in Jobs |-> job'[i]]
    BY <2>2
  <2> HIDE DEF J
  <2> QED
    BY <2>2, <2>3, <2>4, <2>5
<1>3. host' = [host EXCEPT ![j] = H]
  <2>1. host[j] = [helper |-> host[j].helper, running |-> host[j].running,
                   sigterm |-> host[j].sigterm]
    BY <1>1, HostFields
  <2>2. DOMAIN host = Jobs /\ host = [i \in Jobs |-> host[i]]
    BY <1>1
  <2>3. host'[j] = H /\ DOMAIN host' = Jobs
    BY <2>1, <2>2
  <2>4. \A i \in Jobs \ {j} : host'[i] = host[i]
    BY <2>2
  <2>5. host' = [i \in Jobs |-> host'[i]]
    BY <2>2
  <2> HIDE DEF H
  <2> QED
    BY <2>2, <2>3, <2>4, <2>5
<1>4. J \in Job
  BY <1>1, JobFields, JobRecord
<1>5. H \in Host
  BY <1>1, HostFields DEF Host
<1>6. job'[j] = J /\ host'[j] = H
  BY <1>1, <1>2, <1>3
<1>7. job[j].state \notin Terminal
  BY <1>1 DEF At, JobFits, WillBeCancelled, Unfinished
<1>8. JobFits(j)'
  BY <1>6, <1>7 DEF JobFits
<1>9. HostFits(j)'
  BY <1>1, <1>6 DEF HostFits, Absent
<1> HIDE DEF J, H
<1> QED
  BY <1>2, <1>3, <1>4, <1>5, <1>7, <1>8, <1>9, OneJob

LEMMA OpenedKeeps == ASSUME IInv, NEW j \in Jobs, Opened(j) PROVE IInv'
<1>1. HostFits(j)
  BY DEF IInv
<1>2. /\ At(j, job[j].at) /\ job[j].at = "opening"
      /\ job' = [job EXCEPT ![j].at = "writing"]
      /\ host' = [host EXCEPT ![j].helper = "reading"]
      /\ UNCHANGED <<kept, call, told, closing, awaited, connected>>
  BY DEF Opened, At
<1>3. host[j] = Absent /\ ~host[j].running
  BY <1>1, <1>2 DEF HostFits, Absent
<1> QED
  BY <1>2, <1>3, NextAwait

LEMMA DrainedKeeps == ASSUME IInv, NEW j \in Jobs, Drained(j) PROVE IInv'
<1>1. HostFits(j)
  BY DEF IInv
<1>2. /\ At(j, job[j].at) /\ job[j].at = "writing"
      /\ job' = [job EXCEPT ![j].at = "collecting"]
      /\ host' = [host EXCEPT ![j].helper = "fed"]
      /\ UNCHANGED <<kept, call, told, closing, awaited, connected>>
      /\ connected
  BY DEF Drained, At
<1>3. ~host[j].running
  BY <1>1, <1>2 DEF HostFits
<1> QED
  BY <1>2, <1>3, NextAwait

(* The process is to be ended, and the helper is sent a signal.            *)
LEMMA EndingKeeps ==
    ASSUME IInv, NEW j \in Jobs, NEW w \in {"limit", "cancel"}, Ending(j, w),
           job[j].at = "collecting", host' = Signalled(j),
           job[j].state \in Terminal => w = "cancel",
           UNCHANGED <<kept, call, told, closing, awaited, connected>>
    PROVE  IInv'
<1> DEFINE J == [state |-> job[j].state, at |-> "ending", why |-> w,
                 requested |-> FALSE]
           H == [helper |-> host[j].helper, running |-> host[j].running,
                 sigterm |-> connected]
<1>1. /\ JobFits(j) /\ HostFits(j) /\ job[j] \in Job /\ host[j] \in Host
      /\ job \in [Jobs -> Job] /\ host \in [Jobs -> Host] /\ connected \in BOOLEAN
  BY DEF IInv, TypeOK
<1>2. job' = [job EXCEPT ![j] = J]
  <2>1. job[j] = [state |-> job[j].state, at |-> job[j].at, why |-> job[j].why,
                  requested |-> job[j].requested]
    BY <1>1, JobFields
  <2>2. DOMAIN job = Jobs /\ job = [i \in Jobs |-> job[i]]
    BY <1>1
  <2>3. job'[j] = J /\ DOMAIN job' = Jobs
    BY <2>1, <2>2 DEF Ending
  <2>4. \A i \in Jobs \ {j} : job'[i] = job[i]
    BY <2>2 DEF Ending
  <2>5. job' = [i \in Jobs |-> job'[i]]
    BY <2>2 DEF Ending
  <2> HIDE DEF J
  <2> QED
    BY <2>2, <2>3, <2>4, <2>5
<1>3. host' = [host EXCEPT ![j] = H]
  <2>1. host[j] = [helper |-> host[j].helper, running |-> host[j].running,
                   sigterm |-> host[j].sigterm]
    BY <1>1, HostFields
  <2>2. DOMAIN host = Jobs /\ host = [i \in Jobs |-> host[i]]
    BY <1>1
  <2>3. host'[j] = H /\ DOMAIN host' = Jobs
    BY <2>1, <2>2 DEF Signalled
  <2>4. \A i \in Jobs \ {j} : host'[i] = host[i]
    BY <2>2 DEF Signalled
  <2>5. host' = [i \in Jobs |-> host'[i]]
    BY <2>2 DEF Signalled
  <2> HIDE DEF H
  <2> QED
    BY <2>2, <2>3, <2>4, <2>5
<1>4. J \in Job
  BY <1>1, JobFields, JobRecord
<1>5. H \in Host
  BY <1>1, HostFields DEF Host
<1>6. job'[j] = J /\ host'[j] = H
  BY <1>1, <1>2, <1>3
<1>7. JobFits(j)'
  BY <1>1, <1>6 DEF JobFits, WillBeCancelled, Unfinished
<1>8. HostFits(j)'
  BY <1>1, <1>6 DEF HostFits
<1>9. J.state = job[j].state
  OBVIOUS
<1> HIDE DEF J, H
<1> QED
  BY <1>2, <1>3, <1>4, <1>5, <1>7, <1>8, <1>9, OneJob

LEMMA GivesUpKeeps == ASSUME IInv, NEW j \in Jobs, GivesUp(j) PROVE IInv'
<1>1. JobFits(j)
  BY DEF IInv
<1>2. /\ job[j].at = "collecting" /\ ~job[j].requested
      /\ Ending(j, "limit") /\ host' = Signalled(j)
      /\ UNCHANGED <<kept, call, told, closing, awaited, connected>>
  BY DEF GivesUp, At
<1>3. job[j].state \notin Terminal
  BY <1>1, <1>2 DEF JobFits, WillBeCancelled, Unfinished
<1> QED
  BY <1>2, <1>3, EndingKeeps

LEMMA CancelledWhileCollectingKeeps ==
    ASSUME IInv, NEW j \in Jobs, CancelledWhileCollecting(j) PROVE IInv'
<1>1. /\ job[j].at = "collecting"
      /\ Ending(j, "cancel") /\ host' = Signalled(j)
      /\ UNCHANGED <<kept, call, told, closing, awaited, connected>>
  BY DEF CancelledWhileCollecting
<1> QED
  BY <1>1, EndingKeeps

(* The host moves alone.                                                   *)
LEMMA HostAlone ==
    ASSUME IInv, NEW j \in Jobs, NEW H \in Host,
           DOMAIN host' = Jobs, host' = [i \in Jobs |-> host'[i]],
           host'[j] = H, \A i \in Jobs \ {j} : host'[i] = host[i],
           UNCHANGED <<job, kept, call, told, closing, awaited, connected>>,
           HostFits(j)'
    PROVE  IInv'
<1>1. /\ JobFits(j) /\ job[j] \in Job
      /\ job \in [Jobs -> Job] /\ host \in [Jobs -> Host]
  BY DEF IInv, TypeOK
<1>2. job' = [job EXCEPT ![j] = job[j]]
  BY <1>1
<1>3. host' = [host EXCEPT ![j] = H]
  BY <1>1
<1>4. JobFits(j)'
  BY <1>1 DEF JobFits, Unfinished, WillBeCancelled, NobodyAsks
<1> QED
  BY <1>1, <1>2, <1>3, <1>4, OneJob

LEMMA ProgramStartsKeeps == ASSUME IInv, NEW j \in Jobs, ProgramStarts(j) PROVE IInv'
<1>1. HostFits(j) /\ host[j] \in Host /\ host \in [Jobs -> Host]
  BY DEF IInv, TypeOK
<1>2. /\ host[j].helper = "fed" \/ (host[j].helper = "reading" /\ ~connected)
      /\ UNCHANGED <<job, kept, call, told, closing, awaited, connected>>
  BY DEF ProgramStarts, Helper
<1>3. /\ host[j] = [helper |-> host[j].helper, running |-> host[j].running,
                    sigterm |-> host[j].sigterm]
      /\ DOMAIN host = Jobs /\ host = [i \in Jobs |-> host[i]]
  BY <1>1, HostFields
<1>4. /\ \/ host'[j].helper = "bare"
         \/ host'[j].helper = "gone" /\ host'[j].running = host[j].running
      /\ host'[j].sigterm = host[j].sigterm
      /\ host'[j] \in Host
      /\ DOMAIN host' = Jobs /\ host' = [i \in Jobs |-> host'[i]]
      /\ \A i \in Jobs \ {j} : host'[i] = host[i]
  <2>1. CASE host' = [host EXCEPT ![j].helper = "bare", ![j].running = TRUE]
    <3>1. host'[j] = [helper |-> "bare", running |-> TRUE, sigterm |-> host[j].sigterm]
      BY <1>3, <2>1
    <3>2. host'[j] \in Host
      BY <1>1, <3>1, HostFields DEF Host
    <3> QED
      BY <1>3, <2>1, <3>1, <3>2
  <2>2. CASE host' = [host EXCEPT ![j].helper = "gone"]
    <3>1. host'[j] = [helper |-> "gone", running |-> host[j].running,
                      sigterm |-> host[j].sigterm]
      BY <1>3, <2>2
    <3>2. host'[j] \in Host
      BY <1>1, <3>1, HostFields DEF Host
    <3> QED
      BY <1>3, <2>2, <3>1, <3>2
  <2> QED
    BY <2>1, <2>2 DEF ProgramStarts
<1>5. HostFits(j)'
  BY <1>1, <1>2, <1>4 DEF HostFits, Absent
<1> QED
  BY <1>2, <1>4, <1>5, HostAlone

LEMMA HandlerInstalledKeeps ==
    ASSUME IInv, NEW j \in Jobs, HandlerInstalled(j) PROVE IInv'
<1>1. HostFits(j) /\ host[j] \in Host /\ host \in [Jobs -> Host]
  BY DEF IInv, TypeOK
<1>2. /\ host[j].helper = "bare"
      /\ UNCHANGED <<job, kept, call, told, closing, awaited, connected>>
  BY DEF HandlerInstalled, Helper
<1>3. /\ host[j] = [helper |-> host[j].helper, running |-> host[j].running,
                    sigterm |-> host[j].sigterm]
      /\ DOMAIN host = Jobs /\ host = [i \in Jobs |-> host[i]]
  BY <1>1, HostFields
<1>4. /\ host'[j] = [helper |-> "guarded", running |-> host[j].running,
                     sigterm |-> host[j].sigterm]
      /\ DOMAIN host' = Jobs /\ host' = [i \in Jobs |-> host'[i]]
      /\ \A i \in Jobs \ {j} : host'[i] = host[i]
  BY <1>3 DEF HandlerInstalled
<1>5. host'[j] \in Host
  BY <1>1, <1>4, HostFields DEF Host
<1>6. HostFits(j)'
  BY <1>1, <1>2, <1>4 DEF HostFits, Absent
<1> QED
  BY <1>2, <1>4, <1>5, <1>6, HostAlone

LEMMA HelperAnswersKeeps == ASSUME IInv, NEW j \in Jobs, HelperAnswers(j) PROVE IInv'
<1> DEFINE h == IF connected THEN "answered" ELSE "gone"
<1>1. HostFits(j) /\ host[j] \in Host /\ host \in [Jobs -> Host]
  BY DEF IInv, TypeOK
<1>2. /\ host[j].helper = "guarded"
      /\ UNCHANGED <<job, kept, call, told, closing, awaited, connected>>
  BY DEF HelperAnswers, Helper
<1>3. /\ host[j] = [helper |-> host[j].helper, running |-> host[j].running,
                    sigterm |-> host[j].sigterm]
      /\ DOMAIN host = Jobs /\ host = [i \in Jobs |-> host[i]]
  BY <1>1, HostFields
<1>4. /\ host'[j] = [helper |-> h, running |-> FALSE, sigterm |-> host[j].sigterm]
      /\ DOMAIN host' = Jobs /\ host' = [i \in Jobs |-> host'[i]]
      /\ \A i \in Jobs \ {j} : host'[i] = host[i]
  BY <1>3 DEF HelperAnswers
<1>5. host'[j] \in Host
  BY <1>1, <1>4, HostFields DEF Host
<1>6. HostFits(j)'
  BY <1>1, <1>2, <1>4 DEF HostFits, Absent
<1> QED
  BY <1>2, <1>4, <1>5, <1>6, HostAlone

LEMMA SignalArrivesKeeps == ASSUME IInv, NEW j \in Jobs, SignalArrives(j) PROVE IInv'
<1> DEFINE h == IF host[j].helper = "answered" THEN "answered" ELSE "gone"
           r == host[j].running /\ ~Helper(j, "guarded")
<1>1. HostFits(j) /\ host[j] \in Host /\ host \in [Jobs -> Host]
  BY DEF IInv, TypeOK
<1>2. /\ host[j].sigterm
      /\ UNCHANGED <<job, kept, call, told, closing, awaited, connected>>
  BY DEF SignalArrives
<1>3. /\ host[j] = [helper |-> host[j].helper, running |-> host[j].running,
                    sigterm |-> host[j].sigterm]
      /\ DOMAIN host = Jobs /\ host = [i \in Jobs |-> host[i]]
  BY <1>1, HostFields
<1>4. /\ host'[j] = [helper |-> h, running |-> r, sigterm |-> FALSE]
      /\ DOMAIN host' = Jobs /\ host' = [i \in Jobs |-> host'[i]]
      /\ \A i \in Jobs \ {j} : host'[i] = host[i]
  BY <1>3 DEF SignalArrives
<1>5. host'[j] \in Host
  BY <1>1, <1>4, HostFields DEF Host
<1>6. host[j] # Absent /\ job[j].at \notin {"none", "created", "opening", "writing"}
  BY <1>1, <1>2 DEF HostFits, Absent
<1>7. /\ host'[j].helper \in {"answered", "gone"}
      /\ host'[j].running => host'[j].helper = "gone"
  <2>1. host'[j].helper = h /\ host'[j].running = r
    BY <1>4
  <2>2. host[j].helper = "answered" => ~r
    BY <1>1 DEF HostFits
  <2> HIDE DEF r
  <2> QED
    BY <2>1, <2>2
<1>8. HostFits(j)'
  BY <1>2, <1>6, <1>7 DEF HostFits
<1> QED
  BY <1>2, <1>4, <1>5, <1>8, HostAlone
-----------------------------------------------------------------------------
(* Steps of the registry and its callers.                                  *)

Stays(i) ==
    /\ job'[i] = job[i]
    /\ kept[i] = "no" => kept'[i] = "no"

Accepted(i) ==
    /\ job[i].at = "none"
    /\ job'[i] = [state |-> "queued", at |-> "created", why |-> job[i].why,
                  requested |-> FALSE]

Asked(i) ==
    /\ Unfinished(i)
    /\ kept[i] = "no" => kept'[i] = "no"
    /\ \E s \in {job[i].state, "cancelled"} :
        /\ job'[i] = [state |-> s, at |-> job[i].at, why |-> job[i].why,
                      requested |-> TRUE]
        /\ s = "cancelled" \/ NobodyAsks(i)'

HostRuns == host' = host /\ connected' = connected

HostCut == host' = Severed /\ connected' = FALSE

CallMoves(c) ==
    \/ call'[c] = call[c]
    \/ call'[c].step = "idle"
    \/ call'[c].step = "bound" /\ call'[c].job \in Jobs
    \/ call'[c].job \in Jobs /\ job'[call'[c].job].state = "cancelled"

Telling(i) ==
    \A state \in told'[i] \ told[i] :
        \/ state \in Terminal /\ job[i].state = state
        \/ state \notin Terminal /\ closing # "no"

LEMMA RegistryKeeps ==
    ASSUME IInv, TypeOK',
           \A i \in Jobs : Stays(i) \/ Accepted(i) \/ Asked(i),
           HostRuns \/ HostCut,
           \A c \in Callers : CallMoves(c),
           \A i \in Jobs : Telling(i),
           closing # "no" => closing' # "no"
    PROVE  IInv'
<1>1. ASSUME NEW i \in Jobs PROVE job[i] \in Job /\ host[i] \in Host /\ JobFits(i) /\ HostFits(i)
  BY DEF IInv, TypeOK
<1>2. ASSUME NEW i \in Jobs, job[i].state \in Terminal PROVE job'[i].state = job[i].state
  <2>1. CASE Stays(i)
    BY <2>1 DEF Stays
  <2>2. CASE Accepted(i)
    BY <1>1, <1>2, <2>2 DEF Accepted, JobFits, Terminal
  <2>3. CASE Asked(i)
    <3>1. job[i].state = "cancelled"
      BY <1>1, <1>2, <2>3 DEF Asked, JobFits, WillBeCancelled
    <3>2. PICK s \in {job[i].state, "cancelled"} :
            job'[i] = [state |-> s, at |-> job[i].at, why |-> job[i].why,
                       requested |-> TRUE]
      BY <2>3 DEF Asked
    <3>3. job'[i].state = s
      BY <3>2
    <3> QED
      BY <3>1, <3>3
  <2> QED
    BY <2>1, <2>2, <2>3
<1>3. ASSUME NEW i \in Jobs PROVE JobFits(i)'
  <2>1. CASE Stays(i)
    BY <1>1, <2>1 DEF Stays, JobFits, Unfinished, WillBeCancelled, NobodyAsks
  <2>2. CASE Accepted(i)
    BY <2>2 DEF Accepted, JobFits, Terminal
  <2>3. CASE Asked(i)
    <3>1. PICK s \in {job[i].state, "cancelled"} :
            /\ job'[i] = [state |-> s, at |-> job[i].at, why |-> job[i].why,
                          requested |-> TRUE]
            /\ s = "cancelled" \/ NobodyAsks(i)'
      BY <2>3 DEF Asked
    <3>2. job'[i].state = s /\ job'[i].at = job[i].at /\ job'[i].requested
      BY <3>1
    <3>3. s \in Terminal => s = "cancelled"
      BY <1>1, <2>3, <3>1 DEF Asked, JobFits, WillBeCancelled
    <3>4. job[i].at \notin {"none", "done"}
      BY <2>3 DEF Asked, Unfinished
    <3>5. s \notin Terminal => NobodyAsks(i)'
      BY <3>1 DEF Terminal
    <3> QED
      BY <3>2, <3>3, <3>4, <3>5 DEF JobFits, WillBeCancelled
  <2> QED
    BY <2>1, <2>2, <2>3
<1>4. ASSUME NEW i \in Jobs PROVE HostFits(i)'
  <2>1. \/ job'[i].at = job[i].at
        \/ job[i].at = "none" /\ job'[i].at = "created"
    <3>1. CASE Stays(i)
      BY <3>1 DEF Stays
    <3>2. CASE Accepted(i)
      BY <3>2 DEF Accepted
    <3>3. CASE Asked(i)
      BY <3>3 DEF Asked
    <3> QED
      BY <3>1, <3>2, <3>3
  <2>2. CASE HostRuns
    BY <1>1, <2>1, <2>2 DEF HostRuns, HostFits
  <2>3. CASE HostCut
    <3>1. host[i] = [helper |-> host[i].helper, running |-> host[i].running,
                     sigterm |-> host[i].sigterm]
      BY <1>1, HostFields
    <3>2. host'[i] = [helper |-> host[i].helper, running |-> host[i].running,
                      sigterm |-> FALSE]
      BY <2>3, <3>1 DEF HostCut, Severed
    <3>3. host[i] = Absent => host'[i] = Absent
      BY <3>2 DEF Absent
    <3> QED
      BY <1>1, <2>1, <2>3, <3>2, <3>3 DEF HostCut, HostFits
  <2> QED
    BY <2>2, <2>3
<1>5. ASSUME NEW c \in Callers PROVE CallFits(c)'
  <2>1. CallMoves(c) /\ CallFits(c)
    BY DEF IInv
  <2> QED
    BY <1>2, <2>1 DEF CallMoves, CallFits, Terminal
<1>6. AnswersStayTrue'
  BY <1>2 DEF IInv, AnswersStayTrue, Telling
<1> QED
  BY <1>3, <1>4, <1>5, <1>6 DEF IInv

(* The jobs the registry keeps are no more than it has room for, and it    *)
(* keeps no more of them unless one is submitted.                          *)
Listed == {i \in Jobs : kept[i] # "no"}

Drops == \A i \in Jobs : kept[i] = "no" => kept'[i] = "no"

LEMMA FinitelyMany == ASSUME NEW S \in SUBSET Jobs PROVE IsFiniteSet(S) /\ Cardinality(S) \in Nat
<1>1. IsFiniteSet(Jobs)
  BY ProgramJobsAssumption, FS_Interval DEF Jobs
<1> QED
  BY <1>1, FS_Subset, FS_CardinalityType

LEMMA DropsKeeps ==
    ASSUME IInv, Drops
    PROVE  Cardinality({i \in Jobs : kept[i] # "no"})' <= Capacity
<1>1. Listed' \subseteq Listed /\ Listed \subseteq Jobs
  BY DEF Listed, Drops
<1>2. IsFiniteSet(Listed) /\ Cardinality(Listed) \in Nat /\ Cardinality(Listed') \in Nat
  BY <1>1, FinitelyMany
<1>3. Cardinality(Listed') <= Cardinality(Listed)
  BY <1>1, <1>2, FS_Subset
<1>4. Cardinality(Listed) <= Capacity
  BY DEF IInv, TypeOK, Listed
<1>5. Cardinality(Listed') <= Capacity
  BY <1>2, <1>3, <1>4, ProgramJobsAssumption
<1> QED
  BY <1>5 DEF Listed

LEMMA ForgetsDrops ==
    ASSUME IInv, NEW j \in Jobs, Forgets(j)
    PROVE  kept' \in [Jobs -> {"no", "fresh", "expired"}] /\ Drops
  BY DEF IInv, TypeOK, Forgets, Drops

(* What may be told of a job now.                                          *)
MayTell(j, S) ==
    \A s \in S :
        \/ s \in Terminal /\ job[j].state = s
        \/ s \notin Terminal /\ closing # "no"

LEMMA AnswersTell ==
    ASSUME IInv, NEW c \in Callers, NEW S \in SUBSET States,
           call[c].job \in Jobs, Answers(c, S),
           MayTell(call[c].job, S)
    PROVE  /\ call' \in [Callers -> Call] /\ told' \in [Jobs -> SUBSET States]
           /\ \A d \in Callers : CallMoves(d)
           /\ \A i \in Jobs : Telling(i)
<1>1. call \in [Callers -> Call] /\ told \in [Jobs -> SUBSET States]
  BY DEF IInv, TypeOK
<1>2. NoCall \in Call
  BY DEF NoCall, Call
<1>3. \A d \in Callers : call'[d] = call[d] \/ call'[d] = NoCall
  BY <1>1 DEF Answers
<1>4. call' \in [Callers -> Call]
  BY <1>1, <1>2 DEF Answers
<1>5. told' \in [Jobs -> SUBSET States]
  BY <1>1 DEF Answers
<1>6. \A d \in Callers : CallMoves(d)
  BY <1>3 DEF CallMoves, NoCall
<1>7. \A i \in Jobs : Telling(i)
  BY <1>1 DEF Answers, Telling, MayTell
<1> QED
  BY <1>4, <1>5, <1>6, <1>7

LEMMA Silent ==
    ASSUME UNCHANGED told PROVE \A i \in Jobs : Telling(i)
  BY DEF Telling

LEMMA Calm ==
    ASSUME UNCHANGED call PROVE \A c \in Callers : CallMoves(c)
  BY DEF CallMoves

LEMMA AllStay ==
    ASSUME UNCHANGED job, Drops PROVE \A i \in Jobs : Stays(i)
  BY DEF Stays, Drops

(* Tasks are cancelled that nobody will ask about.                         *)
LEMMA Cancelling ==
    ASSUME IInv, Drops, NEW js \in SUBSET Jobs, job' = Cancelled(js),
           \A i \in js : NobodyAsks(i)'
    PROVE  /\ job' \in [Jobs -> Job]
           /\ \A i \in Jobs : Stays(i) \/ Asked(i)
<1>1. job \in [Jobs -> Job]
  BY DEF IInv, TypeOK
<1>2. ASSUME NEW i \in Jobs
      PROVE  job'[i] \in Job /\ (Stays(i) \/ Asked(i))
  <2>1. CASE i \in js /\ Unfinished(i)
    <3>1. job[i] = [state |-> job[i].state, at |-> job[i].at, why |-> job[i].why,
                    requested |-> job[i].requested]
      BY <1>1, JobFields
    <3>2. job'[i] = [state |-> job[i].state, at |-> job[i].at, why |-> job[i].why,
                     requested |-> TRUE]
      BY <2>1, <3>1 DEF Cancelled
    <3>3. job'[i] \in Job
      BY <1>1, <3>2, JobFields DEF Job
    <3>4. Asked(i)
      BY <2>1, <3>2 DEF Asked, Drops
    <3> QED
      BY <3>3, <3>4
  <2>2. CASE ~(i \in js /\ Unfinished(i))
    BY <1>1, <2>2 DEF Cancelled, Stays, Drops
  <2> QED
    BY <2>1, <2>2
<1>3. job' = [i \in Jobs |-> job'[i]]
  BY DEF Cancelled
<1> QED
  BY <1>2, <1>3
-----------------------------------------------------------------------------
LEMMA ExpiresKeeps == ASSUME IInv, NEW j \in Jobs, Expires(j) PROVE IInv'
<1>1. /\ j \in Fresh /\ kept' = [kept EXCEPT ![j] = "expired"]
      /\ UNCHANGED <<job, host, call, told, closing, awaited, connected>>
  BY DEF Expires
<1>2. Drops /\ kept' \in [Jobs -> {"no", "fresh", "expired"}]
  BY <1>1 DEF Drops, Fresh, IInv, TypeOK
<1>3. TypeOK'
  BY <1>1, <1>2, DropsKeeps DEF IInv, TypeOK
<1>4. HostRuns
  BY <1>1 DEF HostRuns
<1> QED
  BY <1>1, <1>2, <1>3, <1>4, Silent, Calm, AllStay, RegistryKeeps

LEMMA StatusKeeps ==
    ASSUME IInv, NEW c \in Callers, NEW j \in Jobs, Status(c, j) PROVE IInv'
<1>1. /\ Forgets(j)
      /\ told' = [told EXCEPT ![j] = @ \cup (Visible(j) \cap Terminal)]
      /\ UNCHANGED <<job, host, call, closing, awaited, connected>>
  BY DEF Status
<1>2. Drops /\ kept' \in [Jobs -> {"no", "fresh", "expired"}]
  BY <1>1, ForgetsDrops
<1>3. told \in [Jobs -> SUBSET States]
  BY DEF IInv, TypeOK
<1>4. told' \in [Jobs -> SUBSET States]
  BY <1>1, <1>3 DEF States
<1>5. TypeOK'
  BY <1>1, <1>2, <1>4, DropsKeeps DEF IInv, TypeOK
<1>6. \A i \in Jobs : Telling(i)
  BY <1>1, <1>3 DEF Telling, Visible
<1>7. HostRuns
  BY <1>1 DEF HostRuns
<1> QED
  BY <1>1, <1>2, <1>5, <1>6, <1>7, Calm, AllStay, RegistryKeeps

LEMMA BindKeeps ==
    ASSUME IInv, NEW c \in Callers, NEW j \in Jobs, Bind(c, j) PROVE IInv'
<1> DEFINE r == [job |-> j, step |-> "bound"]
<1>1. /\ call' = [call EXCEPT ![c] = r]
      /\ UNCHANGED <<job, kept, host, told, closing, awaited, connected>>
  BY DEF Bind
<1>2. call \in [Callers -> Call] /\ r \in Call
  BY DEF IInv, TypeOK, Call
<1>3. Drops
  BY <1>1 DEF Drops
<1>4. TypeOK'
  BY <1>1, <1>2 DEF IInv, TypeOK
<1>5. \A d \in Callers : CallMoves(d)
  BY <1>1, <1>2 DEF CallMoves
<1>6. HostRuns
  BY <1>1 DEF HostRuns
<1> QED
  BY <1>1, <1>3, <1>4, <1>5, <1>6, Silent, AllStay, RegistryKeeps

LEMMA CancelUnknownKeeps == ASSUME IInv, NEW c \in Callers, CancelUnknown(c) PROVE IInv'
<1>1. /\ call[c].step = "bound" /\ Forgets(call[c].job) /\ Answers(c, {})
      /\ UNCHANGED <<job, host, closing, awaited, connected>>
  BY DEF CancelUnknown
<1>2. call[c].job \in Jobs
  BY <1>1 DEF IInv, CallFits
<1>3. Drops /\ kept' \in [Jobs -> {"no", "fresh", "expired"}]
  BY <1>1, <1>2, ForgetsDrops
<1>4. /\ call' \in [Callers -> Call] /\ told' \in [Jobs -> SUBSET States]
      /\ \A d \in Callers : CallMoves(d)
      /\ \A i \in Jobs : Telling(i)
  BY <1>1, <1>2, AnswersTell DEF MayTell
<1>5. TypeOK'
  BY <1>1, <1>3, <1>4, DropsKeeps DEF IInv, TypeOK
<1>6. HostRuns
  BY <1>1 DEF HostRuns
<1> QED
  BY <1>1, <1>3, <1>4, <1>5, <1>6, AllStay, RegistryKeeps

LEMMA CancelFinishedKeeps == ASSUME IInv, NEW c \in Callers, CancelFinished(c) PROVE IInv'
<1> DEFINE j == call[c].job
<1>1. /\ call[c].step = "bound" /\ j \in Fresh /\ ~Unfinished(j)
      /\ Answers(c, {job[j].state})
      /\ UNCHANGED <<job, kept, host, closing, awaited, connected>>
  BY DEF CancelFinished
<1>2. j \in Jobs /\ kept[j] = "fresh"
  BY <1>1 DEF Fresh
<1>3. JobFits(j) /\ job[j] \in Job
  BY <1>2 DEF IInv, TypeOK
<1>4. job[j].state \in Terminal \/ closing # "no"
  BY <1>1, <1>2, <1>3 DEF JobFits, Unfinished, NobodyAsks
<1>5. {job[j].state} \in SUBSET States
  BY <1>3, JobFields
<1>6. Drops
  BY <1>1 DEF Drops
<1>7. /\ call' \in [Callers -> Call] /\ told' \in [Jobs -> SUBSET States]
      /\ \A d \in Callers : CallMoves(d)
      /\ \A i \in Jobs : Telling(i)
  <2> DEFINE S == {job[j].state}
  <2>1. S \in SUBSET States /\ Answers(c, S) /\ call[c].job \in Jobs
    BY <1>1, <1>2, <1>5
  <2>2. MayTell(call[c].job, S)
    BY <1>4 DEF MayTell
  <2> HIDE DEF S
  <2> QED
    BY <2>1, <2>2, AnswersTell
<1>8. TypeOK'
  BY <1>1, <1>7 DEF IInv, TypeOK
<1>9. HostRuns
  BY <1>1 DEF HostRuns
<1> QED
  BY <1>1, <1>6, <1>7, <1>8, <1>9, AllStay, RegistryKeeps

LEMMA CancelEndsKeeps == ASSUME IInv, NEW c \in Callers, CancelEnds(c) PROVE IInv'
<1> DEFINE j == call[c].job
<1>1. /\ call[c].step = "waiting" /\ Forgets(j) /\ Answers(c, Visible(j))
      /\ UNCHANGED <<job, host, closing, awaited, connected>>
  BY DEF CancelEnds
<1>2. j \in Jobs /\ job[j].state = "cancelled"
  BY <1>1 DEF IInv, CallFits
<1>3. Visible(j) \in SUBSET States /\ \A s \in Visible(j) : s = "cancelled"
  BY <1>2 DEF Visible, States, Terminal
<1>4. \A s \in Visible(j) : s \in Terminal /\ job[j].state = s
  BY <1>2, <1>3 DEF Terminal
<1>5. Drops /\ kept' \in [Jobs -> {"no", "fresh", "expired"}]
  BY <1>1, <1>2, ForgetsDrops
<1>6. /\ call' \in [Callers -> Call] /\ told' \in [Jobs -> SUBSET States]
      /\ \A d \in Callers : CallMoves(d)
      /\ \A i \in Jobs : Telling(i)
  <2> DEFINE S == Visible(j)
  <2>1. S \in SUBSET States /\ Answers(c, S) /\ call[c].job \in Jobs
    BY <1>1, <1>2, <1>3
  <2>2. MayTell(call[c].job, S)
    BY <1>4 DEF MayTell
  <2> HIDE DEF S
  <2> QED
    BY <2>1, <2>2, AnswersTell
<1>7. TypeOK'
  BY <1>1, <1>5, <1>6, DropsKeeps DEF IInv, TypeOK
<1>8. HostRuns
  BY <1>1 DEF HostRuns
<1> QED
  BY <1>1, <1>5, <1>6, <1>7, <1>8, AllStay, RegistryKeeps

LEMMA CloseKeeps == ASSUME IInv, Close PROVE IInv'
<1> DEFINE js == Fresh \cup Expired
<1>1. /\ closing' = "waiting" /\ awaited' = js /\ job' = Cancelled(js)
      /\ UNCHANGED <<kept, host, call, told, connected>>
  BY DEF Close
<1>2. Drops /\ js \in SUBSET Jobs /\ \A i \in js : NobodyAsks(i)'
  BY <1>1 DEF Drops, Fresh, Expired, NobodyAsks
<1>3. job' \in [Jobs -> Job] /\ \A i \in Jobs : Stays(i) \/ Asked(i)
  BY <1>1, <1>2, Cancelling
<1>4. TypeOK'
  BY <1>1, <1>2, <1>3 DEF IInv, TypeOK
<1>5. HostRuns /\ closing' # "no"
  BY <1>1 DEF HostRuns
<1> QED
  BY <1>1, <1>3, <1>4, <1>5, Silent, Calm, RegistryKeeps

LEMMA SeveredTyped == ASSUME IInv PROVE Severed \in [Jobs -> Host]
<1>1. ASSUME NEW j \in Jobs PROVE [host[j] EXCEPT !.sigterm = FALSE] \in Host
  BY DEF IInv, TypeOK, Host
<1> QED
  BY <1>1 DEF Severed

LEMMA ClosedKeeps == ASSUME IInv, Closed PROVE IInv'
<1>1. /\ closing' = "over" /\ awaited' = {} /\ kept' = [i \in Jobs |-> "no"]
      /\ connected' = FALSE /\ host' = Severed
      /\ UNCHANGED <<job, call, told>>
  BY DEF Closed
<1>2. Drops /\ kept' \in [Jobs -> {"no", "fresh", "expired"}]
  BY <1>1 DEF Drops
<1>3. TypeOK'
  BY <1>1, <1>2, SeveredTyped, DropsKeeps DEF IInv, TypeOK
<1>4. HostCut /\ closing' # "no"
  BY <1>1 DEF HostCut
<1> QED
  BY <1>1, <1>2, <1>3, <1>4, Silent, Calm, AllStay, RegistryKeeps

LEMMA ConnectionLostKeeps == ASSUME IInv, ConnectionLost PROVE IInv'
<1>1. /\ connected' = FALSE /\ host' = Severed
      /\ UNCHANGED <<job, kept, call, told, closing, awaited>>
  BY DEF ConnectionLost
<1>2. Drops
  BY <1>1 DEF Drops
<1>3. TypeOK'
  BY <1>1, SeveredTyped DEF IInv, TypeOK
<1>4. HostCut
  BY <1>1 DEF HostCut
<1> QED
  BY <1>1, <1>2, <1>3, <1>4, Silent, Calm, AllStay, RegistryKeeps

(* A job is submitted, which forgets and cancels those that have expired.  *)
LEMMA SubmitKeeps == ASSUME IInv, NEW j \in Jobs, Submit(j) PROVE IInv'
<1>1. /\ job[j].at = "none" /\ Room
      /\ kept' = [Purged EXCEPT ![j] = "fresh"]
      /\ job' = [Cancelled(Expired) EXCEPT ![j].at = "created"]
      /\ UNCHANGED <<host, call, told, closing, awaited, connected>>
  BY DEF Submit
<1>2. /\ JobFits(j) /\ job \in [Jobs -> Job] /\ job[j] \in Job
      /\ kept \in [Jobs -> {"no", "fresh", "expired"}]
  BY DEF IInv, TypeOK
<1>3. /\ kept' \in [Jobs -> {"no", "fresh", "expired"}]
      /\ \A i \in Jobs : kept'[i] # "no" <=> i \in Fresh \cup {j}
      /\ \A i \in Jobs \ {j} : kept[i] = "no" => kept'[i] = "no"
      /\ \A i \in Jobs \ {j} : i \in Expired => kept'[i] = "no"
  BY <1>1, <1>2 DEF Purged, Fresh, Expired
<1>4. Cardinality({i \in Jobs : kept[i] # "no"})' <= Capacity
  <2>1. Listed' = Fresh \cup {j} /\ Fresh \in SUBSET Jobs
    BY <1>3 DEF Listed, Fresh
  <2>2. IsFiniteSet(Fresh) /\ Cardinality(Fresh) \in Nat
    BY <2>1, FinitelyMany
  <2>3. \/ Cardinality(Listed') = Cardinality(Fresh)
        \/ Cardinality(Listed') = Cardinality(Fresh) + 1
    BY <2>1, <2>2, FS_AddElement
  <2>4. Cardinality(Fresh) < Capacity
    BY <1>1 DEF Room
  <2>5. Cardinality(Listed') <= Capacity
    BY <2>2, <2>3, <2>4, ProgramJobsAssumption
  <2> QED
    BY <2>5 DEF Listed
<1>5. job'[j] \in Job /\ Accepted(j)
  <2>1. /\ job[j] = [state |-> job[j].state, at |-> job[j].at, why |-> job[j].why,
                     requested |-> job[j].requested]
        /\ job[j].state = "queued" /\ job[j].requested = FALSE
    BY <1>1, <1>2, JobFields DEF JobFits
  <2>2. Cancelled(Expired)[j] = job[j]
    BY <1>1 DEF Cancelled, Unfinished
  <2>3. job'[j] = [state |-> "queued", at |-> "created", why |-> job[j].why,
                   requested |-> FALSE]
    <3> DEFINE W == Cancelled(Expired)
    <3>1. DOMAIN W = Jobs /\ W[j] = job[j] /\ job' = [W EXCEPT ![j].at = "created"]
      BY <1>1, <2>2 DEF Cancelled
    <3> HIDE DEF W
    <3>2. job'[j] = [W[j] EXCEPT !.at = "created"]
      BY <3>1
    <3>3. job'[j] = [job[j] EXCEPT !.at = "created"]
      BY <3>1, <3>2
    <3> QED
      BY <2>1, <3>3
  <2>4. "queued" \in States
    BY DEF States
  <2>5. job'[j] \in Job
    BY <1>2, <2>3, <2>4, JobFields DEF Job
  <2> QED
    BY <1>1, <2>3, <2>5 DEF Accepted
<1>6. ASSUME NEW i \in Jobs \ {j}
      PROVE  job'[i] \in Job /\ (Stays(i) \/ Asked(i))
  <2>1. job'[i] = Cancelled(Expired)[i]
    BY <1>1 DEF Cancelled
  <2>2. CASE i \in Expired /\ Unfinished(i)
    <3>1. job[i] = [state |-> job[i].state, at |-> job[i].at, why |-> job[i].why,
                    requested |-> job[i].requested]
      BY <1>2, JobFields
    <3>2. job'[i] = [state |-> job[i].state, at |-> job[i].at, why |-> job[i].why,
                     requested |-> TRUE]
      BY <2>1, <2>2, <3>1 DEF Cancelled
    <3>3. job'[i] \in Job
      BY <1>2, <3>2, JobFields DEF Job
    <3>4. NobodyAsks(i)'
      BY <1>3, <2>2 DEF NobodyAsks
    <3>5. Asked(i)
      BY <1>3, <2>2, <3>2, <3>4 DEF Asked
    <3> QED
      BY <3>3, <3>5
  <2>3. CASE ~(i \in Expired /\ Unfinished(i))
    BY <1>2, <1>3, <2>1, <2>3 DEF Cancelled, Stays
  <2> QED
    BY <2>2, <2>3
<1>7. \A i \in Jobs : job'[i] \in Job /\ (Stays(i) \/ Accepted(i) \/ Asked(i))
  BY <1>5, <1>6
<1>8. job' \in [Jobs -> Job]
  <2>1. job' = [i \in Jobs |-> job'[i]]
    BY <1>1 DEF Cancelled
  <2> QED
    BY <1>7, <2>1
<1>9. TypeOK'
  BY <1>1, <1>3, <1>4, <1>8 DEF IInv, TypeOK
<1>10. HostRuns
  BY <1>1 DEF HostRuns
<1> QED
  BY <1>1, <1>7, <1>9, <1>10, Silent, Calm, RegistryKeeps

(* A task is told to end so that its job is, or already was, cancelled.    *)
LEMMA AskedOne ==
    ASSUME IInv, NEW j \in Jobs, Unfinished(j), Drops,
           DOMAIN job' = Jobs, job' = [i \in Jobs |-> job'[i]],
           \A i \in Jobs \ {j} : job'[i] = job[i],
           job'[j] = [state |-> "cancelled", at |-> job[j].at, why |-> job[j].why,
                      requested |-> TRUE]
    PROVE  /\ job' \in [Jobs -> Job]
           /\ \A i \in Jobs : Stays(i) \/ Asked(i)
<1>1. job \in [Jobs -> Job]
  BY DEF IInv, TypeOK
<1>2. job'[j] \in Job
  BY <1>1, JobFields DEF Job, States, Terminal
<1>3. job' \in [Jobs -> Job]
  BY <1>1, <1>2
<1>4. Asked(j)
  BY DEF Asked, Drops
<1>5. \A i \in Jobs \ {j} : Stays(i)
  BY DEF Stays, Drops
<1> QED
  BY <1>3, <1>4, <1>5

LEMMA CancelKeeps == ASSUME IInv, NEW c \in Callers, Cancel(c) PROVE IInv'
<1> DEFINE j == call[c].job
<1>1. /\ j \in Fresh /\ Unfinished(j)
      /\ job' = [job EXCEPT ![j] = Stopped(j)]
      /\ call' = [call EXCEPT ![c].step = "waiting"]
      /\ UNCHANGED <<kept, host, told, closing, awaited, connected>>
  BY DEF Cancel
<1>2. /\ j \in Jobs /\ job \in [Jobs -> Job] /\ job[j] \in Job
      /\ call \in [Callers -> Call] /\ call[c] \in Call
  BY <1>1 DEF Fresh, IInv, TypeOK
<1>3. job[j] = [state |-> job[j].state, at |-> job[j].at, why |-> job[j].why,
                requested |-> job[j].requested]
  BY <1>2, JobFields
<1>4. /\ job'[j] = [state |-> "cancelled", at |-> job[j].at, why |-> job[j].why,
                    requested |-> TRUE]
      /\ DOMAIN job' = Jobs /\ job' = [i \in Jobs |-> job'[i]]
      /\ \A i \in Jobs \ {j} : job'[i] = job[i]
  BY <1>1, <1>2, <1>3 DEF Stopped
<1>5. Drops
  BY <1>1 DEF Drops
<1>6. job' \in [Jobs -> Job] /\ \A i \in Jobs : Stays(i) \/ Asked(i)
  BY <1>1, <1>2, <1>4, <1>5, AskedOne
<1>7. call'[c].job = j /\ \A d \in Callers \ {c} : call'[d] = call[d]
  BY <1>1, <1>2 DEF Call
<1>8. call' \in [Callers -> Call]
  BY <1>1, <1>2 DEF Call
<1>9. \A d \in Callers : CallMoves(d)
  <2>1. job'[j].state = "cancelled"
    BY <1>4
  <2> QED
    BY <1>2, <1>7, <2>1 DEF CallMoves
<1>10. TypeOK'
  BY <1>1, <1>6, <1>8 DEF IInv, TypeOK
<1>11. HostRuns
  BY <1>1 DEF HostRuns
<1> QED
  BY <1>1, <1>6, <1>9, <1>10, <1>11, Silent, RegistryKeeps

LEMMA CancelAbandonedKeeps == ASSUME IInv, NEW c \in Callers, CancelAbandoned(c) PROVE IInv'
<1> DEFINE j == call[c].job
<1>1. /\ call[c].step = "waiting" /\ Unfinished(j)
      /\ job' = [job EXCEPT ![j].requested = TRUE]
      /\ Answers(c, {})
      /\ UNCHANGED <<kept, host, closing, awaited, connected>>
  BY DEF CancelAbandoned
<1>2. j \in Jobs /\ job[j].state = "cancelled"
  BY <1>1 DEF IInv, CallFits
<1>3. job \in [Jobs -> Job] /\ job[j] \in Job
  BY <1>2 DEF IInv, TypeOK
<1>4. job[j] = [state |-> job[j].state, at |-> job[j].at, why |-> job[j].why,
                requested |-> job[j].requested]
  BY <1>3, JobFields
<1>5. /\ job'[j] = [state |-> "cancelled", at |-> job[j].at, why |-> job[j].why,
                    requested |-> TRUE]
      /\ DOMAIN job' = Jobs /\ job' = [i \in Jobs |-> job'[i]]
      /\ \A i \in Jobs \ {j} : job'[i] = job[i]
  BY <1>1, <1>2, <1>3, <1>4
<1>6. Drops
  BY <1>1 DEF Drops
<1>7. job' \in [Jobs -> Job] /\ \A i \in Jobs : Stays(i) \/ Asked(i)
  BY <1>1, <1>2, <1>5, <1>6, AskedOne
<1>8. /\ call' \in [Callers -> Call] /\ told' \in [Jobs -> SUBSET States]
      /\ \A d \in Callers : CallMoves(d)
      /\ \A i \in Jobs : Telling(i)
  BY <1>1, <1>2, AnswersTell DEF MayTell
<1>9. TypeOK'
  BY <1>1, <1>7, <1>8 DEF IInv, TypeOK
<1>10. HostRuns
  BY <1>1 DEF HostRuns
<1> QED
  BY <1>1, <1>7, <1>8, <1>9, <1>10, RegistryKeeps
-----------------------------------------------------------------------------
LEMMA Initially == ASSUME Init PROVE IInv
<1>1. NewJob \in Job /\ Absent \in Host /\ NoCall \in Call
  BY DEF NewJob, Job, States, Absent, Host, NoCall, Call
<1>2. Cardinality({i \in Jobs : kept[i] # "no"}) <= Capacity
  <2>1. {i \in Jobs : kept[i] # "no"} = {}
    BY DEF Init
  <2> QED
    BY <2>1, FS_EmptySet, ProgramJobsAssumption
<1>3. TypeOK
  BY <1>1, <1>2 DEF Init, TypeOK
<1>4. ASSUME NEW j \in Jobs PROVE JobFits(j) /\ HostFits(j)
  BY DEF Init, JobFits, HostFits, NewJob, Absent, Unfinished, Terminal
<1>5. \A c \in Callers : CallFits(c)
  BY DEF Init, CallFits, NoCall
<1>6. AnswersStayTrue
  BY DEF Init, AnswersStayTrue
<1> QED
  BY <1>3, <1>4, <1>5, <1>6 DEF IInv

LEMMA StepKeeps == ASSUME IInv, [Next]_vars PROVE IInv'
<1>1. ASSUME NEW j \in Jobs, Task(j) PROVE IInv'
  BY <1>1, BeginKeeps, BrokenKeeps, CollectedKeeps, GivesUpKeeps, EndedKeeps,
     CancelledEarlyKeeps, CancelledWhileCollectingKeeps, CancelledWhileEndingKeeps
  DEF Task
<1>2. ASSUME NEW j \in Jobs, Submit(j) \/ Expires(j) \/ Opened(j) \/ Drained(j)
      PROVE  IInv'
  BY <1>2, SubmitKeeps, ExpiresKeeps, OpenedKeeps, DrainedKeeps
<1>3. ASSUME NEW j \in Jobs, \/ ProgramStarts(j) \/ HandlerInstalled(j)
                            \/ HelperAnswers(j) \/ SignalArrives(j)
      PROVE  IInv'
  BY <1>3, ProgramStartsKeeps, HandlerInstalledKeeps, HelperAnswersKeeps,
     SignalArrivesKeeps
<1>4. ASSUME NEW c \in Callers, Asks(c) \/ CancelAbandoned(c) PROVE IInv'
  BY <1>4, CancelUnknownKeeps, CancelFinishedKeeps, CancelKeeps, CancelEndsKeeps,
     CancelAbandonedKeeps
  DEF Asks
<1>5. ASSUME NEW c \in Callers, NEW j \in Jobs, Status(c, j) \/ Bind(c, j) PROVE IInv'
  BY <1>5, StatusKeeps, BindKeeps
<1>6. CASE Close \/ Closed \/ ConnectionLost
  BY <1>6, CloseKeeps, ClosedKeeps, ConnectionLostKeeps
<1>7. CASE UNCHANGED vars
  <2>1. TypeOK'
    BY <1>7 DEF IInv, TypeOK, vars
  <2>2. HostRuns /\ Drops
    BY <1>7 DEF HostRuns, Drops, vars
  <2>3. UNCHANGED <<job, call, told, closing>>
    BY <1>7 DEF vars
  <2> QED
    BY <2>1, <2>2, <2>3, Silent, Calm, AllStay, RegistryKeeps
<1> QED
  BY <1>1, <1>2, <1>3, <1>4, <1>5, <1>6, <1>7 DEF Next

(* The inductive invariant: a job that reads as cancelled while its task   *)
(* goes on will end so, and once a process is to be ended a signal is on   *)
(* its way to any helper that can still start or end the program.          *)
THEOREM InvariantHolds == Spec => []IInv
<1>1. Init => IInv
  BY Initially
<1>2. IInv /\ [Next]_vars => IInv'
  BY StepKeeps
<1> QED
  BY <1>1, <1>2, PTL DEF Spec

(* Every variable keeps its type, and the registry its bound, although an  *)
(* expired job is only forgotten when somebody looks.                      *)
THEOREM TypeCorrect == Spec => []TypeOK
<1>1. IInv => TypeOK
  BY DEF IInv
<1> QED
  BY <1>1, InvariantHolds, PTL

(* A terminal state that was told stays the state of the job, and only a   *)
(* closing server answers a cancellation with another.                     *)
THEOREM AnswersTrue == Spec => []AnswersStayTrue
<1>1. IInv => AnswersStayTrue
  BY DEF IInv
<1> QED
  BY <1>1, InvariantHolds, PTL

(* A task that ends while the connection is up does not leave its program  *)
(* running, unless the signal has yet to arrive or found no handler.       *)
THEOREM NoProgramLeft == Spec => []NoProgramIsLeft
<1>1. IInv => NoProgramIsLeft
  BY DEF IInv, HostFits, NoProgramIsLeft
<1> QED
  BY <1>1, InvariantHolds, PTL
=============================================================================
