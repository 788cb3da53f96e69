---------------------------- MODULE ProgramJobs ----------------------------
(***************************************************************************)
(* Typed program jobs: ProgramJobRegistry (jobs.py), the task that runs    *)
(* each job through SshClient.execute_program, and the helper on the host  *)
(* that runs the program (_PROGRAM_HELPER).                                *)
(*                                                                         *)
(* The server is one event loop, and the sections under the registry's     *)
(* lock await nothing, so a step is what happens between two awaits; a     *)
(* cancellation is delivered to a task at the await it is suspended in.    *)
(* The host runs at its own pace.  All jobs use one connection, which may  *)
(* be lost at any moment and is not restored here.                         *)
(***************************************************************************)
EXTENDS Integers, FiniteSets

CONSTANTS
    MaxJobs,        \* bound: jobs ever accepted
    Callers,        \* those who look up and cancel jobs, one call at a time
    Capacity,       \* MAX_PROGRAM_JOBS
    None

ASSUME ProgramJobsAssumption ==
    /\ MaxJobs \in Nat
    /\ Capacity \in Nat \ {0}
    /\ None \notin Nat

VARIABLES
    job,        \* job[j]: the registry's record and the task of job j
    kept,       \* kept[j]: is the job in _jobs, and has it expired?
    host,       \* host[j]: helper and program of job j
    call,       \* call[c]: the call that c has made
    told,       \* history: the terminal states told of each job, and every
                \* state a cancellation has been answered with
    closing,    \* how far close() has come
    awaited,    \* the jobs whose tasks close() waits for
    connected   \* is the connection up?

vars == <<job, kept, host, call, told, closing, awaited, connected>>

(* Jobs, in the order of their acceptance.                                 *)
Jobs == 1 .. MaxJobs

Terminal == {"succeeded", "failed", "cancelled"}
States == {"queued", "running"} \cup Terminal

NewJob == [state |-> "queued", at |-> "none", why |-> None, requested |-> FALSE]

Absent == [helper |-> "absent", running |-> FALSE, sigterm |-> FALSE]

(* at: where the task is suspended; why: what made it end its process;     *)
(* requested: task.cancel() has been called and not yet delivered.         *)
Job == [state : States,
        at : {"none", "created", "opening", "writing", "collecting", "ending", "done"},
        why : {"limit", "cancel", None},
        requested : BOOLEAN]

NoCall == [job |-> None, step |-> "idle"]

(* reading: the helper has no end of input yet; fed: it has; bare: it has  *)
(* started the program and has no handler for SIGTERM yet; guarded: it     *)
(* has.  running: the program is; sigterm: a signal is on its way.         *)
Host == [helper : {"absent", "reading", "fed", "bare", "guarded", "answered", "gone"},
         running : BOOLEAN, sigterm : BOOLEAN]

Call == [job : Jobs \cup {None}, step : {"idle", "bound", "waiting"}]

TypeOK ==
    /\ job \in [Jobs -> Job]
    /\ kept \in [Jobs -> {"no", "fresh", "expired"}]
    /\ Cardinality({j \in Jobs : kept[j] # "no"}) <= Capacity
    /\ host \in [Jobs -> Host]
    /\ call \in [Callers -> Call]
    /\ told \in [Jobs -> SUBSET States]
    /\ closing \in {"no", "waiting", "over"}
    /\ awaited \in SUBSET Jobs
    /\ connected \in BOOLEAN

Init ==
    /\ job = [j \in Jobs |-> NewJob]
    /\ kept = [j \in Jobs |-> "no"]
    /\ host = [j \in Jobs |-> Absent]
    /\ call = [c \in Callers |-> NoCall]
    /\ told = [j \in Jobs |-> {}]
    /\ closing = "no"
    /\ awaited = {}
    /\ connected = TRUE

-----------------------------------------------------------------------------
(* The registry.                                                           *)

Unfinished(j) == job[j].at \notin {"none", "done"}

Fresh == {j \in Jobs : kept[j] = "fresh"}

Expired == {j \in Jobs : kept[j] = "expired"}

Purged == [j \in Jobs |-> IF j \in Fresh THEN "fresh" ELSE "no"]

Cancelled(js) ==
    [j \in Jobs |-> IF j \in js /\ Unfinished(j) THEN [job[j] EXCEPT !.requested = TRUE]
                    ELSE job[j]]

Room == Cardinality(Fresh) < Capacity

(* submit, with _purge_expired.  A refusal changes nothing: where a job    *)
(* has expired, there is room once it is purged.                           *)
Submit(j) ==
    /\ job[j].at = "none"
    /\ \A i \in 1 .. j - 1 : job[i].at # "none"
    /\ Room
    /\ kept' = [Purged EXCEPT ![j] = "fresh"]
    /\ job' = [Cancelled(Expired) EXCEPT ![j].at = "created"]
    /\ UNCHANGED <<host, call, told, closing, awaited, connected>>

Expires(j) ==
    /\ j \in Fresh
    /\ kept' = [kept EXCEPT ![j] = "expired"]
    /\ UNCHANGED <<job, host, call, told, closing, awaited, connected>>

(* _owned_job finds the job, or not, and forgets an expired one; a task    *)
(* that is still at work then goes on without an owner.                    *)
Forgets(j) == kept' = IF j \in Fresh THEN kept ELSE [kept EXCEPT ![j] = "no"]

Visible(j) == IF j \in Fresh THEN {job[j].state} ELSE {}

(* target_binding, and then status, or result, which says the same and     *)
(* more; the job can only be forgotten in between.                         *)
Status(c, j) ==
    /\ call[c].step = "idle"
    /\ Forgets(j)
    /\ told' = [told EXCEPT ![j] = @ \cup (Visible(j) \cap Terminal)]
    /\ UNCHANGED <<job, host, call, closing, awaited, connected>>

(* target_binding, before a cancellation is authorized ...                 *)
Bind(c, j) ==
    /\ call[c].step = "idle"
    /\ j \in Fresh
    /\ call' = [call EXCEPT ![c] = [job |-> j, step |-> "bound"]]
    /\ UNCHANGED <<job, kept, host, told, closing, awaited, connected>>

Answers(c, states) ==
    /\ call' = [call EXCEPT ![c] = NoCall]
    /\ told' = [told EXCEPT ![call[c].job] = @ \cup states]

(* ... and cancel, when the job may be gone, ...                           *)
CancelUnknown(c) ==
    /\ call[c].step = "bound"
    /\ call[c].job \notin Fresh
    /\ Forgets(call[c].job)
    /\ Answers(c, {})
    /\ UNCHANGED <<job, host, closing, awaited, connected>>

(* ... or finished, ...                                                    *)
CancelFinished(c) ==
    /\ call[c].step = "bound"
    /\ call[c].job \in Fresh /\ ~Unfinished(call[c].job)
    /\ Answers(c, {job[call[c].job].state})
    /\ UNCHANGED <<job, kept, host, closing, awaited, connected>>

(* Fault: the task is not cancelled.                                       *)
Marked(j) == [job[j] EXCEPT !.state = "cancelled"]

Stopped(j) == [job[j] EXCEPT !.state = "cancelled", !.requested = TRUE]

(* ... or not.                                                             *)
Cancel(c) ==
    LET j == call[c].job
    IN  /\ call[c].step = "bound"
        /\ j \in Fresh /\ Unfinished(j)
        /\ job' = [job EXCEPT ![j] = Stopped(j)]
        /\ call' = [call EXCEPT ![c].step = "waiting"]
        /\ UNCHANGED <<kept, host, told, closing, awaited, connected>>

(* The task has ended, and the job is looked up once more.                 *)
CancelEnds(c) ==
    LET j == call[c].job
    IN  /\ call[c].step = "waiting"
        /\ ~Unfinished(j)
        /\ Forgets(j)
        /\ Answers(c, Visible(j))
        /\ UNCHANGED <<job, host, closing, awaited, connected>>

(* The caller goes away or its deadline strikes while it waits: gather     *)
(* cancels the task a second time.                                         *)
CancelAbandoned(c) ==
    /\ call[c].step = "waiting"
    /\ Unfinished(call[c].job)
    /\ job' = [job EXCEPT ![call[c].job].requested = TRUE]
    /\ Answers(c, {})
    /\ UNCHANGED <<kept, host, closing, awaited, connected>>

(* A signal does not outlive the connection.                               *)
Severed == [j \in Jobs |-> [host[j] EXCEPT !.sigterm = FALSE]]

(* close: every task is cancelled, ...                                     *)
Close ==
    /\ closing = "no"
    /\ closing' = "waiting"
    /\ awaited' = Fresh \cup Expired
    /\ job' = Cancelled(Fresh \cup Expired)
    /\ UNCHANGED <<kept, host, call, told, connected>>

(* ... awaited without the lock, and forgotten together with whatever has  *)
(* been submitted meanwhile; then the connections are closed.              *)
Closed ==
    /\ closing = "waiting"
    /\ ~\E j \in awaited : Unfinished(j)
    /\ closing' = "over"
    /\ awaited' = {}
    /\ kept' = [j \in Jobs |-> "no"]
    /\ connected' = FALSE
    /\ host' = Severed
    /\ UNCHANGED <<job, call, told>>

-----------------------------------------------------------------------------
(* The task: _run and execute_program.                                     *)

At(j, place) == job[j].at = place /\ ~job[j].requested

TaskEnds(j, state) == job' = [job EXCEPT ![j].at = "done", ![j].state = state,
                                         ![j].why = None, ![j].requested = FALSE]

Begin(j) ==
    /\ At(j, "created")
    /\ job' = [job EXCEPT ![j].at = IF connected THEN "opening" ELSE "done",
                          ![j].state = IF connected THEN "running" ELSE "failed"]
    /\ UNCHANGED <<kept, host, call, told, closing, awaited, connected>>

(* create_process returns, the request is written, and the buffer drains   *)
(* when the host takes it; there is no limit to either wait.               *)
Opened(j) ==
    /\ At(j, "opening") /\ connected
    /\ job' = [job EXCEPT ![j].at = "writing"]
    /\ host' = [host EXCEPT ![j].helper = "reading"]
    /\ UNCHANGED <<kept, call, told, closing, awaited, connected>>

Drained(j) ==
    /\ At(j, "writing") /\ connected
    /\ job' = [job EXCEPT ![j].at = "collecting"]
    /\ host' = [host EXCEPT ![j].helper = "fed"]
    /\ UNCHANGED <<kept, call, told, closing, awaited, connected>>

(* The connection is lost under the task.                                  *)
Broken(j) ==
    /\ At(j, "opening") \/ At(j, "writing")
    /\ ~connected
    /\ TaskEnds(j, "failed")
    /\ UNCHANGED <<kept, host, call, told, closing, awaited, connected>>

(* _collect_process: the helper's output ends, with or without an answer.  *)
Collected(j) ==
    /\ At(j, "collecting")
    /\ \/ host[j].helper = "answered" /\ TaskEnds(j, "succeeded")
       \/ host[j].helper = "gone" /\ TaskEnds(j, "failed")
       \/ ~connected /\ TaskEnds(j, "failed")
    /\ UNCHANGED <<kept, host, call, told, closing, awaited, connected>>

(* Fault: the process is left alone.                                       *)
Untouched(j) == host

Signalled(j) == [host EXCEPT ![j].sigterm = connected]

Ending(j, why) == job' = [job EXCEPT ![j].at = "ending", ![j].why = why,
                                     ![j].requested = FALSE]

(* The deadline, or more output than is accepted: _terminate_process sends *)
(* the helper a signal and waits a while.                                  *)
GivesUp(j) ==
    /\ At(j, "collecting")
    /\ Ending(j, "limit")
    /\ host' = Signalled(j)
    /\ UNCHANGED <<kept, call, told, closing, awaited, connected>>

Ended(j) ==
    /\ At(j, "ending")
    /\ TaskEnds(j, IF job[j].why = "cancel" THEN "cancelled" ELSE "failed")
    /\ UNCHANGED <<kept, host, call, told, closing, awaited, connected>>

(* A cancellation is delivered.  A task that has not begun never runs, and *)
(* leaves the state as it is; before the process is collected, nothing is  *)
(* sent to it.                                                             *)
CancelledEarly(j) ==
    /\ job[j].requested
    /\ job[j].at \in {"created", "opening", "writing"}
    /\ TaskEnds(j, IF job[j].at = "created" THEN job[j].state ELSE "cancelled")
    /\ UNCHANGED <<kept, host, call, told, closing, awaited, connected>>

CancelledWhileCollecting(j) ==
    /\ job[j].requested /\ job[j].at = "collecting"
    /\ Ending(j, "cancel")
    /\ host' = Signalled(j)
    /\ UNCHANGED <<kept, call, told, closing, awaited, connected>>

(* Fault: the task ends as it was going to.                                *)
AsItWas(j) == IF job[j].why = "cancel" THEN "cancelled" ELSE "failed"

(* What a cancellation makes of a task that is ending its process.         *)
Interrupted(j) == "cancelled"

(* A second cancellation, or one that arrives while the process is ended.  *)
CancelledWhileEnding(j) ==
    /\ job[j].requested /\ job[j].at = "ending"
    /\ TaskEnds(j, Interrupted(j))
    /\ UNCHANGED <<kept, host, call, told, closing, awaited, connected>>

Task(j) ==
    \/ Begin(j) \/ Broken(j) \/ Collected(j) \/ GivesUp(j) \/ Ended(j)
    \/ CancelledEarly(j) \/ CancelledWhileCollecting(j) \/ CancelledWhileEnding(j)

-----------------------------------------------------------------------------
(* The host.                                                               *)

Helper(j, state) == host[j].helper = state

(* End of input: the program starts if the request is whole, which it need *)
(* not be when the connection was lost, and can be started.                *)
ProgramStarts(j) ==
    /\ Helper(j, "fed") \/ (Helper(j, "reading") /\ ~connected)
    /\ \/ host' = [host EXCEPT ![j].helper = "bare", ![j].running = TRUE]
       \/ host' = [host EXCEPT ![j].helper = "gone"]
    /\ UNCHANGED <<job, kept, call, told, closing, awaited, connected>>

HandlerInstalled(j) ==
    /\ Helper(j, "bare")
    /\ host' = [host EXCEPT ![j].helper = "guarded"]
    /\ UNCHANGED <<job, kept, call, told, closing, awaited, connected>>

(* The program ends, or is killed for its output, and the helper answers.  *)
(* The end of a program without a helper is nobody's business.             *)
HelperAnswers(j) ==
    /\ Helper(j, "guarded")
    /\ host' = [host EXCEPT ![j].running = FALSE,
                            ![j].helper = IF connected THEN "answered" ELSE "gone"]
    /\ UNCHANGED <<job, kept, call, told, closing, awaited, connected>>

(* SIGTERM arrives: the handler kills the program's group; before it is    *)
(* installed the signal ends the helper alone.                             *)
SignalArrives(j) ==
    /\ host[j].sigterm
    /\ host' = [host EXCEPT ![j].sigterm = FALSE,
                  ![j].helper = IF @ = "answered" THEN @ ELSE "gone",
                  ![j].running = @ /\ ~Helper(j, "guarded")]
    /\ UNCHANGED <<job, kept, call, told, closing, awaited, connected>>

ConnectionLost ==
    /\ connected
    /\ connected' = FALSE
    /\ host' = Severed
    /\ UNCHANGED <<job, kept, call, told, closing, awaited>>

-----------------------------------------------------------------------------
Asks(c) ==
    \/ CancelUnknown(c) \/ CancelFinished(c) \/ Cancel(c) \/ CancelEnds(c)

Next ==
    \/ \E j \in Jobs : \/ Submit(j) \/ Expires(j) \/ Task(j) \/ Opened(j) \/ Drained(j)
                       \/ ProgramStarts(j) \/ HandlerInstalled(j)
                       \/ HelperAnswers(j) \/ SignalArrives(j)
    \/ \E c \in Callers : \/ Asks(c) \/ CancelAbandoned(c)
                          \/ \E j \in Jobs : Status(c, j) \/ Bind(c, j)
    \/ Close \/ Closed \/ ConnectionLost

(* The event loop runs what is ready, and time passes, so that a process   *)
(* being collected is given up in the end; nothing is promised of the      *)
(* host, nor of the two waits that have no limit.                          *)
Spec == /\ Init /\ [][Next]_vars
        /\ \A j \in Jobs : WF_vars(Task(j))
        /\ \A c \in Callers : WF_vars(Asks(c))
        /\ WF_vars(Closed)

-----------------------------------------------------------------------------
(* A terminal state that a caller was told stays the state of the job,     *)
(* whatever comes after it: a late result, a timeout or another            *)
(* cancellation; and a cancellation is told a terminal one, unless the     *)
(* server is closing and has cancelled a task that had not begun.          *)
AnswersStayTrue ==
    \A j \in Jobs : \A state \in told[j] :
        \/ state \in Terminal /\ job[j].state = state
        \/ state \notin Terminal /\ closing # "no"

(* While the connection is up, a job's task has not ended and left its     *)
(* program running, unless SIGTERM is still on its way or came before the  *)
(* helper could pass it on.                                                *)
NoProgramIsLeft ==
    \A j \in Jobs :
        connected /\ job[j].at = "done" /\ host[j].running
            => host[j].sigterm \/ host[j].helper = "gone"

(* A cancellation is answered, although the task may be suspended in a     *)
(* wait that has no limit.                                                 *)
CancellationEnds ==
    \A c \in Callers : call[c].step = "waiting" ~> call[c].step # "waiting"
=============================================================================
