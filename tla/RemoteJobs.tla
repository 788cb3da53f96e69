----------------------------- MODULE RemoteJobs -----------------------------
(***************************************************************************)
(* Durable remote jobs end to end: server processes that share one locked  *)
(* job store (remote_jobs.py), the start and lookup handlers of the kernel *)
(* (kernel_execution.py), SSH calls whose answers can be late or lost      *)
(* (clients/ssh.py), and the managed host, of which only the promises of   *)
(* RemoteJobLifecycle are used.                                            *)
(*                                                                         *)
(* A caller is one invocation of one tool in some server process; it ends  *)
(* with a reply.  Every access to the store is a transaction under its     *)
(* file lock, hence one step; the SSH calls in between are where callers,  *)
(* host and time interleave.                                               *)
(***************************************************************************)
EXTENDS RemoteJobLifecycle, FiniteSets

CONSTANTS
    Callers,        \* invocations, in any of the server processes
    Principals,     \* authenticated callers
    Servers,        \* configured SSH targets
    Keys,           \* idempotency keys
    Bindings,       \* request digest and target identity of a start request
    MaxRecords,     \* bound of the store
    None            \* no record, no job, no request

ASSUME RemoteJobsAssumption ==
    /\ MaxRecords \in Nat \ {0}
    /\ IsFiniteSet(Jobs)
    /\ None \notin Jobs

VARIABLES
    store,      \* store[j]: the local record of job j, or None
    archived,   \* terminal records of other keys the store still holds
    aged,       \* aged[j]: created longer ago than the retention period
    call,       \* call[c]: the invocation caller c is executing
    reply,      \* reply[c]: how c's invocation ended
    rpc,        \* rpc[j]: the one start request that carries job j
    reached     \* history: states j's record.json has ever shown

vars == <<remote, launches, store, archived, aged, call, reply, rpc, reached>>
hostVars == <<remote, launches, rpc, reached>>

LocalTerminal == {"succeeded", "failed", "cancelled", "lost", "expired"}

LocalState == {"queued", "running"} \cup LocalTerminal

Request == [principal : Principals, server : Servers, key : Keys,
            binding : Bindings]

LocalRecord == [request : Request, state : LocalState]

ASSUME RecordAssumption == None \notin LocalRecord

StartSteps == {"start", "answer", "verify", "settle", "forget"}

LookupSteps == {"ask", "observe", "tombstone"}

(* "read" stands for status, result, wait and output.                      *)
Lookups == {"read", "cancel"}

Idle == [step |-> "idle", op |-> None, principal |-> None, job |-> None,
         seen |-> None, error |-> None]

(* The store never outgrows its bound: load rejects a larger file, so one  *)
(* record too many would make every later operation fail.                  *)
TypeOK ==
    /\ remote \in [Jobs -> RemoteState]
    /\ launches \in [Jobs -> Nat]
    /\ store \in [Jobs -> LocalRecord \cup {None}]
    /\ archived \in 0..MaxRecords
    /\ Cardinality({j \in Jobs : store[j] # None}) + archived <= MaxRecords
    /\ aged \in [Jobs -> BOOLEAN]
    /\ \A c \in Callers :
        /\ call[c].step \in {"idle", "over"} \cup StartSteps \cup LookupSteps
        /\ call[c].op \in Lookups \cup {"start", None}
        /\ call[c].principal \in Principals \cup {None}
        /\ call[c].job \in Jobs \cup {None}
        /\ call[c].seen \in RemoteState \cup {None}
    /\ reply \in [Callers -> {"none", "started", "reused", "reconciled",
                    "observed", "tombstone", "not_found", "conflict",
                    "ambiguous", "upstream", "internal", "failed",
                    "abandoned"}]
    /\ rpc \in [Jobs -> {"none", "sent", "done"}]
    /\ reached \in [Jobs -> SUBSET RemoteState]

Init ==
    /\ LifecycleInit
    /\ store = [j \in Jobs |-> None]
    /\ archived \in 0..MaxRecords
    /\ aged = [j \in Jobs |-> FALSE]
    /\ call = [c \in Callers |-> Idle]
    /\ reply = [c \in Callers |-> "none"]
    /\ rpc = [j \in Jobs |-> "none"]
    /\ reached = [j \in Jobs |-> {}]

-----------------------------------------------------------------------------
(* The store and the registry over it.                                     *)

Stored == {j \in Jobs : store[j] # None}

Records == Cardinality(Stored) + archived

(* Fault: off by one.                                                      *)
FullBeyondBound == Records > MaxRecords

Full == Records >= MaxRecords

SameKey(a, b) ==
    a.principal = b.principal /\ a.server = b.server /\ a.key = b.key

(* RemoteJobRecord.transition raises instead of leaving a terminal state   *)
(* or returning to "queued".                                               *)
CanTransition(from, to) ==
    /\ from \in LocalTerminal => to = from
    /\ to = "queued" => from = "queued"

SetLocal(j, s) == store' = [store EXCEPT ![j].state = s]

(* expire_older_than, run before every read: records are kept for ever.    *)
Pruned ==
    [j \in Jobs |->
        IF /\ store[j] # None /\ aged[j]
           /\ store[j].state \in {"queued", "running"}
        THEN [store[j] EXCEPT !.state = "expired"] ELSE store[j]]

(* Fault: a key whose job has ended is free again.                         *)
ExistingLive(request) ==
    {j \in Stored : /\ SameKey(store[j].request, request)
                    /\ store[j].state \notin LocalTerminal}

Existing(request) == {j \in Stored : SameKey(store[j].request, request)}

Goes(c, step) == call' = [call EXCEPT ![c].step = step]

Over(op, j) == [Idle EXCEPT !.step = "over", !.op = op, !.job = j]

Replies(c, outcome) ==
    /\ call' = [call EXCEPT ![c] = Over(@.op, @.job)]
    /\ reply' = [reply EXCEPT ![c] = outcome]

(* Job ids are random: a caller knows the ones some start replied with.    *)
Disclosed(j) ==
    \E c \in Callers :
        call[c].job = j /\ reply[c] \in {"started", "reused", "reconciled"}

Asks(p, op, j) ==
    [Idle EXCEPT !.step = "ask", !.op = op, !.principal = p, !.job = j]

-----------------------------------------------------------------------------
(* remote_job_start.                                                       *)

(* create_or_reuse prunes the store and then looks for the key, in two      *)
(* transactions.  The second depends on keys and bindings only, which no    *)
(* prune changes, so the two are one step here and in RecordLoaded.         *)
KeyReused(c, request) ==
    /\ call[c].step = "idle"
    /\ store' = Pruned
    /\ \E j \in Existing(request) :
        /\ call' = [call EXCEPT ![c] = Over("start", j)]
        /\ reply' = [reply EXCEPT ![c] =
                       IF store[j].request.binding = request.binding
                       THEN "reused" ELSE "conflict"]
    /\ UNCHANGED <<archived, aged, hostVars>>

StoreFull(c, request) ==
    /\ call[c].step = "idle"
    /\ Existing(request) = {}
    /\ Full
    /\ store' = Pruned
    /\ Replies(c, "internal")
    /\ UNCHANGED <<archived, aged, hostVars>>

(* A fresh random job id is bound to the key.                              *)
RecordInserted(c, request) ==
    /\ call[c].step = "idle"
    /\ Existing(request) = {}
    /\ ~Full
    /\ \E j \in Jobs \ Stored :
        /\ store' = [Pruned EXCEPT ![j] = [request |-> request,
                                           state |-> "queued"]]
        /\ call' = [call EXCEPT ![c] = [Idle EXCEPT !.step = "start",
                        !.op = "start", !.principal = request.principal,
                        !.job = j]]
    /\ UNCHANGED <<archived, aged, reply, hostVars>>

StartSent(c) ==
    /\ call[c].step = "start"
    /\ rpc' = [rpc EXCEPT ![call[c].job] = "sent"]
    /\ Goes(c, "answer")
    /\ UNCHANGED <<remote, launches, store, archived, aged, reply, reached>>

(* Fault: a request that was sent counts as accepted.                      *)
AnswerAssumed(c) ==
    /\ call[c].step = "answer"
    /\ Replies(c, "started")
    /\ UNCHANGED <<store, archived, aged, hostVars>>

StartAnswered(c) ==
    /\ call[c].step = "answer"
    /\ rpc[call[c].job] = "done"
    /\ Replies(c, "started")
    /\ UNCHANGED <<store, archived, aged, hostVars>>

(* No connection, or it broke and left an unusable answer: any error but   *)
(* AMBIGUOUS.                                                              *)
StartFails(c) ==
    /\ call[c].step \in {"start", "answer"}
    /\ call' = [call EXCEPT ![c].step = "forget", ![c].error = "upstream"]
    /\ UNCHANGED <<store, archived, aged, reply, hostVars>>

StartTimesOut(c) ==
    /\ call[c].step = "answer"
    /\ Goes(c, "verify")
    /\ UNCHANGED <<store, archived, aged, reply, hostVars>>

(* The one status lookup after an ambiguous start.                         *)
Verified(c) ==
    LET j == call[c].job IN
    /\ call[c].step = "verify"
    /\ remote[j] \notin {"absent", "removed"}
    /\ call' = [call EXCEPT ![c].step = "settle", ![c].seen = remote[j]]
    /\ UNCHANGED <<store, archived, aged, reply, hostVars>>

(* The lookup finds no record, or fails as well.                           *)
VerifyFails(c) ==
    /\ call[c].step = "verify"
    /\ call' = [call EXCEPT ![c].step = "forget", ![c].error = "ambiguous"]
    /\ UNCHANGED <<store, archived, aged, reply, hostVars>>

(* Fault: the latest observation wins.                                     *)
ReconcileBlindly(c, outcome) ==
    /\ SetLocal(call[c].job, call[c].seen)
    /\ Replies(c, outcome)

(* reconcile_observed_state: a terminal local record is left alone; going  *)
(* back to "queued" raises.                                                *)
Reconcile(c, outcome) ==
    LET j == call[c].job
        from == store[j].state
        to == call[c].seen
    IN
    /\ IF from \notin LocalTerminal /\ CanTransition(from, to)
       THEN SetLocal(j, to) ELSE UNCHANGED store
    /\ Replies(c, IF from \in LocalTerminal \/ CanTransition(from, to)
                  THEN outcome ELSE "internal")

StartReconciled(c) ==
    /\ call[c].step = "settle"
    /\ Reconcile(c, "reconciled")
    /\ UNCHANGED <<archived, aged, hostVars>>

(* Fault: an unconfirmed start is recorded as a failure of the program.    *)
MarkedFailed(c) ==
    LET j == call[c].job IN
    /\ call[c].step = "forget"
    /\ IF CanTransition(store[j].state, "failed")
       THEN SetLocal(j, "failed") /\ Replies(c, call[c].error)
       ELSE UNCHANGED store /\ Replies(c, "internal")
    /\ UNCHANGED <<archived, aged, hostVars>>

(* mark_lost: raises if the record is already terminal, and the error of   *)
(* the start is replaced by an internal one.                               *)
MarkedLost(c) ==
    LET j == call[c].job IN
    /\ call[c].step = "forget"
    /\ IF CanTransition(store[j].state, "lost")
       THEN SetLocal(j, "lost") /\ Replies(c, call[c].error)
       ELSE UNCHANGED store /\ Replies(c, "internal")
    /\ UNCHANGED <<archived, aged, hostVars>>

-----------------------------------------------------------------------------
(* remote_job_status, _result, _output ("read"), _wait and _cancel.        *)

(* Only the owner gets past the record; the target is the recorded one.    *)
RecordLoaded(c, p, op, j) ==
    /\ call[c].step = "idle"
    /\ Disclosed(j)
    /\ store' = Pruned
    /\ IF store[j].request.principal = p
       THEN /\ call' = [call EXCEPT ![c] = Asks(p, op, j)]
            /\ UNCHANGED reply
       ELSE Replies(c, "not_found")
    /\ UNCHANGED <<archived, aged, hostVars>>

HostAnswers(c) ==
    LET j == call[c].job IN
    /\ call[c].step = "ask"
    /\ call[c].op = "read" \/ remote[j] = "cancelled"
    /\ remote[j] \notin {"absent", "removed"}
    /\ call' = [call EXCEPT ![c].step = "observe", ![c].seen = remote[j]]
    /\ UNCHANGED <<store, archived, aged, reply, hostVars>>

HostCancels(c) ==
    LET j == call[c].job IN
    /\ call[c].step = "ask"
    /\ call[c].op = "cancel"
    /\ Cancel(j)
    /\ reached' = [reached EXCEPT ![j] = @ \cup {"cancelled"}]
    /\ call' = [call EXCEPT ![c].step = "observe", ![c].seen = "cancelled"]
    /\ UNCHANGED <<store, archived, aged, reply, rpc>>

(* Status and result fall back to the local record, wait, output and      *)
(* cancel do not.                                                          *)
HostKnowsNothing(c) ==
    /\ call[c].step = "ask"
    /\ remote[call[c].job] \in {"absent", "removed"}
    /\ \/ Replies(c, "not_found")
       \/ /\ call[c].op = "read"
          /\ Goes(c, "tombstone")
          /\ UNCHANGED reply
    /\ UNCHANGED <<store, archived, aged, hostVars>>

(* A queued observation is returned but not recorded.                      *)
Observed(c) ==
    /\ call[c].step = "observe"
    /\ IF call[c].seen = "queued"
       THEN Replies(c, "observed") /\ UNCHANGED store
       ELSE Reconcile(c, "observed")
    /\ UNCHANGED <<archived, aged, hostVars>>

(* The record is read again (and pruned): only a terminal one is returned  *)
(* in place of the payload that was removed.                               *)
TombstoneRead(c) ==
    /\ call[c].step = "tombstone"
    /\ store' = Pruned
    /\ Replies(c, IF Pruned[call[c].job].state \in LocalTerminal
                  THEN "tombstone" ELSE "not_found")
    /\ UNCHANGED <<archived, aged, hostVars>>

(* The lookup itself fails: conflict, timeout, lost answer.                *)
LookupFails(c) ==
    /\ call[c].step \in {"ask", "observe"}
    /\ Replies(c, "failed")
    /\ UNCHANGED <<store, archived, aged, hostVars>>

(* The server process dies, or the kernel's deadline cancels the handler:  *)
(* it ends where it awaits, and no transaction follows.                    *)
Abandoned(c) ==
    /\ call[c].step \in {"start", "answer", "verify", "ask"}
    /\ Replies(c, "abandoned")
    /\ UNCHANGED <<store, archived, aged, hostVars>>

-----------------------------------------------------------------------------
(* The host and time.                                                      *)

(* The start helper runs, possibly after its caller gave up, or never.     *)
StartExecuted(j) ==
    /\ rpc[j] = "sent" /\ ~aged[j]
    /\ Accept(j)
    /\ rpc' = [rpc EXCEPT ![j] = "done"]
    /\ reached' = [reached EXCEPT ![j] = {"queued"}]
    /\ UNCHANGED <<store, archived, aged, call, reply>>

HostProgress(j) ==
    /\ Launch(j) \/ Refuse(j) \/ Run(j) \/ Settle(j) \/ Remove(j)
    /\ reached' = [reached EXCEPT ![j] = @ \cup {remote'[j]}]
    /\ UNCHANGED <<store, archived, aged, call, reply, rpc>>

(* No call and no helper lasts as long as the retention period.            *)
RetentionPasses(j) ==
    /\ store[j] # None /\ ~aged[j]
    /\ \A c \in Callers : call[c].job = j => call[c].step \notin StartSteps
    /\ aged' = [aged EXCEPT ![j] = TRUE]
    /\ UNCHANGED <<store, archived, call, reply, hostVars>>

-----------------------------------------------------------------------------
CallerStep(c) ==
    \/ StartSent(c) \/ StartAnswered(c) \/ StartFails(c) \/ StartTimesOut(c)
    \/ Verified(c) \/ VerifyFails(c) \/ StartReconciled(c) \/ MarkedLost(c)
    \/ HostAnswers(c) \/ HostCancels(c)
    \/ HostKnowsNothing(c) \/ Observed(c) \/ TombstoneRead(c)
    \/ LookupFails(c) \/ Abandoned(c)

Next ==
    \/ \E c \in Callers :
        \/ \E request \in Request :
            \/ KeyReused(c, request)
            \/ StoreFull(c, request)
            \/ RecordInserted(c, request)
        \/ \E p \in Principals, op \in Lookups, j \in Jobs :
            RecordLoaded(c, p, op, j)
        \/ CallerStep(c)
    \/ \E j \in Jobs :
        \/ StartExecuted(j) \/ HostProgress(j)
        \/ RetentionPasses(j)

Spec == Init /\ [][Next]_vars

-----------------------------------------------------------------------------
(* Properties.                                                             *)

(* Idempotency: of all jobs started for one principal, server and key, at  *)
(* most one program is ever launched, over concurrent starts, retries      *)
(* after loss or expiry and late start helpers; and no program runs that   *)
(* the store does not know of.                                             *)
OneLaunchPerKey ==
    /\ \A j \in Jobs : launches[j] > 0 => j \in Stored /\ launches[j] = 1
    /\ \A i, j \in Jobs :
        /\ launches[i] > 0 /\ launches[j] > 0
        /\ SameKey(store[i].request, store[j].request)
        => i = j

(* A key stays bound to its job and request for ever, and a terminal local *)
(* state is never reopened by an observation that arrives late.            *)
RecordsArePermanent ==
    [][\A j \in Stored :
        /\ store'[j] # None /\ store'[j].request = store[j].request
        /\ store[j].state \in LocalTerminal =>
            store'[j].state = store[j].state]_vars

(* What the store says about a program was true on the host at some time:  *)
(* only "lost" and "expired" are verdicts of the server itself.            *)
LocalFollowsRemote ==
    \A j \in Stored :
        store[j].state \in {"running"} \cup Settled =>
            store[j].state \in reached[j]

(* A start that was answered, or reconciled after an ambiguous answer, was *)
(* accepted by the host, and its record is not written off as lost.        *)
AnsweredStartIsKnown ==
    \A c \in Callers :
        reply[c] \in {"started", "reconciled"} =>
            /\ reached[call[c].job] # {}
            /\ store[call[c].job].state # "lost"
=============================================================================
