-------------------------- MODULE InvocationKernel --------------------------
(***************************************************************************)
(* InvocationKernel.invoke (kernel.py, kernel_policy.py) in one server     *)
(* process, for calls that address one SSH target: the shared connection   *)
(* of TargetRegistry (targets.py), the per-resource lock, the one-time     *)
(* approvals, the deadline and the retry policy.  Everything runs on one   *)
(* event loop, so a step is what happens between two awaits.               *)
(*                                                                         *)
(* Calls start after validation and scope checks; approvals are atomic     *)
(* here (Approvals shows when they are).  Time is a number of ticks, and   *)
(* what is due in a tick happens before the next one.                      *)
(***************************************************************************)
EXTENDS Integers, FiniteSets

CONSTANTS
    Mutations, Reads,   \* calls of the two kinds of capability
    Resources,          \* capability, resource and arguments: what a lock
                        \* and an approval are for
    HostKeys,           \* identities the target may present
    MaxClients,         \* connections the registry makes, one after another
    MaxApprovals,       \* unconsumed approvals per resource and identity
    MaxDeadline,        \* longest effective deadline
    Budget,             \* _MUTATION_CLASSIFICATION_BUDGET_MS
    AdapterBound,       \* how long an adapter takes at most to classify a call
    MaxDelay,           \* longest backoff
    MaxAttempts,        \* attempts of a retryable read
    None

ASSUME KernelAssumption ==
    /\ Mutations \cap Reads = {}
    /\ IsFiniteSet(Mutations \cup Reads)
    /\ None \notin Mutations \cup Reads \cup Resources \cup HostKeys
    /\ {MaxClients, MaxApprovals, MaxDeadline, Budget, AdapterBound, MaxDelay,
        MaxAttempts} \subseteq Nat \ {0}
    /\ AdapterBound <= Budget

VARIABLES
    current,    \* the registry's client for the target, or 0
    link,       \* link[k]: state of a client's connection
    peer,       \* peer[k]: the host key it verified
    approvals,  \* approvals[r, i]: unconsumed approvals
    call,       \* call[c]: the invocation c
    sent,       \* history: how often c's request may have reached the target
    consumed,   \* history: has c consumed an approval
    reply       \* reply[c]: how c ended

vars == <<current, link, peer, approvals, call, sent, consumed, reply>>
registryVars == <<current, link, peer>>
approvalVars == <<approvals, consumed>>

Calls == Mutations \cup Reads

Clients == 1..MaxClients

NewCall == [step |-> "new", resource |-> None, client |-> 0, lock |-> None,
            left |-> 0, ran |-> 0, delay |-> 0, attempt |-> 1]

Call == [step : {"new", "connect", "wait", "run", "sleep",
                 "cleanup", "over"},
         resource : Resources \cup {None}, client : Clients \cup {0},
         lock : Calls \cup {None}, left : 0..MaxDeadline,
         ran : 0..AdapterBound, delay : 0..MaxDelay, attempt : 1..MaxAttempts]

(* The registry holds at most one open connection to the target.  Both     *)
(* "timeout" and "helper timeout" are the code TIMEOUT, of the kernel and  *)
(* of the adapter.                                                         *)
TypeOK ==
    /\ current \in Clients \cup {0}
    /\ link \in [Clients -> {"unused", "open", "down", "closed"}]
    /\ \A k \in Clients : link[k] = "open" => k = current
    /\ peer \in [Clients -> HostKeys \cup {None}]
    /\ approvals \in [Resources \X HostKeys -> 0..MaxApprovals]
    /\ call \in [Calls -> Call]
    /\ sent \in [Calls -> 0..MaxAttempts]
    /\ consumed \in [Calls -> BOOLEAN]
    /\ reply \in [Calls -> {"none", "ok", "authorization", "unavailable",
                    "timeout", "helper timeout", "ambiguous", "upstream",
                    "transient", "internal", "cancelled"}]

Init ==
    /\ current = 0
    /\ link = [k \in Clients |-> "unused"]
    /\ peer = [k \in Clients |-> None]
    /\ approvals = [a \in Resources \X HostKeys |-> 0]
    /\ call = [c \in Calls |-> NewCall]
    /\ sent = [c \in Calls |-> 0]
    /\ consumed = [c \in Calls |-> FALSE]
    /\ reply = [c \in Calls |-> "none"]

-----------------------------------------------------------------------------
At(c, step) == call[c].step = step

Active(c) == ~At(c, "new") /\ ~At(c, "over")

(* The invocation's frame is gone, and with it its reference to the lock.  *)
Replies(c, outcome) ==
    /\ call' = [call EXCEPT ![c] = [NewCall EXCEPT !.step = "over"]]
    /\ reply' = [reply EXCEPT ![c] = outcome]

Goes(c, step) == call' = [call EXCEPT ![c].step = step] /\ UNCHANGED reply

Connected == current # 0 /\ link[current] = "open"

-----------------------------------------------------------------------------
(* execute_once_locked: one step, entered with the lock held.              *)

Holds(c) == c \in Mutations /\ call[c].step \in {"run", "cleanup"}

LockFree(l) == \A d \in Mutations : call[d].lock = l => ~Holds(d)

(* Fault: every call makes a lock of its own.                              *)
LockOfItsOwn(c, r) == c

(* _lock_for: the key's lock in the weak dictionary lives for as long as   *)
(* some call refers to it; it is named after the call that made it.        *)
LockFor(c, r) ==
    LET live == {call[d].lock : d \in {d \in Mutations :
                    /\ call[d].resource = r
                    /\ call[d].lock # None}}
    IN IF live = {} THEN c ELSE CHOOSE l \in live : TRUE

(* Is the registry connected, to the identity the call e resolved?         *)
SameIdentity(e) ==
    current' # 0 /\ link'[current'] = "open" /\ peer'[current'] = peer'[e.client]

(* The adapter uses the client that was resolved, which the registry may   *)
(* meanwhile have closed and replaced by one of the same identity.         *)
Enters(c, e) ==
    IF link'[e.client] = "closed" THEN Replies(c, "unavailable")
    ELSE call' = [call EXCEPT ![c] = [e EXCEPT !.step = "run"]] /\ UNCHANGED reply

Consume(c, a) ==
    /\ approvals[a] > 0
    /\ approvals' = [approvals EXCEPT ![a] = @ - 1]
    /\ consumed' = [consumed EXCEPT ![c] = TRUE]

(* The third refusal is consume_matching raising because another process   *)
(* changed the approval file.                                              *)
Executes(c, e) ==
    LET a == <<e.resource, peer'[e.client]>> IN
    \/ /\ \/ ~SameIdentity(e) /\ Replies(c, "authorization")
          \/ SameIdentity(e) /\ e.left < Budget /\ Replies(c, "timeout")
          \/ SameIdentity(e) /\ e.left >= Budget /\ Replies(c, "internal")
          \/ /\ SameIdentity(e) /\ e.left >= Budget /\ approvals[a] = 0
             /\ Replies(c, "authorization")
       /\ UNCHANGED approvalVars
    \/ SameIdentity(e) /\ e.left >= Budget /\ Consume(c, a) /\ Enters(c, e)

(* The lock was released; which of the waiting calls comes first is left   *)
(* open.                                                                   *)
LockAcquired(c) ==
    /\ At(c, "wait")
    /\ LockFree(call[c].lock)
    /\ UNCHANGED <<registryVars, sent>>
    /\ Executes(c, call[c])

-----------------------------------------------------------------------------
(* TargetRegistry.get, under the target's registry lock; a call that waits *)
(* for that lock has not begun.                                            *)

Connecting == \E c \in Calls : At(c, "connect")

(* Nothing awaits between the resolution of the client and a lock that is  *)
(* free and has no waiters: has_matching, the lock, the deadline and the   *)
(* entry belong to the step.  A read needs neither approval nor lock.      *)
Resolved(c, r, k) ==
    \E deadline \in 1..MaxDeadline :
        LET l == LockFor(c, r)
            e == [NewCall EXCEPT !.step = "wait", !.resource = r, !.client = k,
                    !.lock = IF c \in Mutations THEN l ELSE None,
                    !.left = deadline]
        IN
        \/ /\ c \in Reads
           /\ Enters(c, e)
           /\ UNCHANGED approvalVars
        \/ /\ c \in Mutations
           /\ approvals[<<r, peer'[k]>>] = 0
           /\ Replies(c, "authorization")
           /\ UNCHANGED approvalVars
        \/ /\ c \in Mutations
           /\ approvals[<<r, peer'[k]>>] > 0
           /\ IF \E d \in Mutations : call[d].lock = l
              THEN /\ call' = [call EXCEPT ![c] = e]
                   /\ UNCHANGED <<approvalVars, reply>>
              ELSE Executes(c, e)

ResolveExisting(c, r) ==
    /\ At(c, "new")
    /\ ~Connecting /\ Connected
    /\ UNCHANGED <<registryVars, sent>>
    /\ Resolved(c, r, current)

(* Fault: the registry lock is not taken.                                  *)
ConnectUnserialized(c, r) ==
    /\ At(c, "new")
    /\ ~Connected
    /\ current' = 0
    /\ link' = [k \in Clients |-> IF k = current THEN "closed" ELSE link[k]]
    /\ call' = [call EXCEPT ![c].step = "connect", ![c].resource = r]
    /\ UNCHANGED <<peer, approvalVars, sent, reply>>

(* A dead connection is closed and dropped before a new one is made.       *)
ConnectBegins(c, r) ==
    /\ At(c, "new")
    /\ ~Connecting /\ ~Connected
    /\ current' = 0
    /\ link' = [k \in Clients |-> IF k = current THEN "closed" ELSE link[k]]
    /\ call' = [call EXCEPT ![c].step = "connect", ![c].resource = r]
    /\ UNCHANGED <<peer, approvalVars, sent, reply>>

Connects(c, k, i) ==
    /\ At(c, "connect")
    /\ k = Cardinality({n \in Clients : link[n] # "unused"}) + 1
    /\ k \in Clients
    /\ current' = k
    /\ link' = [link EXCEPT ![k] = "open"]
    /\ peer' = [peer EXCEPT ![k] = i]
    /\ Resolved(c, call[c].resource, k)
    /\ UNCHANGED sent

ConnectFails(c) ==
    /\ At(c, "connect")
    /\ Replies(c, "unavailable")
    /\ UNCHANGED <<registryVars, approvalVars, sent>>

-----------------------------------------------------------------------------
(* The adapter.                                                            *)

Sent(c) == sent[c] = call[c].attempt

Dispatch(c) ==
    /\ At(c, "run")
    /\ ~Sent(c)
    /\ link[call[c].client] = "open"
    /\ sent' = [sent EXCEPT ![c] = @ + 1]
    /\ UNCHANGED <<registryVars, approvalVars, call, reply>>

(* The connection is lost while the channel is being opened on it.         *)
DispatchFails(c) ==
    /\ At(c, "run")
    /\ ~Sent(c)
    /\ link[call[c].client] # "open"
    /\ Replies(c, "internal")
    /\ UNCHANGED <<registryVars, approvalVars, sent>>

(* An answer, an oversized result, the readiness of a container that was   *)
(* waited for in vain, or something unusable when the connection was lost  *)
(* after the request.                                                      *)
Answered(c) ==
    /\ At(c, "run")
    /\ Sent(c)
    /\ \/ link[call[c].client] = "open" /\ Replies(c, "ok")
       \/ Replies(c, "upstream")
       \/ Replies(c, "helper timeout")
       \/ link[call[c].client] # "open" /\ Replies(c, "internal")
    /\ UNCHANGED <<registryVars, approvalVars, sent>>

(* A mutating helper times out ambiguously, a reading one plainly, though  *)
(* it may run for a mutation that is made of several.                      *)
AdapterTimesOut(c) ==
    /\ At(c, "run")
    /\ call[c].ran = AdapterBound
    /\ \/ c \in Mutations /\ Replies(c, "ambiguous")
       \/ Replies(c, "helper timeout")
    /\ UNCHANGED <<registryVars, approvalVars, sent>>

(* Fault: a mutation is retried like a read.                               *)
AnythingRetried(c) ==
    /\ At(c, "run") /\ Sent(c)
    /\ \E delay \in 1..MaxDelay :
        IF call[c].attempt < MaxAttempts /\ delay < call[c].left
        THEN /\ call' = [call EXCEPT ![c].step = "sleep", ![c].delay = delay,
                             ![c].ran = 0, ![c].attempt = @ + 1]
             /\ UNCHANGED reply
        ELSE Replies(c, "transient")
    /\ UNCHANGED <<registryVars, approvalVars, sent>>

(* A rate limit or a transient error: only an idempotent read is retried,  *)
(* and only after a delay that ends before the deadline.                   *)
Transient(c) ==
    /\ At(c, "run") /\ Sent(c)
    /\ \E delay \in 1..MaxDelay :
        IF c \in Reads /\ call[c].attempt < MaxAttempts /\ delay < call[c].left
        THEN /\ call' = [call EXCEPT ![c].step = "sleep", ![c].delay = delay,
                                     ![c].ran = 0, ![c].attempt = @ + 1]
             /\ UNCHANGED reply
        ELSE Replies(c, "transient")
    /\ UNCHANGED <<registryVars, approvalVars, sent>>

Wakes(c) ==
    /\ At(c, "sleep")
    /\ call[c].delay = 0
    /\ UNCHANGED <<registryVars, approvalVars, sent>>
    /\ Enters(c, call[c])

-----------------------------------------------------------------------------
(* Deadline, cancellation, time.                                           *)

(* asyncio.timeout cancels the body; an adapter first terminates its       *)
(* remote process, still under the lock.                                   *)
DeadlineOver(c) ==
    /\ call[c].left = 0
    /\ \/ call[c].step \in {"wait", "sleep"} /\ Replies(c, "timeout")
       \/ At(c, "run") /\ Goes(c, "cleanup")
    /\ UNCHANGED <<registryVars, approvalVars, sent>>

(* Fault: a deadline is a deadline, whether the mutation has begun or not. *)
InterruptedPlainly(c) == IF call[c].left > 0 THEN "cancelled" ELSE "timeout"

(* mutation_execution_started decides how a deadline is reported; without  *)
(* one it was the caller who went away.                                    *)
Interrupted(c) ==
    IF call[c].left > 0 THEN "cancelled"
    ELSE IF c \in Mutations THEN "ambiguous" ELSE "timeout"

(* Fault: the cleanup waits for the target to confirm.                     *)
CleanupNeedsConnection(c) ==
    /\ At(c, "cleanup")
    /\ link[call[c].client] = "open"
    /\ Replies(c, Interrupted(c))
    /\ UNCHANGED <<registryVars, approvalVars, sent>>

CleanedUp(c) ==
    /\ At(c, "cleanup")
    /\ Replies(c, Interrupted(c))
    /\ UNCHANGED <<registryVars, approvalVars, sent>>

(* The client went away: CancelledError is raised at the await.            *)
CallerGone(c) ==
    /\ Active(c) /\ ~At(c, "cleanup")
    /\ call[c].left = 0 => At(c, "connect")
    /\ IF At(c, "run") THEN Goes(c, "cleanup") ELSE Replies(c, "cancelled")
    /\ UNCHANGED <<registryVars, approvalVars, sent>>

Timed(c) == call[c].step \in {"wait", "run", "sleep"}

Due(c) ==
    \/ Timed(c) /\ call[c].left = 0
    \/ At(c, "run") /\ call[c].ran = AdapterBound
    \/ At(c, "sleep") /\ call[c].delay = 0
    \/ At(c, "wait") /\ LockFree(call[c].lock)

Tick ==
    /\ \E c \in Calls : Timed(c)
    /\ \A c \in Calls : ~Due(c)
    /\ call' = [c \in Calls |->
         IF ~Timed(c) THEN call[c]
         ELSE [call[c] EXCEPT !.left = @ - 1,
                 !.ran = IF At(c, "run") THEN @ + 1 ELSE @,
                 !.delay = IF At(c, "sleep") THEN @ - 1 ELSE @]]
    /\ UNCHANGED <<registryVars, approvalVars, sent, reply>>

ConnectionLost ==
    /\ Connected
    /\ link' = [link EXCEPT ![current] = "down"]
    /\ UNCHANGED <<current, peer, approvalVars, call, sent, reply>>

Issue(a) ==
    /\ approvals[a] < MaxApprovals
    /\ approvals' = [approvals EXCEPT ![a] = @ + 1]
    /\ UNCHANGED <<registryVars, consumed, call, sent, reply>>

(* An approval expires, or another server process consumes it.             *)
Withdrawn(a) ==
    /\ approvals[a] > 0
    /\ approvals' = [approvals EXCEPT ![a] = @ - 1]
    /\ UNCHANGED <<registryVars, consumed, call, sent, reply>>

-----------------------------------------------------------------------------
ConnectStep(c) ==
    \/ ConnectFails(c)
    \/ \E k \in Clients, i \in HostKeys : Connects(c, k, i)

AdapterStep(c) ==
    \/ Dispatch(c) \/ DispatchFails(c) \/ Answered(c)
    \/ AdapterTimesOut(c) \/ Transient(c)

TimeoutStep(c) == DeadlineOver(c) \/ CleanedUp(c) \/ Wakes(c)

Next ==
    \/ \E c \in Calls :
        \/ \E r \in Resources : ResolveExisting(c, r) \/ ConnectBegins(c, r)
        \/ ConnectStep(c) \/ LockAcquired(c) \/ AdapterStep(c) \/ TimeoutStep(c)
        \/ CallerGone(c)
    \/ Tick
    \/ ConnectionLost
    \/ \E a \in Resources \X HostKeys : Issue(a) \/ Withdrawn(a)

Spec == Init /\ [][Next]_vars

(* Connection attempts are bounded by connect_timeout, cleanup by its own  *)
(* waits, the event loop runs what is ready, and time passes.  No adapter  *)
(* is assumed to answer.                                                   *)
Fairness ==
    /\ \A c \in Calls :
        /\ WF_vars(ConnectStep(c))
        /\ WF_vars(LockAcquired(c))
        /\ WF_vars(TimeoutStep(c))
        /\ WF_vars(AdapterTimesOut(c))
    /\ WF_vars(Tick)

FairSpec == Spec /\ Fairness

-----------------------------------------------------------------------------
(* Properties.                                                             *)

(* Two mutations by one capability of one resource never run at once,      *)
(* though their lock is dropped and made again as calls come and go.       *)
OneMutationPerResource ==
    \A c, d \in Mutations :
        Holds(c) /\ Holds(d) /\ call[c].resource = call[d].resource => c = d

(* An approval lets at most one request reach the target: no retry, lost   *)
(* answer or reconnection sends a second one.                              *)
OneRequestPerApproval ==
    \A c \in Mutations :
        /\ sent[c] <= 1
        /\ sent[c] = 1 => consumed[c]

(* A mutation to which the kernel itself replies TIMEOUT, at its deadline  *)
(* or for want of time to classify the outcome, was never sent and left    *)
(* its approval alone: once it has begun, a deadline is ambiguous          *)
(* (kernel.py:365-381).  Nothing is said of a TIMEOUT that comes from a    *)
(* helper, which a mutation made of several may give after it has acted.   *)
TimeoutMeansUntouched ==
    \A c \in Mutations : reply[c] = "timeout" => sent[c] = 0 /\ ~consumed[c]

(* Every invocation ends, whatever adapters, connections and lock holders  *)
(* do.                                                                     *)
EveryCallEnds == \A c \in Calls : Active(c) ~> At(c, "over")
=============================================================================
