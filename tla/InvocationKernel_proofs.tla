----------------------- MODULE InvocationKernel_proofs -----------------------
(***************************************************************************)
(* Exclusion, approvals and the meaning of a timeout in the kernel, for    *)
(* any calls, resources, identities, connections, deadlines and budgets.   *)
(***************************************************************************)
EXTENDS InvocationKernel, TLAPS

(* Where a mutation stands, what it may have sent, and what it has used.   *)
MutationFits(c) ==
    /\ call[c].attempt = 1 /\ ~At(c, "sleep")
    /\ call[c].step \in {"new", "connect", "over"} => call[c].lock = None
    /\ call[c].step \in {"wait", "run", "cleanup"} => call[c].lock # None
    /\ call[c].step \in {"new", "connect", "wait"} => sent[c] = 0 /\ ~consumed[c]
    /\ call[c].step \in {"run", "cleanup"} => consumed[c]
    /\ sent[c] <= 1 /\ (sent[c] = 1 => consumed[c])
    /\ reply[c] = "timeout" => sent[c] = 0 /\ ~consumed[c]

CallFits(c) ==
    /\ ~At(c, "over") => reply[c] = "none" /\ sent[c] <= call[c].attempt
    /\ call[c].step \in {"new", "connect"} => sent[c] = 0
    /\ c \in Mutations => MutationFits(c)

(* The calls that refer to a lock of one resource refer to the same lock.  *)
LocksShared ==
    \A c, d \in Mutations :
        /\ call[c].resource = call[d].resource
        /\ call[c].lock # None /\ call[d].lock # None
        => call[c].lock = call[d].lock

(* A call after which a lock is named will not make another one.           *)
LocksNamed ==
    \A c, d \in Mutations : call[c].lock = d => call[d].step \notin {"new", "connect"}

LocksExclude ==
    \A c, d \in Mutations : Holds(c) /\ Holds(d) /\ call[c].lock = call[d].lock => c = d

(* While a call connects the registry has no client.                       *)
OneConnects ==
    \A c \in Calls : At(c, "connect") =>
        /\ current = 0
        /\ call[c].resource \in Resources
        /\ \A d \in Calls : At(d, "connect") => c = d

IInv ==
    /\ TypeOK
    /\ \A c \in Calls : CallFits(c)
    /\ LocksShared
    /\ LocksNamed
    /\ LocksExclude
    /\ OneConnects
-----------------------------------------------------------------------------
(* Numbers, records, and the cases of a step.                              *)

(* The bounds are natural numbers.                                           *)
LEMMA Numbers ==
    /\ MaxClients \in Nat /\ MaxApprovals \in Nat
    /\ MaxDeadline \in Nat /\ Budget \in Nat
    /\ AdapterBound \in Nat /\ AdapterBound > 0
    /\ MaxDelay \in Nat /\ MaxAttempts \in Nat /\ MaxAttempts > 0
BY KernelAssumption

Steps == {"new", "connect", "wait", "run", "sleep", "cleanup", "over"}

Outcomes == {"none", "ok", "authorization", "unavailable", "timeout", "helper timeout",
             "ambiguous", "upstream", "transient", "internal", "cancelled"}

(* A record with these fields is the record of a call.                       *)
LEMMA CallRecord ==
    ASSUME NEW a \in Steps, NEW r \in Resources \cup {None}, NEW k \in Clients \cup {0},
           NEW l \in Calls \cup {None}, NEW n \in 0 .. MaxDeadline,
           NEW t \in 0 .. AdapterBound, NEW w \in 0 .. MaxDelay, NEW i \in 1 .. MaxAttempts
    PROVE  [step |-> a, resource |-> r, client |-> k, lock |-> l, left |-> n, ran |-> t,
            delay |-> w, attempt |-> i] \in Call
BY Zenon DEF Call, Steps

(* The fields of a call record have their types.                             *)
LEMMA CallFields ==
    ASSUME NEW x \in Call
    PROVE  /\ x.step \in Steps /\ x.resource \in Resources \cup {None}
           /\ x.client \in Clients \cup {0} /\ x.lock \in Calls \cup {None}
           /\ x.left \in 0 .. MaxDeadline /\ x.ran \in 0 .. AdapterBound
           /\ x.delay \in 0 .. MaxDelay /\ x.attempt \in 1 .. MaxAttempts
           /\ x = [step |-> x.step, resource |-> x.resource, client |-> x.client,
                   lock |-> x.lock, left |-> x.left, ran |-> x.ran,
                   delay |-> x.delay, attempt |-> x.attempt]
BY DEF Call, Steps

(* An invocation that is over, and one that has resolved its client.       *)
OverCall == [NewCall EXCEPT !.step = "over"]

Waiting(c, r, k, l, deadline) ==
    [NewCall EXCEPT !.step = "wait", !.resource = r, !.client = k,
        !.lock = IF c \in Mutations THEN l ELSE None,
        !.left = deadline]

(* The record of a call that is over.                                        *)
LEMMA OverRecord ==
    /\ OverCall \in Call
    /\ OverCall.step = "over" /\ OverCall.lock = None /\ OverCall.resource = None
    /\ OverCall.attempt = 1
<1>1. OverCall = [step |-> "over", resource |-> None, client |-> 0, lock |-> None,
                  left |-> 0, ran |-> 0, delay |-> 0, attempt |-> 1]
  BY DEF OverCall, NewCall
<1>2. /\ 0 \in 0 .. AdapterBound /\ 0 \in 0 .. MaxDelay
      /\ 1 \in 1 .. MaxAttempts /\ 0 \in 0 .. MaxDeadline
  BY Numbers
<1>3. "over" \in Steps
  BY DEF Steps
<1>4. OverCall \in Call
  BY <1>1, <1>2, <1>3, CallRecord
<1> QED
  BY <1>1, <1>4

(* The record of a call that has got a client and waits for its lock.        *)
LEMMA WaitingRecord ==
    ASSUME NEW c \in Calls, NEW r \in Resources, NEW k \in Clients \cup {0},
           NEW l \in Calls, NEW deadline \in 1 .. MaxDeadline
    PROVE  /\ Waiting(c, r, k, l, deadline) \in Call
           /\ Waiting(c, r, k, l, deadline).step = "wait"
           /\ Waiting(c, r, k, l, deadline).resource = r
           /\ Waiting(c, r, k, l, deadline).lock = IF c \in Mutations THEN l ELSE None
           /\ Waiting(c, r, k, l, deadline).attempt = 1
<1> DEFINE m == IF c \in Mutations THEN l ELSE None
           W == Waiting(c, r, k, l, deadline)
<1>1. W = [NewCall EXCEPT !.step = "wait", !.resource = r, !.client = k, !.lock = m,
               !.left = deadline]
  BY Zenon DEF Waiting
<1>2. /\ 0 \in 0 .. AdapterBound /\ 0 \in 0 .. MaxDelay
      /\ 1 \in 1 .. MaxAttempts /\ deadline \in 0 .. MaxDeadline
  BY Numbers
<1>3. "wait" \in Steps /\ m \in Calls \cup {None}
  BY DEF Steps
<1>4. m = IF c \in Mutations THEN l ELSE None
  OBVIOUS
<1> HIDE DEF m, W
<1>5. W = [step |-> "wait", resource |-> r, client |-> k, lock |-> m,
           left |-> deadline, ran |-> 0, delay |-> 0, attempt |-> 1]
  BY <1>1, <1>3 DEF NewCall
<1>6. W \in Call
  BY <1>2, <1>3, <1>5, CallRecord
<1>7. W.step = "wait" /\ W.resource = r /\ W.lock = m /\ W.attempt = 1
  BY <1>5
<1> QED
  BY <1>4, <1>6, <1>7, Zenon DEF W

(* Entering the adapter changes only the step of the record.                 *)
LEMMA RunningRecord ==
    ASSUME NEW e \in Call
    PROVE  /\ [e EXCEPT !.step = "run"] \in Call
           /\ [e EXCEPT !.step = "run"].step = "run"
           /\ [e EXCEPT !.step = "run"].resource = e.resource
           /\ [e EXCEPT !.step = "run"].lock = e.lock
           /\ [e EXCEPT !.step = "run"].attempt = e.attempt
BY DEF Call

(* The call c does something; the rest is time and the surroundings.       *)
Does(c) ==
    \/ \E r \in Resources : ResolveExisting(c, r) \/ ConnectBegins(c, r)
    \/ ConnectStep(c) \/ LockAcquired(c) \/ AdapterStep(c) \/ TimeoutStep(c)
    \/ CallerGone(c)

Around == ConnectionLost \/ \E a \in Resources \X HostKeys : Issue(a) \/ Withdrawn(a)

(* A step is that of a call, of the clock, or of the surroundings.           *)
LEMMA Cases == ASSUME Next PROVE (\E c \in Calls : Does(c)) \/ Tick \/ Around
BY DEF Next, Does, Around

-----------------------------------------------------------------------------
(* What a call's step does to the call.                                    *)

Early == {"new", "connect", "wait"}

(* It is over; only a call that has not been executed may have used its    *)
(* approval by that, and then it says that it was unavailable.             *)
Ends(c) ==
    /\ \E o \in Outcomes :
        /\ Replies(c, o)
        /\ \/ consumed' = consumed
           \/ /\ consumed' = [consumed EXCEPT ![c] = TRUE]
              /\ call[c].step \in Early /\ o = "unavailable"
        /\ c \in Mutations /\ o = "timeout" => call[c].step \in Early
    /\ ~At(c, "over")
    /\ sent' = sent

Begins(c) ==
    /\ At(c, "new")
    /\ ~Connecting /\ current' = 0
    /\ \E r \in Resources :
          call' = [call EXCEPT ![c].step = "connect", ![c].resource = r]
    /\ UNCHANGED <<sent, consumed, reply>>

(* It waits for a lock that somebody refers to.                            *)
Waits(c) ==
    /\ c \in Mutations
    /\ call[c].step \in {"new", "connect"}
    /\ \E r \in Resources, k \in Clients \cup {0}, deadline \in 1 .. MaxDeadline :
        /\ \E d \in Mutations : call[d].lock = LockFor(c, r)
        /\ call' = [call EXCEPT ![c] = Waiting(c, r, k, LockFor(c, r), deadline)]
    /\ UNCHANGED <<sent, consumed, reply>>

Consumes(c) == consumed' = [consumed EXCEPT ![c] = TRUE] /\ UNCHANGED <<sent, reply>>

(* It gets a lock nobody referred to.                                      *)
StartsAtOnce(c) ==
    /\ c \in Mutations
    /\ call[c].step \in {"new", "connect"}
    /\ \E r \in Resources, k \in Clients \cup {0}, deadline \in 1 .. MaxDeadline :
        /\ ~ \E d \in Mutations : call[d].lock = LockFor(c, r)
        /\ call' = [call EXCEPT ![c] =
                      [Waiting(c, r, k, LockFor(c, r), deadline) EXCEPT !.step = "run"]]
    /\ Consumes(c)

StartsAfterWait(c) ==
    /\ At(c, "wait")
    /\ LockFree(call[c].lock)
    /\ call' = [call EXCEPT ![c] = [call[c] EXCEPT !.step = "run"]]
    /\ Consumes(c)

(* A read, which needs no lock.                                            *)
StartsReading(c) ==
    /\ c \in Reads
    /\ call[c].step \in {"new", "connect"}
    /\ \E r \in Resources, k \in Clients \cup {0}, l \in Calls, deadline \in 1 .. MaxDeadline :
          call' = [call EXCEPT ![c] =
                      [Waiting(c, r, k, l, deadline) EXCEPT !.step = "run"]]
    /\ UNCHANGED <<sent, consumed, reply>>

Sleeps(c) ==
    /\ c \in Reads
    /\ At(c, "run")
    /\ call[c].attempt < MaxAttempts
    /\ \E delay \in 1 .. MaxDelay :
          call' = [call EXCEPT ![c].step = "sleep", ![c].delay = delay,
                               ![c].ran = 0, ![c].attempt = @ + 1]
    /\ UNCHANGED <<sent, consumed, reply>>

(* The other changes of a step alone.                                      *)
GoesOn(c) ==
    /\ \/ At(c, "run") /\ call' = [call EXCEPT ![c].step = "cleanup"]
       \/ At(c, "sleep") /\ call' = [call EXCEPT ![c] = [call[c] EXCEPT !.step = "run"]]
    /\ UNCHANGED <<sent, consumed, reply>>

Sends(c) ==
    /\ At(c, "run")
    /\ sent[c] # call[c].attempt
    /\ sent' = [sent EXCEPT ![c] = @ + 1]
    /\ UNCHANGED <<call, consumed, reply>>

Moves(c) ==
    \/ Ends(c) \/ Begins(c) \/ Waits(c) \/ StartsAtOnce(c) \/ StartsAfterWait(c)
    \/ StartsReading(c) \/ Sleeps(c) \/ GoesOn(c) \/ Sends(c)

(* execute_once_locked.                                                    *)
LEMMA ExecutesDoes ==
    ASSUME NEW c \in Calls, NEW e, Executes(c, e), call[c].step \in Early, sent' = sent
    PROVE  \/ Ends(c)
           \/ Consumes(c) /\ call' = [call EXCEPT ![c] = [e EXCEPT !.step = "run"]]
<1>1. ~At(c, "over")
  BY DEF At, Early
<1>2. {"authorization", "timeout", "internal", "unavailable"} \subseteq Outcomes
  BY DEF Outcomes
<1>3. ASSUME NEW o \in {"authorization", "timeout", "internal"}, Replies(c, o),
             UNCHANGED approvalVars
      PROVE  Ends(c)
  BY <1>1, <1>2, <1>3 DEF Ends, approvalVars
<1>4. ASSUME NEW a, Consume(c, a), Enters(c, e)
      PROVE  \/ Ends(c)
             \/ Consumes(c) /\ call' = [call EXCEPT ![c] = [e EXCEPT !.step = "run"]]
  <2>1. consumed' = [consumed EXCEPT ![c] = TRUE]
    BY <1>4 DEF Consume
  <2>2. CASE Replies(c, "unavailable")
    BY <1>1, <1>2, <2>1, <2>2 DEF Ends
  <2>3. CASE call' = [call EXCEPT ![c] = [e EXCEPT !.step = "run"]] /\ UNCHANGED reply
    BY <2>1, <2>3 DEF Consumes
  <2> QED
    BY <1>4, <2>2, <2>3 DEF Enters
<1> QED
  BY <1>3, <1>4 DEF Executes

(* LockFor is the lock of a living call of the resource, or the caller itself. *)
LEMMA LockForIs ==
    ASSUME NEW c \in Calls, NEW r \in Resources, TypeOK
    PROVE  LockFor(c, r) \in Calls
<1> DEFINE live == {call[d].lock : d \in {d \in Mutations :
                       call[d].resource = r /\ call[d].lock # None}}
<1>1. LockFor(c, r) = IF live = {} THEN c ELSE CHOOSE l \in live : TRUE
  BY DEF LockFor
<1>2. ASSUME NEW l \in live PROVE l \in Calls
  BY CallFields DEF TypeOK, Calls
<1> HIDE DEF live
<1>3. live # {} => (CHOOSE l \in live : TRUE) \in live
  OBVIOUS
<1> QED
  BY <1>1, <1>2, <1>3

(* What a call that has its client does next is one of the moves.            *)
LEMMA ResolvedDoes ==
    ASSUME TypeOK, NEW c \in Calls, NEW r \in Resources, NEW k \in Clients \cup {0},
           call[c].step \in {"new", "connect"}, sent' = sent, Resolved(c, r, k)
    PROVE  Moves(c)
<1> DEFINE l == LockFor(c, r)
<1>0. PICK deadline \in 1 .. MaxDeadline :
        LET e == Waiting(c, r, k, l, deadline) IN
        \/ c \in Reads /\ Enters(c, e) /\ UNCHANGED approvalVars
        \/ c \in Mutations /\ Replies(c, "authorization") /\ UNCHANGED approvalVars
        \/ /\ c \in Mutations
           /\ IF \E d \in Mutations : call[d].lock = l
              THEN call' = [call EXCEPT ![c] = e] /\ UNCHANGED <<approvalVars, reply>>
              ELSE Executes(c, e)
  BY Zenon DEF Resolved, Waiting
<1> DEFINE e == Waiting(c, r, k, l, deadline)
<1>1. /\ call[c].step \in Early /\ ~At(c, "over")
      /\ {"authorization", "unavailable"} \subseteq Outcomes
      /\ l \in Calls
  BY LockForIs DEF Early, At, Outcomes
<1>2. CASE c \in Reads /\ Enters(c, e) /\ UNCHANGED approvalVars
  <2>1. CASE Replies(c, "unavailable")
    BY <1>1, <1>2, <2>1 DEF Moves, Ends, approvalVars
  <2>2. CASE call' = [call EXCEPT ![c] = [e EXCEPT !.step = "run"]] /\ UNCHANGED reply
    <3>1. StartsReading(c)
      BY <1>1, <1>2, <2>2 DEF StartsReading, approvalVars
    <3> QED
      BY <3>1 DEF Moves
  <2> QED
    BY <1>2, <2>1, <2>2 DEF Enters
<1>3. CASE c \in Mutations /\ Replies(c, "authorization") /\ UNCHANGED approvalVars
  BY <1>1, <1>3 DEF Moves, Ends, approvalVars
<1>4. CASE /\ c \in Mutations
           /\ \E d \in Mutations : call[d].lock = l
           /\ call' = [call EXCEPT ![c] = e]
           /\ UNCHANGED <<approvalVars, reply>>
  <2>1. Waits(c)
    BY <1>1, <1>4 DEF Waits, approvalVars
  <2> QED
    BY <2>1 DEF Moves
<1>5. CASE c \in Mutations /\ (~ \E d \in Mutations : call[d].lock = l) /\ Executes(c, e)
  <2>1. CASE Ends(c)
    BY <2>1 DEF Moves
  <2>2. CASE Consumes(c) /\ call' = [call EXCEPT ![c] = [e EXCEPT !.step = "run"]]
    <3>1. StartsAtOnce(c)
      BY <1>1, <1>5, <2>2 DEF StartsAtOnce
    <3> QED
      BY <3>1 DEF Moves
  <2> QED
    BY <1>1, <1>5, <2>1, <2>2, ExecutesDoes
<1> QED
  BY <1>0, <1>2, <1>3, <1>4, <1>5

(* Every step of a call is one of the nine moves.                            *)
LEMMA DoesMoves ==
    ASSUME TypeOK, NEW c \in Calls, CallFits(c), OneConnects, Does(c)
    PROVE  Moves(c)
<1>0. /\ {"ok", "unavailable", "timeout", "helper timeout", "ambiguous",
          "upstream", "transient", "internal", "cancelled"} \subseteq Outcomes
      /\ Mutations \cap Reads = {} /\ Calls = Mutations \cup Reads
  BY KernelAssumption DEF Outcomes, Calls
<1>1. ASSUME NEW r \in Resources, ResolveExisting(c, r)
      PROVE  Moves(c)
  <2>1. current \in Clients \cup {0} /\ call[c].step \in {"new", "connect"}
    BY <1>1 DEF TypeOK, ResolveExisting, At
  <2>2. sent' = sent /\ Resolved(c, r, current)
    BY <1>1 DEF ResolveExisting
  <2> QED
    BY <2>1, <2>2, ResolvedDoes
<1>2. ASSUME NEW r \in Resources, ConnectBegins(c, r)
      PROVE  Moves(c)
  <2>1. Begins(c)
    BY <1>2 DEF ConnectBegins, Begins, approvalVars
  <2> QED
    BY <2>1 DEF Moves
<1>3. CASE ConnectStep(c)
  <2>1. CASE ConnectFails(c)
    BY <1>0, <2>1 DEF ConnectFails, approvalVars, Moves, Ends, At
  <2>2. ASSUME NEW k \in Clients, NEW i \in HostKeys, Connects(c, k, i)
        PROVE  Moves(c)
    <3>1. call[c].resource \in Resources /\ call[c].step \in {"new", "connect"}
      BY <2>2 DEF Connects, OneConnects, At
    <3>2. sent' = sent /\ Resolved(c, call[c].resource, k)
      BY <2>2 DEF Connects
    <3> QED
      BY <3>1, <3>2, ResolvedDoes
  <2> QED
    BY <1>3, <2>1, <2>2 DEF ConnectStep
<1>4. CASE LockAcquired(c)
  <2>1. call[c].step \in Early /\ sent' = sent /\ Executes(c, call[c])
    BY <1>4 DEF LockAcquired, Early, At
  <2>2. CASE Ends(c)
    BY <2>2 DEF Moves
  <2>3. CASE Consumes(c) /\ call' = [call EXCEPT ![c] = [call[c] EXCEPT !.step = "run"]]
    <3>1. StartsAfterWait(c)
      BY <1>4, <2>3 DEF StartsAfterWait, LockAcquired
    <3> QED
      BY <3>1 DEF Moves
  <2> QED
    BY <2>1, <2>2, <2>3, ExecutesDoes
<1>5. CASE AdapterStep(c)
  <2>1. CASE Dispatch(c)
    <3>1. Sends(c)
      BY <2>1 DEF Dispatch, Sends, Sent, approvalVars
    <3> QED
      BY <3>1 DEF Moves
  <2>2. CASE DispatchFails(c)
    BY <1>0, <2>2 DEF DispatchFails, approvalVars, Moves, Ends, At
  <2>3. CASE Answered(c)
    BY <1>0, <2>3 DEF Answered, approvalVars, Moves, Ends, At
  <2>4. CASE AdapterTimesOut(c)
    <3>1. PICK o \in {"ambiguous", "helper timeout"} : Replies(c, o)
      BY <2>4 DEF AdapterTimesOut
    <3>2. At(c, "run") /\ consumed' = consumed /\ sent' = sent
      BY <2>4 DEF AdapterTimesOut, approvalVars
    <3>3. Ends(c)
      BY <1>0, <3>1, <3>2 DEF Ends, At
    <3> QED
      BY <3>3 DEF Moves
  <2>5. CASE Transient(c)
    <3>1. PICK delay \in 1 .. MaxDelay :
            IF c \in Reads /\ call[c].attempt < MaxAttempts /\ delay < call[c].left
            THEN /\ call' = [call EXCEPT ![c].step = "sleep", ![c].delay = delay,
                                         ![c].ran = 0, ![c].attempt = @ + 1]
                 /\ UNCHANGED reply
            ELSE Replies(c, "transient")
      BY <2>5 DEF Transient
    <3>2. At(c, "run") /\ consumed' = consumed /\ sent' = sent
      BY <2>5 DEF Transient, approvalVars
    <3>3. CASE Replies(c, "transient")
      BY <1>0, <3>2, <3>3 DEF Moves, Ends, At
    <3>4. CASE /\ c \in Reads /\ call[c].attempt < MaxAttempts
               /\ call' = [call EXCEPT ![c].step = "sleep", ![c].delay = delay,
                                       ![c].ran = 0, ![c].attempt = @ + 1]
               /\ UNCHANGED reply
      <4>1. Sleeps(c)
        BY <3>2, <3>4 DEF Sleeps
      <4> QED
        BY <4>1 DEF Moves
    <3> QED
      BY <3>1, <3>3, <3>4
  <2> QED
    BY <1>5, <2>1, <2>2, <2>3, <2>4, <2>5 DEF AdapterStep
<1>6. CASE TimeoutStep(c)
  <2>1. CASE DeadlineOver(c)
    <3>1. consumed' = consumed /\ sent' = sent
      BY <2>1 DEF DeadlineOver, approvalVars
    <3>2. CASE call[c].step \in {"wait", "sleep"} /\ Replies(c, "timeout")
      <4>1. c \in Mutations => call[c].step \in Early
        BY <3>2 DEF CallFits, MutationFits, At, Early
      <4>2. Ends(c)
        BY <1>0, <3>1, <3>2, <4>1 DEF Ends, At
      <4> QED
        BY <4>2 DEF Moves
    <3>3. CASE At(c, "run") /\ Goes(c, "cleanup")
      <4>1. GoesOn(c)
        BY <3>1, <3>3 DEF GoesOn, Goes
      <4> QED
        BY <4>1 DEF Moves
    <3> QED
      BY <2>1, <3>2, <3>3 DEF DeadlineOver
  <2>2. CASE CleanedUp(c)
    <3>1. Interrupted(c) \in Outcomes /\ (c \in Mutations => Interrupted(c) # "timeout")
      BY <1>0 DEF Interrupted
    <3>2. Ends(c)
      BY <2>2, <3>1 DEF CleanedUp, approvalVars, Ends, At
    <3> QED
      BY <3>2 DEF Moves
  <2>3. CASE Wakes(c)
    <3>1. At(c, "sleep") /\ consumed' = consumed /\ sent' = sent
      BY <2>3 DEF Wakes, approvalVars
    <3>2. CASE Replies(c, "unavailable")
      BY <1>0, <3>1, <3>2 DEF Moves, Ends, At
    <3>3. CASE call' = [call EXCEPT ![c] = [call[c] EXCEPT !.step = "run"]] /\ UNCHANGED reply
      <4>1. GoesOn(c)
        BY <3>1, <3>3 DEF GoesOn
      <4> QED
        BY <4>1 DEF Moves
    <3> QED
      BY <2>3, <3>2, <3>3 DEF Wakes, Enters
  <2> QED
    BY <1>6, <2>1, <2>2, <2>3 DEF TimeoutStep
<1>7. CASE CallerGone(c)
  <2>1. consumed' = consumed /\ sent' = sent /\ ~At(c, "over")
    BY <1>7 DEF CallerGone, approvalVars, Active
  <2>2. CASE At(c, "run") /\ Goes(c, "cleanup")
    <3>1. GoesOn(c)
      BY <2>1, <2>2 DEF GoesOn, Goes
    <3> QED
      BY <3>1 DEF Moves
  <2>3. CASE Replies(c, "cancelled")
    BY <1>0, <2>1, <2>3 DEF Moves, Ends
  <2> QED
    BY <1>7, <2>2, <2>3 DEF CallerGone
<1> QED
  BY <1>1, <1>2, <1>3, <1>4, <1>5, <1>6, <1>7 DEF Does
-----------------------------------------------------------------------------
(* What the moves of a call keep.                                          *)

(* The record after an end.                                                  *)
LEMMA EndsRecord ==
    ASSUME TypeOK, NEW c \in Calls, Ends(c)
    PROVE  call' = [call EXCEPT ![c] = OverCall] /\ call'[c] = OverCall
BY DEF Ends, Replies, OverCall, TypeOK

(* The record after a connection attempt has begun.                          *)
LEMMA BeginsRecord ==
    ASSUME TypeOK, NEW c \in Calls, Begins(c)
    PROVE  /\ call' \in [Calls -> Call]
           /\ call'[c].step = "connect" /\ call'[c].resource \in Resources
           /\ call'[c].lock = call[c].lock /\ call'[c].attempt = call[c].attempt
<1>1. PICK r \in Resources :
        call' = [call EXCEPT ![c].step = "connect", ![c].resource = r]
  BY DEF Begins
<1>2. call[c] \in Call /\ call \in [Calls -> Call]
  BY DEF TypeOK
<1>3. call'[c].step = "connect" /\ call'[c].resource = r
      /\ call'[c].lock = call[c].lock /\ call'[c].attempt = call[c].attempt
  BY <1>1, <1>2 DEF Call
<1>4. call'[c] = [step |-> "connect", resource |-> r, client |-> call[c].client,
                  lock |-> call[c].lock, left |-> call[c].left, ran |-> call[c].ran,
                  delay |-> call[c].delay, attempt |-> call[c].attempt]
  BY <1>1, <1>2 DEF Call
<1>5. call'[c] \in Call
  <2>1. /\ call[c].client \in Clients \cup {0} /\ call[c].lock \in Calls \cup {None}
        /\ call[c].left \in 0 .. MaxDeadline /\ call[c].ran \in 0 .. AdapterBound
        /\ call[c].delay \in 0 .. MaxDelay /\ call[c].attempt \in 1 .. MaxAttempts
    BY <1>2, CallFields
  <2>2. "connect" \in Steps /\ r \in Resources \cup {None}
    BY DEF Steps
  <2>3. ASSUME NEW k \in Clients \cup {0}, NEW l \in Calls \cup {None},
               NEW n \in 0 .. MaxDeadline, NEW t \in 0 .. AdapterBound,
               NEW w \in 0 .. MaxDelay, NEW i \in 1 .. MaxAttempts
        PROVE  [step |-> "connect", resource |-> r, client |-> k, lock |-> l, left |-> n,
                ran |-> t, delay |-> w, attempt |-> i] \in Call
    BY <2>2, CallRecord
  <2> QED
    BY <1>4, <2>1, <2>3
<1>6. call' \in [Calls -> Call]
  BY <1>1, <1>2, <1>5
<1> QED
  BY <1>3, <1>6

(* The record after falling asleep between two attempts.                     *)
LEMMA SleepsRecord ==
    ASSUME TypeOK, NEW c \in Calls, Sleeps(c)
    PROVE  /\ call' \in [Calls -> Call]
           /\ call'[c].step = "sleep" /\ call'[c].attempt = call[c].attempt + 1
<1>1. PICK delay \in 1 .. MaxDelay :
        call' = [call EXCEPT ![c].step = "sleep", ![c].delay = delay,
                             ![c].ran = 0, ![c].attempt = @ + 1]
  BY DEF Sleeps
<1>2. call[c] \in Call /\ call \in [Calls -> Call] /\ call[c].attempt < MaxAttempts
  BY DEF TypeOK, Sleeps
<1>3. call'[c].step = "sleep" /\ call'[c].attempt = call[c].attempt + 1
  BY <1>1, <1>2 DEF Call
<1>4. call' \in [Calls -> Call]
  BY <1>1, <1>2, Numbers DEF Call
<1> QED
  BY <1>3, <1>4

(* The record after a clean-up or a nap.                                     *)
LEMMA GoesOnRecord ==
    ASSUME TypeOK, NEW c \in Calls, GoesOn(c)
    PROVE  /\ call' \in [Calls -> Call]
           /\ \/ call[c].step = "run" /\ call'[c].step = "cleanup"
              \/ call[c].step = "sleep" /\ call'[c].step = "run"
           /\ call'[c].resource = call[c].resource
           /\ call'[c].lock = call[c].lock /\ call'[c].attempt = call[c].attempt
<1>1. call[c] \in Call /\ call \in [Calls -> Call]
  BY DEF TypeOK
<1>2. CASE At(c, "run") /\ call' = [call EXCEPT ![c].step = "cleanup"]
  <2>1. [call[c] EXCEPT !.step = "cleanup"] \in Call
    BY <1>1 DEF Call
  <2> QED
    BY <1>1, <1>2, <2>1 DEF Call, At
<1>3. CASE At(c, "sleep") /\ call' = [call EXCEPT ![c] = [call[c] EXCEPT !.step = "run"]]
  BY <1>1, <1>3, RunningRecord DEF At
<1> QED
  BY <1>2, <1>3 DEF GoesOn

(* A call that begins to run, with the record it runs with.                *)
Runs(c, e) ==
    /\ e \in Call
    /\ call' = [call EXCEPT ![c] = [e EXCEPT !.step = "run"]]

(* The record of a call that begins to run.                                  *)
LEMMA RunsRecord ==
    ASSUME TypeOK, NEW c \in Calls, NEW e, Runs(c, e)
    PROVE  /\ call' \in [Calls -> Call]
           /\ call'[c].step = "run" /\ call'[c].resource = e.resource
           /\ call'[c].lock = e.lock /\ call'[c].attempt = e.attempt
<1>1. e \in Call /\ call' = [call EXCEPT ![c] = [e EXCEPT !.step = "run"]]
  BY DEF Runs
<1> QED
  BY <1>1, RunningRecord DEF TypeOK

(* The record of a call whose lock is free.                                  *)
LEMMA StartsRecord ==
    ASSUME TypeOK, NEW c \in Calls, StartsAtOnce(c)
    PROVE  /\ call' \in [Calls -> Call]
           /\ call'[c].step = "run" /\ call'[c].attempt = 1
           /\ \E r \in Resources :
                /\ call'[c].resource = r /\ call'[c].lock = LockFor(c, r)
                /\ ~ \E d \in Mutations : call[d].lock = LockFor(c, r)
<1>1. PICK r \in Resources, k \in Clients \cup {0}, deadline \in 1 .. MaxDeadline :
        /\ ~ \E d \in Mutations : call[d].lock = LockFor(c, r)
        /\ call' = [call EXCEPT ![c] =
                      [Waiting(c, r, k, LockFor(c, r), deadline) EXCEPT !.step = "run"]]
  BY DEF StartsAtOnce
<1> DEFINE e == Waiting(c, r, k, LockFor(c, r), deadline)
<1>2. e \in Call /\ e.resource = r /\ e.lock = LockFor(c, r) /\ e.attempt = 1
  <2> DEFINE l == LockFor(c, r)
             w == Waiting(c, r, k, l, deadline)
  <2>1. l \in Calls /\ c \in Mutations
    BY LockForIs DEF StartsAtOnce
  <2> HIDE DEF l
  <2>2. /\ w \in Call /\ w.step = "wait" /\ w.resource = r /\ w.attempt = 1
        /\ w.lock = IF c \in Mutations THEN l ELSE None
    BY <2>1, WaitingRecord
  <2>3. e = w
    BY DEF l
  <2> HIDE DEF w, e
  <2>4. e \in Call /\ e.step = "wait" /\ e.resource = r /\ e.attempt = 1 /\ e.lock = l
    BY <2>1, <2>2, <2>3
  <2> QED
    BY <2>4 DEF l
<1> HIDE DEF e
<1>3. Runs(c, e)
  BY <1>1, <1>2 DEF Runs, e
<1> QED
  BY <1>1, <1>2, <1>3, RunsRecord

(* The record of a call that finds its lock taken.                           *)
LEMMA WaitsRecord ==
    ASSUME TypeOK, NEW c \in Calls, Waits(c)
    PROVE  /\ call' \in [Calls -> Call]
           /\ call'[c].step = "wait" /\ call'[c].attempt = 1
           /\ \E r \in Resources :
                /\ call'[c].resource = r /\ call'[c].lock = LockFor(c, r)
<1>1. PICK r \in Resources, k \in Clients \cup {0}, deadline \in 1 .. MaxDeadline :
        call' = [call EXCEPT ![c] = Waiting(c, r, k, LockFor(c, r), deadline)]
  BY DEF Waits
<1> DEFINE e == Waiting(c, r, k, LockFor(c, r), deadline)
<1>2. /\ e \in Call /\ e.resource = r /\ e.lock = LockFor(c, r) /\ e.attempt = 1
      /\ e.step = "wait"
  <2> DEFINE l == LockFor(c, r)
             w == Waiting(c, r, k, l, deadline)
  <2>1. l \in Calls /\ c \in Mutations
    BY LockForIs DEF Waits
  <2> HIDE DEF l
  <2>2. /\ w \in Call /\ w.step = "wait" /\ w.resource = r /\ w.attempt = 1
        /\ w.lock = IF c \in Mutations THEN l ELSE None
    BY <2>1, WaitingRecord
  <2>3. e = w
    BY DEF l
  <2> HIDE DEF w, e
  <2>4. e \in Call /\ e.step = "wait" /\ e.resource = r /\ e.attempt = 1 /\ e.lock = l
    BY <2>1, <2>2, <2>3
  <2> QED
    BY <2>4 DEF l
<1> HIDE DEF e
<1>3. call' = [call EXCEPT ![c] = e] /\ call \in [Calls -> Call]
  BY <1>1 DEF e, TypeOK
<1> QED
  BY <1>2, <1>3

(* The record of a read that begins to run.                                  *)
LEMMA ReadingRecord ==
    ASSUME TypeOK, NEW c \in Calls, StartsReading(c)
    PROVE  call' \in [Calls -> Call] /\ call'[c].step = "run" /\ call'[c].attempt = 1
<1>1. PICK r \in Resources, k \in Clients \cup {0}, l \in Calls, deadline \in 1 .. MaxDeadline :
          call' = [call EXCEPT ![c] =
                      [Waiting(c, r, k, l, deadline) EXCEPT !.step = "run"]]
  BY DEF StartsReading
<1> DEFINE e == Waiting(c, r, k, l, deadline)
<1>2. e \in Call /\ e.attempt = 1
  BY WaitingRecord
<1> HIDE DEF e
<1>3. Runs(c, e)
  BY <1>1, <1>2 DEF Runs, e
<1> QED
  BY <1>2, <1>3, RunsRecord

(* The record of a call that has got the lock it waited for.                 *)
LEMMA AfterWaitRecord ==
    ASSUME TypeOK, NEW c \in Calls, StartsAfterWait(c)
    PROVE  /\ call' \in [Calls -> Call]
           /\ call'[c].step = "run" /\ call'[c].resource = call[c].resource
           /\ call'[c].lock = call[c].lock /\ call'[c].attempt = call[c].attempt
<1>1. Runs(c, call[c])
  BY DEF Runs, StartsAfterWait, TypeOK
<1> QED
  BY <1>1, RunsRecord

(* Every move keeps the type of the calls.                                   *)
LEMMA CallsTyped ==
    ASSUME TypeOK, NEW c \in Calls, Moves(c)
    PROVE  call' \in [Calls -> Call]
<1>1. Ends(c) => call' \in [Calls -> Call]
  BY EndsRecord, OverRecord DEF TypeOK
<1>2. Sends(c) => call' \in [Calls -> Call]
  BY DEF Sends, TypeOK
<1> QED
  BY <1>1, <1>2, BeginsRecord, SleepsRecord, GoesOnRecord, StartsRecord, WaitsRecord,
     ReadingRecord, AfterWaitRecord DEF Moves

(* A move changes nothing of the other calls.                                *)
LEMMA OthersAlone ==
    ASSUME TypeOK, NEW c \in Calls, Moves(c), NEW d \in Calls, d # c
    PROVE  call'[d] = call[d] /\ sent'[d] = sent[d] /\ consumed'[d] = consumed[d]
           /\ reply'[d] = reply[d]
<1>1. /\ call \in [Calls -> Call] /\ sent \in [Calls -> 0 .. MaxAttempts]
      /\ consumed \in [Calls -> BOOLEAN] /\ reply \in [Calls -> Outcomes]
  BY DEF TypeOK, Outcomes
<1>2. /\ sent' = sent \/ sent' = [sent EXCEPT ![c] = @ + 1]
      /\ consumed' = consumed \/ consumed' = [consumed EXCEPT ![c] = TRUE]
      /\ reply' = reply \/ \E o \in Outcomes : reply' = [reply EXCEPT ![c] = o]
  BY DEF Moves, Ends, Begins, Waits, StartsAtOnce, StartsAfterWait, StartsReading, Sleeps,
         GoesOn, Sends, Consumes, Replies
<1>3. call'[d] = call[d]
  <2>1. CASE Ends(c)
    BY <1>1, <2>1, EndsRecord
  <2>2. CASE Sends(c)
    BY <2>2 DEF Sends
  <2>3. CASE Begins(c) \/ Sleeps(c) \/ GoesOn(c)
    BY <1>1, <2>3 DEF Begins, Sleeps, GoesOn
  <2>4. CASE Waits(c) \/ StartsAtOnce(c) \/ StartsAfterWait(c) \/ StartsReading(c)
    BY <1>1, <2>4 DEF Waits, StartsAtOnce, StartsAfterWait, StartsReading
  <2> QED
    BY <2>1, <2>2, <2>3, <2>4 DEF Moves
<1> QED
  BY <1>1, <1>2, <1>3

(* Every move keeps the types of requests, approvals and replies.            *)
LEMMA HistoryTyped ==
    ASSUME TypeOK, NEW c \in Calls, CallFits(c), Moves(c)
    PROVE  /\ sent' \in [Calls -> 0 .. MaxAttempts]
           /\ consumed' \in [Calls -> BOOLEAN]
           /\ reply' \in [Calls -> Outcomes]
<1>1. /\ sent \in [Calls -> 0 .. MaxAttempts] /\ consumed \in [Calls -> BOOLEAN]
      /\ reply \in [Calls -> Outcomes] /\ call[c] \in Call
  BY DEF TypeOK, Outcomes
<1>2. consumed' = consumed \/ consumed' = [consumed EXCEPT ![c] = TRUE]
  BY DEF Moves, Ends, Begins, Waits, StartsAtOnce, StartsAfterWait, StartsReading, Sleeps,
         GoesOn, Sends, Consumes
<1>3. reply' = reply \/ \E o \in Outcomes : reply' = [reply EXCEPT ![c] = o]
  BY DEF Moves, Ends, Begins, Waits, StartsAtOnce, StartsAfterWait, StartsReading, Sleeps,
         GoesOn, Sends, Consumes, Replies
<1>4. sent' \in [Calls -> 0 .. MaxAttempts]
  <2>1. CASE sent' = sent
    BY <1>1, <2>1
  <2>2. CASE Sends(c)
    <3>1. sent[c] <= call[c].attempt /\ sent[c] # call[c].attempt
      BY <2>2 DEF Sends, CallFits, At
    <3>2. call[c].attempt \in 1 .. MaxAttempts /\ sent[c] \in 0 .. MaxAttempts
      BY <1>1, CallFields
    <3>3. sent[c] + 1 \in 0 .. MaxAttempts
      BY <3>1, <3>2, Numbers
    <3> QED
      BY <1>1, <2>2, <3>3 DEF Sends
  <2> QED
    BY <2>1, <2>2 DEF Moves, Ends, Begins, Waits, StartsAtOnce, StartsAfterWait,
         StartsReading, Sleeps, GoesOn, Consumes
<1>5. consumed' \in [Calls -> BOOLEAN]
  BY <1>1, <1>2
<1>6. reply' \in [Calls -> Outcomes]
  BY <1>1, <1>3
<1> QED
  BY <1>4, <1>5, <1>6

(* The effect of a step on its own call, without functions.                *)
LEMMA OwnHistory ==
    ASSUME TypeOK, NEW c \in Calls
    PROVE  /\ \A o : reply' = [reply EXCEPT ![c] = o] => reply'[c] = o
           /\ consumed' = [consumed EXCEPT ![c] = TRUE] => consumed'[c]
           /\ sent' = [sent EXCEPT ![c] = @ + 1] => sent'[c] = sent[c] + 1
           /\ sent[c] \in Nat /\ consumed[c] \in BOOLEAN /\ call[c] \in Call
           /\ call[c].attempt \in Nat /\ call[c].step \in Steps
<1>1. /\ sent \in [Calls -> 0 .. MaxAttempts] /\ consumed \in [Calls -> BOOLEAN]
      /\ call \in [Calls -> Call] /\ Calls = DOMAIN reply
  BY Zenon DEF TypeOK
<1>2. call[c] \in Call
  BY <1>1
<1>3. call[c].attempt \in Nat /\ call[c].step \in Steps
  BY <1>2, CallFields, Numbers
<1>4. sent[c] \in Nat /\ consumed[c] \in BOOLEAN
  BY <1>1, Numbers
<1>5. /\ \A o : reply' = [reply EXCEPT ![c] = o] => reply'[c] = o
      /\ consumed' = [consumed EXCEPT ![c] = TRUE] => consumed'[c]
      /\ sent' = [sent EXCEPT ![c] = @ + 1] => sent'[c] = sent[c] + 1
  BY <1>1
<1> QED
  BY <1>2, <1>3, <1>4, <1>5

(* Every move keeps step, requests and approval of a call together.          *)
LEMMA FitsKept ==
    ASSUME TypeOK, NEW c \in Calls, CallFits(c), Moves(c)
    PROVE  CallFits(c)'
<1>0. /\ sent[c] \in Nat /\ consumed[c] \in BOOLEAN /\ call[c].attempt \in Nat
      /\ call[c].step \in Steps /\ None \notin Calls
      /\ \A d \in Mutations : d \notin Reads
  BY OwnHistory, KernelAssumption DEF Calls
<1>1. CASE Ends(c)
  <2>1. /\ call'[c].step = "over" /\ call'[c].lock = None /\ call'[c].attempt = 1
        /\ sent' = sent /\ ~At(c, "over")
    BY <1>1, EndsRecord, OverRecord DEF Ends
  <2>2. PICK o \in Outcomes :
          /\ reply'[c] = o
          /\ \/ consumed'[c] = consumed[c]
             \/ consumed'[c] /\ call[c].step \in Early /\ o = "unavailable"
          /\ c \in Mutations /\ o = "timeout" => call[c].step \in Early
    BY <1>1, OwnHistory DEF Ends, Replies
  <2>3. c \in Mutations => MutationFits(c)
    BY DEF CallFits
  <2>4. c \in Mutations => MutationFits(c)'
    BY <1>0, <2>1, <2>2, <2>3 DEF MutationFits, At, Early
  <2> QED
    BY <2>1, <2>4 DEF CallFits, At
<1>2. CASE Begins(c)
  <2>1. /\ call'[c].step = "connect" /\ call'[c].lock = call[c].lock
        /\ call'[c].attempt = call[c].attempt /\ call[c].step = "new"
        /\ sent' = sent /\ consumed' = consumed /\ reply' = reply
    BY <1>2, BeginsRecord DEF Begins, At
  <2> QED
    BY <1>0, <2>1 DEF CallFits, MutationFits, At
<1>3. CASE Waits(c)
  <2>1. /\ call'[c].step = "wait" /\ call'[c].attempt = 1 /\ call'[c].lock \in Calls
        /\ call[c].step \in {"new", "connect"} /\ c \in Mutations
        /\ sent' = sent /\ consumed' = consumed /\ reply' = reply
    BY <1>3, WaitsRecord, LockForIs, ZenonT(40) DEF Waits
  <2>2. sent[c] = 0 /\ ~consumed[c] /\ reply[c] = "none"
    BY <2>1 DEF CallFits, MutationFits, At
  <2>3. call'[c].lock # None
    BY <1>0, <2>1
  <2>4. MutationFits(c)'
    BY <2>1, <2>2, <2>3 DEF MutationFits, At
  <2> QED
    BY <2>1, <2>2, <2>4 DEF CallFits, At
<1>4. CASE StartsAtOnce(c)
  <2>1. /\ call[c].step \in {"new", "connect"} /\ c \in Mutations
        /\ sent' = sent /\ consumed'[c] /\ reply' = reply
    BY <1>4, OwnHistory DEF StartsAtOnce, Consumes
  <2>2. /\ call'[c].step = "run" /\ call'[c].attempt = 1
        /\ \E r \in Resources : call'[c].lock = LockFor(c, r)
    BY <1>4, StartsRecord
  <2>3. call'[c].lock \in Calls
    BY <2>2, LockForIs
  <2> QED
    BY <1>0, <2>1, <2>2, <2>3 DEF CallFits, MutationFits, At
<1>5. CASE StartsAfterWait(c)
  <2>1. /\ call'[c].step = "run" /\ call'[c].attempt = call[c].attempt
        /\ call'[c].lock = call[c].lock
        /\ call[c].step = "wait"
        /\ sent' = sent /\ consumed'[c] /\ reply' = reply
    BY <1>5, AfterWaitRecord, OwnHistory DEF StartsAfterWait, Consumes, At
  <2> QED
    BY <1>0, <2>1 DEF CallFits, MutationFits, At
<1>6. CASE StartsReading(c)
  <2>1. /\ call'[c].step = "run" /\ call'[c].attempt = 1 /\ c \in Reads
        /\ call[c].step \in {"new", "connect"}
        /\ sent' = sent /\ consumed' = consumed /\ reply' = reply
    BY <1>6, ReadingRecord DEF StartsReading
  <2> QED
    BY <1>0, <2>1 DEF CallFits, At
<1>7. CASE Sleeps(c)
  <2>1. /\ call'[c].step = "sleep" /\ call'[c].attempt = call[c].attempt + 1 /\ c \in Reads
        /\ call[c].step = "run"
        /\ sent' = sent /\ consumed' = consumed /\ reply' = reply
    BY <1>7, SleepsRecord DEF Sleeps, At
  <2> QED
    BY <1>0, <2>1 DEF CallFits, At
<1>8. CASE GoesOn(c)
  <2>1. /\ \/ call[c].step = "run" /\ call'[c].step = "cleanup"
           \/ call[c].step = "sleep" /\ call'[c].step = "run"
        /\ call'[c].lock = call[c].lock /\ call'[c].attempt = call[c].attempt
        /\ sent' = sent /\ consumed' = consumed /\ reply' = reply
    BY <1>8, GoesOnRecord DEF GoesOn
  <2> QED
    BY <1>0, <2>1 DEF CallFits, MutationFits, At
<1>9. CASE Sends(c)
  <2>1. /\ call' = call /\ call[c].step = "run" /\ sent'[c] = sent[c] + 1
        /\ sent[c] # call[c].attempt
        /\ consumed' = consumed /\ reply' = reply
    BY <1>9, OwnHistory DEF Sends, At
  <2>2. reply[c] = "none" /\ sent[c] <= call[c].attempt
    BY <2>1 DEF CallFits, At
  <2>3. sent'[c] <= call[c].attempt
    BY <1>0, <2>1, <2>2
  <2>4. c \in Mutations => MutationFits(c)'
    BY <1>0, <2>1, <2>2, <2>3 DEF CallFits, MutationFits, At
  <2> QED
    BY <2>1, <2>2, <2>3, <2>4 DEF CallFits, At
<1> QED
  BY <1>1, <1>2, <1>3, <1>4, <1>5, <1>6, <1>7, <1>8, <1>9 DEF Moves

-----------------------------------------------------------------------------
(* Locks.                                                                  *)

(* The lock of a resource: the one its calls refer to, or a new one.       *)
LEMMA LockForShared ==
    ASSUME TypeOK, LocksShared, NEW c \in Mutations, NEW r \in Resources
    PROVE  /\ \A d \in Mutations : call[d].resource = r /\ call[d].lock # None =>
                  call[d].lock = LockFor(c, r)
           /\ LockFor(c, r) = c \/ \E d \in Mutations : call[d].lock = LockFor(c, r)
<1> DEFINE live == {call[d].lock : d \in {d \in Mutations :
                       call[d].resource = r /\ call[d].lock # None}}
<1>1. LockFor(c, r) = IF live = {} THEN c ELSE CHOOSE l \in live : TRUE
  BY DEF LockFor
<1>2. \A l \in live : \E d \in Mutations :
          call[d].lock = l /\ call[d].resource = r /\ call[d].lock # None
  OBVIOUS
<1>3. \A d \in Mutations : call[d].resource = r /\ call[d].lock # None => call[d].lock \in live
  OBVIOUS
<1> HIDE DEF live
<1>4. live # {} => (CHOOSE l \in live : TRUE) \in live
  OBVIOUS
<1>5. CASE live = {}
  BY <1>1, <1>3, <1>5
<1>6. CASE live # {}
  <2>1. LockFor(c, r) \in live
    BY <1>1, <1>4, <1>6
  <2>2. PICK m \in Mutations :
          call[m].lock = LockFor(c, r) /\ call[m].resource = r /\ call[m].lock # None
    BY <1>2, <2>1
  <2>3. \A d \in Mutations : call[d].resource = r /\ call[d].lock # None =>
            call[d].lock = call[m].lock
    BY <2>2 DEF LocksShared
  <2> QED
    BY <2>2, <2>3
<1> QED
  BY <1>5, <1>6
(* What a step does to the lock of its call: it lets go of it, or has none *)
(* and begins to connect; it keeps it; or it takes one.                    *)
LetsGo(c) ==
    /\ call'[c].lock = None
    /\ call'[c].step = "over" \/ (call[c].step = "new" /\ call'[c].step = "connect")

KeepsLock(c) ==
    /\ call'[c].lock = call[c].lock /\ call'[c].resource = call[c].resource
    /\ call'[c].step \in {"new", "connect"} => call[c].step = call'[c].step
    /\ call'[c].step \in {"run", "cleanup"} =>
           call[c].step \in {"run", "cleanup"} \/ LockFree(call[c].lock)

TakesLock(c) ==
    /\ call[c].step \in {"new", "connect"}
    /\ call'[c].step \in {"wait", "run"}
    /\ \E r \in Resources :
        /\ call'[c].resource = r /\ call'[c].lock = LockFor(c, r)
        /\ call'[c].step = "run" => ~ \E d \in Mutations : call[d].lock = LockFor(c, r)

(* What the moves of a call do to the lock it refers to.                     *)
LEMMA LockMoves ==
    ASSUME TypeOK, NEW c \in Mutations, CallFits(c), Moves(c)
    PROVE  LetsGo(c) \/ KeepsLock(c) \/ TakesLock(c)
<1>0. c \in Calls /\ c \notin Reads /\ MutationFits(c)
  BY KernelAssumption DEF Calls, CallFits
<1>1. CASE Ends(c)
  BY <1>0, <1>1, EndsRecord, OverRecord DEF LetsGo
<1>2. CASE Begins(c)
  <2>1. call[c].step = "new" /\ call'[c].step = "connect" /\ call'[c].lock = call[c].lock
    BY <1>0, <1>2, BeginsRecord DEF Begins, At
  <2> QED
    BY <1>0, <2>1 DEF LetsGo, MutationFits
<1>3. CASE Waits(c)
  <2>1. /\ call[c].step \in {"new", "connect"} /\ call'[c].step = "wait"
        /\ \E r \in Resources : call'[c].resource = r /\ call'[c].lock = LockFor(c, r)
    BY <1>0, <1>3, WaitsRecord DEF Waits
  <2> QED
    BY <2>1 DEF TakesLock
<1>4. CASE StartsAtOnce(c)
  <2>1. call[c].step \in {"new", "connect"} /\ call'[c].step = "run"
    BY <1>0, <1>4, StartsRecord DEF StartsAtOnce
  <2>2. \E r \in Resources :
          /\ call'[c].resource = r /\ call'[c].lock = LockFor(c, r)
          /\ ~ \E d \in Mutations : call[d].lock = LockFor(c, r)
    BY <1>0, <1>4, StartsRecord
  <2> QED
    BY <2>1, <2>2 DEF TakesLock
<1>5. CASE StartsAfterWait(c)
  BY <1>0, <1>5, AfterWaitRecord DEF StartsAfterWait, KeepsLock
<1>6. CASE GoesOn(c)
  <2>1. /\ \/ call[c].step = "run" /\ call'[c].step = "cleanup"
           \/ call[c].step = "sleep" /\ call'[c].step = "run"
        /\ call'[c].resource = call[c].resource
        /\ call'[c].lock = call[c].lock
    BY <1>0, <1>6, GoesOnRecord
  <2> QED
    BY <1>0, <2>1 DEF KeepsLock, MutationFits, At
<1>7. CASE Sends(c)
  <2>1. call' = call /\ call[c].step = "run"
    BY <1>7 DEF Sends, At
  <2> QED
    BY <2>1 DEF KeepsLock
<1> QED
  BY <1>0, <1>1, <1>2, <1>3, <1>4, <1>5, <1>6, <1>7 DEF Moves, StartsReading, Sleeps

(* Calls of one resource go on to refer to one lock.                         *)
LEMMA SharedKept ==
    ASSUME TypeOK, LocksShared, LocksNamed, NEW c \in Mutations,
           LetsGo(c) \/ KeepsLock(c) \/ TakesLock(c),
           \A d \in Mutations : d # c => call'[d] = call[d]
    PROVE  LocksShared'
<1>1. ASSUME NEW d \in Mutations, d # c, call'[c].resource = call[d].resource,
             call'[c].lock # None, call[d].lock # None
      PROVE  call'[c].lock = call[d].lock
  <2>1. CASE KeepsLock(c)
    BY <1>1, <2>1 DEF KeepsLock, LocksShared
  <2>2. CASE TakesLock(c)
    BY <1>1, <2>2, LockForShared DEF TakesLock
  <2> QED
    BY <1>1, <2>1, <2>2 DEF LetsGo
<1>2. ASSUME NEW a \in Mutations, NEW b \in Mutations,
             call'[a].resource = call'[b].resource,
             call'[a].lock # None, call'[b].lock # None
      PROVE  call'[a].lock = call'[b].lock
  BY <1>1, <1>2 DEF LocksShared
<1> QED
  BY <1>2 DEF LocksShared

(* A lock stays named after a call that makes no other.                      *)
LEMMA NamedKept ==
    ASSUME TypeOK, LocksShared, LocksNamed, NEW c \in Mutations,
           LetsGo(c) \/ KeepsLock(c) \/ TakesLock(c),
           \A d \in Mutations : d # c => call'[d] = call[d]
    PROVE  LocksNamed'
<1>1. ASSUME NEW a \in Mutations, NEW b \in Mutations, call'[a].lock = b
      PROVE  call'[b].step \notin {"new", "connect"}
  <2>0. None \notin Mutations
    BY KernelAssumption
  <2>1. (\E d \in Mutations : call[d].lock = b) =>
            call'[b].step \notin {"new", "connect"}
    <3>1. ASSUME NEW d \in Mutations, call[d].lock = b
          PROVE  call'[b].step \notin {"new", "connect"}
      <4>1. call[b].step \notin {"new", "connect"}
        BY <3>1 DEF LocksNamed
      <4>2. CASE b = c
        BY <4>1, <4>2 DEF LetsGo, KeepsLock, TakesLock
      <4>3. CASE b # c
        BY <4>1, <4>3
      <4> QED
        BY <4>2, <4>3
    <3> QED
      BY <3>1
  <2>2. CASE a # c
    BY <1>1, <2>1, <2>2
  <2>3. CASE a = c
    <3>1. CASE LetsGo(c)
      BY <1>1, <2>0, <2>3, <3>1 DEF LetsGo
    <3>2. CASE KeepsLock(c)
      BY <1>1, <2>1, <2>3, <3>2 DEF KeepsLock
    <3>3. CASE TakesLock(c)
      <4>1. b = c \/ \E d \in Mutations : call[d].lock = b
        BY <1>1, <2>3, <3>3, LockForShared DEF TakesLock
      <4>2. call'[c].step \notin {"new", "connect"}
        BY <3>3 DEF TakesLock
      <4> QED
        BY <2>1, <4>1, <4>2
    <3> QED
      BY <3>1, <3>2, <3>3
  <2> QED
    BY <2>2, <2>3
<1> QED
  BY <1>1 DEF LocksNamed

(* Each lock keeps at most one holder.                                       *)
LEMMA ExcludeKept ==
    ASSUME TypeOK, LocksExclude, NEW c \in Mutations,
           LetsGo(c) \/ KeepsLock(c) \/ TakesLock(c),
           \A d \in Mutations : d # c => call'[d] = call[d]
    PROVE  LocksExclude'
<1>1. ASSUME NEW d \in Mutations, d # c,
             call'[c].step \in {"run", "cleanup"}, call[d].step \in {"run", "cleanup"}
      PROVE  call'[c].lock # call[d].lock
  <2>1. CASE LetsGo(c)
    BY <1>1, <2>1 DEF LetsGo
  <2>2. CASE KeepsLock(c)
    <3>1. CASE call[c].step \in {"run", "cleanup"}
      BY <1>1, <2>2, <3>1 DEF KeepsLock, LocksExclude, Holds
    <3>2. CASE LockFree(call[c].lock)
      BY <1>1, <2>2, <3>2 DEF KeepsLock, LockFree, Holds
    <3> QED
      BY <1>1, <2>2, <3>1, <3>2 DEF KeepsLock
  <2>3. CASE TakesLock(c)
    BY <1>1, <2>3 DEF TakesLock
  <2> QED
    BY <2>1, <2>2, <2>3
<1>2. ASSUME NEW a \in Mutations, NEW b \in Mutations,
             call'[a].step \in {"run", "cleanup"}, call'[b].step \in {"run", "cleanup"},
             call'[a].lock = call'[b].lock
      PROVE  a = b
  <2>1. CASE a # c /\ b # c
    BY <1>2, <2>1 DEF LocksExclude, Holds
  <2>2. CASE a = c \/ b = c
    BY <1>1, <1>2, <2>2
  <2> QED
    BY <2>1, <2>2
<1> QED
  BY <1>2 DEF LocksExclude, Holds

(* Every move keeps the three facts about locks.                             *)
LEMMA LocksKept ==
    ASSUME TypeOK, LocksShared, LocksNamed, LocksExclude, NEW c \in Calls,
           CallFits(c), Moves(c)
    PROVE  LocksShared' /\ LocksNamed' /\ LocksExclude'
<1>1. \A d \in Mutations : d # c => call'[d] = call[d]
  BY OthersAlone DEF Calls
<1>2. CASE c \in Mutations
  BY <1>1, <1>2, LockMoves, SharedKept, NamedKept, ExcludeKept
<1>3. CASE c \notin Mutations
  <2>1. \A d \in Mutations : call'[d] = call[d]
    BY <1>1, <1>3
  <2> QED
    BY <2>1 DEF LocksShared, LocksNamed, LocksExclude, Holds
<1> QED
  BY <1>2, <1>3
-----------------------------------------------------------------------------
(* The registry.                                                           *)

(* What the moves of a call do to the registry and its connections.          *)
LEMMA RegistryMoves ==
    ASSUME NEW c \in Calls, Does(c)
    PROVE  \/ UNCHANGED registryVars
           \/ \E r \in Resources : ConnectBegins(c, r)
           \/ \E k \in Clients, i \in HostKeys : Connects(c, k, i)
BY DEF Does, ResolveExisting, ConnectStep, ConnectFails, LockAcquired, AdapterStep, Dispatch,
       DispatchFails, Answered, AdapterTimesOut, Transient, TimeoutStep, DeadlineOver,
       CleanedUp, Wakes, CallerGone

(* While a call connects, the registry has no client.                        *)
LEMMA ConnectsKept ==
    ASSUME TypeOK, OneConnects, NEW c \in Calls, Does(c), Moves(c)
    PROVE  OneConnects'
<1>1. call'[c].step = "connect" => Begins(c) /\ call'[c].resource \in Resources
  <2>1. CASE Ends(c)
    BY <2>1, EndsRecord, OverRecord
  <2>2. CASE Begins(c)
    BY <2>2, BeginsRecord
  <2>3. CASE Waits(c)
    BY <2>3, WaitsRecord
  <2>4. CASE StartsAtOnce(c)
    BY <2>4, StartsRecord
  <2>5. CASE StartsAfterWait(c)
    BY <2>5, AfterWaitRecord
  <2>6. CASE StartsReading(c)
    BY <2>6, ReadingRecord
  <2>7. CASE Sleeps(c)
    BY <2>7, SleepsRecord
  <2>8. CASE GoesOn(c)
    BY <2>8, GoesOnRecord
  <2>9. CASE Sends(c)
    BY <2>9 DEF Sends, At
  <2> QED
    BY <2>1, <2>2, <2>3, <2>4, <2>5, <2>6, <2>7, <2>8, <2>9 DEF Moves
<1>2. \A d \in Calls : d # c => call'[d] = call[d]
  BY OthersAlone
<1>3. \/ current' = current \/ current' = 0
      \/ call[c].step = "connect"
  BY RegistryMoves DEF registryVars, ConnectBegins, Connects, At
<1>4. ASSUME NEW a \in Calls, call'[a].step = "connect"
      PROVE  /\ current' = 0
             /\ call'[a].resource \in Resources
             /\ \A d \in Calls : call'[d].step = "connect" => a = d
  <2>1. CASE a = c
    <3>1. Begins(c) /\ call'[c].resource \in Resources
      BY <1>1, <1>4, <2>1
    <3>2. current' = 0 /\ \A d \in Calls : call[d].step # "connect"
      BY <3>1 DEF Begins, Connecting, At
    <3> QED
      BY <1>2, <2>1, <3>1, <3>2
  <2>2. CASE a # c
    <3>1. call[a].step = "connect" /\ call'[a] = call[a]
      BY <1>2, <1>4, <2>2
    <3>2. /\ current = 0 /\ call[a].resource \in Resources
          /\ \A d \in Calls : call[d].step = "connect" => a = d
      BY <3>1 DEF OneConnects, At
    <3>3. call[c].step # "connect" /\ call'[c].step # "connect"
      BY <1>1, <2>2, <3>1, <3>2 DEF Begins, Connecting, At
    <3> QED
      BY <1>2, <1>3, <3>1, <3>2, <3>3
  <2> QED
    BY <2>1, <2>2
<1> QED
  BY <1>4 DEF OneConnects, At

RegistryTyped ==
    /\ current \in Clients \cup {0}
    /\ link \in [Clients -> {"unused", "open", "down", "closed"}]
    /\ \A k \in Clients : link[k] = "open" => k = current
    /\ peer \in [Clients -> HostKeys \cup {None}]

(* Every move keeps the type of the registry.                                *)
LEMMA RegistryKept ==
    ASSUME TypeOK, OneConnects, NEW c \in Calls, Does(c)
    PROVE  RegistryTyped'
<1>0. RegistryTyped /\ Clients \subseteq Nat /\ 0 \notin Clients
  <2>1. RegistryTyped
    BY Zenon DEF TypeOK, RegistryTyped
  <2> QED
    BY <2>1, Numbers DEF Clients
<1>1. CASE UNCHANGED registryVars
  BY <1>0, <1>1 DEF RegistryTyped, registryVars
<1>2. ASSUME NEW r \in Resources, ConnectBegins(c, r)
      PROVE  RegistryTyped'
  BY <1>0, <1>2 DEF ConnectBegins, RegistryTyped
<1>3. ASSUME NEW k \in Clients, NEW i \in HostKeys, Connects(c, k, i)
      PROVE  RegistryTyped'
  <2>1. current = 0
    BY <1>3 DEF Connects, OneConnects
  <2>2. \A n \in Clients : link[n] # "open"
    BY <1>0, <2>1 DEF RegistryTyped
  <2>3. current' = k /\ link' = [link EXCEPT ![k] = "open"] /\ peer' = [peer EXCEPT ![k] = i]
    BY <1>3 DEF Connects
  <2> QED
    BY <1>0, <2>2, <2>3 DEF RegistryTyped
<1> QED
  BY <1>1, <1>2, <1>3, RegistryMoves

-----------------------------------------------------------------------------
(* Approvals.                                                              *)

ApprovalsTyped == approvals \in [Resources \X HostKeys -> 0 .. MaxApprovals]

Spent == \E a : approvals[a] > 0 /\ approvals' = [approvals EXCEPT ![a] = @ - 1]

(* execute_once_locked spends one available approval, or none.               *)
LEMMA ExecutesSpends ==
    ASSUME NEW c, NEW e, Executes(c, e)
    PROVE  approvals' = approvals \/ Spent
BY DEF Executes, Consume, approvalVars, Spent

(* So does every step of a call.                                             *)
LEMMA DoesSpend ==
    ASSUME NEW c \in Calls, Does(c)
    PROVE  approvals' = approvals \/ Spent
<1>1. ASSUME NEW r, NEW k, Resolved(c, r, k)
      PROVE  approvals' = approvals \/ Spent
  BY <1>1, ExecutesSpends DEF Resolved, approvalVars
<1>2. ASSUME NEW r \in Resources, ResolveExisting(c, r) PROVE approvals' = approvals \/ Spent
  BY <1>1, <1>2 DEF ResolveExisting
<1>3. ASSUME NEW k \in Clients, NEW i \in HostKeys, Connects(c, k, i)
      PROVE  approvals' = approvals \/ Spent
  BY <1>1, <1>3 DEF Connects
<1>4. CASE LockAcquired(c)
  BY <1>4, ExecutesSpends DEF LockAcquired
<1>5. CASE \/ \E r \in Resources : ConnectBegins(c, r)
           \/ ConnectFails(c) \/ AdapterStep(c) \/ TimeoutStep(c) \/ CallerGone(c)
  BY <1>5 DEF ConnectBegins, ConnectFails, AdapterStep, Dispatch, DispatchFails, Answered,
       AdapterTimesOut, Transient, TimeoutStep, DeadlineOver, CleanedUp, Wakes, CallerGone,
       approvalVars
<1> QED
  BY <1>2, <1>3, <1>4, <1>5 DEF Does, ConnectStep

(* Every step of a call keeps the type of the approvals.                     *)
LEMMA ApprovalsKept ==
    ASSUME TypeOK, NEW c \in Calls, Does(c)
    PROVE  ApprovalsTyped'
<1>1. approvals \in [Resources \X HostKeys -> 0 .. MaxApprovals]
  BY DEF TypeOK
<1>2. ASSUME NEW a, approvals[a] > 0, approvals' = [approvals EXCEPT ![a] = @ - 1]
      PROVE  approvals' \in [Resources \X HostKeys -> 0 .. MaxApprovals]
  <2>1. ASSUME NEW b \in Resources \X HostKeys
        PROVE  approvals'[b] \in 0 .. MaxApprovals
    <3>1. approvals[b] \in 0 .. MaxApprovals
      BY <1>1, <2>1
    <3>2. approvals'[b] = IF b = a THEN approvals[b] - 1 ELSE approvals[b]
      BY <1>1, <1>2, <2>1
    <3>3. b = a => approvals[b] > 0
      BY <1>2
    <3> QED
      BY <3>1, <3>2, <3>3, Numbers
  <2>2. approvals' = [b \in Resources \X HostKeys |-> approvals'[b]]
    BY <1>1, <1>2
  <2> QED
    BY <2>1, <2>2, Zenon
<1> QED
  BY <1>1, <1>2, DoesSpend DEF ApprovalsTyped, Spent
-----------------------------------------------------------------------------
(* Whole steps.                                                            *)

HistoryIsTyped ==
    /\ sent \in [Calls -> 0 .. MaxAttempts]
    /\ consumed \in [Calls -> BOOLEAN]
    /\ reply \in [Calls -> Outcomes]

(* The parts of the type invariant.                                          *)
LEMMA TypeParts ==
    TypeOK <=> /\ RegistryTyped /\ ApprovalsTyped /\ HistoryIsTyped
               /\ call \in [Calls -> Call]
BY DEF TypeOK, RegistryTyped, ApprovalsTyped, HistoryIsTyped, Outcomes

(* The parts of the type invariant after a step.                             *)
LEMMA TypePartsAfter ==
    TypeOK' <=> /\ RegistryTyped' /\ ApprovalsTyped' /\ HistoryIsTyped'
                /\ call' \in [Calls -> Call]
BY DEF TypeOK, RegistryTyped, ApprovalsTyped, HistoryIsTyped, Outcomes

(* Every step of a call keeps the invariant.                                 *)
LEMMA DoesKeeps ==
    ASSUME IInv, NEW c \in Calls, Does(c)
    PROVE  IInv'
<1>1. /\ TypeOK /\ LocksShared /\ LocksNamed /\ LocksExclude /\ OneConnects
      /\ \A d \in Calls : CallFits(d)
  BY DEF IInv
<1>2. Moves(c)
  BY <1>1, DoesMoves
<1>3. TypeOK'
  <2>1. RegistryTyped'
    BY <1>1, RegistryKept
  <2>2. ApprovalsTyped'
    BY <1>1, ApprovalsKept
  <2>3. HistoryIsTyped'
    BY <1>1, <1>2, HistoryTyped DEF HistoryIsTyped
  <2>4. call' \in [Calls -> Call]
    BY <1>1, <1>2, CallsTyped
  <2> QED
    BY <2>1, <2>2, <2>3, <2>4, TypePartsAfter
<1>4. ASSUME NEW d \in Calls PROVE CallFits(d)'
  <2>1. CASE d = c
    BY <1>1, <1>2, <2>1, FitsKept
  <2>2. CASE d # c
    <3>1. /\ call'[d] = call[d] /\ sent'[d] = sent[d] /\ consumed'[d] = consumed[d]
          /\ reply'[d] = reply[d]
      BY <1>1, <1>2, <2>2, OthersAlone
    <3>2. CallFits(d)
      BY <1>1
    <3> QED
      BY <3>1, <3>2 DEF CallFits, MutationFits, At
  <2> QED
    BY <2>1, <2>2
<1>5. LocksShared' /\ LocksNamed' /\ LocksExclude'
  BY <1>1, <1>2, LocksKept
<1>6. OneConnects'
  BY <1>1, <1>2, ConnectsKept
<1> QED
  BY <1>3, <1>4, <1>5, <1>6 DEF IInv

(* A tick changes nothing of a call but its clocks.                        *)
LEMMA TickRecord ==
    ASSUME TypeOK, Tick, NEW c \in Calls
    PROVE  /\ call'[c] \in Call
           /\ call'[c].step = call[c].step /\ call'[c].resource = call[c].resource
           /\ call'[c].lock = call[c].lock /\ call'[c].attempt = call[c].attempt
<1> DEFINE x == call[c]
           t == IF At(c, "run") THEN x.ran + 1 ELSE x.ran
           w == IF At(c, "sleep") THEN x.delay - 1 ELSE x.delay
<1>1. x \in Call /\ Calls = DOMAIN call
  BY DEF TypeOK
<1>2. call'[c] = IF ~Timed(c) THEN x ELSE [x EXCEPT !.left = x.left - 1, !.ran = t, !.delay = w]
  BY DEF Tick
<1>3. /\ x.left \in 0 .. MaxDeadline /\ x.ran \in 0 .. AdapterBound /\ x.delay \in 0 .. MaxDelay
  BY <1>1, CallFields
<1>4. ASSUME Timed(c)
      PROVE  /\ x.left - 1 \in 0 .. MaxDeadline
             /\ t \in 0 .. AdapterBound
             /\ w \in 0 .. MaxDelay
  <2>1. ~Due(c)
    BY DEF Tick
  <2>2. x.left # 0 /\ (At(c, "run") => x.ran # AdapterBound) /\ (At(c, "sleep") => x.delay # 0)
    BY <1>4, <2>1 DEF Due
  <2> QED
    BY <1>3, <2>2, Numbers
<1> HIDE DEF x, t, w
<1>5. CASE Timed(c)
  <2>1. call'[c] = [x EXCEPT !.left = x.left - 1, !.ran = t, !.delay = w]
    BY <1>2, <1>5
  <2>2. x.left - 1 \in 0 .. MaxDeadline /\ t \in 0 .. AdapterBound /\ w \in 0 .. MaxDelay
    BY <1>4, <1>5
  <2> DEFINE n == x.left - 1
  <2> HIDE DEF n
  <2>3. call'[c] = [x EXCEPT !.left = n, !.ran = t, !.delay = w] /\ n \in 0 .. MaxDeadline
    BY <2>1, <2>2 DEF n
  <2>4. /\ call'[c] \in Call
        /\ call'[c].step = x.step /\ call'[c].resource = x.resource
        /\ call'[c].lock = x.lock /\ call'[c].attempt = x.attempt
    BY <1>1, <2>2, <2>3 DEF Call
  <2> QED
    BY <2>4 DEF x
<1>6. CASE ~Timed(c)
  BY <1>1, <1>2, <1>6 DEF x
<1> QED
  BY <1>5, <1>6

(* The clock keeps the invariant.                                            *)
LEMMA TickKeeps == ASSUME IInv, Tick PROVE IInv'
<1>1. /\ TypeOK /\ LocksShared /\ LocksNamed /\ LocksExclude /\ OneConnects
      /\ \A d \in Calls : CallFits(d)
  BY DEF IInv
<1>2. UNCHANGED <<registryVars, approvalVars, sent, reply>>
  BY DEF Tick
<1>3. \A c \in Calls :
        /\ call'[c] \in Call
        /\ call'[c].step = call[c].step /\ call'[c].resource = call[c].resource
        /\ call'[c].lock = call[c].lock /\ call'[c].attempt = call[c].attempt
  BY <1>1, TickRecord
<1>4. call' \in [Calls -> Call]
  <2>1. call' = [c \in Calls |-> call'[c]]
    BY DEF Tick
  <2> QED
    BY <1>3, <2>1, Zenon
<1>5. TypeOK'
  BY <1>1, <1>2, <1>4 DEF TypeOK, registryVars, approvalVars
<1>6. ASSUME NEW c \in Calls PROVE CallFits(c)'
  <2>1. CallFits(c)
    BY <1>1
  <2> QED
    BY <1>2, <1>3, <2>1 DEF CallFits, MutationFits, At, approvalVars
<1>7. LocksShared' /\ LocksNamed' /\ LocksExclude'
  BY <1>1, <1>3 DEF LocksShared, LocksNamed, LocksExclude, Holds, Calls
<1>8. OneConnects'
  BY <1>1, <1>2, <1>3 DEF OneConnects, At, registryVars
<1> QED
  BY <1>5, <1>6, <1>7, <1>8 DEF IInv

(* The surroundings keep the invariant.                                      *)
LEMMA AroundKeeps == ASSUME IInv, Around \/ UNCHANGED vars PROVE IInv'
<1>1. /\ TypeOK /\ LocksShared /\ LocksNamed /\ LocksExclude /\ OneConnects
      /\ \A d \in Calls : CallFits(d)
  BY DEF IInv
<1>2. UNCHANGED <<current, call, sent, consumed, reply, peer>>
  BY DEF Around, ConnectionLost, Issue, Withdrawn, vars, registryVars, approvalVars
<1>3. ApprovalsTyped'
  <2>1. approvals \in [Resources \X HostKeys -> 0 .. MaxApprovals]
    BY <1>1 DEF TypeOK
  <2>2. \/ approvals' = approvals
        \/ \E a \in Resources \X HostKeys :
              \/ approvals[a] < MaxApprovals /\ approvals' = [approvals EXCEPT ![a] = @ + 1]
              \/ approvals[a] > 0 /\ approvals' = [approvals EXCEPT ![a] = @ - 1]
    BY DEF Around, ConnectionLost, Issue, Withdrawn, vars, approvalVars
  <2>3. ASSUME NEW a \in Resources \X HostKeys, NEW n \in 0 .. MaxApprovals,
               approvals' = [approvals EXCEPT ![a] = n]
        PROVE  approvals' \in [Resources \X HostKeys -> 0 .. MaxApprovals]
    BY <2>1, <2>3
  <2>4. ASSUME NEW a \in Resources \X HostKeys
        PROVE  /\ approvals[a] < MaxApprovals => approvals[a] + 1 \in 0 .. MaxApprovals
               /\ approvals[a] > 0 => approvals[a] - 1 \in 0 .. MaxApprovals
    <3>1. approvals[a] \in 0 .. MaxApprovals
      BY <2>1, <2>4
    <3> QED
      BY <3>1, Numbers
  <2> QED
    BY <2>1, <2>2, <2>3, <2>4 DEF ApprovalsTyped
<1>4. RegistryTyped'
  <2>1. RegistryTyped
    BY <1>1, TypeParts
  <2>2. link' = link \/ link' = [link EXCEPT ![current] = "down"]
    BY DEF Around, ConnectionLost, Issue, Withdrawn, vars, registryVars
  <2> QED
    BY <1>2, <2>1, <2>2 DEF RegistryTyped
<1>5. TypeOK'
  <2>1. HistoryIsTyped' /\ call' \in [Calls -> Call]
    BY <1>1, <1>2 DEF TypeOK, HistoryIsTyped, Outcomes
  <2> QED
    BY <1>3, <1>4, <2>1, TypePartsAfter
<1>6. /\ LocksShared' /\ LocksNamed' /\ LocksExclude' /\ OneConnects'
      /\ \A d \in Calls : CallFits(d)'
  BY <1>1, <1>2 DEF LocksShared, LocksNamed, LocksExclude, OneConnects, CallFits,
       MutationFits, At, Holds
<1> QED
  BY <1>5, <1>6 DEF IInv

(* The invariant holds at the start.                                         *)
LEMMA Initially == ASSUME Init PROVE IInv
<1>1. /\ NewCall \in Call
      /\ NewCall.step = "new" /\ NewCall.lock = None /\ NewCall.attempt = 1
  <2>1. /\ 0 \in 0 .. AdapterBound /\ 0 \in 0 .. MaxDelay
        /\ 1 \in 1 .. MaxAttempts /\ 0 \in 0 .. MaxDeadline
    BY Numbers
  <2>2. "new" \in Steps
    BY DEF Steps
  <2>3. NewCall \in Call
    BY <2>1, <2>2, CallRecord DEF NewCall
  <2> QED
    BY <2>3 DEF NewCall
<1>2. \A c \in Calls : call[c] = NewCall /\ sent[c] = 0 /\ consumed[c] = FALSE
                       /\ reply[c] = "none"
  BY DEF Init
<1>3. TypeOK
  <2>1. 0 \in 0 .. MaxApprovals /\ 0 \in 0 .. MaxAttempts
    BY Numbers
  <2>2. RegistryTyped
    BY DEF Init, RegistryTyped
  <2>3. ApprovalsTyped /\ HistoryIsTyped
    BY <2>1 DEF Init, ApprovalsTyped, HistoryIsTyped, Outcomes
  <2>4. call \in [Calls -> Call]
    BY <1>1 DEF Init
  <2> QED
    BY <2>2, <2>3, <2>4, TypeParts
<1>4. ASSUME NEW c \in Calls PROVE CallFits(c)
  BY <1>1, <1>2 DEF CallFits, MutationFits, At
<1>5. LocksShared /\ LocksNamed /\ LocksExclude
  <2>1. None \notin Mutations
    BY KernelAssumption
  <2> QED
    BY <1>1, <1>2, <2>1 DEF LocksShared, LocksNamed, LocksExclude, Holds, Calls
<1>6. OneConnects
  BY <1>1, <1>2 DEF OneConnects, At
<1> QED
  BY <1>3, <1>4, <1>5, <1>6 DEF IInv

(* The inductive invariant: the calls of a resource share one lock, which  *)
(* one of them holds at most, and a call's steps, requests and approval    *)
(* belong together.                                                        *)
THEOREM InvariantHolds == Spec => []IInv
<1>1. Init => IInv
  BY Initially
<1>2. IInv /\ [Next]_vars => IInv'
  BY DoesKeeps, TickKeeps, AroundKeeps, Cases
<1> QED
  BY <1>1, <1>2, PTL DEF Spec

(* Every variable keeps its type; the registry (targets.py) never has two  *)
(* open connections, and no clock of a call runs below zero.               *)
THEOREM TypeCorrect == Spec => []TypeOK
<1>1. IInv => TypeOK
  BY DEF IInv
<1> QED
  BY <1>1, InvariantHolds, PTL

(* Two mutations of one resource never run at once, though their lock is   *)
(* found through a weak dictionary (_lock_for).                            *)
THEOREM MutationsExclude == Spec => []OneMutationPerResource
<1>1. ASSUME IInv, NEW c \in Mutations, NEW d \in Mutations, Holds(c), Holds(d),
             call[c].resource = call[d].resource
      PROVE  c = d
  <2>1. MutationFits(c) /\ MutationFits(d)
    BY <1>1 DEF IInv, CallFits, Calls
  <2>2. call[c].lock # None /\ call[d].lock # None
    BY <1>1, <2>1 DEF MutationFits, Holds
  <2>3. call[c].lock = call[d].lock
    BY <1>1, <2>2 DEF IInv, LocksShared
  <2> QED
    BY <1>1, <2>3 DEF IInv, LocksExclude
<1>2. IInv => OneMutationPerResource
  BY <1>1 DEF OneMutationPerResource
<1> QED
  BY <1>2, InvariantHolds, PTL

(* An approval lets at most one request reach the target (invoke).         *)
THEOREM RequestsApproved == Spec => []OneRequestPerApproval
<1>1. IInv => OneRequestPerApproval
  BY DEF IInv, CallFits, MutationFits, OneRequestPerApproval, Calls
<1> QED
  BY <1>1, InvariantHolds, PTL

(* A mutation to which the kernel itself replies TIMEOUT was not sent and  *)
(* left its approval alone (kernel.py:365-381): it is then still before    *)
(* the consumption, which comes first of all in the adapter's steps.       *)
THEOREM TimeoutsUntouched == Spec => []TimeoutMeansUntouched
<1>1. IInv => TimeoutMeansUntouched
  BY DEF IInv, CallFits, MutationFits, TimeoutMeansUntouched, Calls
<1> QED
  BY <1>1, InvariantHolds, PTL
=============================================================================
