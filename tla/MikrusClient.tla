---------------------------- MODULE MikrusClient ----------------------------
(***************************************************************************)
(* The mikr.us adapter (clients/mikrus.py, clients/common.py): one attempt *)
(* per call, a slot of the local rate limiter for each request, a cache    *)
(* for one cacheable endpoint, and the classification of what can go wrong *)
(* by the phase in which it does.                                          *)
(*                                                                         *)
(* The server is a number that every executed mutation and every change of *)
(* its own increases; a read returns it.  Requests may be executed late,   *)
(* also after the client has given up, and responses may be lost.  Time is *)
(* a number of ticks.  The kernel's deadline ends every call.              *)
(***************************************************************************)
EXTENDS Integers

CONSTANTS
    Reads, Mutations,   \* calls
    TTL,                \* _CACHE_TTL_SECONDS
    Interval,           \* between two slots of the rate limiter
    Deadline,           \* of a call, enforced by the kernel
    MaxTime,            \* bound: ticks
    MaxVersion,         \* bound: states of the server
    None

ASSUME MikrusAssumption ==
    /\ Reads \cap Mutations = {}
    /\ {TTL, Interval, Deadline, MaxTime, MaxVersion} \subseteq Nat \ {0}
    /\ None \notin Nat
    /\ None \notin {"ok", "transient", "refused", "timeout", "ambiguous", "protocol",
                    "failed"}

VARIABLES
    now,
    nextSlot,   \* of the rate limiter
    cache,      \* the time of storing and the value, or None
    call,       \* call[c]: the call c
    request,    \* request[c]: its request, on its way or at the server
    version,    \* the server's state
    until,      \* history: until[v]: when the server left state v
    executed,   \* history: mutations the server has executed
    denied,     \* history: those it has answered with a refusal all the same
    age         \* history: how long the stalest value returned had been untrue

serverVars == <<version, until, executed, denied>>
vars == <<now, nextSlot, cache, call, request, serverVars, age>>

Calls == Reads \cup Mutations
Versions == 0 .. MaxVersion

(* Mutations that end so are not to be reconciled; "refused" stands for    *)
(* RATE_LIMITED and UPSTREAM_REJECTED.                                     *)
Definite == {"transient", "refused"}

Outcomes == Definite \cup {"ok", "timeout", "ambiguous", "protocol", "failed", None}

Call == [step : {"new", "connecting", "waiting", "over"}, left : 0 .. Deadline,
         outcome : Outcomes]

NoRequest == [at |-> "none", status |-> None, value |-> None]

(* garbled: too long or not JSON; failed: a 200 which says that the command*)
(* could not be run; refusal: every status but 200 and 5xx, so that        *)
(* an answer like 201, 204 or a redirect is one too.                       *)
Statuses == {"200", "garbled", "failed", "refusal", "5xx"}

Request == [at : {"none", "sent", "answered"}, status : Statuses \cup {None},
            value : Versions \cup {None}]

(* No call is asked to wait for longer than one interval.                  *)
TypeOK ==
    /\ now \in 0 .. MaxTime
    /\ nextSlot \in 0 .. now + Interval
    /\ cache \in [created : 0 .. MaxTime, value : Versions] \cup {None}
    /\ call \in [Calls -> Call]
    /\ request \in [Calls -> Request]
    /\ version \in Versions
    /\ until \in [Versions -> 0 .. MaxTime \cup {None}]
    /\ executed \in SUBSET Mutations
    /\ denied \in SUBSET executed
    /\ age \in 0 .. MaxTime

Init ==
    /\ now = 0
    /\ nextSlot = 0
    /\ cache = None
    /\ call = [c \in Calls |-> [step |-> "new", left |-> 0, outcome |-> None]]
    /\ request = [c \in Calls |-> NoRequest]
    /\ version = 0
    /\ until = [v \in Versions |-> None]
    /\ executed = {}
    /\ denied = {}
    /\ age = 0

-----------------------------------------------------------------------------
(* The client: _request.                                                   *)

(* A mutation without a response may still be executed.                    *)
Over(c, outcome) ==
    /\ call' = [call EXCEPT ![c] = [step |-> "over", left |-> 0, outcome |-> outcome]]
    /\ request' = IF c \in Reads \/ request[c].at = "answered"
                  THEN [request EXCEPT ![c] = NoRequest]
                  ELSE request

(* How long v has been untrue.                                             *)
Untrue(v) == IF until[v] = None THEN 0 ELSE now - until[v]

Returns(c, v) ==
    /\ Over(c, "ok")
    /\ age' = IF v # None /\ Untrue(v) > age THEN Untrue(v) ELSE age

(* Fault: an entry is good for ever.                                       *)
StoredAtAll == cache # None

(* _cached: an entry that is too old is dropped.                           *)
Fresh == cache # None /\ now - cache.created < TTL

FromCache(c) ==
    /\ c \in Reads
    /\ call[c].step = "new"
    /\ Fresh
    /\ Returns(c, cache.value)
    /\ UNCHANGED <<now, nextSlot, cache, serverVars>>

Dropped(c) == cache' = IF c \in Reads THEN None ELSE cache

NextSlot == now + Interval

(* RateLimiter.acquire takes a slot or refuses; it never waits.            *)
Posts(c) ==
    /\ call[c].step = "new"
    /\ c \in Reads => ~Fresh
    /\ Dropped(c)
    /\ now >= nextSlot
    /\ nextSlot' = NextSlot
    /\ call' = [call EXCEPT ![c] =
                    [step |-> "connecting", left |-> Deadline, outcome |-> None]]
    /\ UNCHANGED <<now, request, serverVars, age>>

Refused(c) ==
    /\ call[c].step = "new"
    /\ c \in Reads => ~Fresh
    /\ Dropped(c)
    /\ now < nextSlot
    /\ Over(c, "refused")
    /\ UNCHANGED <<now, nextSlot, serverVars, age>>

(* ConnectTimeout, PoolTimeout, ConnectError: nothing has been sent.       *)
ConnectFails(c) ==
    /\ call[c].step = "connecting"
    /\ Over(c, "transient")
    /\ UNCHANGED <<now, nextSlot, cache, serverVars, age>>

(* The request is being written; from now on the server may get it.        *)
Sends(c) ==
    /\ call[c].step = "connecting"
    /\ call' = [call EXCEPT ![c].step = "waiting"]
    /\ request' = [request EXCEPT ![c].at = "sent"]
    /\ UNCHANGED <<now, nextSlot, cache, serverVars, age>>

(* Fault: a broken connection reads like one that was never made.          *)
BrokenIsTransient(c) == "transient"

(* Any other HTTPError: the connection fails under the request.            *)
BrokenIs(c) == IF c \in Mutations THEN "ambiguous" ELSE "transient"

Breaks(c) ==
    /\ call[c].step = "waiting"
    /\ Over(c, BrokenIs(c))
    /\ UNCHANGED <<now, nextSlot, cache, serverVars, age>>

(* TimeoutException, or the kernel's deadline.                             *)
TimesOut(c) ==
    /\ call[c].step \in {"connecting", "waiting"}
    /\ Over(c, IF c \in Mutations THEN "ambiguous" ELSE "timeout")
    /\ UNCHANGED <<now, nextSlot, cache, serverVars, age>>

Answered(c, status) ==
    /\ call[c].step = "waiting"
    /\ request[c].at = "answered"
    /\ request[c].status = status

(* A good response to the cacheable endpoint is stored, with the time at   *)
(* which it has arrived.                                                   *)
Succeeds(c) ==
    /\ Answered(c, "200")
    /\ cache' = IF c \in Reads THEN [created |-> now, value |-> request[c].value] ELSE cache
    /\ Returns(c, request[c].value)
    /\ UNCHANGED <<now, nextSlot, serverVars>>

(* The other responses.                                                    *)
Refuses(c) ==
    /\ \/ Answered(c, "garbled") /\ Over(c, "protocol")
       \/ Answered(c, "5xx") /\ Over(c, BrokenIs(c))
       \/ Answered(c, "refusal") /\ Over(c, "refused")
    /\ UNCHANGED <<now, nextSlot, cache, serverVars, age>>

(* A command that is reported to have failed may have had an effect.       *)
CommandFails(c) ==
    /\ Answered(c, "failed")
    /\ Over(c, "failed")
    /\ UNCHANGED <<now, nextSlot, cache, serverVars, age>>

-----------------------------------------------------------------------------
(* The server.                                                             *)

Changes ==
    /\ version < MaxVersion
    /\ version' = version + 1
    /\ until' = [until EXCEPT ![version] = now]

Responds(c, status, value) ==
    request' = [request EXCEPT ![c] = IF call[c].step = "over" THEN NoRequest
                  ELSE [at |-> "answered", status |-> status, value |-> value]]

(* Mutations may be commands; no cacheable endpoint runs one.              *)
Answers(c) == IF c \in Mutations THEN Statuses ELSE Statuses \ {"failed"}

(* A request is executed, once, and answered with any status.              *)
Executes(c) ==
    /\ request[c].at = "sent"
    /\ \E status \in Answers(c) :
         /\ Responds(c, status,
                     IF c \in Reads /\ status = "200" THEN version ELSE None)
         /\ denied' = IF c \in Mutations /\ status = "refusal"
                      THEN denied \cup {c} ELSE denied
    /\ IF c \in Mutations THEN Changes /\ executed' = executed \cup {c}
       ELSE UNCHANGED <<version, until, executed>>
    /\ UNCHANGED <<now, nextSlot, cache, call, age>>

(* It is turned away before it is executed.                                *)
TurnsAway(c) ==
    /\ request[c].at = "sent"
    /\ \E status \in Answers(c) \ {"200"} : Responds(c, status, None)
    /\ UNCHANGED <<now, nextSlot, cache, call, serverVars, age>>

ChangesByItself ==
    /\ Changes
    /\ UNCHANGED <<now, nextSlot, cache, call, request, executed, denied, age>>

(* What is due in a tick happens before the next one.                      *)
Tick ==
    /\ now < MaxTime
    /\ \A c \in Calls : call[c].step \in {"connecting", "waiting"} => call[c].left > 0
    /\ now' = now + 1
    /\ call' = [c \in Calls |-> IF call[c].left > 0
                                THEN [call[c] EXCEPT !.left = @ - 1] ELSE call[c]]
    /\ UNCHANGED <<nextSlot, cache, request, serverVars, age>>

Next ==
    \/ \E c \in Calls :
         \/ FromCache(c) \/ Posts(c) \/ Refused(c) \/ ConnectFails(c) \/ Sends(c)
         \/ Breaks(c) \/ TimesOut(c) \/ Succeeds(c) \/ Refuses(c)
         \/ CommandFails(c) \/ Executes(c) \/ TurnsAway(c)
    \/ ChangesByItself \/ Tick

Spec == Init /\ [][Next]_vars

-----------------------------------------------------------------------------
(* A mutation that failed with a definite error has not been executed and  *)
(* will not be, however late the server is; unless the server executed it  *)
(* and answered with a status other than 200 and 5xx, which the client     *)
(* takes for a refusal whatever it means (mikrus.py:260-280).              *)
DefiniteMeansUntouched ==
    \A c \in Mutations :
        call[c].outcome \in Definite =>
            c \notin executed \/ (call[c].outcome = "refused" /\ c \in denied)

(* What a read returns was true within the lifetime of a cache entry and   *)
(* the duration of a call.  It may have been changed since, also by a      *)
(* mutation made through this client: the entry is neither dropped by a    *)
(* mutation nor dated back to the request that fetched it.                 *)
StalenessIsBounded == age < TTL + Deadline
=============================================================================
