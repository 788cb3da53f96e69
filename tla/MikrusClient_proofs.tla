------------------------ MODULE MikrusClient_proofs ------------------------
(***************************************************************************)
(* What a mutation's definite error means and how stale a read can be, for *)
(* any calls, lifetimes, deadlines and histories of the server.            *)
(***************************************************************************)
EXTENDS MikrusClient, TLAPS

(* A call without an outcome has none, what has not been sent has no       *)
(* request, and a good answer to a read has a value.                       *)
CallFits(c) ==
    /\ call[c].step # "over" => call[c].outcome = None
    /\ call[c].step \in {"new", "connecting"} => request[c] = NoRequest
    /\ c \in Reads /\ request[c].at = "answered" /\ request[c].status = "200" =>
           request[c].value # None

(* What the server may still execute, and what it has answered.            *)
MutationFits(c) ==
    /\ c \in executed => call[c].step \notin {"new", "connecting"}
    /\ c \in executed => request[c].at # "sent"
    /\ c \in executed /\ request[c].at = "answered" /\ request[c].status = "refusal"
       => c \in denied
    /\ call[c].outcome \in Definite =>
           /\ request[c].at = "none"
           /\ c \notin executed \/ (call[c].outcome = "refused" /\ c \in denied)
    /\ request[c].value = None

(* The server's present state is not past, and the past is not to come.    *)
HistoryFits ==
    /\ \A v \in Versions : v >= version => until[v] = None
    /\ \A v \in Versions : until[v] # None => until[v] <= now
    /\ cache # None => cache.created <= now

(* v was still true at time t.                                             *)
TrueAt(v, t) == until[v] = None \/ until[v] >= t

(* An answer on its way was true when its call began.                      *)
AnswerFits(c) ==
    call[c].step # "over" /\ request[c].value # None =>
        TrueAt(request[c].value, now - (Deadline - call[c].left))

(* A cached value was true when the call that fetched it began.            *)
CacheFits == cache # None => TrueAt(cache.value, cache.created - Deadline)

IInv ==
    /\ TypeOK
    /\ \A c \in Calls : CallFits(c)
    /\ \A c \in Mutations : MutationFits(c)
    /\ HistoryFits
    /\ \A c \in Reads : AnswerFits(c)
    /\ CacheFits
    /\ StalenessIsBounded

-----------------------------------------------------------------------------
(* A call's step.                                                          *)
Step(c) ==
    \/ FromCache(c) \/ Posts(c) \/ Refused(c) \/ ConnectFails(c) \/ Sends(c)
    \/ Breaks(c) \/ TimesOut(c) \/ Succeeds(c) \/ Refuses(c) \/ CommandFails(c)
    \/ Executes(c) \/ TurnsAway(c)

LEMMA Numbers ==
    /\ TTL \in Nat /\ TTL > 0
    /\ Interval \in Nat
    /\ Deadline \in Nat /\ Deadline > 0
    /\ MaxTime \in Nat
    /\ MaxVersion \in Nat
BY MikrusAssumption

LEMMA Cases == ASSUME Next
               PROVE  (\E c \in Calls : Step(c)) \/ ChangesByItself \/ Tick
BY DEF Next, Step

(* What the end of a call does to the calls and the requests.              *)
LEMMA OverTypes ==
    ASSUME TypeOK, NEW c \in Calls, NEW o \in Outcomes, Over(c, o)
    PROVE  call' \in [Calls -> Call] /\ request' \in [Calls -> Request]
<1>1. [step |-> "over", left |-> 0, outcome |-> o] \in Call
  BY Numbers DEF Call
<1>2. NoRequest \in Request
  BY DEF NoRequest, Request
<1> QED
  BY <1>1, <1>2 DEF Over, TypeOK

LEMMA RespondTypes ==
    ASSUME TypeOK, NEW c \in Calls, NEW status \in Statuses, NEW v \in Versions \cup {None},
           Responds(c, status, v)
    PROVE  request' \in [Calls -> Request]
<1>1. NoRequest \in Request
  BY DEF NoRequest, Request
<1>2. [at |-> "answered", status |-> status, value |-> v] \in Request
  BY DEF Request
<1> QED
  BY <1>1, <1>2 DEF Responds, TypeOK

LEMMA StepTypes ==
    ASSUME TypeOK, NEW c \in Calls, Step(c)
    PROVE  call' \in [Calls -> Call] /\ request' \in [Calls -> Request]
<1>1. CASE FromCache(c)
  BY <1>1, OverTypes DEF FromCache, Returns, Outcomes
<1>2. CASE Posts(c)
  <2>1. [step |-> "connecting", left |-> Deadline, outcome |-> None] \in Call
    BY Numbers DEF Call, Outcomes
  <2> QED
    BY <1>2, <2>1 DEF Posts, TypeOK
<1>3. CASE Refused(c)
  BY <1>3, OverTypes DEF Refused, Outcomes, Definite
<1>4. CASE ConnectFails(c)
  BY <1>4, OverTypes DEF ConnectFails, Outcomes, Definite
<1>5. CASE Sends(c)
  <2>1. [call[c] EXCEPT !.step = "waiting"] \in Call
    BY DEF TypeOK, Call
  <2>2. [request[c] EXCEPT !.at = "sent"] \in Request
    BY DEF TypeOK, Request
  <2> QED
    BY <1>5, <2>1, <2>2 DEF Sends, TypeOK
<1>6. CASE Breaks(c)
  <2>1. BrokenIs(c) \in Outcomes
    BY DEF BrokenIs, Outcomes, Definite
  <2> QED
    BY <1>6, <2>1, OverTypes DEF Breaks
<1>7. CASE TimesOut(c)
  <2>1. (IF c \in Mutations THEN "ambiguous" ELSE "timeout") \in Outcomes
    BY DEF Outcomes
  <2> QED
    BY <1>7, <2>1, OverTypes DEF TimesOut
<1>8. CASE Succeeds(c)
  BY <1>8, OverTypes DEF Succeeds, Returns, Outcomes
<1>9. CASE Refuses(c)
  <2>1. BrokenIs(c) \in Outcomes
    BY DEF BrokenIs, Outcomes, Definite
  <2>2. "protocol" \in Outcomes /\ "refused" \in Outcomes
    BY DEF Outcomes, Definite
  <2> QED
    BY <1>9, <2>1, <2>2, OverTypes DEF Refuses
<1>10. CASE Executes(c)
  <2>1. PICK status \in Answers(c) :
          Responds(c, status, IF c \in Reads /\ status = "200" THEN version ELSE None)
    BY <1>10 DEF Executes
  <2>2. /\ status \in Statuses
        /\ (IF c \in Reads /\ status = "200" THEN version ELSE None)
             \in Versions \cup {None}
    BY <2>1 DEF Answers, TypeOK
  <2>3. request' \in [Calls -> Request]
    BY <2>1, <2>2, RespondTypes
  <2> QED
    BY <1>10, <2>3 DEF Executes, TypeOK
<1>11. CASE TurnsAway(c)
  <2>1. Answers(c) \subseteq Statuses
    BY DEF Answers
  <2> QED
    BY <1>11, <2>1, RespondTypes DEF TurnsAway, TypeOK
<1>12. CASE CommandFails(c)
  BY <1>12, OverTypes DEF CommandFails, Outcomes
<1> QED
  BY <1>1, <1>2, <1>3, <1>4, <1>5, <1>6, <1>7, <1>8, <1>9, <1>10, <1>11, <1>12 DEF Step

LEMMA ChangeTypes ==
    ASSUME TypeOK, Changes
    PROVE  version' \in Versions /\ until' \in [Versions -> 0 .. MaxTime \cup {None}]
BY Numbers DEF TypeOK, Changes, Versions

LEMMA ServerTypes ==
    ASSUME TypeOK, [Next]_vars
    PROVE  /\ version' \in Versions
           /\ until' \in [Versions -> 0 .. MaxTime \cup {None}]
           /\ executed' \in SUBSET Mutations /\ denied' \in SUBSET executed'
<1>1. CASE UNCHANGED serverVars
  BY <1>1 DEF TypeOK, serverVars
<1>2. CASE Changes /\ UNCHANGED <<executed, denied>>
  BY <1>2, ChangeTypes DEF TypeOK
<1>3. ASSUME NEW c \in Mutations, Changes, executed' = executed \cup {c},
             denied' \in {denied, denied \cup {c}}
      PROVE  /\ version' \in Versions
             /\ until' \in [Versions -> 0 .. MaxTime \cup {None}]
             /\ executed' \in SUBSET Mutations /\ denied' \in SUBSET executed'
  BY <1>3, ChangeTypes DEF TypeOK
<1>4. \/ UNCHANGED serverVars
      \/ Changes /\ UNCHANGED <<executed, denied>>
      \/ \E c \in Mutations : /\ Changes /\ executed' = executed \cup {c}
                            /\ denied' \in {denied, denied \cup {c}}
  <2>1. ASSUME NEW c \in Calls, Step(c)
        PROVE  UNCHANGED serverVars
               \/ \E m \in Mutations : /\ Changes /\ executed' = executed \cup {m}
                                     /\ denied' \in {denied, denied \cup {m}}
    <3>1. CASE Executes(c)
      <4>1. denied' = denied \/ (c \in Mutations /\ denied' = denied \cup {c})
        BY <3>1 DEF Executes
      <4>2. CASE c \in Mutations
        BY <3>1, <4>1, <4>2 DEF Executes
      <4>3. CASE c \notin Mutations
        BY <3>1, <4>1, <4>3 DEF Executes, serverVars
      <4> QED
        BY <4>2, <4>3
    <3>2. CASE ~Executes(c)
      BY <2>1, <3>2 DEF Step, FromCache, Posts, Refused, ConnectFails, Sends, Breaks,
                TimesOut, Succeeds, Refuses, CommandFails, TurnsAway
    <3> QED
      BY <3>1, <3>2
  <2> QED
    BY <2>1, Cases DEF ChangesByItself, Tick, vars, serverVars
<1> QED
  BY <1>1, <1>2, <1>3, <1>4

LEMMA TickTypes ==
    ASSUME TypeOK, Tick
    PROVE  call' \in [Calls -> Call] /\ now' \in 0 .. MaxTime /\ now' = now + 1
<1>1. ASSUME NEW c \in Calls, call[c].left > 0
      PROVE  [call[c] EXCEPT !.left = @ - 1] \in Call
  BY <1>1, Numbers DEF TypeOK, Call
<1>2. call' \in [Calls -> Call]
  BY <1>1 DEF Tick, TypeOK
<1> QED
  BY <1>2, Numbers DEF Tick, TypeOK
LEMMA TypesKept ==
    ASSUME TypeOK, \A c \in Calls : CallFits(c), HistoryFits, [Next]_vars
    PROVE  TypeOK'
<1>1. CASE UNCHANGED vars
  BY <1>1 DEF TypeOK, vars, serverVars, Calls, Call, Request, Versions
<1>2. CASE ChangesByItself
  BY <1>2, ServerTypes DEF ChangesByItself, TypeOK
<1>3. CASE Tick
  BY <1>3, TickTypes, Numbers DEF Tick, serverVars, TypeOK
<1>4. ASSUME NEW c \in Calls, Step(c)
      PROVE  TypeOK'
  <2>1. now' = now /\ now \in 0 .. MaxTime
    BY <1>4 DEF Step, FromCache, Posts, Refused, ConnectFails, Sends, Breaks, TimesOut,
                Succeeds, Refuses, CommandFails, Executes, TurnsAway, TypeOK
  <2>2. nextSlot' = nextSlot \/ nextSlot' = now + Interval
    BY <1>4 DEF Step, FromCache, Posts, Refused, ConnectFails, Sends, Breaks, TimesOut,
                Succeeds, Refuses, CommandFails, Executes, TurnsAway, NextSlot
  <2>3. nextSlot' \in 0 .. now' + Interval
    BY <2>1, <2>2, Numbers DEF TypeOK
  <2>4. cache' \in [created : 0 .. MaxTime, value : Versions] \cup {None}
    <3>1. CASE Succeeds(c) /\ c \in Reads
      <4>1. request[c].value \in Versions
        BY <3>1 DEF Succeeds, Answered, CallFits, TypeOK, Request, Calls
      <4>2. cache' = [created |-> now, value |-> request[c].value]
        BY <3>1 DEF Succeeds
      <4> QED
        BY <2>1, <4>1, <4>2
    <3>2. CASE ~(Succeeds(c) /\ c \in Reads)
      <4>1. cache' = cache \/ cache' = None
        BY <1>4, <3>2 DEF Step, FromCache, Posts, Refused, ConnectFails, Sends, Breaks, TimesOut,
                Succeeds, Refuses, CommandFails, Executes, TurnsAway, Dropped
      <4> QED
        BY <4>1 DEF TypeOK
    <3> QED
      BY <3>1, <3>2
  <2>5. age' \in 0 .. MaxTime
    <3>1. ASSUME NEW v \in Versions PROVE Untrue(v) \in 0 .. MaxTime
      BY <3>1, <2>1, Numbers DEF TypeOK, HistoryFits, Untrue
    <3>2. CASE FromCache(c)
      <4>1. cache.value \in Versions
        BY <3>2 DEF FromCache, Fresh, TypeOK
      <4> QED
        BY <3>1, <3>2, <4>1 DEF FromCache, Returns, TypeOK
    <3>3. CASE Succeeds(c)
      <4>1. request[c].value \in Versions \cup {None}
        BY DEF TypeOK, Request
      <4> QED
        BY <3>1, <3>3, <4>1 DEF Succeeds, Returns, TypeOK
    <3>4. CASE ~FromCache(c) /\ ~Succeeds(c)
      BY <1>4, <3>4 DEF Step, Posts, Refused, ConnectFails, Sends, Breaks, TimesOut,
                Refuses, CommandFails, Executes, TurnsAway, TypeOK
    <3> QED
      BY <3>2, <3>3, <3>4
  <2> QED
    BY <1>4, <2>1, <2>3, <2>4, <2>5, StepTypes, ServerTypes DEF TypeOK
<1> QED
  BY <1>1, <1>2, <1>3, <1>4, Cases
-----------------------------------------------------------------------------
(* Calls and requests.                                                     *)

LEMMA OthersAlone ==
    ASSUME TypeOK, NEW c \in Calls, Step(c), NEW d \in Calls, d # c
    PROVE  /\ call'[d] = call[d]
           /\ request'[d] = request[d]
           /\ d \in executed' <=> d \in executed
           /\ d \in denied' <=> d \in denied
<1>1. call \in [Calls -> Call] /\ request \in [Calls -> Request]
  BY DEF TypeOK
<1>2. ASSUME NEW o, Over(c, o)
      PROVE  call'[d] = call[d] /\ request'[d] = request[d]
  BY <1>1, <1>2 DEF Over
<1>3. ASSUME NEW status, NEW v, Responds(c, status, v)
      PROVE  request'[d] = request[d]
  BY <1>1, <1>3 DEF Responds
<1>4. call'[d] = call[d] /\ request'[d] = request[d]
  BY <1>1, <1>2, <1>3 DEF Step, FromCache, Posts, Refused, ConnectFails, Sends, Breaks, TimesOut,
                Succeeds, Refuses, CommandFails, Executes, TurnsAway, Returns
<1>5. /\ d \in executed' <=> d \in executed
      /\ d \in denied' <=> d \in denied
  BY DEF Step, FromCache, Posts, Refused, ConnectFails, Sends, Breaks, TimesOut,
         Succeeds, Refuses, CommandFails, Executes, TurnsAway, serverVars
<1> QED
  BY <1>4, <1>5

LEMMA OverDoes ==
    ASSUME TypeOK, NEW c \in Calls, NEW o, Over(c, o)
    PROVE  /\ call'[c] = [step |-> "over", left |-> 0, outcome |-> o]
           /\ c \in Reads \/ request[c].at = "answered" => request'[c] = NoRequest
           /\ request'[c] = NoRequest \/ request'[c] = request[c]
BY DEF Over, TypeOK

LEMMA RespondDoes ==
    ASSUME TypeOK, NEW c \in Calls, NEW status, NEW v, Responds(c, status, v)
    PROVE  request'[c] = IF call[c].step = "over" THEN NoRequest
                         ELSE [at |-> "answered", status |-> status, value |-> v]
BY DEF Responds, TypeOK

(* A call that ends fits, unless a mutation ends with a definite error     *)
(* although it was sent.                                                   *)
LEMMA OverFits ==
    ASSUME TypeOK, NEW c \in Calls, NEW o, Over(c, o),
           executed' = executed, denied' = denied,
           CallFits(c), c \in Mutations => MutationFits(c),
           c \in Mutations /\ o \in Definite =>
             c \notin executed \/ (o = "refused" /\ c \in denied),
           c \in Mutations /\ o \in Definite => request[c].at # "sent"
    PROVE  CallFits(c)' /\ (c \in Mutations => MutationFits(c)')
<1>0. /\ call'[c] = [step |-> "over", left |-> 0, outcome |-> o]
      /\ c \in Reads \/ request[c].at = "answered" => request'[c] = NoRequest
      /\ request'[c] = NoRequest \/ request'[c] = request[c]
  BY OverDoes, Zenon
<1>1. /\ call'[c].step = "over" /\ call'[c].outcome = o
      /\ c \in Reads \/ request[c].at = "answered" => request'[c] = NoRequest
      /\ request'[c] = NoRequest \/ request'[c] = request[c]
  BY <1>0
<1>2. /\ NoRequest.at = "none" /\ NoRequest.value = None
  BY DEF NoRequest
<1>3. request[c].at \in {"none", "sent", "answered"}
  BY DEF TypeOK, Request
<1>4. CallFits(c)'
  BY <1>1, <1>2 DEF CallFits
<1>5. c \in Mutations => MutationFits(c)'
  BY <1>1, <1>2, <1>3 DEF MutationFits
<1> QED
  BY <1>4, <1>5

LEMMA FitsKept ==
    ASSUME TypeOK, NEW c \in Calls, Step(c),
           CallFits(c), c \in Mutations => MutationFits(c)
    PROVE  CallFits(c)' /\ (c \in Mutations => MutationFits(c)')
<1>0. None \notin Definite /\ "ambiguous" \notin Definite /\ "ok" \notin Definite
      /\ "timeout" \notin Definite /\ "protocol" \notin Definite
      /\ "failed" \notin Definite
  BY MikrusAssumption DEF Definite
<1>1. CASE FromCache(c)
  BY <1>0, <1>1, OverFits, MikrusAssumption DEF FromCache, Returns, serverVars
<1>2. CASE Posts(c)
  <2>1. /\ call'[c].step = "connecting" /\ call'[c].outcome = None
        /\ request' = request /\ executed' = executed /\ denied' = denied
    BY <1>2 DEF Posts, TypeOK, serverVars
  <2>2. call[c].step = "new"
    BY <1>2 DEF Posts
  <2> QED
    BY <1>0, <2>1, <2>2 DEF CallFits, MutationFits
<1>3. CASE Refused(c)
  BY <1>0, <1>3, OverFits DEF Refused, serverVars, CallFits, MutationFits, NoRequest
<1>4. CASE ConnectFails(c)
  BY <1>0, <1>4, OverFits DEF ConnectFails, serverVars, CallFits, MutationFits, NoRequest
<1>5. CASE Sends(c)
  <2>1. /\ call'[c].step = "waiting" /\ call'[c].outcome = call[c].outcome
        /\ request'[c].at = "sent" /\ request'[c].value = request[c].value
        /\ executed' = executed /\ denied' = denied
        /\ call[c].step = "connecting"
    BY <1>5 DEF Sends, TypeOK, serverVars, Call, Request
  <2> QED
    BY <1>0, <2>1 DEF CallFits, MutationFits
<1>6. CASE Breaks(c)
  <2>1. c \in Mutations => BrokenIs(c) \notin Definite
    BY <1>0 DEF BrokenIs
  <2> QED
    BY <2>1, <1>6, OverFits DEF Breaks, serverVars
<1>7. CASE TimesOut(c)
  BY <1>0, <1>7, OverFits DEF TimesOut, serverVars
<1>8. CASE Succeeds(c)
  BY <1>0, <1>8, OverFits DEF Succeeds, Returns, serverVars
<1>9. CASE Refuses(c)
  <2>1. c \in Mutations => BrokenIs(c) \notin Definite
    BY <1>0 DEF BrokenIs
  <2>2. executed' = executed /\ denied' = denied
    BY <1>9 DEF Refuses, serverVars
  <2>3. CASE Answered(c, "garbled") /\ Over(c, "protocol")
    BY <1>0, <2>2, <2>3, OverFits
  <2>4. CASE Answered(c, "5xx") /\ Over(c, BrokenIs(c))
    BY <2>1, <2>2, <2>4, OverFits
  <2>5. CASE Answered(c, "refusal") /\ Over(c, "refused")
    BY <2>2, <2>5, OverFits DEF Answered, MutationFits
  <2> QED
    BY <1>9, <2>3, <2>4, <2>5 DEF Refuses
<1>10. CASE Executes(c)
  <2>1. call' = call /\ request[c].at = "sent"
    BY <1>10 DEF Executes
  <2>2. call[c].step \notin {"new", "connecting"}
    BY <2>1 DEF CallFits, NoRequest
  <2>3. c \in Mutations => call[c].outcome \notin Definite
    BY <2>1 DEF MutationFits
  <2>4. PICK status \in Answers(c), v \in Versions \cup {None} :
          /\ Responds(c, status, v)
          /\ v = IF c \in Reads /\ status = "200" THEN version ELSE None
          /\ denied' = IF c \in Mutations /\ status = "refusal"
                       THEN denied \cup {c} ELSE denied
    <3>1. version \in Versions
      BY DEF TypeOK
    <3> QED
      BY <1>10, <3>1 DEF Executes
  <2>5. \/ request'[c] = NoRequest
        \/ request'[c] = [at |-> "answered", status |-> status, value |-> v]
    BY <2>4, RespondDoes
  <2>6. NoRequest.at = "none" /\ NoRequest.value = None
    BY DEF NoRequest
  <2>7. version # None
    BY MikrusAssumption, Numbers DEF TypeOK, Versions
  <2>8. c \in Mutations => v = None
    BY <2>4, MikrusAssumption
  <2>9. CallFits(c)'
    BY <2>1, <2>2, <2>4, <2>5, <2>6, <2>7 DEF CallFits
  <2>10. c \in Mutations => MutationFits(c)'
    BY <2>1, <2>2, <2>3, <2>4, <2>5, <2>6, <2>8 DEF MutationFits
  <2> QED
    BY <2>9, <2>10
<1>11. CASE TurnsAway(c)
  <2>1. /\ call' = call /\ request[c].at = "sent"
        /\ executed' = executed /\ denied' = denied
    BY <1>11 DEF TurnsAway, serverVars
  <2>2. call[c].step \notin {"new", "connecting"}
    BY <2>1 DEF CallFits, NoRequest
  <2>3. c \in Mutations => call[c].outcome \notin Definite /\ c \notin executed
    BY <2>1 DEF MutationFits
  <2>4. PICK status \in Answers(c) \ {"200"} : Responds(c, status, None)
    BY <1>11 DEF TurnsAway
  <2>5. \/ request'[c] = NoRequest
        \/ request'[c] = [at |-> "answered", status |-> status, value |-> None]
    BY <2>4, RespondDoes
  <2>6. NoRequest.at = "none" /\ NoRequest.value = None
    BY DEF NoRequest
  <2>7. CallFits(c)'
    BY <2>1, <2>2, <2>5, <2>6 DEF CallFits
  <2>8. c \in Mutations => MutationFits(c)'
    BY <2>1, <2>2, <2>3, <2>5, <2>6 DEF MutationFits
  <2> QED
    BY <2>7, <2>8
<1>12. CASE CommandFails(c)
  BY <1>0, <1>12, OverFits DEF CommandFails, serverVars
<1> QED
  BY <1>1, <1>2, <1>3, <1>4, <1>5, <1>6, <1>7, <1>8, <1>9, <1>10, <1>11, <1>12
     DEF Step
-----------------------------------------------------------------------------
(* Values.                                                                 *)

LEMMA ServerMoves ==
    ASSUME [Next]_vars
    PROVE  (UNCHANGED <<version, until>>) \/ (Changes /\ now' = now)
<1>1. ASSUME NEW c \in Calls, Step(c)
      PROVE  (UNCHANGED <<version, until>>) \/ (Changes /\ now' = now)
  BY <1>1 DEF Step, FromCache, Posts, Refused, ConnectFails, Sends, Breaks, TimesOut,
              Succeeds, Refuses, CommandFails, Executes, TurnsAway, serverVars
<1> QED
  BY <1>1, Cases DEF ChangesByItself, Tick, vars, serverVars

LEMMA CacheMoves ==
    ASSUME [Next]_vars
    PROVE  \/ cache' = cache
           \/ cache' = None
           \/ \E c \in Reads : /\ Succeeds(c)
                               /\ cache' = [created |-> now, value |-> request[c].value]
<1>1. ASSUME NEW c \in Calls, Step(c)
      PROVE  \/ cache' = cache
             \/ cache' = None
             \/ /\ Succeeds(c) /\ c \in Reads
                /\ cache' = [created |-> now, value |-> request[c].value]
  BY <1>1 DEF Step, FromCache, Posts, Refused, ConnectFails, Sends, Breaks, TimesOut,
              Succeeds, Refuses, CommandFails, Executes, TurnsAway, Dropped
<1> QED
  BY <1>1, Cases DEF ChangesByItself, Tick, vars

LEMMA Clock ==
    ASSUME TypeOK, [Next]_vars
    PROVE  now \in Nat /\ (now' = now \/ (now' = now + 1 /\ Tick))
<1>1. ASSUME NEW c \in Calls, Step(c)
      PROVE  now' = now
  BY <1>1 DEF Step, FromCache, Posts, Refused, ConnectFails, Sends, Breaks, TimesOut,
              Succeeds, Refuses, CommandFails, Executes, TurnsAway
<1>2. now \in Nat
  BY Numbers DEF TypeOK
<1>3. Tick => now' = now + 1
  BY DEF Tick
<1>4. ChangesByItself \/ UNCHANGED vars => now' = now
  BY DEF ChangesByItself, vars
<1>5. now' = now \/ Tick
  <2>1. CASE Next
    BY <2>1, <1>1, <1>4, Cases, Zenon
  <2>2. CASE UNCHANGED vars
    BY <2>2, <1>4, Zenon
  <2> QED
    BY <2>1, <2>2
<1> QED
  BY <1>2, <1>3, <1>5, Zenon

LEMMA HistoryKept ==
    ASSUME TypeOK, HistoryFits, [Next]_vars
    PROVE  HistoryFits'
<1>1. /\ now \in Nat /\ now' \in Nat /\ now <= now'
  BY Clock
<1>2. version \in Versions /\ Versions \subseteq Int
  BY Numbers DEF TypeOK, Versions
<1>3. ASSUME NEW v \in Versions
      PROVE  until[v] \in Nat \cup {None}
  BY <1>3, Numbers DEF TypeOK
<1>4. ASSUME NEW v \in Versions
      PROVE  (v >= version' => until'[v] = None) /\ (until'[v] # None => until'[v] <= now')
  <2>1. (v >= version => until[v] = None) /\ (until[v] # None => until[v] <= now)
    BY <1>4 DEF HistoryFits
  <2>2. CASE UNCHANGED <<version, until>>
    BY <1>1, <1>3, <2>1, <2>2
  <2>3. CASE Changes /\ now' = now
    <3>1. until'[v] = IF v = version THEN now ELSE until[v]
      BY <2>3 DEF Changes, TypeOK
    <3>2. version' = version + 1
      BY <2>3 DEF Changes
    <3> QED
      BY <1>1, <1>2, <1>3, <2>1, <2>3, <3>1, <3>2
  <2> QED
    BY <2>2, <2>3, ServerMoves
<1>5. cache' # None => cache'.created <= now'
  <2>1. CASE cache' = cache
    <3>1. cache # None => cache.created \in Nat
      BY Numbers DEF TypeOK
    <3> QED
      BY <1>1, <2>1, <3>1 DEF HistoryFits
  <2>2. CASE \E c \in Reads : cache' = [created |-> now, value |-> request[c].value]
    BY <1>1, <2>2
  <2> QED
    BY <2>1, <2>2, CacheMoves
<1> QED
  BY <1>4, <1>5 DEF HistoryFits

(* What was true once stays so.                                            *)
LEMMA TrueStays ==
    ASSUME TypeOK, [Next]_vars, NEW v \in Versions, NEW t \in Int, t <= now, TrueAt(v, t)
    PROVE  until'[v] = None \/ until'[v] >= t
<1>1. CASE UNCHANGED <<version, until>>
  BY <1>1 DEF TrueAt
<1>2. CASE Changes /\ now' = now
  <2>1. until'[v] = IF v = version THEN now ELSE until[v]
    BY <1>2 DEF Changes, TypeOK
  <2> QED
    BY <2>1, Clock DEF TrueAt
<1> QED
  BY <1>1, <1>2, ServerMoves

LEMMA Left ==
    ASSUME TypeOK, NEW c \in Calls
    PROVE  call[c].left \in Nat /\ call[c].left <= Deadline
BY Numbers DEF TypeOK, Call

LEMMA OwnAnswerKept ==
    ASSUME TypeOK, HistoryFits, NEW c \in Reads, Step(c), CallFits(c), AnswerFits(c)
    PROVE  AnswerFits(c)'
<1>0. c \in Calls
  BY DEF Calls
<1>1. ASSUME NEW o, Over(c, o)
      PROVE  call'[c].step = "over"
  <2>1. call'[c] = [step |-> "over", left |-> 0, outcome |-> o]
    BY <1>0, <1>1, OverDoes, Zenon
  <2> QED
    BY <2>1
<1>2. CASE call'[c].step = "over"
  BY <1>2 DEF AnswerFits
<1>3. CASE Posts(c) \/ Sends(c)
  <2>1. request[c].value = None
    BY <1>3 DEF Posts, Sends, CallFits, NoRequest
  <2>2. request'[c].value = request[c].value
    BY <1>0, <1>3 DEF Posts, Sends, TypeOK, Request
  <2> QED
    BY <2>1, <2>2 DEF AnswerFits
<1>4. CASE Executes(c)
  <2>1. c \notin Mutations
    BY MikrusAssumption
  <2>2. until' = until
    BY <1>4, <2>1 DEF Executes, serverVars
  <2>3. until[version] = None
    BY Numbers DEF HistoryFits, TypeOK, Versions
  <2>4. PICK status \in Answers(c), v \in {version, None} :
          Responds(c, status, v)
    BY <1>4 DEF Executes
  <2>5. \/ request'[c] = NoRequest
        \/ request'[c] = [at |-> "answered", status |-> status, value |-> v]
    BY <1>0, <2>4, RespondDoes, Zenon
  <2>6. request'[c].value \in {version, None}
    BY <2>4, <2>5 DEF NoRequest
  <2> QED
    BY <2>2, <2>3, <2>6 DEF AnswerFits, TrueAt
<1>5. CASE TurnsAway(c)
  <2>1. PICK status \in Answers(c) \ {"200"} : Responds(c, status, None)
    BY <1>5 DEF TurnsAway
  <2>2. \/ request'[c] = NoRequest
        \/ request'[c] = [at |-> "answered", status |-> status, value |-> None]
    BY <1>0, <2>1, RespondDoes, Zenon
  <2>3. request'[c].value = None
    BY <2>2 DEF NoRequest
  <2> QED
    BY <2>3 DEF AnswerFits
<1>6. \/ \E o : Over(c, o)
      \/ Posts(c) \/ Sends(c) \/ Executes(c) \/ TurnsAway(c)
  BY DEF Step, FromCache, Refused, ConnectFails, Breaks, TimesOut, Succeeds, Refuses,
         CommandFails, Returns
<1> QED
  BY <1>1, <1>2, <1>3, <1>4, <1>5, <1>6

(* The steps of others, and time.                                          *)
LEMMA AnswerStays ==
    ASSUME TypeOK, [Next]_vars, NEW c \in Reads, AnswerFits(c), request'[c] = request[c],
           call'[c] = call[c], now' = now
    PROVE  AnswerFits(c)'
<1> DEFINE t == now - (Deadline - call[c].left)
<1>1. c \in Calls /\ now \in Nat
  BY Clock DEF Calls
<1>2. t \in Int /\ t <= now
  BY <1>1, Left, Numbers
<1>3. t = now' - (Deadline - call'[c].left)
  OBVIOUS
<1>4. request[c].value # None => request[c].value \in Versions
  BY <1>1 DEF TypeOK, Request
<1>5. call[c].step # "over" /\ request[c].value # None => TrueAt(request[c].value, t)
  BY DEF AnswerFits
<1> HIDE DEF t
<1>6. call[c].step # "over" /\ request[c].value # None =>
          until'[request[c].value] = None \/ until'[request[c].value] >= t
  BY <1>2, <1>4, <1>5, TrueStays
<1> QED
  BY <1>3, <1>6 DEF AnswerFits, TrueAt

LEMMA AnswerAges ==
    ASSUME TypeOK, Tick, NEW c \in Reads, CallFits(c), AnswerFits(c)
    PROVE  AnswerFits(c)'
<1>1. c \in Calls /\ now \in Nat /\ now' = now + 1
  BY Numbers DEF Calls, Tick, TypeOK
<1>2. request' = request /\ until' = until
  BY DEF Tick, serverVars
<1>3. call'[c] = IF call[c].left > 0 THEN [call[c] EXCEPT !.left = @ - 1] ELSE call[c]
  BY <1>1 DEF Tick
<1>4. call'[c].step = call[c].step
  BY <1>1, <1>3 DEF TypeOK, Call
<1>5. CASE call[c].left > 0
  <2>1. call'[c].left = call[c].left - 1
    BY <1>1, <1>3, <1>5 DEF TypeOK, Call
  <2>2. now' - (Deadline - call'[c].left) = now - (Deadline - call[c].left)
    BY <1>1, <2>1, Left, Numbers
  <2> QED
    BY <1>2, <1>4, <2>2 DEF AnswerFits, TrueAt
<1>6. CASE ~(call[c].left > 0)
  <2>1. call[c].step \in {"new", "over"}
    BY <1>1, <1>6 DEF Tick, TypeOK, Call
  <2>2. call[c].step = "over" \/ request[c].value = None
    BY <2>1 DEF CallFits, NoRequest
  <2> QED
    BY <1>2, <1>4, <2>2 DEF AnswerFits
<1> QED
  BY <1>5, <1>6

LEMMA AnswersKept ==
    ASSUME TypeOK, HistoryFits, [Next]_vars, NEW c \in Reads, CallFits(c), AnswerFits(c)
    PROVE  AnswerFits(c)'
<1>0. c \in Calls
  BY DEF Calls
<1>1. ASSUME NEW d \in Calls, Step(d) PROVE AnswerFits(c)'
  <2>1. CASE d = c
    BY <1>1, <2>1, OwnAnswerKept
  <2>2. CASE d # c
    <3>1. request'[c] = request[c] /\ call'[c] = call[c]
      BY <1>0, <1>1, <2>2, OthersAlone
    <3>2. now' = now
      BY <1>1 DEF Step, FromCache, Posts, Refused, ConnectFails, Sends, Breaks, TimesOut,
              Succeeds, Refuses, CommandFails, Executes, TurnsAway
    <3> QED
      BY <3>1, <3>2, AnswerStays
  <2> QED
    BY <2>1, <2>2
<1>2. CASE ChangesByItself \/ UNCHANGED vars
  BY <1>2, AnswerStays DEF ChangesByItself, vars
<1>3. CASE Tick
  BY <1>3, AnswerAges
<1> QED
  BY <1>1, <1>2, <1>3, Cases

LEMMA CacheKept ==
    ASSUME TypeOK, HistoryFits, [Next]_vars, CacheFits,
           \A c \in Calls : CallFits(c), \A c \in Reads : AnswerFits(c)
    PROVE  CacheFits'
<1>1. CASE cache' = cache /\ cache # None
  <2> DEFINE t == cache.created - Deadline
  <2>1. cache.created \in Nat /\ cache.value \in Versions /\ cache.created <= now /\ now \in Nat
    BY <1>1, Numbers, Clock DEF TypeOK, HistoryFits
  <2>2. t \in Int /\ t <= now
    BY <2>1, Numbers
  <2>3. TrueAt(cache.value, t)
    BY <1>1 DEF CacheFits
  <2>4. t = cache'.created - Deadline
    BY <1>1
  <2> HIDE DEF t
  <2>5. until'[cache.value] = None \/ until'[cache.value] >= t
    BY <2>1, <2>2, <2>3, TrueStays
  <2> QED
    BY <1>1, <2>4, <2>5 DEF CacheFits, TrueAt
<1>2. CASE cache' = None
  BY <1>2 DEF CacheFits
<1>3. ASSUME NEW c \in Reads, Succeeds(c),
             cache' = [created |-> now, value |-> request[c].value]
      PROVE  CacheFits'
  <2>1. /\ c \in Calls /\ now \in Nat
        /\ call[c].step = "waiting" /\ request[c].value # None
        /\ request[c].value \in Versions
    BY <1>3, Clock DEF Calls, Succeeds, Answered, CallFits, TypeOK, Request
  <2>2. TrueAt(request[c].value, now - (Deadline - call[c].left))
    BY <2>1 DEF AnswerFits
  <2>3. until[request[c].value] = None \/ until[request[c].value] \in Nat
    BY <2>1, Numbers DEF TypeOK
  <2>4. until[request[c].value] = None \/ until[request[c].value] >= now - Deadline
    BY <2>1, <2>2, <2>3, Left, Numbers DEF TrueAt
  <2>5. until' = until
    BY <1>3 DEF Succeeds, serverVars
  <2> QED
    BY <1>3, <2>4, <2>5 DEF CacheFits, TrueAt
<1> QED
  BY <1>1, <1>2, <1>3, CacheMoves
LEMMA StalenessKept ==
    ASSUME TypeOK, HistoryFits, CacheFits, StalenessIsBounded,
           \A c \in Reads : AnswerFits(c), \A c \in Mutations : MutationFits(c), [Next]_vars
    PROVE  StalenessIsBounded'
<1>1. age < TTL + Deadline /\ now \in Nat /\ age \in Nat
  BY Numbers, Clock DEF StalenessIsBounded, TypeOK
<1>2. ASSUME NEW v \in Versions PROVE until[v] \in Nat \cup {None}
  BY <1>2, Numbers DEF TypeOK
<1>3. ASSUME NEW c \in Calls, FromCache(c)
      PROVE  age' < TTL + Deadline
  <2>1. /\ cache.value \in Versions /\ cache.created \in Nat
        /\ now - cache.created < TTL
        /\ until[cache.value] = None \/ until[cache.value] >= cache.created - Deadline
    BY <1>3, Numbers DEF FromCache, Fresh, TypeOK, CacheFits, TrueAt
  <2>2. Untrue(cache.value) < TTL + Deadline
    BY <1>1, <1>2, <2>1, Numbers DEF Untrue
  <2>3. age' = age \/ age' = Untrue(cache.value)
    BY <1>3 DEF FromCache, Returns
  <2> QED
    BY <1>1, <2>2, <2>3
<1>4. ASSUME NEW c \in Reads, Succeeds(c)
      PROVE  age' < TTL + Deadline
  <2> DEFINE v == request[c].value
  <2>1. c \in Calls /\ call[c].step = "waiting" /\ v \in Versions \cup {None}
    BY <1>4 DEF Calls, Succeeds, Answered, TypeOK, Request
  <2>2. age' = age \/ (age' = Untrue(v) /\ v # None)
    BY <1>4, Zenon DEF Succeeds, Returns
  <2>3. v # None => until[v] = None \/ until[v] >= now - (Deadline - call[c].left)
    BY <2>1 DEF AnswerFits, TrueAt
  <2>4. v # None => Untrue(v) < TTL + Deadline
    BY <1>1, <1>2, <2>1, <2>3, Left, Numbers DEF Untrue
  <2> QED
    BY <1>1, <2>2, <2>4
<1>5. ASSUME NEW c \in Mutations, Succeeds(c)
      PROVE  age' = age
  BY <1>5 DEF Succeeds, Returns, MutationFits
<1>6. ASSUME NEW c \in Calls, Step(c), ~FromCache(c), ~Succeeds(c)
      PROVE  age' = age
  BY <1>6 DEF Step, Posts, Refused, ConnectFails, Sends, Breaks, TimesOut,
              Refuses, CommandFails, Executes, TurnsAway
<1>7. ChangesByItself \/ Tick \/ UNCHANGED vars => age' = age
  BY DEF ChangesByItself, Tick, vars
<1>8. age' < TTL + Deadline
  BY <1>1, <1>3, <1>4, <1>5, <1>6, <1>7, Cases DEF Calls
<1> QED
  BY <1>8 DEF StalenessIsBounded

-----------------------------------------------------------------------------
(* Time and the server leave calls as they are, but for what is left.      *)
LEMMA RestFits ==
    ASSUME TypeOK, ChangesByItself \/ Tick \/ UNCHANGED vars, NEW c \in Calls,
           CallFits(c), c \in Mutations => MutationFits(c)
    PROVE  CallFits(c)' /\ (c \in Mutations => MutationFits(c)')
<1>1. request' = request /\ executed' = executed /\ denied' = denied
  BY DEF ChangesByItself, Tick, vars, serverVars
<1>2. call'[c].step = call[c].step /\ call'[c].outcome = call[c].outcome
  <2>1. CASE Tick
    <3>1. call'[c] = IF call[c].left > 0 THEN [call[c] EXCEPT !.left = @ - 1] ELSE call[c]
      BY <2>1 DEF Tick
    <3> QED
      BY <3>1 DEF TypeOK, Call
  <2> QED
    BY <2>1 DEF ChangesByItself, vars
<1> QED
  BY <1>1, <1>2 DEF CallFits, MutationFits

LEMMA AllFitsKept ==
    ASSUME TypeOK, [Next]_vars, NEW c \in Calls,
           \A d \in Calls : CallFits(d), \A d \in Mutations : MutationFits(d)
    PROVE  CallFits(c)' /\ (c \in Mutations => MutationFits(c)')
<1>1. ASSUME NEW d \in Calls, Step(d)
      PROVE  CallFits(c)' /\ (c \in Mutations => MutationFits(c)')
  <2>1. CASE d = c
    BY <1>1, <2>1, FitsKept
  <2>2. CASE d # c
    <3>1. /\ call'[c] = call[c] /\ request'[c] = request[c]
          /\ c \in executed' <=> c \in executed
          /\ c \in denied' <=> c \in denied
      BY <1>1, <2>2, OthersAlone
    <3>2. CallFits(c) /\ (c \in Mutations => MutationFits(c))
      OBVIOUS
    <3> QED
      BY <3>1, <3>2 DEF CallFits, MutationFits
  <2> QED
    BY <2>1, <2>2
<1>2. CASE ChangesByItself \/ Tick \/ UNCHANGED vars
  BY <1>2, RestFits
<1> QED
  BY <1>1, <1>2, Cases

LEMMA Initially == ASSUME Init PROVE IInv
<1>1. TypeOK
  <2>1. call \in [Calls -> Call]
    <3>1. [step |-> "new", left |-> 0, outcome |-> None] \in Call
      BY Numbers DEF Call, Outcomes
    <3> QED
      BY <3>1 DEF Init
  <2>2. request \in [Calls -> Request]
    <3>1. NoRequest \in Request
      BY DEF NoRequest, Request
    <3> QED
      BY <3>1 DEF Init
  <2>3. version \in Versions /\ until \in [Versions -> 0 .. MaxTime \cup {None}]
    BY Numbers DEF Init, Versions
  <2> QED
    BY <2>1, <2>2, <2>3, Numbers DEF Init, TypeOK
<1>2. ASSUME NEW c \in Calls PROVE CallFits(c) /\ (c \in Mutations => MutationFits(c))
  BY MikrusAssumption DEF Init, CallFits, MutationFits, NoRequest, Definite
<1>3. HistoryFits /\ CacheFits
  BY DEF Init, HistoryFits, CacheFits
<1>4. ASSUME NEW c \in Reads PROVE AnswerFits(c)
  BY DEF Init, AnswerFits, NoRequest, Calls
<1>5. StalenessIsBounded
  BY Numbers DEF Init, StalenessIsBounded
<1> QED
  BY <1>1, <1>2, <1>3, <1>4, <1>5 DEF IInv, Calls

LEMMA Inductive == ASSUME IInv, [Next]_vars PROVE IInv'
<1>1. /\ TypeOK /\ HistoryFits /\ CacheFits /\ StalenessIsBounded
      /\ \A c \in Calls : CallFits(c)
      /\ \A c \in Mutations : MutationFits(c)
      /\ \A c \in Reads : AnswerFits(c) /\ CallFits(c)
  BY DEF IInv, Calls
<1>2. TypeOK'
  BY <1>1, TypesKept
<1>3. ASSUME NEW c \in Calls PROVE CallFits(c)' /\ (c \in Mutations => MutationFits(c)')
  BY <1>1, AllFitsKept
<1>4. HistoryFits'
  BY <1>1, HistoryKept
<1>5. ASSUME NEW c \in Reads PROVE AnswerFits(c)'
  BY <1>1, AnswersKept
<1>6. CacheFits'
  BY <1>1, CacheKept
<1>7. StalenessIsBounded'
  BY <1>1, StalenessKept
<1> QED
  BY <1>2, <1>3, <1>4, <1>5, <1>6, <1>7 DEF IInv, Calls

(* The inductive invariant: what a call, its request and the server's      *)
(* history may be to one another.                                          *)
THEOREM InvariantHolds == Spec => []IInv
<1>1. Init => IInv
  BY Initially
<1>2. IInv /\ [Next]_vars => IInv'
  BY Inductive
<1> QED
  BY <1>1, <1>2, PTL DEF Spec

(* Every variable keeps its type; no slot is more than an interval away.   *)
THEOREM TypeCorrect == Spec => []TypeOK
<1>1. IInv => TypeOK
  BY DEF IInv
<1> QED
  BY <1>1, InvariantHolds, PTL

(* A mutation that failed with a definite error is never executed, however *)
(* late its request arrives, but for one that the server executes and      *)
(* refuses (_request).                                                     *)
THEOREM DefiniteUntouched == Spec => []DefiniteMeansUntouched
<1>1. IInv => DefiniteMeansUntouched
  BY DEF IInv, MutationFits, DefiniteMeansUntouched
<1> QED
  BY <1>1, InvariantHolds, PTL

(* No read is staler than the lifetime of an entry and one call (_cached). *)
THEOREM StalenessBounded == Spec => []StalenessIsBounded
<1>1. IInv => StalenessIsBounded
  BY DEF IInv
<1> QED
  BY <1>1, InvariantHolds, PTL
=============================================================================
