------------------------- MODULE RemoteJobs_proofs -------------------------
(***************************************************************************)
(* Theorems about durable remote jobs end to end, for any callers, jobs,   *)
(* principals, servers, keys and request bindings, and any bound of the    *)
(* store.                                                                  *)
(***************************************************************************)
EXTENDS RemoteJobs, FiniteSetTheorems, TLAPS

Call == [step : {"idle", "over"} \cup StartSteps \cup LookupSteps,
         op : Lookups \cup {"start", None}, principal : Principals \cup {None},
         job : Jobs \cup {None}, seen : RemoteState \cup {None},
         error : {"upstream", "ambiguous", None}]

(* What a helper may see in a record.json that is there.                   *)
Shown == {"queued", "running"} \cup Settled

Started(c) == reply[c] \in {"started", "reconciled"}

(* The invocation that made a job's record, until its start has failed.    *)
Starter(c) == call[c].step \in StartSteps \/ Started(c)

(* A call speaks of a job of the store, and has seen what the host showed; *)
(* only a job's starter writes it off as lost.                             *)
CallFits(c) ==
    /\ call[c].job \in Stored \cup {None}
    /\ call[c].step \in StartSteps \cup LookupSteps => call[c].job \in Stored
    /\ Started(c) =>
        /\ call[c].step = "over"
        /\ call[c].job \in Stored
        /\ reached[call[c].job] # {}
    /\ call[c].step \in {"settle", "observe"} =>
        call[c].seen \in Shown \cap reached[call[c].job]
    /\ call[c].step = "forget" => call[c].error \in {"upstream", "ambiguous"}
    /\ Starter(c) => store[call[c].job].state # "lost"

OneStarter ==
    \A c, d \in Callers :
        Starter(c) /\ Starter(d) /\ call[c].job = call[d].job => c = d

KeysUnique ==
    \A i, j \in Stored : SameKey(store[i].request, store[j].request) => i = j

(* Nothing happens on the host for a job that has no record in the store.  *)
HostFits(j) ==
    /\ launches[j] \in {0, 1}
    /\ remote[j] = "absent" => launches[j] = 0 /\ reached[j] = {}
    /\ remote[j] # "absent" => remote[j] \in reached[j] /\ j \in Stored
    /\ rpc[j] # "none" => j \in Stored
    /\ rpc[j] = "done" => remote[j] # "absent"

IInv ==
    /\ TypeOK
    /\ call \in [Callers -> Call]
    /\ \A c \in Callers : CallFits(c)
    /\ OneStarter
    /\ KeysUnique
    /\ \A j \in Jobs : HostFits(j)
    /\ LocalFollowsRemote
-----------------------------------------------------------------------------
(* Records of calls.                                                       *)

Steps == {"idle", "over"} \cup StartSteps \cup LookupSteps

Ops == Lookups \cup {"start", None}

Errors == {"upstream", "ambiguous", None}

(* A record with these fields is the record of a call.                     *)
LEMMA CallRecord ==
    ASSUME NEW s \in Steps, NEW o \in Ops, NEW p \in Principals \cup {None},
           NEW j \in Jobs \cup {None}, NEW v \in RemoteState \cup {None}, NEW e \in Errors
    PROVE  [step |-> s, op |-> o, principal |-> p, job |-> j, seen |-> v, error |-> e] \in Call
BY Zenon DEF Call, Steps, Ops, Errors

(* The fields of a call record have their types.                           *)
LEMMA CallFields ==
    ASSUME NEW e \in Call
    PROVE  /\ e.step \in Steps /\ e.op \in Ops /\ e.principal \in Principals \cup {None}
           /\ e.job \in Jobs \cup {None} /\ e.seen \in RemoteState \cup {None}
           /\ e.error \in Errors
           /\ e = [step |-> e.step, op |-> e.op, principal |-> e.principal,
                   job |-> e.job, seen |-> e.seen, error |-> e.error]
BY DEF Call, Steps, Ops, Errors

(* The record of a call that is over.                                      *)
LEMMA OverRecord ==
    ASSUME NEW o \in Ops, NEW j \in Jobs \cup {None}
    PROVE  Over(o, j) \in Call /\ Over(o, j).step = "over" /\ Over(o, j).job = j
<1> DEFINE W == Over(o, j)
<1>0. W = [Idle EXCEPT !.step = "over", !.op = o, !.job = j]
  BY DEF Over
<1> HIDE DEF W
<1>1. W = [step |-> "over", op |-> o, principal |-> None, job |-> j, seen |-> None,
           error |-> None]
  BY <1>0 DEF Idle
<1>2. "over" \in Steps /\ None \in Errors /\ None \in RemoteState \cup {None}
        /\ None \in Principals \cup {None}
  BY DEF Steps, Errors
<1>3. W \in Call
  BY <1>1, <1>2, CallRecord, Zenon
<1>4. W.step = "over" /\ W.job = j
  BY <1>1
<1> QED
  BY <1>3, <1>4 DEF W

(* The record of a lookup that asks the host.                              *)
LEMMA AsksRecord ==
    ASSUME NEW p \in Principals, NEW o \in Lookups, NEW j \in Jobs
    PROVE  Asks(p, o, j) \in Call /\ Asks(p, o, j).step = "ask" /\ Asks(p, o, j).job = j
<1> DEFINE W == Asks(p, o, j)
<1>0. W = [Idle EXCEPT !.step = "ask", !.op = o, !.principal = p, !.job = j]
  BY DEF Asks
<1> HIDE DEF W
<1>1. W = [step |-> "ask", op |-> o, principal |-> p, job |-> j, seen |-> None,
           error |-> None]
  BY <1>0 DEF Idle
<1>2. "ask" \in Steps /\ o \in Ops /\ None \in Errors /\ None \in RemoteState \cup {None}
        /\ p \in Principals \cup {None} /\ j \in Jobs \cup {None}
  BY DEF Steps, LookupSteps, Ops, Errors
<1>3. W \in Call
  BY <1>1, <1>2, CallRecord, Zenon
<1>4. W.step = "ask" /\ W.job = j
  BY <1>1
<1> QED
  BY <1>3, <1>4 DEF W

Starting(p, j) ==
    [Idle EXCEPT !.step = "start", !.op = "start", !.principal = p, !.job = j]

(* The record of a start that has inserted its record.                     *)
LEMMA StartingRecord ==
    ASSUME NEW p \in Principals, NEW j \in Jobs
    PROVE  Starting(p, j) \in Call /\ Starting(p, j).step = "start" /\ Starting(p, j).job = j
<1> DEFINE W == Starting(p, j)
<1>0. W = [Idle EXCEPT !.step = "start", !.op = "start", !.principal = p, !.job = j]
  BY DEF Starting
<1> HIDE DEF W
<1>1. W = [step |-> "start", op |-> "start", principal |-> p, job |-> j, seen |-> None,
           error |-> None]
  BY <1>0 DEF Idle
<1>2. "start" \in Steps /\ "start" \in Ops /\ None \in Errors /\ None \in RemoteState \cup {None}
        /\ p \in Principals \cup {None} /\ j \in Jobs \cup {None}
  BY DEF Steps, StartSteps, Ops, Errors
<1>3. W \in Call
  BY <1>1, <1>2, CallRecord, Zenon
<1>4. W.step = "start" /\ W.job = j
  BY <1>1
<1> QED
  BY <1>3, <1>4 DEF W

(* The record of a call that goes on, with what it has seen and how it     *)
(* failed.                                                                 *)
LEMMA GoesOnRecord ==
    ASSUME NEW e \in Call, NEW s \in Steps, NEW v \in RemoteState \cup {None},
           NEW x \in Errors, NEW W,
           W = [step |-> s, op |-> e.op, principal |-> e.principal, job |-> e.job,
                seen |-> v, error |-> x]
    PROVE  /\ W \in Call /\ W.step = s /\ W.job = e.job /\ W.seen = v /\ W.error = x
<1>1. W \in Call
  BY CallFields, CallRecord
<1> QED
  BY <1>1
-----------------------------------------------------------------------------
(* The store.                                                              *)

(* What a transaction of c may do to the records that are there.           *)
Steady(c) ==
    /\ store' \in [Jobs -> LocalRecord \cup {None}]
    /\ Stored' = Stored
    /\ \A j \in Stored :
        /\ store'[j].request = store[j].request
        /\ store[j].state \in LocalTerminal => store'[j].state = store[j].state
        /\ store'[j].state \in {store[j].state, "expired", "lost"} \cup reached[j]
        /\ store'[j].state = "lost" =>
            store[j].state = "lost" \/ (Starter(c) /\ call[c].job = j)

(* A record of the store has a request and a state.                        *)
LEMMA StoredRecord ==
    ASSUME TypeOK, NEW j \in Stored
    PROVE  /\ j \in Jobs /\ j # None /\ store[j] \in LocalRecord /\ store[j] # None
           /\ store[j].state \in LocalState /\ store[j].request \in Request
BY RemoteJobsAssumption, RecordAssumption DEF TypeOK, Stored, LocalRecord

(* The records with another state are records.                             *)
LEMMA WithState ==
    ASSUME NEW r \in LocalRecord, NEW s \in LocalState
    PROVE  /\ [r EXCEPT !.state = s] \in LocalRecord
           /\ [r EXCEPT !.state = s] # None
           /\ [r EXCEPT !.state = s].state = s
           /\ [r EXCEPT !.state = s].request = r.request
BY RecordAssumption DEF LocalRecord

(* Reading the store is steady.                                            *)
LEMMA UnchangedSteady ==
    ASSUME TypeOK, UNCHANGED store, NEW c \in Callers
    PROVE  Steady(c)
BY DEF Steady, TypeOK, Stored

(* Pruning a record keeps its request, and a terminal one altogether.      *)
LEMMA PrunedRecord ==
    ASSUME TypeOK, NEW j \in Jobs
    PROVE  /\ Pruned[j] \in LocalRecord \cup {None}
           /\ (Pruned[j] # None) <=> (store[j] # None)
           /\ store[j] # None =>
                /\ Pruned[j].request = store[j].request
                /\ Pruned[j].state \in {store[j].state, "expired"}
                /\ store[j].state \in LocalTerminal => Pruned[j].state = store[j].state
<1>1. CASE store[j] # None /\ aged[j] /\ store[j].state \in {"queued", "running"}
  <2>1. Pruned[j] = [store[j] EXCEPT !.state = "expired"]
    BY <1>1 DEF Pruned
  <2>2. store[j] \in LocalRecord /\ "expired" \in LocalState
    BY <1>1 DEF TypeOK, LocalState, LocalTerminal
  <2>3. store[j].state \notin LocalTerminal
    BY <1>1 DEF LocalTerminal
  <2> QED
    BY <1>1, <2>1, <2>2, <2>3, WithState
<1>2. CASE ~(store[j] # None /\ aged[j] /\ store[j].state \in {"queued", "running"})
  BY <1>2 DEF Pruned, TypeOK
<1> QED
  BY <1>1, <1>2

(* Pruning is steady.                                                      *)
LEMMA PrunedSteady ==
    ASSUME TypeOK, store' = Pruned, NEW c \in Callers
    PROVE  Steady(c)
<1>1. store' \in [Jobs -> LocalRecord \cup {None}]
  BY PrunedRecord DEF Pruned
<1>2. Stored' = Stored
  BY PrunedRecord DEF Stored
<1> QED
  BY <1>1, <1>2, PrunedRecord DEF Steady, Stored

(* A transition to an observed state is steady; only its starter writes a  *)
(* job off as lost.                                                        *)
LEMMA SetSteady ==
    ASSUME TypeOK, NEW c \in Callers, call[c].job \in Stored, NEW s \in LocalState,
           SetLocal(call[c].job, s), CanTransition(store[call[c].job].state, s),
           s \in reached[call[c].job] \/ s = "lost",
           s = "lost" => Starter(c)
    PROVE  Steady(c)
<1> DEFINE i == call[c].job
<1>1. i \in Jobs /\ store[i] \in LocalRecord /\ store[i] # None
  BY StoredRecord
<1>2. store' = [store EXCEPT ![i] = [store[i] EXCEPT !.state = s]]
  BY DEF SetLocal
<1> HIDE DEF i
<1>3. /\ store'[i] = [store[i] EXCEPT !.state = s]
      /\ \A j \in Jobs : j # i => store'[j] = store[j]
      /\ store \in [Jobs -> LocalRecord \cup {None}]
  BY <1>1, <1>2 DEF TypeOK
<1>4. /\ store'[i] \in LocalRecord /\ store'[i] # None
      /\ store'[i].state = s /\ store'[i].request = store[i].request
  BY <1>1, <1>3, WithState
<1>5. store' \in [Jobs -> LocalRecord \cup {None}]
  BY <1>2, <1>3, <1>4
<1>6. Stored' = Stored
  BY <1>1, <1>3, <1>4 DEF Stored
<1>7. store[i].state \in LocalTerminal => s = store[i].state
  BY DEF CanTransition, i
<1>8. ASSUME NEW j \in Stored
      PROVE  /\ store'[j].request = store[j].request
             /\ store[j].state \in LocalTerminal => store'[j].state = store[j].state
             /\ store'[j].state \in {store[j].state, "expired", "lost"} \cup reached[j]
             /\ store'[j].state = "lost" =>
                  store[j].state = "lost" \/ (Starter(c) /\ call[c].job = j)
  <2>1. CASE j = i
    BY <1>4, <1>7, <2>1 DEF i
  <2>2. CASE j # i
    BY <1>3, <2>2 DEF Stored
  <2> QED
    BY <2>1, <2>2
<1> QED
  BY <1>5, <1>6, <1>8 DEF Steady

(* A steady transaction keeps what is said of the store alone.             *)
LEMMA SteadyKeeps ==
    ASSUME IInv, NEW c \in Callers, Steady(c), UNCHANGED <<archived, reached>>
    PROVE  /\ KeysUnique' /\ LocalFollowsRemote'
           /\ Cardinality({j \in Jobs : store'[j] # None}) + archived' <= MaxRecords
<1>1. {j \in Jobs : store'[j] # None} = {j \in Jobs : store[j] # None}
  BY DEF Steady, Stored
<1>2. Cardinality({j \in Jobs : store'[j] # None}) + archived' <= MaxRecords
  BY <1>1 DEF IInv, TypeOK
<1>3. KeysUnique'
  BY DEF IInv, KeysUnique, Steady
<1>4. ASSUME NEW j \in Stored, store'[j].state \in {"running"} \cup Settled
      PROVE  store'[j].state \in reached[j]
  <2>1. store'[j].state \notin {"expired", "lost"}
    BY <1>4 DEF Settled
  <2> QED
    BY <1>4, <2>1 DEF IInv, LocalFollowsRemote, Steady
<1>5. LocalFollowsRemote'
  BY <1>4 DEF LocalFollowsRemote, Steady
<1> QED
  BY <1>2, <1>3, <1>5
-----------------------------------------------------------------------------
(* The calls.                                                              *)

Outcomes == {"none", "started", "reused", "reconciled", "observed", "tombstone",
             "not_found", "conflict", "ambiguous", "upstream", "internal", "failed",
             "abandoned"}

(* A change of one call leaves what the others say in place, as long as    *)
(* the store and the host only add to what they know.                      *)
LEMMA OthersFit ==
    ASSUME IInv, NEW c \in Callers, NEW e \in Call, NEW o \in Outcomes,
           call' = [call EXCEPT ![c] = e], reply' = [reply EXCEPT ![c] = o],
           Stored \subseteq Stored',
           \A j \in Jobs : reached[j] \subseteq reached'[j],
           \A j \in Stored : store'[j].state = "lost" =>
                store[j].state = "lost" \/ (Starter(c) /\ call[c].job = j),
           e = call'[c] /\ o = reply'[c] => CallFits(c)',
           Starter(c)' => \/ Starter(c) /\ e.job = call[c].job
                          \/ e.job \notin Stored
    PROVE  /\ call' \in [Callers -> Call] /\ reply' \in [Callers -> Outcomes]
           /\ (\A d \in Callers : CallFits(d))' /\ OneStarter'
<1>1. call \in [Callers -> Call] /\ reply \in [Callers -> Outcomes]
  BY DEF IInv, TypeOK, Outcomes
<1>2. /\ call'[c] = e /\ reply'[c] = o
      /\ call' \in [Callers -> Call] /\ reply' \in [Callers -> Outcomes]
      /\ \A d \in Callers : d # c => call'[d] = call[d] /\ reply'[d] = reply[d]
  BY <1>1
<1>3. \A d \in Callers : d # c => (Starter(d)' <=> Starter(d)) /\ (Started(d)' <=> Started(d))
  BY <1>2 DEF Starter, Started
<1>4. \A d \in Callers : CallFits(d) /\ (Starter(d) => call[d].job \in Stored)
  BY DEF IInv, CallFits, Starter
<1>5. ASSUME NEW d \in Callers, d # c
      PROVE  CallFits(d)'
  <2>1. CallFits(d) /\ call'[d] = call[d] /\ (Starter(d)' <=> Starter(d))
          /\ (Started(d)' <=> Started(d))
    BY <1>2, <1>3, <1>4, <1>5
  <2>2. call[d].job \in Stored => reached[call[d].job] \subseteq reached'[call[d].job]
    BY DEF Stored
  <2>3. call'[d].job \in (Stored \cup {None})'
    BY <2>1 DEF CallFits
  <2>4. call'[d].step \in StartSteps \cup LookupSteps => call'[d].job \in Stored'
    BY <2>1 DEF CallFits
  <2>5. Started(d)' => /\ call'[d].step = "over" /\ call'[d].job \in Stored'
                       /\ reached'[call'[d].job] # {}
    BY <2>1, <2>2 DEF CallFits
  <2>6. call'[d].step \in {"settle", "observe"} =>
          call'[d].seen \in Shown \cap reached'[call'[d].job]
    BY <2>1, <2>2 DEF CallFits, StartSteps, LookupSteps
  <2>7. call'[d].step = "forget" => call'[d].error \in {"upstream", "ambiguous"}
    BY <2>1 DEF CallFits
  <2>8. Starter(d)' => store'[call'[d].job].state # "lost"
    <3>1. SUFFICES ASSUME Starter(d), store'[call[d].job].state = "lost" PROVE FALSE
      BY <2>1
    <3>2. call[d].job \in Stored /\ store[call[d].job].state # "lost"
      BY <1>4, <2>1, <3>1 DEF CallFits
    <3>3. Starter(c) /\ call[c].job = call[d].job
      BY <3>1, <3>2
    <3> QED
      BY <1>5, <3>1, <3>3 DEF IInv, OneStarter
  <2> QED
    BY <2>3, <2>4, <2>5, <2>6, <2>7, <2>8 DEF CallFits
<1>6. CallFits(c)'
  BY <1>2
<1>7. OneStarter'
  <2>1. ASSUME NEW d \in Callers, d # c, Starter(c)', Starter(d)', call'[c].job = call'[d].job
        PROVE  FALSE
    <3>1. Starter(d) /\ call[d].job = e.job /\ call[d].job \in Stored
      BY <1>2, <1>3, <1>4, <2>1
    <3>2. Starter(c) /\ call[c].job = call[d].job
      BY <2>1, <3>1
    <3> QED
      BY <2>1, <3>1, <3>2 DEF IInv, OneStarter
  <2>2. ASSUME NEW a \in Callers, NEW d \in Callers, a # c, d # c, Starter(a)', Starter(d)',
               call'[a].job = call'[d].job
        PROVE  a = d
    BY <1>2, <1>3, <2>2 DEF IInv, OneStarter
  <2> QED
    BY <2>1, <2>2 DEF OneStarter
<1> QED
  BY <1>2, <1>5, <1>6, <1>7

(* What the store does not touch of the host.                              *)
LEMMA HostStays ==
    ASSUME IInv, UNCHANGED hostVars, Stored \subseteq Stored'
    PROVE  (\A j \in Jobs : HostFits(j))'
BY DEF IInv, HostFits, hostVars

(* A step of a caller, with its new record and reply.                      *)
LEMMA CallerKeeps ==
    ASSUME IInv, NEW c \in Callers, NEW e \in Call, NEW o \in Outcomes,
           call' = [call EXCEPT ![c] = e], reply' = [reply EXCEPT ![c] = o],
           Steady(c), UNCHANGED <<archived, aged, hostVars>>,
           e = call'[c] /\ o = reply'[c] => CallFits(c)',
           Starter(c)' => Starter(c) /\ e.job = call[c].job
    PROVE  IInv'
<1>1. Stored' = Stored /\ UNCHANGED <<archived, reached>>
  BY DEF Steady, hostVars
<1>2. \A j \in Stored : store'[j].state = "lost" =>
            store[j].state = "lost" \/ (Starter(c) /\ call[c].job = j)
  BY DEF Steady
<1>3. /\ call' \in [Callers -> Call] /\ reply' \in [Callers -> Outcomes]
      /\ (\A d \in Callers : CallFits(d))' /\ OneStarter'
  BY <1>1, <1>2, OthersFit
<1>4. (\A j \in Jobs : HostFits(j))'
  BY <1>1, HostStays
<1>5. /\ KeysUnique' /\ LocalFollowsRemote'
      /\ Cardinality({j \in Jobs : store'[j] # None}) + archived' <= MaxRecords
  BY <1>1, SteadyKeeps
<1>6. \A d \in Callers :
        /\ call'[d].step \in {"idle", "over"} \cup StartSteps \cup LookupSteps
        /\ call'[d].op \in Lookups \cup {"start", None}
        /\ call'[d].principal \in Principals \cup {None}
        /\ call'[d].job \in Jobs \cup {None}
        /\ call'[d].seen \in RemoteState \cup {None}
  BY <1>3 DEF Call
<1>7. TypeOK'
  BY <1>3, <1>5, <1>6 DEF IInv, TypeOK, Steady, hostVars, Outcomes
<1> QED
  BY <1>3, <1>4, <1>5, <1>7 DEF IInv

(* An invocation ends without having started anything.                     *)
LEMMA EndsKeeps ==
    ASSUME IInv, NEW c \in Callers, NEW p \in Ops, NEW j \in Stored \cup {None},
           NEW o \in Outcomes \ {"started", "reconciled"},
           call' = [call EXCEPT ![c] = Over(p, j)], reply' = [reply EXCEPT ![c] = o],
           Steady(c), UNCHANGED <<archived, aged, hostVars>>
    PROVE  IInv'
<1> DEFINE e == Over(p, j)
<1>1. j \in Jobs \cup {None}
  BY DEF Stored
<1>2. e \in Call /\ e.step = "over" /\ e.job = j
  BY <1>1, OverRecord
<1>3. call' = [call EXCEPT ![c] = e]
  OBVIOUS
<1> HIDE DEF e
<1>4. call'[c] = e /\ reply'[c] = o
  BY <1>3 DEF IInv, TypeOK
<1>5. ~Started(c)' /\ ~Starter(c)'
  BY <1>2, <1>4 DEF Started, Starter, StartSteps
<1>6. CallFits(c)'
  BY <1>2, <1>4, <1>5 DEF CallFits, Steady, StartSteps, LookupSteps
<1> QED
  BY <1>2, <1>3, <1>5, <1>6, CallerKeeps DEF Outcomes

(* An invocation ends with the host's word that the job was accepted.      *)
LEMMA SucceedsKeeps ==
    ASSUME IInv, NEW c \in Callers, NEW p \in Ops, NEW o \in {"started", "reconciled"},
           call[c].step \in StartSteps, reached[call[c].job] # {},
           store'[call[c].job].state = "lost" => store[call[c].job].state = "lost",
           call' = [call EXCEPT ![c] = Over(p, call[c].job)],
           reply' = [reply EXCEPT ![c] = o],
           Steady(c), UNCHANGED <<archived, aged, hostVars>>
    PROVE  IInv'
<1> DEFINE j == call[c].job
           e == Over(p, j)
<1>1. Starter(c) /\ j \in Stored /\ store[j].state # "lost"
  BY DEF IInv, CallFits, Starter
<1>2. j \in Jobs /\ reached[j] # {} /\ store'[j].state # "lost"
  BY <1>1 DEF Stored
<1>3. e \in Call /\ e.step = "over" /\ e.job = j
  BY <1>2, OverRecord
<1>4. call' = [call EXCEPT ![c] = e]
  OBVIOUS
<1> HIDE DEF e
<1>5. call'[c] = e /\ reply'[c] = o
  BY <1>4 DEF IInv, TypeOK
<1> HIDE DEF j
<1>6. CallFits(c)'
  BY <1>1, <1>2, <1>3, <1>5 DEF CallFits, Steady, StartSteps, LookupSteps, hostVars
<1>7. Starter(c) /\ e.job = call[c].job
  BY <1>1, <1>3 DEF j
<1> QED
  BY <1>3, <1>4, <1>6, <1>7, CallerKeeps DEF Outcomes

With(c, s, v, x) ==
    [step |-> s, op |-> call[c].op, principal |-> call[c].principal,
     job |-> call[c].job, seen |-> v, error |-> x]

(* The fields of every call have their types.                              *)
LEMMA CallsTyped ==
    ASSUME NEW f \in [Callers -> Call], NEW d \in Callers
    PROVE  /\ f[d].step \in {"idle", "over"} \cup StartSteps \cup LookupSteps
           /\ f[d].op \in Lookups \cup {"start", None}
           /\ f[d].principal \in Principals \cup {None}
           /\ f[d].job \in Jobs \cup {None}
           /\ f[d].seen \in RemoteState \cup {None}
BY DEF Call

CallsFitNext ==
    /\ call' \in [Callers -> Call] /\ reply' \in [Callers -> Outcomes]
    /\ (\A d \in Callers : CallFits(d))' /\ OneStarter'

(* An invocation under way that goes on to its next step, while the host   *)
(* may add to what it has shown.                                           *)
LEMMA GoesOnCalls ==
    ASSUME IInv, NEW c \in Callers, NEW s \in StartSteps \cup LookupSteps,
           NEW v \in RemoteState \cup {None}, NEW x \in Errors,
           call[c].step \in StartSteps \cup LookupSteps,
           s \in StartSteps <=> call[c].step \in StartSteps,
           s \in {"settle", "observe"} => v \in Shown \cap reached'[call[c].job],
           s = "forget" => x \in {"upstream", "ambiguous"},
           call' = [call EXCEPT ![c] = With(c, s, v, x)],
           UNCHANGED <<store, reply>>,
           \A j \in Jobs : reached[j] \subseteq reached'[j]
    PROVE  CallsFitNext
<1> DEFINE e == With(c, s, v, x)
<1>0. e = With(c, s, v, x) /\ call' = [call EXCEPT ![c] = e]
  OBVIOUS
<1> HIDE DEF e
<1>1. call[c] \in Call /\ call \in [Callers -> Call] /\ reply \in [Callers -> Outcomes]
  BY DEF IInv, TypeOK, Outcomes
<1>2. s \in Steps
  BY DEF Steps
<1>3. e \in Call /\ e.step = s /\ e.job = call[c].job /\ e.seen = v /\ e.error = x
  BY <1>0, <1>1, <1>2, GoesOnRecord DEF With
<1>4. call'[c] = e /\ reply'[c] = reply[c]
  BY <1>0, <1>1
<1>5. call[c].step # "over"
  BY DEF StartSteps, LookupSteps
<1>6. ~Started(c) /\ ~Started(c)' /\ call[c].job \in Stored
  BY <1>4, <1>5 DEF IInv, CallFits, Started
<1>7. Starter(c)' => Starter(c) /\ store[call[c].job].state # "lost"
  BY <1>3, <1>4, <1>6 DEF Starter, IInv, CallFits
<1>8. CallFits(c)'
  BY <1>3, <1>4, <1>6, <1>7 DEF CallFits, Stored, StartSteps, LookupSteps
<1>9. Stored \subseteq Stored' /\ \A j \in Stored : store'[j].state = "lost" => store[j].state = "lost"
  BY DEF Stored
<1>10. reply[c] \in Outcomes /\ reply' = [reply EXCEPT ![c] = reply[c]]
  BY <1>1
<1>11. /\ call' \in [Callers -> Call] /\ reply' \in [Callers -> Outcomes]
       /\ (\A d \in Callers : CallFits(d))' /\ OneStarter'
  <2>1. e \in Call /\ call' = [call EXCEPT ![c] = e]
    BY <1>0, <1>3
  <2>2. Starter(c)' => Starter(c) /\ e.job = call[c].job
    BY <1>3, <1>7
  <2> QED
    BY <1>8, <1>9, <1>10, <2>1, <2>2, OthersFit
<1> QED
  BY <1>11 DEF CallsFitNext

(* The same while store and host stay as they are.                         *)
LEMMA GoesOnKeeps ==
    ASSUME IInv, NEW c \in Callers, NEW s \in StartSteps \cup LookupSteps,
           NEW v \in RemoteState \cup {None}, NEW x \in Errors,
           call[c].step \in StartSteps \cup LookupSteps,
           s \in StartSteps <=> call[c].step \in StartSteps,
           s \in {"settle", "observe"} => v \in Shown \cap reached[call[c].job],
           s = "forget" => x \in {"upstream", "ambiguous"},
           call' = [call EXCEPT ![c] = With(c, s, v, x)],
           UNCHANGED <<store, archived, aged, reply, hostVars>>
    PROVE  IInv'
<1>1. /\ UNCHANGED <<reached, archived>> /\ UNCHANGED <<store, reply>> /\ TypeOK
      /\ (s \in {"settle", "observe"} => v \in Shown \cap reached'[call[c].job])
      /\ (\A j \in Jobs : reached[j] \subseteq reached'[j])
  BY DEF hostVars, IInv
<1>2. CallsFitNext
  BY <1>1, GoesOnCalls
<1>3. Steady(c) /\ Stored \subseteq Stored'
  BY <1>1, UnchangedSteady DEF Stored
<1>4. (\A j \in Jobs : HostFits(j))'
  BY <1>3, HostStays
<1>5. KeysUnique' /\ LocalFollowsRemote'
  BY <1>1, <1>3, SteadyKeeps
<1>6. TypeOK'
  BY <1>1, <1>2, CallsTyped, ZenonT(40)
  DEF CallsFitNext, TypeOK, hostVars, Outcomes
<1> QED
  BY <1>2, <1>4, <1>5, <1>6 DEF IInv, CallsFitNext

(* Another step of a call, as a change of its record.                      *)
LEMMA StepForm ==
    ASSUME call \in [Callers -> Call], NEW c \in Callers, NEW s
    PROVE  [call EXCEPT ![c].step = s] = [call EXCEPT ![c] = With(c, s, call[c].seen, call[c].error)]
<1> DEFINE r == call[c]
           W == [r EXCEPT !.step = s]
<1>1. r = [step |-> r.step, op |-> r.op, principal |-> r.principal,
           job |-> r.job, seen |-> r.seen, error |-> r.error]
  BY CallFields
<1>2. [call EXCEPT ![c].step = s] = [call EXCEPT ![c] = W]
  OBVIOUS
<1>3. W = [r EXCEPT !.step = s]
  OBVIOUS
<1> HIDE DEF r, W
<1>4. W = [step |-> s, op |-> r.op, principal |-> r.principal, job |-> r.job,
           seen |-> r.seen, error |-> r.error]
  BY <1>1, <1>3
<1>5. W = With(c, s, call[c].seen, call[c].error)
  BY <1>4 DEF With, r
<1> QED
  BY <1>2, <1>5

(* The same, with what the host showed.                                    *)
LEMMA SeenForm ==
    ASSUME call \in [Callers -> Call], NEW c \in Callers, NEW s, NEW v
    PROVE  [call EXCEPT ![c].step = s, ![c].seen = v] = [call EXCEPT ![c] = With(c, s, v, call[c].error)]
<1> DEFINE r == call[c]
           W == [r EXCEPT !.step = s, !.seen = v]
<1>1. r = [step |-> r.step, op |-> r.op, principal |-> r.principal,
           job |-> r.job, seen |-> r.seen, error |-> r.error]
  BY CallFields
<1>2. [call EXCEPT ![c].step = s, ![c].seen = v] = [call EXCEPT ![c] = W]
  OBVIOUS
<1>3. W = [r EXCEPT !.step = s, !.seen = v]
  OBVIOUS
<1> HIDE DEF r, W
<1>4. W = [step |-> s, op |-> r.op, principal |-> r.principal, job |-> r.job,
           seen |-> v, error |-> r.error]
  BY <1>1, <1>3
<1>5. W = With(c, s, v, call[c].error)
  BY <1>4 DEF With, r
<1> QED
  BY <1>2, <1>5

(* The same, with the error of the start.                                  *)
LEMMA ErrorForm ==
    ASSUME call \in [Callers -> Call], NEW c \in Callers, StartFails(c) \/ VerifyFails(c)
    PROVE  \E x \in {"upstream", "ambiguous"} :
                call' = [call EXCEPT ![c] = With(c, "forget", call[c].seen, x)]
<1>1. PICK x \in {"upstream", "ambiguous"} :
        call' = [call EXCEPT ![c].step = "forget", ![c].error = x]
  BY DEF StartFails, VerifyFails
<1> DEFINE r == call[c]
           W == [r EXCEPT !.step = "forget", !.error = x]
<1>2. r = [step |-> r.step, op |-> r.op, principal |-> r.principal,
           job |-> r.job, seen |-> r.seen, error |-> r.error]
  BY CallFields
<1>3. call' = [call EXCEPT ![c] = W]
  BY <1>1
<1>4. W = [r EXCEPT !.step = "forget", !.error = x]
  OBVIOUS
<1> HIDE DEF r, W
<1>5. W = [step |-> "forget", op |-> r.op, principal |-> r.principal, job |-> r.job,
           seen |-> r.seen, error |-> x]
  BY <1>2, <1>4
<1>6. W = With(c, "forget", call[c].seen, x)
  BY <1>5 DEF With, r
<1> QED
  BY <1>3, <1>6

(* The calls that stay where they are while the host moves.                *)
LEMMA CallsFit ==
    ASSUME IInv, UNCHANGED <<store, call, reply>>,
           \A j \in Jobs : reached[j] \subseteq reached'[j]
    PROVE  /\ (\A d \in Callers : CallFits(d))' /\ OneStarter' /\ KeysUnique'
           /\ LocalFollowsRemote'
<1>1. Stored' = Stored
  BY DEF Stored
<1>2. ASSUME NEW d \in Callers PROVE CallFits(d)'
  <2>1. CallFits(d) /\ (Starter(d)' <=> Starter(d)) /\ (Started(d)' <=> Started(d))
    BY DEF IInv, Starter, Started
  <2>2. call[d].job \in Stored => reached[call[d].job] \subseteq reached'[call[d].job]
    BY DEF Stored
  <2> QED
    BY <1>1, <2>1, <2>2 DEF CallFits, StartSteps, LookupSteps
<1>3. OneStarter' /\ KeysUnique'
  BY <1>1 DEF IInv, OneStarter, KeysUnique, Starter, Started
<1>4. LocalFollowsRemote'
  BY <1>1 DEF IInv, LocalFollowsRemote, Stored
<1> QED
  BY <1>2, <1>3, <1>4

-----------------------------------------------------------------------------
(* remote_job_start.                                                       *)

(* A key that is found is not inserted again.                              *)
LEMMA KeyReusedKeeps ==
    ASSUME IInv, NEW c \in Callers, NEW request \in Request, KeyReused(c, request)
    PROVE  IInv'
<1>1. PICK j \in Existing(request) :
        /\ call' = [call EXCEPT ![c] = Over("start", j)]
        /\ reply' = [reply EXCEPT ![c] = IF store[j].request.binding = request.binding
                                        THEN "reused" ELSE "conflict"]
  BY DEF KeyReused
<1>2. j \in Stored \cup {None} /\ "start" \in Ops
  BY DEF Existing, Ops
<1>3. Steady(c) /\ UNCHANGED <<archived, aged, hostVars>>
  BY PrunedSteady DEF KeyReused, IInv
<1> DEFINE o == IF store[j].request.binding = request.binding THEN "reused" ELSE "conflict"
<1>4. o \in Outcomes \ {"started", "reconciled"} /\ reply' = [reply EXCEPT ![c] = o]
        /\ call' = [call EXCEPT ![c] = Over("start", j)]
  BY <1>1 DEF Outcomes
<1> HIDE DEF o
<1> QED
  BY <1>2, <1>3, <1>4, EndsKeeps

(* Replying ends an invocation; what the reply is decides what it claims.  *)
LEMMA RepliesKeeps ==
    ASSUME IInv, NEW c \in Callers, NEW o \in Outcomes \ {"started", "reconciled"},
           Replies(c, o), Steady(c), UNCHANGED <<archived, aged, hostVars>>
    PROVE  IInv'
<1>1. call[c] \in Call /\ call[c].op \in Ops /\ CallFits(c)
  BY CallFields DEF IInv
<1>2. call[c].job \in Stored \cup {None}
  BY <1>1 DEF CallFits
<1>3. call' = [call EXCEPT ![c] = Over(call[c].op, call[c].job)]
        /\ reply' = [reply EXCEPT ![c] = o]
  BY DEF Replies, IInv
<1> QED
  BY <1>1, <1>2, <1>3, EndsKeeps

(* A full store refuses.                                                   *)
LEMMA StoreFullKeeps ==
    ASSUME IInv, NEW c \in Callers, NEW request \in Request, StoreFull(c, request)
    PROVE  IInv'
<1>1. Steady(c) /\ Replies(c, "internal") /\ UNCHANGED <<archived, aged, hostVars>>
  BY PrunedSteady DEF StoreFull, IInv
<1>2. "internal" \in Outcomes \ {"started", "reconciled"}
  BY DEF Outcomes
<1> QED
  BY <1>1, <1>2, RepliesKeeps

(* Reconciling an observation is steady, and never writes a job off.       *)
LEMMA ReconcileDoes ==
    ASSUME IInv, NEW c \in Callers, call[c].step \in {"settle", "observe"},
           NEW o, Reconcile(c, o)
    PROVE  /\ Steady(c)
           /\ store'[call[c].job].state = "lost" => store[call[c].job].state = "lost"
           /\ Replies(c, o) \/ Replies(c, "internal")
<1> DEFINE j == call[c].job
           s == call[c].seen
<1>1. TypeOK /\ CallFits(c)
  BY DEF IInv
<1>2. j \in Stored /\ s \in Shown \cap reached[j]
  BY <1>1 DEF CallFits, StartSteps, LookupSteps
<1>3. s \in LocalState /\ s # "lost"
  BY <1>2 DEF Shown, LocalState, LocalTerminal, Settled
<1>4. Replies(c, o) \/ Replies(c, "internal")
  BY DEF Reconcile
<1>5. CASE UNCHANGED store
  BY <1>1, <1>4, <1>5, UnchangedSteady
<1>6. CASE SetLocal(j, s) /\ CanTransition(store[j].state, s)
  <2>1. Steady(c)
    BY <1>1, <1>2, <1>3, <1>6, SetSteady
  <2>2. store'[j].state = s
    <3>1. store[j] \in LocalRecord /\ j \in Jobs
      BY <1>1, <1>2, StoredRecord
    <3>2. store' = [store EXCEPT ![j] = [store[j] EXCEPT !.state = s]]
      BY <1>6 DEF SetLocal
    <3>3. store'[j] = [store[j] EXCEPT !.state = s]
      BY <1>1, <3>1, <3>2 DEF TypeOK
    <3> QED
      BY <1>3, <3>1, <3>3, WithState
  <2> QED
    BY <1>3, <1>4, <2>1, <2>2
<1> QED
  BY <1>5, <1>6 DEF Reconcile

(* A start that the host accepted.                                         *)
LEMMA StartSucceeds ==
    ASSUME IInv, NEW c \in Callers, StartAnswered(c) \/ StartReconciled(c)
    PROVE  IInv'
<1>1. call[c] \in Call /\ call[c].op \in Ops /\ CallFits(c) /\ TypeOK
  BY CallFields DEF IInv
<1>2. call[c].step \in StartSteps
  BY DEF StartAnswered, StartReconciled, StartSteps
<1>3. call[c].job \in Stored /\ call[c].job \in Jobs
  BY <1>1, <1>2 DEF CallFits, Stored
<1>4. UNCHANGED <<archived, aged, hostVars>>
  BY DEF StartAnswered, StartReconciled
<1>5. ASSUME NEW o, Replies(c, o)
      PROVE  call' = [call EXCEPT ![c] = Over(call[c].op, call[c].job)]
               /\ reply' = [reply EXCEPT ![c] = o]
  BY <1>5 DEF Replies, IInv
<1>6. CASE StartAnswered(c)
  <2>1. HostFits(call[c].job) /\ rpc[call[c].job] = "done"
    BY <1>3, <1>6 DEF IInv, StartAnswered
  <2>2. reached[call[c].job] # {}
    BY <2>1 DEF HostFits
  <2>3. Steady(c) /\ UNCHANGED store /\ Replies(c, "started")
    BY <1>1, <1>6, UnchangedSteady DEF StartAnswered
  <2> QED
    BY <1>1, <1>2, <1>4, <1>5, <2>2, <2>3, SucceedsKeeps
<1>7. CASE StartReconciled(c)
  <2>1. call[c].step \in {"settle", "observe"} /\ Reconcile(c, "reconciled")
    BY <1>7 DEF StartReconciled
  <2>2. reached[call[c].job] # {}
    BY <1>1, <2>1 DEF CallFits
  <2>3. /\ Steady(c)
        /\ Replies(c, "reconciled") \/ Replies(c, "internal")
        /\ store'[call[c].job].state = "lost" => store[call[c].job].state = "lost"
    BY <2>1, ReconcileDoes
  <2>4. CASE Replies(c, "reconciled")
    BY <1>1, <1>2, <1>4, <1>5, <2>2, <2>3, <2>4, SucceedsKeeps
  <2>5. CASE Replies(c, "internal")
    <3>1. "internal" \in Outcomes \ {"started", "reconciled"}
      BY DEF Outcomes
    <3> QED
      BY <1>4, <2>3, <2>5, <3>1, RepliesKeeps
  <2> QED
    BY <2>3, <2>4, <2>5
<1> QED
  BY <1>6, <1>7

(* The steps in which a call goes on.                                      *)
LEMMA GoingOnKeeps ==
    ASSUME IInv, NEW c \in Callers,
           \/ StartFails(c) \/ StartTimesOut(c) \/ Verified(c) \/ VerifyFails(c)
           \/ HostAnswers(c)
    PROVE  IInv'
<1> DEFINE r == call[c]
           j == r.job
<1>1. r \in Call /\ CallFits(c) /\ call \in [Callers -> Call]
  BY DEF IInv
<1>2. r.seen \in RemoteState \cup {None} /\ r.error \in Errors
  BY <1>1, CallFields
<1>3. UNCHANGED <<store, archived, aged, reply, hostVars>>
  BY DEF StartFails, StartTimesOut, Verified, VerifyFails, HostAnswers
<1>4. CASE StartFails(c) \/ VerifyFails(c)
  <2>1. PICK x \in {"upstream", "ambiguous"} :
          call' = [call EXCEPT ![c] = With(c, "forget", r.seen, x)]
    BY <1>1, <1>4, ErrorForm
  <2>2. r.step \in StartSteps /\ "forget" \in StartSteps /\ x \in Errors
    BY <1>4, <2>1 DEF StartFails, VerifyFails, StartSteps, Errors
  <2> QED
    BY <1>2, <1>3, <2>1, <2>2, GoesOnKeeps
<1>5. CASE StartTimesOut(c)
  <2>1. call' = [call EXCEPT ![c] = With(c, "verify", r.seen, r.error)]
    BY <1>1, <1>5, StepForm DEF StartTimesOut, Goes
  <2>2. r.step \in StartSteps /\ "verify" \in StartSteps
    BY <1>5 DEF StartTimesOut, StartSteps
  <2> QED
    BY <1>2, <1>3, <2>1, <2>2, GoesOnKeeps
<1>6. CASE Verified(c) \/ HostAnswers(c)
  <2>1. PICK s \in {"settle", "observe"} :
          /\ call' = [call EXCEPT ![c].step = s, ![c].seen = remote[j]]
          /\ s = "settle" <=> r.step = "verify"
          /\ r.step \in {"verify", "ask"}
    BY <1>6 DEF Verified, HostAnswers
  <2>2. call' = [call EXCEPT ![c] = With(c, s, remote[j], r.error)]
    <3>1. [call EXCEPT ![c].step = s, ![c].seen = remote[j]]
            = [call EXCEPT ![c] = With(c, s, remote[j], call[c].error)]
      BY <1>1, SeenForm, Zenon
    <3> QED
      BY <2>1, <3>1
  <2>3. /\ r.step \in StartSteps \cup LookupSteps /\ s \in StartSteps \cup LookupSteps
        /\ s \in StartSteps <=> r.step \in StartSteps
    BY <2>1 DEF StartSteps, LookupSteps
  <2>4. j \in Jobs /\ j \in Stored
    BY <1>1, <2>3 DEF CallFits, Stored
  <2>5. remote[j] \in RemoteState /\ remote[j] \notin {"absent", "removed"} /\ HostFits(j)
    BY <1>6, <2>4 DEF Verified, HostAnswers, IInv, TypeOK
  <2>6. remote[j] \in Shown \cap reached[j]
    BY <2>5 DEF HostFits, Shown, RemoteState
  <2>7. s # "forget" /\ remote[j] \in RemoteState \cup {None}
    BY <2>1, <2>5
  <2> QED
    BY <1>2, <1>3, <2>2, <2>3, <2>6, <2>7, GoesOnKeeps
<1> QED
  BY <1>4, <1>5, <1>6

(* A start that failed: its record is written off, or already was.         *)
LEMMA MarkedLostKeeps ==
    ASSUME IInv, NEW c \in Callers, MarkedLost(c)
    PROVE  IInv'
<1> DEFINE j == call[c].job
<1>1. CallFits(c) /\ TypeOK /\ call[c].step = "forget"
        /\ UNCHANGED <<archived, aged, hostVars>>
  BY DEF IInv, MarkedLost
<1>2. j \in Stored /\ call[c].error \in {"upstream", "ambiguous"} /\ Starter(c)
  BY <1>1 DEF CallFits, StartSteps, Starter
<1>3. CASE SetLocal(j, "lost") /\ CanTransition(store[j].state, "lost")
             /\ Replies(c, call[c].error)
  <2>1. "lost" \in LocalState
    BY DEF LocalState, LocalTerminal
  <2>2. Steady(c)
    BY <1>1, <1>2, <1>3, <2>1, SetSteady
  <2>3. call[c].error \in Outcomes \ {"started", "reconciled"}
    BY <1>2 DEF Outcomes
  <2> QED
    BY <1>1, <1>3, <2>2, <2>3, RepliesKeeps
<1>4. CASE UNCHANGED store /\ Replies(c, "internal")
  <2>1. Steady(c) /\ "internal" \in Outcomes \ {"started", "reconciled"}
    BY <1>1, <1>4, UnchangedSteady DEF Outcomes
  <2> QED
    BY <1>1, <1>4, <2>1, RepliesKeeps
<1> QED
  BY <1>3, <1>4 DEF MarkedLost

(* A new record under a new key, if there is room.                         *)
LEMMA RecordInsertedKeeps ==
    ASSUME IInv, NEW c \in Callers, NEW request \in Request, RecordInserted(c, request)
    PROVE  IInv'
<1>1. PICK j \in Jobs \ Stored :
        /\ store' = [Pruned EXCEPT ![j] = [request |-> request, state |-> "queued"]]
        /\ call' = [call EXCEPT ![c] = Starting(request.principal, j)]
  BY DEF RecordInserted, Starting
<1>2. /\ call[c].step = "idle" /\ Existing(request) = {} /\ Records < MaxRecords
      /\ UNCHANGED <<archived, aged, reply, hostVars>>
  <2>1. Cardinality(Stored) \in Nat
    BY RemoteJobsAssumption, FS_Subset, FS_CardinalityType DEF Stored
  <2>2. archived \in Nat /\ MaxRecords \in Nat
    BY RemoteJobsAssumption DEF IInv, TypeOK
  <2> QED
    BY <2>1, <2>2 DEF RecordInserted, Full, Records
<1>3. TypeOK /\ request.principal \in Principals
  BY DEF IInv, Request
<1> DEFINE e == Starting(request.principal, j)
           fresh == [request |-> request, state |-> "queued"]
<1>4. e \in Call /\ e.step = "start" /\ e.job = j
  BY <1>3, StartingRecord
<1>5. fresh \in LocalRecord /\ fresh # None /\ fresh.state = "queued"
        /\ fresh.request = request
  BY RecordAssumption DEF LocalRecord, LocalState
<1>6. call' = [call EXCEPT ![c] = e] /\ store' = [Pruned EXCEPT ![j] = fresh]
  BY <1>1
<1> HIDE DEF e, fresh
<1>7. /\ store' \in [Jobs -> LocalRecord \cup {None}] /\ store'[j] = fresh
      /\ Stored' = Stored \cup {j}
      /\ \A i \in Stored :
            /\ store'[i].request = store[i].request
            /\ store'[i].state \in {store[i].state, "expired"}
  <2>1. \A i \in Jobs :
          /\ Pruned[i] \in LocalRecord \cup {None}
          /\ Pruned[i] # None <=> store[i] # None
          /\ store[i] # None =>
              /\ Pruned[i].request = store[i].request
              /\ Pruned[i].state \in {store[i].state, "expired"}
              /\ store[i].state \in LocalTerminal => Pruned[i].state = store[i].state
    BY <1>3, PrunedRecord
  <2>2. \A i \in Jobs : i # j => store'[i] = Pruned[i]
    BY <1>6 DEF Pruned
  <2>3. store'[j] = fresh
    BY <1>6 DEF Pruned
  <2>4. store' \in [Jobs -> LocalRecord \cup {None}]
    BY <1>5, <1>6, <2>1, <2>2, <2>3 DEF Pruned
  <2>5. Stored' = Stored \cup {j}
    BY <1>1, <1>5, <2>1, <2>2, <2>3 DEF Stored
  <2> QED
    BY <1>1, <2>1, <2>2, <2>3, <2>4, <2>5 DEF Stored
<1>8. reply[c] \in Outcomes /\ reply' = [reply EXCEPT ![c] = reply[c]]
        /\ call'[c] = e /\ reply'[c] = reply[c]
  BY <1>2, <1>3, <1>6 DEF TypeOK, Outcomes, IInv
<1>9. ~Started(c) /\ ~Started(c)'
  BY <1>2, <1>8 DEF IInv, CallFits, Started
<1>10. CallFits(c)'
  BY <1>4, <1>5, <1>7, <1>8, <1>9 DEF CallFits, StartSteps, LookupSteps
<1>11. \A i \in Jobs : reached[i] \subseteq reached'[i]
  BY <1>2 DEF hostVars
<1>12. \A i \in Stored : store'[i].state = "lost" => store[i].state = "lost"
  BY <1>7
<1>13. /\ call' \in [Callers -> Call] /\ reply' \in [Callers -> Outcomes]
       /\ (\A d \in Callers : CallFits(d))' /\ OneStarter'
  <2>1. Starter(c)' => (Starter(c) /\ e.job = call[c].job) \/ e.job \notin Stored
    BY <1>1, <1>4
  <2>2. Stored \subseteq Stored'
    BY <1>7
  <2>3. call' = [call EXCEPT ![c] = e]
    BY <1>6
  <2>4. e \in Call
    BY <1>4
  <2> QED
    BY <1>8, <1>10, <1>11, <1>12, <2>1, <2>2, <2>3, <2>4, OthersFit
<1>14. KeysUnique'
  <2>1. \A i \in Stored : ~SameKey(store[i].request, request) /\ ~SameKey(request, store[i].request)
    BY <1>2 DEF Existing, SameKey
  <2> QED
    BY <1>5, <1>7, <2>1 DEF IInv, KeysUnique
<1>15. (\A i \in Jobs : HostFits(i))'
  BY <1>2, <1>7, HostStays
<1>16. LocalFollowsRemote'
  BY <1>5, <1>7, <1>11 DEF IInv, LocalFollowsRemote, Settled, Stored
<1>17. Cardinality({i \in Jobs : store'[i] # None}) + archived' <= MaxRecords
  <2>1. Stored \in SUBSET Jobs /\ IsFiniteSet(Jobs)
    BY RemoteJobsAssumption DEF Stored
  <2>2. IsFiniteSet(Stored) /\ Cardinality(Stored) \in Nat
    BY <2>1, FS_Subset, FS_CardinalityType
  <2>3. Cardinality(Stored \cup {j}) = Cardinality(Stored) + 1
    BY <1>1, <2>2, FS_AddElement
  <2>4. archived \in Nat /\ archived' = archived /\ MaxRecords \in Nat
    BY <1>2, <1>3, RemoteJobsAssumption DEF TypeOK
  <2>5. Cardinality(Stored) + archived < MaxRecords
    BY <1>2 DEF Records
  <2>6. {i \in Jobs : store'[i] # None} = Stored \cup {j}
    <3>1. Stored' = {i \in Jobs : store'[i] # None}
      BY DEF Stored
    <3> QED
      BY <1>7, <3>1
  <2> DEFINE n == Cardinality({i \in Jobs : store'[i] # None})
  <2>7. n = Cardinality(Stored \cup {j})
    BY <2>6, Zenon
  <2> HIDE DEF n
  <2>8. n + archived' <= MaxRecords
    BY <2>2, <2>3, <2>4, <2>5, <2>7
  <2> QED
    BY <2>8 DEF n
<1>18. TypeOK'
  BY <1>2, <1>3, <1>7, <1>13, <1>17, CallsTyped DEF TypeOK, hostVars, Outcomes
<1> QED
  BY <1>13, <1>14, <1>15, <1>16, <1>18 DEF IInv
-----------------------------------------------------------------------------
(* The lookups.                                                            *)

(* The owner's lookup of a record.                                         *)
LEMMA RecordLoadedKeeps ==
    ASSUME IInv, NEW c \in Callers, NEW p \in Principals, NEW op \in Lookups,
           NEW j \in Jobs, RecordLoaded(c, p, op, j)
    PROVE  IInv'
<1>1. TypeOK /\ call[c].step = "idle" /\ UNCHANGED <<archived, aged, hostVars>>
  BY DEF RecordLoaded, IInv
<1>2. Steady(c)
  BY <1>1, PrunedSteady DEF RecordLoaded
<1>3. j \in Stored
  BY RemoteJobsAssumption DEF RecordLoaded, Disclosed, IInv, CallFits
<1>4. CASE call' = [call EXCEPT ![c] = Asks(p, op, j)] /\ UNCHANGED reply
  <2> DEFINE e == Asks(p, op, j)
  <2>1. e \in Call /\ e.step = "ask" /\ e.job = j
    BY AsksRecord
  <2>2. call' = [call EXCEPT ![c] = e]
    BY <1>4
  <2> HIDE DEF e
  <2>3. reply[c] \in Outcomes /\ reply' = [reply EXCEPT ![c] = reply[c]]
          /\ call'[c] = e /\ reply'[c] = reply[c]
    BY <1>1, <1>4, <2>2 DEF TypeOK, Outcomes, IInv
  <2>4. ~Started(c)' /\ ~Starter(c)'
    BY <1>1, <2>1, <2>3 DEF IInv, CallFits, Started, Starter, StartSteps
  <2>5. CallFits(c)'
    BY <1>2, <1>3, <2>1, <2>3, <2>4 DEF CallFits, Steady, StartSteps, LookupSteps
  <2> QED
    BY <1>1, <1>2, <2>1, <2>2, <2>3, <2>4, <2>5, CallerKeeps
<1>5. CASE Replies(c, "not_found")
  BY <1>1, <1>2, <1>5, RepliesKeeps DEF Outcomes
<1> QED
  BY <1>4, <1>5 DEF RecordLoaded

(* The steps in which a lookup ends, or goes back to the local record.     *)
LEMMA LookupKeeps ==
    ASSUME IInv, NEW c \in Callers,
           \/ HostKnowsNothing(c) \/ Observed(c) \/ TombstoneRead(c)
           \/ LookupFails(c) \/ Abandoned(c)
    PROVE  IInv'
<1>1. TypeOK /\ call[c] \in Call /\ call \in [Callers -> Call]
        /\ UNCHANGED <<archived, aged, hostVars>>
  BY DEF IInv, HostKnowsNothing, Observed, TombstoneRead, LookupFails, Abandoned
<1>2. {"not_found", "tombstone", "observed", "internal", "failed", "abandoned"}
        \subseteq Outcomes \ {"started", "reconciled"}
  BY DEF Outcomes
<1>3. ASSUME NEW o \in {"not_found", "tombstone", "observed", "internal", "failed", "abandoned"},
             Replies(c, o), Steady(c)
      PROVE  IInv'
  BY <1>1, <1>2, <1>3, RepliesKeeps
<1>4. CASE HostKnowsNothing(c)
  <2>1. Steady(c)
    BY <1>1, <1>4, UnchangedSteady DEF HostKnowsNothing
  <2>2. CASE Replies(c, "not_found")
    BY <1>3, <2>1, <2>2
  <2>3. CASE Goes(c, "tombstone") /\ UNCHANGED reply
    <3>1. call' = [call EXCEPT ![c] = With(c, "tombstone", call[c].seen, call[c].error)]
      BY <1>1, <2>3, StepForm DEF Goes
    <3>2. /\ call[c].step \in StartSteps \cup LookupSteps
          /\ "tombstone" \in StartSteps \cup LookupSteps
          /\ "tombstone" \in StartSteps <=> call[c].step \in StartSteps
      BY <1>4 DEF HostKnowsNothing, StartSteps, LookupSteps
    <3>3. call[c].seen \in RemoteState \cup {None} /\ call[c].error \in Errors
      BY <1>1, CallFields
    <3>4. UNCHANGED <<store, archived, aged, reply, hostVars>>
      BY <1>4, <2>3 DEF HostKnowsNothing
    <3> QED
      BY <3>1, <3>2, <3>3, <3>4, GoesOnKeeps
  <2> QED
    BY <1>4, <2>2, <2>3 DEF HostKnowsNothing
<1>5. CASE Observed(c)
  <2>1. call[c].step \in {"settle", "observe"}
    BY <1>5 DEF Observed
  <2>2. CASE Replies(c, "observed") /\ UNCHANGED store
    BY <1>1, <1>3, <2>2, UnchangedSteady
  <2>3. CASE Reconcile(c, "observed")
    <3>1. Steady(c) /\ (Replies(c, "observed") \/ Replies(c, "internal"))
      BY <2>1, <2>3, ReconcileDoes
    <3> QED
      BY <1>3, <3>1
  <2> QED
    BY <1>5, <2>2, <2>3 DEF Observed
<1>6. CASE TombstoneRead(c)
  <2>1. Steady(c)
    BY <1>1, <1>6, PrunedSteady DEF TombstoneRead
  <2>2. Replies(c, "tombstone") \/ Replies(c, "not_found")
    BY <1>6 DEF TombstoneRead
  <2> QED
    BY <1>3, <2>1, <2>2
<1>7. CASE LookupFails(c) \/ Abandoned(c)
  <2>1. Steady(c)
    BY <1>1, <1>7, UnchangedSteady DEF LookupFails, Abandoned
  <2>2. Replies(c, "failed") \/ Replies(c, "abandoned")
    BY <1>7 DEF LookupFails, Abandoned
  <2> QED
    BY <1>3, <2>1, <2>2
<1> QED
  BY <1>4, <1>5, <1>6, <1>7
-----------------------------------------------------------------------------
(* The host and time.                                                      *)

(* The request leaves: nothing has happened on the host yet.               *)
LEMMA StartSentKeeps ==
    ASSUME IInv, NEW c \in Callers, StartSent(c)
    PROVE  IInv'
<1> DEFINE r == call[c]
           e == With(c, "answer", r.seen, r.error)
<1>1. /\ TypeOK /\ CallFits(c) /\ call \in [Callers -> Call] /\ r \in Call
      /\ r.step = "start" /\ rpc' = [rpc EXCEPT ![r.job] = "sent"]
      /\ UNCHANGED <<remote, launches, store, archived, aged, reply, reached>>
  BY DEF IInv, StartSent
<1>2. call' = [call EXCEPT ![c] = e]
  BY <1>1, StepForm DEF StartSent, Goes
<1>3. /\ r.step \in StartSteps \cup LookupSteps /\ "answer" \in StartSteps \cup LookupSteps
      /\ ("answer" \in StartSteps <=> r.step \in StartSteps)
      /\ r.seen \in RemoteState \cup {None} /\ r.error \in Errors
  BY <1>1, CallFields DEF StartSteps, LookupSteps
<1>4. r.job \in Stored /\ r.job \in Jobs /\ Stored' = Stored
  BY <1>1, <1>3 DEF CallFits, Stored
<1>5. UNCHANGED <<store, reply>> /\ "answer" \notin {"settle", "observe"}
        /\ "answer" # "forget"
  BY <1>1
<1>6. \A j \in Jobs : reached[j] \subseteq reached'[j]
  BY <1>1
<1>7. CallsFitNext
  BY <1>2, <1>3, <1>5, <1>6, GoesOnCalls
<1> HIDE DEF e
<1>9. /\ call' \in [Callers -> Call] /\ reply' \in [Callers -> Outcomes]
      /\ (\A d \in Callers : CallFits(d))' /\ OneStarter'
  BY <1>7 DEF CallsFitNext
<1>10. (\A j \in Jobs : HostFits(j))'
  <2>1. rpc \in [Jobs -> {"none", "sent", "done"}] /\ \A j \in Jobs : HostFits(j)
    BY DEF IInv, TypeOK
  <2> HIDE DEF r
  <2>2. \A j \in Jobs : rpc'[j] = IF j = r.job THEN "sent" ELSE rpc[j]
    BY <1>1, <1>4, <2>1
  <2> QED
    BY <1>1, <1>4, <2>1, <2>2 DEF HostFits
<1>11. rpc' \in [Jobs -> {"none", "sent", "done"}]
  BY <1>1, <1>4 DEF TypeOK
<1>12. TypeOK'
  BY <1>1, <1>9, <1>11, CallsTyped DEF TypeOK, Outcomes
<1>13. KeysUnique' /\ LocalFollowsRemote'
  BY <1>1, <1>4 DEF IInv, KeysUnique, LocalFollowsRemote, Stored
<1> QED
  BY <1>9, <1>10, <1>12, <1>13 DEF IInv

(* What a step of the host may do to a job.                                *)
HostMoves(j) ==
    /\ \E s \in RemoteState :
        /\ remote' = [remote EXCEPT ![j] = s]
        /\ s # "absent"
        /\ \/ reached' = [reached EXCEPT ![j] = @ \cup {s}]
           \/ remote[j] = "absent" /\ reached' = [reached EXCEPT ![j] = {s}]
    /\ \/ UNCHANGED launches
       \/ launches[j] = 0 /\ launches' = [launches EXCEPT ![j] = 1]
    /\ \/ UNCHANGED rpc
       \/ rpc' = [rpc EXCEPT ![j] = "done"]

(* Such a step keeps what is said of the host, for a job of the store.     *)
LEMMA HostMovesFit ==
    ASSUME IInv, NEW j \in Stored, HostMoves(j), UNCHANGED store
    PROVE  /\ (\A i \in Jobs : HostFits(i))'
           /\ \A i \in Jobs : reached[i] \subseteq reached'[i]
           /\ remote' \in [Jobs -> RemoteState] /\ launches' \in [Jobs -> Nat]
           /\ rpc' \in [Jobs -> {"none", "sent", "done"}]
           /\ reached' \in [Jobs -> SUBSET RemoteState]
<1>1. /\ remote \in [Jobs -> RemoteState] /\ launches \in [Jobs -> Nat]
      /\ rpc \in [Jobs -> {"none", "sent", "done"}]
      /\ reached \in [Jobs -> SUBSET RemoteState] /\ j \in Jobs
      /\ \A i \in Jobs : HostFits(i)
  BY DEF IInv, TypeOK, Stored
<1>2. Stored' = Stored
  BY DEF Stored
<1>3. PICK s \in RemoteState :
        /\ remote' = [remote EXCEPT ![j] = s]
        /\ s # "absent"
        /\ \/ reached' = [reached EXCEPT ![j] = @ \cup {s}]
           \/ remote[j] = "absent" /\ reached' = [reached EXCEPT ![j] = {s}]
  BY DEF HostMoves
<1>4. /\ launches' \in [Jobs -> Nat] /\ launches'[j] \in {0, 1}
      /\ \A i \in Jobs : i # j => launches'[i] = launches[i]
  BY <1>1 DEF HostMoves, HostFits
<1>5. /\ rpc' \in [Jobs -> {"none", "sent", "done"}]
      /\ \A i \in Jobs : i # j => rpc'[i] = rpc[i]
  BY <1>1 DEF HostMoves
<1>6. /\ remote' \in [Jobs -> RemoteState] /\ remote'[j] = s
      /\ \A i \in Jobs : i # j => remote'[i] = remote[i] /\ reached'[i] = reached[i]
  BY <1>1, <1>3
<1>7. remote[j] = "absent" => reached[j] = {}
  BY <1>1 DEF HostFits
<1>8. /\ reached' \in [Jobs -> SUBSET RemoteState] /\ s \in reached'[j]
      /\ reached[j] \subseteq reached'[j]
  BY <1>1, <1>3, <1>7
<1>9. ASSUME NEW i \in Jobs PROVE HostFits(i)'
  <2>1. CASE i = j
    BY <1>2, <1>3, <1>4, <1>6, <1>8, <2>1 DEF HostFits
  <2>2. CASE i # j
    BY <1>1, <1>2, <1>4, <1>5, <1>6, <2>2 DEF HostFits
  <2> QED
    BY <2>1, <2>2
<1> QED
  BY <1>4, <1>5, <1>6, <1>8, <1>9

(* Nothing happens on the host but for a job of the store.                 *)
LEMMA HostSteps ==
    ASSUME IInv, NEW j \in Jobs, StartExecuted(j) \/ HostProgress(j)
    PROVE  j \in Stored /\ HostMoves(j) /\ UNCHANGED <<store, archived, aged, call, reply>>
<1>1. HostFits(j) /\ remote \in [Jobs -> RemoteState]
  BY DEF IInv, TypeOK
<1>2. UNCHANGED <<store, archived, aged, call, reply>>
  BY DEF StartExecuted, HostProgress
<1>3. CASE StartExecuted(j)
  <2>1. /\ remote[j] = "absent" /\ remote' = [remote EXCEPT ![j] = "queued"]
        /\ rpc' = [rpc EXCEPT ![j] = "done"] /\ reached' = [reached EXCEPT ![j] = {"queued"}]
        /\ UNCHANGED launches /\ j \in Stored
    BY <1>1, <1>3 DEF StartExecuted, Accept, Move, HostFits
  <2>2. "queued" \in RemoteState
    BY DEF RemoteState
  <2> QED
    BY <1>2, <2>1, <2>2 DEF HostMoves
<1>4. CASE HostProgress(j)
  <2>1. reached' = [reached EXCEPT ![j] = @ \cup {remote'[j]}] /\ UNCHANGED rpc
    BY <1>4 DEF HostProgress
  <2>2. CASE Launch(j)
    <3>1. remote[j] # "absent" /\ remote[j] \in RemoteState /\ remote' = remote
            /\ remote' = [remote EXCEPT ![j] = remote[j]]
      BY <1>1, <2>2 DEF Launch
    <3>2. j \in Stored
      BY <1>1, <3>1 DEF HostFits
    <3>3. launches[j] = 0 /\ launches' = [launches EXCEPT ![j] = 1]
      BY <2>2 DEF Launch
    <3> QED
      BY <1>2, <2>1, <3>1, <3>2, <3>3 DEF HostMoves
  <2>3. CASE Refuse(j) \/ Run(j) \/ Settle(j) \/ Remove(j)
    <3>1. PICK s \in RemoteState \ {"absent"} : remote' = [remote EXCEPT ![j] = s]
      BY <2>3 DEF Refuse, Run, Settle, Remove, Move, RemoteState, Settled
    <3>2. remote[j] # "absent" /\ UNCHANGED launches
      BY <2>3 DEF Refuse, Run, Settle, Remove, Move, Settled
    <3>3. j \in Stored /\ remote'[j] = s
      BY <1>1, <3>1, <3>2 DEF HostFits
    <3> QED
      BY <1>2, <2>1, <3>1, <3>2, <3>3 DEF HostMoves
  <2> QED
    BY <1>4, <2>2, <2>3 DEF HostProgress
<1> QED
  BY <1>3, <1>4

(* A step of the host on its own.                                          *)
LEMMA HostKeeps ==
    ASSUME IInv, NEW j \in Jobs, StartExecuted(j) \/ HostProgress(j)
    PROVE  IInv'
<1>1. j \in Stored /\ HostMoves(j) /\ UNCHANGED <<store, archived, aged, call, reply>>
  BY HostSteps
<1>2. /\ (\A i \in Jobs : HostFits(i))'
      /\ \A i \in Jobs : reached[i] \subseteq reached'[i]
      /\ remote' \in [Jobs -> RemoteState] /\ launches' \in [Jobs -> Nat]
      /\ rpc' \in [Jobs -> {"none", "sent", "done"}]
      /\ reached' \in [Jobs -> SUBSET RemoteState]
  BY <1>1, HostMovesFit
<1>3. /\ (\A d \in Callers : CallFits(d))' /\ OneStarter' /\ KeysUnique'
      /\ LocalFollowsRemote'
  BY <1>1, <1>2, CallsFit
<1>4. TypeOK' /\ call' \in [Callers -> Call]
  BY <1>1, <1>2 DEF IInv, TypeOK
<1> QED
  BY <1>2, <1>3, <1>4 DEF IInv

(* A cancellation, whose caller sees what it did.                          *)
LEMMA HostCancelsKeeps ==
    ASSUME IInv, NEW c \in Callers, HostCancels(c)
    PROVE  IInv'
<1> DEFINE r == call[c]
           j == r.job
           e == With(c, "observe", "cancelled", r.error)
<1>1. /\ TypeOK /\ CallFits(c) /\ call \in [Callers -> Call] /\ r \in Call
      /\ r.step = "ask" /\ Cancel(j)
      /\ reached' = [reached EXCEPT ![j] = @ \cup {"cancelled"}]
      /\ UNCHANGED <<store, archived, aged, reply, rpc>>
  BY DEF IInv, HostCancels
<1>2. call' = [call EXCEPT ![c] = e]
  BY <1>1, SeenForm DEF HostCancels
<1>3. /\ r.step \in StartSteps \cup LookupSteps /\ "observe" \in StartSteps \cup LookupSteps
      /\ ("observe" \in StartSteps <=> r.step \in StartSteps)
      /\ "cancelled" \in RemoteState /\ "cancelled" \in Shown /\ r.error \in Errors
  BY <1>1, CallFields DEF StartSteps, LookupSteps, RemoteState, Settled, Shown
<1>4. j \in Stored /\ j \in Jobs /\ Stored' = Stored
  BY <1>1, <1>3 DEF CallFits, Stored
<1>5. remote[j] # "absent" /\ remote' = [remote EXCEPT ![j] = "cancelled"] /\ UNCHANGED launches
  BY <1>1 DEF Cancel, Move
<1>6. HostMoves(j)
  BY <1>1, <1>3, <1>5 DEF HostMoves
<1>7. /\ (\A i \in Jobs : HostFits(i))'
      /\ \A i \in Jobs : reached[i] \subseteq reached'[i]
      /\ remote' \in [Jobs -> RemoteState] /\ launches' \in [Jobs -> Nat]
      /\ rpc' \in [Jobs -> {"none", "sent", "done"}]
      /\ reached' \in [Jobs -> SUBSET RemoteState]
  BY <1>1, <1>4, <1>6, HostMovesFit
<1>8. "cancelled" \in Shown \cap reached'[j]
  BY <1>1, <1>3, <1>4 DEF TypeOK
<1>9. UNCHANGED <<store, reply>> /\ "observe" # "forget"
  BY <1>1
<1>10. CallsFitNext
  BY <1>2, <1>3, <1>7, <1>8, <1>9, GoesOnCalls
<1>13. /\ call' \in [Callers -> Call] /\ reply' \in [Callers -> Outcomes]
       /\ (\A d \in Callers : CallFits(d))' /\ OneStarter'
  BY <1>10 DEF CallsFitNext
<1>14. TypeOK'
  BY <1>1, <1>7, <1>13, CallsTyped DEF TypeOK, Outcomes
<1>15. KeysUnique' /\ LocalFollowsRemote'
  BY <1>1, <1>4, <1>7 DEF IInv, KeysUnique, LocalFollowsRemote, Stored
<1> QED
  BY <1>7, <1>13, <1>14, <1>15 DEF IInv

(* Time, and steps that do nothing, touch only what has aged.              *)
LEMMA TimeKeeps ==
    ASSUME IInv, UNCHANGED <<store, archived, call, reply, hostVars>>,
           aged' \in [Jobs -> BOOLEAN]
    PROVE  IInv'
<1>1. UNCHANGED <<remote, launches, rpc, reached>> /\ UNCHANGED <<store, call, reply>>
        /\ Stored \subseteq Stored'
  BY DEF hostVars, Stored
<1>2. \A j \in Jobs : reached[j] \subseteq reached'[j]
  BY <1>1
<1>3. /\ (\A d \in Callers : CallFits(d))' /\ OneStarter' /\ KeysUnique'
      /\ LocalFollowsRemote'
  BY <1>1, <1>2, CallsFit
<1>4. (\A j \in Jobs : HostFits(j))'
  BY <1>1, HostStays
<1>5. TypeOK' /\ call' \in [Callers -> Call]
  BY <1>1 DEF IInv, TypeOK
<1> QED
  BY <1>3, <1>4, <1>5 DEF IInv
-----------------------------------------------------------------------------
(* The theorems.                                                           *)

(* Nothing is stored, asked or running at the start.                       *)
LEMMA Initially == ASSUME Init PROVE IInv
<1>1. /\ store = [j \in Jobs |-> None] /\ call = [c \in Callers |-> Idle]
      /\ reply = [c \in Callers |-> "none"] /\ archived \in 0..MaxRecords
      /\ remote = [j \in Jobs |-> "absent"] /\ launches = [j \in Jobs |-> 0]
      /\ rpc = [j \in Jobs |-> "none"] /\ reached = [j \in Jobs |-> {}]
      /\ aged = [j \in Jobs |-> FALSE]
  BY DEF Init, LifecycleInit
<1>2. Stored = {}
  BY <1>1 DEF Stored
<1>3. Idle \in Call /\ Idle.step = "idle" /\ Idle.job = None
  BY DEF Idle, Call
<1>4. call \in [Callers -> Call]
  BY <1>1, <1>3
<1>5. \A c \in Callers : CallFits(c) /\ ~Starter(c)
  BY <1>1, <1>3 DEF CallFits, Starter, Started, StartSteps, LookupSteps
<1>6. OneStarter /\ KeysUnique /\ LocalFollowsRemote
  BY <1>2, <1>5 DEF OneStarter, KeysUnique, LocalFollowsRemote
<1>7. \A j \in Jobs : HostFits(j)
  BY <1>1 DEF HostFits
<1>8. Cardinality({j \in Jobs : store[j] # None}) + archived <= MaxRecords
  <2>1. {j \in Jobs : store[j] # None} = {}
    BY <1>1
  <2>2. Cardinality({j \in Jobs : store[j] # None}) = 0
    BY <2>1, FS_EmptySet
  <2> QED
    BY <1>1, <2>2, RemoteJobsAssumption
<1>9. TypeOK
  BY <1>1, <1>4, <1>8, CallsTyped DEF TypeOK, RemoteState
<1> QED
  BY <1>4, <1>5, <1>6, <1>7, <1>9 DEF IInv

(* Every step keeps the invariant.                                         *)
LEMMA StepKeeps == ASSUME IInv, [Next]_vars PROVE IInv'
<1>1. ASSUME NEW c \in Callers, CallerStep(c) PROVE IInv'
  BY <1>1, StartSentKeeps, StartSucceeds, GoingOnKeeps, MarkedLostKeeps, HostCancelsKeeps,
     LookupKeeps DEF CallerStep
<1>2. ASSUME NEW c \in Callers, NEW request \in Request,
             KeyReused(c, request) \/ StoreFull(c, request) \/ RecordInserted(c, request)
      PROVE  IInv'
  BY <1>2, KeyReusedKeeps, StoreFullKeeps, RecordInsertedKeeps
<1>3. ASSUME NEW c \in Callers, NEW p \in Principals, NEW op \in Lookups, NEW j \in Jobs,
             RecordLoaded(c, p, op, j)
      PROVE  IInv'
  BY <1>3, RecordLoadedKeeps
<1>4. ASSUME NEW j \in Jobs, StartExecuted(j) \/ HostProgress(j) PROVE IInv'
  BY <1>4, HostKeeps
<1>5. ASSUME NEW j \in Jobs, RetentionPasses(j) PROVE IInv'
  <2>1. aged' \in [Jobs -> BOOLEAN]
    BY <1>5 DEF RetentionPasses, IInv, TypeOK
  <2> QED
    BY <1>5, <2>1, TimeKeeps DEF RetentionPasses
<1>6. CASE UNCHANGED vars
  <2>1. aged' \in [Jobs -> BOOLEAN]
    BY <1>6 DEF vars, IInv, TypeOK
  <2>2. UNCHANGED <<store, archived, call, reply, hostVars>>
    BY <1>6 DEF vars, hostVars
  <2> QED
    BY <2>1, <2>2, TimeKeeps
<1> QED
  BY <1>1, <1>2, <1>3, <1>4, <1>5, <1>6 DEF Next

(* The inductive invariant: keys are unique in the store, nothing happens  *)
(* on the host without a record, a job has one starter that may still      *)
(* write it off, and what a call is about to record has been seen.         *)
THEOREM InvariantHolds == Spec => []IInv
<1>1. Init => IInv
  BY Initially
<1>2. IInv /\ [Next]_vars => IInv'
  BY StepKeeps
<1> QED
  BY <1>1, <1>2, PTL DEF Spec

(* Every variable keeps its type, and the store never outgrows the bound   *)
(* beyond which load refuses it.                                           *)
THEOREM TypeCorrect == Spec => []TypeOK
<1>1. IInv => TypeOK
  BY DEF IInv
<1> QED
  BY <1>1, InvariantHolds, PTL

(* Of all jobs started under one principal, server and key at most one is  *)
(* ever launched, at most once (create_or_reuse).                          *)
THEOREM LaunchedOnce == Spec => []OneLaunchPerKey
<1>1. ASSUME IInv, NEW j \in Jobs, launches[j] > 0
      PROVE  j \in Stored /\ launches[j] = 1
  BY <1>1 DEF IInv, HostFits
<1>2. IInv => OneLaunchPerKey
  BY <1>1 DEF IInv, KeysUnique, OneLaunchPerKey
<1> QED
  BY <1>2, InvariantHolds, PTL

(* The store says of a program only what was true on the host at some time *)
(* (reconcile_observed_state).                                             *)
THEOREM LocalStatesWereShown == Spec => []LocalFollowsRemote
<1>1. IInv => LocalFollowsRemote
  BY DEF IInv
<1> QED
  BY <1>1, InvariantHolds, PTL

(* A start that was answered or reconciled was accepted by the host and is *)
(* not written off as lost.                                                *)
THEOREM AnsweredStartsKnown == Spec => []AnsweredStartIsKnown
<1>1. IInv => AnsweredStartIsKnown
  BY DEF IInv, CallFits, Starter, Started, AnsweredStartIsKnown
<1> QED
  BY <1>1, InvariantHolds, PTL

(* What RecordsArePermanent says of one step.                              *)
Permanent ==
    \A j \in Stored :
        /\ store'[j] # None /\ store'[j].request = store[j].request
        /\ store[j].state \in LocalTerminal => store'[j].state = store[j].state

(* A key stays bound to its job and request, and a terminal state is final *)
(* (transition, expire_older_than, mark_lost, reconcile_observed_state).   *)
THEOREM RecordsPermanent == Spec => RecordsArePermanent
<1>1. ASSUME NEW c \in Callers, Steady(c) PROVE Permanent
  BY <1>1 DEF Steady, Permanent, Stored
<1>2. ASSUME IInv, UNCHANGED store PROVE Permanent
  BY <1>2 DEF Permanent, Stored
<1>3. ASSUME IInv, NEW c \in Callers, store' = Pruned PROVE Permanent
  BY <1>1, <1>3, PrunedSteady DEF IInv
<1>4. ASSUME IInv, NEW c \in Callers, NEW o, Reconcile(c, o),
             call[c].step \in {"settle", "observe"}
      PROVE  Permanent
  <2>1. Steady(c)
    BY <1>4, ReconcileDoes
  <2> QED
    BY <1>1, <2>1
<1>5. ASSUME IInv, NEW c \in Callers, MarkedLost(c) PROVE Permanent
  <2>1. CASE UNCHANGED store
    BY <1>2, <1>5, <2>1
  <2>2. CASE SetLocal(call[c].job, "lost") /\ CanTransition(store[call[c].job].state, "lost")
    <3>1. TypeOK /\ CallFits(c) /\ call[c].step = "forget"
      BY <1>5 DEF IInv, MarkedLost
    <3>2. call[c].job \in Stored /\ Starter(c) /\ "lost" \in LocalState
      BY <3>1 DEF CallFits, StartSteps, Starter, LocalState, LocalTerminal
    <3>3. Steady(c)
      BY <2>2, <3>1, <3>2, SetSteady
    <3> QED
      BY <1>1, <3>3
  <2> QED
    BY <1>5, <2>1, <2>2 DEF MarkedLost
<1>6. ASSUME IInv, NEW c \in Callers, NEW request \in Request, RecordInserted(c, request)
      PROVE  Permanent
  <2>1. PICK j \in Jobs \ Stored :
          store' = [Pruned EXCEPT ![j] = [request |-> request, state |-> "queued"]]
    BY <1>6 DEF RecordInserted
  <2>2. \A i \in Stored : i \in Jobs /\ store[i] # None /\ store'[i] = Pruned[i]
    BY <2>1 DEF Pruned, Stored
  <2> QED
    BY <1>6, <2>2, PrunedRecord DEF IInv, Permanent
<1>7. ASSUME IInv, NEW c \in Callers, CallerStep(c) PROVE Permanent
  <2>1. CASE StartReconciled(c)
    BY <1>4, <1>7, <2>1 DEF StartReconciled
  <2>2. CASE Observed(c)
    BY <1>2, <1>4, <1>7, <2>2 DEF Observed
  <2>3. CASE TombstoneRead(c)
    BY <1>3, <1>7, <2>3 DEF TombstoneRead
  <2>4. CASE MarkedLost(c)
    BY <1>5, <1>7, <2>4
  <2>5. CASE \/ StartSent(c) \/ StartAnswered(c) \/ StartFails(c) \/ StartTimesOut(c)
             \/ Verified(c) \/ VerifyFails(c) \/ HostAnswers(c) \/ HostCancels(c)
             \/ HostKnowsNothing(c) \/ LookupFails(c) \/ Abandoned(c)
    <3>1. UNCHANGED store
      BY <2>5 DEF StartSent, StartAnswered, StartFails, StartTimesOut, Verified, VerifyFails,
         HostAnswers, HostCancels, HostKnowsNothing, LookupFails, Abandoned
    <3> QED
      BY <1>2, <1>7, <3>1
  <2> QED
    BY <1>7, <2>1, <2>2, <2>3, <2>4, <2>5 DEF CallerStep
<1>8. ASSUME IInv, [Next]_vars PROVE Permanent
  <2>1. ASSUME NEW c \in Callers, NEW request \in Request,
               KeyReused(c, request) \/ StoreFull(c, request)
        PROVE  Permanent
    BY <1>3, <1>8, <2>1 DEF KeyReused, StoreFull
  <2>2. ASSUME NEW c \in Callers, NEW p \in Principals, NEW op \in Lookups, NEW j \in Jobs,
               RecordLoaded(c, p, op, j)
        PROVE  Permanent
    BY <1>3, <1>8, <2>2 DEF RecordLoaded
  <2>3. ASSUME NEW j \in Jobs, StartExecuted(j) \/ HostProgress(j) \/ RetentionPasses(j)
        PROVE  Permanent
    BY <1>2, <1>8, <2>3 DEF StartExecuted, HostProgress, RetentionPasses
  <2>4. CASE UNCHANGED vars
    BY <1>2, <1>8, <2>4 DEF vars
  <2> QED
    BY <1>6, <1>7, <1>8, <2>1, <2>2, <2>3, <2>4 DEF Next
<1>9. IInv /\ [Next]_vars => [Permanent]_vars
  BY <1>8
<1> QED
  BY <1>9, InvariantHolds, PTL DEF Spec, RecordsArePermanent, Permanent
=============================================================================
