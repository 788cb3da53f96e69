--------------------------- MODULE Consent_proofs ----------------------------
(****************************************************************************)
(* Theorems about what a client has to present before the server changes    *)
(* anything: the token of an approval, and the receipt of a plan.  The two  *)
(* components share nothing but the idea, and are proved one after the      *)
(* other.                                                                   *)
(*                                                                          *)
(* The approval registry, for any processes, tokens and bindings, and any   *)
(* capacity.  Processes may replace the file inside each other's windows    *)
(* from the identity check to the stat, which no lock of the code prevents; *)
(* the invariant says what is left of the order outside those races, that   *)
(* is, of every approval that was not itself added or removed in one.       *)
(*                                                                          *)
(* Docker recreate plans, for any callers, definitions, images and files,   *)
(* any capacity of the store and any number of changes by others.  What an  *)
(* invocation has read may be out of date when it is used; the invariant    *)
(* says of each step what of it still holds as long as nothing changes      *)
(* meanwhile.                                                               *)
(****************************************************************************)
EXTENDS Approvals, DockerPlans, FiniteSetTheorems, SequenceTheorems, TLAPS

(* Every version of the file lists issued tokens, no more than allowed.    *)
Listing(records) ==
    /\ records \in SUBSET Tokens
    /\ Cardinality(records) <= MaxRecords
    /\ \A t \in records : bound[t] # None

(* What a process holds was in a file, or is to be in the next.            *)
Holds(p) ==
    /\ Listing(cache[p])
    /\ ~Idle(p) => Listing(op[p].records)
    /\ ~Idle(p) /\ op[p].token # None => bound[op[p].token] # None

(* A prepared version that may still become the file drops only what       *)
(* expired or is consumed, brings back nothing, and adds one approval or,  *)
(* if it consumes one, none: all of it outside the races.                  *)
Prepared(p) ==
    op[p].step = "replace" \/ (op[p].step = "check" /\ current[p]) =>
        /\ file \ op[p].records \subseteq expired \cup exposed \cup {op[p].token}
        /\ op[p].records \cap (spent \cup {op[p].token}) \subseteq exposed
        /\ op[p].token \in file \cup exposed \cup {None}
        /\ op[p].token # None => op[p].records \subseteq file \cup exposed
        /\ \E t \in Tokens : op[p].records \subseteq file \cup exposed \cup {t}

(* A version that became the file is the file still, outside the races,    *)
(* and what it consumed is granted to nobody yet.                          *)
Replaced(p) ==
    op[p].step = "stat" =>
        /\ Changes(op[p].records, file) \subseteq exposed
        /\ op[p].token \in Tokens \ exposed =>
             op[p].token \in spent /\ granted[op[p].token] = 0

Sound(p) == Holds(p) /\ Prepared(p) /\ Replaced(p)

(* Only in a race two processes remove the same approval.                  *)
Apart ==
    \A p, q \in Processes :
        /\ p # q
        /\ op[p].step = "stat" /\ op[q].step = "stat"
        /\ op[p].token = op[q].token
        => op[p].token \in exposed \cup {None}

Copies == \A p \in Processes : current[p] => Changes(cache[p], file) \subseteq exposed

(* A token is granted once it has left the file for good.                  *)
Spending ==
    /\ file \cap spent \subseteq exposed
    /\ \A t \in Tokens \ exposed : granted[t] <= 1 /\ (granted[t] # 0 => t \in spent)
    /\ \A t \in spent : bound[t] # None

IInv ==
    /\ TypeOK
    /\ Listing(file)
    /\ \A p \in Processes : Sound(p)
    /\ Apart
    /\ Copies
    /\ Spending
-----------------------------------------------------------------------------
(* What every process knows when it starts an operation.                   *)

(* A copy that is up to date, or read again, is the file outside the races. *)
LEMMA ReloadedIsFile ==
    ASSUME IInv, NEW p \in Processes
    PROVE  Changes(Reloaded(p), file) \subseteq exposed /\ Listing(Reloaded(p))
BY DEF IInv, Copies, Sound, Holds, Reloaded, Changes

(* Fewer records than a listing has are a listing.                         *)
LEMMA Fewer ==
    ASSUME NEW R, NEW S, Listing(R), S \subseteq R
    PROVE  Listing(S)
<1>1. IsFiniteSet(Tokens)
  BY ApprovalsAssumption
<1>2. IsFiniteSet(R) /\ R \in SUBSET Tokens /\ Cardinality(R) <= MaxRecords
  BY <1>1, FS_Subset DEF Listing
<1>3. Cardinality(S) <= Cardinality(R) /\ IsFiniteSet(S)
  BY <1>2, FS_Subset
<1>4. Cardinality(S) \in Nat /\ Cardinality(R) \in Nat /\ MaxRecords \in Nat
  BY <1>2, <1>3, FS_CardinalityType, ApprovalsAssumption
<1>5. Cardinality(S) <= MaxRecords
  BY <1>2, <1>3, <1>4
<1> QED
  BY <1>2, <1>5 DEF Listing

(* One record more fits if there was room.                                 *)
LEMMA OneMore ==
    ASSUME NEW S, S \in SUBSET Tokens, Cardinality(S) < MaxRecords, NEW t \in Tokens
    PROVE  Cardinality(S \cup {t}) <= MaxRecords
<1>1. IsFiniteSet(S)
  BY ApprovalsAssumption, FS_Subset
<1>2. Cardinality(S) \in Nat /\ MaxRecords \in Nat
  BY <1>1, FS_CardinalityType, ApprovalsAssumption
<1>3. Cardinality(S \cup {t}) = IF t \in S THEN Cardinality(S) ELSE Cardinality(S) + 1
  BY <1>1, FS_AddElement
<1> QED
  BY <1>2, <1>3

(* The step, token and records of an operation.                            *)
LEMMA OpFields ==
    ASSUME TypeOK, NEW p \in Processes
    PROVE  /\ op[p].token \in Tokens \cup {None}
           /\ op[p].records \in SUBSET Tokens
           /\ op[p].step \in {"idle", "check", "replace", "stat"}
BY DEF TypeOK, Op

(* The operations of the other processes are left alone by a change of one. *)
LEMMA OthersOp ==
    ASSUME TypeOK, NEW p \in Processes, NEW e, op' = [op EXCEPT ![p] = e]
    PROVE  /\ op'[p] = e
           /\ \A q \in Processes : q # p => op'[q] = op[q]
           /\ e \in Op => op' \in [Processes -> Op]
BY DEF TypeOK

(* The same operation with another step is an operation.                   *)
LEMMA StepOp ==
    ASSUME TypeOK, NEW p \in Processes, NEW s \in {"idle", "check", "replace", "stat"}
    PROVE  /\ [op[p] EXCEPT !.step = s] \in Op
           /\ [op[p] EXCEPT !.step = s].step = s
           /\ [op[p] EXCEPT !.step = s].token = op[p].token
           /\ [op[p] EXCEPT !.step = s].records = op[p].records
BY DEF TypeOK, Op

(* Another process's step that leaves the file alone does not concern one   *)
(* that did nothing itself.                                                 *)
LEMMA OtherSound ==
    ASSUME NEW q \in Processes, Sound(q), UNCHANGED <<file, spent, exposed>>,
           expired \subseteq expired',
           \A u \in Tokens : bound[u] # None => bound'[u] # None,
           op'[q] = op[q], cache'[q] = cache[q], current'[q] = current[q],
           op[q].token \in Tokens \cup {None},
           op[q].step = "stat" /\ op[q].token \in Tokens \ exposed =>
             granted'[op[q].token] = granted[op[q].token]
    PROVE  Sound(q)'
<1>2. \A S : Listing(S) => Listing(S)'
  BY DEF Listing
<1>3. Holds(q)'
  BY <1>2 DEF Sound, Holds, Idle, Listing
<1>4. Prepared(q)'
  BY DEF Sound, Prepared
<1>5. Replaced(q)'
  BY DEF Sound, Replaced, Changes
<1> QED
  BY <1>3, <1>4, <1>5 DEF Sound

(* A step of one process that leaves the file, and what was granted, alone. *)
LEMMA StepSound ==
    ASSUME IInv, NEW p \in Processes, NEW e \in Op, op' = [op EXCEPT ![p] = e],
           UNCHANGED <<file, expired, spent, granted, exposed>>,
           bound' \in [Tokens -> Bindings \cup {None}],
           \A u \in Tokens : bound[u] # None => bound'[u] # None,
           e.step # "stat",
           NEW R, Listing(R), Changes(R, file) \subseteq exposed,
           \/ UNCHANGED <<cache, current>>
           \/ /\ cache' = [cache EXCEPT ![p] = R]
              /\ current' = [current EXCEPT ![p] = TRUE],
           e.step # "idle" => Listing(e.records)',
           e.step # "idle" /\ e.token # None => bound'[e.token] # None,
           Prepared(p)'
    PROVE  IInv'
<1>1. TypeOK
  BY DEF IInv
<1>2. op'[p] = e /\ (\A q \in Processes : q # p => op'[q] = op[q])
        /\ op' \in [Processes -> Op]
  BY <1>1, OthersOp
<1>3. cache' \in [Processes -> SUBSET Tokens] /\ current' \in [Processes -> BOOLEAN]
        /\ \A q \in Processes : q # p => current'[q] = current[q] /\ cache'[q] = cache[q]
  BY <1>1 DEF TypeOK, Listing
<1>4. TypeOK'
  BY <1>1, <1>2, <1>3 DEF TypeOK
<1>5. \A S : Listing(S) => Listing(S)'
  BY DEF Listing
<1>6. Listing(file)' /\ Spending'
  <2>1. Listing(file)'
    BY <1>5 DEF IInv, Listing
  <2>2. Spending'
    BY <1>1 DEF IInv, Spending, TypeOK
  <2> QED
    BY <2>1, <2>2
<1>7. Copies'
  BY <1>1, <1>3 DEF IInv, Copies, TypeOK, Changes
<1>8. Apart'
  BY <1>2 DEF IInv, Apart
<1>9. Holds(p)'
  <2>1. Listing(cache'[p])
    BY <1>1 DEF IInv, Sound, Holds, TypeOK
  <2>2. Listing(cache[p])'
    BY <1>5, <2>1 DEF Listing
  <2> QED
    BY <1>2, <2>2 DEF Holds, Idle, Listing
<1>10. Sound(p)'
  BY <1>2, <1>9 DEF Sound, Replaced
<1>11. ASSUME NEW q \in Processes, q # p PROVE Sound(q)'
  <2>1. Sound(q) /\ op[q].token \in Tokens \cup {None}
    BY <1>1, OpFields DEF IInv
  <2> QED
    BY <1>2, <1>3, <1>11, <2>1, OtherSound
<1> QED
  BY <1>4, <1>6, <1>7, <1>8, <1>10, <1>11 DEF IInv

(* issue.                                                                  *)
LEMMA IssueKeeps ==
    ASSUME IInv, NEW p \in Processes, NEW t \in Tokens, NEW b \in Bindings, Issue(p, t, b)
    PROVE  IInv'
<1>0. PICK R : R = Reloaded(p)
  OBVIOUS
<1>a. PICK S : S = (R \ expired) \cup {t}
  OBVIOUS
<1> DEFINE e == [step |-> "check", token |-> None, records |-> S]
<1>1. Changes(R, file) \subseteq exposed /\ Listing(R)
  BY <1>0, ReloadedIsFile
<1>2. /\ cache' = [cache EXCEPT ![p] = R] /\ current' = [current EXCEPT ![p] = TRUE]
      /\ UNCHANGED <<file, expired, spent, granted, exposed>>
      /\ op' = [op EXCEPT ![p] = e]
      /\ bound[t] = None /\ bound' = [bound EXCEPT ![t] = b]
      /\ Cardinality(R \ expired) < MaxRecords
  BY <1>0, <1>a DEF Issue, Reload
<1>3. TypeOK /\ Spending
  BY DEF IInv
<1>4. /\ bound' \in [Tokens -> Bindings \cup {None}] /\ bound'[t] # None
      /\ \A u \in Tokens : bound[u] # None => bound'[u] # None
  BY <1>2, <1>3, ApprovalsAssumption DEF TypeOK
<1>5. S \in SUBSET Tokens /\ Cardinality(S) <= MaxRecords
  BY <1>1, <1>2, <1>a, OneMore DEF Listing
<1>6. Listing(S)'
  BY <1>1, <1>4, <1>5, <1>a DEF Listing
<1>7. e \in Op /\ e.step = "check" /\ e.token = None /\ e.records = S
  BY <1>5 DEF Op
<1>8. t \notin spent /\ None \notin Tokens
  BY <1>2, <1>3, ApprovalsAssumption DEF Spending
<1>9. /\ file \ S \subseteq expired \cup exposed
      /\ S \cap (spent \cup {None}) \subseteq exposed
      /\ S \subseteq file \cup exposed \cup {t}
  BY <1>1, <1>3, <1>5, <1>8, <1>a DEF Changes, Spending
<1> HIDE DEF e
<1>10. op'[p] = e
  BY <1>2, <1>3, OthersOp
<1>11. Prepared(p)'
  BY <1>2, <1>7, <1>9, <1>10 DEF Prepared
<1>12. Listing(e.records)'
  BY <1>6, <1>7 DEF Listing
<1> QED
  BY <1>1, <1>2, <1>4, <1>7, <1>11, <1>12, StepSound

(* consume and consume_matching.                                           *)
LEMMA ConsumeKeeps ==
    ASSUME IInv, NEW p \in Processes, NEW t \in Tokens, NEW b \in Bindings, Consume(p, t, b)
    PROVE  IInv'
<1>0. PICK R : R = Reloaded(p)
  OBVIOUS
<1>a. PICK S : S = R \ (expired \cup {t})
  OBVIOUS
<1> DEFINE e == [step |-> "check", token |-> t, records |-> S]
<1>1. Changes(R, file) \subseteq exposed /\ Listing(R)
  BY <1>0, ReloadedIsFile
<1>2. /\ cache' = [cache EXCEPT ![p] = R] /\ current' = [current EXCEPT ![p] = TRUE]
      /\ UNCHANGED <<file, bound, expired, spent, granted, exposed>>
      /\ op' = [op EXCEPT ![p] = e]
      /\ t \in R
  BY <1>0, <1>a DEF Consume, Reload, Matching
<1>3. TypeOK /\ Spending
  BY DEF IInv
<1>4. Listing(S) /\ bound[t] # None
  BY <1>1, <1>2, <1>a, Fewer DEF Listing
<1>5. bound' \in [Tokens -> Bindings \cup {None}]
  BY <1>2, <1>3 DEF TypeOK
<1>6. e \in Op /\ e.step = "check" /\ e.token = t /\ e.records = S
  BY <1>4 DEF Op, Listing
<1>7. /\ file \ S \subseteq expired \cup exposed \cup {t}
      /\ S \cap (spent \cup {t}) \subseteq exposed
      /\ t \in file \cup exposed
      /\ S \subseteq file \cup exposed
  BY <1>1, <1>2, <1>3, <1>a DEF Changes, Spending
<1> HIDE DEF e
<1>8. op'[p] = e
  BY <1>2, <1>3, OthersOp
<1>9. Prepared(p)'
  BY <1>2, <1>6, <1>7, <1>8 DEF Prepared
<1>10. Listing(e.records)'
  BY <1>2, <1>4, <1>6 DEF Listing
<1> QED
  BY <1>1, <1>2, <1>4, <1>5, <1>6, <1>9, <1>10, StepSound

(* The identity is that of the version the operation started from.         *)
LEMMA CheckedKeeps ==
    ASSUME IInv, NEW p \in Processes, IdentityHolds(p)
    PROVE  IInv'
<1>a. PICK e : e = [op[p] EXCEPT !.step = "replace"]
  OBVIOUS
<1>1. /\ op[p].step = "check" /\ current[p] /\ op' = [op EXCEPT ![p] = e]
      /\ UNCHANGED <<file, bound, expired, cache, current, spent, granted, exposed>>
  BY <1>a DEF IdentityHolds
<1>2. TypeOK /\ Prepared(p) /\ Holds(p) /\ Listing(file)
  BY DEF IInv, Sound
<1>3. e \in Op /\ e.step = "replace" /\ e.token = op[p].token /\ e.records = op[p].records
  BY <1>2, <1>a, StepOp
<1>4. op'[p] = e
  BY <1>1, <1>2, OthersOp
<1>5. Prepared(p)'
  BY <1>1, <1>2, <1>3, <1>4 DEF Prepared
<1>6. Listing(e.records)' /\ (e.token # None => bound'[e.token] # None)
  BY <1>1, <1>2, <1>3 DEF Holds, Idle, Listing
<1>7. bound' \in [Tokens -> Bindings \cup {None}]
  BY <1>1, <1>2 DEF TypeOK
<1>8. PICK R : R = file
  OBVIOUS
<1>9. Listing(R) /\ Changes(R, file) \subseteq exposed
  BY <1>2, <1>8 DEF Changes
<1> QED
  BY <1>1, <1>3, <1>5, <1>6, <1>7, <1>9, StepSound

(* Giving up, or starting again: an operation ends without a trace.        *)
LEMMA DropsKeeps ==
    ASSUME IInv, NEW p \in Processes, op' = [op EXCEPT ![p] = NoOp],
           UNCHANGED <<file, bound, expired, spent, granted, exposed>>,
           \/ UNCHANGED <<cache, current>>
           \/ /\ cache' = [cache EXCEPT ![p] = file]
              /\ current' = [current EXCEPT ![p] = TRUE]
    PROVE  IInv'
<1>1. TypeOK /\ Listing(file)
  BY DEF IInv
<1>2. NoOp \in Op /\ NoOp.step = "idle"
  BY DEF NoOp, Op
<1>3. op'[p] = NoOp
  BY <1>1, <1>2, OthersOp
<1>4. Prepared(p)'
  BY <1>2, <1>3 DEF Prepared
<1>5. bound' \in [Tokens -> Bindings \cup {None}]
  BY <1>1 DEF TypeOK
<1>6. PICK R : R = file
  OBVIOUS
<1>7. Listing(R) /\ Changes(R, file) \subseteq exposed
  BY <1>1, <1>6 DEF Changes
<1>8. \/ UNCHANGED <<cache, current>>
      \/ /\ cache' = [cache EXCEPT ![p] = R]
         /\ current' = [current EXCEPT ![p] = TRUE]
  BY <1>6
<1> QED
  BY <1>2, <1>4, <1>5, <1>7, <1>8, StepSound

(* A look, or the passing of time: operations under way are not touched.   *)
LEMMA LooksKeep ==
    ASSUME IInv, NEW p \in Processes, Idle(p), Reload(p),
           UNCHANGED <<file, bound, expired, op, spent, granted, exposed>>
    PROVE  IInv'
<1>1. TypeOK /\ op[p] \in Op /\ op' = [op EXCEPT ![p] = op[p]] /\ op[p].step = "idle"
  BY DEF IInv, TypeOK, Idle
<1>2. PICK R : R = Reloaded(p)
  OBVIOUS
<1>3. Changes(R, file) \subseteq exposed /\ Listing(R)
  BY <1>2, ReloadedIsFile
<1>4. cache' = [cache EXCEPT ![p] = R] /\ current' = [current EXCEPT ![p] = TRUE]
  BY <1>2 DEF Reload
<1>5. Prepared(p)' /\ bound' \in [Tokens -> Bindings \cup {None}]
  BY <1>1 DEF Prepared, TypeOK
<1>6. PICK e : e = op[p]
  OBVIOUS
<1>7. e \in Op /\ e.step = "idle" /\ op' = [op EXCEPT ![p] = e]
  BY <1>1, <1>6
<1> QED
  BY <1>3, <1>4, <1>5, <1>7, StepSound

(* The passing of time, and nothing at all.                                *)
LEMMA TimeKeeps ==
    ASSUME IInv, expired' \in SUBSET Tokens, expired \subseteq expired',
           UNCHANGED <<file, bound, cache, current, op, spent, granted, exposed>>
    PROVE  IInv'
<1>1. TypeOK' /\ Copies' /\ Apart' /\ Spending' /\ Listing(file)'
  BY DEF IInv, TypeOK, Copies, Apart, Spending, Listing
<1>2. ASSUME NEW q \in Processes PROVE Sound(q)'
  <2>1. Sound(q) /\ op[q].token \in Tokens \cup {None}
    BY OpFields DEF IInv
  <2> QED
    BY <2>1, OtherSound
<1> QED
  BY <1>1, <1>2 DEF IInv

(* What a replacement takes from the file, puts into it and races with.    *)
LEMMA ReplaceFacts ==
    ASSUME IInv, NEW p \in Processes, Replace(p),
           NEW R, R = op[p].records, NEW k, k = op[p].token
    PROVE  /\ file' = R /\ spent' = spent \cup ({k} \cap Tokens)
           /\ current' = [q \in Processes |-> FALSE]
           /\ UNCHANGED <<bound, expired, cache, granted>>
           /\ \A q \in Processes : q # p => op'[q] = op[q]
           /\ op'[p].step = "stat" /\ op'[p].token = k /\ op'[p].records = R
           /\ op' \in [Processes -> Op]
           /\ exposed \subseteq exposed' /\ exposed' \subseteq Tokens
           /\ \A q \in Processes \ {p} : InWindow(q) => Changes(file, R) \subseteq exposed'
           /\ (\A q \in Processes \ {p} : ~InWindow(q)) => exposed' = exposed
           /\ (\E q \in Processes \ {p} : InWindow(q)) =>
                exposed' = exposed \cup Changes(file, R)
           /\ file \in SUBSET Tokens /\ R \in SUBSET Tokens /\ k \in Tokens \cup {None}
           /\ Listing(R) /\ (k # None => bound[k] # None)
           /\ file \ R \subseteq expired \cup exposed \cup {k}
           /\ R \cap (spent \cup {k}) \subseteq exposed
           /\ k \in file \cup exposed \cup {None}
           /\ k # None => R \subseteq file \cup exposed
           /\ \E t \in Tokens : R \subseteq file \cup exposed \cup {t}
<1>1. TypeOK /\ Prepared(p) /\ Holds(p)
  BY DEF IInv, Sound
<1>2. /\ op[p].step = "replace" /\ op' = [op EXCEPT ![p].step = "stat"]
      /\ file' = R /\ spent' = spent \cup ({k} \cap Tokens)
      /\ current' = [q \in Processes |-> FALSE]
      /\ UNCHANGED <<bound, expired, cache, granted>>
      /\ exposed' = IF \E q \in Processes \ {p} : InWindow(q)
                    THEN exposed \cup Changes(file, R) ELSE exposed
  BY DEF Replace
<1>3. /\ \A q \in Processes : q # p => op'[q] = op[q]
      /\ op'[p].step = "stat" /\ op'[p].token = k /\ op'[p].records = R
      /\ op' \in [Processes -> Op]
  BY <1>1, <1>2, StepOp, OthersOp DEF TypeOK, Op
<1>4. file \in SUBSET Tokens /\ R \in SUBSET Tokens /\ k \in Tokens \cup {None}
  BY <1>1, OpFields DEF TypeOK
<1>5. exposed \subseteq exposed' /\ exposed' \subseteq Tokens
  BY <1>1, <1>2, <1>4 DEF TypeOK, Changes
<1>6. Listing(R) /\ (k # None => bound[k] # None)
  BY <1>1, <1>2 DEF Holds, Idle
<1>7. /\ file \ R \subseteq expired \cup exposed \cup {k}
      /\ R \cap (spent \cup {k}) \subseteq exposed
      /\ k \in file \cup exposed \cup {None}
      /\ k # None => R \subseteq file \cup exposed
      /\ \E t \in Tokens : R \subseteq file \cup exposed \cup {t}
  BY <1>1, <1>2 DEF Prepared
<1> QED
  BY <1>2, <1>3, <1>4, <1>5, <1>6, <1>7

(* os.replace: the version it prepared becomes the file.                   *)
LEMMA ReplaceKeeps ==
    ASSUME IInv, NEW p \in Processes, Replace(p)
    PROVE  IInv'
<1>0. PICK R, k : R = op[p].records /\ k = op[p].token
  OBVIOUS
<1>1. /\ file' = R /\ spent' = spent \cup ({k} \cap Tokens)
      /\ current' = [q \in Processes |-> FALSE]
      /\ UNCHANGED <<bound, expired, cache, granted>>
      /\ \A q \in Processes : q # p => op'[q] = op[q]
      /\ op'[p].step = "stat" /\ op'[p].token = k /\ op'[p].records = R
      /\ op' \in [Processes -> Op]
      /\ exposed \subseteq exposed' /\ exposed' \subseteq Tokens
      /\ \A q \in Processes \ {p} : InWindow(q) => Changes(file, R) \subseteq exposed'
  BY <1>0, ReplaceFacts
<1>2. /\ file \in SUBSET Tokens /\ R \in SUBSET Tokens /\ k \in Tokens \cup {None}
      /\ Listing(R) /\ (k # None => bound[k] # None)
      /\ file \ R \subseteq expired \cup exposed \cup {k}
      /\ R \cap (spent \cup {k}) \subseteq exposed
      /\ k \in file \cup exposed \cup {None}
  BY <1>0, ReplaceFacts
<1>3. TypeOK /\ Spending /\ Apart /\ (\A q \in Processes : Sound(q))
  BY DEF IInv
<1>4. k \in Tokens => k \in Changes(file, R) \cup exposed
  BY <1>2, ApprovalsAssumption DEF Changes
<1>5. TypeOK'
  BY <1>1, <1>2, <1>3 DEF TypeOK, Listing
<1>6. \A S : Listing(S) => Listing(S)'
  BY <1>1 DEF Listing
<1>7. Listing(file)'
  BY <1>1, <1>2 DEF Listing
<1>8. Copies'
  BY <1>1 DEF Copies
<1>9. Spending'
  <2>1. file' \cap spent' \subseteq exposed'
    BY <1>1, <1>2
  <2>2. \A t \in Tokens \ exposed' :
          granted'[t] <= 1 /\ (granted'[t] # 0 => t \in spent')
    BY <1>1, <1>3 DEF Spending
  <2>3. \A t \in spent' : bound'[t] # None
    BY <1>1, <1>2, <1>3, ApprovalsAssumption DEF Spending
  <2> QED
    BY <2>1, <2>2, <2>3 DEF Spending
<1>10. ASSUME NEW q \in Processes, q # p, op[q].step = "stat", op[q].token = k
       PROVE  k \in exposed' \cup {None}
  <2>1. InWindow(q)
    BY <1>10 DEF InWindow
  <2> QED
    BY <1>1, <1>2, <1>4, <1>10, <2>1
<1>11. Apart'
  <2>1. ASSUME NEW q \in Processes, NEW r \in Processes, q # r, q # p, r # p,
               op[q].step = "stat", op[r].step = "stat", op[q].token = op[r].token
        PROVE  op[q].token \in exposed' \cup {None}
    BY <1>1, <1>3, <2>1 DEF Apart
  <2> QED
    BY <1>1, <1>10, <2>1 DEF Apart
<1>12. Sound(p)'
  <2>1. Holds(p)'
    BY <1>1, <1>2, <1>3, <1>6 DEF Sound, Holds, Idle, Listing
  <2>2. k \in Tokens \ exposed' => k \in spent' /\ granted'[k] = 0
    BY <1>1, <1>2, <1>3, ApprovalsAssumption DEF Spending
  <2>3. Replaced(p)'
    BY <1>1, <2>2 DEF Replaced, Changes
  <2> QED
    BY <1>1, <2>1, <2>3 DEF Sound, Prepared
<1>13. ASSUME NEW q \in Processes, q # p PROVE Sound(q)'
  <2>0. PICK S, l : S = op[q].records /\ l = op[q].token
    OBVIOUS
  <2>1. Sound(q) /\ op'[q] = op[q] /\ ~current'[q] /\ cache'[q] = cache[q]
    BY <1>1, <1>3, <1>13
  <2>2. Holds(q)'
    BY <1>1, <1>6, <2>1 DEF Sound, Holds, Idle, Listing
  <2>3. Prepared(q)'
    <3>1. CASE op[q].step = "replace"
      <4>1. /\ file \ S \subseteq expired \cup exposed \cup {l}
            /\ S \cap (spent \cup {l}) \subseteq exposed
            /\ l \in file \cup exposed \cup {None}
            /\ l # None => S \subseteq file \cup exposed
            /\ \E t \in Tokens : S \subseteq file \cup exposed \cup {t}
        BY <2>0, <2>1, <3>1 DEF Sound, Prepared
      <4>2. Changes(file, R) \subseteq exposed'
        BY <1>1, <1>13, <3>1 DEF InWindow
      <4>3. /\ file' \ S \subseteq expired' \cup exposed' \cup {l}
            /\ S \cap (spent' \cup {l}) \subseteq exposed'
            /\ l \in file' \cup exposed' \cup {None}
            /\ l # None => S \subseteq file' \cup exposed'
        BY <1>1, <1>4, <4>1, <4>2 DEF Changes
      <4>4. \E t \in Tokens : S \subseteq file' \cup exposed' \cup {t}
        BY <1>1, <4>1, <4>2 DEF Changes
      <4> QED
        BY <2>0, <2>1, <4>3, <4>4 DEF Prepared
    <3>2. CASE op[q].step # "replace"
      BY <2>1, <3>2 DEF Prepared
    <3> QED
      BY <3>1, <3>2
  <2>4. Replaced(q)'
    <3>1. CASE op[q].step = "stat"
      <4>1. Changes(S, file) \subseteq exposed
            /\ (l \in Tokens \ exposed => l \in spent /\ granted[l] = 0)
        BY <2>0, <2>1, <3>1 DEF Sound, Replaced
      <4>2. Changes(file, R) \subseteq exposed'
        BY <1>1, <1>13, <3>1 DEF InWindow
      <4>3. Changes(S, file') \subseteq exposed'
            /\ (l \in Tokens \ exposed' => l \in spent' /\ granted'[l] = 0)
        BY <1>1, <4>1, <4>2 DEF Changes
      <4> QED
        BY <2>0, <2>1, <4>3 DEF Replaced
    <3>2. CASE op[q].step # "stat"
      BY <2>1, <3>2 DEF Replaced
    <3> QED
      BY <3>1, <3>2
  <2> QED
    BY <2>2, <2>3, <2>4 DEF Sound
<1> QED
  BY <1>5, <1>7, <1>8, <1>9, <1>11, <1>12, <1>13 DEF IInv

(* The stat that ends a replacement; a consume call returns true.          *)
LEMMA StatKeeps ==
    ASSUME IInv, NEW p \in Processes, Stat(p)
    PROVE  IInv'
<1>0. PICK R, k : R = op[p].records /\ k = op[p].token
  OBVIOUS
<1>1. /\ op[p].step = "stat" /\ op' = [op EXCEPT ![p] = NoOp]
      /\ current' = [current EXCEPT ![p] = TRUE]
      /\ cache' = [cache EXCEPT ![p] = R]
      /\ granted' = [t \in Tokens |-> IF t = k THEN Counted(granted[t]) ELSE granted[t]]
      /\ UNCHANGED <<file, bound, expired, spent, exposed>>
  BY <1>0 DEF Stat
<1>2. TypeOK /\ Spending /\ Apart /\ (\A q \in Processes : Sound(q))
  BY DEF IInv
<1>3. NoOp \in Op /\ NoOp.step = "idle"
  BY DEF NoOp, Op
<1>4. op'[p] = NoOp /\ (\A q \in Processes : q # p => op'[q] = op[q])
        /\ op' \in [Processes -> Op]
  BY <1>1, <1>2, <1>3, OthersOp
<1>5. /\ Changes(R, file) \subseteq exposed /\ Listing(R)
      /\ k \in Tokens \ exposed => k \in spent /\ granted[k] = 0
  BY <1>0, <1>1, <1>2 DEF Sound, Replaced, Holds, Idle
<1>6. granted' \in [Tokens -> 0..2]
  BY <1>1, <1>2 DEF TypeOK, Counted
<1>7. TypeOK'
  BY <1>1, <1>2, <1>4, <1>5, <1>6 DEF TypeOK, Listing
<1>8. \A S : Listing(S) => Listing(S)'
  BY <1>1 DEF Listing
<1>9. Listing(file)'
  BY <1>1, <1>8 DEF IInv, Listing
<1>10. Copies'
  BY <1>1, <1>2, <1>5 DEF IInv, Copies, TypeOK
<1>11. Apart'
  BY <1>1, <1>2, <1>3, <1>4 DEF Apart
<1>12. Spending'
  <2>1. ASSUME NEW t \in Tokens \ exposed
        PROVE granted'[t] <= 1 /\ (granted'[t] # 0 => t \in spent)
    BY <1>1, <1>2, <1>5, <2>1 DEF Spending, Counted
  <2> QED
    BY <1>1, <1>2, <2>1 DEF Spending
<1>13. Sound(p)'
  <2>1. Listing(cache[p])'
    BY <1>1, <1>2, <1>5, <1>8 DEF Listing, TypeOK
  <2> QED
    BY <1>3, <1>4, <2>1 DEF Sound, Holds, Idle, Prepared, Replaced
<1>14. ASSUME NEW q \in Processes, q # p PROVE Sound(q)'
  <2>1. PICK l : l = op[q].token
    OBVIOUS
  <2>2. Sound(q) /\ l \in Tokens \cup {None}
    BY <1>2, <2>1, OpFields
  <2>3. op'[q] = op[q] /\ cache'[q] = cache[q] /\ current'[q] = current[q]
    BY <1>1, <1>2, <1>4, <1>14 DEF TypeOK
  <2>4. op[q].step = "stat" /\ l \in Tokens \ exposed => granted'[l] = granted[l]
    BY <1>0, <1>1, <1>2, <1>14, <2>1, ApprovalsAssumption DEF Apart
  <2> QED
    BY <1>1, <2>1, <2>2, <2>3, <2>4, OtherSound
<1> QED
  BY <1>7, <1>9, <1>10, <1>11, <1>12, <1>13, <1>14 DEF IInv
-----------------------------------------------------------------------------
(* The theorems.                                                           *)

(* The registry starts with an empty file that every process has read.     *)
LEMMA Initially == ASSUME Init PROVE IInv
<1>1. Cardinality({}) = 0 /\ 0 <= MaxRecords
  BY FS_EmptySet, ApprovalsAssumption
<1>2. \A p \in Processes : op[p].step = "idle" /\ op[p] \in Op
  BY DEF Init, NoOp, Op
<1>3. TypeOK
  BY <1>1, <1>2 DEF Init, TypeOK
<1>4. Listing(file) /\ Copies /\ Spending
  BY <1>1 DEF Init, Listing, Copies, Spending, Changes
<1>5. Apart
  BY <1>2 DEF Apart
<1>6. \A p \in Processes : Sound(p)
  BY <1>1, <1>2 DEF Init, Listing, Sound, Holds, Idle, Prepared, Replaced
<1> QED
  BY <1>3, <1>4, <1>5, <1>6 DEF IInv

(* Every step keeps the invariant.                                         *)
LEMMA StepKeeps == ASSUME IInv, [Next]_vars PROVE IInv'
<1>1. ASSUME NEW p \in Servers, NEW b \in Bindings,
             HasMatching(p, b) \/ \E t \in Tokens : Consume(p, t, b)
      PROVE  IInv'
  BY <1>1, ConsumeKeeps, LooksKeep DEF HasMatching, Processes
<1>2. ASSUME NEW p \in Operators, NEW t \in Tokens, NEW b \in Bindings, Issue(p, t, b)
      PROVE  IInv'
  BY <1>2, IssueKeeps DEF Processes
<1>3. ASSUME NEW p \in Processes, IdentityHolds(p) PROVE IInv'
  BY <1>3, CheckedKeeps
<1>4. ASSUME NEW p \in Processes, IdentityChanged(p) PROVE IInv'
  BY <1>4, DropsKeeps DEF IdentityChanged
<1>5. ASSUME NEW p \in Processes, Replace(p) PROVE IInv'
  BY <1>5, ReplaceKeeps
<1>6. ASSUME NEW p \in Processes, Stat(p) PROVE IInv'
  BY <1>6, StatKeeps
<1>7. ASSUME NEW p \in Processes, Restart(p) PROVE IInv'
  BY <1>7, DropsKeeps DEF Restart
<1>8. ASSUME NEW t \in Tokens, Expires(t) PROVE IInv'
  <2>1. expired' \in SUBSET Tokens
    BY <1>8 DEF Expires, IInv, TypeOK
  <2> QED
    BY <1>8, <2>1, TimeKeeps DEF Expires
<1>9. CASE UNCHANGED vars
  <2>1. expired' \in SUBSET Tokens
    BY <1>9 DEF vars, IInv, TypeOK
  <2> QED
    BY <1>9, <2>1, TimeKeeps DEF vars
<1> QED
  BY <1>1, <1>2, <1>3, <1>4, <1>5, <1>6, <1>7, <1>8, <1>9 DEF Next

(* The inductive invariant: outside the races, a version that may still    *)
(* become the file was made from the file, and what has left the file for  *)
(* a consumer is gone.                                                     *)
THEOREM InvariantHolds == Spec => []IInv
<1>1. Init => IInv
  BY Initially
<1>2. IInv /\ [Next]_vars => IInv'
  BY StepKeeps
<1> QED
  BY <1>1, <1>2, PTL DEF Spec

(* Every variable keeps its type, and the file never outgrows the capacity *)
(* beyond which from_file refuses to read it, whatever races there were.   *)
THEOREM TypeCorrect == Spec => []TypeOK
<1>1. IInv => TypeOK
  BY DEF IInv
<1> QED
  BY <1>1, InvariantHolds, PTL

(* At most one consume call returns true for a token, over all processes,  *)
(* unless that very token was at stake in a race.                          *)
THEOREM TokensConsumedOnce == Spec => []ConsumedOnce
<1>1. IInv => ConsumedOnce
  BY DEF IInv, Spending, ConsumedOnce
<1> QED
  BY <1>1, InvariantHolds, PTL

(* A copy that a process believes to be up to date is up to date about     *)
(* every approval that was not at stake in a race.                         *)
THEOREM CopiesAreRight == Spec => []CopyIsFile
<1>1. IInv => CopyIsFile
  BY DEF IInv, Copies, CopyIsFile
<1> QED
  BY <1>1, InvariantHolds, PTL

(* An issued approval leaves the file only by being consumed, by expiring, *)
(* or in a race over it.                                                   *)
THEOREM IssuesSurvive == Spec => IssuedSurvives
<1>1. ASSUME IInv, [Next]_vars
      PROVE  [\A t \in file \ file' : t \in spent' \cup expired \cup exposed']_vars
  <2>1. ASSUME NEW p \in Processes, Replace(p)
        PROVE  \A t \in file \ file' : t \in spent' \cup expired \cup exposed'
    <3>0. PICK R, k : R = op[p].records /\ k = op[p].token
      OBVIOUS
    <3>1. /\ file' = R /\ spent' = spent \cup ({k} \cap Tokens)
          /\ exposed \subseteq exposed' /\ file \in SUBSET Tokens
          /\ file \ R \subseteq expired \cup exposed \cup {k}
      BY <1>1, <2>1, <3>0, ReplaceFacts
    <3> QED
      BY <3>1
  <2>2. CASE \A p \in Processes : ~Replace(p)
    <3>1. file' = file
      BY <1>1, <2>2 DEF Next, HasMatching, Consume, Issue, IdentityHolds,
         IdentityChanged, Stat, Restart, Expires, vars
    <3> QED
      BY <3>1
  <2> QED
    BY <2>1, <2>2
<1> QED
  BY <1>1, InvariantHolds, PTL DEF Spec, IssuedSurvives

-----------------------------------------------------------------------------
(* The ledger.                                                             *)

(* A step that leaves the file, its history and the clock alone changes no *)
(* standing, and none ever changes that of a raced approval.               *)
LEMMA StandingSame ==
    ASSUME NEW t \in Tokens, t \in exposed' <=> t \in exposed,
           \/ t \in exposed
           \/ /\ t \in file' <=> t \in file
              /\ t \in spent' <=> t \in spent
              /\ t \in expired' <=> t \in expired
    PROVE  StandingOf(t)' = StandingOf(t)
BY DEF StandingOf

(* A step that changes the standing of one approval only.                  *)
LEMMA OneTurns ==
    ASSUME NEW t \in Tokens, NEW from, StandingOf(t) \in from, NEW to, StandingOf(t)' = to,
           \A u \in Tokens : u # t => StandingOf(u)' = StandingOf(u),
           granted' = granted
    PROVE  Ledger!Turns(t, from, to)
<1>1. [u \in Tokens |-> StandingOf(u)'] = [[u \in Tokens |-> StandingOf(u)] EXCEPT ![t] = to]
  OBVIOUS
<1> QED
  BY <1>1 DEF Ledger!Turns

(* os.replace inside another process's window is a race over the approvals *)
(* that it adds and removes, and concerns no other.                        *)
LEMMA RaceIsStep ==
    ASSUME IInv, NEW p \in Processes, Replace(p),
           NEW q \in Processes \ {p}, InWindow(q)
    PROVE  Ledger!LedgerNext
<1>0. PICK R, k : R = op[p].records /\ k = op[p].token
  OBVIOUS
<1>1. /\ file' = R /\ spent' = spent \cup ({k} \cap Tokens)
      /\ expired' = expired /\ granted' = granted
      /\ exposed \subseteq exposed' /\ Changes(file, R) \subseteq exposed'
      /\ exposed' \subseteq Tokens
      /\ file \in SUBSET Tokens /\ R \in SUBSET Tokens
      /\ R \cap (spent \cup {k}) \subseteq exposed
      /\ k \in file \cup exposed \cup {None}
  BY <1>0, ReplaceFacts
<1>2. k \in Tokens => k \in exposed'
  BY <1>1, ApprovalsAssumption DEF Changes
<1>3. PICK S : S = exposed'
  OBVIOUS
<1>4. ASSUME NEW t \in Tokens
      PROVE  StandingOf(t)' = IF t \in S THEN "raced" ELSE StandingOf(t)
  <2>1. CASE t \in S
    BY <1>3, <2>1 DEF StandingOf
  <2>2. CASE t \notin S
    <3>1. /\ t \in exposed' <=> t \in exposed
          /\ t \in file' <=> t \in file
          /\ t \in spent' <=> t \in spent
          /\ t \in expired' <=> t \in expired
      BY <1>1, <1>2, <1>3, <2>2 DEF Changes
    <3> QED
      BY <2>2, <3>1, StandingSame
  <2> QED
    BY <2>1, <2>2
<1>5. Ledger!Race(S)
  BY <1>1, <1>4 DEF Ledger!Race
<1> QED
  BY <1>1, <1>3, <1>5 DEF Ledger!LedgerNext

(* os.replace publishes an approval, spends one, or does neither.          *)
LEMMA ReplaceIsStep ==
    ASSUME IInv, NEW p \in Processes, Replace(p)
    PROVE  [Ledger!LedgerNext]_(Ledger!ledgerVars)
<1>a. CASE \E q \in Processes \ {p} : InWindow(q)
  BY <1>a, RaceIsStep
<1>b. CASE \A q \in Processes \ {p} : ~InWindow(q)
  <2>0. PICK R, k : R = op[p].records /\ k = op[p].token
    OBVIOUS
  <2>1. /\ file' = R /\ spent' = spent \cup ({k} \cap Tokens)
        /\ expired' = expired /\ granted' = granted /\ exposed' = exposed
    BY <1>b, <2>0, ReplaceFacts
  <2>2. /\ file \in SUBSET Tokens /\ R \in SUBSET Tokens /\ k \in Tokens \cup {None}
        /\ file \cap spent \subseteq exposed
    BY <2>0, ReplaceFacts DEF IInv, Spending
  <2>3. /\ file \ R \subseteq expired \cup exposed \cup {k}
        /\ R \cap (spent \cup {k}) \subseteq exposed
        /\ k \in file \cup exposed \cup {None}
        /\ k # None => R \subseteq file \cup exposed
        /\ \E t \in Tokens : R \subseteq file \cup exposed \cup {t}
    BY <2>0, ReplaceFacts
  <2>4. ASSUME NEW t \in Tokens, t # k,
               t \in file \cup exposed \/ t \notin R
        PROVE  StandingOf(t)' = StandingOf(t)
    <3>1. (t \in spent') <=> (t \in spent)
      BY <2>1, <2>4
    <3>2. CASE t \in exposed \/ (t \in file <=> t \in R)
      BY <2>1, <3>1, <3>2, StandingSame
    <3>3. CASE t \notin exposed /\ t \in file /\ t \notin R
      <4>1. t \in expired /\ t \notin spent
        BY <2>2, <2>3, <2>4, <3>3
      <4> QED
        BY <2>1, <3>1, <3>3, <4>1 DEF StandingOf
    <3> QED
      BY <2>4, <3>2, <3>3
  <2>5. CASE k # None
    <3>1. k \in Tokens /\ \A t \in Tokens : t # k => StandingOf(t)' = StandingOf(t)
      BY <2>2, <2>3, <2>4, <2>5
    <3>2. CASE k \in exposed
      <4>1. StandingOf(k)' = StandingOf(k)
        BY <2>1, <3>1, <3>2, StandingSame
      <4> QED
        BY <2>1, <3>1, <4>1 DEF Ledger!ledgerVars
    <3>3. CASE k \notin exposed
      <4>1. k \in file /\ k \notin R /\ k \in spent'
        BY <2>1, <2>3, <3>1, <3>3, <2>5
      <4>2. StandingOf(k) \in {"good", "lapsed"} /\ StandingOf(k)' = "spent"
        BY <2>1, <3>3, <4>1 DEF StandingOf
      <4>3. Ledger!Spend(k)
        BY <2>1, <3>1, <4>2, OneTurns DEF Ledger!Spend
      <4> QED
        BY <3>1, <4>3 DEF Ledger!LedgerNext
    <3> QED
      BY <3>2, <3>3
  <2>6. CASE k = None
    <3>1. PICK n \in Tokens : R \subseteq file \cup exposed \cup {n}
      BY <2>3
    <3>2. spent' = spent /\ None \notin Tokens
      BY <2>1, <2>6, ApprovalsAssumption
    <3>3. ASSUME NEW t \in Tokens, t # n \/ n \in file \cup exposed \/ n \notin R
          PROVE  StandingOf(t)' = StandingOf(t)
      BY <2>4, <2>6, <3>1, <3>2, <3>3
    <3>4. CASE n \in R /\ n \notin file \cup exposed /\ n \notin expired
      <4>1. StandingOf(n) = "unissued" /\ StandingOf(n)' = "good"
        BY <2>1, <2>3, <3>4 DEF StandingOf
      <4>2. Ledger!Publish(n)
        BY <2>1, <3>3, <4>1, OneTurns DEF Ledger!Publish
      <4> QED
        BY <4>2 DEF Ledger!LedgerNext
    <3>5. CASE n \in R /\ n \notin file \cup exposed /\ n \in expired
      <4>1. StandingOf(n)' = StandingOf(n)
        BY <2>1, <2>3, <3>5 DEF StandingOf
      <4>2. \A t \in Tokens : StandingOf(t)' = StandingOf(t)
        BY <3>3, <4>1
      <4> QED
        BY <2>1, <4>2 DEF Ledger!ledgerVars
    <3>6. CASE n \notin R \/ n \in file \cup exposed
      BY <2>1, <3>3, <3>6 DEF Ledger!ledgerVars
    <3> QED
      BY <3>4, <3>5, <3>6
  <2> QED
    BY <2>5, <2>6
<1> QED
  BY <1>a, <1>b

(* The stat after a consumption grants the approval that was spent.        *)
LEMMA StatIsStep ==
    ASSUME IInv, NEW p \in Processes, Stat(p)
    PROVE  [Ledger!LedgerNext]_(Ledger!ledgerVars)
<1>0. PICK k : k = op[p].token
  OBVIOUS
<1>1. /\ UNCHANGED <<file, spent, expired, exposed>> /\ op[p].step = "stat"
      /\ granted' = [t \in Tokens |-> IF t = k THEN Counted(granted[t]) ELSE granted[t]]
  BY <1>0 DEF Stat
<1>2. /\ granted \in [Tokens -> 0..2] /\ k \in Tokens \cup {None}
      /\ file \cap spent \subseteq exposed
      /\ k \in Tokens \ exposed => k \in spent /\ granted[k] = 0
  BY <1>0, <1>1, OpFields DEF IInv, TypeOK, Spending, Sound, Replaced
<1>3. \A t \in Tokens : StandingOf(t)' = StandingOf(t)
  BY <1>1, StandingSame
<1>4. CASE k = None
  <2>1. granted' = granted
    BY <1>1, <1>2, <1>4, ApprovalsAssumption
  <2> QED
    BY <1>3, <2>1 DEF Ledger!ledgerVars
<1>5. CASE k # None
  <2>1. k \in Tokens
        /\ (StandingOf(k) = "raced" \/ (StandingOf(k) = "spent" /\ granted[k] = 0))
    BY <1>2, <1>5 DEF StandingOf
  <2>2. granted' = [granted EXCEPT ![k] = IF @ = 0 THEN 1 ELSE 2]
    BY <1>1, <1>2, <2>1 DEF Counted
  <2>3. Ledger!Grant(k)
    BY <1>3, <2>1, <2>2 DEF Ledger!Grant
  <2> QED
    BY <2>1, <2>3 DEF Ledger!LedgerNext
<1> QED
  BY <1>4, <1>5

(* An approval whose time is over lapses, unless it is spent or raced.     *)
LEMMA ExpiresIsStep ==
    ASSUME IInv, NEW t \in Tokens, Expires(t)
    PROVE  [Ledger!LedgerNext]_(Ledger!ledgerVars)
<1>1. /\ UNCHANGED <<file, spent, granted, exposed>> /\ t \notin expired
      /\ expired' = expired \cup {t} /\ file \cap spent \subseteq exposed
  BY DEF Expires, IInv, Spending
<1>2. \A u \in Tokens : u # t => StandingOf(u)' = StandingOf(u)
  BY <1>1, StandingSame
<1>3. CASE t \in spent \cup exposed
  <2>1. StandingOf(t)' = StandingOf(t)
    BY <1>1, <1>3 DEF StandingOf
  <2> QED
    BY <1>1, <1>2, <2>1 DEF Ledger!ledgerVars
<1>4. CASE t \notin spent \cup exposed
  <2>1. StandingOf(t) \in {"unissued", "good"} /\ StandingOf(t)' = "lapsed"
    BY <1>1, <1>4 DEF StandingOf
  <2>2. Ledger!Lapse(t)
    BY <1>1, <1>2, <2>1, OneTurns DEF Ledger!Lapse
  <2> QED
    BY <2>2 DEF Ledger!LedgerNext
<1> QED
  BY <1>3, <1>4

(* Everything else is no step of the ledger: an operation begins, checks   *)
(* or fails, a process reads the file or starts again.                     *)
LEMMA OthersAreNoStep ==
    ASSUME UNCHANGED <<file, spent, expired, granted, exposed>>
    PROVE  [Ledger!LedgerNext]_(Ledger!ledgerVars)
<1>1. \A t \in Tokens : StandingOf(t)' = StandingOf(t)
  BY StandingSame
<1> QED
  BY <1>1 DEF Ledger!ledgerVars

(* All processes, copies and replacements together implement one list from *)
(* which every approval is taken at most once and none is lost, whatever   *)
(* races there were over others.                                           *)
THEOREM ApprovalsAreLedger == Spec => ImplementsLedger
<1>1. Init => IInv /\ Ledger!LedgerInit
  <2> SUFFICES ASSUME Init PROVE IInv /\ Ledger!LedgerInit
    OBVIOUS
  <2>1. IInv
    BY Initially
  <2>2. Ledger!LedgerInit
    BY DEF Init, StandingOf, Ledger!LedgerInit
  <2> QED
    BY <2>1, <2>2
<1>2. IInv /\ [Next]_vars => IInv'
  BY StepKeeps
<1>3. IInv /\ [Next]_vars => [Ledger!LedgerNext]_(Ledger!ledgerVars)
  <2> SUFFICES ASSUME IInv, [Next]_vars
               PROVE  [Ledger!LedgerNext]_(Ledger!ledgerVars)
    OBVIOUS
  <2>1. ASSUME NEW p \in Processes, Replace(p)
        PROVE  [Ledger!LedgerNext]_(Ledger!ledgerVars)
    BY <2>1, ReplaceIsStep
  <2>2. ASSUME NEW p \in Processes, Stat(p)
        PROVE  [Ledger!LedgerNext]_(Ledger!ledgerVars)
    BY <2>2, StatIsStep
  <2>3. ASSUME NEW t \in Tokens, Expires(t)
        PROVE  [Ledger!LedgerNext]_(Ledger!ledgerVars)
    BY <2>3, ExpiresIsStep
  <2>4. CASE UNCHANGED <<file, spent, expired, granted, exposed>>
    BY <2>4, OthersAreNoStep
  <2>5. \/ \E p \in Processes : Replace(p) \/ Stat(p)
        \/ \E t \in Tokens : Expires(t)
        \/ UNCHANGED <<file, spent, expired, granted, exposed>>
    BY DEF Next, HasMatching, Consume, Issue, IdentityHolds, IdentityChanged,
       Restart, vars
  <2> QED
    BY <2>1, <2>2, <2>3, <2>4, <2>5
<1> QED
  BY <1>1, <1>2, <1>3, PTL DEF Spec, ImplementsLedger, Ledger!LedgerSpec

-----------------------------------------------------------------------------
(* Docker recreate plans.                                                  *)

(* An invocation that has not asked compose for anything has made nothing, *)
(* and one that has is an apply whose reply is no refusal.                 *)
Untouched(e) ==
    /\ e.up \in {"none", "sent"} => e.made = Nil
    /\ e.op # "apply" \/ e.step \in ReadSteps => e.up = "none" /\ e.reply = Nil
    /\ e.reply # Nil => e.step = "done"
    /\ e.step = "idle" => e.op = Nil
    /\ e.reply \in Refusals => e.up = "none"

(* What an invocation has read has the type that later steps rely on.      *)
Informed(e) ==
    /\ e.step \in {"config", "image"} \/ e.up # "none" => e.files \in FileSets
    /\ e.step = "image" => e.desired \in Specs

(* As long as nothing has changed since an apply read the files, they say  *)
(* what it has read; and once compose is to run, what the receipt binds.   *)
Reads(e) ==
    /\ e.step = "image" /\ e.steady => compose[e.files] = e.desired
    /\ e.up # "none" /\ e.made = Nil /\ e.steady /\ ~e.receipt.explicit =>
        /\ compose[e.files] = e.receipt.desired
        /\ digest[e.receipt.desired.tag] = e.receipt.digest
        /\ e.files = e.receipt.files

(* What has been made, or found in place, is what was planned.             *)
Follows(e) ==
    /\ e.made # Nil /\ e.steady /\ ~e.receipt.explicit =>
        /\ e.made.core = e.receipt.desired.core
        /\ e.made.env = e.receipt.desired.env
        /\ e.made.digest = e.receipt.digest
        /\ e.made.files = e.receipt.files
    /\ e.reply = "ALREADY_APPLIED" =>
        ~Differs(e.seen, e.receipt.desired, e.receipt.digest)

Fits(e) == Untouched(e) /\ Informed(e) /\ Reads(e) /\ Follows(e)

PlanInv ==
    /\ PlanTypeOK
    /\ \A c \in Callers : Fits(call[c])

-----------------------------------------------------------------------------
(* What an ending makes of an invocation.                                  *)
Ended(e, reply) ==
    CASE e.op = "plan" -> IdleCall
      [] e.op = "apply" /\ (e.up # "none" \/ reply = "ALREADY_APPLIED") ->
            [e EXCEPT !.step = "done", !.reply = reply]
      [] OTHER -> [IdleCall EXCEPT !.op = "apply", !.step = "done",
                               !.reply = reply]

(* The fields of an invocation have their types.                           *)
LEMMA CallFields ==
    ASSUME NEW e \in Call
    PROVE  /\ e.op \in {"plan", "apply", Nil} /\ e.step \in Steps
           /\ e.image \in Images \cup {Nil}
           /\ e.files \in FileSets \cup {Nil} /\ e.allow \in BOOLEAN
           /\ e.receipt \in Payload \cup {Nil}
           /\ e.seen \in Container \cup {Nil}
           /\ e.desired \in Specs \cup {Nil} /\ e.up \in Requests
           /\ e.made \in Container \cup {Nil} /\ e.steady \in BOOLEAN
           /\ e.reply \in Replies \cup {Nil}
BY DEF Call

(* Fields of their types make a record of an invocation.                   *)
LEMMA CallRecord ==
    ASSUME NEW o \in {"plan", "apply", Nil}, NEW p \in Steps,
           NEW i \in Images \cup {Nil}, NEW f \in FileSets \cup {Nil},
           NEW a \in BOOLEAN, NEW r \in Payload \cup {Nil},
           NEW s \in Container \cup {Nil}, NEW d \in Specs \cup {Nil},
           NEW u \in Requests, NEW m \in Container \cup {Nil},
           NEW y \in BOOLEAN, NEW z \in Replies \cup {Nil}
    PROVE  [op |-> o, step |-> p, image |-> i, files |-> f, allow |-> a,
            receipt |-> r, seen |-> s, desired |-> d, up |-> u, made |-> m,
            steady |-> y, reply |-> z] \in Call
BY DEF Call

(* An invocation in which nothing has been read or asked for fits, unless  *)
(* it says that all was applied already.                                   *)
LEMMA BlankFits ==
    ASSUME NEW e, e.made = Nil, e.up = "none", e.step # "image",
           e.step # "config", e.reply # "ALREADY_APPLIED",
           e.op # "apply" \/ e.step \in ReadSteps => e.reply = Nil,
           e.reply # Nil => e.step = "done",
           e.step = "idle" => e.op = Nil
    PROVE  Fits(e)
BY DEF Fits, Untouched, Informed, Reads, Follows

(* The beginning of an invocation and the end of one that did nothing.     *)
LEMMA IdleFits == IdleCall \in Call /\ Fits(IdleCall)
<1>1. IdleCall \in Call
  BY CallRecord DEF IdleCall, Steps, Requests
<1>2. Fits(IdleCall)
  BY BlankFits, NoReply DEF IdleCall, ReadSteps, Replies
<1> QED
  BY <1>1, <1>2

(* Every ending fits, if it refuses only what has not been asked for and   *)
(* says "applied already" only of what agrees with the receipt.            *)
LEMMA EndedFits ==
    ASSUME NEW e \in Call, Fits(e), NEW reply \in Replies,
           reply \in Refusals => e.up = "none",
           reply = "ALREADY_APPLIED" =>
               /\ e.op = "apply"
               /\ ~Differs(e.seen, e.receipt.desired, e.receipt.digest)
    PROVE  Ended(e, reply) \in Call /\ Fits(Ended(e, reply))
<1>1. CASE e.op = "plan"
  BY <1>1, IdleFits DEF Ended
<1>2. CASE e.op = "apply" /\ (e.up # "none" \/ reply = "ALREADY_APPLIED")
  <2> DEFINE E == [e EXCEPT !.step = "done", !.reply = reply]
  <2>1. Ended(e, reply) = E
    BY <1>2 DEF Ended
  <2>2. E \in Call
    BY DEF Call, Steps
  <2>3. /\ E.op = e.op /\ E.step = "done" /\ E.files = e.files
        /\ E.receipt = e.receipt /\ E.seen = e.seen
        /\ E.desired = e.desired /\ E.up = e.up /\ E.made = e.made
        /\ E.steady = e.steady /\ E.reply = reply
    BY DEF Call
  <2> HIDE DEF E
  <2>4. Fits(E)
    BY <2>3, <1>2 DEF Fits, Untouched, Informed, Reads, Follows, ReadSteps
  <2> QED
    BY <2>1, <2>2, <2>4
<1>3. CASE /\ e.op # "plan"
           /\ ~(e.op = "apply" /\ (e.up # "none" \/ reply = "ALREADY_APPLIED"))
  <2> DEFINE E == [IdleCall EXCEPT !.op = "apply", !.step = "done",
                               !.reply = reply]
  <2>1. Ended(e, reply) = E
    BY <1>3 DEF Ended
  <2>2. E \in Call
    BY IdleFits, ZenonT(40) DEF Call, Steps
  <2>3. /\ E.op = "apply" /\ E.step = "done" /\ E.up = "none"
        /\ E.made = Nil /\ E.reply = reply
    BY DEF IdleCall
  <2>4. reply # "ALREADY_APPLIED"
    BY <1>3
  <2> HIDE DEF E
  <2>5. Fits(E)
    BY <2>3, <2>4, BlankFits DEF ReadSteps
  <2> QED
    BY <2>1, <2>2, <2>5
<1> QED
  BY <1>1, <1>2, <1>3

-----------------------------------------------------------------------------
(* A step of one invocation leaves the others what they were, as long as   *)
(* the files and the tags stay as they are.                                *)
LEMMA OneCall ==
    ASSUME PlanInv, NEW c \in Callers, NEW E \in Call, Fits(E),
           call' = [call EXCEPT ![c] = E], UNCHANGED <<compose, digest>>
    PROVE  /\ call' \in [Callers -> Call]
           /\ \A x \in Callers : Fits(call[x])'
<1>1. call \in [Callers -> Call]
  BY DEF PlanInv, PlanTypeOK
<1>2. call'[c] = E /\ \A x \in Callers \ {c} : call'[x] = call[x]
  BY <1>1
<1>3. ASSUME NEW x \in Callers PROVE Fits(call[x])'
  <2>1. Fits(call'[x])
    BY <1>2 DEF PlanInv
  <2> QED
    BY <2>1 DEF Fits, Untouched, Informed, Reads, Follows, Differs
<1> QED
  BY <1>1, <1>3

(* If besides only the container changes, the invariant stays.             *)
LEMMA OneCallKept ==
    ASSUME PlanInv, NEW c \in Callers, NEW E \in Call, Fits(E),
           call' = [call EXCEPT ![c] = E],
           live' \in Container \cup {Nil}, births' \in Nat,
           UNCHANGED <<compose, digest, store, given, changes>>
    PROVE  PlanInv'
<1>1. /\ call' \in [Callers -> Call]
      /\ \A x \in Callers : Fits(call[x])'
  BY OneCall
<1>2. PlanTypeOK'
  BY <1>1 DEF PlanInv, PlanTypeOK
<1> QED
  BY <1>1, <1>2 DEF PlanInv

(* An ending that says no more than it may keeps the invariant.            *)
LEMMA EndKept ==
    ASSUME PlanInv, NEW c \in Callers, NEW reply \in Replies, End(c, reply),
           reply \in Refusals => call[c].up = "none",
           reply = "ALREADY_APPLIED" =>
               /\ call[c].op = "apply"
               /\ ~Differs(call[c].seen, call[c].receipt.desired,
                           call[c].receipt.digest),
           UNCHANGED <<hostVars, store, given>>
    PROVE  PlanInv'
<1> DEFINE E == Ended(call[c], reply)
<1>1. call \in [Callers -> Call] /\ Fits(call[c])
  BY DEF PlanInv, PlanTypeOK
<1>2. call[c] \in Call
  BY <1>1
<1>3. E \in Call /\ Fits(E)
  BY <1>1, <1>2, EndedFits
<1>4. call' = [call EXCEPT ![c] = E]
  BY <1>1 DEF End, Ended
<1>5. /\ live' \in Container \cup {Nil} /\ births' \in Nat
      /\ UNCHANGED <<compose, digest, store, given, changes>>
  BY DEF PlanInv, PlanTypeOK, hostVars
<1> HIDE DEF E
<1> QED
  BY <1>3, <1>4, <1>5, OneCallKept

LEMMA PlanBeginsKept ==
    ASSUME PlanInv, NEW c \in Callers, NEW files \in FileSets \cup {Nil},
           NEW image \in Images \cup {Nil}, NEW allow \in BOOLEAN,
           PlanBegins(c, files, image, allow)
    PROVE  PlanInv'
<1> DEFINE E == [IdleCall EXCEPT !.op = "plan", !.step = "resolve",
                             !.files = files, !.image = image,
                             !.allow = allow]
<1>1. E \in Call
  BY IdleFits, ZenonT(40) DEF Call, Steps, ReadSteps
<1>2. /\ E.op = "plan" /\ E.step = "resolve" /\ E.up = "none"
      /\ E.made = Nil /\ E.reply = Nil
  BY DEF IdleCall
<1>3. call' = [call EXCEPT ![c] = E]
  BY DEF PlanBegins
<1>4. /\ live' \in Container \cup {Nil} /\ births' \in Nat
      /\ UNCHANGED <<compose, digest, store, given, changes>>
  BY DEF PlanInv, PlanTypeOK, hostVars, PlanBegins
<1> HIDE DEF E
<1>5. Fits(E)
  BY <1>2, NoReply, BlankFits DEF ReadSteps, Replies
<1> QED
  BY <1>1, <1>3, <1>4, <1>5, OneCallKept

LEMMA ApplyBeginsKept ==
    ASSUME PlanInv, NEW c \in Callers, NEW receipt \in given,
           ApplyBegins(c, receipt)
    PROVE  PlanInv'
<1>1. /\ live' \in Container \cup {Nil} /\ births' \in Nat
      /\ UNCHANGED <<compose, digest, store, given, changes>>
      /\ receipt \in Payload
  BY DEF PlanInv, PlanTypeOK, hostVars, ApplyBegins
<1>2. CASE HasRecord(receipt)
  <2> DEFINE E == [IdleCall EXCEPT !.op = "apply", !.step = "resolve",
                               !.files = RecordOf(receipt).payload.files,
                               !.image = RecordOf(receipt).image,
                               !.allow = RecordOf(receipt).payload.allow,
                               !.receipt = receipt]
  <2>1. RecordOf(receipt) \in PlanRecord
    BY <1>2 DEF HasRecord, RecordOf, PlanInv, PlanTypeOK
  <2>2. /\ RecordOf(receipt).payload \in Payload
        /\ RecordOf(receipt).image \in Images \cup {Nil}
    BY <2>1 DEF PlanRecord
  <2>3. /\ RecordOf(receipt).payload.files \in FileSets
        /\ RecordOf(receipt).payload.allow \in BOOLEAN
    BY <2>2 DEF Payload
  <2>4. E \in Call
    BY <2>2, <2>3, <1>1, IdleFits DEF Call, Steps, ReadSteps
  <2>5. /\ E.op = "apply" /\ E.step = "resolve" /\ E.up = "none"
        /\ E.made = Nil /\ E.reply = Nil
    BY DEF IdleCall
  <2>6. call' = [call EXCEPT ![c] = E]
    BY <1>2 DEF ApplyBegins
  <2> HIDE DEF E
  <2>7. Fits(E)
    BY <2>5, NoReply, BlankFits DEF ReadSteps, Replies
  <2> QED
    BY <1>1, <2>4, <2>6, <2>7, OneCallKept
<1>3. CASE ~HasRecord(receipt)
  <2> DEFINE E == [IdleCall EXCEPT !.op = "apply", !.step = "done",
                               !.reply = "PLAN_STALE"]
  <2>1. E \in Call
    BY IdleFits DEF Call, Steps, Replies, Refusals
  <2>2. /\ E.op = "apply" /\ E.step = "done" /\ E.up = "none"
        /\ E.made = Nil /\ E.reply = "PLAN_STALE"
    BY DEF IdleCall
  <2>3. call' = [call EXCEPT ![c] = E]
    BY <1>3 DEF ApplyBegins
  <2> HIDE DEF E
  <2>4. Fits(E)
    BY <2>2, BlankFits DEF ReadSteps
  <2> QED
    BY <1>1, <2>1, <2>3, <2>4, OneCallKept
<1> QED
  BY <1>2, <1>3

LEMMA ResolveKept ==
    ASSUME PlanInv, NEW c \in Callers, Resolve(c)
    PROVE  PlanInv'
<1>1. /\ live' \in Container \cup {Nil} /\ births' \in Nat
      /\ UNCHANGED <<compose, digest, store, given, changes>>
      /\ call[c].step = "resolve" /\ live \in Container
      /\ call \in [Callers -> Call] /\ Fits(call[c])
  BY DEF PlanInv, PlanTypeOK, hostVars, Resolve
<1>2. call[c] \in Call /\ live.files \in FileSets
  BY <1>1 DEF Container
<1>3. CASE call[c].files \in {Nil, live.files}
  <2> DEFINE E == [call[c] EXCEPT !.step = "config", !.files = live.files,
                                  !.seen = IF call[c].op = "apply"
                                           THEN live ELSE Nil]
  <2>1. E \in Call
    BY <1>1, <1>2, ZenonT(40) DEF Call, Steps, ReadSteps
  <2>2. /\ E.op = call[c].op /\ E.step = "config" /\ E.up = call[c].up
        /\ E.files = live.files /\ E.made = call[c].made
        /\ E.reply = call[c].reply /\ E.steady = call[c].steady
        /\ E.receipt = call[c].receipt
    BY <1>2 DEF Call
  <2>3. call' = [call EXCEPT ![c] = E]
    BY <1>1, <1>3 DEF Resolve
  <2>4. call[c].up = "none" /\ call[c].reply = Nil /\ call[c].made = Nil
    BY <1>1 DEF Fits, Untouched, ReadSteps
  <2> HIDE DEF E
  <2>5. Fits(E)
    BY <2>2, <2>4, <1>2, NoReply
       DEF Fits, Untouched, Informed, Reads, Follows, ReadSteps, Replies
  <2> QED
    BY <1>1, <2>1, <2>3, <2>5, OneCallKept
<1>4. CASE call[c].files \notin {Nil, live.files}
  <2>1. End(c, "DECLARED_RUNTIME_DRIFT")
    BY <1>4 DEF Resolve
  <2>2. call[c].up = "none"
    BY <1>1 DEF Fits, Untouched, ReadSteps
  <2>3. UNCHANGED <<hostVars, store, given>>
    BY DEF Resolve
  <2> QED
    BY <2>1, <2>2, <2>3, EndKept DEF Replies, Refusals
<1> QED
  BY <1>3, <1>4

(* The endings that only report an error.                                  *)
LEMMA FailureKept ==
    ASSUME PlanInv, NEW c \in Callers,
           \/ NotResolved(c) \/ NoImage(c) \/ ReadFails(c) \/ Abandoned(c)
           \/ NotVerified(c) \/ WaitReady(c)
    PROVE  PlanInv'
<1>1. Fits(call[c]) /\ UNCHANGED <<hostVars, store, given>>
  BY DEF PlanInv, NotResolved, NoImage, ReadFails, Abandoned, NotVerified, WaitReady
<1>2. CASE NotResolved(c) \/ NoImage(c)
  <2>1. /\ call[c].step \in {"resolve", "config"}
        /\ End(c, "NOT_FOUND") \/ End(c, "VALIDATION")
    BY <1>2 DEF NotResolved, NoImage
  <2>2. call[c].up = "none"
    BY <2>1, <1>1 DEF Fits, Untouched, ReadSteps
  <2> QED
    BY <2>1, <2>2, <1>1, EndKept DEF Replies, Refusals
<1>3. \A reply \in Replies \ (Refusals \cup {"ALREADY_APPLIED"}) :
        End(c, reply) => PlanInv'
  BY <1>1, EndKept
<1>4. /\ "UPSTREAM" \in Replies \ (Refusals \cup {"ALREADY_APPLIED"})
      /\ "AMBIGUOUS" \in Replies \ (Refusals \cup {"ALREADY_APPLIED"})
      /\ "APPLIED" \in Replies \ (Refusals \cup {"ALREADY_APPLIED"})
      /\ "APPLIED_UNVERIFIED" \in Replies \ (Refusals \cup {"ALREADY_APPLIED"})
  BY DEF Replies, Refusals
<1> QED
  BY <1>2, <1>3, <1>4 DEF ReadFails, Abandoned, NotVerified, WaitReady

LEMMA ReadConfigKept ==
    ASSUME PlanInv, NEW c \in Callers, ReadConfig(c)
    PROVE  PlanInv'
<1> DEFINE E == [call[c] EXCEPT !.step = "image",
                                !.steady = call[c].op = "apply",
                                !.desired = compose[call[c].files]]
<1>1. /\ live' \in Container \cup {Nil} /\ births' \in Nat
      /\ UNCHANGED <<compose, digest, store, given, changes>>
      /\ call[c].step = "config" /\ compose \in [FileSets -> Specs]
      /\ call \in [Callers -> Call] /\ Fits(call[c])
  BY DEF PlanInv, PlanTypeOK, hostVars, ReadConfig
<1>2. call[c] \in Call /\ call[c].files \in FileSets
  BY <1>1 DEF Fits, Informed
<1>3. E \in Call
  BY <1>1, <1>2, ZenonT(40) DEF Call, Steps, ReadSteps
<1>4. /\ E.op = call[c].op /\ E.step = "image" /\ E.up = call[c].up
      /\ E.files = call[c].files /\ E.made = call[c].made
      /\ E.reply = call[c].reply /\ E.desired = compose[call[c].files]
  BY <1>2 DEF Call
<1>5. call' = [call EXCEPT ![c] = E]
  BY <1>1 DEF ReadConfig
<1>6. call[c].up = "none" /\ call[c].reply = Nil /\ call[c].made = Nil
  BY <1>1 DEF Fits, Untouched, ReadSteps
<1> HIDE DEF E
<1>7. Fits(E)
  BY <1>1, <1>2, <1>4, <1>6, NoReply
     DEF Fits, Untouched, Informed, Reads, Follows, ReadSteps, Replies
<1> QED
  BY <1>1, <1>3, <1>5, <1>7, OneCallKept

(* The image that is looked up is the content of a known tag.              *)
LEMMA DigestKnown ==
    ASSUME PlanInv, NEW c \in Callers, call[c].step = "image"
    PROVE  DigestRead(c) \in Digests
<1>1. call[c] \in Call /\ digest \in [Tags -> Digests] /\ Fits(call[c])
  BY DEF PlanInv, PlanTypeOK
<1>2. call[c].desired \in Specs /\ call[c].image \in Images \cup {Nil}
  BY <1>1 DEF Fits, Informed, Call
<1> QED
  BY <1>1, <1>2, DockerPlansAssumption DEF DigestRead

LEMMA DecideKept ==
    ASSUME PlanInv, NEW c \in Callers, Decide(c)
    PROVE  PlanInv'
<1>1. /\ live' \in Container \cup {Nil} /\ births' \in Nat
      /\ UNCHANGED <<compose, digest, store, given, changes>>
      /\ call[c].op = "apply" /\ call[c].step = "image"
      /\ call \in [Callers -> Call] /\ Fits(call[c])
  BY DEF PlanInv, PlanTypeOK, hostVars, Decide
<1>2. call[c] \in Call /\ call[c].files \in FileSets
  BY <1>1 DEF Fits, Informed
<1>3. call[c].up = "none" /\ call[c].reply = Nil /\ call[c].made = Nil
  BY <1>1 DEF Fits, Untouched, ReadSteps
<1>4. Unchanged(c) =>
        /\ call[c].receipt.files = call[c].files
        /\ call[c].receipt.explicit = (call[c].image # Nil)
        /\ call[c].receipt.digest = DigestRead(c)
        /\ call[c].receipt.desired = call[c].desired
  BY DEF Unchanged, PayloadOf
<1>5. CASE Verdict(c) = Nil
  <2> DEFINE E == [call[c] EXCEPT !.step = "up", !.up = "sent",
                                  !.seen = Nil, !.desired = Nil]
  <2>1. E \in Call
    BY <1>1, <1>2 DEF Call, Steps, Requests
  <2>2. /\ E.op = "apply" /\ E.step = "up" /\ E.up = "sent"
        /\ E.files = call[c].files /\ E.made = Nil
        /\ E.reply = Nil /\ E.receipt = call[c].receipt
        /\ E.steady = call[c].steady
    BY <1>1, <1>2, <1>3 DEF Call
  <2>3. call' = [call EXCEPT ![c] = E]
    BY <1>1, <1>5 DEF Decide
  <2>4. Unchanged(c)
    BY <1>5, NoReply DEF Verdict, Staleness, Replies, Refusals
  <2>5. call[c].steady /\ ~call[c].receipt.explicit =>
          /\ compose[call[c].files] = call[c].receipt.desired
          /\ digest[call[c].receipt.desired.tag] = call[c].receipt.digest
    BY <2>4, <1>4, <1>1 DEF Fits, Reads, DigestRead
  <2> HIDE DEF E
  <2>6. Fits(E)
    BY <2>2, <2>4, <2>5, <1>2, <1>4, NoReply
       DEF Fits, Untouched, Informed, Reads, Follows, ReadSteps, Replies,
           Refusals
  <2> QED
    BY <1>1, <2>1, <2>3, <2>6, OneCallKept
<1>6. CASE Verdict(c) # Nil
  <2>1. End(c, Verdict(c)) /\ UNCHANGED <<hostVars, store, given>>
    BY <1>6 DEF Decide
  <2>2. Verdict(c) \in Replies
    BY <1>6 DEF Verdict, Staleness, Replies, Refusals
  <2>3. Verdict(c) = "ALREADY_APPLIED" => Unchanged(c) /\ ~Drifted(c)
    BY <1>6 DEF Verdict, Staleness
  <2>4. Verdict(c) = "ALREADY_APPLIED" =>
          /\ call[c].op = "apply"
          /\ ~Differs(call[c].seen, call[c].receipt.desired,
                      call[c].receipt.digest)
    BY <1>1, <1>4, <2>3 DEF Drifted
  <2> QED
    BY <1>3, <2>1, <2>2, <2>4, EndKept
<1> QED
  BY <1>5, <1>6

-----------------------------------------------------------------------------
(* Recreating                                                              *)

(* What compose creates is a container.                                    *)
LEMMA RecreatedType ==
    ASSUME PlanInv, NEW f \in FileSets
    PROVE  Recreated(f) \in Container
<1>1. /\ compose \in [FileSets -> Specs] /\ digest \in [Tags -> Digests]
      /\ births \in Nat
  BY DEF PlanInv, PlanTypeOK
<1>2. compose[f] \in Specs
  BY <1>1
<1>3. /\ compose[f].core \in Cores /\ compose[f].tag \in Tags
      /\ compose[f].env \subseteq Settings
  BY <1>2, DockerPlansAssumption DEF Settings
<1>4. digest[compose[f].tag] \in Digests /\ births + 1 \in Nat
  BY <1>1, <1>3
<1> QED
  BY <1>3, <1>4 DEF Recreated, Container

(* compose up has run, or stopped in between, and made something or not.   *)
LEMMA UpKept ==
    ASSUME PlanInv, NEW c \in Callers, call[c].up = "sent",
           NEW u \in {"ended", "failed"},
           NEW m \in {Nil, Recreated(call[c].files)},
           call' = [call EXCEPT ![c] = [call[c] EXCEPT !.up = u, !.made = m]],
           live' \in {live, Nil, Recreated(call[c].files)}, births' \in Nat,
           UNCHANGED <<compose, digest, store, given, changes>>
    PROVE  PlanInv'
<1> DEFINE E == [call[c] EXCEPT !.up = u, !.made = m]
<1>1. /\ call \in [Callers -> Call] /\ Fits(call[c])
      /\ live \in Container \cup {Nil}
  BY DEF PlanInv, PlanTypeOK
<1>2. /\ call[c] \in Call /\ call[c].files \in FileSets
      /\ call[c].made = Nil
  BY <1>1 DEF Fits, Informed, Untouched
<1>3. /\ live' \in Container \cup {Nil} /\ births' \in Nat
      /\ m \in Container \cup {Nil}
  BY <1>1, <1>2, RecreatedType
<1>4. E \in Call
  <2>1. u \in Requests /\ m \in Container \cup {Nil} /\ call[c] \in Call
    BY <1>2, <1>3 DEF Requests
  <2>2. \A e \in Call, x \in Requests, y \in Container \cup {Nil} :
          [e EXCEPT !.up = x, !.made = y] \in Call
    BY DEF Call
  <2> QED
    BY <2>1, <2>2
<1>5. /\ E.op = call[c].op /\ E.step = call[c].step /\ E.up = u
      /\ E.files = call[c].files /\ E.made = m /\ E.desired = call[c].desired
      /\ E.reply = call[c].reply /\ E.receipt = call[c].receipt
      /\ E.steady = call[c].steady /\ E.seen = call[c].seen
  BY <1>2 DEF Call
<1>6. call' = [call EXCEPT ![c] = E]
  OBVIOUS
<1>7. m # Nil =>
        /\ m.core = compose[call[c].files].core
        /\ m.env = compose[call[c].files].env
        /\ m.digest = digest[compose[call[c].files].tag]
        /\ m.files = call[c].files
  BY DEF Recreated
<1>8. call[c].steady /\ ~call[c].receipt.explicit =>
        /\ compose[call[c].files] = call[c].receipt.desired
        /\ digest[call[c].receipt.desired.tag] = call[c].receipt.digest
        /\ call[c].files = call[c].receipt.files
  BY <1>1, <1>2 DEF Fits, Reads
<1> HIDE DEF E
<1>9. Untouched(E) /\ Informed(E)
  BY <1>1, <1>5 DEF Fits, Untouched, Informed
<1>10. Reads(E) /\ Follows(E)
  BY <1>1, <1>5, <1>7, <1>8 DEF Fits, Reads, Follows, Untouched
<1> QED
  BY <1>3, <1>4, <1>6, <1>9, <1>10, OneCallKept DEF Fits

LEMMA UpExecutesKept ==
    ASSUME PlanInv, NEW c \in Callers, UpExecutes(c)
    PROVE  PlanInv'
<1> DEFINE m == Recreated(call[c].files)
<1>1. /\ call[c].up = "sent" /\ live' = m /\ births' = births + 1
      /\ UNCHANGED <<compose, digest, store, given, changes>>
      /\ call' = [call EXCEPT ![c].up = "ended", ![c].made = m]
      /\ births \in Nat
      /\ call \in [Callers -> Call]
  BY DEF UpExecutes, PlanInv, PlanTypeOK
<1>2. call' = [call EXCEPT ![c] = [call[c] EXCEPT !.up = "ended", !.made = m]]
  BY <1>1
<1>3. m \in {Nil, m} /\ live' \in {live, Nil, m} /\ births' \in Nat
  BY <1>1
<1> QED
  BY <1>1, <1>2, <1>3, UpKept

LEMMA UpFailsKept ==
    ASSUME PlanInv, NEW c \in Callers, UpFails(c)
    PROVE  PlanInv'
<1> DEFINE m == Recreated(call[c].files)
<1>1. /\ call[c].up = "sent" /\ births \in Nat /\ call \in [Callers -> Call]
      /\ UNCHANGED <<compose, digest, store, given, changes>>
  BY DEF UpFails, PlanInv, PlanTypeOK
<1>2. CASE /\ live' \in {live, Nil} /\ births' = births
           /\ call' = [call EXCEPT ![c].up = "failed"]
  <2>1. call[c] \in Call /\ call[c].made = Nil
    BY <1>1 DEF PlanInv, Fits, Untouched
  <2>2. [call[c] EXCEPT !.up = "failed"]
          = [call[c] EXCEPT !.up = "failed", !.made = Nil]
    BY <2>1 DEF Call
  <2>3. call' = [call EXCEPT ![c] = [call[c] EXCEPT !.up = "failed", !.made = Nil]]
    BY <1>1, <1>2, <2>2
  <2> QED
    BY <1>1, <1>2, <2>3, UpKept
<1>3. CASE /\ live' = m /\ births' = births + 1
           /\ call' = [call EXCEPT ![c].up = "failed", ![c].made = m]
  <2>1. call' = [call EXCEPT ![c] = [call[c] EXCEPT !.up = "failed", !.made = m]]
    BY <1>1, <1>3
  <2>2. m \in {Nil, m} /\ live' \in {live, Nil, m} /\ births' \in Nat
    BY <1>1, <1>3
  <2> QED
    BY <1>1, <2>1, <2>2, UpKept
<1> QED
  BY <1>2, <1>3 DEF UpFails

LEMMA UpAnsweredKept ==
    ASSUME PlanInv, NEW c \in Callers, UpAnswered(c)
    PROVE  PlanInv'
<1>1. /\ live' \in Container \cup {Nil} /\ births' \in Nat
      /\ UNCHANGED <<compose, digest, store, given, changes>>
      /\ call[c].step = "up"
      /\ call \in [Callers -> Call] /\ Fits(call[c])
  BY DEF PlanInv, PlanTypeOK, hostVars, UpAnswered
<1>2. CASE /\ call[c].up = "ended"
           /\ call' = [call EXCEPT ![c].step = "verify"]
  <2> DEFINE E == [call[c] EXCEPT !.step = "verify"]
  <2>1. E \in Call
    BY <1>1 DEF Call, Steps
  <2>2. /\ E.op = call[c].op /\ E.step = "verify" /\ E.up = call[c].up
        /\ E.files = call[c].files /\ E.made = call[c].made
        /\ E.reply = call[c].reply /\ E.receipt = call[c].receipt
        /\ E.steady = call[c].steady /\ E.seen = call[c].seen
    BY <1>1 DEF Call
  <2>3. call' = [call EXCEPT ![c] = E]
    BY <1>1, <1>2
  <2> HIDE DEF E
  <2>4. Fits(E)
    BY <1>1, <2>2 DEF Fits, Untouched, Informed, Reads, Follows, ReadSteps
  <2> QED
    BY <1>1, <2>1, <2>3, <2>4, OneCallKept
<1>3. CASE End(c, "UPSTREAM")
  <2>1. /\ "UPSTREAM" \in Replies /\ "UPSTREAM" \notin Refusals
        /\ UNCHANGED <<hostVars, store, given>>
    BY DEF Replies, Refusals, UpAnswered
  <2> QED
    BY <1>3, <2>1, EndKept
<1> QED
  BY <1>2, <1>3 DEF UpAnswered

LEMMA VerifyKept ==
    ASSUME PlanInv, NEW c \in Callers, Verify(c)
    PROVE  PlanInv'
<1> DEFINE E == [call[c] EXCEPT !.step = "wait", !.seen = live]
<1>1. /\ live' \in Container \cup {Nil} /\ births' \in Nat
      /\ live \in Container
      /\ UNCHANGED <<compose, digest, store, given, changes>>
      /\ call[c].step = "verify"
      /\ call \in [Callers -> Call] /\ Fits(call[c])
  BY DEF PlanInv, PlanTypeOK, hostVars, Verify
<1>2. E \in Call
  BY <1>1, ZenonT(40) DEF Call, Steps
<1>3. /\ E.op = call[c].op /\ E.step = "wait" /\ E.up = call[c].up
      /\ E.files = call[c].files /\ E.made = call[c].made
      /\ E.reply = call[c].reply /\ E.receipt = call[c].receipt
      /\ E.steady = call[c].steady
  BY <1>1 DEF Call
<1>4. call' = [call EXCEPT ![c] = E]
  BY <1>1 DEF Verify
<1>5. call[c].reply = Nil
  BY <1>1 DEF Fits, Untouched
<1> HIDE DEF E
<1>6. Fits(E)
  BY <1>1, <1>3, <1>5, NoReply
     DEF Fits, Untouched, Informed, Reads, Follows, ReadSteps, Replies
<1> QED
  BY <1>1, <1>2, <1>4, <1>6, OneCallKept

-----------------------------------------------------------------------------
(* Others                                                                  *)

(* An edit or a moved tag leaves nobody believing what he has read before, *)
(* but those whose container exists already.                               *)
LEMMA UnsteadyFits ==
    ASSUME PlanInv, call' = Unsteady
    PROVE  /\ call' \in [Callers -> Call]
           /\ \A x \in Callers : Fits(call[x])'
<1>1. call \in [Callers -> Call]
  BY DEF PlanInv, PlanTypeOK
<1>2. \A x \in Callers : call'[x] = IF call[x].made = Nil
                           THEN [call[x] EXCEPT !.steady = FALSE] ELSE call[x]
  BY DEF Unsteady
<1>3. ASSUME NEW x \in Callers PROVE call'[x] \in Call /\ Fits(call[x])'
  <2>1. call[x] \in Call /\ Fits(call[x])
    BY <1>1 DEF PlanInv
  <2>2. CASE call[x].made = Nil
    <3> DEFINE E == [call[x] EXCEPT !.steady = FALSE]
    <3>1. call'[x] = E
      BY <1>2, <2>2
    <3>2. E \in Call
      BY <2>1 DEF Call
    <3>3. /\ E.op = call[x].op /\ E.step = call[x].step /\ E.up = call[x].up
          /\ E.files = call[x].files /\ E.made = Nil /\ E.seen = call[x].seen
          /\ E.reply = call[x].reply /\ E.receipt = call[x].receipt
          /\ E.desired = call[x].desired /\ E.steady = FALSE
      BY <2>1, <2>2 DEF Call
    <3> HIDE DEF E
    <3>4. Untouched(E) /\ Informed(E) /\ Follows(E)
      BY <2>1, <2>2, <3>3 DEF Fits, Untouched, Informed, Follows
    <3>5. Untouched(call[x])' /\ Informed(call[x])' /\ Follows(call[x])'
      BY <3>1, <3>4 DEF Untouched, Informed, Follows, Differs
    <3>6. Reads(call[x])'
      BY <3>1, <3>3 DEF Reads
    <3> QED
      BY <3>1, <3>2, <3>5, <3>6 DEF Fits
  <2>3. CASE call[x].made # Nil
    <3>1. call'[x] = call[x]
      BY <1>2, <2>3
    <3>2. Untouched(call[x])' /\ Informed(call[x])' /\ Follows(call[x])'
      BY <2>1, <3>1 DEF Fits, Untouched, Informed, Follows, Differs
    <3>3. call[x].step # "image"
      BY <2>1, <2>3 DEF Fits, Untouched, ReadSteps
    <3>4. Reads(call[x])'
      BY <2>3, <3>1, <3>3 DEF Reads
    <3> QED
      BY <2>1, <3>1, <3>2, <3>4 DEF Fits
  <2> QED
    BY <2>2, <2>3
<1>4. call' \in [Callers -> Call]
  BY <1>3 DEF Unsteady
<1> QED
  BY <1>3, <1>4

LEMMA ComposeEditedKept ==
    ASSUME PlanInv, ComposeEdited
    PROVE  PlanInv'
<1>1. /\ call' \in [Callers -> Call]
      /\ \A x \in Callers : Fits(call[x])'
  BY UnsteadyFits DEF ComposeEdited
<1>2. compose' \in [FileSets -> Specs]
  BY DEF PlanInv, PlanTypeOK, ComposeEdited
<1>3. changes' \in 0 .. MaxChanges
  BY DockerPlansAssumption DEF PlanInv, PlanTypeOK, ComposeEdited, SomethingChanges
<1> QED
  BY <1>1, <1>2, <1>3 DEF PlanInv, PlanTypeOK, ComposeEdited

LEMMA TagMovedKept ==
    ASSUME PlanInv, TagMoved
    PROVE  PlanInv'
<1>1. /\ call' \in [Callers -> Call]
      /\ \A x \in Callers : Fits(call[x])'
  BY UnsteadyFits DEF TagMoved
<1>2. digest' \in [Tags -> Digests]
  BY DEF PlanInv, PlanTypeOK, TagMoved
<1>3. changes' \in 0 .. MaxChanges
  BY DockerPlansAssumption DEF PlanInv, PlanTypeOK, TagMoved, SomethingChanges
<1> QED
  BY <1>1, <1>2, <1>3 DEF PlanInv, PlanTypeOK, TagMoved

(* What else happens to the container is nothing any call relies on.       *)
LEMMA ContainerKept ==
    ASSUME PlanInv, ContainerChanged \/ ContainerReplaced
    PROVE  PlanInv'
<1>1. changes' \in 0 .. MaxChanges
  BY DockerPlansAssumption
     DEF PlanInv, PlanTypeOK, ContainerChanged, ContainerReplaced, SomethingChanges
<1>2. UNCHANGED <<compose, digest, store, given, call>>
  BY DEF ContainerChanged, ContainerReplaced
<1>3. ASSUME ContainerChanged
      PROVE  live' \in Container \cup {Nil} /\ births' \in Nat
  <2>1. PICK core \in Cores : live' = [live EXCEPT !.core = core]
    BY <1>3 DEF ContainerChanged
  <2>2. live \in Container
    BY <1>3 DEF PlanInv, PlanTypeOK, ContainerChanged
  <2>3. live' \in Container
    BY <2>1, <2>2 DEF Container
  <2>4. births' = births
    BY <1>3 DEF ContainerChanged
  <2> QED
    BY <2>3, <2>4 DEF PlanInv, PlanTypeOK
<1>4. ASSUME ContainerReplaced
      PROVE  live' \in Container \cup {Nil} /\ births' \in Nat
  BY <1>4, RecreatedType DEF PlanInv, PlanTypeOK, ContainerReplaced
<1>5. live' \in Container \cup {Nil} /\ births' \in Nat
  BY <1>3, <1>4
<1>6. PlanTypeOK'
  BY <1>1, <1>2, <1>5 DEF PlanInv, PlanTypeOK
<1>7. \A x \in Callers : Fits(call[x])'
  BY <1>2 DEF PlanInv, Fits, Untouched, Informed, Reads, Follows, Differs
<1> QED
  BY <1>6, <1>7 DEF PlanInv

-----------------------------------------------------------------------------
(* The plan store                                                          *)

OnePerReceipt(s) ==
    \A i, j \in DOMAIN s : s[i].payload = s[j].payload => i = j

(* A later part of a store is one with as many records.                    *)
LEMMA NewestKeeps ==
    ASSUME NEW s \in Seq(PlanRecord), OnePerReceipt(s)
    PROVE  /\ Newest(s) \in Seq(PlanRecord)
           /\ Len(Newest(s)) <= MaxPlanRecords
           /\ OnePerReceipt(Newest(s))
<1>1. MaxPlanRecords \in Nat /\ MaxPlanRecords > 0 /\ Len(s) \in Nat
  BY DockerPlansAssumption
<1>2. CASE Len(s) > MaxPlanRecords
  <2> DEFINE t == SubSeq(s, Len(s) - MaxPlanRecords + 1, Len(s))
  <2>1. \A i \in Len(s) - MaxPlanRecords + 1 .. Len(s) : s[i] \in PlanRecord
    BY <1>1, <1>2
  <2>2. /\ t \in Seq(PlanRecord) /\ Len(t) = MaxPlanRecords
        /\ \A i \in 1 .. MaxPlanRecords : t[i] = s[Len(s) - MaxPlanRecords + i]
    <3>1. Len(s) - MaxPlanRecords + 1 \in Int /\ Len(s) \in Int
      BY <1>1
    <3>2. /\ t \in Seq(PlanRecord)
          /\ Len(t) = IF Len(s) - MaxPlanRecords + 1 <= Len(s)
                      THEN Len(s) - (Len(s) - MaxPlanRecords + 1) + 1 ELSE 0
          /\ \A i \in 1 .. Len(s) - (Len(s) - MaxPlanRecords + 1) + 1 :
               t[i] = s[Len(s) - MaxPlanRecords + 1 + i - 1]
      BY <2>1, <3>1, SubSeqProperties
    <3> HIDE DEF t
    <3> QED
      BY <1>1, <3>2
  <2>3. Newest(s) = t
    BY <1>2 DEF Newest
  <2> HIDE DEF t
  <2> DEFINE at(i) == Len(s) - MaxPlanRecords + i
  <2>4. /\ \A i \in 1 .. MaxPlanRecords : at(i) \in 1 .. Len(s)
        /\ \A i, j \in 1 .. MaxPlanRecords : at(i) = at(j) => i = j
    BY <1>1, <1>2
  <2>5. DOMAIN t = 1 .. MaxPlanRecords /\ DOMAIN s = 1 .. Len(s)
    BY <1>1, <2>2
  <2>6. \A i \in 1 .. MaxPlanRecords : t[i] = s[at(i)]
    BY <2>2
  <2> HIDE DEF at
  <2>7. OnePerReceipt(t)
    BY <2>4, <2>5, <2>6 DEF OnePerReceipt
  <2> QED
    BY <1>1, <2>2, <2>3, <2>7
<1>3. CASE ~(Len(s) > MaxPlanRecords)
  BY <1>1, <1>3 DEF Newest
<1> QED
  BY <1>2, <1>3

(* Of a store with one record per receipt, that of a receipt is taken out. *)
LEMMA WithoutKeeps ==
    ASSUME store \in Seq(PlanRecord), OnePerReceipt(store), NEW r
    PROVE  /\ Without(r) \in Seq(PlanRecord)
           /\ OnePerReceipt(Without(r))
           /\ \A i \in DOMAIN Without(r) : Without(r)[i].payload # r
<1>1. CASE HasRecord(r)
  <2> DEFINE k == CHOOSE j \in DOMAIN store : store[j].payload = r
             a == SubSeq(store, 1, k - 1)
             b == SubSeq(store, k + 1, Len(store))
  <2>1. k \in 1 .. Len(store) /\ store[k].payload = r
    BY <1>1 DEF HasRecord
  <2>2. Without(r) = a \o b
    BY <1>1 DEF Without
  <2> HIDE DEF k
  <2>3. \A i \in 1 .. Len(store) : store[i] \in PlanRecord
    OBVIOUS
  <2>4. /\ a \in Seq(PlanRecord) /\ Len(a) = k - 1
        /\ \A i \in 1 .. k - 1 : a[i] = store[i]
    <3>1. 1 \in Int /\ k - 1 \in Int /\ \A i \in 1 .. k - 1 : store[i] \in PlanRecord
      BY <2>1, <2>3
    <3>2. /\ a \in Seq(PlanRecord)
          /\ Len(a) = IF 1 <= k - 1 THEN k - 1 - 1 + 1 ELSE 0
          /\ \A i \in 1 .. k - 1 - 1 + 1 : a[i] = store[1 + i - 1]
      BY <3>1, SubSeqProperties
    <3> HIDE DEF a
    <3> QED
      BY <2>1, <3>2
  <2>5. /\ b \in Seq(PlanRecord) /\ Len(b) = Len(store) - k
        /\ \A i \in 1 .. Len(store) - k : b[i] = store[k + i]
    <3>1. /\ k + 1 \in Int /\ Len(store) \in Int
          /\ \A i \in k + 1 .. Len(store) : store[i] \in PlanRecord
      BY <2>1, <2>3
    <3>2. /\ b \in Seq(PlanRecord)
          /\ Len(b) = IF k + 1 <= Len(store)
                      THEN Len(store) - (k + 1) + 1 ELSE 0
          /\ \A i \in 1 .. Len(store) - (k + 1) + 1 : b[i] = store[k + 1 + i - 1]
      BY <3>1, SubSeqProperties
    <3> HIDE DEF b
    <3> QED
      BY <2>1, <3>2
  <2> HIDE DEF a, b
  <2>6. /\ a \o b \in Seq(PlanRecord)
        /\ Len(a \o b) = Len(a) + Len(b)
        /\ \A i \in 1 .. Len(a) + Len(b) :
             (a \o b)[i] = IF i <= Len(a) THEN a[i] ELSE b[i - Len(a)]
    BY <2>4, <2>5, ConcatProperties
  <2> DEFINE u == a \o b
             at(i) == IF i < k THEN i ELSE i + 1
  <2>7. /\ u \in Seq(PlanRecord) /\ Len(u) = Len(store) - 1
        /\ \A i \in 1 .. Len(store) - 1 : u[i] = store[at(i)]
    BY <2>1, <2>4, <2>5, <2>6
  <2> HIDE DEF u
  <2>8. \A i \in 1 .. Len(store) - 1 : at(i) \in 1 .. Len(store) /\ at(i) # k
    BY <2>1
  <2>9. \A i, j \in 1 .. Len(store) - 1 : at(i) = at(j) => i = j
    BY <2>1
  <2> HIDE DEF at
  <2>10. DOMAIN u = 1 .. Len(store) - 1 /\ DOMAIN store = 1 .. Len(store)
    BY <2>7
  <2>11. \A i \in DOMAIN u : u[i].payload # r
    BY <2>1, <2>7, <2>8, <2>10 DEF OnePerReceipt
  <2>12. OnePerReceipt(u)
    BY <2>7, <2>8, <2>9, <2>10 DEF OnePerReceipt
  <2>13. Without(r) = u
    BY <2>2 DEF u
  <2> QED
    BY <2>7, <2>11, <2>12, <2>13
<1>2. CASE ~HasRecord(r)
  BY <1>2 DEF HasRecord, Without
<1> QED
  BY <1>1, <1>2

(* Saving keeps the bound of the store and one record per receipt.         *)
LEMMA SavedKeeps ==
    ASSUME store \in Seq(PlanRecord), OnePerReceipt(store),
           NEW record \in PlanRecord
    PROVE  /\ Saved(record) \in Seq(PlanRecord)
           /\ Len(Saved(record)) <= MaxPlanRecords
           /\ OnePerReceipt(Saved(record))
<1> DEFINE s == Without(record.payload)
           t == Append(s, record)
<1>1. /\ s \in Seq(PlanRecord) /\ OnePerReceipt(s)
      /\ \A i \in DOMAIN s : s[i].payload # record.payload
  BY WithoutKeeps
<1>2. Saved(record) = Newest(t)
  BY DEF Saved
<1> HIDE DEF s
<1>3. /\ t \in Seq(PlanRecord) /\ Len(t) = Len(s) + 1
      /\ \A i \in 1 .. Len(s) : t[i] = s[i]
      /\ t[Len(s) + 1] = record
  BY <1>1, AppendProperties
<1> HIDE DEF t
<1>4. OnePerReceipt(t)
  BY <1>1, <1>3 DEF OnePerReceipt
<1> QED
  BY <1>2, <1>3, <1>4, NewestKeeps

LEMMA PlanEndsKept ==
    ASSUME PlanInv, NEW c \in Callers, PlanEnds(c)
    PROVE  PlanInv'
<1> DEFINE payload == PayloadOf(c, DigestRead(c))
           record == [payload |-> payload, image |-> call[c].image]
<1>1. /\ call[c].op = "plan" /\ call[c].step = "image"
      /\ store' = Saved(record) /\ given' = given \cup {payload}
      /\ call' = [call EXCEPT ![c] = IdleCall]
      /\ UNCHANGED <<compose, digest, live, births, changes>>
      /\ call \in [Callers -> Call] /\ Fits(call[c])
      /\ store \in Seq(PlanRecord) /\ OnePerReceipt(store)
      /\ given \subseteq Payload
  BY DEF PlanInv, PlanTypeOK, hostVars, PlanEnds, OnePerReceipt
<1>2. /\ call[c].files \in FileSets /\ call[c].desired \in Specs
      /\ call[c].image \in Images \cup {Nil} /\ call[c].allow \in BOOLEAN
  BY <1>1 DEF Fits, Informed, Call
<1>3. DigestRead(c) \in Digests
  BY <1>1, DigestKnown
<1>4. payload \in Payload
  BY <1>2, <1>3 DEF PayloadOf, Payload
<1>5. record \in PlanRecord
  BY <1>2, <1>4 DEF PlanRecord
<1> HIDE DEF record, payload
<1>6. /\ store' \in Seq(PlanRecord) /\ Len(store') <= MaxPlanRecords
      /\ OnePerReceipt(store')
  BY <1>1, <1>5, SavedKeeps
<1>7. /\ call' \in [Callers -> Call]
      /\ \A x \in Callers : Fits(call[x])'
  BY <1>1, IdleFits, OneCall
<1>8. PlanTypeOK'
  BY <1>1, <1>4, <1>6, <1>7 DEF PlanInv, PlanTypeOK, OnePerReceipt
<1> QED
  BY <1>7, <1>8 DEF PlanInv

LEMMA RecordExpiresKept ==
    ASSUME PlanInv, RecordExpires
    PROVE  PlanInv'
<1>1. /\ store # <<>> /\ store' = Tail(store)
      /\ UNCHANGED <<compose, digest, live, births, given, call, changes>>
      /\ store \in Seq(PlanRecord) /\ OnePerReceipt(store)
      /\ Len(store) <= MaxPlanRecords
  BY DEF PlanInv, PlanTypeOK, hostVars, RecordExpires, OnePerReceipt
<1>2. /\ store' \in Seq(PlanRecord) /\ Len(store') = Len(store) - 1
      /\ \A i \in 1 .. Len(store') : store'[i] = store[i + 1]
  BY <1>1, HeadTailProperties
<1>3. OnePerReceipt(store') /\ Len(store') <= MaxPlanRecords
  BY <1>1, <1>2, DockerPlansAssumption DEF OnePerReceipt
<1>4. PlanTypeOK'
  BY <1>1, <1>2, <1>3 DEF PlanInv, PlanTypeOK, OnePerReceipt
<1>5. \A x \in Callers : Fits(call[x])'
  BY <1>1 DEF PlanInv, Fits, Untouched, Informed, Reads, Follows, Differs
<1> QED
  BY <1>4, <1>5 DEF PlanInv

-----------------------------------------------------------------------------
(* The theorems                                                            *)

LEMMA InitKept == PlanInit => PlanInv
<1> SUFFICES ASSUME PlanInit PROVE PlanInv
  OBVIOUS
<1>1. PICK f \in FileSets :
        live = [core |-> compose[f].core, env |-> compose[f].env,
                digest |-> digest[compose[f].tag], files |-> f, born |-> 1]
  BY DEF PlanInit
<1>2. compose[f] \in Specs
  BY DEF PlanInit
<1>3. /\ compose[f].core \in Cores /\ compose[f].tag \in Tags
      /\ compose[f].env \subseteq Settings
  BY <1>2, DockerPlansAssumption DEF Settings
<1>4. digest[compose[f].tag] \in Digests
  BY <1>3 DEF PlanInit
<1>5. live \in Container
  BY <1>1, <1>3, <1>4 DEF Container
<1>6. store \in Seq(PlanRecord) /\ Len(store) = 0
  BY DEF PlanInit
<1>7. call \in [Callers -> Call] /\ \A c \in Callers : Fits(call[c])
  BY IdleFits DEF PlanInit
<1>8. changes \in 0 .. MaxChanges
  BY DockerPlansAssumption DEF PlanInit
<1>9. PlanTypeOK
  BY <1>5, <1>6, <1>7, <1>8, DockerPlansAssumption DEF PlanInit, PlanTypeOK
<1> QED
  BY <1>7, <1>9 DEF PlanInv

LEMMA CallStepKept ==
    ASSUME PlanInv, NEW c \in Callers, CallStep(c)
    PROVE  PlanInv'
BY PlanBeginsKept, ApplyBeginsKept, ResolveKept, FailureKept, ReadConfigKept,
   PlanEndsKept, DecideKept, UpExecutesKept, UpFailsKept, UpAnsweredKept,
   VerifyKept DEF CallStep

LEMMA StepKept == PlanInv /\ [PlanNext]_planVars => PlanInv'
<1> SUFFICES ASSUME PlanInv, [PlanNext]_planVars PROVE PlanInv'
  OBVIOUS
<1>1. CASE UNCHANGED planVars
  BY <1>1 DEF planVars, PlanInv, PlanTypeOK, Fits, Untouched, Informed, Reads, Follows,
              Differs
<1>2. CASE PlanNext
  BY <1>2, CallStepKept, ComposeEditedKept, TagMovedKept, ContainerKept,
     RecordExpiresKept DEF PlanNext
<1> QED
  BY <1>1, <1>2

(* The inductive invariant holds.                                          *)
THEOREM PlanInvariantHolds == PlanSpec => []PlanInv
BY InitKept, StepKept, PTL DEF PlanSpec

(* Every variable has its type, the plan store its bound and one record    *)
(* per receipt, for any number of callers and any size of the store.       *)
THEOREM PlanTypesCorrect == PlanSpec => []PlanTypeOK
<1>1. PlanInv => PlanTypeOK
  BY DEF PlanInv
<1> QED
  BY <1>1, PlanInvariantHolds, PTL

(* What an apply creates is what its receipt binds, as long as nobody      *)
(* edits a file or moves a tag between its reads and compose's.            *)
THEOREM RecreateSafe == PlanSpec => []RecreateFollowsPlan
<1>1. PlanInv => RecreateFollowsPlan
  BY DEF PlanInv, Fits, Follows, RecreateFollowsPlan
<1> QED
  BY <1>1, PlanInvariantHolds, PTL

(* ALREADY_APPLIED is only said of a container that agrees with the        *)
(* receipt; of its image that is promised only for a service that names    *)
(* one.                                                                    *)
THEOREM AlreadyAppliedSafe == PlanSpec => []AlreadyAppliedMatchesPlan
<1>1. PlanInv => AlreadyAppliedMatchesPlan
  BY DEF PlanInv, Fits, Follows, Differs, AlreadyAppliedMatchesPlan
<1> QED
  BY <1>1, PlanInvariantHolds, PTL

(* An apply that refuses has not asked compose for anything, and nothing   *)
(* it sent can be executed later.                                          *)
THEOREM RefusalSafe == PlanSpec => []RefusedMeansUntouched
<1>1. PlanInv => RefusedMeansUntouched
  BY DEF PlanInv, Fits, Untouched, RefusedMeansUntouched
<1> QED
  BY <1>1, PlanInvariantHolds, PTL
=============================================================================
