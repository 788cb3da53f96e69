----------------------- MODULE DigestPromotion_proofs -----------------------
(***************************************************************************)
(* Proofs about DigestPromotion for any registry contents, any graph of    *)
(* manifests and any number of concurrent publications, when the source    *)
(* labels its manifests truthfully.  The inductive invariant says how far  *)
(* each suspended call of _copy_manifest has come.                         *)
(***************************************************************************)
EXTENDS DigestPromotion, SequenceTheorems, TLAPS

(* Every reference of the frame's manifest is stored or still to be done.  *)
Pending(h, f) ==
    \A i \in 1 .. Len(Refs[f.m]) :
      \/ h[Refs[f.m][i]] # "absent"
      \/ \E k \in 1 .. Len(f.todo) : f.todo[k] = Refs[f.m][i]

(* A chain of calls: each waits for the one above to copy its next child.  *)
Chain(h, s) ==
    \A i \in 1 .. Len(s) :
      /\ s[i].body = "genuine"
      /\ Pending(h, s[i])
      /\ i < Len(s) => s[i].todo # <<>> /\ Head(s[i].todo) = s[i + 1].m

CallsFit(r) ==
    /\ Chain(held, stack[r])
    /\ body[r] = "genuine"
    /\ pc[r] \in {"refs", "mount", "get", "upload"} => stack[r] # <<>>
    /\ pc[r] \in {"mount", "get", "upload"} => Top(r).todo # <<>>
    /\ pc[r] = "upload" => Next1(r) \in Blobs
    /\ pc[r] = "fetch" /\ stack[r] # <<>> =>
         Top(r).todo # <<>> /\ Next1(r) \in Manifests
    /\ pc[r] \in {"idle", "tag", "check", "verify", "published"} => stack[r] = <<>>

KnowsStored(r) ==
    /\ \A d \in present[r] \cup copied[r] : held[d] # "absent"
    /\ stack[r] # <<>> => stack[r][1].m = Wanted[r]
    /\ pc[r] \in {"tag", "check", "verify", "published"} => held[Wanted[r]] # "absent"

(* A request that may still be executed is as harmless as it was when sent.*)
LateHarmless(q) ==
    /\ q.body = "genuine"
    /\ q.what \in Manifests => Complete(held, q.what)
    /\ q.to \in Tags =>
         /\ q.what \in Manifests
         /\ \E r \in Runs : pc[r] = "failed" /\ \E i \in 1 .. Len(TagList[r]) : TagList[r][i] = q.to

(* How many of its tags r has applied.                                     *)
TagsApplied(r) ==
    /\ tagNo[r] \in 1 .. Len(TagList[r])
    /\ pc[r] \in {"idle", "fetch", "refs", "mount", "get", "upload"} => tagNo[r] = 1
    /\ \A i \in 1 .. Len(TagList[r]) :
         /\ Exclusive(r, TagList[r][i])
         /\ \/ pc[r] \in {"verify", "published"}
            \/ pc[r] \in {"tag", "check"} /\ i < tagNo[r]
         => tag[TagList[r][i]] = Wanted[r]

IInv ==
    /\ TypeOK
    /\ TagsAreComplete
    /\ \A r \in Runs : CallsFit(r)
    /\ \A r \in Runs : KnowsStored(r)
    /\ \A q \in late : LateHarmless(q)
    /\ \A r \in Runs : TagsApplied(r)

-----------------------------------------------------------------------------
(* The chain of calls under the operations on it.                          *)

(* What is stored stays stored, so a chain stays one.                      *)
LEMMA ChainGrows ==
  ASSUME NEW h, NEW g, NEW s,
         \A d \in Digests : h[d] # "absent" => g[d] # "absent",
         s \in Seq(Frame), Chain(h, s)
  PROVE  Chain(g, s)
<1>1. ASSUME NEW i \in 1 .. Len(s), NEW k \in 1 .. Len(Refs[s[i].m])
      PROVE  Refs[s[i].m][k] \in Digests
  <2>1. s[i] \in Frame
    OBVIOUS
  <2>2. Refs[s[i].m] \in Seq(Digests)
    BY <2>1, PromotionAssumption DEF Frame
  <2> QED
    BY <2>2
<1> QED
  BY <1>1 DEF Chain, Pending

(* Dropping the reference the top frame is at, once it is stored.          *)
LEMMA MovedFrames ==
  ASSUME NEW s \in Seq(Frame), s # <<>>, s[Len(s)].todo # <<>>
  PROVE  /\ Moved(s) \in Seq(Frame)
         /\ Len(Moved(s)) = Len(s)
         /\ \A i \in 1 .. Len(s) - 1 : Moved(s)[i] = s[i]
         /\ Moved(s)[Len(s)] = [s[Len(s)] EXCEPT !.todo = Tail(@)]
<1> DEFINE f == [s[Len(s)] EXCEPT !.todo = Tail(@)]
<1>1. Len(s) \in 1 .. Len(s)
  OBVIOUS
<1>2. s[Len(s)] \in Frame
  BY <1>1
<1>3. Tail(s[Len(s)].todo) \in Seq(Digests)
  BY <1>2, HeadTailProperties DEF Frame
<1>4. f \in Frame
  BY <1>2, <1>3 DEF Frame
<1>5. Moved(s) = [s EXCEPT ![Len(s)] = f]
  BY DEF Moved
<1>6. /\ Moved(s) \in Seq(Frame)
      /\ Len(Moved(s)) = Len(s)
      /\ \A j \in 1 .. Len(s) : Moved(s)[j] = IF j = Len(s) THEN f ELSE s[j]
  <2> HIDE DEF f
  <2> QED BY <1>1, <1>4, <1>5, ExceptSeq
<1> HIDE DEF f
<1>7. /\ \A i \in 1 .. Len(s) - 1 : Moved(s)[i] = s[i]
      /\ Moved(s)[Len(s)] = f
  BY <1>1, <1>6
<1> QED
  BY <1>6, <1>7 DEF f

LEMMA ChainMoved ==
  ASSUME NEW h, NEW s \in Seq(Frame), s # <<>>, s[Len(s)].todo # <<>>,
         Chain(h, s), h[Head(s[Len(s)].todo)] # "absent"
  PROVE  Chain(h, Moved(s))
<1> DEFINE n == Len(s)
           t == Moved(s)
<1>1. n \in 1 .. n /\ s[n] \in Frame
  OBVIOUS
<1>2. /\ Len(t) = n
      /\ \A i \in 1 .. n - 1 : t[i] = s[i]
      /\ t[n].m = s[n].m /\ t[n].body = s[n].body /\ t[n].todo = Tail(s[n].todo)
  BY <1>1, MovedFrames DEF Frame
<1>3. Pending(h, t[n])
  <2> SUFFICES ASSUME NEW i \in 1 .. Len(Refs[s[n].m]),
                      h[Refs[s[n].m][i]] = "absent"
               PROVE  \E k \in 1 .. Len(Tail(s[n].todo)) :
                        Tail(s[n].todo)[k] = Refs[s[n].m][i]
    BY <1>2 DEF Pending
  <2>1. PICK k \in 1 .. Len(s[n].todo) : s[n].todo[k] = Refs[s[n].m][i]
    BY <1>1 DEF Chain, Pending
  <2>2. s[n].todo \in Seq(Digests)
    BY <1>1 DEF Frame
  <2>3. k # 1
    BY <2>1
  <2>4. k - 1 \in 1 .. Len(Tail(s[n].todo)) /\ Tail(s[n].todo)[k - 1] = s[n].todo[k]
    BY <2>2, <2>3
  <2> QED
    BY <2>1, <2>4
<1>4. ASSUME NEW i \in 1 .. n
      PROVE  /\ t[i].m = s[i].m
             /\ t[i].body = "genuine"
             /\ Pending(h, t[i])
             /\ i < n => t[i].todo # <<>> /\ Head(t[i].todo) = t[i + 1].m
  <2>1. CASE i = n
    BY <2>1, <1>1, <1>2, <1>3 DEF Chain
  <2>2. CASE i < n
    <3>1. t[i + 1].m = s[i + 1].m
      BY <1>2, <2>2
    <3> QED
      BY <2>2, <3>1, <1>2 DEF Chain
  <2> QED
    BY <2>1, <2>2
<1> QED
  BY <1>2, <1>4 DEF Chain

(* A call returns.                                                         *)
LEMMA ChainBelow ==
  ASSUME NEW h, NEW s \in Seq(Frame), s # <<>>, Chain(h, s)
  PROVE  LET t == SubSeq(s, 1, Len(s) - 1)
         IN  /\ t \in Seq(Frame)
             /\ Chain(h, t)
             /\ t # <<>> => /\ t[1] = s[1]
                            /\ t[Len(t)].todo # <<>>
                            /\ Head(t[Len(t)].todo) = s[Len(s)].m
<1> DEFINE t == SubSeq(s, 1, Len(s) - 1)
<1>1. /\ t \in Seq(Frame)
      /\ Len(t) = Len(s) - 1
      /\ \A i \in 1 .. Len(s) - 1 : t[i] = s[i]
  OBVIOUS
<1>2. Chain(h, t)
  BY <1>1 DEF Chain
<1>3. ASSUME t # <<>> PROVE Len(t) \in 1 .. Len(s) /\ Len(t) < Len(s) /\ Len(t) + 1 = Len(s)
  BY <1>1, <1>3
<1> QED
  BY <1>1, <1>2, <1>3 DEF Chain

(* _copy_manifest is called for the child the top frame is at.             *)
LEMMA ChainPush ==
  ASSUME NEW h, NEW s \in Seq(Frame), NEW m \in Manifests, Chain(h, s),
         s # <<>> => s[Len(s)].todo # <<>> /\ Head(s[Len(s)].todo) = m
  PROVE  LET t == Append(s, [m |-> m, body |-> "genuine", todo |-> Refs[m]])
         IN  t \in Seq(Frame) /\ Chain(h, t) /\ t # <<>> /\ (s # <<>> => t[1] = s[1])
               /\ (s = <<>> => t[1].m = m)
<1> DEFINE f == [m |-> m, body |-> "genuine", todo |-> Refs[m]]
           t == Append(s, f)
<1>1. f \in Frame
  BY PromotionAssumption DEF Frame, Content
<1>2. /\ t \in Seq(Frame)
      /\ Len(t) = Len(s) + 1
      /\ \A i \in 1 .. Len(s) : t[i] = s[i]
      /\ t[Len(s) + 1] = f
  BY <1>1
<1>3. Pending(h, f)
  BY DEF Pending
<1>4. Chain(h, t)
  <2> SUFFICES ASSUME NEW i \in 1 .. Len(t)
               PROVE  /\ t[i].body = "genuine"
                      /\ Pending(h, t[i])
                      /\ i < Len(t) => t[i].todo # <<>> /\ Head(t[i].todo) = t[i + 1].m
    BY DEF Chain
  <2>1. CASE i = Len(s) + 1
    BY <2>1, <1>2, <1>3
  <2>2. CASE i = Len(s)
    BY <2>2, <1>2 DEF Chain
  <2>3. CASE i < Len(s)
    BY <2>3, <1>2 DEF Chain
  <2> QED
    BY <1>2, <2>1, <2>2, <2>3
<1> QED
  BY <1>2, <1>4

-----------------------------------------------------------------------------
(* A step of one run leaves the calls of the others alone.                 *)

OnlyOf(r) ==
    \A s \in Runs \ {r} :
      /\ pc'[s] = pc[s] /\ stack'[s] = stack[s] /\ body'[s] = body[s]
      /\ present'[s] = present[s] /\ copied'[s] = copied[s] /\ tagNo'[s] = tagNo[s]

StoreGrows == \A d \in Digests : held[d] # "absent" => held'[d] # "absent"

ForeignTagsKept(r) ==
    \A s \in Runs \ {r} : \A i \in 1 .. Len(TagList[s]) :
      Exclusive(s, TagList[s][i]) => tag'[TagList[s][i]] = tag[TagList[s][i]]

LEMMA CompleteGrows ==
  ASSUME StoreGrows, NEW m \in Manifests, Complete(held, m)
  PROVE  Complete(held', m)
<1>1. Refs[m] \in Seq(Digests)
  BY PromotionAssumption
<1>2. \A i \in 1 .. Len(Refs[m]) : Refs[m][i] \in Digests
  BY <1>1
<1> QED
  BY <1>2 DEF Complete, StoreGrows

LEMMA OthersKept ==
  ASSUME IInv, NEW r \in Runs, OnlyOf(r), StoreGrows
  PROVE  \A s \in Runs \ {r} : CallsFit(s)' /\ KnowsStored(s)'
<1> SUFFICES ASSUME NEW s \in Runs \ {r}
             PROVE  CallsFit(s)' /\ KnowsStored(s)'
  OBVIOUS
<1>1. /\ pc'[s] = pc[s] /\ stack'[s] = stack[s] /\ body'[s] = body[s]
      /\ present'[s] = present[s] /\ copied'[s] = copied[s]
  BY DEF OnlyOf
<1>2. CallsFit(s) /\ KnowsStored(s) /\ stack[s] \in Seq(Frame)
  BY DEF IInv, TypeOK
<1>3. Chain(held', stack[s])
  BY <1>2, ChainGrows DEF CallsFit, StoreGrows
<1>4. CallsFit(s)'
  BY <1>1, <1>2, <1>3 DEF CallsFit, Top, Next1
<1>5. \A d \in present[s] \cup copied[s] \cup {Wanted[s]} : d \in Digests
  BY PromotionAssumption DEF IInv, TypeOK, Digests
<1>6. KnowsStored(s)'
  BY <1>1, <1>2, <1>5 DEF KnowsStored, StoreGrows
<1> QED
  BY <1>4, <1>6

LEMMA StepKeeps ==
  ASSUME IInv, NEW r \in Runs, pc[r] # "failed",
         TypeOK', TagsAreComplete', OnlyOf(r), StoreGrows, ForeignTagsKept(r),
         \A q \in late' : q \in late \/ LateHarmless(q)',
         CallsFit(r)', KnowsStored(r)', TagsApplied(r)'
  PROVE  IInv'
<1>1. \A s \in Runs : CallsFit(s)' /\ KnowsStored(s)'
  BY OthersKept
<1>2. ASSUME NEW s \in Runs \ {r} PROVE TagsApplied(s)'
  <2>1. TagsApplied(s)
    BY DEF IInv
  <2>2. pc'[s] = pc[s] /\ tagNo'[s] = tagNo[s]
    BY DEF OnlyOf
  <2> QED
    BY <2>1, <2>2 DEF TagsApplied, ForeignTagsKept, Exclusive
<1>3. ASSUME NEW q \in late PROVE LateHarmless(q)'
  <2>1. LateHarmless(q)
    BY DEF IInv
  <2>2. q.what \in Manifests => Complete(held, q.what)'
    BY <2>1, CompleteGrows DEF LateHarmless, Complete
  <2>3. \A s \in Runs : pc[s] = "failed" => pc'[s] = "failed"
    BY DEF OnlyOf
  <2> QED
    BY <2>1, <2>2, <2>3 DEF LateHarmless
<1> QED
  BY <1>1, <1>2, <1>3 DEF IInv

(* The steps that only concern the run itself.                             *)
LEMMA LocalStepKeeps ==
  ASSUME IInv, NEW r \in Runs, pc[r] # "failed", TypeOK', UNCHANGED registry, OnlyOf(r),
         CallsFit(r)', KnowsStored(r)', TagsApplied(r)'
  PROVE  IInv'
<1>1. TagsAreComplete' /\ StoreGrows /\ ForeignTagsKept(r) /\ late' = late
  BY DEF IInv, TagsAreComplete, Complete, StoreGrows, ForeignTagsKept, registry
<1> QED
  BY <1>1, StepKeeps

-----------------------------------------------------------------------------
(* The steps of a run, one lemma each.                                     *)

(* The run's calls once the reference at hand is stored.                   *)
LEMMA CallsMove ==
  ASSUME IInv, NEW r \in Runs, stack[r] # <<>>, Top(r).todo # <<>>,
         StoreGrows, held'[Next1(r)] # "absent"
  PROVE  /\ Moved(stack[r]) \in Seq(Frame)
         /\ Chain(held', Moved(stack[r]))
         /\ Moved(stack[r]) # <<>>
         /\ Moved(stack[r])[1].m = stack[r][1].m
<1>1. stack[r] \in Seq(Frame) /\ Chain(held, stack[r])
  BY DEF IInv, TypeOK, CallsFit
<1>2. Chain(held', stack[r])
  BY <1>1, ChainGrows DEF StoreGrows
<1>3. Chain(held', Moved(stack[r]))
  BY <1>1, <1>2, ChainMoved DEF Top, Next1
<1>4. /\ Moved(stack[r]) \in Seq(Frame)
      /\ Len(Moved(stack[r])) = Len(stack[r])
      /\ \A i \in 1 .. Len(stack[r]) - 1 : Moved(stack[r])[i] = stack[r][i]
      /\ Moved(stack[r])[Len(stack[r])] = [stack[r][Len(stack[r])] EXCEPT !.todo = Tail(@)]
  BY <1>1, MovedFrames DEF Top
<1>5. stack[r][Len(stack[r])] \in Frame /\ Len(stack[r]) \in Nat \ {0}
  BY <1>1
<1>6. Moved(stack[r])[1].m = stack[r][1].m
  <2>1. CASE Len(stack[r]) = 1
    BY <2>1, <1>4, <1>5 DEF Frame
  <2>2. CASE Len(stack[r]) > 1
    <3>1. 1 \in 1 .. Len(stack[r]) - 1
      BY <2>2, <1>5
    <3>2. \A i \in 1 .. Len(stack[r]) - 1 : Moved(stack[r])[i] = stack[r][i]
      BY <1>4
    <3>3. Moved(stack[r])[1] = stack[r][1]
      BY <3>1, <3>2, Zenon
    <3> QED
      BY <3>3, Zenon
  <2>3. ASSUME NEW n \in Nat \ {0} PROVE n = 1 \/ n > 1
    OBVIOUS
  <2> QED
    BY <1>5, <2>1, <2>2, <2>3, Zenon
<1> QED
  BY <1>3, <1>4, <1>5, <1>6

LEMMA BeginKeeps ==
  ASSUME IInv, NEW r \in Runs, Begin(r)
  PROVE  IInv'
<1>1. /\ pc[r] = "idle" /\ pc' = [pc EXCEPT ![r] = "fetch"]
      /\ UNCHANGED <<registry, stack, body, present, copied, tagNo>>
  BY DEF Begin
<1>2. TypeOK'
  BY <1>1 DEF IInv, TypeOK, registry
<1>3. OnlyOf(r)
  BY <1>1 DEF OnlyOf, IInv, TypeOK
<1>4. pc'[r] = "fetch" /\ CallsFit(r) /\ KnowsStored(r) /\ TagsApplied(r)
  BY <1>1 DEF IInv, TypeOK
<1>5. CallsFit(r)'
  BY <1>1, <1>4 DEF CallsFit, registry, Chain, Pending
<1>6. KnowsStored(r)' /\ TagsApplied(r)'
  BY <1>1, <1>4 DEF KnowsStored, TagsApplied, registry, Exclusive
<1> QED
  BY <1>1, <1>2, <1>3, <1>5, <1>6, LocalStepKeeps

LEMMA FetchManifestKeeps ==
  ASSUME IInv, NEW r \in Runs, TruthfulLabels, FetchManifest(r)
  PROVE  IInv'
<1> DEFINE new == Append(stack[r], [m |-> Asked(r), body |-> "genuine",
                                    todo |-> Refs[Asked(r)]])
<1>1. /\ pc[r] = "fetch" /\ pc' = [pc EXCEPT ![r] = "refs"]
      /\ stack' = [stack EXCEPT ![r] = new]
      /\ UNCHANGED <<registry, body, present, copied, tagNo>>
  BY DEF FetchManifest, Followed, Verified
<1>2. stack[r] \in Seq(Frame) /\ CallsFit(r) /\ KnowsStored(r) /\ TagsApplied(r)
  BY DEF IInv, TypeOK
<1>3. Asked(r) \in Manifests
  BY <1>1, <1>2, PromotionAssumption DEF Asked, CallsFit
<1>4. stack[r] # <<>> => stack[r][Len(stack[r])].todo # <<>>
                         /\ Head(stack[r][Len(stack[r])].todo) = Asked(r)
  BY <1>1, <1>2 DEF CallsFit, Asked, Top, Next1
<1>5. /\ new \in Seq(Frame) /\ Chain(held, new) /\ new # <<>>
      /\ stack[r] # <<>> => new[1] = stack[r][1]
      /\ stack[r] = <<>> => new[1].m = Asked(r)
  BY <1>2, <1>3, <1>4, ChainPush DEF CallsFit
<1> HIDE DEF new
<1>6. pc'[r] = "refs" /\ stack'[r] = new
  BY <1>1 DEF IInv, TypeOK
<1>7. TypeOK'
  BY <1>1, <1>5 DEF IInv, TypeOK, registry
<1>8. OnlyOf(r)
  BY <1>1 DEF OnlyOf, IInv, TypeOK
<1>9. CallsFit(r)'
  <2>1. Chain(held', stack'[r]) /\ stack'[r] # <<>>
    BY <1>1, <1>5, <1>6 DEF registry
  <2> QED
    BY <1>1, <1>2, <1>6, <2>1 DEF CallsFit
<1>10. KnowsStored(r)'
  <2>1. new[1].m = Wanted[r]
    BY <1>2, <1>5 DEF KnowsStored, Asked
  <2> QED
    BY <1>1, <1>2, <1>6, <2>1 DEF KnowsStored, registry
<1>11. TagsApplied(r)'
  BY <1>1, <1>2, <1>6 DEF TagsApplied, registry, Exclusive
<1> QED
  BY <1>1, <1>7, <1>8, <1>9, <1>10, <1>11, LocalStepKeeps

LEMMA KnownReferenceKeeps ==
  ASSUME IInv, NEW r \in Runs, KnownReference(r)
  PROVE  IInv'
<1>1. /\ pc[r] = "refs" /\ Top(r).todo # <<>>
      /\ Next1(r) \in copied[r] \cup present[r]
      /\ stack' = [stack EXCEPT ![r] = Moved(stack[r])]
      /\ UNCHANGED <<registry, pc, body, present, copied, tagNo>>
  BY DEF KnownReference, AtReference
<1>2. CallsFit(r) /\ KnowsStored(r) /\ TagsApplied(r)
  BY DEF IInv
<1>3. stack[r] # <<>> /\ held'[Next1(r)] # "absent" /\ StoreGrows /\ held' = held
  BY <1>1, <1>2 DEF CallsFit, KnowsStored, StoreGrows, registry
<1>4. /\ Moved(stack[r]) \in Seq(Frame) /\ Chain(held', Moved(stack[r]))
      /\ Moved(stack[r]) # <<>> /\ Moved(stack[r])[1].m = stack[r][1].m
  BY <1>1, <1>3, CallsMove
<1>5. stack'[r] = Moved(stack[r])
  BY <1>1 DEF IInv, TypeOK
<1>6. TypeOK'
  BY <1>1, <1>4 DEF IInv, TypeOK, registry
<1>7. OnlyOf(r)
  BY <1>1 DEF OnlyOf, IInv, TypeOK
<1>8. CallsFit(r)'
  BY <1>1, <1>2, <1>4, <1>5 DEF CallsFit
<1>9. KnowsStored(r)' /\ TagsApplied(r)'
  BY <1>1, <1>2, <1>3, <1>4, <1>5 DEF KnowsStored, TagsApplied, registry, Exclusive
<1> QED
  BY <1>1, <1>6, <1>7, <1>8, <1>9, LocalStepKeeps

(* Descend, BlobMissing and NotMounted only change where the run is.       *)
LEMMA WaitKeeps ==
  ASSUME IInv, NEW r \in Runs, Descend(r) \/ BlobMissing(r) \/ NotMounted(r)
  PROVE  IInv'
<1> DEFINE at == pc'[r]
<1>1. /\ pc[r] \in {"refs", "mount"} /\ at \in {"fetch", "mount", "get"}
      /\ pc' = [pc EXCEPT ![r] = at]
      /\ UNCHANGED <<registry, stack, body, present, copied, tagNo>>
  BY DEF Descend, BlobMissing, NotMounted, AtReference, IInv, TypeOK
<1>2. CallsFit(r) /\ KnowsStored(r) /\ TagsApplied(r)
  BY DEF IInv
<1>3. stack[r] # <<>> /\ Top(r).todo # <<>>
      /\ (at = "fetch" => Next1(r) \in Manifests)
  BY <1>2 DEF Descend, BlobMissing, NotMounted, AtReference, CallsFit, IInv, TypeOK
<1> HIDE DEF at
<1>4. pc'[r] = at
  BY DEF at
<1>5. TypeOK'
  BY <1>1 DEF IInv, TypeOK, registry
<1>6. OnlyOf(r)
  BY <1>1 DEF OnlyOf, IInv, TypeOK
<1>7. CallsFit(r)'
  BY <1>1, <1>2, <1>3, <1>4 DEF CallsFit, registry, Chain, Pending, Top, Next1
<1>8. KnowsStored(r)' /\ TagsApplied(r)'
  BY <1>1, <1>2, <1>4 DEF KnowsStored, TagsApplied, registry, Exclusive
<1> QED
  BY <1>1, <1>5, <1>6, <1>7, <1>8, LocalStepKeeps

LEMMA BlobExistsKeeps ==
  ASSUME IInv, NEW r \in Runs, BlobExists(r)
  PROVE  IInv'
<1>1. /\ pc[r] = "refs" /\ Top(r).todo # <<>>
      /\ Next1(r) \in Blobs /\ held[Next1(r)] # "absent"
      /\ stack' = [stack EXCEPT ![r] = Moved(stack[r])]
      /\ present' = [present EXCEPT ![r] = @ \cup {Next1(r)}]
      /\ UNCHANGED <<registry, pc, body, copied, tagNo>>
  BY DEF BlobExists, AtReference
<1>2. CallsFit(r) /\ KnowsStored(r) /\ TagsApplied(r)
  BY DEF IInv
<1>3. stack[r] # <<>> /\ held'[Next1(r)] # "absent" /\ StoreGrows /\ held' = held
  BY <1>1, <1>2 DEF CallsFit, StoreGrows, registry
<1>4. /\ Moved(stack[r]) \in Seq(Frame) /\ Chain(held', Moved(stack[r]))
      /\ Moved(stack[r]) # <<>> /\ Moved(stack[r])[1].m = stack[r][1].m
  BY <1>1, <1>3, CallsMove
<1>5. stack'[r] = Moved(stack[r]) /\ present'[r] = present[r] \cup {Next1(r)}
  BY <1>1 DEF IInv, TypeOK
<1>6. TypeOK'
  BY <1>1, <1>4 DEF IInv, TypeOK, registry
<1>7. OnlyOf(r)
  BY <1>1 DEF OnlyOf, IInv, TypeOK
<1>8. CallsFit(r)'
  BY <1>1, <1>2, <1>4, <1>5 DEF CallsFit
<1>9. KnowsStored(r)' /\ TagsApplied(r)'
  BY <1>1, <1>2, <1>3, <1>4, <1>5 DEF KnowsStored, TagsApplied, registry, Exclusive
<1> QED
  BY <1>1, <1>6, <1>7, <1>8, <1>9, LocalStepKeeps

LEMMA FetchBlobKeeps ==
  ASSUME IInv, NEW r \in Runs, FetchBlob(r)
  PROVE  IInv'
<1>1. /\ pc[r] = "get" /\ pc' = [pc EXCEPT ![r] = "upload"] /\ Next1(r) \in Blobs
      /\ body' = [body EXCEPT ![r] = "genuine"]
      /\ UNCHANGED <<registry, stack, present, copied, tagNo>>
  BY DEF FetchBlob, Verified
<1>2. CallsFit(r) /\ KnowsStored(r) /\ TagsApplied(r)
      /\ pc'[r] = "upload" /\ body'[r] = "genuine"
  BY <1>1 DEF IInv, TypeOK
<1>3. TypeOK'
  BY <1>1 DEF IInv, TypeOK, registry, Content
<1>4. OnlyOf(r)
  BY <1>1 DEF OnlyOf, IInv, TypeOK
<1>5. CallsFit(r)'
  BY <1>1, <1>2 DEF CallsFit, registry, Chain, Pending, Top, Next1
<1>6. KnowsStored(r)' /\ TagsApplied(r)'
  BY <1>1, <1>2 DEF KnowsStored, TagsApplied, registry, Exclusive
<1> QED
  BY <1>1, <1>3, <1>4, <1>5, <1>6, LocalStepKeeps

LEMMA FailsKeeps ==
  ASSUME IInv, NEW r \in Runs, Fails(r)
  PROVE  IInv'
<1>1. /\ pc[r] # "failed" /\ pc' = [pc EXCEPT ![r] = "failed"]
      /\ stack' = [stack EXCEPT ![r] = <<>>]
      /\ UNCHANGED <<registry, body, present, copied, tagNo>>
  BY DEF Fails, Failed
<1>2. CallsFit(r) /\ KnowsStored(r) /\ TagsApplied(r)
      /\ pc'[r] = "failed" /\ stack'[r] = <<>>
  BY <1>1 DEF IInv, TypeOK
<1>3. TypeOK'
  BY <1>1 DEF IInv, TypeOK, registry
<1>4. OnlyOf(r)
  BY <1>1 DEF OnlyOf, IInv, TypeOK
<1>5. CallsFit(r)'
  BY <1>1, <1>2 DEF CallsFit, Chain
<1>6. KnowsStored(r)' /\ TagsApplied(r)'
  BY <1>1, <1>2 DEF KnowsStored, TagsApplied, registry, Exclusive
<1> QED
  BY <1>1, <1>3, <1>4, <1>5, <1>6, LocalStepKeeps

(* A tag that resolves: the run goes on to the next, or to the next loop.  *)
LEMMA TagLookKeeps ==
  ASSUME IInv, NEW r \in Runs, TagChecked(r) \/ TagVerified(r)
  PROVE  IInv'
<1> DEFINE at == pc'[r]
           n == tagNo'[r]
<1>1. /\ pc[r] \in {"check", "verify"} /\ Resolves(r)
      /\ pc' = [pc EXCEPT ![r] = at] /\ tagNo' = [tagNo EXCEPT ![r] = n]
      /\ UNCHANGED <<registry, stack, body, present, copied>>
  BY DEF TagChecked, TagVerified, IInv, TypeOK
<1>2. CallsFit(r) /\ KnowsStored(r) /\ TagsApplied(r)
  BY DEF IInv
<1>3. TagList[r] \in Seq(Tags) /\ Len(TagList[r]) \in Nat \ {0}
  BY PromotionAssumption
<1>4. tagNo[r] \in 1 .. Len(TagList[r])
  BY <1>2 DEF TagsApplied
<1>5. \/ pc[r] = "check" /\ LastTag(r) /\ at = "verify" /\ n = 1
      \/ pc[r] = "check" /\ ~LastTag(r) /\ at = "tag" /\ n = tagNo[r] + 1
      \/ pc[r] = "verify" /\ LastTag(r) /\ at = "published" /\ n = tagNo[r]
      \/ pc[r] = "verify" /\ ~LastTag(r) /\ at = "verify" /\ n = tagNo[r] + 1
  BY DEF TagChecked, TagVerified, IInv, TypeOK
<1> HIDE DEF at, n
<1>6. pc'[r] = at /\ tagNo'[r] = n
  BY DEF at, n
<1>7. n \in 1 .. Len(TagList[r])
  BY <1>3, <1>4, <1>5 DEF LastTag
<1>8. TypeOK'
  BY <1>1, <1>5, <1>7 DEF IInv, TypeOK, registry
<1>9. OnlyOf(r)
  BY <1>1 DEF OnlyOf, IInv, TypeOK
<1>10. CallsFit(r)'
  BY <1>1, <1>2, <1>5, <1>6 DEF CallsFit, registry, Chain, Pending
<1>11. KnowsStored(r)'
  BY <1>1, <1>2, <1>5, <1>6 DEF KnowsStored, registry
<1>12. TagsApplied(r)'
  <2> SUFFICES ASSUME NEW i \in 1 .. Len(TagList[r]), Exclusive(r, TagList[r][i]),
                      at \in {"verify", "published"} \/ i < n
               PROVE  tag[TagList[r][i]] = Wanted[r]
    BY <1>1, <1>5, <1>6, <1>7 DEF TagsApplied, registry, Exclusive
  <2>1. CASE i = tagNo[r]
    BY <2>1, <1>1 DEF Resolves, ThisTag
  <2>2. CASE i # tagNo[r]
    <3>1. pc[r] = "verify" \/ i < tagNo[r]
      BY <2>2, <1>3, <1>4, <1>5 DEF LastTag
    <3> QED
      BY <3>1, <1>1, <1>2 DEF TagsApplied
  <2> QED
    BY <2>1, <2>2
<1> QED
  BY <1>1, <1>8, <1>9, <1>10, <1>11, <1>12, LocalStepKeeps

-----------------------------------------------------------------------------
(* Writes to production.                                                   *)

(* A genuine thing whose references are stored leaves the store complete.  *)
LEMMA ExecutedIsComplete ==
  ASSUME IInv, NEW q \in Put, Execute(q), q.body = "genuine",
         q.what \in Manifests => Complete(held, q.what),
         q.to \in Tags => q.what \in Manifests
  PROVE  /\ StoreGrows
         /\ TagsAreComplete'
         /\ held'[q.what] = "genuine"
         /\ held' \in [Digests -> Content \cup {"absent"}]
         /\ tag' \in [Tags -> Manifests \cup {None}]
<1>1. /\ held \in [Digests -> Content \cup {"absent"}]
      /\ tag \in [Tags -> Manifests \cup {None}]
      /\ TagsAreComplete
      /\ q.what \in Digests
  BY DEF IInv, TypeOK, Put
<1>2. /\ held' = [held EXCEPT ![q.what] = "genuine"]
      /\ tag' = IF q.to \in Tags THEN [tag EXCEPT ![q.to] = q.what] ELSE tag
  BY DEF Execute
<1>3. /\ StoreGrows
      /\ held'[q.what] = "genuine"
      /\ held' \in [Digests -> Content \cup {"absent"}]
      /\ tag' \in [Tags -> Manifests \cup {None}]
  BY <1>1, <1>2 DEF StoreGrows, Content
<1>4. \A m \in Manifests : held'[m] # "absent" => Complete(held', m)
  <2> SUFFICES ASSUME NEW m \in Manifests, held'[m] # "absent"
               PROVE  Complete(held', m)
    OBVIOUS
  <2>1. Complete(held, m)
    BY <1>1, <1>2 DEF TagsAreComplete, Digests
  <2> QED
    BY <2>1, <1>3, CompleteGrows
<1>5. \A t \in Tags : tag'[t] # None => held'[tag'[t]] # "absent"
  <2> SUFFICES ASSUME NEW t \in Tags, tag'[t] # None
               PROVE  held'[tag'[t]] # "absent"
    OBVIOUS
  <2>1. CASE tag'[t] = q.what
    BY <2>1, <1>3
  <2>2. CASE tag'[t] # q.what
    <3>1. tag'[t] = tag[t] /\ tag[t] \in Digests
      BY <2>2, <1>1, <1>2 DEF Digests
    <3> QED
      BY <3>1, <1>1, <1>3 DEF TagsAreComplete, StoreGrows
  <2> QED
    BY <2>1, <2>2
<1>6. \A d \in Digests : held'[d] # "corrupt"
  BY <1>1, <1>2 DEF TagsAreComplete
<1>7. TagsAreComplete'
  BY <1>4, <1>5, <1>6 DEF TagsAreComplete, Complete
<1> QED
  BY <1>3, <1>7

(* What a run is about to put is such a thing.                             *)
LEMMA RequestHarmless ==
  ASSUME IInv, NEW r \in Runs, AtPut(r)
  PROVE  LET q == Request(r)
         IN  /\ q \in Put /\ q.body = "genuine"
             /\ q.what \in Manifests => Complete(held, q.what)
             /\ q.to \in Tags => /\ pc[r] = "tag" /\ q.what \in Manifests
                                 /\ q.to = ThisTag(r) /\ q.what = Wanted[r]
             /\ pc[r] = "tag" => ThisTag(r) \in Tags
<1>1. /\ CallsFit(r) /\ KnowsStored(r) /\ TagsApplied(r) /\ TagsAreComplete
      /\ stack[r] \in Seq(Frame) /\ pc[r] \in {"refs", "upload", "tag"}
  BY DEF IInv, TypeOK, AtPut
<1>2. CASE pc[r] = "upload"
  <2>1. Request(r) = [to |-> Next1(r), what |-> Next1(r), body |-> "genuine"]
    BY <1>2, <1>1 DEF Request, CallsFit
  <2>2. Next1(r) \in Blobs /\ Next1(r) \in Digests
    BY <1>1, <1>2 DEF CallsFit, Digests
  <2>3. Next1(r) \notin Manifests /\ Next1(r) \notin Tags
    BY <2>2, PromotionAssumption
  <2> QED
    BY <1>2, <2>1, <2>2, <2>3 DEF Put, Content
<1>3. CASE pc[r] = "tag"
  <2>1. Request(r) = [to |-> ThisTag(r), what |-> Wanted[r], body |-> "genuine"]
    BY <1>3, <1>1 DEF Request, CallsFit
  <2>2. TagList[r] \in Seq(Tags) /\ Wanted[r] \in Manifests /\ Wanted[r] \in Digests
    BY PromotionAssumption DEF Digests
  <2>3. ThisTag(r) \in Tags
    BY <1>1, <2>2 DEF ThisTag, TagsApplied
  <2>4. Complete(held, Wanted[r])
    BY <1>1, <1>3, <2>2 DEF KnowsStored, TagsAreComplete
  <2> QED
    BY <1>3, <2>1, <2>2, <2>3, <2>4 DEF Put, Content
<1>4. CASE pc[r] = "refs"
  <2>1. Len(stack[r]) \in 1 .. Len(stack[r]) /\ Top(r) \in Frame /\ Top(r).todo = <<>>
    BY <1>1, <1>4 DEF CallsFit, AtPut, Top
  <2>2. Top(r).body = "genuine" /\ Pending(held, Top(r))
    BY <1>1, <2>1 DEF CallsFit, Chain, Top
  <2>3. Top(r).m \in Manifests /\ Top(r).m \in Digests
    BY <2>1 DEF Frame, Digests
  <2>4. Top(r).m \notin Tags
    BY <2>3, PromotionAssumption
  <2>5. Request(r) = [to |-> Top(r).m, what |-> Top(r).m, body |-> "genuine"]
    BY <1>4, <2>2 DEF Request
  <2>6. Complete(held, Top(r).m)
    BY <2>1, <2>2 DEF Pending, Complete
  <2> QED
    BY <1>4, <2>3, <2>4, <2>5, <2>6 DEF Put, Content
<1> QED
  BY <1>1, <1>2, <1>3, <1>4

LEMMA MountedKeeps ==
  ASSUME IInv, NEW r \in Runs, Mounted(r)
  PROVE  IInv'
<1> DEFINE b == Next1(r)
           q == [to |-> b, what |-> b, body |-> "genuine"]
<1>1. /\ pc[r] = "mount" /\ b \in Blobs
      /\ held' = [held EXCEPT ![b] = "genuine"]
      /\ present' = [present EXCEPT ![r] = @ \cup {b}]
      /\ stack' = [stack EXCEPT ![r] = Moved(stack[r])]
      /\ pc' = [pc EXCEPT ![r] = "refs"]
      /\ UNCHANGED <<tag, late, body, copied, tagNo>>
  BY DEF Mounted
<1>2. b \in Digests /\ b \notin Manifests /\ b \notin Tags
  BY <1>1, PromotionAssumption DEF Digests
<1>3. q \in Put /\ Execute(q)
  BY <1>1, <1>2 DEF Put, Content, Execute
<1> HIDE DEF b
<1>4. /\ StoreGrows /\ TagsAreComplete' /\ held'[b] = "genuine"
      /\ held' \in [Digests -> Content \cup {"absent"}]
  BY <1>2, <1>3, ExecutedIsComplete
<1>5. CallsFit(r) /\ KnowsStored(r) /\ TagsApplied(r)
  BY DEF IInv
<1>6. stack[r] # <<>> /\ Top(r).todo # <<>> /\ held'[Next1(r)] # "absent"
  BY <1>1, <1>4, <1>5 DEF CallsFit, b
<1>7. /\ Moved(stack[r]) \in Seq(Frame) /\ Chain(held', Moved(stack[r]))
      /\ Moved(stack[r]) # <<>> /\ Moved(stack[r])[1].m = stack[r][1].m
  BY <1>4, <1>6, CallsMove
<1>8. /\ stack'[r] = Moved(stack[r]) /\ present'[r] = present[r] \cup {b}
      /\ pc'[r] = "refs"
  BY <1>1 DEF IInv, TypeOK
<1>9. TypeOK'
  BY <1>1, <1>4, <1>7 DEF IInv, TypeOK
<1>10. OnlyOf(r) /\ ForeignTagsKept(r)
  BY <1>1 DEF OnlyOf, ForeignTagsKept, IInv, TypeOK
<1>11. CallsFit(r)'
  BY <1>1, <1>5, <1>7, <1>8 DEF CallsFit
<1>12. present[r] \subseteq Digests /\ copied[r] \subseteq Digests
  BY DEF IInv, TypeOK, Digests
<1>13. KnowsStored(r)'
  BY <1>1, <1>4, <1>5, <1>6, <1>7, <1>8, <1>12 DEF KnowsStored, StoreGrows
<1>14. TagsApplied(r)'
  BY <1>1, <1>5, <1>8 DEF TagsApplied, Exclusive
<1> QED
  BY <1>1, <1>4, <1>9, <1>10, <1>11, <1>13, <1>14, StepKeeps

LEMMA PutAnsweredKeeps ==
  ASSUME IInv, NEW r \in Runs, PutAnswered(r)
  PROVE  IInv'
<1> DEFINE q == Request(r)
<1>1. /\ AtPut(r) /\ Execute(q) /\ late' = late
      /\ BlobUploaded(r) \/ ManifestStored(r) \/ TagApplied(r)
  BY DEF PutAnswered
<1>2. /\ q \in Put /\ q.body = "genuine"
      /\ q.what \in Manifests => Complete(held, q.what)
      /\ q.to \in Tags => /\ pc[r] = "tag" /\ q.what \in Manifests
                          /\ q.to = ThisTag(r) /\ q.what = Wanted[r]
  BY <1>1, RequestHarmless
<1>3. /\ StoreGrows /\ TagsAreComplete' /\ held'[q.what] = "genuine"
      /\ held' \in [Digests -> Content \cup {"absent"}]
      /\ tag' \in [Tags -> Manifests \cup {None}]
  BY <1>1, <1>2, ExecutedIsComplete
<1>4. tag' = IF q.to \in Tags THEN [tag EXCEPT ![q.to] = q.what] ELSE tag
  BY <1>1 DEF Execute
<1>5. /\ CallsFit(r) /\ KnowsStored(r) /\ TagsApplied(r)
      /\ stack[r] \in Seq(Frame) /\ tagNo[r] \in 1 .. Len(TagList[r])
      /\ \A d \in present[r] \cup copied[r] \cup {Wanted[r]} : d \in Digests
  BY PromotionAssumption DEF IInv, TypeOK, TagsApplied, Digests
<1>6. ForeignTagsKept(r)
  <2> SUFFICES ASSUME NEW s \in Runs \ {r}, NEW i \in 1 .. Len(TagList[s]),
                      Exclusive(s, TagList[s][i])
               PROVE  tag'[TagList[s][i]] = tag[TagList[s][i]]
    BY DEF ForeignTagsKept
  <2>1. CASE q.to \in Tags
    <3>1. q.to # TagList[s][i]
      BY <2>1, <1>2, <1>5 DEF Exclusive, ThisTag
    <3> QED
      BY <3>1, <2>1, <1>4 DEF IInv, TypeOK
  <2>2. CASE q.to \notin Tags
    BY <2>2, <1>4
  <2> QED
    BY <2>1, <2>2
<1>7. CASE BlobUploaded(r)
  <2>1. /\ pc[r] = "upload"
        /\ present' = [present EXCEPT ![r] = @ \cup {Next1(r)}]
        /\ stack' = [stack EXCEPT ![r] = Moved(stack[r])]
        /\ pc' = [pc EXCEPT ![r] = "refs"]
        /\ UNCHANGED <<body, copied, tagNo>>
    BY <1>7 DEF BlobUploaded
  <2>2. q.what = Next1(r) /\ q.to \notin Tags /\ Next1(r) \in Blobs
    BY <2>1, <1>2, <1>5 DEF Request, CallsFit
  <2>3. stack[r] # <<>> /\ Top(r).todo # <<>> /\ held'[Next1(r)] # "absent"
    BY <2>1, <2>2, <1>3, <1>5 DEF CallsFit
  <2>4. /\ Moved(stack[r]) \in Seq(Frame) /\ Chain(held', Moved(stack[r]))
        /\ Moved(stack[r]) # <<>> /\ Moved(stack[r])[1].m = stack[r][1].m
    BY <1>3, <2>3, CallsMove
  <2>5. /\ stack'[r] = Moved(stack[r]) /\ present'[r] = present[r] \cup {Next1(r)}
        /\ pc'[r] = "refs"
    BY <2>1 DEF IInv, TypeOK
  <2>6. TypeOK'
    BY <1>1, <1>3, <2>1, <2>2, <2>4 DEF IInv, TypeOK
  <2>7. OnlyOf(r)
    BY <2>1 DEF OnlyOf, IInv, TypeOK
  <2>8. CallsFit(r)'
    BY <2>1, <2>4, <2>5, <1>5 DEF CallsFit
  <2>9. KnowsStored(r)'
    BY <2>1, <2>3, <2>4, <2>5, <1>3, <1>5 DEF KnowsStored, StoreGrows
  <2>10. TagsApplied(r)'
    BY <2>1, <2>5, <1>5 DEF TagsApplied, Exclusive
  <2> QED
    BY <1>1, <1>3, <1>6, <2>1, <2>6, <2>7, <2>8, <2>9, <2>10, StepKeeps
<1>8. CASE ManifestStored(r)
  <2> DEFINE t == Below(r)
             at == IF t = <<>> THEN "tag" ELSE "refs"
  <2>1. /\ pc[r] = "refs"
        /\ copied' = [copied EXCEPT ![r] = @ \cup {Top(r).m}]
        /\ body' = [body EXCEPT ![r] = Top(r).body]
        /\ stack' = [stack EXCEPT ![r] = Moved(t)]
        /\ pc' = [pc EXCEPT ![r] = at]
        /\ UNCHANGED <<present, tagNo>>
    BY <1>8 DEF ManifestStored
  <2>2. /\ q.what = Top(r).m /\ q.to \notin Tags
        /\ stack[r] # <<>> /\ Top(r) \in Frame /\ Top(r).m \in Manifests
        /\ Top(r).body = "genuine"
    <3>1. stack[r] # <<>> /\ q = [to |-> Top(r).m, what |-> Top(r).m, body |-> Top(r).body]
      BY <2>1, <1>5 DEF Request, CallsFit
    <3>2. Len(stack[r]) \in 1 .. Len(stack[r]) /\ Top(r) \in Frame
      BY <3>1, <1>5 DEF Top
    <3>3. q.to \notin Tags
      BY <2>1, <1>2
    <3> QED
      BY <3>1, <3>2, <3>3, <1>2 DEF Frame
  <2>3. Chain(held', stack[r])
    BY <1>3, <1>5, ChainGrows DEF CallsFit, StoreGrows
  <2>4. /\ t \in Seq(Frame) /\ Chain(held', t)
        /\ t # <<>> => /\ t[1] = stack[r][1]
                       /\ t[Len(t)].todo # <<>>
                       /\ Head(t[Len(t)].todo) = Top(r).m
    BY <2>2, <2>3, <1>5, ChainBelow DEF Below, Top
  <2>5. held'[Top(r).m] = "genuine"
    BY <1>3, <2>2
  <2>6. /\ Moved(t) \in Seq(Frame) /\ Chain(held', Moved(t))
        /\ t # <<>> => Moved(t) # <<>> /\ Moved(t)[1].m = stack[r][1].m
        /\ t = <<>> => Moved(t) = <<>>
    <3> HIDE DEF t
    <3>1. CASE t = <<>>
      BY <3>1, <2>4 DEF Moved
    <3>2. CASE t # <<>>
      <4>1. Chain(held', Moved(t))
        BY <3>2, <2>4, <2>5, ChainMoved
      <4>2. /\ Moved(t) \in Seq(Frame) /\ Len(Moved(t)) = Len(t)
            /\ \A i \in 1 .. Len(t) - 1 : Moved(t)[i] = t[i]
            /\ Moved(t)[Len(t)] = [t[Len(t)] EXCEPT !.todo = Tail(@)]
        BY <3>2, <2>4, MovedFrames
      <4>3. Len(t) \in Nat \ {0} /\ t[Len(t)] \in Frame
        BY <3>2, <2>4
      <4>4. Moved(t)[Len(t)].m = t[Len(t)].m
        BY <4>2, <4>3 DEF Frame
      <4>5. Moved(t)[1].m = t[1].m
        <5>1. CASE Len(t) = 1
          BY <5>1, <4>4
        <5>2. CASE 1 \in 1 .. Len(t) - 1
          BY <5>2, <4>2
        <5>3. ASSUME NEW n \in Nat \ {0} PROVE n = 1 \/ 1 \in 1 .. n - 1
          OBVIOUS
        <5> QED
          BY <5>1, <5>2, <5>3, <4>3, Zenon
      <4> QED
        BY <3>2, <2>4, <4>1, <4>2, <4>3, <4>5
    <3> QED
      BY <3>1, <3>2
  <2>7. t = <<>> => Top(r).m = Wanted[r]
    <3>1. t = <<>> => Len(stack[r]) = 1
      <4>1. Len(t) = Len(stack[r]) - 1 /\ Len(stack[r]) \in Nat
        BY <2>2, <1>5 DEF Below
      <4> QED
        BY <4>1
    <3>2. stack[r][1].m = Wanted[r]
      BY <2>2, <1>5 DEF KnowsStored
    <3> QED
      BY <3>1, <3>2 DEF Top
  <2> HIDE DEF t
  <2>8. /\ stack'[r] = Moved(t) /\ copied'[r] = copied[r] \cup {Top(r).m}
        /\ body'[r] = "genuine" /\ pc'[r] = at
    BY <2>1, <2>2 DEF IInv, TypeOK
  <2>9. TypeOK'
    BY <1>1, <1>3, <2>1, <2>2, <2>6 DEF IInv, TypeOK, Content
  <2>10. OnlyOf(r)
    BY <2>1 DEF OnlyOf, IInv, TypeOK
  <2>11. CallsFit(r)'
    BY <2>6, <2>8 DEF CallsFit
  <2>12. KnowsStored(r)'
    <3>1. \A d \in present'[r] \cup copied'[r] : held'[d] # "absent"
      BY <2>1, <2>5, <2>8, <1>3, <1>5 DEF KnowsStored, StoreGrows
    <3>2. stack'[r] # <<>> => stack'[r][1].m = Wanted[r]
      BY <2>2, <2>6, <2>8, <1>5 DEF KnowsStored
    <3>3. pc'[r] = "tag" => held'[Wanted[r]] # "absent"
      BY <2>5, <2>7, <2>8
    <3> QED
      BY <3>1, <3>2, <3>3, <2>8 DEF KnowsStored
  <2>13. TagsApplied(r)'
    BY <2>1, <2>2, <2>8, <1>4, <1>5 DEF TagsApplied, Exclusive
  <2> QED
    BY <1>1, <1>3, <1>6, <2>1, <2>9, <2>10, <2>11, <2>12, <2>13, StepKeeps
<1>9. CASE TagApplied(r)
  <2>1. /\ pc[r] = "tag" /\ pc' = [pc EXCEPT ![r] = "check"]
        /\ UNCHANGED <<stack, body, present, copied, tagNo>>
    BY <1>9 DEF TagApplied
  <2>2. q.to = ThisTag(r) /\ q.what = Wanted[r] /\ ThisTag(r) \in Tags
        /\ pc'[r] = "check"
    BY <1>1, <2>1, RequestHarmless DEF Request, IInv, TypeOK
  <2>3. TypeOK'
    BY <1>1, <1>3, <2>1 DEF IInv, TypeOK
  <2>4. OnlyOf(r)
    BY <2>1 DEF OnlyOf, IInv, TypeOK
  <2>5. Chain(held', stack[r])
    BY <1>3, <1>5, ChainGrows DEF CallsFit, StoreGrows
  <2>6. CallsFit(r)'
    BY <2>1, <2>2, <2>5, <1>5 DEF CallsFit
  <2>7. KnowsStored(r)'
    BY <2>1, <2>2, <1>3, <1>5 DEF KnowsStored, StoreGrows
  <2>8. TagsApplied(r)'
    <3> SUFFICES ASSUME NEW i \in 1 .. Len(TagList[r]), Exclusive(r, TagList[r][i]),
                        i < tagNo[r]
                 PROVE  tag'[TagList[r][i]] = Wanted[r]
      BY <2>1, <2>2, <1>5 DEF TagsApplied, Exclusive
    <3>1. tag[TagList[r][i]] = Wanted[r]
      BY <2>1, <1>5 DEF TagsApplied
    <3>2. TagList[r][i] \in Tags
      BY PromotionAssumption
    <3> QED
      BY <3>1, <3>2, <2>2, <1>4 DEF IInv, TypeOK
  <2> QED
    BY <1>1, <1>3, <1>6, <2>1, <2>3, <2>4, <2>6, <2>7, <2>8, StepKeeps
<1> QED
  BY <1>1, <1>7, <1>8, <1>9

LEMMA PutLostKeeps ==
  ASSUME IInv, NEW r \in Runs, PutLost(r)
  PROVE  IInv'
<1> PICK q : q = Request(r)
  OBVIOUS
<1>1. /\ AtPut(r) /\ late' = late \cup {q} /\ UNCHANGED <<held, tag>>
      /\ pc[r] # "failed" /\ pc' = [pc EXCEPT ![r] = "failed"]
      /\ stack' = [stack EXCEPT ![r] = <<>>]
      /\ UNCHANGED <<body, present, copied, tagNo>>
  BY DEF PutLost, Failed, AtPut
<1>2. /\ q \in Put /\ q.body = "genuine"
      /\ q.what \in Manifests => Complete(held, q.what)
      /\ q.to \in Tags => q.what \in Manifests /\ q.to = ThisTag(r)
  BY <1>1, RequestHarmless
<1>3. CallsFit(r) /\ KnowsStored(r) /\ TagsApplied(r)
      /\ pc'[r] = "failed" /\ stack'[r] = <<>>
  BY <1>1 DEF IInv, TypeOK
<1>4. TypeOK'
  BY <1>1, <1>2 DEF IInv, TypeOK
<1>5. OnlyOf(r) /\ ForeignTagsKept(r) /\ StoreGrows
  BY <1>1 DEF OnlyOf, ForeignTagsKept, StoreGrows, IInv, TypeOK
<1>6. LateHarmless(q)'
  <2>1. q.to \in Tags => \E i \in 1 .. Len(TagList[r]) : TagList[r][i] = q.to
    BY <1>2, <1>3 DEF ThisTag, TagsApplied
  <2> QED
    BY <1>1, <1>2, <1>3, <2>1 DEF LateHarmless, Complete
<1>7. TagsAreComplete'
  BY <1>1 DEF IInv, TagsAreComplete, Complete
<1>8. CallsFit(r)' /\ KnowsStored(r)' /\ TagsApplied(r)'
  BY <1>1, <1>3 DEF CallsFit, Chain, KnowsStored, TagsApplied, Exclusive
<1> QED
  BY <1>1, <1>4, <1>5, <1>6, <1>7, <1>8, StepKeeps

LEMMA LateExecutionKeeps ==
  ASSUME IInv, LateExecution
  PROVE  IInv'
<1>1. PICK q \in late : Execute(q) /\ late' = late \ {q} /\ UNCHANGED promoter
  BY DEF LateExecution
<1>2. q \in Put /\ LateHarmless(q)
  BY DEF IInv, TypeOK
<1>3. /\ StoreGrows /\ TagsAreComplete'
      /\ held' \in [Digests -> Content \cup {"absent"}]
      /\ tag' \in [Tags -> Manifests \cup {None}]
  BY <1>1, <1>2, ExecutedIsComplete DEF LateHarmless
<1>4. UNCHANGED <<pc, stack, body, present, copied, tagNo>>
  BY <1>1 DEF promoter
<1>5. TypeOK'
  BY <1>1, <1>3, <1>4 DEF IInv, TypeOK
<1>6. \A s \in Runs : CallsFit(s)' /\ KnowsStored(s)'
  <2> SUFFICES ASSUME NEW s \in Runs PROVE CallsFit(s)' /\ KnowsStored(s)'
    OBVIOUS
  <2>1. CallsFit(s) /\ KnowsStored(s) /\ stack[s] \in Seq(Frame)
        /\ \A d \in present[s] \cup copied[s] \cup {Wanted[s]} : d \in Digests
    BY PromotionAssumption DEF IInv, TypeOK, Digests
  <2>2. Chain(held', stack[s])
    BY <2>1, <1>3, ChainGrows DEF CallsFit, StoreGrows
  <2> QED
    BY <2>1, <2>2, <1>3, <1>4 DEF CallsFit, KnowsStored, StoreGrows, Top, Next1
<1>7. \A p \in late' : LateHarmless(p)'
  <2> SUFFICES ASSUME NEW p \in late PROVE LateHarmless(p)'
    BY <1>1
  <2>1. LateHarmless(p)
    BY DEF IInv
  <2>2. p.what \in Manifests => Complete(held, p.what)'
    BY <2>1, <1>3, CompleteGrows DEF LateHarmless, Complete
  <2> QED
    BY <2>1, <2>2, <1>4 DEF LateHarmless
<1>8. \A s \in Runs : TagsApplied(s)'
  <2> SUFFICES ASSUME NEW s \in Runs, NEW i \in 1 .. Len(TagList[s]),
                      Exclusive(s, TagList[s][i]),
                      pc[s] \in {"tag", "check", "verify", "published"}
               PROVE  tag'[TagList[s][i]] = tag[TagList[s][i]]
    BY <1>4 DEF IInv, TagsApplied, Exclusive
  <2>1. CASE q.to \in Tags
    <3>1. PICK p \in Runs : pc[p] = "failed"
                            /\ \E j \in 1 .. Len(TagList[p]) : TagList[p][j] = q.to
      BY <2>1, <1>2 DEF LateHarmless
    <3>2. q.to # TagList[s][i]
      BY <3>1 DEF Exclusive
    <3> QED
      BY <3>2, <2>1, <1>1 DEF Execute, IInv, TypeOK
  <2>2. CASE q.to \notin Tags
    BY <2>2, <1>1 DEF Execute
  <2> QED
    BY <2>1, <2>2
<1> QED
  BY <1>3, <1>5, <1>6, <1>7, <1>8 DEF IInv

-----------------------------------------------------------------------------
(* The invariant, and what follows from it.                                *)

LEMMA Initially ==
  ASSUME Init
  PROVE  IInv
<1>1. \A r \in Runs : TagList[r] \in Seq(Tags) /\ Len(TagList[r]) \in Nat \ {0}
  BY PromotionAssumption
<1>2. TypeOK /\ TagsAreComplete
  BY PromotionAssumption DEF Init, TypeOK, TagsAreComplete, Content
<1> QED
  BY <1>1, <1>2 DEF Init, IInv, CallsFit, KnowsStored, TagsApplied, Chain

LEMMA Inductive ==
  ASSUME TruthfulLabels, IInv, [Next]_vars
  PROVE  IInv'
<1>1. CASE UNCHANGED vars
  <2>1. /\ held' = held /\ tag' = tag /\ late' = late /\ pc' = pc /\ stack' = stack
        /\ body' = body /\ present' = present /\ copied' = copied /\ tagNo' = tagNo
    BY <1>1 DEF vars
  <2>2. TypeOK' /\ TagsAreComplete'
    BY <2>1 DEF IInv, TypeOK, TagsAreComplete, Complete
  <2>3. \A r \in Runs : CallsFit(r)'
    BY <2>1 DEF IInv, CallsFit, Chain, Pending, Top, Next1
  <2>4. \A r \in Runs : KnowsStored(r)' /\ TagsApplied(r)'
    BY <2>1 DEF IInv, KnowsStored, TagsApplied, Exclusive
  <2>5. \A q \in late' : LateHarmless(q)'
    BY <2>1 DEF IInv, LateHarmless, Complete
  <2> QED
    BY <2>2, <2>3, <2>4, <2>5 DEF IInv
<1>2. CASE LateExecution
  BY <1>2, LateExecutionKeeps
<1>3. ASSUME NEW r \in Runs, Steps(r) PROVE IInv'
  BY <1>3, BeginKeeps, FetchManifestKeeps, KnownReferenceKeeps, WaitKeeps, BlobExistsKeeps,
     MountedKeeps, FetchBlobKeeps, PutAnsweredKeeps, PutLostKeeps, TagLookKeeps, FailsKeeps
     DEF Steps
<1> QED
  BY <1>1, <1>2, <1>3 DEF Next

THEOREM InvariantHolds == ASSUME TruthfulLabels PROVE Spec => []IInv
<1>1. Init => IInv
  BY Initially
<1>2. IInv /\ [Next]_vars => IInv'
  BY Inductive
<1> QED
  BY <1>1, <1>2, PTL DEF Spec

(* Every value has its type: the promoter never takes a manifest for a     *)
(* blob it has seen, and its calls nest.                                   *)
THEOREM TypeCorrect == ASSUME TruthfulLabels PROVE Spec => []TypeOK
<1>1. IInv => TypeOK
  BY DEF IInv
<1> QED
  BY <1>1, InvariantHolds, PTL

(* For any graph of manifests and any publications at once, every tag of   *)
(* production resolves to an image all of whose parts are there.           *)
THEOREM TagsComplete == ASSUME TruthfulLabels PROVE Spec => []TagsAreComplete
<1>1. IInv => TagsAreComplete
  BY DEF IInv
<1> QED
  BY <1>1, InvariantHolds, PTL

(* A publication that ended well has applied all its tags, and no failed   *)
(* run, late request or other publication takes away one only it applies.  *)
THEOREM PublishedTagged == ASSUME TruthfulLabels PROVE Spec => []PublishedMeansTagged
<1>1. ASSUME IInv, NEW r \in Runs, pc[r] = "published"
      PROVE  held[Wanted[r]] = "genuine"
  <2>1. held[Wanted[r]] # "absent" /\ Wanted[r] \in Digests
    BY <1>1, PromotionAssumption DEF IInv, KnowsStored, Digests
  <2> QED
    BY <2>1, <1>1 DEF IInv, TypeOK, TagsAreComplete, Content
<1>2. IInv => PublishedMeansTagged
  BY <1>1 DEF IInv, TagsApplied, PublishedMeansTagged
<1> QED
  BY <1>2, InvariantHolds, PTL
=============================================================================
