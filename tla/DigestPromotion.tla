-------------------------- MODULE DigestPromotion --------------------------
(***************************************************************************)
(* The release promoter (scripts/promote_digest.py) as publish.yml runs    *)
(* it: one run copies everything below a digest from the quarantine        *)
(* registry to the production registry, bottom up, then points its tags to *)
(* the digest and reads each back; a second, read-only run of the script   *)
(* then looks at every tag again.                                          *)
(*                                                                         *)
(* Runs of different release refs share the production registry and may    *)
(* share a tag (both a branch and a tag build apply sha-<commit>).  Any    *)
(* request may fail, the source may send bytes that are not what was asked *)
(* for, and a PUT whose answer was lost may be executed later.  The        *)
(* production registry is modelled as a mere store: it checks neither      *)
(* digests nor references, and it deletes nothing.                         *)
(***************************************************************************)
EXTENDS Integers, Sequences

CONSTANTS
    Runs,           \* publications
    Manifests,      \* digests of indexes and image manifests
    Blobs,          \* digests of configurations and layers
    Indexes,        \* the manifests that are indexes
    Refs,           \* Refs[m]: the digests that m needs, in order
    Tags,
    Wanted,         \* Wanted[r]: --digest
    TagList,        \* TagList[r]: --tag ...
    TruthfulLabels, \* does the source name the media type of a manifest
    None            \* the tag does not exist

Digests == Manifests \cup Blobs

ASSUME PromotionAssumption ==
    /\ Indexes \subseteq Manifests
    /\ Refs \in [Manifests -> Seq(Digests)]
    /\ Wanted \in [Runs -> Manifests]
    /\ TagList \in [Runs -> Seq(Tags) \ {<<>>}]
    /\ TruthfulLabels \in BOOLEAN
    /\ Manifests \cap Blobs = {}
    /\ Tags \cap Digests = {}
    /\ None \notin Digests

VARIABLES
    held,       \* held[d]: what production stores under the digest d
    tag,        \* tag[t]: the manifest the production tag t points to
    late,       \* PUTs that may be executed although their run has failed
    pc,         \* pc[r]: the request r makes next
    stack,      \* stack[r]: the _copy_manifest calls r is in
    body,       \* body[r]: are the bytes in r's hands what they should be
    present,    \* present[r]: _present_blobs
    copied,     \* copied[r]: _copied_manifests
    tagNo       \* tagNo[r]: which tag r is applying, or reading

vars == <<held, tag, late, pc, stack, body, present, copied, tagNo>>
registry == <<held, tag, late>>
promoter == <<pc, stack, body, present, copied, tagNo>>

Content == {"genuine", "corrupt"}
Frame == [m : Manifests, body : Content, todo : Seq(Digests)]
Put == [to : Tags \cup Digests, what : Digests, body : Content]

TypeOK ==
    /\ held \in [Digests -> Content \cup {"absent"}]
    /\ tag \in [Tags -> Manifests \cup {None}]
    /\ late \in SUBSET Put
    /\ pc \in [Runs -> {"idle", "fetch", "refs", "mount", "get", "upload", "tag",
                        "check", "verify", "published", "failed"}]
    /\ stack \in [Runs -> Seq(Frame)]
    /\ body \in [Runs -> Content]
    /\ present \in [Runs -> SUBSET Blobs]
    /\ copied \in [Runs -> SUBSET Manifests]
    /\ tagNo \in [Runs -> Nat]

(* Everything m needs is stored.                                           *)
Complete(store, m) ==
    \A i \in 1 .. Len(Refs[m]) : store[Refs[m][i]] # "absent"

(* Production starts with whatever earlier publications have left there.   *)
Init ==
    /\ held \in [Digests -> {"absent", "genuine"}]
    /\ \A m \in Manifests : held[m] # "absent" => Complete(held, m)
    /\ tag \in [Tags -> {m \in Manifests : held[m] # "absent"} \cup {None}]
    /\ late = {}
    /\ pc = [r \in Runs |-> "idle"]
    /\ stack = [r \in Runs |-> <<>>]
    /\ body = [r \in Runs |-> "genuine"]
    /\ present = [r \in Runs |-> {}]
    /\ copied = [r \in Runs |-> {}]
    /\ tagNo = [r \in Runs |-> 1]

-----------------------------------------------------------------------------
(* The frame r executes and the digest it is about.                        *)

Top(r) == stack[r][Len(stack[r])]
Below(r) == SubSeq(stack[r], 1, Len(stack[r]) - 1)
Next1(r) == Head(Top(r).todo)

(* The manifest r asks for: the root, or the child its top frame is at.    *)
Asked(r) == IF stack[r] = <<>> THEN Wanted[r] ELSE Next1(r)

(* The calls of r once the top frame is done with its next reference.      *)
Moved(s) ==
    IF s = <<>> THEN s
    ELSE [s EXCEPT ![Len(s)].todo = Tail(@)]

ThisTag(r) == TagList[r][tagNo[r]]

(* hashlib.sha256(...) against the digest: bytes that are not what was     *)
(* asked for end the run.                                                  *)
Verified(bytes) == bytes = "genuine"

(* The references _copy_manifest will follow.  They depend on the media    *)
(* type, which comes from the source's header and not from the bytes: an   *)
(* index labelled as an image has no configuration and no layers.          *)
Followed(m) == {Refs[m]} \cup (IF TruthfulLabels THEN {} ELSE {<<>>})

-----------------------------------------------------------------------------
(* Reading the source and the store.                                       *)

(* promote_digest.py started with valid arguments.                         *)
Begin(r) ==
    /\ pc[r] = "idle"
    /\ pc' = [pc EXCEPT ![r] = "fetch"]
    /\ UNCHANGED <<registry, stack, body, present, copied, tagNo>>

(* GET of a manifest from the source; a call of _copy_manifest begins.     *)
FetchManifest(r) ==
    /\ pc[r] = "fetch"
    /\ \E bytes \in {b \in Content : Verified(b)}, todo \in Followed(Asked(r)) :
         stack' = [stack EXCEPT ![r] =
                     Append(@, [m |-> Asked(r), body |-> bytes, todo |-> todo])]
    /\ pc' = [pc EXCEPT ![r] = "refs"]
    /\ UNCHANGED <<registry, body, present, copied, tagNo>>

AtReference(r) == pc[r] = "refs" /\ Top(r).todo # <<>>

(* The child was copied, or the blob seen, earlier in this run.            *)
KnownReference(r) ==
    /\ AtReference(r)
    /\ Next1(r) \in IF Top(r).m \in Indexes THEN copied[r] ELSE present[r]
    /\ stack' = [stack EXCEPT ![r] = Moved(@)]
    /\ UNCHANGED <<registry, pc, body, present, copied, tagNo>>

(* The next child of an index: _copy_manifest calls itself.                *)
Descend(r) ==
    /\ AtReference(r)
    /\ Top(r).m \in Indexes
    /\ Next1(r) \in Manifests \ copied[r]
    /\ pc' = [pc EXCEPT ![r] = "fetch"]
    /\ UNCHANGED <<registry, stack, body, present, copied, tagNo>>

(* HEAD of a blob that production has.                                     *)
BlobExists(r) ==
    /\ AtReference(r)
    /\ Top(r).m \notin Indexes
    /\ Next1(r) \in Blobs \ present[r]
    /\ held[Next1(r)] # "absent"
    /\ present' = [present EXCEPT ![r] = @ \cup {Next1(r)}]
    /\ stack' = [stack EXCEPT ![r] = Moved(@)]
    /\ UNCHANGED <<registry, pc, body, copied, tagNo>>

(* HEAD of a blob it does not have, which includes every manifest that an  *)
(* image names as its subject: manifests are not blobs.                    *)
BlobMissing(r) ==
    /\ AtReference(r)
    /\ Top(r).m \notin Indexes
    /\ Next1(r) \notin present[r]
    /\ Next1(r) \in Blobs => held[Next1(r)] = "absent"
    /\ pc' = [pc EXCEPT ![r] = "mount"]
    /\ UNCHANGED <<registry, stack, body, present, copied, tagNo>>

(* POST ...?mount=: 201, the registry has linked the blob of the other     *)
(* repository.                                                             *)
Mounted(r) ==
    /\ pc[r] = "mount"
    /\ Next1(r) \in Blobs
    /\ held' = [held EXCEPT ![Next1(r)] = "genuine"]
    /\ present' = [present EXCEPT ![r] = @ \cup {Next1(r)}]
    /\ stack' = [stack EXCEPT ![r] = Moved(@)]
    /\ pc' = [pc EXCEPT ![r] = "refs"]
    /\ UNCHANGED <<tag, late, body, copied, tagNo>>

(* 202: it has not, and opened an upload session instead.                  *)
NotMounted(r) ==
    /\ pc[r] = "mount"
    /\ pc' = [pc EXCEPT ![r] = "get"]
    /\ UNCHANGED <<registry, stack, body, present, copied, tagNo>>

(* GET of a blob from the source.                                          *)
FetchBlob(r) ==
    /\ pc[r] = "get"
    /\ Next1(r) \in Blobs
    /\ \E bytes \in {b \in Content : Verified(b)} : body' = [body EXCEPT ![r] = bytes]
    /\ pc' = [pc EXCEPT ![r] = "upload"]
    /\ UNCHANGED <<registry, stack, present, copied, tagNo>>

-----------------------------------------------------------------------------
(* Writing to production.                                                  *)

(* The PUT r is about to send.                                             *)
Request(r) ==
    IF pc[r] = "upload"
    THEN [to |-> Next1(r), what |-> Next1(r), body |-> body[r]]
    ELSE IF pc[r] = "tag"
    THEN [to |-> ThisTag(r), what |-> Wanted[r], body |-> body[r]]
    ELSE [to |-> Top(r).m, what |-> Top(r).m, body |-> Top(r).body]

(* Fault: a manifest is stored before what it refers to.                   *)
AtPutEarly(r) == pc[r] \in {"upload", "tag", "refs"}

AtPut(r) == pc[r] \in {"upload", "tag"} \/ (pc[r] = "refs" /\ Top(r).todo = <<>>)

(* The registry executes a PUT: a manifest put by tag is stored under its  *)
(* digest as well.                                                         *)
Execute(q) ==
    /\ held' = [held EXCEPT ![q.what] = q.body]
    /\ tag' = IF q.to \in Tags THEN [tag EXCEPT ![q.to] = q.what] ELSE tag

(* upload_blob succeeds and _ensure_blob returns.                          *)
BlobUploaded(r) ==
    /\ pc[r] = "upload"
    /\ present' = [present EXCEPT ![r] = @ \cup {Next1(r)}]
    /\ stack' = [stack EXCEPT ![r] = Moved(@)]
    /\ pc' = [pc EXCEPT ![r] = "refs"]
    /\ UNCHANGED <<body, copied, tagNo>>

(* put_manifest by digest succeeds and _copy_manifest returns, to the      *)
(* index it was called for or to promote.                                  *)
ManifestStored(r) ==
    /\ pc[r] = "refs"
    /\ copied' = [copied EXCEPT ![r] = @ \cup {Top(r).m}]
    /\ body' = [body EXCEPT ![r] = Top(r).body]
    /\ stack' = [stack EXCEPT ![r] = Moved(Below(r))]
    /\ pc' = [pc EXCEPT ![r] = IF Below(r) = <<>> THEN "tag" ELSE "refs"]
    /\ UNCHANGED <<present, tagNo>>

TagApplied(r) ==
    /\ pc[r] = "tag"
    /\ pc' = [pc EXCEPT ![r] = "check"]
    /\ UNCHANGED <<stack, body, present, copied, tagNo>>

PutAnswered(r) ==
    /\ AtPut(r)
    /\ Execute(Request(r))
    /\ BlobUploaded(r) \/ ManifestStored(r) \/ TagApplied(r)
    /\ UNCHANGED late

Failed(r) ==
    /\ pc' = [pc EXCEPT ![r] = "failed"]
    /\ stack' = [stack EXCEPT ![r] = <<>>]
    /\ UNCHANGED <<body, present, copied, tagNo>>

(* No answer to the PUT: the run ends, the request may still be executed.  *)
PutLost(r) ==
    /\ AtPut(r)
    /\ late' = late \cup {Request(r)}
    /\ Failed(r)
    /\ UNCHANGED <<held, tag>>

LateExecution ==
    \E q \in late :
      /\ Execute(q)
      /\ late' = late \ {q}
      /\ UNCHANGED promoter

(* An HTTP error, a failed connection, bytes that fail verification, a tag *)
(* that resolves to something else, or the end of the process.             *)
Fails(r) ==
    /\ pc[r] \notin {"idle", "published", "failed"}
    /\ Failed(r)
    /\ UNCHANGED registry

-----------------------------------------------------------------------------
(* Looking at the tags.                                                    *)

Resolves(r) == tag[ThisTag(r)] = Wanted[r] /\ held[Wanted[r]] = "genuine"

(* Fault: the loop over the tags ends one tag early.                       *)
LastTagEarly(r) == tagNo[r] >= Len(TagList[r]) - 1

LastTag(r) == tagNo[r] = Len(TagList[r])

(* promote: GET of the tag just applied; then the next tag.                *)
TagChecked(r) ==
    /\ pc[r] = "check"
    /\ Resolves(r)
    /\ pc' = [pc EXCEPT ![r] = IF LastTag(r) THEN "verify" ELSE "tag"]
    /\ tagNo' = [tagNo EXCEPT ![r] = IF LastTag(r) THEN 1 ELSE @ + 1]
    /\ UNCHANGED <<registry, stack, body, present, copied>>

(* --verify-only, the next step of the workflow.                           *)
TagVerified(r) ==
    /\ pc[r] = "verify"
    /\ Resolves(r)
    /\ pc' = [pc EXCEPT ![r] = IF LastTag(r) THEN "published" ELSE "verify"]
    /\ tagNo' = [tagNo EXCEPT ![r] = IF LastTag(r) THEN @ ELSE @ + 1]
    /\ UNCHANGED <<registry, stack, body, present, copied>>

Steps(r) ==
    \/ Begin(r) \/ FetchManifest(r)
    \/ KnownReference(r) \/ Descend(r)
    \/ BlobExists(r) \/ BlobMissing(r)
    \/ Mounted(r) \/ NotMounted(r) \/ FetchBlob(r)
    \/ PutAnswered(r) \/ PutLost(r)
    \/ TagChecked(r) \/ TagVerified(r)
    \/ Fails(r)

Next == LateExecution \/ \E r \in Runs : Steps(r)

Spec == Init /\ [][Next]_vars

-----------------------------------------------------------------------------
(* A tag never points to an image that cannot be pulled: what a tag points *)
(* to is stored, with every manifest everything it refers to, and nothing  *)
(* under a digest it does not have.  Runs that share blobs, children or    *)
(* tags interleave, fail anywhere, are sent the wrong bytes, and their     *)
(* lost PUTs are executed late.                                            *)
TagsAreComplete ==
    /\ \A t \in Tags : tag[t] # None => held[tag[t]] # "absent"
    /\ \A m \in Manifests : held[m] # "absent" => Complete(held, m)
    /\ \A d \in Digests : held[d] # "corrupt"

(* No other publication applies the tag t.                                 *)
Exclusive(r, t) ==
    \A s \in Runs \ {r} : \A i \in 1 .. Len(TagList[s]) : TagList[s][i] # t

(* A publication that ended well has applied every one of its tags: its    *)
(* digest is stored, and a tag that no other publication applies points to *)
(* it for good, whatever late or failing requests of others do.            *)
PublishedMeansTagged ==
    \A r \in Runs :
      pc[r] = "published" =>
        /\ held[Wanted[r]] = "genuine"
        /\ \A i \in 1 .. Len(TagList[r]) :
             Exclusive(r, TagList[r][i]) => tag[TagList[r][i]] = Wanted[r]
=============================================================================
