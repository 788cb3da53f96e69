---------------------------- MODULE DockerPlans ----------------------------
(***************************************************************************)
(* Plan and apply of a container recreate (docker_ops.py and the docker    *)
(* handlers of kernel_execution.py), for one service of one compose        *)
(* project.  A plan computes what compose wants, stores it and replies     *)
(* with a receipt; an apply reads everything again, compares it with what  *)
(* was stored, and only then lets compose recreate the container.          *)
(*                                                                         *)
(* A caller is one invocation, in any server process; the plan store is    *)
(* shared under a file lock, so an access to it is one step.  Between two  *)
(* calls of the docker helper on the host everything outside may change:   *)
(* compose files, image tags and the container.                            *)
(***************************************************************************)
EXTENDS Naturals, Sequences, FiniteSets

CONSTANTS
    Callers,        \* invocations of docker_recreate_plan and _apply
    Cores,          \* values of the fields that are compared for equality
    ImageCores,     \* cores that leave the command to the image
    Specs,          \* service definitions a compose file may contain
    Tags,           \* image references
    Images,         \* image references a client may ask for
    Digests,        \* image contents
    FileSets,       \* values of the config_files label
    MaxPlanRecords, \* MAX_PLAN_RECORDS
    MaxChanges,     \* bound of the changes made by others
    MaxReceipts,    \* bound of the plans made
    Nil             \* no argument, no container, no receipt

(* The environment of a service is a set of settings.                      *)
Settings == UNION {s.env : s \in Specs}

ASSUME DockerPlansAssumption ==
    /\ MaxPlanRecords \in Nat \ {0}
    /\ MaxChanges \in Nat /\ MaxReceipts \in Nat
    /\ ImageCores \subseteq Cores
    /\ Images \subseteq Tags
    /\ \A s \in Specs : /\ DOMAIN s = {"core", "env", "tag", "named"}
                        /\ s.core \in Cores
                        /\ s.tag \in Tags
                        /\ s.named \in BOOLEAN

VARIABLES
    compose,    \* compose[f]: the service as the files f define it
    digest,     \* digest[t]: the image that tag t names on the host
    live,       \* the service's container, or Nil
    births,     \* how many containers there have been
    store,      \* plan records that have not expired, oldest first
    given,      \* receipts that clients have been given
    call,       \* call[c]: the invocation caller c is executing
    changes     \* how often someone else changed the host

planVars ==
    <<compose, digest, live, births, store, given, call, changes>>

Container == [core : Cores, env : SUBSET Settings, digest : Digests,
              files : FileSets, born : Nat]

(* receipt_payload; a receipt is its hash.                                 *)
Payload == [files : FileSets, explicit : BOOLEAN, allow : BOOLEAN,
            digest : Digests, desired : Specs]

PlanRecord == [payload : Payload, image : Images \cup {Nil}]

Refusals == {"NOT_FOUND", "VALIDATION", "PLAN_STALE", "IMAGE_DRIFT",
             "DECLARED_RUNTIME_DRIFT", "RECREATE_CONFIG_DRIFT"}

Replies == {"ALREADY_APPLIED", "APPLIED", "APPLIED_UNVERIFIED",
            "UPSTREAM", "AMBIGUOUS"} \cup Refusals

ASSUME NoReply == Nil \notin Replies

ReadSteps == {"resolve", "config", "image"}

Steps == {"idle", "up", "verify", "wait", "done"} \cup ReadSteps

(* "sent": the helper that runs compose up may still do so.                *)
Requests == {"none", "sent", "ended", "failed"}

Call == [op : {"plan", "apply", Nil}, step : Steps,
         image : Images \cup {Nil}, files : FileSets \cup {Nil},
         allow : BOOLEAN, receipt : Payload \cup {Nil},
         seen : Container \cup {Nil}, desired : Specs \cup {Nil},
         up : Requests, made : Container \cup {Nil}, steady : BOOLEAN,
         reply : Replies \cup {Nil}]

IdleCall == [op |-> Nil, step |-> "idle", image |-> Nil, files |-> Nil,
             allow |-> FALSE, receipt |-> Nil, seen |-> Nil, desired |-> Nil,
             up |-> "none", made |-> Nil, steady |-> FALSE, reply |-> Nil]

(* What docker compose up creates now: it reads the files and the tag      *)
(* itself, whatever was read before.  A service that names no image has    *)
(* the one compose builds, under a tag of compose's own.                   *)
Recreated(f) == [core |-> compose[f].core, env |-> compose[f].env,
                 digest |-> digest[compose[f].tag], files |-> f,
                 born |-> births + 1]

PlanInit ==
    /\ compose \in [FileSets -> Specs]
    /\ digest \in [Tags -> Digests]
    /\ \E f \in FileSets :
         live = [core |-> compose[f].core, env |-> compose[f].env,
                 digest |-> digest[compose[f].tag], files |-> f, born |-> 1]
    /\ births = 1
    /\ store = <<>>
    /\ given = {}
    /\ call = [c \in Callers |-> IdleCall]
    /\ changes = 0

-----------------------------------------------------------------------------
(* Comparisons                                                             *)

(* semantic_diff is not empty: settings the container carries and the      *)
(* files do not mention are not looked at, nor is the image if they name   *)
(* none, and a command the files leave to the image never equals the one   *)
(* the container runs.                                                     *)
Differs(container, spec, image) ==
    \/ spec.named /\ container.digest # image
    \/ container.core # spec.core
    \/ spec.core \in ImageCores
    \/ ~(spec.env \subseteq container.env)

PayloadOf(c, image) ==
    [files |-> call[c].files, explicit |-> call[c].image # Nil,
     allow |-> call[c].allow, digest |-> image, desired |-> call[c].desired]

HasRecord(receipt) == \E i \in DOMAIN store : store[i].payload = receipt

RecordOf(receipt) ==
    store[CHOOSE i \in DOMAIN store : store[i].payload = receipt]

(* Fault: trims the store before the new record is appended.               *)
NewestBeforeAppend(records) ==
    IF Len(records) > MaxPlanRecords + 1 THEN Tail(records) ELSE records

(* The newest records, as many as the store may hold.                      *)
Newest(records) ==
    IF Len(records) > MaxPlanRecords
    THEN SubSeq(records, Len(records) - MaxPlanRecords + 1, Len(records))
    ELSE records

(* The records but for that of a receipt; there is at most one.            *)
Without(receipt) ==
    IF HasRecord(receipt)
    THEN LET i == CHOOSE j \in DOMAIN store : store[j].payload = receipt
         IN  SubSeq(store, 1, i - 1) \o SubSeq(store, i + 1, Len(store))
    ELSE store

Saved(record) == Newest(Append(Without(record.payload), record))

(* A plan leaves nothing behind in its caller, which may go on; of what an *)
(* apply has read, only that is kept which its reply is about.             *)
End(c, reply) ==
    call' = [call EXCEPT ![c] =
        CASE @.op = "plan" -> IdleCall
          [] @.op = "apply" /\ (@.up # "none" \/ reply = "ALREADY_APPLIED") ->
                [@ EXCEPT !.step = "done", !.reply = reply]
          [] OTHER -> [IdleCall EXCEPT !.op = "apply", !.step = "done",
                                   !.reply = reply]]

hostVars == <<compose, digest, live, births, changes>>

-----------------------------------------------------------------------------
(* Beginning                                                               *)

PlanBegins(c, files, image, allow) ==
    /\ call[c].step = "idle"
    /\ Cardinality(given) < MaxReceipts
    /\ call' = [call EXCEPT ![c] =
                  [IdleCall EXCEPT !.op = "plan", !.step = "resolve",
                               !.files = files, !.image = image,
                               !.allow = allow]]
    /\ UNCHANGED <<hostVars, store, given>>

(* Receipts are hashes: a client can only present one it was given.        *)
ApplyBegins(c, receipt) ==
    /\ call[c].step = "idle"
    /\ call' = [call EXCEPT ![c] =
         IF HasRecord(receipt)
         THEN [IdleCall EXCEPT !.op = "apply", !.step = "resolve",
                           !.files = RecordOf(receipt).payload.files,
                           !.image = RecordOf(receipt).image,
                           !.allow = RecordOf(receipt).payload.allow,
                           !.receipt = receipt]
         ELSE [IdleCall EXCEPT !.op = "apply", !.step = "done",
                           !.reply = "PLAN_STALE"]]
    /\ UNCHANGED <<hostVars, store, given>>

-----------------------------------------------------------------------------
(* Reading, the same for a plan and for an apply                           *)

(* docker ps finds the container and docker inspect reads it.              *)
Resolve(c) ==
    /\ call[c].step = "resolve"
    /\ live # Nil
    /\ IF call[c].files \in {Nil, live.files}
       THEN call' = [call EXCEPT ![c].step = "config",
                                 ![c].files = live.files,
                                 ![c].seen = IF call[c].op = "apply"
                                             THEN live ELSE Nil]
       ELSE End(c, "DECLARED_RUNTIME_DRIFT")
    /\ UNCHANGED <<hostVars, store, given>>

(* No container, or the one docker ps named is gone.                       *)
NotResolved(c) ==
    /\ call[c].step = "resolve"
    /\ End(c, "NOT_FOUND")
    /\ UNCHANGED <<hostVars, store, given>>

HasImage(c, spec) == call[c].image # Nil \/ spec.named

ReadConfig(c) ==
    /\ call[c].step = "config"
    /\ HasImage(c, compose[call[c].files])
    /\ call' = [call EXCEPT ![c].step = "image",
                            ![c].steady = call[c].op = "apply",
                            ![c].desired = compose[call[c].files]]
    /\ UNCHANGED <<hostVars, store, given>>

(* Neither the caller nor the service names an image.                      *)
NoImage(c) ==
    /\ call[c].step = "config"
    /\ ~HasImage(c, compose[call[c].files])
    /\ End(c, "VALIDATION")
    /\ UNCHANGED <<hostVars, store, given>>

ReadFails(c) ==
    /\ call[c].step \in ReadSteps
    /\ End(c, "UPSTREAM")
    /\ UNCHANGED <<hostVars, store, given>>

(* Fault: an apply takes the image the plan has looked up.                 *)
DigestRemembered(c) ==
    IF call[c].op = "apply" THEN call[c].receipt.digest
    ELSE digest[IF call[c].image # Nil THEN call[c].image
                ELSE call[c].desired.tag]

DigestRead(c) ==
    digest[IF call[c].image # Nil THEN call[c].image ELSE call[c].desired.tag]

PlanEnds(c) ==
    LET payload == PayloadOf(c, DigestRead(c))
    IN  /\ call[c].op = "plan" /\ call[c].step = "image"
        /\ store' = Saved([payload |-> payload, image |-> call[c].image])
        /\ given' = given \cup {payload}
        /\ call' = [call EXCEPT ![c] = IdleCall]
        /\ UNCHANGED hostVars

-----------------------------------------------------------------------------
(* Deciding about an apply                                                 *)

Drifted(c) == Differs(call[c].seen, call[c].desired, DigestRead(c))

Unchanged(c) == PayloadOf(c, DigestRead(c)) = call[c].receipt

Staleness(c) ==
    IF call[c].desired # call[c].receipt.desired \/ call[c].image # Nil
    THEN "PLAN_STALE" ELSE "IMAGE_DRIFT"

(* Fault: nothing to do, whatever has been planned.                        *)
VerdictConvergedFirst(c) ==
    IF ~Drifted(c) THEN "ALREADY_APPLIED"
    ELSE IF ~call[c].allow THEN "RECREATE_CONFIG_DRIFT"
    ELSE IF ~Unchanged(c) THEN "PLAN_STALE" ELSE Nil

(* Why an apply stops before it touches the host, Nil if it does not.      *)
Verdict(c) ==
    IF Drifted(c) /\ ~call[c].allow THEN "RECREATE_CONFIG_DRIFT"
    ELSE IF ~Unchanged(c) THEN Staleness(c)
    ELSE IF ~Drifted(c) THEN "ALREADY_APPLIED"
    ELSE Nil

Decide(c) ==
    /\ call[c].op = "apply" /\ call[c].step = "image"
    /\ IF Verdict(c) = Nil
       THEN call' = [call EXCEPT ![c].step = "up", ![c].up = "sent",
                                 ![c].seen = Nil, ![c].desired = Nil]
       ELSE End(c, Verdict(c))
    /\ UNCHANGED <<hostVars, store, given>>

-----------------------------------------------------------------------------
(* Recreating                                                              *)

UpExecutes(c) ==
    /\ call[c].up = "sent"
    /\ LET container == Recreated(call[c].files)
       IN  /\ live' = container
           /\ call' = [call EXCEPT ![c].up = "ended", ![c].made = container]
    /\ births' = births + 1
    /\ UNCHANGED <<compose, digest, changes, store, given>>

(* compose fails, or its helper kills it after 55 s, before it removed the *)
(* old container, or in between, or when the new one already exists.       *)
UpFails(c) ==
    /\ call[c].up = "sent"
    /\ LET container == Recreated(call[c].files)
       IN  \/ /\ live' \in {live, Nil}
              /\ births' = births
              /\ call' = [call EXCEPT ![c].up = "failed"]
           \/ /\ live' = container
              /\ births' = births + 1
              /\ call' = [call EXCEPT ![c].up = "failed", ![c].made = container]
    /\ UNCHANGED <<compose, digest, changes, store, given>>

UpAnswered(c) ==
    /\ call[c].step = "up"
    /\ \/ /\ call[c].up = "ended"
          /\ call' = [call EXCEPT ![c].step = "verify"]
       \/ /\ call[c].up = "failed"
          /\ End(c, "UPSTREAM")
    /\ UNCHANGED <<hostVars, store, given>>

(* The deadline of an apply, or a lost connection: a mutation that may     *)
(* have happened, or, if compose up was requested, may still happen.       *)
Abandoned(c) ==
    /\ call[c].op = "apply"
    /\ call[c].step \notin {"idle", "done"}
    /\ End(c, "AMBIGUOUS")
    /\ UNCHANGED <<hostVars, store, given>>

Verify(c) ==
    /\ call[c].step = "verify"
    /\ live # Nil
    /\ call' = [call EXCEPT ![c].step = "wait", ![c].seen = live]
    /\ UNCHANGED <<hostVars, store, given>>

(* Fault: passes on the error of the lookup.                               *)
NotVerifiedPlainly(c) ==
    /\ call[c].step \in {"verify", "wait"}
    /\ End(c, "NOT_FOUND")
    /\ UNCHANGED <<hostVars, store, given>>

(* The reply says applied=true.                                            *)
NotVerified(c) ==
    /\ call[c].step \in {"verify", "wait"}
    /\ End(c, "APPLIED_UNVERIFIED")
    /\ UNCHANGED <<hostVars, store, given>>

(* The wait looks at the container that was inspected, by its id; whether  *)
(* and when that is ready is the container's own affair.                   *)
WaitReady(c) ==
    /\ call[c].step = "wait"
    /\ live # Nil /\ live.born = call[c].seen.born
    /\ End(c, "APPLIED")
    /\ UNCHANGED <<hostVars, store, given>>

-----------------------------------------------------------------------------
(* Others                                                                  *)

(* What was read from the files or the tags is no longer what they say.    *)
Unsteady == [c \in Callers |->
    IF call[c].made = Nil THEN [call[c] EXCEPT !.steady = FALSE] ELSE call[c]]

SomethingChanges == changes < MaxChanges /\ changes' = changes + 1

ComposeEdited ==
    /\ SomethingChanges
    /\ \E f \in FileSets, s \in Specs :
         s # compose[f] /\ compose' = [compose EXCEPT ![f] = s]
    /\ call' = Unsteady
    /\ UNCHANGED <<digest, live, births, store, given>>

TagMoved ==
    /\ SomethingChanges
    /\ \E t \in Tags, d \in Digests :
         d # digest[t] /\ digest' = [digest EXCEPT ![t] = d]
    /\ call' = Unsteady
    /\ UNCHANGED <<compose, live, births, store, given>>

(* docker update, docker network connect and the like.                     *)
ContainerChanged ==
    /\ SomethingChanges
    /\ live # Nil
    /\ \E core \in Cores \ {live.core} : live' = [live EXCEPT !.core = core]
    /\ UNCHANGED <<compose, digest, births, store, given, call>>

(* An operator runs compose or removes the container.                      *)
ContainerReplaced ==
    /\ SomethingChanges
    /\ \/ \E f \in FileSets : live' = Recreated(f) /\ births' = births + 1
       \/ live' = Nil /\ births' = births
    /\ UNCHANGED <<compose, digest, store, given, call>>

(* Records expire in the order in which they were saved; an expired one is *)
(* neither found nor kept by the next save.                                *)
RecordExpires ==
    /\ store # <<>>
    /\ store' = Tail(store)
    /\ UNCHANGED <<hostVars, given, call>>

-----------------------------------------------------------------------------
CallStep(c) ==
    \/ \E files \in FileSets \cup {Nil}, image \in Images \cup {Nil},
          allow \in BOOLEAN : PlanBegins(c, files, image, allow)
    \/ \E receipt \in given : ApplyBegins(c, receipt)
    \/ Resolve(c) \/ NotResolved(c) \/ ReadConfig(c) \/ NoImage(c)
    \/ ReadFails(c) \/ PlanEnds(c) \/ Decide(c)
    \/ UpExecutes(c) \/ UpFails(c) \/ UpAnswered(c) \/ Abandoned(c)
    \/ Verify(c) \/ NotVerified(c) \/ WaitReady(c)

PlanNext ==
    \/ \E c \in Callers : CallStep(c)
    \/ ComposeEdited \/ TagMoved \/ ContainerChanged \/ ContainerReplaced
    \/ RecordExpires

PlanSpec == PlanInit /\ [][PlanNext]_planVars

-----------------------------------------------------------------------------
(* Properties                                                              *)

(* Every variable has its type; the plan store keeps its bound and one     *)
(* record per receipt, whatever is saved, saved again or expires.          *)
PlanTypeOK ==
    /\ compose \in [FileSets -> Specs]
    /\ digest \in [Tags -> Digests]
    /\ live \in Container \cup {Nil}
    /\ births \in Nat
    /\ store \in Seq(PlanRecord)
    /\ given \subseteq Payload
    /\ call \in [Callers -> Call]
    /\ changes \in 0 .. MaxChanges
    /\ Len(store) <= MaxPlanRecords
    /\ \A i, j \in DOMAIN store : store[i].payload = store[j].payload => i = j

(* A container that an apply creates is the planned one: as long as nobody *)
(* edits a file or moves a tag after the apply has read them, it has the   *)
(* definition and the image that the receipt binds, from the same files.   *)
(* An image given explicitly is the exception: compose never hears of it,  *)
(* and the container runs the image of the compose file.                   *)
RecreateFollowsPlan ==
    \A c \in Callers :
        /\ call[c].made # Nil /\ call[c].steady
        /\ ~call[c].receipt.explicit
        => /\ call[c].made.core = call[c].receipt.desired.core
           /\ call[c].made.env = call[c].receipt.desired.env
           /\ call[c].made.digest = call[c].receipt.digest
           /\ call[c].made.files = call[c].receipt.files

(* ALREADY_APPLIED is said of what was planned: the container that was     *)
(* inspected agrees with the receipt, not with files and tags that have    *)
(* changed since.  A service that names no image is the exception: the     *)
(* container may run another image than the receipt binds.                 *)
AlreadyAppliedMatchesPlan ==
    \A c \in Callers :
        LET seen == call[c].seen
            desired == call[c].receipt.desired
        IN  call[c].reply = "ALREADY_APPLIED"
            => /\ seen.core = desired.core
               /\ desired.env \subseteq seen.env
               /\ desired.named => seen.digest = call[c].receipt.digest

(* A refusal is final and harmless: the apply has not asked compose for    *)
(* anything and never will.                                                *)
RefusedMeansUntouched ==
    \A c \in Callers : call[c].reply \in Refusals => call[c].up = "none"
=============================================================================
