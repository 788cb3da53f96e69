# mikrus-mcp in TLA+

This directory is a verification project for the server in `src/`: an MCP
server that runs administrative capabilities on remote targets over SSH and
over the Mikrus HTTP API. It contains TLA+ modules translated from the source,
TLC configurations that check them on small instances, and proofs checked by
TLAPS. File names below are relative to the repository root; line numbers refer
to `src/mikrus_mcp/` (`PROJECT.json`, "map", gives the lines of every
definition).

## The system and its parts

| Part | State it keeps | Operations | Talks to |
|---|---|---|---|
| Invocation kernel (`kernel.py`, `kernel_policy.py`) | weak dictionary of locks, per-call deadline and flags | `invoke`: validate, authorise, resolve, approve, lock, execute, retry, classify | every other part |
| Target registry (`targets.py`) | one client per target, one connect lock per target | `get`, `resolved_identity`, `status`, `close` | SSH client |
| Approval registry (`approvals.py`, `scripts/approval.py`) | a JSON file shared by processes, a copy per process | `issue`, `has_matching`, `consume_matching`, `consume`, `reload` | kernel, operator CLI |
| Remote job store and registry (`remote_jobs.py`, handlers in `kernel_execution.py`) | a JSON file under a file lock | `create_or_reuse`, `get`, `reconcile_observed_state`, `mark_lost`, expiry | kernel, SSH client |
| Remote jobs on the host (helpers embedded in `clients/ssh.py`) | a directory per job: `record.json`, a lock, output | start, worker, status, output, cancel, garbage collection (a resumable sweep with stored cursors) | each other, through the directory |
| SSH client (`clients/ssh.py`) | one asyncssh connection | run a program, collect it under a deadline, terminate it | host |
| Program jobs (`jobs.py`, helper in `clients/ssh.py`) | in-memory jobs with expiry, a task per job | submit, status, result, cancel, close | kernel, SSH client, the program on the host |
| Cron profiles (`cron_profiles.py`, `kernel_execution.py`, helper in `clients/ssh.py`) | a JSON file of records, the host's crontab | `cron_upsert`, `cron_remove`, `cron_list` | kernel, SSH client |
| Docker recreate plans (`docker_ops.py`, `kernel_execution.py`, helper in `clients/ssh.py`) | a bounded JSON file of plans that expire | `docker_recreate_plan`, `docker_recreate_apply`, snapshot, wait | kernel, SSH client, compose files, image tags and containers of the host |
| Mikrus client (`clients/mikrus.py`, `clients/common.py`) | response cache, rate limiter | read and mutating API calls | HTTP API |
| File patch (`clients/ssh.py`, `clients/common.py`) | the files of the host, an advisory lock | `file_patch_atomic`, `write_file` | host |
| Release promoter (`scripts/promote_digest.py`) | what it has copied in this run; the production registry and its tags | promote, `--verify-only` | source and production registries |
| Transport, tool surface, manifests, configuration | none that steps depend on | wrap, describe, authenticate | kernel |

### What is hard here

* **Approvals** are one JSON file for any number of server processes and
  operator runs, but `ApprovalRegistry._lock` is a `threading.Lock`. Between
  the comparison of the file's identity (line 251), `os.replace` (253) and the
  `stat` that remembers the new identity (254) other processes run.
  Correct means: an approval is consumed once, a consumed one never comes back,
  an issued one is not lost, and a copy that counts as current is current.
* **A durable job** is acted on by five kinds of processes that only share a
  directory: the start helper, the detached worker, the program's process group,
  cancel helpers and the collector. Any may be killed between two steps; pids
  are reused; programs ignore SIGTERM, change credentials, fork and leave
  descendants that hold the pipes or have redirected them. Correct means:
  launched at most once, one final outcome, honest cancel replies, cancellations
  that reach the group, no live job collected.
* **The job store** binds an idempotency key to a job for ever, while starts
  are retried, answers are late or lost, handlers are cancelled at any await,
  and observations of the host are recorded out of order. Correct means: one
  program per key, nothing recorded that was not true on the host.
* **The kernel** interleaves calls at awaits: it resolves a client, waits for a
  lock, consumes an approval and runs an adapter under one deadline, while
  other calls replace the connection. Correct means: mutually exclusive
  mutations, one request per approval, timeouts that say what they mean, and
  calls that always end.
* **A recreate** compares a plan with files, tags and a container that anyone
  may change between two reads, and `docker compose up` then reads the files
  and tags once more. Correct means: what is created is what was planned,
  nothing is recreated over a difference nobody accepted, and the reply tells a
  refusal from a mutation that may have happened.
* **A cron profile** is a record and two lines of a crontab, written one after
  the other, with a rollback, over texts that people and other calls change.
  Correct means: record and crontab agree once the calls have their answers,
  foreign lines survive, and a doubtful install is never reported as done.
* **The collector** does a bounded amount of work after each job start and
  leaves the rest to later passes, by cursors that overlapping passes share
  without a lock. Correct means: everything that falls due goes in the end,
  also behind entries that stay, and no legacy entry is passed over.
* **A program job** can end, time out, expire, be cancelled twice, lose its
  connection or be overtaken by the shutdown, while its program runs on the
  host. Correct means: a state once told stays true, a cancellation is
  answered, and no program outlives a job that is over.
* **A request to the API** may fail before, while or after it is sent. Correct
  means: an error that invites a retry is given only for a request that will
  not be executed, and a cached answer is not older than promised.
* **A file patch** compares and replaces in several steps, in competition with
  other patches, plain writes, kills and crashes. Correct means: no patch
  undoes another unseen, and what was answered is on disk.
* **A promotion** copies a graph of manifests and blobs to a registry that
  others write to as well, and may fail at any request. Correct means: no tag
  ever points to something that cannot be pulled.

## Modules

```
RemoteJobLifecycle        what the host promises about a job
   ^ implemented by          ^ used as the remote half by
RemoteJobHost             RemoteJobs

ApprovalLedger            what one-time approvals promise
   ^ implemented by          ^ relied on by
Approvals                 InvocationKernel

RemoteJobSweep    ProgramJobs    MikrusClient    DockerPlans
CronProfiles      FilePatch      DigestPromotion

JobHelper_proofs          theorems about RemoteJobHost and RemoteJobSweep
Consent_proofs            theorems about Approvals and DockerPlans
HostFiles_proofs          theorems about FilePatch and CronProfiles
<Module>_proofs           theorems about the module so named
MC*                       values of the constants for TLC
```

A definition whose comment begins with "Fault:" is a plausible mistake in the
definition that follows it. No specification uses them; each is there to show
that the property it is paired with in `PROJECT.json` would notice the mistake.

### RemoteJobLifecycle

The abstract specification: per job the state another process can read in
`record.json` (`remote`) and how often the program was spawned (`launches`).
A job is accepted once, launched at most once (possibly after a cancellation,
when the worker had already claimed it), and its state only moves forward.

### RemoteJobHost

The helpers in `clients/ssh.py`, one action per stretch of code that other
processes cannot separate. `record[j]` is `record.json` (state, whether
`runtimeIdentity` is published, the `terminated` field); `starter`, `worker`
and `cancel` are program counters of the three helpers; `leader`, `tail`,
`killed` and `immune` describe the program's process group; `unread` is what a
cancel helper has listed of it and not read yet; `verdict` is what the worker
will write; `doomed` is the collector's decision before the removal. `slipped`
is history.

* The record lock is held over several steps only by a cancel helper, so it is
  free exactly when `cancel[j] = "none"`; the worker's critical sections are
  single steps guarded by `LockFree`. The start helper and the collector do not
  take it, in the code and in the model.
* Time is the age of the record: young, past the grace period, past retention.
  A record ages only while nothing but an unbounded wait is going on (the
  program runs, or nobody is left to act); steps that take seconds do not last
  as long as the grace period.
* Of the descendants it matters whether one holds the job's pipes and whether
  one has redirected them (`Kinds`). The worker's drain ends when nobody holds
  the pipes (`WorkerDrained`), which says nothing of the others.
* A cancel helper lists `/proc`, possibly not to its end (`CancelLists`), and
  then reads the listed processes one after the other (`CancelReports`), while
  the group forks, exits and is killed. `slipped` records that a member was left
  out of the listing, or was forked since.
* Before it waits for the program the worker writes its stdin (`WorkerFeeds`),
  which ends for certain only when nobody is left who could read it.
* A pid is not reused in the seconds between a cancel helper's identity check
  and its report. `shutil.rmtree` is one step. The collector's decision about
  one directory is modelled here, its way to that directory in
  `RemoteJobSweep`.
* `startTicks` is compared as one value; how the line of `/proc/<pid>/stat` is
  split into fields is not modelled.

### RemoteJobs

Server processes, their shared store and the SSH calls between them and the
host. A caller is one invocation; `call[c].step` is the await it is at. Every
store access is a transaction under the file lock, hence one step. `rpc[j]` is
the start request: it may be executed after its caller has given up, or never.
`HostProgress` is any step `RemoteJobLifecycle` allows, which is sound because
`RemoteJobHost` implements it.

* `create_or_reuse` prunes and inserts in two transactions, and a lookup prunes
  and loads in two; each pair is one step, as the second looks at keys,
  bindings and principals only, which pruning does not change.
* Job ids are random: a caller asks only for an id some start has replied with.
* `archived` counts terminal records of other keys; they matter only because
  the store is bounded.
* Retention is longer than any call or helper (`RetentionPasses`).
* There is one host per configured server.

### ApprovalLedger

The abstract specification of approvals: per approval whether it is `unissued`,
`good`, `lapsed` or `spent`, and how many calls were told that they consumed it.
Each step concerns one approval; a spent one never comes back. A race takes the
approvals it is about out of the ledger.

### Approvals

Processes with private copies of one file. An identity (device, inode, mtime,
size) names one version of the file, so the model keeps for each process only
whether the version it knows is the current one. Windows, from identity check to
stat, overlap as the code lets them, and a process may then consume what another
has consumed, undo what another has written, or take a file for its own that is
not. `exposed` is history: the approvals that a replacement has added or removed
while another process was in its window. The properties say what the registry
keeps for all other approvals, whatever races there were; of the exposed ones
the code promises nothing, as the observations show. `ApprovalLedger` has a step
for it, `Race`, which makes the standing of those approvals `"raced"`.

* `granted` counts to two, as more makes no difference.

### InvocationKernel

`InvocationKernel.invoke` for calls to one SSH target, together with
`TargetRegistry.get` and the adapter as the kernel sees it. A step is what
happens between two awaits. `call[c]` holds the invocation's locals: the client
it resolved, the lock object, the time left. `link` and `peer` describe the
connections the registry has made, `sent` and `consumed` are history.

* Calls begin after argument validation and scope checks, which keep no state.
* Approvals are atomic here, as in `ApprovalLedger`; `Approvals` is the model of
  their races and implements it.
* A capability that is made of several helper calls under one approval (docker
  and cron are) counts as one request. What its reading helpers add is a
  `TIMEOUT` of their own, before or after something has been changed
  (`clients/ssh.py:2783-2786`, `2728-2731`); `reply` calls it "helper timeout",
  to tell it from one that comes from the kernel.
* Which waiter gets a released lock is left open, a superset of asyncio's FIFO.
* A call that waits for the registry's connect lock has not begun: nothing
  happened yet and its deadline does not run.
* Everything due in a tick happens before the next tick (`Tick`).
* `AdapterBound <= Budget` is the assumption the comment at `kernel.py:38`
  makes: an adapter classifies its own timeout within the budget the kernel
  reserves. `remote_job_start`, which makes two helper calls in sequence, is
  the exception; its behaviour after a deadline is `Abandoned` in `RemoteJobs`.

### DockerPlans

`docker_recreate_plan` and `docker_recreate_apply` for one service of one
compose project. A caller is one invocation in any server process;
`call[c].step` is the await it is at. `compose`, `digest` and `live` are the
host: what the files define, what the tags name, and the container. A receipt
is a hash of its payload, so the model uses the payload. A container carries
its settings, its image, the files it was created from and a birth number that
tells it from its predecessors.

* The fields compared for equality are one value (`Cores`); the environment is
  a set, as settings the files do not mention are not compared. `ImageCores`
  are definitions that leave the command to the image: they differ from every
  container, because compose has no command to compare with.
* `docker ps` and `docker inspect` are one step. Files and tags are read in
  separate steps, and once more by `Recreated`.
* A helper whose caller has given up may execute later (`up = "sent"`); a
  failing `compose up` may have removed the old container, made the new one,
  or neither.
* A service may name no image (`named`): without an explicit `desired_image` it
  is refused, with one its image is looked up and bound by the receipt but not
  compared (`docker_ops.py:456`).
* Records expire at any time. A container's readiness is its own affair.
* `docker_runtime_snapshot` and `service_wait` change nothing and are left out.

### CronProfiles

`cron_upsert` and `cron_remove`, for one server process, one owner and one
host. `records` is the profile store, `crontab` the text of the host as a
sequence of marker lines, job lines and lines of others; a marker names the
content of its job, as the digest does. `call[c].request` is the install on its
way: it may be executed after its caller has given up. `EditedByHand` is
somebody with `crontab -e`, who adds a line anywhere, copies or deletes any.

* The kernel's lock is per capability and profile (`kernel_policy.py:479`), so
  an upsert and a removal of one profile interleave.
* Reading the crontab on the host and handling its answer is one step. An
  install compares the whole text under the host's lock, in one step.
* `torn` is history: an edit has separated, copied or deleted a line of a pair.
  From then on the code promises less (it calls such a profile `MODIFIED` or
  `DUPLICATED`), and so do `PairsStayWhole` and `RecordsMatchCrontab`.
  `ForeignLinesPreserved` goes on, with the one exception the code makes.
* The store's writes are transactions under its file lock. The write that
  completes a reconciliation is an insertion again if a removal has taken the
  record meanwhile, and may then find the store full
  (`cron_profiles.py:199-218`, called at `kernel_execution.py:622`). That takes
  more calls than `cron_profiles` has: with 4 calls, 2 profiles, 1 content, room
  for 1 record and no edits TLC reaches it and the properties hold; the theorems
  are about any number of calls.
* Two server processes on one store, and two owners with one profile id, are
  not modelled.

### RemoteJobSweep

`gc_operation`, one action per leaf directory or share of the root. `pass[h]`
holds a helper's locals (the leaf it has come to, its counters, the cursor file
it chose); `rotation`, `cursor` and `cookie` are the files the passes share,
`lock` the legacy segment's `flock`. `owed` is history: the legacy entries that
were there when the root was last read to its end and have not been read since.

* What makes a job due is `RemoteJobHost`'s subject; here it is due or not, and
  some cannot be removed.
* A directory yields what it has in a fixed order, so a directory is a sequence
  of names and what a walk sees of it is a set of positions. A cookie resumes
  after the entry it names (the code tolerates one entry more or less).
* The cursor of a shard never meets the levels above the leaves: eviction of
  stray files there, and the caps of those scans, are left out, and so is the
  bound of the rotation counter (2e9).
* `Accessible` says of an entry that the sweep gets to it: no leaf of its shard
  has as many survivors as a pass visits, a pass can read as far as its leaf,
  and entries that cannot be removed are fewer than the removal budget.
  `StaleIsCollected` is about entries that stay so; the observations say what
  becomes of the others, and the instance has some.

### ProgramJobs

`ProgramJobRegistry`, the task that runs each job through `execute_program` and
`_collect_process`, and the helper on the host. `job[j].at` is the await the
task is suspended in, `requested` a cancellation not yet delivered, `why` what
made it terminate its process; `kept` is the job's place in `_jobs`; `host[j]`
is the helper, the program and a SIGTERM on its way. `told` is history.

* Sections under the registry's lock await nothing; a step is what happens
  between two awaits. Binding a job and cancelling it are two steps of one
  call, as in the kernel.
* All jobs share a connection that may be lost and is not restored.

### MikrusClient

`MikrusClient._request` with the limiter and the cache of one endpoint, and the
API as a number that mutations and the server itself increase. A request may be
executed after its caller has given up. Time is in ticks; `age` is history: how
long the stalest value returned had been untrue.

* Endpoints that are not cached behave like a read that finds no entry.
* The kernel's deadline ends each call; everything due in a tick happens in it.
* The server answers with any status whether it has executed the request or
  not, but for a 200, which it gives to what it has executed. The client takes
  every status other than 200 and 5xx for a refusal; `denied` is history, the
  mutations that were executed and answered so.
* A command sent to `/exec` may be reported to have failed (`CommandFails`).

### FilePatch

The helpers of `file_patch_atomic` and `write_file`, step by step. `log[f]` is
the past of a file, `durable[f]` the length of it that no crash undoes, `temp`
the temporary file of a call. `Killed` ends a helper without its `finally`
blocks; `HostCrashes` keeps any version from the last synchronised one on and
loses the bytes that were not synchronised.

### DigestPromotion

`promote_digest.py` as the release workflow runs it: a promotion, then
`--verify-only`. `stack[r]` is the chain of `_copy_manifest` calls with what
each has left to do, `present` and `copied` are its two caches, `late` the PUTs
whose answers were lost. The production registry is a store that checks
nothing and deletes nothing.

* A manifest's references are `Refs`; which of them the code follows depends on
  the media type the source declares. `TruthfulLabels` says it declares the
  right one; see the observations for what happens otherwise.
* Authentication, redirects and retries inside one request are part of the
  request.

## Runs

| Run | Instance | What it shows |
|---|---|---|
| `remote_job_host` | 1 job | all properties of the host and that it implements `RemoteJobLifecycle` |
| `job_sweep` | 2 helpers, 2 shards, 4 leaves, 3 legacy entries, 7 jobs of which 4 are due at once, one of them stuck, and 1 later, budgets of 2 removals, 2 visits and 4 reads, 1 fault | what falls due is removed, legacy entries are not passed over |
| `remote_jobs` | 3 callers, 2 principals, 1 key, 2 bindings, 2 job ids, room for 2 records | idempotency, capacity, and what the store may say |
| `approvals` | 2 servers, 1 operator run, 3 tokens, 1 binding, capacity 2 | outside races consumed once and copies right, and that it implements `ApprovalLedger` |
| `kernel` | 2 mutations and a read on 1 resource, 2 connections, 1 host key, deadlines up to 2, budget 2 | exclusion, one request per approval, meaning of timeouts, every call ends |
| `docker_plans` | 2 calls, 4 definitions, one of them without an image, 2 tags, 2 digests, 2 file sets, room for 1 plan, 1 receipt, 1 change by others | what is recreated, and what the replies mean |
| `cron_profiles` | 3 calls, 2 profiles, 2 contents, room for 1 record, 1 edit by hand | record and crontab agree, pairs and foreign lines survive |
| `cron_crossed` | 3 calls, 1 profile, no edits | the finding below |
| `program_jobs` | 2 jobs, room for 1, 1 caller | told states stay true, no program is left, cancellations end |
| `mikrus_client` | 2 reads, 1 mutation, lifetime 2, deadline 2, 6 ticks, 3 server states | definite errors are definite, staleness is bounded |
| `file_patch` | 3 patches, 1 write, 2 files, 1 crash | patches are serial, answers durable |
| `digest_promotion` | 3 publications of an index, one of its images and an artifact; 4 manifests, 3 blobs, 3 tags | tags can always be pulled, published means tagged |

Why these bounds are enough to be interesting. Jobs share nothing on the host
(`JobsAreIndependent` is proved), so one job gives every interleaving. Three
callers are the smallest number with a start, a competing start or retry, and a
lookup or cancel; two job ids and two records allow a wrongly reused key and a
full store. Two servers and an operator are three windows that can overlap: two
servers race for one approval while a third is issued, and approvals next to the
race are seen to be safe; the third token makes the capacity of two bind, and
tokens of one binding are what calls can confuse. In the kernel the second
mutation needs the lock, and the read is what replaces the connection; with two
connections the client a mutation resolved can be closed under it. Deadlines are
the budget, or too short for it from the start. `MaxAttempts` 2 gives one retry.
Two docker calls are a plan and an apply, or two applies of one receipt whose
`compose up` cross; one change by others at any moment is what makes a plan
stale, and two definitions, tags and file sets let it be the definition, the
image or the files. Three cron calls are two competing updates after, or during,
a removal; two profiles fill a store for one, and the second is a bystander in
the crontab; one edit tears a pair. Two passes of the collector overlap
everywhere. Due jobs lie in the second leaf of the first shard beside one that
cannot be removed, in the first leaf of the second shard, and at the end of the
root; each takes several passes. The first leaf is held up for as long as both
its jobs are in use, and the second shard has more entries than one pass may
read. One place for two program jobs makes the second wait for expiry or the end
of the first, whose task may go on unseen. Two reads are one that fills the
cache and one that uses or overwrites it, around a mutation; six ticks are three
lifetimes. Two patches of one file compete, the third waits for a lock it does
not need, and the write takes none. The publications share a blob, a child and a
tag, which is every way in which they can meet.

The kernel's instance has one host key, so an approval that is bound to another
identity of the host does not occur in it; the theorems about the module hold
for any number of keys.

Symmetry is used in safety runs only, over interchangeable values.
`CHECK_DEADLOCK FALSE` is set because a job, a set of calls or a set of tokens
is used up: these systems do stop, and what must still happen before that is
stated as liveness.

### Properties

`RemoteJobHost`: `HonestTermination` (a reply "terminated" stays true),
`OutcomeFrozen`, `CollectionSparesLiveJobs`, `CancelledGroupDies` and
`ExitIsRecorded` (liveness), `ImplementsLifecycle` (refinement).
`RemoteJobSweep`: `StaleIsCollected` (liveness), `LegacySweepIsComplete`, and
the bounds of a pass in `SweepTypeOK`. `RemoteJobs`: `OneLaunchPerKey`,
`LocalFollowsRemote`, `AnsweredStartIsKnown`, `RecordsArePermanent`; the type
invariant carries the store's bound. `Approvals`: `ConsumedOnce`, `CopyIsFile`,
`ImplementsLedger` (refinement, of which `IssuedSurvives` is a consequence).
`InvocationKernel`: `OneMutationPerResource`, `OneRequestPerApproval`,
`TimeoutMeansUntouched`, `EveryCallEnds` (liveness); the type invariant says
that at most one connection is open. `DockerPlans`: `RecreateFollowsPlan` (what
is created has the planned definition, image and files),
`AlreadyAppliedMatchesPlan`, `RefusedMeansUntouched`; `PlanTypeOK` carries the
store's bound and the uniqueness of receipts. `CronProfiles`: `PairsStayWhole`,
`RecordsMatchCrontab`, `ForeignLinesPreserved`. `ProgramJobs`:
`AnswersStayTrue`, `NoProgramIsLeft`, `CancellationEnds` (liveness).
`MikrusClient`: `DefiniteMeansUntouched`, `StalenessIsBounded`. `FilePatch`:
`PatchesAreSerial`, `AnsweredIsDurable`. `DigestPromotion`: `TagsAreComplete`,
`PublishedMeansTagged`. Each is stated in words above its definition.

### Fairness

* `RemoteJobHost`: strong fairness of a live worker, because it waits for a
  `flock` that other processes take and release; weak fairness of a cancel
  helper, whose waits have deadlines of their own, and of the effect of a
  delivered SIGKILL on each kind of process. A write to stdin ends when nobody
  holds the other end. A program is never assumed to exit or to read by itself,
  a collector never to run.
* `InvocationKernel`: weak fairness of connection attempts (bounded by
  `connect_timeout`), of a call that may take the lock, of timeouts and cleanup
  (bounded waits), of an adapter's own timeout, and of time. No adapter is
  assumed to answer and no connection to stay up.
* `RemoteJobSweep`: weak fairness of every helper, written as infinitely many
  steps of each, which is the same because a helper always has a next one. A
  helper at work is a running process; that it begins again stands for jobs that
  keep being started, each of which begins a pass
  (`kernel_execution.py:410-419`). Without further job starts nothing is
  collected, in the code and in the model.
* `ProgramJobs`: weak fairness of a job's task, of a caller and of `close`: the
  event loop runs what is ready, and a process being collected is given up at
  its deadline. Nothing is promised of the host, of the connection, or of
  `create_process` and `drain`, which have no timeout.

## Findings

`cron_crossed`: `cron_remove` empties the crontab and deletes the record in two
steps, and its lock does not exclude `cron_upsert`. An upsert that reads the
crontab in between installs its job, replies `IN_SYNC`, and loses its record to
the removal: `cron_list` does not report the job and `cron_remove` cannot remove
it. `README.md:184` says `cron_list` reports the owned profiles with their
installed state, `README.md:381-382` that mikrus-mcp writers never interleave.

Observations without a run of their own. Each can be reproduced by the change
of a constant or of one line that is named here.

Jobs on the host:

* `group_has_live_process` lists `/proc` once, gives up after 4096 entries
  (`clients/ssh.py:1359`) and reads the others one by one. A member that is not
  in the listing, or that forks a successor and exits while the rest is read, is
  missed: `terminated` is true while a member runs, where `README.md:267-269`
  calls the field honest. TLC shows `HonestTermination` violated as soon as
  `~slipped` is taken out of it.
* A descendant that has redirected its output and ignores SIGTERM survives a
  cancellation whose leader dies of it: the drain ends without it, and neither
  the worker (`clients/ssh.py:1573-1591`) nor the cancel helper (1377) sends
  SIGKILL. The reply then says `terminated` false. `CancelledGroupDies` is
  therefore about what holds the pipes.
* A program that exits and leaves a descendant with the other end of its stdin,
  which never reads, keeps the worker in its write (`clients/ssh.py:1547-1558`):
  the exit is not recorded, and a cancellation finds no leader to signal.
  `ExitIsRecorded` begins after the write, or when nobody holds the pipe.
* `mark_lost` raises when another invocation has already recorded a terminal
  state (`MarkedLost` in `RemoteJobs`); the caller gets `INTERNAL_ERROR`, where
  `README.md:270-271` promises `AMBIGUOUS_OUTCOME`.
* The sweep: a leaf with exactly as many survivors as a pass visits, or a
  multiple of it, is replayed for ever (`clients/ssh.py:669-680`), and what lies
  behind it is not collected, against `README.md:307-312`. When the reads of a
  pass run out within a leaf, the buckets behind it are tried in vain and the
  cursor may be deleted, so that the next pass begins anew. As many entries that
  cannot be removed as the removal budget allows starve those behind them. With
  leaves chosen by a hash all of it takes very many jobs. The instance of
  `job_sweep` can get into the first two: without `Accessible` in it TLC shows
  `StaleIsCollected` violated. Ordinals count entries removed meanwhile, so some
  entries wait for the next round.

Approvals and the kernel:

* Two server processes can consume the same approval, where `README.md:492`
  says approvals are consumed once: both find the identity unchanged, and each
  replaces the file (`approvals.py:251-253`). An issue and a consumption that
  overlap likewise undo each other, and a process whose stat sees another's file
  (254) goes on with a wrong copy of it. Without `\ exposed` in `ConsumedOnce`
  TLC shows the double grant in 12 states. What the run and the theorems show is
  that the damage is confined to the approvals that are added or removed in such
  an overlap.
* A mutation that waited for its lock while another call replaced the connection
  consumes its approval and then fails with `UNAVAILABLE`
  (`kernel.py:292`); `docs/architecture.md:79` says a target connection failure
  does not consume an approval.
* A `TIMEOUT` does not mean that nothing has happened when it comes from a
  reading helper of a composite mutation: the approval has been consumed, and
  after `compose up` the container has been recreated, as the text of the error
  then says (`kernel_execution.py:548,609,648,741,791,819-825`).
  `TimeoutMeansUntouched` is about the kernel's own.

Docker and cron:

* An explicit `desired_image` is looked up, compared and bound by the receipt,
  but `docker compose up` gets project, files and service only
  (`kernel_execution.py:783`). The container then runs the image of the compose
  file, and the reply is `APPLIED` with `post_verified` true.
  `README.md:401-402` says apply derives every desired-state input from the
  stored record.
* For a service that names no image the digest is not compared
  (`docker_ops.py:456`): with an explicit `desired_image` an apply answers
  `ALREADY_APPLIED` although the container runs another image than the receipt
  binds. `AlreadyAppliedMatchesPlan` leaves out that comparison, and nothing
  else.
* Every difference from the compose files counts as runtime-only drift, also a
  change of the files that is yet to be applied, so without
  `allow_runtime_drift` an apply never recreates anything. Environment and label
  keys that only the container has are not reported at all, unlike
  `README.md:406-411` suggests.
* `_remove_pair_unlocked` drops the line after a marker whatever it is. Once
  somebody has torn a pair so that a foreign line stands behind its marker, the
  next update or removal of the profile deletes that line, against
  `README.md:378-379` (`cron_profiles.py:338-341`). TLC shows it when the second
  disjunct of `ForeignLinesPreserved` is left out.
* When the crontab cannot be read during the reconciliation of an ambiguous
  install, the reply is that of a harmless failed read, and nothing is rolled
  back (`ReadFails`). A late install after a rollback, or a removal whose answer
  was lost, leaves a job without record or a record `cron_remove` cannot delete.

Program jobs:

* An expired job that a lookup pops from the registry leaves its task running
  (`jobs.py:149-155`), while one that `_purge_expired` removes is cancelled.
  Jobs submitted while `close` waits are dropped without being cancelled.
* A SIGTERM between `Popen` and `signal.signal` in the helper leaves the
  program running, and a cancellation while the request is being written sends
  no signal at all: the helper may start the program after the job was
  `cancelled`. `NoProgramIsLeft` leaves out the first, and the second is why it
  speaks of tasks whose helper has begun.
* A connection lost while a program runs makes the job `failed`, not ambiguous.
* A second cancellation of the task in the very tick in which one of its readers
  has raised is swallowed by `gather`; the model has no such tick.

API client and files:

* The cache is not invalidated by mutations, and an entry is dated by its
  arrival, so an older response can overwrite a newer one;
  `StalenessIsBounded` states what remains true.
* An executed mutation that the server answers with 201, 204 or a redirect is
  reported as `UPSTREAM_REJECTED` (`clients/mikrus.py:260-280`), the error of a
  request that was turned away; `DefiniteMeansUntouched` names these (`denied`).
  A command that is reported to have failed is `UPSTREAM`
  (`clients/mikrus.py:346-364`) whatever it did before.
* A garbled answer to a mutation that was executed is `UPSTREAM_PROTOCOL`, not
  ambiguous. The limiter is called credential-scoped (`clients/common.py:116`)
  and is per client.
* `README.md:386-390` calls the compare-and-swap atomic across every mikrus-mcp
  writer on the host, but `write_file` does not take `cas.lock`: a write between
  a patch's comparison and its replacement is lost without notice.
  `PatchesAreSerial` therefore speaks of patches.
* When the fsync of the directory fails after the rename, the reply is
  `WRITE_FAILED` although the file has been replaced. A killed helper leaves its
  temporary file behind.

Promotion:

* The media type comes from the source's `Content-Type`, not from the verified
  bytes: an index served as an image manifest is stored without its children
  (`TruthfulLabels = FALSE` violates `TagsAreComplete`). An image with a
  `subject` is never promoted, as the subject is looked up as a blob.

## Proofs

For each module an inductive invariant is proved (`IInv`; `SweepInv`, `PlanInv`
and `CronInv` where a file holds the proofs of two modules), and from it what is
listed below, for every value of the constants that the assumptions named here
allow. The pattern is the same: the initial states satisfy the invariant; each
named part of it is kept by each action that can disturb it; a last lemma
collects the steps. Every safety property of the runs is a theorem, and so are
both refinements and every type invariant.

`JobHelper_proofs`, first about `RemoteJobHost`, for any set of jobs:

* `InvariantHolds`: `IInv` ties `record.json` to the progress of the processes
  around it, in nine named parts. None of the checked properties is inductive
  alone: that a job's outcome is final, for instance, depends on the worker
  being done once an outcome is recorded, which depends on who may hold the lock
  with which state, and that the collector never sees an unpublished worker
  depends on the ages of records.
* `TypeCorrect`; it needs `OutcomeIsFinal`, because a worker that finished
  without a verdict would write an unknown state.
* `TerminationIsHonest`: as long as nobody slips through the listing, every
  living member is among those still to be read (`StillToRead`).
* `OutcomesAreFrozen` and `LiveJobsAreSpared`, from `RecordMoves`, the list of
  the nine things a step can do to a record.
* `HostImplementsLifecycle`: every step of the host is a step of
  `RemoteJobLifecycle` or a stutter. `RemoteJobs` relies on this.

An action on one job leaves the others alone (`JobsAreIndependent`), so the
invariant is shown for one job at a time.

Then about `RemoteJobSweep`, for any helpers, shards, leaves, entries and
budgets under `SweepAssumption`:

* `SweepInvariantHolds`: the legacy lock is held exactly by the helper that
  reads the root (`LockHeld`); a walk stays among the leaves of its shard and
  counts no more than it has read (`Walks`); of the two cookie files one is in
  use at a time (`OneFile`); nothing unread is left behind a cookie
  (`ReadUpTo`); what is owed is still there (`OwedIsFlat`). `OneFile` is what
  makes `ReadUpTo` inductive: a helper that found the canonical cookie damaged
  goes by the recovery file, and must not meet another that trusts the first.
* `LegacySweepSafe`: whenever a pass comes to the end of the root, every legacy
  entry that is still there and was there at the last such end has been read in
  between.
* `SweepTypeCorrect`: no pass exceeds its budgets, and a cursor names a leaf of
  its shard.

What a pass reads is the first few positions of a set, so the lemmas about
`First` need least and greatest elements; they come from the well-foundedness
of `<` on the naturals, not from induction.

`HostFiles_proofs`, first about `FilePatch`, for any calls, files and bounds
under `FilePatchAssumption`:

* `InvariantHolds`: `IInv` says that the lock is held exactly by the one patch
  between its comparison and its release, that what that patch has compared is
  the last version but for writes made since, and that a caller who was told of
  a success points to a version no crash can remove.
* `PatchesSerial` follows from the lock and the comparison, `WholeFiles` from
  the order of fsync and rename, `DurableAnswers` from the answer being given
  only after the directory is synced. The type invariant is `TypeCorrect`.

Then about `CronProfiles`, for any calls, profiles, contents and bounds under
the module's assumptions:

* `CronInvariantHolds`: a call carries what its step needs (`Formed`); of two
  calls of one operation on one profile one has ended (`Exclusive`, the kernel's
  lock); and, until a pair is torn by hand, pairs are whole (`Whole`), and
  unless a call on the profile ended without a definite answer, record and
  crontab are `Agreed`: they say the same while nobody writes (`Stands`), a
  writer's record is its candidate, and the record it would restore on a
  rollback agrees with the crontab until its install is executed (`WriterInv`),
  and an install that arrives after its answer changes nothing (`LateInv`). The
  exception in `Stands` for removals is the finding above.
* `RecordsMatchSafe`, `PairsSafe` and `CronTypesCorrect` follow.
* `ForeignLinesSafe`: no install, executed in time or late, drops, adds or
  reorders a line of others, except one behind a marker of the profile after a
  pair has been torn. A line is compared together with its place among the lines
  of others, which needs no recursive filter. An install replaces the text it
  was computed from, and in that text the line behind a marker is its job as
  long as pairs are `Whole`.

`DigestPromotion_proofs`, for any publications and any graph of manifests under
the module's assumptions and `TruthfulLabels`, without which TLC finds a
counterexample:

* `InvariantHolds`: whatever a publication has put, may still put, or believes
  to be there refers only to what production holds. The hard part is a `PUT`
  whose client gave up: it may still arrive after everything else is over.
* `TagsComplete`, `PublishedTagged` and `TypeCorrect` follow.

`MikrusClient_proofs`, for any calls and any constants under `MikrusAssumption`:

* `InvariantHolds`: a mutation whose outcome is definite has no request left,
  and one the server has executed has none on its way and no refusal as its
  answer unless it is among the `denied`; a value was true when the call that
  asked for it began, and stays so dated in the cache.
* `DefiniteUntouched`, `StalenessBounded` and `TypeCorrect` follow.

`InvocationKernel_proofs`, for any calls, resources, identities, connections,
deadlines and budgets under `KernelAssumption`:

* Every step of a call is first shown to be one of nine `Moves`, stated without
  the nesting of the code's calls; the rest is about moves.
* `InvariantHolds`: the calls of one resource that refer to a lock refer to the
  same one (the code keeps it in a weak dictionary, so it goes and comes back
  with its users), a lock stays named after a call that makes no other, it has
  at most one holder, a call that is connecting does so while the registry has
  no client, and a call's step, requests and approval belong together.
  `OneMutationPerResource` alone is not inductive: it says nothing of the calls
  that wait for the lock or are about to look it up.
* `MutationsExclude`, `RequestsApproved`, `TimeoutsUntouched` and `TypeCorrect`
  follow.

`Consent_proofs`, first about `Approvals`, for any processes, tokens, bindings
and capacity, and for windows that overlap in any way:

* `InvariantHolds`: a version of the file that a process has prepared, and that
  would still replace the one it was made from, drops only what has expired or
  is being consumed and brings nothing back; a version that has been written is
  the file until the process has looked; a copy with a matching stat is the
  file; a token is granted once it has left the file for good; and two processes
  that have removed the same approval have exposed it (`Apart`). Each of it
  holds but for what is `exposed`, which is why a race does not spread: a
  replacement made from a wrong copy changes, besides its own approval, only
  what is exposed already.
* `TokensConsumedOnce`, `CopiesAreRight`, `IssuesSurvive` and `TypeCorrect`
  follow.
* `ApprovalsAreLedger`: every step of the processes is a step of
  `ApprovalLedger` or a stutter; a replacement inside another's window is its
  `Race`. What the standing of an approval is depends on the file first, so an
  approval that came back outside a race would be seen.

Then about `DockerPlans`, for any calls, definitions, tags, digests, file sets
and bounds under the module's assumptions:

* `PlanInvariantHolds`: a call that has not asked compose for anything has made
  nothing and one that has does not answer with a refusal (`Untouched`); it
  knows what its later steps rely on (`Informed`); as long as nobody has changed
  files or tags since, they say what it has read, and once compose is to run,
  what the receipt binds (`Reads`); what was made or found is what was planned
  (`Follows`). `RecreateFollowsPlan` alone is not inductive, as it says nothing
  of the time between the comparison and `docker compose up`.
* `RecreateSafe`, `AlreadyAppliedSafe`, `RefusalSafe` and `PlanTypesCorrect`
  follow.

`RemoteJobs_proofs`, for any callers, jobs, principals, servers, keys, bindings
and bound of the store, under `RecordAssumption` and the other assumptions of
the module:

* `InvariantHolds`: the keys of the store are unique; nothing happens on the
  host for a job the store does not know, and it launches at most once; a job
  has one starter, the only call that may write it off as lost; what a call is
  about to record is something the host has shown.
* `LaunchedOnce`, `LocalStatesWereShown`, `AnsweredStartsKnown`,
  `RecordsPermanent` and `TypeCorrect` follow.

`ProgramJobs_proofs`, for any number of jobs, any callers and any capacity under
`ProgramJobsAssumption`:

* `InvariantHolds`: a job that reads as cancelled while its task is still
  suspended has a cancellation pending or is ending its process because of one,
  so the task cannot end otherwise; a job whose task ends without having begun
  is one nobody can ask about, unless the server is closing; and once a process
  is to be ended, a signal is on its way to any helper that may still start or
  end the program.
* `AnswersTrue`, `NoProgramLeft` and `TypeCorrect` follow.

Only model-checked are liveness under fairness (`CancelledGroupDies`,
`ExitIsRecorded`, `StaleIsCollected`, `EveryCallEnds`, `CancellationEnds`) and
everything about `ENABLED`, which are beyond the prover; and that the crontab's
jobs are all listed, which is false (`JobsAreListed`, below "Findings"). No
theorem speaks of data computed by recursion: the folds that would need
induction do not occur in the modules.

## Plan

Done: the abstract job and the host that implements it, the sweep of the
collector, the job store and its callers, the approval registry, the kernel's
path of a call, docker plans, cron profiles, program jobs, the API client, the
file patch, the release promoter, and the proofs above. What would come next:

1. A patched file as a register with compare-and-swap, which `FilePatch`
   implements as far as there are no plain writes.
2. Target identities that change under durable jobs: two host keys in the
   kernel's instance, and lookups by a client whose identity is another one.
3. Two owners of one profile id in `CronProfiles`, and a late install after a
   rollback.

There is one run per module that passes, and one for the finding.

## Not modelled

* HTTP transport, tool wrappers, configuration, validation, sanitising,
  provenance and the individual read commands have no state that later steps
  depend on: each is a function of its input, and what they let through is the
  set of inputs the models begin with.
* Output capture and pagination are left out of the job models: no property is
  about the bytes of an output, only about who may write and remove it.
* SSH and HTTP as protocols: a command or a request arrives once, late or never,
  and its answer likewise. Docker, cron, `systemd`, the registries and the
  mikr.us server are modelled from how the code uses them.
* Build, lint and release scripts other than `promote_digest.py` run to the end
  or fail, keep no state and compete with nobody.
* Durations are ticks, sizes are units, and identifiers are model values; that
  two random identifiers or two digests never collide is assumed.
