-------------------------- MODULE RemoteJobSweep ---------------------------
(***************************************************************************)
(* The collector's resumable sweep (gc_operation in the job helper).  A    *)
(* pass is one helper process: it takes the next shard of a rotation,      *)
(* walks that shard's leaf directories from a stored cursor, then goes on  *)
(* through the flat directories of the previous layout from a stored       *)
(* cookie, and stores both again.  A pass does a bounded amount of work;   *)
(* what it leaves is for the passes that follow the next job starts.       *)
(*                                                                         *)
(* Passes overlap, since every start on the host begins one, and share the *)
(* rotation and the cursors without a lock; only the legacy segment has    *)
(* one.  A helper can be killed between any two steps.  What is removed is *)
(* the subject of RemoteJobHost; here a job is merely due or not.          *)
(*                                                                         *)
(* A directory yields the entries it has in a fixed order; one leaf, and   *)
(* one share of the root, is read in one step.  The levels above the       *)
(* leaves hold nothing but buckets; the 256 x 256 leaves of a shard are    *)
(* those that exist.                                                       *)
(***************************************************************************)
EXTENDS Integers, Sequences, FiniteSets, FiniteSetsExt

CONSTANTS
    Helpers,        \* helper processes that may run at once
    Shards,         \* shards, in the order of the rotation
    Leaves,         \* Leaves[s]: leaf directories of s in (b, c) order
    Bucket,         \* Bucket[l]: the directory b<x> that l is in
    Content,        \* Content[l]: what may be in l, in readdir order
    Legacy,         \* what may be in the root, in readdir order
    Entries,        \* all of these
    New,            \* those created while the collector is at work
    Junk,           \* those whose names are not job ids of their shard
    Ageing,         \* jobs that may fall due; the others stay in use
    Overdue,        \* jobs that are due from the beginning
    Stuck,          \* jobs that cannot be removed
    RemovalBudget,  \* max_entries
    VisitBudget,    \* max(64, 4 * max_entries), also of raw legacy entries
    IterBudget,     \* max(VisitBudget, 4096)
    MaxFaults,      \* bound: helpers that are killed, roots that cannot be
                    \* read, files that cannot be replaced, odd things at
                    \* the path of the cookie
    Odd,            \* a thing at the path of the cookie that is no file
    None            \* no cursor, no cookie, no holder

Files == {"canonical", "recovery"}

ASSUME SweepAssumption ==
    /\ Shards \in Seq(DOMAIN Leaves) \ {<<>>}
    /\ DOMAIN Leaves = {Shards[i] : i \in DOMAIN Shards}
    /\ \A s \in DOMAIN Leaves : Leaves[s] \in Seq(DOMAIN Content)
    /\ \A l \in DOMAIN Content : Content[l] \in Seq(Entries)
    /\ Legacy \in Seq(Entries)
    /\ Junk \cup Overdue \cup Stuck \cup New \cup Ageing \subseteq Entries
    /\ \A n \in {RemovalBudget, VisitBudget, IterBudget} : n \in Nat \ {0}
    /\ RemovalBudget <= VisitBudget /\ VisitBudget <= IterBudget
    /\ MaxFaults \in Nat
    /\ Odd # None
    /\ {Odd, None} \cap (1 .. Len(Legacy)) = {}
    /\ None \notin DOMAIN Leaves \cup Helpers \cup Files

VARIABLES
    entry,      \* entry[e]: what e is
    rotation,   \* .gc-rotation, modulo the number of shards
    cursor,     \* cursor[s]: .gc-cursor-<s>
    cookie,     \* cookie[f]: the last legacy entry consumed, per cursor file
    lock,       \* holder of .gc-legacy-cursor.lock
    pass,       \* pass[h]: the pass of helper h
    owed,       \* history: legacy entries that were there at the last end
                \* of file and have not been read since
    faults      \* those that have happened

sweepVars == <<entry, rotation, cursor, cookie, lock, pass, owed, faults>>
shared == <<rotation, cursor, cookie, lock, owed>>

Shard == DOMAIN Leaves

Idle == [step |-> "idle", shard |-> None, at |-> 0, skip |-> 0, consumed |-> 0,
         visited |-> 0, scanned |-> 0, iters |-> 0, file |-> None]

(* at: the leaf the walk has come to, one past the last when it is over.   *)
Pass == [step : {"idle", "rotate", "load", "leaf", "legacy", "raw", "store"},
         shard : Shard \cup {None}, at : Nat,
         skip : 0 .. IterBudget, consumed : 0 .. IterBudget,
         visited : 0 .. VisitBudget, scanned : 0 .. RemovalBudget,
         iters : 0 .. IterBudget, file : Files \cup {None}]

(* The bounds of a pass are in the types of its counters; a cursor names a *)
(* leaf of its own shard.                                                  *)
SweepTypeOK ==
    /\ entry \in [Entries -> {"absent", "kept", "due", "gone"}]
    /\ rotation \in 1 .. Len(Shards)
    /\ cursor \in [Shard -> [at : Nat, o : 0 .. IterBudget] \cup {None}]
    /\ \A s \in Shard : cursor[s] # None => cursor[s].at \in DOMAIN Leaves[s]
    /\ cookie \in [Files -> 1 .. Len(Legacy) \cup {Odd, None}]
    /\ lock \in Helpers \cup {None}
    /\ pass \in [Helpers -> Pass]
    /\ owed \in SUBSET Entries
    /\ faults \in 0 .. MaxFaults

Flat == {Legacy[i] : i \in DOMAIN Legacy}

SweepInit ==
    /\ entry = [e \in Entries |-> IF e \in New THEN "absent"
                                   ELSE IF e \in Overdue THEN "due" ELSE "kept"]
    /\ rotation = 1
    /\ cursor = [s \in Shard |-> None]
    /\ cookie = [f \in Files |-> None]
    /\ lock = None
    /\ pass = [h \in Helpers |-> Idle]
    /\ owed = Flat \ New
    /\ faults = 0

-----------------------------------------------------------------------------
(* What a pass does to an entry.                                           *)

There(e) == entry[e] \in {"kept", "due"}

Due(e) == entry[e] = "due"

IsJob(e) == e \notin Junk

(* The positions of the entries that a directory yields.                   *)
Present(dir) == {i \in DOMAIN dir : There(dir[i])}

(* The first n of the positions is.                                        *)
First(n, is) == {i \in is : Cardinality({j \in is : j <= i}) <= n}

(* process_managed_job and discard, for the jobs at the positions is: those *)
(* that are due are removed until this pass has tried often enough; a      *)
(* failed removal counts.                                                  *)
Tried(h, dir, is) ==
    First(RemovalBudget - pass[h].scanned, {i \in is : Due(dir[i])})

Process(h, dir, is) ==
    LET removed == {dir[i] : i \in Tried(h, dir, is)} \ Stuck
    IN  entry' = [e \in Entries |-> IF e \in removed THEN "gone" ELSE entry[e]]

-----------------------------------------------------------------------------
(* The beginning of a pass.                                                *)

(* The counter is read ...                                                 *)
Begin(h) ==
    /\ pass[h].step = "idle"
    /\ pass' = [pass EXCEPT ![h].step = "rotate", ![h].shard = Shards[rotation]]
    /\ UNCHANGED <<entry, shared, faults>>

(* Fault: the counter runs past the last shard.                            *)
NextShardUnbounded(i) == i + 1

NextShard(i) == (i % Len(Shards)) + 1

(* ... and replaced by its successor, in a step of its own.                *)
Rotate(h) ==
    /\ pass[h].step = "rotate"
    /\ \E i \in 1 .. Len(Shards) :
         /\ Shards[i] = pass[h].shard
         /\ rotation' = NextShard(i)
    /\ pass' = [pass EXCEPT ![h].step = "load"]
    /\ UNCHANGED <<entry, cursor, cookie, lock, owed, faults>>

(* The counter cannot be replaced; the pass goes on all the same.          *)
RotateFails(h) ==
    /\ pass[h].step = "rotate"
    /\ faults < MaxFaults
    /\ faults' = faults + 1
    /\ pass' = [pass EXCEPT ![h].step = "load"]
    /\ UNCHANGED <<entry, shared>>

(* The cursor is read and the buckets from there on are listed.            *)
LoadCursor(h) ==
    LET c == cursor[pass[h].shard]
    IN  /\ pass[h].step = "load"
        /\ pass' = [pass EXCEPT ![h].step = "leaf", ![h].iters = IterBudget,
                                ![h].at = IF c = None THEN 1 ELSE c.at,
                                ![h].skip = IF c = None THEN 0 ELSE c.o]
        /\ UNCHANGED <<entry, shared, faults>>

-----------------------------------------------------------------------------
(* The walk through the leaves.                                            *)

Walk(h) == Leaves[pass[h].shard]

AtLeaf(h) == pass[h].step = "leaf" /\ pass[h].at \in DOMAIN Walk(h)

Here(h) == Walk(h)[pass[h].at]

Listing(h) == Present(Content[Here(h)])

(* The jobs among the first k entries that no earlier pass has consumed.   *)
NewJobs(h, k) ==
    {i \in First(k, Listing(h)) \ First(pass[h].skip, Listing(h)) :
        IsJob(Content[Here(h)][i])}

(* The pass gets past k entries of the leaf: each of them costs a read,    *)
(* and each new job a visit.                                               *)
Affords(h, k) ==
    /\ k <= Cardinality(Listing(h))
    /\ k <= pass[h].iters
    /\ Cardinality(NewJobs(h, k)) <= VisitBudget - pass[h].visited

(* ... and not past another one.                                           *)
Reaches(h, k) == Affords(h, k) /\ ~Affords(h, k + 1)

Visited(h, k) == pass[h].visited + Cardinality(NewJobs(h, k))

Scanned(h, k) ==
    pass[h].scanned + Cardinality(Tried(h, Content[Here(h)], NewJobs(h, k)))

(* The walk stops; its other counters matter no more.                      *)
Stopped(p, consumed, scanned) ==
    [p EXCEPT !.step = "legacy", !.skip = 0, !.consumed = consumed,
              !.visited = 0, !.scanned = scanned, !.iters = 0]

LeafIsRead(h, k) == k = Cardinality(Listing(h))

ProcessLeaf(h, k) ==
    /\ Process(h, Content[Here(h)], NewJobs(h, k))
    /\ UNCHANGED <<shared, faults>>

(* The leaf is done and there are visits left: on to the next one.         *)
LeafDone(h, k) ==
    /\ AtLeaf(h) /\ Reaches(h, k)
    /\ LeafIsRead(h, k)
    /\ Visited(h, k) < VisitBudget
    /\ ProcessLeaf(h, k)
    /\ pass' = [pass EXCEPT ![h] =
                  [@ EXCEPT !.at = pass[h].at + 1, !.skip = 0, !.consumed = 0,
                            !.visited = Visited(h, k),
                            !.scanned = Scanned(h, k),
                            !.iters = pass[h].iters - k]]

(* The leaf is done and so are the visits: the cursor stays at this leaf,  *)
(* and at its beginning.                                                   *)
LeafDoneAtLimit(h, k) ==
    /\ AtLeaf(h) /\ Reaches(h, k)
    /\ LeafIsRead(h, k)
    /\ Visited(h, k) = VisitBudget
    /\ ProcessLeaf(h, k)
    /\ pass' = [pass EXCEPT ![h] = Stopped(@, 0, Scanned(h, k))]

(* Fault: the cursor counts the entry that was one visit too many.         *)
CountedOneMore(h, k) == pass[h].consumed + k + 1

(* What the cursor counts when the visits run out within a leaf: not the   *)
(* entry that was one too many.                                            *)
Counted(h, k) == pass[h].consumed + k

StopWithin(h, k) ==
    /\ AtLeaf(h) /\ Reaches(h, k)
    /\ ~LeafIsRead(h, k)
    /\ k < pass[h].iters
    /\ ProcessLeaf(h, k)
    /\ pass' = [pass EXCEPT ![h] = Stopped(@, Counted(h, k), Scanned(h, k))]

(* The first leaf of the next bucket, or one past the last leaf.           *)
NextBucket(h) ==
    LET later == {i \in pass[h].at + 1 .. Len(Walk(h)) :
                    Bucket[Walk(h)[i]] # Bucket[Here(h)]}
    IN  Min(later \cup {Len(Walk(h)) + 1})

(* The reads of the pass run out within a leaf: it goes on with the next   *)
(* bucket, where it will not get far either.                               *)
ReadsExhausted(h, k) ==
    /\ AtLeaf(h) /\ Reaches(h, k)
    /\ ~LeafIsRead(h, k)
    /\ k = pass[h].iters
    /\ ProcessLeaf(h, k)
    /\ pass' = [pass EXCEPT ![h] =
                  IF Visited(h, k) < VisitBudget
                  THEN [@ EXCEPT !.at = NextBucket(h), !.skip = 0,
                                 !.consumed = pass[h].consumed + k,
                                 !.visited = Visited(h, k),
                                 !.scanned = Scanned(h, k), !.iters = 0]
                  ELSE Stopped(@, pass[h].consumed + k, Scanned(h, k))]

LeavesDone(h) ==
    /\ pass[h].step = "leaf"
    /\ pass[h].at = Len(Walk(h)) + 1
    /\ pass' = [pass EXCEPT ![h] = Stopped(@, pass[h].consumed, pass[h].scanned)]
    /\ UNCHANGED <<entry, shared, faults>>

-----------------------------------------------------------------------------
(* The legacy segment.                                                     *)

(* _select_legacy_cursor_path, under the lock: a recovery file is finished *)
(* first, and one is made when something odd lies at the canonical path.   *)
Selected ==
    IF cookie["recovery"] # None \/ cookie["canonical"] = Odd THEN "recovery"
    ELSE "canonical"

LegacyBegins(h) ==
    /\ pass[h].step = "legacy"
    /\ lock = None
    /\ lock' = h
    /\ pass' = [pass EXCEPT ![h].step = "raw", ![h].file = Selected]
    /\ UNCHANGED <<entry, rotation, cursor, cookie, owed, faults>>

(* Another helper has the lock: this pass leaves the segment to it.        *)
LegacySkipped(h) ==
    /\ pass[h].step = "legacy"
    /\ lock # None
    /\ pass' = [pass EXCEPT ![h].step = "store", ![h].scanned = 0]
    /\ UNCHANGED <<entry, shared, faults>>

(* Where this pass resumes, and the positions of the entries it reads.     *)
Start(h) ==
    LET c == cookie[pass[h].file]
    IN  IF c \in {None, Odd} THEN 0 ELSE c

Ahead(h) == {i \in Start(h) + 1 .. Len(Legacy) : There(Legacy[i])}

Batch(h) == First(VisitBudget, Ahead(h))

Batched(h) == {Legacy[i] : i \in Batch(h)}

(* The segment is over, and with it the use of the lock.                   *)
LegacyOver(h) ==
    /\ pass[h].step = "raw"
    /\ lock' = None
    /\ pass' = [pass EXCEPT ![h].step = "store", ![h].file = None,
                            ![h].scanned = 0]

ReadBatch(h) ==
    /\ LegacyOver(h)
    /\ Process(h, Legacy, {i \in Batch(h) : IsJob(Legacy[i])})
    /\ UNCHANGED <<rotation, cursor, faults>>

(* The root cannot be read: no getdents64, an error when it is opened, or   *)
(* a file system that does not resume at the cookie.  Nothing is stored.   *)
LegacyFails(h) ==
    /\ LegacyOver(h)
    /\ faults < MaxFaults
    /\ faults' = faults + 1
    /\ UNCHANGED <<entry, rotation, cursor, cookie, owed>>

(* A cookie file is replaced or removed, unless it has become an odd thing.*)
Put(f, value) ==
    cookie' = IF cookie[f] = Odd THEN cookie ELSE [cookie EXCEPT ![f] = value]

(* Fault: the cookie is that of the entry not yet read.                    *)
ResumePast(h) == Min({Max(Batch(h)) + 1, Len(Legacy)})

(* The next pass resumes after the last entry consumed.                    *)
Resume(h) == Max(Batch(h))

(* The raw entries run out before the root does.                           *)
LegacyPauses(h) ==
    /\ ReadBatch(h)
    /\ Cardinality(Batch(h)) = VisitBudget
    /\ Put(pass[h].file, Resume(h))
    /\ owed' = owed \ Batched(h)

(* End of file: the cookie is removed, so that the next pass begins anew.  *)
LegacyEnds(h) ==
    /\ ReadBatch(h)
    /\ Cardinality(Batch(h)) < VisitBudget
    /\ Put(pass[h].file, None)
    /\ owed' = {e \in Flat : entry'[e] \in {"kept", "due"}}

-----------------------------------------------------------------------------
(* The end of a pass, and what happens around it.                          *)

(* The cursor is replaced, or deleted when no bucket is left.              *)
StoreCursor(h) ==
    LET p == pass[h]
    IN  /\ p.step = "store"
        /\ cursor' = [cursor EXCEPT ![p.shard] =
                        IF p.at = Len(Walk(h)) + 1 THEN None
                        ELSE [at |-> p.at, o |-> p.consumed]]
        /\ pass' = [pass EXCEPT ![h] = Idle]
        /\ UNCHANGED <<entry, rotation, cookie, lock, owed, faults>>

(* A helper is killed: the kernel releases its lock, nothing is stored.    *)
Killed(h) ==
    /\ faults < MaxFaults
    /\ pass[h].step # "idle"
    /\ faults' = faults + 1
    /\ lock' = IF lock = h THEN None ELSE lock
    /\ pass' = [pass EXCEPT ![h] = Idle]
    /\ UNCHANGED <<entry, rotation, cursor, cookie, owed>>

JobStarted(e) ==
    /\ e \in New /\ entry[e] = "absent"
    /\ entry' = [entry EXCEPT ![e] = "kept"]
    /\ UNCHANGED <<shared, pass, faults>>

(* Retention or grace runs out, or the job's process dies.                 *)
FallsDue(e) ==
    /\ e \in Ageing /\ entry[e] = "kept"
    /\ entry' = [entry EXCEPT ![e] = "due"]
    /\ UNCHANGED <<shared, pass, faults>>

(* Something that is no file replaces the canonical cookie, or is removed. *)
Obstructed ==
    /\ faults < MaxFaults
    /\ cookie["canonical"] # Odd
    /\ faults' = faults + 1
    /\ cookie' = [cookie EXCEPT !["canonical"] = Odd]
    /\ UNCHANGED <<entry, rotation, cursor, lock, pass, owed>>

Repaired ==
    /\ cookie["canonical"] = Odd
    /\ cookie' = [cookie EXCEPT !["canonical"] = None]
    /\ UNCHANGED <<entry, rotation, cursor, lock, pass, owed, faults>>

Steps(h) ==
    \/ Begin(h) \/ Rotate(h) \/ RotateFails(h) \/ LoadCursor(h)
    \/ \E k \in 0 .. IterBudget : \/ LeafDone(h, k) \/ LeafDoneAtLimit(h, k)
                                  \/ StopWithin(h, k) \/ ReadsExhausted(h, k)
    \/ LeavesDone(h)
    \/ LegacyBegins(h) \/ LegacySkipped(h) \/ LegacyPauses(h) \/ LegacyEnds(h)
    \/ LegacyFails(h) \/ StoreCursor(h)

SweepNext ==
    \/ \E h \in Helpers : Steps(h) \/ Killed(h)
    \/ \E e \in Entries : JobStarted(e) \/ FallsDue(e)
    \/ Obstructed \/ Repaired

(* A helper at work is scheduled, and jobs keep being started, each with a *)
(* pass of its own.  A helper always has a next step and every step of one *)
(* changes its pass, so that this is the weak fairness of Steps(h).        *)
SweepSpec ==
    /\ SweepInit
    /\ [][SweepNext]_sweepVars
    /\ \A h \in Helpers : []<><<pass'[h] # pass[h] /\ Steps(h)>>_sweepVars

-----------------------------------------------------------------------------
(* The leaves of s that may hold e.                                        *)
LeavesWith == [s \in Shard |-> [e \in Entries |->
    {n \in DOMAIN Leaves[s] : e \in Range(Content[Leaves[s][n]])}]]

(* Entries that a pass can read on its way from the first leaf to the end  *)
(* of the n-th.                                                            *)
ReadsTo == [s \in Shard |-> [n \in DOMAIN Leaves[s] |->
    MapThenSumSet(LAMBDA m : Len(Content[Leaves[s][m]]), 1 .. n)]]

(* The jobs of a leaf that no pass is going to remove.                     *)
Survivors(l) ==
    {i \in Present(Content[l]) :
        LET e == Content[l][i] IN IsJob(e) /\ (~Due(e) \/ e \in Stuck)}

(* A pass whose visits run out just at the end of a leaf leaves the cursor *)
(* at its beginning: with so many survivors the leaf is never got past.    *)
Crowded(l) ==
    Survivors(l) # {} /\ Cardinality(Survivors(l)) % VisitBudget = 0

(* A sweep gets to e: no leaf of its shard holds it up, its reads last so  *)
(* far, and failing removals leave the pass something of its budget.       *)
Accessible(e) ==
    /\ Cardinality({d \in Stuck : Due(d)}) < RemovalBudget
    /\ \A s \in Shard : LeavesWith[s][e] # {} =>
         /\ \A n \in DOMAIN Leaves[s] : ~Crowded(Leaves[s][n])
         /\ \A n \in LeavesWith[s][e] : ReadsTo[s][n] <= IterBudget

(* A job directory that falls due and can be removed is removed in the     *)
(* end, wherever it lies and behind whatever survivors and junk, although  *)
(* each pass is bounded, passes overlap and overwrite each other's cursor, *)
(* and some are killed; provided that it stays accessible to the sweep.    *)
StaleIsCollected ==
    \A e \in (Ageing \cup Overdue) \ Stuck :
        <>[]Accessible(e) => (Due(e) ~> entry[e] = "gone")

(* When the legacy segment reaches the end of the root, every entry that   *)
(* was there when it was last there has been read since, by whichever      *)
(* passes, through whichever cookie file.                                  *)
LegacySweepIsComplete ==
    [][\A h \in Helpers :
         LegacyEnds(h) => \A e \in owed : There(e) => e \in Batched(h)]_sweepVars
=============================================================================
