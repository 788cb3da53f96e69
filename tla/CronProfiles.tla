---------------------------- MODULE CronProfiles ----------------------------
(***************************************************************************)
(* Cron profiles: records in a store of the server (cron_profiles.py) and  *)
(* their projection into the crontab of a host, one marker line followed   *)
(* by one job line per profile.  cron_upsert writes the record first and   *)
(* the crontab second, and takes the record back when that fails;          *)
(* cron_remove goes the other way round (kernel_execution.py).  The host   *)
(* helper installs a text only over the text it was computed from          *)
(* (clients/ssh.py).                                                       *)
(*                                                                         *)
(* One server process, one owner and one host: a step is what happens      *)
(* between two SSH calls.  An install whose answer got lost may be         *)
(* executed late, and people edit the crontab by hand.                     *)
(***************************************************************************)
EXTENDS Naturals, Sequences, FiniteSets

CONSTANTS
    Callers,        \* invocations of cron_upsert and cron_remove
    Profiles,       \* profile ids
    CronContents,   \* schedule, executable, arguments and environment
    Foreign,        \* lines that belong to no profile
    MaxRecords,     \* MAX_CRON_PROFILES
    MaxEdits,       \* bound of the edits made by hand
    Nil             \* no record, no text, no request

ASSUME CronAssumption ==
    /\ MaxRecords \in Nat \ {0}
    /\ MaxEdits \in Nat
    /\ Nil \notin CronContents

VARIABLES
    records,    \* records[p]: the record of p, or NoRecord
    crontab,    \* the lines installed on the host
    call,       \* call[c]: the invocation caller c is executing
    edits,      \* how often someone edited the crontab by hand
    torn        \* one of them copied or deleted a marker or its job line

cronVars == <<records, crontab, call, edits, torn>>

(* A record knows the call that wrote it by its time stamp.                *)
Record == [content : CronContents, by : Callers]

NoRecord == [content |-> Nil, by |-> Nil]

(* A marker carries the hash of the job line that follows it.              *)
Marker(p, content) == [kind |-> "marker", profile |-> p, content |-> content]

Job(content) == [kind |-> "job", content |-> content]

ForeignLine(f) == [kind |-> "foreign", content |-> f]

Line == {Marker(p, content) : p \in Profiles, content \in CronContents}
            \cup {Job(content) : content \in CronContents}
            \cup {ForeignLine(f) : f \in Foreign}

Replies == {"IN_SYNC", "REMOVED", "AMBIGUOUS", "CONCURRENT_MODIFICATION",
            "DUPLICATE_MARKER", "PROFILE_NOT_FOUND", "READ_FAILED",
            "INSTALL_FAILED", "CAPACITY"}

ASSUME NoReply == Nil \notin Replies

(* "sent": the helper may still execute the install.                       *)
Requests == {"none", "sent", "installed", "conflict", "unverified", "failed"}

Call == [op : {"upsert", "remove", Nil},
         step : {"idle", "read", "install", "reconcile", "done"},
         profile : Profiles \cup {Nil}, content : CronContents \cup {Nil},
         text : Seq(Line), previous : Record \cup {NoRecord},
         request : Requests, reply : Replies \cup {Nil}]

Idle == [op |-> Nil, step |-> "idle", profile |-> Nil, content |-> Nil,
         text |-> <<>>, previous |-> NoRecord, request |-> "none",
         reply |-> Nil]

CronInit ==
    /\ records = [p \in Profiles |-> NoRecord]
    /\ crontab \in {<<>>} \cup {<<ForeignLine(f)>> : f \in Foreign}
    /\ call = [c \in Callers |-> Idle]
    /\ edits = 0
    /\ torn = FALSE

-----------------------------------------------------------------------------
(* The text of a crontab                                                   *)

Markers(text, p) ==
    {i \in DOMAIN text : text[i].kind = "marker" /\ text[i].profile = p}

(* Fault: drops the marker and leaves its job line.                        *)
WithoutMarker(text, p) ==
    SelectSeq(text, LAMBDA l : ~(l.kind = "marker" /\ l.profile = p))

(* Drops the marker and the line after it, whatever that line is.          *)
WithoutPair(text, p) ==
    IF Markers(text, p) = {} THEN text
    ELSE LET i == CHOOSE m \in Markers(text, p) : TRUE
         IN  SubSeq(text, 1, i - 1) \o SubSeq(text, i + 2, Len(text))

WithPair(text, p, content) ==
    WithoutPair(text, p) \o <<Marker(p, content), Job(content)>>

InSync(text, p, content) ==
    /\ Cardinality(Markers(text, p)) = 1
    /\ \A i \in Markers(text, p) :
          /\ text[i].content = content
          /\ i < Len(text) /\ text[i + 1] = Job(content)

NewText(c) ==
    IF call[c].op = "upsert"
    THEN WithPair(call[c].text, call[c].profile, call[c].content)
    ELSE WithoutPair(call[c].text, call[c].profile)

(* What a finished call asked for only matters while its helper may run.   *)
Spent(e) == IF e.step = "done" /\ e.request # "sent"
            THEN [e EXCEPT !.content = Nil] ELSE e

End(c, reply) ==
    call' = [call EXCEPT ![c] =
        Spent([@ EXCEPT !.step = "done", !.reply = reply,
                        !.previous = NoRecord])]

(* The text of a request is of no use once the helper has answered.        *)
Answer(c, outcome) ==
    call' = [call EXCEPT ![c] =
        Spent([@ EXCEPT !.request = outcome, !.text = <<>>])]

-----------------------------------------------------------------------------
(* Beginning                                                               *)

(* The kernel's lock belongs to a capability and a profile: an upsert and  *)
(* a removal of one profile do not exclude each other.                     *)
Busy(op, p) == \E c \in Callers : /\ call[c].op = op /\ call[c].profile = p
                                  /\ call[c].step # "done"

UpsertBegins(c, p, content) ==
    /\ call[c].step = "idle" /\ ~Busy("upsert", p)
    /\ call' = [call EXCEPT ![c] =
                  [Idle EXCEPT !.op = "upsert", !.step = "read",
                               !.profile = p, !.content = content]]
    /\ UNCHANGED <<records, crontab, edits, torn>>

RemoveBegins(c, p) ==
    /\ call[c].step = "idle" /\ ~Busy("remove", p)
    /\ call' = [call EXCEPT ![c] =
         IF records[p] = NoRecord
         THEN [Idle EXCEPT !.op = "remove", !.step = "done", !.profile = p,
                           !.reply = "PROFILE_NOT_FOUND"]
         ELSE [Idle EXCEPT !.op = "remove", !.step = "read", !.profile = p]]
    /\ UNCHANGED <<records, crontab, edits, torn>>

(* The second time nothing is rolled back, and the error is the same.      *)
ReadFails(c) ==
    /\ call[c].step \in {"read", "reconcile"}
    /\ End(c, "READ_FAILED")
    /\ UNCHANGED <<records, crontab, edits, torn>>

(* Fault: admits one record too many.                                      *)
FullBeyondBound(p) ==
    /\ records[p] = NoRecord
    /\ Cardinality({q \in Profiles : records[q] # NoRecord}) > MaxRecords

Full(p) == /\ records[p] = NoRecord
           /\ Cardinality({q \in Profiles : records[q] # NoRecord}) >= MaxRecords

Candidate(c) == [content |-> call[c].content, by |-> c]

(* The crontab has been read; the record is replaced before the install is *)
(* requested, and the one it replaces remembered.                          *)
UpsertReads(c) ==
    LET p == call[c].profile
    IN  /\ call[c].op = "upsert" /\ call[c].step = "read"
        /\ IF Cardinality(Markers(crontab, p)) > 1
           THEN End(c, "DUPLICATE_MARKER") /\ records' = records
           ELSE IF Full(p)
           THEN End(c, "CAPACITY") /\ records' = records
           ELSE /\ call' = [call EXCEPT ![c].step = "install",
                                        ![c].text = crontab,
                                        ![c].previous = records[p],
                                        ![c].request = "sent"]
                /\ records' = [records EXCEPT ![p] = Candidate(c)]
        /\ UNCHANGED <<crontab, edits, torn>>

RemoveReads(c) ==
    LET markers == Markers(crontab, call[c].profile)
    IN  /\ call[c].op = "remove" /\ call[c].step = "read"
        /\ CASE Cardinality(markers) > 1 -> End(c, "DUPLICATE_MARKER")
             [] markers = {} -> End(c, "PROFILE_NOT_FOUND")
             [] OTHER -> call' = [call EXCEPT ![c].step = "install",
                                              ![c].text = crontab,
                                              ![c].request = "sent"]
        /\ UNCHANGED <<records, crontab, edits, torn>>

-----------------------------------------------------------------------------
(* The install helper, under the host's lock on the crontab                *)

(* Fault: does not compare the crontab with the text that was read.        *)
ReadTextStands(c) == TRUE

SameText(c) == crontab = call[c].text

HostRefuses(c) ==
    /\ call[c].request = "sent"
    /\ ~SameText(c)
    /\ Answer(c, "conflict")
    /\ UNCHANGED <<records, crontab, edits, torn>>

(* The helper reads the crontab once more, which may fail.                 *)
HostInstalls(c) ==
    /\ call[c].request = "sent"
    /\ SameText(c)
    /\ crontab' = NewText(c)
    /\ \E outcome \in {"installed", "unverified"} : Answer(c, outcome)
    /\ UNCHANGED <<records, edits, torn>>

(* The crontab command fails, or is killed after 20 s and may have done    *)
(* its work; or the crontab cannot be read.                                *)
HostFails(c) ==
    /\ call[c].request = "sent"
    /\ \/ SameText(c) /\ crontab' = NewText(c)
       \/ UNCHANGED crontab
    /\ Answer(c, "failed")
    /\ UNCHANGED <<records, edits, torn>>

-----------------------------------------------------------------------------
(* Its answer                                                              *)

(* Fault: forgets that there was a record before.                          *)
RolledBackToNothing(c) == [records EXCEPT ![call[c].profile] = NoRecord]

(* The record of the candidate gives way to the one it replaced.           *)
RolledBack(c) ==
    IF records[call[c].profile] = Candidate(c)
    THEN [records EXCEPT ![call[c].profile] = call[c].previous]
    ELSE records

UpsertAnswered(c) ==
    /\ call[c].op = "upsert" /\ call[c].step = "install"
    /\ \/ /\ call[c].request = "installed"
          /\ End(c, "IN_SYNC")
          /\ records' = records
       \/ /\ call[c].request = "conflict"
          /\ End(c, "CONCURRENT_MODIFICATION")
          /\ records' = RolledBack(c)
       \/ /\ call[c].request = "failed"
          /\ End(c, "INSTALL_FAILED")
          /\ records' = RolledBack(c)
    /\ UNCHANGED <<crontab, edits, torn>>

(* The answer is "unverified", or lost: then the install may be to come.   *)
UpsertUncertain(c) ==
    /\ call[c].op = "upsert" /\ call[c].step = "install"
    /\ call' = [call EXCEPT ![c].step = "reconcile"]
    /\ UNCHANGED <<records, crontab, edits, torn>>

SeesItself(c) == InSync(crontab, call[c].profile, call[c].content)

(* The record may have been removed meanwhile, and its place be taken.     *)
Reconcile(c) ==
    /\ call[c].step = "reconcile"
    /\ IF ~SeesItself(c)
       THEN End(c, "AMBIGUOUS") /\ records' = RolledBack(c)
       ELSE IF Full(call[c].profile)
       THEN End(c, "CAPACITY") /\ records' = records
       ELSE /\ End(c, "IN_SYNC")
            /\ records' = [records EXCEPT ![call[c].profile] = Candidate(c)]
    /\ UNCHANGED <<crontab, edits, torn>>

RemoveAnswered(c) ==
    /\ call[c].op = "remove" /\ call[c].step = "install"
    /\ \/ /\ call[c].request = "installed"
          /\ End(c, IF records[call[c].profile] = NoRecord
                    THEN "PROFILE_NOT_FOUND" ELSE "REMOVED")
          /\ records' = [records EXCEPT ![call[c].profile] = NoRecord]
       \/ /\ call[c].request = "conflict"
          /\ End(c, "CONCURRENT_MODIFICATION")
          /\ records' = records
       \/ /\ call[c].request = "failed"
          /\ End(c, "INSTALL_FAILED")
          /\ records' = records
       \/ /\ call[c].request = "unverified"
          /\ End(c, "AMBIGUOUS")
          /\ records' = records
    /\ UNCHANGED <<crontab, edits, torn>>

(* The deadline of the call, a lost connection, or the server dies: no     *)
(* rollback, and an install that was sent may still be executed.           *)
Abandoned(c) ==
    /\ call[c].step \in {"read", "install", "reconcile"}
    /\ End(c, "AMBIGUOUS")
    /\ UNCHANGED <<records, crontab, edits, torn>>

-----------------------------------------------------------------------------
(* People                                                                  *)

(* Lines that are neither a marker nor directly after one.                 *)
Loose(i) == /\ crontab[i].kind # "marker"
            /\ i > 1 => crontab[i - 1].kind # "marker"

(* After the first k lines.                                                *)
LineAdded(f, k) ==
    /\ torn' = (torn \/ (k > 0 /\ crontab[k].kind = "marker"))
    /\ crontab' = SubSeq(crontab, 1, k) \o <<ForeignLine(f)>>
                      \o SubSeq(crontab, k + 1, Len(crontab))

LineCopied(i) ==
    /\ torn' = (torn \/ ~Loose(i))
    /\ crontab' = Append(crontab, crontab[i])

LineDeleted(i) ==
    /\ torn' = (torn \/ ~Loose(i))
    /\ crontab' = SubSeq(crontab, 1, i - 1)
                      \o SubSeq(crontab, i + 1, Len(crontab))

EditedByHand ==
    /\ edits < MaxEdits
    /\ edits' = edits + 1
    /\ \/ \E f \in Foreign, k \in 0 .. Len(crontab) : LineAdded(f, k)
       \/ \E i \in DOMAIN crontab : LineCopied(i) \/ LineDeleted(i)
    /\ UNCHANGED <<records, call>>

-----------------------------------------------------------------------------
Installing(c) == HostInstalls(c) \/ HostFails(c)

CallStep(c) ==
    \/ \E p \in Profiles, content \in CronContents : UpsertBegins(c, p, content)
    \/ \E p \in Profiles : RemoveBegins(c, p)
    \/ ReadFails(c) \/ UpsertReads(c) \/ RemoveReads(c)
    \/ HostRefuses(c) \/ Installing(c)
    \/ UpsertAnswered(c) \/ UpsertUncertain(c) \/ Reconcile(c)
    \/ RemoveAnswered(c) \/ Abandoned(c)

CronNext == (\E c \in Callers : CallStep(c)) \/ EditedByHand

CronSpec == CronInit /\ [][CronNext]_cronVars

-----------------------------------------------------------------------------
(* Properties                                                              *)

(* Every variable has its type, and the store keeps its bound.             *)
CronTypeOK ==
    /\ records \in [Profiles -> Record \cup {NoRecord}]
    /\ crontab \in Seq(Line)
    /\ call \in [Callers -> Call]
    /\ edits \in 0 .. MaxEdits
    /\ torn \in BOOLEAN
    /\ Cardinality({p \in Profiles : records[p] # NoRecord}) <= MaxRecords

(* Whatever texts calls have read, and in whatever order their installs    *)
(* are executed: a profile has one marker, each marker is followed by the  *)
(* job it was made for, and no job runs without one.  Until someone tears  *)
(* a pair by hand.                                                         *)
PairsStayWhole ==
    ~torn =>
    /\ \A p \in Profiles : Cardinality(Markers(crontab, p)) <= 1
    /\ \A i \in DOMAIN crontab :
         /\ crontab[i].kind = "marker"
            => i < Len(crontab) /\ crontab[i + 1] = Job(crontab[i].content)
         /\ crontab[i].kind = "job"
            => i > 1 /\ crontab[i - 1].kind = "marker"

(* Once every call on a profile has had an answer that says what happened, *)
(* record and crontab agree: no record without its job, although the two   *)
(* are written one after the other and conflicts roll the record back; and *)
(* no job without its record, as long as no removal of the profile has     *)
(* succeeded.  JobsAreListed is about the removals.  This too holds until  *)
(* someone tears a pair by hand.                                           *)
Definite(c) ==
    /\ call[c].step = "done"
    /\ call[c].reply \notin {"AMBIGUOUS", "INSTALL_FAILED"}
    /\ call[c].reply = "READ_FAILED" => call[c].request = "none"

Settled(p) == \A c \in Callers : call[c].profile = p => Definite(c)

Removed(p) == \E c \in Callers :
    call[c].op = "remove" /\ call[c].profile = p /\ call[c].reply = "REMOVED"

RecordsMatchCrontab ==
    ~torn =>
    \A p \in Profiles : Settled(p) =>
        IF records[p] # NoRecord THEN InSync(crontab, p, records[p].content)
        ELSE Markers(crontab, p) = {} \/ Removed(p)

(* README.md:184: cron_list reports the owned profiles with their state in *)
(* the crontab.  It lists records, so every installed job needs one.       *)
JobsAreListed ==
    \A p \in Profiles :
        Settled(p) /\ Markers(crontab, p) # {} => records[p] # NoRecord

(* The lines that belong to no profile, each with its place among them.    *)
Others(text) == {i \in DOMAIN text : text[i].kind = "foreign"}

Place(i, text) == Cardinality({j \in Others(text) : j <= i})

ForeignLines(text) == {<<Place(i, text), text[i]>> : i \in Others(text)}

(* A marker of p that has lost its job line stands before a line of others.*)
Exposed(p) ==
    \E i \in Markers(crontab, p) :
        i < Len(crontab) /\ crontab[i + 1].kind = "foreign"

(* README.md:378-379 has it that the lines of others are preserved.  They  *)
(* are, whatever was added or deleted between the reading and the install, *)
(* with one exception: after someone has torn a pair by hand so that the   *)
(* marker of the profile stands before such a line, that line goes with    *)
(* the marker (cron_profiles.py:338-341).                                  *)
ForeignLinesPreserved ==
    [][\A c \in Callers : Installing(c) =>
         \/ ForeignLines(crontab') = ForeignLines(crontab)
         \/ torn /\ Exposed(call[c].profile)]_cronVars
=============================================================================
