----------------------------- MODULE Approvals -----------------------------
(***************************************************************************)
(* The one-time approval registry (approvals.py).  Approvals live in one   *)
(* JSON file; every server process and every run of the operator's CLI     *)
(* holds a copy of it in an ApprovalRegistry and replaces the file to add  *)
(* or consume one.                                                         *)
(*                                                                         *)
(* The registry's lock is a threading.Lock: it orders the operations of    *)
(* one process and nothing else.  A replacement is therefore three steps   *)
(* that other processes may separate: compare the file's identity with the *)
(* one last read, os.replace, and stat the result.  An identity (device,   *)
(* inode, mtime, size) names one version of the file, so all that matters  *)
(* of it is whether the version a process knows is the current one.        *)
(*                                                                         *)
(* Two windows, from identity check to stat, may overlap: the later        *)
(* replacement undoes the earlier one, and a process may take a version it *)
(* did not write for its own.  Nothing in the code prevents it, and no     *)
(* action here does; exposed remembers which approvals were at stake, and  *)
(* what the registry promises it promises of the others.                   *)
(***************************************************************************)
EXTENDS Integers, FiniteSets

CONSTANTS
    Servers,        \* server processes: they check and consume
    Operators,      \* runs of scripts/approval.py: they issue
    Tokens,         \* approval tokens, random and never reused
    Bindings,       \* capability, principal, target, resource and digest
    MaxRecords,     \* capacity of the registry
    None            \* not issued, no token

ASSUME ApprovalsAssumption ==
    /\ MaxRecords \in Nat \ {0}
    /\ IsFiniteSet(Tokens)
    /\ None \notin Tokens
    /\ None \notin Bindings

VARIABLES
    file,       \* tokens in the approval file
    bound,      \* bound[t]: what t approves, None before it is issued
    expired,    \* tokens past their expires_at
    cache,      \* cache[p]: the records p holds in memory
    current,    \* current[p]: p's _source_identity is that of the file
    op,         \* op[p]: the replacement p is executing
    spent,      \* history: tokens whose removal was written to the file
    granted,    \* history: how many consume calls returned true for a
                \* token, 2 standing for any number above one
    exposed     \* history: tokens that a replacement added or removed inside
                \* another process's window

vars == <<file, bound, expired, cache, current, op, spent, granted, exposed>>

Processes == Servers \cup Operators

NoOp == [step |-> "idle", token |-> None, records |-> {}]

Op == [step : {"idle", "check", "replace", "stat"}, token : Tokens \cup {None},
       records : SUBSET Tokens]

(* A file that outgrew the capacity could not be read any more.            *)
TypeOK ==
    /\ file \in SUBSET Tokens
    /\ Cardinality(file) <= MaxRecords
    /\ bound \in [Tokens -> Bindings \cup {None}]
    /\ expired \in SUBSET Tokens
    /\ cache \in [Processes -> SUBSET Tokens]
    /\ current \in [Processes -> BOOLEAN]
    /\ op \in [Processes -> Op]
    /\ spent \in SUBSET Tokens
    /\ granted \in [Tokens -> 0..2]
    /\ exposed \in SUBSET Tokens

Init ==
    /\ file = {}
    /\ bound = [t \in Tokens |-> None]
    /\ expired = {}
    /\ cache = [p \in Processes |-> {}]
    /\ current = [p \in Processes |-> TRUE]
    /\ op = [p \in Processes |-> NoOp]
    /\ spent = {}
    /\ granted = [t \in Tokens |-> 0]
    /\ exposed = {}

-----------------------------------------------------------------------------
Idle(p) == op[p].step = "idle"

(* _reload_locked: read the file again if its identity changed.            *)
Reloaded(p) == IF current[p] THEN cache[p] ELSE file

Reload(p) ==
    /\ cache' = [cache EXCEPT ![p] = Reloaded(p)]
    /\ current' = [current EXCEPT ![p] = TRUE]

InWindow(p) == op[p].step \in {"replace", "stat"}

Matching(p, b) == {t \in Reloaded(p) \ expired : bound[t] = b}

(* The kernel's look before it takes the target's lock.                    *)
HasMatching(p, b) ==
    /\ Idle(p)
    /\ Reload(p)
    /\ UNCHANGED <<file, bound, expired, op, spent, granted, exposed>>

Issue(p, t, b) ==
    /\ Idle(p)
    /\ bound[t] = None
    /\ Cardinality(Reloaded(p) \ expired) < MaxRecords
    /\ Reload(p)
    /\ bound' = [bound EXCEPT ![t] = b]
    /\ op' = [op EXCEPT ![p] = [step |-> "check", token |-> None,
                        records |-> (Reloaded(p) \ expired) \cup {t}]]
    /\ UNCHANGED <<file, expired, spent, granted, exposed>>

(* Fault: the consumed record is written back.                             *)
ConsumeKeepsRecord(p, t, b) ==
    /\ Idle(p)
    /\ t \in Matching(p, b)
    /\ Reload(p)
    /\ op' = [op EXCEPT ![p] = [step |-> "check", token |-> t,
                        records |-> Reloaded(p) \ expired]]
    /\ UNCHANGED <<file, bound, expired, spent, granted, exposed>>

(* consume_matching takes the candidate that expires first, consume the    *)
(* token it is given.                                                      *)
Consume(p, t, b) ==
    /\ Idle(p)
    /\ t \in Matching(p, b)
    /\ Reload(p)
    /\ op' = [op EXCEPT ![p] = [step |-> "check", token |-> t,
                        records |-> Reloaded(p) \ (expired \cup {t})]]
    /\ UNCHANGED <<file, bound, expired, spent, granted, exposed>>

-----------------------------------------------------------------------------
(* _persist_records_locked: the new version is in a temporary file.        *)

(* Fault: the file is replaced whatever its identity.                      *)
IdentityIgnored(p) ==
    /\ op[p].step = "check"
    /\ op' = [op EXCEPT ![p].step = "replace"]
    /\ UNCHANGED <<file, bound, expired, cache, current, spent, granted, exposed>>

IdentityHolds(p) ==
    /\ op[p].step = "check"
    /\ current[p]
    /\ op' = [op EXCEPT ![p].step = "replace"]
    /\ UNCHANGED <<file, bound, expired, cache, current, spent, granted, exposed>>

(* RuntimeError: the call fails and nothing was consumed or issued.        *)
IdentityChanged(p) ==
    /\ op[p].step = "check"
    /\ ~current[p]
    /\ op' = [op EXCEPT ![p] = NoOp]
    /\ UNCHANGED <<file, bound, expired, cache, current, spent, granted, exposed>>

Changes(old, new) == (old \ new) \cup (new \ old)

Replace(p) ==
    /\ op[p].step = "replace"
    /\ file' = op[p].records
    /\ current' = [q \in Processes |-> FALSE]
    /\ spent' = spent \cup ({op[p].token} \cap Tokens)
    /\ op' = [op EXCEPT ![p].step = "stat"]
    /\ exposed' = IF \E q \in Processes \ {p} : InWindow(q)
                  THEN exposed \cup Changes(file, op[p].records)
                  ELSE exposed
    /\ UNCHANGED <<bound, expired, cache, granted>>

Counted(n) == IF n = 0 THEN 1 ELSE 2

(* Fault: the new identity goes with the old records.                      *)
StatKeepsCopy(p) ==
    /\ op[p].step = "stat"
    /\ current' = [current EXCEPT ![p] = TRUE]
    /\ granted' = [t \in Tokens |->
                     IF t = op[p].token THEN Counted(granted[t]) ELSE granted[t]]
    /\ op' = [op EXCEPT ![p] = NoOp]
    /\ UNCHANGED <<file, bound, expired, spent, cache, exposed>>

(* The identity of whatever file is there by now goes with the records     *)
(* this process wrote; a consume call returns true.                        *)
Stat(p) ==
    /\ op[p].step = "stat"
    /\ current' = [current EXCEPT ![p] = TRUE]
    /\ cache' = [cache EXCEPT ![p] = op[p].records]
    /\ granted' = [t \in Tokens |->
                     IF t = op[p].token THEN Counted(granted[t]) ELSE granted[t]]
    /\ op' = [op EXCEPT ![p] = NoOp]
    /\ UNCHANGED <<file, bound, expired, spent, exposed>>

-----------------------------------------------------------------------------
Expires(t) ==
    /\ bound[t] # None
    /\ t \notin expired
    /\ expired' = expired \cup {t}
    /\ UNCHANGED <<file, bound, cache, current, op, spent, granted, exposed>>

(* A process dies at any step and is started again: from_file.             *)
Restart(p) ==
    /\ cache' = [cache EXCEPT ![p] = file]
    /\ current' = [current EXCEPT ![p] = TRUE]
    /\ op' = [op EXCEPT ![p] = NoOp]
    /\ UNCHANGED <<file, bound, expired, spent, granted, exposed>>

Next ==
    \/ \E p \in Servers, b \in Bindings :
        \/ HasMatching(p, b)
        \/ \E t \in Tokens : Consume(p, t, b)
    \/ \E p \in Operators, t \in Tokens, b \in Bindings : Issue(p, t, b)
    \/ \E p \in Processes :
        \/ IdentityHolds(p) \/ IdentityChanged(p)
        \/ Replace(p) \/ Stat(p) \/ Restart(p)
    \/ \E t \in Tokens : Expires(t)

Spec == Init /\ [][Next]_vars

-----------------------------------------------------------------------------
(* Properties.  Whatever races there were, over whichever approvals, each  *)
(* approval that was not itself at stake in one is treated as promised.    *)

(* README: approvals "are consumed once", unless the approval was added or *)
(* removed by one process inside another's window.                         *)
ConsumedOnce == \A t \in Tokens \ exposed : granted[t] <= 1

(* An approval the operator was told of stays in the file until it is      *)
(* consumed or expires: another process's replacement drops it only if the *)
(* two windows overlapped when it was added or removed.                    *)
IssuedSurvives ==
    [][\A t \in file \ file' : t \in spent' \cup expired \cup exposed']_vars

(* Between operations, a process that believes its copy is up to date is   *)
(* right about every approval that was not at stake in a race.             *)
CopyIsFile ==
    \A p \in Processes :
        Idle(p) /\ current[p] => Changes(cache[p], file) \subseteq exposed

-----------------------------------------------------------------------------
(* The approvals as a ledger.                                              *)

(* What anyone who reads the file would make of approval t.                *)
StandingOf(t) ==
    CASE t \in exposed -> "raced"
      [] t \in file \ exposed -> IF t \in expired THEN "lapsed" ELSE "good"
      [] t \in spent \ (file \cup exposed) -> "spent"
      [] OTHER -> IF t \in expired THEN "lapsed" ELSE "unissued"

Ledger == INSTANCE ApprovalLedger WITH
    standing <- [t \in Tokens |-> StandingOf(t)]

(* The kernel's view of approvals: all the processes with their copies and *)
(* replacements amount to one list from which each approval is taken once, *)
(* except the approvals at stake in a race; a race over one approval does  *)
(* no harm to another.                                                     *)
ImplementsLedger == Ledger!LedgerSpec
=============================================================================
