--------------------------- MODULE ApprovalLedger ---------------------------
(***************************************************************************)
(* What one-time approvals promise, whatever number of processes share     *)
(* them: an approval is good from its publication until it is spent or its *)
(* time is over, it is spent at most once and never comes back, and at     *)
(* most one call is told that it has consumed it.  One step concerns one   *)
(* approval: none is lost, spent or revived by what happens to another.    *)
(* Only a race puts several at stake at once, and of these nothing is      *)
(* promised any more.  Approvals implements this specification;            *)
(* InvocationKernel relies on it for approvals that were never raced.      *)
(***************************************************************************)
EXTENDS Naturals

CONSTANT Tokens

VARIABLES
    standing,   \* standing[t]: what has become of approval t
    granted     \* granted[t]: how many calls were told they consumed it

ledgerVars == <<standing, granted>>

LedgerInit ==
    /\ standing = [t \in Tokens |-> "unissued"]
    /\ granted = [t \in Tokens |-> 0]

Turns(t, from, to) ==
    /\ standing[t] \in from
    /\ standing' = [standing EXCEPT ![t] = to]
    /\ UNCHANGED granted

Publish(t) == Turns(t, {"unissued"}, "good")

(* The time of an approval may be over before it is published.             *)
Lapse(t) == Turns(t, {"unissued", "good"}, "lapsed")

(* A consumer that found it good in time may be late to spend it.          *)
Spend(t) == Turns(t, {"good", "lapsed"}, "spent")

(* Replacements of two processes overlap: the approvals they touch.        *)
Race(S) ==
    /\ standing' = [t \in Tokens |-> IF t \in S THEN "raced" ELSE standing[t]]
    /\ UNCHANGED granted

(* A spent approval is granted once, or not at all if the consumer dies.   *)
Grant(t) ==
    /\ \/ standing[t] = "spent" /\ granted[t] = 0
       \/ standing[t] = "raced"
    /\ granted' = [granted EXCEPT ![t] = IF @ = 0 THEN 1 ELSE 2]
    /\ UNCHANGED standing

LedgerNext ==
    \/ \E t \in Tokens : Publish(t) \/ Lapse(t) \/ Spend(t) \/ Grant(t)
    \/ \E S \in SUBSET Tokens : Race(S)

LedgerSpec == LedgerInit /\ [][LedgerNext]_ledgerVars
=============================================================================
