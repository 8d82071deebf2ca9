----------------------------- MODULE JobLedger -----------------------------
(***************************************************************************)
(* What the job queue promises to the rest of the system, with no workers, *)
(* leases, attempts or clock in it.                                        *)
(*                                                                         *)
(* A job is posted at most once per unfinished dedupe key, ends exactly    *)
(* once (its work was done, or it was put on the dead letter), stays as it *)
(* ended for as long as it is kept, and is eventually dropped by the       *)
(* retention sweep.  JobQueue implements this module when every handler    *)
(* finishes within the reservation its worker was given.                   *)
(***************************************************************************)

CONSTANTS
    Jobs,       \* identities of rows of the jobs table
    Keys,       \* dedupe keys
    NoKey       \* a job enqueued without a dedupe key

VARIABLE ledger \* [Jobs -> what an observer of the queue can rely on]

LedgerStates == {"absent", "open", "done", "dead"}

\* Not in the table.
Blank == [state |-> "absent", key |-> NoKey]

OpenWith(k) == {j \in Jobs : ledger[j].state = "open" /\ ledger[j].key = k}

(***************************************************************************)
(* Posting is collapsed when an open job already carries the key.          *)
(***************************************************************************)
Post(j, k) ==
    /\ ledger[j] = Blank
    /\ k # NoKey => OpenWith(k) = {}
    /\ ledger' = [ledger EXCEPT ![j] = [state |-> "open", key |-> k]]

Close(j, outcome) ==
    /\ ledger[j].state = "open"
    /\ ledger' = [ledger EXCEPT ![j].state = outcome]

Drop(j) ==
    /\ ledger[j].state \in {"done", "dead"}
    /\ ledger' = [ledger EXCEPT ![j] = Blank]

Init == ledger = [j \in Jobs |-> Blank]

Next == \E j \in Jobs :
            \/ \E k \in Keys \cup {NoKey} : Post(j, k)
            \/ Close(j, "done")
            \/ Close(j, "dead")
            \/ Drop(j)

\* Every open job is closed in the end: nothing is lost after a commit.
Spec == /\ Init
        /\ [][Next]_ledger
        /\ \A j \in Jobs : WF_ledger(Close(j, "done") \/ Close(j, "dead"))

=============================================================================
