----------------------------- MODULE JobQueue ------------------------------
(***************************************************************************)
(* The durable job queue: rows of the jobs table, the workers that claim   *)
(* them with a time-limited reservation, and the callers that enqueue.     *)
(*                                                                         *)
(* Time is abstracted.  A row's run_at is either still ahead (due = FALSE) *)
(* or has passed, and among rows whose run_at has passed only the order    *)
(* matters (before).  A row's locked_until is ahead ("held"), has passed   *)
(* ("expired") or is NULL ("none").  One statement is one step, as         *)
(* PostgreSQL runs it.                                                     *)
(***************************************************************************)
EXTENDS Naturals, FiniteSets

CONSTANTS
    Jobs,           \* identities of rows
    Workers,        \* worker processes, each runs one job at a time
    Keys,           \* dedupe keys
    OnceKeys,       \* keys of scheduled slots (`once`, maxAttempts 1)
    NoKey,          \* no dedupe key
    NoJob,          \* an idle worker's job
    MaxAttempts,    \* max_attempts of a job that is not a slot's
    Faults,         \* the faults that may happen
    MaxFaults       \* bound: how many faults one behaviour has

ASSUME KeysAssumption    == OnceKeys \subseteq Keys /\ NoKey \notin Keys
ASSUME JobsAssumption    == NoJob \notin Jobs
ASSUME LimitAssumption   == MaxAttempts \in Nat \ {0} /\ MaxFaults \in Nat
ASSUME FaultsAssumption  == Faults \subseteq {"crash", "overrun", "lostAck"}

VARIABLES
    rows,       \* the jobs table
    before,     \* <<i, j>>: the run_at of i passed before the run_at of j
    worker,     \* what each worker process holds in memory
    closed,     \* slots whose time has passed; they are not scheduled again
    inserted,   \* how many jobs each slot has had over all time
    faults      \* faults so far

vars == <<rows, before, worker, closed, inserted, faults>>

-----------------------------------------------------------------------------

Absent == [status |-> "absent", key |-> NoKey, attempts |-> 0,
           lease |-> "none", due |-> FALSE]

Idle == [job |-> NoJob, attempt |-> 0, pc |-> "idle", reserved |-> FALSE]

Row == [status   : {"absent", "queued", "running", "done", "failed"},
        key      : Keys \cup {NoKey},
        attempts : Nat,
        lease    : {"none", "held", "expired"},
        due      : BOOLEAN]

WorkerState == [job      : Jobs \cup {NoJob},
                attempt  : Nat,
                pc       : {"idle", "handler", "threw"},
                reserved : BOOLEAN]

Unfinished == {"queued", "running"}

LimitOf(k) == IF k \in OnceKeys THEN 1 ELSE MaxAttempts

\* Mutation: the unique index covers queued rows only.
KeyTaken_QueuedOnly(k, j) ==
    /\ k # NoKey
    /\ \E i \in Jobs \ {j} : rows[i].key = k /\ rows[i].status = "queued"

\* The partial unique index over (queue, dedupe_key) of unfinished rows,
\* asked whether some row other than j already takes the key.
KeyTaken(k, j) ==
    /\ k # NoKey
    /\ \E i \in Jobs \ {j} : rows[i].key = k /\ rows[i].status \in Unfinished

KeyEverSeen(k) == \E i \in Jobs : rows[i].status # "absent" /\ rows[i].key = k

Holds(w, j) == worker[w].job = j

\* The pairs of `before` once the run_at of j has just passed: j is last.
JustDue(j) ==
    {p \in before : p[1] # j /\ p[2] # j}
        \cup {<<i, j>> : i \in {i \in Jobs \ {j} : rows[i].due}}

Forget(j) == {p \in before : p[1] # j /\ p[2] # j}

Fault(kind) ==
    /\ kind \in Faults
    /\ faults < MaxFaults
    /\ faults' = faults + 1

NoFault == UNCHANGED faults

-----------------------------------------------------------------------------
(***************************************************************************)
(* Callers                                                                 *)
(***************************************************************************)

\* Mutation: a slot is collapsed like any other key, without `once`.
MayInsert_NotOnce(j, k) == ~ KeyTaken(k, j)

\* INSERT ... WHERE NOT (once AND EXISTS ...) ON CONFLICT DO NOTHING.
MayInsert(j, k) ==
    /\ ~ KeyTaken(k, j)
    /\ k \in OnceKeys => ~ KeyEverSeen(k)

\* The job exists from the commit of the caller's transaction on.  Every
\* caller leaves runAt out, so the job is due at once.  A fresh uuid is any
\* identity that no row and no worker's memory holds.
Enqueue(j, k) ==
    /\ rows[j].status = "absent"
    /\ \A w \in Workers : ~ Holds(w, j)
    /\ k \notin closed
    /\ MayInsert(j, k)
    /\ rows' = [rows EXCEPT ![j] = [status |-> "queued", key |-> k,
                                    attempts |-> 0, lease |-> "none",
                                    due |-> TRUE]]
    /\ before' = JustDue(j)
    /\ inserted' = IF k \in OnceKeys
                   THEN [inserted EXCEPT ![k] = @ + 1]
                   ELSE inserted
    /\ UNCHANGED <<worker, closed>>
    /\ NoFault

\* The clock leaves a slot behind.
SlotPasses(k) ==
    /\ k \notin closed
    /\ closed' = closed \cup {k}
    /\ UNCHANGED <<rows, before, worker, inserted>>
    /\ NoFault

-----------------------------------------------------------------------------
(***************************************************************************)
(* The clock                                                               *)
(***************************************************************************)

\* run_at of a retried job passes.
BecomesDue(j) ==
    /\ rows[j].status = "queued"
    /\ ~ rows[j].due
    /\ rows' = [rows EXCEPT ![j].due = TRUE]
    /\ before' = JustDue(j)
    /\ UNCHANGED <<worker, closed, inserted>>
    /\ NoFault

\* The worker whose claim set the row's locked_until.
LeaseHolder(w, j) ==
    /\ Holds(w, j)
    /\ worker[w].attempt = rows[j].attempts

\* locked_until passes and the worker that claimed the row is gone.
LeaseExpires(j) ==
    /\ rows[j].status = "running"
    /\ rows[j].lease = "held"
    /\ \A w \in Workers : ~ LeaseHolder(w, j)
    /\ rows' = [rows EXCEPT ![j].lease = "expired"]
    /\ UNCHANGED <<before, worker, closed, inserted>>
    /\ NoFault

\* The handler of w is still running when the JOB_LOCK_MS it was given are
\* over: nothing renews the reservation.
Overrun(w) ==
    /\ Fault("overrun")
    /\ worker[w].reserved
    /\ worker' = [worker EXCEPT ![w].reserved = FALSE]
    /\ LET j == worker[w].job IN
       rows' = IF rows[j].status = "running" /\ LeaseHolder(w, j)
               THEN [rows EXCEPT ![j].lease = "expired"]
               ELSE rows
    /\ UNCHANGED <<before, closed, inserted>>

-----------------------------------------------------------------------------
(***************************************************************************)
(* Workers                                                                 *)
(***************************************************************************)

\* Mutations: locked_until is not looked at; failed rows are claimed as well.
Claimable_AnyRunning(j) ==
    \/ rows[j].status = "queued" /\ rows[j].due
    \/ rows[j].status = "running"

Claimable_Failed(j) ==
    \/ rows[j].status = "queued" /\ rows[j].due
    \/ rows[j].status = "running" /\ rows[j].lease = "expired"
    \/ rows[j].status = "failed"

Claimable(j) ==
    \/ rows[j].status = "queued" /\ rows[j].due
    \/ rows[j].status = "running" /\ rows[j].lease = "expired"

\* ORDER BY run_at LIMIT 1
NextInLine(j) ==
    /\ Claimable(j)
    /\ \A i \in Jobs : <<i, j>> \in before => ~ Claimable(i)

Claim(w) ==
    /\ worker[w].pc = "idle"
    /\ \E j \in Jobs :
        /\ NextInLine(j)
        /\ rows' = [rows EXCEPT ![j].status = "running",
                                ![j].attempts = @ + 1,
                                ![j].lease = "held"]
        /\ worker' = [worker EXCEPT ![w] =
                         [job |-> j, attempt |-> rows[j].attempts + 1,
                          pc |-> "handler", reserved |-> TRUE]]
    /\ UNCHANGED <<before, closed, inserted>>
    /\ NoFault

\* UPDATE jobs SET status = 'done' | 'failed', locked_until = NULL
\* WHERE id = $1, whatever the row's status; nothing reads the run_at of a
\* finished row, so it leaves `due` and `before`.
Finish(j, outcome) ==
    /\ rows' = IF rows[j].status = "absent" THEN rows
               ELSE [rows EXCEPT ![j].status = outcome,
                                 ![j].lease = "none",
                                 ![j].due = FALSE]
    /\ before' = Forget(j)

Succeed(w) ==
    /\ worker[w].pc = "handler"
    /\ Finish(worker[w].job, "done")
    /\ worker' = [worker EXCEPT ![w] = Idle]
    /\ UNCHANGED <<closed, inserted>>
    /\ NoFault

\* The handler throws, or the UPDATE of complete never reaches the database.
HandlerThrows(w) ==
    /\ worker[w].pc = "handler"
    /\ worker' = [worker EXCEPT ![w].pc = "threw"]
    /\ UNCHANGED <<rows, before, closed, inserted>>
    /\ NoFault

\* The UPDATE of complete commits but its answer is lost; complete is inside
\* the try, so the job is settled as a failure next.
LoseAck(w) ==
    /\ Fault("lostAck")
    /\ worker[w].pc = "handler"
    /\ Finish(worker[w].job, "done")
    /\ worker' = [worker EXCEPT ![w].pc = "threw"]
    /\ UNCHANGED <<closed, inserted>>

\* Mutation: off by one.
LastAttempt_OneMore(w) == worker[w].attempt > LimitOf(rows[worker[w].job].key)

\* The decision uses the row as it was when the worker claimed it.
LastAttempt(w) == worker[w].attempt >= LimitOf(rows[worker[w].job].key)

DeadLetter(w) ==
    /\ worker[w].pc = "threw"
    /\ LastAttempt(w)
    /\ Finish(worker[w].job, "failed")
    /\ worker' = [worker EXCEPT ![w] = Idle]
    /\ UNCHANGED <<closed, inserted>>
    /\ NoFault

\* UPDATE jobs SET status = 'queued', run_at = $3 ... WHERE id = $1; the
\* unique index refuses it when another unfinished row took the key, and the
\* error only reaches the worker's loop.
Retry(w) ==
    LET j == worker[w].job IN
    /\ worker[w].pc = "threw"
    /\ ~ LastAttempt(w)
    /\ IF rows[j].status = "absent" \/ KeyTaken(rows[j].key, j)
       THEN UNCHANGED <<rows, before>>
       ELSE /\ rows' = [rows EXCEPT ![j].status = "queued",
                                    ![j].due = FALSE,
                                    ![j].lease = "none"]
            /\ before' = Forget(j)
    /\ worker' = [worker EXCEPT ![w] = Idle]
    /\ UNCHANGED <<closed, inserted>>
    /\ NoFault

\* The process dies, or the statement that settles a failure is lost and the
\* error ends the pass: the row stays 'running' until its lease is over.
Abandon(w) ==
    /\ Fault("crash")
    /\ worker[w].pc # "idle"
    /\ worker' = [worker EXCEPT ![w] = Idle]
    /\ UNCHANGED <<rows, before, closed, inserted>>

\* Maintenance deletes finished rows after 7 or 30 days.  A slot is at most
\* a day long, so it has passed by then.
DeleteFinished(j) ==
    /\ rows[j].status \in {"done", "failed"}
    /\ rows[j].key \in OnceKeys => rows[j].key \in closed
    /\ rows' = [rows EXCEPT ![j] = Absent]
    /\ UNCHANGED <<before, worker, closed, inserted>>
    /\ NoFault

-----------------------------------------------------------------------------

Init ==
    /\ rows = [j \in Jobs |-> Absent]
    /\ before = {}
    /\ worker = [w \in Workers |-> Idle]
    /\ closed = {}
    /\ inserted = [k \in OnceKeys |-> 0]
    /\ faults = 0

Next ==
    \/ \E j \in Jobs : \/ \E k \in Keys \cup {NoKey} : Enqueue(j, k)
                       \/ BecomesDue(j)
                       \/ LeaseExpires(j)
                       \/ DeleteFinished(j)
    \/ \E k \in OnceKeys : SlotPasses(k)
    \/ \E w \in Workers : \/ Claim(w)
                          \/ Overrun(w)
                          \/ Succeed(w)
                          \/ HandlerThrows(w)
                          \/ LoseAck(w)
                          \/ DeadLetter(w)
                          \/ Retry(w)
                          \/ Abandon(w)

Safety == Init /\ [][Next]_vars

\* Time passes, and a worker that is up polls every second and finishes what
\* it started.  Nothing is assumed of callers, of faults or of retention.
Fairness ==
    /\ \A j \in Jobs : WF_vars(BecomesDue(j)) /\ WF_vars(LeaseExpires(j))
    /\ \A w \in Workers :
        /\ WF_vars(Claim(w))
        /\ WF_vars(Succeed(w) \/ HandlerThrows(w))
        /\ WF_vars(DeadLetter(w) \/ Retry(w))

Spec == Safety /\ Fairness

-----------------------------------------------------------------------------
(***************************************************************************)
(* Properties                                                              *)
(***************************************************************************)

\* Every row and every worker's memory is well formed, and locked_until is
\* set on exactly the running rows: claim sets it, and complete, retry and
\* fail all clear it.
TypeOK ==
    /\ rows \in [Jobs -> Row]
    /\ before \subseteq Jobs \X Jobs
    /\ worker \in [Workers -> WorkerState]
    /\ closed \subseteq OnceKeys
    /\ inserted \in [OnceKeys -> Nat]
    /\ faults \in 0..MaxFaults
    /\ \A j \in Jobs : rows[j].lease = "none" <=> rows[j].status # "running"
    /\ \A w \in Workers : /\ worker[w].job = NoJob <=> worker[w].pc = "idle"
                          /\ worker[w].reserved => worker[w].pc # "idle"

\* Whatever workers crash, overrun or lose, two unfinished jobs never share a
\* dedupe key ("At most one unfinished job per (queue, dedupe_key)",
\* 017_jobs.sql): a late retry that would bring a finished job back beside
\* its successor is refused.
DedupeUnique ==
    \A i, j \in Jobs :
        /\ rows[i].status \in Unfinished
        /\ rows[j].status \in Unfinished
        /\ rows[i].key = rows[j].key
        /\ rows[i].key # NoKey
        => i = j

\* "Maintenance runs once per interval across all workers" (worker.ts:42):
\* over its whole life a slot gets one job, however many workers schedule it
\* and however early its job finishes and is deleted.
SlotScheduledOnce == \A k \in OnceKeys : inserted[k] <= 1

\* While the reservation of a claim is running, no other worker holds a
\* reservation of the same job ("How long a claimed job is reserved before
\* another worker may assume its worker died", queue.ts:43).
ReservationExclusive ==
    \A v, w \in Workers :
        /\ worker[v].reserved
        /\ worker[w].reserved
        /\ worker[v].job = worker[w].job
        => v = w

\* A job is started more often than max_attempts allows only as often as a
\* fault took a started attempt away: no attempt is counted twice and none
\* goes uncounted (the retry decision of runReady uses the claim's count).
AttemptsBounded ==
    \A j \in Jobs : rows[j].attempts <= LimitOf(rows[j].key) + faults

\* A failed job is never queued or running again ("Dead letter: kept with its
\* error for inspection, never retried automatically", jobs.repo.ts:73).
DeadLetterNeverRetried ==
    [][\A j \in Jobs : rows[j].status = "failed"
            => rows'[j].status \notin Unfinished]_vars

(***************************************************************************)
(* The queue implements JobLedger when handlers stay inside their lease    *)
(* and answers are not lost.                                               *)
(***************************************************************************)
LedgerStateOf(status) ==
    CASE status = "absent"      -> "absent"
      [] status \in Unfinished  -> "open"
      [] status = "done"        -> "done"
      [] status = "failed"      -> "dead"

LedgerView == [j \in Jobs |-> [state |-> LedgerStateOf(rows[j].status),
                               key   |-> rows[j].key]]

Ledger == INSTANCE JobLedger WITH ledger <- LedgerView

\* Claims, retries, crashes and takeovers are invisible to an observer of the
\* ledger; a job is closed once, and always in the end.
ImplementsLedger == Ledger!Spec

(***************************************************************************)
(* Strengthenings the proofs of JobQueueProofs rest on.                    *)
(***************************************************************************)

\* A slot that has had its job still shows it, until the slot has passed.
SlotAccounted ==
    \A k \in OnceKeys :
        /\ inserted[k] <= 1
        /\ inserted[k] = 1 /\ k \notin closed => KeyEverSeen(k)

\* With crashes only: who handles a job is its only handler, holds the
\* lease, and made the last claim.
SoleHandler ==
    /\ \A w \in Workers : worker[w].job # NoJob =>
            /\ rows[worker[w].job].status = "running"
            /\ rows[worker[w].job].lease = "held"
            /\ LeaseHolder(w, worker[w].job)
    /\ \A v, w \in Workers :
            worker[v].job = worker[w].job /\ worker[v].job # NoJob => v = w
    /\ \A j \in Jobs : rows[j].status = "absent" => rows[j] = Absent

\* With crashes only: a job nobody handles has an attempt left, counting the
\* attempts that crashes took.
AttemptsAccounted ==
    \A j \in Jobs :
        LET limit == LimitOf(rows[j].key) + faults IN
        /\ rows[j].attempts <= limit
        /\ rows[j].status \in Unfinished /\ (\A w \in Workers : ~ Holds(w, j))
                => rows[j].attempts < limit

=============================================================================
