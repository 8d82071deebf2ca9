------------------------------ MODULE Activity -----------------------------
(***************************************************************************)
(* The audit trail of one workspace, a chain of hashes that several        *)
(* transactions append to, and the deliveries of its events to a webhook,  *)
(* which the same transactions queue and workers make later.  A hash is    *)
(* the number of its event: two chains are the same if their events are.   *)
(***************************************************************************)
EXTENDS Naturals, Sequences, FiniteSets

CONSTANTS
    Writers,        \* transactions that record an event
    Free,           \* the advisory lock of the trail when nobody holds it
    MaxEvents,      \* bound: values of audit_events.seq ever drawn
    PageSize,       \* events a page of verifyChain has
    MaxAttempts,    \* of a webhook.deliver job
    DisableAfter,   \* DISABLE_AFTER_FAILURES
    MaxSwitches     \* bound: changes an owner makes to the webhook

ASSUME BoundAssumption ==
    /\ MaxEvents \in Nat \ {0} /\ PageSize \in Nat
    /\ MaxAttempts \in Nat \ {0} /\ DisableAfter \in Nat \ {0}
ASSUME FreeAssumption == Free \notin Writers

VARIABLES
    trail,      \* rows of audit_events in the order of seq, rolled back ones too
    lock,       \* pg_advisory_xact_lock of the workspace's trail
    pc, head,   \* the step of each writer, and the hash it chains to
    reader,     \* verifyChain: the seq and hash it has come to
    hook,       \* the row of webhooks
    jobs,       \* webhook.deliver for each event, and the ping of an owner
    switches    \* what the owner did so far, up to MaxSwitches

vars == <<trail, lock, pc, head, reader, hook, jobs, switches>>
chain == <<trail, lock, pc, head>>
delivery == <<hook, jobs, switches>>

Seqs == 1..Len(trail)
Ping == 0

Committed(s) == trail[s].state = "committed"
Mine(w)      == {s \in Seqs : trail[s].state = "open" /\ trail[s].by = w}
Hashed(s)    == Committed(s) /\ trail[s].hashed

\* ORDER BY seq DESC LIMIT 1 among the rows with a hash a writer sees: those
\* committed and its own
Visible(w) == {s \in Seqs : trail[s].hashed /\ (Committed(s) \/ s \in Mine(w))}
Greatest(S) == IF S = {} THEN 0 ELSE CHOOSE s \in S : \A t \in S : t <= s

NoJob == [state |-> "none", attempts |-> 0, ok |-> FALSE]
Queued == [NoJob EXCEPT !.state = "queued"]

-----------------------------------------------------------------------------
(***************************************************************************)
(* write: insertChained and the jobs of the subscribers, in a transaction  *)
(***************************************************************************)

\* Mutation: no advisory lock.
LockTrail_Without(w) ==
    /\ pc[w] = "idle" /\ Len(trail) < MaxEvents
    /\ lock' = lock
    /\ pc' = [pc EXCEPT ![w] = "read"]
    /\ UNCHANGED <<trail, head, reader, delivery>>

LockTrail(w) ==
    /\ pc[w] = "idle" /\ Len(trail) < MaxEvents
    /\ lock = Free
    /\ lock' = w
    /\ pc' = [pc EXCEPT ![w] = "read"]
    /\ UNCHANGED <<trail, head, reader, delivery>>

\* A transaction may record more than one event.
RecordAgain(w) ==
    /\ pc[w] = "commit" /\ Len(trail) < MaxEvents
    /\ pc' = [pc EXCEPT ![w] = "read"]
    /\ UNCHANGED <<trail, lock, head, reader, delivery>>

ReadHead(w) ==
    /\ pc[w] = "read"
    /\ head' = [head EXCEPT ![w] = Greatest(Visible(w))]
    /\ pc' = [pc EXCEPT ![w] = "insert"]
    /\ UNCHANGED <<trail, lock, reader, delivery>>

\* The row takes the next seq; the webhook is a subscriber if it is on now.
InsertChained(w) ==
    /\ pc[w] = "insert" /\ Len(trail) < MaxEvents
    /\ trail' = Append(trail, [state |-> "open", by |-> w, hashed |-> TRUE, prev |-> head[w],
                               wanted |-> hook.state = "on"])
    /\ pc' = [pc EXCEPT ![w] = "commit"]
    /\ UNCHANGED <<lock, head, reader, delivery>>

End(w, how) ==
    /\ trail' = [s \in Seqs |->
                    IF s \in Mine(w) THEN [trail[s] EXCEPT !.state = how, !.by = Free]
                                     ELSE trail[s]]
    /\ lock' = IF lock = w THEN Free ELSE lock
    /\ pc' = [pc EXCEPT ![w] = "idle"]
    /\ head' = [head EXCEPT ![w] = 0]

Commit(w) ==
    /\ pc[w] = "commit"
    /\ End(w, "committed")
    /\ jobs' = [j \in DOMAIN jobs |-> IF j \in Mine(w) /\ trail[j].wanted THEN Queued ELSE jobs[j]]
    /\ UNCHANGED <<reader, hook, switches>>

\* Mutation: the jobs were queued outside of the transaction.
Rollback_JobsStay(w) ==
    /\ pc[w] # "idle"
    /\ End(w, "gone")
    /\ jobs' = [j \in DOMAIN jobs |-> IF j \in Mine(w) /\ trail[j].wanted THEN Queued ELSE jobs[j]]
    /\ UNCHANGED <<reader, hook, switches>>

\* recordAsync logs it, record fails the request.
Rollback(w) ==
    /\ pc[w] # "idle"
    /\ End(w, "gone")
    /\ UNCHANGED <<reader, delivery>>

(***************************************************************************)
(* verifyChain, over a replica that may lag                                *)
(***************************************************************************)

Fresh == [after |-> 0, previous |-> 0, intact |-> TRUE]

\* chainPage: the first rows after the cursor; a replica that lags has only the
\* first of them.
Page(n) ==
    LET rows == {s \in Seqs : s > reader.after /\ Committed(s)}
    IN  {s \in rows : Cardinality({t \in rows : t <= s}) <= n}

\* The hash of the last row with a hash before the one at s.
Previous(page, s) ==
    LET before == {t \in page : t < s /\ trail[t].hashed}
    IN  IF before = {} THEN reader.previous ELSE Greatest(before)

\* Mutation: an event without a hash starts the chain anew.
Follows_LegacyAnywhere(page, s) ==
    \/ ~ trail[s].hashed
    \/ trail[s].prev = Greatest({t \in page : t < s})

\* Rows without a hash come only before the first with one.
Follows(page, s) ==
    IF trail[s].hashed THEN trail[s].prev = Previous(page, s) ELSE Previous(page, s) = 0

ReadPage(n) ==
    LET page == Page(n)
        last == Greatest(page)
    IN  /\ reader.intact
        /\ reader' = IF page = {} THEN Fresh
                     ELSE IF \E s \in page : ~ Follows(page, s)
                       THEN [Fresh EXCEPT !.intact = FALSE]
                     ELSE [Fresh EXCEPT !.after = last, !.previous = Previous(page, last + 1)]
        /\ UNCHANGED <<chain, delivery>>

(***************************************************************************)
(* The webhook and its deliveries                                          *)
(***************************************************************************)

Switch(state, failures) ==
    /\ switches < MaxSwitches
    /\ switches' = switches + 1
    /\ hook' = [state |-> state, failures |-> failures]
    /\ UNCHANGED <<chain, reader, jobs>>

TurnOff == hook.state = "on" /\ Switch("off", hook.failures)
RemoveHook == hook.state # "gone" /\ Switch("gone", 0)

TurnOn == hook.state # "gone" /\ Switch("on", 0)

\* ping sends without a job, to a webhook that is off as well.
StartPing ==
    /\ hook.state # "gone" /\ jobs[Ping].state = "none" /\ switches < MaxSwitches
    /\ switches' = switches + 1
    /\ \E ok \in BOOLEAN :
           jobs' = [jobs EXCEPT ![Ping] = [state |-> "record", attempts |-> MaxAttempts, ok |-> ok]]
    /\ UNCHANGED <<chain, reader, hook>>

\* A job that is over is deleted; the outcome matters until it is counted.
InState(row, state) ==
    IF state \in {"none", "done", "skipped", "failed"}
      THEN [NoJob EXCEPT !.state = state]
      ELSE [row EXCEPT !.state = state, !.ok = row.ok /\ state = "count"]

Job(j, state) == jobs' = [jobs EXCEPT ![j] = InState(@, state)]


\* The job is claimed, deliver finds the webhook on and postJson is answered
\* with 2xx, or with an error, or not at all.
Deliver(j) ==
    /\ jobs[j].state = "queued"
    /\ IF hook.state = "on"
         THEN \E ok \in BOOLEAN :
                  jobs' = [jobs EXCEPT ![j].state = "record", ![j].attempts = @ + 1, ![j].ok = ok]
         ELSE Job(j, "skipped")
    /\ UNCHANGED <<chain, reader, hook, switches>>

\* A job that throws goes back until its attempts are used up.
Retried(j) == CASE j = Ping -> "none"
                [] j # Ping /\ jobs[j].attempts < MaxAttempts -> "queued"
                [] OTHER -> "failed"

\* recordDelivery: the row of a webhook that is gone is refused.
InsertDelivery(j) ==
    /\ jobs[j].state = "record"
    /\ Job(j, IF hook.state = "gone" THEN Retried(j) ELSE "count")
    /\ UNCHANGED <<chain, reader, hook, switches>>

Returned(j) == IF j = Ping THEN "none" ELSE "returned"

\* Mutation: any failed delivery ends its job.
AfterCount_NoRetry(j, now) == Returned(j)

\* A failure that leaves the webhook on is retried.
AfterCount(j, now) == IF jobs[j].ok \/ now # "on" THEN Returned(j) ELSE Retried(j)

\* ... then its counters, in a statement of their own.
CountDelivery(j) ==
    LET failures == IF jobs[j].ok THEN 0 ELSE hook.failures + 1
        now == IF hook.state = "on" /\ ~ jobs[j].ok /\ failures >= DisableAfter THEN "off"
                                                                               ELSE hook.state
    IN  /\ jobs[j].state = "count"
        /\ hook' = IF hook.state = "gone" THEN hook ELSE [state |-> now, failures |-> failures]
        /\ Job(j, AfterCount(j, now))
        /\ UNCHANGED <<chain, reader, switches>>

\* The queue deletes the job when its handler has returned.
EndDelivery(j) ==
    /\ jobs[j].state = "returned"
    /\ Job(j, "done")
    /\ UNCHANGED <<chain, reader, hook, switches>>

Running == {"record", "count", "returned"}

\* The worker dies: its reservation expires, and what was delivered and counted
\* is delivered and counted again.
Crash(j) ==
    /\ jobs[j].state \in Running
    /\ Job(j, Retried(j))
    /\ UNCHANGED <<chain, reader, hook, switches>>

-----------------------------------------------------------------------------

Legacy == [state |-> "committed", by |-> Free, hashed |-> FALSE, prev |-> 0, wanted |-> FALSE]

\* With or without an event from before there were hashes.
Init ==
    /\ trail \in {<<>>, <<Legacy>>}
    /\ lock = Free
    /\ pc = [w \in Writers |-> "idle"]
    /\ head = [w \in Writers |-> 0]
    /\ reader = Fresh
    /\ hook = [state |-> "on", failures |-> 0]
    /\ jobs = [j \in 0..MaxEvents |-> NoJob]
    /\ switches = 0

Work(j) == Deliver(j) \/ InsertDelivery(j) \/ CountDelivery(j) \/ EndDelivery(j)

Next ==
    \/ \E w \in Writers :
           \/ LockTrail(w) \/ ReadHead(w) \/ InsertChained(w) \/ RecordAgain(w)
           \/ Commit(w) \/ Rollback(w)
    \/ \E n \in 0..PageSize : ReadPage(n)
    \/ TurnOff \/ TurnOn \/ RemoveHook \/ StartPing
    \/ \E j \in 0..MaxEvents : Work(j) \/ Crash(j)

Safety == Init /\ [][Next]_vars

\* Workers run (see JobQueue).
Spec == Safety /\ \A j \in 0..MaxEvents : WF_vars(Work(j))

-----------------------------------------------------------------------------
(***************************************************************************)
(* Properties                                                              *)
(***************************************************************************)

Event == [state : {"open", "committed", "gone"}, by : Writers \cup {Free}, hashed : BOOLEAN,
          prev : 0..MaxEvents, wanted : BOOLEAN]

Delivery == [state : Running \cup {"none", "queued", "done", "skipped", "failed"},
             attempts : 0..MaxAttempts, ok : BOOLEAN]

\* Every variable has its type, and the lock is held by the transaction that
\* is between its first statement and its end.
TypeOK ==
    /\ trail \in Seq(Event) /\ Len(trail) <= MaxEvents
    /\ lock \in Writers \cup {Free}
    /\ pc \in [Writers -> {"idle", "read", "insert", "commit"}]
    /\ \A w \in Writers : lock = w <=> pc[w] # "idle"
    /\ head \in [Writers -> 0..MaxEvents]
    /\ hook \in [state : {"on", "off", "gone"}, failures : Nat]
    /\ jobs \in [0..MaxEvents -> Delivery]
    /\ reader \in [after : 0..MaxEvents, previous : 0..MaxEvents, intact : BOOLEAN]

\* The trail is locked by one transaction at a time, and each event chains to the
\* one before it, whoever wrote them and whatever was rolled back in between
\* (auditRepo.insertChained).
ChainLinear ==
    /\ TypeOK
    /\ \A s \in Seqs : Hashed(s) =>
           LET before == {t \in 1..(s - 1) : Hashed(t)}
           IN  IF before = {} THEN trail[s].prev = 0
               ELSE trail[s].prev \in before /\ \A t \in before : t <= trail[s].prev

\* A verification that runs while events are written, a page at a time, finds
\* an intact trail intact.
VerifierAgrees == reader.intact

\* The chain is one line, and is found to be one while it grows.
ChainSound == ChainLinear /\ VerifierAgrees

\* There is a delivery for an event exactly when the event is there and the
\* webhook asked for it when it was written.
DeliveriesMatchEvents ==
    \A j \in 1..MaxEvents :
        jobs[j].state # "none" <=> j \in Seqs /\ Committed(j) /\ trail[j].wanted

\* The job of a delivery is over only when its handler has returned, which it
\* does without the receiver's answer only if the webhook is off or gone when
\* the failure is counted; one is given up only with its attempts used up.
EndsForAReason ==
    [][\A j \in 1..MaxEvents : jobs'[j] # jobs[j] =>
           /\ jobs'[j].state = "returned" => jobs[j].ok \/ hook'.state # "on"
           /\ jobs'[j].state = "done" => jobs[j].state = "returned"
           /\ jobs'[j].state = "failed" => jobs[j].attempts = MaxAttempts]_vars


=============================================================================
