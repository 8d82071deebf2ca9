----------------------------- MODULE Maintenance ---------------------------
(***************************************************************************)
(* The cleanup passes, and the rows they sweep while those are in use.     *)
(* Every instance may start a pass; an advisory lock that belongs to a     *)
(* database connection lets one run at a time.  What each step does to     *)
(* documents, uploads, jobs, webhooks and digests is in the modules of     *)
(* these; here are the order of the steps, the lock, and the sweeps of     *)
(* rows whose time is over, of which the counters of the rate limits are   *)
(* in use all the time.                                                    *)
(***************************************************************************)
EXTENDS Naturals, FiniteSets

CONSTANTS
    Instances,      \* API processes
    Connections,    \* of the pool they share
    None,
    Steps,          \* of a pass: the last one
    Sweep,          \* the step that deletes ended windows
    Limit, Window,  \* requests allowed in a window, and its length
    MaxTime,        \* bound: ticks of the clock
    MaxRequests,    \* bound: requests of the limited client
    MaxPasses,      \* bound: passes started
    MaxFaults       \* bound: connections lost and unlocks that fail

VARIABLES
    pass,           \* of each instance: the step it is at, the steps it has tried, its connection
    holder, depth,  \* the connection that has the advisory lock, and how often it took it
    broken,         \* connections that are lost, and the lock with them
    counter,        \* the row of rate_limits, with its count and the end of its window
    admitted,       \* when requests were let through
    clock, requests, passes, faults

vars == <<pass, holder, depth, broken, counter, admitted, clock, requests, passes, faults>>
bounds == <<requests, passes, faults>>

NoPass == [at |-> 0, tried |-> {}, on |-> None]
NoRow  == [count |-> 0, ends |-> 0]

Init ==
    /\ pass = [i \in Instances |-> NoPass]
    /\ holder = None /\ depth = 0 /\ broken = {}
    /\ counter = NoRow /\ admitted = {}
    /\ clock = 1 /\ requests = 0 /\ passes = 0 /\ faults = 0

(***************************************************************************)
(* A pass.                                                                 *)
(***************************************************************************)
InUse == {pass[i].on : i \in Instances}

\* pg_try_advisory_lock: a connection that has the lock gets it again.
Start(i) ==
    /\ pass[i] = NoPass /\ passes < MaxPasses
    /\ passes' = passes + 1
    /\ \E c \in Connections \ (InUse \cup broken) :
          IF holder \in {None, c}
          THEN /\ pass' = [pass EXCEPT ![i] = [at |-> 1, tried |-> {}, on |-> c]]
               /\ holder' = c /\ depth' = depth + 1
          ELSE UNCHANGED <<pass, holder, depth>>
    /\ UNCHANGED <<broken, counter, admitted, clock, requests, faults>>

Swept_Early == NoRow

\* DELETE FROM rate_limits WHERE window_ends_at < now()
Swept == IF counter.ends < clock THEN NoRow ELSE counter

\* A step is tried, and what it throws is logged.  Those that run on the pass's own connection
\* fail once it is lost; those that take one from the pool go on.
Step(i) ==
    /\ pass[i].at \in 1..Steps
    /\ \/ /\ pass[i].on \notin broken
          /\ counter' = IF pass[i].at = Sweep THEN Swept ELSE counter
       \/ UNCHANGED counter
    /\ pass' = [pass EXCEPT ![i].at = @ + 1, ![i].tried = @ \cup {pass[i].at}]
    /\ UNCHANGED <<holder, depth, broken, admitted, clock, bounds>>

\* pg_advisory_unlock undoes one pg_try_advisory_lock.
Released ==
    /\ depth' = depth - 1
    /\ holder' = IF depth = 1 THEN None ELSE holder

\* The lock is given back, unless that call fails too; the connection returns to the pool.
End(i) ==
    /\ pass[i].at = Steps + 1
    /\ pass' = [pass EXCEPT ![i] = [NoPass EXCEPT !.tried = pass[i].tried]]
    /\ \/ /\ IF holder = pass[i].on THEN Released ELSE UNCHANGED <<holder, depth>>
          /\ UNCHANGED faults
       \/ faults < MaxFaults /\ faults' = faults + 1 /\ UNCHANGED <<holder, depth>>
    /\ UNCHANGED <<broken, counter, admitted, clock, requests, passes>>

\* The next pass of an instance forgets the last.
Forget(i) ==
    /\ pass[i].at = 0 /\ pass[i] # NoPass
    /\ pass' = [pass EXCEPT ![i] = NoPass]
    /\ UNCHANGED <<holder, depth, broken, counter, admitted, clock, bounds>>

\* A session ends, in the middle of a pass or idle in the pool: its locks are free at once, and
\* a pass that has it finds out at its next query.
LoseConnection(c) ==
    /\ faults < MaxFaults /\ c \notin broken
    /\ faults' = faults + 1
    /\ broken' = broken \cup {c}
    /\ IF holder = c THEN holder' = None /\ depth' = 0 ELSE UNCHANGED <<holder, depth>>
    /\ UNCHANGED <<pass, counter, admitted, clock, requests, passes>>

Tick ==
    /\ clock < MaxTime
    /\ clock' = clock + 1
    /\ UNCHANGED <<pass, holder, depth, broken, counter, admitted, bounds>>

(***************************************************************************)
(* The rate limit: one statement counts a request or starts a new window.  *)
(***************************************************************************)
Counted ==
    IF counter.ends <= clock THEN [count |-> 1, ends |-> clock + Window]
    ELSE [counter EXCEPT !.count = @ + 1]

Request ==
    /\ requests < MaxRequests
    /\ requests' = requests + 1
    /\ counter' = Counted
    /\ admitted' = IF Counted.count <= Limit
                   THEN admitted \cup {[at |-> clock, ends |-> Counted.ends, nth |-> requests]}
                   ELSE admitted
    /\ UNCHANGED <<pass, holder, depth, broken, clock, passes, faults>>

Next ==
    \/ \E i \in Instances : Start(i) \/ Step(i) \/ End(i) \/ Forget(i)
    \/ \E c \in Connections : LoseConnection(c)
    \/ Tick \/ Request

Spec == Init /\ [][Next]_vars

(***************************************************************************)
(* Properties.                                                             *)
(***************************************************************************)
\* Two passes run at the same time only where the connection of one was lost under it, and a pass
\* that has ended has tried every step, whichever of them failed.
OnePass ==
    /\ \A i, j \in Instances : i # j /\ pass[i].at > 0 /\ pass[j].at > 0 =>
           pass[i].on \in broken \/ pass[j].on \in broken
    /\ \A i \in Instances : pass[i].at = 0 /\ pass[i] # NoPass => pass[i].tried = 1..Steps

\* In no window does a client get more requests through than the limit, and the windows of one
\* client do not overlap, though the sweep deletes the counter between requests.
LimitHolds ==
    /\ \A a \in admitted : Cardinality({b \in admitted : b.ends = a.ends}) <= Limit
    /\ \A a, b \in admitted : a.ends < b.ends => a.ends <= b.at

PassesSound == OnePass /\ LimitHolds

=============================================================================
