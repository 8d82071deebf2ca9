--------------------------- MODULE ActivityProofs --------------------------
(***************************************************************************)
(* Proofs about Activity, for any number of writers and events, any size   *)
(* of page and any number of attempts.                                     *)
(***************************************************************************)
EXTENDS Activity, Inbox, FiniteSetTheorems, SequenceTheorems, WellFoundedInduction, TLAPS

USE BoundAssumption, TriesAssumption

-----------------------------------------------------------------------------
(***************************************************************************)
(* The greatest element of a set of sequence numbers.  That it exists      *)
(* follows from the natural numbers being well founded: the set of upper   *)
(* bounds has a least element.                                             *)
(***************************************************************************)

LessThan == {p \in Nat \X Nat : p[1] < p[2]}

LEMMA LessThanWellFounded == IsWellFoundedOn(LessThan, Nat)
  BY NatLessThanWellFounded DEF OpToRel, LessThan

LEMMA LeastExists ==
    ASSUME NEW T \in SUBSET Nat, T # {}
    PROVE  \E m \in T : \A k \in T : m <= k
  <1>1. PICK m \in T : \A k \in T : ~ (<<k, m>> \in LessThan)
    BY LessThanWellFounded, WFMin
  <1>2. \A k \in T : ~ (k < m)
    BY <1>1 DEF LessThan
  <1>3. QED
    BY <1>2

LEMMA GreatestIn ==
    ASSUME NEW n \in Nat, NEW S \in SUBSET (1..n), S # {}
    PROVE  Greatest(S) \in S /\ \A t \in S : t <= Greatest(S)
  <1> DEFINE T == {m \in Nat : \A s \in S : s <= m}
  <1>1. n \in T /\ T \in SUBSET Nat
    OBVIOUS
  <1>2. PICK m \in T : \A k \in T : m <= k
    BY <1>1, LeastExists
  <1>3. m \in Nat /\ \A s \in S : s \in Nat /\ 1 <= s /\ s <= m
    BY <1>2
  <1>4. m \in S
    <2>1. SUFFICES ASSUME m \notin S PROVE FALSE
      OBVIOUS
    <2>2. m - 1 \in Nat /\ m - 1 < m
      <3>1. PICK s \in S : TRUE
        OBVIOUS
      <3>2. 1 <= s /\ s <= m /\ s \in Nat
        BY <1>3, <3>1
      <3>3. QED
        BY <1>3, <3>2
    <2>3. \A s \in S : s <= m - 1
      BY <1>3, <2>1
    <2>4. m - 1 \in T
      BY <2>2, <2>3
    <2>5. QED
      BY <1>2, <1>3, <2>2, <2>4
  <1>5. \E s \in S : \A t \in S : t <= s
    BY <1>3, <1>4
  <1>6. QED
    BY <1>5 DEF Greatest

LEMMA GreatestEmpty == Greatest({}) = 0
  BY DEF Greatest

LEMMA GreatestType ==
    ASSUME NEW n \in Nat, NEW S \in SUBSET (1..n)
    PROVE  Greatest(S) \in 0..n
  <1>1. CASE S = {}
    BY <1>1, GreatestEmpty
  <1>2. CASE S # {}
    <2>1. Greatest(S) \in S
      BY <1>2, GreatestIn
    <2>2. \A s \in S : s \in 0..n
      OBVIOUS
    <2>3. QED
      BY <2>1, <2>2
  <1>3. QED
    BY <1>1, <1>2

\* What lies below an element of both sets does not matter.
LEMMA GreatestOfUpper ==
    ASSUME NEW n \in Nat, NEW S \in SUBSET (1..n), NEW U \in SUBSET S, NEW k \in Nat,
           U # {}, \A s \in S : s \in U \/ s <= k, \A u \in U : k < u
    PROVE  Greatest(S) = Greatest(U)
  <1>1. /\ Greatest(S) \in S /\ \A t \in S : t <= Greatest(S)
        /\ Greatest(U) \in U /\ \A t \in U : t <= Greatest(U)
    BY GreatestIn
  <1>2. Greatest(U) \in S /\ Greatest(U) \in Nat /\ Greatest(S) \in Nat
    <2>1. S \subseteq Nat /\ U \subseteq S
      OBVIOUS
    <2>2. QED
      BY <1>1, <2>1
  <1>3. Greatest(U) <= Greatest(S) /\ k < Greatest(U)
    BY <1>1, <1>2
  <1>4. Greatest(S) \in U
    <2>1. ~ (Greatest(S) <= k)
      BY <1>2, <1>3
    <2>2. QED
      BY <1>1, <2>1
  <1>5. Greatest(S) <= Greatest(U)
    BY <1>1, <1>4
  <1>6. QED
    BY <1>2, <1>3, <1>5

-----------------------------------------------------------------------------
(***************************************************************************)
(* The inductive invariant                                                 *)
(***************************************************************************)

\* What writers see of each other's rows, one transaction being open at a time.
Live(s) == trail[s].hashed /\ trail[s].state # "gone"
LiveBefore(s) == {t \in 1..(s - 1) : Live(t)}

\* Uncommitted rows are those of the transaction that holds the lock, and come
\* after every committed one.
OpenInv ==
    \A s \in Seqs : trail[s].state = "open" =>
        /\ trail[s].by = lock /\ lock # Free
        /\ \A t \in Seqs : t > s => ~ Committed(t)

\* A row without a hash is older than the chain.
LegacyInv == \A s \in Seqs : ~ trail[s].hashed => s = 1

HeadInv == \A w \in Writers : pc[w] = "insert" => head[w] = Greatest({s \in Seqs : Live(s)})

\* Uncommitted rows chain as well as committed ones.
PrevInv == \A s \in Seqs : Live(s) => trail[s].prev = Greatest(LiveBefore(s))

TrailInv == OpenInv /\ LegacyInv /\ HeadInv /\ PrevInv

\* The verification has come to a committed row and holds the hash of the last
\* one up to there: no row is committed below its cursor any more.
ReaderInv ==
    /\ reader.intact
    /\ reader.after = 0 \/ (reader.after \in Seqs /\ Committed(reader.after))
    /\ reader.previous = Greatest({t \in Seqs : Hashed(t) /\ t <= reader.after})

\* A job that waits for a worker has attempts left.
QueuedInv == \A j \in 0..MaxEvents : jobs[j].state = "queued" => jobs[j].attempts < MaxAttempts

IInv == TypeOK /\ TrailInv /\ ReaderInv /\ QueuedInv /\ DeliveriesMatchEvents

LEMMA TrailType ==
    ASSUME TypeOK
    PROVE  /\ Len(trail) \in Nat /\ Len(trail) <= MaxEvents
           /\ Seqs = 1..Len(trail) /\ Seqs \subseteq 1..MaxEvents
           /\ \A s \in Seqs : trail[s] \in Event
           /\ DOMAIN trail = Seqs
  BY DEF TypeOK, Seqs

LEMMA InitHolds == Init => IInv
  <1> SUFFICES ASSUME Init PROVE IInv
    OBVIOUS
  <1>1. Legacy \in Event
    BY FreeAssumption DEF Legacy, Event
  <1>2. trail \in Seq(Event) /\ Len(trail) <= MaxEvents
    <2>1. CASE trail = <<>>
      BY <2>1
    <2>2. CASE trail = <<Legacy>>
      BY <1>1, <2>2
    <2>3. QED
      BY <2>1, <2>2 DEF Init
  <1>3. NoJob \in Delivery
    BY DEF NoJob, Delivery
  <1>4. TypeOK
    BY <1>2, <1>3, FreeAssumption DEF Init, TypeOK, Fresh
  <1>5. Seqs = {} \/ (Seqs = {1} /\ trail[1] = Legacy)
    <2>1. CASE trail = <<>>
      <3>1. Len(trail) = 0
        BY <2>1
      <3>2. \A s \in Seqs : FALSE
        BY <3>1 DEF Seqs
      <3>3. Seqs = {}
        BY <3>2
      <3>4. QED
        BY <3>3
    <2>2. CASE trail = <<Legacy>>
      <3>1. Len(trail) = 1 /\ trail[1] = Legacy
        BY <2>2
      <3>2. QED
        BY <3>1 DEF Seqs
    <2>3. QED
      BY <2>1, <2>2 DEF Init
  <1>6. \A s \in Seqs : s = 1 /\ trail[s].state = "committed" /\ ~ trail[s].hashed
                        /\ ~ trail[s].wanted
    BY <1>5 DEF Legacy
  <1>7. TrailInv
    BY <1>6 DEF Init, TrailInv, OpenInv, LegacyInv, HeadInv, PrevInv, Live
  <1>8. {t \in Seqs : Hashed(t) /\ t <= reader.after} = {}
    BY <1>6 DEF Hashed
  <1>9. ReaderInv
    BY <1>8, GreatestEmpty DEF Init, ReaderInv, Fresh
  <1>10. QueuedInv /\ DeliveriesMatchEvents
    BY <1>6 DEF Init, QueuedInv, DeliveriesMatchEvents, NoJob
  <1>11. QED
    BY <1>4, <1>7, <1>9, <1>10 DEF IInv

-----------------------------------------------------------------------------
(***************************************************************************)
(* What the steps do to the trail                                          *)
(***************************************************************************)

\* Whoever is between the first statement and the end of its transaction is the
\* only one.
LEMMA HolderAlone ==
    ASSUME TypeOK, NEW w \in Writers, pc[w] # "idle"
    PROVE  lock = w /\ \A v \in Writers \ {w} : pc[v] = "idle"
  BY DEF TypeOK

\* InsertChained adds one row at the end.
LEMMA InsertEffect ==
    ASSUME TypeOK, NEW w \in Writers, InsertChained(w)
    PROVE  LET n == Len(trail) + 1
           IN  /\ trail' \in Seq(Event) /\ Len(trail') = n /\ n <= MaxEvents
               /\ Seqs' = Seqs \cup {n} /\ n \notin Seqs
               /\ \A s \in Seqs : trail'[s] = trail[s] /\ s < n
               /\ trail'[n].state = "open" /\ trail'[n].by = w /\ trail'[n].hashed
               /\ trail'[n].prev = head[w]
  <1> DEFINE row == [state |-> "open", by |-> w, hashed |-> TRUE, prev |-> head[w],
                     wanted |-> hook.state = "on"]
  <1>1. row \in Event
    BY DEF TypeOK, Event
  <1>2. /\ row.state = "open" /\ row.by = w /\ row.hashed /\ row.prev = head[w]
    OBVIOUS
  <1>3. trail' = Append(trail, row) /\ Len(trail) < MaxEvents
    BY DEF InsertChained
  <1> HIDE DEF row
  <1>4. trail \in Seq(Event) /\ Len(trail) \in Nat
    BY DEF TypeOK
  <1>5. /\ trail' \in Seq(Event) /\ Len(trail') = Len(trail) + 1
        /\ \A s \in 1..Len(trail) : trail'[s] = trail[s]
        /\ trail'[Len(trail) + 1] = row
    BY <1>1, <1>3, <1>4
  <1>6. Seqs' = Seqs \cup {Len(trail) + 1} /\ Len(trail) + 1 \notin Seqs
    BY <1>4, <1>5 DEF Seqs
  <1>7. QED
    BY <1>2, <1>3, <1>4, <1>5, <1>6 DEF Seqs

\* A transaction that ends changes the state of its rows only, and leaves none
\* that is open.
LEMMA EndEffect ==
    ASSUME TypeOK, OpenInv, NEW w \in Writers, pc[w] # "idle",
           NEW how \in {"committed", "gone"}, End(w, how)
    PROVE  /\ trail' \in Seq(Event) /\ Len(trail') = Len(trail) /\ Seqs' = Seqs
           /\ lock' = Free /\ pc' = [pc EXCEPT ![w] = "idle"] /\ head' = [head EXCEPT ![w] = 0]
           /\ \A s \in Seqs :
                  /\ trail'[s].hashed = trail[s].hashed /\ trail'[s].prev = trail[s].prev
                  /\ trail'[s].wanted = trail[s].wanted
                  /\ trail'[s].state = IF trail[s].state = "open" THEN how ELSE trail[s].state
           /\ Mine(w) = {s \in Seqs : trail[s].state = "open"}
  <1>1. lock = w
    BY HolderAlone
  <1>2. Mine(w) = {s \in Seqs : trail[s].state = "open"}
    BY <1>1 DEF OpenInv, Mine
  <1> DEFINE Closed(s) == [trail[s] EXCEPT !.state = how, !.by = Free]
  <1>3. trail' = [s \in Seqs |-> IF s \in Mine(w) THEN Closed(s) ELSE trail[s]]
    BY Zenon DEF End
  <1>4. Len(trail) \in Nat /\ Seqs = 1..Len(trail) /\ \A s \in Seqs : trail[s] \in Event
    BY TrailType
  <1>5. ASSUME NEW s \in Seqs
        PROVE  /\ Closed(s) \in Event /\ Closed(s).state = how
               /\ Closed(s).hashed = trail[s].hashed /\ Closed(s).prev = trail[s].prev
               /\ Closed(s).wanted = trail[s].wanted
    <2>1. trail[s] \in Event
      BY <1>4
    <2>2. QED
      BY <2>1 DEF Event
  <1> HIDE DEF Closed
  <1>6. ASSUME NEW s \in Seqs
        PROVE  /\ trail'[s] \in Event
               /\ trail'[s].hashed = trail[s].hashed /\ trail'[s].prev = trail[s].prev
               /\ trail'[s].wanted = trail[s].wanted
               /\ trail'[s].state = IF trail[s].state = "open" THEN how ELSE trail[s].state
    <2>1. trail'[s] = IF trail[s].state = "open" THEN Closed(s) ELSE trail[s]
      BY <1>2, <1>3
    <2>2. QED
      BY <1>4, <1>5, <2>1
  <1>7. trail' \in [1..Len(trail) -> Event]
    BY <1>3, <1>4, <1>6
  <1>8. trail' \in Seq(Event) /\ Len(trail') = Len(trail)
    BY <1>4, <1>7
  <1>9. Seqs' = Seqs
    BY <1>8 DEF Seqs
  <1>10. lock' = Free /\ pc' = [pc EXCEPT ![w] = "idle"] /\ head' = [head EXCEPT ![w] = 0]
    <2>1. lock' = IF lock = w THEN Free ELSE lock
      BY Zenon DEF End
    <2>2. pc' = [pc EXCEPT ![w] = "idle"]
      BY Zenon DEF End
    <2>3. head' = [head EXCEPT ![w] = 0]
      BY Zenon DEF End
    <2>4. QED
      BY <1>1, <2>1, <2>2, <2>3
  <1>11. QED
    BY <1>2, <1>6, <1>8, <1>9, <1>10

-----------------------------------------------------------------------------
(***************************************************************************)
(* Types                                                                   *)
(***************************************************************************)

LEMMA QueuedType ==
    /\ Queued \in Delivery /\ Queued.state = "queued" /\ Queued.attempts = 0
    /\ NoJob \in Delivery /\ NoJob.attempts = 0
  <1>1. NoJob \in Delivery /\ NoJob.attempts = 0
    BY DEF NoJob, Delivery
  <1>2. /\ Queued \in Delivery /\ Queued.state = "queued"
        /\ Queued.attempts = NoJob.attempts
    BY <1>1 DEF Queued, Delivery
  <1>3. QED
    BY <1>1, <1>2

\* Job replaces the row of one job and gives it the state it says.
LEMMA JobEffect ==
    ASSUME TypeOK, NEW j \in 0..MaxEvents,
           NEW state \in Running \cup {"none", "queued", "done", "skipped", "failed"},
           Job(j, state)
    PROVE  /\ jobs' \in [0..MaxEvents -> Delivery] /\ jobs'[j].state = state
           /\ state \in Running \cup {"queued"} => jobs'[j].attempts = jobs[j].attempts
           /\ \A k \in (0..MaxEvents) \ {j} : jobs'[k] = jobs[k]
  <1>1. jobs \in [0..MaxEvents -> Delivery] /\ jobs[j] \in Delivery
    BY DEF TypeOK
  <1> DEFINE row == InState(jobs[j], state)
  <1>2. /\ row \in Delivery /\ row.state = state
        /\ state \in Running \cup {"queued"} => row.attempts = jobs[j].attempts
    <2>1. CASE state \in {"none", "done", "skipped", "failed"}
      <3>1. row = [NoJob EXCEPT !.state = state]
        BY <2>1 DEF InState
      <3>2. state \notin Running \cup {"queued"}
        BY <2>1 DEF Running
      <3>3. QED
        BY <2>1, <3>1, <3>2, QueuedType DEF Delivery
    <2>2. CASE state \notin {"none", "done", "skipped", "failed"}
      <3>1. PICK ok \in BOOLEAN : row = [jobs[j] EXCEPT !.state = state, !.ok = ok]
        BY <1>1, <2>2 DEF InState, Delivery
      <3>2. QED
        BY <1>1, <3>1 DEF Delivery
    <2>3. QED
      BY <2>1, <2>2
  <1> HIDE DEF row
  <1>3. jobs' = [jobs EXCEPT ![j] = row]
    BY <1>1 DEF Job, row
  <1>4. QED
    BY <1>1, <1>2, <1>3

\* Deliver claims a job that is queued and counts the attempt.
LEMMA DeliverEffect ==
    ASSUME TypeOK, QueuedInv, NEW j \in 0..MaxEvents, Deliver(j)
    PROVE  /\ jobs' \in [0..MaxEvents -> Delivery] /\ jobs[j].state = "queued"
           /\ jobs'[j].state \in {"record", "skipped"}
           /\ \A k \in (0..MaxEvents) \ {j} : jobs'[k] = jobs[k]
  <1>1. j \in 0..MaxEvents /\ jobs[j] \in Delivery /\ jobs \in [0..MaxEvents -> Delivery]
    BY DEF TypeOK
  <1>2. jobs[j].state = "queued"
    BY DEF Deliver
  <1>3. CASE hook.state = "on"
    <2>1. PICK ok \in BOOLEAN :
              jobs' = [jobs EXCEPT ![j].state = "record", ![j].attempts = @ + 1, ![j].ok = ok]
      BY <1>3 DEF Deliver
    <2>2. jobs[j].attempts \in Nat /\ jobs[j].attempts < MaxAttempts
      BY <1>1, <1>2 DEF QueuedInv, Delivery
    <2>3. jobs[j].attempts + 1 \in 0..MaxAttempts
      BY <2>2
    <2>4. /\ jobs'[j] = [jobs[j] EXCEPT !.state = "record", !.attempts = @ + 1, !.ok = ok]
          /\ \A k \in (0..MaxEvents) \ {j} : jobs'[k] = jobs[k]
          /\ jobs' = [jobs EXCEPT ![j] = jobs'[j]]
      BY <1>1, <2>1
    <2>5. jobs'[j] \in Delivery /\ jobs'[j].state = "record"
      BY <1>1, <2>3, <2>4 DEF Delivery, Running
    <2>6. QED
      BY <1>1, <1>2, <2>4, <2>5
  <1>4. CASE hook.state # "on"
    <2>1. Job(j, "skipped")
      BY <1>4 DEF Deliver
    <2>2. QED
      BY <1>1, <1>2, <2>1, JobEffect
  <1>5. QED
    BY <1>3, <1>4

\* A job that goes back to the queue has an attempt left, and one that does not
\* has had them all.
LEMMA RetriedCases ==
    ASSUME TypeOK, NEW j \in 0..MaxEvents
    PROVE  \/ j = Ping /\ Retried(j) = "none"
           \/ j # Ping /\ Retried(j) = "queued" /\ jobs[j].attempts < MaxAttempts
           \/ j # Ping /\ Retried(j) = "failed" /\ jobs[j].attempts = MaxAttempts
  <1>1. jobs[j].attempts \in 0..MaxAttempts
    BY DEF TypeOK, Delivery
  <1>2. QED
    BY <1>1 DEF Retried

\* How a job that runs goes on, and why it ends if it does.
GoesOn(j) ==
    /\ jobs' \in [0..MaxEvents -> Delivery]
    /\ jobs[j].state \in Running
    /\ j = Ping \/ jobs'[j].state # "none"
    /\ jobs'[j].state = "queued" => jobs'[j].attempts < MaxAttempts
    /\ jobs[j].state # "returned" /\ jobs'[j].state = "returned" =>
           jobs[j].ok \/ hook'.state # "on"
    /\ jobs'[j].state = "done" => jobs[j].state = "returned"
    /\ jobs'[j].state = "failed" => jobs[j].attempts = MaxAttempts
    /\ jobs'[j].state # jobs[j].state
    /\ \A k \in (0..MaxEvents) \ {j} : jobs'[k] = jobs[k]

LEMMA InsertDeliveryEffect ==
    ASSUME TypeOK, NEW j \in 0..MaxEvents, InsertDelivery(j)
    PROVE  GoesOn(j) /\ UNCHANGED hook
  <1>1. jobs[j].state = "record" /\ UNCHANGED hook
    BY DEF InsertDelivery
  <1>2. CASE hook.state = "gone"
    <2>1. Job(j, Retried(j))
      BY <1>2 DEF InsertDelivery
    <2>2. QED
      BY <1>1, <1>2, <2>1, RetriedCases, JobEffect DEF GoesOn, Running
  <1>3. CASE hook.state # "gone"
    <2>1. Job(j, "count")
      BY <1>3 DEF InsertDelivery
    <2>2. QED
      BY <1>1, <2>1, JobEffect DEF GoesOn, Running
  <1>4. QED
    BY <1>2, <1>3

LEMMA CountEffect ==
    ASSUME TypeOK, NEW j \in 0..MaxEvents, CountDelivery(j)
    PROVE  GoesOn(j) /\ hook' \in [state : {"on", "off", "gone"}, failures : Nat]
  <1> DEFINE count == IF jobs[j].ok THEN 0 ELSE hook.failures + 1
             now == IF hook.state = "on" /\ ~ jobs[j].ok /\ count >= DisableAfter
                      THEN "off" ELSE hook.state
  <1>1. /\ jobs[j].state = "count" /\ Job(j, AfterCount(j, now))
        /\ hook' = IF hook.state = "gone" THEN hook ELSE [state |-> now, failures |-> count]
    BY DEF CountDelivery
  <1>2. /\ hook \in [state : {"on", "off", "gone"}, failures : Nat]
        /\ jobs[j].ok \in BOOLEAN
    BY DEF TypeOK, Delivery
  <1>3. count \in Nat /\ now \in {"on", "off", "gone"}
    BY <1>2
  <1>4. hook' \in [state : {"on", "off", "gone"}, failures : Nat] /\ hook'.state = now
    <2>1. CASE hook.state = "gone"
      BY <1>1, <1>2, <2>1
    <2>2. CASE hook.state # "gone"
      BY <1>1, <1>3, <2>2
    <2>3. QED
      BY <2>1, <2>2
  <1> HIDE DEF count, now
  <1>5. CASE jobs[j].ok \/ now # "on"
    <2>1. /\ Job(j, Returned(j)) /\ Returned(j) \in {"none", "returned"}
          /\ Returned(j) = "none" => j = Ping
      BY <1>1, <1>5 DEF AfterCount, Returned
    <2>2. QED
      BY <1>1, <1>4, <1>5, <2>1, JobEffect DEF GoesOn, Running
  <1>6. CASE ~ (jobs[j].ok \/ now # "on")
    <2>1. Job(j, Retried(j))
      BY <1>1, <1>6 DEF AfterCount
    <2>2. QED
      BY <1>1, <1>4, <2>1, RetriedCases, JobEffect DEF GoesOn, Running
  <1>7. QED
    BY <1>5, <1>6

LEMMA EndDeliveryEffect ==
    ASSUME TypeOK, NEW j \in 0..MaxEvents, EndDelivery(j)
    PROVE  GoesOn(j) /\ UNCHANGED hook
  <1>1. jobs[j].state = "returned" /\ UNCHANGED hook /\ Job(j, "done")
    BY DEF EndDelivery
  <1>2. QED
    BY <1>1, JobEffect DEF GoesOn, Running

LEMMA CrashEffect ==
    ASSUME TypeOK, NEW j \in 0..MaxEvents, Crash(j)
    PROVE  GoesOn(j) /\ UNCHANGED hook
  <1>1. jobs[j].state \in Running /\ Job(j, Retried(j)) /\ UNCHANGED hook
    BY DEF Crash
  <1>2. QED
    BY <1>1, RetriedCases, JobEffect DEF GoesOn, Running

\* The steps that write to the trail, and those that leave it alone.
LEMMA Kinds ==
    ASSUME [Next]_vars
    PROVE  \/ \E w \in Writers : LockTrail(w) \/ ReadHead(w) \/ InsertChained(w)
                                 \/ RecordAgain(w) \/ Commit(w) \/ Rollback(w)
           \/ \E n \in 0..PageSize : ReadPage(n)
           \/ UNCHANGED <<chain, reader>> /\ \E state \in {"on", "off", "gone"}, f \in {hook.failures, 0} :
                                                 Switch(state, f)
           \/ StartPing
           \/ \E j \in 0..MaxEvents : Deliver(j) \/ InsertDelivery(j) \/ CountDelivery(j) \/ EndDelivery(j) \/ Crash(j)
           \/ UNCHANGED vars
  BY DEF Next, Work, TurnOff, TurnOn, RemoveHook, Switch

LEMMA TypeStep ==
    ASSUME TypeOK, QueuedInv, OpenInv, [Next]_vars
    PROVE  TypeOK'
  <1>1. ASSUME NEW w \in Writers, LockTrail(w) PROVE TypeOK'
    BY <1>1, FreeAssumption DEF LockTrail, TypeOK, delivery
  <1>2. ASSUME NEW w \in Writers, ReadHead(w) PROVE TypeOK'
    <2>1. Visible(w) \subseteq 1..MaxEvents
      BY TrailType DEF Visible, Mine
    <2>2. Greatest(Visible(w)) \in 0..MaxEvents
      BY <2>1, GreatestType
    <2>3. QED
      BY <1>2, <2>2 DEF ReadHead, TypeOK, delivery
  <1>3. ASSUME NEW w \in Writers, InsertChained(w) PROVE TypeOK'
    <2>1. trail' \in Seq(Event) /\ Len(trail') <= MaxEvents
      BY <1>3, InsertEffect
    <2>2. /\ pc[w] = "insert" /\ pc' = [pc EXCEPT ![w] = "commit"]
          /\ UNCHANGED <<lock, head, reader, delivery>>
      BY <1>3 DEF InsertChained
    <2>3. QED
      BY <2>1, <2>2 DEF TypeOK, delivery
  <1>4. ASSUME NEW w \in Writers, RecordAgain(w) PROVE TypeOK'
    BY <1>4 DEF RecordAgain, TypeOK, delivery
  <1>5. ASSUME NEW w \in Writers, Commit(w) PROVE TypeOK'
    <2>1. pc[w] # "idle" /\ End(w, "committed") /\ UNCHANGED <<reader, hook, switches>>
      BY <1>5 DEF Commit
    <2>2. /\ trail' \in Seq(Event) /\ Len(trail') <= MaxEvents
          /\ lock' = Free /\ pc' = [pc EXCEPT ![w] = "idle"] /\ head' = [head EXCEPT ![w] = 0]
      BY <2>1, EndEffect DEF TypeOK
    <2>3. jobs' \in [0..MaxEvents -> Delivery]
      BY <1>5, QueuedType DEF Commit, TypeOK
    <2>4. QED
      BY <2>1, <2>2, <2>3, HolderAlone, FreeAssumption DEF TypeOK
  <1>6. ASSUME NEW w \in Writers, Rollback(w) PROVE TypeOK'
    <2>1. pc[w] # "idle" /\ End(w, "gone") /\ UNCHANGED <<reader, delivery>>
      BY <1>6 DEF Rollback
    <2>2. /\ trail' \in Seq(Event) /\ Len(trail') <= MaxEvents
          /\ lock' = Free /\ pc' = [pc EXCEPT ![w] = "idle"] /\ head' = [head EXCEPT ![w] = 0]
      BY <2>1, EndEffect DEF TypeOK
    <2>3. QED
      BY <2>1, <2>2, HolderAlone, FreeAssumption DEF TypeOK, delivery
  <1>7. ASSUME NEW n \in 0..PageSize, ReadPage(n) PROVE TypeOK'
    <2>1. Page(n) \subseteq 1..MaxEvents
      BY TrailType DEF Page
    <2>2. Greatest(Page(n)) \in 0..MaxEvents
      BY <2>1, GreatestType
    <2>3. \A s : Previous(Page(n), s) \in 0..MaxEvents
      <3>1. \A s : {t \in Page(n) : t < s /\ trail[t].hashed} \subseteq 1..MaxEvents
        BY <2>1
      <3>2. \A s : Greatest({t \in Page(n) : t < s /\ trail[t].hashed}) \in 0..MaxEvents
        BY <3>1, GreatestType
      <3>3. reader.previous \in 0..MaxEvents
        BY DEF TypeOK
      <3>4. QED
        BY <3>2, <3>3 DEF Previous
    <2>4. reader' \in [after : 0..MaxEvents, previous : 0..MaxEvents, intact : BOOLEAN]
      <3>1. Fresh \in [after : 0..MaxEvents, previous : 0..MaxEvents, intact : BOOLEAN]
        BY DEF Fresh
      <3>2. [Fresh EXCEPT !.intact = FALSE]
                \in [after : 0..MaxEvents, previous : 0..MaxEvents, intact : BOOLEAN]
        BY <3>1
      <3>3. [Fresh EXCEPT !.after = Greatest(Page(n)),
                          !.previous = Previous(Page(n), Greatest(Page(n)) + 1)]
                   \in [after : 0..MaxEvents, previous : 0..MaxEvents, intact : BOOLEAN]
        BY <2>2, <2>3, <3>1
      <3>4. QED
        BY <1>7, <3>1, <3>2, <3>3 DEF ReadPage
    <2>5. UNCHANGED <<chain, delivery>>
      BY <1>7 DEF ReadPage
    <2>6. QED
      BY <2>4, <2>5 DEF TypeOK, chain, delivery
  <1>8. ASSUME UNCHANGED <<chain, reader>>, NEW state \in {"on", "off", "gone"},
               NEW f \in {hook.failures, 0}, Switch(state, f)
        PROVE  TypeOK'
    BY <1>8 DEF Switch, TypeOK, chain
  <1>9. CASE StartPing
    <2>1. PICK ok \in BOOLEAN : jobs' = [jobs EXCEPT ![Ping] = [state |-> "record",
                                             attempts |-> MaxAttempts, ok |-> ok]]
      BY <1>9 DEF StartPing
    <2>2. [state |-> "record", attempts |-> MaxAttempts, ok |-> ok] \in Delivery
      BY DEF Delivery, Running
    <2>3. jobs' \in [0..MaxEvents -> Delivery]
      BY <2>1, <2>2 DEF TypeOK
    <2>4. QED
      BY <1>9, <2>3 DEF StartPing, TypeOK, chain
  <1>10. ASSUME NEW j \in 0..MaxEvents,
                Deliver(j) \/ InsertDelivery(j) \/ CountDelivery(j) \/ EndDelivery(j) \/ Crash(j)
         PROVE  TypeOK'
    <2>1. jobs' \in [0..MaxEvents -> Delivery] /\ hook' \in [state : {"on", "off", "gone"}, failures : Nat]
      <3>1. CASE Deliver(j)
        <4>1. UNCHANGED hook
          BY <3>1 DEF Deliver
        <4>2. QED
          BY <3>1, <4>1, DeliverEffect DEF TypeOK
      <3>2. CASE InsertDelivery(j)
        BY <3>2, InsertDeliveryEffect DEF TypeOK, GoesOn
      <3>3. CASE CountDelivery(j)
        BY <3>3, CountEffect DEF GoesOn
      <3>4. CASE EndDelivery(j)
        BY <3>4, EndDeliveryEffect DEF TypeOK, GoesOn
      <3>5. CASE Crash(j)
        BY <3>5, CrashEffect DEF TypeOK, GoesOn
      <3>6. QED
        BY <1>10, <3>1, <3>2, <3>3, <3>4, <3>5
    <2>2. UNCHANGED <<chain, reader>>
      BY <1>10 DEF Deliver, InsertDelivery, CountDelivery, EndDelivery, Crash
    <2>3. QED
      BY <2>1, <2>2 DEF TypeOK, chain
  <1>11. CASE UNCHANGED vars
    BY <1>11 DEF vars, TypeOK
  <1>12. QED
    BY <1>1, <1>2, <1>3, <1>4, <1>5, <1>6, <1>7, <1>8, <1>9, <1>10, <1>11, Kinds

-----------------------------------------------------------------------------
(***************************************************************************)
(* The chain                                                               *)
(***************************************************************************)

\* What a writer sees as the head of the chain is the last row that is not
\* rolled back.
LEMMA VisibleIsLive ==
    ASSUME TypeOK, OpenInv, NEW w \in Writers, pc[w] # "idle"
    PROVE  Visible(w) = {s \in Seqs : Live(s)}
  <1>1. lock = w
    BY HolderAlone
  <1>2. \A s \in Seqs : trail[s].state \in {"open", "committed", "gone"}
    BY TrailType DEF Event
  <1>3. \A s \in Seqs : trail[s].state = "open" => s \in Mine(w)
    BY <1>1 DEF OpenInv, Mine
  <1>4. \A s \in Mine(w) : s \in Seqs /\ trail[s].state = "open"
    BY DEF Mine
  <1>5. QED
    BY <1>2, <1>3, <1>4 DEF Visible, Live, Committed

\* A row that is not open has no open row below it.
LEMMA BeforeCommitted ==
    ASSUME TypeOK, OpenInv, NEW s \in Seqs, Committed(s)
    PROVE  LiveBefore(s) = {t \in Seqs : Hashed(t) /\ t < s}
  <1>1. s \in 1..Len(trail) /\ Seqs = 1..Len(trail) /\ Len(trail) \in Nat
    BY TrailType
  <1>2. \A t \in 1..(s - 1) : t \in Seqs /\ t < s
    BY <1>1
  <1>3. \A t \in Seqs : t < s => t \in 1..(s - 1)
    BY <1>1
  <1>4. \A t \in Seqs : trail[t].state \in {"open", "committed", "gone"}
    BY TrailType DEF Event
  <1>5. \A t \in Seqs : t < s => trail[t].state # "open"
    BY <1>1 DEF OpenInv
  <1>6. QED
    BY <1>2, <1>3, <1>4, <1>5 DEF LiveBefore, Live, Hashed, Committed

LEMMA TrailStep ==
    ASSUME TypeOK, TrailInv, [Next]_vars
    PROVE  TrailInv'
  <1> USE DEF TrailInv
  <1>1. ASSUME NEW w \in Writers, LockTrail(w) PROVE TrailInv'
    <2>1. UNCHANGED <<trail, head>> /\ lock = Free /\ pc' = [pc EXCEPT ![w] = "read"]
      BY <1>1 DEF LockTrail
    <2>2. \A s \in Seqs : trail[s].state # "open"
      BY <2>1 DEF OpenInv
    <2>3. \A v \in Writers : pc'[v] = "insert" => pc[v] = "insert"
      BY <2>1 DEF TypeOK
    <2>4. OpenInv' /\ LegacyInv' /\ PrevInv'
      BY <2>1, <2>2 DEF OpenInv, LegacyInv, PrevInv, Live, LiveBefore, Seqs
    <2>5. HeadInv'
      BY <2>1, <2>3 DEF HeadInv, Live, Seqs
    <2>6. QED
      BY <2>4, <2>5
  <1>2. ASSUME NEW w \in Writers, ReadHead(w) PROVE TrailInv'
    <2>1. /\ pc[w] = "read" /\ UNCHANGED <<trail, lock>>
          /\ head' = [head EXCEPT ![w] = Greatest(Visible(w))]
      BY <1>2 DEF ReadHead
    <2>2. pc' = [pc EXCEPT ![w] = "insert"]
      BY <1>2 DEF ReadHead
    <2>3. Visible(w) = {s \in Seqs : Live(s)}
      BY <2>1, VisibleIsLive
    <2>4. {s \in Seqs : Live(s)}' = {s \in Seqs : Live(s)}
      BY <2>1 DEF Seqs, Live
    <2>5. HeadInv'
      BY <2>1, <2>2, <2>3, <2>4 DEF HeadInv, TypeOK
    <2>6. OpenInv' /\ LegacyInv' /\ PrevInv'
      BY <2>1 DEF OpenInv, LegacyInv, PrevInv, Live, LiveBefore, Seqs, Committed
    <2>7. QED
      BY <2>5, <2>6
  <1>3. ASSUME NEW w \in Writers, InsertChained(w) PROVE TrailInv'
    <2>0. PICK n \in Nat : n = Len(trail) + 1
      BY TrailType
    <2>1. /\ pc[w] = "insert" /\ pc' = [pc EXCEPT ![w] = "commit"] /\ UNCHANGED <<lock, head>>
      BY <1>3 DEF InsertChained
    <2>2. /\ Seqs' = Seqs \cup {n} /\ n \notin Seqs
          /\ \A s \in Seqs : trail'[s] = trail[s] /\ s < n
          /\ trail'[n].state = "open" /\ trail'[n].by = w /\ trail'[n].hashed
          /\ trail'[n].prev = head[w]
      BY <1>3, <2>0, InsertEffect
    <2>3. n \in Nat /\ Seqs = 1..(n - 1) /\ \A s \in Seqs : s \in Nat
      BY <2>0, TrailType
    <2>4. lock = w /\ \A v \in Writers \ {w} : pc[v] = "idle"
      BY <2>1, HolderAlone
    <2>5. \A s \in Seqs : Committed(s)' <=> Committed(s)
      BY <2>2 DEF Committed
    <2>6. OpenInv'
      <3>1. ~ Committed(n)'
        BY <2>2 DEF Committed
      <3>2. ASSUME NEW s \in Seqs', trail'[s].state = "open"
            PROVE  /\ trail'[s].by = lock' /\ lock' # Free
                   /\ \A t \in Seqs' : t > s => ~ Committed(t)'
        <4>1. lock' = w /\ w # Free
          BY <2>1, <2>4, FreeAssumption
        <4>2. CASE s = n
          <5>1. \A t \in Seqs' : ~ (t > n)
            BY <2>2, <2>3
          <5>2. QED
            BY <2>2, <4>1, <4>2, <5>1
        <4>3. CASE s \in Seqs
          BY <2>1, <2>2, <2>5, <3>1, <3>2, <4>1, <4>3 DEF OpenInv
        <4>4. QED
          BY <2>2, <4>2, <4>3
      <3>3. QED
        BY <3>2 DEF OpenInv
    <2>7. LegacyInv'
      BY <2>2 DEF LegacyInv
    <2>8. HeadInv'
      BY <2>1, <2>4 DEF HeadInv, TypeOK
    <2>9. PrevInv'
      <3>1. \A s \in Seqs : Live(s)' <=> Live(s)
        BY <2>2 DEF Live
      <3>2. \A s \in Seqs' : LiveBefore(s)' = LiveBefore(s)
        <4>1. \A s \in Seqs' : \A t \in 1..(s - 1) : t \in Seqs
          BY <2>2, <2>3
        <4>2. QED
          BY <3>1, <4>1 DEF LiveBefore
      <3>3. LiveBefore(n) = {s \in Seqs : Live(s)}
        BY <2>3 DEF LiveBefore
      <3>4. trail'[n].prev = Greatest(LiveBefore(n)')
        BY <2>1, <2>2, <3>2, <3>3 DEF HeadInv
      <3>5. \A s \in Seqs : Live(s)' => trail'[s].prev = Greatest(LiveBefore(s)')
        BY <2>2, <3>1, <3>2 DEF PrevInv
      <3>6. QED
        BY <2>2, <3>4, <3>5 DEF PrevInv
    <2>10. QED
      BY <2>6, <2>7, <2>8, <2>9
  <1>4. ASSUME NEW w \in Writers, RecordAgain(w) PROVE TrailInv'
    <2>1. UNCHANGED <<trail, lock, head>> /\ pc' = [pc EXCEPT ![w] = "read"]
      BY <1>4 DEF RecordAgain
    <2>2. \A v \in Writers : pc'[v] = "insert" => pc[v] = "insert"
      BY <2>1 DEF TypeOK
    <2>3. OpenInv' /\ LegacyInv' /\ PrevInv'
      BY <2>1 DEF OpenInv, LegacyInv, PrevInv, Live, LiveBefore, Seqs, Committed
    <2>4. HeadInv'
      BY <2>1, <2>2 DEF HeadInv, Live, Seqs
    <2>5. QED
      BY <2>3, <2>4
  <1>5. ASSUME NEW w \in Writers, NEW how \in {"committed", "gone"}, pc[w] # "idle", End(w, how)
        PROVE  TrailInv'
    <2>1. /\ Seqs' = Seqs /\ lock' = Free /\ pc' = [pc EXCEPT ![w] = "idle"]
          /\ \A s \in Seqs :
                 /\ trail'[s].hashed = trail[s].hashed /\ trail'[s].prev = trail[s].prev
                 /\ trail'[s].state = IF trail[s].state = "open" THEN how ELSE trail[s].state
      BY <1>5, EndEffect
    <2>2. OpenInv' /\ LegacyInv'
      BY <2>1 DEF OpenInv, LegacyInv
    <2>3. \A v \in Writers : pc'[v] = "idle"
      BY <1>5, <2>1, HolderAlone DEF TypeOK
    <2>4. HeadInv'
      BY <2>3 DEF HeadInv
    <2>5. ASSUME NEW s \in Seqs, Live(s)' PROVE Live(s) /\ LiveBefore(s)' = LiveBefore(s)
      <3>1. Live(s)
        BY <2>1, <2>5 DEF Live
      <3>2. CASE how = "committed"
        <4>1. \A t \in Seqs : Live(t)' <=> Live(t)
          BY <2>1, <3>2 DEF Live
        <4>2. \A t \in 1..(s - 1) : t \in Seqs
          BY TrailType
        <4>3. QED
          BY <3>1, <4>1, <4>2 DEF LiveBefore
      <3>3. CASE how = "gone"
        <4>1. Committed(s)
          BY <2>1, <2>5, <3>3, TrailType DEF Live, Committed, Event
        <4>2. \A t \in 1..(s - 1) : t \in Seqs /\ s > t
          BY TrailType
        <4>3. \A t \in 1..(s - 1) : trail[t].state # "open"
          BY <4>1, <4>2 DEF OpenInv
        <4>4. \A t \in 1..(s - 1) : Live(t)' <=> Live(t)
          BY <2>1, <4>2, <4>3 DEF Live
        <4>5. QED
          BY <3>1, <4>4 DEF LiveBefore
      <3>4. QED
        BY <3>2, <3>3
    <2>6. PrevInv'
      BY <2>1, <2>5 DEF PrevInv
    <2>7. QED
      BY <2>2, <2>4, <2>6
  <1>6. ASSUME UNCHANGED chain PROVE TrailInv'
    BY <1>6 DEF chain, OpenInv, LegacyInv, HeadInv, PrevInv, Live, LiveBefore, Seqs, Committed
  <1>7. ASSUME NEW w \in Writers, Commit(w) \/ Rollback(w) PROVE TrailInv'
    BY <1>5, <1>7 DEF Commit, Rollback
  <1>8. ASSUME NEW n \in 0..PageSize, ReadPage(n) PROVE UNCHANGED chain
    BY <1>8 DEF ReadPage
  <1>9. ASSUME NEW j \in 0..MaxEvents,
               Deliver(j) \/ InsertDelivery(j) \/ CountDelivery(j) \/ EndDelivery(j) \/ Crash(j)
        PROVE  UNCHANGED chain
    BY <1>9 DEF Deliver, InsertDelivery, CountDelivery, EndDelivery, Crash
  <1>10. StartPing \/ UNCHANGED vars => UNCHANGED chain
    BY DEF StartPing, vars, chain
  <1> HIDE DEF TrailInv
  <1>11. QED
    BY <1>1, <1>2, <1>3, <1>4, <1>6, <1>7, <1>8, <1>9, <1>10, Kinds

-----------------------------------------------------------------------------
(***************************************************************************)
(* The verification                                                        *)
(***************************************************************************)

\* The rows with a hash up to k that a reader finds.
UpTo(k) == {t \in Seqs : Hashed(t) /\ t <= k}

\* Nothing is committed or rolled back below the cursor.
LEMMA CursorStays ==
    ASSUME TypeOK, OpenInv, ReaderInv, UNCHANGED reader, Seqs \subseteq Seqs',
           \A t \in Seqs : Hashed(t)' # Hashed(t) => trail[t].state = "open",
           \A t \in Seqs : Committed(t) => Committed(t)',
           \A t \in Seqs' \ Seqs : ~ Committed(t)'
    PROVE  ReaderInv'
  <1>1. reader.intact /\ (reader.after = 0 \/ (reader.after \in Seqs /\ Committed(reader.after)))
    BY DEF ReaderInv
  <1>2. Seqs \subseteq Nat /\ \A t \in Seqs : 1 <= t
    BY TrailType
  <1>3. ASSUME NEW t \in Seqs, t <= reader.after PROVE trail[t].state # "open"
    <2>1. reader.after \in Seqs /\ Committed(reader.after)
      BY <1>1, <1>2, <1>3
    <2>2. CASE t = reader.after
      BY <2>1, <2>2 DEF Committed
    <2>3. CASE t # reader.after
      <3>1. reader.after > t
        <4>1. reader.after \in Nat /\ t \in Nat
          BY <1>2, <2>1
        <4>2. QED
          BY <1>3, <2>3, <4>1
      <3>2. QED
        BY <2>1, <3>1 DEF OpenInv
    <2>4. QED
      BY <2>2, <2>3
  <1>4. \A t \in Seqs' : Hashed(t)' /\ t <= reader.after <=> t \in UpTo(reader.after)
    BY <1>3 DEF UpTo, Hashed
  <1>5. {t \in Seqs' : Hashed(t)' /\ t <= reader.after} = UpTo(reader.after)
    BY <1>4 DEF UpTo
  <1>6. reader'.previous = Greatest({t \in Seqs' : Hashed(t)' /\ t <= reader'.after})
    BY <1>5 DEF ReaderInv, UpTo
  <1>7. reader'.intact
        /\ (reader'.after = 0 \/ (reader'.after \in Seqs' /\ Committed(reader.after)'))
    BY <1>1 DEF Committed
  <1>8. QED
    BY <1>6, <1>7 DEF ReaderInv

\* A page has the committed rows from the cursor up to its last one.
LEMMA PageIsInitial ==
    ASSUME TypeOK, NEW n \in 0..PageSize, NEW s \in Page(n),
           NEW t \in Seqs, Committed(t), reader.after < t, t <= s
    PROVE  t \in Page(n)
  <1> DEFINE past == {r \in Seqs : r > reader.after /\ Committed(r)}
  <1>1. s \in past /\ t \in past /\ Cardinality({r \in past : r <= s}) <= n
    BY DEF Page
  <1>2. past \subseteq 1..MaxEvents /\ \A r \in past : r \in Nat
    BY TrailType
  <1>3. IsFiniteSet(1..MaxEvents)
    BY FS_Interval
  <1>4. IsFiniteSet({r \in past : r <= s})
    BY <1>2, <1>3, FS_Subset
  <1>5. {r \in past : r <= t} \subseteq {r \in past : r <= s}
    BY <1>1, <1>2
  <1>6. Cardinality({r \in past : r <= t}) <= Cardinality({r \in past : r <= s})
    BY <1>4, <1>5, FS_Subset
  <1>7. /\ Cardinality({r \in past : r <= t}) \in Nat
        /\ Cardinality({r \in past : r <= s}) \in Nat
    BY <1>4, <1>5, FS_Subset, FS_CardinalityType
  <1>8. Cardinality({r \in past : r <= t}) <= n
    BY <1>1, <1>6, <1>7
  <1>9. QED
    BY <1>1, <1>8 DEF Page

\* The hash the loop has when it comes to k is that of the last row before k.
LEMMA PreviousIs ==
    ASSUME TypeOK, ReaderInv, NEW n \in 0..PageSize, NEW k \in Nat, reader.after < k,
           \A t \in Seqs : Committed(t) /\ reader.after < t /\ t < k => t \in Page(n)
    PROVE  Previous(Page(n), k) = Greatest({t \in Seqs : Hashed(t) /\ t < k})
  <1> DEFINE before == {t \in Page(n) : t < k /\ trail[t].hashed}
             all == {t \in Seqs : Hashed(t) /\ t < k}
  <1>1. /\ Page(n) \subseteq Seqs /\ \A t \in Page(n) : Committed(t) /\ reader.after < t
        /\ Seqs \subseteq 1..MaxEvents /\ reader.after \in Nat /\ Seqs \subseteq Nat
    BY TrailType DEF Page, TypeOK
  <1>2. before = {t \in all : reader.after < t}
    BY <1>1 DEF Hashed
  <1>3. CASE before = {}
    <2>1. ASSUME NEW t \in Seqs PROVE Hashed(t) /\ t < k <=> Hashed(t) /\ t <= reader.after
      <3>1. t \in Nat /\ reader.after \in Nat
        BY <1>1
      <3>2. t \in all => ~ (reader.after < t)
        BY <1>2, <1>3
      <3>3. QED
        BY <3>1, <3>2
    <2>2. QED
      BY <1>3, <2>1 DEF Previous, ReaderInv
  <1>4. CASE before # {}
    <2>1. all \in SUBSET (1..MaxEvents) /\ before \in SUBSET all
      BY <1>1, <1>2
    <2>2. \A t \in all : t \in before \/ t <= reader.after
      BY <1>1, <1>2
    <2>3. \A t \in before : reader.after < t
      BY <1>2
    <2>4. Greatest(all) = Greatest(before)
      BY <1>1, <1>4, <2>1, <2>2, <2>3, GreatestOfUpper
    <2>5. Previous(Page(n), k) = Greatest(before)
      BY <1>4 DEF Previous
    <2>6. QED
      BY <2>4, <2>5
  <1>5. QED
    BY <1>3, <1>4

\* Every row of a page follows the one before it.
LEMMA AllFollow ==
    ASSUME TypeOK, TrailInv, ReaderInv, NEW n \in 0..PageSize, NEW s \in Page(n)
    PROVE  Follows(Page(n), s)
  <1>1. s \in Seqs /\ Committed(s) /\ reader.after < s /\ s \in Nat
    BY TrailType DEF Page
  <1>2. \A t \in Seqs : Committed(t) /\ reader.after < t /\ t < s => t \in Page(n)
    <2>1. Seqs \subseteq Nat
      BY TrailType
    <2>2. QED
      BY <1>1, <2>1, PageIsInitial
  <1>3. Previous(Page(n), s) = Greatest({t \in Seqs : Hashed(t) /\ t < s})
    BY <1>1, <1>2, PreviousIs
  <1>4. LiveBefore(s) = {t \in Seqs : Hashed(t) /\ t < s}
    BY <1>1, BeforeCommitted DEF TrailInv
  <1>5. CASE trail[s].hashed
    BY <1>1, <1>3, <1>4, <1>5 DEF Follows, TrailInv, PrevInv, Live, Committed
  <1>6. CASE ~ trail[s].hashed
    <2>1. s = 1
      BY <1>1, <1>6 DEF TrailInv, LegacyInv
    <2>2. {t \in Seqs : Hashed(t) /\ t < s} = {}
      BY <2>1, TrailType
    <2>3. QED
      BY <1>3, <1>6, <2>2, GreatestEmpty DEF Follows
  <1>7. QED
    BY <1>5, <1>6

LEMMA ReadPageKeeps ==
    ASSUME TypeOK, TrailInv, ReaderInv, NEW n \in 0..PageSize, ReadPage(n)
    PROVE  ReaderInv'
  <1> DEFINE last == Greatest(Page(n))
  <1>1. \A s \in Page(n) : Follows(Page(n), s)
    BY AllFollow
  <1>2. UNCHANGED trail /\ Seqs' = Seqs /\ \A t \in Seqs : Hashed(t)' = Hashed(t)
    BY DEF ReadPage, chain, Seqs, Hashed, Committed
  <1>3. CASE Page(n) = {}
    <2>1. reader' = Fresh
      BY <1>3 DEF ReadPage
    <2>2. reader'.after = 0 /\ reader'.previous = 0 /\ reader'.intact
      BY <2>1 DEF Fresh
    <2>3. {t \in Seqs' : Hashed(t)' /\ t <= reader'.after} = {}
      BY <1>2, <2>2, TrailType
    <2>4. QED
      BY <2>2, <2>3, GreatestEmpty DEF ReaderInv
  <1>4. CASE Page(n) # {}
    <2>1. Page(n) \in SUBSET (1..MaxEvents) /\ Page(n) \subseteq Seqs /\ Seqs \subseteq Nat
      BY TrailType DEF Page
    <2>2. last \in Page(n) /\ \A t \in Page(n) : t <= last
      BY <1>4, <2>1, GreatestIn
    <2>3. last \in Nat /\ last \in Seqs /\ Committed(last) /\ reader.after < last
      BY <2>1, <2>2 DEF Page
    <2>4. reader' = [Fresh EXCEPT !.after = last, !.previous = Previous(Page(n), last + 1)]
      BY <1>1, <1>4 DEF ReadPage
    <2>5. /\ reader'.after = last /\ reader'.previous = Previous(Page(n), last + 1)
          /\ reader'.intact
      BY <2>4 DEF Fresh
    <2> HIDE DEF last
    <2>6. \A t \in Seqs : Committed(t) /\ reader.after < t /\ t < last + 1 => t \in Page(n)
      BY <2>1, <2>2, <2>3, PageIsInitial
    <2>7. reader.after < last + 1 /\ last + 1 \in Nat
      BY <2>3 DEF TypeOK
    <2>8. reader'.previous = Greatest({t \in Seqs : Hashed(t) /\ t < last + 1})
      BY <2>5, <2>6, <2>7, PreviousIs
    <2>9. {t \in Seqs : Hashed(t) /\ t < last + 1} = {t \in Seqs' : Hashed(t)' /\ t <= reader'.after}
      <3>1. \A t \in Seqs : t < last + 1 <=> t <= last
        BY <2>1, <2>3
      <3>2. QED
        BY <1>2, <2>5, <3>1
    <2>10. reader'.after \in Seqs' /\ Committed(reader.after)'
      BY <1>2, <2>3, <2>5 DEF Committed
    <2>11. QED
      BY <2>5, <2>8, <2>9, <2>10 DEF ReaderInv
  <1>5. QED
    BY <1>3, <1>4

LEMMA ReaderStep ==
    ASSUME TypeOK, TrailInv, ReaderInv, [Next]_vars
    PROVE  ReaderInv'
  <1>1. ASSUME UNCHANGED <<trail, reader>> PROVE ReaderInv'
    BY <1>1 DEF ReaderInv, Seqs, Hashed, Committed
  <1>2. ASSUME NEW w \in Writers, InsertChained(w) PROVE ReaderInv'
    <2>1. PICK n \in Nat : n = Len(trail) + 1
      BY TrailType
    <2>2. /\ Seqs' = Seqs \cup {n} /\ \A s \in Seqs : trail'[s] = trail[s]
          /\ trail'[n].state = "open"
      BY <1>2, <2>1, InsertEffect
    <2>3. /\ \A t \in Seqs : Committed(t)' = Committed(t) /\ Hashed(t)' = Hashed(t)
          /\ ~ Committed(n)'
      BY <2>2 DEF Committed, Hashed
    <2>4. UNCHANGED reader
      BY <1>2 DEF InsertChained
    <2>5. QED
      BY <2>2, <2>3, <2>4, CursorStays DEF TrailInv
  <1>3. ASSUME NEW w \in Writers, NEW how \in {"committed", "gone"}, pc[w] # "idle", End(w, how),
               UNCHANGED reader
        PROVE  ReaderInv'
    <2>1. /\ Seqs' = Seqs
          /\ \A s \in Seqs :
                 /\ trail'[s].hashed = trail[s].hashed
                 /\ trail'[s].state = IF trail[s].state = "open" THEN how ELSE trail[s].state
      BY <1>3, EndEffect DEF TrailInv
    <2>2. \A t \in Seqs : trail[t].state # "open" => Committed(t)' = Committed(t)
      BY <2>1 DEF Committed
    <2>3. \A t \in Seqs : trail[t].state # "open" => Hashed(t)' = Hashed(t)
      BY <2>1, <2>2 DEF Hashed
    <2>4. \A t \in Seqs : Committed(t) => Committed(t)'
      BY <2>2 DEF Committed
    <2>5. QED
      BY <1>3, <2>1, <2>3, <2>4, CursorStays DEF TrailInv
  <1>4. ASSUME NEW w \in Writers, LockTrail(w) \/ ReadHead(w) \/ RecordAgain(w)
        PROVE  UNCHANGED <<trail, reader>>
    BY <1>4 DEF LockTrail, ReadHead, RecordAgain
  <1>5. ASSUME NEW w \in Writers, Commit(w) \/ Rollback(w) PROVE ReaderInv'
    BY <1>3, <1>5 DEF Commit, Rollback
  <1>6. ASSUME NEW j \in 0..MaxEvents,
               Deliver(j) \/ InsertDelivery(j) \/ CountDelivery(j) \/ EndDelivery(j) \/ Crash(j)
        PROVE  UNCHANGED <<trail, reader>>
    BY <1>6 DEF Deliver, InsertDelivery, CountDelivery, EndDelivery, Crash, chain
  <1>7. StartPing \/ UNCHANGED vars \/ UNCHANGED <<chain, reader>> => UNCHANGED <<trail, reader>>
    BY DEF StartPing, vars, chain
  <1>8. QED
    BY <1>1, <1>2, <1>4, <1>5, <1>6, <1>7, ReadPageKeeps, Kinds

-----------------------------------------------------------------------------
(***************************************************************************)
(* The deliveries                                                          *)
(***************************************************************************)

JobsInv == QueuedInv /\ DeliveriesMatchEvents

\* Jobs that keep being there, or not, go on with the trail they belong to.
LEMMA JobsGoOn ==
    ASSUME TypeOK, JobsInv, UNCHANGED chain,
           \A j \in 1..MaxEvents : jobs'[j].state # "none" <=> jobs[j].state # "none",
           \A j \in 0..MaxEvents : jobs'[j].state = "queued" => jobs'[j].attempts < MaxAttempts
    PROVE  JobsInv'
  <1>1. QueuedInv'
    BY DEF QueuedInv
  <1>2. \A j \in 1..MaxEvents : (j \in Seqs /\ Committed(j) /\ trail[j].wanted)'
                                    <=> (j \in Seqs /\ Committed(j) /\ trail[j].wanted)
    BY DEF chain, Seqs, Committed
  <1>3. DeliveriesMatchEvents'
    BY <1>2 DEF JobsInv, DeliveriesMatchEvents
  <1>4. QED
    BY <1>1, <1>3 DEF JobsInv

LEMMA JobsStep ==
    ASSUME TypeOK, TrailInv, JobsInv, [Next]_vars
    PROVE  JobsInv'
  <1>1. ASSUME UNCHANGED <<trail, jobs>> PROVE JobsInv'
    BY <1>1 DEF JobsInv, QueuedInv, DeliveriesMatchEvents, Seqs, Committed
  <1>2. ASSUME NEW w \in Writers, InsertChained(w) PROVE JobsInv'
    <2>1. PICK n \in Nat : n = Len(trail) + 1
      BY TrailType
    <2>2. /\ Seqs' = Seqs \cup {n} /\ n \notin Seqs /\ \A s \in Seqs : trail'[s] = trail[s]
          /\ trail'[n].state = "open"
      BY <1>2, <2>1, InsertEffect
    <2>3. UNCHANGED jobs
      BY <1>2 DEF InsertChained, delivery
    <2>4. \A j : (j \in Seqs /\ Committed(j) /\ trail[j].wanted)'
                     <=> (j \in Seqs /\ Committed(j) /\ trail[j].wanted)
      BY <2>2 DEF Committed
    <2>5. QED
      BY <2>3, <2>4 DEF JobsInv, QueuedInv, DeliveriesMatchEvents
  <1>3. ASSUME NEW w \in Writers, Rollback(w) PROVE JobsInv'
    <2>1. pc[w] # "idle" /\ End(w, "gone") /\ UNCHANGED jobs
      BY <1>3 DEF Rollback, delivery
    <2>2. /\ Seqs' = Seqs
          /\ \A s \in Seqs :
                 /\ trail'[s].wanted = trail[s].wanted
                 /\ trail'[s].state = IF trail[s].state = "open" THEN "gone" ELSE trail[s].state
      BY <2>1, EndEffect DEF TrailInv
    <2>3. \A j : (j \in Seqs /\ Committed(j) /\ trail[j].wanted)'
                     <=> (j \in Seqs /\ Committed(j) /\ trail[j].wanted)
      BY <2>2 DEF Committed
    <2>4. QED
      BY <2>1, <2>3 DEF JobsInv, QueuedInv, DeliveriesMatchEvents
  <1>4. ASSUME NEW w \in Writers, Commit(w) PROVE JobsInv'
    <2>1. /\ pc[w] # "idle" /\ End(w, "committed")
          /\ jobs' = [j \in DOMAIN jobs |->
                         IF j \in Mine(w) /\ trail[j].wanted THEN Queued ELSE jobs[j]]
      BY <1>4 DEF Commit
    <2>2. /\ Seqs' = Seqs /\ Mine(w) = {s \in Seqs : trail[s].state = "open"}
          /\ \A s \in Seqs :
                 /\ trail'[s].wanted = trail[s].wanted
                 /\ trail'[s].state = IF trail[s].state = "open" THEN "committed"
                                                                 ELSE trail[s].state
      BY <2>1, EndEffect DEF TrailInv
    <2>3. DOMAIN jobs = 0..MaxEvents
      BY DEF TypeOK
    <2>4. QueuedInv'
      BY <2>1, <2>3, QueuedType DEF JobsInv, QueuedInv
    <2>5. ASSUME NEW j \in 1..MaxEvents
          PROVE  jobs'[j].state # "none" <=> (j \in Seqs /\ Committed(j) /\ trail[j].wanted)'
      <3>1. jobs'[j] = IF j \in Mine(w) /\ trail[j].wanted THEN Queued ELSE jobs[j]
        BY <2>1, <2>3
      <3>2. CASE j \in Mine(w)
        <4>1. j \in Seqs /\ ~ Committed(j) /\ Committed(j)' /\ trail'[j].wanted = trail[j].wanted
          BY <2>2, <3>2 DEF Committed
        <4>2. jobs[j].state = "none"
          BY <4>1 DEF JobsInv, DeliveriesMatchEvents
        <4>3. QED
          BY <2>2, <3>1, <3>2, <4>1, <4>2, QueuedType
      <3>3. CASE j \notin Mine(w)
        <4>1. (j \in Seqs /\ Committed(j) /\ trail[j].wanted)'
                  <=> j \in Seqs /\ Committed(j) /\ trail[j].wanted
          BY <2>2, <3>3 DEF Committed
        <4>2. QED
          BY <3>1, <3>3, <4>1 DEF JobsInv, DeliveriesMatchEvents
      <3>4. QED
        BY <3>2, <3>3
    <2>6. QED
      BY <2>4, <2>5 DEF JobsInv, DeliveriesMatchEvents
  <1>5. CASE StartPing
    <2>1. UNCHANGED chain /\ \A j \in 1..MaxEvents : jobs'[j] = jobs[j]
      BY <1>5 DEF StartPing, Ping, TypeOK
    <2>2. jobs'[Ping].state = "record"
      BY <1>5 DEF StartPing, Ping, TypeOK
    <2>3. \A j \in 0..MaxEvents : j = Ping \/ j \in 1..MaxEvents
      BY DEF Ping
    <2>4. \A j \in 0..MaxEvents : jobs'[j].state = "queued" => jobs'[j].attempts < MaxAttempts
      BY <2>1, <2>2, <2>3 DEF JobsInv, QueuedInv
    <2>5. QED
      BY <2>1, <2>4, JobsGoOn
  <1>6. ASSUME NEW j \in 0..MaxEvents, Deliver(j) PROVE JobsInv'
    <2>1. UNCHANGED chain
      BY <1>6 DEF Deliver
    <2>2. /\ jobs[j].state = "queued" /\ jobs'[j].state \in {"record", "skipped"}
          /\ \A k \in (0..MaxEvents) \ {j} : jobs'[k] = jobs[k]
      BY <1>6, DeliverEffect DEF JobsInv
    <2>3. \A k \in 1..MaxEvents : k \in 0..MaxEvents
      OBVIOUS
    <2>4. QED
      BY <2>1, <2>2, <2>3, JobsGoOn DEF JobsInv, QueuedInv
  <1>7. ASSUME NEW j \in 0..MaxEvents, InsertDelivery(j) \/ CountDelivery(j) \/ EndDelivery(j) \/ Crash(j)
        PROVE  JobsInv'
    <2>1. UNCHANGED chain
      BY <1>7 DEF InsertDelivery, CountDelivery, EndDelivery, Crash
    <2>2. GoesOn(j)
      BY <1>7, InsertDeliveryEffect, CountEffect, EndDeliveryEffect, CrashEffect
    <2>3. \A k \in 1..MaxEvents : k \in 0..MaxEvents /\ k # Ping
      BY DEF Ping
    <2>4. \A k \in 1..MaxEvents : jobs'[k].state # "none" <=> jobs[k].state # "none"
      BY <2>2, <2>3 DEF GoesOn, Running
    <2>5. \A k \in 0..MaxEvents : jobs'[k].state = "queued" => jobs'[k].attempts < MaxAttempts
      BY <2>2 DEF GoesOn, JobsInv, QueuedInv
    <2>6. QED
      BY <2>1, <2>4, <2>5, JobsGoOn
  <1>8. ASSUME NEW w \in Writers, LockTrail(w) \/ ReadHead(w) \/ RecordAgain(w)
        PROVE  UNCHANGED <<trail, jobs>>
    BY <1>8 DEF LockTrail, ReadHead, RecordAgain, delivery
  <1>9. ASSUME NEW n \in 0..PageSize, ReadPage(n) PROVE UNCHANGED <<trail, jobs>>
    BY <1>9 DEF ReadPage, chain, delivery
  <1>10. ASSUME NEW state, NEW f, Switch(state, f) PROVE UNCHANGED <<trail, jobs>>
    BY <1>10 DEF Switch, chain
  <1>11. UNCHANGED vars => UNCHANGED <<trail, jobs>>
    BY DEF vars
  <1>12. QED
    BY <1>1, <1>2, <1>3, <1>4, <1>5, <1>6, <1>7, <1>8, <1>9, <1>10, <1>11, Kinds

-----------------------------------------------------------------------------
(***************************************************************************)
(* Theorems                                                                *)
(***************************************************************************)

LEMMA Step == IInv /\ [Next]_vars => IInv'
  <1> SUFFICES ASSUME IInv, [Next]_vars PROVE IInv'
    OBVIOUS
  <1>1. TypeOK /\ TrailInv /\ OpenInv /\ ReaderInv /\ QueuedInv /\ JobsInv
    BY DEF IInv, TrailInv, JobsInv
  <1>2. TypeOK' /\ TrailInv' /\ ReaderInv' /\ JobsInv'
    BY <1>1, TypeStep, TrailStep, ReaderStep, JobsStep
  <1>3. QED
    BY <1>2 DEF IInv, JobsInv

LEMMA ChainFollows == IInv => ChainSound
  <1> SUFFICES ASSUME IInv PROVE ChainSound
    OBVIOUS
  <1>1. TypeOK /\ OpenInv /\ PrevInv /\ reader.intact
    BY DEF IInv, TrailInv, ReaderInv
  <1>2. ASSUME NEW s \in Seqs, Hashed(s)
        PROVE  LET before == {t \in 1..(s - 1) : Hashed(t)}
               IN  IF before = {} THEN trail[s].prev = 0
                   ELSE trail[s].prev \in before /\ \A t \in before : t <= trail[s].prev
    <2> DEFINE before == {t \in 1..(s - 1) : Hashed(t)}
    <2>1. Committed(s) /\ Live(s)
      BY <1>2 DEF Hashed, Live, Committed
    <2>2. LiveBefore(s) = {t \in Seqs : Hashed(t) /\ t < s}
      BY <1>1, <2>1, BeforeCommitted
    <2>3. before = {t \in Seqs : Hashed(t) /\ t < s}
      <3>1. s \in 1..Len(trail) /\ Seqs = 1..Len(trail) /\ Len(trail) \in Nat
        BY <1>1, TrailType
      <3>2. \A t : t \in 1..(s - 1) <=> t \in Seqs /\ t < s
        BY <3>1
      <3>3. QED
        BY <3>2
    <2>4. trail[s].prev = Greatest(before)
      BY <1>1, <2>1, <2>2, <2>3 DEF PrevInv
    <2>5. before \in SUBSET (1..MaxEvents)
      BY <1>1, <2>3, TrailType
    <2> HIDE DEF before
    <2>6. before = {} => trail[s].prev = 0
      BY <2>4, GreatestEmpty
    <2>7. before # {} => /\ trail[s].prev \in before
                         /\ \A t \in before : t <= trail[s].prev
      BY <2>4, <2>5, GreatestIn
    <2>8. IF before = {} THEN trail[s].prev = 0
          ELSE trail[s].prev \in before /\ \A t \in before : t <= trail[s].prev
      BY <2>6, <2>7
    <2>9. QED
      BY <2>8 DEF before
  <1>3. QED
    BY <1>1, <1>2 DEF ChainSound, ChainLinear, VerifierAgrees

\* The trail is locked by one transaction at a time, every committed event chains
\* to the committed one before it (auditRepo.insertChained), whatever is rolled
\* back in between, and verifyChain finds it intact however its pages, or a
\* replica that lags, cut it while it grows.
THEOREM ChainHolds == Spec => []ChainSound
  <1>1. Spec => Init /\ [][Next]_vars
    BY PTL DEF Spec, Safety
  <1>2. Init /\ [][Next]_vars => []IInv
    BY InitHolds, Step, PTL
  <1>3. QED
    BY <1>1, <1>2, ChainFollows, PTL

\* A delivery is there exactly for the committed events the webhook asked for:
\* what a transaction that rolls back had queued is gone with its events.
THEOREM DeliveriesMatch == Spec => []DeliveriesMatchEvents
  <1>1. Spec => Init /\ [][Next]_vars
    BY PTL DEF Spec, Safety
  <1>2. IInv => DeliveriesMatchEvents
    BY DEF IInv
  <1>3. Init /\ [][Next]_vars => []IInv
    BY InitHolds, Step, PTL
  <1>4. QED
    BY <1>1, <1>2, <1>3, PTL

\* The job of a delivery is over only when its handler has returned, with the
\* receiver's answer or with a webhook that is off or gone when the failure is
\* counted, and it is given up only with the last of its attempts
\* (webhooks.service deliver and recordDelivery).
THEOREM DeliveriesEndForAReason == Spec => EndsForAReason
  <1> DEFINE Reason(j) ==
                 /\ jobs'[j].state = "returned" => jobs[j].ok \/ hook'.state # "on"
                 /\ jobs'[j].state = "done" => jobs[j].state = "returned"
                 /\ jobs'[j].state = "failed" => jobs[j].attempts = MaxAttempts
             A == \A j \in 1..MaxEvents : jobs'[j] # jobs[j] => Reason(j)
  <1>1. IInv /\ [Next]_vars => A
    <2> SUFFICES ASSUME IInv, [Next]_vars, NEW j \in 1..MaxEvents, jobs'[j] # jobs[j]
                 PROVE  Reason(j)
      OBVIOUS
    <2>1. TypeOK /\ TrailInv /\ QueuedInv /\ j \in 0..MaxEvents /\ j # Ping
      BY DEF IInv, Ping
    <2>2. jobs'[j] # jobs[j]
      OBVIOUS
    <2>3. ASSUME NEW k \in 0..MaxEvents, InsertDelivery(k) \/ CountDelivery(k) \/ EndDelivery(k) \/ Crash(k)
          PROVE  Reason(j)
      <3>1. GoesOn(k)
        BY <2>1, <2>3, InsertDeliveryEffect, CountEffect, EndDeliveryEffect, CrashEffect
      <3>2. k = j
        BY <2>1, <2>2, <3>1 DEF GoesOn
      <3>3. QED
        BY <3>1, <3>2 DEF GoesOn
    <2>4. ASSUME NEW k \in 0..MaxEvents, Deliver(k) PROVE Reason(j)
      <3>1. /\ jobs[k].state = "queued" /\ jobs'[k].state \in {"record", "skipped"}
            /\ \A i \in (0..MaxEvents) \ {k} : jobs'[i] = jobs[i]
        BY <2>1, <2>4, DeliverEffect
      <3>2. k = j
        BY <2>1, <2>2, <3>1
      <3>3. QED
        BY <3>1, <3>2
    <2>5. ASSUME NEW w \in Writers, Commit(w) PROVE Reason(j)
      <3>1. /\ pc[w] # "idle" /\ End(w, "committed")
            /\ jobs' = [i \in DOMAIN jobs |->
                           IF i \in Mine(w) /\ trail[i].wanted THEN Queued ELSE jobs[i]]
        BY <2>5 DEF Commit
      <3>2. DOMAIN jobs = 0..MaxEvents
        BY <2>1 DEF TypeOK
      <3>3. jobs'[j] \in {Queued, jobs[j]}
        BY <2>1, <3>1, <3>2
      <3>4. QED
        BY <2>2, <3>3, QueuedType
    <2>6. CASE StartPing
      BY <2>1, <2>2, <2>6 DEF StartPing, TypeOK
    <2>7. ASSUME NEW w \in Writers,
                 LockTrail(w) \/ ReadHead(w) \/ InsertChained(w) \/ RecordAgain(w) \/ Rollback(w)
          PROVE  UNCHANGED jobs
      BY <2>7 DEF LockTrail, ReadHead, InsertChained, RecordAgain, Rollback, delivery
    <2>8. ASSUME NEW n \in 0..PageSize, ReadPage(n) PROVE UNCHANGED jobs
      BY <2>8 DEF ReadPage, delivery
    <2>9. ASSUME NEW state, NEW f, Switch(state, f) PROVE UNCHANGED jobs
      BY <2>9 DEF Switch
    <2>10. UNCHANGED vars => UNCHANGED jobs
      BY DEF vars
    <2> HIDE DEF Reason
    <2>11. QED
      BY <2>2, <2>3, <2>4, <2>5, <2>6, <2>7, <2>8, <2>9, <2>10, Kinds
  <1>2. Spec => Init /\ [][Next]_vars
    BY PTL DEF Spec, Safety
  <1>3. Init /\ [][Next]_vars => []IInv
    BY InitHolds, Step, PTL
  <1>4. []IInv /\ [][Next]_vars => [][A]_vars
    BY <1>1, PTL
  <1>5. QED
    BY <1>2, <1>3, <1>4, PTL DEF EndsForAReason

-----------------------------------------------------------------------------
(***************************************************************************)
(* Inbox, for any events, passes and tries.  What is about the mails, and  *)
(* what is about the bell.                                                 *)
(***************************************************************************)

JobRecord == [state : {"queued", "picked", "written", "over"},
              tries : 1..MaxTries, show : BOOLEAN]

MailTypes ==
    /\ job \in [Events -> JobRecord]
    /\ rows \in [Ids -> {"none", "unread", "read"}]
    /\ digested \subseteq Ids /\ reported \in [Ids -> Nat]
    /\ prefs \in [muted : BOOLEAN, digest : BOOLEAN]
    /\ member \in BOOLEAN /\ due \in BOOLEAN

PassTypes ==
    /\ pass \in [Passes -> [state : {"idle", "due", "taken"}, ids : SUBSET Ids]]
    /\ \A k, l \in Passes : pass[k].ids \cap pass[l].ids # {} => k = l
    /\ \A k \in Passes : pass[k].ids # {} <=> pass[k].state = "taken"

HubTypes ==
    /\ conn \in {"none", "opening", "open", "broken", "reopening"}
    /\ stream \in {"none", "subscribing", "open", "ended"}
    /\ stale \in BOOLEAN /\ leaked \in BOOLEAN
    /\ signal \in {"none", "event", "ready"}
    /\ tab \in {"hidden", "connecting", "live", "polling"} /\ failures \in 0..2

LoadAnswers == [ids : SUBSET Ids, late : BOOLEAN]

LoadTypes ==
    /\ missed \in BOOLEAN
    /\ shown \subseteq Ids
    /\ loads \in Seq(LoadAnswers) /\ Len(loads) <= MaxLoads

\* What a pass has taken is not marked before the pass commits.
TakenInv == \A k \in Passes : pass[k].ids \cap digested = {}

ReportedInv == \A id \in Ids : reported[id] = IF id \in digested THEN 1 ELSE 0

MailInv == MailTypes /\ PassTypes /\ TakenInv /\ ReportedInv

DeliveryNext ==
    \E e \in Events : ReadRecipients(e) \/ InsertNotification(e) \/ FinishDelivery(e)
                      \/ FailDelivery(e)

DigestNext ==
    \E k \in Passes : BeginDigest(k) \/ TakeForDigest(k) \/ CommitDigest(k) \/ AbortDigest(k)

PersonNext ==
    \/ RemoveMember
    \/ \E muted, digest \in BOOLEAN : SavePreferences(muted, digest)
    \/ \E id \in Ids : MarkRead({id})
    \/ MarkRead(Ids)
    \/ IntervalPasses

TabNext ==
    \/ \E i \in 1..MaxLoads : Answer(i) \/ LoadFails(i)
    \/ Poll \/ ShowTab \/ HideTab \/ StreamError \/ ReceiveEvent

HubNext ==
    \/ Refuse \/ Subscribe \/ Connected \/ OpenStream \/ ConnectFails \/ EndStream
    \/ EndByServer \/ LoseConnection \/ NoticeLoss \/ Restart

LEMMA InboxNextSplit ==
    InboxNext <=> DeliveryNext \/ DigestNext \/ PersonNext \/ TabNext \/ HubNext
  BY DEF InboxNext, DeliveryNext, DigestNext, PersonNext, TabNext, HubNext

LEMMA BellLeavesMail ==
    ASSUME TabNext \/ HubNext
    PROVE  UNCHANGED <<job, rows, mail, member>>
  <1>1. ASSUME NEW i, Answer(i) \/ LoadFails(i) PROVE UNCHANGED <<job, rows, mail, member>>
    BY <1>1 DEF Answer, LoadFails
  <1>2. CASE Poll \/ ShowTab \/ HideTab \/ StreamError \/ ReceiveEvent
    BY <1>2 DEF Poll, ShowTab, HideTab, StreamError, ReceiveEvent
  <1>3. CASE HubNext
    BY <1>3 DEF HubNext, Refuse, Subscribe, Connected, OpenStream, ConnectFails, EndStream,
          EndByServer, LoseConnection, NoticeLoss, Restart
  <1>4. QED
    BY <1>1, <1>2, <1>3 DEF TabNext

\* Only the insert of a row reaches the bell from the mails' side, and only a
\* membership that ends takes rows away.
LEMMA MailLeavesBell ==
    ASSUME DeliveryNext \/ DigestNext \/ PersonNext
    PROVE  /\ UNCHANGED <<hub, bell>>
           /\ \/ UNCHANGED <<signal, missed>> /\ Listed' \subseteq Listed
              \/ \E e \in Events : InsertNotification(e)
  <1>1. CASE DeliveryNext
    <2>1. PICK e \in Events : ReadRecipients(e) \/ InsertNotification(e) \/ FinishDelivery(e)
                              \/ FailDelivery(e)
      BY <1>1 DEF DeliveryNext
    <2>2. CASE InsertNotification(e)
      BY <2>2 DEF InsertNotification
    <2>3. CASE ReadRecipients(e) \/ FinishDelivery(e) \/ FailDelivery(e)
      BY <2>3 DEF ReadRecipients, FinishDelivery, FailDelivery, Listed
    <2>4. QED
      BY <2>1, <2>2, <2>3
  <1>2. CASE DigestNext
    BY <1>2 DEF DigestNext, BeginDigest, TakeForDigest, CommitDigest, AbortDigest, Listed
  <1>3. CASE RemoveMember \/ IntervalPasses
    BY <1>3 DEF RemoveMember, IntervalPasses, Listed, mail
  <1>4. ASSUME NEW muted, NEW digest, SavePreferences(muted, digest)
        PROVE  UNCHANGED <<hub, bell, signal, missed>> /\ Listed' \subseteq Listed
    BY <1>4 DEF SavePreferences, Listed
  <1>5. ASSUME NEW ids, MarkRead(ids)
        PROVE  UNCHANGED <<hub, bell, signal, missed>> /\ Listed' \subseteq Listed
    BY <1>5 DEF MarkRead, Listed
  <1>6. QED
    BY <1>1, <1>2, <1>3, <1>4, <1>5 DEF PersonNext

(***************************************************************************)
(* The mails                                                               *)
(***************************************************************************)

LEMMA DeliveryStep ==
    ASSUME MailInv, DeliveryNext
    PROVE  MailInv'
  <1>1. PICK e \in Events : ReadRecipients(e) \/ InsertNotification(e) \/ FinishDelivery(e)
                            \/ FailDelivery(e)
    BY DEF DeliveryNext
  <1>2. job \in [Events -> JobRecord] /\ job[e] \in JobRecord
    BY DEF MailInv, MailTypes
  <1>3. job' \in [Events -> JobRecord]
    <2>1. CASE ReadRecipients(e)
      BY <1>2, <2>1 DEF ReadRecipients, JobRecord, MailInv, MailTypes
    <2>2. CASE InsertNotification(e) \/ FinishDelivery(e)
      BY <1>2, <2>2 DEF InsertNotification, FinishDelivery, JobRecord
    <2>3. CASE FailDelivery(e)
      <3>1. /\ [job[e] EXCEPT !.state = "over"] \in JobRecord
            /\ job[e].tries < MaxTries =>
                 [state |-> "queued", tries |-> job[e].tries + 1, show |-> FALSE] \in JobRecord
        BY <1>2 DEF JobRecord
      <3>2. QED
        BY <1>2, <2>3, <3>1 DEF FailDelivery
    <2>4. QED
      BY <1>1, <2>1, <2>2, <2>3
  <1>4. rows' \in [Ids -> {"none", "unread", "read"}]
    <2>1. rows \in [Ids -> {"none", "unread", "read"}]
      BY DEF MailInv, MailTypes
    <2>2. CASE InsertNotification(e)
      BY <2>1, <2>2 DEF InsertNotification
    <2>3. CASE ~ InsertNotification(e)
      BY <1>1, <2>1, <2>3 DEF ReadRecipients, FinishDelivery, FailDelivery
    <2>4. QED
      BY <2>2, <2>3
  <1>5. UNCHANGED <<mail, member>>
    BY <1>1 DEF ReadRecipients, InsertNotification, FinishDelivery, FailDelivery
  <1>6. QED
    BY <1>3, <1>4, <1>5 DEF MailInv, MailTypes, PassTypes, TakenInv, ReportedInv, mail

LEMMA PersonStep ==
    ASSUME MailInv, PersonNext
    PROVE  MailInv'
  <1>1. CASE RemoveMember
    BY <1>1 DEF RemoveMember, MailInv, MailTypes, PassTypes, TakenInv, ReportedInv, mail
  <1>2. ASSUME NEW muted \in BOOLEAN, NEW digest \in BOOLEAN, SavePreferences(muted, digest)
        PROVE  MailInv'
    BY <1>2 DEF SavePreferences, MailInv, MailTypes, PassTypes, TakenInv, ReportedInv
  <1>3. ASSUME NEW ids, MarkRead(ids) PROVE MailInv'
    BY <1>3 DEF MarkRead, MailInv, MailTypes, PassTypes, TakenInv, ReportedInv, mail
  <1>4. CASE IntervalPasses
    BY <1>4 DEF IntervalPasses, MailInv, MailTypes, PassTypes, TakenInv, ReportedInv
  <1>5. QED
    BY <1>1, <1>2, <1>3, <1>4 DEF PersonNext

\* A pass whose ids become S, and which is in the state that goes with it.
LEMMA SetPassEffect ==
    ASSUME PassTypes, TakenInv, NEW k \in Passes, NEW S \in SUBSET Ids,
           NEW state \in {"idle", "due", "taken"}, SetPass(k, state, S),
           S # {} <=> state = "taken", S \cap Taken = {}, S \cap digested = {},
           digested' = digested
    PROVE  PassTypes' /\ TakenInv'
  <1>1. /\ pass'[k].ids = S /\ pass'[k].state = state
        /\ \A l \in Passes : l # k => pass'[l] = pass[l]
        /\ pass' \in [Passes -> [state : {"idle", "due", "taken"}, ids : SUBSET Ids]]
    BY DEF SetPass, PassTypes
  <1>2. \A l \in Passes : S \cap pass[l].ids = {}
    BY DEF Taken
  <1>3. QED
    BY <1>1, <1>2 DEF PassTypes, TakenInv

LEMMA DigestStep ==
    ASSUME MailInv, DigestNext
    PROVE  MailInv'
  <1>1. PICK k \in Passes : BeginDigest(k) \/ TakeForDigest(k) \/ CommitDigest(k)
                            \/ AbortDigest(k)
    BY DEF DigestNext
  <1>2. CASE BeginDigest(k) \/ TakeForDigest(k) \/ AbortDigest(k)
    <2>1. MailTypes' /\ ReportedInv'
      BY <1>2 DEF BeginDigest, TakeForDigest, AbortDigest, MailInv, MailTypes, ReportedInv
    <2>2. CASE BeginDigest(k) \/ AbortDigest(k)
      <3>1. \E s \in {"idle", "due"} : SetPass(k, s, {})
        BY <2>2 DEF BeginDigest, AbortDigest
      <3>2. digested' = digested
        BY <2>2 DEF BeginDigest, AbortDigest
      <3>3. PassTypes' /\ TakenInv'
        BY <3>1, <3>2, SetPassEffect DEF MailInv
      <3>4. QED
        BY <2>1, <3>3 DEF MailInv
    <2>3. CASE TakeForDigest(k)
      <3>1. Candidates \in SUBSET Ids /\ Candidates \cap digested = {}
        BY DEF Candidates, Unread, Listed
      <3>2. Candidates \cap Taken = {} /\ digested' = digested
        BY <2>3 DEF TakeForDigest
      <3>3. CASE Candidates = {}
        <4>1. SetPass(k, "idle", {})
          BY <2>3, <3>3 DEF TakeForDigest
        <4>2. QED
          BY <2>1, <3>2, <4>1, SetPassEffect DEF MailInv
      <3>4. CASE Candidates # {}
        <4>1. SetPass(k, "taken", Candidates)
          BY <2>3, <3>4 DEF TakeForDigest
        <4>2. QED
          BY <2>1, <3>1, <3>2, <3>4, <4>1, SetPassEffect DEF MailInv
      <3>5. QED
        BY <3>3, <3>4
    <2>4. QED
      BY <1>2, <2>2, <2>3
  <1>3. CASE CommitDigest(k)
    <2>1. /\ pass \in [Passes -> [state : {"idle", "due", "taken"}, ids : SUBSET Ids]]
          /\ pass[k].ids \subseteq Ids /\ pass[k].ids \cap digested = {}
      BY DEF MailInv, PassTypes, TakenInv
    <2>2. /\ digested' = digested \cup pass[k].ids
          /\ reported' = [id \in Ids |-> reported[id] + IF id \in pass[k].ids THEN 1 ELSE 0]
          /\ pass' = [pass EXCEPT ![k] = [state |-> "idle", ids |-> {}]]
          /\ due' = FALSE /\ UNCHANGED <<job, rows, prefs, member>>
      BY <1>3 DEF CommitDigest, SetPass
    <2>3. reported' \in [Ids -> Nat] /\ ReportedInv'
      BY <2>1, <2>2 DEF MailInv, MailTypes, ReportedInv
    <2>4. MailTypes'
      BY <2>1, <2>2, <2>3 DEF MailInv, MailTypes
    <2>5. pass'[k].ids = {} /\ pass'[k].state = "idle" /\ \A l \in Passes : l # k => pass'[l] = pass[l]
      BY <2>1, <2>2
    <2>6. pass' \in [Passes -> [state : {"idle", "due", "taken"}, ids : SUBSET Ids]]
      BY <2>1, <2>2
    <2>7. PassTypes'
      BY <2>5, <2>6 DEF MailInv, PassTypes
    <2>8. \A l \in Passes : l # k => pass[l].ids \cap pass[k].ids = {}
      BY DEF MailInv, PassTypes
    <2>9. TakenInv'
      BY <2>2, <2>5, <2>8 DEF MailInv, TakenInv
    <2>10. QED
      BY <2>3, <2>4, <2>7, <2>9 DEF MailInv
  <1>4. QED
    BY <1>1, <1>2, <1>3

LEMMA MailStep ==
    ASSUME MailInv, [InboxNext]_inboxVars
    PROVE  MailInv'
  <1>1. CASE TabNext \/ HubNext \/ UNCHANGED inboxVars
    <2>1. UNCHANGED <<job, rows, mail, member>>
      BY <1>1, BellLeavesMail DEF inboxVars
    <2>2. QED
      BY <2>1 DEF MailInv, MailTypes, PassTypes, TakenInv, ReportedInv, mail
  <1>2. QED
    BY <1>1, InboxNextSplit, DeliveryStep, PersonStep, DigestStep

(***************************************************************************)
(* The bell.  A stream that is open, or has something on its way, is there *)
(* and fed; a tab is live only with a stream that is, or was, open.        *)
(***************************************************************************)

StreamInv ==
    /\ StreamsAreFed
    /\ signal # "none" => stream \in {"open", "ended"}
    /\ tab = "live" => stream \in {"open", "ended"}
    /\ conn = "opening" => stream \in {"none", "subscribing"}

\* An answer is late if a later one has arrived, so those before it are too.
LateInv ==
    \A i, j \in 1..Len(loads) : i < j /\ loads[j].late => loads[i].late

\* What the bell will show when every answer has arrived, if none is late: the
\* last load's, or what it shows now.
Covered ==
    IF Len(loads) > 0 /\ ~ loads[Len(loads)].late
      THEN Listed \subseteq loads[Len(loads)].ids
      ELSE Listed \subseteq shown

CoveredInv == tab = "live" /\ signal = "none" /\ ~ missed => Covered

BellInv == HubTypes /\ LoadTypes /\ StreamInv /\ LateInv /\ CoveredInv

LEMMA RemoveAtEffect ==
    ASSUME NEW S, NEW s \in Seq(S), NEW i \in 1..Len(s)
    PROVE  /\ RemoveAt(s, i) \in Seq(S) /\ Len(RemoveAt(s, i)) = Len(s) - 1
           /\ \A j \in 1..(Len(s) - 1) :
                  RemoveAt(s, i)[j] = IF j < i THEN s[j] ELSE s[j + 1]
  <1> DEFINE before == SubSeq(s, 1, i - 1)
             after == SubSeq(s, i + 1, Len(s))
  <1>1. Len(s) \in Nat /\ i \in Nat /\ i > 0 /\ i <= Len(s)
        /\ \A j \in 1..Len(s) : s[j] \in S
    BY LenProperties, ElementOfSeq
  <1>2. /\ before \in Seq(S) /\ Len(before) = i - 1
        /\ \A j \in 1..(i - 1) : before[j] = s[j]
    <2>1. \A j \in 1..(i - 1) : s[j] \in S
      BY <1>1
    <2>2. /\ SubSeq(s, 1, i - 1) \in Seq(S)
          /\ Len(SubSeq(s, 1, i - 1)) = IF 1 <= i - 1 THEN (i - 1) - 1 + 1 ELSE 0
          /\ \A j \in 1..((i - 1) - 1 + 1) : SubSeq(s, 1, i - 1)[j] = s[1 + j - 1]
      BY <1>1, <2>1, SubSeqProperties
    <2>3. QED
      BY <1>1, <2>2
  <1>3. /\ after \in Seq(S) /\ Len(after) = Len(s) - i
        /\ \A j \in 1..(Len(s) - i) : after[j] = s[j + i]
    <2>1. \A j \in (i + 1)..Len(s) : s[j] \in S
      BY <1>1
    <2>2. /\ SubSeq(s, i + 1, Len(s)) \in Seq(S)
          /\ Len(SubSeq(s, i + 1, Len(s)))
               = IF i + 1 <= Len(s) THEN Len(s) - (i + 1) + 1 ELSE 0
          /\ \A j \in 1..(Len(s) - (i + 1) + 1) :
                 SubSeq(s, i + 1, Len(s))[j] = s[(i + 1) + j - 1]
      BY <1>1, <2>1, SubSeqProperties
    <2>3. QED
      BY <1>1, <2>2
  <1> HIDE DEF before, after
  <1>4. /\ before \o after \in Seq(S)
        /\ Len(before \o after) = (i - 1) + (Len(s) - i)
        /\ \A j \in 1..((i - 1) + (Len(s) - i)) :
               (before \o after)[j] = IF j <= i - 1 THEN before[j] ELSE after[j - (i - 1)]
    <2>1. /\ before \o after \in Seq(S)
          /\ Len(before \o after) = Len(before) + Len(after)
          /\ \A j \in 1..(Len(before) + Len(after)) :
                 (before \o after)[j] = IF j <= Len(before) THEN before[j]
                                         ELSE after[j - Len(before)]
      BY <1>2, <1>3, ConcatProperties, Zenon
    <2>2. Len(before) = i - 1 /\ Len(after) = Len(s) - i
      BY <1>2, <1>3
    <2>3. QED
      BY <2>1, <2>2
  <1>5. RemoveAt(s, i) = before \o after
    BY DEF RemoveAt, before, after
  <1>6. ASSUME NEW j \in 1..(Len(s) - 1)
        PROVE  (before \o after)[j] = IF j < i THEN s[j] ELSE s[j + 1]
    <2>1. j \in Nat /\ 1 <= j /\ j <= Len(s) - 1
      BY <1>1
    <2>2. CASE j < i
      BY <1>1, <1>2, <1>4, <2>1, <2>2
    <2>3. CASE ~ (j < i)
      <3>1. j - (i - 1) \in 1..(Len(s) - i) /\ (j - (i - 1)) + i = j + 1
        BY <1>1, <2>1, <2>3
      <3>2. QED
        BY <1>1, <1>3, <1>4, <2>1, <2>3, <3>1
    <2>4. QED
      BY <2>2, <2>3
  <1>7. QED
    BY <1>1, <1>4, <1>5, <1>6

LEMMA LoadsTyped ==
    ASSUME LoadTypes
    PROVE  /\ Len(loads) \in Nat /\ DOMAIN loads = 1..Len(loads)
           /\ \A j \in 1..Len(loads) :
                  loads[j].ids \subseteq Ids /\ loads[j].late \in BOOLEAN
                  /\ loads[j] \in LoadAnswers
  <1>1. loads \in Seq(LoadAnswers)
    BY DEF LoadTypes
  <1>2. Len(loads) \in Nat /\ DOMAIN loads = 1..Len(loads)
    BY <1>1, LenProperties
  <1>3. \A j \in 1..Len(loads) : loads[j] \in LoadAnswers
    BY <1>1, ElementOfSeq
  <1>4. \A a \in LoadAnswers : a.ids \subseteq Ids /\ a.late \in BOOLEAN
    BY DEF LoadAnswers
  <1>5. QED
    BY <1>2, <1>3, <1>4

LEMMA AnswerEffect ==
    ASSUME LoadTypes, NEW i \in 1..MaxLoads, Answer(i)
    PROVE  /\ i \in 1..Len(loads) /\ LoadTypes' /\ Len(loads') = Len(loads) - 1
           /\ \A j \in 1..(Len(loads) - 1) :
                  IF j < i THEN loads'[j].late ELSE loads'[j] = loads[j + 1]
           /\ shown' = loads[i].ids /\ (missed' <=> missed \/ loads[i].late)
  <1> DEFINE marked == [j \in DOMAIN loads |-> IF j < i THEN [loads[j] EXCEPT !.late = TRUE]
                                                     ELSE loads[j]]
  <1>1. /\ Len(loads) \in Nat /\ DOMAIN loads = 1..Len(loads) /\ i \in 1..Len(loads)
        /\ \A j \in 1..Len(loads) :
                  loads[j].ids \subseteq Ids /\ loads[j].late \in BOOLEAN
                  /\ loads[j] \in LoadAnswers
    BY LoadsTyped DEF Answer
  <1>2. \A j \in 1..Len(loads) : [loads[j] EXCEPT !.late = TRUE] \in LoadAnswers
    BY <1>1 DEF LoadAnswers
  <1>3. marked \in [1..Len(loads) -> LoadAnswers]
    BY <1>1, <1>2
  <1>4. marked \in Seq(LoadAnswers)
    BY <1>1, <1>3, SeqDef
  <1>5. Len(marked) = Len(loads)
    <2>1. Len(marked) \in Nat /\ DOMAIN marked = 1..Len(marked)
      BY <1>4, LenProperties
    <2>2. QED
      BY <1>1, <1>3, <2>1
  <1>6. \A j \in 1..Len(loads) : IF j < i THEN marked[j].late ELSE marked[j] = loads[j]
    BY <1>1 DEF LoadAnswers
  <1> HIDE DEF marked
  <1>7. loads' = RemoveAt(marked, i) /\ shown' = loads[i].ids
        /\ missed' = (missed \/ loads[i].late)
    BY DEF Answer, marked
  <1>8. /\ loads' \in Seq(LoadAnswers) /\ Len(loads') = Len(loads) - 1
        /\ \A j \in 1..(Len(loads) - 1) : loads'[j] = IF j < i THEN marked[j] ELSE marked[j + 1]
    BY <1>1, <1>4, <1>5, <1>7, RemoveAtEffect
  <1>9. \A j \in 1..(Len(loads) - 1) : IF j < i THEN loads'[j].late ELSE loads'[j] = loads[j + 1]
    BY <1>1, <1>6, <1>8
  <1>10. LoadTypes'
    BY <1>1, <1>7, <1>8 DEF LoadTypes
  <1>11. QED
    BY <1>1, <1>7, <1>8, <1>9, <1>10

LEMMA LoadFailsEffect ==
    ASSUME LoadTypes, NEW i \in 1..MaxLoads, LoadFails(i)
    PROVE  /\ i \in 1..Len(loads) /\ LoadTypes' /\ Len(loads') = Len(loads) - 1
           /\ \A j \in 1..(Len(loads) - 1) :
                  loads'[j] = IF j < i THEN loads[j] ELSE loads[j + 1]
           /\ shown' = shown
           /\ missed' <=> missed \/ (i = Len(loads) /\ ~ loads[i].late)
  <1>1. Len(loads) \in Nat /\ DOMAIN loads = 1..Len(loads) /\ i \in 1..Len(loads)
    BY LoadsTyped DEF LoadFails
  <1>2. loads' = RemoveAt(loads, i) /\ shown' = shown
        /\ missed' = (missed \/ (i = Len(loads) /\ ~ loads[i].late))
    BY DEF LoadFails
  <1>3. loads \in Seq(LoadAnswers)
    BY DEF LoadTypes
  <1>4. /\ loads' \in Seq(LoadAnswers) /\ Len(loads') = Len(loads) - 1
        /\ \A j \in 1..(Len(loads) - 1) : loads'[j] = IF j < i THEN loads[j] ELSE loads[j + 1]
    BY <1>1, <1>2, <1>3, RemoveAtEffect
  <1>5. LoadTypes'
    <2>1. missed' \in BOOLEAN /\ shown' \subseteq Ids /\ Len(loads) <= MaxLoads
      BY <1>2 DEF LoadTypes
    <2>2. QED
      BY <1>1, <1>4, <2>1 DEF LoadTypes
  <1>6. QED
    BY <1>1, <1>2, <1>4, <1>5

\* A load asks for everything there is.
LEMMA LoadEffect ==
    ASSUME LoadTypes, LateInv, Load, rows' = rows, member' = member, shown' = shown
    PROVE  LoadTypes' /\ LateInv' /\ Covered'
  <1>1. Len(loads) \in Nat /\ DOMAIN loads = 1..Len(loads)
        /\ \A j \in 1..Len(loads) : loads[j].late \in BOOLEAN
    BY LoadsTyped
  <1>2. [ids |-> Listed, late |-> FALSE] \in LoadAnswers
    BY DEF Listed, LoadAnswers
  <1>3. /\ loads \in Seq(LoadAnswers) /\ Len(loads) < MaxLoads /\ missed' = FALSE
        /\ loads' = Append(loads, [ids |-> Listed, late |-> FALSE])
    BY DEF Load, LoadTypes
  <1>4. /\ loads' \in Seq(LoadAnswers) /\ Len(loads') = Len(loads) + 1
        /\ \A j \in 1..Len(loads) : loads'[j] = loads[j]
        /\ loads'[Len(loads) + 1] = [ids |-> Listed, late |-> FALSE]
    BY <1>1, <1>2, <1>3, AppendProperties
  <1>5. Listed' = Listed
    BY DEF Listed
  <1>6. LoadTypes'
    <2>1. Len(loads') <= MaxLoads
      BY <1>1, <1>3, <1>4
    <2>2. missed' \in BOOLEAN /\ shown' \subseteq Ids
      BY <1>3 DEF LoadTypes
    <2>3. QED
      BY <1>4, <2>1, <2>2 DEF LoadTypes
  <1>7. Covered'
    BY <1>1, <1>4, <1>5 DEF Covered
  <1>8. ASSUME NEW i \in 1..Len(loads'), NEW j \in 1..Len(loads'), i < j, loads'[j].late
        PROVE  loads'[i].late
    <2>1. j # Len(loads) + 1
      BY <1>4, <1>8
    <2>2. i \in 1..Len(loads) /\ j \in 1..Len(loads)
      BY <1>1, <1>4, <1>8, <2>1
    <2>3. QED
      BY <1>4, <1>8, <2>2 DEF LateInv
  <1>9. QED
    BY <1>6, <1>7, <1>8 DEF LateInv

LEMMA AnswerStep ==
    ASSUME BellInv, NEW i \in 1..MaxLoads, Answer(i)
    PROVE  BellInv'
  <1>1. UNCHANGED <<hub, signal, tab, failures, rows, member>> /\ Listed' = Listed
    BY DEF Answer, Listed
  <1>2. HubTypes' /\ StreamInv'
    BY <1>1 DEF BellInv, HubTypes, StreamInv, StreamsAreFed, hub
  <1>3. /\ i \in 1..Len(loads) /\ LoadTypes' /\ Len(loads') = Len(loads) - 1
        /\ \A j \in 1..(Len(loads) - 1) :
               IF j < i THEN loads'[j].late ELSE loads'[j] = loads[j + 1]
        /\ shown' = loads[i].ids /\ (missed' <=> missed \/ loads[i].late)
    BY AnswerEffect DEF BellInv
  <1>4. Len(loads) \in Nat
    BY LoadsTyped DEF BellInv
  <1>5. LateInv'
    <2>1. SUFFICES ASSUME NEW g \in 1..Len(loads'), NEW j \in 1..Len(loads'), g < j,
                          loads'[j].late
                   PROVE  loads'[g].late
      BY DEF LateInv
    <2>2. CASE g < i
      BY <1>3, <1>4, <2>1, <2>2
    <2>3. CASE ~ (g < i)
      <3>1. /\ loads'[g] = loads[g + 1] /\ loads'[j] = loads[j + 1]
            /\ g + 1 \in 1..Len(loads) /\ j + 1 \in 1..Len(loads) /\ g + 1 < j + 1
        BY <1>3, <1>4, <2>1, <2>3
      <3>2. QED
        BY <2>1, <3>1 DEF BellInv, LateInv
    <2>4. QED
      BY <2>2, <2>3
  <1>6. ASSUME tab' = "live", signal' = "none", ~ missed' PROVE Covered'
    <2>1. Covered /\ ~ loads[i].late
      BY <1>1, <1>3, <1>6 DEF BellInv, CoveredInv
    <2>2. ~ loads[Len(loads)].late
      BY <1>3, <1>4, <2>1 DEF BellInv, LateInv
    <2>3. Listed \subseteq loads[Len(loads)].ids
      BY <1>3, <1>4, <2>1, <2>2 DEF Covered
    <2>4. CASE i = Len(loads)
      <3>1. Len(loads') > 0 => loads'[Len(loads')].late
        BY <1>3, <1>4, <2>4
      <3>2. QED
        BY <1>1, <1>3, <2>3, <2>4, <3>1 DEF Covered
    <2>5. CASE i # Len(loads)
      <3>1. Len(loads') > 0 /\ loads'[Len(loads')] = loads[Len(loads)]
        BY <1>3, <1>4, <2>5
      <3>2. QED
        BY <1>1, <2>2, <2>3, <3>1 DEF Covered
    <2>6. QED
      BY <2>4, <2>5
  <1>7. QED
    BY <1>2, <1>3, <1>5, <1>6 DEF BellInv, CoveredInv

LEMMA LoadFailsStep ==
    ASSUME BellInv, NEW i \in 1..MaxLoads, LoadFails(i)
    PROVE  BellInv'
  <1>1. UNCHANGED <<hub, signal, tab, failures, rows, member>> /\ Listed' = Listed
    BY DEF LoadFails, Listed
  <1>2. HubTypes' /\ StreamInv'
    BY <1>1 DEF BellInv, HubTypes, StreamInv, StreamsAreFed, hub
  <1>3. /\ i \in 1..Len(loads) /\ LoadTypes' /\ Len(loads') = Len(loads) - 1
        /\ \A j \in 1..(Len(loads) - 1) :
               loads'[j] = IF j < i THEN loads[j] ELSE loads[j + 1]
        /\ shown' = shown
        /\ missed' <=> missed \/ (i = Len(loads) /\ ~ loads[i].late)
    BY LoadFailsEffect DEF BellInv
  <1>4. Len(loads) \in Nat
    BY LoadsTyped DEF BellInv
  <1>5. LateInv'
    <2>1. SUFFICES ASSUME NEW g \in 1..Len(loads'), NEW j \in 1..Len(loads'), g < j,
                          loads'[j].late
                   PROVE  loads'[g].late
      BY DEF LateInv
    <2>2. PICK h \in {g, g + 1} : loads'[g] = loads[h] /\ (h = g <=> g < i)
      BY <1>3, <1>4, <2>1
    <2>3. PICK k \in {j, j + 1} : loads'[j] = loads[k] /\ (k = j <=> j < i)
      BY <1>3, <1>4, <2>1
    <2>4. h \in 1..Len(loads) /\ k \in 1..Len(loads) /\ h < k
      BY <1>3, <1>4, <2>1, <2>2, <2>3
    <2>5. QED
      BY <2>1, <2>2, <2>3, <2>4 DEF BellInv, LateInv
  <1>6. ASSUME tab' = "live", signal' = "none", ~ missed' PROVE Covered'
    <2>1. Covered /\ (i = Len(loads) => loads[i].late)
      BY <1>1, <1>3, <1>6 DEF BellInv, CoveredInv
    <2>2. CASE i = Len(loads)
      <3>1. Listed \subseteq shown
        BY <1>4, <2>1, <2>2 DEF Covered
      <3>2. Len(loads') > 0 => loads'[Len(loads')].late
        <4>1. SUFFICES ASSUME Len(loads') > 0 PROVE loads'[Len(loads')].late
          OBVIOUS
        <4>2. loads'[Len(loads')] = loads[Len(loads) - 1]
              /\ Len(loads) - 1 \in 1..Len(loads) /\ Len(loads) - 1 < i
          BY <1>3, <1>4, <2>2, <4>1
        <4>3. QED
          BY <1>3, <2>1, <2>2, <4>2 DEF BellInv, LateInv
      <3>3. QED
        BY <1>1, <1>3, <3>1, <3>2 DEF Covered
    <2>3. CASE i # Len(loads)
      <3>1. Len(loads') > 0 /\ Len(loads) > 0 /\ loads'[Len(loads')] = loads[Len(loads)]
        BY <1>3, <1>4, <2>3
      <3>2. QED
        BY <1>1, <1>3, <2>1, <3>1 DEF Covered
    <2>4. QED
      BY <2>2, <2>3
  <1>7. QED
    BY <1>2, <1>3, <1>5, <1>6 DEF BellInv, CoveredInv

\* A step that leaves the loads and what is listed alone, and after which the
\* tab is live and knows of everything only if it did before.
LEMMA QuietBell ==
    ASSUME BellInv, HubTypes', StreamInv', UNCHANGED <<rows, member, shown, loads>>,
           missed' \in BOOLEAN,
           tab' = "live" /\ signal' = "none" /\ ~ missed' =>
               tab = "live" /\ signal = "none" /\ ~ missed
    PROVE  BellInv'
  <1>1. LoadTypes'
    BY DEF BellInv, LoadTypes
  <1>2. LateInv'
    BY DEF BellInv, LateInv
  <1>3. Covered' <=> Covered
    BY DEF Covered, Listed
  <1>4. QED
    BY <1>1, <1>2, <1>3 DEF BellInv, CoveredInv

LEMMA TabStep ==
    ASSUME BellInv, TabNext
    PROVE  BellInv'
  <1>1. HubTypes /\ LoadTypes /\ StreamInv /\ LateInv /\ missed \in BOOLEAN
    BY DEF BellInv, LoadTypes
  <1>2. UNCHANGED <<rows, member>>
    BY BellLeavesMail
  <1>3. CASE Poll
    <2>1. HubTypes' /\ StreamInv' /\ tab' # "live" /\ shown' = shown /\ Load
      BY <1>1, <1>3 DEF Poll, HubTypes, StreamInv, StreamsAreFed, hub
    <2>2. QED
      BY <1>1, <1>2, <2>1, LoadEffect DEF BellInv, CoveredInv
  <1>4. CASE ReceiveEvent
    <2>1. HubTypes' /\ StreamInv' /\ shown' = shown /\ Load
      BY <1>1, <1>4 DEF ReceiveEvent, HubTypes, StreamInv, StreamsAreFed, hub
    <2>2. QED
      BY <1>1, <1>2, <2>1, LoadEffect DEF BellInv, CoveredInv
  <1>5. CASE ShowTab \/ HideTab \/ StreamError
    <2>1. UNCHANGED <<shown, loads, missed>> /\ tab' # "live"
      BY <1>5 DEF ShowTab, HideTab, StreamError, CountError
    <2>2. HubTypes' /\ StreamInv'
      <3>1. CASE ShowTab
        BY <1>1, <3>1 DEF ShowTab, HubTypes, StreamInv, StreamsAreFed, hub
      <3>2. CASE HideTab
        BY <1>1, <3>2 DEF HideTab, Leave, Listening, HubTypes, StreamInv, StreamsAreFed
      <3>3. CASE StreamError
        BY <1>1, <3>3 DEF StreamError, CountError, Leave, Listening, HubTypes, StreamInv,
              StreamsAreFed
      <3>4. QED
        BY <1>5, <3>1, <3>2, <3>3
    <2>3. QED
      BY <1>1, <1>2, <2>1, <2>2, QuietBell
  <1>6. QED
    BY <1>3, <1>4, <1>5, AnswerStep, LoadFailsStep DEF TabNext

LEMMA HubStep ==
    ASSUME BellInv, HubNext
    PROVE  BellInv'
  <1>1. HubTypes /\ StreamInv /\ missed \in BOOLEAN
    BY DEF BellInv, LoadTypes
  <1>2. UNCHANGED <<rows, member>>
    BY BellLeavesMail
  <1>3. UNCHANGED <<shown, loads, missed>>
    BY DEF HubNext, Refuse, Subscribe, Connected, OpenStream, ConnectFails, EndStream,
          EndByServer, LoseConnection, NoticeLoss, Restart, bell
  <1>4. HubTypes'
    <2>1. CASE Subscribe \/ Connected \/ OpenStream
      BY <1>1, <2>1 DEF Subscribe, Connected, OpenStream, bell, HubTypes
    <2>2. CASE Refuse \/ ConnectFails
      <3>1. /\ conn' \in {conn, "none"} /\ stream' \in {stream, "none"} /\ signal' = signal
            /\ stale' \in {stale, FALSE}
        BY <2>2 DEF Refuse, ConnectFails, hub
      <3>2. leaked' \in BOOLEAN
        <4>1. CASE Refuse
          BY <1>1, <4>1 DEF Refuse, hub, HubTypes
        <4>2. CASE ConnectFails
          BY <4>2, Zenon DEF ConnectFails
        <4>3. QED
          BY <2>2, <4>1, <4>2
      <3>3. tab' \in {tab, "polling", "connecting"} /\ failures' \in 0..2
        BY <1>1, <2>2 DEF Refuse, ConnectFails, CountError, HubTypes
      <3>4. QED
        BY <1>1, <3>1, <3>2, <3>3 DEF HubTypes
    <2>3. CASE EndStream \/ EndByServer
      BY <1>1, <2>3 DEF EndStream, EndByServer, Disconnect, bell, HubTypes
    <2>4. CASE LoseConnection \/ NoticeLoss
      BY <1>1, <2>4 DEF LoseConnection, NoticeLoss, bell, HubTypes
    <2>5. CASE Restart
      <3>1. stale' \in BOOLEAN /\ leaked' \in BOOLEAN
        BY <2>5, Zenon DEF Restart
      <3>2. conn' = "none" /\ stream' \in {"none", "ended"} /\ UNCHANGED <<signal, tab, failures>>
        BY <2>5 DEF Restart, bell
      <3>3. QED
        BY <1>1, <3>1, <3>2 DEF HubTypes
    <2>6. QED
      BY <2>1, <2>2, <2>3, <2>4, <2>5 DEF HubNext
  <1>5. StreamInv' /\ (tab' = "live" /\ signal' = "none" => tab = "live" /\ signal = "none")
    <2> USE DEF StreamInv, StreamsAreFed, HubTypes
    <2>1. CASE Subscribe \/ Connected \/ OpenStream
      BY <1>1, <2>1 DEF Subscribe, Connected, OpenStream, HasClient, bell
    <2>2. CASE Refuse
      <3>1. UNCHANGED <<conn, stream, signal>> /\ tab' # "live"
        BY <2>2 DEF Refuse, CountError, hub
      <3>2. QED
        BY <1>1, <3>1
    <2>3. CASE ConnectFails
      <3>1. conn = "opening" /\ conn' = "none" /\ stream' = "none" /\ signal' = signal
        BY <2>3 DEF ConnectFails
      <3>2. tab' # "live"
        BY <1>1, <2>3, <3>1 DEF ConnectFails, CountError
      <3>3. QED
        BY <1>1, <3>1, <3>2
    <2>4. CASE EndStream \/ EndByServer
      BY <1>1, <2>4 DEF EndStream, EndByServer, Disconnect, Idle, Listening, bell
    <2>5. CASE LoseConnection \/ NoticeLoss
      BY <1>1, <2>5 DEF LoseConnection, NoticeLoss, Idle, Listening, bell
    <2>6. CASE Restart
      BY <1>1, <2>6 DEF Restart, bell
    <2> HIDE DEF StreamInv, StreamsAreFed, HubTypes
    <2>7. QED
      BY <2>1, <2>2, <2>3, <2>4, <2>5, <2>6 DEF HubNext
  <1>6. QED
    BY <1>1, <1>2, <1>3, <1>4, <1>5, QuietBell

LEMMA BellStep ==
    ASSUME BellInv, [InboxNext]_inboxVars
    PROVE  BellInv'
  <1>1. CASE UNCHANGED inboxVars
    BY <1>1, QuietBell DEF inboxVars, BellInv, bell, hub, HubTypes, StreamInv, StreamsAreFed,
          LoadTypes
  <1>2. CASE DeliveryNext \/ DigestNext \/ PersonNext
    <2>1. HubTypes /\ LoadTypes /\ StreamInv /\ missed \in BOOLEAN
      BY DEF BellInv, LoadTypes
    <2>2. UNCHANGED <<conn, stream, stale, leaked, tab, failures, shown, loads>>
      BY <1>2, MailLeavesBell DEF hub, bell
    <2>3. CASE UNCHANGED <<signal, missed>> /\ Listed' \subseteq Listed
      <3>1. HubTypes' /\ LoadTypes' /\ StreamInv'
        BY <2>1, <2>2, <2>3 DEF HubTypes, LoadTypes, StreamInv, StreamsAreFed
      <3>2. LateInv'
        BY <2>2 DEF BellInv, LateInv
      <3>3. Covered => Covered'
        BY <2>2, <2>3 DEF Covered
      <3>4. QED
        BY <2>2, <2>3, <3>1, <3>2, <3>3 DEF BellInv, CoveredInv
    <2>4. ASSUME NEW e \in Events, InsertNotification(e) PROVE BellInv'
      <3>1. /\ signal' = IF conn = "open" /\ stream = "open" /\ signal = "none"
                           THEN "event" ELSE signal
            /\ missed' = (missed \/ stream = "ended"
                                  \/ (stream = "open" /\ conn \in {"broken", "reopening"}))
        BY <2>4 DEF InsertNotification
      <3>2. HubTypes' /\ StreamInv' /\ LoadTypes'
        BY <2>1, <2>2, <3>1 DEF HubTypes, StreamInv, StreamsAreFed, LoadTypes
      <3>3. LateInv'
        BY <2>2 DEF BellInv, LateInv
      <3>4. ~ (tab' = "live" /\ signal' = "none" /\ ~ missed')
        BY <2>1, <2>2, <3>1 DEF HubTypes, StreamInv, StreamsAreFed
      <3>5. QED
        BY <3>2, <3>3, <3>4 DEF BellInv, CoveredInv
    <2>5. QED
      BY <1>2, <2>3, <2>4, MailLeavesBell
  <1>3. QED
    BY <1>1, <1>2, InboxNextSplit, TabStep, HubStep

InboxInv == MailInv /\ BellInv

LEMMA InboxInitHolds == InboxInit => InboxInv
  <1> SUFFICES ASSUME InboxInit PROVE InboxInv
    OBVIOUS
  <1>1. MailTypes
    BY DEF InboxInit, MailTypes, JobRecord
  <1>2. PassTypes /\ TakenInv /\ ReportedInv
    BY DEF InboxInit, PassTypes, TakenInv, ReportedInv
  <1>3. HubTypes /\ StreamInv
    <2>1. /\ conn = "none" /\ stream = "none" /\ stale = FALSE /\ leaked = FALSE
          /\ signal = "none" /\ tab = "hidden" /\ failures = 0
      BY DEF InboxInit
    <2>2. stale \in BOOLEAN /\ leaked \in BOOLEAN
      BY <2>1, Zenon
    <2>3. QED
      BY <2>1, <2>2 DEF HubTypes, StreamInv, StreamsAreFed
  <1>4. loads \in Seq(LoadAnswers) /\ Len(loads) = 0
    BY EmptySeq DEF InboxInit
  <1>5. LoadTypes /\ LateInv
    <2>1. missed = FALSE /\ shown = {}
      BY DEF InboxInit
    <2>2. missed \in BOOLEAN
      BY <2>1, Zenon
    <2>3. LoadTypes
      BY <1>4, <2>1, <2>2 DEF LoadTypes
    <2>4. LateInv
      BY <1>4 DEF LateInv
    <2>5. QED
      BY <2>3, <2>4
  <1>6. CoveredInv
    BY DEF InboxInit, CoveredInv
  <1>7. QED
    BY <1>1, <1>2, <1>3, <1>5, <1>6 DEF InboxInv, MailInv, BellInv

LEMMA InboxStep == InboxInv /\ [InboxNext]_inboxVars => InboxInv'
  BY MailStep, BellStep DEF InboxInv

LEMMA InboxTyped == InboxInv => InboxTypes
  BY DEF InboxInv, MailInv, BellInv, InboxTypes, MailTypes, PassTypes, HubTypes, LoadTypes,
        JobRecord, LoadAnswers

\* However digests overlap, fail and race with reading and new notifications, no
\* row is held by two passes, and each is in one mail at most and marked exactly
\* when it is in one (notificationsRepo.takeForDigest).
THEOREM DigestsHold == InboxSafety => []DigestExact
  <1>1. InboxInv => DigestExact
    BY InboxTyped DEF InboxInv, MailInv, ReportedInv, DigestExact
  <1>2. InboxSafety => []InboxInv
    BY InboxInitHolds, InboxStep, PTL DEF InboxSafety
  <1>3. QED
    BY <1>1, <1>2, PTL

\* The bell of a tab whose stream is open and quiet shows everything there is,
\* unless it was not told or an answer was lost, and streams that are open keep
\* their connection (subscribe before "ready", disconnectIfIdle).
THEOREM BellHolds == InboxSafety => []BellSound
  <1>1. InboxInv => BellSound
    <2>1. SUFFICES ASSUME InboxInv PROVE BellSound
      OBVIOUS
    <2>2. StreamsAreFed /\ CoveredInv
      BY <2>1 DEF InboxInv, BellInv, StreamInv
    <2>3. loads = <<>> => Len(loads) = 0
      BY EmptySeq
    <2>4. Converges
      BY <2>2, <2>3 DEF CoveredInv, Covered, Converges
    <2>5. QED
      BY <2>2, <2>4 DEF BellSound
  <1>2. InboxSafety => []InboxInv
    BY InboxInitHolds, InboxStep, PTL DEF InboxSafety
  <1>3. QED
    BY <1>1, <1>2, PTL

=============================================================================
