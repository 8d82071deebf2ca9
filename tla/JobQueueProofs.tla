--------------------------- MODULE JobQueueProofs --------------------------
(***************************************************************************)
(* Proofs about JobQueue, for any number of rows, workers, keys and faults;*)
(* and about BrowserUploads and DocumentsPage, which MCBrowser runs.       *)
(***************************************************************************)
EXTENDS MCBrowser, FiniteSetTheorems, SequenceTheorems, WellFoundedInduction, TLAPS

USE KeysAssumption, JobsAssumption, LimitAssumption, FaultsAssumption

-----------------------------------------------------------------------------
(***************************************************************************)
(* Type correctness.                                                       *)
(***************************************************************************)

LEMMA JustDueType ==
    ASSUME TypeOK, NEW j \in Jobs
    PROVE  /\ JustDue(j) \subseteq Jobs \X Jobs
           /\ Forget(j) \subseteq Jobs \X Jobs
  BY DEF TypeOK, JustDue, Forget

\* What Finish does to the table is well typed, whatever the row's status.
LEMMA FinishType ==
    ASSUME TypeOK, NEW j \in Jobs, NEW outcome \in {"done", "failed"},
           Finish(j, outcome)
    PROVE  /\ rows' \in [Jobs -> Row]
           /\ before' \subseteq Jobs \X Jobs
           /\ \A i \in Jobs : rows'[i].lease = "none"
                                <=> rows'[i].status # "running"
  <1>1. before' \subseteq Jobs \X Jobs
    BY JustDueType DEF Finish
  <1>2. CASE rows[j].status = "absent"
    BY <1>1, <1>2 DEF Finish, TypeOK
  <1>3. CASE rows[j].status # "absent"
    <2> DEFINE r == [rows[j] EXCEPT !.status = outcome, !.lease = "none",
                                    !.due = FALSE]
    <2>1. r \in Row /\ r.status = outcome /\ r.lease = "none"
      <3>1. rows[j] \in Row
        BY DEF TypeOK
      <3>2. QED
        BY <3>1 DEF Row
    <2>2. rows' = [rows EXCEPT ![j] = r]
      BY <1>3 DEF Finish
    <2> HIDE DEF r
    <2>3. QED
      BY <1>1, <2>1, <2>2 DEF TypeOK
  <1>4. QED
    BY <1>2, <1>3

\* TypeOK holds in every reachable state, whatever faults are allowed.
THEOREM TypeCorrect == Safety => []TypeOK
  <1>1. Init => TypeOK
    BY DEF Init, TypeOK, Row, WorkerState, Absent, Idle
  <1>2. TypeOK /\ [Next]_vars => TypeOK'
    <2> SUFFICES ASSUME TypeOK, [Next]_vars PROVE TypeOK'
      OBVIOUS
    <2>1. ASSUME NEW j \in Jobs, NEW k \in Keys \cup {NoKey}, Enqueue(j, k)
          PROVE TypeOK'
      BY <2>1, JustDueType DEF Enqueue, TypeOK, Row, NoFault
    <2>2. ASSUME NEW j \in Jobs, BecomesDue(j) PROVE TypeOK'
      <3>1. rows[j] \in Row /\ rows' = [rows EXCEPT ![j].due = TRUE]
        BY <2>2 DEF BecomesDue, TypeOK
      <3>2. [rows[j] EXCEPT !.due = TRUE] \in Row
        BY <3>1 DEF Row
      <3>3. /\ rows' \in [Jobs -> Row]
            /\ \A i \in Jobs : /\ rows'[i].lease = rows[i].lease
                               /\ rows'[i].status = rows[i].status
        BY <3>1, <3>2 DEF TypeOK, Row
      <3>4. QED
        BY <2>2, <3>3, JustDueType DEF BecomesDue, TypeOK, NoFault
    <2>3. ASSUME NEW j \in Jobs, LeaseExpires(j) PROVE TypeOK'
      BY <2>3 DEF LeaseExpires, TypeOK, Row, NoFault
    <2>4. ASSUME NEW j \in Jobs, DeleteFinished(j) PROVE TypeOK'
      BY <2>4 DEF DeleteFinished, TypeOK, Row, Absent, NoFault
    <2>5. ASSUME NEW k \in OnceKeys, SlotPasses(k) PROVE TypeOK'
      BY <2>5 DEF SlotPasses, TypeOK, NoFault
    <2>6. ASSUME NEW w \in Workers, Claim(w) PROVE TypeOK'
      <3>1. PICK j \in Jobs :
              /\ rows' = [rows EXCEPT ![j].status = "running",
                                      ![j].attempts = @ + 1,
                                      ![j].lease = "held"]
              /\ worker' = [worker EXCEPT ![w] =
                               [job |-> j, attempt |-> rows[j].attempts + 1,
                                pc |-> "handler", reserved |-> TRUE]]
        BY <2>6 DEF Claim
      <3> DEFINE r == [rows[j] EXCEPT !.status = "running",
                                      !.attempts = rows[j].attempts + 1,
                                      !.lease = "held"]
      <3>2. rows[j] \in Row /\ rows[j].attempts + 1 \in Nat
        BY DEF TypeOK, Row
      <3>3. r \in Row /\ r.status = "running" /\ r.lease = "held"
        <4> DEFINE n == rows[j].attempts + 1
        <4>1. n \in Nat
          BY <3>2
        <4> HIDE DEF n
        <4>2. QED
          BY <3>2, <4>1 DEF Row
      <3>4. rows' = [rows EXCEPT ![j] = r]
        BY <3>1
      <3> HIDE DEF r
      <3>5. rows' \in [Jobs -> Row]
        BY <3>3, <3>4 DEF TypeOK
      <3>6. worker' \in [Workers -> WorkerState]
        BY <3>1, <3>2 DEF TypeOK, WorkerState, Row
      <3>7. QED
        BY <2>6, <3>1, <3>3, <3>4, <3>5, <3>6 DEF Claim, TypeOK, NoFault
    <2>7. ASSUME NEW w \in Workers, Overrun(w) PROVE TypeOK'
      <3> DEFINE j == worker[w].job
      <3>1. j \in Jobs
        BY <2>7 DEF Overrun, TypeOK, WorkerState
      <3>2. /\ rows' \in [Jobs -> Row]
            /\ \A i \in Jobs : rows'[i].lease = "none"
                                  <=> rows'[i].status # "running"
        <4>1. CASE rows[j].status = "running" /\ LeaseHolder(w, j)
          <5>1. rows' = [rows EXCEPT ![j].lease = "expired"]
            BY <2>7, <4>1 DEF Overrun
          <5>2. QED
            BY <3>1, <4>1, <5>1 DEF TypeOK, Row
        <4>2. CASE ~ (rows[j].status = "running" /\ LeaseHolder(w, j))
          BY <2>7, <4>2 DEF Overrun, TypeOK
        <4>3. QED
          BY <4>1, <4>2
      <3>3. worker' \in [Workers -> WorkerState]
        BY <2>7 DEF Overrun, TypeOK, WorkerState
      <3>4. QED
        BY <2>7, <3>2, <3>3 DEF Overrun, Fault, TypeOK
    <2>8. ASSUME NEW w \in Workers, Succeed(w) PROVE TypeOK'
      BY <2>8, FinishType DEF Succeed, TypeOK, WorkerState, Idle, NoFault
    <2>9. ASSUME NEW w \in Workers, HandlerThrows(w) PROVE TypeOK'
      BY <2>9 DEF HandlerThrows, TypeOK, WorkerState, NoFault
    <2>10. ASSUME NEW w \in Workers, LoseAck(w) PROVE TypeOK'
      BY <2>10, FinishType DEF LoseAck, Fault, TypeOK, WorkerState
    <2>11. ASSUME NEW w \in Workers, DeadLetter(w) PROVE TypeOK'
      BY <2>11, FinishType DEF DeadLetter, TypeOK, WorkerState, Idle, NoFault
    <2>12. ASSUME NEW w \in Workers, Retry(w) PROVE TypeOK'
      <3> DEFINE j == worker[w].job
                 r == [rows[j] EXCEPT !.status = "queued", !.due = FALSE,
                                      !.lease = "none"]
      <3>1. j \in Jobs /\ rows[j] \in Row
        BY <2>12 DEF Retry, TypeOK, WorkerState
      <3>2. r \in Row /\ r.status = "queued" /\ r.lease = "none"
        BY <3>1 DEF Row
      <3>3. \/ UNCHANGED <<rows, before>>
            \/ rows' = [rows EXCEPT ![j] = r] /\ before' = Forget(j)
        BY <2>12 DEF Retry
      <3> HIDE DEF r
      <3>4. /\ rows' \in [Jobs -> Row]
            /\ before' \subseteq Jobs \X Jobs
            /\ \A i \in Jobs : rows'[i].lease = "none"
                                  <=> rows'[i].status # "running"
        BY <3>1, <3>2, <3>3, JustDueType DEF TypeOK
      <3>5. QED
        BY <2>12, <3>4 DEF Retry, TypeOK, WorkerState, Idle, NoFault
    <2>13. ASSUME NEW w \in Workers, Abandon(w) PROVE TypeOK'
      BY <2>13 DEF Abandon, Fault, TypeOK, WorkerState, Idle
    <2>14. CASE UNCHANGED vars
      BY <2>14 DEF TypeOK, vars
    <2>15. QED
      BY <2>1, <2>2, <2>3, <2>4, <2>5, <2>6, <2>7, <2>8, <2>9, <2>10, <2>11,
         <2>12, <2>13, <2>14 DEF Next
  <1>3. QED
    BY <1>1, <1>2, PTL DEF Safety

-----------------------------------------------------------------------------
(***************************************************************************)
(* The unique index is enough: DedupeUnique is inductive under every fault.*)
(* Only Enqueue and Retry turn a row into an unfinished one; Claim moves a *)
(* row that already was.                                                   *)
(***************************************************************************)

\* A step that neither changes keys nor adds an unfinished row keeps the
\* dedupe keys unique.
LEMMA FewerUnfinished ==
    ASSUME DedupeUnique,
           \A j \in Jobs : rows'[j].status \in Unfinished
                => rows[j].status \in Unfinished /\ rows'[j].key = rows[j].key
    PROVE  DedupeUnique'
  BY DEF DedupeUnique, Unfinished

\* A step that adds one unfinished row whose key was free does too.
LEMMA OneMoreUnfinished ==
    ASSUME DedupeUnique, NEW j \in Jobs,
           ~ KeyTaken(rows'[j].key, j),
           \A i \in Jobs \ {j} : rows'[i] = rows[i]
    PROVE  DedupeUnique'
  BY DEF DedupeUnique, KeyTaken

LEMMA FinishFewer ==
    ASSUME TypeOK, NEW j \in Jobs, NEW outcome \in {"done", "failed"},
           Finish(j, outcome)
    PROVE  \A i \in Jobs : rows'[i].status \in Unfinished
                => rows[i].status \in Unfinished /\ rows'[i].key = rows[i].key
  <1>1. CASE rows[j].status = "absent"
    BY <1>1 DEF Finish
  <1>2. CASE rows[j].status # "absent"
    BY <1>2 DEF Finish, TypeOK, Row, Unfinished
  <1>3. QED
    BY <1>1, <1>2

\* Two unfinished jobs never share a dedupe key, for any number of workers
\* and any crashes, overruns and lost answers.
THEOREM DedupeHolds == Safety => []DedupeUnique
  <1>1. Init => DedupeUnique
    BY DEF Init, DedupeUnique, Absent, Unfinished
  <1>2. TypeOK /\ DedupeUnique /\ [Next]_vars => DedupeUnique'
    <2> SUFFICES ASSUME TypeOK, DedupeUnique, [Next]_vars
                 PROVE  DedupeUnique'
      OBVIOUS
    <2>1. ASSUME NEW j \in Jobs, NEW k \in Keys \cup {NoKey}, Enqueue(j, k)
          PROVE DedupeUnique'
      BY <2>1, OneMoreUnfinished DEF Enqueue, MayInsert, TypeOK
    <2>2. ASSUME NEW j \in Jobs, BecomesDue(j) PROVE DedupeUnique'
      BY <2>2, FewerUnfinished DEF BecomesDue, TypeOK, Row
    <2>3. ASSUME NEW j \in Jobs, LeaseExpires(j) PROVE DedupeUnique'
      BY <2>3, FewerUnfinished DEF LeaseExpires, TypeOK, Row
    <2>4. ASSUME NEW j \in Jobs, DeleteFinished(j) PROVE DedupeUnique'
      BY <2>4, FewerUnfinished DEF DeleteFinished, TypeOK, Absent, Unfinished
    <2>5. ASSUME NEW k \in OnceKeys, SlotPasses(k) PROVE DedupeUnique'
      BY <2>5, FewerUnfinished DEF SlotPasses
    <2>6. ASSUME NEW w \in Workers, Claim(w) PROVE DedupeUnique'
      <3>1. PICK j \in Jobs :
              /\ Claimable(j)
              /\ rows' = [rows EXCEPT ![j].status = "running",
                                      ![j].attempts = @ + 1,
                                      ![j].lease = "held"]
        BY <2>6 DEF Claim, NextInLine
      <3>2. rows[j].status \in Unfinished
        BY <3>1 DEF Claimable, Unfinished
      <3>3. rows'[j].key = rows[j].key /\ \A i \in Jobs \ {j} : rows'[i] = rows[i]
        BY <3>1 DEF TypeOK, Row
      <3>4. QED
        BY <3>2, <3>3, FewerUnfinished
    <2>7. ASSUME NEW w \in Workers, Overrun(w) PROVE DedupeUnique'
      BY <2>7, FewerUnfinished DEF Overrun, TypeOK, Row
    <2>8. ASSUME NEW w \in Workers, Succeed(w) PROVE DedupeUnique'
      BY <2>8, FinishFewer, FewerUnfinished DEF Succeed, TypeOK, WorkerState
    <2>9. ASSUME NEW w \in Workers, HandlerThrows(w) PROVE DedupeUnique'
      BY <2>9, FewerUnfinished DEF HandlerThrows
    <2>10. ASSUME NEW w \in Workers, LoseAck(w) PROVE DedupeUnique'
      BY <2>10, FinishFewer, FewerUnfinished DEF LoseAck, TypeOK, WorkerState
    <2>11. ASSUME NEW w \in Workers, DeadLetter(w) PROVE DedupeUnique'
      BY <2>11, FinishFewer, FewerUnfinished DEF DeadLetter, TypeOK, WorkerState
    <2>12. ASSUME NEW w \in Workers, Retry(w) PROVE DedupeUnique'
      <3> DEFINE j == worker[w].job
      <3>1. j \in Jobs
        BY <2>12 DEF Retry, TypeOK, WorkerState
      <3>2. CASE rows[j].status = "absent" \/ KeyTaken(rows[j].key, j)
        BY <2>12, <3>2, FewerUnfinished DEF Retry
      <3>3. CASE ~ (rows[j].status = "absent" \/ KeyTaken(rows[j].key, j))
        <4>1. rows' = [rows EXCEPT ![j].status = "queued", ![j].due = FALSE,
                                   ![j].lease = "none"]
          BY <2>12, <3>3 DEF Retry
        <4>2. /\ rows'[j].key = rows[j].key
              /\ \A i \in Jobs \ {j} : rows'[i] = rows[i]
          BY <3>1, <4>1 DEF TypeOK, Row
        <4>3. QED
          BY <3>1, <3>3, <4>2, OneMoreUnfinished
      <3>4. QED
        BY <3>2, <3>3
    <2>13. ASSUME NEW w \in Workers, Abandon(w) PROVE DedupeUnique'
      BY <2>13, FewerUnfinished DEF Abandon
    <2>14. CASE UNCHANGED vars
      BY <2>14, FewerUnfinished DEF vars
    <2>15. QED
      BY <2>1, <2>2, <2>3, <2>4, <2>5, <2>6, <2>7, <2>8, <2>9, <2>10, <2>11,
         <2>12, <2>13, <2>14 DEF Next
  <1>3. QED
    BY <1>1, <1>2, TypeCorrect, PTL DEF Safety

-----------------------------------------------------------------------------
(***************************************************************************)
(* What the three statements on a claimed row do, field by field.          *)
(***************************************************************************)

LEMMA ClaimEffect ==
    ASSUME TypeOK, NEW w \in Workers, Claim(w)
    PROVE  \E j \in Jobs :
             /\ Claimable(j)
             /\ rows'[j].status = "running"
             /\ rows'[j].lease = "held"
             /\ rows'[j].key = rows[j].key
             /\ rows'[j].attempts = rows[j].attempts + 1
             /\ \A i \in Jobs \ {j} : rows'[i] = rows[i]
             /\ worker[w].pc = "idle"
             /\ worker' = [worker EXCEPT ![w] =
                              [job |-> j, attempt |-> rows[j].attempts + 1,
                               pc |-> "handler", reserved |-> TRUE]]
  <1>1. PICK j \in Jobs :
          /\ Claimable(j)
          /\ rows' = [rows EXCEPT ![j].status = "running",
                                  ![j].attempts = @ + 1,
                                  ![j].lease = "held"]
          /\ worker' = [worker EXCEPT ![w] =
                           [job |-> j, attempt |-> rows[j].attempts + 1,
                            pc |-> "handler", reserved |-> TRUE]]
    BY DEF Claim, NextInLine
  <1>2. /\ rows'[j].status = "running"
        /\ rows'[j].lease = "held"
        /\ rows'[j].key = rows[j].key
        /\ rows'[j].attempts = rows[j].attempts + 1
        /\ \A i \in Jobs \ {j} : rows'[i] = rows[i]
    BY <1>1 DEF TypeOK, Row
  <1>3. worker[w].pc = "idle"
    BY DEF Claim
  <1>4. QED
    BY <1>1, <1>2, <1>3

LEMMA FinishEffect ==
    ASSUME TypeOK, NEW j \in Jobs, NEW outcome \in {"done", "failed"},
           Finish(j, outcome), rows[j].status # "absent"
    PROVE  /\ rows'[j].status = outcome
           /\ rows'[j].key = rows[j].key
           /\ rows'[j].attempts = rows[j].attempts
           /\ \A i \in Jobs \ {j} : rows'[i] = rows[i]
  BY DEF Finish, TypeOK, Row

LEMMA RetryEffect ==
    ASSUME TypeOK, NEW w \in Workers, Retry(w)
    PROVE  LET j == worker[w].job IN
           /\ j \in Jobs
           /\ worker' = [worker EXCEPT ![w] = Idle]
           /\ \/ rows' = rows /\ (rows[j].status = "absent" \/ KeyTaken(rows[j].key, j))
              \/ /\ rows'[j].status = "queued"
                 /\ rows'[j].key = rows[j].key
                 /\ rows'[j].attempts = rows[j].attempts
                 /\ \A i \in Jobs \ {j} : rows'[i] = rows[i]
  <1> DEFINE j == worker[w].job
  <1>1. j \in Jobs
    BY DEF Retry, TypeOK, WorkerState
  <1>2. CASE rows[j].status = "absent" \/ KeyTaken(rows[j].key, j)
    BY <1>1, <1>2 DEF Retry
  <1>3. CASE ~ (rows[j].status = "absent" \/ KeyTaken(rows[j].key, j))
    <2>1. rows' = [rows EXCEPT ![j].status = "queued", ![j].due = FALSE,
                               ![j].lease = "none"]
      BY <1>3 DEF Retry
    <2>2. worker' = [worker EXCEPT ![w] = Idle]
      BY DEF Retry
    <2>3. QED
      BY <1>1, <2>1, <2>2 DEF TypeOK, Row
  <1>4. QED
    BY <1>2, <1>3

\* A worker that is not idle holds a row.
LEMMA BusyHolds ==
    ASSUME TypeOK, NEW w \in Workers, worker[w].pc # "idle"
    PROVE  worker[w].job \in Jobs
  BY DEF TypeOK, WorkerState

-----------------------------------------------------------------------------
(***************************************************************************)
(* A slot is scheduled once, under every fault.                            *)
(***************************************************************************)

\* A step that keeps every row of the table, and the key of every row, keeps
\* the slots accounted for.
LEMMA RowsKept ==
    ASSUME SlotAccounted, inserted' = inserted, closed' = closed,
           \A j \in Jobs : rows[j].status # "absent"
                => rows'[j].status # "absent" /\ rows'[j].key = rows[j].key
    PROVE  SlotAccounted'
  BY DEF SlotAccounted, KeyEverSeen

LEMMA FinishKeeps ==
    ASSUME TypeOK, NEW j \in Jobs, NEW outcome \in {"done", "failed"},
           Finish(j, outcome)
    PROVE  \A i \in Jobs : rows[i].status # "absent"
                => rows'[i].status # "absent" /\ rows'[i].key = rows[i].key
  <1>1. CASE rows[j].status = "absent"
    BY <1>1 DEF Finish
  <1>2. CASE rows[j].status # "absent"
    BY <1>2, FinishEffect
  <1>3. QED
    BY <1>1, <1>2

\* No slot ever gets a second job, for any number of workers and any crashes,
\* overruns and lost answers; the finished row, kept until its slot has
\* passed, is what stops it.
THEOREM SlotHolds == Safety => []SlotScheduledOnce
  <1>1. Init => SlotAccounted
    BY DEF Init, SlotAccounted
  <1>2. TypeOK /\ SlotAccounted /\ [Next]_vars => SlotAccounted'
    <2> SUFFICES ASSUME TypeOK, SlotAccounted, [Next]_vars
                 PROVE  SlotAccounted'
      OBVIOUS
    <2>1. ASSUME NEW j \in Jobs, NEW k \in Keys \cup {NoKey}, Enqueue(j, k)
          PROVE SlotAccounted'
      <3>1. /\ rows'[j].status # "absent" /\ rows'[j].key = k
            /\ \A i \in Jobs \ {j} : rows'[i] = rows[i]
            /\ rows[j].status = "absent"
            /\ closed' = closed
        BY <2>1 DEF Enqueue, TypeOK
      <3>2. \A l \in OnceKeys : KeyEverSeen(l) => KeyEverSeen(l)'
        BY <3>1 DEF KeyEverSeen
      <3>3. CASE k \in OnceKeys
        <4>1. inserted' = [inserted EXCEPT ![k] = @ + 1]
          BY <2>1, <3>3 DEF Enqueue
        <4>2. inserted[k] = 0
          <5>1. k \notin closed /\ ~ KeyEverSeen(k)
            BY <2>1, <3>3 DEF Enqueue, MayInsert
          <5>2. inserted[k] \in Nat /\ inserted[k] <= 1 /\ inserted[k] # 1
            BY <3>3, <5>1 DEF SlotAccounted, TypeOK
          <5>3. QED
            BY <5>2
        <4>3. KeyEverSeen(k)'
          BY <3>1 DEF KeyEverSeen
        <4>4. inserted'[k] = 1 /\ \A l \in OnceKeys \ {k} : inserted'[l] = inserted[l]
          BY <3>3, <4>1, <4>2 DEF TypeOK
        <4>5. ASSUME NEW l \in OnceKeys
              PROVE  /\ inserted'[l] <= 1
                     /\ inserted'[l] = 1 /\ l \notin closed' => KeyEverSeen(l)'
          <5>1. CASE l = k
            BY <4>3, <4>4, <5>1
          <5>2. CASE l # k
            BY <3>1, <3>2, <4>4, <5>2 DEF SlotAccounted
          <5>3. QED
            BY <5>1, <5>2
        <4>6. QED
          BY <4>5 DEF SlotAccounted
      <3>4. CASE k \notin OnceKeys
        BY <2>1, <3>1, <3>2, <3>4 DEF Enqueue, SlotAccounted
      <3>5. QED
        BY <3>3, <3>4
    <2>2. ASSUME NEW j \in Jobs, BecomesDue(j) PROVE SlotAccounted'
      BY <2>2, RowsKept DEF BecomesDue, TypeOK, Row
    <2>3. ASSUME NEW j \in Jobs, LeaseExpires(j) PROVE SlotAccounted'
      BY <2>3, RowsKept DEF LeaseExpires, TypeOK, Row
    <2>4. ASSUME NEW j \in Jobs, DeleteFinished(j) PROVE SlotAccounted'
      <3>1. \A k \in OnceKeys : k \notin closed /\ KeyEverSeen(k)
                                    => KeyEverSeen(k)'
        BY <2>4 DEF DeleteFinished, KeyEverSeen, TypeOK
      <3>2. QED
        BY <2>4, <3>1 DEF DeleteFinished, SlotAccounted
    <2>5. ASSUME NEW k \in OnceKeys, SlotPasses(k) PROVE SlotAccounted'
      BY <2>5 DEF SlotPasses, SlotAccounted, KeyEverSeen
    <2>6. ASSUME NEW w \in Workers, Claim(w) PROVE SlotAccounted'
      BY <2>6, ClaimEffect, RowsKept DEF Claim
    <2>7. ASSUME NEW w \in Workers, Overrun(w) PROVE SlotAccounted'
      BY <2>7, RowsKept DEF Overrun, TypeOK, Row
    <2>8. ASSUME NEW w \in Workers, Succeed(w) PROVE SlotAccounted'
      BY <2>8, BusyHolds, FinishKeeps, RowsKept DEF Succeed
    <2>9. ASSUME NEW w \in Workers, HandlerThrows(w) PROVE SlotAccounted'
      BY <2>9, RowsKept DEF HandlerThrows
    <2>10. ASSUME NEW w \in Workers, LoseAck(w) PROVE SlotAccounted'
      BY <2>10, BusyHolds, FinishKeeps, RowsKept DEF LoseAck
    <2>11. ASSUME NEW w \in Workers, DeadLetter(w) PROVE SlotAccounted'
      BY <2>11, BusyHolds, FinishKeeps, RowsKept DEF DeadLetter
    <2>12. ASSUME NEW w \in Workers, Retry(w) PROVE SlotAccounted'
      BY <2>12, RetryEffect, RowsKept DEF Retry
    <2>13. ASSUME NEW w \in Workers, Abandon(w) PROVE SlotAccounted'
      BY <2>13, RowsKept DEF Abandon
    <2>14. CASE UNCHANGED vars
      BY <2>14, RowsKept DEF vars
    <2>15. QED
      BY <2>1, <2>2, <2>3, <2>4, <2>5, <2>6, <2>7, <2>8, <2>9, <2>10, <2>11,
         <2>12, <2>13, <2>14 DEF Next
  <1>3. SlotAccounted => SlotScheduledOnce
    BY DEF SlotAccounted, SlotScheduledOnce
  <1>4. QED
    BY <1>1, <1>2, <1>3, TypeCorrect, PTL DEF Safety

-----------------------------------------------------------------------------
(***************************************************************************)
(* When handlers stay inside their lease and answers are not lost, workers *)
(* may crash at any point and a job still has one handler at a time.       *)
(***************************************************************************)

CrashOnly == Faults \subseteq {"crash"}

\* A worker goes idle and its row is no longer running: every other worker
\* keeps its own row.
LEMMA ReleaseKeepsSole ==
    ASSUME TypeOK, SoleHandler, NEW w \in Workers, worker[w].job # NoJob,
           worker' = [worker EXCEPT ![w] = Idle],
           \A i \in Jobs \ {worker[w].job} : rows'[i] = rows[i],
           rows'[worker[w].job].status # "absent"
    PROVE  SoleHandler'
  <1>1. \A v \in Workers \ {w} : worker'[v] = worker[v]
    BY DEF TypeOK
  <1>2. worker'[w] = Idle
    BY DEF TypeOK
  <1>3. \A v \in Workers \ {w} : worker[v].job # worker[w].job
    BY DEF SoleHandler
  <1>4. \A v \in Workers : worker[v].job # NoJob => worker[v].job \in Jobs
    BY DEF TypeOK, WorkerState
  <1>5. \A v \in Workers \ {w} : worker[v].job # NoJob
            => rows'[worker[v].job] = rows[worker[v].job]
    BY <1>3, <1>4
  <1>6. QED
    BY <1>1, <1>2, <1>5 DEF SoleHandler, LeaseHolder, Holds, Idle

LEMMA InitSole == Init => SoleHandler
  BY DEF Init, SoleHandler, Idle

LEMMA NextSole ==
    ASSUME CrashOnly, TypeOK, SoleHandler, [Next]_vars
    PROVE  SoleHandler'
  <1>1. ASSUME NEW j \in Jobs, NEW k \in Keys \cup {NoKey}, Enqueue(j, k)
        PROVE SoleHandler'
    <2>1. /\ \A w \in Workers : worker[w].job # j
          /\ \A i \in Jobs \ {j} : rows'[i] = rows[i]
          /\ rows'[j].status # "absent"
          /\ worker' = worker
      BY <1>1 DEF Enqueue, Holds, TypeOK
    <2>2. \A w \in Workers : worker[w].job # NoJob => worker[w].job \in Jobs
      BY DEF TypeOK, WorkerState
    <2>3. QED
      BY <2>1, <2>2 DEF SoleHandler, LeaseHolder, Holds
  <1>2. ASSUME NEW j \in Jobs, BecomesDue(j) PROVE SoleHandler'
    <2>1. /\ rows[j].status = "queued"
          /\ rows'[j].status = "queued"
          /\ \A i \in Jobs \ {j} : rows'[i] = rows[i]
          /\ worker' = worker
      BY <1>2 DEF BecomesDue, TypeOK, Row
    <2>2. \A w \in Workers : worker[w].job # NoJob => worker[w].job \in Jobs
      BY DEF TypeOK, WorkerState
    <2>3. QED
      BY <2>1, <2>2 DEF SoleHandler, LeaseHolder, Holds
  <1>3. ASSUME NEW j \in Jobs, LeaseExpires(j) PROVE SoleHandler'
    <2>1. /\ \A w \in Workers : worker[w].job # j
          /\ \A i \in Jobs \ {j} : rows'[i] = rows[i]
          /\ rows'[j].status # "absent"
          /\ worker' = worker
      BY <1>3 DEF LeaseExpires, SoleHandler, LeaseHolder, Holds, TypeOK, Row
    <2>2. \A w \in Workers : worker[w].job # NoJob => worker[w].job \in Jobs
      BY DEF TypeOK, WorkerState
    <2>3. QED
      BY <2>1, <2>2 DEF SoleHandler, LeaseHolder, Holds
  <1>4. ASSUME NEW j \in Jobs, DeleteFinished(j) PROVE SoleHandler'
    <2>1. /\ rows[j].status # "running"
          /\ rows'[j] = Absent
          /\ \A i \in Jobs \ {j} : rows'[i] = rows[i]
          /\ worker' = worker
      BY <1>4 DEF DeleteFinished, TypeOK
    <2>2. \A w \in Workers : worker[w].job # NoJob => worker[w].job \in Jobs
      BY DEF TypeOK, WorkerState
    <2>3. QED
      BY <2>1, <2>2 DEF SoleHandler, LeaseHolder, Holds
  <1>5. ASSUME NEW k \in OnceKeys, SlotPasses(k) PROVE SoleHandler'
    BY <1>5 DEF SlotPasses, SoleHandler, LeaseHolder, Holds
  <1>6. ASSUME NEW w \in Workers, Claim(w) PROVE SoleHandler'
    <2>1. PICK j \in Jobs :
            /\ Claimable(j)
            /\ rows'[j].status = "running"
            /\ rows'[j].lease = "held"
            /\ rows'[j].attempts = rows[j].attempts + 1
            /\ \A i \in Jobs \ {j} : rows'[i] = rows[i]
            /\ worker' = [worker EXCEPT ![w] =
                             [job |-> j, attempt |-> rows[j].attempts + 1,
                              pc |-> "handler", reserved |-> TRUE]]
      BY <1>6, ClaimEffect
    <2>2. \A v \in Workers : worker[v].job # j
      BY <2>1 DEF Claimable, SoleHandler
    <2>3. /\ worker'[w].job = j /\ worker'[w].attempt = rows'[j].attempts
          /\ \A v \in Workers \ {w} : worker'[v] = worker[v]
      BY <2>1 DEF TypeOK
    <2>4. \A v \in Workers : worker[v].job # NoJob => worker[v].job \in Jobs
      BY DEF TypeOK, WorkerState
    <2>5. \A v \in Workers \ {w} : worker[v].job # NoJob
              => rows'[worker[v].job] = rows[worker[v].job]
      BY <2>1, <2>2, <2>4
    <2>6. QED
      BY <2>1, <2>2, <2>3, <2>5 DEF SoleHandler, LeaseHolder, Holds
  <1>7. ASSUME NEW w \in Workers, Overrun(w) PROVE SoleHandler'
    BY <1>7 DEF Overrun, Fault, CrashOnly
  <1>8. ASSUME NEW w \in Workers, Succeed(w) PROVE SoleHandler'
    <2>1. worker[w].job \in Jobs /\ worker[w].job # NoJob
      BY <1>8, BusyHolds DEF Succeed
    <2>2. rows[worker[w].job].status # "absent"
      BY <2>1 DEF SoleHandler
    <2>3. QED
      BY <1>8, <2>1, <2>2, FinishEffect, ReleaseKeepsSole DEF Succeed
  <1>9. ASSUME NEW w \in Workers, HandlerThrows(w) PROVE SoleHandler'
    <2>1. \A v \in Workers : /\ worker'[v].job = worker[v].job
                             /\ worker'[v].attempt = worker[v].attempt
      BY <1>9 DEF HandlerThrows, TypeOK, WorkerState
    <2>2. QED
      BY <1>9, <2>1 DEF HandlerThrows, SoleHandler, LeaseHolder, Holds
  <1>10. ASSUME NEW w \in Workers, LoseAck(w) PROVE SoleHandler'
    BY <1>10 DEF LoseAck, Fault, CrashOnly
  <1>11. ASSUME NEW w \in Workers, DeadLetter(w) PROVE SoleHandler'
    <2>1. worker[w].job \in Jobs /\ worker[w].job # NoJob
      BY <1>11, BusyHolds DEF DeadLetter
    <2>2. rows[worker[w].job].status # "absent"
      BY <2>1 DEF SoleHandler
    <2>3. QED
      BY <1>11, <2>1, <2>2, FinishEffect, ReleaseKeepsSole DEF DeadLetter
  <1>12. ASSUME NEW w \in Workers, Retry(w) PROVE SoleHandler'
    <2>1. worker[w].job \in Jobs /\ worker[w].job # NoJob
      BY <1>12, BusyHolds DEF Retry
    <2>2. rows[worker[w].job].status # "absent"
      BY <2>1 DEF SoleHandler
    <2>3. QED
      BY <1>12, <2>1, <2>2, RetryEffect, ReleaseKeepsSole
  <1>13. ASSUME NEW w \in Workers, Abandon(w) PROVE SoleHandler'
    <2>1. worker[w].job \in Jobs /\ worker[w].job # NoJob
      BY <1>13, BusyHolds DEF Abandon
    <2>2. rows[worker[w].job].status # "absent"
      BY <2>1 DEF SoleHandler
    <2>3. QED
      BY <1>13, <2>1, <2>2, ReleaseKeepsSole DEF Abandon
  <1>14. CASE UNCHANGED vars
    BY <1>14 DEF vars, SoleHandler, LeaseHolder, Holds
  <1>15. QED
    BY <1>1, <1>2, <1>3, <1>4, <1>5, <1>6, <1>7, <1>8, <1>9, <1>10, <1>11,
       <1>12, <1>13, <1>14 DEF Next

LEMMA SoleHolds ==
    ASSUME CrashOnly
    PROVE  Safety => []SoleHandler
  <1>1. TypeOK /\ SoleHandler /\ [Next]_vars => SoleHandler'
    BY NextSole
  <1>2. QED
    BY <1>1, InitSole, TypeCorrect, PTL DEF Safety

\* Crashes alone never make two workers hold a reservation of one job.
THEOREM ReservationHolds ==
    ASSUME CrashOnly
    PROVE  Safety => []ReservationExclusive
  <1>1. TypeOK /\ SoleHandler => ReservationExclusive
    BY BusyHolds DEF TypeOK, SoleHandler, ReservationExclusive
  <1>2. QED
    BY <1>1, SoleHolds, TypeCorrect, PTL

-----------------------------------------------------------------------------
(***************************************************************************)
(* JobQueue implements JobLedger: every step is a step of the ledger or    *)
(* leaves it as it is.                                                     *)
(***************************************************************************)

LEMMA ViewOf ==
    ASSUME NEW j \in Jobs
    PROVE  /\ LedgerView[j].state = LedgerStateOf(rows[j].status)
           /\ LedgerView[j].key = rows[j].key
  BY DEF LedgerView

\* A row that keeps its status class and its key looks the same.
LEMMA SameView ==
    ASSUME \A j \in Jobs : /\ LedgerStateOf(rows'[j].status) = LedgerStateOf(rows[j].status)
                           /\ rows'[j].key = rows[j].key
    PROVE  LedgerView' = LedgerView
  BY DEF LedgerView

\* One row changes its view.
LEMMA OneView ==
    ASSUME NEW j \in Jobs, \A i \in Jobs \ {j} : rows'[i] = rows[i]
    PROVE  LedgerView' = [LedgerView EXCEPT ![j] =
                             [state |-> LedgerStateOf(rows'[j].status),
                              key   |-> rows'[j].key]]
  BY DEF LedgerView

LEMMA LedgerStates ==
    /\ LedgerStateOf("absent") = "absent"
    /\ LedgerStateOf("queued") = "open"
    /\ LedgerStateOf("running") = "open"
    /\ LedgerStateOf("done") = "done"
    /\ LedgerStateOf("failed") = "dead"
  BY DEF LedgerStateOf, Unfinished

LEMMA OpenIsUnfinished ==
    ASSUME TypeOK, NEW j \in Jobs
    PROVE  /\ LedgerStateOf(rows[j].status) = "open" <=> rows[j].status \in Unfinished
           /\ LedgerStateOf(rows[j].status) = "absent" <=> rows[j].status = "absent"
  <1>1. rows[j].status \in {"absent", "queued", "running", "done", "failed"}
    BY DEF TypeOK, Row
  <1>2. QED
    BY <1>1, LedgerStates DEF Unfinished

\* A worker that settles the row it still runs closes the job.
LEMMA FinishCloses ==
    ASSUME TypeOK, NEW j \in Jobs, rows[j].status = "running",
           NEW outcome \in {"done", "failed"}, Finish(j, outcome)
    PROVE  Ledger!Close(j, LedgerStateOf(outcome))
  <1>1. /\ rows'[j].status = outcome
        /\ rows'[j].key = rows[j].key
        /\ \A i \in Jobs \ {j} : rows'[i] = rows[i]
    BY FinishEffect
  <1>2. LedgerView[j].state = "open"
    BY ViewOf, LedgerStates
  <1>3. LedgerView' = [LedgerView EXCEPT ![j] =
                          [state |-> LedgerStateOf(outcome), key |-> rows[j].key]]
    BY <1>1, OneView
  <1>4. [LedgerView EXCEPT ![j].state = LedgerStateOf(outcome)]
          = [LedgerView EXCEPT ![j] =
                [state |-> LedgerStateOf(outcome), key |-> rows[j].key]]
    <2> DEFINE a == LedgerStateOf(outcome)
               b == LedgerStateOf(rows[j].status)
               k == rows[j].key
    <2>1. LedgerView[j] = [state |-> b, key |-> k]
      BY DEF LedgerView
    <2> HIDE DEF a, b, k
    <2>2. [[state |-> b, key |-> k] EXCEPT !.state = a] = [state |-> a, key |-> k]
      OBVIOUS
    <2>3. QED
      BY <2>1, <2>2 DEF a, k
  <1>5. QED
    BY <1>2, <1>3, <1>4 DEF Ledger!Close

LEMMA InitMaps == Init => Ledger!Init
  <1> SUFFICES ASSUME Init PROVE Ledger!Init
    OBVIOUS
  <1>1. \A j \in Jobs : rows[j].status = "absent" /\ rows[j].key = NoKey
    BY DEF Init, Absent
  <1>2. QED
    BY <1>1, LedgerStates DEF LedgerView, Ledger!Init, Ledger!Blank

LEMMA NextMaps ==
    ASSUME CrashOnly, TypeOK, SoleHandler, [Next]_vars
    PROVE  [Ledger!Next]_LedgerView
  <1>1. ASSUME NEW j \in Jobs, NEW k \in Keys \cup {NoKey}, Enqueue(j, k)
        PROVE Ledger!Post(j, k)
    <2>1. /\ rows[j] = Absent
          /\ rows'[j].status = "queued" /\ rows'[j].key = k
          /\ \A i \in Jobs \ {j} : rows'[i] = rows[i]
          /\ ~ KeyTaken(k, j)
      BY <1>1 DEF Enqueue, MayInsert, SoleHandler, TypeOK
    <2>2. LedgerView[j] = Ledger!Blank
      BY <2>1, LedgerStates DEF LedgerView, Ledger!Blank, Absent
    <2>3. LedgerView' = [LedgerView EXCEPT ![j] = [state |-> "open", key |-> k]]
      BY <2>1, OneView, LedgerStates
    <2>4. k # NoKey => Ledger!OpenWith(k) = {}
      BY <2>1, ViewOf, OpenIsUnfinished
         DEF Ledger!OpenWith, KeyTaken, Absent, Unfinished
    <2>5. QED
      BY <2>2, <2>3, <2>4 DEF Ledger!Post
  <1>2. ASSUME NEW j \in Jobs, BecomesDue(j) PROVE UNCHANGED LedgerView
    BY <1>2, SameView DEF BecomesDue, TypeOK, Row
  <1>3. ASSUME NEW j \in Jobs, LeaseExpires(j) PROVE UNCHANGED LedgerView
    BY <1>3, SameView DEF LeaseExpires, TypeOK, Row
  <1>4. ASSUME NEW j \in Jobs, DeleteFinished(j) PROVE Ledger!Drop(j)
    <2>1. LedgerView[j].state \in {"done", "dead"}
      BY <1>4, ViewOf, LedgerStates DEF DeleteFinished
    <2>2. rows'[j] = Absent /\ \A i \in Jobs \ {j} : rows'[i] = rows[i]
      BY <1>4 DEF DeleteFinished, TypeOK
    <2>3. LedgerView' = [LedgerView EXCEPT ![j] = Ledger!Blank]
      BY <2>2, OneView, LedgerStates DEF Absent, Ledger!Blank
    <2>4. QED
      BY <2>1, <2>3 DEF Ledger!Drop
  <1>5. ASSUME NEW k \in OnceKeys, SlotPasses(k) PROVE UNCHANGED LedgerView
    BY <1>5, SameView DEF SlotPasses
  <1>6. ASSUME NEW w \in Workers, Claim(w) PROVE UNCHANGED LedgerView
    <2>1. PICK j \in Jobs :
            /\ Claimable(j)
            /\ rows'[j].status = "running"
            /\ rows'[j].key = rows[j].key
            /\ \A i \in Jobs \ {j} : rows'[i] = rows[i]
      BY <1>6, ClaimEffect
    <2>2. rows[j].status \in Unfinished
      BY <2>1 DEF Claimable, Unfinished
    <2>3. QED
      BY <2>1, <2>2, OpenIsUnfinished, LedgerStates, SameView
  <1>7. ASSUME NEW w \in Workers, Overrun(w) PROVE FALSE
    BY <1>7 DEF Overrun, Fault, CrashOnly
  <1>8. ASSUME NEW w \in Workers, Succeed(w)
        PROVE Ledger!Close(worker[w].job, "done") /\ worker[w].job \in Jobs
    <2>1. worker[w].job \in Jobs /\ rows[worker[w].job].status = "running"
      BY <1>8, BusyHolds DEF Succeed, SoleHandler
    <2>2. QED
      BY <1>8, <2>1, FinishCloses, LedgerStates DEF Succeed
  <1>9. ASSUME NEW w \in Workers, HandlerThrows(w) PROVE UNCHANGED LedgerView
    BY <1>9, SameView DEF HandlerThrows
  <1>10. ASSUME NEW w \in Workers, LoseAck(w) PROVE FALSE
    BY <1>10 DEF LoseAck, Fault, CrashOnly
  <1>11. ASSUME NEW w \in Workers, DeadLetter(w)
         PROVE Ledger!Close(worker[w].job, "dead") /\ worker[w].job \in Jobs
    <2>1. worker[w].job \in Jobs /\ rows[worker[w].job].status = "running"
      BY <1>11, BusyHolds DEF DeadLetter, SoleHandler
    <2>2. QED
      BY <1>11, <2>1, FinishCloses, LedgerStates DEF DeadLetter
  <1>12. ASSUME NEW w \in Workers, Retry(w) PROVE UNCHANGED LedgerView
    <2>1. rows[worker[w].job].status = "running"
      BY <1>12, BusyHolds DEF Retry, SoleHandler
    <2>2. QED
      BY <1>12, <2>1, RetryEffect, SameView, LedgerStates
  <1>13. ASSUME NEW w \in Workers, Abandon(w) PROVE UNCHANGED LedgerView
    BY <1>13, SameView DEF Abandon
  <1>14. CASE UNCHANGED vars
    BY <1>14, SameView DEF vars
  <1>15. QED
    BY <1>1, <1>2, <1>3, <1>4, <1>5, <1>6, <1>7, <1>8, <1>9, <1>10, <1>11,
       <1>12, <1>13, <1>14 DEF Next, Ledger!Next

\* The queue implements the ledger's safety part: between being posted and
\* being dropped a job is closed exactly once, and keys are not open twice.
THEOREM LedgerImplemented ==
    ASSUME CrashOnly
    PROVE  Safety => Ledger!Init /\ [][Ledger!Next]_LedgerView
  <1>1. TypeOK /\ SoleHandler /\ [Next]_vars => [Ledger!Next]_LedgerView
    BY NextMaps
  <1>2. QED
    BY <1>1, InitMaps, SoleHolds, TypeCorrect, PTL DEF Safety

\* The dead letter is final when only crashes happen.
THEOREM DeadLetterHolds ==
    ASSUME CrashOnly
    PROVE  Safety => DeadLetterNeverRetried
  <1> DEFINE Kept == \A j \in Jobs : rows[j].status = "failed"
                        => rows'[j].status \notin Unfinished
  <1>1. ASSUME TypeOK, TypeOK', [Ledger!Next]_LedgerView PROVE Kept
    <2>1. \A j \in Jobs : LedgerView[j].state = "dead" => LedgerView'[j].state # "open"
      BY <1>1 DEF Ledger!Next, Ledger!Post, Ledger!Close, Ledger!Drop,
                  Ledger!Blank, LedgerView
    <2>2. \A j \in Jobs : LedgerView'[j].state = LedgerStateOf(rows'[j].status)
      BY DEF LedgerView
    <2>3. QED
      BY <2>1, <2>2, ViewOf, LedgerStates DEF Unfinished
  <1>2. TypeOK /\ TypeOK' /\ [Ledger!Next]_LedgerView => [Kept]_vars
    BY <1>1
  <1>3. QED
    BY <1>2, LedgerImplemented, TypeCorrect, PTL DEF DeadLetterNeverRetried

-----------------------------------------------------------------------------
(***************************************************************************)
(* Attempts: a row nobody handles has one left, counting those that        *)
(* crashes took.                                                           *)
(***************************************************************************)

LEMMA LimitType == \A k : LimitOf(k) \in Nat /\ LimitOf(k) >= 1
  BY DEF LimitOf

\* A row that is idle and unfinished after a step must keep an attempt, the
\* rest must stay within the limit.
RowAccounted(j) ==
    LET limit == LimitOf(rows[j].key) + faults IN
    /\ rows[j].attempts <= limit
    /\ rows[j].status \in Unfinished /\ (\A w \in Workers : ~ Holds(w, j))
            => rows[j].attempts < limit

\* A row that the step does not touch, and whose handlers it does not touch.
LEMMA UntouchedAccounted ==
    ASSUME NEW j \in Jobs, RowAccounted(j), rows'[j] = rows[j],
           faults' = faults, \A w \in Workers : Holds(w, j) => Holds(w, j)'
    PROVE  RowAccounted(j)'
  BY DEF RowAccounted

\* Settling: the row of w is finished, or goes back with an attempt left.
LEMMA SettledAccounted ==
    ASSUME TypeOK, SoleHandler, AttemptsAccounted, NEW w \in Workers,
           worker[w].job \in Jobs,
           worker' = [worker EXCEPT ![w] = Idle], faults' = faults,
           \A i \in Jobs \ {worker[w].job} : rows'[i] = rows[i],
           rows'[worker[w].job].key = rows[worker[w].job].key,
           rows'[worker[w].job].attempts = rows[worker[w].job].attempts,
           rows'[worker[w].job].status \in Unfinished => ~ LastAttempt(w)
    PROVE  AttemptsAccounted'
  <1>0. PICK j \in Jobs : j = worker[w].job
    OBVIOUS
  <1>1. \A i \in Jobs : RowAccounted(i)
    BY DEF AttemptsAccounted, RowAccounted
  <1>2. \A v \in Workers \ {w} : worker'[v] = worker[v]
    BY DEF TypeOK
  <1>3. ASSUME NEW i \in Jobs \ {j} PROVE RowAccounted(i)'
    <2>1. \A v \in Workers : Holds(v, i) => Holds(v, i)'
      BY <1>0, <1>2, <1>3 DEF Holds
    <2>2. QED
      BY <1>0, <1>1, <1>3, <2>1, UntouchedAccounted
  <1>4. RowAccounted(j)'
    <2>1. worker[w].attempt = rows[j].attempts
      BY <1>0 DEF SoleHandler, LeaseHolder
    <2>2. rows[j].attempts \in Nat /\ faults \in Nat
      BY DEF TypeOK, Row
    <2>3. rows'[j].status \in Unfinished => rows[j].attempts < LimitOf(rows[j].key)
      BY <1>0, <2>1, <2>2, LimitType DEF LastAttempt
    <2>4. rows[j].attempts <= LimitOf(rows[j].key) + faults
      BY <1>1 DEF RowAccounted
    <2>5. QED
      BY <1>0, <2>2, <2>3, <2>4, LimitType DEF RowAccounted
  <1>5. QED
    BY <1>3, <1>4 DEF AttemptsAccounted, RowAccounted

LEMMA NextAccounted ==
    ASSUME CrashOnly, TypeOK, SoleHandler, AttemptsAccounted, [Next]_vars
    PROVE  AttemptsAccounted'
  <1> USE DEF NoFault
  <1>0. \A j \in Jobs : RowAccounted(j)
    BY DEF AttemptsAccounted, RowAccounted
  <1>a. faults \in Nat /\ \A j \in Jobs : rows[j].attempts \in Nat
    BY DEF TypeOK, Row
  <1>1. ASSUME NEW j \in Jobs, NEW k \in Keys \cup {NoKey}, Enqueue(j, k)
        PROVE AttemptsAccounted'
    <2>1. /\ rows'[j].attempts = 0 /\ faults' = faults /\ worker' = worker
          /\ \A i \in Jobs \ {j} : rows'[i] = rows[i]
      BY <1>1 DEF Enqueue, TypeOK
    <2>2. RowAccounted(j)'
      BY <1>a, <2>1, LimitType DEF RowAccounted
    <2>3. \A i \in Jobs \ {j} : RowAccounted(i)'
      BY <1>0, <2>1, UntouchedAccounted DEF Holds
    <2>4. QED
      BY <2>2, <2>3 DEF AttemptsAccounted, RowAccounted
  <1>2. ASSUME NEW j \in Jobs, BecomesDue(j) PROVE AttemptsAccounted'
    <2>1. /\ faults' = faults /\ worker' = worker
          /\ \A i \in Jobs : /\ rows'[i].attempts = rows[i].attempts
                             /\ rows'[i].key = rows[i].key
                             /\ rows'[i].status = rows[i].status
      BY <1>2 DEF BecomesDue, TypeOK, Row
    <2>2. QED
      BY <2>1 DEF AttemptsAccounted, Holds
  <1>3. ASSUME NEW j \in Jobs, LeaseExpires(j) PROVE AttemptsAccounted'
    <2>1. /\ faults' = faults /\ worker' = worker
          /\ \A i \in Jobs : /\ rows'[i].attempts = rows[i].attempts
                             /\ rows'[i].key = rows[i].key
                             /\ rows'[i].status = rows[i].status
      BY <1>3 DEF LeaseExpires, TypeOK, Row
    <2>2. QED
      BY <2>1 DEF AttemptsAccounted, Holds
  <1>4. ASSUME NEW j \in Jobs, DeleteFinished(j) PROVE AttemptsAccounted'
    <2>1. /\ rows'[j] = Absent /\ faults' = faults /\ worker' = worker
          /\ \A i \in Jobs \ {j} : rows'[i] = rows[i]
      BY <1>4 DEF DeleteFinished, TypeOK
    <2>2. RowAccounted(j)'
      BY <1>a, <2>1, LimitType DEF RowAccounted, Absent
    <2>3. \A i \in Jobs \ {j} : RowAccounted(i)'
      BY <1>0, <2>1, UntouchedAccounted DEF Holds
    <2>4. QED
      BY <2>2, <2>3 DEF AttemptsAccounted, RowAccounted
  <1>5. ASSUME NEW k \in OnceKeys, SlotPasses(k) PROVE AttemptsAccounted'
    BY <1>5 DEF SlotPasses, AttemptsAccounted, Holds
  <1>6. ASSUME NEW w \in Workers, Claim(w) PROVE AttemptsAccounted'
    <2>1. PICK j \in Jobs :
            /\ Claimable(j)
            /\ rows'[j].key = rows[j].key
            /\ rows'[j].attempts = rows[j].attempts + 1
            /\ \A i \in Jobs \ {j} : rows'[i] = rows[i]
            /\ worker[w].pc = "idle"
            /\ worker' = [worker EXCEPT ![w] =
                             [job |-> j, attempt |-> rows[j].attempts + 1,
                              pc |-> "handler", reserved |-> TRUE]]
      BY <1>6, ClaimEffect
    <2>2. faults' = faults
      BY <1>6 DEF Claim
    <2>3. \A v \in Workers : worker[v].job # j
      BY <2>1 DEF Claimable, SoleHandler
    <2>4. worker'[w].job = j /\ \A v \in Workers \ {w} : worker'[v] = worker[v]
      BY <2>1 DEF TypeOK
    <2>5. RowAccounted(j)'
      <3>1. rows[j].attempts < LimitOf(rows[j].key) + faults
        BY <1>0, <2>1, <2>3 DEF RowAccounted, Holds, Claimable, Unfinished
      <3>2. QED
        BY <1>a, <2>1, <2>2, <2>4, <3>1, LimitType DEF RowAccounted, Holds
    <2>6. ASSUME NEW i \in Jobs \ {j} PROVE RowAccounted(i)'
      <3>1. \A v \in Workers : Holds(v, i) => Holds(v, i)'
        BY <2>1, <2>4 DEF Holds, TypeOK
      <3>2. QED
        BY <1>0, <2>1, <2>2, <2>6, <3>1, UntouchedAccounted
    <2>7. QED
      BY <2>5, <2>6 DEF AttemptsAccounted, RowAccounted
  <1>7. ASSUME NEW w \in Workers, Overrun(w) PROVE AttemptsAccounted'
    BY <1>7 DEF Overrun, Fault, CrashOnly
  <1>8. ASSUME NEW w \in Workers, Succeed(w) PROVE AttemptsAccounted'
    <2>1. worker[w].job \in Jobs /\ rows[worker[w].job].status = "running"
      BY <1>8, BusyHolds DEF Succeed, SoleHandler
    <2>2. QED
      BY <1>8, <2>1, FinishEffect, SettledAccounted DEF Succeed, Unfinished
  <1>9. ASSUME NEW w \in Workers, HandlerThrows(w) PROVE AttemptsAccounted'
    <2>1. /\ rows' = rows /\ faults' = faults
          /\ \A v \in Workers : worker'[v].job = worker[v].job
      BY <1>9 DEF HandlerThrows, TypeOK, WorkerState
    <2>2. \A j \in Jobs : RowAccounted(j)'
      BY <1>0, <2>1, UntouchedAccounted DEF Holds
    <2>3. QED
      BY <2>2 DEF AttemptsAccounted, RowAccounted
  <1>10. ASSUME NEW w \in Workers, LoseAck(w) PROVE AttemptsAccounted'
    BY <1>10 DEF LoseAck, Fault, CrashOnly
  <1>11. ASSUME NEW w \in Workers, DeadLetter(w) PROVE AttemptsAccounted'
    <2>1. worker[w].job \in Jobs /\ rows[worker[w].job].status = "running"
      BY <1>11, BusyHolds DEF DeadLetter, SoleHandler
    <2>2. QED
      BY <1>11, <2>1, FinishEffect, SettledAccounted DEF DeadLetter, Unfinished
  <1>12. ASSUME NEW w \in Workers, Retry(w) PROVE AttemptsAccounted'
    <2>1. worker[w].job \in Jobs /\ rows[worker[w].job].status = "running"
      BY <1>12, BusyHolds DEF Retry, SoleHandler
    <2>2. ~ LastAttempt(w) /\ faults' = faults
      BY <1>12 DEF Retry
    <2>3. QED
      BY <1>12, <2>1, <2>2, RetryEffect, SettledAccounted
  <1>13. ASSUME NEW w \in Workers, Abandon(w) PROVE AttemptsAccounted'
    <2>1. rows' = rows /\ faults' = faults + 1
      BY <1>13 DEF Abandon, Fault
    <2>2. QED
      BY <1>a, <2>1, LimitType DEF AttemptsAccounted
  <1>14. CASE UNCHANGED vars
    BY <1>14 DEF vars, AttemptsAccounted, Holds
  <1>15. QED
    BY <1>1, <1>2, <1>3, <1>4, <1>5, <1>6, <1>7, <1>8, <1>9, <1>10, <1>11,
       <1>12, <1>13, <1>14 DEF Next

\* With crashes only, a job starts at most max_attempts times plus once for
\* every crash.
THEOREM AttemptsHold ==
    ASSUME CrashOnly
    PROVE  Safety => []AttemptsBounded
  <1>1. Init => AttemptsAccounted
    BY LimitType DEF Init, AttemptsAccounted, Absent, Unfinished
  <1>2. TypeOK /\ SoleHandler /\ AttemptsAccounted /\ [Next]_vars
            => AttemptsAccounted'
    BY NextAccounted
  <1>3. AttemptsAccounted => AttemptsBounded
    BY DEF AttemptsAccounted, AttemptsBounded
  <1>4. QED
    BY <1>1, <1>2, <1>3, SoleHolds, TypeCorrect, PTL DEF Safety

-----------------------------------------------------------------------------
(***************************************************************************)
(* The uploader of the browser, under the names its variables have there;  *)
(* sender is its variable worker.                                          *)
(***************************************************************************)

uploads == s1
saved == s2
run == s3
sender == s4
control == s5
issue == s6
deletes == s7
stranded == s8

USE DEF uploads, saved, run, sender, control, issue, deletes, stranded

LessThan == {p \in Nat \X Nat : p[1] < p[2]}

LEMMA LessThanWellFounded == IsWellFoundedOn(LessThan, Nat)
  BY NatLessThanWellFounded DEF OpToRel, LessThan

LEMMA FirstPart ==
    ASSUME NEW S \in SUBSET Parts, S # {}
    PROVE  Uploader!Min(S) \in S
  <1>1. S \subseteq Nat
    BY UploadsAssumption
  <1>2. PICK m \in S : \A k \in S : ~ (<<k, m>> \in LessThan)
    BY <1>1, LessThanWellFounded, WFMin
  <1>3. \A k \in S : ~ (k < m)
    BY <1>1, <1>2 DEF LessThan
  <1>4. \A k \in S : m <= k
    BY <1>1, <1>3
  <1>5. QED
    BY <1>4 DEF Uploader!Min

Early == {"idle", "open", "status", "create", "created"}
Under == {"open", "status", "create", "created", "send", "complete", "cancel"}
Working == {"try", "url", "put", "error"}

UploadRow == [status : {"pending", "completed", "ended"}, stored : SUBSET Parts]

RunRecord ==
    [step : {"idle", "over"} \cup Under, id : Nat, aborted : BOOLEAN, queue : SUBSET Parts,
     urls : SUBSET Parts, signing : SUBSET SUBSET Parts,
     end : {"none", "failed", "uploaded", "cancelled", "closed"}]

WorkerRecord ==
    [part : Nat, attempt : Nat, step : {"rest", "gone"} \cup Working]

\* A run that is under way is the one that the page controls.
RunTypes ==
    /\ run \in [Runs -> RunRecord]
    /\ sender \in [Runs -> [Workers -> WorkerRecord]]
    /\ control \in Runs \cup {None}
    /\ \A r \in Runs : run[r].step \in Under => control = r

RowTypes ==
    /\ uploads \in Seq(UploadRow)
    /\ saved \in 0..Len(uploads)
    /\ \A r \in Runs : run[r].id \in 0..Len(uploads)

\* Nobody works for a run before it sends or when it asks for the document,
\* and nobody has given up while it sends.
WorkersFor(r) ==
    \A w \in Workers :
        /\ sender[r][w].step \in Working => sender[r][w].part \in Parts
        /\ run[r].step \in Early \cup {"complete"} => sender[r][w].step = "rest"
        /\ run[r].step = "send" => sender[r][w].step # "gone"

\* What is remembered is the upload of the run, or nothing.
SavedFor(r) ==
    /\ run[r].step \in {"create", "created"} => saved = 0
    /\ run[r].step \in {"status", "send", "complete"} => saved \in {0, run[r].id}
    /\ run[r].step \in {"created", "send", "complete"} => run[r].id # 0

\* A part is stored, in the queue, or a worker has it.
InHand(r) == {p \in Parts : \E w \in Workers : sender[r][w].step \in Working /\ sender[r][w].part = p}

SentFor(r) ==
    run[r].step = "send" /\ Uploader!Pending(run[r].id) =>
        \A p \in Parts : p \in uploads[run[r].id].stored \/ p \in run[r].queue \/ p \in InHand(r)

AskedFor(r) ==
    run[r].step = "complete" /\ Uploader!Pending(run[r].id) => uploads[run[r].id].stored = Parts

RunSound(r) == WorkersFor(r) /\ SavedFor(r) /\ SentFor(r) /\ AskedFor(r)

UploaderInv == RunTypes /\ RowTypes /\ (\A r \in Runs : RunSound(r)) /\ Uploader!NothingStranded

(***************************************************************************)
(* What any step does to the rows of the API, and to what is known of them *)
(***************************************************************************)

RowsGoOn ==
    /\ uploads' \in Seq(UploadRow)
    /\ Len(uploads) <= Len(uploads')
    /\ \A u \in 1..Len(uploads) :
           Uploader!Pending(u)' => Uploader!Pending(u) /\ uploads[u].stored \subseteq uploads'[u].stored

Cared(u) ==
    \/ saved = u \/ u \in deletes
    \/ \E r \in Runs : run[r].id = u /\ run[r].step \in {"created", "cancel"}

CareGoesOn ==
    /\ stranded \subseteq stranded'
    /\ \A u \in 1..Len(uploads) : Uploader!Pending(u)' /\ u \notin stranded' /\ Cared(u) => Cared(u)'
    /\ \A u \in 1..Len(uploads') : u \notin 1..Len(uploads) => u \in stranded' \/ Cared(u)'

LEMMA RowsTyped ==
    ASSUME uploads \in Seq(UploadRow)
    PROVE  /\ Len(uploads) \in Nat /\ DOMAIN uploads = 1..Len(uploads)
           /\ \A u \in 1..Len(uploads) : uploads[u] \in UploadRow
  BY LenProperties, ElementOfSeq

LEMMA RowsSame ==
    ASSUME uploads \in Seq(UploadRow), uploads' = uploads
    PROVE  RowsGoOn
  BY RowsTyped DEF RowsGoOn, Uploader!Pending

LEMMA RowChanged ==
    ASSUME uploads \in Seq(UploadRow), NEW u \in 1..Len(uploads), NEW x \in UploadRow,
           uploads' = [uploads EXCEPT ![u] = x],
           x.status = "pending" => Uploader!Pending(u) /\ uploads[u].stored \subseteq x.stored
    PROVE  RowsGoOn /\ Len(uploads') = Len(uploads) /\ uploads'[u] = x
  <1>1. /\ Len(uploads) \in Nat /\ DOMAIN uploads = 1..Len(uploads)
        /\ \A v \in 1..Len(uploads) : uploads[v] \in UploadRow
    BY RowsTyped
  <1>2. uploads' \in [1..Len(uploads) -> UploadRow] /\ uploads'[u] = x
        /\ \A v \in 1..Len(uploads) : v # u => uploads'[v] = uploads[v]
    BY <1>1
  <1>3. uploads' \in Seq(UploadRow)
    BY <1>1, <1>2, SeqDef
  <1>4. Len(uploads') = Len(uploads)
    <2>1. Len(uploads') \in Nat /\ DOMAIN uploads' = 1..Len(uploads')
      BY <1>3, LenProperties
    <2>2. QED
      BY <1>1, <1>2, <2>1
  <1>5. QED
    BY <1>1, <1>2, <1>3, <1>4 DEF RowsGoOn, Uploader!Pending

LEMMA RowAborted ==
    ASSUME uploads \in Seq(UploadRow), NEW u \in 0..Len(uploads), Uploader!Abort(u)
    PROVE  RowsGoOn /\ Len(uploads') = Len(uploads) /\ ~ Uploader!Pending(u)'
  <1>1. Len(uploads) \in Nat
    BY RowsTyped
  <1>2. CASE Uploader!Pending(u)
    <2>1. u \in 1..Len(uploads) /\ [status |-> "ended", stored |-> {}] \in UploadRow
      BY <1>1, <1>2 DEF Uploader!Pending, UploadRow
    <2>2. uploads' = [uploads EXCEPT ![u] = [status |-> "ended", stored |-> {}]]
      BY <1>2 DEF Uploader!Abort
    <2>3. RowsGoOn /\ Len(uploads') = Len(uploads)
          /\ uploads'[u] = [status |-> "ended", stored |-> {}]
      BY <2>1, <2>2, RowChanged
    <2>4. QED
      BY <2>3 DEF Uploader!Pending
  <1>3. CASE ~ Uploader!Pending(u)
    BY <1>3, RowsSame DEF Uploader!Abort, Uploader!Pending
  <1>4. QED
    BY <1>2, <1>3

LEMMA RowAdded ==
    ASSUME uploads \in Seq(UploadRow),
           uploads' = Append(uploads, [status |-> "pending", stored |-> {}])
    PROVE  RowsGoOn /\ Len(uploads') = Len(uploads) + 1
  <1>1. Len(uploads) \in Nat
    BY RowsTyped
  <1>2. [status |-> "pending", stored |-> {}] \in UploadRow
    BY DEF UploadRow
  <1>3. /\ uploads' \in Seq(UploadRow) /\ Len(uploads') = Len(uploads) + 1
        /\ \A u \in 1..Len(uploads) : uploads'[u] = uploads[u]
    BY <1>2, AppendProperties
  <1>4. QED
    BY <1>1, <1>3 DEF RowsGoOn, Uploader!Pending

(***************************************************************************)
(* A step is about one run.  Either it is the one that is under way, or    *)
(* what it does next does not change.                                      *)
(***************************************************************************)

RunsBut(r) ==
    /\ run' \in [Runs -> RunRecord] /\ sender' \in [Runs -> [Workers -> WorkerRecord]]
    /\ \A q \in Runs : q # r => run'[q] = run[q] /\ sender'[q] = sender[q]

LEMMA OthersSound ==
    ASSUME UploaderInv, RowsGoOn, NEW q \in Runs, run'[q].step = run[q].step,
           run'[q].id = run[q].id, run'[q].queue = run[q].queue, sender'[q] = sender[q],
           SavedFor(q)'
    PROVE  RunSound(q)'
  <1>1. RunSound(q) /\ run[q].id \in 0..Len(uploads) /\ Len(uploads) \in Nat
    BY RowsTyped DEF UploaderInv, RowTypes
  <1>2. ASSUME Uploader!Pending(run[q].id)'
        PROVE  Uploader!Pending(run[q].id) /\ uploads[run[q].id].stored \subseteq uploads'[run[q].id].stored
               /\ uploads'[run[q].id].stored \subseteq Parts
    <2>1. run'[q].id \in 1..Len(uploads) /\ run'[q].id = run[q].id
      BY <1>1, <1>2 DEF Uploader!Pending
    <2>2. uploads'[run[q].id] \in UploadRow
      BY <2>1, ElementOfSeq DEF RowsGoOn
    <2>3. QED
      BY <1>2, <2>1, <2>2 DEF RowsGoOn, UploadRow, Uploader!Pending
  <1>3. WorkersFor(q)'
    BY <1>1 DEF RunSound, WorkersFor
  <1>4. InHand(q)' = InHand(q)
    BY DEF InHand
  <1>5. SentFor(q)'
    BY <1>1, <1>2, <1>4 DEF RunSound, SentFor
  <1>6. AskedFor(q)'
    <2>1. SUFFICES ASSUME run[q].step = "complete", Uploader!Pending(run[q].id)'
                   PROVE  uploads'[run[q].id].stored = Parts
      BY DEF AskedFor
    <2>2. uploads[run[q].id].stored = Parts
      BY <1>1, <1>2, <2>1 DEF RunSound, AskedFor
    <2>3. QED
      BY <1>2, <2>1, <2>2
  <1>7. QED
    BY <1>3, <1>5, <1>6 DEF RunSound

LEMMA NobodyStranded ==
    ASSUME UploaderInv, RowsGoOn, CareGoesOn
    PROVE  Uploader!NothingStranded'
  <1>1. DOMAIN uploads = 1..Len(uploads) /\ DOMAIN uploads' = 1..Len(uploads')
    BY LenProperties DEF UploaderInv, RowTypes, RowsGoOn
  <1>2. SUFFICES ASSUME NEW u \in 1..Len(uploads'), u \notin stranded', Uploader!Pending(u)'
                 PROVE  Cared(u)'
    BY <1>1 DEF Uploader!NothingStranded, Cared
  <1>3. CASE u \in 1..Len(uploads)
    <2>1. Uploader!Pending(u) /\ u \notin stranded
      BY <1>2, <1>3 DEF RowsGoOn, CareGoesOn
    <2>2. Cared(u)
      BY <1>1, <1>3, <2>1 DEF UploaderInv, Uploader!NothingStranded, Cared
    <2>3. QED
      BY <1>2, <1>3, <2>2 DEF CareGoesOn
  <1>4. CASE u \notin 1..Len(uploads)
    BY <1>2, <1>4 DEF CareGoesOn
  <1>5. QED
    BY <1>3, <1>4

LEMMA StepOf ==
    ASSUME UploaderInv, RowsGoOn, CareGoesOn, NEW r \in Runs, RunsBut(r),
           control \in {None, r}, control' \in {None, r}, run'[r].step \in Under => control' = r,
           saved' \in 0..Len(uploads'), run'[r].id \in 0..Len(uploads'), RunSound(r)'
    PROVE  UploaderInv'
  <1>1. ASSUME NEW q \in Runs, q # r
        PROVE  run'[q] = run[q] /\ sender'[q] = sender[q] /\ run[q].step \notin Under
    BY <1>1, UploadsAssumption DEF RunsBut, UploaderInv, RunTypes
  <1>2. RunTypes'
    BY <1>1 DEF RunTypes, RunsBut
  <1>3. ASSUME NEW q \in Runs PROVE RunSound(q)' /\ run'[q].id \in 0..Len(uploads')
    <2>1. CASE q = r
      BY <2>1
    <2>2. CASE q # r
      <3>1. SavedFor(q)'
        BY <1>1, <2>2 DEF SavedFor, Under
      <3>2. run[q].id \in 0..Len(uploads) /\ Len(uploads) \in Nat /\ Len(uploads') \in Nat
        BY LenProperties DEF UploaderInv, RowTypes, RowsGoOn
      <3>3. QED
        BY <1>1, <2>2, <3>1, <3>2, OthersSound DEF RowsGoOn
    <2>3. QED
      BY <2>1, <2>2
  <1>4. RowTypes'
    BY <1>3 DEF RowTypes, RowsGoOn
  <1>5. QED
    BY <1>2, <1>3, <1>4, NobodyStranded DEF UploaderInv

LEMMA StepBeside ==
    ASSUME UploaderInv, RowsGoOn, CareGoesOn, NEW r \in Runs, RunsBut(r),
           UNCHANGED <<control, saved>>, run'[r].step = run[r].step, run'[r].id = run[r].id,
           RunSound(r)'
    PROVE  UploaderInv'
  <1>1. ASSUME NEW q \in Runs, q # r PROVE run'[q] = run[q] /\ sender'[q] = sender[q]
    BY <1>1 DEF RunsBut
  <1>2. RunTypes'
    BY <1>1 DEF RunTypes, RunsBut, UploaderInv
  <1>3. ASSUME NEW q \in Runs PROVE RunSound(q)' /\ run'[q].id \in 0..Len(uploads')
    <2>1. run[q].id \in 0..Len(uploads) /\ Len(uploads) \in Nat /\ Len(uploads') \in Nat
      BY LenProperties DEF UploaderInv, RowTypes, RowsGoOn
    <2>2. CASE q = r
      BY <2>1, <2>2 DEF RowsGoOn
    <2>3. CASE q # r
      <3>1. SavedFor(q)'
        BY <1>1, <2>3 DEF SavedFor, UploaderInv, RunSound
      <3>2. QED
        BY <1>1, <2>1, <2>3, <3>1, OthersSound DEF RowsGoOn
    <2>4. QED
      BY <2>2, <2>3
  <1>4. saved' \in 0..Len(uploads')
    BY LenProperties DEF UploaderInv, RowTypes, RowsGoOn
  <1>5. RowTypes'
    BY <1>3, <1>4 DEF RowTypes, RowsGoOn
  <1>6. QED
    BY <1>2, <1>3, <1>5, NobodyStranded DEF UploaderInv

\* Neither the runs nor what is known of uploads changes, but for the rows.
LEMMA StepOutside ==
    ASSUME UploaderInv, RowsGoOn, UNCHANGED <<run, sender, control, saved>>, CareGoesOn
    PROVE  UploaderInv'
  <1>1. \A q \in Runs : SavedFor(q)'
    BY DEF SavedFor, UploaderInv, RunSound
  <1>2. \A q \in Runs : RunSound(q)'
    BY <1>1, OthersSound
  <1>3. RunTypes'
    BY DEF RunTypes, UploaderInv
  <1>4. RowTypes'
    BY LenProperties DEF UploaderInv, RowTypes, RowsGoOn
  <1>5. QED
    BY <1>2, <1>3, <1>4, NobodyStranded DEF UploaderInv

(***************************************************************************)
(* The page                                                                *)
(***************************************************************************)

LEMMA InvFacts ==
    ASSUME UploaderInv
    PROVE  /\ uploads \in Seq(UploadRow) /\ Len(uploads) \in Nat /\ DOMAIN uploads = 1..Len(uploads)
           /\ saved \in 0..Len(uploads) /\ control \in Runs \cup {None}
           /\ sender \in [Runs -> [Workers -> WorkerRecord]]
           /\ \A r \in Runs : /\ run[r] \in RunRecord /\ run[r].id \in 0..Len(uploads)
                              /\ run[r].step \in Under => control = r
                              /\ WorkersFor(r) /\ SavedFor(r) /\ SentFor(r) /\ AskedFor(r)
  BY RowsTyped DEF UploaderInv, RunTypes, RowTypes, RunSound

\* One run changes, and with it perhaps one of its workers.
LEMMA OneRun ==
    ASSUME UploaderInv, NEW r \in Runs, NEW x \in RunRecord, run' = [run EXCEPT ![r] = x],
           NEW workers \in [Workers -> WorkerRecord], sender' = [sender EXCEPT ![r] = workers]
    PROVE  RunsBut(r) /\ run'[r] = x /\ sender'[r] = workers
  BY DEF RunsBut, UploaderInv, RunTypes

LEMMA OneRunOnly ==
    ASSUME UploaderInv, NEW r \in Runs, NEW x \in RunRecord, run' = [run EXCEPT ![r] = x],
           sender' = sender
    PROVE  RunsBut(r) /\ run'[r] = x /\ sender'[r] = sender[r]
  BY DEF RunsBut, UploaderInv, RunTypes

\* What is cared for stays so, if nothing is forgotten but what the premise says.
LEMMA CareStays ==
    ASSUME UploaderInv, NEW r \in Runs, RunsBut(r), stranded \subseteq stranded',
           \A u \in 1..Len(uploads') : u \notin 1..Len(uploads) => u \in stranded' \/ Cared(u)',
           \A u \in 1..Len(uploads) :
               Uploader!Pending(u)' /\ u \notin stranded'
                           /\ (saved = u \/ u \in deletes
                               \/ (run[r].id = u /\ run[r].step \in {"created", "cancel"}))
                   => Cared(u)'
    PROVE  CareGoesOn
  <1>1. ASSUME NEW u \in 1..Len(uploads), Uploader!Pending(u)', u \notin stranded', Cared(u)
        PROVE  Cared(u)'
    <2>1. CASE saved = u
      BY <1>1, <2>1
    <2>2. CASE u \in deletes
      BY <1>1, <2>2
    <2>3. ASSUME NEW q \in Runs, run[q].id = u, run[q].step \in {"created", "cancel"}
          PROVE  Cared(u)'
      <3>1. CASE q = r
        BY <1>1, <2>3, <3>1
      <3>2. CASE q # r
        BY <2>3, <3>2 DEF RunsBut, Cared
      <3>3. QED
        BY <3>1, <3>2
    <2>4. QED
      BY <1>1, <2>1, <2>2, <2>3 DEF Cared
  <1>2. QED
    BY <1>1 DEF CareGoesOn

LEMMA StartStep ==
    ASSUME UploaderInv, NEW r \in Runs, Uploader!Start(r)
    PROVE  UploaderInv'
  <1>1. /\ run[r] = Uploader!Fresh /\ control = None /\ control' = r
        /\ run' = [run EXCEPT ![r] = [run[r] EXCEPT !.step = "open"]]
        /\ UNCHANGED <<uploads, saved, sender, deletes, stranded>>
    BY DEF Uploader!Start, Uploader!troubles
  <1>2. /\ run[r] \in RunRecord /\ run[r].step = "idle" /\ run[r].id = 0 /\ WorkersFor(r)
        /\ saved \in 0..Len(uploads) /\ Len(uploads) \in Nat /\ uploads \in Seq(UploadRow)
    BY <1>1, InvFacts DEF Uploader!Fresh
  <1>3. [run[r] EXCEPT !.step = "open"] \in RunRecord
    BY <1>2 DEF RunRecord, Under
  <1>4. RunsBut(r) /\ run'[r] = [run[r] EXCEPT !.step = "open"] /\ sender'[r] = sender[r]
    BY <1>1, <1>3, OneRunOnly
  <1>5. run'[r].step = "open" /\ run'[r].id = 0
    BY <1>2, <1>4 DEF RunRecord
  <1>6. RunSound(r)'
    <2>1. WorkersFor(r)'
      BY <1>2, <1>4, <1>5 DEF WorkersFor, Early
    <2>2. SavedFor(r)' /\ SentFor(r)' /\ AskedFor(r)'
      BY <1>5 DEF SavedFor, SentFor, AskedFor
    <2>3. QED
      BY <2>1, <2>2 DEF RunSound
  <1>7. RowsGoOn
    BY <1>1, <1>2, RowsSame
  <1>8. CareGoesOn
    BY <1>1, <1>2, <1>4, CareStays DEF Cared
  <1>9. QED
    BY <1>1, <1>2, <1>4, <1>5, <1>6, <1>7, <1>8, StepOf

LEMMA CancelStep ==
    ASSUME UploaderInv, Uploader!Cancel
    PROVE  UploaderInv'
  <1>0. PICK r \in Runs : control = r
    BY InvFacts DEF Uploader!Cancel
  <1>1. /\ r \in Runs /\ control' = r /\ saved' = 0
        /\ run' = [run EXCEPT ![r] = [run[r] EXCEPT !.aborted = TRUE]]
        /\ deletes' = IF saved = 0 THEN deletes ELSE deletes \cup {saved}
        /\ UNCHANGED <<uploads, sender, stranded>>
    BY <1>0, InvFacts DEF Uploader!Cancel, Uploader!troubles
  <1>2. /\ run[r] \in RunRecord /\ run[r].id \in 0..Len(uploads) /\ Len(uploads) \in Nat
        /\ WorkersFor(r) /\ SavedFor(r) /\ SentFor(r) /\ AskedFor(r) /\ uploads \in Seq(UploadRow)
        /\ run[r].step \in Under => control = r
    BY <1>1, InvFacts
  <1>3. [run[r] EXCEPT !.aborted = TRUE] \in RunRecord
    BY <1>2 DEF RunRecord
  <1>4. RunsBut(r) /\ run'[r] = [run[r] EXCEPT !.aborted = TRUE] /\ sender'[r] = sender[r]
    BY <1>1, <1>3, OneRunOnly
  <1>5. run'[r].step = run[r].step /\ run'[r].id = run[r].id /\ run'[r].queue = run[r].queue
    BY <1>2, <1>4 DEF RunRecord
  <1>6. RunSound(r)'
    <2>1. RowsGoOn
      BY <1>1, <1>2, RowsSame
    <2>2. SavedFor(r)'
      BY <1>1, <1>2, <1>5 DEF SavedFor
    <2>3. QED
      BY <1>1, <1>4, <1>5, <2>1, <2>2, OthersSound
  <1>7. RowsGoOn
    BY <1>1, <1>2, RowsSame
  <1>8. CareGoesOn
    <2>1. ASSUME NEW u \in 1..Len(uploads),
                 saved = u \/ u \in deletes
                 \/ (run[r].id = u /\ run[r].step \in {"created", "cancel"})
          PROVE  Cared(u)'
      BY <1>1, <1>2, <1>5, <2>1 DEF Cared
    <2>2. QED
      BY <1>1, <1>4, <2>1, CareStays
  <1>9. QED
    BY <1>1, <1>2, <1>4, <1>5, <1>6, <1>7, <1>8, <1>0, StepOf

\* A request of the page, or the end of an upload, changes no run.
LEMMA OutsideCare ==
    ASSUME UploaderInv, UNCHANGED run, stranded \subseteq stranded', Len(uploads') = Len(uploads),
           \A u \in 1..Len(uploads) : Uploader!Pending(u)' /\ u \notin stranded' /\ (saved = u \/ u \in deletes)
               => saved' = u \/ u \in deletes'
    PROVE  CareGoesOn
  BY DEF CareGoesOn, Cared

LEMMA DiscardStep ==
    ASSUME UploaderInv, Uploader!Discard
    PROVE  UploaderInv'
  <1>1. /\ saved' = 0 /\ UNCHANGED <<run, uploads, sender, control, stranded>>
        /\ deletes' = IF saved = 0 THEN deletes ELSE deletes \cup {saved}
    BY DEF Uploader!Discard, Uploader!troubles
  <1>2. RowsGoOn /\ Len(uploads) \in Nat
    BY <1>1, InvFacts, RowsSame
  <1>3. CareGoesOn
    BY <1>1, <1>2, OutsideCare
  <1>4. \A q \in Runs : SavedFor(q)'
    BY <1>1, InvFacts DEF SavedFor
  <1>5. \A q \in Runs : RunSound(q)'
    BY <1>1, <1>2, <1>4, OthersSound
  <1>6. RunTypes' /\ RowTypes'
    BY <1>1, <1>2 DEF RunTypes, RowTypes, UploaderInv
  <1>7. QED
    BY <1>2, <1>3, <1>5, <1>6, NobodyStranded DEF UploaderInv

LEMMA DeletedStep ==
    ASSUME UploaderInv, NEW u \in 1..Len(uploads), Uploader!Deleted(u) \/ Uploader!Expire(u)
    PROVE  UploaderInv'
  <1>1. /\ UNCHANGED <<saved, run, sender, control>>
        /\ uploads \in Seq(UploadRow) /\ Len(uploads) \in Nat /\ u \in 0..Len(uploads)
    BY InvFacts DEF Uploader!Deleted, Uploader!Expire, Uploader!page
  <1>2. CASE Uploader!Abort(u) /\ stranded \subseteq stranded' /\ deletes \ {u} \subseteq deletes'
    <2>1. RowsGoOn /\ Len(uploads') = Len(uploads) /\ ~ Uploader!Pending(u)'
      BY <1>1, <1>2, RowAborted
    <2>2. CareGoesOn
      BY <1>1, <1>2, <2>1, OutsideCare
    <2>3. QED
      BY <1>1, <2>1, <2>2, StepOutside
  <1>3. CASE uploads' = uploads /\ stranded' = stranded \cup {u} /\ deletes' = deletes \ {u}
    <2>1. RowsGoOn
      BY <1>1, <1>3, RowsSame
    <2>2. CareGoesOn
      BY <1>1, <1>3, OutsideCare
    <2>3. QED
      BY <1>1, <2>1, <2>2, StepOutside
  <1>4. QED
    BY <1>2, <1>3 DEF Uploader!Deleted, Uploader!Expire, Uploader!Fault, Uploader!page, Uploader!troubles

\* Of runs that were under way nothing goes on.
LEMMA CloseTabStep ==
    ASSUME UploaderInv, Uploader!CloseTab
    PROVE  UploaderInv'
  <1>1. /\ stranded' = stranded \cup deletes
                         \cup {run[r].id : r \in {q \in Runs : run[q].step \in {"created", "cancel"}}}
        /\ run' = [r \in Runs |-> IF run[r] = Uploader!Fresh THEN Uploader!Fresh
                                  ELSE [Uploader!Fresh EXCEPT !.step = "over", !.end = "closed"]]
        /\ sender' = [r \in Runs |-> [w \in Workers |-> Uploader!AtRest]]
        /\ control' = None /\ UNCHANGED <<uploads, saved>>
    BY DEF Uploader!CloseTab, Uploader!Fault
  <1>2. /\ Uploader!Fresh \in RunRecord
        /\ [Uploader!Fresh EXCEPT !.step = "over", !.end = "closed"] \in RunRecord
        /\ Uploader!AtRest \in WorkerRecord
    BY DEF Uploader!Fresh, Uploader!AtRest, RunRecord, WorkerRecord, Under
  <1>3. \A r \in Runs : run'[r].step \in {"idle", "over"} /\ run'[r].id = 0
    BY <1>1 DEF Uploader!Fresh
  <1>4. \A r \in Runs, w \in Workers : sender'[r][w].step = "rest"
    BY <1>1 DEF Uploader!AtRest
  <1>5. RunTypes'
    BY <1>1, <1>2, <1>3 DEF RunTypes, Under
  <1>6. RowTypes'
    BY <1>1, <1>3, InvFacts DEF RowTypes
  <1>7. ASSUME NEW r \in Runs PROVE RunSound(r)'
    <2>1. WorkersFor(r)'
      BY <1>3, <1>4 DEF WorkersFor, Working
    <2>2. SavedFor(r)' /\ SentFor(r)' /\ AskedFor(r)'
      BY <1>3 DEF SavedFor, SentFor, AskedFor
    <2>3. QED
      BY <2>1, <2>2 DEF RunSound
  <1>8. RowsGoOn
    BY <1>1, InvFacts, RowsSame
  <1>9. CareGoesOn
    BY <1>1 DEF CareGoesOn, Cared
  <1>10. QED
    BY <1>5, <1>6, <1>7, <1>8, <1>9, NobodyStranded DEF UploaderInv

(***************************************************************************)
(* openOrResume                                                            *)
(***************************************************************************)

LEMMA SoundEarly ==
    ASSUME UploaderInv, NEW r \in Runs, run[r].step \in Early, sender'[r] = sender[r],
           run'[r].step \in {"status", "create", "created"}, SavedFor(r)'
    PROVE  RunSound(r)'
  <1>1. WorkersFor(r)
    BY InvFacts
  <1>2. WorkersFor(r)'
    BY <1>1 DEF WorkersFor, Early
  <1>3. SentFor(r)' /\ AskedFor(r)'
    BY DEF SentFor, AskedFor
  <1>4. QED
    BY <1>2, <1>3 DEF RunSound

\* Of a run that is over, or being cancelled, only its workers are asked for.
LEMMA SoundOver ==
    ASSUME UploaderInv, NEW r \in Runs, run'[r].step \in {"over", "cancel"},
           \A w \in Workers : sender'[r][w].step \in Working =>
                                  sender'[r][w].part \in Parts
    PROVE  RunSound(r)'
  <1>1. WorkersFor(r)'
    BY DEF WorkersFor, Early
  <1>2. SavedFor(r)' /\ SentFor(r)' /\ AskedFor(r)'
    BY DEF SavedFor, SentFor, AskedFor
  <1>3. QED
    BY <1>1, <1>2 DEF RunSound

LEMMA OpenedStep ==
    ASSUME UploaderInv, NEW r \in Runs, NEW id \in 1..Len(uploads),
           NEW received \in SUBSET Parts, received \subseteq uploads[id].stored,
           Uploader!Opened(r, id, received), UNCHANGED <<uploads, sender, control, deletes, stranded>>,
           run[r].step \in {"status", "created"}, saved \in {0, id},
           run[r].step = "created" => run[r].id = id
    PROVE  UploaderInv'
  <1>1. /\ run[r] \in RunRecord /\ Len(uploads) \in Nat /\ uploads \in Seq(UploadRow)
        /\ control = r /\ WorkersFor(r) /\ id \in Nat /\ id # 0
    BY InvFacts DEF Under
  <1>2. RowsGoOn
    BY <1>1, RowsSame
  <1>3. \A w \in Workers : sender[r][w].step = "rest"
    BY <1>1 DEF WorkersFor, Early
  <1>4. CASE run[r].aborted
    <2>1. run' = [run EXCEPT ![r] = Uploader!Cancelling(r, id)] /\ saved' = 0
      BY <1>4 DEF Uploader!Opened
    <2>2. /\ Uploader!Cancelling(r, id) \in RunRecord
          /\ Uploader!Cancelling(r, id).step = "cancel" /\ Uploader!Cancelling(r, id).id = id
      BY <1>1 DEF Uploader!Cancelling, RunRecord, Under
    <2>3. /\ RunsBut(r) /\ sender'[r] = sender[r]
          /\ run'[r].step = "cancel" /\ run'[r].id = id
      BY <2>1, <2>2, OneRunOnly
    <2>4. RunSound(r)'
      BY <1>3, <2>3, SoundOver DEF Working
    <2>5. Cared(id)'
      BY <2>3 DEF Cared
    <2>6. CareGoesOn
      <3>1. ASSUME NEW u \in 1..Len(uploads),
                   saved = u \/ u \in deletes
                   \/ (run[r].id = u /\ run[r].step \in {"created", "cancel"})
            PROVE  Cared(u)'
        <4>1. u = id \/ u \in deletes'
          BY <3>1
        <4>2. QED
          BY <2>5, <4>1 DEF Cared
      <3>2. QED
        BY <2>3, <3>1, CareStays
    <2>7. QED
      BY <1>1, <1>2, <2>1, <2>3, <2>4, <2>6, StepOf
  <1>5. CASE ~ run[r].aborted
    <2>1. run' = [run EXCEPT ![r] = Uploader!Begun(r, id, received)] /\ saved' = id
      BY <1>5 DEF Uploader!Opened
    <2>2. /\ Uploader!Begun(r, id, received) \in RunRecord
          /\ Uploader!Begun(r, id, received).step = "send" /\ Uploader!Begun(r, id, received).id = id
          /\ Uploader!Begun(r, id, received).queue = Parts \ received
      BY <1>1 DEF Uploader!Begun, RunRecord, Under
    <2>3. /\ RunsBut(r) /\ sender'[r] = sender[r]
          /\ run'[r].step = "send" /\ run'[r].id = id /\ run'[r].queue = Parts \ received
      BY <2>1, <2>2, OneRunOnly
    <2>4. RunSound(r)'
      <3>1. WorkersFor(r)'
        BY <1>3, <2>3 DEF WorkersFor, Working, Early
      <3>2. SavedFor(r)'
        BY <1>1, <2>1, <2>3 DEF SavedFor
      <3>3. SentFor(r)'
        BY <2>3 DEF SentFor
      <3>4. AskedFor(r)'
        BY <2>3 DEF AskedFor
      <3>5. QED
        BY <3>1, <3>2, <3>3, <3>4 DEF RunSound
    <2>5. CareGoesOn
      <3>1. ASSUME NEW u \in 1..Len(uploads),
                   saved = u \/ u \in deletes
                   \/ (run[r].id = u /\ run[r].step \in {"created", "cancel"})
            PROVE  Cared(u)'
        BY <2>1, <3>1 DEF Cared
      <3>2. QED
        BY <2>3, <3>1, CareStays
    <2>6. QED
      BY <1>1, <1>2, <2>1, <2>3, <2>4, <2>5, StepOf
  <1>6. QED
    BY <1>4, <1>5

LEMMA OpenStep ==
    ASSUME UploaderInv, NEW r \in Runs, Uploader!Open(r)
    PROVE  UploaderInv'
  <1> DEFINE x == [run[r] EXCEPT !.step = IF saved = 0 THEN "create" ELSE "status", !.id = saved]
  <1>1. /\ run' = [run EXCEPT ![r] = x] /\ run[r].step = "open"
        /\ UNCHANGED <<uploads, saved, sender, control, deletes, stranded>>
    BY DEF Uploader!Open, Uploader!page, Uploader!troubles
  <1>2. /\ run[r] \in RunRecord /\ Len(uploads) \in Nat /\ uploads \in Seq(UploadRow)
        /\ control = r /\ saved \in 0..Len(uploads)
    BY <1>1, InvFacts DEF Under
  <1>3. /\ x \in RunRecord /\ x.id = saved
        /\ x.step = IF saved = 0 THEN "create" ELSE "status"
    <2>1. PICK s \in {"create", "status"} : s = IF saved = 0 THEN "create" ELSE "status"
      OBVIOUS
    <2>2. saved \in Nat
      BY <1>2
    <2>3. [run[r] EXCEPT !.step = s, !.id = saved] \in RunRecord
      BY <1>2, <2>2 DEF RunRecord, Under
    <2>4. [run[r] EXCEPT !.step = s, !.id = saved].id = saved
          /\ [run[r] EXCEPT !.step = s, !.id = saved].step = s
      BY <1>2 DEF RunRecord
    <2>5. QED
      BY <2>1, <2>3, <2>4
  <1> HIDE DEF x
  <1>4. RunsBut(r) /\ run'[r] = x /\ sender'[r] = sender[r]
    BY <1>1, <1>3, OneRunOnly
  <1>5. SavedFor(r)'
    BY <1>1, <1>2, <1>3, <1>4 DEF SavedFor
  <1>6. RunSound(r)'
    BY <1>1, <1>3, <1>4, <1>5, SoundEarly DEF Early
  <1>7. RowsGoOn
    BY <1>1, <1>2, RowsSame
  <1>8. CareGoesOn
    <2>1. ASSUME NEW u \in 1..Len(uploads),
                 saved = u \/ u \in deletes
                 \/ (run[r].id = u /\ run[r].step \in {"created", "cancel"})
          PROVE  Cared(u)'
      BY <1>1, <2>1 DEF Cared
    <2>2. QED
      BY <1>1, <1>4, <2>1, CareStays
  <1>9. QED
    BY <1>1, <1>2, <1>3, <1>4, <1>6, <1>7, <1>8, StepOf

LEMMA FailedRun ==
    ASSUME UploaderInv, NEW r \in Runs
    PROVE  Uploader!Failed(r) \in RunRecord /\ Uploader!Failed(r).step = "over"
  <1>1. run[r] \in RunRecord
    BY InvFacts
  <1>2. QED
    BY <1>1 DEF Uploader!Failed, RunRecord

\* A run that was under way is over, and its upload is remembered, or gone.
LEMMA OverStep ==
    ASSUME UploaderInv, NEW r \in Runs, run' = [run EXCEPT ![r] = Uploader!Failed(r)], sender' = sender,
           run[r].step \in {"status", "create", "send", "complete"}, control' = None,
           RowsGoOn, CareGoesOn, saved' = saved
    PROVE  UploaderInv'
  <1>1. /\ control = r /\ WorkersFor(r)
        /\ Uploader!Failed(r) \in RunRecord /\ Uploader!Failed(r).step = "over"
        /\ run[r] \in RunRecord /\ run[r].id \in 0..Len(uploads) /\ Len(uploads) \in Nat
        /\ saved \in 0..Len(uploads)
    BY InvFacts, FailedRun DEF Under
  <1>2. /\ RunsBut(r) /\ run'[r] = Uploader!Failed(r) /\ sender'[r] = sender[r]
        /\ Uploader!Failed(r).id = run[r].id
    BY <1>1, OneRunOnly DEF Uploader!Failed, RunRecord
  <1>3. RunSound(r)'
    BY <1>1, <1>2, SoundOver DEF WorkersFor
  <1>4. Len(uploads') \in Nat /\ Len(uploads) <= Len(uploads')
    BY LenProperties DEF RowsGoOn
  <1>5. QED
    BY <1>1, <1>2, <1>3, <1>4, StepOf DEF Under

\* Rows, deletes and what is remembered stay, and the run cared for nothing.
LEMMA CareUnmoved ==
    ASSUME UploaderInv, NEW r \in Runs, RunsBut(r), stranded \subseteq stranded',
           Len(uploads') = Len(uploads), UNCHANGED <<saved, deletes>>,
           run[r].step \notin {"created", "cancel"}
    PROVE  CareGoesOn
  <1>1. ASSUME NEW u \in 1..Len(uploads),
               saved = u \/ u \in deletes
               \/ (run[r].id = u /\ run[r].step \in {"created", "cancel"})
        PROVE  Cared(u)'
    BY <1>1 DEF Cared
  <1>2. QED
    BY <1>1, CareStays

LEMMA ResumeStep ==
    ASSUME UploaderInv, NEW r \in Runs, Uploader!Resume(r)
    PROVE  UploaderInv'
  <1>1. run[r].step = "status" /\ UNCHANGED <<uploads, sender, deletes>>
    BY DEF Uploader!Resume
  <1>2. /\ run[r] \in RunRecord /\ Len(uploads) \in Nat /\ uploads \in Seq(UploadRow)
        /\ control = r /\ saved \in {0, run[r].id} /\ run[r].id \in 0..Len(uploads)
        /\ RowsGoOn
    BY <1>1, InvFacts, RowsSame DEF Under, SavedFor
  <1>3. CASE /\ Uploader!Pending(run[r].id) /\ Uploader!Opened(r, run[r].id, uploads[run[r].id].stored)
             /\ UNCHANGED <<control, stranded>>
    <2>1. run[r].id \in 1..Len(uploads)
      BY <1>2, <1>3 DEF Uploader!Pending
    <2>2. uploads[run[r].id].stored \in SUBSET Parts
      BY <1>2, <2>1, RowsTyped DEF UploadRow
    <2>3. QED
      BY <1>1, <1>2, <1>3, <2>1, <2>2, OpenedStep
  <1>4. CASE /\ run' = [run EXCEPT ![r] = [run[r] EXCEPT !.step = "create"]] /\ saved' = 0
             /\ control' = control /\ stranded \subseteq stranded'
             /\ ~ Uploader!Pending(run[r].id) \/ run[r].id \in stranded'
    <2>1. [run[r] EXCEPT !.step = "create"] \in RunRecord
      BY <1>2 DEF RunRecord, Under
    <2>2. /\ RunsBut(r) /\ run'[r] = [run[r] EXCEPT !.step = "create"]
          /\ sender'[r] = sender[r]
      BY <1>1, <1>4, <2>1, OneRunOnly
    <2>3. run'[r].step = "create" /\ run'[r].id = run[r].id
      BY <1>2, <2>2 DEF RunRecord
    <2>4. RunSound(r)'
      BY <1>1, <1>4, <2>2, <2>3, SoundEarly DEF Early, SavedFor
    <2>5. CareGoesOn
      <3>1. ASSUME NEW u \in 1..Len(uploads), Uploader!Pending(u)', u \notin stranded',
                   saved = u \/ u \in deletes
                   \/ (run[r].id = u /\ run[r].step \in {"created", "cancel"})
            PROVE  Cared(u)'
        <4>1. Uploader!Pending(u)
          BY <1>1, <3>1 DEF Uploader!Pending
        <4>2. u # run[r].id
          BY <1>4, <3>1, <4>1
        <4>3. u \in deletes'
          BY <1>1, <1>2, <3>1, <4>2
        <4>4. QED
          BY <4>3 DEF Cared
      <3>2. QED
        BY <1>1, <1>4, <2>2, <3>1, CareStays
    <2>6. QED
      BY <1>1, <1>2, <1>4, <2>2, <2>3, <2>4, <2>5, StepOf
  <1>5. CASE /\ Uploader!Fault({}) /\ run' = [run EXCEPT ![r] = Uploader!Failed(r)]
             /\ Uploader!Over(r, "failed") /\ UNCHANGED saved
    <2>1. RunsBut(r)
      BY <1>1, <1>5, FailedRun, OneRunOnly
    <2>2. CareGoesOn
      BY <1>1, <1>5, <2>1, CareUnmoved DEF Uploader!Fault
    <2>3. QED
      BY <1>1, <1>2, <1>5, <2>2, OverStep DEF Uploader!Over
  <1>6. QED
    BY <1>3, <1>4, <1>5 DEF Uploader!Resume, Uploader!Fault, Uploader!troubles

LEMMA CreateStep ==
    ASSUME UploaderInv, NEW r \in Runs, Uploader!Create(r)
    PROVE  UploaderInv'
  <1>1. run[r].step = "create" /\ UNCHANGED <<saved, sender, deletes>>
    BY DEF Uploader!Create
  <1>2. /\ run[r] \in RunRecord /\ Len(uploads) \in Nat /\ uploads \in Seq(UploadRow)
        /\ control = r /\ saved = 0 /\ run[r].id \in 0..Len(uploads)
    BY <1>1, InvFacts DEF Under, SavedFor
  <1>3. CASE /\ uploads' = Append(uploads, [status |-> "pending", stored |-> {}])
             /\ run' = [run EXCEPT ![r] = [run[r] EXCEPT !.step = "created", !.id = Len(uploads) + 1]]
             /\ UNCHANGED <<control, stranded>>
    <2> DEFINE id == Len(uploads) + 1
    <2>1. RowsGoOn /\ Len(uploads') = id /\ id \in Nat /\ id # 0
      BY <1>2, <1>3, RowAdded
    <2>2. PICK n \in Nat : n = id
      BY <2>1
    <2>3. /\ [run[r] EXCEPT !.step = "created", !.id = n] \in RunRecord
          /\ [run[r] EXCEPT !.step = "created", !.id = n].step = "created"
          /\ [run[r] EXCEPT !.step = "created", !.id = n].id = n
      BY <1>2 DEF RunRecord, Under
    <2>4. RunsBut(r) /\ run'[r].step = "created" /\ run'[r].id = n /\ sender'[r] = sender[r]
      BY <1>1, <1>3, <2>2, <2>3, OneRunOnly
    <2>5. RunSound(r)'
      BY <1>1, <1>2, <2>1, <2>2, <2>4, SoundEarly DEF Early, SavedFor
    <2>6. CareGoesOn
      <3>1. ASSUME NEW u \in 1..Len(uploads'), u \notin 1..Len(uploads) PROVE Cared(u)'
        <4>1. u = n
          BY <1>2, <2>1, <2>2, <3>1
        <4>2. QED
          BY <2>4, <4>1 DEF Cared
      <3>2. ASSUME NEW u \in 1..Len(uploads),
                   saved = u \/ u \in deletes
                   \/ (run[r].id = u /\ run[r].step \in {"created", "cancel"})
            PROVE  Cared(u)'
        BY <1>1, <3>2 DEF Cared
      <3>3. QED
        BY <1>3, <2>4, <3>1, <3>2, CareStays
    <2>7. QED
      BY <1>1, <1>2, <1>3, <2>1, <2>2, <2>4, <2>5, <2>6, StepOf
  <1>4. CASE /\ \/ uploads' = Append(uploads, [status |-> "pending", stored |-> {}])
                \/ UNCHANGED uploads
             /\ Uploader!Fault(DOMAIN uploads' \ DOMAIN uploads)
             /\ run' = [run EXCEPT ![r] = Uploader!Failed(r)] /\ Uploader!Over(r, "failed")
    <2>1. RowsGoOn
      BY <1>2, <1>4, RowAdded, RowsSame
    <2>2. RunsBut(r)
      BY <1>1, <1>4, FailedRun, OneRunOnly
    <2>3. /\ DOMAIN uploads' = 1..Len(uploads') /\ DOMAIN uploads = 1..Len(uploads)
      BY <1>2, <2>1, LenProperties DEF RowsGoOn
    <2>4. stranded' = stranded \cup (1..Len(uploads') \ 1..Len(uploads))
      BY <1>4, <2>3 DEF Uploader!Fault
    <2>5. CareGoesOn
      <3>1. ASSUME NEW u \in 1..Len(uploads),
                   saved = u \/ u \in deletes
                   \/ (run[r].id = u /\ run[r].step \in {"created", "cancel"})
            PROVE  Cared(u)'
        BY <1>1, <3>1 DEF Cared
      <3>2. QED
        BY <2>2, <2>4, <3>1, CareStays
    <2>6. QED
      BY <1>1, <1>4, <2>1, <2>5, OverStep DEF Uploader!Over
  <1>5. QED
    BY <1>3, <1>4 DEF Uploader!Create, Uploader!troubles

LEMMA CreatedStep ==
    ASSUME UploaderInv, NEW r \in Runs, Uploader!Created(r)
    PROVE  UploaderInv'
  <1>1. /\ run[r].step = "created" /\ Uploader!Opened(r, run[r].id, {})
        /\ UNCHANGED <<uploads, sender, control, deletes, stranded>>
    BY DEF Uploader!Created, Uploader!page, Uploader!troubles
  <1>2. run[r].id \in 1..Len(uploads) /\ saved = 0
    BY <1>1, InvFacts DEF SavedFor
  <1>3. QED
    BY <1>1, <1>2, OpenedStep

(***************************************************************************)
(* The workers of a run                                                    *)
(***************************************************************************)

\* One worker changes, and of its run neither the step nor the upload.
LEMMA WorkerStep ==
    ASSUME UploaderInv, RowsGoOn, CareGoesOn, NEW r \in Runs, NEW w \in Workers, RunsBut(r),
           NEW x \in WorkerRecord, sender'[r] = [sender[r] EXCEPT ![w] = x],
           run'[r].step = run[r].step, run'[r].id = run[r].id,
           UNCHANGED <<control, saved>>, sender[r][w].step # "gone",
           run[r].step \notin Early \cup {"complete"},
           x.step \in Working => x.part \in Parts,
           x.step = "gone" => run[r].step # "send",
           run[r].step = "send" /\ Uploader!Pending(run[r].id)' =>
               \A p \in Parts :
                   p \in run[r].queue \/ (sender[r][w].step \in Working /\ sender[r][w].part = p)
                   => \/ p \in run'[r].queue \/ p \in uploads'[run[r].id].stored
                      \/ x.step \in Working /\ x.part = p
    PROVE  UploaderInv'
  <1>1. /\ sender \in [Runs -> [Workers -> WorkerRecord]] /\ WorkersFor(r) /\ SavedFor(r)
        /\ SentFor(r) /\ run[r].id \in 0..Len(uploads) /\ Len(uploads) \in Nat
    BY InvFacts
  <1>2. sender'[r][w] = x /\ \A v \in Workers : v # w => sender'[r][v] = sender[r][v]
    BY <1>1
  <1>3. WorkersFor(r)'
    BY <1>1, <1>2 DEF WorkersFor
  <1>4. SavedFor(r)' /\ AskedFor(r)'
    BY <1>1 DEF SavedFor, AskedFor
  <1>5. SentFor(r)'
    <2>1. SUFFICES ASSUME run[r].step = "send", Uploader!Pending(run[r].id)', NEW p \in Parts
                   PROVE  \/ p \in uploads'[run[r].id].stored \/ p \in run'[r].queue
                          \/ p \in InHand(r)'
      BY DEF SentFor
    <2>2. /\ Uploader!Pending(run[r].id) /\ run[r].id \in 1..Len(uploads)
          /\ uploads[run[r].id].stored \subseteq uploads'[run[r].id].stored
      <3>1. run'[r].id \in 1..Len(uploads)
        BY <1>1, <2>1 DEF Uploader!Pending
      <3>2. QED
        BY <2>1, <3>1 DEF RowsGoOn, Uploader!Pending
    <2>3. p \in uploads[run[r].id].stored \/ p \in run[r].queue \/ p \in InHand(r)
      BY <1>1, <2>1, <2>2 DEF SentFor
    <2>4. ASSUME NEW v \in Workers, v # w, sender[r][v].step \in Working, sender[r][v].part = p
          PROVE  p \in InHand(r)'
      BY <1>2, <2>4 DEF InHand
    <2>5. x.step \in Working /\ x.part = p => p \in InHand(r)'
      BY <1>2 DEF InHand
    <2>6. QED
      BY <2>1, <2>2, <2>3, <2>4, <2>5 DEF InHand
  <1>6. QED
    BY <1>3, <1>4, <1>5, StepBeside DEF RunSound

LEMMA CareBeside ==
    ASSUME UploaderInv, NEW r \in Runs, RunsBut(r), stranded \subseteq stranded',
           Len(uploads') = Len(uploads), UNCHANGED <<saved, deletes>>,
           run'[r].step = run[r].step, run'[r].id = run[r].id
    PROVE  CareGoesOn
  <1>1. ASSUME NEW u \in 1..Len(uploads),
               saved = u \/ u \in deletes
               \/ (run[r].id = u /\ run[r].step \in {"created", "cancel"})
        PROVE  Cared(u)'
    BY <1>1 DEF Cared
  <1>2. QED
    BY <1>1, CareStays

LEMMA BusyWorker ==
    ASSUME UploaderInv, NEW r \in Runs, NEW w \in Workers, sender[r][w].step \in Working
    PROVE  /\ run[r].step \notin Early \cup {"complete"} /\ sender[r][w] \in WorkerRecord
           /\ sender[r][w].part \in Parts /\ sender[r] \in [Workers -> WorkerRecord]
           /\ sender[r][w].step # "gone"
  <1>1. WorkersFor(r) /\ sender \in [Runs -> [Workers -> WorkerRecord]]
    BY InvFacts
  <1>2. QED
    BY <1>1 DEF WorkersFor, Working

LEMMA TakeStep ==
    ASSUME UploaderInv, NEW r \in Runs, NEW w \in Workers, Uploader!Take(r, w)
    PROVE  UploaderInv'
  <1>1. /\ run[r] \in RunRecord /\ Len(uploads) \in Nat /\ uploads \in Seq(UploadRow)
        /\ sender \in [Runs -> [Workers -> WorkerRecord]]
        /\ run[r].step = "send" /\ sender[r][w].step = "rest"
    BY InvFacts DEF Uploader!Take
  <1>2. PICK p \in run[r].queue : p = Uploader!Min(run[r].queue)
    BY <1>1, FirstPart DEF Uploader!Take, RunRecord
  <1>3. p \in Parts /\ p \in Nat
    BY <1>1, UploadsAssumption DEF RunRecord
  <1> DEFINE x == [part |-> p, attempt |-> 1, step |-> "try"]
             y == [run[r] EXCEPT !.queue = run[r].queue \ {p}]
             workers == [sender[r] EXCEPT ![w] = x]
  <1>4. /\ run' = [run EXCEPT ![r] = y] /\ sender' = [sender EXCEPT ![r] = workers]
        /\ UNCHANGED <<uploads, saved, control, deletes, stranded>>
    BY <1>1, <1>2 DEF Uploader!Take, Uploader!page, Uploader!troubles
  <1>5. x \in WorkerRecord /\ x.step = "try" /\ x.part = p
    BY <1>3 DEF WorkerRecord, Working
  <1>6. y \in RunRecord /\ y.step = run[r].step /\ y.id = run[r].id /\ y.queue = run[r].queue \ {p}
    BY <1>1 DEF RunRecord
  <1>7. workers \in [Workers -> WorkerRecord]
    BY <1>1, <1>5
  <1> HIDE DEF x, y
  <1>8. RunsBut(r) /\ run'[r] = y /\ sender'[r] = workers
    BY <1>4, <1>6, <1>7, OneRun
  <1>9. RowsGoOn /\ CareGoesOn
    BY <1>1, <1>4, <1>6, <1>8, RowsSame, CareBeside
  <1>10. QED
    BY <1>1, <1>3, <1>4, <1>5, <1>6, <1>8, <1>9, WorkerStep DEF Working, Early

\* A worker that has a part keeps it, or stores it.
LEMMA BusyStep ==
    ASSUME UploaderInv, RowsGoOn, Len(uploads') = Len(uploads), NEW r \in Runs, NEW w \in Workers,
           sender[r][w].step \in Working, RunsBut(r), stranded \subseteq stranded',
           NEW x \in WorkerRecord, sender'[r] = [sender[r] EXCEPT ![w] = x],
           run'[r].step = run[r].step, run'[r].id = run[r].id, run'[r].queue = run[r].queue,
           UNCHANGED <<control, saved, deletes>>,
           \/ x.step \in Working /\ x.part = sender[r][w].part
           \/ x.step = "rest" /\ sender[r][w].part \in uploads'[run[r].id].stored
           \/ x.step = "gone" /\ run[r].step # "send"
    PROVE  UploaderInv'
  <1>1. /\ run[r].step \notin Early \cup {"complete"} /\ sender[r][w].part \in Parts
        /\ sender[r][w].step # "gone"
    BY BusyWorker
  <1>2. CareGoesOn
    BY CareBeside
  <1>3. x.step \in Working => x.part \in Parts
    BY <1>1 DEF Working
  <1>4. x.step = "gone" => run[r].step # "send"
    BY DEF Working
  <1>5. QED
    BY <1>1, <1>2, <1>3, <1>4, WorkerStep

LEMMA NeedUrlStep ==
    ASSUME UploaderInv, NEW r \in Runs, NEW w \in Workers, Uploader!NeedUrl(r, w)
    PROVE  UploaderInv'
  <1>1. /\ run[r] \in RunRecord /\ Len(uploads) \in Nat /\ uploads \in Seq(UploadRow)
        /\ sender \in [Runs -> [Workers -> WorkerRecord]] /\ sender[r][w].step = "try"
    BY InvFacts DEF Uploader!NeedUrl
  <1>2. sender[r][w] \in WorkerRecord /\ sender[r][w].part \in Parts /\ sender[r][w].step \in Working
    BY <1>1, BusyWorker DEF Working
  <1>3. Uploader!Batch(r, sender[r][w].part) \in SUBSET Parts
    BY <1>1, <1>2 DEF Uploader!Batch, Uploader!Waiting, RunRecord
  <1>4. PICK urls \in SUBSET Parts, signing \in SUBSET SUBSET Parts :
            run' = [run EXCEPT ![r] = [run[r] EXCEPT !.urls = urls, !.signing = signing]]
    <2> DEFINE p == sender[r][w].part
               urls == IF sender[r][w].attempt > 1 THEN run[r].urls \ {p} ELSE run[r].urls
               signing == IF p \in urls \cup Uploader!Signing(r) THEN run[r].signing
                          ELSE run[r].signing \cup {Uploader!Batch(r, p)}
    <2>1. urls \in SUBSET Parts
      BY <1>1 DEF RunRecord
    <2>2. signing \in SUBSET SUBSET Parts
      BY <1>1, <1>3 DEF RunRecord
    <2>3. run' = [run EXCEPT ![r] = [run[r] EXCEPT !.urls = urls, !.signing = signing]]
      BY DEF Uploader!NeedUrl
    <2> HIDE DEF urls, signing
    <2>4. QED
      BY <2>1, <2>2, <2>3
  <1> DEFINE y == [run[r] EXCEPT !.urls = urls, !.signing = signing]
             x == [sender[r][w] EXCEPT !.step = "url"]
             workers == [sender[r] EXCEPT ![w] = x]
  <1>5. /\ sender' = [sender EXCEPT ![r] = workers]
        /\ UNCHANGED <<uploads, saved, control, deletes, stranded>>
    BY DEF Uploader!NeedUrl, Uploader!page, Uploader!troubles
  <1>6. x \in WorkerRecord /\ x.step \in Working /\ x.part = sender[r][w].part
    BY <1>2 DEF WorkerRecord, Working
  <1>7. y \in RunRecord /\ y.step = run[r].step /\ y.id = run[r].id /\ y.queue = run[r].queue
    BY <1>1 DEF RunRecord
  <1>8. workers \in [Workers -> WorkerRecord]
    BY <1>1, <1>6
  <1> HIDE DEF x, y
  <1>9. RunsBut(r) /\ run'[r] = y /\ sender'[r] = workers
    BY <1>4, <1>5, <1>7, <1>8, OneRun DEF y
  <1>10. RowsGoOn
    BY <1>1, <1>5, RowsSame
  <1>11. QED
    BY <1>2, <1>5, <1>6, <1>7, <1>9, <1>10, BusyStep

LEMMA SignedStep ==
    ASSUME UploaderInv, NEW r \in Runs, NEW batch \in run[r].signing, Uploader!Signed(r, batch)
    PROVE  UploaderInv'
  <1>1. /\ run[r] \in RunRecord /\ Len(uploads) \in Nat /\ uploads \in Seq(UploadRow)
        /\ SavedFor(r) /\ UNCHANGED <<uploads, saved, sender, control, deletes>>
        /\ stranded \subseteq stranded'
    BY InvFacts DEF Uploader!Signed, Uploader!Fault, Uploader!page, Uploader!troubles
  <1>2. PICK urls \in SUBSET Parts, signing \in SUBSET SUBSET Parts :
            run' = [run EXCEPT ![r] = [run[r] EXCEPT !.urls = urls, !.signing = signing]]
    <2>1. run[r].signing \ {batch} \in SUBSET SUBSET Parts /\ run[r].urls \cup batch \in SUBSET Parts
          /\ run[r].urls \in SUBSET Parts
      BY <1>1 DEF RunRecord
    <2>2. [run[r] EXCEPT !.signing = run[r].signing \ {batch}]
            = [run[r] EXCEPT !.urls = run[r].urls, !.signing = run[r].signing \ {batch}]
      BY <1>1 DEF RunRecord
    <2>3. CASE run' = [run EXCEPT ![r].signing = @ \ {batch}, ![r].urls = @ \cup batch]
      <3>1. run' = [run EXCEPT ![r] = [run[r] EXCEPT !.urls = run[r].urls \cup batch,
                                                     !.signing = run[r].signing \ {batch}]]
        BY <1>1, <2>3 DEF RunRecord
      <3>2. QED
        BY <2>1, <3>1
    <2>4. CASE run' = [run EXCEPT ![r].signing = @ \ {batch}]
      BY <2>1, <2>2, <2>4
    <2>5. QED
      BY <2>3, <2>4 DEF Uploader!Signed
  <1> DEFINE y == [run[r] EXCEPT !.urls = urls, !.signing = signing]
  <1>3. y \in RunRecord /\ y.step = run[r].step /\ y.id = run[r].id /\ y.queue = run[r].queue
    BY <1>1 DEF RunRecord
  <1> HIDE DEF y
  <1>4. RunsBut(r) /\ run'[r] = y /\ sender'[r] = sender[r]
    BY <1>1, <1>2, <1>3, OneRunOnly DEF y
  <1>5. RowsGoOn /\ CareGoesOn
    BY <1>1, <1>3, <1>4, RowsSame, CareBeside
  <1>6. SavedFor(r)'
    BY <1>1, <1>3, <1>4 DEF SavedFor
  <1>7. RunSound(r)'
    BY <1>3, <1>4, <1>5, <1>6, OthersSound
  <1>8. QED
    BY <1>1, <1>3, <1>4, <1>5, <1>7, StepBeside

\* The run itself and the rows stay; one of its workers goes on with its part.
LEMMA GoesOnStep ==
    ASSUME UploaderInv, NEW r \in Runs, NEW w \in Workers, sender[r][w].step \in Working,
           NEW x \in WorkerRecord, sender' = [sender EXCEPT ![r] = [sender[r] EXCEPT ![w] = x]],
           x.step \in Working /\ x.part = sender[r][w].part,
           stranded \subseteq stranded', UNCHANGED <<uploads, run, saved, control, deletes>>
    PROVE  UploaderInv'
  <1>1. /\ run[r] \in RunRecord /\ sender[r] \in [Workers -> WorkerRecord]
        /\ uploads \in Seq(UploadRow) /\ run \in [Runs -> RunRecord]
    BY InvFacts DEF UploaderInv, RunTypes
  <1>2. [sender[r] EXCEPT ![w] = x] \in [Workers -> WorkerRecord] /\ run' = [run EXCEPT ![r] = run[r]]
    BY <1>1
  <1>3. RunsBut(r) /\ run'[r] = run[r] /\ sender'[r] = [sender[r] EXCEPT ![w] = x]
    BY <1>1, <1>2, OneRun
  <1>4. RowsGoOn
    BY <1>1, RowsSame
  <1>5. QED
    BY <1>3, <1>4, BusyStep

LEMMA HasUrlStep ==
    ASSUME UploaderInv, NEW r \in Runs, NEW w \in Workers, Uploader!HasUrl(r, w)
    PROVE  UploaderInv'
  <1>1. sender[r][w].step \in Working /\ UNCHANGED <<uploads, run, saved, control, deletes, stranded>>
    BY DEF Uploader!HasUrl, Working, Uploader!page, Uploader!troubles
  <1>2. sender[r][w] \in WorkerRecord
    BY <1>1, BusyWorker
  <1>3. PICK step \in {"put", "error"} :
            sender' = [sender EXCEPT ![r] = [sender[r] EXCEPT ![w] = [sender[r][w] EXCEPT !.step = step]]]
    BY DEF Uploader!HasUrl
  <1>4. /\ [sender[r][w] EXCEPT !.step = step] \in WorkerRecord
        /\ [sender[r][w] EXCEPT !.step = step].step \in Working
        /\ [sender[r][w] EXCEPT !.step = step].part = sender[r][w].part
    BY <1>2 DEF WorkerRecord, Working
  <1>5. QED
    BY <1>1, <1>3, <1>4, GoesOnStep

LEMMA RetryStep ==
    ASSUME UploaderInv, NEW r \in Runs, NEW w \in Workers, Uploader!Retry(r, w)
    PROVE  UploaderInv'
  <1> DEFINE n == sender[r][w].attempt + 1
             x == [sender[r][w] EXCEPT !.attempt = n, !.step = "try"]
  <1>1. /\ sender[r][w].step \in Working /\ UNCHANGED <<uploads, run, saved, control, deletes, stranded>>
        /\ sender' = [sender EXCEPT ![r] = [sender[r] EXCEPT ![w] = x]]
    BY DEF Uploader!Retry, Working, Uploader!page, Uploader!troubles
  <1>2. sender[r][w] \in WorkerRecord
    BY <1>1, BusyWorker
  <1>3. n \in Nat
    BY <1>2 DEF WorkerRecord
  <1> HIDE DEF n
  <1>4. x \in WorkerRecord /\ x.step \in Working /\ x.part = sender[r][w].part
    BY <1>2, <1>3 DEF WorkerRecord, Working
  <1> HIDE DEF x
  <1>5. QED
    BY <1>1, <1>4, GoesOnStep

LEMMA PutPartStep ==
    ASSUME UploaderInv, NEW r \in Runs, NEW w \in Workers, Uploader!PutPart(r, w)
    PROVE  UploaderInv'
  <1>1. /\ sender[r][w].step \in Working /\ UNCHANGED <<run, saved, control, deletes>>
        /\ stranded \subseteq stranded'
    BY DEF Uploader!PutPart, Working, Uploader!page, Uploader!troubles, Uploader!Fault
  <1>2. /\ sender[r][w] \in WorkerRecord /\ sender[r][w].part \in Parts
        /\ sender[r] \in [Workers -> WorkerRecord]
        /\ uploads \in Seq(UploadRow) /\ run \in [Runs -> RunRecord] /\ run[r] \in RunRecord
        /\ run[r].id \in 0..Len(uploads) /\ Len(uploads) \in Nat
    BY <1>1, InvFacts, BusyWorker DEF UploaderInv, RunTypes
  <1>3. /\ [sender[r][w] EXCEPT !.step = "error"] \in WorkerRecord
        /\ [sender[r][w] EXCEPT !.step = "error"].step \in Working
        /\ [sender[r][w] EXCEPT !.step = "error"].part = sender[r][w].part
        /\ Uploader!AtRest \in WorkerRecord /\ Uploader!AtRest.step = "rest"
    BY <1>2 DEF WorkerRecord, Working, Uploader!AtRest
  <1>4. CASE /\ Uploader!Pending(run[r].id)
             /\ uploads' = [uploads EXCEPT ![run[r].id].stored = @ \cup {sender[r][w].part}]
             /\ \/ sender' = [sender EXCEPT ![r][w] = Uploader!AtRest]
                \/ sender' = [sender EXCEPT ![r][w].step = "error"]
    <2>1. PICK u \in 1..Len(uploads) : u = run[r].id
      BY <1>2, <1>4 DEF Uploader!Pending
    <2>2. uploads[u] \in UploadRow
      BY <1>2, RowsTyped
    <2> DEFINE row == [uploads[u] EXCEPT !.stored = uploads[u].stored \cup {sender[r][w].part}]
    <2>3. row \in UploadRow /\ row.stored = uploads[u].stored \cup {sender[r][w].part}
      BY <1>2, <2>2 DEF UploadRow
    <2>4. uploads' = [uploads EXCEPT ![u] = row]
      BY <1>4, <2>1
    <2>5. row.status = "pending" => Uploader!Pending(u) /\ uploads[u].stored \subseteq row.stored
      BY <1>4, <2>1, <2>3
    <2> HIDE DEF row
    <2>6. RowsGoOn /\ Len(uploads') = Len(uploads) /\ uploads'[u] = row
      BY <1>2, <2>3, <2>4, <2>5, RowChanged
    <2>7. ASSUME NEW x \in WorkerRecord, sender' = [sender EXCEPT ![r] = [sender[r] EXCEPT ![w] = x]],
                 x = Uploader!AtRest \/ x = [sender[r][w] EXCEPT !.step = "error"]
          PROVE  UploaderInv'
      <3>1. [sender[r] EXCEPT ![w] = x] \in [Workers -> WorkerRecord] /\ run' = [run EXCEPT ![r] = run[r]]
        BY <1>1, <1>2
      <3>2. RunsBut(r) /\ run'[r] = run[r] /\ sender'[r] = [sender[r] EXCEPT ![w] = x]
        BY <1>2, <2>7, <3>1, OneRun
      <3>3. sender[r][w].part \in uploads'[run[r].id].stored
        BY <2>1, <2>3, <2>6
      <3>4. \/ x.step \in Working /\ x.part = sender[r][w].part
            \/ x.step = "rest" /\ sender[r][w].part \in uploads'[run[r].id].stored
        BY <1>3, <2>7, <3>3
      <3>5. run'[r].step = run[r].step /\ run'[r].id = run[r].id /\ run'[r].queue = run[r].queue
        BY <3>2
      <3> HIDE DEF row
      <3>6. QED
        BY <1>1, <2>6, <3>2, <3>4, <3>5, BusyStep
    <2>8. QED
      BY <1>3, <1>4, <2>7
  <1>5. CASE uploads' = uploads /\ sender' = [sender EXCEPT ![r][w].step = "error"]
    BY <1>1, <1>3, <1>5, GoesOnStep
  <1>6. QED
    BY <1>4, <1>5 DEF Uploader!PutPart

LEMMA GiveUpStep ==
    ASSUME UploaderInv, NEW r \in Runs, NEW w \in Workers, Uploader!GiveUp(r, w)
    PROVE  UploaderInv'
  <1> DEFINE x == [Uploader!AtRest EXCEPT !.step = "gone"]
             workers == [sender[r] EXCEPT ![w] = x]
  <1>1. /\ sender[r][w].step \in Working /\ sender' = [sender EXCEPT ![r] = workers]
        /\ UNCHANGED <<uploads, deletes, stranded>>
    BY DEF Uploader!GiveUp, Working, Uploader!troubles
  <1>2. /\ sender[r] \in [Workers -> WorkerRecord]
        /\ uploads \in Seq(UploadRow) /\ run \in [Runs -> RunRecord] /\ run[r] \in RunRecord
        /\ run[r].id \in 0..Len(uploads) /\ Len(uploads) \in Nat
        /\ SavedFor(r) /\ WorkersFor(r) /\ (run[r].step \in Under => control = r)
        /\ saved \in 0..Len(uploads)
    BY <1>1, InvFacts, BusyWorker DEF UploaderInv, RunTypes
  <1>3. x \in WorkerRecord /\ x.step = "gone"
    BY DEF Uploader!AtRest, WorkerRecord
  <1>4. workers \in [Workers -> WorkerRecord] /\ workers[w] = x
        /\ \A v \in Workers : v # w => workers[v] = sender[r][v]
    BY <1>2, <1>3
  <1> HIDE DEF x
  <1>5. RowsGoOn
    BY <1>1, <1>2, RowsSame
  <1>6. \A v \in Workers : workers[v].step \in Working => workers[v].part \in Parts
    <2>1. \A v \in Workers : sender[r][v].step \in Working => sender[r][v].part \in Parts
      BY <1>2 DEF WorkersFor
    <2>2. x.step \notin Working
      BY <1>3 DEF Working
    <2>3. QED
      BY <1>4, <2>1, <2>2
  <1>7. CASE run[r].step # "send" /\ UNCHANGED <<run, saved, control>>
    <2>1. run' = [run EXCEPT ![r] = run[r]]
      BY <1>2, <1>7
    <2>2. RunsBut(r) /\ run'[r] = run[r] /\ sender'[r] = workers
      BY <1>1, <1>2, <1>4, <2>1, OneRun
    <2>3. QED
      BY <1>1, <1>3, <1>5, <1>7, <2>2, BusyStep
  <1>8. CASE /\ run[r].step = "send" /\ run' = [run EXCEPT ![r] = Uploader!Cancelling(r, run[r].id)]
             /\ saved' = 0 /\ UNCHANGED control
    <2>1. /\ Uploader!Cancelling(r, run[r].id) \in RunRecord
          /\ Uploader!Cancelling(r, run[r].id).step = "cancel"
          /\ Uploader!Cancelling(r, run[r].id).id = run[r].id
      BY <1>2 DEF Uploader!Cancelling, RunRecord, Under
    <2>2. /\ RunsBut(r) /\ sender'[r] = workers
          /\ run'[r].step = "cancel" /\ run'[r].id = run[r].id
      BY <1>1, <1>4, <1>8, <2>1, OneRun
    <2>3. RunSound(r)'
      BY <1>6, <2>2, SoundOver
    <2>4. CareGoesOn
      <3>1. ASSUME NEW u \in 1..Len(uploads),
                   saved = u \/ u \in deletes
                   \/ (run[r].id = u /\ run[r].step \in {"created", "cancel"})
            PROVE  Cared(u)'
        <4>1. saved \in {0, run[r].id} /\ u # 0
          BY <1>2, <1>8 DEF SavedFor
        <4>2. u = run[r].id \/ u \in deletes'
          BY <1>1, <3>1, <4>1
        <4>3. QED
          BY <2>2, <4>2 DEF Cared
      <3>2. QED
        BY <1>1, <2>2, <3>1, CareStays
    <2>5. control \in {None, r} /\ control' \in {None, r} /\ control' = r
          /\ saved' \in 0..Len(uploads') /\ run'[r].id \in 0..Len(uploads')
      BY <1>1, <1>2, <1>8, <2>2 DEF Under
    <2>6. QED
      BY <1>5, <2>2, <2>3, <2>4, <2>5, StepOf
  <1>9. CASE /\ run[r].step = "send" /\ run' = [run EXCEPT ![r] = Uploader!Failed(r)]
             /\ Uploader!Over(r, "failed") /\ UNCHANGED saved
    <2>1. /\ Uploader!Failed(r) \in RunRecord /\ Uploader!Failed(r).step = "over"
          /\ Uploader!Failed(r).id = run[r].id
      BY <1>2, FailedRun DEF Uploader!Failed, RunRecord
    <2>2. /\ RunsBut(r) /\ sender'[r] = workers
          /\ run'[r].step = "over" /\ run'[r].id = run[r].id
      BY <1>1, <1>4, <1>9, <2>1, OneRun
    <2>3. RunSound(r)'
      BY <1>6, <2>2, SoundOver
    <2>4. CareGoesOn
      BY <1>1, <1>9, <2>2, CareUnmoved
    <2>5. control \in {None, r} /\ control' \in {None, r}
          /\ saved' \in 0..Len(uploads') /\ run'[r].id \in 0..Len(uploads')
      BY <1>1, <1>2, <1>9, <2>2 DEF Under, Uploader!Over
    <2>6. QED
      BY <1>5, <2>2, <2>3, <2>4, <2>5, StepOf DEF Under
  <1>10. QED
    BY <1>7, <1>8, <1>9 DEF Uploader!GiveUp

(***************************************************************************)
(* The end of a run                                                        *)
(***************************************************************************)

LEMMA SentStep ==
    ASSUME UploaderInv, NEW r \in Runs, Uploader!Sent(r)
    PROVE  UploaderInv'
  <1>1. /\ run[r].step = "send" /\ Uploader!AllSent(r)
        /\ UNCHANGED <<uploads, sender, control, deletes, stranded>>
    BY DEF Uploader!Sent, Uploader!page, Uploader!troubles
  <1>2. /\ uploads \in Seq(UploadRow) /\ run[r] \in RunRecord
        /\ run[r].id \in 0..Len(uploads) /\ Len(uploads) \in Nat /\ control = r
        /\ SavedFor(r) /\ WorkersFor(r) /\ SentFor(r) /\ saved \in 0..Len(uploads)
    BY <1>1, InvFacts DEF Under
  <1>3. RowsGoOn
    BY <1>1, <1>2, RowsSame
  <1>4. \A w \in Workers : sender[r][w].step = "rest"
    BY <1>1 DEF Uploader!AllSent
  <1>5. CASE run' = [run EXCEPT ![r] = Uploader!Cancelling(r, run[r].id)] /\ saved' = 0
    <2>1. /\ Uploader!Cancelling(r, run[r].id) \in RunRecord
          /\ Uploader!Cancelling(r, run[r].id).step = "cancel"
          /\ Uploader!Cancelling(r, run[r].id).id = run[r].id
      BY <1>2 DEF Uploader!Cancelling, RunRecord, Under
    <2>2. /\ RunsBut(r) /\ sender'[r] = sender[r]
          /\ run'[r].step = "cancel" /\ run'[r].id = run[r].id
      BY <1>1, <1>5, <2>1, OneRunOnly
    <2>3. RunSound(r)'
      BY <1>4, <2>2, SoundOver DEF Working
    <2>4. CareGoesOn
      <3>1. ASSUME NEW u \in 1..Len(uploads),
                   saved = u \/ u \in deletes
                   \/ (run[r].id = u /\ run[r].step \in {"created", "cancel"})
            PROVE  Cared(u)'
        <4>1. saved \in {0, run[r].id} /\ u # 0
          BY <1>1, <1>2 DEF SavedFor
        <4>2. u = run[r].id \/ u \in deletes'
          BY <1>1, <3>1, <4>1
        <4>3. QED
          BY <2>2, <4>2 DEF Cared
      <3>2. QED
        BY <1>1, <2>2, <3>1, CareStays
    <2>5. control \in {None, r} /\ control' \in {None, r} /\ control' = r
          /\ saved' \in 0..Len(uploads') /\ run'[r].id \in 0..Len(uploads')
      BY <1>1, <1>2, <1>5, <2>2
    <2>6. QED
      BY <1>3, <2>2, <2>3, <2>4, <2>5, StepOf
  <1>6. CASE run' = [run EXCEPT ![r] = [run[r] EXCEPT !.step = "complete"]] /\ UNCHANGED saved
    <2>1. /\ [run[r] EXCEPT !.step = "complete"] \in RunRecord
          /\ [run[r] EXCEPT !.step = "complete"].step = "complete"
          /\ [run[r] EXCEPT !.step = "complete"].id = run[r].id
      BY <1>2 DEF RunRecord, Under
    <2>2. /\ RunsBut(r) /\ sender'[r] = sender[r]
          /\ run'[r].step = "complete" /\ run'[r].id = run[r].id
      BY <1>1, <1>6, <2>1, OneRunOnly
    <2>3. WorkersFor(r)'
      BY <1>4, <2>2 DEF WorkersFor, Working
    <2>4. SavedFor(r)' /\ SentFor(r)'
      BY <1>1, <1>2, <1>6, <2>2 DEF SavedFor, SentFor
    <2>5. AskedFor(r)'
      <3>1. SUFFICES ASSUME Uploader!Pending(run[r].id) PROVE uploads[run[r].id].stored = Parts
        BY <1>1, <2>2 DEF AskedFor, Uploader!Pending
      <3>2. run[r].queue = {} /\ InHand(r) = {}
        BY <1>1, <1>4 DEF Uploader!AllSent, InHand, Working
      <3>3. \A p \in Parts : p \in uploads[run[r].id].stored
        BY <1>1, <1>2, <3>1, <3>2 DEF SentFor
      <3>4. run[r].id \in 1..Len(uploads)
        BY <1>2, <3>1 DEF Uploader!Pending
      <3>5. uploads[run[r].id].stored \subseteq Parts
        BY <1>2, <3>4, RowsTyped DEF UploadRow
      <3>6. QED
        BY <3>3, <3>5
    <2>6. CareGoesOn
      BY <1>1, <1>6, <2>2, CareUnmoved
    <2>7. control \in {None, r} /\ control' \in {None, r} /\ control' = r
          /\ saved' \in 0..Len(uploads') /\ run'[r].id \in 0..Len(uploads')
      BY <1>1, <1>2, <1>6, <2>2
    <2>8. QED
      BY <1>3, <2>2, <2>3, <2>4, <2>5, <2>6, <2>7, StepOf DEF RunSound
  <1>7. QED
    BY <1>5, <1>6 DEF Uploader!Sent

LEMMA CompleteStep ==
    ASSUME UploaderInv, NEW r \in Runs, Uploader!Complete(r)
    PROVE  UploaderInv'
  <1>1. run[r].step = "complete" /\ UNCHANGED <<sender, deletes>>
    BY DEF Uploader!Complete
  <1>2. /\ uploads \in Seq(UploadRow) /\ run[r] \in RunRecord
        /\ run[r].id \in 0..Len(uploads) /\ Len(uploads) \in Nat /\ control = r
        /\ SavedFor(r) /\ WorkersFor(r) /\ saved \in 0..Len(uploads)
    BY <1>1, InvFacts DEF Under
  <1>3. ASSUME Uploader!Pending(run[r].id), uploads' = [uploads EXCEPT ![run[r].id].status = "completed"]
        PROVE  /\ RowsGoOn /\ Len(uploads') = Len(uploads)
               /\ \A u \in 1..Len(uploads) : u = run[r].id => ~ Uploader!Pending(u)'
    <2>1. PICK u \in 1..Len(uploads) : u = run[r].id
      BY <1>2, <1>3 DEF Uploader!Pending
    <2>2. uploads[u] \in UploadRow
      BY <1>2, RowsTyped
    <2> DEFINE row == [uploads[u] EXCEPT !.status = "completed"]
    <2>3. row \in UploadRow /\ row.status = "completed"
      BY <2>2 DEF UploadRow
    <2>4. uploads' = [uploads EXCEPT ![u] = row]
      BY <1>3, <2>1
    <2> HIDE DEF row
    <2>5. RowsGoOn /\ Len(uploads') = Len(uploads) /\ uploads'[u] = row
      BY <1>2, <2>3, <2>4, RowChanged
    <2>6. ~ Uploader!Pending(u)'
      BY <2>3, <2>5 DEF Uploader!Pending
    <2>7. QED
      BY <2>1, <2>5, <2>6
  <1>4. CASE /\ Uploader!Pending(run[r].id)
             /\ uploads' = [uploads EXCEPT ![run[r].id].status = "completed"]
             /\ run' = [run EXCEPT ![r] = [Uploader!Failed(r) EXCEPT !.end = "uploaded"]]
             /\ saved' = 0 /\ Uploader!Over(r, "uploaded") /\ UNCHANGED stranded
    <2>1. /\ RowsGoOn /\ Len(uploads') = Len(uploads)
          /\ \A u \in 1..Len(uploads) : u = run[r].id => ~ Uploader!Pending(u)'
      BY <1>3, <1>4
    <2>2. /\ [Uploader!Failed(r) EXCEPT !.end = "uploaded"] \in RunRecord
          /\ [Uploader!Failed(r) EXCEPT !.end = "uploaded"].step = "over"
          /\ [Uploader!Failed(r) EXCEPT !.end = "uploaded"].id = run[r].id
      BY <1>2 DEF Uploader!Failed, RunRecord
    <2>3. /\ RunsBut(r) /\ sender'[r] = sender[r]
          /\ run'[r].step = "over" /\ run'[r].id = run[r].id
      BY <1>1, <1>4, <2>2, OneRunOnly
    <2>4. RunSound(r)'
      BY <1>2, <2>3, SoundOver DEF WorkersFor
    <2>5. CareGoesOn
      <3>1. ASSUME NEW u \in 1..Len(uploads), Uploader!Pending(u)', u \notin stranded',
                   saved = u \/ u \in deletes
                   \/ (run[r].id = u /\ run[r].step \in {"created", "cancel"})
            PROVE  Cared(u)'
        <4>2. u # run[r].id /\ u # 0
          BY <2>1, <3>1
        <4>3. saved \in {0, run[r].id}
          BY <1>1, <1>2 DEF SavedFor
        <4>4. u \in deletes'
          BY <1>1, <3>1, <4>2, <4>3
        <4>5. QED
          BY <4>4 DEF Cared
      <3>2. QED
        BY <1>1, <1>4, <2>1, <2>3, <3>1, CareStays
    <2>6. control \in {None, r} /\ control' \in {None, r}
          /\ saved' \in 0..Len(uploads') /\ run'[r].id \in 0..Len(uploads')
      BY <1>1, <1>2, <1>4, <2>1, <2>3 DEF Uploader!Over
    <2>7. QED
      BY <2>1, <2>3, <2>4, <2>5, <2>6, StepOf DEF Under
  <1>5. CASE /\ \/ UNCHANGED uploads
                \/ /\ Uploader!Pending(run[r].id)
                   /\ uploads' = [uploads EXCEPT ![run[r].id].status = "completed"]
             /\ stranded \subseteq stranded'
             /\ run' = [run EXCEPT ![r] = Uploader!Failed(r)] /\ Uploader!Over(r, "failed") /\ UNCHANGED saved
    <2>1. RowsGoOn /\ Len(uploads') = Len(uploads)
      BY <1>2, <1>3, <1>5, RowsSame
    <2>2. RunsBut(r)
      BY <1>1, <1>5, FailedRun, OneRunOnly
    <2>3. CareGoesOn
      BY <1>1, <1>5, <2>1, <2>2, CareUnmoved
    <2>4. QED
      BY <1>1, <1>5, <2>1, <2>3, OverStep DEF Uploader!Over
  <1>6. QED
    BY <1>4, <1>5 DEF Uploader!Complete, Uploader!Fault, Uploader!troubles

LEMMA ReleasedStep ==
    ASSUME UploaderInv, NEW r \in Runs, Uploader!Released(r)
    PROVE  UploaderInv'
  <1> DEFINE y == [run[r] EXCEPT !.step = "over", !.end = "cancelled"]
  <1>1. /\ run[r].step = "cancel" /\ UNCHANGED <<saved, sender, deletes>> /\ control' = None
        /\ run' = [run EXCEPT ![r] = y] /\ stranded \subseteq stranded'
    BY DEF Uploader!Released, Uploader!Over, Uploader!Fault, Uploader!troubles
  <1>2. /\ uploads \in Seq(UploadRow) /\ run[r] \in RunRecord
        /\ run[r].id \in 0..Len(uploads) /\ Len(uploads) \in Nat /\ control = r
        /\ WorkersFor(r) /\ saved \in 0..Len(uploads)
    BY <1>1, InvFacts DEF Under
  <1>3. y \in RunRecord /\ y.step = "over" /\ y.id = run[r].id
    BY <1>2 DEF RunRecord
  <1> HIDE DEF y
  <1>4. RunsBut(r) /\ run'[r] = y /\ sender'[r] = sender[r]
    BY <1>1, <1>3, OneRunOnly
  <1>5. RunSound(r)'
    BY <1>2, <1>3, <1>4, SoundOver DEF WorkersFor
  <1>6. RowsGoOn /\ Len(uploads') = Len(uploads)
    BY <1>2, RowsSame, RowAborted DEF Uploader!Released
  <1>7. PICK id \in 0..Len(uploads) : id = run[r].id
    BY <1>2
  <1>8. ~ Uploader!Pending(id)' \/ id \in stranded'
    BY <1>2, <1>7, RowAborted DEF Uploader!Released, Uploader!Fault
  <1>9. CareGoesOn
    <2>1. ASSUME NEW u \in 1..Len(uploads), Uploader!Pending(u)', u \notin stranded',
                 saved = u \/ u \in deletes
                 \/ (run[r].id = u /\ run[r].step \in {"created", "cancel"})
          PROVE  Cared(u)'
      <3>1. u # id
        BY <1>8, <2>1
      <3>2. QED
        BY <1>1, <1>7, <2>1, <3>1 DEF Cared
    <2>2. QED
      BY <1>1, <1>4, <1>6, <2>1, CareStays
  <1>10. QED
    BY <1>1, <1>2, <1>3, <1>4, <1>5, <1>6, <1>9, StepOf DEF Under

LEMMA UploaderInit == Uploader!Init => UploaderInv
  <1> SUFFICES ASSUME Uploader!Init PROVE UploaderInv
    OBVIOUS
  <1>1. /\ uploads = <<>> /\ saved = 0 /\ run = [r \in Runs |-> Uploader!Fresh]
        /\ sender = [r \in Runs |-> [w \in Workers |-> Uploader!AtRest]] /\ control = None
    BY DEF Uploader!Init
  <1>2. Uploader!Fresh \in RunRecord /\ Uploader!AtRest \in WorkerRecord
    BY DEF Uploader!Fresh, Uploader!AtRest, RunRecord, WorkerRecord, Under
  <1>3. Len(uploads) = 0 /\ DOMAIN uploads = {} /\ uploads \in Seq(UploadRow)
    BY <1>1, EmptySeq
  <1>4. \A r \in Runs : run[r].step = "idle" /\ run[r].id = 0
    BY <1>1 DEF Uploader!Fresh
  <1>5. \A r \in Runs, w \in Workers : sender[r][w].step = "rest"
    BY <1>1 DEF Uploader!AtRest
  <1>6. RunTypes
    BY <1>1, <1>2, <1>4 DEF RunTypes, Under
  <1>7. RowTypes
    BY <1>1, <1>3, <1>4 DEF RowTypes
  <1>8. \A r \in Runs : RunSound(r)
    BY <1>4, <1>5 DEF RunSound, WorkersFor, SavedFor, SentFor, AskedFor, Working
  <1>9. Uploader!NothingStranded
    BY <1>3 DEF Uploader!NothingStranded
  <1>10. QED
    BY <1>6, <1>7, <1>8, <1>9 DEF UploaderInv

LEMMA UploaderKept == UploaderInv /\ Uploader!Next => UploaderInv'
  <1> SUFFICES ASSUME UploaderInv, Uploader!Next PROVE UploaderInv'
    OBVIOUS
  <1>1. DOMAIN uploads = 1..Len(uploads)
    BY InvFacts
  <1>2. CASE Uploader!Cancel \/ Uploader!Discard \/ Uploader!CloseTab
    BY <1>2, CancelStep, DiscardStep, CloseTabStep
  <1>3. ASSUME NEW u \in DOMAIN uploads, Uploader!Deleted(u) \/ Uploader!Expire(u) PROVE UploaderInv'
    BY <1>1, <1>3, DeletedStep
  <1>4. ASSUME NEW r \in Runs,
               \/ Uploader!Start(r) \/ Uploader!Open(r) \/ Uploader!Resume(r)
               \/ Uploader!Create(r) \/ Uploader!Created(r)
        PROVE  UploaderInv'
    BY <1>4, StartStep, OpenStep, ResumeStep, CreateStep, CreatedStep
  <1>5. ASSUME NEW r \in Runs, Uploader!Sent(r) \/ Uploader!Complete(r) \/ Uploader!Released(r)
        PROVE  UploaderInv'
    BY <1>5, SentStep, CompleteStep, ReleasedStep
  <1>6. ASSUME NEW r \in Runs, NEW batch \in run[r].signing, Uploader!Signed(r, batch) PROVE UploaderInv'
    BY <1>6, SignedStep
  <1>7. ASSUME NEW r \in Runs, NEW w \in Workers,
               \/ Uploader!Take(r, w) \/ Uploader!NeedUrl(r, w) \/ Uploader!HasUrl(r, w)
               \/ Uploader!PutPart(r, w) \/ Uploader!Retry(r, w) \/ Uploader!GiveUp(r, w)
        PROVE  UploaderInv'
    BY <1>7, TakeStep, NeedUrlStep, HasUrlStep, PutPartStep, RetryStep, GiveUpStep
  <1>8. QED
    BY <1>2, <1>3, <1>4, <1>5, <1>6, <1>7 DEF Uploader!Next

LEMMA UploaderSame ==
    ASSUME UploaderInv, UNCHANGED <<uploads, saved, run, sender, control, deletes, stranded>>
    PROVE  UploaderInv'
  <1>1. RowsGoOn
    BY InvFacts, RowsSame
  <1>2. CareGoesOn
    BY DEF CareGoesOn, Cared
  <1>3. QED
    BY <1>1, <1>2, StepOutside

LEMMA UploaderMeans == UploaderInv => Uploader!AskedWhole /\ Uploader!NothingStranded
  BY DEF UploaderInv, RunSound, AskedFor, Uploader!AskedWhole

\* complete is asked for only when storage has every part of the file, and what is
\* still reserved is remembered or being deleted, unless a request failed with it
\* (direct-upload.ts), for any file, any number of workers, runs and failures.
THEOREM UploadsHold == PartsSpec => []UploaderSound
  <1> DEFINE Inv == about = "uploads" => UploaderInv
  <1>1. PartsInit => Inv
    BY UploaderInit DEF PartsInit
  <1>2. Inv /\ [PartsNext]_<<about, vars, state>> => Inv'
    <2> SUFFICES ASSUME Inv, [PartsNext]_<<about, vars, state>>, about' = "uploads"
                 PROVE  UploaderInv'
      OBVIOUS
    <2>1. about = "uploads" /\ UploaderInv
      BY DEF PartsNext
    <2>2. CASE Uploader!Next
      BY <2>1, <2>2, UploaderKept
    <2>3. CASE UNCHANGED state
      BY <2>1, <2>3, UploaderSame DEF state
    <2>4. QED
      BY <2>1, <2>2, <2>3 DEF PartsNext
  <1>3. Inv => UploaderSound
    BY UploaderMeans DEF UploaderSound
  <1> HIDE DEF Inv
  <1>4. QED
    BY <1>1, <1>2, <1>3, PTL DEF PartsSpec

-----------------------------------------------------------------------------
(***************************************************************************)
(* The documents page, under names of its own for the variables it has in  *)
(* MCBrowser; others and troubles are its variables changes and faults.    *)
(***************************************************************************)

place == s1
deletedAt == s2
scanning == s3
view == s4
shown == s5
page == s6
selected == s7
left == s8
requests == s9
handlers == s10
mixed == s11
clock == s12
others == s13
troubles == s14

USE DEF place, deletedAt, scanning, view, shown, page, selected, left, requests, handlers, mixed,
        clock, others, troubles

LEMMA SameNumber == \A S : Page!Cardinality(S) = Cardinality(S)
  BY DEF Page!Cardinality, Cardinality

LEMMA LeastExists ==
    ASSUME NEW T \in SUBSET Nat, T # {}
    PROVE  \E m \in T : \A k \in T : m <= k
  <1>1. PICK m \in T : \A k \in T : ~ (<<k, m>> \in LessThan)
    BY LessThanWellFounded, WFMin
  <1>2. \A k \in T : ~ (k < m)
    BY <1>1 DEF LessThan
  <1>3. QED
    BY <1>2

\* The order of the list: each document once, the newest first.
LEMMA FirstSorts ==
    ASSUME NEW S, IsFiniteSet(S), NEW time, \A d \in S : time[d] \in Nat,
           \A d, e \in S : time[d] = time[e] => d = e
    PROVE  /\ Page!NewestFirst(S, time) \in [1..Page!Cardinality(S) -> S]
           /\ \A d \in S : \E i \in 1..Page!Cardinality(S) : Page!NewestFirst(S, time)[i] = d
           /\ \A i, j \in 1..Page!Cardinality(S) :
                  i < j => time[Page!NewestFirst(S, time)[i]] > time[Page!NewestFirst(S, time)[j]]
  <1> DEFINE n == Page!Cardinality(S)
             Above(d) == {e \in S : time[e] > time[d]}
             rank == [d \in S |-> Page!Cardinality(Above(d))]
  <1>1. n \in Nat
    BY SameNumber, FS_CardinalityType
  <1>2. \A d \in S : /\ IsFiniteSet(Above(d)) /\ Page!Cardinality(Above(d)) \in Nat
                     /\ Page!Cardinality(Above(d)) < n
    <2> SUFFICES ASSUME NEW d \in S
                 PROVE  /\ IsFiniteSet(Above(d)) /\ Page!Cardinality(Above(d)) \in Nat
                        /\ Page!Cardinality(Above(d)) < n
      OBVIOUS
    <2>1. Above(d) \in SUBSET S /\ Above(d) # S
      <3>1. d \notin Above(d)
        OBVIOUS
      <3>2. QED
        BY <3>1
    <2>2. IsFiniteSet(Above(d)) /\ Page!Cardinality(Above(d)) <= n /\ Page!Cardinality(Above(d)) # n
      BY <2>1, SameNumber, FS_Subset
    <2>3. Page!Cardinality(Above(d)) \in Nat
      BY <2>2, SameNumber, FS_CardinalityType
    <2>4. QED
      BY <1>1, <2>2, <2>3
  <1>3. \A d, e \in S : time[d] < time[e] => Page!Cardinality(Above(e)) < Page!Cardinality(Above(d))
    <2> SUFFICES ASSUME NEW d \in S, NEW e \in S, time[d] < time[e]
                 PROVE  Page!Cardinality(Above(e)) < Page!Cardinality(Above(d))
      OBVIOUS
    <2>1. Above(e) \in SUBSET Above(d) /\ Above(e) # Above(d)
      <3>1. e \in Above(d) /\ e \notin Above(e)
        OBVIOUS
      <3>2. \A c \in Above(e) : c \in Above(d)
        OBVIOUS
      <3>3. QED
        BY <3>1, <3>2
    <2>2. /\ Page!Cardinality(Above(e)) <= Page!Cardinality(Above(d))
          /\ Page!Cardinality(Above(d)) # Page!Cardinality(Above(e))
      BY <1>2, <2>1, SameNumber, FS_Subset
    <2>3. Page!Cardinality(Above(d)) \in Nat /\ Page!Cardinality(Above(e)) \in Nat
      BY <1>2
    <2>4. QED
      BY <2>2, <2>3
  <1> HIDE DEF Above
  <1>4. rank \in Injection(S, 0..(n-1))
    <2>1. rank \in [S -> 0..(n-1)]
      BY <1>1, <1>2
    <2>2. ASSUME NEW d \in S, NEW e \in S, rank[d] = rank[e] PROVE d = e
      <3>1. Page!Cardinality(Above(d)) = Page!Cardinality(Above(e))
        BY <2>2
      <3>2. time[d] < time[e] \/ time[e] < time[d] \/ time[d] = time[e]
        OBVIOUS
      <3>3. QED
        BY <1>2, <1>3, <3>1, <3>2
    <2>3. QED
      BY <2>1, <2>2 DEF Injection, IsInjective, Page!IsInjective
  <1>5. IsFiniteSet(0..(n-1)) /\ Cardinality(0..(n-1)) = n
    <2>1. 0 \in Int /\ n - 1 \in Int
      BY <1>1
    <2>2. IsFiniteSet(0..(n-1)) /\ Cardinality(0..(n-1)) = IF 0 > n - 1 THEN 0 ELSE n - 1 - 0 + 1
      BY <2>1, SameNumber, FS_Interval
    <2> HIDE DEF n
    <2>3. QED
      BY <1>1, <2>2
  <1>6. rank \in Surjection(S, 0..(n-1))
    BY <1>4, <1>5, SameNumber, FS_Injection
  <1>7. \A i \in 1..n : \E d \in S : Page!Cardinality(Above(d)) = i - 1
    <2> SUFFICES ASSUME NEW i \in 1..n PROVE \E d \in S : Page!Cardinality(Above(d)) = i - 1
      OBVIOUS
    <2>1. i - 1 \in 0..(n-1)
      BY <1>1
    <2>2. \E d \in S : rank[d] = i - 1
      BY <1>6, <2>1 DEF Surjection
    <2>3. QED
      BY <2>2
  <1> DEFINE all == Page!NewestFirst(S, time)
  <1>8. all = [i \in 1..n |-> CHOOSE d \in S : Page!Cardinality(Above(d)) = i - 1]
    BY DEF Page!NewestFirst, Above
  <1> HIDE DEF all, n
  <1>9. \A i \in 1..n : all[i] \in S /\ Page!Cardinality(Above(all[i])) = i - 1
    BY <1>7, <1>8
  <1>10. all \in [1..n -> S]
    BY <1>8, <1>9
  <1>11. ASSUME NEW d \in S PROVE \E i \in 1..n : all[i] = d
    <2> DEFINE i == Page!Cardinality(Above(d)) + 1
    <2>1. i \in 1..n /\ i - 1 = Page!Cardinality(Above(d))
      BY <1>1, <1>2
    <2>2. Page!Cardinality(Above(all[i])) = Page!Cardinality(Above(d)) /\ all[i] \in S
      BY <1>9, <2>1
    <2>3. rank[all[i]] = rank[d]
      BY <2>2
    <2>4. all[i] = d
      BY <1>4, <2>2, <2>3 DEF Injection, IsInjective, Page!IsInjective
    <2>5. QED
      BY <2>1, <2>4
  <1>12. ASSUME NEW i \in 1..n, NEW j \in 1..n, i < j PROVE time[all[i]] > time[all[j]]
    <2>1. /\ all[i] \in S /\ all[j] \in S
          /\ Page!Cardinality(Above(all[i])) = i - 1 /\ Page!Cardinality(Above(all[j])) = j - 1
      BY <1>9
    <2>2. i \in Nat /\ j \in Nat /\ ~ j - 1 < i - 1 /\ i - 1 # j - 1
      BY <1>1, <1>12
    <2>3. time[all[i]] \in Nat /\ time[all[j]] \in Nat
      BY <2>1
    <2>4. ~ time[all[i]] < time[all[j]]
      BY <1>3, <2>1, <2>2
    <2>5. time[all[i]] # time[all[j]]
      BY <2>1, <2>2
    <2>6. QED
      BY <2>3, <2>4, <2>5
  <1>13. QED
    BY <1>10, <1>11, <1>12 DEF all, n

Places == {"absent", "here", "elsewhere", "trash", "gone"}

\* What is in the trash was put there at moments of their own.
StoreOK ==
    /\ place \in [Docs -> Places] /\ deletedAt \in [Docs -> Nat] /\ clock \in Nat
    /\ scanning \in SUBSET Docs
    /\ \A d \in Docs : place[d] = "trash" => deletedAt[d] \in 1..clock
    /\ \A d, e \in Docs :
           place[d] = "trash" /\ place[e] = "trash" /\ deletedAt[d] = deletedAt[e] => d = e

LEMMA KeyFacts ==
    ASSUME StoreOK, NEW v \in Page!Views
    PROVE  /\ \A d \in Docs : /\ Page!Key(v, d) \in Nat
                              /\ place[d] = v => /\ Page!Key(v, d) >= 1
                                                 /\ v = "trash" => Page!Key(v, d) <= clock
           /\ \A d, e \in Docs :
                  place[d] = v /\ place[e] = v /\ Page!Key(v, d) = Page!Key(v, e) => d = e
  BY PageAssumption DEF StoreOK, Page!Key, Page!Views

\* What list returns: the rows of a query after a cursor, up to the next one.
Listed(lines, v, after, next) ==
    /\ lines \in Seq(Docs) /\ next \in Nat /\ Page!IsInjective(lines)
    /\ \A d \in Docs : d \in Page!ToSet(lines) <=> /\ place[d] = v
                                                   /\ after = 0 \/ Page!Key(v, d) < after
                                                   /\ next = 0 \/ Page!Key(v, d) >= next
    /\ next # 0 => /\ after = 0 \/ next < after
                   /\ v = "trash" => next <= clock

LEMMA ListFacts ==
    ASSUME StoreOK, NEW v \in Page!Views, NEW after \in Nat
    PROVE  /\ Listed(Page!List(v, after).rows, v, after, Page!List(v, after).next)
           /\ Page!List(v, after).pending \in SUBSET Docs
  <1> DEFINE M == Page!Matching(v, after)
             n == Page!Cardinality(M)
             time == [d \in Docs |-> Page!Key(v, d)]
             all == Page!Sorted(v, after)
             m == IF Len(all) < PageSize THEN Len(all) ELSE PageSize
             cut == SubSeq(all, 1, m)
             next == Page!NextCursor(v, all)
  <1>1. /\ M \in SUBSET Docs /\ IsFiniteSet(M) /\ n \in Nat
        /\ \A d \in Docs : d \in M <=> place[d] = v /\ (after = 0 \/ Page!Key(v, d) < after)
    BY PageAssumption, SameNumber, FS_Subset, FS_CardinalityType DEF Page!Matching
  <1>2. \A d \in M : time[d] = Page!Key(v, d) /\ time[d] \in Nat
    BY <1>1, KeyFacts
  <1>3. \A d, e \in M : time[d] = time[e] => d = e
    BY <1>1, <1>2, KeyFacts
  <1>4. all = Page!NewestFirst(M, time)
    BY DEF Page!Sorted
  <1> HIDE DEF M, time, all
  <1>5. /\ all \in [1..n -> M] /\ \A d \in M : \E i \in 1..n : all[i] = d
        /\ \A i, j \in 1..n : i < j => time[all[i]] > time[all[j]]
    BY <1>1, <1>2, <1>3, <1>4, FirstSorts
  <1> HIDE DEF n
  <1>6. \A i, j \in 1..n : i < j => Page!Key(v, all[i]) > Page!Key(v, all[j])
    BY <1>2, <1>5
  <1>7. all \in Seq(M) /\ Len(all) = n
    BY <1>1, <1>5, LenProperties DEF Seq
  <1>8. m \in 0..n /\ m = (IF n < PageSize THEN n ELSE PageSize)
    BY <1>1, <1>7, PageAssumption
  <1> HIDE DEF m
  <1>9. /\ cut \in Seq(M) /\ Len(cut) = m /\ \A i \in 1..m : cut[i] = all[i]
    <2>1. 1 \in Int /\ m \in Int /\ \A i \in 1..m : all[i] \in M
      BY <1>1, <1>5, <1>8
    <2>2. /\ cut \in Seq(M) /\ Len(cut) = IF 1 <= m THEN m - 1 + 1 ELSE 0
          /\ \A i \in 1..m - 1 + 1 : cut[i] = all[1 + i - 1]
      BY <2>1, SubSeqProperties
    <2> HIDE DEF cut
    <2>3. m \in Nat
      BY <1>1, <1>8
    <2>4. Len(cut) = m
      BY <2>2, <2>3
    <2>5. m - 1 + 1 = m /\ \A i \in 1..m : 1 + i - 1 = i
      BY <2>3
    <2>6. QED
      BY <2>2, <2>4, <2>5
  <1> HIDE DEF cut
  <1>10. cut \in Seq(Docs) /\ DOMAIN cut = 1..m
    BY <1>1, <1>9, SeqMonotonic, LenProperties
  <1>11. Page!IsInjective(cut)
    <2> SUFFICES ASSUME NEW i \in 1..m, NEW j \in 1..m, cut[i] = cut[j] PROVE i = j
      BY <1>10 DEF Page!IsInjective
    <2>1. i \in 1..n /\ j \in 1..n /\ i \in Nat /\ j \in Nat /\ all[i] = all[j]
      BY <1>1, <1>8, <1>9
    <2>2. all[i] \in Docs /\ Page!Key(v, all[i]) \in Nat
      BY <1>1, <1>5, <2>1, KeyFacts
    <2>3. ~ i < j /\ ~ j < i
      BY <1>6, <2>1, <2>2
    <2>4. QED
      BY <2>1, <2>3
  <1>12. \A d \in Docs : d \in Page!ToSet(cut) <=> \E i \in 1..m : all[i] = d
    BY <1>9, <1>10 DEF Page!ToSet
  <1>13. \A i \in 1..m : i \in 1..n /\ all[i] \in M
    BY <1>1, <1>5, <1>8
  <1>14. Listed(cut, v, after, next)
    <2>1. CASE n > PageSize
      <3>1. m = PageSize /\ m \in 1..n /\ next = Page!Key(v, all[m])
        BY <1>1, <1>7, <1>8, <2>1, PageAssumption DEF Page!NextCursor
      <3> HIDE DEF next
      <3>2. /\ all[m] \in M /\ next \in Nat /\ next >= 1
            /\ after = 0 \/ next < after
            /\ v = "trash" => next <= clock
        BY <1>1, <1>5, <3>1, KeyFacts
      <3>3. ASSUME NEW d \in Docs
            PROVE  (\E i \in 1..m : all[i] = d) <=> d \in M /\ Page!Key(v, d) >= next
        <4>1. ASSUME NEW i \in 1..m, all[i] = d PROVE d \in M /\ Page!Key(v, d) >= next
          <5>1. d \in M /\ Page!Key(v, d) \in Nat
            BY <1>13, <4>1, KeyFacts
          <5>2. i = m \/ i < m
            BY <1>8, <4>1
          <5>3. i < m => Page!Key(v, all[i]) > Page!Key(v, all[m])
            BY <1>6, <1>13, <3>1
          <5>4. QED
            BY <3>1, <3>2, <4>1, <5>1, <5>2, <5>3
        <4>2. ASSUME d \in M, Page!Key(v, d) >= next PROVE \E i \in 1..m : all[i] = d
          <5>1. PICK j \in 1..n : all[j] = d
            BY <1>5, <4>2
          <5>2. ~ m < j
            BY <1>6, <3>1, <3>2, <4>2, <5>1, KeyFacts
          <5>3. j \in 1..m
            BY <1>1, <1>8, <5>1, <5>2
          <5>4. QED
            BY <5>1, <5>3
        <4>3. QED
          BY <4>1, <4>2
      <3>4. next # 0
        BY <3>2
      <3>5. QED
        BY <1>1, <1>10, <1>11, <1>12, <3>2, <3>3, <3>4 DEF Listed
    <2>2. CASE ~ n > PageSize
      <3>1. m = n /\ next = 0
        BY <1>1, <1>7, <1>8, <2>2, PageAssumption DEF Page!NextCursor
      <3> HIDE DEF next
      <3>2. \A d \in Docs : d \in Page!ToSet(cut) <=> d \in M
        BY <1>5, <1>12, <1>13, <3>1
      <3>3. QED
        BY <1>1, <1>10, <1>11, <3>1, <3>2 DEF Listed
    <2>3. QED
      BY <2>1, <2>2
  <1>15. /\ Page!List(v, after).rows = cut /\ Page!List(v, after).next = next
         /\ Page!List(v, after).pending = Page!ToSet(cut) \cap scanning
    BY DEF Page!List, cut, m, all
  <1> HIDE DEF next
  <1>16. QED
    BY <1>14, <1>15 DEF StoreOK

\* Documents S are changed: what goes to the trash gets a moment of its own, later than all before.
Changed(S) ==
    /\ place' \in [Docs -> Places] /\ deletedAt' \in [Docs -> Nat] /\ clock' \in Nat
    /\ scanning' \in SUBSET Docs
    /\ clock <= clock'
    /\ \A d \in Docs \ S : place'[d] = place[d] /\ deletedAt'[d] = deletedAt[d]
    /\ \A d \in S : place'[d] = "trash" => deletedAt'[d] \in (clock + 1)..clock'
    /\ \A d, e \in S :
           place'[d] = "trash" /\ place'[e] = "trash" /\ deletedAt'[d] = deletedAt'[e] => d = e

LEMMA ChangeChanges ==
    ASSUME StoreOK, NEW action, NEW S \in SUBSET Docs, Page!Change(action, S)
    PROVE  Changed(S)
  <1> DEFINE order == Page!SetToSeq(S)
             n == Page!Cardinality(S)
             at(d) == CHOOSE i \in 1..Len(order) : order[i] = d
  <1>1. IsFiniteSet(S) /\ n \in Nat
    BY PageAssumption, SameNumber, FS_Subset, FS_CardinalityType
  <1>2. order \in [1..n -> S] /\ Page!IsInjective(order)
    <2>1. PICK f \in [1..n -> S] : Page!IsInjective(f)
      BY <1>1, SameNumber, FS_CardinalityType
         DEF ExistsBijection, Bijection, Injection, IsInjective, Page!IsInjective
    <2>2. QED
      BY <2>1 DEF Page!SetToSeq
  <1> HIDE DEF order
  <1>3. order \in Surjection(1..n, S)
    <2>1. order \in Injection(1..n, S)
      BY <1>2 DEF Injection, IsInjective, Page!IsInjective
    <2>2. Cardinality(1..n) = n
      <3>1. 1 \in Int /\ n \in Int
        BY <1>1
      <3> HIDE DEF n
      <3>2. Cardinality(1..n) = IF 1 > n THEN 0 ELSE n - 1 + 1
        BY <3>1, SameNumber, FS_Interval
      <3>3. QED
        BY <1>1, <3>2
    <2>3. QED
      BY <1>1, <2>1, <2>2, SameNumber, FS_Injection
  <1> HIDE DEF n
  <1>4. Len(order) = n
    BY <1>1, <1>2, LenProperties DEF Seq
  <1>5. \A d \in S : at(d) \in 1..n /\ order[at(d)] = d
    BY <1>3, <1>4 DEF Surjection
  <1>6. \A d, e \in S : at(d) = at(e) => d = e
    BY <1>5
  <1>7. /\ place' = [d \in Docs |-> IF d \in S THEN Page!After(action) ELSE place[d]]
        /\ deletedAt' = [d \in Docs |-> IF d \notin S THEN deletedAt[d]
                                        ELSE IF action = "trash" THEN clock + at(d) ELSE 0]
        /\ clock' = IF action = "trash" THEN clock + n ELSE clock
        /\ scanning' = IF action = "upload" THEN scanning \cup (S \cap Scanned) ELSE scanning
    BY DEF Page!Change, order, n
  <1> HIDE DEF at
  <1>8. Page!After(action) \in Places /\ (Page!After(action) = "trash" => action = "trash")
    BY DEF Page!After, Places
  <1>9. clock' \in Nat /\ clock <= clock' /\ scanning' \in SUBSET Docs
    BY <1>1, <1>7 DEF StoreOK
  <1>10. place' \in [Docs -> Places] /\ deletedAt' \in [Docs -> Nat]
    BY <1>1, <1>5, <1>7, <1>8 DEF StoreOK
  <1>11. \A d \in Docs \ S : place'[d] = place[d] /\ deletedAt'[d] = deletedAt[d]
    BY <1>7
  <1>12. \A d \in S : /\ place'[d] = Page!After(action)
                      /\ action = "trash" => deletedAt'[d] = clock + at(d)
    BY <1>7
  <1>13. ASSUME NEW d \in S, place'[d] = "trash" PROVE deletedAt'[d] \in (clock + 1)..clock'
    <2>1. action = "trash" /\ deletedAt'[d] = clock + at(d) /\ clock' = clock + n
      BY <1>7, <1>8, <1>12, <1>13
    <2>2. at(d) \in 1..n /\ clock \in Nat
      BY <1>5 DEF StoreOK
    <2>3. QED
      BY <1>1, <2>1, <2>2
  <1>14. ASSUME NEW d \in S, NEW e \in S, place'[d] = "trash", deletedAt'[d] = deletedAt'[e]
         PROVE  d = e
    <2>1. deletedAt'[d] = clock + at(d) /\ deletedAt'[e] = clock + at(e)
      BY <1>8, <1>12, <1>14
    <2>2. at(d) \in Nat /\ at(e) \in Nat /\ clock \in Nat
      BY <1>1, <1>5 DEF StoreOK
    <2>3. clock + at(d) = clock + at(e)
      BY <1>14, <2>1
    <2>4. at(d) = at(e)
      BY <2>2, <2>3
    <2>5. QED
      BY <1>6, <2>4
  <1>15. QED
    BY <1>9, <1>10, <1>11, <1>13, <1>14 DEF Changed

LEMMA StoreKept ==
    ASSUME StoreOK, NEW S \in SUBSET Docs, Changed(S)
    PROVE  StoreOK'
  <1>1. /\ place' \in [Docs -> Places] /\ deletedAt' \in [Docs -> Nat] /\ clock' \in Nat
        /\ scanning' \in SUBSET Docs /\ clock \in Nat /\ clock <= clock'
    BY DEF Changed, StoreOK
  <1>2. ASSUME NEW d \in Docs, place'[d] = "trash"
        PROVE  /\ deletedAt'[d] \in 1..clock'
               /\ d \notin S => /\ place[d] = "trash" /\ deletedAt'[d] = deletedAt[d]
                               /\ deletedAt'[d] <= clock
               /\ d \in S => deletedAt'[d] > clock
    <2>1. CASE d \in S
      BY <1>1, <1>2, <2>1 DEF Changed
    <2>2. CASE d \notin S
      <3>1. place[d] = "trash" /\ deletedAt'[d] = deletedAt[d]
        BY <1>2, <2>2 DEF Changed
      <3>2. deletedAt[d] \in 1..clock
        BY <3>1 DEF StoreOK
      <3>3. QED
        BY <1>1, <2>2, <3>1, <3>2
    <2>3. QED
      BY <2>1, <2>2
  <1>3. ASSUME NEW d \in Docs, NEW e \in Docs, place'[d] = "trash", place'[e] = "trash",
               deletedAt'[d] = deletedAt'[e]
        PROVE  d = e
    <2>1. deletedAt'[d] \in Nat /\ clock \in Nat
      BY <1>1
    <2>2. d \in S <=> e \in S
      BY <1>2, <1>3, <2>1
    <2>3. CASE d \in S
      BY <1>3, <2>2, <2>3 DEF Changed
    <2>4. CASE d \notin S
      BY <1>2, <1>3, <2>2, <2>4 DEF StoreOK
    <2>5. QED
      BY <2>3, <2>4
  <1>4. QED
    BY <1>1, <1>2, <1>3 DEF StoreOK

\* What was read of a query after a cursor and up to the next, of documents that have not changed
\* since.  Whatever was read stays on its side of the next cursor while it belongs to the query.
Read(lines, v, after, next, changed) ==
    /\ lines \in Seq(Docs) /\ next \in Nat /\ Page!IsInjective(lines)
    /\ \A d \in Docs \ changed : d \in Page!ToSet(lines) <=> /\ place[d] = v
                                                             /\ after = 0 \/ Page!Key(v, d) < after
                                                             /\ next = 0 \/ Page!Key(v, d) >= next
    /\ \A d \in Page!ToSet(lines) : v = "here" \/ place[d] = v => next = 0 \/ Page!Key(v, d) >= next
    /\ next # 0 => /\ after = 0 \/ next < after
                   /\ v = "trash" => next <= clock

LEMMA ListedRead ==
    ASSUME NEW lines, NEW v, NEW after, NEW next, NEW changed, Listed(lines, v, after, next)
    PROVE  Read(lines, v, after, next, changed)
  <1>1. \A d \in Page!ToSet(lines) : d \in Docs
    <2>1. lines \in Seq(Docs)
      BY DEF Listed
    <2>2. QED
      BY <2>1, LenProperties, ElementOfSeq DEF Page!ToSet
  <1>2. QED
    BY <1>1 DEF Listed, Read

LEMMA ReadKept ==
    ASSUME StoreOK, NEW S \in SUBSET Docs, Changed(S), NEW v \in Page!Views, NEW lines, NEW after,
           NEW next, NEW changed, Read(lines, v, after, next, changed)
    PROVE  Read(lines, v, after, next, changed \cup S)'
  <1>1. lines \in Seq(Docs) /\ next \in Nat /\ Page!IsInjective(lines)
    BY DEF Read
  <1>2. \A d \in Page!ToSet(lines) : d \in Docs
    BY <1>1, LenProperties, ElementOfSeq DEF Page!ToSet
  <1>3. \A d \in Docs \ S : place'[d] = place[d] /\ Page!Key(v, d)' = Page!Key(v, d)
    BY DEF Changed, Page!Key
  <1>4. clock \in Nat /\ clock' \in Nat /\ clock <= clock'
    BY DEF Changed, StoreOK
  <1>5. \A d \in Docs \ (changed \cup S) :
            d \in Page!ToSet(lines) <=> /\ place'[d] = v
                                        /\ after = 0 \/ Page!Key(v, d)' < after
                                        /\ next = 0 \/ Page!Key(v, d)' >= next
    BY <1>3 DEF Read
  <1>6. ASSUME NEW d \in Page!ToSet(lines), v = "here" \/ place'[d] = v, next # 0
        PROVE  Page!Key(v, d)' >= next
    <2>1. CASE d \notin S
      BY <1>2, <1>3, <1>6, <2>1 DEF Read
    <2>2. CASE d \in S /\ v = "here"
      BY <1>6, <2>2 DEF Read, Page!Key
    <2>3. CASE d \in S /\ v # "here"
      <3>1. v = "trash" /\ Page!Key(v, d)' = deletedAt'[d]
        BY <2>3 DEF Page!Views, Page!Key
      <3>2. deletedAt'[d] \in (clock + 1)..clock' /\ next <= clock
        BY <1>6, <2>3, <3>1 DEF Read, Changed
      <3>3. QED
        BY <1>1, <1>4, <3>1, <3>2
    <2>4. QED
      BY <2>1, <2>2, <2>3
  <1>7. next # 0 => (after = 0 \/ next < after) /\ (v = "trash" => next <= clock')
    BY <1>1, <1>4 DEF Read
  <1>8. QED
    BY <1>1, <1>5, <1>6, <1>7 DEF Read

LEMMA ReadSame ==
    ASSUME UNCHANGED <<place, deletedAt, clock>>,
           NEW v, NEW lines, NEW after, NEW next, NEW changed,
           Read(lines, v, after, next, changed)
    PROVE  Read(lines, v, after, next, changed)'
  BY DEF Read, Page!Key

\* The next page goes on where the one before ended.
LEMMA ReadOn ==
    ASSUME StoreOK, NEW v \in Page!Views,
           NEW lines, NEW more, NEW cursor, NEW next, NEW changed, NEW since,
           cursor # 0, Read(lines, v, 0, cursor, changed), Read(more, v, cursor, next, since),
           since \subseteq changed, \A d \in Page!ToSet(more) : d \notin Page!ToSet(lines)
    PROVE  Read(lines \o more, v, 0, next, changed)
  <1> DEFINE all == lines \o more
             m == Len(lines)
             n == Len(more)
  <1>1. /\ lines \in Seq(Docs) /\ more \in Seq(Docs) /\ cursor \in Nat /\ next \in Nat
        /\ Page!IsInjective(lines) /\ Page!IsInjective(more) /\ (next # 0 => next < cursor)
    BY DEF Read
  <1>2. m \in Nat /\ n \in Nat /\ DOMAIN lines = 1..m /\ DOMAIN more = 1..n
    BY <1>1, LenProperties
  <1>3. /\ all \in Seq(Docs) /\ Len(all) = m + n
        /\ \A i \in 1..m + n : all[i] = IF i <= m THEN lines[i] ELSE more[i - m]
    BY <1>1, ConcatProperties
  <1> HIDE DEF all, m, n
  <1>4. DOMAIN all = 1..m + n
    BY <1>3, LenProperties
  <1>5. \A i \in 1..m + n : \/ i \in 1..m /\ all[i] = lines[i]
                            \/ i - m \in 1..n /\ ~ i \in 1..m /\ all[i] = more[i - m]
    BY <1>2, <1>3
  <1>6. \A d \in Docs : d \in Page!ToSet(all) <=> d \in Page!ToSet(lines) \/ d \in Page!ToSet(more)
    <2> SUFFICES ASSUME NEW d \in Docs
                 PROVE  d \in Page!ToSet(all) <=> d \in Page!ToSet(lines) \/ d \in Page!ToSet(more)
      OBVIOUS
    <2>1. ASSUME d \in Page!ToSet(all) PROVE d \in Page!ToSet(lines) \/ d \in Page!ToSet(more)
      BY <1>2, <1>4, <1>5, <2>1 DEF Page!ToSet
    <2>2. ASSUME NEW i \in 1..m PROVE lines[i] \in Page!ToSet(all)
      <3>1. i \in 1..m + n /\ all[i] = lines[i]
        BY <1>2, <1>3
      <3>2. QED
        BY <1>4, <3>1 DEF Page!ToSet
    <2>3. ASSUME NEW i \in 1..n PROVE more[i] \in Page!ToSet(all)
      <3> DEFINE k == m + i
      <3>1. k \in 1..m + n /\ ~ k <= m /\ k - m = i
        BY <1>2
      <3> HIDE DEF k
      <3>2. all[k] = more[i]
        BY <1>3, <3>1
      <3>3. QED
        BY <1>4, <3>1, <3>2 DEF Page!ToSet
    <2>4. QED
      BY <1>2, <2>1, <2>2, <2>3 DEF Page!ToSet
  <1>7. Page!IsInjective(all)
    <2> SUFFICES ASSUME NEW i \in 1..m + n, NEW j \in 1..m + n, all[i] = all[j] PROVE i = j
      BY <1>4 DEF Page!IsInjective
    <2>1. CASE i \in 1..m /\ j \in 1..m
      BY <1>1, <1>2, <1>5, <2>1 DEF Page!IsInjective
    <2>2. CASE ~ i \in 1..m /\ ~ j \in 1..m
      <3>1. i - m \in 1..n /\ j - m \in 1..n /\ more[i - m] = more[j - m]
        BY <1>5, <2>2
      <3>2. i - m = j - m
        BY <1>1, <1>2, <3>1 DEF Page!IsInjective
      <3>3. QED
        BY <1>2, <3>2
    <2>3. CASE i \in 1..m /\ ~ j \in 1..m
      BY <1>2, <1>5, <2>3 DEF Page!ToSet
    <2>4. CASE ~ i \in 1..m /\ j \in 1..m
      BY <1>2, <1>5, <2>4 DEF Page!ToSet
    <2>5. QED
      BY <2>1, <2>2, <2>3, <2>4
  <1>8. \A d \in Docs : Page!Key(v, d) \in Nat
    BY KeyFacts
  <1>9. \A d \in Docs \ changed : d \in Page!ToSet(all) <=> /\ place[d] = v
                                                            /\ next = 0 \/ Page!Key(v, d) >= next
    <2> SUFFICES ASSUME NEW d \in Docs, d \notin changed
                 PROVE  d \in Page!ToSet(all) <=>
                            place[d] = v /\ (next = 0 \/ Page!Key(v, d) >= next)
      OBVIOUS
    <2>1. d \in Page!ToSet(lines) <=> place[d] = v /\ Page!Key(v, d) >= cursor
      BY DEF Read
    <2>2. d \in Page!ToSet(more) <=> /\ place[d] = v /\ Page!Key(v, d) < cursor
                                     /\ next = 0 \/ Page!Key(v, d) >= next
      BY DEF Read
    <2>3. QED
      BY <1>1, <1>6, <1>8, <2>1, <2>2
  <1>10. \A d \in Page!ToSet(all) : d \in Docs
    BY <1>3, <1>4, ElementOfSeq DEF Page!ToSet
  <1>11. ASSUME NEW d \in Page!ToSet(all), v = "here" \/ place[d] = v, next # 0
         PROVE  Page!Key(v, d) >= next
    <2>1. CASE d \in Page!ToSet(lines)
      <3>1. Page!Key(v, d) >= cursor
        BY <1>11, <2>1 DEF Read
      <3>2. QED
        BY <1>1, <1>8, <1>10, <1>11, <3>1
    <2>2. CASE d \in Page!ToSet(more)
      BY <1>11, <2>2 DEF Read
    <2>3. QED
      BY <1>6, <1>10, <2>1, <2>2
  <1>12. next # 0 => (v = "trash" => next <= clock)
    BY DEF Read
  <1>13. QED
    BY <1>1, <1>3, <1>7, <1>9, <1>11, <1>12 DEF Read, all

\* Rows that are taken off the screen leave the others as they were.
LEMMA WithoutFacts ==
    ASSUME NEW lines \in Seq(Docs), NEW ids
    PROVE  /\ Page!Without(lines, ids) \in Seq(Docs)
           /\ Page!ToSet(Page!Without(lines, ids)) = Page!ToSet(lines) \ ids
           /\ Page!IsInjective(lines) => Page!IsInjective(Page!Without(lines, ids))
  <1> DEFINE last == Len(lines)
             Kept(f, end) == f = [n \in 0..end |->
                                     IF n = 0 THEN <<>>
                                     ELSE IF lines[n] \in ids THEN f[n - 1]
                                     ELSE Append(f[n - 1], lines[n])]
             kept == CHOOSE f : Kept(f, last)
             Good(n) == /\ kept[n] \in Seq(Docs)
                        /\ Page!IsInjective(lines) => Page!IsInjective(kept[n])
                        /\ Page!ToSet(kept[n]) = {lines[i] : i \in 1..n} \ ids
  <1>1. /\ last \in Nat /\ DOMAIN lines = 1..last /\ \A n \in 1..last : lines[n] \in Docs
        /\ Page!IsInjective(lines) => \A i, j \in 1..last : lines[i] = lines[j] => i = j
    BY LenProperties, ElementOfSeq DEF Page!IsInjective
  <1>2. Page!Without(lines, ids) = kept[last]
    BY DEF Page!Without
  <1> HIDE DEF last
  <1>3. \A end \in Nat : \E f : Kept(f, end)
    <2> DEFINE T == {n \in Nat : ~ \E f : Kept(f, n)}
    <2>1. SUFFICES ASSUME T # {} PROVE FALSE
      OBVIOUS
    <2>2. PICK m \in T : \A k \in T : m <= k
      BY <2>1, LeastExists
    <2>3. CASE m = 0
      <3> DEFINE f == [n \in 0..0 |-> <<>>]
      <3>1. \A n \in 0..0 : n = 0
        OBVIOUS
      <3>2. Kept(f, 0)
        BY <3>1
      <3>3. QED
        BY <2>2, <2>3, <3>2
    <2>4. CASE m # 0
      <3>1. m \in Nat /\ m - 1 \in Nat /\ ~ m <= m - 1
        BY <2>2, <2>4
      <3>2. m - 1 \notin T
        BY <2>2, <3>1
      <3>3. PICK f : Kept(f, m - 1)
        BY <3>1, <3>2
      <3> DEFINE Turn(h, n) == IF lines[n] \in ids THEN h[n - 1] ELSE Append(h[n - 1], lines[n])
                 g == [n \in 0..m |-> IF n = m THEN Turn(f, m) ELSE f[n]]
      <3>4. \A n \in 0..m : n # m => n \in 0..(m - 1) /\ f[n] = IF n = 0 THEN <<>> ELSE Turn(f, n)
        <4>1. \A n \in 0..m : n # m => n \in 0..(m - 1)
          BY <3>1
        <4>2. \A n \in 0..(m - 1) : f[n] = IF n = 0 THEN <<>> ELSE Turn(f, n)
          BY <3>3
        <4> HIDE DEF Turn
        <4>3. QED
          BY <4>1, <4>2
      <3>5. \A n \in 0..m : n # 0 => n - 1 \in 0..m /\ n - 1 # m
        BY <3>1
      <3>6. ASSUME NEW n \in 0..m PROVE g[n] = IF n = 0 THEN <<>> ELSE Turn(g, n)
        <4>1. n # 0 => g[n - 1] = f[n - 1]
          BY <3>5
        <4>2. CASE n = m
          BY <2>4, <4>1, <4>2
        <4>3. CASE n # m
          BY <3>4, <4>1, <4>3
        <4>4. QED
          BY <4>2, <4>3
      <3>7. g = [n \in 0..m |-> g[n]]
        OBVIOUS
      <3> HIDE DEF g
      <3>8. Kept(g, m)
        BY <3>6, <3>7
      <3>9. QED
        BY <2>2, <3>8
    <2>5. QED
      BY <2>3, <2>4
  <1>4. Kept(kept, last)
    BY <1>1, <1>3
  <1>5. \A n \in 0..last : kept[n] = IF n = 0 THEN <<>>
                                     ELSE IF lines[n] \in ids THEN kept[n - 1]
                                     ELSE Append(kept[n - 1], lines[n])
    BY <1>4
  <1> HIDE DEF kept, Kept
  <1> DEFINE T == {n \in 0..last : ~ Good(n)}
  <1>6. T = {}
    <2>1. SUFFICES ASSUME T # {} PROVE FALSE
      OBVIOUS
    <2>2. PICK m \in T : \A k \in T : m <= k
      <3>1. T \in SUBSET Nat
        BY <1>1
      <3> HIDE DEF T
      <3>2. QED
        BY <2>1, <3>1, LeastExists
    <2>3. CASE m = 0
      <3>1. <<>> \in Seq(Docs) /\ DOMAIN <<>> = {}
        BY EmptySeq
      <3>2. kept[m] = <<>> /\ {lines[i] : i \in 1..m} = {}
        BY <1>5, <2>2, <2>3
      <3>3. Page!IsInjective(<<>>) /\ Page!ToSet(<<>>) = {}
        BY <3>1 DEF Page!IsInjective, Page!ToSet
      <3>4. Good(m)
        BY <3>1, <3>2, <3>3
      <3>5. QED
        BY <2>2, <3>4
    <2>4. CASE m # 0
      <3>1. m \in 1..last /\ m - 1 \in 0..last /\ ~ m <= m - 1
        BY <1>1, <2>2, <2>4
      <3>2. Good(m - 1)
        BY <2>2, <3>1
      <3>3. \A i \in 1..m : i \in 1..m - 1 \/ i = m
        BY <1>1, <3>1
      <3>4. {lines[i] : i \in 1..m} = {lines[i] : i \in 1..m - 1} \cup {lines[m]}
        BY <1>1, <3>1, <3>3
      <3>5. PICK s : s = kept[m - 1]
        OBVIOUS
      <3>6. /\ s \in Seq(Docs) /\ (Page!IsInjective(lines) => Page!IsInjective(s))
            /\ Page!ToSet(s) = {lines[i] : i \in 1..m - 1} \ ids
            /\ kept[m] = IF lines[m] \in ids THEN s ELSE Append(s, lines[m])
        BY <1>5, <2>4, <3>1, <3>2, <3>5
      <3>7. CASE lines[m] \in ids
        <4>1. kept[m] = s /\ Page!ToSet(s) = {lines[i] : i \in 1..m} \ ids
          BY <3>4, <3>6, <3>7
        <4>2. Good(m)
          BY <3>6, <4>1
        <4>3. QED
          BY <2>2, <4>2
      <3>8. CASE lines[m] \notin ids
        <4> DEFINE n == Len(s)
                   more == Append(s, lines[m])
        <4>1. /\ more \in Seq(Docs) /\ Len(more) = n + 1 /\ \A i \in 1..n : more[i] = s[i]
              /\ more[n + 1] = lines[m]
          BY <1>1, <3>1, <3>6, AppendProperties
        <4>2. n \in Nat /\ DOMAIN s = 1..n
          BY <3>6, LenProperties
        <4> HIDE DEF more, n
        <4>3. DOMAIN more = 1..n + 1 /\ \A i \in 1..n + 1 : i \in 1..n \/ i = n + 1
          BY <4>1, <4>2, LenProperties
        <4>4. \A i \in 1..n : i \in 1..n + 1
          BY <4>2
        <4>5. Page!ToSet(more) = Page!ToSet(s) \cup {lines[m]}
          <5>1. n + 1 \in 1..n + 1
            BY <4>2
          <5>2. QED
            BY <4>1, <4>2, <4>3, <4>4, <5>1 DEF Page!ToSet
        <4>6. Page!IsInjective(lines) => lines[m] \notin Page!ToSet(s)
          <5>1. \A i \in 1..m - 1 : i \in 1..last /\ i # m
            BY <1>1, <3>1
          <5>2. QED
            BY <1>1, <3>1, <3>6, <5>1
        <4>7. \A i \in 1..n : s[i] \in Page!ToSet(s)
          BY <4>2 DEF Page!ToSet
        <4>8. Page!IsInjective(lines) => \A i, j \in 1..n : s[i] = s[j] => i = j
          BY <3>6, <4>2 DEF Page!IsInjective
        <4>9. Page!IsInjective(lines) => \A i, j \in 1..n + 1 : more[i] = more[j] => i = j
          BY <4>1, <4>3, <4>6, <4>7, <4>8
        <4>10. Page!IsInjective(lines) => Page!IsInjective(more)
          BY <4>3, <4>9 DEF Page!IsInjective
        <4>11. Page!ToSet(more) = {lines[i] : i \in 1..m} \ ids
          BY <3>4, <3>6, <3>8, <4>5
        <4>12. kept[m] = more
          BY <3>6, <3>8 DEF more
        <4>13. Good(m)
          BY <4>1, <4>10, <4>11, <4>12
        <4>14. QED
          BY <2>2, <4>13
      <3>9. QED
        BY <3>7, <3>8
    <2>5. QED
      BY <2>3, <2>4
  <1>7. Good(last)
    <2>1. last \in 0..last
      BY <1>1
    <2>2. QED
      BY <1>6, <2>1
  <1>8. {lines[i] : i \in 1..last} = Page!ToSet(lines)
    BY <1>1 DEF Page!ToSet
  <1>9. QED
    BY <1>2, <1>7, <1>8

RequestRow == [kind : {"first", "more"}, view : Page!Views, after : Nat, latest : BOOLEAN,
               bulk : BOOLEAN, stage : {"sent", "answered"}, rows : Seq(Docs), next : Nat,
               pending : SUBSET Docs, changed : SUBSET Docs, own : BOOLEAN]

PageRow == [loaded : BOOLEAN, rows : Seq(Docs), cursor : Nat, pending : SUBSET Docs,
            changed : SUBSET Docs, own : BOOLEAN]

HandlerRow == [action : Page!Actions \cup {"upload", "folder"}, bulk : BOOLEAN, ids : SUBSET Docs,
               from : Page!Views, failed : SUBSET Docs, stage : {"asked", "sent", "served"}]

ScreenTypes ==
    /\ view \in Page!Views /\ shown \in Page!Views /\ page \in PageRow
    /\ selected \in SUBSET Docs /\ left \in SUBSET Docs /\ mixed \in BOOLEAN /\ troubles \in Nat

\* A handler of one document has no more than that one.
HandlersOK ==
    /\ handlers \in SUBSET HandlerRow
    /\ \A h \in handlers : h.bulk \/ \A d, e \in h.ids : d = e

\* A handler that was served and will load the list again.
Owed == \E h \in handlers : h.stage = "served" /\ (h.bulk \/ h.action = "upload" \/ h.failed = {})

\* A list on its way that was read after what the person did.
Coming == \E r \in requests : r.kind = "first" /\ r.latest /\ ~ r.own

\* The request whose answer will be looked at.
RequestOK(r) ==
    r.latest =>
        /\ r.stage = "sent" => r.changed = {} /\ ~ r.own
        /\ r.stage = "answered" => Read(r.rows, r.view, r.after, r.next, r.changed)
        /\ r.kind = "first" =>
               r.after = 0 /\ r.view = shown /\ (troubles = 0 /\ r.own => Owed)
        /\ r.kind = "more" =>
               /\ page.loaded /\ r.after = page.cursor /\ r.after # 0
               /\ r.stage = "answered" =>
                      /\ r.changed \subseteq page.changed
                      /\ ~ mixed /\ r.view = shown =>
                             \A d \in Page!ToSet(r.rows) : d \notin Page!ToSet(page.rows)

RequestsOK ==
    /\ requests \in SUBSET RequestRow
    /\ \A r, q \in requests : r.latest /\ q.latest => r = q
    /\ \A r \in requests : RequestOK(r)

\* What is shown was read page by page, and what is not on screen yet will be.
ScreenOK ==
    /\ page.cursor # 0 => page.loaded
    /\ page.loaded /\ ~ mixed => Read(page.rows, shown, 0, page.cursor, page.changed)
    /\ selected \subseteq Page!ToSet(page.rows) \cup left
    /\ troubles = 0 /\ page.own => Owed \/ Coming

ListInv == StoreOK /\ ScreenTypes /\ HandlersOK /\ RequestsOK /\ ScreenOK

LEMMA AskedTypes ==
    ASSUME NEW kind \in {"first", "more"}, NEW v \in Page!Views, NEW after \in Nat,
           NEW bulk \in BOOLEAN
    PROVE  Page!Asked(kind, v, after, bulk) \in RequestRow
  <1>1. <<>> \in Seq(Docs)
    BY EmptySeq
  <1>2. QED
    BY <1>1 DEF Page!Asked, RequestRow

LEMMA OvertakenTypes ==
    ASSUME NEW r \in RequestRow
    PROVE  Page!Overtaken(r) \in RequestRow /\ Page!Overtaken(r).latest = FALSE
  <1>1. r.kind \in {"first", "more"} /\ r.view \in Page!Views /\ r.bulk \in BOOLEAN
    BY DEF RequestRow
  <1>2. PICK q \in RequestRow : q = Page!Asked(r.kind, r.view, 0, r.bulk)
    BY <1>1, AskedTypes
  <1>3. [q EXCEPT !.latest = FALSE] \in RequestRow /\ [q EXCEPT !.latest = FALSE].latest = FALSE
    BY DEF RequestRow
  <1>4. QED
    BY <1>2, <1>3 DEF Page!Overtaken

LEMMA EmptyTypes ==
    /\ Page!Empty \in PageRow /\ Page!Empty.loaded = FALSE /\ Page!Empty.cursor = 0
    /\ Page!Empty.own = FALSE /\ Page!Empty.rows = <<>>
  <1>1. <<>> \in Seq(Docs)
    BY EmptySeq
  <1>2. QED
    BY <1>1 DEF Page!Empty, PageRow

\* The list is loaded again, from a page that was read as it says.
LEMMA LoadStep ==
    ASSUME ListInv, NEW v \in Page!Views, NEW bulk \in BOOLEAN, NEW was \in PageRow,
           NEW ticked \in SUBSET Docs,
           Page!Load(v, bulk, was, ticked), StoreOK', UNCHANGED <<place, deletedAt, clock, mixed>>,
           HandlersOK', view' \in Page!Views, left' \in SUBSET Docs, troubles' \in Nat,
           was.cursor # 0 => was.loaded,
           was.loaded /\ ~ mixed => Read(was.rows, shown, 0, was.cursor, was.changed),
           ticked \subseteq Page!ToSet(was.rows) \cup left'
    PROVE  ListInv'
  <1> DEFINE new == Page!Asked("first", v, 0, bulk)
  <1>1. /\ new \in RequestRow /\ new.kind = "first" /\ new.view = v /\ new.after = 0
        /\ new.latest = TRUE /\ new.stage = "sent" /\ new.changed = {} /\ new.own = FALSE
    <2>1. <<>> \in Seq(Docs)
      BY EmptySeq
    <2>2. QED
      BY <2>1 DEF Page!Asked, RequestRow
  <1>2. /\ shown' = v /\ page' = (IF shown = v THEN was ELSE Page!Empty)
        /\ selected' = (IF shown = v THEN ticked ELSE {})
        /\ requests' = {Page!Overtaken(r) : r \in requests} \cup {new}
    BY DEF Page!Load
  <1> HIDE DEF new
  <1>3. requests' \in SUBSET RequestRow /\ \A r \in requests' : r.latest => r = new
    BY <1>1, <1>2, OvertakenTypes DEF ListInv, RequestsOK
  <1>4. ScreenTypes'
    BY <1>2, EmptyTypes DEF ListInv, ScreenTypes
  <1>5. RequestOK(new)'
    BY <1>1, <1>2 DEF RequestOK
  <1>6. RequestsOK'
    <2>1. ASSUME NEW r \in requests' PROVE RequestOK(r)'
      <3>1. CASE r.latest
        BY <1>3, <1>5, <3>1
      <3>2. CASE ~ r.latest
        BY <3>2 DEF RequestOK
      <3>3. QED
        BY <3>1, <3>2
    <2>2. \A r, q \in requests' : r.latest /\ q.latest => r = q
      BY <1>3
    <2>3. QED
      BY <1>3, <2>1, <2>2 DEF RequestsOK
  <1>7. Coming'
    <2>1. new \in requests' /\ new.latest /\ ~ new.own
      BY <1>1, <1>2
    <2>2. QED
      BY <1>1, <2>1 DEF Coming
  <1>8. ScreenOK'
    <2>1. CASE shown = v
      <3>1. page' = was /\ selected' = ticked /\ shown' = v
        BY <1>2, <2>1
      <3>2. was.loaded /\ ~ mixed => Read(was.rows, v, 0, was.cursor, was.changed)'
        BY <2>1, ReadSame
      <3>3. page'.loaded /\ ~ mixed' => Read(page.rows, shown, 0, page.cursor, page.changed)'
        BY <3>1, <3>2 DEF Read
      <3>4. QED
        BY <1>7, <3>1, <3>3 DEF ScreenOK
    <2>2. CASE shown # v
      <3>1. page' = Page!Empty /\ selected' = {}
        BY <1>2, <2>2
      <3>2. QED
        BY <3>1, EmptyTypes DEF ScreenOK
    <2>3. QED
      BY <2>1, <2>2
  <1>9. QED
    BY <1>4, <1>6, <1>8 DEF ListInv

\* The person, or a refusal, adds or takes away handlers that owe nothing.
LEMMA HandlersStep ==
    ASSUME ListInv, UNCHANGED <<Page!list, Page!screen, requests, mixed, troubles>>, HandlersOK',
           Owed => Owed'
    PROVE  ListInv'
  <1>1. /\ UNCHANGED place /\ UNCHANGED deletedAt /\ UNCHANGED scanning /\ UNCHANGED clock
        /\ UNCHANGED view /\ UNCHANGED shown /\ UNCHANGED page /\ UNCHANGED selected
        /\ UNCHANGED left /\ UNCHANGED requests /\ UNCHANGED mixed /\ UNCHANGED troubles
    BY DEF Page!list, Page!screen
  <1>2. StoreOK' /\ ScreenTypes'
    BY <1>1 DEF ListInv, StoreOK, ScreenTypes
  <1>3. \A v, lines, after, next, changed :
            Read(lines, v, after, next, changed) => Read(lines, v, after, next, changed)'
    BY <1>1, ReadSame
  <1>4. ASSUME NEW r \in requests PROVE RequestOK(r)'
    <2>1. RequestOK(r)
      BY DEF ListInv, RequestsOK
    <2>2. QED
      BY <1>1, <1>3, <2>1 DEF RequestOK
  <1>5. RequestsOK'
    BY <1>1, <1>4 DEF ListInv, RequestsOK
  <1>6. Coming' <=> Coming
    BY <1>1 DEF Coming
  <1>7. ScreenOK'
    <2>1. page.loaded /\ ~ mixed => Read(page.rows, shown, 0, page.cursor, page.changed)'
      <3>1. page.loaded /\ ~ mixed => Read(page.rows, shown, 0, page.cursor, page.changed)
        BY DEF ListInv, ScreenOK
      <3>2. QED
        BY <1>1, <3>1 DEF Read, Page!Key
    <2>2. QED
      BY <1>1, <1>6, <2>1 DEF ListInv, ScreenOK
  <1>8. QED
    BY <1>2, <1>5, <1>7 DEF ListInv

(***************************************************************************)
(* What the person does to handlers and ticks.                             *)
(***************************************************************************)

\* When a handler that owes nothing is taken away or changed, what was owed still is.
LEMMA OwedKept ==
    ASSUME NEW h,
           h.stage # "served" \/ (~ h.bulk /\ h.action # "upload" /\ h.failed # {}),
           handlers \ {h} \subseteq handlers', Owed
    PROVE  Owed'
  <1>1. PICK g \in handlers : g.stage = "served" /\ (g.bulk \/ g.action = "upload" \/ g.failed = {})
    BY DEF Owed
  <1>2. g # h
    BY <1>1
  <1>3. QED
    BY <1>1, <1>2 DEF Owed

LEMMA BeginStep ==
    ASSUME ListInv, NEW action \in Page!Actions \cup {"upload", "folder"}, NEW bulk \in BOOLEAN,
           NEW ids \in SUBSET Docs, bulk \/ \A d, e \in ids : d = e, Page!Begin(action, bulk, ids)
    PROVE  ListInv'
  <1>1. PICK h : h = [action |-> action, bulk |-> bulk, ids |-> ids, from |-> view, failed |-> {},
                      stage |-> IF action \in {"restore", "upload"} THEN "sent" ELSE "asked"]
    OBVIOUS
  <1>2. /\ handlers' = handlers \cup {h}
        /\ UNCHANGED <<Page!list, Page!screen, requests, mixed, troubles>>
    BY <1>1 DEF Page!Begin
  <1>3. h \in HandlerRow
    <2>1. view \in Page!Views
      BY DEF ListInv, ScreenTypes
    <2>2. QED
      BY <1>1, <2>1 DEF HandlerRow
  <1>4. h.bulk = bulk /\ h.ids = ids
    BY <1>1
  <1>5. HandlersOK'
    BY <1>2, <1>3, <1>4 DEF ListInv, HandlersOK
  <1>6. Owed => Owed'
    BY <1>2 DEF Owed
  <1>7. QED
    BY <1>2, <1>5, <1>6, HandlersStep

LEMMA ConfirmStep ==
    ASSUME ListInv, NEW h \in handlers, Page!Confirm(h)
    PROVE  ListInv'
  <1>1. h.stage = "asked" /\ h \in HandlerRow /\ (h.bulk \/ \A d, e \in h.ids : d = e)
    BY DEF Page!Confirm, ListInv, HandlersOK
  <1>2. PICK ids : ids = IF h.bulk /\ h.action = "move" THEN selected ELSE h.ids
    OBVIOUS
  <1>3. ids \in SUBSET Docs /\ (h.bulk \/ ids = h.ids)
    BY <1>1, <1>2 DEF HandlerRow, ListInv, ScreenTypes
  <1>4. PICK g : g = [h EXCEPT !.stage = "sent", !.ids = ids]
    OBVIOUS
  <1>5. g \in HandlerRow /\ g.bulk = h.bulk /\ g.ids = ids
    BY <1>1, <1>3, <1>4 DEF HandlerRow
  <1>6. /\ handlers' = (handlers \ {h}) \cup {g}
        /\ UNCHANGED <<Page!list, Page!screen, requests, mixed, troubles>>
    BY <1>2, <1>4 DEF Page!Confirm
  <1>7. HandlersOK'
    <2>1. g.bulk \/ \A d, e \in g.ids : d = e
      BY <1>1, <1>3, <1>5
    <2>2. QED
      BY <1>5, <1>6, <2>1 DEF ListInv, HandlersOK
  <1>8. Owed => Owed'
    <2>1. h.stage # "served" /\ handlers \ {h} \subseteq handlers'
      BY <1>1, <1>6
    <2>2. QED
      BY <2>1, OwedKept
  <1>9. QED
    BY <1>6, <1>7, <1>8, HandlersStep

LEMMA DismissStep ==
    ASSUME ListInv, NEW h \in handlers, Page!Dismiss(h) \/ Page!Refused(h)
    PROVE  ListInv'
  <1>1. /\ handlers' = handlers \ {h}
        /\ UNCHANGED <<Page!list, Page!screen, requests, mixed, troubles>>
        /\ h.stage # "served" \/ (~ h.bulk /\ h.action # "upload" /\ h.failed # {})
    BY DEF Page!Dismiss, Page!Refused
  <1>2. HandlersOK'
    BY <1>1 DEF ListInv, HandlersOK
  <1>3. Owed => Owed'
    BY <1>1, OwedKept
  <1>4. QED
    BY <1>1, <1>2, <1>3, HandlersStep

\* Rows are ticked that are on screen, or ticks are taken off.
LEMMA TickStep ==
    ASSUME ListInv,
           UNCHANGED <<Page!list, view, shown, page, left, requests, handlers, mixed, troubles>>,
           selected' \in SUBSET Docs, selected' \subseteq selected \cup Page!Rows
    PROVE  ListInv'
  <1>1. /\ UNCHANGED place /\ UNCHANGED deletedAt /\ UNCHANGED scanning /\ UNCHANGED clock
        /\ UNCHANGED view /\ UNCHANGED shown /\ UNCHANGED page /\ UNCHANGED handlers
        /\ UNCHANGED left /\ UNCHANGED requests /\ UNCHANGED mixed /\ UNCHANGED troubles
    BY DEF Page!list
  <1>2. StoreOK' /\ ScreenTypes' /\ HandlersOK'
    BY <1>1 DEF ListInv, StoreOK, ScreenTypes, HandlersOK
  <1>3. \A v, lines, after, next, changed :
            Read(lines, v, after, next, changed) => Read(lines, v, after, next, changed)'
    BY <1>1, ReadSame
  <1>4. (Coming' <=> Coming) /\ (Owed' <=> Owed)
    BY <1>1 DEF Coming, Owed
  <1>5. ASSUME NEW r \in requests PROVE RequestOK(r)'
    <2>1. RequestOK(r)
      BY DEF ListInv, RequestsOK
    <2>2. QED
      BY <1>1, <1>3, <1>4, <2>1 DEF RequestOK
  <1>6. RequestsOK'
    BY <1>1, <1>5 DEF ListInv, RequestsOK
  <1>7. ScreenOK'
    <2>1. page.loaded /\ ~ mixed => Read(page.rows, shown, 0, page.cursor, page.changed)
      BY DEF ListInv, ScreenOK
    <2>2. page'.loaded /\ ~ mixed' => Read(page.rows, shown, 0, page.cursor, page.changed)'
      BY <1>1, <2>1 DEF Read, Page!Key
    <2>3. selected' \subseteq Page!ToSet(page'.rows) \cup left'
      BY <1>1 DEF Page!Rows, ListInv, ScreenOK
    <2>4. QED
      BY <1>1, <1>4, <2>2, <2>3 DEF ListInv, ScreenOK
  <1>8. QED
    BY <1>2, <1>6, <1>7 DEF ListInv

LEMMA RowsAreDocs ==
    ASSUME ListInv
    PROVE  Page!Rows \in SUBSET Docs /\ selected \in SUBSET Docs
  <1>1. page.rows \in Seq(Docs) /\ selected \in SUBSET Docs
    BY DEF ListInv, ScreenTypes, PageRow
  <1>2. QED
    BY <1>1, LenProperties, ElementOfSeq DEF Page!Rows, Page!ToSet

LEMMA PersonStep ==
    ASSUME ListInv, Page!Person
    PROVE  ListInv'
  <1>1. CASE Page!TickAll
    BY <1>1, RowsAreDocs, TickStep DEF Page!TickAll
  <1>2. CASE Page!ClearTicks
    BY <1>2, RowsAreDocs, TickStep DEF Page!ClearTicks
  <1>3. ASSUME NEW d \in Docs, Page!Tick(d) PROVE ListInv'
    BY <1>3, RowsAreDocs, TickStep DEF Page!Tick
  <1>4. CASE Page!ClickFolder
    <2>1. Page!Begin("folder", FALSE, {})
      BY <1>4 DEF Page!ClickFolder
    <2>2. /\ "folder" \in Page!Actions \cup {"upload", "folder"} /\ FALSE \in BOOLEAN
          /\ {} \in SUBSET Docs /\ \A d, e \in {} : d = e
      OBVIOUS
    <2>3. QED
      BY <2>1, <2>2, BeginStep
  <1>5. ASSUME NEW d \in Docs, Page!Upload(d) PROVE ListInv'
    <2>1. Page!Begin("upload", FALSE, {d})
      BY <1>5 DEF Page!Upload
    <2>2. /\ "upload" \in Page!Actions \cup {"upload", "folder"} /\ FALSE \in BOOLEAN
          /\ {d} \in SUBSET Docs /\ \A c, e \in {d} : c = e
      OBVIOUS
    <2>3. QED
      BY <2>1, <2>2, BeginStep
  <1>6. ASSUME NEW action \in Page!Actions, Page!ClickBulk(action) PROVE ListInv'
    BY <1>6, RowsAreDocs, BeginStep DEF Page!ClickBulk
  <1>7. ASSUME NEW action \in Page!Actions, NEW d \in Docs, Page!ClickDocument(action, d)
        PROVE  ListInv'
    <2>1. Page!Begin(action, FALSE, {d})
      BY <1>7 DEF Page!ClickDocument
    <2>2. /\ action \in Page!Actions \cup {"upload", "folder"} /\ FALSE \in BOOLEAN
          /\ {d} \in SUBSET Docs /\ \A c, e \in {d} : c = e
      OBVIOUS
    <2>3. QED
      BY <2>1, <2>2, BeginStep
  <1>8. ASSUME NEW h \in handlers, Page!Confirm(h) \/ Page!Dismiss(h) PROVE ListInv'
    BY <1>8, ConfirmStep, DismissStep
  <1>9. QED
    BY <1>1, <1>2, <1>3, <1>4, <1>5, <1>6, <1>7, <1>8 DEF Page!Person

(***************************************************************************)
(* The API.                                                                *)
(***************************************************************************)

LEMMA AnswerStep ==
    ASSUME ListInv, NEW r \in requests, Page!AnswerList(r)
    PROVE  ListInv'
  <1>1. /\ UNCHANGED place /\ UNCHANGED deletedAt /\ UNCHANGED scanning /\ UNCHANGED clock
        /\ UNCHANGED view /\ UNCHANGED shown /\ UNCHANGED page /\ UNCHANGED selected
        /\ UNCHANGED left /\ UNCHANGED handlers /\ UNCHANGED mixed /\ UNCHANGED troubles
    BY DEF Page!AnswerList, Page!list, Page!screen
  <1>2. /\ r \in RequestRow /\ RequestOK(r) /\ r.stage = "sent" /\ r.latest
        /\ r.changed = {} /\ ~ r.own
    BY DEF Page!AnswerList, ListInv, RequestsOK, RequestOK
  <1>3. r.view \in Page!Views /\ r.after \in Nat
    BY <1>2 DEF RequestRow
  <1>4. PICK got : got = Page!List(r.view, r.after)
    OBVIOUS
  <1>5. Listed(got.rows, r.view, r.after, got.next) /\ got.pending \in SUBSET Docs
    BY <1>3, <1>4, ListFacts DEF ListInv
  <1>6. PICK q : q = [r EXCEPT !.stage = "answered", !.rows = got.rows, !.next = got.next,
                               !.pending = got.pending]
    OBVIOUS
  <1>7. requests' = (requests \ {r}) \cup {q}
    BY <1>4, <1>6 DEF Page!AnswerList
  <1>8. /\ q \in RequestRow /\ q.kind = r.kind /\ q.view = r.view /\ q.after = r.after
        /\ q.latest = r.latest /\ q.stage = "answered" /\ q.rows = got.rows /\ q.next = got.next
        /\ q.changed = r.changed /\ q.own = r.own
    <2>1. got.rows \in Seq(Docs) /\ got.next \in Nat
      BY <1>5 DEF Listed
    <2>2. QED
      BY <1>2, <1>5, <1>6, <2>1 DEF RequestRow
  <1>9. Read(q.rows, q.view, q.after, q.next, q.changed)
    BY <1>2, <1>5, <1>8, ListedRead
  <1>10. \A v, lines, after, next, changed :
            Read(lines, v, after, next, changed) => Read(lines, v, after, next, changed)'
    BY <1>1, ReadSame
  <1>11. \A g \in requests : g.latest => g = r
    BY <1>2 DEF ListInv, RequestsOK
  <1>12. Owed' <=> Owed
    BY <1>1 DEF Owed
  <1>13. ASSUME q.kind = "more", ~ mixed, q.view = shown
         PROVE  \A d \in Page!ToSet(q.rows) : d \notin Page!ToSet(page.rows)
    <2>1. page.loaded /\ r.after = page.cursor /\ r.after # 0 /\ r.view = shown
      BY <1>2, <1>8, <1>13 DEF RequestOK
    <2>2. Read(page.rows, shown, 0, r.after, page.changed)
      BY <1>13, <2>1 DEF ListInv, ScreenOK
    <2>3. ASSUME NEW d \in Page!ToSet(got.rows), d \in Page!ToSet(page.rows) PROVE FALSE
      <3>1. d \in Docs
        <4>1. got.rows \in Seq(Docs)
          BY <1>5 DEF Listed
        <4>2. QED
          BY <4>1, LenProperties, ElementOfSeq DEF Page!ToSet
      <3>2. place[d] = shown /\ Page!Key(shown, d) < r.after
        BY <1>5, <2>1, <2>3, <3>1 DEF Listed
      <3>3. Page!Key(shown, d) >= r.after
        BY <2>1, <2>2, <2>3, <3>2 DEF Read
      <3>4. Page!Key(shown, d) \in Nat
        BY <1>3, <2>1, <3>1, KeyFacts DEF ListInv
      <3>5. QED
        BY <1>3, <3>2, <3>3, <3>4
    <2>4. QED
      BY <1>8, <2>3
  <1>14. RequestOK(q)'
    <2>1. Read(q.rows, q.view, q.after, q.next, q.changed)'
      BY <1>9, <1>1, ReadSame
    <2>2. q.kind = "first" => q.after = 0 /\ q.view = shown /\ (troubles = 0 /\ q.own => Owed)
      BY <1>2, <1>8 DEF RequestOK
    <2>3. q.kind = "more" => page.loaded /\ q.after = page.cursor /\ q.after # 0
      BY <1>2, <1>8 DEF RequestOK
    <2>4. q.changed \subseteq page.changed
      BY <1>2, <1>8
    <2>5. QED
      BY <1>1, <1>8, <1>12, <1>13, <2>1, <2>2, <2>3, <2>4 DEF RequestOK
  <1>15. RequestsOK'
    <2>1. ASSUME NEW g \in requests' PROVE RequestOK(g)'
      <3>1. CASE g = q
        BY <1>14, <3>1
      <3>2. CASE g # q
        <4>1. ~ g.latest
          BY <1>7, <1>11, <3>2
        <4>2. QED
          BY <4>1 DEF RequestOK
      <3>3. QED
        BY <3>1, <3>2
    <2>2. requests' \in SUBSET RequestRow /\ \A g \in requests' : g.latest => g = q
      BY <1>7, <1>8, <1>11 DEF ListInv, RequestsOK
    <2>3. QED
      BY <2>1, <2>2 DEF RequestsOK
  <1>16. Coming => Coming'
    <2>1. SUFFICES ASSUME Coming PROVE Coming'
      OBVIOUS
    <2>2. r.kind = "first" /\ ~ r.own
      BY <1>11, <2>1 DEF Coming
    <2>3. q \in requests' /\ q.kind = "first" /\ q.latest /\ ~ q.own
      BY <1>2, <1>7, <1>8, <2>2
    <2>4. QED
      BY <2>3 DEF Coming
  <1>17. ScreenOK'
    <2>1. page.loaded /\ ~ mixed => Read(page.rows, shown, 0, page.cursor, page.changed)
      BY DEF ListInv, ScreenOK
    <2>2. page'.loaded /\ ~ mixed' => Read(page.rows, shown, 0, page.cursor, page.changed)'
      BY <1>1, <2>1 DEF Read, Page!Key
    <2>3. QED
      BY <1>1, <1>12, <1>16, <2>2 DEF ListInv, ScreenOK
  <1>18. StoreOK' /\ ScreenTypes' /\ HandlersOK'
    BY <1>1 DEF ListInv, StoreOK, ScreenTypes, HandlersOK
  <1>19. QED
    BY <1>15, <1>17, <1>18 DEF ListInv

\* Documents are changed, and what was read before them is told so.
LEMMA OutdateStep ==
    ASSUME ListInv, NEW S \in SUBSET Docs, NEW own \in BOOLEAN, Changed(S), Page!Outdate(S, own),
           UNCHANGED <<view, shown, selected, left, mixed, troubles>>, HandlersOK',
           Owed => Owed', own => Owed'
    PROVE  ListInv'
  <1>1. PICK told : told = [r \in requests |->
                                IF r.stage = "sent" THEN r
                                ELSE [r EXCEPT !.changed = @ \cup S, !.own = @ \/ own]]
    OBVIOUS
  <1>2. requests' = {told[r] : r \in requests}
    BY <1>1 DEF Page!Outdate
  <1>3. page \in PageRow /\ requests \in SUBSET RequestRow
    BY DEF ListInv, ScreenTypes, RequestsOK
  <1>4. /\ page' \in PageRow /\ page'.loaded = page.loaded /\ page'.rows = page.rows
        /\ page'.cursor = page.cursor /\ page'.changed = page.changed \cup S
        /\ page'.own = (page.own \/ own)
    BY <1>3 DEF Page!Outdate, PageRow
  <1>5. ASSUME NEW r \in requests
        PROVE  /\ told[r] \in RequestRow /\ told[r].kind = r.kind /\ told[r].view = r.view
               /\ told[r].after = r.after /\ told[r].latest = r.latest /\ told[r].stage = r.stage
               /\ told[r].rows = r.rows /\ told[r].next = r.next
               /\ r.stage = "sent" => told[r] = r
               /\ r.stage # "sent" => /\ told[r].changed = r.changed \cup S
                                      /\ told[r].own = (r.own \/ own)
    <2>1. r \in RequestRow
      BY <1>3
    <2>2. CASE r.stage = "sent"
      BY <1>1, <2>1, <2>2
    <2>3. CASE r.stage # "sent"
      <3>1. told[r] = [r EXCEPT !.changed = @ \cup S, !.own = @ \/ own]
        BY <1>1, <2>3
      <3>2. QED
        BY <2>1, <2>3, <3>1 DEF RequestRow
    <2>4. QED
      BY <2>2, <2>3
  <1>6. StoreOK'
    BY StoreKept DEF ListInv
  <1>7. ScreenTypes'
    BY <1>4 DEF ListInv, ScreenTypes
  <1>8. ASSUME NEW r \in requests PROVE RequestOK(told[r])'
    <2>1. SUFFICES ASSUME r.latest PROVE RequestOK(told[r])'
      BY <1>5 DEF RequestOK
    <2>2. r \in RequestRow /\ RequestOK(r)
      BY <1>3 DEF ListInv, RequestsOK
    <2>3. PICK q : q = told[r]
      OBVIOUS
    <2>4. /\ q \in RequestRow /\ q.kind = r.kind /\ q.view = r.view /\ q.after = r.after
          /\ q.latest = r.latest /\ q.stage = r.stage /\ q.rows = r.rows /\ q.next = r.next
          /\ r.stage = "sent" => q = r
          /\ r.stage # "sent" => q.changed = r.changed \cup S /\ q.own = (r.own \/ own)
      BY <1>5, <2>3
    <2>5. q.stage = "sent" => q.changed = {} /\ ~ q.own
      BY <2>1, <2>2, <2>4 DEF RequestOK
    <2>6. ASSUME q.stage = "answered" PROVE Read(q.rows, q.view, q.after, q.next, q.changed)'
      <3>1. r.view \in Page!Views /\ Read(r.rows, r.view, r.after, r.next, r.changed)
        BY <2>1, <2>2, <2>4, <2>6 DEF RequestOK, RequestRow
      <3>2. Read(r.rows, r.view, r.after, r.next, r.changed \cup S)'
        BY <3>1, ReadKept DEF ListInv
      <3>3. q.changed = r.changed \cup S
        BY <2>4, <2>6
      <3>4. QED
        BY <2>4, <3>2, <3>3
    <2>7. ASSUME q.kind = "first"
          PROVE  q.after = 0 /\ q.view = shown' /\ (troubles' = 0 /\ q.own => Owed')
      <3>1. q.after = 0 /\ q.view = shown /\ (troubles = 0 /\ r.own => Owed)
        BY <2>1, <2>2, <2>4, <2>7 DEF RequestOK
      <3>2. q.own => r.own \/ own
        BY <2>4
      <3>3. QED
        BY <3>1, <3>2
    <2>8. ASSUME q.kind = "more"
          PROVE  /\ page'.loaded /\ q.after = page'.cursor /\ q.after # 0
                 /\ q.stage = "answered" =>
                      /\ q.changed \subseteq page'.changed
                      /\ ~ mixed' /\ q.view = shown' =>
                             \A d \in Page!ToSet(q.rows) : d \notin Page!ToSet(page'.rows)
      BY <1>4, <2>1, <2>2, <2>4, <2>8 DEF RequestOK
    <2>9. RequestOK(q)'
      BY <2>5, <2>6, <2>7, <2>8 DEF RequestOK
    <2>10. QED
      BY <2>3, <2>9
  <1>9. RequestsOK'
    <2>1. requests' \in SUBSET RequestRow
      BY <1>2, <1>5
    <2>2. \A g \in requests' : RequestOK(g)'
      BY <1>2, <1>8
    <2>3. ASSUME NEW g \in requests', NEW q \in requests', g.latest, q.latest PROVE g = q
      <3>1. PICK a \in requests : g = told[a]
        BY <1>2
      <3>2. PICK b \in requests : q = told[b]
        BY <1>2
      <3>3. a = b
        BY <1>5, <2>3, <3>1, <3>2 DEF ListInv, RequestsOK
      <3>4. QED
        BY <3>1, <3>2, <3>3
    <2>4. QED
      BY <2>1, <2>2, <2>3 DEF RequestsOK
  <1>10. ASSUME Coming, ~ own PROVE Coming'
    <2>1. PICK r \in requests : r.kind = "first" /\ r.latest /\ ~ r.own
      BY <1>10 DEF Coming
    <2>2. /\ told[r] \in requests' /\ told[r].kind = "first" /\ told[r].latest /\ ~ told[r].own
      BY <1>2, <1>5, <1>10, <2>1
    <2>3. QED
      BY <2>2 DEF Coming
  <1>11. ScreenOK'
    <2>1. ASSUME page'.loaded, ~ mixed' PROVE Read(page.rows, shown, 0, page.cursor, page.changed)'
      <3>1. shown \in Page!Views /\ Read(page.rows, shown, 0, page.cursor, page.changed)
        BY <1>4, <2>1 DEF ListInv, ScreenOK, ScreenTypes
      <3>2. PICK lines, v, next, changed :
                lines = page.rows /\ v = shown /\ next = page.cursor /\ changed = page.changed
        OBVIOUS
      <3>3. Read(lines, v, 0, next, changed \cup S)'
        BY <3>1, <3>2, ReadKept DEF ListInv
      <3>4. /\ page'.rows = lines /\ shown' = v /\ page'.cursor = next
            /\ page'.changed = changed \cup S
        BY <1>4, <3>2
      <3>5. QED
        BY <3>3, <3>4
    <2>2. troubles' = 0 /\ page'.own => Owed' \/ Coming'
      BY <1>4, <1>10 DEF ListInv, ScreenOK
    <2>3. /\ page'.cursor # 0 => page'.loaded
          /\ selected' \subseteq Page!ToSet(page'.rows) \cup left'
      BY <1>4 DEF ListInv, ScreenOK
    <2>4. QED
      BY <2>1, <2>2, <2>3 DEF ScreenOK
  <1>12. QED
    BY <1>6, <1>7, <1>9, <1>11 DEF ListInv

LEMMA ServeStep ==
    ASSUME ListInv, NEW h \in handlers, Page!ServeHandler(h)
    PROVE  ListInv'
  <1>1. PICK done : done = {d \in h.ids : Page!Able(h.action, d)}
    OBVIOUS
  <1>2. h \in HandlerRow /\ h.stage = "sent" /\ (h.bulk \/ \A d, e \in h.ids : d = e)
    BY DEF Page!ServeHandler, ListInv, HandlersOK
  <1>3. done \in SUBSET Docs /\ done \subseteq h.ids /\ h.ids \in SUBSET Docs
    BY <1>1, <1>2 DEF HandlerRow
  <1>4. PICK g : g = [h EXCEPT !.stage = "served", !.failed = h.ids \ done]
    OBVIOUS
  <1>5. /\ Page!Change(h.action, done) /\ Page!Outdate(done, done # {})
        /\ handlers' = (handlers \ {h}) \cup {g}
        /\ UNCHANGED <<view, shown, selected, left, mixed, troubles>>
    BY <1>1, <1>4 DEF Page!ServeHandler
  <1>6. /\ g \in HandlerRow /\ g.bulk = h.bulk /\ g.ids = h.ids /\ g.stage = "served"
        /\ g.failed = h.ids \ done
    BY <1>2, <1>3, <1>4 DEF HandlerRow
  <1>7. HandlersOK'
    <2>1. g.bulk \/ \A d, e \in g.ids : d = e
      BY <1>2, <1>6
    <2>2. QED
      BY <1>5, <1>6, <2>1 DEF ListInv, HandlersOK
  <1>8. Owed => Owed'
    <2>1. h.stage # "served" /\ handlers \ {h} \subseteq handlers'
      BY <1>2, <1>5
    <2>2. QED
      BY <2>1, OwedKept
  <1>9. done # {} => Owed'
    <2>1. SUFFICES ASSUME done # {} PROVE Owed'
      OBVIOUS
    <2>2. g.bulk \/ g.failed = {}
      BY <1>2, <1>3, <1>6, <2>1
    <2>3. g \in handlers'
      BY <1>5
    <2>4. QED
      BY <1>6, <2>2, <2>3 DEF Owed
  <1>10. Changed(done)
    BY <1>3, <1>5, ChangeChanges DEF ListInv
  <1>11. PICK own \in BOOLEAN : own = (done # {})
    OBVIOUS
  <1>12. Page!Outdate(done, own)
    BY <1>5, <1>11
  <1>13. QED
    BY <1>3, <1>5, <1>7, <1>8, <1>9, <1>10, <1>11, <1>12, OutdateStep

LEMMA OthersStep ==
    ASSUME ListInv, NEW action, NEW d \in Docs, Page!ByOthers(action, d)
    PROVE  ListInv'
  <1>1. /\ Page!Change(action, {d}) /\ Page!Outdate({d}, FALSE)
        /\ UNCHANGED handlers /\ UNCHANGED <<view, shown, selected, left, mixed, troubles>>
    BY DEF Page!ByOthers
  <1>2. Changed({d})
    BY <1>1, ChangeChanges DEF ListInv
  <1>3. HandlersOK' /\ (Owed => Owed')
    BY <1>1 DEF ListInv, HandlersOK, Owed
  <1>4. {d} \in SUBSET Docs /\ FALSE \in BOOLEAN
    OBVIOUS
  <1>5. QED
    BY <1>1, <1>2, <1>3, <1>4, OutdateStep

LEMMA ScanStep ==
    ASSUME ListInv, NEW d \in Docs, Page!ScanEnds(d)
    PROVE  ListInv'
  <1>1. /\ UNCHANGED place /\ UNCHANGED deletedAt /\ UNCHANGED clock
        /\ UNCHANGED view /\ UNCHANGED shown /\ UNCHANGED page /\ UNCHANGED selected
        /\ UNCHANGED left /\ UNCHANGED requests /\ UNCHANGED mixed /\ UNCHANGED troubles
        /\ UNCHANGED handlers /\ scanning' = scanning \ {d}
    BY DEF Page!ScanEnds, Page!screen
  <1>2. StoreOK' /\ ScreenTypes' /\ HandlersOK'
    BY <1>1 DEF ListInv, StoreOK, ScreenTypes, HandlersOK
  <1>3. \A v, lines, after, next, changed :
            Read(lines, v, after, next, changed) => Read(lines, v, after, next, changed)'
    BY <1>1, ReadSame
  <1>4. (Coming' <=> Coming) /\ (Owed' <=> Owed)
    BY <1>1 DEF Coming, Owed
  <1>5. ASSUME NEW r \in requests PROVE RequestOK(r)'
    <2>1. RequestOK(r)
      BY DEF ListInv, RequestsOK
    <2>2. QED
      BY <1>1, <1>3, <1>4, <2>1 DEF RequestOK
  <1>6. RequestsOK'
    BY <1>1, <1>5 DEF ListInv, RequestsOK
  <1>7. ScreenOK'
    <2>1. page.loaded /\ ~ mixed => Read(page.rows, shown, 0, page.cursor, page.changed)
      BY DEF ListInv, ScreenOK
    <2>2. page'.loaded /\ ~ mixed' => Read(page.rows, shown, 0, page.cursor, page.changed)'
      BY <1>1, <2>1 DEF Read, Page!Key
    <2>3. QED
      BY <1>1, <1>4, <2>2 DEF ListInv, ScreenOK
  <1>8. QED
    BY <1>2, <1>6, <1>7 DEF ListInv

LEMMA ApiStep ==
    ASSUME ListInv, Page!Api
    PROVE  ListInv'
  BY AnswerStep, ServeStep, ScanStep, OthersStep DEF Page!Api

(***************************************************************************)
(* The browser.                                                            *)
(***************************************************************************)

LEMMA ChooseStep ==
    ASSUME ListInv, NEW v \in Page!Views, Page!Choose(v)
    PROVE  ListInv'
  <1>1. /\ Page!Load(v, FALSE, page, selected) /\ UNCHANGED <<place, deletedAt, clock, mixed>>
        /\ UNCHANGED <<scanning, left, handlers, troubles>> /\ view' = v
    BY DEF Page!Choose, Page!list
  <1>2. StoreOK' /\ HandlersOK'
    BY <1>1 DEF ListInv, StoreOK, HandlersOK
  <1>3. page \in PageRow /\ selected \in SUBSET Docs /\ left' \in SUBSET Docs /\ troubles' \in Nat
    BY <1>1 DEF ListInv, ScreenTypes
  <1>4. /\ page.cursor # 0 => page.loaded
        /\ page.loaded /\ ~ mixed => Read(page.rows, shown, 0, page.cursor, page.changed)
        /\ selected \subseteq Page!ToSet(page.rows) \cup left'
    BY <1>1 DEF ListInv, ScreenOK
  <1>5. FALSE \in BOOLEAN
    OBVIOUS
  <1>6. QED
    BY <1>1, <1>2, <1>3, <1>4, <1>5, LoadStep

\* Load from the page as it is, whoever asks.
LEMMA ReloadStep ==
    ASSUME ListInv, NEW v \in Page!Views, NEW bulk \in BOOLEAN, NEW ticked \in SUBSET Docs,
           Page!Load(v, bulk, page, ticked), ticked \subseteq Page!ToSet(page.rows) \cup left',
           UNCHANGED <<Page!list, view, mixed>>, left' \in SUBSET Docs, troubles' \in Nat,
           handlers' \subseteq handlers
    PROVE  ListInv'
  <1>1. /\ UNCHANGED <<place, deletedAt, clock, mixed>> /\ UNCHANGED <<scanning, view>>
    BY DEF Page!list
  <1>2. StoreOK' /\ HandlersOK'
    BY <1>1 DEF ListInv, StoreOK, HandlersOK
  <1>3. page \in PageRow /\ view' \in Page!Views
    BY <1>1 DEF ListInv, ScreenTypes
  <1>4. /\ page.cursor # 0 => page.loaded
        /\ page.loaded /\ ~ mixed => Read(page.rows, shown, 0, page.cursor, page.changed)
    BY DEF ListInv, ScreenOK
  <1>5. QED
    BY <1>1, <1>2, <1>3, <1>4, LoadStep

LEMMA HandlerTypes ==
    ASSUME ListInv, NEW h \in handlers
    PROVE  /\ h.from \in Page!Views /\ h.failed \in SUBSET Docs /\ h.ids \in SUBSET Docs
           /\ view \in Page!Views /\ page \in PageRow /\ troubles \in Nat
           /\ selected \in SUBSET Docs /\ left \in SUBSET Docs
           /\ selected \subseteq Page!ToSet(page.rows) \cup left
           /\ FALSE \in BOOLEAN /\ TRUE \in BOOLEAN
  BY DEF ListInv, HandlersOK, HandlerRow, ScreenTypes, ScreenOK

LEMMA PollStep ==
    ASSUME ListInv, Page!Poll
    PROVE  ListInv'
  <1>1. /\ Page!Load(view, FALSE, page, selected) /\ UNCHANGED <<Page!list, view, mixed>>
        /\ handlers' \subseteq handlers /\ UNCHANGED left /\ UNCHANGED troubles
    BY DEF Page!Poll
  <1>2. /\ view \in Page!Views /\ FALSE \in BOOLEAN
        /\ selected \in SUBSET Docs /\ left' \in SUBSET Docs
        /\ troubles' \in Nat /\ selected \subseteq Page!ToSet(page.rows) \cup left'
    BY <1>1 DEF ListInv, ScreenTypes, ScreenOK
  <1>3. QED
    BY <1>1, <1>2, ReloadStep

LEMMA FinishUploadStep ==
    ASSUME ListInv, NEW h \in handlers, Page!FinishUpload(h)
    PROVE  ListInv'
  <1>1. /\ Page!Load(h.from, FALSE, page, selected) /\ UNCHANGED <<Page!list, view, mixed>>
        /\ handlers' \subseteq handlers /\ UNCHANGED left /\ UNCHANGED troubles
    BY DEF Page!FinishUpload
  <1>2. /\ left' \in SUBSET Docs /\ troubles' \in Nat
        /\ selected \subseteq Page!ToSet(page.rows) \cup left'
    BY <1>1, HandlerTypes
  <1>3. QED
    BY <1>1, <1>2, HandlerTypes, ReloadStep

LEMMA FinishBulkStep ==
    ASSUME ListInv, NEW h \in handlers, Page!FinishBulk(h)
    PROVE  ListInv'
  <1>1. /\ Page!Load(h.from, TRUE, page, h.failed) /\ UNCHANGED <<Page!list, view, mixed>>
        /\ handlers' \subseteq handlers /\ left' = h.failed /\ UNCHANGED troubles
    BY DEF Page!FinishBulk
  <1>2. /\ left' \in SUBSET Docs /\ troubles' \in Nat
        /\ h.failed \subseteq Page!ToSet(page.rows) \cup left'
    BY <1>1, HandlerTypes
  <1>3. QED
    BY <1>1, <1>2, HandlerTypes, ReloadStep

\* A request that failed is no longer waited for; what it had to show is not on screen.
LEMMA FailStep ==
    ASSUME ListInv, UNCHANGED <<Page!list, Page!screen, mixed>>, requests' \subseteq requests,
           handlers' \subseteq handlers, troubles' = troubles + 1
    PROVE  ListInv'
  <1>1. /\ UNCHANGED place /\ UNCHANGED deletedAt /\ UNCHANGED scanning /\ UNCHANGED clock
        /\ UNCHANGED view /\ UNCHANGED shown /\ UNCHANGED page /\ UNCHANGED selected
        /\ UNCHANGED left /\ UNCHANGED mixed
    BY DEF Page!list, Page!screen
  <1>2. troubles' \in Nat /\ troubles' # 0
    BY DEF ListInv, ScreenTypes
  <1>3. StoreOK' /\ ScreenTypes' /\ HandlersOK'
    BY <1>1, <1>2 DEF ListInv, StoreOK, ScreenTypes, HandlersOK
  <1>4. \A v, lines, after, next, changed :
            Read(lines, v, after, next, changed) => Read(lines, v, after, next, changed)'
    BY <1>1, ReadSame
  <1>5. ASSUME NEW r \in requests PROVE RequestOK(r)'
    <2>1. RequestOK(r)
      BY DEF ListInv, RequestsOK
    <2>2. QED
      BY <1>1, <1>2, <1>4, <2>1 DEF RequestOK
  <1>6. RequestsOK'
    BY <1>1, <1>5 DEF ListInv, RequestsOK
  <1>7. ScreenOK'
    <2>1. page.loaded /\ ~ mixed => Read(page.rows, shown, 0, page.cursor, page.changed)
      BY DEF ListInv, ScreenOK
    <2>2. page'.loaded /\ ~ mixed' => Read(page.rows, shown, 0, page.cursor, page.changed)'
      BY <1>1, <2>1 DEF Read, Page!Key
    <2>3. QED
      BY <1>1, <1>2, <2>2 DEF ListInv, ScreenOK
  <1>8. QED
    BY <1>3, <1>6, <1>7 DEF ListInv

LEMMA FailListStep ==
    ASSUME ListInv, NEW r \in requests, Page!FailList(r)
    PROVE  ListInv'
  <1>1. /\ UNCHANGED <<Page!list, Page!screen, mixed>> /\ requests' \subseteq requests
        /\ handlers' \subseteq handlers /\ troubles' = troubles + 1
    BY DEF Page!FailList
  <1>2. QED
    BY <1>1, FailStep

LEMMA FailHandlerStep ==
    ASSUME ListInv, NEW h \in handlers, Page!FailHandler(h)
    PROVE  ListInv'
  <1>1. /\ UNCHANGED <<Page!list, mixed>> /\ handlers' \subseteq handlers
        /\ troubles' = troubles + 1
    BY DEF Page!FailHandler
  <1>2. CASE h.action = "upload"
    <2>1. /\ Page!Load(h.from, FALSE, page, selected)
          /\ UNCHANGED <<Page!list, view, mixed>> /\ UNCHANGED left
      BY <1>1, <1>2 DEF Page!FailHandler
    <2>2. /\ left' \in SUBSET Docs /\ troubles' \in Nat
          /\ selected \subseteq Page!ToSet(page.rows) \cup left'
      BY <1>1, <2>1, HandlerTypes
    <2>3. QED
      BY <1>1, <2>1, <2>2, HandlerTypes, ReloadStep
  <1>3. CASE h.action # "upload"
    <2>1. UNCHANGED <<Page!list, Page!screen, mixed>> /\ requests' \subseteq requests
      BY <1>1, <1>3 DEF Page!FailHandler
    <2>2. QED
      BY <1>1, <2>1, FailStep
  <1>4. QED
    BY <1>2, <1>3

\* The rows that were changed go off the screen, and count as changed since the list was read.
LEMMA FinishOneStep ==
    ASSUME ListInv, NEW h \in handlers, Page!FinishOne(h)
    PROVE  ListInv'
  <1>1. PICK ids : ids = Page!Dropped(h)
    OBVIOUS
  <1>2. ids \in SUBSET Docs
    BY <1>1, HandlerTypes DEF Page!Dropped
  <1>3. PICK p : p = [page EXCEPT !.rows = Page!Without(@, ids), !.pending = @ \ ids,
                                  !.changed = @ \cup ids]
    OBVIOUS
  <1>4. /\ Page!Load(h.from, FALSE, p, selected \cap Page!ToSet(p.rows))
        /\ left' = IF p = page THEN left ELSE {}
        /\ handlers' = handlers \ {h}
        /\ UNCHANGED <<Page!list, view, mixed, others, troubles>>
    BY <1>1, <1>3 DEF Page!FinishOne
  <1>5. page \in PageRow /\ page.rows \in Seq(Docs)
    BY HandlerTypes DEF PageRow
  <1>6. PICK kept : kept = Page!Without(page.rows, ids)
    OBVIOUS
  <1>7. p = [page EXCEPT !.rows = kept, !.pending = @ \ ids, !.changed = @ \cup ids]
    BY <1>3, <1>5, <1>6 DEF PageRow
  <1>8. /\ kept \in Seq(Docs) /\ Page!ToSet(kept) = Page!ToSet(page.rows) \ ids
        /\ Page!IsInjective(page.rows) => Page!IsInjective(kept)
    BY <1>5, <1>6, WithoutFacts
  <1>9. kept \in Seq(Docs)
    BY <1>8
  <1>10. /\ p \in PageRow /\ p.loaded = page.loaded /\ p.rows = kept /\ p.cursor = page.cursor
         /\ p.changed = page.changed \cup ids /\ p.own = page.own
    BY <1>2, <1>5, <1>7, <1>9 DEF PageRow
  <1>11. ASSUME p.loaded, ~ mixed PROVE Read(p.rows, shown, 0, p.cursor, p.changed)
    <2>1. Read(page.rows, shown, 0, page.cursor, page.changed)
      BY <1>10, <1>11 DEF ListInv, ScreenOK
    <2>2. Page!IsInjective(kept)
      BY <1>8, <2>1 DEF Read
    <2>3. QED
      BY <1>8, <1>10, <2>1, <2>2 DEF Read
  <1>12. PICK ticked : ticked = selected \cap Page!ToSet(p.rows)
    OBVIOUS
  <1>13. ticked \in SUBSET Docs /\ ticked \subseteq Page!ToSet(p.rows) \cup left'
    BY <1>12, HandlerTypes
  <1>14. /\ UNCHANGED <<place, deletedAt, clock, mixed>> /\ UNCHANGED <<scanning, view>>
         /\ troubles' \in Nat /\ left' \in SUBSET Docs
    BY <1>4, HandlerTypes DEF Page!list
  <1>15. StoreOK' /\ HandlersOK' /\ view' \in Page!Views
    BY <1>4, <1>14 DEF ListInv, StoreOK, HandlersOK, ScreenTypes
  <1>16. p.cursor # 0 => p.loaded
    BY <1>10 DEF ListInv, ScreenOK
  <1>17. Page!Load(h.from, FALSE, p, ticked)
    BY <1>4, <1>12
  <1>18. h.from \in Page!Views /\ FALSE \in BOOLEAN
    BY HandlerTypes
  <1>19. QED
    BY <1>10, <1>11, <1>13, <1>14, <1>15, <1>16, <1>17, <1>18, LoadStep

LEMMA LoadMoreStep ==
    ASSUME ListInv, Page!LoadMore
    PROVE  ListInv'
  <1>1. /\ UNCHANGED place /\ UNCHANGED deletedAt /\ UNCHANGED scanning /\ UNCHANGED clock
        /\ UNCHANGED view /\ UNCHANGED shown /\ UNCHANGED page /\ UNCHANGED selected
        /\ UNCHANGED left /\ UNCHANGED handlers /\ UNCHANGED mixed /\ UNCHANGED troubles
        /\ page.cursor # 0
    BY DEF Page!LoadMore, Page!list, Page!screen
  <1>2. PICK q : q = Page!Asked("more", view, page.cursor, FALSE)
    OBVIOUS
  <1>3. requests' = requests \cup {q}
    BY <1>2 DEF Page!LoadMore
  <1>4. view \in Page!Views /\ page.cursor \in Nat
    BY DEF ListInv, ScreenTypes, PageRow
  <1>5. /\ q \in RequestRow /\ q.kind = "more" /\ q.after = page.cursor /\ q.latest
        /\ q.stage = "sent" /\ q.changed = {} /\ ~ q.own
    <2>1. <<>> \in Seq(Docs)
      BY EmptySeq
    <2>2. QED
      BY <1>2, <1>4, <2>1 DEF Page!Asked, RequestRow
  <1>6. \A r \in requests : ~ r.latest
    BY DEF Page!LoadMore, Page!Loading, Page!LoadingMore, ListInv, RequestsOK, RequestRow
  <1>7. page.loaded
    BY <1>1 DEF ListInv, ScreenOK
  <1>8. RequestOK(q)'
    BY <1>1, <1>5, <1>7 DEF RequestOK
  <1>9. RequestsOK'
    <2>1. \A r \in requests' : r.latest => r = q
      BY <1>3, <1>6
    <2>2. ASSUME NEW r \in requests' PROVE RequestOK(r)'
      <3>1. CASE r = q
        BY <1>8, <3>1
      <3>2. CASE r # q
        BY <2>1, <3>2 DEF RequestOK
      <3>3. QED
        BY <3>1, <3>2
    <2>3. requests' \in SUBSET RequestRow
      BY <1>3, <1>5 DEF ListInv, RequestsOK
    <2>4. QED
      BY <2>1, <2>2, <2>3 DEF RequestsOK
  <1>10. (Coming => Coming') /\ (Owed' <=> Owed)
    BY <1>1, <1>3 DEF Coming, Owed
  <1>11. ScreenOK'
    <2>1. page.loaded /\ ~ mixed => Read(page.rows, shown, 0, page.cursor, page.changed)
      BY DEF ListInv, ScreenOK
    <2>2. page'.loaded /\ ~ mixed' => Read(page.rows, shown, 0, page.cursor, page.changed)'
      BY <1>1, <2>1 DEF Read, Page!Key
    <2>3. QED
      BY <1>1, <1>10, <2>2 DEF ListInv, ScreenOK
  <1>12. StoreOK' /\ ScreenTypes' /\ HandlersOK'
    BY <1>1 DEF ListInv, StoreOK, ScreenTypes, HandlersOK
  <1>13. QED
    BY <1>9, <1>11, <1>12 DEF ListInv

\* An answer that was overtaken is not looked at.
LEMMA IgnoredStep ==
    ASSUME ListInv, NEW r \in requests, ~ r.latest, requests' = requests \ {r},
           UNCHANGED <<Page!list, Page!screen, handlers, mixed, troubles>>
    PROVE  ListInv'
  <1>1. /\ UNCHANGED place /\ UNCHANGED deletedAt /\ UNCHANGED scanning /\ UNCHANGED clock
        /\ UNCHANGED view /\ UNCHANGED shown /\ UNCHANGED page /\ UNCHANGED selected
        /\ UNCHANGED left /\ UNCHANGED handlers /\ UNCHANGED mixed /\ UNCHANGED troubles
    BY DEF Page!list, Page!screen
  <1>2. StoreOK' /\ ScreenTypes' /\ HandlersOK'
    BY <1>1 DEF ListInv, StoreOK, ScreenTypes, HandlersOK
  <1>3. \A v, lines, after, next, changed :
            Read(lines, v, after, next, changed) => Read(lines, v, after, next, changed)'
    BY <1>1, ReadSame
  <1>4. (Coming => Coming') /\ (Owed' <=> Owed)
    BY <1>1 DEF Coming, Owed
  <1>5. ASSUME NEW q \in requests PROVE RequestOK(q)'
    <2>1. RequestOK(q)
      BY DEF ListInv, RequestsOK
    <2>2. QED
      BY <1>1, <1>3, <1>4, <2>1 DEF RequestOK
  <1>6. RequestsOK'
    BY <1>5 DEF ListInv, RequestsOK
  <1>7. ScreenOK'
    <2>1. page.loaded /\ ~ mixed => Read(page.rows, shown, 0, page.cursor, page.changed)
      BY DEF ListInv, ScreenOK
    <2>2. page'.loaded /\ ~ mixed' => Read(page.rows, shown, 0, page.cursor, page.changed)'
      BY <1>1, <2>1 DEF Read, Page!Key
    <2>3. QED
      BY <1>1, <1>4, <2>2 DEF ListInv, ScreenOK
  <1>8. QED
    BY <1>2, <1>6, <1>7 DEF ListInv

\* An answer that is looked at becomes the page.
LEMMA ShownStep ==
    ASSUME ListInv, NEW r \in requests, r.latest, requests' = requests \ {r},
           UNCHANGED <<Page!list, view, shown, handlers, troubles>>, mixed' \in BOOLEAN,
           NEW p \in PageRow, Page!ShowRows(p, selected), p.cursor # 0 => p.loaded,
           p.loaded /\ ~ mixed' => Read(p.rows, shown, 0, p.cursor, p.changed),
           troubles = 0 /\ p.own => Owed
    PROVE  ListInv'
  <1>1. /\ UNCHANGED place /\ UNCHANGED deletedAt /\ UNCHANGED scanning /\ UNCHANGED clock
        /\ UNCHANGED view /\ UNCHANGED shown /\ UNCHANGED handlers /\ UNCHANGED troubles
        /\ page' = p /\ selected' = selected \cap Page!ToSet(p.rows) /\ left' = {}
    BY DEF Page!list, Page!ShowRows
  <1>2. StoreOK' /\ ScreenTypes' /\ HandlersOK'
    BY <1>1 DEF ListInv, StoreOK, ScreenTypes, HandlersOK
  <1>3. Owed' <=> Owed
    BY <1>1 DEF Owed
  <1>4. \A q \in requests' : ~ q.latest
    BY DEF ListInv, RequestsOK
  <1>5. RequestsOK'
    <2>1. \A q \in requests' : RequestOK(q)'
      BY <1>4 DEF RequestOK
    <2>2. QED
      BY <1>4, <2>1 DEF ListInv, RequestsOK
  <1>6. ScreenOK'
    <2>1. p.loaded /\ ~ mixed' => Read(p.rows, shown, 0, p.cursor, p.changed)'
      BY <1>1 DEF Read, Page!Key
    <2>2. page'.loaded /\ ~ mixed' => Read(page.rows, shown, 0, page.cursor, page.changed)'
      BY <1>1, <2>1
    <2>3. QED
      BY <1>1, <1>3, <2>2 DEF ScreenOK
  <1>7. QED
    BY <1>2, <1>5, <1>6 DEF ListInv

LEMMA ReceiveFirstStep ==
    ASSUME ListInv, NEW r \in requests, Page!ReceiveFirst(r)
    PROVE  ListInv'
  <1>1. CASE ~ r.latest
    <2>1. /\ requests' = requests \ {r}
          /\ UNCHANGED <<Page!list, Page!screen, handlers, mixed, troubles>>
      BY <1>1 DEF Page!ReceiveFirst, Page!screen
    <2>2. QED
      BY <1>1, <2>1, IgnoredStep
  <1>2. CASE r.latest
    <2>1. PICK p : p = [loaded |-> TRUE, rows |-> r.rows, cursor |-> r.next, pending |-> r.pending,
                        changed |-> r.changed, own |-> r.own]
      OBVIOUS
    <2>2. /\ requests' = requests \ {r} /\ UNCHANGED <<Page!list, view, shown, handlers, troubles>>
          /\ mixed' = FALSE /\ Page!ShowRows(p, selected)
          /\ r.kind = "first" /\ r.stage = "answered"
      BY <1>2, <2>1 DEF Page!ReceiveFirst
    <2>3. r \in RequestRow /\ RequestOK(r)
      BY DEF ListInv, RequestsOK
    <2>4. /\ p \in PageRow /\ p.loaded = TRUE /\ p.rows = r.rows /\ p.cursor = r.next
          /\ p.changed = r.changed /\ p.own = r.own
      BY <2>1, <2>3 DEF PageRow, RequestRow
    <2>5. Read(r.rows, shown, 0, r.next, r.changed) /\ (troubles = 0 /\ r.own => Owed)
      BY <1>2, <2>2, <2>3 DEF RequestOK
    <2>6. /\ p.cursor # 0 => p.loaded
          /\ p.loaded /\ ~ mixed' => Read(p.rows, shown, 0, p.cursor, p.changed)
          /\ troubles = 0 /\ p.own => Owed
      BY <2>4, <2>5
    <2>7. mixed' \in BOOLEAN
      BY <2>2
    <2>8. QED
      BY <1>2, <2>2, <2>4, <2>6, <2>7, ShownStep
  <1>3. QED
    BY <1>1, <1>2

LEMMA ReceiveMoreStep ==
    ASSUME ListInv, NEW r \in requests, Page!ReceiveMore(r)
    PROVE  ListInv'
  <1>1. CASE ~ r.latest
    <2>1. /\ requests' = requests \ {r}
          /\ UNCHANGED <<Page!list, Page!screen, handlers, mixed, troubles>>
      BY <1>1 DEF Page!ReceiveMore, Page!screen
    <2>2. QED
      BY <1>1, <2>1, IgnoredStep
  <1>2. CASE r.latest
    <2>1. PICK p : p = [page EXCEPT !.rows = @ \o r.rows, !.cursor = r.next,
                                    !.pending = @ \cup r.pending]
      OBVIOUS
    <2>2. /\ requests' = requests \ {r} /\ UNCHANGED <<Page!list, view, shown, handlers, troubles>>
          /\ mixed' = (mixed \/ r.view # shown) /\ Page!ShowRows(p, selected)
          /\ r.kind = "more" /\ r.stage = "answered"
      BY <1>2, <2>1 DEF Page!ReceiveMore
    <2>3. r \in RequestRow /\ RequestOK(r) /\ page \in PageRow /\ shown \in Page!Views
      BY DEF ListInv, RequestsOK, ScreenTypes
    <2>4. /\ page.loaded /\ r.after = page.cursor /\ r.after # 0 /\ r.changed \subseteq page.changed
          /\ Read(r.rows, r.view, r.after, r.next, r.changed)
          /\ ~ mixed /\ r.view = shown =>
                 \A d \in Page!ToSet(r.rows) : d \notin Page!ToSet(page.rows)
      BY <1>2, <2>2, <2>3 DEF RequestOK
    <2>5. PICK all : all = page.rows \o r.rows
      OBVIOUS
    <2>6. all \in Seq(Docs)
      <3>1. page.rows \in Seq(Docs) /\ r.rows \in Seq(Docs)
        BY <2>3 DEF PageRow, RequestRow
      <3>2. QED
        BY <2>5, <3>1, ConcatProperties
    <2>7. p = [page EXCEPT !.rows = all, !.cursor = r.next, !.pending = @ \cup r.pending]
      BY <2>1, <2>3, <2>5 DEF PageRow
    <2>8. /\ p \in PageRow /\ p.loaded = page.loaded /\ p.rows = all /\ p.cursor = r.next
          /\ p.changed = page.changed /\ p.own = page.own
      BY <2>3, <2>6, <2>7 DEF PageRow, RequestRow
    <2>9. ASSUME ~ mixed' PROVE Read(p.rows, shown, 0, p.cursor, p.changed)
      <3>1. ~ mixed /\ r.view = shown
        BY <2>2, <2>9
      <3>2. Read(page.rows, shown, 0, page.cursor, page.changed)
        BY <2>4, <3>1 DEF ListInv, ScreenOK
      <3>3. PICK lines, more, v, cursor, next, changed, since :
                /\ lines = page.rows /\ more = r.rows /\ v = shown /\ cursor = page.cursor
                /\ next = r.next /\ changed = page.changed /\ since = r.changed
        OBVIOUS
      <3>4. /\ v \in Page!Views /\ cursor # 0 /\ Read(lines, v, 0, cursor, changed)
            /\ Read(more, v, cursor, next, since) /\ since \subseteq changed
            /\ \A d \in Page!ToSet(more) : d \notin Page!ToSet(lines)
        BY <2>3, <2>4, <3>1, <3>2, <3>3
      <3>5. Read(lines \o more, v, 0, next, changed)
        BY <3>4, ReadOn DEF ListInv
      <3>6. QED
        BY <2>5, <2>8, <3>3, <3>5
    <2>10. \A q \in requests : q.kind = "first" => ~ q.latest
      BY <1>2, <2>2 DEF ListInv, RequestsOK
    <2>11. troubles = 0 /\ p.own => Owed
      BY <2>8, <2>10 DEF ListInv, ScreenOK, Coming
    <2>12. mixed' \in BOOLEAN
      BY <2>2 DEF ListInv, ScreenTypes
    <2>13. QED
      BY <1>2, <2>2, <2>4, <2>8, <2>9, <2>11, <2>12, ShownStep
  <1>3. QED
    BY <1>1, <1>2

LEMMA BrowserStep ==
    ASSUME ListInv, Page!Browser
    PROVE  ListInv'
  <1>1. ASSUME NEW h \in handlers, Page!Refused(h) PROVE ListInv'
    BY <1>1, DismissStep
  <1>2. QED
    BY <1>1, ChooseStep, PollStep, LoadMoreStep, ReceiveFirstStep, ReceiveMoreStep, FailListStep,
       FinishOneStep, FinishUploadStep, FinishBulkStep, FailHandlerStep DEF Page!Browser

LEMMA InitListInv ==
    ASSUME Page!Init
    PROVE  ListInv
  <1>1. PICK r : r = Page!Asked("first", "here", 0, FALSE)
    OBVIOUS
  <1>2. /\ r \in RequestRow /\ r.kind = "first" /\ r.view = "here" /\ r.after = 0
        /\ r.latest = TRUE /\ r.stage = "sent" /\ r.changed = {} /\ r.own = FALSE
    <2>1. <<>> \in Seq(Docs) /\ "here" \in Page!Views
      BY EmptySeq DEF Page!Views
    <2>2. QED
      BY <1>1, <2>1 DEF Page!Asked, RequestRow
  <1>3. requests = {r} /\ handlers = {} /\ page = Page!Empty /\ shown = "here" /\ selected = {}
    BY <1>1 DEF Page!Init
  <1>4. StoreOK
    BY DEF Page!Init, StoreOK, Places
  <1>5. ScreenTypes
    BY EmptyTypes DEF Page!Init, ScreenTypes, Page!Views
  <1>6. HandlersOK
    BY <1>3 DEF HandlersOK
  <1>7. RequestOK(r)
    BY <1>2, <1>3 DEF RequestOK
  <1>8. RequestsOK
    BY <1>2, <1>3, <1>7 DEF RequestsOK
  <1>9. ScreenOK
    BY <1>3, EmptyTypes DEF ScreenOK
  <1>10. QED
    BY <1>4, <1>5, <1>6, <1>8, <1>9 DEF ListInv

LEMMA SameListInv ==
    ASSUME ListInv, UNCHANGED state
    PROVE  ListInv'
  <1>1. /\ UNCHANGED <<Page!list, Page!screen, requests, mixed, troubles>> /\ UNCHANGED handlers
    BY DEF state, Page!list, Page!screen
  <1>2. HandlersOK' /\ (Owed => Owed')
    BY <1>1 DEF ListInv, HandlersOK, Owed
  <1>3. QED
    BY <1>1, <1>2, HandlersStep

LEMMA ListInvMeans ==
    ASSUME ListInv
    PROVE  Page!PageExact /\ Page!SelectionOnScreen /\ Page!OwnChangesShown
  <1>1. Page!PageExact
    <2>1. SUFFICES ASSUME page.loaded, ~ mixed
                   PROVE  /\ Page!IsInjective(page.rows)
                          /\ \A d \in Page!Unchanged(page) :
                                 d \in Page!Rows <=>
                                     /\ place[d] = shown
                                     /\ page.cursor = 0 \/ Page!Key(shown, d) >= page.cursor
      BY DEF Page!PageExact
    <2>2. Read(page.rows, shown, 0, page.cursor, page.changed)
      BY <2>1 DEF ListInv, ScreenOK
    <2>3. QED
      BY <2>2 DEF Read, Page!Unchanged, Page!Rows
  <1>2. Page!SelectionOnScreen
    BY DEF ListInv, ScreenOK, Page!SelectionOnScreen, Page!Rows
  <1>3. Page!OwnChangesShown
    BY DEF ListInv, ScreenOK, Page!OwnChangesShown, Owed, Coming
  <1>4. QED
    BY <1>1, <1>2, <1>3

\* Whatever list a page shows, read page by page while documents change, has each document of
\* its query once; nothing is ticked but what is on screen or was left ticked on purpose; and
\* what a person did is on screen when all is quiet and nothing failed (documents/page.tsx,
\* documents.repo.ts list), for any documents, page size, handlers and requests.
THEOREM PageHolds == PartsSpec => []PageSound
  <1> DEFINE Inv == about = "page" => ListInv
  <1>1. PartsInit => Inv
    BY InitListInv DEF PartsInit
  <1>2. Inv /\ [PartsNext]_<<about, vars, state>> => Inv'
    <2> SUFFICES ASSUME Inv, [PartsNext]_<<about, vars, state>>, about' = "page"
                 PROVE  ListInv'
      OBVIOUS
    <2>1. about = "page" /\ ListInv /\ (Page!Next \/ UNCHANGED state)
      BY DEF PartsNext
    <2>2. CASE Page!Next
      BY <2>1, <2>2, ApiStep, BrowserStep, PersonStep DEF Page!Next
    <2>3. CASE UNCHANGED state
      BY <2>1, <2>3, SameListInv
    <2>4. QED
      BY <2>1, <2>2, <2>3
  <1>3. Inv => PageSound
    BY ListInvMeans DEF PageSound
  <1> HIDE DEF Inv
  <1>4. QED
    BY <1>1, <1>2, <1>3, PTL DEF PartsSpec

=============================================================================
