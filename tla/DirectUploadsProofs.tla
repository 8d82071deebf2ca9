------------------------ MODULE DirectUploadsProofs ------------------------
(***************************************************************************)
(* Proofs about DirectUploads, for any number of uploads, requests and     *)
(* faults of any kind.                                                     *)
(***************************************************************************)
EXTENDS DirectUploads, FiniteSetTheorems, TLAPS

USE SizeAssumption, QuotaAssumption, FaultsAssumption
USE DEF Opened, Gone, Deleted, Exists, Listed, Assembles, TypeFits

\* The invariant behind all of them: what a handler that has reached a step
\* may rely on, whatever the other handlers did in between.  A handler that
\* creates an upload is alone on it, and has no row yet.
CreatorInv ==
    /\ \A p \in Procs, u \in Uploads, at \in {"opened", "undo"} :
            Doing(p, "create", u, at) => status[u] = "none"
    /\ \A p \in Procs, u \in Uploads :
            Doing(p, "create", u, "opened") => multi[u] # "absent"
    /\ \A p, q \in Procs, u \in Uploads, at, bt \in {"opened", "undo"} :
            Doing(p, "create", u, at) /\ Doing(q, "create", u, bt) => p = q

\* Every other handler, and every signed URL, found the row.
RowInv ==
    /\ \A p \in Procs, u \in Uploads, op \in Finishing, at \in StepsOf("complete") :
            Doing(p, op, u, at) => status[u] # "none"
    /\ \A u \in urls : status[u] # "none"

\* The parts stay gone once finish dropped them, and so does the object.
DropInv ==
    \A p \in Procs, u \in Uploads, op \in Finishing :
        /\ Doing(p, op, u, "dropObject") => multi[u] = "absent"
        /\ Doing(p, op, u, "close") => multi[u] = "absent" /\ object[u] = "none"

HandlerInv == CreatorInv /\ RowInv /\ DropInv /\ EndedHoldsNothing

IInv == TypeOK /\ HandlerInv

-----------------------------------------------------------------------------
(***************************************************************************)
(* Type correctness.                                                       *)
(***************************************************************************)

LEMMA WorkOf ==
    ASSUME NEW u \in Uploads
    PROVE  /\ \A at \in {"opened", "undo"} : [op |-> "create", u |-> u, at |-> at] \in Work
           /\ \A op \in {"abort", "expire"}, at \in {"dropParts", "dropObject", "close"} :
                    [op |-> op, u |-> u, at |-> at] \in Work
           /\ \A at \in StepsOf("complete") : [op |-> "complete", u |-> u, at |-> at] \in Work
  BY DEF Work, StepsOf

LEMMA FinishWork ==
    ASSUME NEW u \in Uploads, NEW op \in Finishing,
           NEW at \in {"dropParts", "dropObject", "close"}
    PROVE  [op |-> op, u |-> u, at |-> at] \in Work
  BY WorkOf DEF Finishing, StepsOf

LEMMA CompleteWork ==
    ASSUME NEW u \in Uploads,
           NEW at \in {"head", "list", "assemble", "verify", "sniff", "commit", "reopen",
                       "dropParts", "dropObject", "close"}
    PROVE  [op |-> "complete", u |-> u, at |-> at] \in Work
  BY WorkOf DEF StepsOf

\* TypeOK holds in every reachable state.
THEOREM TypeCorrect == Safety => []TypeOK
  <1>1. Init => TypeOK
    BY DEF Init, TypeOK
  <1>2. TypeOK /\ [Next]_vars => TypeOK'
    <2> SUFFICES ASSUME TypeOK, [Next]_vars PROVE TypeOK'
      OBVIOUS
    <2> USE DEF NoFault, GoTo, Return, database, storage
    <2>1. ASSUME NEW u \in Uploads, SignParts(u) PROVE TypeOK'
      BY <2>1 DEF SignParts, TypeOK
    <2>2. ASSUME NEW u \in Uploads, PutParts(u) PROVE TypeOK'
      BY <2>2 DEF PutParts, TypeOK
    <2>3. ASSUME NEW u \in Uploads, Expire(u) PROVE TypeOK'
      BY <2>3 DEF Expire, TypeOK
    <2>4. ASSUME NEW p \in Procs, NEW u \in Uploads, BeginExpire(p, u) PROVE TypeOK'
      BY <2>4, WorkOf DEF BeginExpire, TypeOK
    <2>5. ASSUME NEW p \in Procs, NEW u \in Uploads, BeginCreate(p, u) PROVE TypeOK'
      BY <2>5, WorkOf DEF BeginCreate, TypeOK
    <2>6. ASSUME NEW p \in Procs, NEW u \in Uploads, BeginAbort(p, u) PROVE TypeOK'
      BY <2>6, WorkOf DEF BeginAbort, TypeOK
    <2>7. ASSUME NEW p \in Procs, NEW u \in Uploads, BeginComplete(p, u) PROVE TypeOK'
      BY <2>7, CompleteWork DEF BeginComplete, Moved, Charged, TypeOK
    <2>8. ASSUME NEW p \in Procs, NEW u \in Uploads, StorageFails(p, u) PROVE TypeOK'
      <3>1. PICK x \in Work \cup {Idle} : proc' = [proc EXCEPT ![p] = x]
        BY <2>8, CompleteWork DEF StorageFails
      <3>2. UNCHANGED <<database, storage, stale, urls>> /\ faults' \in 0..MaxFaults
        BY <2>8 DEF StorageFails, Fault, TypeOK
      <3>3. QED
        BY <3>1, <3>2 DEF TypeOK
    <2>9. ASSUME NEW p \in Procs, NEW u \in Uploads, LoseAssembled(p, u) PROVE TypeOK'
      <3>1. proc' \in [Procs -> Work \cup {Idle}]
        BY <2>9, CompleteWork DEF LoseAssembled, TypeOK
      <3>2. faults' \in 0..MaxFaults
        BY <2>9 DEF LoseAssembled, Fault, TypeOK
      <3>3. /\ object' \in [Uploads -> {"none", "good", "bad"}]
            /\ multi' \in [Uploads -> {"absent", "missing", "wrong", "good", "bad"}]
            /\ UNCHANGED <<database, stale, urls>>
        BY <2>9 DEF LoseAssembled, TypeOK
      <3>4. QED
        BY <3>1, <3>2, <3>3 DEF TypeOK
    <2>10. ASSUME NEW p \in Procs, NEW u \in Uploads, DatabaseFails(p, u) PROVE TypeOK'
      <3>1. PICK x \in Work \cup {Idle} : proc' = [proc EXCEPT ![p] = x]
        BY <2>10, WorkOf, CompleteWork DEF DatabaseFails
      <3>2. UNCHANGED <<database, storage, stale, urls>> /\ faults' \in 0..MaxFaults
        BY <2>10 DEF DatabaseFails, Fault, TypeOK
      <3>3. QED
        BY <3>1, <3>2 DEF TypeOK
    <2>11. ASSUME NEW p \in Procs, Crash(p) PROVE TypeOK'
      BY <2>11 DEF Crash, Fault, TypeOK
    <2>12. ASSUME NEW p \in Procs, NEW u \in Uploads, CreateStep(p, u) PROVE TypeOK'
      <3>1. CASE InsertUpload(p, u)
        BY <3>1 DEF InsertUpload, Fits, TypeOK, Charged
      <3>2. CASE RefuseUpload(p, u)
        BY <3>2, WorkOf DEF RefuseUpload, TypeOK
      <3>3. CASE UndoCreate(p, u)
        BY <3>3 DEF UndoCreate, TypeOK
      <3>4. QED
        BY <2>12, <3>1, <3>2, <3>3 DEF CreateStep
    <2>13. ASSUME NEW p \in Procs, NEW u \in Uploads, NEW op \in Finishing,
                  DropParts(p, op, u) \/ DropObject(p, op, u) \/ Close(p, op, u)
           PROVE TypeOK'
      <3>1. CASE DropParts(p, op, u)
        BY <3>1, FinishWork DEF DropParts, TypeOK
      <3>2. CASE DropObject(p, op, u)
        BY <3>2, FinishWork DEF DropObject, TypeOK
      <3>3. CASE Close(p, op, u)
        <4>1. FinishAs(op) \in Ended
          BY DEF Finishing, FinishAs, Ended
        <4>2. status' \in [Uploads -> {"none"} \cup Charged \cup Ended]
          BY <3>3, <4>1 DEF Close, Moved, TypeOK
        <4>3. used' \in Nat
          BY <3>3 DEF Close, Released, TypeOK
        <4>4. QED
          BY <3>3, <4>2, <4>3 DEF Close, TypeOK
      <3>4. QED
        BY <2>13, <3>1, <3>2, <3>3
    <2>14. ASSUME NEW p \in Procs, NEW u \in Uploads, CompleteStep(p, u) PROVE TypeOK'
      <3>1. CASE HeadObject(p, u)
        BY <3>1, CompleteWork DEF HeadObject, TypeOK
      <3>2. CASE ListParts(p, u)
        BY <3>2, CompleteWork DEF ListParts, TypeOK
      <3>3. CASE Assemble(p, u)
        <4>1. PICK x \in Work : proc' = [proc EXCEPT ![p] = x]
          BY <3>3, CompleteWork DEF Assemble
        <4>2. /\ object' \in [Uploads -> {"none", "good", "bad"}]
              /\ multi' \in [Uploads -> {"absent", "missing", "wrong", "good", "bad"}]
              /\ UNCHANGED <<database, stale, urls, faults>>
          <5>1. CASE multi[u] \in {"good", "bad"}
            <6>1. /\ object' = [object EXCEPT ![u] = multi[u]]
                  /\ multi' = [multi EXCEPT ![u] = "absent"]
                  /\ UNCHANGED <<database, stale, urls, faults>>
              BY <3>3, <5>1 DEF Assemble
            <6>2. QED
              BY <5>1, <6>1 DEF TypeOK
          <5>2. CASE multi[u] \notin {"good", "bad"}
            BY <3>3, <5>2 DEF Assemble, TypeOK
          <5>3. QED
            BY <5>1, <5>2
        <4>3. QED
          BY <4>1, <4>2 DEF TypeOK
      <3>4. CASE VerifySize(p, u)
        BY <3>4, CompleteWork DEF VerifySize, TypeOK
      <3>5. CASE SniffType(p, u)
        BY <3>5, CompleteWork DEF SniffType, TypeOK
      <3>6. CASE CommitDocument(p, u)
        BY <3>6 DEF CommitDocument, Moved, TypeOK, Charged
      <3>7. CASE Reopen(p, u)
        BY <3>7 DEF Reopen, Moved, TypeOK, Charged
      <3>8. QED
        BY <2>14, <3>1, <3>2, <3>3, <3>4, <3>5, <3>6, <3>7 DEF CompleteStep
    <2>15. CASE UNCHANGED vars
      BY <2>15 DEF TypeOK, vars
    <2>16. QED
      BY <2>1, <2>2, <2>3, <2>4, <2>5, <2>6, <2>7, <2>8, <2>9, <2>10, <2>11,
         <2>12, <2>13, <2>14, <2>15 DEF Next, Continue, FinishStep, Procs
  <1>3. QED
    BY <1>1, <1>2, PTL DEF Safety

-----------------------------------------------------------------------------
(***************************************************************************)
(* The quota.                                                              *)
(***************************************************************************)

\* Of all the steps only the reservation, which is conditional, and the
\* transaction of finish, which gives back, touch the counter.
LEMMA UsedMoves ==
    ASSUME TypeOK, [Next]_vars
    PROVE  \/ used' = used
           \/ used' \in 0..Quota
           \/ used' \in 0..used
  <1>1. ASSUME NEW p \in Procs, NEW u \in Uploads, InsertUpload(p, u)
        PROVE  used' \in 0..Quota
    BY <1>1 DEF InsertUpload, Fits, TypeOK
  <1>2. ASSUME NEW p \in Procs, NEW u \in Uploads, NEW op \in Finishing, Close(p, op, u)
        PROVE  used' \in 0..used
    BY <1>2 DEF Close, Released, TypeOK
  <1>3. ASSUME NEW p \in Procs, NEW u \in Uploads, StorageFails(p, u)
        PROVE  used' = used
    BY <1>3 DEF StorageFails, database
  <1>4. ASSUME NEW p \in Procs, NEW u \in Uploads, DatabaseFails(p, u)
        PROVE  used' = used
    BY <1>4 DEF DatabaseFails, database
  <1>5. ASSUME NEW p \in Procs, NEW u \in Uploads, CompleteStep(p, u)
        PROVE  used' = used
    BY <1>5 DEF CompleteStep, HeadObject, ListParts, Assemble, VerifySize, SniffType,
                CommitDocument, Reopen, database
  <1>6. ASSUME NEW p \in Procs, NEW u \in Uploads,
               BeginCreate(p, u) \/ BeginAbort(p, u) \/ BeginComplete(p, u)
                 \/ BeginExpire(p, u) \/ LoseAssembled(p, u)
        PROVE  used' = used
    BY <1>6 DEF BeginCreate, BeginAbort, BeginComplete, BeginExpire, LoseAssembled, database
  <1>7. QED
    BY <1>1, <1>2, <1>3, <1>4, <1>5, <1>6
       DEF Next, Continue, CreateStep, FinishStep, RefuseUpload, UndoCreate, DropParts,
           DropObject, SignParts, PutParts, Expire, Crash, Procs, database, vars

\* Uploads that race for the last bytes never reserve more than the quota, and
\* nothing is ever reserved twice beyond it.
THEOREM QuotaHolds == Safety => []QuotaKept
  <1>1. Init => QuotaKept
    BY DEF Init, QuotaKept
  <1>2. TypeOK /\ QuotaKept /\ [Next]_vars => QuotaKept'
    <2> SUFFICES ASSUME TypeOK, QuotaKept, [Next]_vars PROVE QuotaKept'
      OBVIOUS
    <2>1. used \in Nat /\ used <= Quota
      BY DEF TypeOK, QuotaKept
    <2>2. QED
      BY <2>1, UsedMoves DEF QuotaKept
  <1>3. QED
    BY <1>1, <1>2, TypeCorrect, PTL DEF Safety

-----------------------------------------------------------------------------
(***************************************************************************)
(* What a handler may rely on.                                             *)
(***************************************************************************)

\* Only the handler that creates the upload can touch it while it has no row:
\* the others found a row (RowInv).
LEMMA CreatorStep ==
    ASSUME TypeOK, HandlerInv, [Next]_vars
    PROVE  CreatorInv'
  <1> USE DEF NoFault, GoTo, Return, database, storage, Doing, Idle, TypeOK,
              HandlerInv, CreatorInv
  <1>1. ASSUME NEW u \in Uploads,
               SignParts(u)
                 \/ PutParts(u)
                 \/ Expire(u)
        PROVE  CreatorInv'
    BY <1>1 DEF SignParts, PutParts, Expire
  <1>2. ASSUME NEW p \in Procs,
               Crash(p)
        PROVE  CreatorInv'
    BY <1>2 DEF Crash
  <1>3. ASSUME NEW p \in Procs, NEW u \in Uploads,
               BeginCreate(p, u)
        PROVE  CreatorInv'
    BY <1>3 DEF BeginCreate
  <1>4. ASSUME NEW p \in Procs, NEW u \in Uploads,
               InsertUpload(p, u)
        PROVE  CreatorInv'
    BY <1>4 DEF InsertUpload
  <1>5. ASSUME NEW p \in Procs, NEW u \in Uploads,
               RefuseUpload(p, u)
        PROVE  CreatorInv'
    BY <1>5 DEF RefuseUpload
  <1>6. ASSUME NEW p \in Procs, NEW u \in Uploads,
               UndoCreate(p, u)
        PROVE  CreatorInv'
    BY <1>6 DEF UndoCreate
  <1>7. ASSUME NEW p \in Procs, NEW u \in Uploads,
               BeginAbort(p, u)
                 \/ BeginComplete(p, u)
                 \/ BeginExpire(p, u)
        PROVE  CreatorInv'
    BY <1>7 DEF BeginAbort, BeginComplete, BeginExpire, Open, Moved
  <1>8. ASSUME NEW p \in Procs, NEW op \in Finishing, NEW u \in Uploads,
               DropParts(p, op, u)
        PROVE  CreatorInv'
    BY <1>8 DEF DropParts, RowInv, Finishing, StepsOf
  <1>9. ASSUME NEW p \in Procs, NEW op \in Finishing, NEW u \in Uploads,
               DropObject(p, op, u)
        PROVE  CreatorInv'
    BY <1>9 DEF DropObject
  <1>10. ASSUME NEW p \in Procs, NEW op \in Finishing, NEW u \in Uploads,
               Close(p, op, u)
        PROVE  CreatorInv'
    BY <1>10 DEF Close, Moved, RowInv, Finishing, StepsOf
  <1>11. ASSUME NEW p \in Procs, NEW u \in Uploads,
               HeadObject(p, u)
                 \/ ListParts(p, u)
                 \/ VerifySize(p, u)
                 \/ SniffType(p, u)
        PROVE  CreatorInv'
    <2>1. PICK at : GoTo(p, "complete", u, at)
      BY <1>11 DEF HeadObject, ListParts, VerifySize, SniffType
    <2>2. UNCHANGED <<database, storage>>
      BY <1>11 DEF HeadObject, ListParts, VerifySize, SniffType
    <2>3. QED
      BY <2>1, <2>2
  <1>12. ASSUME NEW p \in Procs, NEW u \in Uploads,
               Assemble(p, u)
        PROVE  CreatorInv'
    <2>1. PICK at : GoTo(p, "complete", u, at)
      BY <1>12 DEF Assemble
    <2>2. /\ status' = status
          /\ multi' = multi \/ multi' = [multi EXCEPT ![u] = "absent"]
      BY <1>12 DEF Assemble
    <2>3. status[u] # "none"
      BY <1>12 DEF Assemble, RowInv, Finishing, StepsOf
    <2>4. QED
      BY <2>1, <2>2, <2>3
  <1>13. ASSUME NEW p \in Procs, NEW u \in Uploads,
               LoseAssembled(p, u)
        PROVE  CreatorInv'
    BY <1>13 DEF LoseAssembled, RowInv, Finishing, StepsOf
  <1>14. ASSUME NEW p \in Procs, NEW u \in Uploads,
               CommitDocument(p, u)
        PROVE  CreatorInv'
    BY <1>14 DEF CommitDocument, Moved, RowInv, Finishing, StepsOf
  <1>15. ASSUME NEW p \in Procs, NEW u \in Uploads,
               Reopen(p, u)
        PROVE  CreatorInv'
    BY <1>15 DEF Reopen, Moved, RowInv, Finishing, StepsOf
  <1>16. ASSUME NEW p \in Procs, NEW u \in Uploads,
               StorageFails(p, u)
        PROVE  CreatorInv'
    BY <1>16 DEF StorageFails
  <1>17. ASSUME NEW p \in Procs, NEW u \in Uploads,
               DatabaseFails(p, u)
        PROVE  CreatorInv'
    BY <1>17 DEF DatabaseFails, Finishing
  <1>18. CASE UNCHANGED vars
    BY <1>18 DEF vars
  <1> HIDE DEF CreatorInv, NoFault, GoTo, Return, database, storage, Doing, Idle, TypeOK, HandlerInv
  <1>19. QED
    BY <1>1, <1>2, <1>3, <1>4, <1>5, <1>6, <1>7, <1>8, <1>9, <1>10, <1>11,
       <1>12, <1>13, <1>14, <1>15, <1>16, <1>17, <1>18
       DEF Next, Continue, CreateStep, FinishStep, CompleteStep, Procs

\* No step deletes a row.
LEMMA RowStep ==
    ASSUME TypeOK, HandlerInv, [Next]_vars
    PROVE  RowInv'
  <1> USE DEF NoFault, GoTo, Return, database, storage, Doing, Idle, TypeOK,
              HandlerInv, RowInv, StepsOf, Finishing, Moved
  <1>1. ASSUME NEW u \in Uploads,
               SignParts(u)
                 \/ PutParts(u)
                 \/ Expire(u)
        PROVE  RowInv'
    BY <1>1 DEF SignParts, PutParts, Expire
  <1>2. ASSUME NEW p \in Procs,
               Crash(p)
        PROVE  RowInv'
    BY <1>2 DEF Crash
  <1>3. ASSUME NEW p \in Procs, NEW u \in Uploads,
               BeginCreate(p, u)
        PROVE  RowInv'
    BY <1>3 DEF BeginCreate
  <1>4. ASSUME NEW p \in Procs, NEW u \in Uploads,
               InsertUpload(p, u)
        PROVE  RowInv'
    BY <1>4 DEF InsertUpload
  <1>5. ASSUME NEW p \in Procs, NEW u \in Uploads,
               RefuseUpload(p, u)
        PROVE  RowInv'
    BY <1>5 DEF RefuseUpload
  <1>6. ASSUME NEW p \in Procs, NEW u \in Uploads,
               UndoCreate(p, u)
        PROVE  RowInv'
    BY <1>6 DEF UndoCreate
  <1>7. ASSUME NEW p \in Procs, NEW u \in Uploads,
               BeginAbort(p, u)
                 \/ BeginComplete(p, u)
                 \/ BeginExpire(p, u)
        PROVE  RowInv'
    BY <1>7 DEF BeginAbort, BeginComplete, BeginExpire, Open
  <1>8. ASSUME NEW p \in Procs, NEW op \in Finishing, NEW u \in Uploads,
               DropParts(p, op, u)
        PROVE  RowInv'
    BY <1>8 DEF DropParts
  <1>9. ASSUME NEW p \in Procs, NEW op \in Finishing, NEW u \in Uploads,
               DropObject(p, op, u)
        PROVE  RowInv'
    BY <1>9 DEF DropObject
  <1>10. ASSUME NEW p \in Procs, NEW op \in Finishing, NEW u \in Uploads,
               Close(p, op, u)
        PROVE  RowInv'
    BY <1>10 DEF Close, FinishAs
  <1>11. ASSUME NEW p \in Procs, NEW u \in Uploads,
               HeadObject(p, u)
                 \/ ListParts(p, u)
                 \/ VerifySize(p, u)
                 \/ SniffType(p, u)
        PROVE  RowInv'
    BY <1>11 DEF HeadObject, ListParts, VerifySize, SniffType
  <1>12. ASSUME NEW p \in Procs, NEW u \in Uploads,
               Assemble(p, u)
        PROVE  RowInv'
    BY <1>12 DEF Assemble
  <1>13. ASSUME NEW p \in Procs, NEW u \in Uploads,
               LoseAssembled(p, u)
        PROVE  RowInv'
    BY <1>13 DEF LoseAssembled
  <1>14. ASSUME NEW p \in Procs, NEW u \in Uploads,
               CommitDocument(p, u)
        PROVE  RowInv'
    BY <1>14 DEF CommitDocument
  <1>15. ASSUME NEW p \in Procs, NEW u \in Uploads,
               Reopen(p, u)
        PROVE  RowInv'
    BY <1>15 DEF Reopen
  <1>16. ASSUME NEW p \in Procs, NEW u \in Uploads,
               StorageFails(p, u)
        PROVE  RowInv'
    BY <1>16 DEF StorageFails
  <1>17. ASSUME NEW p \in Procs, NEW u \in Uploads,
               DatabaseFails(p, u)
        PROVE  RowInv'
    BY <1>17 DEF DatabaseFails
  <1>18. CASE UNCHANGED vars
    BY <1>18 DEF vars
  <1> HIDE DEF RowInv, NoFault, GoTo, Return, database, storage, Doing, Idle, TypeOK, HandlerInv
  <1>19. QED
    BY <1>1, <1>2, <1>3, <1>4, <1>5, <1>6, <1>7, <1>8, <1>9, <1>10, <1>11,
       <1>12, <1>13, <1>14, <1>15, <1>16, <1>17, <1>18
       DEF Next, Continue, CreateStep, FinishStep, CompleteStep, Procs

\* Nothing creates parts or an object for an upload that has a row and whose
\* multipart upload is gone.
LEMMA DropStep ==
    ASSUME TypeOK, HandlerInv, [Next]_vars
    PROVE  DropInv'
  <1> USE DEF NoFault, GoTo, Return, database, storage, Doing, Idle, TypeOK,
              HandlerInv, DropInv, Finishing
  <1>1. ASSUME NEW u \in Uploads,
               SignParts(u)
                 \/ PutParts(u)
                 \/ Expire(u)
        PROVE  DropInv'
    BY <1>1 DEF SignParts, PutParts, Expire
  <1>2. ASSUME NEW p \in Procs,
               Crash(p)
        PROVE  DropInv'
    BY <1>2 DEF Crash
  <1>3. ASSUME NEW p \in Procs, NEW u \in Uploads,
               BeginCreate(p, u)
        PROVE  DropInv'
    BY <1>3 DEF BeginCreate, RowInv, StepsOf
  <1>4. ASSUME NEW p \in Procs, NEW u \in Uploads,
               InsertUpload(p, u)
        PROVE  DropInv'
    BY <1>4 DEF InsertUpload
  <1>5. ASSUME NEW p \in Procs, NEW u \in Uploads,
               RefuseUpload(p, u)
        PROVE  DropInv'
    BY <1>5 DEF RefuseUpload
  <1>6. ASSUME NEW p \in Procs, NEW u \in Uploads,
               UndoCreate(p, u)
        PROVE  DropInv'
    BY <1>6 DEF UndoCreate
  <1>7. ASSUME NEW p \in Procs, NEW u \in Uploads,
               BeginAbort(p, u)
                 \/ BeginComplete(p, u)
                 \/ BeginExpire(p, u)
        PROVE  DropInv'
    BY <1>7 DEF BeginAbort, BeginComplete, BeginExpire
  <1>8. ASSUME NEW p \in Procs, NEW op \in Finishing, NEW u \in Uploads,
               DropParts(p, op, u)
        PROVE  DropInv'
    BY <1>8 DEF DropParts
  <1>9. ASSUME NEW p \in Procs, NEW op \in Finishing, NEW u \in Uploads,
               DropObject(p, op, u)
        PROVE  DropInv'
    BY <1>9 DEF DropObject
  <1>10. ASSUME NEW p \in Procs, NEW op \in Finishing, NEW u \in Uploads,
               Close(p, op, u)
        PROVE  DropInv'
    BY <1>10 DEF Close
  <1>11. ASSUME NEW p \in Procs, NEW u \in Uploads,
               HeadObject(p, u)
                 \/ ListParts(p, u)
                 \/ VerifySize(p, u)
                 \/ SniffType(p, u)
        PROVE  DropInv'
    BY <1>11 DEF HeadObject, ListParts, VerifySize, SniffType
  <1>12. ASSUME NEW p \in Procs, NEW u \in Uploads,
               Assemble(p, u)
        PROVE  DropInv'
    BY <1>12 DEF Assemble
  <1>13. ASSUME NEW p \in Procs, NEW u \in Uploads,
               LoseAssembled(p, u)
        PROVE  DropInv'
    BY <1>13 DEF LoseAssembled
  <1>14. ASSUME NEW p \in Procs, NEW u \in Uploads,
               CommitDocument(p, u)
        PROVE  DropInv'
    BY <1>14 DEF CommitDocument
  <1>15. ASSUME NEW p \in Procs, NEW u \in Uploads,
               Reopen(p, u)
        PROVE  DropInv'
    BY <1>15 DEF Reopen
  <1>16. ASSUME NEW p \in Procs, NEW u \in Uploads,
               StorageFails(p, u)
        PROVE  DropInv'
    BY <1>16 DEF StorageFails
  <1>17. ASSUME NEW p \in Procs, NEW u \in Uploads,
               DatabaseFails(p, u)
        PROVE  DropInv'
    BY <1>17 DEF DatabaseFails
  <1>18. CASE UNCHANGED vars
    BY <1>18 DEF vars
  <1> HIDE DEF DropInv, NoFault, GoTo, Return, database, storage, Doing, Idle, TypeOK, HandlerInv
  <1>19. QED
    BY <1>1, <1>2, <1>3, <1>4, <1>5, <1>6, <1>7, <1>8, <1>9, <1>10, <1>11,
       <1>12, <1>13, <1>14, <1>15, <1>16, <1>17, <1>18
       DEF Next, Continue, CreateStep, FinishStep, CompleteStep, Procs

\* The row moves to an ended state after both were dropped.
LEMMA EndedStep ==
    ASSUME TypeOK, HandlerInv, [Next]_vars
    PROVE  EndedHoldsNothing'
  <1> USE DEF NoFault, GoTo, Return, database, storage, Doing, Idle, TypeOK,
              HandlerInv, EndedHoldsNothing, Ended, Finishing, Moved
  <1>1. ASSUME NEW u \in Uploads,
               SignParts(u)
                 \/ PutParts(u)
                 \/ Expire(u)
        PROVE  EndedHoldsNothing'
    BY <1>1 DEF SignParts, PutParts, Expire
  <1>2. ASSUME NEW p \in Procs,
               Crash(p)
        PROVE  EndedHoldsNothing'
    BY <1>2 DEF Crash
  <1>3. ASSUME NEW p \in Procs, NEW u \in Uploads,
               BeginCreate(p, u)
        PROVE  EndedHoldsNothing'
    BY <1>3 DEF BeginCreate
  <1>4. ASSUME NEW p \in Procs, NEW u \in Uploads,
               InsertUpload(p, u)
        PROVE  EndedHoldsNothing'
    BY <1>4 DEF InsertUpload
  <1>5. ASSUME NEW p \in Procs, NEW u \in Uploads,
               RefuseUpload(p, u)
        PROVE  EndedHoldsNothing'
    BY <1>5 DEF RefuseUpload
  <1>6. ASSUME NEW p \in Procs, NEW u \in Uploads,
               UndoCreate(p, u)
        PROVE  EndedHoldsNothing'
    BY <1>6 DEF UndoCreate
  <1>7. ASSUME NEW p \in Procs, NEW u \in Uploads,
               BeginAbort(p, u)
                 \/ BeginComplete(p, u)
                 \/ BeginExpire(p, u)
        PROVE  EndedHoldsNothing'
    BY <1>7 DEF BeginAbort, BeginComplete, BeginExpire
  <1>8. ASSUME NEW p \in Procs, NEW op \in Finishing, NEW u \in Uploads,
               DropParts(p, op, u)
        PROVE  EndedHoldsNothing'
    BY <1>8 DEF DropParts
  <1>9. ASSUME NEW p \in Procs, NEW op \in Finishing, NEW u \in Uploads,
               DropObject(p, op, u)
        PROVE  EndedHoldsNothing'
    BY <1>9 DEF DropObject
  <1>10. ASSUME NEW p \in Procs, NEW op \in Finishing, NEW u \in Uploads,
               Close(p, op, u)
        PROVE  EndedHoldsNothing'
    BY <1>10 DEF Close, DropInv, FinishFrom
  <1>11. ASSUME NEW p \in Procs, NEW u \in Uploads,
               HeadObject(p, u)
                 \/ ListParts(p, u)
                 \/ VerifySize(p, u)
                 \/ SniffType(p, u)
        PROVE  EndedHoldsNothing'
    BY <1>11 DEF HeadObject, ListParts, VerifySize, SniffType
  <1>12. ASSUME NEW p \in Procs, NEW u \in Uploads,
               Assemble(p, u)
        PROVE  EndedHoldsNothing'
    BY <1>12 DEF Assemble
  <1>13. ASSUME NEW p \in Procs, NEW u \in Uploads,
               LoseAssembled(p, u)
        PROVE  EndedHoldsNothing'
    BY <1>13 DEF LoseAssembled
  <1>14. ASSUME NEW p \in Procs, NEW u \in Uploads,
               CommitDocument(p, u)
        PROVE  EndedHoldsNothing'
    BY <1>14 DEF CommitDocument
  <1>15. ASSUME NEW p \in Procs, NEW u \in Uploads,
               Reopen(p, u)
        PROVE  EndedHoldsNothing'
    BY <1>15 DEF Reopen
  <1>16. ASSUME NEW p \in Procs, NEW u \in Uploads,
               StorageFails(p, u)
        PROVE  EndedHoldsNothing'
    BY <1>16 DEF StorageFails
  <1>17. ASSUME NEW p \in Procs, NEW u \in Uploads,
               DatabaseFails(p, u)
        PROVE  EndedHoldsNothing'
    BY <1>17 DEF DatabaseFails
  <1>18. CASE UNCHANGED vars
    BY <1>18 DEF vars
  <1> HIDE DEF EndedHoldsNothing, NoFault, GoTo, Return, database, storage, Doing, Idle,
               TypeOK, HandlerInv
  <1>19. QED
    BY <1>1, <1>2, <1>3, <1>4, <1>5, <1>6, <1>7, <1>8, <1>9, <1>10, <1>11,
       <1>12, <1>13, <1>14, <1>15, <1>16, <1>17, <1>18
       DEF Next, Continue, CreateStep, FinishStep, CompleteStep, Procs

\* The handlers' invariant holds in every reachable state.
LEMMA HandlerCorrect == Safety => []HandlerInv
  <1>1. Init => HandlerInv
    BY DEF Init, HandlerInv, CreatorInv, RowInv, DropInv, EndedHoldsNothing, Doing, Idle,
           Ended, Procs
  <1>2. TypeOK /\ HandlerInv /\ [Next]_vars => HandlerInv'
    BY CreatorStep, RowStep, DropStep, EndedStep DEF HandlerInv
  <1>3. QED
    BY <1>1, <1>2, TypeCorrect, PTL DEF Safety

\* Storage keeps neither parts nor an object of an upload that was aborted,
\* expired or rejected, whoever else was working on it.
THEOREM EndedHolds == Safety => []EndedHoldsNothing
  <1>1. HandlerInv => EndedHoldsNothing
    BY DEF HandlerInv
  <1>2. QED
    BY <1>1, HandlerCorrect, PTL

-----------------------------------------------------------------------------
(***************************************************************************)
(* What becomes of the row.                                                *)
(***************************************************************************)

\* The transitions of a row: a new row, a completer that claims it, commits or
\* gives it back, and the finish of an open one.
RowMoves(u) ==
    \/ status'[u] = status[u]
    \/ status[u] = "none"       /\ status'[u] = "pending"
    \/ status[u] = "pending"    /\ status'[u] \in {"completing"} \cup Ended
    \/ status[u] = "completing" /\ status'[u] \in {"pending"} \cup Ended
    \/ status[u] = "completing" /\ status'[u] = "completed" /\ u \in docs'

RowsGoOn == docs \subseteq docs' /\ \A u \in Uploads : RowMoves(u)

\* Every step takes every row along one of them: all writes but the first are
\* conditional on the status.
LEMMA RowsMove ==
    ASSUME TypeOK, HandlerInv, [Next]_vars
    PROVE  RowsGoOn
  <1>1. ASSUME NEW p \in Procs, NEW u \in Uploads, InsertUpload(p, u)
        PROVE  RowsGoOn
    <2>1. status[u] = "none"
      BY <1>1 DEF InsertUpload, HandlerInv, CreatorInv
    <2>2. QED
      BY <1>1, <2>1 DEF InsertUpload, storage, RowsGoOn, RowMoves, TypeOK
  <1>2. ASSUME NEW p \in Procs, NEW u \in Uploads, BeginComplete(p, u)
        PROVE  RowsGoOn
    BY <1>2 DEF BeginComplete, Moved, RowsGoOn, RowMoves, TypeOK
  <1>3. ASSUME NEW p \in Procs, NEW u \in Uploads, NEW op \in Finishing, Close(p, op, u)
        PROVE  RowsGoOn
    <2>1. FinishFrom(op) \subseteq {"pending", "completing"} /\ FinishAs(op) \in Ended
      BY DEF Finishing, FinishFrom, FinishAs, Ended, Open
    <2>2. docs' = docs /\ status' = Moved(u, FinishFrom(op), FinishAs(op))
      BY <1>3 DEF Close
    <2>3. QED
      BY <2>1, <2>2 DEF Moved, RowsGoOn, RowMoves, TypeOK
  <1>4. ASSUME NEW p \in Procs, NEW u \in Uploads, CommitDocument(p, u)
        PROVE  RowsGoOn
    BY <1>4 DEF CommitDocument, Moved, RowsGoOn, RowMoves, TypeOK
  <1>5. ASSUME NEW p \in Procs, NEW u \in Uploads, Reopen(p, u)
        PROVE  RowsGoOn
    BY <1>5 DEF Reopen, Moved, RowsGoOn, RowMoves, TypeOK
  <1>6. CASE UNCHANGED <<status, docs>>
    BY <1>6 DEF RowsGoOn, RowMoves
  <1>7. ASSUME NEW p \in Procs, NEW u \in Uploads,
               \/ BeginCreate(p, u) \/ BeginAbort(p, u) \/ BeginExpire(p, u)
               \/ RefuseUpload(p, u) \/ UndoCreate(p, u)
               \/ HeadObject(p, u) \/ ListParts(p, u) \/ Assemble(p, u)
               \/ VerifySize(p, u) \/ SniffType(p, u)
               \/ StorageFails(p, u) \/ LoseAssembled(p, u) \/ DatabaseFails(p, u)
        PROVE  RowsGoOn
    BY <1>6, <1>7 DEF BeginCreate, BeginAbort, BeginExpire, RefuseUpload, UndoCreate, HeadObject,
                ListParts, Assemble, VerifySize, SniffType, StorageFails, LoseAssembled,
                DatabaseFails, database
  <1>8. ASSUME NEW u \in Uploads, SignParts(u) \/ PutParts(u) \/ Expire(u)
        PROVE  RowsGoOn
    BY <1>6, <1>8 DEF SignParts, PutParts, Expire, database
  <1>9. ASSUME NEW p \in Procs, NEW u \in Uploads, NEW op \in Finishing,
               DropParts(p, op, u) \/ DropObject(p, op, u)
        PROVE  RowsGoOn
    BY <1>6, <1>9 DEF DropParts, DropObject, database
  <1>10. ASSUME NEW p \in Procs, Crash(p) PROVE RowsGoOn
    BY <1>6, <1>10 DEF Crash, database
  <1>11. CASE UNCHANGED vars
    BY <1>6, <1>11 DEF vars
  <1>12. QED
    BY <1>1, <1>2, <1>3, <1>4, <1>5, <1>7, <1>8, <1>9, <1>10, <1>11
       DEF Next, Continue, CreateStep, FinishStep, CompleteStep, Procs

\* A completed upload always has its document row.
THEOREM CompletedHolds == Safety => []CompletedHasDocument
  <1>1. Init => CompletedHasDocument
    BY DEF Init, CompletedHasDocument
  <1>2. TypeOK /\ HandlerInv /\ CompletedHasDocument /\ [Next]_vars => CompletedHasDocument'
    BY RowsMove DEF RowsGoOn, CompletedHasDocument, RowMoves, Ended
  <1>3. QED
    BY <1>1, <1>2, TypeCorrect, HandlerCorrect, PTL DEF Safety

\* No step of any handler moves an upload that has ended or completed.
THEOREM EndedStays == Safety => EndedIsFinal
  <1>1. TypeOK /\ HandlerInv /\ [Next]_vars
          => [\A u \in Uploads : status[u] \in Ended \cup {"completed"}
                 => status'[u] = status[u]]_vars
    BY RowsMove DEF RowsGoOn, RowMoves, Ended
  <1>2. QED
    BY <1>1, TypeCorrect, HandlerCorrect, PTL DEF Safety, EndedIsFinal

-----------------------------------------------------------------------------
(***************************************************************************)
(* The quota counter.                                                      *)
(***************************************************************************)

LEMMA BytesCounted ==
    ASSUME NEW u \in Uploads
    PROVE  IsFiniteSet(Bytes(u)) /\ Cardinality(Bytes(u)) = SizeOf[u]
  <1>1. IsFiniteSet(1..SizeOf[u]) /\ Cardinality(1..SizeOf[u]) = SizeOf[u]
    BY FS_Interval
  <1>2. IsFiniteSet({u}) /\ Cardinality({u}) = 1
    BY FS_Singleton
  <1>3. /\ IsFiniteSet({u} \X (1..SizeOf[u]))
        /\ Cardinality({u} \X (1..SizeOf[u])) = 1 * SizeOf[u]
    BY <1>1, <1>2, FS_Product
  <1>4. QED
    BY <1>3 DEF Bytes

LEMMA BytesApart ==
    ASSUME NEW u, NEW v, u # v
    PROVE  Bytes(u) \cap Bytes(v) = {}
  BY DEF Bytes

LEMMA ReservedBytes == \A b : b \in Reserved
                          <=> \E v \in Uploads : status[v] \in Charged /\ b \in Bytes(v)
  BY DEF Reserved

\* A reservation adds the bytes of its upload to what is reserved, and a release
\* takes them away.
LEMMA ReservedMoves ==
    ASSUME NEW u \in Uploads, \A v \in Uploads \ {u} : status'[v] = status[v],
           IsFiniteSet(Reserved)
    PROVE  /\ status[u] \in Charged /\ status'[u] \in Charged => Reserved' = Reserved
           /\ status[u] \notin Charged /\ status'[u] \in Charged =>
                  /\ IsFiniteSet(Reserved')
                  /\ Cardinality(Reserved') = Cardinality(Reserved) + SizeOf[u]
           /\ status[u] \in Charged /\ status'[u] \notin Charged =>
                  /\ IsFiniteSet(Reserved')
                  /\ Cardinality(Reserved') = Cardinality(Reserved) - SizeOf[u]
                  /\ Cardinality(Reserved) >= SizeOf[u]
  <1>1. \A b : b \in Reserved'
                  <=> \E v \in Uploads : status'[v] \in Charged /\ b \in Bytes(v)
    BY DEF Reserved, Bytes
  <1>2. Cardinality(Reserved) \in Nat /\ SizeOf[u] \in Nat
    BY FS_CardinalityType
  <1>3. CASE status[u] \in Charged /\ status'[u] \in Charged
    <2>1. \A b : b \in Reserved' <=> b \in Reserved
      BY <1>1, <1>3, ReservedBytes
    <2>2. QED
      BY <1>3, <2>1
  <1>4. CASE status[u] \notin Charged /\ status'[u] \in Charged
    <2>1. \A b : b \in Reserved' <=> b \in Reserved \cup Bytes(u)
      BY <1>1, <1>4, ReservedBytes
    <2>2. Reserved' = Reserved \cup Bytes(u)
      BY <2>1
    <2>3. \A b \in Reserved : b \notin Bytes(u)
      BY <1>4, ReservedBytes, BytesApart
    <2>4. Cardinality(Reserved \cap Bytes(u)) = 0
      <3>1. Reserved \cap Bytes(u) = {}
        BY <2>3
      <3>2. QED
        BY <3>1, FS_EmptySet
    <2>5. IsFiniteSet(Reserved') /\ Cardinality(Reserved') = Cardinality(Reserved) + SizeOf[u]
      <3>1. IsFiniteSet(Bytes(u)) /\ Cardinality(Bytes(u)) = SizeOf[u]
        BY BytesCounted
      <3>2. /\ IsFiniteSet(Reserved \cup Bytes(u))
            /\ Cardinality(Reserved \cup Bytes(u))
                   = Cardinality(Reserved) + Cardinality(Bytes(u))
                       - Cardinality(Reserved \cap Bytes(u))
        BY <3>1, FS_Union
      <3>3. QED
        BY <1>2, <2>2, <2>4, <3>1, <3>2
    <2>6. QED
      BY <1>4, <2>5
  <1>5. CASE status[u] \in Charged /\ status'[u] \notin Charged
    <2>1. \A b \in Bytes(u) : b \in Reserved
      BY <1>5, ReservedBytes
    <2>2. \A b : b \in Reserved' <=> b \in Reserved \ Bytes(u)
      <3>1. \A b : b \in Reserved' => b \in Reserved /\ b \notin Bytes(u)
        BY <1>1, <1>5, ReservedBytes, BytesApart
      <3>2. \A b : b \in Reserved /\ b \notin Bytes(u) => b \in Reserved'
        BY <1>1, <1>5, ReservedBytes
      <3>3. QED
        BY <3>1, <3>2
    <2>3. Reserved' = Reserved \ Bytes(u)
      BY <2>2
    <2>4. Reserved \cap Bytes(u) = Bytes(u)
      BY <2>1
    <2>5. /\ IsFiniteSet(Reserved')
          /\ Cardinality(Reserved') = Cardinality(Reserved) - SizeOf[u]
      <3>1. /\ IsFiniteSet(Reserved \ Bytes(u))
            /\ Cardinality(Reserved \ Bytes(u))
                   = Cardinality(Reserved) - Cardinality(Reserved \cap Bytes(u))
        BY FS_Difference
      <3>2. Cardinality(Reserved \cap Bytes(u)) = SizeOf[u]
        BY <2>4, BytesCounted
      <3>3. QED
        BY <2>3, <3>1, <3>2
    <2>6. Cardinality(Reserved') \in Nat
      BY <2>5, FS_CardinalityType
    <2>7. Cardinality(Reserved) >= SizeOf[u]
      BY <1>2, <2>5, <2>6
    <2>8. QED
      BY <1>5, <2>5, <2>7
  <1>6. QED
    BY <1>3, <1>4, <1>5

CountInv == IsFiniteSet(Reserved) /\ UsedIsReserved

\* Only the insert and the finish of an open upload change what is charged, and
\* they change the counter in the same transaction.
LEMMA CountStep ==
    ASSUME TypeOK, HandlerInv, CountInv, [Next]_vars
    PROVE  CountInv'
  <1> USE DEF CountInv, UsedIsReserved
  <1>1. ASSUME NEW p \in Procs, NEW u \in Uploads, InsertUpload(p, u)
        PROVE  CountInv'
    <2>1. status[u] = "none"
      BY <1>1 DEF InsertUpload, HandlerInv, CreatorInv
    <2>2. /\ used' = used + SizeOf[u]
          /\ status'[u] = "pending" /\ \A v \in Uploads \ {u} : status'[v] = status[v]
      BY <1>1 DEF InsertUpload, TypeOK
    <2>3. status[u] \notin Charged /\ status'[u] \in Charged
      BY <2>1, <2>2 DEF Charged
    <2>4. QED
      BY <2>2, <2>3, ReservedMoves
  <1>2. ASSUME NEW p \in Procs, NEW u \in Uploads, NEW op \in Finishing, Close(p, op, u)
        PROVE  CountInv'
    <2>1. /\ FinishFrom(op) \subseteq Charged /\ FinishAs(op) \notin Charged
      BY DEF Finishing, FinishFrom, FinishAs, Charged, Open
    <2>2. CASE status[u] \in FinishFrom(op)
      <3>1. /\ status'[u] = FinishAs(op) /\ \A v \in Uploads \ {u} : status'[v] = status[v]
            /\ used' = IF used >= SizeOf[u] THEN used - SizeOf[u] ELSE 0
        BY <1>2, <2>2 DEF Close, Moved, Released, TypeOK
      <3>2. status[u] \in Charged /\ status'[u] \notin Charged
        BY <2>1, <2>2, <3>1
      <3>3. QED
        BY <3>1, <3>2, ReservedMoves
    <2>3. CASE status[u] \notin FinishFrom(op)
      BY <1>2, <2>3 DEF Close, Moved, Reserved
    <2>4. QED
      BY <2>2, <2>3
  <1>3. ASSUME NEW p \in Procs, NEW u \in Uploads,
               BeginComplete(p, u) \/ CommitDocument(p, u) \/ Reopen(p, u)
        PROVE  CountInv'
    <2>1. /\ used' = used /\ \A v \in Uploads \ {u} : status'[v] = status[v]
          /\ status'[u] = status[u] \/ (status[u] \in Charged /\ status'[u] \in Charged)
      BY <1>3 DEF BeginComplete, CommitDocument, Reopen, Moved, Charged, TypeOK
    <2>2. CASE status[u] \in Charged /\ status'[u] \in Charged
      BY <2>1, <2>2, ReservedMoves
    <2>3. CASE status'[u] = status[u]
      <3>1. \A v \in Uploads : status'[v] = status[v]
        BY <2>1, <2>3
      <3>2. Reserved' = Reserved
        BY <3>1 DEF Reserved, Bytes
      <3>3. QED
        BY <2>1, <3>2
    <2>4. QED
      BY <2>1, <2>2, <2>3
  <1>4. CASE UNCHANGED <<status, used>>
    BY <1>4 DEF Reserved
  <1> HIDE DEF CountInv
  <1>5. ASSUME NEW p \in Procs, NEW u \in Uploads,
               \/ BeginCreate(p, u) \/ BeginAbort(p, u) \/ BeginExpire(p, u)
               \/ RefuseUpload(p, u) \/ UndoCreate(p, u)
               \/ HeadObject(p, u) \/ ListParts(p, u) \/ Assemble(p, u)
               \/ VerifySize(p, u) \/ SniffType(p, u)
               \/ StorageFails(p, u) \/ LoseAssembled(p, u) \/ DatabaseFails(p, u)
        PROVE  CountInv'
    BY <1>4, <1>5 DEF BeginCreate, BeginAbort, BeginExpire, RefuseUpload, UndoCreate, HeadObject,
                ListParts, Assemble, VerifySize, SniffType, StorageFails, LoseAssembled,
                DatabaseFails, database
  <1>6. ASSUME NEW u \in Uploads, SignParts(u) \/ PutParts(u) \/ Expire(u)
        PROVE  CountInv'
    BY <1>4, <1>6 DEF SignParts, PutParts, Expire, database
  <1>7. ASSUME NEW p \in Procs, NEW u \in Uploads, NEW op \in Finishing,
               DropParts(p, op, u) \/ DropObject(p, op, u)
        PROVE  CountInv'
    BY <1>4, <1>7 DEF DropParts, DropObject, database
  <1>8. ASSUME NEW p \in Procs, Crash(p) PROVE CountInv'
    BY <1>4, <1>8 DEF Crash, database
  <1>9. CASE UNCHANGED vars
    BY <1>4, <1>9 DEF vars
  <1>10. QED
    BY <1>1, <1>2, <1>3, <1>5, <1>6, <1>7, <1>8, <1>9
       DEF Next, Continue, CreateStep, FinishStep, CompleteStep, Procs

\* The counter of a workspace is the sum of what its open and completed uploads
\* reserve, and stays within the quota: no reservation is returned twice, and
\* GREATEST(0, ...) never hides one that was (workspaces.repo.ts releaseStorage).
THEOREM ReservationsHold == Safety => []ReservationsExact
  <1>1. Init => CountInv
    <2> SUFFICES ASSUME Init PROVE CountInv
      OBVIOUS
    <2>1. Reserved = {} /\ used = 0
      BY DEF Init, Reserved, Charged
    <2>2. QED
      BY <2>1, FS_EmptySet DEF CountInv, UsedIsReserved
  <1>2. TypeOK /\ HandlerInv /\ CountInv /\ [Next]_vars => CountInv'
    BY CountStep
  <1>3. CountInv /\ QuotaKept => ReservationsExact
    BY DEF CountInv, ReservationsExact
  <1>4. QED
    BY <1>1, <1>2, <1>3, TypeCorrect, HandlerCorrect, QuotaHolds, PTL DEF Safety

=============================================================================
