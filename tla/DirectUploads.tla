--------------------------- MODULE DirectUploads ---------------------------
(***************************************************************************)
(* Direct uploads: a row per upload session in PostgreSQL, an S3 multipart *)
(* upload and the object it assembles into, the document row that is only  *)
(* written at the end, and the quota counter of the workspace.  Request    *)
(* handlers and the maintenance run work on the same upload at the same    *)
(* time; each storage call and each transaction is one step of a handler.  *)
(*                                                                         *)
(* The bytes are abstracted to what completion tells apart: parts missing, *)
(* parts of a wrong size, all parts with an allowed ("good") or a          *)
(* disallowed ("bad") file type.                                           *)
(***************************************************************************)
EXTENDS Naturals, FiniteSets

CONSTANTS
    Uploads,        \* identities of upload rows, and of their document and key
    Requests,       \* request handlers of the API
    Janitor,        \* the maintenance run; an advisory lock keeps it alone
    SizeOf,         \* declared size of each upload, in bytes
    Quota,          \* storage_quota_bytes of the workspace
    Faults,         \* the faults that may happen
    MaxFaults       \* bound: how many faults one behaviour has

ASSUME SizeAssumption   == SizeOf \in [Uploads -> Nat \ {0}]
ASSUME QuotaAssumption  == Quota \in Nat /\ MaxFaults \in Nat
ASSUME FaultsAssumption == Faults \subseteq {"crash", "storage", "database"}

VARIABLES
    status,     \* uploads.status, "none" before the row exists
    stale,      \* uploads whose expires_at has passed
    urls,       \* uploads whose part URLs have been signed
    multi,      \* the multipart upload in storage and the parts it holds
    object,     \* the object under the upload's key
    docs,       \* uploads whose document row is committed
    used,       \* storage_used_bytes of the workspace
    proc,       \* what each handler is doing
    faults      \* faults so far

vars == <<status, stale, urls, multi, object, docs, used, proc, faults>>
storage == <<multi, object>>
database == <<status, docs, used>>

Procs == Requests \cup {Janitor}

Idle == [op |-> "none", at |-> "idle"]

Open    == {"pending", "completing"}
Charged == {"pending", "completing", "completed"}
Ended   == {"aborted", "expired", "rejected"}

-----------------------------------------------------------------------------
(***************************************************************************)
(* Steps of a handler                                                      *)
(***************************************************************************)

Doing(p, op, u, at) == proc[p] = [op |-> op, u |-> u, at |-> at]

GoTo(p, op, u, at) == proc' = [proc EXCEPT ![p] = [op |-> op, u |-> u, at |-> at]]

Return(p) == proc' = [proc EXCEPT ![p] = Idle]

Fault(kind) ==
    /\ kind \in Faults
    /\ faults < MaxFaults
    /\ faults' = faults + 1

NoFault == UNCHANGED faults

(***************************************************************************)
(* The calls to storage: what they leave there, or answer                  *)
(***************************************************************************)

\* createMultipartUpload
Opened(u) == [multi EXCEPT ![u] = "missing"]

\* abortMultipartUpload: one that is gone is not an error.
Gone(u) == [multi EXCEPT ![u] = "absent"]

\* delete
Deleted(u) == [object EXCEPT ![u] = "none"]

\* headObject
Exists(u) == object[u] # "none"

\* listParts has numbers and sizes, which say nothing of the type.
Listed(u) == IF multi[u] \in {"good", "bad"} THEN "whole" ELSE multi[u]

\* completeMultipartUpload refuses parts that changed since they were listed
\* and a multipart upload that is gone.
Assembles(u) ==
    /\ Listed(u) = "whole"
    /\ object' = [object EXCEPT ![u] = multi[u]]
    /\ multi' = Gone(u)

\* readRange: the first bytes tell the type.
TypeFits(u) == object[u] = "good"

(***************************************************************************)
(* create                                                                  *)
(***************************************************************************)

Fits(u) == used + SizeOf[u] <= Quota

\* The quick quota check, then createMultipartUpload.
BeginCreate(p, u) ==
    /\ proc[p] = Idle
    /\ status[u] = "none"
    /\ multi[u] = "absent"
    /\ \A q \in Procs : ~ Doing(q, "create", u, "undo")
    /\ Fits(u)
    /\ multi' = Opened(u)
    /\ GoTo(p, "create", u, "opened")
    /\ UNCHANGED <<database, stale, urls, object>>
    /\ NoFault

\* Mutation: the reservation trusts the check made before the transaction.
InsertUpload_NoCheck(p, u) ==
    /\ Doing(p, "create", u, "opened")
    /\ used' = used + SizeOf[u]
    /\ status' = [status EXCEPT ![u] = "pending"]
    /\ Return(p)
    /\ UNCHANGED <<storage, docs, stale, urls>>
    /\ NoFault

\* One transaction: the conditional UPDATE that reserves, and the row.
InsertUpload(p, u) ==
    /\ Doing(p, "create", u, "opened")
    /\ Fits(u)
    /\ used' = used + SizeOf[u]
    /\ status' = [status EXCEPT ![u] = "pending"]
    /\ Return(p)
    /\ UNCHANGED <<storage, docs, stale, urls>>
    /\ NoFault

\* Another upload took the room in between.
RefuseUpload(p, u) ==
    /\ Doing(p, "create", u, "opened")
    /\ ~ Fits(u)
    /\ GoTo(p, "create", u, "undo")
    /\ UNCHANGED <<database, storage, stale, urls>>
    /\ NoFault

\* The catch of create aborts the multipart upload it opened.
UndoCreate(p, u) ==
    /\ Doing(p, "create", u, "undo")
    /\ multi' = Gone(u)
    /\ Return(p)
    /\ UNCHANGED <<database, object, stale, urls>>
    /\ NoFault

(***************************************************************************)
(* signParts, and the browser that uses the URLs                           *)
(***************************************************************************)

SignParts(u) ==
    /\ status[u] = "pending"
    /\ u \notin urls
    /\ urls' = urls \cup {u}
    /\ UNCHANGED <<database, storage, stale, proc>>
    /\ NoFault

\* A signed PUT knows nothing of the row; storage takes it for as long as the
\* multipart upload exists, and a part may be sent again.
PutParts(u) ==
    /\ u \in urls
    /\ multi[u] # "absent"
    /\ \E parts \in {"wrong", "good", "bad"} \ {multi[u]} :
            multi' = [multi EXCEPT ![u] = parts]
    /\ UNCHANGED <<database, object, stale, urls, proc>>
    /\ NoFault

(***************************************************************************)
(* transition and finish                                                   *)
(***************************************************************************)

\* UPDATE uploads SET status = to WHERE id = $1 AND status = ANY(from): the
\* row after it, whether it moved or not.
Moved(u, from, to) ==
    IF status[u] \in from THEN [status EXCEPT ![u] = to] ELSE status

FinishFrom(op) == CASE op = "abort"    -> {"pending"}
                    [] op = "complete" -> {"completing"}
                    [] op = "expire"   -> Open

FinishAs(op) == CASE op = "abort"    -> "aborted"
                  [] op = "complete" -> "rejected"
                  [] op = "expire"   -> "expired"

Finishing == {"abort", "complete", "expire"}

\* discardStorage: the multipart upload first (none is not an error) ...
DropParts(p, op, u) ==
    /\ Doing(p, op, u, "dropParts")
    /\ multi' = Gone(u)
    /\ GoTo(p, op, u, "dropObject")
    /\ UNCHANGED <<database, object, stale, urls>>
    /\ NoFault

\* ... then the object, if there is one.
DropObject(p, op, u) ==
    /\ Doing(p, op, u, "dropObject")
    /\ object' = Deleted(u)
    /\ GoTo(p, op, u, "close")
    /\ UNCHANGED <<database, multi, stale, urls>>
    /\ NoFault

\* GREATEST(0, storage_used_bytes - size)
Released(u) == IF used >= SizeOf[u] THEN used - SizeOf[u] ELSE 0

\* Mutation: the quota comes back whether or not the row moved.
Close_AlwaysReleases(p, op, u) ==
    /\ Doing(p, op, u, "close")
    /\ status' = Moved(u, FinishFrom(op), FinishAs(op))
    /\ used' = Released(u)
    /\ Return(p)
    /\ UNCHANGED <<storage, docs, stale, urls>>
    /\ NoFault

\* The transaction of finish: the quota comes back only if the row moved.
Close(p, op, u) ==
    /\ Doing(p, op, u, "close")
    /\ status' = Moved(u, FinishFrom(op), FinishAs(op))
    /\ used' = IF status[u] \in FinishFrom(op) THEN Released(u) ELSE used
    /\ Return(p)
    /\ UNCHANGED <<storage, docs, stale, urls>>
    /\ NoFault

(***************************************************************************)
(* abort, and expireStale of the maintenance run                           *)
(***************************************************************************)

\* Mutation: abort deletes the object and forgets the parts.
BeginAbort_KeepsParts(p, u) ==
    /\ proc[p] = Idle
    /\ status[u] = "pending"
    /\ GoTo(p, "abort", u, "dropObject")
    /\ UNCHANGED <<database, storage, stale, urls>>
    /\ NoFault

BeginAbort(p, u) ==
    /\ proc[p] = Idle
    /\ status[u] = "pending"
    /\ GoTo(p, "abort", u, "dropParts")
    /\ UNCHANGED <<database, storage, stale, urls>>
    /\ NoFault

\* Mutation: expireStale looks for pending uploads only.
BeginExpire_PendingOnly(p, u) ==
    /\ proc[p] = Idle
    /\ u \in stale
    /\ status[u] = "pending"
    /\ GoTo(p, "expire", u, "dropParts")
    /\ UNCHANGED <<database, storage, stale, urls>>
    /\ NoFault

BeginExpire(p, u) ==
    /\ proc[p] = Idle
    /\ u \in stale
    /\ status[u] \in Open
    /\ GoTo(p, "expire", u, "dropParts")
    /\ UNCHANGED <<database, storage, stale, urls>>
    /\ NoFault

\* expires_at passes.
Expire(u) ==
    /\ status[u] # "none"
    /\ u \notin stale
    /\ stale' = stale \cup {u}
    /\ UNCHANGED <<database, storage, urls, proc>>
    /\ NoFault

(***************************************************************************)
(* complete                                                                *)
(***************************************************************************)

BeginComplete(p, u) ==
    /\ proc[p] = Idle
    /\ status[u] = "pending"
    /\ status' = Moved(u, {"pending"}, "completing")
    /\ GoTo(p, "complete", u, "head")
    /\ UNCHANGED <<storage, docs, used, stale, urls>>
    /\ NoFault

\* An earlier attempt may have assembled the object already.
HeadObject(p, u) ==
    /\ Doing(p, "complete", u, "head")
    /\ GoTo(p, "complete", u, IF Exists(u) THEN "verify" ELSE "list")
    /\ UNCHANGED <<database, storage, stale, urls>>
    /\ NoFault

\* listParts: missing parts leave the upload open, parts of a wrong size
\* reject it, and a multipart upload that is gone is a storage error.
ListParts(p, u) ==
    /\ Doing(p, "complete", u, "list")
    /\ GoTo(p, "complete", u, CASE Listed(u) = "whole" -> "assemble"
                                [] Listed(u) = "wrong" -> "dropParts"
                                [] OTHER               -> "reopen")
    /\ UNCHANGED <<database, storage, stale, urls>>
    /\ NoFault

\* A refusal leaves the upload open.
Assemble(p, u) ==
    /\ Doing(p, "complete", u, "assemble")
    /\ \/ Assembles(u) /\ GoTo(p, "complete", u, "verify")
       \/ Listed(u) # "whole" /\ GoTo(p, "complete", u, "reopen") /\ UNCHANGED storage
    /\ UNCHANGED <<database, stale, urls>>
    /\ NoFault

\* headObject again: an object that is not there, or not of the declared
\* size, rejects the upload.
VerifySize(p, u) ==
    /\ Doing(p, "complete", u, "verify")
    /\ GoTo(p, "complete", u, IF Exists(u) THEN "sniff" ELSE "dropParts")
    /\ UNCHANGED <<database, storage, stale, urls>>
    /\ NoFault

\* readRange and assertAllowedType share a catch that rejects.
SniffType(p, u) ==
    /\ Doing(p, "complete", u, "sniff")
    /\ GoTo(p, "complete", u, IF TypeFits(u) THEN "commit" ELSE "dropParts")
    /\ UNCHANGED <<database, storage, stale, urls>>
    /\ NoFault

\* The transaction that writes the document.  Whether the row moved to
\* `completed` is not looked at.
CommitDocument(p, u) ==
    /\ Doing(p, "complete", u, "commit")
    /\ docs' = docs \cup {u}
    /\ status' = Moved(u, {"completing"}, "completed")
    /\ Return(p)
    /\ UNCHANGED <<storage, used, stale, urls>>
    /\ NoFault

\* Anything but a rejection leaves the upload open for a retry.
Reopen(p, u) ==
    /\ Doing(p, "complete", u, "reopen")
    /\ status' = Moved(u, {"completing"}, "pending")
    /\ Return(p)
    /\ UNCHANGED <<storage, docs, used, stale, urls>>
    /\ NoFault

(***************************************************************************)
(* Faults                                                                  *)
(***************************************************************************)

\* The process dies between two steps.
Crash(p) ==
    /\ Fault("crash")
    /\ proc[p] # Idle
    /\ Return(p)
    /\ UNCHANGED <<database, storage, stale, urls>>

\* The storage call a handler is about to make fails.
StorageFails(p, u) ==
    /\ Fault("storage")
    /\ \/ /\ \E at \in {"head", "list", "assemble", "verify"} :
                Doing(p, "complete", u, at)
          /\ GoTo(p, "complete", u, "reopen")
       \/ /\ Doing(p, "complete", u, "sniff")
          /\ GoTo(p, "complete", u, "dropParts")
       \/ /\ \/ Doing(p, "create", u, "undo")
             \/ \E op \in Finishing, at \in {"dropParts", "dropObject"} :
                    Doing(p, op, u, at)
          /\ Return(p)
    /\ UNCHANGED <<database, storage, stale, urls>>

\* completeMultipartUpload is carried out and its answer is lost.
LoseAssembled(p, u) ==
    /\ Fault("storage")
    /\ Doing(p, "complete", u, "assemble")
    /\ Assembles(u)
    /\ GoTo(p, "complete", u, "reopen")
    /\ UNCHANGED <<database, stale, urls>>

\* The transaction a handler is about to run rolls back.
DatabaseFails(p, u) ==
    /\ Fault("database")
    /\ \/ /\ Doing(p, "create", u, "opened")
          /\ GoTo(p, "create", u, "undo")
       \/ /\ Doing(p, "complete", u, "commit")
          /\ GoTo(p, "complete", u, "reopen")
       \/ /\ \/ Doing(p, "complete", u, "reopen")
             \/ \E op \in Finishing : Doing(p, op, u, "close")
          /\ Return(p)
    /\ UNCHANGED <<database, storage, stale, urls>>

-----------------------------------------------------------------------------

Init ==
    /\ status = [u \in Uploads |-> "none"]
    /\ stale = {}
    /\ urls = {}
    /\ multi = [u \in Uploads |-> "absent"]
    /\ object = [u \in Uploads |-> "none"]
    /\ docs = {}
    /\ used = 0
    /\ proc = [p \in Procs |-> Idle]
    /\ faults = 0

CreateStep(p, u) ==
    InsertUpload(p, u) \/ RefuseUpload(p, u) \/ UndoCreate(p, u)

FinishStep(p, u) ==
    \E op \in Finishing : DropParts(p, op, u) \/ DropObject(p, op, u) \/ Close(p, op, u)

CompleteStep(p, u) ==
    \/ HeadObject(p, u)
    \/ ListParts(p, u)
    \/ Assemble(p, u)
    \/ VerifySize(p, u)
    \/ SniffType(p, u)
    \/ CommitDocument(p, u)
    \/ Reopen(p, u)

\* What a handler that has begun does next.
Continue(p) ==
    \E u \in Uploads : CreateStep(p, u) \/ FinishStep(p, u) \/ CompleteStep(p, u)

Next ==
    \/ \E u \in Uploads :
        \/ SignParts(u)
        \/ PutParts(u)
        \/ Expire(u)
        \/ BeginExpire(Janitor, u)
        \/ \E p \in Requests : BeginCreate(p, u) \/ BeginAbort(p, u) \/ BeginComplete(p, u)
        \/ \E p \in Procs : StorageFails(p, u) \/ LoseAssembled(p, u) \/ DatabaseFails(p, u)
    \/ \E p \in Procs : Continue(p) \/ Crash(p)

Safety == Init /\ [][Next]_vars

\* A handler that has begun goes on, time passes, and maintenance runs again
\* and again.  Nothing is assumed of clients.
Fairness ==
    /\ \A p \in Procs : WF_vars(Continue(p))
    /\ \A u \in Uploads : WF_vars(Expire(u))
    /\ WF_vars(\E u \in Uploads : BeginExpire(Janitor, u))

Spec == Safety /\ Fairness

-----------------------------------------------------------------------------
(***************************************************************************)
(* Properties                                                              *)
(***************************************************************************)

StepsOf(op) ==
    CASE op = "create"              -> {"opened", "undo"}
      [] op \in {"abort", "expire"} -> {"dropParts", "dropObject", "close"}
      [] op = "complete"            -> {"head", "list", "assemble", "verify", "sniff",
                                        "commit", "reopen", "dropParts", "dropObject",
                                        "close"}

Work == UNION {[op : {op}, u : Uploads, at : StepsOf(op)]
                    : op \in {"create", "abort", "expire", "complete"}}

TypeOK ==
    /\ status \in [Uploads -> {"none"} \cup Charged \cup Ended]
    /\ stale \subseteq Uploads
    /\ urls \subseteq Uploads
    /\ multi \in [Uploads -> {"absent", "missing", "wrong", "good", "bad"}]
    /\ object \in [Uploads -> {"none", "good", "bad"}]
    /\ docs \subseteq Uploads
    /\ used \in Nat
    /\ proc \in [Procs -> Work \cup {Idle}]
    /\ faults \in 0..MaxFaults

\* The reservations of uploads that race for the last bytes never exceed the
\* quota of the workspace (reserveStorage is one conditional UPDATE, and the
\* check create makes before it is only a quick answer).
QuotaKept == used <= Quota

\* storage_used_bytes is exactly what the open and completed uploads reserve, byte
\* by byte: no interleaving of completers, aborters, the janitor and crashes
\* returns a reservation twice or forgets to (workspaces.repo.ts:83).
Bytes(u) == {u} \X (1..SizeOf[u])

Reserved == UNION {Bytes(u) : u \in {v \in Uploads : status[v] \in Charged}}

UsedIsReserved == used = Cardinality(Reserved)

\* Reservations are counted exactly, and never exceed the quota: UsedIsReserved and
\* QuotaKept.
ReservationsExact == UsedIsReserved /\ QuotaKept

\* An upload that was aborted, expired or rejected has left nothing behind in
\* storage, and a completer, a browser with signed URLs or a crash cannot
\* bring anything back: finish drops the parts before the object, and both
\* before the row moves.
EndedHoldsNothing ==
    \A u \in Uploads : status[u] \in Ended => multi[u] = "absent" /\ object[u] = "none"

\* A completed upload has its document: the row moves in the transaction that
\* writes the document.
CompletedHasDocument == \A u \in Uploads : status[u] = "completed" => u \in docs

\* An upload that has ended, or completed, stays as it ended: the completer
\* that fails late cannot reopen it, the janitor cannot expire it.
EndedIsFinal ==
    [][\A u \in Uploads : status[u] \in Ended \cup {"completed"}
            => status'[u] = status[u]]_vars

\* A reservation is not held for ever: every upload leaves the open states,
\* even when its handler died in `completing`.
ReservationReturns == \A u \in Uploads : (status[u] \in Open) ~> (status[u] \notin Open)

=============================================================================
