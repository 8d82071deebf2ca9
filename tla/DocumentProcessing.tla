------------------------- MODULE DocumentProcessing -------------------------
(***************************************************************************)
(* What workers derive from the current content of a document: a picture   *)
(* (thumbnail or preview, an object in storage of its own), the text that  *)
(* is searched, and the checksum of a file that went to storage directly.  *)
(* The document is that of DocumentStore; each of its steps also does here *)
(* what it does to the derived columns.  A worker takes scan jobs and      *)
(* processing jobs, one at a time.                                         *)
(***************************************************************************)
EXTENDS DocumentStore, Sequences

CONSTANTS
    Direct,         \* the contents that went to storage without a checksum
    Opaque,         \* the contents that nothing can be derived from
    First,          \* bound: the contents that the first upload may have
    MaxContents,    \* bound: how many contents one behaviour stores
    Rounds,         \* how often processDocument reads the row at most
    MaxPictures     \* bound: how many pictures are made

ASSUME DerivedAssumption ==
    /\ Direct \subseteq Contents /\ Opaque \subseteq Contents /\ First \subseteq Contents
    /\ Rounds \in Nat \ {0} /\ MaxPictures \in Nat /\ MaxContents \in Nat

VARIABLES
    picture,    \* thumbnail_key or preview_key of the row, 0 for NULL
    processed,  \* processed_key of the row
    text,       \* storage_key of its row in document_contents
    checked,    \* the content whose checksum the row has
    pictures,   \* what each picture made so far was made from
    shelf,      \* the pictures in storage
    doomed,     \* pictures that deleteQuietly is about to delete
    pjob,       \* the latest document.process job, like job
    onPjob,     \* the workers that claimed it and are still at it
    held,       \* the picture an actor has made, or is about to delete
    round,      \* rounds of processDocument so far
    owing,      \* workers that cleared a file and still have to queue its processing
    listed      \* handlers of a purge that have read derivedKeys

derived == <<picture, processed, text, checked>>
objects == <<pictures, shelf, doomed>>
pqueue  == <<pjob, onPjob>>
plocal  == <<held, round, owing, listed>>
extras  == <<derived, objects, pqueue, plocal>>
all     == <<vars, extras>>

None == 0

-----------------------------------------------------------------------------
(***************************************************************************)
(* The steps of DocumentStore that touch what is derived                   *)
(***************************************************************************)

\* jobs.enqueue with the document as its dedupe key.
EnqueueProcessing ==
    IF pjob = "none"
    THEN pjob' = "queued" /\ onPjob' = {}
    ELSE UNCHANGED pqueue

EnqueueIfReadable(c) ==
    IF scan[c] # "pending" THEN EnqueueProcessing ELSE UNCHANGED pqueue

Doom(set) == doomed' = doomed \cup (set \ {None})

Checksum(c) == IF c \in Direct THEN NoKey ELSE c

\* A direct upload has no checksum yet, and its processing is left to the backfill
\* if it is not scanned.
InsertRow(h) ==
    /\ InsertDocument(h)
    /\ checked' = Checksum(mine[h])
    /\ IF mine[h] \in Direct THEN UNCHANGED pqueue ELSE EnqueueIfReadable(mine[h])
    /\ UNCHANGED <<picture, processed, text, objects, plocal>>

\* A new version starts over; a restored one may lack a checksum.
StartOver(h) ==
    /\ Replace(h)
    /\ picture' = None /\ processed' = NoKey /\ text' = NoKey
    /\ checked' = Checksum(mine[h])
    /\ Doom({picture})
    /\ EnqueueIfReadable(mine[h])
    /\ UNCHANGED <<pictures, shelf, plocal>>

\* The verdict is one statement, the job that follows from it another.
Clear(w) ==
    /\ Judge(w)
    /\ owing' = IF scan'[saw[w]] = "clean" /\ Judges(w) THEN owing \cup {w} ELSE owing
    /\ UNCHANGED <<derived, objects, pqueue, held, round, listed>>

QueueCleared(w) ==
    /\ w \in owing
    /\ owing' = owing \ {w}
    /\ EnqueueProcessing
    /\ UNCHANGED <<vars, derived, objects, held, round, listed>>

\* The job is run again, but finds the file cleared and queues nothing.
QueueFails(w) ==
    /\ w \in owing
    /\ Fault("storage")
    /\ GiveBack(w)
    /\ owing' = owing \ {w}
    /\ UNCHANGED <<lapses, derived, objects, pqueue, held, round, listed>>

SettleScan(w) ==
    /\ w \notin owing
    /\ Settle(w)
    /\ UNCHANGED extras

\* deleteVersionObjects reads the derived keys when the versions are gone ...
ListDerived(h) ==
    /\ at[h] = "purgeVersions"
    /\ todo[h] = {}
    /\ h \notin listed
    /\ listed' = listed \cup {h}
    /\ held' = [held EXCEPT ![h] = picture]
    /\ UNCHANGED <<vars, derived, objects, pqueue, round, owing>>

\* ... and deletes the objects, ...
DropDerived(h) ==
    /\ h \in listed
    /\ held[h] # None
    /\ shelf' = shelf \ {held[h]}
    /\ held' = [held EXCEPT ![h] = None]
    /\ lapses' = lapses \cup {"purge"}
    /\ UNCHANGED <<row, bytes, store, fresh, queue, local, faults>>
    /\ UNCHANGED <<derived, pictures, doomed, pqueue, round, owing, listed>>

\* ... before the current content goes.
PurgeLast(h) ==
    /\ h \in listed
    /\ held[h] = None
    /\ PurgeCurrent(h)
    /\ listed' = listed \ {h}
    /\ UNCHANGED <<derived, objects, pqueue, held, round, owing>>

DeleteRow(h) ==
    /\ HardDelete(h)
    /\ IF status' = "gone"
       THEN picture' = None /\ processed' = NoKey /\ text' = NoKey /\ checked' = NoKey
       ELSE UNCHANGED derived
    /\ UNCHANGED <<objects, pqueue, plocal>>

Forget(a) ==
    /\ held' = [held EXCEPT ![a] = None]
    /\ round' = [round EXCEPT ![a] = 0]
    /\ owing' = owing \ {a}
    /\ listed' = listed \ {a}
    /\ UNCHANGED <<derived, objects>>

Stop(a) ==
    /\ \/ Crash(a) /\ onPjob' = onPjob \ {a} /\ UNCHANGED pjob
       \/ a \in Handlers /\ (StorageFails(a) \/ DatabaseFails(a)) /\ UNCHANGED pqueue
    /\ Forget(a)

-----------------------------------------------------------------------------
(***************************************************************************)
(* processDocument                                                         *)
(***************************************************************************)

ClaimProcess(w) ==
    /\ pjob = "queued"
    /\ pjob' = "running"
    /\ onPjob' = onPjob \cup {w}
    /\ Begin(w, "process", NoKey, NoKey, {})
    /\ round' = [round EXCEPT ![w] = 1]
    /\ UNCHANGED <<row, bytes, store, fresh, queue, derived, objects, held, owing, listed>>
    /\ NoFault

NothingToDo == ~ Kept \/ processed = cur \/ scan[cur] = "pending"

ReadToProcess(w) ==
    /\ at[w] = "process"
    /\ IF NothingToDo
       THEN GoTo(w, "processed", NoKey, NoKey, {})
       ELSE GoTo(w, IF Quarantined THEN "skip" ELSE "derive", cur, NoKey, {})
    /\ UNCHANGED <<row, bytes, store, fresh, queue, extras>>
    /\ NoFault

\* setProcessed of a quarantined file: WHERE storage_key = $2
Skip(w) ==
    /\ at[w] = "skip"
    /\ IF Kept /\ cur = saw[w]
       THEN processed' = cur /\ picture' = None
       ELSE UNCHANGED <<processed, picture>>
    /\ GoTo(w, "processed", NoKey, NoKey, {})
    /\ UNCHANGED <<row, bytes, store, fresh, queue, text, checked, objects, pqueue, plocal>>
    /\ NoFault

\* Download, and upload of the picture if one can be made (bound: MaxPictures).
Depicted(c) == c \notin Opaque /\ Len(pictures) < MaxPictures

Derive(w) ==
    /\ at[w] = "derive"
    /\ saw[w] \in store
    /\ IF Depicted(saw[w])
       THEN /\ pictures' = Append(pictures, saw[w])
            /\ shelf' = shelf \cup {Len(pictures')}
            /\ held' = [held EXCEPT ![w] = Len(pictures')]
       ELSE UNCHANGED <<pictures, shelf, held>>
    /\ GoTo(w, "record", saw[w], NoKey, {})
    /\ UNCHANGED <<row, bytes, store, fresh, queue, derived, doomed, pqueue, round, owing, listed>>
    /\ NoFault

\* Mutation: what was read is recorded, whatever the document holds now.
Unmoved_AnyKey(w) == Kept

\* lockAny, and the content must still be the one that was read.
Unmoved(w) == Kept /\ cur = saw[w]

\* Mutation: the columns of the read are the ones to clean up.
Record_DeletesOwn(w) ==
    /\ at[w] = "record"
    /\ Unmoved(w)
    /\ picture' = held[w] /\ processed' = saw[w]
    /\ text' = IF saw[w] \in Opaque THEN NoKey ELSE saw[w]
    /\ Doom({picture, held[w]})
    /\ GoTo(w, "processed", NoKey, NoKey, {})
    /\ held' = [held EXCEPT ![w] = None]
    /\ UNCHANGED <<row, bytes, store, fresh, queue, checked, pictures, shelf, pqueue,
                   round, owing, listed>>
    /\ NoFault

Record(w) ==
    /\ at[w] = "record"
    /\ Unmoved(w)
    /\ picture' = held[w] /\ processed' = saw[w]
    /\ text' = IF saw[w] \in Opaque THEN NoKey ELSE saw[w]
    /\ Doom({picture})
    /\ GoTo(w, "processed", NoKey, NoKey, {})
    /\ held' = [held EXCEPT ![w] = None]
    /\ UNCHANGED <<row, bytes, store, fresh, queue, checked, pictures, shelf, pqueue,
                   round, owing, listed>>
    /\ NoFault

\* A new version arrived, or the document is gone: discard, and go again.
Discard(w) ==
    /\ at[w] = "record"
    /\ ~ Unmoved(w)
    /\ Doom({held[w]})
    /\ IF round[w] < Rounds
       THEN GoTo(w, "process", NoKey, NoKey, {}) /\ round' = [round EXCEPT ![w] = @ + 1]
       ELSE GoTo(w, "processed", NoKey, NoKey, {}) /\ UNCHANGED round
    /\ held' = [held EXCEPT ![w] = None]
    /\ UNCHANGED <<row, bytes, store, fresh, queue, derived, pictures, shelf, pqueue,
                   owing, listed>>
    /\ NoFault

\* complete
SettleProcess(w) ==
    /\ at[w] = "processed"
    /\ pjob' = IF w \in onPjob THEN "none" ELSE pjob
    /\ onPjob' = onPjob \ {w}
    /\ Return(w)
    /\ round' = [round EXCEPT ![w] = 0]
    /\ UNCHANGED <<row, bytes, store, fresh, queue, derived, objects, held, owing, listed>>
    /\ NoFault

\* retry or fail, as for a scan.
GiveBackProcess(w) ==
    /\ IF w \in onPjob \/ pjob = "none"
       THEN pjob' \in {"queued", "none"}
       ELSE UNCHANGED pjob
    /\ onPjob' = onPjob \ {w}
    /\ Return(w)
    /\ Forget(w)
    /\ UNCHANGED <<row, bytes, store, fresh, queue, lapses>>

\* The object is gone, or the storage or the database fails.
ProcessFails(w) ==
    /\ \/ at[w] = "derive" /\ saw[w] \notin store /\ UNCHANGED faults
       \/ at[w] \in {"process", "skip", "derive", "record"} /\ Fault("storage")
    /\ GiveBackProcess(w)

ProcessLeaseExpires ==
    /\ pjob = "running"
    /\ onPjob = {}
    /\ pjob' = "queued"
    /\ UNCHANGED <<vars, derived, objects, onPjob, plocal>>

ProcessOverrun ==
    /\ pjob = "running"
    /\ onPjob # {}
    /\ Fault("overrun")
    /\ pjob' = "queued"
    /\ UNCHANGED <<row, bytes, store, fresh, queue, local, lapses, derived, objects, onPjob, plocal>>

\* pendingProcessing
Unprocessed == Kept /\ scan[cur] \in Allowed /\ processed # cur

EnqueuePendingProcessing ==
    /\ Unprocessed
    /\ pjob = "none"
    /\ EnqueueProcessing
    /\ UNCHANGED <<vars, derived, objects, plocal>>

\* Best effort, in the background.
DeleteQuietly(p) ==
    /\ p \in doomed
    /\ doomed' = doomed \ {p}
    /\ \/ shelf' = shelf \ {p} /\ UNCHANGED faults
       \/ Fault("storage") /\ UNCHANGED shelf
    /\ UNCHANGED <<row, bytes, store, fresh, queue, local, lapses, derived, pictures, pqueue, plocal>>

-----------------------------------------------------------------------------
(***************************************************************************)
(* computeChecksum, as a job or by backfillChecksums                       *)
(***************************************************************************)

\* The set remembers whether the row was in the trash.
BeginChecksum(h) ==
    /\ Kept
    /\ checked = NoKey
    /\ Begin(h, "hash", cur, NoKey, IF status = "trashed" THEN {cur} ELSE {})
    /\ UNCHANGED <<row, bytes, store, fresh, queue, extras>>
    /\ NoFault

\* A document in the trash without its object is deleted for good.
Hash(h) ==
    /\ at[h] = "hash"
    /\ IF saw[h] \in store
       THEN GoTo(h, "setChecksum", saw[h], NoKey, {})
       ELSE IF todo[h] = {} THEN Return(h) ELSE GoTo(h, "keys", saw[h], NoKey, {})
    /\ UNCHANGED <<row, bytes, store, fresh, queue, extras>>
    /\ NoFault

\* WHERE storage_key = $2 AND sha256 IS NULL
SameObject(h) == Kept /\ cur = saw[h] /\ checked = NoKey

SetChecksum(h) ==
    /\ at[h] = "setChecksum"
    /\ checked' = IF SameObject(h) THEN saw[h] ELSE checked
    /\ Return(h)
    /\ UNCHANGED <<row, bytes, store, fresh, queue, picture, processed, text, objects, pqueue, plocal>>
    /\ NoFault

ChecksumFails(h) ==
    /\ at[h] \in {"hash", "setChecksum"}
    /\ Fault("storage")
    /\ Return(h)
    /\ UNCHANGED <<row, bytes, store, fresh, queue, lapses, extras>>

-----------------------------------------------------------------------------

InitAll ==
    /\ Init
    /\ picture = None /\ processed = NoKey /\ text = NoKey /\ checked = NoKey
    /\ pictures = <<>>
    /\ shelf = {} /\ doomed = {}
    /\ pjob = "none" /\ onPjob = {}
    /\ held = [a \in Actors |-> None]
    /\ round = [a \in Actors |-> 0]
    /\ owing = {} /\ listed = {}

Room == Cardinality(Contents \ fresh) < MaxContents

\* Steps of DocumentStore that derived columns do not depend on.
RequestStep(h) ==
    \/ \E c \in First : BeginUpload(h, c)
    \/ \E c \in Contents : Room /\ BeginVersion(h, c)
    \/ \E v, c \in Contents : Room /\ BeginRestoreVersion(h, v, c)
    \/ \E v \in Contents : BeginDeleteVersion(h, v) \/ RemoveVersion(h, v) \/ SkipVersion(h, v)
                               \/ PurgeVersion(h, v)
    \/ InsertRefused(h) \/ Lookup(h) \/ LookupFails(h) \/ Cleanup(h)
    \/ Copy(h) \/ ReplaceRefused(h) \/ ListBeyond(h) \/ DropVersion(h) \/ EndPrune(h)
    \/ BeginRestore(h) \/ Probe(h) \/ Restore(h)
    \/ BeginPurge(h) \/ VersionKeys(h) \/ SumHistory(h)

HandlerStep(h) ==
    \/ RequestStep(h) /\ UNCHANGED extras
    \/ InsertRow(h) \/ StartOver(h)
    \/ ListDerived(h) \/ DropDerived(h) \/ PurgeLast(h) \/ DeleteRow(h)
    \/ BeginChecksum(h) \/ Hash(h) \/ SetChecksum(h) \/ ChecksumFails(h)

ScanWork(w) ==
    \/ (ClaimScan(w) \/ ReadDocument(w) \/ Erase(w) \/ ScanFails(w)) /\ UNCHANGED extras
    \/ Clear(w) \/ QueueCleared(w) \/ SettleScan(w)

ProcessWork(w) ==
    \/ ClaimProcess(w) \/ ReadToProcess(w) \/ Skip(w) \/ Derive(w)
    \/ Record(w) \/ Discard(w) \/ SettleProcess(w) \/ ProcessFails(w)

NextAll ==
    \/ \E h \in Handlers : HandlerStep(h)
    \/ \E w \in Workers : ScanWork(w) \/ ProcessWork(w) \/ QueueFails(w)
                            \/ (WorkerFails(w) /\ UNCHANGED extras)
    \/ \E a \in Actors : Stop(a)
    \/ (Trash \/ LeaseExpires \/ Overrun \/ RequeuePendingScans) /\ UNCHANGED extras
    \/ ProcessLeaseExpires \/ ProcessOverrun \/ EnqueuePendingProcessing
    \/ \E p \in 1..MaxPictures : DeleteQuietly(p)

\* A worker takes queued jobs and goes on with what it has begun, an expired
\* lease is noticed, and both sweeps of maintenance run again and again.
FairnessAll ==
    /\ \A w \in Workers : WF_all(ScanWork(w) \/ ProcessWork(w))
    /\ WF_all((LeaseExpires \/ RequeuePendingScans) /\ UNCHANGED extras)
    /\ WF_all(ProcessLeaseExpires)
    /\ WF_all(EnqueuePendingProcessing)

SpecAll == InitAll /\ [][NextAll]_all /\ FairnessAll

-----------------------------------------------------------------------------
(***************************************************************************)
(* Properties                                                              *)
(***************************************************************************)

\* What is shown or searched in place of a document was made from its current
\* content, after that content was cleared: a worker that read an older version
\* never leaves its text or picture behind (migrations/031_document_processing.sql:1),
\* nor does a late checksum describe another file (documents.repo.ts:218).
FromCurrent ==
    /\ text \in {NoKey, cur}
    /\ checked \in {NoKey, cur}
    /\ picture # None => pictures[picture] = cur /\ processed = cur
    /\ picture # None \/ text # NoKey => scan[cur] \in Allowed

\* The picture a row points at is in storage, and nobody is about to delete it,
\* even if two workers processed the same content; and without faults no other
\* picture is left over that no worker or deletion knows.  Unless a purge began.
PictureKept ==
    "purge" \notin lapses =>
        /\ picture # None => picture \in shelf \ doomed
        /\ faults = 0 => shelf \subseteq {picture} \cup doomed \cup {held[a] : a \in Actors}

\* What is derived from a document describes its current content, and is there.
DerivedSound == FromCurrent /\ PictureKept

\* A file in storage that waits for its scan, or that was cleared and is not
\* processed yet, is judged and processed, or replaced, or deleted: neither a job
\* that the dedupe key swallowed, nor one that gave up or died with its worker,
\* nor the trash leaves a file blocked or without its preview for ever.
Waiting ==
    /\ Kept /\ cur \in store
    /\ scan[cur] = "pending" \/ (scan[cur] \in Allowed /\ processed # cur)

FileServed == Waiting ~> ~ Waiting

=============================================================================
