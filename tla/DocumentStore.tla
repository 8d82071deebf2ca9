--------------------------- MODULE DocumentStore ---------------------------
(***************************************************************************)
(* One document from its upload to the end of its trash: the row with its  *)
(* current content, the earlier versions, the objects in storage, the      *)
(* bytes charged to the workspace, the malware scan and the links.  A      *)
(* storage call and a transaction are a step each, so requests, scan       *)
(* workers and the maintenance run overtake each other.                    *)
(*                                                                         *)
(* Every content has an object key of its own and the size of one unit.    *)
(* What is derived from a content is in DocumentProcessing.                *)
(***************************************************************************)
EXTENDS Naturals, FiniteSets

CONSTANTS
    Contents,       \* object keys, each with what is written under it
    Malware,        \* the contents in which a scan finds malware
    TooBig,         \* the contents beyond scanMaxBytes, which are not scanned
    Handlers,       \* request handlers of the API, and the maintenance run
    Workers,        \* workers that take document.scan jobs
    NoKey,          \* no content
    Keep,           \* maxVersions: earlier versions that are kept
    Quota,          \* storage_quota_bytes of the workspace
    Faults,         \* the faults that may happen
    MaxFaults       \* bound: how many faults one behaviour has

ASSUME ContentsAssumption ==
    /\ Malware \subseteq Contents /\ TooBig \subseteq Contents
    /\ NoKey \notin Contents
ASSUME BoundsAssumption == Keep \in Nat /\ Quota \in Nat /\ MaxFaults \in Nat
ASSUME ActorsAssumption == Handlers \cap Workers = {}
ASSUME FaultsAssumption ==
    Faults \subseteq {"crash", "storage", "database", "overrun", "reply"}

VARIABLES
    status,     \* of the row: "none", "live", "trashed" or "gone"
    cur,        \* documents.storage_key
    hist,       \* storage keys of the document_versions rows
    scan,       \* scan_status of each content
    number,     \* version number of each content
    linked,     \* whether the document has a share that is not revoked
    used,       \* storage_used_bytes of the workspace
    others,     \* what its other documents use
    store,      \* the objects in storage
    fresh,      \* keys not generated yet
    job,        \* the latest document.scan job: "none" when it is finished
    onJob,      \* the workers that claimed that job and are still at it
    at,         \* the next step of each handler and worker
    saw,        \* the current content when it read the row
    mine,       \* the object it is responsible for
    todo,       \* the versions it still has to deal with
    lapses,     \* history: ways of losing data that have occurred
    faults      \* faults so far

row     == <<status, cur, hist, scan, number, linked>>
bytes   == <<used, others>>
queue   == <<job, onJob>>
local   == <<at, saw, mine, todo>>
vars    == <<row, bytes, store, fresh, queue, local, lapses, faults>>

Actors == Handlers \cup Workers

Kept    == status \in {"live", "trashed"}
Allowed == {"clean", "unscanned"}       \* assertScanAllows

Fits == used < Quota

\* GREATEST(storage_used_bytes - n, 0)
Less(n) == IF n < used THEN used - n ELSE 0

-----------------------------------------------------------------------------
(***************************************************************************)
(* Steps of a handler                                                      *)
(***************************************************************************)

\* What an actor does next, and what it has to remember for it.
GoTo(a, step, key, object, versions) ==
    /\ at'   = [at   EXCEPT ![a] = step]
    /\ saw'  = [saw  EXCEPT ![a] = key]
    /\ mine' = [mine EXCEPT ![a] = object]
    /\ todo' = [todo EXCEPT ![a] = versions]

Begin(a, step, key, object, versions) ==
    at[a] = "idle" /\ GoTo(a, step, key, object, versions)

Return(a) == GoTo(a, "idle", NoKey, NoKey, {})

Fault(kind) ==
    /\ kind \in Faults
    /\ faults < MaxFaults
    /\ faults' = faults + 1

NoFault == UNCHANGED <<lapses, faults>>

InitialScan(c) == IF c \in TooBig THEN "unscanned" ELSE "pending"

\* jobs.enqueue with the document as its dedupe key: nothing is inserted while
\* a scan job of the document is queued or running.
EnqueueScan(c) ==
    IF scan[c] = "pending" /\ job = "none"
    THEN job' = "queued" /\ onJob' = {}
    ELSE UNCHANGED queue

(***************************************************************************)
(* upload                                                                  *)
(***************************************************************************)

\* The object is written before the row.
BeginUpload(h, c) ==
    /\ status = "none"
    /\ \A g \in Handlers : at[g] = "idle"
    /\ c \in fresh
    /\ Fits
    /\ store' = store \cup {c}
    /\ fresh' = fresh \ {c}
    /\ scan' = [scan EXCEPT ![c] = InitialScan(c)]
    /\ Begin(h, "insert", NoKey, c, {})
    /\ UNCHANGED <<status, cur, hist, number, linked, bytes, queue>>
    /\ NoFault

InsertDocument(h) ==
    /\ at[h] = "insert"
    /\ Fits
    /\ status' = "live"
    /\ cur' = mine[h]
    /\ number' = [number EXCEPT ![mine[h]] = 1]
    /\ used' = used + 1
    /\ EnqueueScan(mine[h])
    /\ GoTo(h, "lookup", NoKey, mine[h], {})
    /\ UNCHANGED <<hist, scan, linked, others, store, fresh>>
    /\ NoFault

InsertRefused(h) ==
    /\ at[h] = "insert"
    /\ ~ Fits
    /\ GoTo(h, "cleanup", NoKey, mine[h], {})
    /\ UNCHANGED <<row, bytes, store, fresh, queue>>
    /\ NoFault

\* findByChecksum, after the commit but inside the same try.
Lookup(h) ==
    /\ at[h] = "lookup"
    /\ Return(h)
    /\ UNCHANGED <<row, bytes, store, fresh, queue>>
    /\ NoFault

\* The answer to the lookup is lost, and the catch takes the upload for failed.
LookupFails(h) ==
    /\ at[h] = "lookup"
    /\ Fault("reply")
    /\ GoTo(h, "cleanup", NoKey, mine[h], {})
    /\ lapses' = lapses \cup {"upload"}
    /\ UNCHANGED <<row, bytes, store, fresh, queue>>

\* The catch of upload and of replaceCurrent deletes the new object.
Cleanup(h) ==
    /\ at[h] = "cleanup"
    /\ store' = store \ {mine[h]}
    /\ Return(h)
    /\ UNCHANGED <<row, bytes, fresh, queue>>
    /\ NoFault

(***************************************************************************)
(* uploadVersion, restoreVersion and replaceCurrent                        *)
(***************************************************************************)

BeginVersion(h, c) ==
    /\ status = "live"
    /\ scan[cur] # "pending"
    /\ Fits
    /\ c \in fresh
    /\ store' = store \cup {c}
    /\ fresh' = fresh \ {c}
    /\ scan' = [scan EXCEPT ![c] = InitialScan(c)]
    /\ Begin(h, "replace", cur, c, {})
    /\ UNCHANGED <<status, cur, hist, number, linked, bytes, queue>>
    /\ NoFault

\* The copy is as malicious as the version and has its verdict.
BeginRestoreVersion(h, v, c) ==
    /\ status = "live"
    /\ scan[cur] # "pending"
    /\ Fits
    /\ v \in hist
    /\ scan[v] \in Allowed
    /\ c \in fresh
    /\ c \in Malware <=> v \in Malware
    /\ fresh' = fresh \ {c}
    /\ scan' = [scan EXCEPT ![c] = scan[v]]
    /\ Begin(h, "copy", cur, c, {v})
    /\ UNCHANGED <<status, cur, hist, number, linked, bytes, store, queue>>
    /\ NoFault

\* storage.copy fails when the version has been deleted meanwhile.
Copy(h) ==
    /\ at[h] = "copy"
    /\ IF todo[h] \subseteq store
       THEN /\ store' = store \cup {mine[h]}
            /\ GoTo(h, "replace", saw[h], mine[h], {})
       ELSE /\ Return(h)
            /\ UNCHANGED store
    /\ UNCHANGED <<row, bytes, fresh, queue>>
    /\ NoFault

\* The row is locked; it must still have the content the handler saw.
Current(h) == status = "live" /\ cur = saw[h]

MayReplace(h) == Current(h) /\ Fits

Replace(h) ==
    /\ at[h] = "replace"
    /\ MayReplace(h)
    /\ used' = used + 1
    /\ hist' = IF scan[cur] = "infected" THEN hist ELSE hist \cup {cur}
    /\ cur' = mine[h]
    /\ number' = [number EXCEPT ![mine[h]] = number[cur] + 1]
    /\ EnqueueScan(mine[h])
    /\ GoTo(h, "beyond", NoKey, NoKey, {})
    /\ UNCHANGED <<status, scan, linked, others, store, fresh>>
    /\ NoFault

\* Mutation: the refusal is thrown outside the try that cleans up.
ReplaceRefused_NoCleanup(h) ==
    /\ at[h] = "replace"
    /\ ~ MayReplace(h)
    /\ Return(h)
    /\ UNCHANGED <<row, bytes, store, fresh, queue>>
    /\ NoFault

\* Not found, VERSION_CONFLICT or no room.
ReplaceRefused(h) ==
    /\ at[h] = "replace"
    /\ ~ MayReplace(h)
    /\ GoTo(h, "cleanup", NoKey, mine[h], {})
    /\ UNCHANGED <<row, bytes, store, fresh, queue>>
    /\ NoFault

Newer(v) == {w \in hist : number[w] > number[v]}

\* Versions beyond the newest `keep`.
Beyond == {v \in hist : Cardinality(Newer(v)) >= Keep}

ListBeyond(h) ==
    /\ at[h] = "beyond"
    /\ GoTo(h, "prune", NoKey, NoKey, Beyond)
    /\ UNCHANGED <<row, bytes, store, fresh, queue>>
    /\ NoFault

(***************************************************************************)
(* removeVersion, for deleteVersion and for the pruning                    *)
(***************************************************************************)

BeginDeleteVersion(h, v) ==
    /\ status = "live"
    /\ v \in hist
    /\ Begin(h, "prune", NoKey, NoKey, {v})
    /\ UNCHANGED <<row, bytes, store, fresh, queue>>
    /\ NoFault

Oldest(v, set) == v \in set /\ \A w \in set : number[v] <= number[w]

\* The row and its bytes, in one transaction.
RemoveVersion(h, v) ==
    /\ at[h] = "prune"
    /\ Oldest(v, todo[h])
    /\ v \in hist
    /\ hist' = hist \ {v}
    /\ used' = Less(1)
    /\ GoTo(h, "dropVersion", NoKey, v, todo[h] \ {v})
    /\ UNCHANGED <<status, cur, scan, number, linked, others, store, fresh, queue>>
    /\ NoFault

\* Someone else has removed it already.
SkipVersion(h, v) ==
    /\ at[h] = "prune"
    /\ Oldest(v, todo[h])
    /\ v \notin hist
    /\ GoTo(h, "prune", NoKey, NoKey, todo[h] \ {v})
    /\ UNCHANGED <<row, bytes, store, fresh, queue>>
    /\ NoFault

\* Best effort, after the commit.
DropVersion(h) ==
    /\ at[h] = "dropVersion"
    /\ store' = store \ {mine[h]}
    /\ GoTo(h, "prune", NoKey, NoKey, todo[h])
    /\ UNCHANGED <<row, bytes, fresh, queue>>
    /\ NoFault

EndPrune(h) ==
    /\ at[h] = "prune"
    /\ todo[h] = {}
    /\ Return(h)
    /\ UNCHANGED <<row, bytes, store, fresh, queue>>
    /\ NoFault

(***************************************************************************)
(* trash, restore and purge; a link of the document                        *)
(***************************************************************************)

Trash ==
    /\ status = "live"
    /\ status' = "trashed"
    /\ linked' = FALSE
    /\ UNCHANGED <<cur, hist, scan, number, bytes, store, fresh, queue, local>>
    /\ NoFault

BeginRestore(h) ==
    /\ status = "trashed"
    /\ Begin(h, "probe", cur, NoKey, {})
    /\ UNCHANGED <<row, bytes, store, fresh, queue>>
    /\ NoFault

\* objectExists
Probe(h) ==
    /\ at[h] = "probe"
    /\ IF saw[h] \in store
       THEN GoTo(h, "restore", NoKey, NoKey, {})
       ELSE Return(h)
    /\ UNCHANGED <<row, bytes, store, fresh, queue>>
    /\ NoFault

Restore(h) ==
    /\ at[h] = "restore"
    /\ status' = IF status = "trashed" THEN "live" ELSE status
    /\ Return(h)
    /\ UNCHANGED <<cur, hist, scan, number, linked, bytes, store, fresh, queue>>
    /\ NoFault

\* purge by an owner, or purgeExpiredTrash; the row is read first.
BeginPurge(h) ==
    /\ status = "trashed"
    /\ Begin(h, "keys", cur, NoKey, {})
    /\ UNCHANGED <<row, bytes, store, fresh, queue>>
    /\ NoFault

VersionKeys(h) ==
    /\ at[h] = "keys"
    /\ GoTo(h, "purgeVersions", saw[h], NoKey, hist)
    /\ UNCHANGED <<row, bytes, store, fresh, queue>>
    /\ NoFault

PurgeVersion(h, v) ==
    /\ at[h] = "purgeVersions"
    /\ v \in todo[h]
    /\ store' = store \ {v}
    /\ GoTo(h, "purgeVersions", saw[h], NoKey, todo[h] \ {v})
    /\ lapses' = lapses \cup {"purge"}
    /\ UNCHANGED <<row, bytes, fresh, queue, faults>>

PurgeCurrent(h) ==
    /\ at[h] = "purgeVersions"
    /\ todo[h] = {}
    /\ store' = store \ {saw[h]}
    /\ GoTo(h, "sum", NoKey, NoKey, {})
    /\ lapses' = lapses \cup {"purge"}
    /\ UNCHANGED <<row, bytes, fresh, queue, faults>>

\* hardDelete adds up the versions in the snapshot of its statement ...
SumHistory(h) ==
    /\ at[h] = "sum"
    /\ GoTo(h, "delete", NoKey, NoKey, hist)
    /\ UNCHANGED <<row, bytes, store, fresh, queue>>
    /\ NoFault

\* Mutation: the bytes of a quarantined file are given back again.
Given_Twice(h) == Cardinality(todo[h]) + 1

Given(h) == Cardinality(todo[h]) + (IF scan[cur] = "infected" THEN 0 ELSE 1)

\* ... and deletes the row, the versions and the links when it has their locks.
HardDelete(h) ==
    /\ at[h] = "delete"
    /\ IF status = "trashed"
       THEN /\ status' = "gone"
            /\ used' = Less(Given(h))
            /\ hist' = {}
            /\ linked' = FALSE
            /\ lapses' = IF todo[h] = hist THEN lapses ELSE lapses \cup {"sum"}
       ELSE UNCHANGED <<status, used, hist, linked, lapses>>
    /\ Return(h)
    /\ UNCHANGED <<cur, scan, number, others, store, fresh, queue, faults>>

\* shares.create reads the document, hashes the password and inserts.
BeginLink(h) ==
    /\ status = "live"
    /\ scan[cur] \in Allowed
    /\ Begin(h, "link", NoKey, NoKey, {})
    /\ UNCHANGED <<row, bytes, store, fresh, queue>>
    /\ NoFault

\* The foreign key wants the row, in the trash or not.
InsertLink(h) ==
    /\ at[h] = "link"
    /\ linked' = (linked \/ Kept)
    /\ Return(h)
    /\ UNCHANGED <<status, cur, hist, scan, number, bytes, store, fresh, queue>>
    /\ NoFault

-----------------------------------------------------------------------------
(***************************************************************************)
(* The worker of document.scan                                             *)
(***************************************************************************)

ClaimScan(w) ==
    /\ job = "queued"
    /\ job' = "running"
    /\ onJob' = onJob \cup {w}
    /\ Begin(w, "read", NoKey, NoKey, {})
    /\ UNCHANGED <<row, bytes, store, fresh>>
    /\ NoFault

ReadDocument(w) ==
    /\ at[w] = "read"
    /\ ~ (Kept /\ scan[cur] = "pending" /\ cur \notin store)
    /\ IF Kept /\ scan[cur] \in {"pending", "infected"}
       THEN GoTo(w, IF scan[cur] = "pending" THEN "judge" ELSE "erase", cur, NoKey, {})
       ELSE GoTo(w, "settle", NoKey, NoKey, {})
    /\ UNCHANGED <<row, bytes, store, fresh, queue>>
    /\ NoFault

Verdict(c) == IF c \in Malware THEN "infected" ELSE "clean"

\* Mutation: the verdict goes to whatever the document holds now.
Judges_AnyKey(w) == Kept /\ scan[cur] = "pending"

\* WHERE storage_key = $2 AND scan_status = 'pending'
Judges(w) == Kept /\ cur = saw[w] /\ scan[cur] = "pending"

\* setScanResult; for malware with the links and the bytes in one transaction.
Judge(w) ==
    /\ at[w] = "judge"
    /\ IF Judges(w)
       THEN LET verdict == Verdict(saw[w]) IN
            /\ scan' = [scan EXCEPT ![cur] = verdict]
            /\ IF verdict = "infected"
               THEN /\ linked' = FALSE
                    /\ used' = Less(1)
                    /\ GoTo(w, "erase", saw[w], NoKey, {})
               ELSE /\ GoTo(w, "settle", NoKey, NoKey, {})
                    /\ UNCHANGED <<linked, used>>
       ELSE /\ GoTo(w, "settle", NoKey, NoKey, {})
            /\ UNCHANGED <<scan, linked, used>>
    /\ UNCHANGED <<status, cur, hist, number, others, store, fresh, queue>>
    /\ NoFault

\* Mutation: the object to erase is looked up again.
Erase_Current(w) ==
    /\ at[w] = "erase"
    /\ store' = store \ {cur}
    /\ GoTo(w, "settle", NoKey, NoKey, {})
    /\ UNCHANGED <<row, bytes, fresh, queue>>
    /\ NoFault

Erase(w) ==
    /\ at[w] = "erase"
    /\ store' = store \ {saw[w]}
    /\ GoTo(w, "settle", NoKey, NoKey, {})
    /\ UNCHANGED <<row, bytes, fresh, queue>>
    /\ NoFault

\* complete: a worker whose job was finished by another one changes nothing.
Settle(w) ==
    /\ at[w] = "settle"
    /\ job' = IF w \in onJob THEN "none" ELSE job
    /\ onJob' = onJob \ {w}
    /\ Return(w)
    /\ UNCHANGED <<row, bytes, store, fresh>>
    /\ NoFault

\* retry or fail: the row comes back, unless a newer one has its key.
GiveBack(w) ==
    /\ IF w \in onJob \/ job = "none"
       THEN job' \in {"queued", "none"}
       ELSE UNCHANGED job
    /\ onJob' = onJob \ {w}
    /\ Return(w)
    /\ UNCHANGED <<row, bytes, store, fresh>>

\* The object to scan is missing.
ScanFails(w) ==
    /\ at[w] = "read"
    /\ Kept /\ scan[cur] = "pending" /\ cur \notin store
    /\ GiveBack(w)
    /\ NoFault

\* The worker that claimed the job has died.
LeaseExpires ==
    /\ job = "running"
    /\ onJob = {}
    /\ job' = "queued"
    /\ UNCHANGED <<row, bytes, store, fresh, onJob, local>>
    /\ NoFault

\* It has not, but takes too long.
Overrun ==
    /\ job = "running"
    /\ onJob # {}
    /\ Fault("overrun")
    /\ job' = "queued"
    /\ UNCHANGED <<row, bytes, store, fresh, onJob, local, lapses>>

\* Mutation: documents in the trash are left alone.
Unscanned_LiveOnly == status = "live" /\ scan[cur] = "pending" /\ job = "none"

\* pendingWithoutScanJob
Unscanned == Kept /\ scan[cur] = "pending" /\ job = "none"

RequeuePendingScans ==
    /\ Unscanned
    /\ EnqueueScan(cur)
    /\ UNCHANGED <<row, bytes, store, fresh, local>>
    /\ NoFault

-----------------------------------------------------------------------------
(***************************************************************************)
(* Other documents of the workspace, and faults                            *)
(***************************************************************************)

\* Bound: the other documents use nothing, one unit, or the whole quota.
OthersStore(n) ==
    /\ others = 0
    /\ used + n <= Quota
    /\ others' = n
    /\ used' = used + n
    /\ UNCHANGED <<row, store, fresh, queue, local>>
    /\ NoFault

OthersRelease ==
    /\ others # 0
    /\ others' = 0
    /\ used' = Less(others)
    /\ UNCHANGED <<row, store, fresh, queue, local>>
    /\ NoFault

\* A storage call of a handler fails: deletions after a commit and in a catch
\* are logged, the others end the request.
StorageFails(h) ==
    /\ Fault("storage")
    /\ \/ /\ at[h] \in {"cleanup", "copy", "probe", "purgeVersions"}
          /\ Return(h)
       \/ /\ at[h] = "dropVersion"
          /\ GoTo(h, "prune", NoKey, NoKey, todo[h])
    /\ UNCHANGED <<row, bytes, store, fresh, queue, lapses>>

\* A transaction or a query of a handler fails.
DatabaseFails(h) ==
    /\ Fault("database")
    /\ \/ /\ at[h] \in {"insert", "replace"}
          /\ GoTo(h, "cleanup", NoKey, mine[h], {})
       \/ /\ at[h] \in {"beyond", "restore", "keys", "sum", "delete", "link"}
          /\ Return(h)
       \/ \E v \in todo[h] :
          /\ at[h] = "prune"
          /\ Oldest(v, todo[h])
          /\ GoTo(h, "prune", NoKey, NoKey, todo[h] \ {v})
    /\ UNCHANGED <<row, bytes, store, fresh, queue, lapses>>

\* The scanner, the storage or the database fails under a worker.
WorkerFails(w) ==
    /\ at[w] \in {"read", "judge", "erase"}
    /\ Fault("storage")
    /\ GiveBack(w)
    /\ UNCHANGED lapses

Crash(a) ==
    /\ at[a] # "idle"
    /\ Fault("crash")
    /\ onJob' = onJob \ {a}
    /\ Return(a)
    /\ UNCHANGED <<row, bytes, store, fresh, job, lapses>>

-----------------------------------------------------------------------------

Init ==
    /\ status = "none"
    /\ cur = NoKey
    /\ hist = {}
    /\ scan = [c \in Contents \cup {NoKey} |-> "none"]
    /\ number = [c \in Contents \cup {NoKey} |-> 0]
    /\ linked = FALSE
    /\ used = 0
    /\ others = 0
    /\ store = {}
    /\ fresh = Contents
    /\ job = "none"
    /\ onJob = {}
    /\ at = [a \in Actors |-> "idle"]
    /\ saw = [a \in Actors |-> NoKey]
    /\ mine = [a \in Actors |-> NoKey]
    /\ todo = [a \in Actors |-> {}]
    /\ lapses = {}
    /\ faults = 0

UploadStep(h) ==
    \/ \E c \in Contents : BeginUpload(h, c)
    \/ InsertDocument(h) \/ InsertRefused(h) \/ Lookup(h) \/ LookupFails(h) \/ Cleanup(h)

VersionStep(h) ==
    \/ \E c \in Contents : BeginVersion(h, c)
    \/ \E v, c \in Contents : BeginRestoreVersion(h, v, c)
    \/ \E v \in Contents : BeginDeleteVersion(h, v) \/ RemoveVersion(h, v) \/ SkipVersion(h, v)
    \/ Copy(h) \/ Replace(h) \/ ReplaceRefused(h)
    \/ ListBeyond(h) \/ DropVersion(h) \/ EndPrune(h)

TrashStep(h) ==
    \/ BeginRestore(h) \/ Probe(h) \/ Restore(h)
    \/ BeginPurge(h) \/ VersionKeys(h) \/ PurgeCurrent(h) \/ SumHistory(h) \/ HardDelete(h)
    \/ \E v \in Contents : PurgeVersion(h, v)
    \/ BeginLink(h) \/ InsertLink(h)

ScanStep(w) ==
    ClaimScan(w) \/ ReadDocument(w) \/ Judge(w) \/ Erase(w) \/ Settle(w) \/ ScanFails(w)

\* A bulk action is a handler that takes its documents one after the other.
Next ==
    \/ \E h \in Handlers :
        UploadStep(h) \/ VersionStep(h) \/ TrashStep(h) \/ StorageFails(h) \/ DatabaseFails(h)
    \/ \E w \in Workers : ScanStep(w) \/ WorkerFails(w)
    \/ \E a \in Actors : Crash(a)
    \/ Trash
    \/ LeaseExpires \/ Overrun \/ RequeuePendingScans
    \/ (\E n \in {1, Quota} : OthersStore(n)) \/ OthersRelease

Safety == Init /\ [][Next]_vars

-----------------------------------------------------------------------------
(***************************************************************************)
(* Properties                                                              *)
(***************************************************************************)

Steps == {"idle", "insert", "lookup", "cleanup", "copy", "replace", "beyond", "prune",
          "dropVersion", "probe", "restore", "keys", "purgeVersions", "sum", "delete",
          "link", "read", "judge", "erase", "settle"}

\* Everything is well formed, and what the workspace uses stays within its
\* quota although every request checks it long before it reserves.
TypeOK ==
    /\ status \in {"none", "live", "trashed", "gone"}
    /\ cur \in Contents \cup {NoKey}
    /\ Kept => cur \in Contents
    /\ hist \subseteq Contents
    /\ scan \in [Contents \cup {NoKey} -> {"none", "pending", "clean", "infected", "unscanned"}]
    /\ number \in [Contents \cup {NoKey} -> Nat]
    /\ linked \in BOOLEAN
    /\ used \in 0..Quota
    /\ others \in 0..Quota
    /\ store \subseteq Contents
    /\ fresh \subseteq Contents
    /\ job \in {"none", "queued", "running"}
    /\ onJob \subseteq Workers
    /\ at \in [Actors -> Steps]
    /\ saw \in [Actors -> Contents \cup {NoKey}]
    /\ mine \in [Actors -> Contents \cup {NoKey}]
    /\ todo \in [Actors -> SUBSET Contents]
    /\ lapses \subseteq {"upload", "purge", "sum"}
    /\ faults \in 0..MaxFaults

Quarantined == scan[cur] = "infected"

\* As long as no purge has deleted an object and no upload that was committed
\* has been taken for failed, every version a document lists, and its current
\* content unless it is quarantined, is in storage: pruning, quarantine,
\* refused versions and crashes delete nothing that a row points at ("never a
\* version in the list that can't be downloaded", documents.service.ts:176).
BytesKept ==
    Kept /\ lapses \cap {"purge", "upload"} = {}
        => hist \cup (IF Quarantined THEN {} ELSE {cur}) \subseteq store

\* The workspace is charged for exactly the current content, unless it is
\* quarantined, and the earlier versions: once each, until they are removed,
\* and with nothing left when the document is deleted for good
\* (documents.repo.ts:503, migrations/030_document_versions.sql:2); except when
\* the history changed between the snapshot and the locks of hardDelete.
ChargedBytes ==
    IF Kept THEN Cardinality(hist) + (IF Quarantined THEN 0 ELSE 1) ELSE 0

ChargeExact == "sum" \notin lapses => used = others + ChargedBytes

\* A content is called clean only by a scan of that content, or as the copy of
\* one that was: no late verdict vouches for a newer file (README.md:411,
\* documents.repo.ts:184).
VerdictsEarned == \A c \in Contents : scan[c] = "clean" => c \notin Malware

\* Without faults nothing is left in storage that no row accounts for: refused
\* uploads and versions, pruned versions and quarantined files are gone when
\* the requests and the scan are.
Quiet == faults = 0 /\ job = "none" /\ \A a \in Actors : at[a] = "idle"

NoOrphans ==
    Quiet /\ status # "gone" /\ lapses = {}
        => store \subseteq hist \cup (IF Kept /\ ~ Quarantined THEN {cur} ELSE {})

=============================================================================
