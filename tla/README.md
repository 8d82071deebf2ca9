# Vault: TLA+ models and proofs

Vault stores documents for teams. An API (`src/apps/api/src/server.ts`) and a
worker (`src/apps/api/src/worker.ts`) share one PostgreSQL database and one S3
bucket, any number of both may run, and a web application
(`src/apps/web`) calls the API. Little is kept in the memory of a process that
another one relies on, so what is hard about the program is in how requests,
jobs, the maintenance run and browser tabs interleave between their SQL
statements, storage calls and answers, and in what is left when one of them stops
half way. That is what the modules here model.

## The step of every model

The same rule is used in every module:

- one SQL statement outside a transaction is one step, and so is a transaction
  that no other one can see into (all of them run at READ COMMITTED; a `SELECT
  ... FOR UPDATE` that a decision depends on is a step of its own, see
  `WorkspaceAccess`);
- one call to object storage is one step;
- in a browser, what runs between two `await`s is one step, and an answer is
  received in a step of its own, in any order the code does not exclude;
- whatever a handler read before is kept in its own variables and may be stale
  when it is used, exactly as in the code;
- faults are actions too. Where a module has a set `Faults` it names the kinds a
  run allows, and `MaxFaults` (or `MaxTroubles`, `MaxErrors`) bounds how many a
  behaviour has.

Names of actions and variables are those of the code where TLA+ allows it, and
`PROJECT.json` maps each definition to the lines it stands for. Operators named
`X_Something` beside an `X` and marked "Mutation" are wrong variants of `X`:
replacing `X` by one makes the named property fail, which shows that the
property depends on that code.

Some invariants speak of a history variable (`lapses`, `raced`, `missed`,
`crossed`, `mixed`, `stranded`, `wiped`, `mistaken`, the field `late`). Such a
variable records that one particular thing has happened after which the code
gives up a guarantee. The invariant then says that nothing else breaks it, and
the section "What does not hold" lists the things.

## Inventory

| Component | State it keeps | Operations | What is hard | Model |
|---|---|---|---|---|
| Job queue (`jobs/`) | `jobs` rows: status, attempts, run_at, locked_until, dedupe_key | enqueue in the caller's transaction, claim, complete, retry, fail, retention | takeover of a job whose worker is slow but alive, lost answers, retry against a newer job of the same key, slots scheduled by every worker | `JobQueue`, `JobLedger` |
| Direct uploads (`modules/uploads`) | `uploads` rows, multipart uploads and objects, the quota counter, documents | create, signParts, complete, abort, expireStale | abort, expiry and completion of one upload at once; a browser with signed URLs; a crash in `completing` | `DirectUploads` |
| Uploader of the web application (`lib/direct-upload.ts`) | a queue of parts, signed URLs, the id in localStorage, the page's control | start, resume, cancel, discard, retry a part, complete | lost answers, a resumed run beside one that is still failing, a closed tab | `BrowserUploads` |
| Workspaces, membership, invitations (`modules/workspaces`) | workspaces, members, invitations, and the links that depend on a role | invite, accept, change role, remove or leave, delete, purge | the last owner; an invitation used twice; links of whoever loses a role | `WorkspaceAccess` |
| Documents, versions, trash (`modules/documents`) | document row, version rows, objects, the quota counter, scan status, derived picture, text and checksum | upload, uploadVersion, restoreVersion, deleteVersion, prune, trash, restore, purge, scan, requeue, process, backfill, checksum | objects and rows are not one transaction; late verdicts and late previews; several requests on one document | `DocumentStore`, `DocumentProcessing` |
| Archives (`documents/archive.ts`, `lib/slots.ts`) | slots of one process, a plan of entries | plan, record, stream, leave, fail | a slot returned on every way out; documents that change between plan and stream | `ZipArchives` |
| Share links (`modules/shares`) | shares, e-mail codes, grants, attempt counts, events, viewers, counters | create, update, revoke, verify password and code, view, claim a download, record | counts checked before and written after slow work; cookies that outlive what they prove; links that outlive their document; history written in the background | `ShareLinks`, `LinkGrants`, `LinkViewers` |
| Folders, folder links, file requests | folder rows by parent, folder_shares, file_requests | create, move, delete; link, view, unlock; ask, send, close | paths and emptiness read before another request writes; the last place of a request | `FolderTree`, and `WorkspaceAccess` for roles |
| Audit trail (`modules/audit`) | a hash chain per workspace | append, verify page by page, list, export | appending under a lock while pages are verified or read | `Activity`, `EventPages` |
| Webhooks (`modules/webhooks`) | webhooks, deliveries, consecutive failures | switch, remove, ping, deliver, retry, switch off | deliveries in flight while the setting changes | `Activity` |
| Notifications and digests | notifications, preferences, digest marks, streams, one LISTEN connection | fan out, read, digest; subscribe, signal, reconnect, poll | a digest put together while notifications arrive; a bell that must not miss one | `Inbox` |
| Accounts, sessions, API tokens | users, sessions, tokens, reset and verification links, failed sign-ins | register, sign in, reset, change password, verify, make and revoke tokens, end sessions | a sign-in that overlaps a password change; single-use links; counts checked early | `AccountSessions` |
| Maintenance (`maintenance.ts`) | an advisory lock of a connection, rate-limit rows | a pass of independent steps | one step failing, two instances at once, a lost connection | `Maintenance`, and its sweeps in `JobQueue`, `DirectUploads`, `DocumentStore`, `DocumentProcessing`, `Inbox` |
| Documents page (`documents/page.tsx`) | rows, cursor, selection, the query shown, requests and handlers under way | tabs, search, infinite scroll, refresh, tick, single and bulk actions, upload | overtaken answers, ticks of rows that are gone, reloads of an older query | `DocumentsPage` |
| Panels and lists (`components/*-panel.tsx`, tokens, versions, members) | a list, details of one row, a secret shown once, busy marks | load, create, change, revoke, expand, ping, dismiss | answers of overlapping tasks that come in any order | `Panels` |
| Activity page, CSV exports | rows, a cursor, the filter | load, load older, export | rows written and partitions dropped between pages | `EventPages` |
| Storage, database, mail adapters | none | one call each | failed calls and lost answers | as steps and faults of the others |
| Overview, search, forms, contracts, OpenAPI, configuration | none that others rely on | reads and pages | - | not modelled |

How they interact: handlers change rows and enqueue jobs in the same
transaction; the worker claims jobs and calls the services; a role change
revokes links in three tables; uploads and documents charge one counter,
`workspaces.storage_used_bytes`, with a conditional UPDATE
(`workspaces.repo.ts:83`); events of a transaction are chained and their
deliveries queued in it; a notification signals the hub of every API process,
which signals its streams; maintenance closes what requests left behind; pages
show what lists answered and load again after every change.

## The modules

### JobQueue and JobLedger

`rows` is the jobs table, `worker` what each process holds between two
statements, `before` the order in which the `run_at` of rows passed (the ORDER
BY of `claim`), `closed` and `inserted` the schedule of `worker.ts:42-60`.
Clock values are abstracted: `due` says that `run_at` has passed, `lease` is
`held`, `expired` or `none` for `locked_until`. Each action is one statement of
`jobs.repo.ts`; `complete`, `retry` and `fail` update the row by id alone
whatever its status, as in the code. `Overrun` is a handler that is still
running when its reservation ends, `LoseAck` a `complete` that commits without
an answer, `Abandon` a dead process.

`JobLedger` is what the rest of the system may rely on: a job is absent, open,
done or dead, at most one open job has a key, and an open job is closed in the
end. `JobQueue!LedgerView` maps rows to it, and `ImplementsLedger` says that
the queue refines it, liveness included.

### DirectUploads

`status` is the row, `multi` and `object` what S3 holds, `docs` the documents,
`used` the counter, `proc` each handler's place in `uploads.service.ts`.
`complete` is ten steps: the move to `completing`, headObject, listParts,
completeMultipartUpload, headObject, readRange, then the transaction of the
document, or the three steps of `finish` (parts, object, row), or the way back
to `pending`. Parts are `missing`, `wrong` (size), `good` or `bad` (type).
`PutParts` is a browser: a signed URL works as long as the multipart upload
exists. `Janitor` is `expireStale`.

### WorkspaceAccess

`role`, `invites`, `links` are the tables, `lock` the row lock of the workspace
(`lockForUpdate`), `request` and `pc` the handlers. Role changes, removals and
the deletion take the lock, decide (`Check`) and write; the decision on the
last owner is separate from the write because other requests run in between.
Invitations and links are inserted from what was read at the beginning, and
wait where their foreign key meets the lock. `RevokeAmong` stands for the bulk
UPDATEs over shares, folder links and file requests. `AccessSteps` is made of
three rules, for joining, for changing a role and for losing it.

### DocumentStore

One document. `cur`, `hist`, `scan`, `number`, `linked` are the row, its
versions and its shares, `store` the objects, `used` the counter and `others`
the rest of the workspace. `at`, `saw`, `mine`, `todo` are what a handler or a
scan worker has read and still has to do. Objects are written before rows and
deleted after them, except by purge, which deletes them first. `job` and `onJob`
are the document's scan job seen through the queue: one unfinished job per
document, which may be taken over. Every content has the size one, and
a key of its own as in the code (keys are random).

`lapses` records three events:

- `purge`: a purge has deleted an object. A restore may already be past its
  look at the object, and a purge whose later step fails leaves a document in
  the trash without some of its objects (`documents.service.ts:722-735`);
- `upload`: the look-up of duplicates after the commit failed, and the `catch`
  deleted the object of the committed document (`documents.service.ts:498`);
- `sum`: the history changed between the snapshot in which `hardDelete` adds up
  the versions and the row locks it takes (`documents.repo.ts:503-520`).

### DocumentProcessing

Extends `DocumentStore` with what workers derive from the current content:
`picture` (the key of a thumbnail or preview; `shelf` are the pictures in
storage), `text`, `processed`, `checked` (the checksum). Every action of
`DocumentStore` is used with its effect on these columns. A worker alternates
between scan jobs and processing jobs; `processDocument` reads the row, derives
and stores a picture, and writes only if the row still has the same object
(`Record`), trying again a bounded number of times (`Rounds`). A picture nobody
needs any more is deleted after the commit (`doomed`), which may fail.
`EnqueuePendingProcessing` is the backfill of maintenance.

### ShareLinks and LinkViewers

One link to one document. `link`, `expired`, `max`, `download` and `count` are
its row, `deleted` and `scan` the document's, `due` and `recorded` the downloads
whose event (`writeAccess`) is still to be written or is written. `at` and `saw`
are what a request read: a visitor's `downloadUrl` is `BeginDownload` (the link
is resolved) and `ClaimDownload` or `ClaimRefused` (the conditional UPDATE);
`create` is `BeginCreate` and `InsertLink`, with the hashing of the password in
between; `update` is `BeginUpdate` and `UpdateSettings`. `trash` is the
transaction that takes the document to the trash (`documents.service.ts:672-690`,
READ COMMITTED): `BeginTrash` has updated the document and the live link it found
(`"held"`: who wants to write the link waits, `RowFree`) or found none (`"open"`:
one may still be inserted, and survives `CommitTrash`). Its two UPDATEs are one
step, since what is inserted between them is as if it were inserted before both.
`ScanInfected` revokes the link in one step, and `NewVersion` does not touch it.
`content` reads and changes nothing, and is no step; of the values of
`scan_status`, `clean` and `skipped` are one here, as `create` lets both pass.
The locks of the link are left to `LinkGrants`; a visitor who downloads here has
opened them.

`lapses` again names the events after which a guarantee ends:

- `create`: the link was inserted while its document was in the trash, by a
  request that had read the document before;
- `window`: the link was inserted between the UPDATE that revokes the links and
  the commit of the trash. Until the commit visitors can resolve it, so that even
  a download may be claimed after it;
- `limit`: `update` wrote a limit below the count, because downloads happened
  after it had read the count (`shares.service.ts:453`);
- `record`: an event was not written, or the process died before
  (`shares.service.ts:226-277`).

`LinkViewers` extends it with the history: the background transactions that
find or make a viewer's row (`UpsertForView`, `UpsertForDownload`), move the
counters of the link (`CountSuccess`) and decide what its creator hears
(`Messages`, `Commit`). A viewer is a network, since only the hash of an address
is stored.

### LinkGrants

The locks of one link. `set` is the password hash and the addresses of its row,
`codes` the rows of `share_email_codes`, `wrong` the `bad_password` events in
the window, `cookie` the grant in each browser. `at`, `row`, `asked` and `code`
are what a request has read. `requestCode` is three steps (resolve, count, send
under the advisory lock), `verifyCode` three (resolve, find and compare, then
count the failure or consume the code), `unlock` two or three. A cookie is
signed with the password hash (`ReadGrant`), and its address is compared with
the addresses of the row (`EmailOk`) on every use.

Passwords stand for their hashes: setting the same password again gives another
value. Guessing a code or a password right without knowing it is excluded; how
many guesses there are is what `GuessesBounded` is about. A visitor is one
browser with one request at a time; a person with several tabs is several
visitors with one `MailboxOf`. Requests for a link that is over change nothing
here but counts of blocked attempts, which nothing reads.

### AccountSessions

One account: `password` (its number; hashing and verifying take time of their
own between two statements), `sessions`, `tokens`, `mails` (reset and
verification links), `failures`. Each request keeps the number it read (`saw`).
Changes and resets are transactions that take the row of the user (`rowLock`)
and end every session and token but the one that may stay. `late` marks a session
or token whose request was let in before the password changed and which was
inserted after it.

### FolderTree

The folders of a workspace by `parent`, documents in them, one folder link and
one file request. A move reads the path of its target, then the height of what
it moves, then writes (`ReadPath`, `ReadHeight`, `WriteMove`), without a lock;
`DeleteFolder` follows a look that found the folder empty; foreign keys decide
the rest. `Up` and `SubtreeHeight` are the recursive queries, which stop at
`WalkGuard`. `ClaimSlot` takes a place of the request before the file is
stored, `ReceiveFile` makes the document; `CountAccess`, `VerifyUnlock` and
`TellCreator` are the background counts of the link. A link or a request that
went with its folder is `"gone"`: what was under way for it finds no row, and no
later link is taken for it.

### Activity

`trail` are the rows in the order of `seq`, rolled back ones too, each with the
event whose hash it chains to. An appender takes the advisory lock, reads the
head and inserts; the caller's transaction ends later, or rolls back. `reader` is
`verifyChain`, a page at a time. `hook` is one webhook, `jobs` its deliveries:
sent and answered (`Deliver`), recorded, counted, and closed by the queue when the
handler has returned (`EndDelivery`), each in a step of its own; retried by the
queue, and taken over after a crash, so that a delivery may be sent, recorded and
counted twice. A count that reaches `DisableAfter` switches the hook off.

### Inbox

Two halves that share the rows of one person. Digests: fan-out jobs write rows
(again if they are retried), passes of maintenance find the person due, take the
rows with one UPDATE and commit with the mail or roll back. Bell: the tab's first
load, its stream, the polling after failures; `conn` is the one LISTEN
connection of the process, `stream` the tab's subscription, `signal` and `loads`
what is on its way to the tab. A connection breaks (`LoseConnection`) before the
hub is told (`NoticeLoss`), and the API ends a stream (`EndByServer`, `Restart`)
before the tab hears of it (`StreamError`). Every `error` of the stream counts
(`CountError`): a refusal ends the attempts at once, the third error of any kind
does too. `missed` says that a row was written after the stream had ended, or while
the hub's connection was broken or being made again, or that an answer was lost
or overtaken.

### ZipArchives

Requests for an archive: `slot` (one of `Capacity`), plan from one query, record
the downloads, open the response, then one document after the other from
storage. `stored` and `scan` go on changing. A path is a base name and the
numbers appended to it, so that `UniquePath` is what the code does to names that
meet. `unheard` is a request whose client had left before the listener for the
end of its response was attached.

### EventPages, Maintenance, Panels

`EventPages` is a history that is read in pages from below a cursor, by the
activity page (with a filter, and answers to several loads) or by an export
(`source`, `reader`), while rows are written and old partitions dropped.

`Maintenance` is a pass: each instance takes a connection, tries the advisory
lock, runs the steps, each of which may fail, and unlocks. The lock belongs to a
connection (`holder`, `depth`) and is gone when that breaks. `counter` is one
row of the rate limits, with `admitted` the requests that were let through.

`Panels` is one panel (`kind`) of the eight, as they are written alike; a task
keeps what it saw at its click. What differs between them (who loads again, who
patches, what a banner hides, which buttons are off while busy) is in the
definitions `Loads`, `Patches`, `Banner`, `Gated` and so on.

### DocumentsPage and BrowserUploads

`DocumentsPage` is the page and, in one step each, the API it calls: two lists
(a folder and the trash) of which it shows one. `requests` are lists asked for,
`handlers` actions under way, each with the query of the render it was clicked
in. `latest` is the ref that numbers requests, `page` what is on screen,
`selected` the ticks.

`BrowserUploads` is `directUpload` with its workers, one file of a few parts, in
front of the API's rows and of what storage has. A run that has failed may still
have workers at a part, while the next run resumes.

### The modules for model checking

`MC...` modules extend one module and give constants a shape, name properties of
instances, and define symmetries. Two of them, `MCBrowser` and `MCWorkspace`,
explore several parts in one run. Those parts share no variable and no row:
`about` says which part a behaviour is about, the generic variables `s1, s2,
...` are the variables of that part, and the others are `None`. An invariant
there is the part's own invariant under the condition that the behaviour is
about it. So the state spaces add up and do not multiply, and nothing is assumed
of one part by another.

## The runs

Every run passes: TLC explores all of its states and finds no violation.

| Run | Instance | What it shows |
|---|---|---|
| `job_queue_ledger` | 2 rows, 2 workers, up to 2 crashes, fairness | reservations are exclusive, attempts bounded, and the queue implements `JobLedger`: every job ends, once |
| `browser_and_queue` | queue: 3 rows, 2 workers, a key and a slot, a crash, an overrun or a lost answer; page: 2 documents, pages of one row, 2 lists and 1 action under way, 1 trouble; uploader: 2 parts, 2 workers, 2 runs, 1 fault | `DedupeUnique` and `SlotScheduledOnce` whatever happens to workers; `PageSound`; `UploaderSound` |
| `uploads_race` | 2 uploads of 2 and 3 units in a quota of 4, 2 requests and the janitor, 1 fault, fairness | exact reservations within the quota, nothing left by ended uploads, and every reservation is returned or becomes a document |
| `workspace_parts` | access: 2 people, 2 invitations, 1 link, 2 requests; archives: 2 documents of one name, 1 slot; events: 2 categories, 5 rows, pages of 2, 3 loads; upkeep: 2 instances, 3 connections, a limit of 1; panels: 8 kinds, 2 rows, 3 clicks, 2 at a time | the last owner and the three rules of access; slots and archives; histories read whole; passes and limits; panels |
| `documents_life` | 3 contents, one of them malware, 2 requests, 1 scan worker, 1 history slot, quota 3, 1 fault | stored bytes, exact charge, no orphans, bounded history |
| `documents_scan` | 3 contents (plain and sent directly, malware, too big) of which 2 are stored, 1 request, 2 workers, 3 pictures, 1 fault, fairness | verdicts are earned, what is derived fits the content, and every waiting file is judged and processed |
| `links_downloads` | 2 visitors, a manager, limits of 1 or none, 2 downloads, 2 views, 2 networks, 2 writers | the limit is kept, history and counters are exact, nothing is taken from the trash, no link comes back with its document |
| `links_grants` | 2 browsers of one person, 2 codes, 3 settings of the locks, limits of 1 | access is earned, codes are spent once, guesses are bounded |
| `account_sessions` | 2 requests, 2 sessions, 3 tokens, 2 links, 2 passwords, limits of 1 | what outlives a password, and by how much counts are exceeded |
| `folder_tree` | 3 folders at most 2 deep, 1 document, 6 requests, 2 at a time | the tree, the places of a request, the counts of a link |
| `activity` | 2 writers, 3 events, pages of 2, a hook off after 2 failures and switched once, fairness | the chain, deliveries for committed events, their ends |
| `inbox` | 2 events, one durable and one essential, 2 tries, 2 passes, 2 loads | digests exact, the bell fed and converging |

Why the bounds are enough to be of interest:

- *Two requests or workers* on one object are what every race in this code
  needs: all decisions are pairwise, between one reader and one writer.
- *Three rows* let a job, its successor under the same key and an unrelated
  older job exist at once; two attempts include the first, the last and one
  beyond it after a takeover.
- *Uploads of 2 and 3 in 4* do not fit together, so the conditional UPDATE
  decides; a size of 2 released twice would make the counter wrong by more than
  the floor of `GREATEST` hides.
- *Three contents with one earlier version kept* reach the pruning, a history
  of clean and infected contents, and a third version while the second is
  scanned. Other documents may take all of the quota, so that every reservation
  is also refused. With processing, two stored contents are enough for a late
  preview of the first to meet the second, and three pictures for one that is
  made twice.
- *A limit of 1 with 2 downloads* lets two visitors want the last download, and
  one more after the limit was lifted. *Limits of 1 on codes, guesses, tokens and
  failed sign-ins* put every request at the limit; the two requests then go past
  it by one, which is what the bounds allow.
- *Three settings of the locks* (an address; another address and a password;
  another password alone) are such that every edit takes away something that a
  browser may have proved.
- *Three folders two deep* are enough for two moves that make a cycle and for
  one that nests too deep; six requests make them, move them and still leave room
  for a removal.
- *Three events in pages of two* end a page before, at and after every one. *Five
  rows in pages of two* are three pages, with rows written at the head and a
  partition dropped at the tail in between.
- *Two documents and pages of one row* make every list have a second page and
  every action change which row a page ends at. *Two parts and two workers* let
  one worker fail while the other has a part on its way.
- *Two documents of one name*, which is also the name of the text an archive
  adds, make every path collide.
- *Two clicks at a time and three in all* let a task overlap another one and be
  followed by one that saw neither.
- *One fault* at any step, two in the queue, where a retry must survive a second
  one.

Everything else is finite by itself, or cut by a constant marked "bound" in its
module. Symmetry is used for workers, visitors, managers, codes, requests and
people other than the creator, in runs without liveness properties only.
`CHECK_DEADLOCK` is off where contents, uploads, codes or people can be used up
and the system comes to rest; the job queue of `job_queue_ledger`, which can
always do something, is checked for deadlock.

## Fairness

Safety runs use specifications without fairness. For the liveness properties:

- `JobQueue!Fairness`: a worker polls every second and finishes what it began
  (`worker.ts`, `queue.ts:77-120`), and time passes. A handler either succeeds
  or throws; nothing is said about which, or about how often workers crash.
- `DirectUploads!Fairness`: a handler that has begun goes on, `expires_at`
  passes, and maintenance (a slot of the queue) runs again and again. Clients
  need not do anything: `ReservationReturns` holds when they never come back.
- `DocumentProcessing!FairnessAll`: a worker takes scan and processing jobs and
  goes on, expired leases are noticed, and the two sweeps of maintenance run again
  and again. Requests have no fairness at all.
- `Activity`: weak fairness on the worker's next step for a delivery, which the
  queue guarantees. Writers, owner and receiver have none.

The bell and the pages have safety properties only: "in a quiet moment the
screen is right". Nothing forces a quiet moment.

## Proofs

Eight modules hold the proofs; each extends what it proves about. They hold for
any number of rows, workers, uploads, people, links, contents, browsers, codes,
events, clicks and handlers, and for any number of faults.

| Module | About | Theorems |
|---|---|---|
| `JobQueueProofs` | `JobQueue`, `JobLedger`, `BrowserUploads`, `DocumentsPage` | `TypeCorrect`, `DedupeHolds`, `SlotHolds`, `ReservationHolds`, `DeadLetterHolds`, `AttemptsHold`, `LedgerImplemented`, `UploadsHold`, `PageHolds` |
| `DirectUploadsProofs` | `DirectUploads` | `TypeCorrect`, `QuotaHolds`, `ReservationsHold`, `EndedHolds`, `CompletedHolds`, `EndedStays` |
| `WorkspaceProofs` | `WorkspaceAccess`, `ZipArchives`, `EventPages`, `Maintenance`, `Panels` | `TypeCorrect`, `OwnerRemains`, `AccessStepsHold`, `SlotsHold`, `ArchivesHold`, `HistoriesHold`, `PassesHold`, `PanelsHold` |
| `DocumentStoreProofs` | `DocumentStore`, `DocumentProcessing` | `TypeCorrect`, `VerdictsHold`, `BytesHold`, `ChargeHolds`, `OrphansHold`, `DerivedHolds`, `VerdictsHoldAll` |
| `ShareLinksProofs` | `ShareLinks`, `LinkViewers`, `FolderTree` | `TypeCorrect`, `LimitHolds`, `RecordsHold`, `TrashHolds`, `HistoryImplementsLink`, `HistoryHolds`, `TreeHolds`, `CountersHold`, `ClosedHolds` |
| `LinkGrantsProofs` | `LinkGrants` | `TypeCorrect`, `AccessHolds`, `SpentHolds`, `OneLiveHolds`, `GuessesHold` |
| `AccountSessionsProofs` | `AccountSessions` | `TypeCorrect`, `PasswordEndsTheRest`, `CountsStayBounded` |
| `ActivityProofs` | `Activity`, `Inbox` | `ChainHolds`, `DeliveriesMatch`, `DeliveriesEndForAReason`, `DigestsHold`, `BellHolds` |

Some theorems state properties that no run lists, since a run of the same module
checks a stronger or a more telling one: the type invariants, `QuotaKept`,
`CompletedHasDocument`, `EndedIsFinal`, `DeadLetterNeverRetried`,
`DownloadsRecorded`, and that at most one code of an address works.

What is assumed of constants is named in the modules, and is what the code says
or what a running system is: limits are positive where the configuration or a
constant makes them so (`LOGIN_LOCKOUT_ATTEMPTS` is at least 3,
`MAX_TOKENS_PER_USER` is 25, attempts of jobs, windows of the rate limits);
requests, tokens and hashes of addresses are finite in number where a proof
counts them; and the value that stands for "nobody" is nobody.

**Job queue.** `TypeCorrect`, `DedupeHolds` and `SlotHolds` need no assumption
on faults. `DedupeUnique` is inductive once it is seen that every step only
shrinks the set of unfinished rows of a key, or adds one that `KeyTaken` ruled
out. `SlotScheduledOnce` needs `SlotAccounted`: a slot that has had its job
still shows a row for it until the slot is over. Under the assumption that
handlers keep to their lease and answers arrive (`Faults` within `{"crash"}`),
`SoleHandler` (whoever handles a job holds its lease, made its last claim, and
is alone) is inductive; `ReservationHolds`, `DeadLetterHolds` and
`LedgerImplemented` follow from it, the last as a step simulation over
`LedgerView`, and `AttemptsHold` with `AttemptsAccounted`, which also counts
the attempts that crashes took. The assumption cannot be dropped: `retry` and
`fail` name the row by its id alone, so with `"overrun"` among the `Faults` a
handler that has outlived its lease queues again a job that another worker has
put on the dead letter, and TLC refutes `DeadLetterNeverRetried`.

**Direct uploads.** `IInv` says what a handler that has reached a step may rely
on, whatever the others did in between: a creator is alone on an upload without
a row (`CreatorInv`), everybody else found the row (`RowInv`), and after the
steps of `finish` the parts and then the object are gone and cannot come back
(`DropInv`). `EndedHoldsNothing` is not inductive without it: it depends on
parts being dropped before the object, since only parts can become an object.
`QuotaHolds`, `CompletedHolds` and `EndedStays` follow from the steps. For
`ReservationsHold` the sum of the sizes is the number of elements of `Reserved`,
one pair for each byte of each upload that holds a reservation. Every step takes
every row along one edge of `RowMoves`, the reserving edge adds the bytes of one
upload to that set, and the ending edges, which are conditional on the status,
take them away once.

**Workspace access.** `DecisionInv` says that what a transaction decided under
the lock is still true when it writes. With it the workspace keeps an owner
(`OwnerRemains`). `AccessStepsHold` proves the three rules of access for each
step, with `RulesHold` as its lemma.

**Archives.** A step of a request takes a slot, keeps it, gives it back or has
none (`Takes`, `Keeps`, `Gives`, `Rests`); `SlotInv` counts the requests that
have one, and says that `released` is still false for them. Without that, the
release that every way out calls (`finish`, `close`, the `catch`) could be
counted twice.

What an archive holds (`ArchivesHold`) rests on `GoodPlan`: the entries of a plan
were cleared, have paths of their own, and none is called like the list of what is
left out. `PathIsFree` shows that the loop of `uniquePath` ends, since numbering is
injective and there are more numbers to try than paths taken; `PlannedGood` that
one turn of `planArchive` keeps a plan good; `LoopEnds` and `PlanIsGood` that the
loop can be run to its end and what it then has, each by looking at the first row
that would refute it. `RowInv` adds that what was sent is the beginning of the
plan and that a member's plan is on record before; what was cleared stays so
(`DocumentStep`). Names are a parameter here: equal, numbered like another's
second form, or different.

**Passes.** `PassInv` ties the lock to the connection of the pass that took it:
a lost connection loses both. `WindowInv` counts the requests admitted in the
window of the row, and says that other windows had ended before; the sweep only
takes rows whose window is over, so that a new row never begins in an old window.

**Panels.** The clock of the model orders what a panel asked for and learnt. A
list asked for since the panel's last change (`sent >= latest`) shows everything
it knows (`GotInv`); after a change such a list is on its way or has been shown
(`ListInv`). The comments, which patch their list instead, need another reason
(`PatchInv`): the first list was asked for before everything else and cannot
overtake a change unnoticed, and whoever changes a comment has it on the
screen. `DetailsInv` and `SecretKept` are inductive with what a task knows
(`TaskOK`).

**Document store.** Here the invariant is about keys. A key is fresh, or with
one actor, or in one row (`PlaceInv`); only one actor builds on it, and whoever
is about to delete an object does so when no row has its key (`StoredInv`);
malware is only ever the current content, so quarantine erases nothing that the
history lists (`MalwareInv`); and there is no row while the first upload runs
(`LoneInv`). None of `BytesKept` and `ChargeExact` is inductive alone: the step
that makes an object current must know that the object is stored, was not
judged and is in no other place. `TypeCorrect`, `VerdictsHold`, `BytesHold` and
`ChargeHolds` follow; the last two also say, through `lapses`, from which event
on the code no longer guarantees them. Finiteness of the history, which the
sums of bytes need, is part of the invariant and not assumed of the constants.

`NoOrphans` speaks of moments when nothing runs. The invariant behind
`OrphansHold` says what holds in between: as long as nothing has failed, every
object is in a row or some actor owes its deletion or its row (`OwedInv`). When
nobody is under way nobody owes anything.

**Processing.** `DocumentProcessing` is proved about by itself and not as a
refinement of `DocumentStore`, which it is not: a checksum that is computed for
a document whose row it read as trashed goes on with what a purge does. What
a request does to the columns that are derived is first put into an effect
(`RequestEffect`, `ScanEffect`, `QuietEffect`), and `DerivedStep` is the
next-state relation in these terms. A worker works on a content that was cleared
(`WorkInv`), a picture is in one place (`HeldInv`), only a purge that has begun
holds pictures of a row (`PurgeInv`), and nothing is derived before there is a
row (`FirstInv`); `FromCurrent` is then preserved by the condition of `Record`
that the row still has the same object. `VerdictsHoldAll` says that none of this
vouches for malware.

**Share links.** Two facts carry `ShareLinksProofs`: a link is made once, and
nobody is at a step of a download before it is made (`MadeOnceInv`); and while
the document is in the trash, whoever is under way finds the link revoked
(`TrashInv`), unless it was inserted in the window before the commit, so that
`claimDownload` need not look at the document. With them
`LimitHolds`, `RecordsHold` and `TrashHolds` follow from the conditional UPDATE
alone; the exceptions in `lapses` show where the code does not keep the promise.
The link with its history implements the link without it
(`HistoryImplementsLink`), so that all of this holds there too. For
`HistoryHolds`, `RowsInv` says that what an upsert found out about a viewer
stays true until its transaction ends, since it has locked the row; then counts
are the number of viewers, and the creator is told at one value of a count that
only grows.

**Folders, folder links and file requests.** `ShareLinksProofs` extends
`FolderTree` too, with its constants as `SizesAssumption` says (limits are
natural numbers, the walks stop above `MAX_FOLDER_DEPTH`, the top is no folder).
`Climb` is the recursive walk for a tree that is given as a value, so that the
trees before and after a step can be compared; that it exists at every level, and
its laws (`StaysRoot`, `ClimbComposes`, `ClimbElsewhere`), are shown with a least
level that would refute them. `PathCounts` bounds the distance to the top by what
`pathTo` returns. The heart is `Hang`: if a folder is put below a place that is
not below it, and what it holds leaves room for the place's own depth, every
folder still reaches the top. `ReadsInv` says that a request about to write has
seen such room; unless the tree has changed since (`raced`), `Hang` applies.
`PlacedInv` is what the foreign keys give. `CountersHold` follows from `AskInv`
(the files that count are at most the places taken, in all) and `LinkInv` (the
request that will tell is the one that counted the first open; wrong passwords
plus requests that are verifying one stay below the limit plus the requests at
the same time), `ClosedHolds` from `OnlyReceived`.

**Locks of a link.** `GrantInv` says that a cookie never holds an address or a
password that its browser did not prove, whatever edits come in between;
`AccessHolds` is then what `ReadGrant` and `EmailOk` make of it at the moment
of the request. `SpentHolds` needs `SpentInv`, that an unused code has let
nobody in. `GuessesHold` counts: tries plus requests that are about to count
one are below the limit plus the number of browsers (`GuessInv`), since each of
them passed the check when there was room.

**Accounts.** A link of a reset is locked by the one transaction that uses it
(`ClaimsInv`), a transaction that mails knows what (`OpsInv`), and before the
account exists nothing could let anybody in (`NoAccountInv`). With them
`CredentialsFollowPassword` is inductive (`PasswordEndsTheRest`). The bounds of
`CountsStayBounded` are `FailuresInv` and `TokensInv`: what is counted plus
whoever has passed the check is below the limit plus the number of requests.

**Audit trail and webhooks.** The advisory lock keeps uncommitted rows together
at the end of the trail (`OpenInv`); whoever is about to insert has read the
head (`HeadInv`), so that every row that is not rolled back names the last one
before it (`PrevInv`). The reader's invariant is that it holds the hash of the
last committed row up to its cursor and that no row will be committed below it
(`ReaderInv`), which is why pages, each with a snapshot of its own, read one
chain. `Greatest` is what the model calls the last of a set of rows; that a
non-empty set of rows has one is shown with a minimal element of a well-founded
relation. A queued delivery has attempts left (`QueuedInv`), from which
`DeliveriesEndForAReason` follows step by step.

**Notifications.** Mails and bell are proved apart, since they only share the
rows (`MailInv`, `BellInv`). What a pass has taken is not marked until the pass
commits (`TakenInv`), so that no two passes report the same row and a rolled-back
pass reports none (`ReportedInv`, `DigestsHold`). `BellSound` speaks of a tab that
is live with nothing on its way. Before that, `Covered` says who will bring what
the tab does not show: the last answer on its way, if the tab has not heard of a
row since it was asked for (`LateInv`), or the tab itself if nothing is on its
way; a row that is written while the stream is open puts a signal on its way
(`StreamInv`), and only a lost answer or connection can undo this (`missed`).

**Uploader.** Only one run is under way, and the page controls it; of the others
only workers are left, which can do nothing but store a part or give up
(`OthersSound`). `AskedWhole` needs `SentFor`: while a run sends, every part is
stored, in the queue or in the hands of a worker, so that all of them are stored
when the workers are at rest. `NothingStranded` needs `SavedFor`: what is
remembered is the upload of the run under way, or nothing, so that a step that
forgets an upload forgets its own, and the step has just deleted or completed it
or is about to. A step is split into what it does to the rows of the API
(`RowsGoOn`) and to who cares for them (`CareGoesOn`).

**Documents page.** What a list says is put as `Read`: its rows are those of the
query above the next cursor, apart from the documents that have changed since it
was asked, and a row that has changed is on its side of the cursor as long as it
belongs to the query. `ListFacts` gets this for one answer of the API from the
order (`FirstSorts`) and the cut; `ReadKept` keeps it when documents change, since
what goes to the trash gets a moment later than every cursor (`Changed`); `ReadOn`
joins a page to the rows before it. `ListInv` says it of what is on screen and of
the one request whose answer will be looked at (`RequestOK`). For ticks it is
enough that every handler which replaces rows keeps the ticks among them. For
`OwnChangesShown` the invariant names who will bring what the page does not show:
a handler that was served and will load the list (`Owed`), or a first page that
was asked for after the change (`Coming`). A handler of one document fails or has
changed it (`HandlersOK`), so that a refusal, after which nothing is loaded, never
follows a change. Documents are created at different moments (`PageAssumption`):
the list breaks ties by the id, and the model orders by one key.

**Histories.** `NewestSorts` is about the order alone: counting the greater
members is an injection of a finite set of numbers into as many ranks, so it is
onto, and `NewestOf` takes each member once, greatest first. `PageFacts` follows:
a page is sorted, and a row that is asked for and is not on it lies below the
last row of a full page. `ExportInv` says that every row that was there at the
start, and whose partition is still there, has been written out or lies below the
cursor; `SortedConcat` keeps the order as pages are added. For the activity page
the invariant has two parts. `AnswersInv`: an answer on its way is still exactly
what was asked for, below its own first row, because the trail grows only beyond
its newest row (`WriteFacts`). `FeedInv`: unless answers crossed, what is listed
belongs to the filter or its first page is due, and what is due besides goes on
from the cursor the page has; `ShownLonger` then joins the two.

Only model-checked:

- the liveness properties, and the liveness half of `ImplementsLedger`: liveness
  under fairness is beyond the prover. `job_queue_ledger` checks it without
  overruns and lost answers (`TimelySpec`).

## What does not hold

Some things one would expect of the code are not so. The properties leave them
out, each by a history variable that names the event or by what the property
says, and everything else that could break the same expectation is covered.

*Documents and uploads.*

- A purge of a trashed document deletes its object while a restore that has seen
  the object makes the row live: a live document without bytes. A purge that
  fails half way leaves versions whose objects are gone, and `restore` looks for
  the current one only.
- `abort` sees `pending`, a completion begins and assembles the object, `abort`
  deletes it and then finds that the row has moved; the completion commits the
  document. An upload that expires while its completion runs gives its
  reservation back, and the completion, which ignores that the row moved, commits
  a document that is not charged.
- A direct upload that is not scanned does not queue its own processing
  (`uploads.service.ts:291`) and waits for the backfill; `computeChecksum` decides
  by a `deleted_at` it read earlier; a worker that commits between the look at
  the derived keys and the deletion of the row leaves its picture in storage.
- The rows of uploads go with their workspace by the foreign key, and
  `purgeWorkspace` does not look at them: multipart uploads that were pending then
  are never aborted.
- After an upload committed, a failing query inside the same `try` makes the
  `catch` delete its object.

*Links and access.*

- A request that read its creator's role inserts the link after the transaction
  that took the role and revoked the links; one that read a live document inserts
  it after the trash revoked the links there were, and it works after a restore.
  One that inserts it before the trash has committed gives visitors a link that
  they can resolve before the commit and claim a download with after it.
- A link made for a clean document hands out a new version while its scan is
  pending: only `create` looks at `scan_status`.
- `update` can write a limit below the count.
- A change of password that had verified the old one overwrites the password of a
  reset that came in between and keeps its own session; a sign-in may issue its
  session after the change ended all sessions.
- Failed sign-ins, tokens and webhooks are counted and added to in two
  statements, so limits are passed by the number of requests under way.
- Two folders moved into each other at the same time form a cycle that cannot be
  reached from the top; a folder that grows while it is moved may nest too deep.

*Queue, notifications, maintenance.*

- A handler that has outlived its reservation may put a dead letter back into
  the queue.
- A retried fan-out writes its notifications again. `dueDigests` takes 500
  people in no order and leaves those with nothing new due, so that they can keep
  others out.
- What is written after the hub's connection has broken, and until it is made
  again, is not signalled afterwards: no stream opens then that would make the
  bell fetch its inbox (`notification-stream.ts:12`). What is written after the
  API has ended a stream shows when the tab has reconnected. A failed reconnect
  is an unhandled rejection, and the `error` of an old connection may reset a
  new one. A subscription that fails leaves its listener behind. Two answers to
  the bell that arrive out of order hide the newer one until the next event.
- Two passes of maintenance overlap when the connection with the lock is lost,
  and a failed unlock leaves the lock with a pooled connection.
- An archive's slot is not returned when the client left before the listener for
  the end of its response was attached (`documents.routes.ts:264`,
  `folder-shares.routes.ts:159`).
- A change of a webhook that another owner has removed meanwhile ends in an error
  of the server.

*Pages.*

- An action, or a long upload, that ends after the tab was changed reloads the
  query it was begun on, and shows the old list under the new tab, although
  `page.tsx:183-185` means to exclude that. The error of an overtaken list is
  shown, and a refresh during scans drops pages that were scrolled in.
- Cancelling an upload forgets its id even when the DELETE fails, and so does an
  error of the API at the look for a saved upload: the reservation stays until it
  expires. The lost answer of `complete` makes a resumed run send the file again.
- The activity page shows or appends answers of an earlier filter. The lists of
  the panels are not numbered, so that an older answer may replace a newer one;
  the deliveries of one webhook are shown under another until theirs come.
- Revoking a link, with a click from before a new one was made, hides the new
  one's address, which is shown only once. Ctrl+Enter in the comments is not held
  off while one is being sent.

## Left out, and the plan

Left out for good: HTTP parsing, schemas, wording, logging and metrics;
`NOTIFY` of the queue (polling finds the same rows); row-level security, which
repeats the membership checks; image, text and PDF processing, of which only the
outcome matters; the templates of mails; overview, search and charts, which only
read; the forms for signing in and for visitors of links, which are sent once;
stars, renaming of documents and marks of the rows of the page, which are single
statements on one row.

`dueDigests` with more than 500 people is out of reach of a small instance, and
the deletion of a workspace is modelled in its rows (`WorkspaceAccess`) but not
in the files of each of its documents.

Some transactions are one step although others can write between their
statements, because nothing that can happen in between adds an outcome.
`WorkspaceAccess.WriteRole` is the UPDATE of a role, the revocation of what the
person had shared and the commit: whoever inserts a link in between read the
role before the commit, and reaches the same state by inserting it after, which
the model allows. `LossRule` speaks of the links there were at the revocation.
`ShareLinks.ScanInfected` is one step for the same reason: `create` refuses a
pending document and whoever passed before inserts after.

The recursive queries of folders stop after 32 steps in the code; the model has a
constant for this (`WalkGuard`). TLC checks it with 4, above the depth of every
tree of the instance as 32 is above `MAX_FOLDER_DEPTH`, and the proofs hold for
any such number.
