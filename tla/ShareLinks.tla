----------------------------- MODULE ShareLinks -----------------------------
(***************************************************************************)
(* The life of one share link and the downloads it allows: visitors take   *)
(* them, people who manage the link create, edit and revoke it, and its    *)
(* document goes to the trash, comes back, gets new versions and is        *)
(* scanned.  Every query is a step, so all of them overtake each other.    *)
(*                                                                         *)
(* The locks of the link are in LinkGrants: whoever downloads here has     *)
(* opened them.  Who may manage the link is in WorkspaceAccess.  The       *)
(* access history is kept as the number of downloads in it; LinkViewers    *)
(* has the transactions that write it.                                     *)
(***************************************************************************)
EXTENDS Naturals

CONSTANTS
    Visitors,   \* requests of visitors
    Managers,   \* request handlers of people who manage the link
    Limits,     \* what max_downloads may be set to; 0 stands for no limit
    MaxCount    \* bound: downloads that are claimed

ASSUME ActorsAssumption == Visitors \cap Managers = {}
ASSUME LimitsAssumption == Limits \subseteq Nat /\ 0 \in Limits /\ MaxCount \in Nat

VARIABLES
    link,       \* "none", "live" or "revoked"
    expired,    \* whether expires_at has passed
    max,        \* max_downloads
    download,   \* allow_download
    count,      \* download_count
    deleted,    \* whether the document is in the trash
    trash,      \* the transaction that puts it there, when it is not over:
                \* "held" if it has revoked the link, "open" if it found none
    scan,       \* scan_status of its current content: "pending", "infected", or
                \* "allowed" for the two that assertScanAllows lets pass
    due,        \* downloads whose event is not written yet
    recorded,   \* downloaded events
    at,         \* the next step of each request
    saw,        \* the download_count that a manager read
    lapses      \* history: what the link is no longer bound to

settings == <<max, download>>
linkRow  == <<link, expired, settings, count>>
document == <<deleted, trash, scan>>
events   == <<due, recorded>>
local    == <<at, saw>>
vars     == <<linkRow, document, events, local, lapses>>

Actors == Visitors \cup Managers

Move(a, step) == at' = [at EXCEPT ![a] = step]

Return(a) == Move(a, "idle") /\ saw' = [saw EXCEPT ![a] = 0]

-----------------------------------------------------------------------------
(***************************************************************************)
(* Visitors                                                                *)
(***************************************************************************)

NotOver == ~ expired /\ (max = 0 \/ count < max)

\* resolveLive
Resolves == link = "live" /\ NotOver /\ ~ deleted

\* downloadUrl.  A request that is refused here, or by a lock, changes nothing
\* but counters of blocked attempts, and content changes nothing at all.
BeginDownload(v) ==
    /\ at[v] = "idle"
    /\ Resolves
    /\ download
    /\ Move(v, "claim")
    /\ UNCHANGED <<linkRow, document, events, saw, lapses>>

\* Mutation: the limit was checked when the link was resolved.
Claims_NoLimit == link = "live" /\ ~ expired

\* The WHERE of claimDownload, which leaves the document out.
Claims == link = "live" /\ NotOver

\* A transaction that is not over has written the link's row: who would write
\* it too waits.
RowFree == trash # "held"

\* The event is written after the answer.
ClaimDownload(v) ==
    /\ at[v] = "claim"
    /\ count < MaxCount
    /\ RowFree /\ Claims
    /\ count' = count + 1
    /\ due' = due + 1
    /\ Return(v)
    /\ UNCHANGED <<link, expired, settings, document, recorded, lapses>>

ClaimRefused(v) ==
    /\ at[v] = "claim"
    /\ ~ Claims
    /\ Return(v)
    /\ UNCHANGED <<linkRow, document, events, lapses>>

RecordDownload ==
    /\ due > 0
    /\ due' = due - 1
    /\ recorded' = recorded + 1
    /\ UNCHANGED <<linkRow, document, local, lapses>>

\* writeAccess fails, which is logged.
RecordFails ==
    /\ due > 0
    /\ due' = due - 1
    /\ lapses' = lapses \cup {"record"}
    /\ UNCHANGED <<linkRow, document, recorded, local>>

-----------------------------------------------------------------------------
(***************************************************************************)
(* People who manage the link                                              *)
(***************************************************************************)

\* create reads the document, then hashes the password ...
BeginCreate(m) ==
    /\ at[m] = "idle"
    /\ link = "none"
    /\ \A n \in Managers : at[n] # "insert"
    /\ ~ deleted
    /\ scan = "allowed"
    /\ Move(m, "insert")
    /\ UNCHANGED <<linkRow, document, events, saw, lapses>>

\* ... and inserts the row.
InsertLink(m, n, d) ==
    /\ at[m] = "insert"
    /\ link' = "live"
    /\ max' = n
    /\ download' = d
    /\ lapses' = IF deleted THEN lapses \cup {"create"} ELSE lapses
    /\ Return(m)
    /\ UNCHANGED <<expired, count, document, events>>

\* update reads the row ...
BeginUpdate(m) ==
    /\ at[m] = "idle"
    /\ link = "live"
    /\ Move(m, "update")
    /\ saw' = [saw EXCEPT ![m] = count]
    /\ UNCHANGED <<linkRow, document, events, lapses>>

\* LIMIT_BELOW_USAGE goes by the downloads read then; the limit may also be
\* left as it is.
LimitFits(m, n) == n \in {0, max} \/ n > saw[m]

\* ... and writes the settings, and a new expiry or not, while the link is not
\* revoked.
UpdateSettings(m, n, d) ==
    /\ at[m] = "update"
    /\ LimitFits(m, n)
    /\ RowFree
    /\ IF link = "live"
       THEN /\ max' = n
            /\ download' = d
            /\ expired' \in {expired, FALSE}
            /\ lapses' = IF saw[m] # count /\ n \in 1..(count - 1)
                         THEN lapses \cup {"limit"} ELSE lapses
       ELSE UNCHANGED <<settings, expired, lapses>>
    /\ Return(m)
    /\ UNCHANGED <<link, count, document, events>>

\* LIMIT_BELOW_USAGE, or a view-only link to what cannot be shown.
UpdateRefused(m) ==
    /\ at[m] = "update"
    /\ Return(m)
    /\ UNCHANGED <<linkRow, document, events, lapses>>

Revoke ==
    /\ link = "live"
    /\ RowFree
    /\ link' = "revoked"
    /\ UNCHANGED <<expired, settings, count, document, events, local, lapses>>

Expire ==
    /\ link = "live"
    /\ ~ expired
    /\ expired' = TRUE
    /\ UNCHANGED <<link, settings, count, document, events, local, lapses>>

-----------------------------------------------------------------------------
(***************************************************************************)
(* The document, and crashes                                               *)
(***************************************************************************)

\* Mutation: the links are left to a sweep.
Revoked_Later == link

\* revokeForDocument
Revoked == IF link = "live" THEN "revoked" ELSE link

\* The document goes to the trash in one transaction with the links that its
\* second statement finds ...
BeginTrash ==
    /\ ~ deleted /\ trash = "none"
    /\ trash' = IF link = "live" THEN "held" ELSE "open"
    /\ UNCHANGED <<linkRow, deleted, scan, events, local, lapses>>

\* ... and without those that were inserted between that statement and the
\* commit.
CommitTrash ==
    /\ trash # "none"
    /\ trash' = "none"
    /\ deleted' = TRUE
    /\ link' = IF trash = "held" THEN Revoked ELSE link
    /\ lapses' = IF trash = "open" /\ link = "live" THEN lapses \cup {"window"} ELSE lapses
    /\ UNCHANGED <<expired, settings, count, scan, events, local>>

TrashFails ==
    /\ trash # "none"
    /\ trash' = "none"
    /\ UNCHANGED <<linkRow, deleted, scan, events, local, lapses>>

Restore ==
    /\ deleted
    /\ deleted' = FALSE
    /\ UNCHANGED <<linkRow, trash, scan, events, local, lapses>>

\* What else writes the document's row waits for the one that trashes it.
DocumentFree == ~ deleted /\ trash = "none"

\* replaceCurrent, for an upload or for the copy of an earlier version, leaves
\* the links alone.
NewVersion ==
    /\ DocumentFree
    /\ scan # "pending"
    /\ scan' \in {"pending", "allowed"}
    /\ UNCHANGED <<linkRow, deleted, trash, events, local, lapses>>

ScanClean ==
    /\ scan = "pending" /\ trash = "none"
    /\ scan' = "allowed"
    /\ UNCHANGED <<linkRow, deleted, trash, events, local, lapses>>

\* Quarantine and the links, in one transaction.
ScanInfected ==
    /\ scan = "pending" /\ trash = "none"
    /\ scan' = "infected"
    /\ link' = Revoked
    /\ UNCHANGED <<expired, settings, count, deleted, trash, events, local, lapses>>

\* The process dies with what it has not recorded.
Crash ==
    /\ at' = [a \in Actors |-> "idle"]
    /\ saw' = [a \in Actors |-> 0]
    /\ due' = 0
    /\ trash' = "none"
    /\ lapses' = IF due > 0 THEN lapses \cup {"record"} ELSE lapses
    /\ UNCHANGED <<linkRow, deleted, scan, recorded>>

-----------------------------------------------------------------------------

Init ==
    /\ link = "none"
    /\ expired = FALSE
    /\ max = 0
    /\ download = TRUE
    /\ count = 0
    /\ deleted = FALSE
    /\ trash = "none"
    /\ scan \in {"pending", "allowed"}
    /\ due = 0
    /\ recorded = 0
    /\ at = [a \in Actors |-> "idle"]
    /\ saw = [a \in Actors |-> 0]
    /\ lapses = {}

VisitorStep(v) ==
    BeginDownload(v) \/ ClaimDownload(v) \/ ClaimRefused(v)

ManagerStep(m) ==
    \/ BeginCreate(m) \/ BeginUpdate(m) \/ UpdateRefused(m)
    \/ \E n \in Limits, d \in BOOLEAN : InsertLink(m, n, d) \/ UpdateSettings(m, n, d)

Next ==
    \/ \E v \in Visitors : VisitorStep(v)
    \/ \E m \in Managers : ManagerStep(m)
    \/ RecordDownload \/ RecordFails
    \/ Revoke \/ Expire
    \/ BeginTrash \/ CommitTrash \/ TrashFails \/ Restore \/ NewVersion \/ ScanClean \/ ScanInfected
    \/ Crash

Safety == Init /\ [][Next]_vars

-----------------------------------------------------------------------------
(***************************************************************************)
(* Properties                                                              *)
(***************************************************************************)

VisitorSteps == {"idle", "claim"}
ManagerSteps == {"idle", "insert", "update"}

\* Everything is well formed, a link is made once, a transaction holds the row
\* of a link that is live, and what a manager has read is never more than the
\* count, which only grows.
TypeOK ==
    /\ link \in {"none", "live", "revoked"}
    /\ expired \in BOOLEAN
    /\ max \in Limits
    /\ download \in BOOLEAN
    /\ count \in Nat
    /\ deleted \in BOOLEAN
    /\ trash \in {"none", "held", "open"}
    /\ trash # "none" => ~ deleted
    /\ trash = "held" => link = "live"
    /\ scan \in {"pending", "allowed", "infected"}
    /\ due \in Nat /\ recorded \in Nat
    /\ at \in [Actors -> VisitorSteps \cup ManagerSteps]
    /\ \A v \in Visitors : at[v] \in VisitorSteps
    /\ \A m \in Managers : at[m] \in ManagerSteps
    /\ saw \in [Actors -> Nat]
    /\ \A m \in Managers : saw[m] <= count /\ (at[m] = "insert" => link = "none")
    /\ lapses \subseteq {"create", "window", "limit", "record"}

\* However many visitors resolve a link before its last download is taken, it
\* hands out no more than it allows, unless downloads overtake the request that
\* lowers the limit ("two simultaneous downloads of a one-time link cannot both
\* succeed", shares.repo.ts:148).
LimitKept == max # 0 /\ "limit" \notin lapses => count <= max

\* The history never shows a download that was not counted, and misses one only
\* when writing it failed or the process died first ("keeps counters identical
\* to the event history", share-counters-partitions.test.ts:79).
DownloadsRecorded ==
    /\ recorded + due <= count
    /\ "record" \notin lapses => recorded + due = count

\* No download is claimed while the document is in the trash, although
\* claimDownload does not look at it: the links went with it ("re-validates
\* everything", shares.service.ts:692).  A restore brings no link back, unless
\* one was inserted by a request that had read the document before it went to
\* the trash ("restoring does NOT bring them back", documents.service.ts:661).
\* A link inserted while the transaction was open is excepted from both.
TrashEndsLinks ==
    [][ /\ count' > count /\ "window" \notin lapses => ~ deleted
        /\ deleted /\ ~ deleted' /\ lapses \cap {"create", "window"} = {} => link # "live" ]_vars

=============================================================================
