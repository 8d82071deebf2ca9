---------------------------- MODULE LinkViewers ----------------------------
(***************************************************************************)
(* The access history of the link of ShareLinks: every view and download   *)
(* is written in the background by a transaction that finds or makes the   *)
(* viewer's row, adds to the counters of the link, and decides whether the *)
(* link's creator hears of it.  Writers run beside each other and beside   *)
(* everything ShareLinks does; a writer waits for a row another one has    *)
(* touched.                                                                *)
(*                                                                         *)
(* A viewer is a network, as only the hash of an address is stored.  Bots  *)
(* are not counted and blocked attempts only move a counter of their own:  *)
(* neither is in the model.                                                *)
(***************************************************************************)
EXTENDS ShareLinks, FiniteSets

CONSTANTS
    Networks,   \* hashed addresses
    Writers,    \* transactions that may run at once
    Threshold,  \* FORWARDING_THRESHOLD
    MaxViews,   \* bound: page views that are asked for
    MaxWindows  \* bound: de-duplication windows that pass

ASSUME WritersAssumption ==
    IsFiniteSet(Networks) /\ Threshold \in Nat /\ MaxViews \in Nat /\ MaxWindows \in Nat

VARIABLES
    viewer,     \* share_viewers: "none", "seen", or "recent" while
                \* last_viewed_at is inside the window
    viewers,    \* viewer_count
    opens,      \* open_count
    viewsDue,   \* views whose event is not written yet
    writer,     \* what each transaction has done so far
    told,       \* history: notifications of each kind to the creator
    windows     \* history: windows that have passed

counters == <<viewer, viewers, opens>>
lv_vars  == <<counters, viewsDue, writer, told, windows>>
allVars  == <<vars, lv_vars>>

NoWrite == [at |-> "idle"]

Write(step, kind, n, new) == [at |-> step, kind |-> kind, net |-> n, new |-> new]

Busy == {w \in Writers : writer[w] # NoWrite}

\* How many writers are at an event of this kind.
Writing(kind) == Cardinality({w \in Busy : writer[w].kind = kind})

Known == {n \in Networks : viewer[n] # "none"}

-----------------------------------------------------------------------------
(***************************************************************************)
(* recordView, and the background writes                                   *)
(***************************************************************************)

\* The answer does not wait for the event.
RecordView(v) ==
    /\ at[v] = "idle"
    /\ Resolves
    /\ viewsDue + opens < MaxViews
    /\ viewsDue' = viewsDue + 1
    /\ UNCHANGED <<vars, counters, writer, told, windows>>

\* Mutation: the viewer is looked up before it is inserted, without a lock.
Free_Always(n) == TRUE

\* No transaction has a row of this viewer that is not committed.
Free(n) == \A w \in Busy : writer[w].net # n

\* upsertViewerForView
UpsertForView(w, n) ==
    /\ writer[w] = NoWrite
    /\ Writing("view") < viewsDue
    /\ Free(n)
    /\ viewer[n] # "recent"
    /\ writer' = [writer EXCEPT ![w] =
            Write("upserted", "view", n, IF viewer[n] = "none" THEN 1 ELSE 0)]
    /\ UNCHANGED <<vars, counters, viewsDue, told, windows>>

\* A repeat inside the window writes nothing.
RepeatedView(w, n) ==
    /\ writer[w] = NoWrite
    /\ Writing("view") < viewsDue
    /\ Free(n)
    /\ viewer[n] = "recent"
    /\ viewsDue' = viewsDue - 1
    /\ UNCHANGED <<vars, counters, writer, told, windows>>

\* upsertViewerForDownload
UpsertForDownload(w, n) ==
    /\ writer[w] = NoWrite
    /\ Writing("download") < due
    /\ Free(n)
    /\ writer' = [writer EXCEPT ![w] =
            Write("upserted", "download", n, IF viewer[n] = "none" THEN 1 ELSE 0)]
    /\ UNCHANGED <<vars, counters, viewsDue, told, windows>>

\* countSuccess: the UPDATE waits for the link's row and returns what it
\* leaves there.
CountSuccess(w) ==
    /\ writer[w].at = "upserted"
    /\ \A u \in Busy : writer[u].at # "counted"
    /\ writer' = [writer EXCEPT ![w].at = "counted"]
    /\ UNCHANGED <<vars, counters, viewsDue, told, windows>>

ViewerAfter(w) ==
    [viewer EXCEPT ![writer[w].net] =
                IF writer[w].kind = "view" THEN "recent"
                ELSE IF @ = "none" THEN "seen" ELSE @]

\* What the creator hears of the viewer that makes so many; that there is one
\* more is left out.
Messages(now) == {m \in {"first", "flagged"} :
                    IF m = "first" THEN now <= 1 ELSE now = Threshold}

\* The event is inserted and the transaction commits; then the creator is
\* told of a new viewer, as long as the membership lasts.
Commit(w) ==
    /\ writer[w].at = "counted"
    /\ viewer' = ViewerAfter(w)
    /\ viewers' = viewers + writer[w].new
    /\ told' = [m \in DOMAIN told |->
            IF writer[w].new = 1 /\ m \in Messages(viewers') THEN told[m] + 1 ELSE told[m]]
    /\ writer' = [writer EXCEPT ![w] = NoWrite]
    /\ \/ /\ writer[w].kind = "view"
          /\ opens' = opens + 1
          /\ viewsDue' = viewsDue - 1
          /\ UNCHANGED vars
       \/ /\ writer[w].kind = "download"
          /\ RecordDownload
          /\ UNCHANGED <<opens, viewsDue>>
    /\ UNCHANGED windows

\* A statement fails, which is logged.
Rollback(w) ==
    /\ writer[w] # NoWrite
    /\ writer' = [writer EXCEPT ![w] = NoWrite]
    /\ \/ writer[w].kind = "view" /\ viewsDue' = viewsDue - 1 /\ UNCHANGED vars
       \/ writer[w].kind = "download" /\ RecordFails /\ UNCHANGED viewsDue
    /\ UNCHANGED <<counters, told, windows>>

WindowPasses(n) ==
    /\ viewer[n] = "recent"
    /\ windows < MaxWindows
    /\ windows' = windows + 1
    /\ viewer' = [viewer EXCEPT ![n] = "seen"]
    /\ UNCHANGED <<vars, viewers, opens, viewsDue, writer, told>>

-----------------------------------------------------------------------------

ViewersInit ==
    /\ Init
    /\ viewer = [n \in Networks |-> "none"]
    /\ viewers = 0
    /\ opens = 0
    /\ viewsDue = 0
    /\ writer = [w \in Writers |-> NoWrite]
    /\ told = [m \in {"first", "flagged"} |-> 0]
    /\ windows = 0

LinkSteps ==
    \/ \E v \in Visitors : VisitorStep(v)
    \/ \E m \in Managers : ManagerStep(m)
    \/ Revoke \/ Expire
    \/ BeginTrash \/ CommitTrash \/ TrashFails
    \/ Restore \/ NewVersion \/ ScanClean \/ ScanInfected

\* The process dies with its transactions and with what is not written.
CrashAll ==
    /\ Crash
    /\ viewsDue' = 0
    /\ writer' = [w \in Writers |-> NoWrite]
    /\ UNCHANGED <<counters, told, windows>>

ViewersNext ==
    \/ LinkSteps /\ UNCHANGED lv_vars
    \/ \E v \in Visitors : RecordView(v)
    \/ \E w \in Writers :
          \/ CountSuccess(w) \/ Commit(w) \/ Rollback(w)
          \/ \E n \in Networks :
                UpsertForView(w, n) \/ RepeatedView(w, n) \/ UpsertForDownload(w, n)
    \/ \E n \in Networks : WindowPasses(n)
    \/ CrashAll

ViewersSafety == ViewersInit /\ [][ViewersNext]_allVars

-----------------------------------------------------------------------------
(***************************************************************************)
(* Properties                                                              *)
(***************************************************************************)

\* Whatever writers overlap, fail or die: the counters of the link are those
\* of its viewers, a viewer's repeats inside one window count once ("two tabs
\* refreshing at once still count once", shares.repo.ts:203), the creator
\* hears of a first opening and of a forwarded link at most once, and the
\* history misses a download only when writing it failed.
HistoryExact ==
    /\ viewers = Cardinality(Known)
    /\ opens <= Cardinality(Known) + windows
    /\ told["first"] <= 1 /\ told["flagged"] <= 1
    /\ DownloadsRecorded

=============================================================================
