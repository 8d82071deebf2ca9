----------------------------- MODULE DocumentsPage -------------------------
(***************************************************************************)
(* The documents page of one browser tab, in front of the list that the    *)
(* API pages out: what it asks for, what it shows meanwhile, and what the  *)
(* person does to the rows on screen while answers are on their way.       *)
(*                                                                         *)
(* A tab, a folder, a search and a sort are one query; two are modelled,   *)
(* one folder and the trash. Every handler of the page is a closure of the *)
(* render it was clicked in, and reloads the query of that render.         *)
(***************************************************************************)
EXTENDS Naturals, FiniteSets, SequencesExt

CONSTANTS
    Docs,
    CreatedAt,      \* created_at of each document, as a rank
    Later,          \* documents that are not uploaded yet
    Scanned,        \* uploads that are scanned first
    Mine,           \* documents this person may change (ownsOrAdministers)
    Owner,          \* this person is an owner
    PageSize,       \* PAGE_SIZE
    MaxRequests,    \* bound: lists asked for and not answered
    MaxHandlers,    \* bound: handlers under way
    MaxDeletions,   \* bound: documents moved to the trash
    MaxTroubles     \* bound: changes by others, and requests that fail

VARIABLES
    place,      \* where each document is: absent, here, elsewhere, trash, gone
    deletedAt,  \* deleted_at, as a rank; 0 is NULL
    scanning,   \* documents whose scan is pending
    view,       \* the tab that is chosen
    shown,      \* shownQuery.current: the query that the rows belong to
    page,       \* data and documents
    selected,
    left,       \* what the last bulk action left ticked, until the rows change
    requests,   \* lists that are asked for
    handlers,   \* what the person has begun
    mixed,      \* a page of another query was appended
    clock, changes, faults

list == <<place, deletedAt, scanning, clock>>
screen == <<view, shown, page, selected, left>>
vars == <<list, screen, requests, handlers, mixed, changes, faults>>

Views == {"here", "trash"}

\* data is null until the first answer.
Empty == [loaded |-> FALSE, rows |-> <<>>, cursor |-> 0, pending |-> {}, changed |-> {}, own |-> FALSE]

-----------------------------------------------------------------------------
(***************************************************************************)
(* The API                                                                 *)
(***************************************************************************)

\* SORT_SQL: newest first, by created_at or by deleted_at.
Key(v, d) == IF v = "trash" THEN deletedAt[d] ELSE CreatedAt[d]

Matching_Inclusive(v, after) == {d \in Docs : place[d] = v /\ (after = 0 \/ Key(v, d) <= after)}  \* Mutation

\* The rows of a query after a cursor; 0 is no cursor.
Matching(v, after) == {d \in Docs : place[d] = v /\ (after = 0 \/ Key(v, d) < after)}

\* Newest first: before the i-th there are i - 1 newer ones.
NewestFirst(S, time) ==
    [i \in 1..Cardinality(S) |-> CHOOSE d \in S : Cardinality({e \in S : time[e] > time[d]}) = i - 1]

Sorted(v, after) == NewestFirst(Matching(v, after), [d \in Docs |-> Key(v, d)])

\* nextCursor: the key of the last row, when the extra row that was asked for exists.
NextCursor(v, rows) == IF Len(rows) > PageSize THEN Key(v, rows[PageSize]) ELSE 0

\* One snapshot of the list, cut to a page.
List(v, after) ==
    LET rows == Sorted(v, after)
        cut == SubSeq(rows, 1, IF Len(rows) < PageSize THEN Len(rows) ELSE PageSize)
    IN [rows |-> cut, next |-> NextCursor(v, rows), pending |-> ToSet(cut) \cap scanning]

\* GET documents. Of a request that was overtaken only that it ends matters.
AnswerList(r) ==
    /\ r.stage = "sent" /\ r.latest
    /\ LET got == List(r.view, r.after)
       IN  requests' = (requests \ {r}) \cup {[r EXCEPT !.stage = "answered", !.rows = got.rows,
                                                       !.next = got.next, !.pending = got.pending]}
    /\ UNCHANGED <<list, screen, handlers, mixed, changes, faults>>

\* What is on its way or on screen was read before documents S changed.
Outdate(S, own) ==
    /\ requests' = {IF r.stage = "sent" THEN r
                    ELSE [r EXCEPT !.changed = @ \cup S, !.own = @ \/ own] : r \in requests}
    /\ page' = [page EXCEPT !.changed = @ \cup S, !.own = @ \/ own]

\* requireOwner and canModifyDocument, and the look at the row.
Able(action, d) ==
    CASE action = "restore" -> place[d] = "trash" /\ d \in Mine
      [] action = "delete"  -> place[d] = "trash" /\ Owner
      [] action = "upload"  -> place[d] = "absent"
      [] OTHER              -> place[d] \in {"here", "elsewhere"} /\ d \in Mine

After(action) ==
    CASE action = "trash"   -> "trash"
      [] action = "delete"  -> "gone"
      [] action = "move"    -> "elsewhere"
      [] OTHER              -> "here"

\* Documents S are changed one after the other.
Change(action, S) ==
    LET order == SetToSeq(S) IN
    /\ place' = [d \in Docs |-> IF d \in S THEN After(action) ELSE place[d]]
    /\ deletedAt' = [d \in Docs |-> IF d \notin S THEN deletedAt[d]
                                    ELSE IF action = "trash"
                                         THEN clock + CHOOSE i \in 1..Len(order) : order[i] = d
                                         ELSE 0]
    /\ clock' = IF action = "trash" THEN clock + Cardinality(S) ELSE clock
    /\ clock' <= MaxDeletions
    /\ scanning' = IF action = "upload" THEN scanning \cup (S \cap Scanned) ELSE scanning

\* bulk and the endpoints of one document: what cannot be done fails alone.
ServeHandler(h) ==
    /\ h.stage = "sent"
    /\ LET done == {d \in h.ids : Able(h.action, d)} IN
       /\ Change(h.action, done)
       /\ Outdate(done, done # {})
       /\ handlers' = (handlers \ {h}) \cup
              {[h EXCEPT !.stage = "served", !.failed = h.ids \ done]}
    /\ UNCHANGED <<view, shown, selected, left, mixed, changes, faults>>

\* Where a document is before others do something with it.
From(action) ==
    CASE action = "upload"  -> {"absent"}
      [] action = "move"    -> {"here"}
      [] action = "bring"   -> {"elsewhere"}
      [] action = "trash"   -> {"here", "elsewhere"}
      [] OTHER              -> {"trash"}

\* Other people, and jobs: documents arrive, move, go to the trash and come back.
ByOthers(action, d) ==
    /\ changes + faults < MaxTroubles
    /\ changes' = changes + 1
    /\ place[d] \in From(action)
    /\ Change(action, {d})
    /\ Outdate({d}, FALSE)
    /\ UNCHANGED <<view, shown, selected, left, handlers, mixed, faults>>

\* A scan ends; a file that is clean changes nothing else that a row says.
ScanEnds(d) ==
    /\ d \in scanning
    /\ scanning' = scanning \ {d}
    /\ UNCHANGED <<place, deletedAt, clock, screen, requests, handlers, mixed, changes, faults>>

-----------------------------------------------------------------------------
(***************************************************************************)
(* Loading                                                                 *)
(***************************************************************************)

Asked(kind, v, after, bulk) ==
    [kind |-> kind, view |-> v, after |-> after, latest |-> TRUE, bulk |-> bulk, stage |-> "sent",
     rows |-> <<>>, next |-> 0, pending |-> {}, changed |-> {}, own |-> FALSE]

\* requestId # latestRequest.current: what it answers is not looked at.
Overtaken(r) == [Asked(r.kind, r.view, 0, r.bulk) EXCEPT !.latest = FALSE]

\* loading: the latest request is not answered, and the list is a skeleton.
Loading == \E r \in requests : r.kind = "first" /\ r.latest
LoadingMore == \E r \in requests : r.kind = "more"
Rows == ToSet(page.rows)

Load_Uncounted(v, bulk, was, ticked) ==         \* Mutation: earlier requests still count
    /\ Cardinality(requests) < MaxRequests
    /\ shown' = v
    /\ page' = IF shown = v THEN was ELSE Empty
    /\ selected' = IF shown = v THEN ticked ELSE {}
    /\ requests' = requests \cup {Asked("first", v, 0, bulk)}

\* load() of query v, from a page and a selection: rows of another query go at
\* once, and whatever was asked for before is overtaken.
Load(v, bulk, was, ticked) ==
    /\ Cardinality(requests) < MaxRequests
    /\ shown' = v
    /\ page' = IF shown = v THEN was ELSE Empty
    /\ selected' = IF shown = v THEN ticked ELSE {}
    /\ requests' = {Overtaken(r) : r \in requests} \cup {Asked("first", v, 0, bulk)}

\* A tab, a folder or a search: the effect of the render loads it.
Choose(v) ==
    /\ v # view
    /\ ~ \E h \in handlers : h.stage = "asked"
    /\ view' = v
    /\ Load(v, FALSE, page, selected)
    /\ UNCHANGED <<list, left, handlers, mixed, changes, faults>>

\* While a file on screen is being scanned, every four seconds.
Poll ==
    /\ page.pending # {}
    /\ Load(view, FALSE, page, selected)
    /\ UNCHANGED <<list, view, left, handlers, mixed, changes, faults>>

\* loadMore, from the button or as the end of the list comes into view.
LoadMore ==
    /\ page.cursor # 0 /\ ~ Loading /\ ~ LoadingMore
    /\ Cardinality(requests) < MaxRequests
    /\ requests' = requests \cup {Asked("more", view, page.cursor, FALSE)}
    /\ UNCHANGED <<list, screen, handlers, mixed, changes, faults>>

ShowRows_KeepTicks(p, ticked) ==                \* Mutation
    /\ page' = p
    /\ selected' = ticked
    /\ left' = {}

\* setDocuments, and the effect that takes rows off the selection with the screen.
ShowRows(p, ticked) ==
    /\ page' = p
    /\ selected' = ticked \cap ToSet(p.rows)
    /\ left' = {}

ReceiveFirst(r) ==
    /\ r.kind = "first" /\ (r.latest => r.stage = "answered")
    /\ requests' = requests \ {r}
    /\ IF r.latest
       THEN /\ ShowRows([loaded |-> TRUE, rows |-> r.rows, cursor |-> r.next, pending |-> r.pending,
                         changed |-> r.changed, own |-> r.own], selected)
            /\ mixed' = FALSE
       ELSE UNCHANGED <<page, selected, left, mixed>>
    /\ UNCHANGED <<list, view, shown, handlers, changes, faults>>

ReceiveMore(r) ==
    /\ r.kind = "more" /\ (r.latest => r.stage = "answered")
    /\ requests' = requests \ {r}
    /\ IF r.latest
       THEN /\ ShowRows([page EXCEPT !.rows = @ \o r.rows, !.cursor = r.next,
                                     !.pending = @ \cup r.pending], selected)
            /\ mixed' = (mixed \/ r.view # shown)
       ELSE UNCHANGED <<page, selected, left, mixed>>
    /\ UNCHANGED <<list, view, shown, handlers, changes, faults>>

\* The request fails: an error is shown, and what is on screen stays.
FailList(r) ==
    /\ changes + faults < MaxTroubles
    /\ faults' = faults + 1
    /\ requests' = requests \ {r}
    /\ UNCHANGED <<list, screen, handlers, mixed, changes>>

-----------------------------------------------------------------------------
(***************************************************************************)
(* What the person does                                                    *)
(***************************************************************************)

Tick(d) ==
    /\ ~ Loading /\ d \in Rows
    /\ selected' = IF d \in selected THEN selected \ {d} ELSE selected \cup {d}
    /\ UNCHANGED <<list, view, shown, page, left, requests, handlers, mixed, changes, faults>>

TickAll ==
    /\ ~ Loading /\ page.rows # <<>>
    /\ selected' = IF Cardinality(selected) = Len(page.rows) THEN {} ELSE Rows
    /\ UNCHANGED <<list, view, shown, page, left, requests, handlers, mixed, changes, faults>>

ClearTicks ==
    /\ selected # {}
    /\ selected' = {}
    /\ UNCHANGED <<list, view, shown, page, left, requests, handlers, mixed, changes, faults>>

\* DocumentActions: what the row of a document offers. A file that is being
\* scanned can only be moved to the trash.
Offered(action, d) ==
    /\ ~ Loading /\ d \in Rows
    /\ IF view = "trash"
       THEN (action = "restore" /\ d \in Mine) \/ (action = "delete" /\ Owner)
       ELSE action \in {"trash", "move"} /\ d \in Mine /\ (d \in page.pending => action = "trash")

\* bulkBusy: until the reload that follows has ended.
BulkBusy ==
    \/ \E h \in handlers : h.bulk /\ h.stage # "asked"
    \/ \E r \in requests : r.bulk

\* The toolbar of the selection, which stays while the list loads.
BulkOffered(action) ==
    /\ selected # {} /\ ~ BulkBusy
    /\ IF view = "trash" THEN action = "restore" \/ (action = "delete" /\ Owner)
                         ELSE action \in {"trash", "move"}

\* A dialog or the folder picker covers the page; restoring asks nothing.
Begin(action, bulk, ids) ==
    /\ Cardinality(handlers) < MaxHandlers
    /\ ~ \E h \in handlers : h.stage = "asked"
    /\ handlers' = handlers \cup
           {[action |-> action, bulk |-> bulk, ids |-> ids, from |-> view, failed |-> {},
             stage |-> IF action \in {"restore", "upload"} THEN "sent" ELSE "asked"]}
    /\ UNCHANGED <<list, screen, requests, mixed, changes, faults>>

ClickDocument(action, d) == Offered(action, d) /\ Begin(action, FALSE, {d})
ClickBulk(action) == BulkOffered(action) /\ Begin(action, TRUE, selected)

\* createFolder, renameFolder, deleteFolder: a dialog, a request, and the list again.
ClickFolder == view = "here" /\ ~ Loading /\ Begin("folder", FALSE, {})
Upload(d) == view = "here" /\ place[d] = "absent" /\ Begin("upload", FALSE, {d})

\* completeMove takes the selection of the moment the folder is picked, the
\* other actions that of the click.
Confirm(h) ==
    /\ h.stage = "asked"
    /\ handlers' = (handlers \ {h}) \cup
           {[h EXCEPT !.stage = "sent", !.ids = IF h.bulk /\ h.action = "move" THEN selected ELSE @]}
    /\ UNCHANGED <<list, screen, requests, mixed, changes, faults>>

Dismiss(h) ==
    /\ h.stage = "asked"
    /\ handlers' = handlers \ {h}
    /\ UNCHANGED <<list, screen, requests, mixed, changes, faults>>

\* The rows that an answer takes off the screen before the list is reloaded.
Dropped(h) == IF h.action \in {"trash", "restore", "delete"} THEN h.ids ELSE {}

Without(rows, ids) ==
    LET kept[n \in 0..Len(rows)] ==
            IF n = 0 THEN <<>>
            ELSE IF rows[n] \in ids THEN kept[n - 1] ELSE Append(kept[n - 1], rows[n])
    IN  kept[Len(rows)]

FinishOne_NoReload(h) ==                        \* Mutation: move does not load
    /\ h.stage = "served" /\ ~ h.bulk /\ h.action # "upload" /\ h.failed = {}
    /\ handlers' = handlers \ {h}
    /\ UNCHANGED <<list, screen, requests, mixed, changes, faults>>

\* trashDocument, restoreDocument, purgeDocument and completeMove, done.
FinishOne(h) ==
    /\ h.stage = "served" /\ ~ h.bulk /\ h.action # "upload" /\ h.failed = {}
    /\ LET p == [page EXCEPT !.rows = Without(@, Dropped(h)),
                             !.pending = @ \ Dropped(h), !.changed = @ \cup Dropped(h)] IN
       /\ Load(h.from, FALSE, p, selected \cap ToSet(p.rows))
       /\ left' = IF p = page THEN left ELSE {}
    /\ handlers' = handlers \ {h}
    /\ UNCHANGED <<list, view, mixed, changes, faults>>

\* Refused: a message, and nothing else.
Refused(h) ==
    /\ h.stage = "served" /\ ~ h.bulk /\ h.action # "upload" /\ h.failed # {}
    /\ handlers' = handlers \ {h}
    /\ UNCHANGED <<list, screen, requests, mixed, changes, faults>>

\* uploadFiles ends with load(), whether the files were uploaded or not.
FinishUpload(h) ==
    /\ h.stage = "served" /\ h.action = "upload"
    /\ Load(h.from, FALSE, page, selected)
    /\ handlers' = handlers \ {h}
    /\ UNCHANGED <<list, view, left, mixed, changes, faults>>

\* runBulk: what failed stays ticked, and the list is reloaded.
FinishBulk(h) ==
    /\ h.stage = "served" /\ h.bulk
    /\ Load(h.from, TRUE, page, h.failed)
    /\ left' = h.failed
    /\ handlers' = handlers \ {h}
    /\ UNCHANGED <<list, view, mixed, changes, faults>>

\* A request of a handler fails, carried out or not.
FailHandler(h) ==
    /\ changes + faults < MaxTroubles /\ h.stage \in {"sent", "served"}
    /\ faults' = faults + 1
    /\ handlers' = handlers \ {h}
    /\ IF h.action = "upload" THEN Load(h.from, FALSE, page, selected) /\ UNCHANGED <<view, left>>
                              ELSE UNCHANGED <<screen, requests>>
    /\ UNCHANGED <<list, mixed, changes>>

-----------------------------------------------------------------------------
Init ==
    /\ place = [d \in Docs |-> IF d \in Later THEN "absent" ELSE "here"]
    /\ deletedAt = [d \in Docs |-> 0]
    /\ scanning = {}
    /\ view = "here" /\ shown = "here"
    /\ page = Empty
    /\ selected = {} /\ left = {}
    /\ requests = {Asked("first", "here", 0, FALSE)}
    /\ handlers = {}
    /\ mixed = FALSE
    /\ clock = 0 /\ changes = 0 /\ faults = 0

Actions == {"trash", "restore", "delete", "move"}

Api ==
    \/ \E r \in requests : AnswerList(r)
    \/ \E h \in handlers : ServeHandler(h)
    \/ \E d \in Docs : ScanEnds(d)
    \/ \E d \in Docs, action \in Actions \cup {"upload", "bring"} : ByOthers(action, d)

Browser ==
    \/ \E v \in Views : Choose(v)
    \/ Poll \/ LoadMore
    \/ \E r \in requests : ReceiveFirst(r) \/ ReceiveMore(r) \/ FailList(r)
    \/ \E h \in handlers : FinishOne(h) \/ Refused(h) \/ FinishUpload(h) \/ FinishBulk(h) \/ FailHandler(h)

Person ==
    \/ TickAll \/ ClearTicks \/ ClickFolder
    \/ \E d \in Docs : Tick(d) \/ Upload(d)
    \/ \E action \in Actions : ClickBulk(action) \/ \E d \in Docs : ClickDocument(action, d)
    \/ \E h \in handlers : Confirm(h) \/ Dismiss(h)

Next == Api \/ Browser \/ Person

Spec == Init /\ [][Next]_vars

-----------------------------------------------------------------------------
\* What a list that was read at some moment says about documents that have not
\* changed since.
Unchanged(p) == Docs \ p.changed

\* Pages are cut on the sort key, so that a list of several pages, read at
\* several moments, has every document of its query exactly once, as far as it
\* was read: what changed meanwhile may be missing or be there still, nothing
\* else (documents.repo.ts:218-225). The exception is a page that was asked for
\* under another query than that of the rows it is appended to.
PageExact ==
    (page.loaded /\ ~ mixed) =>
        /\ IsInjective(page.rows)
        /\ \A d \in Unchanged(page) :
               d \in Rows <=> /\ place[d] = shown
                              /\ page.cursor = 0 \/ Key(shown, d) >= page.cursor

\* "Only ever ids that are on screen" (page.tsx:152), but for what a bulk
\* action could not do, until the reload that follows it shows rows again.
SelectionOnScreen == selected \subseteq Rows \cup left

\* When nothing is under way and no request has failed, what the person did is
\* on screen: whichever handler's reload was overtaken, by a later one or by a
\* change of the tab, one that was sent after the change has been shown.
OwnChangesShown ==
    (requests = {} /\ handlers = {} /\ faults = 0) => ~ page.own

=============================================================================
