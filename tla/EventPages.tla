----------------------------- MODULE EventPages ----------------------------
(***************************************************************************)
(* Reading a history that is being written: the audit trail of a workspace *)
(* by the activity page and by the CSV export, and the access events of a  *)
(* link by their export.  Each reader fetches a page at a time, newest     *)
(* first, from below the last row it has.                                  *)
(***************************************************************************)
EXTENDS Naturals, Sequences, FiniteSets, SequencesExt, FiniteSetsExt

CONSTANTS
    Categories,     \* of events
    All, None,      \* the filter that lets everything pass, and no cursor
    PageLimit,      \* 50 rows for the page, 1000 for an export
    MaxKey,         \* bound: rows ever written
    MaxRequests,    \* bound: requests of the page
    Requests        \* bound: those of them under way at once

VARIABLES
    source, reader, \* which history this is, "trail" or "link", and who reads it
    rows,           \* the category of the row at each key, None where there is none
    dropped,        \* rows up to here are gone with their partition
    export,         \* the export: its cursor, what it has written, what there was at its start
    filter, list, cursor, loading, loadingMore, \* the activity page
    request,        \* its requests under way
    asked,          \* how many there were, for the bound
    crossed         \* an answer came while another was due, or after the filter had changed

vars == <<source, reader, rows, dropped, export, filter, list, cursor, loading, loadingMore,
          request, asked, crossed>>
page == <<filter, list, cursor, loading, loadingMore, request, asked, crossed>>

Keys   == 1..MaxKey
Filters == Categories \cup {All}

\* A row's key is its seq, which is given out under the chain's lock; or its time and id.
Written == {k \in Keys : rows[k] # None}
Newest  == Max(Written \cup {0})

Passes(k, what) == what \in {All, rows[k]}

\* Newest first: before the i-th there are i - 1 newer ones.
NewestOf(S) == [i \in 1..Cardinality(S) |-> CHOOSE k \in S : Cardinality({n \in S : n > k}) = i - 1]

Page_Inclusive(what, after) ==
    LET all == NewestOf({k \in Written : Passes(k, what) /\ (after = None \/ k <= after)})
    IN  SubSeq(all, 1, IF Len(all) < PageLimit THEN Len(all) ELSE PageLimit)

\* The rows before the cursor, newest first, as many as fit a page.
Page(what, after) ==
    LET all == NewestOf({k \in Written : Passes(k, what) /\ (after = None \/ k < after)})
    IN  SubSeq(all, 1, IF Len(all) < PageLimit THEN Len(all) ELSE PageLimit)

NextCursor(got) == IF Len(got) = PageLimit THEN Last(got) ELSE None

Idle == [step |-> "idle", filter |-> All, after |-> None, got |-> <<>>]
Load(what, after) == [step |-> "sent", filter |-> what, after |-> after, got |-> <<>>]

Init ==
    /\ \E pair \in {<<"trail", "export">>, <<"trail", "page">>, <<"link", "export">>} :
            source = pair[1] /\ reader = pair[2]
    /\ rows = [k \in Keys |-> None] /\ dropped = 0
    /\ export = [step |-> "none", filter |-> All, after |-> None, out |-> <<>>, start |-> {}]
    /\ filter = All /\ list = <<>> /\ cursor = None
    /\ loading = TRUE /\ loadingMore = FALSE
    /\ \E r \in Requests : request = [q \in Requests |-> IF q = r THEN Load(All, None) ELSE Idle]
    /\ asked = 0 /\ crossed = FALSE

(***************************************************************************)
(* The history.                                                            *)
(***************************************************************************)
\* The trail grows at its end.  An event of a link has the time at which its request began, and
\* may be committed after one of a later time.
Write(k, category) ==
    /\ rows[k] = None /\ k > dropped
    /\ source = "trail" => k = Newest + 1
    /\ rows' = [rows EXCEPT ![k] = category]
    /\ UNCHANGED <<source, reader, dropped, export, page>>

\* The oldest months of a link's events are dropped while they are read.
DropPartition(last) ==
    /\ source = "link" /\ last > dropped /\ last <= Newest
    /\ dropped' = last
    /\ rows' = [k \in Keys |-> IF k <= last THEN None ELSE rows[k]]
    /\ UNCHANGED <<source, reader, export, page>>

(***************************************************************************)
(* An export: one query for each page, until one is not full.              *)
(***************************************************************************)
StartExport(what) ==
    /\ reader = "export" /\ export.step = "none"
    /\ source = "link" => what = All
    /\ export' = [export EXCEPT !.step = "reading", !.filter = what,
                                !.start = {k \in Written : Passes(k, what)}]
    /\ UNCHANGED <<source, reader, rows, dropped, page>>

ExportPage ==
    LET got == Page(export.filter, export.after)
    IN  /\ export.step = "reading"
        /\ export' = [export EXCEPT !.out = @ \o got, !.after = NextCursor(got),
                                    !.step = IF NextCursor(got) = None THEN "done" ELSE "reading"]
        /\ UNCHANGED <<source, reader, rows, dropped, page>>

(***************************************************************************)
(* The activity page.                                                      *)
(***************************************************************************)
AtHand == {r \in Requests : request[r].step = "idle"}
Due  == Requests \ AtHand

Send(what) ==
    /\ reader = "page" /\ asked < MaxRequests
    /\ asked' = asked + 1
    /\ \E r \in AtHand : request' = [request EXCEPT ![r] = what]

\* A filter is chosen: the first page of it is asked for.
Choose(what) ==
    /\ what # filter
    /\ filter' = what /\ loading' = TRUE
    /\ Send(Load(what, None))
    /\ UNCHANGED <<source, reader, rows, dropped, export, list, cursor, loadingMore, crossed>>

LoadOlder ==
    /\ ~ loading /\ ~ loadingMore /\ cursor # None /\ list # <<>>
    /\ loadingMore' = TRUE
    /\ Send(Load(filter, cursor))
    /\ UNCHANGED <<source, reader, rows, dropped, export, filter, list, cursor, loading, crossed>>

Serve(r) ==
    /\ reader = "page" /\ request[r].step = "sent"
    /\ request' = [request EXCEPT ![r].step = "answered",
                                  ![r].got = Page(request[r].filter, request[r].after)]
    /\ UNCHANGED <<source, reader, rows, dropped, export, filter, list, cursor, loading, loadingMore,
                   asked, crossed>>

\* An answer is shown whatever has been chosen since.
Show(r) ==
    LET got == request[r].got
        alone == Due = {r} /\ request[r].filter = filter
    IN  /\ request[r].step = "answered"
        /\ list' = IF request[r].after = None THEN got ELSE list \o got
        /\ cursor' = NextCursor(got)
        /\ crossed' = (~ alone \/ (crossed /\ request[r].after # None))
        /\ loading' = FALSE /\ loadingMore' = FALSE
        /\ request' = [request EXCEPT ![r] = Idle]
        /\ UNCHANGED <<source, reader, rows, dropped, export, filter, asked>>

Fail(r) ==
    /\ reader = "page" /\ request[r].step = "sent"
    /\ loading' = FALSE /\ loadingMore' = FALSE
    /\ crossed' = (crossed \/ Due # {r} \/ request[r].after = None)
    /\ request' = [request EXCEPT ![r] = Idle]
    /\ UNCHANGED <<source, reader, rows, dropped, export, filter, list, cursor, asked>>

Next ==
    \/ \E k \in Keys, category \in Categories : Write(k, category)
    \/ \E k \in Keys : DropPartition(k)
    \/ \E what \in Filters : StartExport(what)
    \/ ExportPage
    \/ \E what \in Filters : Choose(what)
    \/ LoadOlder
    \/ \E r \in Requests : Serve(r) \/ Show(r) \/ Fail(r)

Spec == Init /\ [][Next]_vars

(***************************************************************************)
(* Properties.                                                             *)
(***************************************************************************)
NewestFirst(seq) == \A i, j \in DOMAIN seq : i < j => seq[i] > seq[j]

\* An export lists no row twice and, when it ends, has every row that was there when it began and
\* passes its filter, but for those whose partition was dropped before it came to them: rows
\* written or dropped between its pages shift nothing.
ExportExact ==
    /\ NewestFirst(export.out)
    /\ export.step = "done" => \A k \in export.start : k > dropped => k \in ToSet(export.out)

\* With nothing under way, and unless answers crossed since the first page was shown, the page
\* lists what passes the filter without a gap or a repetition, up to where "older" goes on.
FeedExact ==
    reader = "page" /\ Due = {} /\ ~ crossed =>
        /\ NewestFirst(list)
        /\ list # <<>> => ToSet(list) =
               {k \in Written : /\ Passes(k, filter) /\ k <= Head(list)
                                /\ cursor # None => k >= cursor}

HistoryRead == ExportExact /\ FeedExact

=============================================================================
