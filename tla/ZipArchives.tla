---------------------------- MODULE ZipArchives ----------------------------
(***************************************************************************)
(* Zip downloads of chosen documents, or of what is in a folder.  A        *)
(* request takes one of the few slots, plans the archive from one query,   *)
(* records the files as downloaded, and streams them from storage one at a *)
(* time, while the documents go on changing and the client may leave.      *)
(***************************************************************************)
EXTENDS Naturals, Sequences, FiniteSets, SequencesExt, FiniteSetsExt

CONSTANTS
    Docs,           \* identities of documents
    Name,           \* of each document: a base name, and the numbers after it, "a (2)" = <<a, <<2>>>>
    NotIncluded,    \* NOT_INCLUDED_NAME, as a base name
    Requests,       \* requests for an archive
    Links,          \* those that come from a folder link
    Capacity,       \* MAX_CONCURRENT_ARCHIVES
    MaxFiles,       \* ARCHIVE_MAX_FILES
    MaxVersions,    \* bound: versions of a document
    MaxChanges      \* bound: changes of documents

VARIABLES
    docs,       \* documents: whether trashed, and which version is current
    scan,       \* the verdict of the scan on each version, a document's first one is 1
    stored,     \* objects in storage
    request,    \* the requests, each with its plan and what it has sent
    inUse,      \* of createSlots
    logged,     \* who is recorded as having downloaded what
    changes

vars == <<docs, scan, stored, request, inUse, logged, changes>>
table == <<docs, scan, stored, changes>>

Versions == Docs \X (1..MaxVersions)

Fresh == [step |-> "idle", chosen |-> {}, rows |-> <<>>, plan |-> <<>>, skipped |-> {},
          sent |-> <<>>, connected |-> TRUE, released |-> FALSE]

Init ==
    /\ docs = [d \in Docs |-> [place |-> "live", current |-> 1]]
    /\ scan \in {s \in [Versions -> {"none", "pending", "clean", "infected"}] :
                    \A v \in Versions : s[v] = "none" <=> v[2] # 1}
    /\ stored = {v \in Versions : scan[v] \in {"pending", "clean"}}
    /\ request = [r \in Requests |-> Fresh]
    /\ inUse = 0 /\ logged = {}
    /\ changes = 0

(***************************************************************************)
(* The slots.  The release function of a slot counts once.                 *)
(***************************************************************************)
Released(what)   == [what EXCEPT !.released = TRUE]
InUseWithout_NoFlag(what) == inUse - 1

InUseWithout(what) == IF what.released THEN inUse ELSE inUse - 1

Close(r, what, step) ==
    /\ request' = [request EXCEPT ![r] = [Released(what) EXCEPT !.step = step, !.chosen = {}]]
    /\ inUse' = InUseWithout(what)

Ask(r, chosen) ==
    /\ request[r].step = "idle"
    /\ IF inUse >= Capacity
       THEN request' = [request EXCEPT ![r].step = "refused"] /\ UNCHANGED inUse
       ELSE /\ request' = [request EXCEPT ![r] = [Fresh EXCEPT !.step = "slot", !.chosen = chosen]]
            /\ inUse' = inUse + 1
    /\ UNCHANGED <<table, logged>>

(***************************************************************************)
(* The plan.                                                               *)
(***************************************************************************)
Numbered(path, n) == <<path[1], Append(path[2], n)>>

UniquePath_Forgets(taken, path) == IF path = <<NotIncluded, <<>>>> THEN Numbered(path, 2) ELSE path

\* The name, or the first of its numbered forms that no earlier entry has.
UniquePath(taken, path) ==
    IF path \notin taken THEN path
    ELSE Numbered(path, Min({n \in 2..(Cardinality(taken) + 2) : Numbered(path, n) \notin taken}))

Verdict(d) == scan[<<d, docs[d].current>>]

\* One turn of the loop: what the scan has not cleared is left out, the rest gets a path that
\* none before it has.
Planned(entries, d) ==
    IF Verdict(d) \in {"pending", "infected"} THEN entries
    ELSE Append(entries, [id |-> d, key |-> <<d, docs[d].current>>,
                          path |-> UniquePath({<<NotIncluded, <<>>>>} \cup {e.path : e \in ToSet(entries)},
                                              Name[d])])

PlanArchive(rows) ==
    LET entries[n \in 0..Len(rows)] == IF n = 0 THEN <<>> ELSE Planned(entries[n - 1], rows[n])
    IN  entries[Len(rows)]

\* Live rows in the order of the query.
Rows(chosen) == SetToSeq({d \in chosen : docs[d].place = "live"})

Plan(r) ==
    LET rows == Rows(request[r].chosen)
        plan == PlanArchive(rows)
    IN  /\ request[r].step = "slot"
        /\ IF Len(rows) \in 1..MaxFiles /\ plan # <<>>
           THEN /\ request' = [request EXCEPT ![r].step = "planned", ![r].rows = rows, ![r].plan = plan,
                                              ![r].skipped = ToSet(rows) \ {e.id : e \in ToSet(plan)}]
                /\ UNCHANGED inUse
           ELSE Close(r, request[r], "refused")
        /\ UNCHANGED <<table, logged>>

\* recordArchiveDownload writes all the rows or none; a link's event is written on the side, and
\* the link may have been closed or the writing fail.
Record(r) ==
    /\ request[r].step = "planned"
    /\ request' = [request EXCEPT ![r].step = "recorded"]
    /\ LET all == {<<r, e.id>> : e \in ToSet(request[r].plan)}
       IN  \/ logged' = logged \cup all
           \/ r \in Links /\ UNCHANGED logged
    /\ UNCHANGED <<table, inUse>>

RecordFails(r) ==
    /\ request[r].step = "planned"
    /\ Close(r, request[r], "refused")
    /\ UNCHANGED <<table, logged>>

(***************************************************************************)
(* The stream.  A response that is closed already does not say so again.   *)
(***************************************************************************)
Open(r) ==
    /\ request[r].step = "recorded"
    /\ request' = [request EXCEPT ![r].step = IF request[r].connected THEN "sending" ELSE "unheard"]
    /\ UNCHANGED <<table, inUse, logged>>

\* Setting up the response throws: the slot is released now, and again when the response closes.
OpenFails(r) ==
    /\ request[r].step = "recorded"
    /\ Close(r, request[r], IF request[r].connected THEN "answering" ELSE "failed")
    /\ UNCHANGED <<table, logged>>

ErrorSent(r) ==
    /\ request[r].step = "answering"
    /\ Close(r, request[r], "failed")
    /\ UNCHANGED <<table, logged>>

Send_Skips(r) ==
    LET next == request[r].plan[Len(request[r].sent) + 1]
    IN  /\ request[r].step = "sending"
        /\ Len(request[r].sent) < Len(request[r].plan)
        /\ IF next.key \in stored
           THEN request' = [request EXCEPT ![r].sent = Append(@, next)] /\ UNCHANGED inUse
           ELSE Close(r, request[r], "done")
        /\ UNCHANGED <<table, logged>>

\* The next object is read; without it the output is destroyed and the connection closes.
Send(r) ==
    LET next == request[r].plan[Len(request[r].sent) + 1]
    IN  /\ request[r].step = "sending"
        /\ Len(request[r].sent) < Len(request[r].plan)
        /\ IF next.key \in stored
           THEN request' = [request EXCEPT ![r].sent = Append(@, next)] /\ UNCHANGED inUse
           ELSE Close(r, request[r], "broken")
        /\ UNCHANGED <<table, logged>>

Finish(r) ==
    /\ request[r].step = "sending"
    /\ Len(request[r].sent) = Len(request[r].plan)
    /\ Close(r, request[r], "done")
    /\ UNCHANGED <<table, logged>>

ClientLeaves(r) ==
    /\ request[r].connected
    /\ LET left == [request[r] EXCEPT !.connected = FALSE]
       IN  CASE request[r].step \in {"slot", "planned", "recorded"} ->
                    request' = [request EXCEPT ![r] = left] /\ UNCHANGED inUse
             [] request[r].step = "sending" -> Close(r, left, "broken")
             [] OTHER -> FALSE
    /\ UNCHANGED <<table, logged>>

(***************************************************************************)
(* The documents meanwhile.                                                *)
(***************************************************************************)
Changing ==
    /\ changes < MaxChanges
    /\ changes' = changes + 1
    /\ UNCHANGED <<request, inUse, logged>>

Trash(d) ==
    /\ docs[d].place = "live"
    /\ docs' = [docs EXCEPT ![d].place = "trash"]
    /\ Changing
    /\ UNCHANGED <<scan, stored>>

Restore(d) ==
    /\ docs[d].place = "trash"
    /\ docs' = [docs EXCEPT ![d].place = "live"]
    /\ Changing
    /\ UNCHANGED <<scan, stored>>

Purge(d) ==
    /\ docs[d].place = "trash"
    /\ docs' = [docs EXCEPT ![d].place = "gone"]
    /\ stored' = {v \in stored : v[1] # d}
    /\ Changing
    /\ UNCHANGED scan

NewVersion(d) ==
    LET v == <<d, docs[d].current + 1>>
    IN  /\ docs[d].place = "live" /\ v \in Versions
        /\ docs' = [docs EXCEPT ![d].current = @ + 1]
        /\ scan' = [scan EXCEPT ![v] = "pending"]
        /\ stored' = stored \cup {v}
        /\ Changing

RemoveVersion(d) ==
    \E n \in 1..(docs[d].current - 1) :
        /\ docs[d].place = "live" /\ <<d, n>> \in stored
        /\ stored' = stored \ {<<d, n>>}
        /\ Changing
        /\ UNCHANGED <<docs, scan>>

Judge(d) ==
    LET v == <<d, docs[d].current>>
    IN  /\ docs[d].place # "gone" /\ scan[v] = "pending"
        /\ \/ scan' = [scan EXCEPT ![v] = "clean"] /\ UNCHANGED stored
           \/ scan' = [scan EXCEPT ![v] = "infected"] /\ stored' = stored \ {v}
        /\ Changing
        /\ UNCHANGED docs

Next ==
    \/ \E r \in Requests, chosen \in (SUBSET Docs) \ {{}} : Ask(r, chosen)
    \/ \E r \in Requests : Plan(r) \/ Record(r) \/ RecordFails(r)
    \/ \E r \in Requests : Open(r) \/ OpenFails(r) \/ ErrorSent(r)
    \/ \E r \in Requests : Send(r) \/ Finish(r) \/ ClientLeaves(r)
    \/ \E d \in Docs : Trash(d) \/ Restore(d) \/ Purge(d)
    \/ \E d \in Docs : NewVersion(d) \/ RemoveVersion(d) \/ Judge(d)

Spec == Init /\ [][Next]_vars

(***************************************************************************)
(* Properties.                                                             *)
(***************************************************************************)
Holding == {r \in Requests : request[r].step \in {"slot", "planned", "recorded", "sending"}}
Unheard == {r \in Requests : request[r].step = "unheard"}

\* The slots in use are those of the requests that are being served, and those that no request
\* will return: its client had left before the server listened for the end of its response.
\* Whatever fails, whoever leaves and however often a slot is released, no other slot is lost
\* and none is counted twice.
SlotsExact == inUse = Cardinality(Holding) + Cardinality(Unheard) /\ inUse <= Capacity

\* What an archive holds was cleared by the scan, under paths that unpack beside each other and
\* beside the list of what is not included, whatever happened to the documents since the plan.
OnlyCleared ==
    \A r \in Requests : LET sent == request[r].sent IN
        /\ \A i \in DOMAIN sent : scan[sent[i].key] = "clean"
        /\ \A i, j \in DOMAIN sent : sent[i].path = sent[j].path => i = j
        /\ \A i \in DOMAIN sent : sent[i].path # <<NotIncluded, <<>>>>

\* A member's archive holds nothing that was not recorded as downloaded by the member.
RecordedFirst ==
    \A r \in Requests \ Links : \A e \in ToSet(request[r].sent) : <<r, e.id>> \in logged

\* A download that ended well holds every document there was at the plan, or names it as left
\* out: one that lost a file on the way is seen to be broken.
WholeOrBroken ==
    \A r \in Requests : request[r].step = "done" =>
        {e.id : e \in ToSet(request[r].sent)} \cup request[r].skipped = ToSet(request[r].rows)

ZipSound == OnlyCleared /\ RecordedFirst /\ WholeOrBroken

=============================================================================
