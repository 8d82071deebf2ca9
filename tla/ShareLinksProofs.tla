-------------------------- MODULE ShareLinksProofs -------------------------
(***************************************************************************)
(* Proofs about ShareLinks, for any number of visitors and managers and    *)
(* any limits; about the access history that LinkViewers adds to it, for   *)
(* any networks, writers and threshold; and about FolderTree, with the     *)
(* folder links and file requests in it, for any folders, documents and    *)
(* handlers.                                                               *)
(***************************************************************************)
EXTENDS LinkViewers, FolderTree, FiniteSetTheorems, WellFoundedInduction, TLAPS

USE ActorsAssumption, LimitsAssumption

\* The link is made once, and nobody works on it before.
MadeOnceInv ==
    /\ link = "none" => count = 0 /\ \A v \in Visitors : at[v] = "idle"
    /\ \A m, n \in Managers : at[m] = "insert" /\ at[n] = "insert" => m = n

\* What resolved the link before its document went to the trash finds it
\* revoked when it claims a download.
TrashInv ==
    /\ deleted /\ "window" \notin lapses
           => \A v \in Visitors : at[v] # "idle" => link = "revoked"
    /\ deleted /\ lapses \cap {"create", "window"} = {} => link # "live"

IInv == TypeOK /\ MadeOnceInv /\ TrashInv /\ LimitKept /\ DownloadsRecorded

-----------------------------------------------------------------------------
(***************************************************************************)
(* The initial states                                                      *)
(***************************************************************************)

LEMMA InitHolds == Init => IInv
  <1> SUFFICES ASSUME Init PROVE IInv
    OBVIOUS
  <1>1. expired \in BOOLEAN /\ download \in BOOLEAN /\ deleted \in BOOLEAN
    BY DEF Init
  <1>2. /\ link \in {"none", "live", "revoked"}
        /\ max \in Limits
        /\ count \in Nat
        /\ scan \in {"pending", "allowed", "infected"}
        /\ due \in Nat /\ recorded \in Nat
        /\ lapses \subseteq {"create", "window", "limit", "record"}
        /\ trash = "none"
    BY DEF Init
  <1>3. /\ at \in [Actors -> VisitorSteps \cup ManagerSteps]
        /\ \A v \in Visitors : at[v] \in VisitorSteps
        /\ \A m \in Managers : at[m] \in ManagerSteps
        /\ saw \in [Actors -> Nat]
        /\ \A m \in Managers : saw[m] <= count /\ (at[m] = "insert" => link = "none")
    BY DEF Init, Actors, VisitorSteps, ManagerSteps
  <1>4. TypeOK
    BY <1>1, <1>2, <1>3 DEF TypeOK
  <1>5. MadeOnceInv /\ TrashInv /\ LimitKept /\ DownloadsRecorded
    BY DEF Init, MadeOnceInv, TrashInv, LimitKept, DownloadsRecorded, Actors
  <1>6. QED
    BY <1>4, <1>5 DEF IInv

-----------------------------------------------------------------------------
(***************************************************************************)
(* The kinds of steps                                                      *)
(***************************************************************************)

\* A request begins, or ends with nothing done.
Moves ==
    \/ \E v \in Visitors :
        BeginDownload(v) \/ ClaimRefused(v)
    \/ \E m \in Managers : BeginCreate(m) \/ BeginUpdate(m) \/ UpdateRefused(m)

\* Steps of the link or its document that no request takes.
Outside ==
    \/ Revoke \/ Expire
    \/ BeginTrash \/ CommitTrash \/ TrashFails
    \/ Restore \/ NewVersion \/ ScanClean \/ ScanInfected

LEMMA Kinds ==
    ASSUME [Next]_vars
    PROVE  \/ Moves \/ Outside \/ RecordDownload \/ RecordFails \/ Crash \/ UNCHANGED vars
           \/ \E v \in Visitors : ClaimDownload(v)
           \/ \E m \in Managers, n \in Limits, d \in BOOLEAN :
                InsertLink(m, n, d) \/ UpdateSettings(m, n, d)
  BY DEF Next, VisitorStep, ManagerStep, Moves, Outside

LEMMA MovesKeep ==
    ASSUME Moves
    PROVE  /\ UNCHANGED <<link, expired, max, download, count, deleted, trash, scan>>
           /\ UNCHANGED <<due, recorded, lapses>>
  BY DEF Moves, BeginDownload, ClaimRefused, Resolves, BeginCreate,
         BeginUpdate, UpdateRefused, linkRow, settings, document, events

\* Nothing from outside makes a link, counts a download or disturbs a request.
LEMMA OutsideKeeps ==
    ASSUME Outside
    PROVE  /\ link' \in {link, "revoked"} /\ (link = "none" <=> link' = "none")
           /\ expired' \in {expired, TRUE} /\ deleted' \in {deleted, TRUE, FALSE}
           /\ scan' \in {"pending", "allowed", "infected", scan}
           /\ lapses' \in {lapses, lapses \cup {"window"}}
           /\ UNCHANGED <<max, download, count, due, recorded, at, saw>>
  <1> USE DEF linkRow, settings, document, events, local
  <1>1. CASE Revoke \/ Expire
    BY <1>1 DEF Revoke, Expire
  <1>2. CASE BeginTrash \/ TrashFails
    BY <1>2 DEF BeginTrash, TrashFails
  <1>3. CASE CommitTrash
    BY <1>3 DEF CommitTrash, Revoked
  <1>4. CASE Restore \/ NewVersion
    BY <1>4 DEF Restore, NewVersion
  <1>5. CASE ScanClean \/ ScanInfected
    BY <1>5 DEF ScanClean, ScanInfected, Revoked
  <1>6. QED
    BY <1>1, <1>2, <1>3, <1>4, <1>5 DEF Outside

\* Only the transaction's end puts a document into the trash.
LEMMA OutsideTrashes ==
    ASSUME Outside, deleted'
    PROVE  CommitTrash \/ (deleted /\ UNCHANGED lapses)
  BY DEF Outside, Revoke, Expire, BeginTrash, TrashFails, Restore, NewVersion, ScanClean,
         ScanInfected, DocumentFree, document

-----------------------------------------------------------------------------
(***************************************************************************)
(* One lemma per part of the invariant                                     *)
(***************************************************************************)

\* The parts of TypeOK: the tables, their flags and the requests.
TablesOK ==
    /\ link \in {"none", "live", "revoked"}
    /\ max \in Limits
    /\ count \in Nat
    /\ scan \in {"pending", "allowed", "infected"}
    /\ due \in Nat /\ recorded \in Nat
    /\ lapses \subseteq {"create", "window", "limit", "record"}

FlagsOK == expired \in BOOLEAN /\ download \in BOOLEAN /\ deleted \in BOOLEAN

TrashOK ==
    /\ trash \in {"none", "held", "open"}
    /\ trash # "none" => ~ deleted
    /\ trash = "held" => link = "live"

RequestsOK ==
    /\ at \in [Actors -> VisitorSteps \cup ManagerSteps]
    /\ \A v \in Visitors : at[v] \in VisitorSteps
    /\ \A m \in Managers : at[m] \in ManagerSteps
    /\ saw \in [Actors -> Nat]
    /\ \A m \in Managers : saw[m] <= count /\ (at[m] = "insert" => link = "none")

LEMMA Parts == TypeOK <=> TablesOK /\ FlagsOK /\ TrashOK /\ RequestsOK
  BY DEF TypeOK, TablesOK, FlagsOK, TrashOK, RequestsOK

LEMMA TablesStep ==
    ASSUME TablesOK, [Next]_vars
    PROVE  TablesOK'
  <1> USE DEF TablesOK, linkRow, settings, document, events
  <1>1. ASSUME NEW v \in Visitors, ClaimDownload(v) PROVE TablesOK'
    BY <1>1 DEF ClaimDownload
  <1>2. ASSUME NEW m \in Managers, NEW n \in Limits, NEW d \in BOOLEAN, InsertLink(m, n, d)
        PROVE  TablesOK'
    BY <1>2 DEF InsertLink
  <1>3. ASSUME NEW m \in Managers, NEW n \in Limits, NEW d \in BOOLEAN, UpdateSettings(m, n, d)
        PROVE  TablesOK'
    BY <1>3 DEF UpdateSettings
  <1>4. CASE RecordDownload
    BY <1>4 DEF RecordDownload
  <1>5. CASE RecordFails
    BY <1>5 DEF RecordFails
  <1>6. CASE Crash
    BY <1>6 DEF Crash
  <1>7. CASE Outside
    BY <1>7, OutsideKeeps
  <1>8. CASE Moves
    BY <1>8, MovesKeep
  <1>9. CASE UNCHANGED vars
    BY <1>9 DEF vars
  <1> HIDE DEF TablesOK
  <1>10. QED
    BY <1>1, <1>2, <1>3, <1>4, <1>5, <1>6, <1>7, <1>8, <1>9, Kinds

LEMMA FlagsStep ==
    ASSUME FlagsOK, [Next]_vars
    PROVE  FlagsOK'
  <1> USE DEF FlagsOK, linkRow, settings, document
  <1>1. ASSUME NEW m \in Managers, NEW n \in Limits, NEW d \in BOOLEAN,
               InsertLink(m, n, d) \/ UpdateSettings(m, n, d)
        PROVE  FlagsOK'
    BY <1>1 DEF InsertLink, UpdateSettings
  <1>2. CASE Outside
    <2>1. UNCHANGED download /\ deleted' \in {deleted, TRUE, FALSE} /\ expired' \in {expired, TRUE}
      BY <1>2, OutsideKeeps
    <2>2. QED
      BY <2>1
  <1>3. CASE UNCHANGED <<expired, download, deleted>>
    BY <1>3
  <1> HIDE DEF FlagsOK
  <1>4. QED
    BY <1>1, <1>2, <1>3, Kinds, MovesKeep
       DEF ClaimDownload, RecordDownload, RecordFails, Crash, vars

\* The row that the transaction holds is written by nobody else.
LEMMA TrashTypes ==
    ASSUME TrashOK, [Next]_vars
    PROVE  TrashOK'
  <1> USE DEF TrashOK, linkRow, settings, document
  <1>1. CASE BeginTrash
    BY <1>1 DEF BeginTrash
  <1>2. CASE CommitTrash \/ TrashFails
    BY <1>2 DEF CommitTrash, TrashFails
  <1>3. CASE Crash
    BY <1>3 DEF Crash
  <1>4. CASE Restore \/ NewVersion \/ Expire
    BY <1>4 DEF Restore, NewVersion, Expire
  <1>5. CASE ScanClean \/ ScanInfected
    BY <1>5 DEF ScanClean, ScanInfected
  <1>6. CASE Revoke
    BY <1>6 DEF Revoke, RowFree
  <1>7. ASSUME NEW m \in Managers, NEW n \in Limits, NEW d \in BOOLEAN,
               InsertLink(m, n, d) \/ UpdateSettings(m, n, d)
        PROVE  TrashOK'
    <2>1. UNCHANGED <<deleted, trash>> /\ link' \in {link, "live"}
      BY <1>7 DEF InsertLink, UpdateSettings
    <2>2. QED
      BY <2>1
  <1>8. CASE UNCHANGED <<link, deleted, trash>>
    BY <1>8
  <1> HIDE DEF TrashOK
  <1>9. QED
    BY <1>1, <1>2, <1>3, <1>4, <1>5, <1>6, <1>7, <1>8, Kinds, MovesKeep
       DEF Outside, ClaimDownload, RecordDownload, RecordFails, vars

LEMMA RequestsStep ==
    ASSUME TypeOK, MadeOnceInv, [Next]_vars
    PROVE  RequestsOK'
  <1> USE DEF RequestsOK, Actors, VisitorSteps, ManagerSteps, Move, Return
  <1> RequestsOK /\ TablesOK
    BY Parts
  <1>1. ASSUME NEW v \in Visitors, ClaimDownload(v) PROVE RequestsOK'
    BY <1>1 DEF ClaimDownload, TablesOK
  <1>2. ASSUME NEW m \in Managers, NEW n \in Limits, NEW d \in BOOLEAN, InsertLink(m, n, d)
        PROVE  RequestsOK'
    BY <1>2 DEF InsertLink, MadeOnceInv, TablesOK
  <1>3. ASSUME NEW m \in Managers, NEW n \in Limits, NEW d \in BOOLEAN, UpdateSettings(m, n, d)
        PROVE  RequestsOK'
    BY <1>3 DEF UpdateSettings, TablesOK
  <1>4. ASSUME NEW v \in Visitors,
               BeginDownload(v) \/ ClaimRefused(v), Moves
        PROVE  RequestsOK'
    BY <1>4, MovesKeep DEF BeginDownload, ClaimRefused, Resolves, TablesOK
  <1>5. ASSUME NEW m \in Managers, BeginCreate(m) \/ BeginUpdate(m) \/ UpdateRefused(m), Moves
        PROVE  RequestsOK'
    BY <1>5, MovesKeep DEF BeginCreate, BeginUpdate, UpdateRefused, TablesOK
  <1>6. CASE Crash
    BY <1>6 DEF Crash, linkRow, TablesOK
  <1>7. CASE Outside
    BY <1>7, OutsideKeeps
  <1>8. CASE UNCHANGED <<link, count, at, saw>>
    BY <1>8
  <1> HIDE DEF RequestsOK
  <1>9. QED
    BY <1>1, <1>2, <1>3, <1>4, <1>5, <1>6, <1>7, <1>8, Kinds
       DEF Moves, RecordDownload, RecordFails, linkRow, local, vars

LEMMA MadeOnceStep ==
    ASSUME TypeOK, MadeOnceInv, [Next]_vars
    PROVE  MadeOnceInv'
  <1> USE DEF MadeOnceInv, Actors, VisitorSteps, ManagerSteps, Move, Return
  <1> RequestsOK
    BY Parts
  <1> USE DEF RequestsOK
  <1>1. ASSUME NEW v \in Visitors, ClaimDownload(v) PROVE MadeOnceInv'
    BY <1>1 DEF ClaimDownload
  <1>2. ASSUME NEW m \in Managers, NEW n \in Limits, NEW d \in BOOLEAN,
               InsertLink(m, n, d) \/ UpdateSettings(m, n, d)
        PROVE  MadeOnceInv'
    BY <1>2 DEF InsertLink, UpdateSettings
  <1>3. ASSUME NEW v \in Visitors,
               BeginDownload(v) \/ ClaimRefused(v), Moves
        PROVE  MadeOnceInv'
    BY <1>3, MovesKeep DEF BeginDownload, ClaimRefused, Resolves
  <1>4. ASSUME NEW m \in Managers, BeginCreate(m) \/ BeginUpdate(m) \/ UpdateRefused(m), Moves
        PROVE  MadeOnceInv'
    BY <1>4, MovesKeep DEF BeginCreate, BeginUpdate, UpdateRefused
  <1>5. CASE Crash
    BY <1>5 DEF Crash, linkRow
  <1>6. CASE Outside
    BY <1>6, OutsideKeeps
  <1>7. CASE UNCHANGED <<link, count, at>>
    BY <1>7
  <1> HIDE DEF MadeOnceInv, RequestsOK
  <1>8. QED
    BY <1>1, <1>2, <1>3, <1>4, <1>5, <1>6, <1>7, Kinds
       DEF Moves, RecordDownload, RecordFails, linkRow, local, vars

\* A link is inserted before anybody resolves it; whoever has resolved one
\* before the trash took its document finds it revoked.
LEMMA TrashStep ==
    ASSUME TypeOK, MadeOnceInv, TrashInv, [Next]_vars
    PROVE  TrashInv'
  <1> USE DEF TrashInv, Actors, Move, Return
  <1> RequestsOK /\ TablesOK
    BY Parts
  <1> USE DEF RequestsOK, TablesOK
  <1>1. ASSUME NEW v \in Visitors, ClaimDownload(v) PROVE TrashInv'
    BY <1>1 DEF ClaimDownload, document
  <1>2. ASSUME NEW m \in Managers, NEW n \in Limits, NEW d \in BOOLEAN, InsertLink(m, n, d)
        PROVE  TrashInv'
    BY <1>2 DEF InsertLink, MadeOnceInv, document
  <1>3. ASSUME NEW m \in Managers, NEW n \in Limits, NEW d \in BOOLEAN, UpdateSettings(m, n, d)
        PROVE  TrashInv'
    BY <1>3 DEF UpdateSettings, document
  <1>4. ASSUME NEW v \in Visitors,
               BeginDownload(v) \/ ClaimRefused(v), Moves
        PROVE  TrashInv'
    BY <1>4, MovesKeep DEF BeginDownload, ClaimRefused, Resolves
  <1>5. ASSUME NEW m \in Managers, BeginCreate(m) \/ BeginUpdate(m) \/ UpdateRefused(m), Moves
        PROVE  TrashInv'
    BY <1>5, MovesKeep DEF BeginCreate, BeginUpdate, UpdateRefused
  <1>6. CASE Crash
    BY <1>6 DEF Crash, linkRow, document
  <1>7. CASE Outside
    <2>1. CASE CommitTrash
      <3>1. trash = "open" \/ (trash = "held" /\ link' = "revoked")
        BY <2>1, Parts DEF CommitTrash, TrashOK, Revoked
      <3>2. CASE trash = "open"
        BY <2>1, <3>2 DEF CommitTrash, MadeOnceInv, local
      <3>3. CASE link' = "revoked"
        BY <3>3
      <3>4. QED
        BY <3>1, <3>2, <3>3
    <2>2. CASE deleted /\ UNCHANGED lapses
      BY <1>7, <2>2, OutsideKeeps
    <2>3. CASE ~ deleted'
      BY <2>3
    <2>4. QED
      BY <1>7, <2>1, <2>2, <2>3, OutsideTrashes
  <1>8. CASE RecordDownload \/ RecordFails
    BY <1>8 DEF RecordDownload, RecordFails, linkRow, document, local
  <1>9. CASE UNCHANGED vars
    BY <1>9 DEF linkRow, document, local, vars
  <1> HIDE DEF TrashInv, RequestsOK, TablesOK
  <1>10. QED
    BY <1>1, <1>2, <1>3, <1>4, <1>5, <1>6, <1>7, <1>8, <1>9, Kinds DEF Moves

\* claimDownload compares the count as it is; an update compares it as it was.
LEMMA LimitStep ==
    ASSUME TypeOK, MadeOnceInv, LimitKept, [Next]_vars
    PROVE  LimitKept'
  <1> USE DEF LimitKept
  <1> TablesOK /\ RequestsOK
    BY Parts
  <1> USE DEF TablesOK
  <1>1. ASSUME NEW v \in Visitors, ClaimDownload(v) PROVE LimitKept'
    BY <1>1 DEF ClaimDownload, Claims, NotOver, settings
  <1>2. ASSUME NEW m \in Managers, NEW n \in Limits, NEW d \in BOOLEAN, InsertLink(m, n, d)
        PROVE  LimitKept'
    BY <1>2 DEF InsertLink, MadeOnceInv, RequestsOK
  <1>3. ASSUME NEW m \in Managers, NEW n \in Limits, NEW d \in BOOLEAN, UpdateSettings(m, n, d)
        PROVE  LimitKept'
    <2>1. n \in Nat /\ saw[m] \in Nat /\ count' = count
      BY <1>3 DEF UpdateSettings, RequestsOK, Actors
    <2>2. CASE link = "live" /\ ~ (saw[m] # count /\ n \in 1..(count - 1))
      <3>1. max' = n /\ lapses' = lapses
        BY <1>3, <2>2 DEF UpdateSettings
      <3>2. n = 0 \/ n = max \/ n > saw[m]
        BY <1>3 DEF UpdateSettings, LimitFits
      <3>3. saw[m] = count \/ n = 0 \/ n > count - 1
        BY <2>1, <2>2
      <3>4. QED
        BY <2>1, <3>1, <3>2, <3>3
    <2>3. CASE link = "live" /\ saw[m] # count /\ n \in 1..(count - 1)
      BY <1>3, <2>3 DEF UpdateSettings
    <2>4. CASE link # "live"
      BY <1>3, <2>1, <2>4 DEF UpdateSettings, settings
    <2>5. QED
      BY <2>2, <2>3, <2>4
  <1>4. CASE UNCHANGED <<max, count>> /\ lapses \subseteq lapses'
    BY <1>4
  <1> HIDE DEF LimitKept, TablesOK
  <1>5. QED
    BY <1>1, <1>2, <1>3, <1>4, Kinds, MovesKeep, OutsideKeeps
       DEF RecordDownload, RecordFails, Crash, linkRow, settings, vars

LEMMA RecordedStep ==
    ASSUME TypeOK, DownloadsRecorded, [Next]_vars
    PROVE  DownloadsRecorded'
  <1> USE DEF DownloadsRecorded, TablesOK
  <1> TablesOK
    BY Parts
  <1>1. ASSUME NEW v \in Visitors, ClaimDownload(v) PROVE DownloadsRecorded'
    BY <1>1 DEF ClaimDownload
  <1>2. CASE RecordDownload
    BY <1>2 DEF RecordDownload, linkRow
  <1>3. CASE RecordFails
    BY <1>3 DEF RecordFails, linkRow
  <1>4. CASE Crash
    BY <1>4 DEF Crash, linkRow
  <1>5. CASE UNCHANGED <<count, due, recorded>> /\ lapses \subseteq lapses'
    BY <1>5
  <1> HIDE DEF DownloadsRecorded, TablesOK
  <1>6. QED
    BY <1>1, <1>2, <1>3, <1>4, <1>5, Kinds, MovesKeep, OutsideKeeps
       DEF InsertLink, UpdateSettings, linkRow, events, vars

LEMMA Invariance == Safety => []IInv
  <1>1. IInv /\ [Next]_vars => IInv'
    <2> SUFFICES ASSUME IInv, [Next]_vars PROVE IInv'
      OBVIOUS
    <2>1. TablesOK /\ FlagsOK /\ TrashOK
      BY Parts DEF IInv
    <2>2. TablesOK' /\ FlagsOK' /\ TrashOK' /\ RequestsOK'
      BY <2>1, TablesStep, FlagsStep, TrashTypes, RequestsStep DEF IInv
    <2>3. TypeOK'
      BY <2>2, Parts, PTL
    <2>4. QED
      BY <2>3, MadeOnceStep, TrashStep, LimitStep, RecordedStep DEF IInv
  <1>2. QED
    BY <1>1, InitHolds, PTL DEF Safety

-----------------------------------------------------------------------------
(***************************************************************************)
(* The results                                                             *)
(***************************************************************************)

\* Everything stays well formed, and a link is made once (shares.repo.ts).
THEOREM TypeCorrect == Safety => []TypeOK
  BY Invariance, PTL DEF IInv

\* No more downloads are handed out than the link allows, for any number of
\* visitors, as long as none overtakes an update of the limit (claimDownload).
THEOREM LimitHolds == Safety => []LimitKept
  BY Invariance, PTL DEF IInv

\* The history agrees with the count, as long as no event of it is lost
\* (record and writeAccess).
THEOREM RecordsHold == Safety => []DownloadsRecorded
  BY Invariance, PTL DEF IInv

\* No download is claimed from the trash: trashing revoked the link, in the
\* same transaction (revokeForDocument).  A restore finds no live link, unless
\* one was inserted for a document that was in the trash by then (restore).
\* What was inserted while the transaction was open is excepted.
THEOREM TrashHolds == Safety => TrashEndsLinks
  <1>1. IInv /\ [Next]_vars => (count' > count /\ "window" \notin lapses => ~ deleted)
    <2> SUFFICES ASSUME IInv, [Next]_vars, "window" \notin lapses
                 PROVE  count' > count => ~ deleted
      OBVIOUS
    <2>1. ASSUME NEW v \in Visitors, ClaimDownload(v) PROVE ~ deleted
      BY <2>1 DEF ClaimDownload, Claims, IInv, TrashInv
    <2>2. CASE UNCHANGED count
      BY <2>2 DEF IInv, TypeOK
    <2>3. QED
      BY <2>1, <2>2, Kinds, MovesKeep, OutsideKeeps
         DEF InsertLink, UpdateSettings, RecordDownload, RecordFails, Crash, linkRow, vars
  <1>2. IInv => (deleted /\ ~ deleted' /\ lapses \cap {"create", "window"} = {}
                     => link # "live")
    BY DEF IInv, TrashInv
  <1>3. QED
    BY <1>1, <1>2, Invariance, PTL DEF Safety, TrashEndsLinks

-----------------------------------------------------------------------------
(***************************************************************************)
(* LinkViewers implements ShareLinks: its transactions write the events    *)
(* that ShareLinks has written in one step, or give them up.               *)
(***************************************************************************)

\* Whatever the writers of the history do, the link and its requests behave as
\* they do without them.
THEOREM HistoryImplementsLink == ViewersSafety => Safety
  <1>1. ViewersInit => Init
    BY DEF ViewersInit
  <1>2. [ViewersNext]_allVars => [Next]_vars
    <2> SUFFICES ASSUME [ViewersNext]_allVars PROVE Next \/ UNCHANGED vars
      OBVIOUS
    <2>1. LinkSteps => Next
      BY DEF LinkSteps, Next
    <2>2. ASSUME NEW w \in Writers, Commit(w) \/ Rollback(w) PROVE Next \/ UNCHANGED vars
      BY <2>2 DEF Commit, Rollback, Next
    <2>3. CASE \E w \in Writers : CountSuccess(w)
                  \/ \E n \in Networks : UpsertForView(w, n) \/ RepeatedView(w, n)
                                             \/ UpsertForDownload(w, n)
      BY <2>3 DEF CountSuccess, UpsertForView, RepeatedView, UpsertForDownload
    <2>4. CASE \/ \E v \in Visitors : RecordView(v)
               \/ \E n \in Networks : WindowPasses(n)
      BY <2>4 DEF RecordView, WindowPasses
    <2>5. CrashAll => Next
      BY DEF CrashAll, Next
    <2>6. UNCHANGED allVars => UNCHANGED vars
      BY DEF allVars
    <2>7. QED
      BY <2>1, <2>2, <2>3, <2>4, <2>5, <2>6 DEF ViewersNext
  <1>3. QED
    BY <1>1, <1>2, PTL DEF ViewersSafety, Safety

-----------------------------------------------------------------------------
(***************************************************************************)
(* The access history                                                      *)
(***************************************************************************)

Rows == [at : {"upserted", "counted"}, kind : {"view", "download"}, net : Networks, new : {0, 1}]

Recent == {n \in Networks : viewer[n] = "recent"}

HistoryTypes ==
    /\ viewer \in [Networks -> {"none", "seen", "recent"}]
    /\ viewers \in Nat /\ opens \in Nat /\ windows \in Nat
    /\ writer \in [Writers -> Rows \cup {NoWrite}]
    /\ told \in [{"first", "flagged"} -> Nat]

\* The row lock: two transactions never hold the row of one viewer, so what the
\* upsert said of the viewer is still so when the transaction commits.
RowsInv ==
    /\ \A w, u \in Busy : writer[w].net = writer[u].net => w = u
    /\ \A w \in Busy : /\ writer[w].new = 1 <=> viewer[writer[w].net] = "none"
                       /\ writer[w].kind = "view" => viewer[writer[w].net] # "recent"

\* A viewer inside its window has been counted once in it.
CountsInv ==
    /\ viewers = Cardinality(Known)
    /\ opens <= Cardinality(Recent) + windows

\* The creator is told when the count gets there, which it does once.
ToldInv ==
    /\ told["first"] <= 1 /\ (viewers = 0 => told["first"] = 0)
    /\ told["flagged"] <= 1 /\ (viewers < Threshold => told["flagged"] = 0)

HistoryInv == HistoryTypes /\ RowsInv /\ CountsInv /\ ToldInv

LEMMA BusyRows ==
    ASSUME HistoryTypes, NEW w \in Busy
    PROVE  w \in Writers /\ writer[w] \in Rows /\ writer[w].net \in Networks
  BY DEF Busy, HistoryTypes, Rows

LEMMA NoWriteApart == NoWrite \notin Rows
  BY DEF NoWrite, Rows

\* What a writer can do to its row of the history.
LEMMA WriterAt ==
    ASSUME HistoryTypes, NEW w \in Writers, writer[w].at \in {"upserted", "counted"}
    PROVE  w \in Busy
  BY DEF Busy, HistoryTypes, NoWrite

\* A set of networks is finite, and gets one larger by a network it lacks.
LEMMA Counted ==
    ASSUME NEW S \in SUBSET Networks
    PROVE  /\ Cardinality(S) \in Nat
           /\ \A n \in Networks \ S : Cardinality(S \cup {n}) = Cardinality(S) + 1
           /\ \A n \in S : Cardinality(S \ {n}) = Cardinality(S) - 1
  <1>1. IsFiniteSet(S)
    BY WritersAssumption, FS_Subset
  <1>2. QED
    BY <1>1, FS_CardinalityType, FS_AddElement, FS_RemoveElement

LEMMA HistoryInit == ViewersInit => HistoryInv
  <1> SUFFICES ASSUME ViewersInit PROVE HistoryInv
    OBVIOUS
  <1>1. Known = {} /\ Recent = {} /\ Busy = {}
    BY DEF ViewersInit, Known, Recent, Busy
  <1>2. HistoryTypes
    BY DEF ViewersInit, HistoryTypes
  <1>3. CountsInv /\ RowsInv /\ ToldInv
    BY <1>1, FS_EmptySet, WritersAssumption DEF CountsInv, RowsInv, ToldInv, ViewersInit
  <1>4. QED
    BY <1>2, <1>3 DEF HistoryInv

\* An upsert: a transaction that was idle takes the row of a viewer that is free.
Upserts(w, n) ==
    /\ writer[w] = NoWrite
    /\ Free(n)
    /\ \E kind \in {"view", "download"} :
          /\ kind = "view" => viewer[n] # "recent"
          /\ writer' = [writer EXCEPT ![w] =
                  Write("upserted", kind, n, IF viewer[n] = "none" THEN 1 ELSE 0)]
    /\ UNCHANGED <<viewer, viewers, opens, told, windows>>

LEMMA UpsertStep ==
    ASSUME HistoryInv, NEW w \in Writers, NEW n \in Networks, Upserts(w, n)
    PROVE  HistoryInv'
  <1> HistoryTypes /\ RowsInv /\ CountsInv /\ ToldInv
    BY DEF HistoryInv
  <1> DEFINE new == IF viewer[n] = "none" THEN 1 ELSE 0
  <1>1. PICK kind \in {"view", "download"} :
            /\ kind = "view" => viewer[n] # "recent"
            /\ writer' = [writer EXCEPT ![w] = Write("upserted", kind, n, new)]
    BY DEF Upserts
  <1>2. Write("upserted", kind, n, new) \in Rows
    BY DEF Write, Rows
  <1>3. /\ Write("upserted", kind, n, new).net = n
        /\ Write("upserted", kind, n, new).kind = kind
        /\ Write("upserted", kind, n, new).new = new
    BY DEF Write
  <1>4. /\ writer'[w] = Write("upserted", kind, n, new)
        /\ \A u \in Writers \ {w} : writer'[u] = writer[u]
        /\ writer' \in [Writers -> Rows \cup {NoWrite}]
    BY <1>1, <1>2 DEF HistoryTypes
  <1> HIDE DEF new
  <1>5. UNCHANGED <<viewer, viewers, opens, told, windows>> /\ Free(n)
    BY DEF Upserts
  <1>6. \A u \in Busy' : u \in Writers /\ (u = w \/ (u \in Busy /\ writer[u].net # n))
    BY <1>4, <1>5 DEF Busy, Free
  <1>7. HistoryTypes'
    BY <1>4, <1>5 DEF HistoryTypes
  <1>8. RowsInv'
    <2>1. \A u \in Busy' : u # w => u \in Busy /\ writer'[u] = writer[u] /\ writer[u].net # n
      BY <1>4, <1>6
    <2>2. writer'[w].net = n /\ writer'[w].kind = kind /\ writer'[w].new = new
      BY <1>3, <1>4
    <2>3. new = 1 <=> viewer[n] = "none"
      BY DEF new
    <2>4. \A u, x \in Busy' : writer'[u].net = writer'[x].net => u = x
      BY <2>1, <2>2 DEF RowsInv
    <2>5. \A u \in Busy' : /\ writer'[u].new = 1 <=> viewer[writer'[u].net] = "none"
                           /\ writer'[u].kind = "view" => viewer[writer'[u].net] # "recent"
      <3> SUFFICES ASSUME NEW u \in Busy'
                   PROVE  /\ writer'[u].new = 1 <=> viewer[writer'[u].net] = "none"
                          /\ writer'[u].kind = "view" => viewer[writer'[u].net] # "recent"
        OBVIOUS
      <3>1. CASE u = w
        BY <1>1, <2>2, <2>3, <3>1
      <3>2. CASE u # w
        BY <2>1, <3>2 DEF RowsInv
      <3>3. QED
        BY <3>1, <3>2
    <2>6. QED
      BY <1>5, <2>4, <2>5 DEF RowsInv
  <1>9. CountsInv' /\ ToldInv'
    BY <1>5 DEF CountsInv, ToldInv, Known, Recent
  <1>10. QED
    BY <1>7, <1>8, <1>9 DEF HistoryInv

LEMMA CountSuccessStep ==
    ASSUME HistoryInv, NEW w \in Writers, CountSuccess(w)
    PROVE  HistoryInv'
  <1> HistoryTypes /\ RowsInv /\ CountsInv /\ ToldInv
    BY DEF HistoryInv
  <1>1. UNCHANGED <<viewer, viewers, opens, told, windows>>
    BY DEF CountSuccess, counters
  <1>2. w \in Busy /\ writer' = [writer EXCEPT ![w].at = "counted"]
    BY WriterAt DEF CountSuccess
  <1>3. writer[w] \in Rows
    BY <1>2, BusyRows
  <1>4. /\ [writer[w] EXCEPT !.at = "counted"] \in Rows
        /\ [writer[w] EXCEPT !.at = "counted"].net = writer[w].net
        /\ [writer[w] EXCEPT !.at = "counted"].kind = writer[w].kind
        /\ [writer[w] EXCEPT !.at = "counted"].new = writer[w].new
    BY <1>3 DEF Rows
  <1>5. /\ writer'[w] = [writer[w] EXCEPT !.at = "counted"]
        /\ \A u \in Writers \ {w} : writer'[u] = writer[u]
    BY <1>2 DEF HistoryTypes
  <1>6. \A u \in Busy' : /\ u \in Busy /\ writer'[u].net = writer[u].net
                         /\ writer'[u].kind = writer[u].kind /\ writer'[u].new = writer[u].new
    <2> SUFFICES ASSUME NEW u \in Busy'
                 PROVE  /\ u \in Busy /\ writer'[u].net = writer[u].net
                        /\ writer'[u].kind = writer[u].kind /\ writer'[u].new = writer[u].new
      OBVIOUS
    <2>1. CASE u = w
      BY <1>2, <1>4, <1>5, <2>1
    <2>2. CASE u # w
      BY <1>5, <2>2 DEF Busy
    <2>3. QED
      BY <2>1, <2>2
  <1>7. writer' \in [Writers -> Rows \cup {NoWrite}]
    BY <1>2, <1>3, <1>4 DEF HistoryTypes
  <1>8. HistoryTypes'
    BY <1>1, <1>7 DEF HistoryTypes
  <1>9. RowsInv'
    BY <1>1, <1>6 DEF RowsInv
  <1>10. CountsInv' /\ ToldInv'
    BY <1>1 DEF CountsInv, ToldInv, Known, Recent
  <1>11. QED
    BY <1>8, <1>9, <1>10 DEF HistoryInv

\* A transaction ends, and frees the row of its viewer.
LEMMA Freed ==
    ASSUME HistoryTypes, RowsInv, NEW w \in Writers, w \in Busy,
           writer' = [writer EXCEPT ![w] = NoWrite]
    PROVE  /\ writer' \in [Writers -> Rows \cup {NoWrite}]
           /\ Busy' = Busy \ {w}
           /\ \A u \in Busy' : /\ u \in Busy /\ writer'[u] = writer[u]
                               /\ writer[u].net # writer[w].net
  <1>1. writer'[w] = NoWrite /\ \A u \in Writers \ {w} : writer'[u] = writer[u]
    BY DEF HistoryTypes
  <1>2. Busy' = Busy \ {w}
    BY <1>1 DEF Busy
  <1>3. \A u \in Busy' : u \in Writers /\ u # w /\ u \in Busy
    BY <1>2 DEF Busy
  <1>4. QED
    BY <1>1, <1>2, <1>3 DEF HistoryTypes, RowsInv

LEMMA RollbackStep ==
    ASSUME HistoryInv, NEW w \in Writers, Rollback(w)
    PROVE  HistoryInv'
  <1> HistoryTypes /\ RowsInv /\ CountsInv /\ ToldInv
    BY DEF HistoryInv
  <1>1. UNCHANGED <<viewer, viewers, opens, told, windows>>
    BY DEF Rollback, counters
  <1>2. w \in Busy /\ writer' = [writer EXCEPT ![w] = NoWrite]
    BY DEF Rollback, Busy
  <1>3. HistoryTypes'
    BY <1>1, <1>2, Freed DEF HistoryTypes
  <1>4. RowsInv'
    <2>1. \A u \in Busy' : u \in Busy /\ writer'[u] = writer[u]
      BY <1>2, Freed
    <2>2. QED
      BY <1>1, <2>1 DEF RowsInv
  <1>5. CountsInv' /\ ToldInv'
    BY <1>1 DEF CountsInv, ToldInv, Known, Recent
  <1>6. QED
    BY <1>3, <1>4, <1>5 DEF HistoryInv

LEMMA CommitStep ==
    ASSUME HistoryInv, NEW w \in Writers, Commit(w)
    PROVE  HistoryInv'
  <1> HistoryTypes /\ RowsInv /\ CountsInv /\ ToldInv
    BY DEF HistoryInv
  <1> DEFINE n == writer[w].net
             new == writer[w].new
             kind == writer[w].kind
  <1>1. /\ w \in Busy
        /\ writer' = [writer EXCEPT ![w] = NoWrite]
        /\ viewer' = ViewerAfter(w)
        /\ viewers' = viewers + new
        /\ told' = [m \in DOMAIN told |->
               IF new = 1 /\ m \in Messages(viewers') THEN told[m] + 1 ELSE told[m]]
        /\ windows' = windows
        /\ \/ kind = "view" /\ opens' = opens + 1
           \/ kind = "download" /\ opens' = opens
    BY WriterAt DEF Commit
  <1>2. /\ n \in Networks /\ new \in {0, 1} /\ kind \in {"view", "download"}
        /\ new = 1 <=> viewer[n] = "none"
        /\ kind = "view" => viewer[n] # "recent"
    BY <1>1, BusyRows DEF Rows, RowsInv
  <1>3. /\ \A k \in Networks \ {n} : viewer'[k] = viewer[k]
        /\ viewer'[n] = IF kind = "view" THEN "recent"
                        ELSE IF viewer[n] = "none" THEN "seen" ELSE viewer[n]
        /\ viewer' \in [Networks -> {"none", "seen", "recent"}]
    BY <1>1, <1>2 DEF ViewerAfter, HistoryTypes
  <1>4. \A u \in Busy' : /\ u \in Busy /\ writer'[u] = writer[u] /\ writer[u].net # n
                         /\ writer[u].net \in Networks
    BY <1>1, Freed, BusyRows
  <1>5. writer' \in [Writers -> Rows \cup {NoWrite}]
    BY <1>1, Freed
  <1> HIDE DEF n, new, kind
  <1>6. RowsInv'
    <2>1. \A u \in Busy' : viewer'[writer[u].net] = viewer[writer[u].net]
      BY <1>3, <1>4
    <2>2. QED
      BY <1>4, <2>1 DEF RowsInv
  <1>7. viewers' = Cardinality(Known')
    <2>1. Known \in SUBSET Networks
      BY DEF Known
    <2>2. Known' = Known \cup {n}
      <3>1. viewer'[n] # "none"
        BY <1>2, <1>3
      <3>2. \A k \in Networks : viewer'[k] # "none" <=> (viewer[k] # "none" \/ k = n)
        BY <1>3, <3>1
      <3>3. QED
        BY <1>2, <3>2 DEF Known
    <2>3. CASE new = 1
      <3>1. n \in Networks \ Known
        BY <1>2, <2>3 DEF Known
      <3>2. QED
        BY <1>1, <2>1, <2>2, <2>3, <3>1, Counted DEF CountsInv
    <2>4. CASE new = 0
      <3>1. Known' = Known
        BY <1>2, <2>2, <2>4 DEF Known
      <3>2. QED
        BY <1>1, <2>4, <3>1 DEF CountsInv, HistoryTypes
    <2>5. QED
      BY <1>2, <2>3, <2>4
  <1>8. opens' <= Cardinality(Recent') + windows' /\ opens' \in Nat
    <2>1. Recent \in SUBSET Networks
      BY DEF Recent
    <2>2. CASE kind = "view"
      <3>1. Recent' = Recent \cup {n} /\ n \in Networks \ Recent
        BY <1>2, <1>3, <2>2 DEF Recent
      <3>2. Cardinality(Recent') = Cardinality(Recent) + 1 /\ Cardinality(Recent) \in Nat
        BY <2>1, <3>1, Counted
      <3>3. opens' = opens + 1 /\ windows' = windows
        BY <1>1, <2>2
      <3>4. QED
        BY <3>2, <3>3 DEF CountsInv, HistoryTypes
    <2>3. CASE kind = "download"
      <3>1. viewer'[n] = "recent" <=> viewer[n] = "recent"
        BY <1>3, <2>3
      <3>2. Recent' = Recent
        BY <1>3, <3>1 DEF Recent
      <3>3. opens' = opens /\ windows' = windows
        BY <1>1, <2>3
      <3>4. QED
        BY <3>2, <3>3 DEF CountsInv, HistoryTypes
    <2>4. QED
      BY <1>2, <2>2, <2>3
  <1>9. HistoryTypes'
    <2>1. viewers' \in Nat /\ windows' \in Nat
      BY <1>1, <1>2 DEF HistoryTypes
    <2>2. told' \in [{"first", "flagged"} -> Nat]
      BY <1>1 DEF HistoryTypes
    <2>3. QED
      BY <1>3, <1>5, <1>8, <2>1, <2>2 DEF HistoryTypes
  <1>10. ToldInv'
    <2>1. /\ told'["first"] = IF new = 1 /\ viewers' <= 1 THEN told["first"] + 1 ELSE told["first"]
          /\ told'["flagged"] = IF new = 1 /\ viewers' = Threshold
                                THEN told["flagged"] + 1 ELSE told["flagged"]
      BY <1>1 DEF HistoryTypes, Messages
    <2>2. viewers \in Nat /\ told["first"] \in Nat /\ told["flagged"] \in Nat
      BY DEF HistoryTypes
    <2>3. viewers' = viewers + new
      BY <1>1
    <2>4. told'["first"] <= 1 /\ (viewers' = 0 => told'["first"] = 0)
      BY <1>2, <2>1, <2>2, <2>3 DEF ToldInv
    <2>5. told'["flagged"] <= 1 /\ (viewers' < Threshold => told'["flagged"] = 0)
      BY <1>2, <2>1, <2>2, <2>3, WritersAssumption DEF ToldInv
    <2>6. QED
      BY <2>4, <2>5 DEF ToldInv
  <1>11. QED
    BY <1>6, <1>7, <1>8, <1>9, <1>10 DEF HistoryInv, CountsInv

LEMMA WindowStep ==
    ASSUME HistoryInv, NEW n \in Networks, WindowPasses(n)
    PROVE  HistoryInv'
  <1> HistoryTypes /\ RowsInv /\ CountsInv /\ ToldInv
    BY DEF HistoryInv
  <1>1. /\ viewer[n] = "recent" /\ windows' = windows + 1
        /\ viewer' = [viewer EXCEPT ![n] = "seen"]
        /\ UNCHANGED <<viewers, opens, writer, told>>
    BY DEF WindowPasses
  <1>2. /\ viewer'[n] = "seen" /\ \A k \in Networks \ {n} : viewer'[k] = viewer[k]
        /\ viewer' \in [Networks -> {"none", "seen", "recent"}]
    BY <1>1 DEF HistoryTypes
  <1>3. HistoryTypes'
    BY <1>1, <1>2 DEF HistoryTypes
  <1>4. RowsInv'
    <2>1. Busy' = Busy /\ \A w \in Busy : writer[w].net \in Networks
      BY <1>1, BusyRows DEF Busy
    <2>2. \A w \in Busy : /\ viewer'[writer[w].net] = "none" <=> viewer[writer[w].net] = "none"
                          /\ viewer'[writer[w].net] = "recent" => viewer[writer[w].net] = "recent"
      BY <1>1, <1>2, <2>1
    <2>3. QED
      BY <1>1, <2>1, <2>2 DEF RowsInv
  <1>5. CountsInv'
    <2>1. Known' = Known
      BY <1>1, <1>2 DEF Known
    <2>2. Recent' = Recent \ {n} /\ n \in Recent /\ Recent \in SUBSET Networks
      BY <1>1, <1>2 DEF Recent
    <2>3. Cardinality(Recent') = Cardinality(Recent) - 1 /\ Cardinality(Recent) \in Nat
      BY <2>2, Counted
    <2>4. QED
      BY <1>1, <2>1, <2>3 DEF CountsInv, HistoryTypes
  <1>6. ToldInv'
    BY <1>1 DEF ToldInv
  <1>7. QED
    BY <1>3, <1>4, <1>5, <1>6 DEF HistoryInv

LEMMA HistoryStep ==
    ASSUME HistoryInv, [ViewersNext]_allVars
    PROVE  HistoryInv'
  <1>1. CASE UNCHANGED <<viewer, viewers, opens, writer, told, windows>>
    BY <1>1 DEF HistoryInv, HistoryTypes, RowsInv, CountsInv, ToldInv, Busy, Known, Recent
  <1>2. ASSUME NEW w \in Writers, NEW n \in Networks, UpsertForView(w, n) \/ UpsertForDownload(w, n)
        PROVE  Upserts(w, n)
    <2>1. CASE UpsertForView(w, n)
      BY <2>1 DEF UpsertForView, Upserts, counters
    <2>2. CASE UpsertForDownload(w, n)
      BY <2>2 DEF UpsertForDownload, Upserts, counters
    <2>3. QED
      BY <1>2, <2>1, <2>2
  <1>3. CASE CrashAll
    <2>1. /\ UNCHANGED <<viewer, viewers, opens, told, windows>>
          /\ writer' = [w \in Writers |-> NoWrite]
      BY <1>3 DEF CrashAll, counters
    <2>2. Busy' = {}
      BY <2>1 DEF Busy
    <2>3. QED
      BY <2>1, <2>2 DEF HistoryInv, HistoryTypes, RowsInv, CountsInv, ToldInv, Known, Recent
  <1>4. ASSUME NEW v \in Visitors, RecordView(v)
        PROVE  UNCHANGED <<viewer, viewers, opens, writer, told, windows>>
    BY <1>4 DEF RecordView, counters
  <1>5. ASSUME NEW w \in Writers, NEW n \in Networks, RepeatedView(w, n)
        PROVE  UNCHANGED <<viewer, viewers, opens, writer, told, windows>>
    BY <1>5 DEF RepeatedView, counters
  <1>6. UNCHANGED lv_vars => UNCHANGED <<viewer, viewers, opens, writer, told, windows>>
    BY DEF lv_vars, counters
  <1>7. UNCHANGED allVars => UNCHANGED lv_vars
    BY DEF allVars
  <1>8. QED
    BY <1>1, <1>2, <1>3, <1>4, <1>5, <1>6, <1>7,
       UpsertStep, CountSuccessStep, CommitStep, RollbackStep, WindowStep DEF ViewersNext

\* The counters of a link are those of its viewers, two tabs that refresh at once
\* count once (shares.repo.ts upsertViewerForView), and the creator hears of the
\* first opening and of a forwarded link at most once, whatever transactions
\* overlap, roll back or die.
THEOREM HistoryHolds == ViewersSafety => []HistoryExact
  <1>1. ViewersSafety => []HistoryInv
    BY HistoryInit, HistoryStep, PTL DEF ViewersSafety
  <1>2. ViewersSafety => []DownloadsRecorded
    BY HistoryImplementsLink, RecordsHold, PTL
  <1>3. HistoryInv /\ DownloadsRecorded => HistoryExact
    <2> SUFFICES ASSUME HistoryInv, DownloadsRecorded PROVE HistoryExact
      OBVIOUS
    <2>1. HistoryTypes /\ CountsInv /\ ToldInv
      BY DEF HistoryInv
    <2>2. Recent \subseteq Known /\ IsFiniteSet(Known)
      <3>1. Known \subseteq Networks
        BY DEF Known
      <3>2. QED
        BY <3>1, WritersAssumption, FS_Subset DEF Recent, Known
    <2>3. Cardinality(Recent) <= Cardinality(Known) /\ Cardinality(Recent) \in Nat
          /\ Cardinality(Known) \in Nat
      BY <2>2, FS_Subset, FS_CardinalityType
    <2>4. QED
      BY <2>1, <2>3 DEF HistoryExact, CountsInv, ToldInv, HistoryTypes
  <1>4. QED
    BY <1>1, <1>2, <1>3, PTL

-----------------------------------------------------------------------------
(***************************************************************************)
(* The folder tree.  Climb is the walk up in a tree that is given, so that *)
(* the trees before and after a step can be compared.                      *)
(***************************************************************************)

Levels == 0..WalkGuard

Above(p, f) == IF f \in Folders THEN p[f] ELSE Root

Climb(p, f) ==
    CHOOSE up : up = [n \in 0..WalkGuard |->
                         IF n = 0 THEN f ELSE IF up[n - 1] \in Folders THEN p[up[n - 1]] ELSE Root]

LEMMA UpIsClimb ==
    ASSUME NEW f
    PROVE  Up(f) = Climb(parent, f) /\ Up(f)' = Climb(parent', f)
  <1>1. Up(f) = Climb(parent, f)
    BY DEF Up, Climb
  <1>2. Up(f)' = Climb(parent', f)
    BY DEF Up, Climb
  <1>3. QED
    BY <1>1, <1>2

\* A number that is refuted has a least one that is.
LEMMA LeastExists ==
    ASSUME NEW T \in SUBSET Nat, T # {}
    PROVE  \E m \in T : \A k \in T : m <= k
  <1> DEFINE R == {q \in Nat \X Nat : q[1] < q[2]}
  <1>1. IsWellFoundedOn(R, Nat)
    BY NatLessThanWellFounded DEF OpToRel
  <1>2. PICK m \in T : \A k \in T : ~ (<<k, m>> \in R)
    BY <1>1, WFMin
  <1>3. \A k \in T : ~ (k < m)
    BY <1>2
  <1>4. QED
    BY <1>3

\* The walk up from a folder exists: were there a last level that can be reached,
\* the next one could be.
LEMMA ClimbSteps ==
    ASSUME WalkGuard \in Nat, NEW p, NEW f
    PROVE  /\ Climb(p, f)[0] = f
           /\ \A n \in 1..WalkGuard : Climb(p, f)[n] = Above(p, Climb(p, f)[n - 1])
  <1> DEFINE Walk(u, k) == /\ DOMAIN u = 0..k
                           /\ u = [n \in 0..k |-> u[n]]
                           /\ u[0] = f
                           /\ \A n \in 1..k : u[n] = Above(p, u[n - 1])
             T == {k \in Nat : ~ \E u : Walk(u, k)}
  <1>1. ASSUME NEW k \in Nat, NEW u, Walk(u, k)
        PROVE  \E v : Walk(v, k + 1)
    <2> DEFINE v == [n \in 0..(k + 1) |-> IF n = k + 1 THEN Above(p, u[k]) ELSE u[n]]
    <2>1. v[0] = f
      BY <1>1
    <2>2. ASSUME NEW n \in 1..k PROVE v[n] = Above(p, v[n - 1])
      <3>1. v[n] = u[n] /\ v[n - 1] = u[n - 1]
        OBVIOUS
      <3>2. QED
        BY <3>1, <1>1
    <2>3. v[k + 1] = Above(p, v[k])
      BY <1>1
    <2>4. \A n \in 1..(k + 1) : n \in 1..k \/ n = k + 1
      OBVIOUS
    <2>5. \A n \in 1..(k + 1) : v[n] = Above(p, v[n - 1])
      <3> HIDE DEF v
      <3>1. (k + 1) - 1 = k
        OBVIOUS
      <3>2. QED
        BY <2>2, <2>3, <2>4, <3>1
    <2>6. DOMAIN v = 0..(k + 1) /\ v = [n \in 0..(k + 1) |-> v[n]]
      OBVIOUS
    <2>7. QED
      BY <2>1, <2>5, <2>6
  <1>2. \E u : Walk(u, 0)
    <2> DEFINE v == [n \in 0..0 |-> f]
    <2>1. Walk(v, 0)
      OBVIOUS
    <2>2. QED
      BY <2>1
  <1> HIDE DEF Walk
  <1>3. T = {}
    <2> SUFFICES ASSUME T # {} PROVE FALSE
      OBVIOUS
    <2>1. PICK m \in T : \A k \in T : m <= k
      BY LeastExists
    <2>2. m # 0 /\ m \in Nat
      BY <1>2
    <2>3. m - 1 \in Nat /\ m - 1 \notin T /\ (m - 1) + 1 = m
      BY <2>1, <2>2
    <2>4. PICK u : Walk(u, m - 1)
      BY <2>3
    <2>5. QED
      BY <1>1, <2>3, <2>4
  <1>4. PICK u : Walk(u, WalkGuard)
    BY <1>3
  <1> DEFINE Is(v) == v = [n \in 0..WalkGuard |->
                         IF n = 0 THEN f ELSE IF v[n - 1] \in Folders THEN p[v[n - 1]] ELSE Root]
  <1>5. Is(u)
    <2>1. /\ u = [n \in 0..WalkGuard |-> u[n]]
          /\ u[0] = f
          /\ \A n \in 1..WalkGuard : u[n] = Above(p, u[n - 1])
      BY <1>4 DEF Walk
    <2>2. ASSUME NEW n \in 0..WalkGuard
          PROVE  u[n] = IF n = 0 THEN f ELSE IF u[n - 1] \in Folders THEN p[u[n - 1]] ELSE Root
      <3>1. CASE n = 0
        BY <2>1, <3>1
      <3>2. CASE n \in 1..WalkGuard
        BY <2>1, <3>2 DEF Above
      <3>3. QED
        BY <3>1, <3>2
    <2>3. QED
      BY <2>1, <2>2, Zenon
  <1>6. Is(Climb(p, f))
    <2> HIDE DEF Is
    <2>1. Climb(p, f) = CHOOSE v : Is(v)
      BY DEF Climb, Is
    <2>2. QED
      BY <1>5, <2>1
  <1> DEFINE c == Climb(p, f)
  <1> HIDE DEF c
  <1>7. c = [n \in 0..WalkGuard |->
                         IF n = 0 THEN f ELSE IF c[n - 1] \in Folders THEN p[c[n - 1]] ELSE Root]
    BY <1>6 DEF c
  <1>8. c[0] = f
    BY <1>7
  <1>9. ASSUME NEW n \in 1..WalkGuard PROVE c[n] = Above(p, c[n - 1])
    BY <1>7 DEF Above
  <1>10. QED
    BY <1>8, <1>9 DEF c


Placed(p, f) == f = Root \/ (f \in Folders /\ p[f] # None)

Forest(p) == \A f \in Folders : p[f] # None => Placed(p, p[f])

Bounds ==
    /\ Root \notin Folders /\ None \notin Folders /\ Root # None
    /\ MaxDepth \in Nat /\ WalkGuard \in Nat /\ MaxDepth < WalkGuard

LEMMA StaysRoot ==
    ASSUME Bounds, NEW p, NEW f, NEW k \in 0..WalkGuard, NEW n \in 0..WalkGuard,
           Climb(p, f)[k] = Root, k <= n
    PROVE  Climb(p, f)[n] = Root
  <1> DEFINE c == Climb(p, f)
             T == {i \in 0..WalkGuard : k <= i /\ c[i] # Root}
  <1>0. WalkGuard \in Nat /\ T \in SUBSET Nat
    BY DEF Bounds
  <1>1. \A i \in 1..WalkGuard : c[i] = Above(p, c[i - 1])
    BY ClimbSteps DEF Bounds
  <1>2. T = {}
    <2> SUFFICES ASSUME T # {} PROVE FALSE
      OBVIOUS
    <2>1. PICK m \in T : \A i \in T : m <= i
      BY <1>0, LeastExists
    <2>2. m \in 1..WalkGuard /\ m - 1 \in 0..WalkGuard /\ k <= m - 1
      BY <1>0, <2>1
    <2>3. c[m - 1] = Root
      BY <1>0, <2>1, <2>2
    <2>4. QED
      BY <1>1, <2>1, <2>2, <2>3 DEF Above, Bounds
  <1>3. QED
    BY <1>2

LEMMA StaysPlaced ==
    ASSUME Bounds, NEW p, Forest(p), NEW f, Placed(p, f), NEW n \in 0..WalkGuard
    PROVE  Placed(p, Climb(p, f)[n])
  <1> DEFINE c == Climb(p, f)
             T == {i \in 0..WalkGuard : ~ Placed(p, c[i])}
  <1>0. WalkGuard \in Nat /\ T \in SUBSET Nat
    BY DEF Bounds
  <1>1. c[0] = f /\ \A i \in 1..WalkGuard : c[i] = Above(p, c[i - 1])
    BY ClimbSteps DEF Bounds
  <1>2. T = {}
    <2> SUFFICES ASSUME T # {} PROVE FALSE
      OBVIOUS
    <2>1. PICK m \in T : \A i \in T : m <= i
      BY <1>0, LeastExists
    <2>2. m # 0
      BY <1>1, <2>1
    <2>3. m \in 1..WalkGuard /\ m - 1 \in 0..WalkGuard /\ m - 1 \notin T
      BY <1>0, <2>1, <2>2
    <2>4. Placed(p, c[m - 1])
      BY <2>3
    <2>5. QED
      BY <1>1, <2>1, <2>3, <2>4 DEF Above, Placed, Forest, Bounds
  <1>3. QED
    BY <1>2

LEMMA ClimbComposes ==
    ASSUME Bounds, NEW p, NEW f, NEW m \in 0..WalkGuard, NEW n \in 0..WalkGuard, m + n <= WalkGuard
    PROVE  Climb(p, f)[m + n] = Climb(p, Climb(p, f)[m])[n]
  <1> DEFINE c == Climb(p, f)
             d == Climb(p, c[m])
             T == {i \in 0..WalkGuard : m + i <= WalkGuard /\ c[m + i] # d[i]}
  <1>0. WalkGuard \in Nat /\ T \in SUBSET Nat
    BY DEF Bounds
  <1>1. \A i \in 1..WalkGuard : c[i] = Above(p, c[i - 1])
    BY ClimbSteps DEF Bounds
  <1>2. d[0] = c[m] /\ \A i \in 1..WalkGuard : d[i] = Above(p, d[i - 1])
    BY ClimbSteps DEF Bounds
  <1>3. T = {}
    <2> HIDE DEF c, d
    <2> SUFFICES ASSUME T # {} PROVE FALSE
      OBVIOUS
    <2>1. PICK i \in T : \A j \in T : i <= j
      BY <1>0, LeastExists
    <2>2. i # 0
      BY <1>2, <2>1
    <2>3. /\ i \in 1..WalkGuard /\ i - 1 \in 0..WalkGuard /\ i - 1 \notin T
          /\ m + i \in 1..WalkGuard /\ (m + i) - 1 = m + (i - 1)
      BY <1>0, <2>1, <2>2
    <2>4. c[m + (i - 1)] = d[i - 1]
      BY <1>0, <2>3
    <2>5. c[m + i] = d[i]
      BY <1>1, <1>2, <2>3, <2>4
    <2>6. QED
      BY <2>1, <2>5
  <1>4. QED
    BY <1>3

Elsewhere(p, q, f) == \A e \in Folders : e # f => q[e] = p[e]

Before(p, g, n, f) == \A i \in 0..WalkGuard : i < n => Climb(p, g)[i] # f

\* The walk up does not notice what happens to a folder it does not come to.
LEMMA ClimbElsewhere ==
    ASSUME Bounds, NEW p, NEW q, NEW f, Elsewhere(p, q, f),
           NEW g, NEW n \in 0..WalkGuard, Before(p, g, n, f)
    PROVE  Climb(q, g)[n] = Climb(p, g)[n]
  <1> DEFINE c == Climb(p, g)
             d == Climb(q, g)
             T == {i \in 0..WalkGuard : i <= n /\ c[i] # d[i]}
  <1>0. WalkGuard \in Nat /\ T \in SUBSET Nat
    BY DEF Bounds
  <1>1. c[0] = g /\ \A i \in 1..WalkGuard : c[i] = Above(p, c[i - 1])
    BY ClimbSteps DEF Bounds
  <1>2. d[0] = g /\ \A i \in 1..WalkGuard : d[i] = Above(q, d[i - 1])
    BY ClimbSteps DEF Bounds
  <1>3. T = {}
    <2> SUFFICES ASSUME T # {} PROVE FALSE
      OBVIOUS
    <2>1. PICK i \in T : \A j \in T : i <= j
      BY <1>0, LeastExists
    <2>2. i # 0
      BY <1>1, <1>2, <2>1
    <2>3. i \in 1..WalkGuard /\ i - 1 \in 0..WalkGuard /\ i - 1 \notin T /\ i - 1 < n
      BY <1>0, <2>1, <2>2
    <2>4. c[i - 1] = d[i - 1] /\ c[i - 1] # f
      BY <1>0, <2>3 DEF Before
    <2>5. QED
      BY <1>1, <1>2, <2>1, <2>3, <2>4 DEF Above, Elsewhere
  <1>4. QED
    BY <1>0, <1>3

Path(p, f) ==
    {<<n, Climb(p, f)[n]>> : n \in {i \in 0..WalkGuard : /\ Climb(p, f)[i] \in Folders
                                                         /\ p[Climb(p, f)[i]] # None}}

LEMMA PathIsPath ==
    ASSUME NEW f
    PROVE  PathTo(f) = Path(parent, f) /\ PathTo(f)' = Path(parent', f)
  <1>1. PathTo(f) = Path(parent, f)
    BY UpIsClimb DEF PathTo, Exists, Path
  <1>2. PathTo(f)' = Path(parent', f)
    BY UpIsClimb DEF PathTo, Exists, Path
  <1>3. QED
    BY <1>1, <1>2

\* pathTo returns at least one fshare for every level below the top.
LEMMA PathCounts ==
    ASSUME Bounds, NEW p, Forest(p), NEW f, Placed(p, f), NEW n \in 0..WalkGuard,
           Climb(p, f)[n] = Root
    PROVE  /\ Cardinality(Path(p, f)) \in Nat
           /\ \E k \in 0..WalkGuard : Climb(p, f)[k] = Root /\ k <= Cardinality(Path(p, f))
  <1> DEFINE c == Climb(p, f)
             T == {i \in 0..WalkGuard : c[i] = Root}
  <1>1. WalkGuard \in Nat /\ T \in SUBSET Nat /\ n \in T
    BY DEF Bounds
  <1>2. PICK k \in T : \A i \in T : k <= i
    BY <1>1, LeastExists
  <1>3. k \in 0..WalkGuard /\ c[k] = Root /\ k - 1 \in Int
    BY <1>2
  <1>4. \A i \in 0..(k - 1) : i \in 0..WalkGuard /\ c[i] # Root
    BY <1>1, <1>2
  <1>5. \A i \in 0..(k - 1) : <<i, c[i]>> \in Path(p, f)
    BY <1>4, StaysPlaced DEF Path, Placed
  <1> HIDE DEF c
  <1>6. IsFiniteSet(Path(p, f)) /\ Cardinality(Path(p, f)) \in Nat
    <2> DEFINE first == [x \in Path(p, f) |-> x[1]]
    <2>1. \A x \in Path(p, f) : \E i \in 0..WalkGuard : x = <<i, c[i]>>
      BY DEF Path, c
    <2>2. first \in [Path(p, f) -> 0..WalkGuard]
      BY <2>1
    <2>3. \A x, y \in Path(p, f) : first[x] = first[y] => x = y
      BY <2>1
    <2> HIDE DEF first
    <2>4. first \in Injection(Path(p, f), 0..WalkGuard)
      BY <2>2, <2>3 DEF Injection, IsInjective
    <2>5. IsFiniteSet(0..WalkGuard)
      BY <1>1, FS_Interval
    <2>6. QED
      BY <2>4, <2>5, FS_Injection, FS_CardinalityType
  <1>7. k <= Cardinality(Path(p, f))
    <2> DEFINE nth == [i \in 0..(k - 1) |-> <<i, c[i]>>]
    <2>1. nth \in [0..(k - 1) -> Path(p, f)]
      BY <1>5
    <2>2. \A i, j \in 0..(k - 1) : nth[i] = nth[j] => i = j
      OBVIOUS
    <2> HIDE DEF nth
    <2>3. nth \in Injection(0..(k - 1), Path(p, f))
      BY <2>1, <2>2 DEF Injection, IsInjective
    <2>4. Cardinality(0..(k - 1)) <= Cardinality(Path(p, f))
      BY <2>3, <1>6, FS_Injection
    <2>5. Cardinality(0..(k - 1)) = IF 0 > k - 1 THEN 0 ELSE (k - 1) - 0 + 1
      BY <1>3, FS_Interval
    <2>6. QED
      BY <2>4, <2>5, <1>3, <1>6
  <1>8. QED
    BY <1>3, <1>6, <1>7 DEF c

LEMMA MaxIsMax ==
    ASSUME WalkGuard \in Nat, NEW S \in SUBSET (0..WalkGuard), S # {}
    PROVE  Max(S) \in S /\ \A x \in S : x <= Max(S)
  <1> DEFINE T == {WalkGuard - x : x \in S}
  <1>1. T \in SUBSET Nat /\ T # {}
    <2>1. \A x \in S : x \in 0..WalkGuard /\ WalkGuard - x \in Nat
      OBVIOUS
    <2>2. QED
      BY <2>1
  <1>2. PICK t \in T : \A u \in T : t <= u
    BY <1>1, LeastExists
  <1>3. PICK x \in S : t = WalkGuard - x
    BY <1>2
  <1>4. ASSUME NEW y \in S PROVE x >= y
    <2>1. t <= WalkGuard - y /\ x \in 0..WalkGuard /\ y \in 0..WalkGuard
      BY <1>2
    <2>2. QED
      BY <2>1, <1>3
  <1>5. Max(S) \in S /\ \A y \in S : Max(S) >= y
    BY <1>4, Zenon DEF Max
  <1>6. QED
    BY <1>5

Reach(p, f) == \E n \in 0..MaxDepth : Climb(p, f)[n] = Root

AllReach(p) == \A f \in Folders : p[f] # None => Reach(p, f)

LEMMA ReachIsReachable ==
    /\ (\A f \in Folders : Exists(f) => Reachable(f)) <=> AllReach(parent)
    /\ (\A f \in Folders : Exists(f) => Reachable(f))' <=> AllReach(parent')
  <1>1. (\A f \in Folders : Exists(f) => Reachable(f)) <=> AllReach(parent)
    BY UpIsClimb DEF Exists, Reachable, AllReach, Reach
  <1>2. (\A f \in Folders : Exists(f) => Reachable(f))' <=> AllReach(parent')
    BY UpIsClimb DEF Exists, Reachable, AllReach, Reach
  <1>3. QED
    BY <1>1, <1>2

Apart(p, t, f) == \A n \in 0..WalkGuard : Climb(p, t)[n] # f

Room(p, f, k) ==
    \A g \in Folders : p[g] # None =>
        \A n \in 0..WalkGuard : Climb(p, g)[n] = f => n + 1 + k <= MaxDepth

\* Folder f is put below t: what was n levels below f is then n + 1 levels below t.
LEMMA Hang ==
    ASSUME Bounds, NEW p, NEW q, NEW f \in Folders, NEW t,
           q[f] = t, Elsewhere(p, q, f), Apart(p, t, f),
           NEW k \in 0..WalkGuard, Climb(p, t)[k] = Root, k + 1 <= MaxDepth,
           Room(p, f, k),
           AllReach(p)
    PROVE  AllReach(q)
  <1>1. WalkGuard \in Nat /\ MaxDepth \in Nat /\ MaxDepth < WalkGuard
    BY DEF Bounds
  <1>2. Climb(q, t)[k] = Root
    <2>1. Before(p, t, k, f)
      BY DEF Before, Apart
    <2>2. QED
      BY <2>1, ClimbElsewhere
  <1>3. Climb(q, f)[1] = t
    BY <1>1, ClimbSteps DEF Above
  <1>4. Climb(q, f)[1 + k] = Root
    <2>1. 1 \in 0..WalkGuard /\ 1 + k <= WalkGuard
      BY <1>1
    <2>2. Climb(q, f)[1 + k] = Climb(q, Climb(q, f)[1])[k]
      BY <2>1, ClimbComposes
    <2>3. QED
      BY <2>2, <1>2, <1>3
  <1>5. ASSUME NEW g \in Folders, q[g] # None, g # f PROVE Reach(q, g)
    <2>1. p[g] # None
      BY <1>5 DEF Elsewhere
    <2>2. PICK m \in 0..MaxDepth : Climb(p, g)[m] = Root
      BY <2>1 DEF AllReach, Reach
    <2> DEFINE T == {i \in 0..WalkGuard : Climb(p, g)[i] = f}
    <2>3. CASE T = {}
      <3>1. Before(p, g, m, f) /\ m \in 0..WalkGuard
        BY <2>3, <1>1 DEF Before
      <3>2. Climb(q, g)[m] = Root
        BY <2>2, <3>1, ClimbElsewhere
      <3>3. QED
        BY <3>2 DEF Reach
    <2>4. CASE T # {}
      <3>1. T \in SUBSET Nat
        BY <1>1
      <3>2. PICK n \in T : \A i \in T : n <= i
        BY <2>4, <3>1, LeastExists
      <3>3. n \in 0..WalkGuard /\ Climb(p, g)[n] = f /\ Before(p, g, n, f)
        BY <3>2, <1>1 DEF Before
      <3>4. n + 1 + k <= MaxDepth
        BY <3>3, <2>1 DEF Room
      <3>5. Climb(q, g)[n] = f
        BY <3>3, ClimbElsewhere
      <3>6. n + (1 + k) \in 0..MaxDepth /\ 1 + k \in 0..WalkGuard /\ n + (1 + k) <= WalkGuard
        BY <3>3, <3>4, <1>1
      <3>7. Climb(q, g)[n + (1 + k)] = Climb(q, f)[1 + k]
        <4>1. Climb(q, g)[n + (1 + k)] = Climb(q, Climb(q, g)[n])[1 + k]
          BY <3>3, <3>6, ClimbComposes
        <4>2. QED
          BY <4>1, <3>5
      <3>8. QED
        BY <3>6, <3>7, <1>4 DEF Reach
    <2>5. QED
      BY <2>3, <2>4
  <1>6. Reach(q, f)
    <2>1. 1 + k \in 0..MaxDepth
      BY <1>1
    <2>2. QED
      BY <2>1, <1>4 DEF Reach
  <1>7. QED
    BY <1>5, <1>6 DEF AllReach

\* Folder f goes, and had none below it.
LEMMA Detach ==
    ASSUME Bounds, NEW p, NEW q, NEW f \in Folders,
           q[f] = None, \A e \in Folders : e # f => q[e] = p[e] /\ p[e] # f, p[f] # f,
           AllReach(p)
    PROVE  AllReach(q)
  <1> SUFFICES ASSUME NEW g \in Folders, q[g] # None PROVE Reach(q, g)
    BY DEF AllReach
  <1>1. g # f /\ p[g] # None
    OBVIOUS
  <1>2. PICK m \in 0..MaxDepth : Climb(p, g)[m] = Root
    BY <1>1 DEF AllReach, Reach
  <1>3. m \in 0..WalkGuard /\ f # Root /\ WalkGuard \in Nat
    BY DEF Bounds
  <1>4. Climb(p, g)[0] = g /\ \A n \in 1..WalkGuard : Climb(p, g)[n] = Above(p, Climb(p, g)[n - 1])
    BY <1>3, ClimbSteps
  <1>5. \A n \in 0..WalkGuard : n = 0 \/ n \in 1..WalkGuard
    BY <1>3
  <1>6. \A n \in 0..WalkGuard : Climb(p, g)[n] # f
    BY <1>1, <1>3, <1>4, <1>5 DEF Above
  <1>7. Climb(q, g)[m] = Root
    <2>1. Before(p, g, m, f) /\ Elsewhere(p, q, f)
      BY <1>6 DEF Before, Elsewhere
    <2>2. QED
      BY <1>2, <1>3, <2>1, ClimbElsewhere
  <1>8. QED
    BY <1>7 DEF Reach

-----------------------------------------------------------------------------
(***************************************************************************)
(* What a request has read                                                 *)
(***************************************************************************)

LEMMA SizesGive ==
    /\ Bounds /\ WalkGuard \in Nat
    /\ IsFiniteSet(Handlers) /\ MaxFiles \in Nat
    /\ Attempts \in Nat /\ Attempts > 0 /\ MaxRequests \in Nat
  BY SizesAssumption DEF Bounds

Places == Folders \cup {Root}

ReadRow == [op : Ops, at : Places, to : Places,
            path : SUBSET (Levels \X Folders), height : Levels]

\* A request that is about to write has seen that its folder fits.
ReadOK(r, s) ==
    /\ r.op = "none" <=> s = "idle"
    /\ s = "insert" => r.at \in Folders /\ Cardinality(r.path) < MaxDepth
    /\ s \in {"path", "height", "write", "delete"} => r.at \in Folders
    /\ s \in {"height", "write"} /\ r.to # Root => \A n \in Levels : <<n, r.at>> \notin r.path
    /\ s = "write" /\ r.to # Root => Cardinality(r.path) + 1 + r.height <= MaxDepth

ReadsInv ==
    /\ request \in [Handlers -> ReadRow]
    /\ pc = [h \in Handlers |-> pc[h]]
    /\ \A h \in Handlers : ReadOK(request[h], pc[h])

LEMMA NoRow == NoRequest \in ReadRow /\ NoRequest.op = "none"
  <1>1. 0 \in Levels /\ {} \in SUBSET (Levels \X Folders)
    BY SizesGive DEF Levels
  <1>2. QED
    BY <1>1 DEF ReadRow, NoRequest, Ops, Places

LEMMA AsksRow ==
    ASSUME NEW op \in Ops, NEW place \in Places, NEW to \in Places
    PROVE  /\ Asks(op, place, to) \in ReadRow
           /\ Asks(op, place, to).op = op /\ Asks(op, place, to).at = place
           /\ Asks(op, place, to).to = to
  <1>1. NoRequest \in ReadRow
    BY NoRow
  <1>2. QED
    BY <1>1 DEF ReadRow, Asks

LEMMA ReadsMove ==
    ASSUME ReadsInv, NEW h \in Handlers, NEW r \in ReadRow, NEW s, ReadOK(r, s),
           request' = [request EXCEPT ![h] = r], pc' = [pc EXCEPT ![h] = s]
    PROVE  ReadsInv'
  <1>1. request' \in [Handlers -> ReadRow] /\ pc' = [g \in Handlers |-> pc'[g]]
    BY DEF ReadsInv
  <1>2. ASSUME NEW g \in Handlers PROVE ReadOK(request'[g], pc'[g])
    <2>1. CASE g = h
      <3>1. request'[g] = r /\ pc'[g] = s
        BY <2>1 DEF ReadsInv
      <3>2. QED
        BY <3>1
    <2>2. CASE g # h
      <3>1. request'[g] = request[g] /\ pc'[g] = pc[g]
        BY <2>2 DEF ReadsInv
      <3>2. QED
        BY <3>1 DEF ReadsInv
    <2>3. QED
      BY <2>1, <2>2
  <1>3. QED
    BY <1>1, <1>2 DEF ReadsInv

LEMMA ReadsReturn ==
    ASSUME ReadsInv, NEW h \in Handlers, Answer(h)
    PROVE  ReadsInv'
  <1>1. ReadOK(NoRequest, "idle")
    BY DEF ReadOK, NoRequest
  <1>2. QED
    BY <1>1, NoRow, ReadsMove DEF Answer, Note

\* A request that has not read the tree for what it will write
LEMMA ReadsStart ==
    ASSUME ReadsInv, NEW h \in Handlers,
           NEW op \in Ops \ {"none"}, NEW place \in Places, NEW to \in Places,
           NEW s \in {"path", "delete", "put", "ask", "claim", "link", "count", "verify"},
           s \in {"path", "delete"} => place \in Folders,
           Start(h, Asks(op, place, to), s)
    PROVE  ReadsInv'
  <1> DEFINE r == Asks(op, place, to)
  <1>1. r \in ReadRow /\ r.op = op /\ r.at = place
    BY AsksRow
  <1> HIDE DEF r
  <1>2. ReadOK(r, s)
    BY <1>1 DEF ReadOK
  <1>3. request' = [request EXCEPT ![h] = r] /\ pc' = [pc EXCEPT ![h] = s]
    BY DEF Start, r
  <1>4. QED
    BY <1>1, <1>2, <1>3, ReadsMove

\* The places that a link and a file request are at.
PlacesInv == fshare.in \in Places /\ asked.in \in Places

LEMMA PathIsTyped ==
    ASSUME NEW f
    PROVE  PathTo(f) \in SUBSET (Levels \X Folders)
  BY PathIsPath DEF Path, Levels

LEMMA HeightIsHighest ==
    ASSUME NEW f
    PROVE  /\ SubtreeHeight(f) \in Levels
           /\ \A n \in Levels, g \in Folders :
                 Exists(g) /\ Up(g)[n] = f => n <= SubtreeHeight(f)
  <1> DEFINE S == {n \in 0..WalkGuard : n = 0 \/ Below(f, n) # {}}
  <1>1. WalkGuard \in Nat /\ 0 \in S /\ S \in SUBSET (0..WalkGuard)
    BY SizesGive
  <1>2. Max(S) \in S /\ \A n \in S : n <= Max(S)
    BY <1>1, MaxIsMax
  <1>3. SubtreeHeight(f) = Max(S)
    BY DEF SubtreeHeight
  <1>4. ASSUME NEW n \in Levels, NEW g \in Folders, Exists(g), Up(g)[n] = f
        PROVE  n \in S
    BY <1>4 DEF Below, Levels
  <1>5. QED
    BY <1>1, <1>2, <1>3, <1>4 DEF Levels

LEMMA ReadsStep ==
    ASSUME ReadsInv, PlacesInv, [TreeNext]_treeVars
    PROVE  ReadsInv'
  <1>1. CASE UNCHANGED <<request, pc>>
    BY <1>1 DEF ReadsInv
  <1>2. ASSUME NEW h \in Handlers, NEW f \in Folders, NEW p \in Places, BeginCreateFolder(h, f, p)
        PROVE  ReadsInv'
    <2> DEFINE r == [Asks("create", f, p) EXCEPT !.path = PathTo(p)]
    <2>1. Asks("create", f, p) \in ReadRow /\ Asks("create", f, p).op = "create"
          /\ Asks("create", f, p).at = f
      BY AsksRow DEF Ops, Places
    <2>2. r \in ReadRow /\ r.op = "create" /\ r.at = f /\ r.path = PathTo(p)
      BY <2>1, PathIsTyped DEF ReadRow
    <2>3. /\ Cardinality(PathTo(p)) < MaxDepth
          /\ request' = [request EXCEPT ![h] = r] /\ pc' = [pc EXCEPT ![h] = "insert"]
      BY <1>2 DEF BeginCreateFolder, Start
    <2> HIDE DEF r
    <2>4. ReadOK(r, "insert")
      BY <2>2, <2>3 DEF ReadOK
    <2>5. QED
      BY <2>2, <2>3, <2>4, ReadsMove
  <1>3. ASSUME NEW h \in Handlers, NEW f \in Folders, NEW p \in Places, BeginMove(h, f, p)
        PROVE  ReadsInv'
    BY <1>3, ReadsStart DEF BeginMove, Ops, Places
  <1>4. ASSUME NEW h \in Handlers, NEW f \in Folders, BeginRemove(h, f) PROVE ReadsInv'
    BY <1>4, ReadsStart DEF BeginRemove, Ops, Places
  <1>5. ASSUME NEW h \in Handlers, NEW f \in Folders, BeginLink(h, f) PROVE ReadsInv'
    BY <1>5, ReadsStart DEF BeginLink, Ops, Places
  <1>6. ASSUME NEW h \in Handlers, NEW f \in Places, BeginAsk(h, f) PROVE ReadsInv'
    BY <1>6, ReadsStart DEF BeginAsk, Ops, Places
  <1>7. ASSUME NEW h \in Handlers, NEW f \in Places, NEW op \in {"put", "complete", "rehome"},
               BeginPut(h, op, f)
        PROVE  ReadsInv'
    BY <1>7, ReadsStart DEF BeginPut, Ops
  <1>8. ASSUME NEW h \in Handlers, BeginSend(h) PROVE ReadsInv'
    BY <1>8, ReadsStart DEF BeginSend, Ops, PlacesInv
  <1>9. ASSUME NEW h \in Handlers, BeginView(h) PROVE ReadsInv'
    BY <1>9, ReadsStart DEF BeginView, Ops, PlacesInv
  <1>10. ASSUME NEW h \in Handlers, BeginUnlock(h) PROVE ReadsInv'
    BY <1>10, ReadsStart DEF BeginUnlock, Ops, PlacesInv
  <1>11. ASSUME NEW h \in Handlers, ReadPath(h) PROVE ReadsInv'
    <2> DEFINE t == request[h]
               p == t.to
    <2>1. t \in ReadRow /\ pc[h] = "path" /\ t.op # "none" /\ t.at \in Folders
      BY <1>11 DEF ReadPath, ReadsInv, ReadOK
    <2>2. CASE p = Root /\ Note(h, t, "write")
      <3>1. ReadOK(t, "write")
        BY <2>1, <2>2 DEF ReadOK
      <3>2. QED
        BY <2>1, <2>2, <3>1, ReadsMove DEF Note
    <2>3. CASE /\ ~ \E n \in 0..WalkGuard : <<n, t.at>> \in PathTo(p)
               /\ Note(h, [t EXCEPT !.path = PathTo(p)], "height")
      <3> DEFINE r == [t EXCEPT !.path = PathTo(p)]
      <3>1. r \in ReadRow /\ r.op = t.op /\ r.at = t.at /\ r.path = PathTo(p)
        BY <2>1, PathIsTyped DEF ReadRow
      <3> HIDE DEF r
      <3>2. ReadOK(r, "height")
        BY <2>1, <2>3, <3>1 DEF ReadOK, Levels
      <3>3. QED
        BY <2>3, <3>1, <3>2, ReadsMove DEF Note, r
    <2>4. CASE Answer(h)
      BY <2>4, ReadsReturn
    <2>5. QED
      BY <1>11, <2>2, <2>3, <2>4 DEF ReadPath
  <1>12. ASSUME NEW h \in Handlers, ReadHeight(h) PROVE ReadsInv'
    <2> DEFINE t == request[h]
               x == SubtreeHeight(t.at)
    <2>1. t \in ReadRow /\ pc[h] = "height" /\ ReadOK(t, "height")
      BY <1>12 DEF ReadHeight, ReadsInv
    <2>2. CASE Fits(t.path, x) /\ Note(h, [t EXCEPT !.height = x], "write")
      <3> DEFINE r == [t EXCEPT !.height = x]
      <3>1. r \in ReadRow /\ r.op = t.op /\ r.at = t.at /\ r.to = t.to
            /\ r.path = t.path /\ r.height = x
        BY <2>1, HeightIsHighest DEF ReadRow
      <3> HIDE DEF r
      <3>2. Cardinality(t.path) + 1 + x <= MaxDepth
        BY <2>2 DEF Fits
      <3>3. ReadOK(r, "write")
        BY <2>1, <3>1, <3>2 DEF ReadOK
      <3>4. QED
        BY <2>2, <3>1, <3>3, ReadsMove DEF Note, r
    <2>3. CASE Answer(h)
      BY <2>3, ReadsReturn
    <2>4. QED
      BY <1>12, <2>2, <2>3 DEF ReadHeight
  <1>13. ASSUME NEW h \in Handlers, CountAccess(h) PROVE ReadsInv'
    <2>1. CASE Answer(h)
      BY <2>1, ReadsReturn
    <2>2. CASE Note(h, request[h], "tell")
      <3>1. pc[h] = "count" /\ request[h] \in ReadRow /\ ReadOK(request[h], "tell")
        BY <1>13 DEF CountAccess, ReadsInv, ReadOK
      <3>2. QED
        BY <2>2, <3>1, ReadsMove DEF Note
    <2>3. QED
      BY <1>13, <2>1, <2>2 DEF CountAccess
  <1>14. ASSUME NEW h \in Handlers, Answer(h) PROVE ReadsInv'
    BY <1>14, ReadsReturn
  <1>15. ASSUME NEW h \in Handlers,
                \/ InsertFolder(h) \/ WriteMove(h) \/ DeleteFolder(h)
                \/ \E d \in Docs : PutDocument(h, d) \/ ReceiveFile(h, d)
                \/ InsertAsk(h) \/ InsertFolderLink(h) \/ TellCreator(h)
                \/ VerifyUnlock(h) \/ Fails(h)
         PROVE  Answer(h)
    BY <1>15 DEF InsertFolder, WriteMove, DeleteFolder, PutDocument,
          ReceiveFile, InsertAsk, InsertFolderLink, TellCreator, VerifyUnlock,
          Fails
  <1>16. ASSUME \/ \E d \in Docs : ChangeDocument(d)
                \/ CloseAsk \/ LockoutPasses \/ RevokeLink \/ UNCHANGED treeVars
         PROVE  UNCHANGED <<request, pc>>
    BY <1>16 DEF ChangeDocument, CloseAsk, LockoutPasses, RevokeLink,
          treeVars, handling
  <1>17. ASSUME NEW h \in Handlers, Enter(h) PROVE ReadsInv'
    BY <1>17, <1>2, <1>3, <1>4, <1>5, <1>6, <1>7, <1>8, <1>9, <1>10 DEF Enter, Places
  <1>18. ASSUME NEW h \in Handlers, Proceed(h) PROVE ReadsInv'
    BY <1>18, <1>11, <1>12, <1>13, <1>14, <1>15 DEF Proceed
  <1>19. QED
    BY <1>1, <1>16, <1>17, <1>18 DEF TreeNext

-----------------------------------------------------------------------------
(***************************************************************************)
(* What points at a folder points at one that has a fshare                    *)
(***************************************************************************)

DocRow == [state : {"none", "live", "trash"}, in : Places, asked : BOOLEAN]

LinkRow == [state : {"none", "live", "revoked", "gone"}, in : Places,
            opens : Nat, told : Nat, failed : Nat]

AskedRow == [state : {"none", "open", "closed", "gone"}, in : Places, received : Nat]

FolderRowsInv ==
    /\ parent \in [Folders -> Folders \cup {Root, None}]
    /\ docs \in [Docs -> DocRow]
    /\ fshare \in LinkRow
    /\ asked \in AskedRow
    /\ raced \in BOOLEAN

LinkWrites(h) ==
    \/ InsertFolderLink(h) \/ CountAccess(h) \/ TellCreator(h) \/ VerifyUnlock(h)

LEMMA TreeKinds ==
    ASSUME [TreeNext]_treeVars
    PROVE  \/ UNCHANGED <<parent, raced, docs, fshare, asked>>
           \/ \E h \in Handlers :
                 \/ InsertFolder(h) \/ WriteMove(h) \/ DeleteFolder(h)
                 \/ \E d \in Docs : PutDocument(h, d) \/ ReceiveFile(h, d)
                 \/ InsertAsk(h) \/ LinkWrites(h)
           \/ \E d \in Docs : ChangeDocument(d)
           \/ CloseAsk \/ LockoutPasses \/ RevokeLink
  <1>1. ASSUME NEW h \in Handlers, Enter(h)
        PROVE  UNCHANGED <<parent, raced, docs, fshare, asked>>
    BY <1>1 DEF Enter, BeginCreateFolder, BeginMove, BeginRemove, BeginLink,
          BeginAsk, BeginPut, BeginSend, BeginView, BeginUnlock, rest
  <1>2. ASSUME NEW h \in Handlers, ReadPath(h) \/ ReadHeight(h) \/ Fails(h)
        PROVE  UNCHANGED <<parent, raced, docs, fshare, asked>>
    BY <1>2 DEF ReadPath, ReadHeight, Fails, rest
  <1>3. UNCHANGED treeVars => UNCHANGED <<parent, raced, docs, fshare, asked>>
    BY DEF treeVars
  <1>4. QED
    BY <1>1, <1>2, <1>3 DEF TreeNext, Proceed, LinkWrites

\* The new values of the rows a step writes
LEMMA DeleteRows ==
    ASSUME FolderRowsInv, NEW f \in Folders
    PROVE  /\ [d \in Docs |-> [docs[d] EXCEPT !.in = IF @ = f THEN Root ELSE @,
                                             !.asked = @ /\ asked.in # f]] \in [Docs -> DocRow]
           /\ (IF fshare.in = f THEN [fshare EXCEPT !.state = "gone"] ELSE fshare) \in LinkRow
           /\ (IF asked.in = f THEN [asked EXCEPT !.state = "gone"] ELSE asked) \in AskedRow
  <1>1. ASSUME NEW d \in Docs
        PROVE  [docs[d] EXCEPT !.in = IF @ = f THEN Root ELSE @,
                               !.asked = @ /\ asked.in # f] \in DocRow
    <2> DEFINE i == IF docs[d].in = f THEN Root ELSE docs[d].in
               a == docs[d].asked /\ asked.in # f
    <2>1. docs[d] \in DocRow /\ i \in Places
      BY DEF FolderRowsInv, DocRow, Places
    <2>2. a \in BOOLEAN
      OBVIOUS
    <2> HIDE DEF i, a
    <2>3. [docs[d] EXCEPT !.in = i, !.asked = a] \in DocRow
      BY <2>1, <2>2 DEF DocRow
    <2>4. QED
      BY <2>3, Zenon DEF i, a
  <1>2. QED
    BY <1>1 DEF FolderRowsInv, LinkRow, AskedRow

LEMMA FolderRowsStep ==
    ASSUME ReadsInv, FolderRowsInv, [TreeNext]_treeVars
    PROVE  FolderRowsInv'
  <1>1. CASE UNCHANGED <<parent, raced, docs, fshare, asked>>
    BY <1>1 DEF FolderRowsInv
  <1>2. ASSUME NEW h \in Handlers, InsertFolder(h) \/ WriteMove(h) PROVE FolderRowsInv'
    <2> DEFINE f == request[h].at
               t == request[h].to
    <2>1. f \in Folders /\ t \in Places
      BY <1>2 DEF InsertFolder, WriteMove, ReadsInv, ReadRow, ReadOK
    <2>2. parent' = parent \/ parent' = [parent EXCEPT ![f] = t]
      BY <1>2 DEF InsertFolder, WriteMove
    <2>3. UNCHANGED <<docs, fshare, asked>>
      BY <1>2 DEF InsertFolder, WriteMove, rest
    <2>4. raced' \in BOOLEAN
      BY <1>2 DEF InsertFolder, WriteMove, FolderRowsInv
    <2>5. QED
      BY <2>1, <2>2, <2>3, <2>4 DEF FolderRowsInv, Places
  <1>3. ASSUME NEW h \in Handlers, DeleteFolder(h) PROVE FolderRowsInv'
    <2> DEFINE f == request[h].at
    <2>1. f \in Folders
      BY <1>3 DEF DeleteFolder, ReadsInv, ReadOK
    <2>2. CASE UNCHANGED <<parent, docs, fshare, asked>>
      BY <1>3, <2>2 DEF DeleteFolder, FolderRowsInv
    <2>3. CASE ~ UNCHANGED <<parent, docs, fshare, asked>>
      <3>1. /\ parent' = [parent EXCEPT ![f] = None]
            /\ docs' = [d \in Docs |-> [docs[d] EXCEPT !.in = IF @ = f THEN Root ELSE @,
                                                      !.asked = @ /\ asked.in # f]]
            /\ fshare' = IF fshare.in = f THEN [fshare EXCEPT !.state = "gone"] ELSE fshare
            /\ asked' = IF asked.in = f THEN [asked EXCEPT !.state = "gone"] ELSE asked
            /\ raced' = raced
        BY <1>3, <2>3, Zenon DEF DeleteFolder, rest
      <3>2. docs' \in [Docs -> DocRow] /\ fshare' \in LinkRow /\ asked' \in AskedRow
        BY <2>1, <3>1, DeleteRows, Zenon
      <3>3. parent' \in [Folders -> Folders \cup {Root, None}] /\ raced' \in BOOLEAN
        BY <2>1, <3>1 DEF FolderRowsInv
      <3>4. QED
        BY <3>2, <3>3 DEF FolderRowsInv
    <2>4. QED
      BY <2>2, <2>3
  <1>4. ASSUME NEW h \in Handlers, NEW d \in Docs, PutDocument(h, d) PROVE FolderRowsInv'
    <2> DEFINE f == request[h].at
               t == IF request[h].op = "complete" /\ ~ Place(f) THEN Root ELSE f
               new == [docs[d] EXCEPT !.state = "live", !.in = t]
    <2>1. t \in Places
      BY DEF ReadsInv, ReadRow, Places
    <2>2. docs' = docs \/ docs' = [docs EXCEPT ![d] = new]
      BY <1>4 DEF PutDocument
    <2>3. UNCHANGED <<parent, raced, fshare, asked>>
      BY <1>4 DEF PutDocument
    <2> HIDE DEF t
    <2>4. new \in DocRow
      BY <2>1 DEF FolderRowsInv, DocRow
    <2>5. QED
      BY <2>2, <2>3, <2>4 DEF FolderRowsInv
  <1>5. ASSUME NEW h \in Handlers, NEW d \in Docs, ReceiveFile(h, d) PROVE FolderRowsInv'
    <2> DEFINE new == [state |-> "live", in |-> request[h].at, asked |-> TRUE]
    <2>1. new \in DocRow
      BY DEF DocRow, ReadsInv, ReadRow
    <2>2. docs' = docs \/ docs' = [docs EXCEPT ![d] = new]
      BY <1>5 DEF ReceiveFile
    <2>3. UNCHANGED <<parent, raced, fshare>>
      BY <1>5 DEF ReceiveFile
    <2>4. asked' = asked \/ asked' = [asked EXCEPT !.received = asked.received + 1]
      BY <1>5 DEF ReceiveFile
    <2>5. asked' \in AskedRow
      BY <2>4 DEF FolderRowsInv, AskedRow
    <2> HIDE DEF new
    <2>6. QED
      BY <2>1, <2>2, <2>3, <2>5 DEF FolderRowsInv
  <1>6. ASSUME NEW h \in Handlers, InsertAsk(h) PROVE FolderRowsInv'
    BY <1>6 DEF InsertAsk, FolderRowsInv, AskedRow, ReadsInv, ReadRow, Places
  <1>7. ASSUME NEW h \in Handlers, LinkWrites(h) PROVE FolderRowsInv'
    <2>1. fshare \in LinkRow /\ request[h].at \in Places
      BY DEF FolderRowsInv, ReadsInv, ReadRow
    <2>2. \/ fshare' = fshare
          \/ fshare' = [NoLink EXCEPT !.state = "live", !.in = request[h].at]
          \/ fshare' = [fshare EXCEPT !.opens = fshare.opens + 1]
          \/ fshare' = [fshare EXCEPT !.told = fshare.told + 1]
          \/ fshare' = [fshare EXCEPT !.failed = fshare.failed + 1]
      BY <1>7 DEF LinkWrites, InsertFolderLink, CountAccess, TellCreator, VerifyUnlock
    <2>3. fshare' \in LinkRow
      <3>1. NoLink \in LinkRow
        BY DEF LinkRow, NoLink, Places
      <3>2. [NoLink EXCEPT !.state = "live", !.in = request[h].at] \in LinkRow
        BY <2>1, <3>1 DEF LinkRow
      <3>3. /\ [fshare EXCEPT !.opens = fshare.opens + 1] \in LinkRow
            /\ [fshare EXCEPT !.told = fshare.told + 1] \in LinkRow
            /\ [fshare EXCEPT !.failed = fshare.failed + 1] \in LinkRow
        BY <2>1 DEF LinkRow
      <3>4. QED
        BY <2>1, <2>2, <3>2, <3>3
    <2>4. UNCHANGED <<parent, docs, asked, raced>>
      BY <1>7 DEF LinkWrites, InsertFolderLink, CountAccess, TellCreator, VerifyUnlock
    <2>5. QED
      BY <2>3, <2>4 DEF FolderRowsInv
  <1>8. ASSUME NEW d \in Docs, ChangeDocument(d) PROVE FolderRowsInv'
    <2>1. NoDoc \in DocRow
      BY DEF NoDoc, DocRow, Places
    <2>2. QED
      BY <1>8, <2>1 DEF ChangeDocument, FolderRowsInv, DocRow
  <1>9. CASE CloseAsk \/ LockoutPasses \/ RevokeLink
    BY <1>9 DEF CloseAsk, LockoutPasses, RevokeLink, FolderRowsInv, AskedRow, LinkRow
  <1>10. QED
    BY <1>1, <1>2, <1>3, <1>4, <1>5, <1>6, <1>7, <1>8, <1>9, TreeKinds

PlacedInv ==
    /\ Forest(parent)
    /\ \A d \in Docs : Placed(parent, docs[d].in)
    /\ fshare.state \in {"live", "revoked"} => fshare.in \in Folders /\ parent[fshare.in] # None
    /\ asked.state # "gone" => Placed(parent, asked.in)

\* A folder is made, or put elsewhere.
LEMMA PutKeepsPlaces ==
    ASSUME FolderRowsInv, PlacedInv, NEW f \in Folders, NEW t, Placed(parent, t),
           parent' = [parent EXCEPT ![f] = t], UNCHANGED <<docs, fshare, asked>>
    PROVE  PlacedInv'
  <1>1. t # None /\ parent'[f] = t /\ \A g \in Folders : g # f => parent'[g] = parent[g]
    BY SizesGive DEF FolderRowsInv, Placed, Bounds
  <1>2. \A g : Placed(parent, g) => Placed(parent', g)
    BY <1>1 DEF Placed
  <1>3. Forest(parent')
    BY <1>1, <1>2 DEF Forest, PlacedInv
  <1>4. fshare.in \in Folders /\ parent[fshare.in] # None => parent'[fshare.in] # None
    BY <1>1
  <1>5. QED
    BY <1>2, <1>3, <1>4 DEF PlacedInv

LEMMA PlacedStep ==
    ASSUME ReadsInv, FolderRowsInv, PlacedInv, [TreeNext]_treeVars
    PROVE  PlacedInv'
  <1>1. CASE UNCHANGED <<parent, raced, docs, fshare, asked>>
    BY <1>1 DEF PlacedInv
  <1>2. ASSUME NEW h \in Handlers, InsertFolder(h) \/ WriteMove(h) PROVE PlacedInv'
    <2> DEFINE f == request[h].at
               t == request[h].to
    <2>1. f \in Folders
      BY <1>2 DEF InsertFolder, WriteMove, ReadsInv, ReadOK
    <2>2. parent' = parent \/ (parent' = [parent EXCEPT ![f] = t] /\ Placed(parent, t))
      BY <1>2 DEF InsertFolder, WriteMove, Place, Exists, Placed
    <2>3. UNCHANGED <<docs, fshare, asked>>
      BY <1>2 DEF InsertFolder, WriteMove, rest
    <2>4. CASE parent' = parent
      BY <2>3, <2>4 DEF PlacedInv
    <2>5. QED
      BY <2>1, <2>2, <2>3, <2>4, PutKeepsPlaces
  <1>3. ASSUME NEW h \in Handlers, DeleteFolder(h) PROVE PlacedInv'
    <2> DEFINE f == request[h].at
    <2>1. f \in Folders
      BY <1>3 DEF DeleteFolder, ReadsInv, ReadOK
    <2>2. CASE UNCHANGED <<parent, docs, fshare, asked>>
      BY <2>2 DEF PlacedInv
    <2>3. CASE ~ UNCHANGED <<parent, docs, fshare, asked>>
      <3>1. /\ parent' = [parent EXCEPT ![f] = None]
            /\ docs' = [d \in Docs |-> [docs[d] EXCEPT !.in = IF @ = f THEN Root ELSE @,
                                                      !.asked = @ /\ asked.in # f]]
            /\ fshare' = IF fshare.in = f THEN [fshare EXCEPT !.state = "gone"] ELSE fshare
            /\ asked' = IF asked.in = f THEN [asked EXCEPT !.state = "gone"] ELSE asked
            /\ \A g \in Folders : parent[g] # f
        BY <1>3, <2>3, Zenon DEF DeleteFolder, rest, Children
      <3>2. \A g \in Folders : g # f => parent'[g] = parent[g] /\ parent[g] # f
        BY <3>1 DEF FolderRowsInv
      <3>3. parent'[f] = None
        BY <2>1, <3>1 DEF FolderRowsInv
      <3>4. \A g : Placed(parent, g) /\ g # f => Placed(parent', g)
        BY <3>2 DEF Placed
      <3>5. Forest(parent')
        BY <3>2, <3>3, <3>4 DEF Forest, PlacedInv
      <3>6. ASSUME NEW d \in Docs PROVE Placed(parent', docs'[d].in)
        <4>1. docs'[d].in = IF docs[d].in = f THEN Root ELSE docs[d].in
          BY <3>1 DEF FolderRowsInv, DocRow
        <4>2. QED
          BY <4>1, <3>4 DEF PlacedInv, Placed
      <3>7. fshare'.state \in {"live", "revoked"} => fshare'.in \in Folders /\ parent'[fshare'.in] # None
        <4>1. CASE fshare.in = f
          BY <3>1, <4>1 DEF FolderRowsInv, LinkRow
        <4>2. CASE fshare.in # f
          BY <3>1, <3>2, <4>2 DEF PlacedInv
        <4>3. QED
          BY <4>1, <4>2
      <3>8. asked'.state # "gone" => Placed(parent', asked'.in)
        <4>1. CASE asked.in = f
          BY <3>1, <4>1 DEF FolderRowsInv, AskedRow
        <4>2. CASE asked.in # f
          BY <3>1, <3>4, <4>2 DEF PlacedInv
        <4>3. QED
          BY <4>1, <4>2
      <3>9. QED
        BY <3>5, <3>6, <3>7, <3>8 DEF PlacedInv
    <2>4. QED
      BY <2>2, <2>3
  <1>4. ASSUME NEW h \in Handlers, NEW d \in Docs, PutDocument(h, d) PROVE PlacedInv'
    <2> DEFINE f == request[h].at
               t == IF request[h].op = "complete" /\ ~ Place(f) THEN Root ELSE f
               new == [docs[d] EXCEPT !.state = "live", !.in = t]
    <2>1. docs' = docs \/ (docs' = [docs EXCEPT ![d] = new] /\ Placed(parent, t))
      BY <1>4 DEF PutDocument, Place, Exists, Placed
    <2>2. UNCHANGED <<parent, fshare, asked>>
      BY <1>4 DEF PutDocument
    <2> HIDE DEF t
    <2>3. new.in = t
      BY DEF FolderRowsInv, DocRow
    <2> HIDE DEF new
    <2>4. \A e \in Docs : Placed(parent, docs'[e].in)
      BY <2>1, <2>3 DEF PlacedInv, FolderRowsInv
    <2>5. QED
      BY <2>2, <2>4 DEF PlacedInv
  <1>5. ASSUME NEW h \in Handlers, NEW d \in Docs, ReceiveFile(h, d) PROVE PlacedInv'
    <2> DEFINE new == [state |-> "live", in |-> request[h].at, asked |-> TRUE]
    <2>1. docs' = docs \/ (docs' = [docs EXCEPT ![d] = new] /\ Placed(parent, new.in))
      BY <1>5 DEF ReceiveFile, Place, Exists, Placed
    <2>2. UNCHANGED <<parent, fshare>>
      BY <1>5 DEF ReceiveFile
    <2>3. asked'.state = asked.state /\ asked'.in = asked.in
      BY <1>5 DEF ReceiveFile, FolderRowsInv, AskedRow
    <2> HIDE DEF new
    <2>4. \A e \in Docs : Placed(parent, docs'[e].in)
      BY <2>1 DEF PlacedInv, FolderRowsInv
    <2>5. QED
      BY <2>2, <2>3, <2>4 DEF PlacedInv
  <1>6. ASSUME NEW h \in Handlers, InsertAsk(h) PROVE PlacedInv'
    <2>1. /\ asked' = asked \/ (asked'.in = request[h].at /\ Placed(parent, request[h].at))
          /\ UNCHANGED <<parent, docs, fshare>>
      BY <1>6 DEF InsertAsk, Place, Exists, Placed
    <2>2. QED
      BY <2>1 DEF PlacedInv
  <1>7. ASSUME NEW h \in Handlers, LinkWrites(h) PROVE PlacedInv'
    <2>1. \/ fshare'.state = fshare.state /\ fshare'.in = fshare.in
          \/ fshare'.in \in Folders /\ parent[fshare'.in] # None
      <3>1. CASE InsertFolderLink(h)
        BY <3>1 DEF InsertFolderLink, NoLink, Exists
      <3>2. CASE CountAccess(h) \/ TellCreator(h) \/ VerifyUnlock(h)
        <4>1. \/ fshare' = fshare
              \/ fshare' = [fshare EXCEPT !.opens = fshare.opens + 1]
              \/ fshare' = [fshare EXCEPT !.told = fshare.told + 1]
              \/ fshare' = [fshare EXCEPT !.failed = fshare.failed + 1]
          BY <3>2 DEF CountAccess, TellCreator, VerifyUnlock
        <4>2. QED
          BY <4>1 DEF FolderRowsInv, LinkRow
      <3>3. QED
        BY <1>7, <3>1, <3>2 DEF LinkWrites
    <2>2. UNCHANGED <<parent, docs, asked>>
      BY <1>7 DEF LinkWrites, InsertFolderLink, CountAccess, TellCreator, VerifyUnlock
    <2>3. QED
      BY <2>1, <2>2 DEF PlacedInv
  <1>8. ASSUME NEW d \in Docs, ChangeDocument(d) PROVE PlacedInv'
    <2>1. \A e \in Docs : docs'[e].in = docs[e].in \/ docs'[e].in = Root
      BY <1>8 DEF ChangeDocument, NoDoc, FolderRowsInv, DocRow
    <2>2. UNCHANGED <<parent, fshare, asked>>
      BY <1>8 DEF ChangeDocument
    <2>3. QED
      BY <2>1, <2>2 DEF PlacedInv, Placed
  <1>9. CASE CloseAsk \/ LockoutPasses \/ RevokeLink
    <2>1. (asked' = [asked EXCEPT !.state = "closed"] /\ asked.state = "open") \/ asked' = asked
      BY <1>9 DEF CloseAsk, LockoutPasses, RevokeLink
    <2>2. \/ fshare' = fshare
          \/ fshare' = [fshare EXCEPT !.failed = 0]
          \/ fshare' = [fshare EXCEPT !.state = "revoked"] /\ fshare.state = "live"
      BY <1>9 DEF CloseAsk, LockoutPasses, RevokeLink
    <2>3. UNCHANGED <<parent, docs>>
      BY <1>9 DEF CloseAsk, LockoutPasses, RevokeLink
    <2>4. asked'.in = asked.in /\ (asked'.state # "gone" => asked.state # "gone")
      BY <2>1 DEF FolderRowsInv, AskedRow
    <2>5. /\ fshare'.in = fshare.in
          /\ fshare'.state \in {"live", "revoked"} => fshare.state \in {"live", "revoked"}
      BY <2>2 DEF FolderRowsInv, LinkRow
    <2>6. QED
      BY <2>3, <2>4, <2>5 DEF PlacedInv
  <1>10. QED
    BY <1>1, <1>2, <1>3, <1>4, <1>5, <1>6, <1>7, <1>8, <1>9, TreeKinds

-----------------------------------------------------------------------------
(***************************************************************************)
(* Every folder can be reached from the top                                *)
(***************************************************************************)

ReachInv == raced \/ AllReach(parent)

\* The distance of a place to the top is no more than what pathTo counts.
LEMMA PathReaches ==
    ASSUME FolderRowsInv, PlacedInv, AllReach(parent), NEW t, Placed(parent, t)
    PROVE  /\ Cardinality(PathTo(t)) \in Nat
           /\ \E k \in 0..WalkGuard : /\ Climb(parent, t)[k] = Root
                                      /\ k <= Cardinality(PathTo(t))
  <1>1. Bounds /\ Forest(parent)
    BY SizesGive DEF PlacedInv
  <1>2. \E n \in 0..WalkGuard : Climb(parent, t)[n] = Root
    <2>1. CASE t = Root
      BY <2>1, <1>1, ClimbSteps DEF Bounds
    <2>2. CASE t # Root
      BY <2>2, <1>1 DEF AllReach, Reach, Placed, Bounds
    <2>3. QED
      BY <2>1, <2>2
  <1>3. QED
    BY <1>1, <1>2, PathCounts, PathIsPath

LEMMA InsertReaches ==
    ASSUME ReadsInv, FolderRowsInv, PlacedInv, AllReach(parent),
           NEW h \in Handlers, InsertFolder(h), ~ raced'
    PROVE  AllReach(parent')
  <1> DEFINE f == request[h].at
             t == request[h].to
  <1>1. CASE parent' = parent
    BY <1>1
  <1>2. CASE parent' # parent
    <2>1. /\ f \in Folders /\ Cardinality(request[h].path) < MaxDepth /\ Bounds
          /\ parent' = [parent EXCEPT ![f] = t]
          /\ Placed(parent, t) /\ parent[f] = None
          /\ PathTo(t) = request[h].path
      BY <1>2, SizesGive DEF InsertFolder, Place, Exists, Placed, ReadsInv, ReadOK
    <2>2. PICK k \in 0..WalkGuard : /\ Climb(parent, t)[k] = Root
                                    /\ k <= Cardinality(PathTo(t))
      BY <2>1, PathReaches
    <2>3. k + 1 <= MaxDepth
      BY <2>1, <2>2, PathReaches DEF Bounds
    <2>4. \A g, n : Placed(parent, g) /\ n \in 0..WalkGuard => Climb(parent, g)[n] # f
      BY <2>1, StaysPlaced DEF Placed, Bounds, PlacedInv
    <2>5. parent'[f] = t /\ Elsewhere(parent, parent', f)
      BY <2>1 DEF FolderRowsInv, Elsewhere
    <2>6. Room(parent, f, k)
      BY <2>4 DEF Placed, Room
    <2>7. Apart(parent, t, f)
      BY <2>1, <2>4 DEF Apart
    <2>8. QED
      BY <2>1, <2>2, <2>3, <2>5, <2>6, <2>7, Hang
  <1>3. QED
    BY <1>1, <1>2

LEMMA MoveReaches ==
    ASSUME ReadsInv, FolderRowsInv, PlacedInv, AllReach(parent),
           NEW h \in Handlers, WriteMove(h), ~ raced'
    PROVE  AllReach(parent')
  <1> DEFINE f == request[h].at
             t == request[h].to
  <1>1. CASE parent' = parent
    BY <1>1
  <1>2. CASE parent' # parent
    <2>1. /\ f \in Folders /\ Bounds
          /\ parent' = [parent EXCEPT ![f] = t]
          /\ Placed(parent, t) /\ Placed(parent, f) /\ parent[f] # None
          /\ Fresh(h) /\ ReadOK(request[h], "write")
      BY <1>2, SizesGive DEF WriteMove, Place, Exists, Placed, ReadsInv, ReadOK
    <2>2. /\ WalkGuard \in Nat /\ MaxDepth \in Nat /\ MaxDepth < WalkGuard
          /\ f # Root /\ Forest(parent)
      BY <2>1 DEF Bounds, PlacedInv
    <2>3. parent'[f] = t /\ Elsewhere(parent, parent', f)
      BY <2>1 DEF FolderRowsInv, Elsewhere
    <2>4. Apart(parent, t, f)
      <3>1. CASE t = Root
        <4>1. Climb(parent, t)[0] = Root
          BY <3>1, <2>2, ClimbSteps
        <4>2. \A n \in 0..WalkGuard : Climb(parent, t)[n] = Root
          BY <4>1, <2>1, <2>2, StaysRoot
        <4>3. QED
          BY <4>2, <2>2 DEF Apart
      <3>2. CASE t # Root
        <4>1. \A n \in 0..WalkGuard : <<n, f>> \notin Path(parent, t)
          BY <3>2, <2>1, PathIsPath DEF ReadOK, Fresh, Levels
        <4>2. QED
          BY <4>1, <2>1 DEF Path, Apart
      <3>3. QED
        BY <3>1, <3>2
    <2>5. \E k \in 0..WalkGuard : Climb(parent, t)[k] = Root /\ Room(parent, f, k)
      <3>1. CASE t = Root
        <4>1. Climb(parent, t)[0] = Root /\ 0 \in 0..WalkGuard
          BY <3>1, <2>2, ClimbSteps
        <4>2. ASSUME NEW g \in Folders, parent[g] # None, NEW n \in 0..WalkGuard,
                     Climb(parent, g)[n] = f
              PROVE  n + 1 + 0 <= MaxDepth
          <5>1. PICK m \in 0..MaxDepth : Climb(parent, g)[m] = Root
            BY <4>2 DEF AllReach, Reach
          <5>2. ~ (m <= n)
            BY <4>2, <5>1, <2>1, <2>2, StaysRoot
          <5>3. QED
            BY <5>1, <5>2, <2>2
        <4>3. QED
          BY <4>1, <4>2 DEF Room
      <3>2. CASE t # Root
        <4>1. PICK k \in 0..WalkGuard : /\ Climb(parent, t)[k] = Root
                                        /\ k <= Cardinality(PathTo(t))
          BY <2>1, PathReaches
        <4>2. /\ Cardinality(PathTo(t)) \in Nat
              /\ Cardinality(PathTo(t)) + 1 + SubtreeHeight(f) <= MaxDepth
          BY <3>2, <2>1, PathReaches DEF ReadOK, Fresh
        <4>3. ASSUME NEW g \in Folders, parent[g] # None, NEW n \in 0..WalkGuard,
                     Climb(parent, g)[n] = f
              PROVE  n + 1 + k <= MaxDepth
          <5>1. Exists(g) /\ Up(g)[n] = f /\ n \in Levels
            BY <4>3, UpIsClimb DEF Exists, Levels
          <5>2. n <= SubtreeHeight(f) /\ SubtreeHeight(f) \in 0..WalkGuard
            BY <5>1, HeightIsHighest DEF Levels
          <5>3. QED
            BY <4>1, <4>2, <5>2, <2>2
        <4>4. QED
          BY <4>1, <4>3 DEF Room
      <3>3. QED
        BY <3>1, <3>2
    <2>6. PICK k \in 0..WalkGuard : Climb(parent, t)[k] = Root /\ Room(parent, f, k)
      BY <2>5
    <2>7. Climb(parent, f)[0] = f /\ 0 \in 0..WalkGuard
      BY <2>2, ClimbSteps
    <2>8. k + 1 <= MaxDepth
      BY <2>1, <2>2, <2>6, <2>7 DEF Room
    <2>9. QED
      BY <2>1, <2>3, <2>4, <2>6, <2>8, Hang
  <1>3. QED
    BY <1>1, <1>2

LEMMA ReachStep ==
    ASSUME ReadsInv, FolderRowsInv, PlacedInv, ReachInv, [TreeNext]_treeVars
    PROVE  ReachInv'
  <1> SUFFICES ASSUME ~ raced' PROVE AllReach(parent')
    BY DEF ReachInv
  <1>1. raced => raced'
    BY TreeKinds DEF InsertFolder, WriteMove, DeleteFolder, PutDocument,
       ReceiveFile, InsertAsk, LinkWrites, InsertFolderLink, CountAccess,
       TellCreator, VerifyUnlock, ChangeDocument, CloseAsk,
       LockoutPasses, RevokeLink
  <1>2. AllReach(parent)
    BY <1>1 DEF ReachInv
  <1>3. CASE parent' = parent
    BY <1>2, <1>3
  <1>4. ASSUME NEW h \in Handlers, DeleteFolder(h), parent' # parent PROVE AllReach(parent')
    <2> DEFINE f == request[h].at
    <2>1. f \in Folders /\ Bounds
      BY <1>4, SizesGive DEF DeleteFolder, ReadsInv, ReadOK
    <2>2. parent' = [parent EXCEPT ![f] = None] /\ \A g \in Folders : parent[g] # f
      BY <1>4 DEF DeleteFolder, Children
    <2>3. /\ parent'[f] = None /\ parent[f] # f
          /\ \A e \in Folders : e # f => parent'[e] = parent[e] /\ parent[e] # f
      BY <2>1, <2>2 DEF FolderRowsInv
    <2>4. QED
      BY <1>2, <2>1, <2>3, Detach
  <1>5. QED
    BY <1>2, <1>3, <1>4, TreeKinds, InsertReaches, MoveReaches DEF PutDocument,
       ReceiveFile, InsertAsk, LinkWrites, InsertFolderLink, CountAccess,
       TellCreator, VerifyUnlock, ChangeDocument, CloseAsk,
       LockoutPasses, RevokeLink

-----------------------------------------------------------------------------
(***************************************************************************)
(* The counters of a file request and of a folder link                     *)
(***************************************************************************)

AskedDocs == {d \in Docs : docs[d].asked}

AskInv ==
    /\ asked.state = "none" => asked.received = 0
    /\ asked.received <= MaxFiles
    /\ IsFiniteSet(AskedDocs) /\ Cardinality(AskedDocs) <= asked.received

\* Only a file that is received adds to what the request has taken.
LEMMA OnlyReceived ==
    ASSUME ReadsInv, FolderRowsInv, [TreeNext]_treeVars
    PROVE  \/ /\ AskedDocs' \subseteq AskedDocs
              /\ (asked'.received = asked.received \/ (asked.state = "none" /\ asked'.received = 0))
              /\ asked'.state = "none" => asked.state = "none"
           \/ /\ asked.state = "open" /\ asked.received < MaxFiles
              /\ asked'.received = asked.received + 1 /\ asked'.state = "open"
              /\ \E d \in Docs : AskedDocs' \subseteq AskedDocs \cup {d}
  <1> DEFINE Quiet == /\ AskedDocs' \subseteq AskedDocs
                      /\ (\/ asked'.received = asked.received
                          \/ asked.state = "none" /\ asked'.received = 0)
                      /\ asked'.state = "none" => asked.state = "none"
  <1>1. CASE UNCHANGED <<docs, asked>>
    BY <1>1 DEF AskedDocs
  <1>2. ASSUME NEW h \in Handlers, DeleteFolder(h), ~ UNCHANGED <<docs, asked>> PROVE Quiet
    <2> DEFINE f == request[h].at
    <2>1. /\ docs' = [d \in Docs |-> [docs[d] EXCEPT !.in = IF @ = f THEN Root ELSE @,
                                                    !.asked = @ /\ asked.in # f]]
          /\ asked' = IF asked.in = f THEN [asked EXCEPT !.state = "gone"] ELSE asked
      BY <1>2, Zenon DEF DeleteFolder, rest
    <2>2. ASSUME NEW d \in Docs, docs'[d].asked PROVE docs[d].asked
      <3>1. docs'[d] = [docs[d] EXCEPT !.in = IF @ = f THEN Root ELSE @,
                                         !.asked = @ /\ asked.in # f]
        BY <2>1
      <3>2. docs'[d].asked = (docs[d].asked /\ asked.in # f)
        BY <3>1 DEF FolderRowsInv, DocRow
      <3>3. QED
        BY <3>2, <2>2, Zenon
    <2>3. asked'.received = asked.received /\ (asked'.state = "none" => asked.state = "none")
      BY <2>1 DEF FolderRowsInv, AskedRow
    <2>4. AskedDocs' \subseteq AskedDocs
      BY <2>2 DEF AskedDocs
    <2>5. QED
      BY <2>3, <2>4
  <1>3. ASSUME NEW h \in Handlers, NEW d \in Docs, PutDocument(h, d) PROVE Quiet
    <2>1. PICK t : \/ docs' = docs
                   \/ docs' = [docs EXCEPT ![d] = [docs[d] EXCEPT !.state = "live", !.in = t]]
      BY <1>3 DEF PutDocument
    <2> DEFINE new == [docs[d] EXCEPT !.state = "live", !.in = t]
    <2>2. new.asked = docs[d].asked
      BY DEF FolderRowsInv, DocRow
    <2> HIDE DEF new
    <2>3. \A e \in Docs : docs'[e].asked = docs[e].asked
      BY <2>1, <2>2 DEF FolderRowsInv, new
    <2>4. asked' = asked
      BY <1>3 DEF PutDocument
    <2>5. QED
      BY <2>3, <2>4 DEF AskedDocs
  <1>4. ASSUME NEW h \in Handlers, NEW d \in Docs, ReceiveFile(h, d), ~ UNCHANGED <<docs, asked>>
        PROVE  /\ asked.state = "open" /\ asked.received < MaxFiles
               /\ asked'.received = asked.received + 1 /\ asked'.state = "open"
               /\ AskedDocs' \subseteq AskedDocs \cup {d}
    <2> DEFINE new == [state |-> "live", in |-> request[h].at, asked |-> TRUE]
    <2>1. /\ asked.state = "open" /\ asked.received < MaxFiles
          /\ asked' = [asked EXCEPT !.received = asked.received + 1]
          /\ docs' = [docs EXCEPT ![d] = new]
      BY <1>4 DEF ReceiveFile, ClaimSlot
    <2> HIDE DEF new
    <2>2. asked'.received = asked.received + 1 /\ asked'.state = "open"
      BY <2>1 DEF FolderRowsInv, AskedRow
    <2>3. \A e \in Docs : e # d => docs'[e] = docs[e]
      BY <2>1 DEF FolderRowsInv
    <2>4. AskedDocs' \subseteq AskedDocs \cup {d}
      BY <2>3 DEF AskedDocs
    <2>5. QED
      BY <2>1, <2>2, <2>4
  <1>5. ASSUME NEW h \in Handlers, InsertAsk(h) PROVE Quiet
    BY <1>5 DEF InsertAsk, AskedDocs
  <1>6. ASSUME NEW d \in Docs, ChangeDocument(d) PROVE Quiet
    <2>1. \A e \in Docs : docs'[e].asked = docs[e].asked \/ docs'[e].asked = FALSE
      BY <1>6 DEF ChangeDocument, NoDoc, FolderRowsInv, DocRow
    <2>2. asked' = asked
      BY <1>6 DEF ChangeDocument
    <2>3. QED
      BY <2>1, <2>2 DEF AskedDocs
  <1>7. CASE CloseAsk
    <2>1. asked' = [asked EXCEPT !.state = "closed"] /\ docs' = docs
      BY <1>7 DEF CloseAsk
    <2>2. QED
      BY <2>1 DEF FolderRowsInv, AskedRow, AskedDocs
  <1>8. ASSUME NEW h \in Handlers, InsertFolder(h) \/ WriteMove(h) \/ LinkWrites(h)
        PROVE  UNCHANGED <<docs, asked>>
    BY <1>8 DEF InsertFolder, WriteMove, rest, LinkWrites, InsertFolderLink,
          CountAccess, TellCreator, VerifyUnlock
  <1>9. LockoutPasses \/ RevokeLink => UNCHANGED <<docs, asked>>
    BY DEF LockoutPasses, RevokeLink
  <1>10. QED
    BY <1>1, <1>2, <1>3, <1>4, <1>5, <1>6, <1>7, <1>8, <1>9, TreeKinds

LEMMA AskStep ==
    ASSUME ReadsInv, FolderRowsInv, AskInv, [TreeNext]_treeVars
    PROVE  AskInv'
  <1>1. MaxFiles \in Nat /\ asked.received \in Nat /\ Cardinality(AskedDocs) \in Nat
        /\ IsFiniteSet(AskedDocs)
    BY SizesGive, FS_CardinalityType DEF FolderRowsInv, AskedRow, AskInv
  <1>2. CASE /\ AskedDocs' \subseteq AskedDocs
             /\ (asked'.received = asked.received \/ (asked.state = "none" /\ asked'.received = 0))
             /\ asked'.state = "none" => asked.state = "none"
    <2>1. IsFiniteSet(AskedDocs') /\ Cardinality(AskedDocs') <= Cardinality(AskedDocs)
          /\ Cardinality(AskedDocs') \in Nat
      BY <1>1, <1>2, FS_Subset, FS_CardinalityType
    <2>2. asked'.received = asked.received
      BY <1>2 DEF AskInv
    <2>3. QED
      BY <1>1, <1>2, <2>1, <2>2 DEF AskInv
  <1>3. CASE /\ asked.state = "open" /\ asked.received < MaxFiles
             /\ asked'.received = asked.received + 1 /\ asked'.state = "open"
             /\ \E d \in Docs : AskedDocs' \subseteq AskedDocs \cup {d}
    <2>1. PICK d \in Docs : AskedDocs' \subseteq AskedDocs \cup {d}
      BY <1>3
    <2>2. /\ IsFiniteSet(AskedDocs \cup {d})
          /\ Cardinality(AskedDocs \cup {d}) <= Cardinality(AskedDocs) + 1
          /\ Cardinality(AskedDocs \cup {d}) \in Nat
      <3>1. /\ IsFiniteSet(AskedDocs \cup {d})
            /\ Cardinality(AskedDocs \cup {d}) =
                  IF d \in AskedDocs THEN Cardinality(AskedDocs) ELSE Cardinality(AskedDocs) + 1
        BY <1>1, FS_AddElement
      <3>2. QED
        BY <1>1, <3>1
    <2>3. IsFiniteSet(AskedDocs') /\ Cardinality(AskedDocs') <= Cardinality(AskedDocs \cup {d})
          /\ Cardinality(AskedDocs') \in Nat
      BY <2>1, <2>2, FS_Subset, FS_CardinalityType
    <2>4. QED
      BY <1>1, <1>3, <2>2, <2>3 DEF AskInv
  <1>4. QED
    BY <1>2, <1>3, OnlyReceived

Verifiers == {h \in Handlers : pc[h] = "verify"}

LinkInv ==
    /\ fshare.state = "none" => /\ fshare.opens = 0 /\ fshare.failed = 0
                             /\ \A h \in Handlers : pc[h] \notin {"count", "tell", "verify"}
    /\ fshare.opens = 0 => fshare.told = 0 /\ \A h \in Handlers : pc[h] # "tell"
    /\ fshare.told <= 1
    /\ \A h \in Handlers : pc[h] = "tell" =>
           fshare.told = 0 /\ \A g \in Handlers : pc[g] = "tell" => g = h
    /\ fshare.failed + Cardinality(Verifiers) < Attempts + Cardinality(Handlers)

LEMMA VerifiersCount ==
    /\ IsFiniteSet(Verifiers) /\ Cardinality(Verifiers) \in Nat
    /\ Cardinality(Handlers) \in Nat /\ Cardinality(Verifiers) <= Cardinality(Handlers)
    /\ IsFiniteSet(Verifiers') /\ Cardinality(Verifiers') \in Nat
    /\ Cardinality(Verifiers') <= Cardinality(Handlers)
  <1>1. Verifiers \in SUBSET Handlers /\ Verifiers' \in SUBSET Handlers
    BY DEF Verifiers
  <1>2. QED
    BY <1>1, SizesGive, FS_Subset, FS_CardinalityType

\* The rows of the link and of the requests that only leave it alone
LEMMA LinkQuiet ==
    ASSUME FolderRowsInv, FolderRowsInv', LinkInv,
           \A g \in Handlers : pc'[g] = pc[g] \/ pc'[g] \notin {"count", "tell", "verify"},
           fshare'.opens = fshare.opens, fshare'.told = fshare.told, fshare'.failed <= fshare.failed,
           fshare'.state = "none" => fshare.state = "none"
    PROVE  LinkInv'
  <1>1. Verifiers' \in SUBSET Verifiers
    BY DEF Verifiers
  <1>2. Cardinality(Verifiers') <= Cardinality(Verifiers)
    BY <1>1, VerifiersCount, FS_Subset
  <1>3. /\ fshare.failed \in Nat /\ fshare'.failed \in Nat /\ fshare.opens \in Nat /\ fshare.told \in Nat
        /\ Attempts \in Nat
    BY SizesGive DEF FolderRowsInv, LinkRow
  <1>4. fshare'.failed + Cardinality(Verifiers') < Attempts + Cardinality(Handlers)
    BY <1>2, <1>3, VerifiersCount DEF LinkInv
  <1>5. fshare'.state = "none" => /\ fshare'.opens = 0 /\ fshare'.failed = 0
                               /\ \A h \in Handlers : pc'[h] \notin {"count", "tell", "verify"}
    BY <1>3 DEF LinkInv
  <1>6. fshare'.opens = 0 => fshare'.told = 0 /\ \A h \in Handlers : pc'[h] # "tell"
    BY DEF LinkInv
  <1>7. fshare'.told <= 1
    BY DEF LinkInv
  <1>8. \A h \in Handlers : pc'[h] = "tell" =>
            fshare'.told = 0 /\ \A g \in Handlers : pc'[g] = "tell" => g = h
    BY DEF LinkInv
  <1>9. QED
    BY <1>4, <1>5, <1>6, <1>7, <1>8 DEF LinkInv

LEMMA LinkStep ==
    ASSUME ReadsInv, FolderRowsInv, FolderRowsInv', LinkInv, [TreeNext]_treeVars
    PROVE  LinkInv'
  <1> DEFINE Special == {"count", "tell", "verify"}
             QuietPc == \A g \in Handlers : pc'[g] = pc[g] \/ pc'[g] \notin Special
             QuietRow == /\ fshare'.opens = fshare.opens /\ fshare'.told = fshare.told
                         /\ fshare'.failed <= fshare.failed
                         /\ fshare'.state = "none" => fshare.state = "none"
  <1>1. /\ fshare.opens \in Nat /\ fshare.told \in Nat /\ fshare.failed \in Nat
        /\ fshare = [fshare EXCEPT !.state = fshare.state] /\ Attempts \in Nat /\ Attempts > 0
    BY SizesGive DEF FolderRowsInv, LinkRow
  <1>2. fshare' = fshare => QuietRow
    BY <1>1
  <1>3. ASSUME NEW h \in Handlers, NEW s, pc' = [pc EXCEPT ![h] = s]
        PROVE  pc'[h] = s /\ \A g \in Handlers : g # h => pc'[g] = pc[g]
    BY <1>3 DEF ReadsInv
  <1>4. ASSUME NEW h \in Handlers, Answer(h) PROVE QuietPc
    BY <1>4, <1>3 DEF Answer, Note
  <1>5. CASE UNCHANGED <<fshare, pc>>
    BY <1>2, <1>5, LinkQuiet
  <1>6. ASSUME NEW h \in Handlers,
               \/ \E f \in Folders, p \in Folders \cup {Root} :
                     BeginCreateFolder(h, f, p) \/ BeginMove(h, f, p)
               \/ \E f \in Folders : BeginRemove(h, f) \/ BeginLink(h, f)
               \/ \E f \in Folders \cup {Root} :
                     BeginAsk(h, f) \/ \E op \in {"put", "complete", "rehome"} : BeginPut(h, op, f)
               \/ BeginSend(h) \/ ReadPath(h) \/ ReadHeight(h)
        PROVE  LinkInv'
    <2>1. fshare' = fshare
      BY <1>6 DEF BeginCreateFolder, BeginMove, BeginRemove, BeginLink, BeginAsk,
            BeginPut, BeginSend, ReadPath, ReadHeight, rest
    <2>2. \E s \in {"insert", "path", "delete", "link", "ask", "put", "claim", "write",
                  "height", "idle"} : pc' = [pc EXCEPT ![h] = s]
      BY <1>6 DEF BeginCreateFolder, BeginMove, BeginRemove, BeginLink, BeginAsk,
            BeginPut, BeginSend, ReadPath, ReadHeight, Start, Answer, Note
    <2>3. QuietPc
      BY <2>2, <1>3
    <2>4. QED
      BY <1>2, <2>1, <2>3, LinkQuiet
  <1>7. ASSUME NEW h \in Handlers, BeginView(h) PROVE LinkInv'
    <2>1. fshare' = fshare /\ fshare.state = "live" /\ pc' = [pc EXCEPT ![h] = "count"] /\ pc[h] = "idle"
      BY <1>7 DEF BeginView, Start, rest
    <2>2. pc'[h] = "count" /\ \A g \in Handlers : g # h => pc'[g] = pc[g]
      BY <2>1, <1>3
    <2>3. Verifiers' = Verifiers
      BY <2>1, <2>2 DEF Verifiers
    <2>4. QED
      BY <2>1, <2>2, <2>3 DEF LinkInv
  <1>8. ASSUME NEW h \in Handlers, BeginUnlock(h) PROVE LinkInv'
    <2>1. /\ fshare' = fshare /\ fshare.state = "live" /\ fshare.failed < Attempts
          /\ pc' = [pc EXCEPT ![h] = "verify"] /\ pc[h] = "idle"
      BY <1>8 DEF BeginUnlock, Start, rest
    <2>2. pc'[h] = "verify" /\ \A g \in Handlers : g # h => pc'[g] = pc[g]
      BY <2>1, <1>3
    <2>3. fshare'.failed + Cardinality(Verifiers') < Attempts + Cardinality(Handlers)
      BY <2>1, <1>1, VerifiersCount
    <2>4. QED
      BY <2>1, <2>2, <2>3 DEF LinkInv
  <1>9. ASSUME NEW h \in Handlers,
               \/ InsertFolder(h) \/ WriteMove(h) \/ DeleteFolder(h)
               \/ \E d \in Docs : PutDocument(h, d) \/ ReceiveFile(h, d)
               \/ InsertAsk(h) \/ Fails(h)
        PROVE  LinkInv'
    <2>1. Answer(h) /\ (fshare' = fshare \/ fshare' = [fshare EXCEPT !.state = "gone"])
      BY <1>9 DEF InsertFolder, WriteMove, DeleteFolder, PutDocument,
            ReceiveFile, InsertAsk, Fails, rest
    <2>2. QuietRow
      BY <1>1, <1>2, <2>1 DEF FolderRowsInv, LinkRow
    <2>3. QED
      BY <1>4, <2>1, <2>2, LinkQuiet
  <1>10. ASSUME NEW h \in Handlers, InsertFolderLink(h) PROVE LinkInv'
    <2>1. /\ Answer(h)
          /\ \/ fshare' = fshare
             \/ fshare.state = "none" /\ fshare' = [NoLink EXCEPT !.state = "live", !.in = request[h].at]
      BY <1>10 DEF InsertFolderLink
    <2>2. CASE fshare' = fshare
      BY <1>2, <1>4, <2>1, <2>2, LinkQuiet
    <2>3. CASE fshare.state = "none" /\ fshare' = [NoLink EXCEPT !.state = "live", !.in = request[h].at]
      <3>1. fshare'.opens = 0 /\ fshare'.told = 0 /\ fshare'.failed = 0 /\ fshare'.state = "live"
        BY <2>3 DEF NoLink
      <3>2. fshare.opens = 0 /\ fshare.told = 0
        BY <2>3 DEF LinkInv
      <3>3. QED
        BY <1>1, <1>4, <2>1, <3>1, <3>2, LinkQuiet
    <2>4. QED
      BY <2>1, <2>2, <2>3
  <1>11. ASSUME NEW h \in Handlers, CountAccess(h) PROVE LinkInv'
    <2>1. CASE Answer(h) /\ fshare' = fshare
      BY <1>2, <1>4, <2>1, LinkQuiet
    <2>2. CASE /\ fshare' = [fshare EXCEPT !.opens = fshare.opens + 1]
               /\ (fshare.opens + 1 = 1 => pc' = [pc EXCEPT ![h] = "tell"])
               /\ (fshare.opens + 1 # 1 => Answer(h)) /\ pc[h] = "count"
      <3>1. /\ fshare'.opens = fshare.opens + 1 /\ fshare'.told = fshare.told /\ fshare'.failed = fshare.failed
            /\ fshare'.state = fshare.state
        BY <2>2 DEF FolderRowsInv, LinkRow
      <3>2. fshare'.state # "none" /\ fshare'.opens # 0
        BY <1>1, <2>2, <3>1 DEF LinkInv
      <3>3. /\ \A g \in Handlers : g # h => pc'[g] = pc[g]
            /\ (pc'[h] = "tell" /\ fshare.opens = 0) \/ pc'[h] = "idle"
        <4>1. fshare.opens \in Nat
          BY <1>1
        <4>2. CASE fshare.opens = 0
          <5>1. pc' = [pc EXCEPT ![h] = "tell"]
            BY <2>2, <4>2
          <5>2. QED
            BY <1>3, <4>2, <5>1
        <4>3. CASE fshare.opens # 0
          <5>1. pc' = [pc EXCEPT ![h] = "idle"]
            BY <2>2, <4>1, <4>3 DEF Answer, Note
          <5>2. QED
            BY <1>3, <5>1
        <4>4. QED
          BY <4>2, <4>3
      <3>4. Verifiers' = Verifiers
        BY <2>2, <3>3 DEF Verifiers
      <3>5. fshare'.failed + Cardinality(Verifiers') < Attempts + Cardinality(Handlers)
        BY <3>1, <3>4 DEF LinkInv
      <3>6. \A g \in Handlers : pc'[g] = "tell" =>
                fshare'.told = 0 /\ \A i \in Handlers : pc'[i] = "tell" => i = g
        BY <3>1, <3>3 DEF LinkInv
      <3>7. fshare'.told <= 1
        BY <3>1 DEF LinkInv
      <3>8. QED
        BY <3>2, <3>5, <3>6, <3>7 DEF LinkInv
    <2>3. QED
      BY <1>11, <2>1, <2>2 DEF CountAccess, Note
  <1>12. ASSUME NEW h \in Handlers, TellCreator(h) PROVE LinkInv'
    <2>1. /\ pc[h] = "tell" /\ pc' = [pc EXCEPT ![h] = "idle"]
          /\ fshare' = [fshare EXCEPT !.told = fshare.told + 1]
      BY <1>12 DEF TellCreator, Answer, Note
    <2>2. pc'[h] = "idle" /\ \A g \in Handlers : g # h => pc'[g] = pc[g] /\ pc'[g] # "tell"
      BY <2>1, <1>3 DEF LinkInv
    <2>3. /\ fshare'.opens = fshare.opens /\ fshare'.told = fshare.told + 1 /\ fshare'.failed = fshare.failed
          /\ fshare'.state = fshare.state
      BY <2>1 DEF FolderRowsInv, LinkRow
    <2>4. fshare.told = 0 /\ fshare.opens # 0 /\ fshare.state # "none"
      BY <1>1, <2>1 DEF LinkInv
    <2>5. Verifiers' = Verifiers
      BY <2>1, <2>2 DEF Verifiers
    <2>6. fshare'.failed + Cardinality(Verifiers') < Attempts + Cardinality(Handlers)
      BY <2>3, <2>5 DEF LinkInv
    <2>7. \A g \in Handlers : pc'[g] # "tell"
      BY <2>2
    <2>8. QED
      BY <2>3, <2>4, <2>6, <2>7 DEF LinkInv
  <1>13. ASSUME NEW h \in Handlers, VerifyUnlock(h) PROVE LinkInv'
    <2>1. /\ pc[h] = "verify" /\ Answer(h)
          /\ fshare' = fshare \/ fshare' = [fshare EXCEPT !.failed = fshare.failed + 1]
      BY <1>13 DEF VerifyUnlock
    <2>2. CASE fshare' = fshare
      BY <1>2, <1>4, <2>1, <2>2, LinkQuiet
    <2>3. CASE fshare' = [fshare EXCEPT !.failed = fshare.failed + 1]
      <3>1. /\ fshare'.opens = fshare.opens /\ fshare'.told = fshare.told /\ fshare'.failed = fshare.failed + 1
            /\ fshare'.state = fshare.state
        BY <2>3 DEF FolderRowsInv, LinkRow
      <3>2. pc'[h] = "idle" /\ \A g \in Handlers : g # h => pc'[g] = pc[g]
        BY <2>1, <1>3 DEF Answer, Note
      <3>3. Verifiers' = Verifiers \ {h} /\ h \in Verifiers
        BY <2>1, <3>2 DEF Verifiers
      <3>4. Cardinality(Verifiers') = Cardinality(Verifiers) - 1
        BY <3>3, VerifiersCount, FS_RemoveElement
      <3>5. fshare'.failed + Cardinality(Verifiers') < Attempts + Cardinality(Handlers)
        BY <1>1, <3>1, <3>4, VerifiersCount DEF LinkInv
      <3>6. fshare.state # "none"
        BY <2>1 DEF LinkInv
      <3>7. \A g \in Handlers : pc'[g] = pc[g] \/ pc'[g] = "idle"
        BY <3>2
      <3>8. QED
        BY <3>1, <3>5, <3>6, <3>7 DEF LinkInv
    <2>4. QED
      BY <2>1, <2>2, <2>3
  <1>14. CASE LockoutPasses \/ RevokeLink
    <2>1. /\ \/ fshare' = [fshare EXCEPT !.failed = 0]
             \/ fshare' = [fshare EXCEPT !.state = "revoked"]
          /\ pc' = pc
      BY <1>14 DEF LockoutPasses, RevokeLink, handling
    <2>2. QuietRow
      BY <2>1, <1>1 DEF FolderRowsInv, LinkRow
    <2>3. QED
      BY <2>1, <2>2, LinkQuiet
  <1>15. ASSUME \/ \E d \in Docs : ChangeDocument(d)
                \/ CloseAsk \/ UNCHANGED treeVars
         PROVE  UNCHANGED <<fshare, pc>>
    BY <1>15 DEF ChangeDocument, CloseAsk, treeVars, handling
  <1>16. ASSUME NEW h \in Handlers, Enter(h) PROVE LinkInv'
    BY <1>16, <1>6, <1>7, <1>8 DEF Enter
  <1>17. ASSUME NEW h \in Handlers, Proceed(h) PROVE LinkInv'
    BY <1>17, <1>6, <1>9, <1>10, <1>11, <1>12, <1>13 DEF Proceed
  <1>18. QED
    BY <1>5, <1>14, <1>15, <1>16, <1>17 DEF TreeNext

-----------------------------------------------------------------------------
(***************************************************************************)
(* The theorems                                                            *)
(***************************************************************************)

ServedInv == served \in 0..MaxRequests

TreeInv ==
    /\ ReadsInv /\ FolderRowsInv /\ PlacedInv /\ ServedInv /\ ReachInv /\ AskInv /\ LinkInv

LEMMA TreeInitHolds == TreeInit => TreeInv
  <1> SUFFICES ASSUME TreeInit PROVE TreeInv
    OBVIOUS
  <1>1. ReadsInv
    <2>1. request = [h \in Handlers |-> NoRequest] /\ pc = [h \in Handlers |-> "idle"]
      BY DEF TreeInit
    <2>2. ReadOK(NoRequest, "idle")
      BY NoRow DEF ReadOK
    <2>3. QED
      BY <2>1, <2>2, NoRow DEF ReadsInv
  <1>2. FolderRowsInv
    BY DEF TreeInit, FolderRowsInv, DocRow, LinkRow, AskedRow, NoDoc, NoLink, NotAsked, Places
  <1>3. PlacedInv
    BY DEF TreeInit, PlacedInv, Forest, Placed, NoDoc, NoLink, NotAsked
  <1>4. ServedInv
    BY SizesGive DEF TreeInit, ServedInv
  <1>5. ReachInv
    BY DEF TreeInit, ReachInv, AllReach
  <1>6. AskInv
    <2>1. AskedDocs = {} /\ asked.received = 0
      BY DEF TreeInit, AskedDocs, NoDoc, NotAsked
    <2>2. QED
      BY <2>1, SizesGive, FS_EmptySet DEF AskInv
  <1>7. LinkInv
    <2>1. Verifiers = {} /\ fshare.failed = 0 /\ fshare.opens = 0 /\ fshare.told = 0
      BY DEF TreeInit, Verifiers, NoLink
    <2>2. fshare.failed + Cardinality(Verifiers) < Attempts + Cardinality(Handlers)
      BY <2>1, SizesGive, FS_EmptySet, VerifiersCount
    <2>3. \A h \in Handlers : pc[h] = "idle"
      BY DEF TreeInit
    <2>4. QED
      BY <2>1, <2>2, <2>3 DEF LinkInv
  <1>8. QED
    BY <1>1, <1>2, <1>3, <1>4, <1>5, <1>6, <1>7 DEF TreeInv

LEMMA ServedStep ==
    ASSUME ServedInv, [TreeNext]_treeVars
    PROVE  ServedInv'
  <1>1. ASSUME NEW h \in Handlers, Enter(h)
        PROVE  served < MaxRequests /\ served' = served + 1
    BY <1>1 DEF Enter, BeginCreateFolder, BeginMove, BeginRemove, BeginLink,
          BeginAsk, BeginPut, BeginSend, BeginView, BeginUnlock, Start
  <1>2. ASSUME NEW h \in Handlers, Proceed(h) PROVE served' = served
    BY <1>2 DEF Proceed, InsertFolder, ReadPath, ReadHeight, WriteMove,
          DeleteFolder, PutDocument, ReceiveFile, InsertAsk, InsertFolderLink,
          CountAccess, TellCreator, VerifyUnlock, Fails, Answer, Note
  <1>3. ASSUME \/ \E d \in Docs : ChangeDocument(d)
               \/ CloseAsk \/ LockoutPasses \/ RevokeLink \/ UNCHANGED treeVars
        PROVE  served' = served
    BY <1>3 DEF ChangeDocument, CloseAsk, LockoutPasses, RevokeLink,
          treeVars, handling
  <1>4. served' = served \/ (served < MaxRequests /\ served' = served + 1)
    BY <1>1, <1>2, <1>3 DEF TreeNext
  <1>5. QED
    BY <1>4, SizesGive DEF ServedInv

LEMMA TreeStep == TreeInv /\ [TreeNext]_treeVars => TreeInv'
  <1> SUFFICES ASSUME TreeInv, [TreeNext]_treeVars PROVE TreeInv'
    OBVIOUS
  <1>1. /\ ReadsInv /\ FolderRowsInv /\ PlacedInv /\ ServedInv /\ ReachInv
        /\ AskInv /\ LinkInv
    BY DEF TreeInv
  <1>3. ReadsInv'
    <2>1. PlacesInv
      BY <1>1 DEF PlacesInv, FolderRowsInv, LinkRow, AskedRow
    <2>2. QED
      BY <1>1, <2>1, ReadsStep
  <1>4. FolderRowsInv'
    BY <1>1, FolderRowsStep
  <1>5. PlacedInv'
    BY <1>1, PlacedStep
  <1>6. ServedInv'
    BY <1>1, ServedStep
  <1>7. ReachInv'
    BY <1>1, ReachStep
  <1>8. AskInv'
    BY <1>1, AskStep
  <1>9. LinkInv'
    BY <1>1, <1>4, LinkStep
  <1>10. QED
    BY <1>3, <1>4, <1>5, <1>6, <1>7, <1>8, <1>9 DEF TreeInv

LEMMA TreeInvHolds == TreeSpec => []TreeInv
  BY TreeInitHolds, TreeStep, PTL DEF TreeSpec

\* No creation, move or removal that finds the path and the height it had checked
\* (folders.service.ts create, update, remove) makes a cycle, nests a folder deeper
\* than MAX_FOLDER_DEPTH, or leaves a folder, a document, a folder link or a file
\* request pointing at a folder that is gone: for any folders and handlers.
THEOREM TreeHolds == TreeSpec => []TreeSound
  <1>1. TreeInv => TreeSound
    <2> SUFFICES ASSUME TreeInv PROVE TreeSound
      OBVIOUS
    <2>1. /\ ReadsInv /\ FolderRowsInv /\ PlacedInv /\ ServedInv /\ ReachInv
      BY DEF TreeInv
    <2>2. \A h \in Handlers : request[h].op \in Ops /\ (request[h].op = "none" <=> pc[h] = "idle")
      BY <2>1 DEF ReadsInv, ReadRow, ReadOK
    <2>3. \A f \in Folders : Exists(f) => Place(parent[f])
      BY <2>1 DEF PlacedInv, Forest, Placed, Exists, Place
    <2>4. \A d \in Docs : Place(docs[d].in)
      BY <2>1 DEF PlacedInv, Placed, Exists, Place
    <2>5. /\ fshare.state \in {"live", "revoked"} => Exists(fshare.in)
          /\ asked.state # "gone" => Place(asked.in)
      BY <2>1 DEF PlacedInv, Placed, Exists, Place
    <2>6. TreeTypes
      BY <2>1, <2>2, <2>3, <2>4, <2>5
         DEF TreeTypes, FolderRowsInv, ServedInv, DocRow, LinkRow, AskedRow, Places
    <2>7. raced \/ \A f \in Folders : Exists(f) => Reachable(f)
      BY <2>1, ReachIsReachable DEF ReachInv
    <2>8. QED
      BY <2>6, <2>7 DEF TreeSound
  <1>2. QED
    BY <1>1, TreeInvHolds, PTL

\* A file request takes max_files in all and counts every file it took
\* (file-requests.repo.ts), the first open of a folder link is reported once, and
\* its lockout is passed by no more than the requests under way
\* (folder-shares.service.ts): for any number of requests at once.
THEOREM CountersHold == TreeSpec => []CountersExact
  <1>1. TreeInv => CountersExact
    <2> SUFFICES ASSUME TreeInv PROVE CountersExact
      OBVIOUS
    <2>1. FolderRowsInv /\ AskInv /\ LinkInv
      BY DEF TreeInv
    <2>2. Cardinality(AskedDocs) <= asked.received /\ asked.received <= MaxFiles /\ fshare.told <= 1
      BY <2>1 DEF AskInv, LinkInv
    <2>3. fshare.failed < Attempts + Cardinality(Handlers)
      <3>1. fshare.failed \in Nat /\ Attempts \in Nat
        BY <2>1, SizesGive DEF FolderRowsInv, LinkRow
      <3>2. QED
        BY <2>1, <3>1, VerifiersCount DEF LinkInv
    <2>4. QED
      BY <2>2, <2>3 DEF CountersExact, AskedDocs
  <1>2. QED
    BY <1>1, TreeInvHolds, PTL

\* A file that arrives after its request was closed, expired, or went with its
\* folder is not taken (file-requests.repo.ts claims the slot in the statement
\* that looks at the state): in every step.
THEOREM ClosedHolds == TreeSpec => ClosedTakesNothing
  <1>1. TreeInv /\ [TreeNext]_treeVars
           => [\A d \in Docs : docs'[d].asked /\ ~ docs[d].asked => asked.state = "open"]_treeVars
    <2> SUFFICES ASSUME TreeInv, [TreeNext]_treeVars,
                        NEW d \in Docs, docs'[d].asked, ~ docs[d].asked
                 PROVE  asked.state = "open"
      OBVIOUS
    <2>1. d \in AskedDocs' /\ d \notin AskedDocs
      BY DEF AskedDocs
    <2>2. QED
      BY <2>1, OnlyReceived DEF TreeInv
  <1>2. QED
    BY <1>1, TreeInvHolds, PTL DEF TreeSpec, ClosedTakesNothing

=============================================================================
