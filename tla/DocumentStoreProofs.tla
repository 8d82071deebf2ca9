------------------------ MODULE DocumentStoreProofs ------------------------
(***************************************************************************)
(* Proofs about DocumentStore, for any number of contents, requests and    *)
(* scan workers and any number of faults of every kind; and, in the second *)
(* part, about DocumentProcessing, which adds to it what is derived from a *)
(* content.                                                                *)
(***************************************************************************)
EXTENDS DocumentProcessing, FiniteSetTheorems, TLAPS

USE ContentsAssumption, BoundsAssumption, ActorsAssumption, FaultsAssumption

\* Steps at which an actor holds an object that no row has yet, and steps at
\* which it is about to delete one that no row has any more.
Building == {"insert", "copy", "replace"}
Parting  == {"cleanup", "dropVersion"}

\* Whoever builds on an object, or parts with it, knows its key; the history
\* and what is left of it to deal with are finite.
LocalInv ==
    /\ \A a \in Actors : at[a] \in Building \cup Parting \cup {"lookup"} => mine[a] \in Contents
    /\ IsFiniteSet(hist)
    /\ \A a \in Actors : IsFiniteSet(todo[a])

\* The first upload is alone until it has committed the row.
LoneInv ==
    \A h \in Handlers : at[h] = "insert" =>
        /\ status = "none"
        /\ \A g \in Handlers \ {h} : at[g] = "idle"

\* A key is in one place: not generated yet, with one actor, or in one row.
PlaceInv ==
    /\ Kept => cur \notin hist \cup fresh
    /\ ~ Kept => hist = {}
    /\ hist \cap fresh = {}
    /\ \A a \in Actors : at[a] \in Building =>
            mine[a] \notin hist \cup fresh /\ (Kept => mine[a] # cur)
    /\ \A a \in Actors : at[a] \in Parting \cup {"lookup"} => mine[a] \notin fresh
    /\ \A a, b \in Actors :
            at[a] \in Building /\ at[b] \in Building \cup Parting \cup {"lookup"}
                /\ mine[a] = mine[b] => a = b

\* Malware is never in the history nor on its way there; who erases an object
\* knows that it is malware; an object that is not there yet has no verdict.
MalwareInv ==
    /\ \A c \in fresh : scan[c] = "none"
    /\ \A v \in hist : scan[v] # "infected"
    /\ \A a \in Actors : at[a] \in Building => scan[mine[a]] # "infected"
    /\ \A a \in Actors : at[a] = "erase" => scan[saw[a]] = "infected"

\* What an actor is about to commit is in storage, and what it is about to
\* delete is in no row.
StoredInv ==
    lapses \cap {"purge", "upload"} = {} =>
        /\ \A a \in Actors : at[a] \in {"insert", "replace"} => mine[a] \in store
        /\ \A a \in Actors : at[a] \in Parting =>
                mine[a] \notin hist /\ (Kept => mine[a] # cur)

-----------------------------------------------------------------------------
(***************************************************************************)
(* Type correctness.                                                       *)
(***************************************************************************)

LEMMA Who == Handlers \subseteq Actors /\ Workers \subseteq Actors
  BY DEF Actors

\* The half of TypeOK that is about what actors hold, and the other half.
HoldsType ==
    /\ at \in [Actors -> Steps]
    /\ saw \in [Actors -> Contents \cup {NoKey}]
    /\ mine \in [Actors -> Contents \cup {NoKey}]
    /\ todo \in [Actors -> SUBSET Contents]
    /\ \A a \in Actors : at[a] \in Building \cup Parting \cup {"lookup"} => mine[a] \in Contents
    /\ \A a \in Actors : IsFiniteSet(todo[a])

TableType ==
    /\ status \in {"none", "live", "trashed", "gone"}
    /\ cur \in Contents \cup {NoKey}
    /\ Kept => cur \in Contents
    /\ hist \in SUBSET Contents
    /\ IsFiniteSet(hist)
    /\ scan \in [Contents \cup {NoKey} -> {"none", "pending", "clean", "infected", "unscanned"}]
    /\ number \in [Contents \cup {NoKey} -> Nat]
    /\ linked \in BOOLEAN
    /\ used \in 0..Quota
    /\ others \in 0..Quota
    /\ store \subseteq Contents
    /\ fresh \subseteq Contents
    /\ job \in {"none", "queued", "running"}
    /\ onJob \subseteq Workers
    /\ lapses \subseteq {"upload", "purge", "sum"}
    /\ faults \in 0..MaxFaults

LEMMA TypeHalves == HoldsType /\ TableType <=> TypeOK /\ LocalInv
  BY DEF TypeOK, LocalInv, HoldsType, TableType

LEMMA GoToType ==
    ASSUME HoldsType, NEW a \in Actors, NEW step \in Steps,
           NEW key \in Contents \cup {NoKey}, NEW object \in Contents \cup {NoKey},
           NEW versions \in SUBSET Contents, IsFiniteSet(versions),
           step \in Building \cup Parting \cup {"lookup"} => object \in Contents,
           GoTo(a, step, key, object, versions)
    PROVE  HoldsType'
  BY DEF HoldsType, GoTo

\* The sets of versions an actor is given to deal with.
LEMMA FiniteTodo ==
    ASSUME TypeOK, LocalInv
    PROVE  /\ IsFiniteSet({}) /\ IsFiniteSet(Beyond)
           /\ \A v \in Contents : IsFiniteSet({v})
           /\ \A a \in Actors, v \in Contents : IsFiniteSet(todo[a] \ {v})
  <1>1. IsFiniteSet({}) /\ \A v \in Contents : IsFiniteSet({v})
    BY FS_EmptySet, FS_Singleton
  <1>2. IsFiniteSet(Beyond)
    BY FS_Subset DEF Beyond, LocalInv
  <1>3. \A a \in Actors, v \in Contents : IsFiniteSet(todo[a] \ {v})
    BY FS_Subset DEF LocalInv
  <1> QED
    BY <1>1, <1>2, <1>3

LEMMA HoldsStep ==
    ASSUME TypeOK, LocalInv, [Next]_vars
    PROVE  HoldsType'
  <1> USE TypeHalves, Who, GoToType, FiniteTodo DEF Begin, Return, Steps, Building, Parting,
              TableType, HoldsType, local
  <1> HoldsType /\ TableType
    OBVIOUS
  <1>1. ASSUME NEW h \in Handlers, NEW c \in Contents, BeginUpload(h, c)
        PROVE  HoldsType'
    BY <1>1 DEF BeginUpload
  <1>2. ASSUME NEW h \in Handlers,
               InsertDocument(h) \/ InsertRefused(h) \/ Lookup(h) \/ LookupFails(h)
        PROVE  HoldsType'
    BY <1>2 DEF InsertDocument, InsertRefused, Lookup, LookupFails
  <1>3. ASSUME NEW h \in Handlers, Cleanup(h)
        PROVE  HoldsType'
    BY <1>3 DEF Cleanup
  <1>4. ASSUME NEW h \in Handlers, NEW c \in Contents, BeginVersion(h, c)
        PROVE  HoldsType'
    BY <1>4 DEF BeginVersion
  <1>5. ASSUME NEW h \in Handlers, NEW v \in Contents, NEW c \in Contents,
               BeginRestoreVersion(h, v, c)
        PROVE  HoldsType'
    <2>1. IsFiniteSet({v}) /\ {v} \in SUBSET Contents
      BY FiniteTodo
    <2> QED
      BY <1>5, <2>1 DEF BeginRestoreVersion
  <1>6. ASSUME NEW h \in Handlers, Copy(h) \/ Replace(h) \/ ReplaceRefused(h)
        PROVE  HoldsType'
    BY <1>6 DEF Copy, Replace, ReplaceRefused
  <1>7. ASSUME NEW h \in Handlers, ListBeyond(h)
        PROVE  HoldsType'
    <2>1. IsFiniteSet(Beyond) /\ Beyond \in SUBSET Contents
      BY FiniteTodo DEF Beyond, TypeOK
    <2> QED
      BY <1>7, <2>1 DEF ListBeyond
  <1>8. ASSUME NEW h \in Handlers, NEW v \in Contents, BeginDeleteVersion(h, v)
        PROVE  HoldsType'
    <2>1. IsFiniteSet({v}) /\ {v} \in SUBSET Contents
      BY FiniteTodo
    <2> QED
      BY <1>8, <2>1 DEF BeginDeleteVersion
  <1>9. ASSUME NEW h \in Handlers, NEW v \in Contents, RemoveVersion(h, v)
        PROVE  HoldsType'
    <2>1. IsFiniteSet(todo[h] \ {v}) /\ todo[h] \ {v} \in SUBSET Contents
      BY FiniteTodo
    <2> QED
      BY <1>9, <2>1 DEF RemoveVersion
  <1>10. ASSUME NEW h \in Handlers, NEW v \in Contents, SkipVersion(h, v)
        PROVE  HoldsType'
    <2>1. IsFiniteSet(todo[h] \ {v}) /\ todo[h] \ {v} \in SUBSET Contents
      BY FiniteTodo
    <2> QED
      BY <1>10, <2>1 DEF SkipVersion
  <1>11. ASSUME NEW h \in Handlers, DropVersion(h) \/ EndPrune(h) \/ BeginRestore(h) \/ Probe(h)
        PROVE  HoldsType'
    BY <1>11 DEF DropVersion, EndPrune, BeginRestore, Probe
  <1>12. ASSUME NEW h \in Handlers, Restore(h)
        PROVE  HoldsType'
    BY <1>12 DEF Restore
  <1>13. ASSUME NEW h \in Handlers, BeginPurge(h)
        PROVE  HoldsType'
    BY <1>13 DEF BeginPurge
  <1>14. ASSUME NEW h \in Handlers, VersionKeys(h)
        PROVE  HoldsType'
    BY <1>14 DEF VersionKeys
  <1>15. ASSUME NEW h \in Handlers, NEW v \in Contents, PurgeVersion(h, v)
        PROVE  HoldsType'
    <2>1. IsFiniteSet(todo[h] \ {v}) /\ todo[h] \ {v} \in SUBSET Contents
      BY FiniteTodo
    <2> QED
      BY <1>15, <2>1 DEF PurgeVersion
  <1>16. ASSUME NEW h \in Handlers,
               PurgeCurrent(h) \/ SumHistory(h) \/ HardDelete(h) \/ BeginLink(h)
        PROVE  HoldsType'
    BY <1>16 DEF PurgeCurrent, SumHistory, HardDelete, BeginLink
  <1>17. ASSUME NEW h \in Handlers, InsertLink(h)
        PROVE  HoldsType'
    BY <1>17 DEF InsertLink
  <1>18. ASSUME NEW h \in Handlers, StorageFails(h)
        PROVE  HoldsType'
    BY <1>18 DEF StorageFails
  <1>19. ASSUME NEW h \in Handlers, DatabaseFails(h)
        PROVE  HoldsType'
    <2>1. CASE Return(h)
      BY <2>1
    <2>2. CASE at[h] \in {"insert", "replace"} /\ GoTo(h, "cleanup", NoKey, mine[h], {})
      BY <2>2
    <2>3. ASSUME NEW v \in todo[h], GoTo(h, "prune", NoKey, NoKey, todo[h] \ {v})
          PROVE  HoldsType'
      <3>1. IsFiniteSet(todo[h] \ {v}) /\ todo[h] \ {v} \in SUBSET Contents
        BY FiniteTodo
      <3> QED
        BY <2>3, <3>1
    <2> QED
      BY <1>19, <2>1, <2>2, <2>3 DEF DatabaseFails
  <1>20. ASSUME NEW w \in Workers, ClaimScan(w)
        PROVE  HoldsType'
    BY <1>20 DEF ClaimScan
  <1>21. ASSUME NEW w \in Workers, ReadDocument(w)
        PROVE  HoldsType'
    BY <1>21 DEF ReadDocument
  <1>22. ASSUME NEW w \in Workers, Judge(w)
        PROVE  HoldsType'
    BY <1>22 DEF Judge
  <1>23. ASSUME NEW w \in Workers, Erase(w)
        PROVE  HoldsType'
    BY <1>23 DEF Erase
  <1>24. ASSUME NEW w \in Workers, Settle(w)
        PROVE  HoldsType'
    BY <1>24 DEF Settle
  <1>25. ASSUME NEW w \in Workers, ScanFails(w)
        PROVE  HoldsType'
    BY <1>25 DEF ScanFails, GiveBack
  <1>26. ASSUME NEW w \in Workers, WorkerFails(w)
        PROVE  HoldsType'
    BY <1>26 DEF WorkerFails, GiveBack
  <1>27. ASSUME NEW a \in Actors, Crash(a)
        PROVE  HoldsType'
    BY <1>27 DEF Crash
  <1>28. CASE Trash \/ LeaseExpires \/ Overrun \/ RequeuePendingScans
    BY <1>28 DEF Trash, LeaseExpires, Overrun, RequeuePendingScans
  <1>29. ASSUME NEW n \in {1, Quota}, OthersStore(n)
        PROVE  HoldsType'
    BY <1>29 DEF OthersStore
  <1>30. CASE OthersRelease
    BY <1>30 DEF OthersRelease
  <1>31. CASE UNCHANGED vars
    BY <1>31 DEF vars
  <1> HIDE DEF Begin, Return, Steps, Building, Parting, TableType, HoldsType, local
  <1> QED
    BY <1>1, <1>2, <1>3, <1>4, <1>5, <1>6, <1>7, <1>8, <1>9, <1>10, <1>11,
       <1>12, <1>13, <1>14, <1>15, <1>16, <1>17, <1>18, <1>19, <1>20, <1>21,
       <1>22, <1>23, <1>24, <1>25, <1>26, <1>27, <1>28, <1>29, <1>30, <1>31
       DEF Next, UploadStep, VersionStep, TrashStep, ScanStep

LEMMA TableStep ==
    ASSUME TypeOK, LocalInv, [Next]_vars
    PROVE  TableType'
  <1> USE TypeHalves, Who DEF NoFault, Fault, Fits, Less, Kept, EnqueueScan, InitialScan, row,
              bytes, queue, Steps, TableType, HoldsType, Building, Parting
  <1> HoldsType /\ TableType
    OBVIOUS
  <1>1. ASSUME NEW h \in Handlers, NEW c \in Contents, BeginUpload(h, c)
        PROVE  TableType'
    BY <1>1 DEF BeginUpload
  <1>2. ASSUME NEW h \in Handlers, InsertDocument(h)
        PROVE  TableType'
    BY <1>2 DEF InsertDocument
  <1>3. ASSUME NEW h \in Handlers, InsertRefused(h)
        PROVE  TableType'
    BY <1>3 DEF InsertRefused
  <1>4. ASSUME NEW h \in Handlers, Lookup(h)
        PROVE  TableType'
    BY <1>4 DEF Lookup
  <1>5. ASSUME NEW h \in Handlers, LookupFails(h)
        PROVE  TableType'
    BY <1>5 DEF LookupFails
  <1>6. ASSUME NEW h \in Handlers, Cleanup(h)
        PROVE  TableType'
    BY <1>6 DEF Cleanup
  <1>7. ASSUME NEW h \in Handlers, NEW c \in Contents, BeginVersion(h, c)
        PROVE  TableType'
    BY <1>7 DEF BeginVersion
  <1>8. ASSUME NEW h \in Handlers, NEW v \in Contents, NEW c \in Contents,
               BeginRestoreVersion(h, v, c)
        PROVE  TableType'
    BY <1>8 DEF BeginRestoreVersion
  <1>9. ASSUME NEW h \in Handlers, Copy(h)
        PROVE  TableType'
    BY <1>9 DEF Copy
  <1>10. ASSUME NEW h \in Handlers, Replace(h)
        PROVE  TableType'
    <2>1. IsFiniteSet(hist \cup {cur})
      BY FS_AddElement
    <2> QED
      BY <1>10, <2>1 DEF Replace, Current, MayReplace
  <1>11. ASSUME NEW h \in Handlers, ReplaceRefused(h) \/ ListBeyond(h)
        PROVE  TableType'
    BY <1>11 DEF ReplaceRefused, ListBeyond
  <1>12. ASSUME NEW h \in Handlers, NEW v \in Contents, BeginDeleteVersion(h, v)
        PROVE  TableType'
    BY <1>12 DEF BeginDeleteVersion
  <1>13. ASSUME NEW h \in Handlers, NEW v \in Contents, RemoveVersion(h, v)
        PROVE  TableType'
    <2>1. IsFiniteSet(hist \ {v})
      BY FS_Subset
    <2> QED
      BY <1>13, <2>1 DEF RemoveVersion
  <1>14. ASSUME NEW h \in Handlers, NEW v \in Contents, SkipVersion(h, v)
        PROVE  TableType'
    BY <1>14 DEF SkipVersion
  <1>15. ASSUME NEW h \in Handlers, DropVersion(h) \/ EndPrune(h) \/ BeginRestore(h) \/ Probe(h)
        PROVE  TableType'
    BY <1>15 DEF DropVersion, EndPrune, BeginRestore, Probe
  <1>16. ASSUME NEW h \in Handlers, Restore(h) \/ BeginPurge(h) \/ VersionKeys(h)
        PROVE  TableType'
    BY <1>16 DEF Restore, BeginPurge, VersionKeys
  <1>17. ASSUME NEW h \in Handlers, NEW v \in Contents, PurgeVersion(h, v)
        PROVE  TableType'
    BY <1>17 DEF PurgeVersion
  <1>18. ASSUME NEW h \in Handlers, PurgeCurrent(h) \/ SumHistory(h)
        PROVE  TableType'
    BY <1>18 DEF PurgeCurrent, SumHistory
  <1>19. ASSUME NEW h \in Handlers, HardDelete(h)
        PROVE  TableType'
    <2>1. Given(h) \in Nat
      BY FS_CardinalityType DEF Given
    <2>2. used' \in 0..Quota
      BY <1>19, <2>1 DEF HardDelete
    <2>3. linked' \in BOOLEAN
      BY <1>19 DEF HardDelete
    <2> QED
      BY <1>19, <2>2, <2>3, FS_EmptySet DEF HardDelete
  <1>20. ASSUME NEW h \in Handlers, BeginLink(h)
        PROVE  TableType'
    BY <1>20 DEF BeginLink
  <1>21. ASSUME NEW h \in Handlers, InsertLink(h)
        PROVE  TableType'
    <2>1. linked' \in BOOLEAN
      BY <1>21, Zenon DEF InsertLink
    <2> QED
      BY <1>21, <2>1 DEF InsertLink
  <1>22. ASSUME NEW h \in Handlers, StorageFails(h)
        PROVE  TableType'
    BY <1>22 DEF StorageFails
  <1>23. ASSUME NEW h \in Handlers, DatabaseFails(h)
        PROVE  TableType'
    BY <1>23 DEF DatabaseFails
  <1>24. ASSUME NEW w \in Workers, ClaimScan(w) \/ ReadDocument(w)
        PROVE  TableType'
    BY <1>24 DEF ClaimScan, ReadDocument
  <1>25. ASSUME NEW w \in Workers, Judge(w)
        PROVE  TableType'
    <2>1. used' \in 0..Quota
      BY <1>25 DEF Judge
    <2>2. linked' \in BOOLEAN
      BY <1>25 DEF Judge
    <2>3. /\ scan[cur] \in {"none", "pending", "clean", "infected", "unscanned"}
          /\ \/ scan' = scan
             \/ scan' = [scan EXCEPT ![cur] = "clean"]
             \/ scan' = [scan EXCEPT ![cur] = "infected"]
      BY <1>25 DEF Judge, Verdict
    <2>4. UNCHANGED <<status, cur, hist, number, others, store, fresh, queue, lapses, faults>>
      BY <1>25 DEF Judge
    <2> QED
      BY <2>1, <2>2, <2>3, <2>4
  <1>26. ASSUME NEW w \in Workers, Erase(w) \/ Settle(w)
        PROVE  TableType'
    BY <1>26 DEF Erase, Settle
  <1>27. ASSUME NEW w \in Workers, ScanFails(w)
        PROVE  TableType'
    BY <1>27 DEF ScanFails, GiveBack
  <1>28. ASSUME NEW w \in Workers, WorkerFails(w)
        PROVE  TableType'
    BY <1>28 DEF WorkerFails, GiveBack
  <1>29. ASSUME NEW a \in Actors, Crash(a)
        PROVE  TableType'
    BY <1>29 DEF Crash
  <1>30. CASE Trash
    BY <1>30 DEF Trash
  <1>31. CASE LeaseExpires
    BY <1>31 DEF LeaseExpires
  <1>32. CASE Overrun
    BY <1>32 DEF Overrun
  <1>33. CASE RequeuePendingScans
    BY <1>33 DEF RequeuePendingScans
  <1>34. ASSUME NEW n \in {1, Quota}, OthersStore(n)
        PROVE  TableType'
    BY <1>34 DEF OthersStore
  <1>35. CASE OthersRelease
    BY <1>35 DEF OthersRelease
  <1>36. CASE UNCHANGED vars
    BY <1>36 DEF vars
  <1> HIDE DEF NoFault, Fault, Fits, Less, Kept, EnqueueScan, InitialScan, row, bytes, queue,
              Steps, TableType, HoldsType, Building, Parting
  <1> QED
    BY <1>1, <1>2, <1>3, <1>4, <1>5, <1>6, <1>7, <1>8, <1>9, <1>10, <1>11,
       <1>12, <1>13, <1>14, <1>15, <1>16, <1>17, <1>18, <1>19, <1>20, <1>21,
       <1>22, <1>23, <1>24, <1>25, <1>26, <1>27, <1>28, <1>29, <1>30, <1>31,
       <1>32, <1>33, <1>34, <1>35, <1>36
       DEF Next, UploadStep, VersionStep, TrashStep, ScanStep

LEMMA InitTypes == ASSUME Init PROVE TypeOK /\ LocalInv
  <1>1. /\ at \in [Actors -> Steps]
        /\ saw \in [Actors -> Contents \cup {NoKey}] /\ mine \in [Actors -> Contents \cup {NoKey}]
        /\ todo \in [Actors -> SUBSET Contents]
    BY DEF Init, Steps
  <1>2. /\ scan \in [Contents \cup {NoKey} -> {"none", "pending", "clean", "infected", "unscanned"}]
        /\ number \in [Contents \cup {NoKey} -> Nat]
        /\ linked \in BOOLEAN
    BY DEF Init
  <1>3. /\ status = "none" /\ cur = NoKey /\ hist = {} /\ store = {} /\ fresh = Contents
        /\ used = 0 /\ others = 0 /\ job = "none" /\ onJob = {} /\ lapses = {} /\ faults = 0
    BY DEF Init
  <1>4. \A a \in Actors : at[a] = "idle" /\ todo[a] = {}
    BY DEF Init
  <1>5. IsFiniteSet({}) /\ hist = {}
    BY FS_EmptySet DEF Init
  <1>6. TypeOK
    BY <1>1, <1>2, <1>3 DEF TypeOK, Kept
  <1> QED
    BY <1>4, <1>5, <1>6 DEF LocalInv, Building, Parting

\* Type correctness of the document store: a key that a row lists is a real
\* object key, and every reservation is within the quota, however the requests,
\* the scans and the faults are interleaved (reserveStorage is one conditional
\* UPDATE, and bytes are given back at most once).
THEOREM TypeCorrect == Safety => []TypeOK
  <1>1. Init => TypeOK /\ LocalInv
    BY InitTypes
  <1>2. TypeOK /\ LocalInv /\ [Next]_vars => TypeOK' /\ LocalInv'
    <2>1. ASSUME TypeOK, LocalInv, [Next]_vars PROVE HoldsType' /\ TableType'
      BY <2>1, HoldsStep, TableStep
    <2> QED
      BY <2>1 DEF HoldsType, TableType, TypeOK, LocalInv, Kept
  <1> QED
    BY <1>1, <1>2, PTL DEF Safety

-----------------------------------------------------------------------------
(***************************************************************************)
(* Where the keys are.                                                     *)
(***************************************************************************)

LEMMA Moves ==
    ASSUME HoldsType, NEW a \in Actors, NEW step, NEW key, NEW object, NEW versions,
           GoTo(a, step, key, object, versions)
    PROVE  /\ at'[a] = step /\ saw'[a] = key /\ mine'[a] = object /\ todo'[a] = versions
           /\ \A b \in Actors \ {a} : /\ at'[b] = at[b] /\ saw'[b] = saw[b]
                                      /\ mine'[b] = mine[b] /\ todo'[b] = todo[b]
  BY DEF GoTo, HoldsType

\* A transaction that fails ends the request, or leaves a new object to clean up.
LEMMA FailEffect ==
    ASSUME HoldsType, NEW h \in Handlers, DatabaseFails(h)
    PROVE  /\ UNCHANGED <<row, store, fresh, lapses>>
           /\ at[h] # "idle"
           /\ \/ at'[h] \in {"idle", "prune"}
              \/ at[h] \in {"insert", "replace"} /\ at'[h] = "cleanup" /\ mine'[h] = mine[h]
           /\ \A b \in Actors \ {h} : at'[b] = at[b] /\ saw'[b] = saw[b] /\ mine'[b] = mine[b]
  <1>1. UNCHANGED <<row, store, fresh, lapses>>
    BY DEF DatabaseFails
  <1>2. CASE at[h] \in {"insert", "replace"} /\ GoTo(h, "cleanup", NoKey, mine[h], {})
    BY <1>1, <1>2, Who, Moves
  <1>3. CASE at[h] # "idle" /\ Return(h)
    BY <1>1, <1>3, Who, Moves DEF Return
  <1>4. ASSUME at[h] = "prune", NEW v \in todo[h], GoTo(h, "prune", NoKey, NoKey, todo[h] \ {v})
        PROVE  /\ at[h] # "idle" /\ at'[h] = "prune"
               /\ \A b \in Actors \ {h} : at'[b] = at[b] /\ saw'[b] = saw[b] /\ mine'[b] = mine[b]
    BY <1>4, Who, Moves
  <1> QED
    BY <1>1, <1>2, <1>3, <1>4 DEF DatabaseFails

\* Nobody else can begin anything while there is no row.
LEMMA LoneStep ==
    ASSUME HoldsType, TableType, LoneInv, PlaceInv, MalwareInv, StoredInv, [Next]_vars
    PROVE  LoneInv'
  <1> USE Who, Moves DEF NoFault, Fault, Begin, Return, LoneInv, row, bytes, queue, local,
              HoldsType, TableType, Building, Parting, Kept
  <1>1. ASSUME NEW h \in Handlers, NEW c \in Contents, BeginUpload(h, c)
        PROVE  LoneInv'
    BY <1>1 DEF BeginUpload
  <1>2. ASSUME NEW h \in Handlers, InsertDocument(h) \/ InsertRefused(h)
        PROVE  LoneInv'
    BY <1>2 DEF InsertDocument, InsertRefused
  <1>3. ASSUME NEW h \in Handlers, Lookup(h)
        PROVE  LoneInv'
    BY <1>3 DEF Lookup
  <1>4. ASSUME NEW h \in Handlers, LookupFails(h)
        PROVE  LoneInv'
    BY <1>4 DEF LookupFails
  <1>5. ASSUME NEW h \in Handlers, Cleanup(h)
        PROVE  LoneInv'
    BY <1>5 DEF Cleanup
  <1>6. ASSUME NEW h \in Handlers, NEW c \in Contents, BeginVersion(h, c)
        PROVE  LoneInv'
    BY <1>6 DEF BeginVersion
  <1>7. ASSUME NEW h \in Handlers, NEW v \in Contents, NEW c \in Contents,
               BeginRestoreVersion(h, v, c)
        PROVE  LoneInv'
    BY <1>7 DEF BeginRestoreVersion
  <1>8. ASSUME NEW h \in Handlers, Copy(h) \/ Replace(h) \/ ReplaceRefused(h) \/ ListBeyond(h)
        PROVE  LoneInv'
    BY <1>8 DEF Copy, Replace, ReplaceRefused, ListBeyond
  <1>9. ASSUME NEW h \in Handlers, NEW v \in Contents,
               BeginDeleteVersion(h, v) \/ RemoveVersion(h, v) \/ SkipVersion(h, v)
        PROVE  LoneInv'
    BY <1>9 DEF BeginDeleteVersion, RemoveVersion, SkipVersion
  <1>10. ASSUME NEW h \in Handlers, DropVersion(h)
        PROVE  LoneInv'
    BY <1>10 DEF DropVersion
  <1>11. ASSUME NEW h \in Handlers, EndPrune(h) \/ BeginRestore(h) \/ Probe(h) \/ Restore(h)
        PROVE  LoneInv'
    BY <1>11 DEF EndPrune, BeginRestore, Probe, Restore
  <1>12. ASSUME NEW h \in Handlers, BeginPurge(h) \/ VersionKeys(h)
        PROVE  LoneInv'
    BY <1>12 DEF BeginPurge, VersionKeys
  <1>13. ASSUME NEW h \in Handlers, NEW v \in Contents, PurgeVersion(h, v)
        PROVE  LoneInv'
    BY <1>13 DEF PurgeVersion
  <1>14. ASSUME NEW h \in Handlers,
               PurgeCurrent(h) \/ SumHistory(h) \/ HardDelete(h) \/ BeginLink(h)
        PROVE  LoneInv'
    BY <1>14 DEF PurgeCurrent, SumHistory, HardDelete, BeginLink
  <1>15. ASSUME NEW h \in Handlers, InsertLink(h) \/ StorageFails(h)
        PROVE  LoneInv'
    BY <1>15 DEF InsertLink, StorageFails
  <1>16. ASSUME NEW h \in Handlers, DatabaseFails(h)
        PROVE  LoneInv'
    BY <1>16, FailEffect
  <1>17. ASSUME NEW w \in Workers, ClaimScan(w) \/ ReadDocument(w) \/ Judge(w) \/ Erase(w)
        PROVE  LoneInv'
    BY <1>17 DEF ClaimScan, ReadDocument, Judge, Erase
  <1>18. ASSUME NEW w \in Workers, Settle(w)
        PROVE  LoneInv'
    BY <1>18 DEF Settle
  <1>19. ASSUME NEW w \in Workers, ScanFails(w)
        PROVE  LoneInv'
    BY <1>19 DEF ScanFails, GiveBack
  <1>20. ASSUME NEW w \in Workers, WorkerFails(w)
        PROVE  LoneInv'
    BY <1>20 DEF WorkerFails, GiveBack
  <1>21. ASSUME NEW a \in Actors, Crash(a)
        PROVE  LoneInv'
    BY <1>21 DEF Crash
  <1>22. CASE Trash \/ LeaseExpires \/ Overrun \/ RequeuePendingScans
    BY <1>22 DEF Trash, LeaseExpires, Overrun, RequeuePendingScans
  <1>23. ASSUME NEW n \in {1, Quota}, OthersStore(n)
        PROVE  LoneInv'
    BY <1>23 DEF OthersStore
  <1>24. CASE OthersRelease
    BY <1>24 DEF OthersRelease
  <1>25. CASE UNCHANGED vars
    BY <1>25 DEF vars
  <1> HIDE DEF NoFault, Fault, Begin, Return, LoneInv, row, bytes, queue, local, HoldsType,
              TableType, Building, Parting, Kept
  <1> QED
    BY <1>1, <1>2, <1>3, <1>4, <1>5, <1>6, <1>7, <1>8, <1>9, <1>10, <1>11,
       <1>12, <1>13, <1>14, <1>15, <1>16, <1>17, <1>18, <1>19, <1>20, <1>21,
       <1>22, <1>23, <1>24, <1>25
       DEF Next, UploadStep, VersionStep, TrashStep, ScanStep

\* Keys move from the fresh ones to one actor, and from there to one row.
LEMMA PlaceStep ==
    ASSUME HoldsType, TableType, LoneInv, PlaceInv, MalwareInv, StoredInv, [Next]_vars
    PROVE  PlaceInv'
  <1> USE Who, Moves DEF NoFault, Fault, Begin, Return, PlaceInv, row, bytes, queue, local,
              HoldsType, TableType, Building, Parting, Kept
  <1>1. ASSUME NEW h \in Handlers, NEW c \in Contents, BeginUpload(h, c)
        PROVE  PlaceInv'
    BY <1>1 DEF BeginUpload
  <1>2. ASSUME NEW h \in Handlers, InsertDocument(h) \/ InsertRefused(h)
        PROVE  PlaceInv'
    BY <1>2 DEF InsertDocument, InsertRefused
  <1>3. ASSUME NEW h \in Handlers, Lookup(h)
        PROVE  PlaceInv'
    BY <1>3 DEF Lookup
  <1>4. ASSUME NEW h \in Handlers, LookupFails(h)
        PROVE  PlaceInv'
    BY <1>4 DEF LookupFails
  <1>5. ASSUME NEW h \in Handlers, Cleanup(h)
        PROVE  PlaceInv'
    BY <1>5 DEF Cleanup
  <1>6. ASSUME NEW h \in Handlers, NEW c \in Contents, BeginVersion(h, c)
        PROVE  PlaceInv'
    BY <1>6 DEF BeginVersion
  <1>7. ASSUME NEW h \in Handlers, NEW v \in Contents, NEW c \in Contents,
               BeginRestoreVersion(h, v, c)
        PROVE  PlaceInv'
    BY <1>7 DEF BeginRestoreVersion
  <1>8. ASSUME NEW h \in Handlers, Copy(h)
        PROVE  PlaceInv'
    BY <1>8 DEF Copy
  <1>9. ASSUME NEW h \in Handlers, Replace(h)
        PROVE  PlaceInv'
    BY <1>9 DEF Replace, MayReplace, Current
  <1>10. ASSUME NEW h \in Handlers, ReplaceRefused(h) \/ ListBeyond(h)
        PROVE  PlaceInv'
    BY <1>10 DEF ReplaceRefused, ListBeyond
  <1>11. ASSUME NEW h \in Handlers, NEW v \in Contents,
               BeginDeleteVersion(h, v) \/ RemoveVersion(h, v) \/ SkipVersion(h, v)
        PROVE  PlaceInv'
    BY <1>11 DEF BeginDeleteVersion, RemoveVersion, SkipVersion
  <1>12. ASSUME NEW h \in Handlers, DropVersion(h)
        PROVE  PlaceInv'
    BY <1>12 DEF DropVersion
  <1>13. ASSUME NEW h \in Handlers, EndPrune(h) \/ BeginRestore(h) \/ Probe(h) \/ Restore(h)
        PROVE  PlaceInv'
    BY <1>13 DEF EndPrune, BeginRestore, Probe, Restore
  <1>14. ASSUME NEW h \in Handlers, BeginPurge(h) \/ VersionKeys(h)
        PROVE  PlaceInv'
    BY <1>14 DEF BeginPurge, VersionKeys
  <1>15. ASSUME NEW h \in Handlers, NEW v \in Contents, PurgeVersion(h, v)
        PROVE  PlaceInv'
    BY <1>15 DEF PurgeVersion
  <1>16. ASSUME NEW h \in Handlers,
               PurgeCurrent(h) \/ SumHistory(h) \/ HardDelete(h) \/ BeginLink(h)
        PROVE  PlaceInv'
    BY <1>16 DEF PurgeCurrent, SumHistory, HardDelete, BeginLink
  <1>17. ASSUME NEW h \in Handlers, InsertLink(h) \/ StorageFails(h)
        PROVE  PlaceInv'
    BY <1>17 DEF InsertLink, StorageFails
  <1>18. ASSUME NEW h \in Handlers, DatabaseFails(h)
        PROVE  PlaceInv'
    BY <1>18, FailEffect
  <1>19. ASSUME NEW w \in Workers, ClaimScan(w) \/ ReadDocument(w) \/ Judge(w) \/ Erase(w)
        PROVE  PlaceInv'
    BY <1>19 DEF ClaimScan, ReadDocument, Judge, Erase
  <1>20. ASSUME NEW w \in Workers, Settle(w)
        PROVE  PlaceInv'
    BY <1>20 DEF Settle
  <1>21. ASSUME NEW w \in Workers, ScanFails(w)
        PROVE  PlaceInv'
    BY <1>21 DEF ScanFails, GiveBack
  <1>22. ASSUME NEW w \in Workers, WorkerFails(w)
        PROVE  PlaceInv'
    BY <1>22 DEF WorkerFails, GiveBack
  <1>23. ASSUME NEW a \in Actors, Crash(a)
        PROVE  PlaceInv'
    BY <1>23 DEF Crash
  <1>24. CASE Trash \/ LeaseExpires \/ Overrun \/ RequeuePendingScans
    BY <1>24 DEF Trash, LeaseExpires, Overrun, RequeuePendingScans
  <1>25. ASSUME NEW n \in {1, Quota}, OthersStore(n)
        PROVE  PlaceInv'
    BY <1>25 DEF OthersStore
  <1>26. CASE OthersRelease
    BY <1>26 DEF OthersRelease
  <1>27. CASE UNCHANGED vars
    BY <1>27 DEF vars
  <1> HIDE DEF NoFault, Fault, Begin, Return, PlaceInv, row, bytes, queue, local, HoldsType,
              TableType, Building, Parting, Kept
  <1> QED
    BY <1>1, <1>2, <1>3, <1>4, <1>5, <1>6, <1>7, <1>8, <1>9, <1>10, <1>11,
       <1>12, <1>13, <1>14, <1>15, <1>16, <1>17, <1>18, <1>19, <1>20, <1>21,
       <1>22, <1>23, <1>24, <1>25, <1>26, <1>27
       DEF Next, UploadStep, VersionStep, TrashStep, ScanStep

\* Only the current content is judged.
LEMMA MalwareStep ==
    ASSUME HoldsType, TableType, LoneInv, PlaceInv, MalwareInv, StoredInv, [Next]_vars
    PROVE  MalwareInv'
  <1> USE Who, Moves DEF NoFault, Fault, Begin, Return, MalwareInv, row, bytes, queue, local,
              HoldsType, TableType, Building, Parting, Kept
  <1>1. ASSUME NEW h \in Handlers, NEW c \in Contents, BeginUpload(h, c)
        PROVE  MalwareInv'
    BY <1>1 DEF BeginUpload, PlaceInv, InitialScan
  <1>2. ASSUME NEW h \in Handlers, InsertDocument(h) \/ InsertRefused(h)
        PROVE  MalwareInv'
    BY <1>2 DEF InsertDocument, InsertRefused
  <1>3. ASSUME NEW h \in Handlers, Lookup(h)
        PROVE  MalwareInv'
    BY <1>3 DEF Lookup
  <1>4. ASSUME NEW h \in Handlers, LookupFails(h)
        PROVE  MalwareInv'
    BY <1>4 DEF LookupFails
  <1>5. ASSUME NEW h \in Handlers, Cleanup(h)
        PROVE  MalwareInv'
    BY <1>5 DEF Cleanup
  <1>6. ASSUME NEW h \in Handlers, NEW c \in Contents, BeginVersion(h, c)
        PROVE  MalwareInv'
    BY <1>6 DEF BeginVersion, PlaceInv, InitialScan
  <1>7. ASSUME NEW h \in Handlers, NEW v \in Contents, NEW c \in Contents,
               BeginRestoreVersion(h, v, c)
        PROVE  MalwareInv'
    BY <1>7 DEF BeginRestoreVersion
  <1>8. ASSUME NEW h \in Handlers, Copy(h) \/ Replace(h) \/ ReplaceRefused(h) \/ ListBeyond(h)
        PROVE  MalwareInv'
    BY <1>8 DEF Copy, Replace, ReplaceRefused, ListBeyond
  <1>9. ASSUME NEW h \in Handlers, NEW v \in Contents,
               BeginDeleteVersion(h, v) \/ RemoveVersion(h, v) \/ SkipVersion(h, v)
        PROVE  MalwareInv'
    BY <1>9 DEF BeginDeleteVersion, RemoveVersion, SkipVersion
  <1>10. ASSUME NEW h \in Handlers, DropVersion(h)
        PROVE  MalwareInv'
    BY <1>10 DEF DropVersion
  <1>11. ASSUME NEW h \in Handlers, EndPrune(h) \/ BeginRestore(h) \/ Probe(h) \/ Restore(h)
        PROVE  MalwareInv'
    BY <1>11 DEF EndPrune, BeginRestore, Probe, Restore
  <1>12. ASSUME NEW h \in Handlers, BeginPurge(h) \/ VersionKeys(h)
        PROVE  MalwareInv'
    BY <1>12 DEF BeginPurge, VersionKeys
  <1>13. ASSUME NEW h \in Handlers, NEW v \in Contents, PurgeVersion(h, v)
        PROVE  MalwareInv'
    BY <1>13 DEF PurgeVersion
  <1>14. ASSUME NEW h \in Handlers,
               PurgeCurrent(h) \/ SumHistory(h) \/ HardDelete(h) \/ BeginLink(h)
        PROVE  MalwareInv'
    BY <1>14 DEF PurgeCurrent, SumHistory, HardDelete, BeginLink
  <1>15. ASSUME NEW h \in Handlers, InsertLink(h) \/ StorageFails(h)
        PROVE  MalwareInv'
    BY <1>15 DEF InsertLink, StorageFails
  <1>16. ASSUME NEW h \in Handlers, DatabaseFails(h)
        PROVE  MalwareInv'
    BY <1>16, FailEffect
  <1>17. ASSUME NEW w \in Workers, ClaimScan(w) \/ ReadDocument(w)
        PROVE  MalwareInv'
    BY <1>17 DEF ClaimScan, ReadDocument
  <1>18. ASSUME NEW w \in Workers, Judge(w)
        PROVE  MalwareInv'
    BY <1>18 DEF Judge, PlaceInv, Judges, Verdict
  <1>19. ASSUME NEW w \in Workers, Erase(w) \/ Settle(w)
        PROVE  MalwareInv'
    BY <1>19 DEF Erase, Settle
  <1>20. ASSUME NEW w \in Workers, ScanFails(w)
        PROVE  MalwareInv'
    BY <1>20 DEF ScanFails, GiveBack
  <1>21. ASSUME NEW w \in Workers, WorkerFails(w)
        PROVE  MalwareInv'
    BY <1>21 DEF WorkerFails, GiveBack
  <1>22. ASSUME NEW a \in Actors, Crash(a)
        PROVE  MalwareInv'
    BY <1>22 DEF Crash
  <1>23. CASE Trash \/ LeaseExpires \/ Overrun \/ RequeuePendingScans
    BY <1>23 DEF Trash, LeaseExpires, Overrun, RequeuePendingScans
  <1>24. ASSUME NEW n \in {1, Quota}, OthersStore(n)
        PROVE  MalwareInv'
    BY <1>24 DEF OthersStore
  <1>25. CASE OthersRelease
    BY <1>25 DEF OthersRelease
  <1>26. CASE UNCHANGED vars
    BY <1>26 DEF vars
  <1> HIDE DEF NoFault, Fault, Begin, Return, MalwareInv, row, bytes, queue, local, HoldsType,
              TableType, Building, Parting, Kept
  <1> QED
    BY <1>1, <1>2, <1>3, <1>4, <1>5, <1>6, <1>7, <1>8, <1>9, <1>10, <1>11,
       <1>12, <1>13, <1>14, <1>15, <1>16, <1>17, <1>18, <1>19, <1>20, <1>21,
       <1>22, <1>23, <1>24, <1>25, <1>26
       DEF Next, UploadStep, VersionStep, TrashStep, ScanStep

\* Nothing deletes an object that somebody is about to commit.
LEMMA StoredStep ==
    ASSUME HoldsType, TableType, LoneInv, PlaceInv, MalwareInv, StoredInv, [Next]_vars
    PROVE  StoredInv'
  <1> USE Who, Moves DEF NoFault, Fault, Begin, Return, StoredInv, row, bytes, queue, local,
              HoldsType, TableType, Building, Parting, Kept
  <1>1. ASSUME NEW h \in Handlers, NEW c \in Contents, BeginUpload(h, c)
        PROVE  StoredInv'
    BY <1>1 DEF BeginUpload, PlaceInv
  <1>2. ASSUME NEW h \in Handlers, InsertDocument(h)
        PROVE  StoredInv'
    BY <1>2 DEF InsertDocument, PlaceInv
  <1>3. ASSUME NEW h \in Handlers, InsertRefused(h)
        PROVE  StoredInv'
    BY <1>3 DEF InsertRefused, PlaceInv, LoneInv
  <1>4. ASSUME NEW h \in Handlers, Lookup(h)
        PROVE  StoredInv'
    BY <1>4 DEF Lookup
  <1>5. ASSUME NEW h \in Handlers, LookupFails(h)
        PROVE  StoredInv'
    BY <1>5 DEF LookupFails
  <1>6. ASSUME NEW h \in Handlers, Cleanup(h)
        PROVE  StoredInv'
    BY <1>6 DEF Cleanup, PlaceInv
  <1>7. ASSUME NEW h \in Handlers, NEW c \in Contents, BeginVersion(h, c)
        PROVE  StoredInv'
    BY <1>7 DEF BeginVersion, PlaceInv
  <1>8. ASSUME NEW h \in Handlers, NEW v \in Contents, NEW c \in Contents,
               BeginRestoreVersion(h, v, c)
        PROVE  StoredInv'
    BY <1>8 DEF BeginRestoreVersion
  <1>9. ASSUME NEW h \in Handlers, Copy(h)
        PROVE  StoredInv'
    BY <1>9 DEF Copy
  <1>10. ASSUME NEW h \in Handlers, Replace(h)
        PROVE  StoredInv'
    <2>1. /\ UNCHANGED <<status, store, lapses>> /\ Kept /\ Kept'
          /\ hist' \subseteq hist \cup {cur} /\ cur' = mine[h]
      BY <1>10 DEF Replace, MayReplace, Current
    <2>2. /\ at[h] = "replace" /\ at'[h] = "beyond"
          /\ \A b \in Actors \ {h} : at'[b] = at[b] /\ mine'[b] = mine[b]
      BY <1>10 DEF Replace
    <2> QED
      BY <2>1, <2>2 DEF PlaceInv
  <1>11. ASSUME NEW h \in Handlers, ReplaceRefused(h)
        PROVE  StoredInv'
    BY <1>11 DEF ReplaceRefused, PlaceInv
  <1>12. ASSUME NEW h \in Handlers, ListBeyond(h)
        PROVE  StoredInv'
    BY <1>12 DEF ListBeyond
  <1>13. ASSUME NEW h \in Handlers, NEW v \in Contents, BeginDeleteVersion(h, v)
        PROVE  StoredInv'
    BY <1>13 DEF BeginDeleteVersion
  <1>14. ASSUME NEW h \in Handlers, NEW v \in Contents, RemoveVersion(h, v)
        PROVE  StoredInv'
    BY <1>14 DEF RemoveVersion, PlaceInv
  <1>15. ASSUME NEW h \in Handlers, NEW v \in Contents, SkipVersion(h, v)
        PROVE  StoredInv'
    BY <1>15 DEF SkipVersion
  <1>16. ASSUME NEW h \in Handlers, DropVersion(h)
        PROVE  StoredInv'
    BY <1>16 DEF DropVersion, PlaceInv
  <1>17. ASSUME NEW h \in Handlers, EndPrune(h) \/ BeginRestore(h) \/ Probe(h) \/ Restore(h)
        PROVE  StoredInv'
    BY <1>17 DEF EndPrune, BeginRestore, Probe, Restore
  <1>18. ASSUME NEW h \in Handlers, BeginPurge(h) \/ VersionKeys(h)
        PROVE  StoredInv'
    BY <1>18 DEF BeginPurge, VersionKeys
  <1>19. ASSUME NEW h \in Handlers, NEW v \in Contents, PurgeVersion(h, v)
        PROVE  StoredInv'
    BY <1>19 DEF PurgeVersion
  <1>20. ASSUME NEW h \in Handlers,
               PurgeCurrent(h) \/ SumHistory(h) \/ HardDelete(h) \/ BeginLink(h)
        PROVE  StoredInv'
    BY <1>20 DEF PurgeCurrent, SumHistory, HardDelete, BeginLink
  <1>21. ASSUME NEW h \in Handlers, InsertLink(h) \/ StorageFails(h)
        PROVE  StoredInv'
    BY <1>21 DEF InsertLink, StorageFails
  <1>22. ASSUME NEW h \in Handlers, DatabaseFails(h)
        PROVE  StoredInv'
    BY <1>22, FailEffect DEF PlaceInv
  <1>23. ASSUME NEW w \in Workers, ClaimScan(w) \/ ReadDocument(w) \/ Judge(w)
        PROVE  StoredInv'
    BY <1>23 DEF ClaimScan, ReadDocument, Judge
  <1>24. ASSUME NEW w \in Workers, Erase(w)
        PROVE  StoredInv'
    BY <1>24 DEF Erase, MalwareInv
  <1>25. ASSUME NEW w \in Workers, Settle(w)
        PROVE  StoredInv'
    BY <1>25 DEF Settle
  <1>26. ASSUME NEW w \in Workers, ScanFails(w)
        PROVE  StoredInv'
    BY <1>26 DEF ScanFails, GiveBack
  <1>27. ASSUME NEW w \in Workers, WorkerFails(w)
        PROVE  StoredInv'
    BY <1>27 DEF WorkerFails, GiveBack
  <1>28. ASSUME NEW a \in Actors, Crash(a)
        PROVE  StoredInv'
    BY <1>28 DEF Crash
  <1>29. CASE Trash \/ LeaseExpires \/ Overrun \/ RequeuePendingScans
    BY <1>29 DEF Trash, LeaseExpires, Overrun, RequeuePendingScans
  <1>30. ASSUME NEW n \in {1, Quota}, OthersStore(n)
        PROVE  StoredInv'
    BY <1>30 DEF OthersStore
  <1>31. CASE OthersRelease
    BY <1>31 DEF OthersRelease
  <1>32. CASE UNCHANGED vars
    BY <1>32 DEF vars
  <1> HIDE DEF NoFault, Fault, Begin, Return, StoredInv, row, bytes, queue, local, HoldsType,
              TableType, Building, Parting, Kept
  <1> QED
    BY <1>1, <1>2, <1>3, <1>4, <1>5, <1>6, <1>7, <1>8, <1>9, <1>10, <1>11,
       <1>12, <1>13, <1>14, <1>15, <1>16, <1>17, <1>18, <1>19, <1>20, <1>21,
       <1>22, <1>23, <1>24, <1>25, <1>26, <1>27, <1>28, <1>29, <1>30, <1>31,
       <1>32
       DEF Next, UploadStep, VersionStep, TrashStep, ScanStep

\* The inductive invariant.
IInv == TypeOK /\ LocalInv /\ LoneInv /\ PlaceInv /\ MalwareInv /\ StoredInv

LEMMA InvariantHolds == Safety => []IInv
  <1>1. ASSUME Init PROVE IInv
    <2>1. TypeOK /\ LocalInv
      BY <1>1, InitTypes
    <2>2. \A a \in Actors : at[a] = "idle"
      BY <1>1 DEF Init
    <2>3. ~ Kept /\ hist = {} /\ \A c \in Contents : scan[c] = "none"
      BY <1>1 DEF Init, Kept
    <2>4. Handlers \subseteq Actors /\ fresh = Contents
      BY <1>1, Who DEF Init
    <2> QED
      BY <2>1, <2>2, <2>3, <2>4
         DEF IInv, LoneInv, PlaceInv, MalwareInv, StoredInv, Building, Parting
  <1>2. IInv /\ [Next]_vars => IInv'
    <2>1. ASSUME IInv, [Next]_vars PROVE IInv'
      <3>1. HoldsType /\ TableType /\ LoneInv /\ PlaceInv /\ MalwareInv /\ StoredInv
        BY <2>1, TypeHalves DEF IInv
      <3>2. HoldsType' /\ TableType'
        BY <2>1, HoldsStep, TableStep DEF IInv
      <3>3. TypeOK' /\ LocalInv'
        BY <3>2 DEF HoldsType, TableType, TypeOK, LocalInv, Kept
      <3>4. LoneInv' /\ PlaceInv' /\ MalwareInv' /\ StoredInv'
        BY <2>1, <3>1, LoneStep, PlaceStep, MalwareStep, StoredStep
      <3> QED
        BY <3>3, <3>4 DEF IInv
    <2> QED
      BY <2>1
  <1> QED
    BY <1>1, <1>2, PTL DEF Safety

-----------------------------------------------------------------------------
(***************************************************************************)
(* What a scan says, what is kept, and what is charged.                    *)
(***************************************************************************)

LEMMA VerdictsStep ==
    ASSUME TableType, VerdictsEarned, [Next]_vars
    PROVE  VerdictsEarned'
  <1> USE DEF VerdictsEarned, row, TableType
  <1>1. ASSUME NEW h \in Handlers, NEW c \in Contents, BeginUpload(h, c)
        PROVE  VerdictsEarned'
    BY <1>1 DEF BeginUpload, InitialScan
  <1>2. ASSUME NEW h \in Handlers,
               InsertDocument(h) \/ InsertRefused(h) \/ Lookup(h) \/ LookupFails(h)
        PROVE  VerdictsEarned'
    BY <1>2 DEF InsertDocument, InsertRefused, Lookup, LookupFails
  <1>3. ASSUME NEW h \in Handlers, Cleanup(h)
        PROVE  VerdictsEarned'
    BY <1>3 DEF Cleanup
  <1>4. ASSUME NEW h \in Handlers, NEW c \in Contents, BeginVersion(h, c)
        PROVE  VerdictsEarned'
    BY <1>4 DEF BeginVersion, InitialScan
  <1>5. ASSUME NEW h \in Handlers, NEW v \in Contents, NEW c \in Contents,
               BeginRestoreVersion(h, v, c)
        PROVE  VerdictsEarned'
    BY <1>5 DEF BeginRestoreVersion
  <1>6. ASSUME NEW h \in Handlers, Copy(h) \/ Replace(h) \/ ReplaceRefused(h) \/ ListBeyond(h)
        PROVE  VerdictsEarned'
    BY <1>6 DEF Copy, Replace, ReplaceRefused, ListBeyond
  <1>7. ASSUME NEW h \in Handlers, NEW v \in Contents,
               BeginDeleteVersion(h, v) \/ RemoveVersion(h, v) \/ SkipVersion(h, v)
        PROVE  VerdictsEarned'
    BY <1>7 DEF BeginDeleteVersion, RemoveVersion, SkipVersion
  <1>8. ASSUME NEW h \in Handlers, DropVersion(h) \/ EndPrune(h) \/ BeginRestore(h) \/ Probe(h)
        PROVE  VerdictsEarned'
    BY <1>8 DEF DropVersion, EndPrune, BeginRestore, Probe
  <1>9. ASSUME NEW h \in Handlers, Restore(h) \/ BeginPurge(h) \/ VersionKeys(h)
        PROVE  VerdictsEarned'
    BY <1>9 DEF Restore, BeginPurge, VersionKeys
  <1>10. ASSUME NEW h \in Handlers, NEW v \in Contents, PurgeVersion(h, v)
        PROVE  VerdictsEarned'
    BY <1>10 DEF PurgeVersion
  <1>11. ASSUME NEW h \in Handlers,
               PurgeCurrent(h) \/ SumHistory(h) \/ HardDelete(h) \/ BeginLink(h)
        PROVE  VerdictsEarned'
    BY <1>11 DEF PurgeCurrent, SumHistory, HardDelete, BeginLink
  <1>12. ASSUME NEW h \in Handlers, InsertLink(h) \/ StorageFails(h) \/ DatabaseFails(h)
        PROVE  VerdictsEarned'
    BY <1>12 DEF InsertLink, StorageFails, DatabaseFails
  <1>13. ASSUME NEW w \in Workers, ClaimScan(w) \/ ReadDocument(w)
        PROVE  VerdictsEarned'
    BY <1>13 DEF ClaimScan, ReadDocument
  <1>14. ASSUME NEW w \in Workers, Judge(w)
        PROVE  VerdictsEarned'
    BY <1>14 DEF Judge, Judges, Verdict
  <1>15. ASSUME NEW w \in Workers, Erase(w) \/ Settle(w)
        PROVE  VerdictsEarned'
    BY <1>15 DEF Erase, Settle
  <1>16. ASSUME NEW w \in Workers, ScanFails(w)
        PROVE  VerdictsEarned'
    BY <1>16 DEF ScanFails, GiveBack
  <1>17. ASSUME NEW w \in Workers, WorkerFails(w)
        PROVE  VerdictsEarned'
    BY <1>17 DEF WorkerFails, GiveBack
  <1>18. ASSUME NEW a \in Actors, Crash(a)
        PROVE  VerdictsEarned'
    BY <1>18 DEF Crash
  <1>19. CASE Trash \/ LeaseExpires \/ Overrun \/ RequeuePendingScans
    BY <1>19 DEF Trash, LeaseExpires, Overrun, RequeuePendingScans
  <1>20. ASSUME NEW n \in {1, Quota}, OthersStore(n)
        PROVE  VerdictsEarned'
    BY <1>20 DEF OthersStore
  <1>21. CASE OthersRelease
    BY <1>21 DEF OthersRelease
  <1>22. CASE UNCHANGED vars
    BY <1>22 DEF vars
  <1> HIDE DEF VerdictsEarned, row, TableType
  <1> QED
    BY <1>1, <1>2, <1>3, <1>4, <1>5, <1>6, <1>7, <1>8, <1>9, <1>10, <1>11,
       <1>12, <1>13, <1>14, <1>15, <1>16, <1>17, <1>18, <1>19, <1>20, <1>21,
       <1>22
       DEF Next, UploadStep, VersionStep, TrashStep, ScanStep

\* A content is called clean only by a scan that looked at it, or as the copy of
\* one that was, whatever jobs are run twice and whatever replaces the file
\* while it is scanned (WHERE storage_key = $2 AND scan_status = 'pending').
THEOREM VerdictsHold == Safety => []VerdictsEarned
  <1>1. Init => VerdictsEarned
    BY DEF Init, VerdictsEarned
  <1>2. IInv /\ VerdictsEarned /\ [Next]_vars => VerdictsEarned'
    BY VerdictsStep, TypeHalves DEF IInv
  <1> QED
    BY <1>1, <1>2, InvariantHolds, PTL DEF Safety

\* Every deletion is of an object that no row lists.
LEMMA BytesStep ==
    ASSUME HoldsType, TableType, LoneInv, PlaceInv, MalwareInv, StoredInv, BytesKept, [Next]_vars
    PROVE  BytesKept'
  <1> USE Who DEF BytesKept, Quarantined, Kept, NoFault, Fault, row, TableType
  <1>1. ASSUME NEW h \in Handlers, NEW c \in Contents, BeginUpload(h, c)
        PROVE  BytesKept'
    BY <1>1 DEF BeginUpload, PlaceInv
  <1>2. ASSUME NEW h \in Handlers, InsertDocument(h)
        PROVE  BytesKept'
    BY <1>2 DEF InsertDocument, PlaceInv, LoneInv, StoredInv, MalwareInv
  <1>3. ASSUME NEW h \in Handlers, InsertRefused(h) \/ Lookup(h) \/ LookupFails(h)
        PROVE  BytesKept'
    BY <1>3 DEF InsertRefused, Lookup, LookupFails
  <1>4. ASSUME NEW h \in Handlers, Cleanup(h)
        PROVE  BytesKept'
    BY <1>4 DEF Cleanup, StoredInv, Parting
  <1>5. ASSUME NEW h \in Handlers, NEW c \in Contents, BeginVersion(h, c)
        PROVE  BytesKept'
    BY <1>5 DEF BeginVersion, PlaceInv
  <1>6. ASSUME NEW h \in Handlers, NEW v \in Contents, NEW c \in Contents,
               BeginRestoreVersion(h, v, c)
        PROVE  BytesKept'
    BY <1>6 DEF BeginRestoreVersion, PlaceInv
  <1>7. ASSUME NEW h \in Handlers, Copy(h)
        PROVE  BytesKept'
    BY <1>7 DEF Copy
  <1>8. ASSUME NEW h \in Handlers, Replace(h)
        PROVE  BytesKept'
    BY <1>8 DEF Replace, MayReplace, Current, StoredInv, PlaceInv, MalwareInv, Building
  <1>9. ASSUME NEW h \in Handlers, ReplaceRefused(h) \/ ListBeyond(h)
        PROVE  BytesKept'
    BY <1>9 DEF ReplaceRefused, ListBeyond
  <1>10. ASSUME NEW h \in Handlers, NEW v \in Contents, BeginDeleteVersion(h, v)
        PROVE  BytesKept'
    BY <1>10 DEF BeginDeleteVersion
  <1>11. ASSUME NEW h \in Handlers, NEW v \in Contents, RemoveVersion(h, v)
        PROVE  BytesKept'
    BY <1>11 DEF RemoveVersion, PlaceInv
  <1>12. ASSUME NEW h \in Handlers, NEW v \in Contents, SkipVersion(h, v)
        PROVE  BytesKept'
    BY <1>12 DEF SkipVersion
  <1>13. ASSUME NEW h \in Handlers, DropVersion(h)
        PROVE  BytesKept'
    BY <1>13 DEF DropVersion, StoredInv, Parting
  <1>14. ASSUME NEW h \in Handlers, EndPrune(h) \/ BeginRestore(h) \/ Probe(h) \/ Restore(h)
        PROVE  BytesKept'
    BY <1>14 DEF EndPrune, BeginRestore, Probe, Restore
  <1>15. ASSUME NEW h \in Handlers, BeginPurge(h) \/ VersionKeys(h)
        PROVE  BytesKept'
    BY <1>15 DEF BeginPurge, VersionKeys
  <1>16. ASSUME NEW h \in Handlers, NEW v \in Contents, PurgeVersion(h, v)
        PROVE  BytesKept'
    BY <1>16 DEF PurgeVersion
  <1>17. ASSUME NEW h \in Handlers,
               PurgeCurrent(h) \/ SumHistory(h) \/ HardDelete(h) \/ BeginLink(h)
        PROVE  BytesKept'
    BY <1>17 DEF PurgeCurrent, SumHistory, HardDelete, BeginLink
  <1>18. ASSUME NEW h \in Handlers, InsertLink(h) \/ StorageFails(h) \/ DatabaseFails(h)
        PROVE  BytesKept'
    BY <1>18 DEF InsertLink, StorageFails, DatabaseFails
  <1>19. ASSUME NEW w \in Workers, ClaimScan(w) \/ ReadDocument(w)
        PROVE  BytesKept'
    BY <1>19 DEF ClaimScan, ReadDocument
  <1>20. ASSUME NEW w \in Workers, Judge(w)
        PROVE  BytesKept'
    BY <1>20 DEF Judge, Judges, Verdict, PlaceInv
  <1>21. ASSUME NEW w \in Workers, Erase(w)
        PROVE  BytesKept'
    BY <1>21 DEF Erase, MalwareInv
  <1>22. ASSUME NEW w \in Workers, Settle(w)
        PROVE  BytesKept'
    BY <1>22 DEF Settle
  <1>23. ASSUME NEW w \in Workers, ScanFails(w)
        PROVE  BytesKept'
    BY <1>23 DEF ScanFails, GiveBack
  <1>24. ASSUME NEW w \in Workers, WorkerFails(w)
        PROVE  BytesKept'
    BY <1>24 DEF WorkerFails, GiveBack
  <1>25. ASSUME NEW a \in Actors, Crash(a)
        PROVE  BytesKept'
    BY <1>25 DEF Crash
  <1>26. CASE Trash \/ LeaseExpires \/ Overrun \/ RequeuePendingScans
    BY <1>26 DEF Trash, LeaseExpires, Overrun, RequeuePendingScans
  <1>27. ASSUME NEW n \in {1, Quota}, OthersStore(n)
        PROVE  BytesKept'
    BY <1>27 DEF OthersStore
  <1>28. CASE OthersRelease
    BY <1>28 DEF OthersRelease
  <1>29. CASE UNCHANGED vars
    BY <1>29 DEF vars
  <1> HIDE DEF BytesKept, Quarantined, Kept, NoFault, Fault, row, TableType
  <1> QED
    BY <1>1, <1>2, <1>3, <1>4, <1>5, <1>6, <1>7, <1>8, <1>9, <1>10, <1>11,
       <1>12, <1>13, <1>14, <1>15, <1>16, <1>17, <1>18, <1>19, <1>20, <1>21,
       <1>22, <1>23, <1>24, <1>25, <1>26, <1>27, <1>28, <1>29
       DEF Next, UploadStep, VersionStep, TrashStep, ScanStep

\* As long as no purge deletes objects and no committed upload is taken for
\* failed, storage has every version that is listed and the current content:
\* pruning, quarantine, refused versions, crashes and failures of storage and
\* database at any step never delete an object that a row points at.
THEOREM BytesHold == Safety => []BytesKept
  <1>1. Init => BytesKept
    BY DEF Init, BytesKept, Kept
  <1>2. IInv /\ BytesKept /\ [Next]_vars => BytesKept'
    BY BytesStep, TypeHalves DEF IInv
  <1> QED
    BY <1>1, <1>2, InvariantHolds, PTL DEF Safety

\* Every step that changes what is listed changes the counter by as much.
LEMMA ChargeStep ==
    ASSUME HoldsType, TableType, LoneInv, PlaceInv, MalwareInv, StoredInv, ChargeExact, [Next]_vars
    PROVE  ChargeExact'
  <1> USE Who DEF ChargeExact, ChargedBytes, Quarantined, Kept, NoFault, Fault, row, bytes,
              TableType
  <1>1. ASSUME NEW h \in Handlers, NEW c \in Contents, BeginUpload(h, c)
        PROVE  ChargeExact'
    BY <1>1 DEF BeginUpload, PlaceInv
  <1>2. ASSUME NEW h \in Handlers, InsertDocument(h)
        PROVE  ChargeExact'
    <2>1. /\ ~ Kept /\ hist = {} /\ hist' = {}
          /\ status' = "live" /\ cur' = mine[h] /\ scan[mine[h]] # "infected"
      BY <1>2 DEF InsertDocument, LoneInv, PlaceInv, MalwareInv, Building
    <2>2. UNCHANGED <<scan, others, lapses>> /\ used' = used + 1
      BY <1>2 DEF InsertDocument
    <2>3. Cardinality({}) = 0
      BY FS_EmptySet
    <2> QED
      BY <2>1, <2>2, <2>3
  <1>3. ASSUME NEW h \in Handlers, InsertRefused(h) \/ Lookup(h) \/ LookupFails(h) \/ Cleanup(h)
        PROVE  ChargeExact'
    BY <1>3 DEF InsertRefused, Lookup, LookupFails, Cleanup
  <1>4. ASSUME NEW h \in Handlers, NEW c \in Contents, BeginVersion(h, c)
        PROVE  ChargeExact'
    BY <1>4 DEF BeginVersion, PlaceInv
  <1>5. ASSUME NEW h \in Handlers, NEW v \in Contents, NEW c \in Contents,
               BeginRestoreVersion(h, v, c)
        PROVE  ChargeExact'
    BY <1>5 DEF BeginRestoreVersion, PlaceInv
  <1>6. ASSUME NEW h \in Handlers, Copy(h)
        PROVE  ChargeExact'
    BY <1>6 DEF Copy
  <1>7. ASSUME NEW h \in Handlers, Replace(h)
        PROVE  ChargeExact'
    <2>1. UNCHANGED <<status, scan, others, lapses>> /\ used' = used + 1
      BY <1>7 DEF Replace
    <2>2. /\ Kept /\ cur \notin hist /\ cur' = mine[h] /\ scan[mine[h]] # "infected"
      BY <1>7 DEF Replace, MayReplace, Current, PlaceInv, MalwareInv, Building
    <2>3. hist' = IF scan[cur] = "infected" THEN hist ELSE hist \cup {cur}
      BY <1>7 DEF Replace
    <2>4. Cardinality(hist \cup {cur}) = Cardinality(hist) + 1 /\ Cardinality(hist) \in Nat
      BY <2>2, FS_AddElement, FS_CardinalityType
    <2> QED
      BY <2>1, <2>2, <2>3, <2>4
  <1>8. ASSUME NEW h \in Handlers, ReplaceRefused(h) \/ ListBeyond(h)
        PROVE  ChargeExact'
    BY <1>8 DEF ReplaceRefused, ListBeyond
  <1>9. ASSUME NEW h \in Handlers, NEW v \in Contents, BeginDeleteVersion(h, v)
        PROVE  ChargeExact'
    BY <1>9 DEF BeginDeleteVersion
  <1>10. ASSUME NEW h \in Handlers, NEW v \in Contents, RemoveVersion(h, v)
        PROVE  ChargeExact'
    <2>1. /\ UNCHANGED <<status, cur, scan, others, lapses>>
          /\ used' = Less(1) /\ v \in hist /\ hist' = hist \ {v}
      BY <1>10 DEF RemoveVersion
    <2>2. Kept
      BY <2>1 DEF PlaceInv
    <2>3. Cardinality(hist \ {v}) = Cardinality(hist) - 1
          /\ Cardinality(hist) \in Nat /\ Cardinality(hist \ {v}) \in Nat
      BY <2>1, FS_RemoveElement, FS_CardinalityType
    <2>4. ChargedBytes' = ChargedBytes - 1 /\ ChargedBytes \in Nat \ {0}
      BY <2>1, <2>2, <2>3
    <2> HIDE DEF ChargedBytes
    <2> QED
      BY <2>1, <2>4 DEF Less
  <1>11. ASSUME NEW h \in Handlers, NEW v \in Contents, SkipVersion(h, v)
        PROVE  ChargeExact'
    BY <1>11 DEF SkipVersion
  <1>12. ASSUME NEW h \in Handlers, DropVersion(h) \/ EndPrune(h) \/ BeginRestore(h) \/ Probe(h)
        PROVE  ChargeExact'
    BY <1>12 DEF DropVersion, EndPrune, BeginRestore, Probe
  <1>13. ASSUME NEW h \in Handlers, Restore(h) \/ BeginPurge(h) \/ VersionKeys(h)
        PROVE  ChargeExact'
    BY <1>13 DEF Restore, BeginPurge, VersionKeys
  <1>14. ASSUME NEW h \in Handlers, NEW v \in Contents, PurgeVersion(h, v)
        PROVE  ChargeExact'
    BY <1>14 DEF PurgeVersion
  <1>15. ASSUME NEW h \in Handlers, PurgeCurrent(h) \/ SumHistory(h)
        PROVE  ChargeExact'
    BY <1>15 DEF PurgeCurrent, SumHistory
  <1>16. ASSUME NEW h \in Handlers, HardDelete(h)
        PROVE  ChargeExact'
    <2>1. CASE status # "trashed"
      BY <1>16, <2>1 DEF HardDelete
    <2>2. CASE status = "trashed" /\ todo[h] # hist
      BY <1>16, <2>2 DEF HardDelete
    <2>3. ASSUME status = "trashed", todo[h] = hist
          PROVE  ChargeExact'
      <3>1. Cardinality(hist) \in Nat /\ Given(h) = ChargedBytes
        BY <2>3, FS_CardinalityType DEF Given
      <3>2. ~ Kept' /\ used' = Less(Given(h)) /\ UNCHANGED <<others, lapses>>
        BY <1>16, <2>3 DEF HardDelete
      <3> QED
        BY <3>1, <3>2, <2>3 DEF Less
    <2> QED
      BY <2>1, <2>2, <2>3
  <1>17. ASSUME NEW h \in Handlers,
               BeginLink(h) \/ InsertLink(h) \/ StorageFails(h) \/ DatabaseFails(h)
        PROVE  ChargeExact'
    BY <1>17 DEF BeginLink, InsertLink, StorageFails, DatabaseFails
  <1>18. ASSUME NEW w \in Workers, ClaimScan(w) \/ ReadDocument(w)
        PROVE  ChargeExact'
    BY <1>18 DEF ClaimScan, ReadDocument
  <1>19. ASSUME NEW w \in Workers, Judge(w)
        PROVE  ChargeExact'
    <2>1. CASE Judges(w) /\ Verdict(saw[w]) = "infected"
      <3>1. /\ Kept /\ scan[cur] = "pending" /\ scan'[cur] = "infected"
            /\ used' = Less(1) /\ UNCHANGED <<status, cur, hist, others, lapses>>
        BY <1>19, <2>1 DEF Judge, Judges
      <3>2. Cardinality(hist) \in Nat
        BY FS_CardinalityType
      <3> QED
        BY <3>1, <3>2 DEF Less
    <2>2. CASE ~ (Judges(w) /\ Verdict(saw[w]) = "infected")
      BY <1>19, <2>2 DEF Judge, Judges, Verdict
    <2> QED
      BY <2>1, <2>2
  <1>20. ASSUME NEW w \in Workers, Erase(w) \/ Settle(w)
        PROVE  ChargeExact'
    BY <1>20 DEF Erase, Settle
  <1>21. ASSUME NEW w \in Workers, ScanFails(w)
        PROVE  ChargeExact'
    BY <1>21 DEF ScanFails, GiveBack
  <1>22. ASSUME NEW w \in Workers, WorkerFails(w)
        PROVE  ChargeExact'
    BY <1>22 DEF WorkerFails, GiveBack
  <1>23. ASSUME NEW a \in Actors, Crash(a)
        PROVE  ChargeExact'
    BY <1>23 DEF Crash
  <1>24. CASE Trash \/ LeaseExpires \/ Overrun \/ RequeuePendingScans
    BY <1>24 DEF Trash, LeaseExpires, Overrun, RequeuePendingScans
  <1>25. ASSUME NEW n \in {1, Quota}, OthersStore(n)
        PROVE  ChargeExact'
    <2>1. ChargedBytes \in Nat
      BY FS_CardinalityType
    <2>2. ChargedBytes' = ChargedBytes
      BY <1>25 DEF OthersStore
    <2> HIDE DEF ChargedBytes
    <2> QED
      BY <1>25, <2>1, <2>2 DEF OthersStore
  <1>26. CASE OthersRelease
    <2>1. ChargedBytes \in Nat
      BY FS_CardinalityType
    <2> QED
      BY <1>26, <2>1 DEF OthersRelease, Less
  <1>27. CASE UNCHANGED vars
    BY <1>27 DEF vars
  <1> HIDE DEF ChargeExact, ChargedBytes, Quarantined, Kept, NoFault, Fault, row, bytes,
              TableType
  <1> QED
    BY <1>1, <1>2, <1>3, <1>4, <1>5, <1>6, <1>7, <1>8, <1>9, <1>10, <1>11,
       <1>12, <1>13, <1>14, <1>15, <1>16, <1>17, <1>18, <1>19, <1>20, <1>21,
       <1>22, <1>23, <1>24, <1>25, <1>26, <1>27
       DEF Next, UploadStep, VersionStep, TrashStep, ScanStep

\* The workspace is charged for exactly what the document holds, once each,
\* through every interleaving of uploads, versions, quarantine, pruning and
\* deletion, but for a history that changes inside hardDelete.
THEOREM ChargeHolds == Safety => []ChargeExact
  <1>1. Init => ChargeExact
    BY DEF Init, ChargeExact, ChargedBytes, Kept
  <1>2. IInv /\ ChargeExact /\ [Next]_vars => ChargeExact'
    BY ChargeStep, TypeHalves DEF IInv
  <1> QED
    BY <1>1, <1>2, InvariantHolds, PTL DEF Safety

-----------------------------------------------------------------------------
(***************************************************************************)
(* What is left in storage.                                                *)
(***************************************************************************)

\* An actor that is responsible for an object: it will put it into a row or delete it.
Owes(a, c) ==
    \/ a \in Handlers /\ at[a] \in {"insert", "cleanup", "replace", "dropVersion"} /\ mine[a] = c
    \/ a \in Workers /\ at[a] = "erase" /\ saw[a] = c

\* As long as nothing fails, an object in storage belongs to a row or to an actor.
OwedInv ==
    faults = 0 /\ lapses = {} /\ status # "gone" =>
        \A c \in store : \/ c \in hist
                         \/ Kept /\ ~ Quarantined /\ c = cur
                         \/ \E a \in Actors : Owes(a, c)

\* Whoever takes an object out of a row, or finds that none will have it, goes on to delete it.
LEMMA OwedStep ==
    ASSUME HoldsType, TableType, LoneInv, PlaceInv, MalwareInv, StoredInv, OwedInv, [Next]_vars
    PROVE  OwedInv'
  <1> USE Who, Moves DEF NoFault, Fault, Begin, Return, OwedInv, Owes, row, bytes, queue, local,
              HoldsType, TableType, Building, Parting, Kept, Quarantined
  <1>1. ASSUME NEW h \in Handlers, NEW c \in Contents, BeginUpload(h, c)
        PROVE  OwedInv'
    BY <1>1 DEF BeginUpload
  <1>2. ASSUME NEW h \in Handlers, InsertDocument(h) \/ InsertRefused(h)
        PROVE  OwedInv'
    <2>1. CASE InsertDocument(h)
      <3>1. /\ ~ Kept /\ Kept' /\ cur' = mine[h] /\ scan[mine[h]] # "infected"
            /\ UNCHANGED <<hist, scan, store, faults, lapses>> /\ status # "gone"
        BY <2>1 DEF InsertDocument, LoneInv, MalwareInv
      <3>2. at[h] = "insert" /\ \A b \in Actors \ {h} : UNCHANGED <<at[b], mine[b], saw[b]>>
        BY <2>1 DEF InsertDocument
      <3> QED
        BY <3>1, <3>2
    <2>2. CASE InsertRefused(h)
      BY <2>2 DEF InsertRefused
    <2> QED
      BY <1>2, <2>1, <2>2
  <1>3. ASSUME NEW h \in Handlers, Lookup(h)
        PROVE  OwedInv'
    BY <1>3 DEF Lookup
  <1>4. ASSUME NEW h \in Handlers, LookupFails(h)
        PROVE  OwedInv'
    BY <1>4 DEF LookupFails
  <1>5. ASSUME NEW h \in Handlers, Cleanup(h)
        PROVE  OwedInv'
    BY <1>5 DEF Cleanup
  <1>6. ASSUME NEW h \in Handlers, NEW c \in Contents, BeginVersion(h, c)
        PROVE  OwedInv'
    BY <1>6 DEF BeginVersion
  <1>7. ASSUME NEW h \in Handlers, NEW v \in Contents, NEW c \in Contents,
               BeginRestoreVersion(h, v, c)
        PROVE  OwedInv'
    <2>1. /\ at[h] = "idle" /\ scan'[cur] \in {scan[cur], scan[v]} /\ scan[v] # "infected"
          /\ UNCHANGED <<status, cur, hist, store, faults, lapses>>
          /\ \A b \in Actors \ {h} : UNCHANGED <<at[b], mine[b], saw[b]>>
      BY <1>7 DEF BeginRestoreVersion, Allowed
    <2> QED
      BY <2>1
  <1>8. ASSUME NEW h \in Handlers, Copy(h) \/ Replace(h) \/ ReplaceRefused(h) \/ ListBeyond(h)
        PROVE  OwedInv'
    <2>1. CASE Copy(h)
      BY <2>1 DEF Copy
    <2>2. CASE Replace(h)
      <3>1. /\ Kept /\ Kept' /\ cur' = mine[h] /\ scan[mine[h]] # "infected"
            /\ hist' = (IF Quarantined THEN hist ELSE hist \cup {cur})
            /\ UNCHANGED <<scan, store, status, faults, lapses>>
        BY <2>2 DEF Replace, MayReplace, Current, MalwareInv
      <3>2. at[h] = "replace" /\ \A b \in Actors \ {h} : UNCHANGED <<at[b], mine[b], saw[b]>>
        BY <2>2 DEF Replace
      <3> QED
        BY <3>1, <3>2
    <2>3. CASE ReplaceRefused(h) \/ ListBeyond(h)
      BY <2>3 DEF ReplaceRefused, ListBeyond
    <2> QED
      BY <1>8, <2>1, <2>2, <2>3
  <1>9. ASSUME NEW h \in Handlers, NEW v \in Contents,
               BeginDeleteVersion(h, v) \/ RemoveVersion(h, v) \/ SkipVersion(h, v)
        PROVE  OwedInv'
    <2>1. CASE BeginDeleteVersion(h, v) \/ SkipVersion(h, v)
      BY <2>1 DEF BeginDeleteVersion, SkipVersion
    <2>2. CASE RemoveVersion(h, v)
      <3>1. /\ hist' = hist \ {v} /\ at'[h] = "dropVersion" /\ mine'[h] = v /\ at[h] = "prune"
            /\ UNCHANGED <<status, cur, scan, store, faults, lapses>>
            /\ \A b \in Actors \ {h} : UNCHANGED <<at[b], mine[b], saw[b]>>
        BY <2>2 DEF RemoveVersion
      <3> QED
        BY <3>1
    <2> QED
      BY <1>9, <2>1, <2>2
  <1>10. ASSUME NEW h \in Handlers, DropVersion(h)
        PROVE  OwedInv'
    BY <1>10 DEF DropVersion
  <1>11. ASSUME NEW h \in Handlers, EndPrune(h) \/ BeginRestore(h) \/ Probe(h) \/ Restore(h)
        PROVE  OwedInv'
    BY <1>11 DEF EndPrune, BeginRestore, Probe, Restore
  <1>12. ASSUME NEW h \in Handlers, BeginPurge(h) \/ VersionKeys(h)
        PROVE  OwedInv'
    BY <1>12 DEF BeginPurge, VersionKeys
  <1>13. ASSUME NEW h \in Handlers, NEW v \in Contents, PurgeVersion(h, v)
        PROVE  OwedInv'
    BY <1>13 DEF PurgeVersion
  <1>14. ASSUME NEW h \in Handlers,
               PurgeCurrent(h) \/ SumHistory(h) \/ HardDelete(h) \/ BeginLink(h)
        PROVE  OwedInv'
    BY <1>14 DEF PurgeCurrent, SumHistory, HardDelete, BeginLink
  <1>15. ASSUME NEW h \in Handlers, InsertLink(h) \/ StorageFails(h)
        PROVE  OwedInv'
    BY <1>15 DEF InsertLink, StorageFails
  <1>16. ASSUME NEW h \in Handlers, DatabaseFails(h)
        PROVE  OwedInv'
    <2>1. faults' = faults + 1
      BY <1>16 DEF DatabaseFails
    <2> QED
      BY <2>1
  <1>17. ASSUME NEW w \in Workers, ClaimScan(w) \/ ReadDocument(w) \/ Judge(w) \/ Erase(w)
        PROVE  OwedInv'
    <2>1. CASE ClaimScan(w) \/ ReadDocument(w)
      BY <2>1, ActorsAssumption DEF ClaimScan, ReadDocument
    <2>2. CASE Judge(w)
      <3>1. /\ at[w] = "judge" /\ UNCHANGED <<status, cur, hist, store, faults, lapses>>
            /\ \A b \in Actors \ {w} : UNCHANGED <<at[b], mine[b], saw[b]>>
        BY <2>2 DEF Judge
      <3>2. \/ scan'[cur] = scan[cur]
            \/ scan'[cur] = "clean"
            \/ at'[w] = "erase" /\ saw'[w] = cur
        BY <2>2 DEF Judge, Judges, Verdict
      <3> QED
        BY <3>1, <3>2, ActorsAssumption
    <2>3. CASE Erase(w)
      BY <2>3, ActorsAssumption DEF Erase
    <2> QED
      BY <1>17, <2>1, <2>2, <2>3
  <1>18. ASSUME NEW w \in Workers, Settle(w)
        PROVE  OwedInv'
    BY <1>18, ActorsAssumption DEF Settle
  <1>19. ASSUME NEW w \in Workers, ScanFails(w)
        PROVE  OwedInv'
    BY <1>19 DEF ScanFails, GiveBack
  <1>20. ASSUME NEW w \in Workers, WorkerFails(w)
        PROVE  OwedInv'
    BY <1>20 DEF WorkerFails, GiveBack
  <1>21. ASSUME NEW a \in Actors, Crash(a)
        PROVE  OwedInv'
    BY <1>21 DEF Crash
  <1>22. CASE Trash \/ LeaseExpires \/ Overrun \/ RequeuePendingScans
    BY <1>22 DEF Trash, LeaseExpires, Overrun, RequeuePendingScans
  <1>23. ASSUME NEW n \in {1, Quota}, OthersStore(n)
        PROVE  OwedInv'
    BY <1>23 DEF OthersStore
  <1>24. CASE OthersRelease
    BY <1>24 DEF OthersRelease
  <1>25. CASE UNCHANGED vars
    BY <1>25 DEF vars
  <1> HIDE DEF NoFault, Fault, Begin, Return, OwedInv, Owes, row, bytes, queue, local, HoldsType,
              TableType, Building, Parting, Kept, Quarantined
  <1> QED
    BY <1>1, <1>2, <1>3, <1>4, <1>5, <1>6, <1>7, <1>8, <1>9, <1>10, <1>11,
       <1>12, <1>13, <1>14, <1>15, <1>16, <1>17, <1>18, <1>19, <1>20, <1>21,
       <1>22, <1>23, <1>24, <1>25
       DEF Next, UploadStep, VersionStep, TrashStep, ScanStep

\* Without faults nothing stays in storage that no row accounts for, however many requests,
\* scans and prunings overtake each other: the last of them deletes what it is responsible for.
THEOREM OrphansHold == Safety => []NoOrphans
  <1>1. Init => OwedInv
    BY DEF Init, OwedInv
  <1>2. IInv /\ OwedInv /\ [Next]_vars => OwedInv'
    BY OwedStep, TypeHalves DEF IInv
  <1>3. OwedInv => NoOrphans
    BY DEF OwedInv, Owes, NoOrphans, Quiet
  <1> QED
    BY <1>1, <1>2, <1>3, InvariantHolds, PTL DEF Safety

-----------------------------------------------------------------------------
(***************************************************************************)
(* What is derived from a document: DocumentProcessing.                    *)
(***************************************************************************)

AllSteps == Steps \cup {"process", "skip", "derive", "record", "processed", "hash", "setChecksum"}

HoldsTypes ==
    /\ at \in [Actors -> AllSteps]
    /\ saw \in [Actors -> Contents \cup {NoKey}]
    /\ mine \in [Actors -> Contents \cup {NoKey}]
    /\ todo \in [Actors -> SUBSET Contents]
    /\ \A a \in Actors : at[a] \in {"insert", "copy", "replace"} => mine[a] \in Contents

RowTypes ==
    /\ status \in {"none", "live", "trashed", "gone"}
    /\ cur \in Contents \cup {NoKey}
    /\ hist \in SUBSET Contents
    /\ scan \in [Contents \cup {NoKey} -> {"none", "pending", "clean", "infected", "unscanned"}]
    /\ fresh \in SUBSET Contents
    /\ lapses \in SUBSET {"upload", "purge", "sum"}
    /\ faults \in Nat

PictureTypes ==
    /\ pictures \in Seq(Contents)
    /\ picture \in 0..Len(pictures)
    /\ held \in [Actors -> 0..Len(pictures)]
    /\ shelf \subseteq 1..Len(pictures) /\ doomed \subseteq 1..Len(pictures)
    /\ listed \in SUBSET Handlers /\ owing \in SUBSET Workers

DerivedTypes == HoldsTypes /\ RowTypes /\ PictureTypes

\* Everybody but a goes on as before.
Alone(a) ==
    \A b \in Actors \ {a} : at'[b] = at[b] /\ saw'[b] = saw[b] /\ mine'[b] = mine[b] /\ todo'[b] = todo[b]

\* A content gets a scan status when its key is generated, if it is a copy that
\* of its original, and keeps it then.
Registers ==
    \/ UNCHANGED <<scan, fresh>>
    \/ \E c \in fresh : 
        /\ fresh' = fresh \ {c}
        /\ \E s \in {"pending", "clean", "unscanned"} :
            /\ scan' = [scan EXCEPT ![c] = s]
            /\ s = "clean" /\ c \in Malware => \E v \in Contents \cap Malware : scan[v] = "clean"

\* The steps of a handler that leave what is derived alone.
RequestEffect(h) ==
    /\ HoldsTypes'
    /\ UNCHANGED <<extras, cur>>
    /\ Alone(h)
    /\ Registers
    /\ status' \in {"none", "live", "trashed", "gone"} /\ (status' = "none" <=> status = "none")
    /\ Kept' = Kept
    /\ hist' \in SUBSET hist
    /\ lapses' \in SUBSET {"upload", "purge", "sum"} /\ lapses \subseteq lapses'
    /\ faults' \in Nat /\ faults <= faults'
    /\ ~ (at[h] = "purgeVersions" /\ todo[h] = {})
    /\ at[h] = "idle" /\ at'[h] # "insert" => status # "none"
    /\ at'[h] = "insert" => status = "none" /\ \A g \in Handlers : at[g] = "idle"
    /\ at'[h] \in {"insert", "copy", "replace"} =>
            \/ at[h] \in {"insert", "copy", "replace"} /\ mine'[h] = mine[h]
            \/ scan'[mine'[h]] # "none"
    /\ at'[h] \in {"sum", "delete"} => at[h] = "sum"

\* Every request is one of these.
LEMMA RequestEffects ==
    ASSUME HoldsTypes, RowTypes, NEW h \in Handlers, RequestStep(h), UNCHANGED extras
    PROVE  RequestEffect(h)
  <1> USE Who DEF HoldsTypes, RowTypes, Begin, GoTo, NoFault, Return, Fault, AllSteps, Steps, Alone, Registers,
           row, bytes, queue, extras, RequestEffect, InitialScan, Allowed, Kept
  <1>1. ASSUME NEW c \in Contents, BeginUpload(h, c) PROVE RequestEffect(h)
    <2>1. Registers /\ scan'[c] # "none"
      <3>1. InitialScan(c) \in {"pending", "unscanned"} /\ c \in fresh
        BY <1>1 DEF BeginUpload
      <3>2. scan' = [scan EXCEPT ![c] = InitialScan(c)] /\ fresh' = fresh \ {c}
        BY <1>1 DEF BeginUpload
      <3> HIDE DEF InitialScan, Allowed
      <3> QED
        BY <3>1, <3>2
    <2> HIDE DEF Registers, InitialScan
    <2> QED
      BY <1>1, <2>1 DEF BeginUpload
  <1>2. ASSUME NEW c \in Contents, BeginVersion(h, c) PROVE RequestEffect(h)
    <2>1. Registers /\ scan'[c] # "none"
      <3>1. InitialScan(c) \in {"pending", "unscanned"} /\ c \in fresh
        BY <1>2 DEF BeginVersion
      <3>2. scan' = [scan EXCEPT ![c] = InitialScan(c)] /\ fresh' = fresh \ {c}
        BY <1>2 DEF BeginVersion
      <3> HIDE DEF InitialScan, Allowed
      <3> QED
        BY <3>1, <3>2
    <2> HIDE DEF Registers, InitialScan
    <2> QED
      BY <1>2, <2>1 DEF BeginVersion
  <1>3. ASSUME NEW v \in Contents, NEW c \in Contents, BeginRestoreVersion(h, v, c) PROVE RequestEffect(h)
    <2>1. Registers /\ scan'[c] # "none"
      <3>1. scan[v] \in {"clean", "unscanned"} /\ c \in fresh /\ (c \in Malware <=> v \in Malware)
        BY <1>3 DEF BeginRestoreVersion
      <3>2. scan' = [scan EXCEPT ![c] = scan[v]] /\ fresh' = fresh \ {c}
        BY <1>3 DEF BeginRestoreVersion
      <3> HIDE DEF InitialScan, Allowed
      <3> QED
        BY <3>1, <3>2
    <2> HIDE DEF Registers, InitialScan
    <2> QED
      BY <1>3, <2>1 DEF BeginRestoreVersion
  <1>4. ASSUME NEW v \in Contents, BeginDeleteVersion(h, v) PROVE RequestEffect(h)
    BY <1>4 DEF BeginDeleteVersion
  <1>5. ASSUME NEW v \in Contents, RemoveVersion(h, v) PROVE RequestEffect(h)
    BY <1>5 DEF RemoveVersion
  <1>6. ASSUME NEW v \in Contents, SkipVersion(h, v) PROVE RequestEffect(h)
    BY <1>6 DEF SkipVersion
  <1>7. ASSUME NEW v \in Contents, PurgeVersion(h, v) PROVE RequestEffect(h)
    BY <1>7 DEF PurgeVersion
  <1>8. CASE InsertRefused(h)   BY <1>8 DEF InsertRefused
  <1>9. CASE Lookup(h)          BY <1>9 DEF Lookup
  <1>10. CASE LookupFails(h)    BY <1>10 DEF LookupFails
  <1>11. CASE Cleanup(h)        BY <1>11 DEF Cleanup
  <1>12. CASE Copy(h)           BY <1>12 DEF Copy
  <1>13. CASE ReplaceRefused(h) BY <1>13 DEF ReplaceRefused
  <1>14. CASE ListBeyond(h)     BY <1>14 DEF ListBeyond, Beyond
  <1>15. CASE DropVersion(h)    BY <1>15 DEF DropVersion
  <1>16. CASE EndPrune(h)       BY <1>16 DEF EndPrune
  <1>17. CASE BeginRestore(h)   BY <1>17 DEF BeginRestore
  <1>18. CASE Probe(h)          BY <1>18 DEF Probe
  <1>19. CASE Restore(h)        BY <1>19 DEF Restore
  <1>20. CASE BeginPurge(h)     BY <1>20 DEF BeginPurge
  <1>21. CASE VersionKeys(h)    BY <1>21 DEF VersionKeys
  <1>22. CASE SumHistory(h)     BY <1>22 DEF SumHistory
  <1> HIDE DEF HoldsTypes, RowTypes, Begin, GoTo, NoFault, Return, Fault, AllSteps, Steps, Alone, Registers,
           row, bytes, queue, extras, RequestEffect, InitialScan, Allowed, Kept
  <1> QED
    BY <1>1, <1>2, <1>3, <1>4, <1>5, <1>6, <1>7, <1>8, <1>9, <1>10, <1>11, <1>12, <1>13, <1>14,
       <1>15, <1>16, <1>17, <1>18, <1>19, <1>20, <1>21, <1>22, DerivedAssumption DEF RequestStep

\* The steps of a worker that scans, and those of nobody in particular.
ScanEffect(w) ==
    /\ HoldsTypes'
    /\ UNCHANGED <<extras, status, cur, hist, scan, fresh, lapses>>
    /\ Alone(w)
    /\ at[w] \in {"idle", "read", "judge", "erase"}
    /\ at'[w] \in {"idle", "read", "judge", "erase", "settle"}
    /\ faults' \in Nat /\ faults <= faults'

LEMMA ScanEffects ==
    ASSUME HoldsTypes, RowTypes, NEW w \in Workers, UNCHANGED extras,
           ClaimScan(w) \/ ReadDocument(w) \/ Erase(w) \/ ScanFails(w) \/ WorkerFails(w)
    PROVE  ScanEffect(w)
  <1> USE Who DEF HoldsTypes, RowTypes, Begin, GoTo, NoFault, Return, Fault, GiveBack, AllSteps, Steps,
           Alone, row, bytes, queue, extras, ScanEffect
  <1>1. CASE ClaimScan(w)       BY <1>1 DEF ClaimScan
  <1>2. CASE ReadDocument(w)    BY <1>2 DEF ReadDocument
  <1>3. CASE Erase(w)           BY <1>3 DEF Erase
  <1>4. CASE ScanFails(w)       BY <1>4 DEF ScanFails
  <1>5. CASE WorkerFails(w)     BY <1>5 DEF WorkerFails
  <1> QED
    BY <1>1, <1>2, <1>3, <1>4, <1>5

QuietEffect ==
    /\ HoldsTypes'
    /\ UNCHANGED <<derived, objects, plocal, cur, hist, scan, fresh, local, lapses>>
    /\ status' = status \/ (status = "live" /\ status' = "trashed")
    /\ faults' \in Nat /\ faults <= faults'

QuietStep ==
    \/ (Trash \/ LeaseExpires \/ Overrun \/ RequeuePendingScans) /\ UNCHANGED extras
    \/ ProcessLeaseExpires \/ ProcessOverrun \/ EnqueuePendingProcessing

LEMMA QuietEffects ==
    ASSUME HoldsTypes, RowTypes, QuietStep \/ UNCHANGED all
    PROVE  QuietEffect
  <1> USE DEF HoldsTypes, RowTypes, NoFault, Fault, row, bytes, queue, local, vars, all, extras, derived, objects, plocal, QuietEffect
  <1>1. CASE Trash /\ UNCHANGED extras                  BY <1>1 DEF Trash
  <1>2. CASE LeaseExpires /\ UNCHANGED extras           BY <1>2 DEF LeaseExpires
  <1>3. CASE Overrun /\ UNCHANGED extras                BY <1>3 DEF Overrun
  <1>4. CASE RequeuePendingScans /\ UNCHANGED extras    BY <1>4 DEF RequeuePendingScans
  <1>5. CASE ProcessLeaseExpires                        BY <1>5 DEF ProcessLeaseExpires
  <1>6. CASE ProcessOverrun                             BY <1>6 DEF ProcessOverrun
  <1>7. CASE EnqueuePendingProcessing                   BY <1>7 DEF EnqueuePendingProcessing
  <1>8. CASE UNCHANGED all                              BY <1>8
  <1> QED
    BY <1>1, <1>2, <1>3, <1>4, <1>5, <1>6, <1>7, <1>8 DEF QuietStep

\* Every step, by what it is about.
DerivedStep ==
    \/ \E h \in Handlers :
        \/ RequestEffect(h)
        \/ InsertRow(h) \/ StartOver(h)
        \/ ListDerived(h) \/ DropDerived(h) \/ PurgeLast(h) \/ DeleteRow(h)
        \/ BeginChecksum(h) \/ Hash(h) \/ SetChecksum(h) \/ ChecksumFails(h)
    \/ \E w \in Workers :
        \/ ScanEffect(w) \/ Clear(w) \/ QueueCleared(w) \/ SettleScan(w) \/ QueueFails(w)
        \/ ClaimProcess(w) \/ ReadToProcess(w) \/ Skip(w) \/ Derive(w)
        \/ Record(w) \/ Discard(w) \/ SettleProcess(w) \/ ProcessFails(w)
    \/ \E a \in Actors : Stop(a)
    \/ QuietEffect
    \/ \E p \in 1..MaxPictures : DeleteQuietly(p)

LEMMA DerivedSteps ==
    ASSUME HoldsTypes, RowTypes, [NextAll]_all
    PROVE  DerivedStep
  <1>1. ASSUME NEW h \in Handlers, HandlerStep(h) PROVE DerivedStep
    BY <1>1, RequestEffects DEF HandlerStep, DerivedStep
  <1>2. ASSUME NEW w \in Workers,
               ScanWork(w) \/ ProcessWork(w) \/ QueueFails(w) \/ (WorkerFails(w) /\ UNCHANGED extras)
        PROVE  DerivedStep
    BY <1>2, ScanEffects DEF ScanWork, ProcessWork, DerivedStep
  <1>3. CASE QuietStep \/ UNCHANGED all
    BY <1>3, QuietEffects DEF DerivedStep
  <1>4. CASE \E a \in Actors : Stop(a)
    BY <1>4 DEF DerivedStep
  <1>5. CASE \E p \in 1..MaxPictures : DeleteQuietly(p)
    BY <1>5 DEF DerivedStep
  <1> QED
    BY <1>1, <1>2, <1>3, <1>4, <1>5 DEF NextAll, QuietStep

\* A new key has no status yet; a content that is handed on has one.
ScanInv ==
    /\ \A c \in fresh : scan[c] = "none"
    /\ Kept => cur \in Contents /\ scan[cur] # "none"
    /\ \A h \in Handlers : at[h] \in {"insert", "copy", "replace"} => scan[mine[h]] # "none"

\* The first upload is alone until it has committed the row, and nothing is
\* derived before.
FirstInv ==
    /\ \A h \in Handlers : at[h] = "insert" =>
            status = "none" /\ \A g \in Handlers \ {h} : at[g] = "idle"
    /\ status = "none" => picture = None /\ processed = NoKey /\ text = NoKey /\ checked = NoKey

\* A worker processes a content that was cleared, skips one that was not, and
\* holds a picture of it until it records or discards it.
Working(w) ==
    /\ at[w] \in {"derive", "record"} => saw[w] \in Contents /\ scan[saw[w]] \in Allowed
    /\ at[w] = "skip" => saw[w] \in Contents /\ scan[saw[w]] = "infected"
    /\ held[w] # None => at[w] = "record" /\ pictures[held[w]] = saw[w]
    /\ w \in owing => at[w] = "settle"

WorkInv == \A w \in Workers : Working(w)

\* Only a purge has handlers hold pictures, and it has begun before it is over.
PurgeInv ==
    /\ \A h \in Handlers : held[h] # None => h \in listed
    /\ \A h \in listed : at[h] = "purgeVersions" /\ todo[h] = {}
    /\ \A h \in Handlers : at[h] \in {"sum", "delete"} => "purge" \in lapses

\* A picture that was made is in one place: with one worker, in the row, or
\* about to be deleted.
Places ==
    /\ picture # None => picture \in shelf \ doomed
    /\ \A w \in Workers : held[w] # None => held[w] \in shelf \ doomed /\ held[w] # picture
    /\ \A v, w \in Workers : held[v] # None /\ held[v] = held[w] => v = w
    /\ faults = 0 => \A p \in shelf : p = picture \/ p \in doomed \/ \E a \in Actors : held[a] = p

HeldInv == "purge" \notin lapses => Places

DerivedInv == DerivedTypes /\ ScanInv /\ FirstInv /\ WorkInv /\ PurgeInv /\ HeldInv /\ FromCurrent

\* What was cleared or quarantined stays so.
LEMMA ScanStays ==
    ASSUME HoldsTypes, RowTypes, ScanInv, DerivedStep,
           NEW c \in Contents, scan[c] \in Allowed \cup {"infected"}
    PROVE  scan'[c] = scan[c]
  <1> USE DEF Allowed
  <1> c \notin fresh
    BY DEF ScanInv
  <1>1. Registers => scan'[c] = scan[c]
    BY DEF Registers, RowTypes
  <1>2. ASSUME NEW h \in Handlers, RequestEffect(h) PROVE scan'[c] = scan[c]
    BY <1>1, <1>2 DEF RequestEffect
  <1>3. ASSUME NEW h \in Handlers,
               \/ InsertRow(h) \/ StartOver(h)
               \/ ListDerived(h) \/ DropDerived(h) \/ PurgeLast(h) \/ DeleteRow(h)
               \/ BeginChecksum(h) \/ Hash(h) \/ SetChecksum(h) \/ ChecksumFails(h)
        PROVE  scan'[c] = scan[c]
    BY <1>3 DEF InsertRow, InsertDocument, StartOver, Replace, ListDerived, DropDerived, PurgeLast,
                PurgeCurrent, DeleteRow, HardDelete, BeginChecksum, Hash, SetChecksum, ChecksumFails,
                vars, row
  <1>4. ASSUME NEW w \in Workers, Clear(w) PROVE scan'[c] = scan[c]
    BY <1>4 DEF Clear, Judge, Judges, RowTypes
  <1>5. ASSUME NEW w \in Workers,
               \/ ScanEffect(w) \/ QueueCleared(w) \/ SettleScan(w) \/ QueueFails(w)
               \/ ClaimProcess(w) \/ ReadToProcess(w) \/ Skip(w) \/ Derive(w)
               \/ Record(w) \/ Discard(w) \/ SettleProcess(w) \/ ProcessFails(w)
        PROVE  scan'[c] = scan[c]
    BY <1>5 DEF ScanEffect, QueueCleared, SettleScan, Settle, QueueFails, GiveBack, ClaimProcess,
                ReadToProcess, Skip, Derive, Record, Discard, SettleProcess, ProcessFails,
                GiveBackProcess, vars, row
  <1>6. ASSUME NEW a \in Actors, Stop(a) PROVE scan'[c] = scan[c]
    BY <1>6 DEF Stop, Crash, StorageFails, DatabaseFails, row
  <1>7. ASSUME QuietEffect \/ \E p \in 1..MaxPictures : DeleteQuietly(p) PROVE scan'[c] = scan[c]
    BY <1>7 DEF QuietEffect, DeleteQuietly, row
  <1> QED
    BY <1>2, <1>3, <1>4, <1>5, <1>6, <1>7 DEF DerivedStep

\* Type correctness.
LEMMA HoldsTypesStep ==
    ASSUME HoldsTypes, RowTypes, ScanInv, DerivedStep
    PROVE  HoldsTypes'
  <1> USE Who DEF Begin, GoTo, NoFault, Return, vars, row, local, derived, objects, extras, plocal,
           HoldsTypes, RowTypes, ScanInv, AllSteps, Steps
  <1>1. ASSUME NEW h \in Handlers, RequestEffect(h) PROVE HoldsTypes'
    BY <1>1 DEF RequestEffect
  <1>2. ASSUME NEW h \in Handlers, InsertRow(h) PROVE HoldsTypes'
    BY <1>2 DEF InsertRow, InsertDocument, Checksum
  <1>3. ASSUME NEW h \in Handlers, StartOver(h) PROVE HoldsTypes'
    BY <1>3 DEF StartOver, Replace, MayReplace, Current, Kept, Checksum, Doom
  <1>4. ASSUME NEW h \in Handlers, ListDerived(h) PROVE HoldsTypes'
    BY <1>4 DEF ListDerived
  <1>5. ASSUME NEW h \in Handlers, DropDerived(h) PROVE HoldsTypes'
    BY <1>5 DEF DropDerived
  <1>6. ASSUME NEW h \in Handlers, PurgeLast(h) PROVE HoldsTypes'
    BY <1>6 DEF PurgeLast, PurgeCurrent
  <1>7. ASSUME NEW h \in Handlers, DeleteRow(h) PROVE HoldsTypes'
    BY <1>7 DEF DeleteRow, HardDelete
  <1>8. ASSUME NEW h \in Handlers, BeginChecksum(h) PROVE HoldsTypes'
    BY <1>8 DEF BeginChecksum
  <1>9. ASSUME NEW h \in Handlers, Hash(h) PROVE HoldsTypes'
    BY <1>9 DEF Hash
  <1>10. ASSUME NEW h \in Handlers, SetChecksum(h) PROVE HoldsTypes'
    BY <1>10 DEF SetChecksum, SameObject
  <1>11. ASSUME NEW h \in Handlers, ChecksumFails(h) PROVE HoldsTypes'
    BY <1>11 DEF ChecksumFails, Fault
  <1>12. ASSUME NEW w \in Workers, ScanEffect(w) PROVE HoldsTypes'
    BY <1>12 DEF ScanEffect
  <1>13. ASSUME NEW w \in Workers, Clear(w) PROVE HoldsTypes'
    BY <1>13 DEF Clear, Judge, Judges, Verdict
  <1>14. ASSUME NEW w \in Workers, QueueCleared(w) PROVE HoldsTypes'
    BY <1>14 DEF QueueCleared
  <1>15. ASSUME NEW w \in Workers, SettleScan(w) PROVE HoldsTypes'
    BY <1>15 DEF SettleScan, Settle
  <1>16. ASSUME NEW w \in Workers, QueueFails(w) PROVE HoldsTypes'
    BY <1>16 DEF QueueFails, GiveBack, Fault
  <1>17. ASSUME NEW w \in Workers, ClaimProcess(w) PROVE HoldsTypes'
    BY <1>17 DEF ClaimProcess
  <1>18. ASSUME NEW w \in Workers, ReadToProcess(w) PROVE HoldsTypes'
    BY <1>18 DEF ReadToProcess, NothingToDo
  <1>19. ASSUME NEW w \in Workers, Skip(w) PROVE HoldsTypes'
    BY <1>19 DEF Skip
  <1>20. ASSUME NEW w \in Workers, Derive(w) PROVE HoldsTypes'
    BY <1>20 DEF Derive, Depicted
  <1>21. ASSUME NEW w \in Workers, Record(w) PROVE HoldsTypes'
    BY <1>21 DEF Record, Unmoved, Doom
  <1>22. ASSUME NEW w \in Workers, Discard(w) PROVE HoldsTypes'
    BY <1>22 DEF Discard, Unmoved, Doom
  <1>23. ASSUME NEW w \in Workers, SettleProcess(w) PROVE HoldsTypes'
    BY <1>23 DEF SettleProcess
  <1>24. ASSUME NEW w \in Workers, ProcessFails(w) PROVE HoldsTypes'
    BY <1>24 DEF ProcessFails, GiveBackProcess, Forget, Fault
  <1>25. ASSUME NEW a \in Actors, Stop(a) PROVE HoldsTypes'
    <2>1. CASE Crash(a)
      BY <1>25, <2>1 DEF Stop, Crash, Forget, Fault
    <2>2. CASE a \in Handlers /\ StorageFails(a)
      BY <1>25, <2>2 DEF Stop, StorageFails, Forget, Fault
    <2>3. CASE a \in Handlers /\ DatabaseFails(a)
      BY <1>25, <2>3 DEF Stop, DatabaseFails, Forget, Fault
    <2> QED
      BY <1>25, <2>1, <2>2, <2>3 DEF Stop
  <1>26. CASE QuietEffect
    BY <1>26 DEF QuietEffect
  <1>27. ASSUME NEW p \in 1..MaxPictures, DeleteQuietly(p) PROVE HoldsTypes'
    BY <1>27 DEF DeleteQuietly, Fault
  <1> QED
    BY <1>1, <1>2, <1>3, <1>4, <1>5, <1>6, <1>7, <1>8, <1>9, <1>10, <1>11, <1>12, <1>13, <1>14,
       <1>15, <1>16, <1>17, <1>18, <1>19, <1>20, <1>21, <1>22, <1>23, <1>24, <1>25, <1>26,
       <1>27 DEF DerivedStep

LEMMA RowTypesStep ==
    ASSUME HoldsTypes, RowTypes, ScanInv, DerivedStep
    PROVE  RowTypes'
  <1> USE Who DEF Begin, GoTo, NoFault, Return, vars, row, local, derived, objects, extras, plocal,
           HoldsTypes, RowTypes, Registers, ScanInv
  <1>1. ASSUME NEW h \in Handlers, RequestEffect(h) PROVE RowTypes'
    BY <1>1 DEF RequestEffect
  <1>2. ASSUME NEW h \in Handlers, InsertRow(h) PROVE RowTypes'
    BY <1>2 DEF InsertRow, InsertDocument, Checksum
  <1>3. ASSUME NEW h \in Handlers, StartOver(h) PROVE RowTypes'
    BY <1>3 DEF StartOver, Replace, MayReplace, Current, Kept, Checksum, Doom
  <1>4. ASSUME NEW h \in Handlers, ListDerived(h) PROVE RowTypes'
    BY <1>4 DEF ListDerived
  <1>5. ASSUME NEW h \in Handlers, DropDerived(h) PROVE RowTypes'
    BY <1>5 DEF DropDerived
  <1>6. ASSUME NEW h \in Handlers, PurgeLast(h) PROVE RowTypes'
    BY <1>6 DEF PurgeLast, PurgeCurrent
  <1>7. ASSUME NEW h \in Handlers, DeleteRow(h) PROVE RowTypes'
    BY <1>7 DEF DeleteRow, HardDelete
  <1>8. ASSUME NEW h \in Handlers, BeginChecksum(h) PROVE RowTypes'
    BY <1>8 DEF BeginChecksum
  <1>9. ASSUME NEW h \in Handlers, Hash(h) PROVE RowTypes'
    BY <1>9 DEF Hash
  <1>10. ASSUME NEW h \in Handlers, SetChecksum(h) PROVE RowTypes'
    BY <1>10 DEF SetChecksum, SameObject
  <1>11. ASSUME NEW h \in Handlers, ChecksumFails(h) PROVE RowTypes'
    BY <1>11 DEF ChecksumFails, Fault
  <1>12. ASSUME NEW w \in Workers, ScanEffect(w) PROVE RowTypes'
    BY <1>12 DEF ScanEffect
  <1>13. ASSUME NEW w \in Workers, Clear(w) PROVE RowTypes'
    BY <1>13 DEF Clear, Judge, Judges, Verdict
  <1>14. ASSUME NEW w \in Workers, QueueCleared(w) PROVE RowTypes'
    BY <1>14 DEF QueueCleared
  <1>15. ASSUME NEW w \in Workers, SettleScan(w) PROVE RowTypes'
    BY <1>15 DEF SettleScan, Settle
  <1>16. ASSUME NEW w \in Workers, QueueFails(w) PROVE RowTypes'
    BY <1>16 DEF QueueFails, GiveBack, Fault
  <1>17. ASSUME NEW w \in Workers, ClaimProcess(w) PROVE RowTypes'
    BY <1>17 DEF ClaimProcess
  <1>18. ASSUME NEW w \in Workers, ReadToProcess(w) PROVE RowTypes'
    BY <1>18 DEF ReadToProcess, NothingToDo
  <1>19. ASSUME NEW w \in Workers, Skip(w) PROVE RowTypes'
    BY <1>19 DEF Skip
  <1>20. ASSUME NEW w \in Workers, Derive(w) PROVE RowTypes'
    BY <1>20 DEF Derive, Depicted
  <1>21. ASSUME NEW w \in Workers, Record(w) PROVE RowTypes'
    BY <1>21 DEF Record, Unmoved, Doom
  <1>22. ASSUME NEW w \in Workers, Discard(w) PROVE RowTypes'
    BY <1>22 DEF Discard, Unmoved, Doom
  <1>23. ASSUME NEW w \in Workers, SettleProcess(w) PROVE RowTypes'
    BY <1>23 DEF SettleProcess
  <1>24. ASSUME NEW w \in Workers, ProcessFails(w) PROVE RowTypes'
    BY <1>24 DEF ProcessFails, GiveBackProcess, Forget, Fault
  <1>25. ASSUME NEW a \in Actors, Stop(a) PROVE RowTypes'
    <2>1. CASE Crash(a)
      BY <1>25, <2>1 DEF Stop, Crash, Forget, Fault
    <2>2. CASE a \in Handlers /\ StorageFails(a)
      BY <1>25, <2>2 DEF Stop, StorageFails, Forget, Fault
    <2>3. CASE a \in Handlers /\ DatabaseFails(a)
      BY <1>25, <2>3 DEF Stop, DatabaseFails, Forget, Fault
    <2> QED
      BY <1>25, <2>1, <2>2, <2>3 DEF Stop
  <1>26. CASE QuietEffect
    BY <1>26 DEF QuietEffect
  <1>27. ASSUME NEW p \in 1..MaxPictures, DeleteQuietly(p) PROVE RowTypes'
    BY <1>27 DEF DeleteQuietly, Fault
  <1> QED
    BY <1>1, <1>2, <1>3, <1>4, <1>5, <1>6, <1>7, <1>8, <1>9, <1>10, <1>11, <1>12, <1>13, <1>14,
       <1>15, <1>16, <1>17, <1>18, <1>19, <1>20, <1>21, <1>22, <1>23, <1>24, <1>25, <1>26,
       <1>27 DEF DerivedStep

LEMMA PictureTypesStep ==
    ASSUME HoldsTypes, RowTypes, PictureTypes, WorkInv, DerivedStep
    PROVE  PictureTypes'
  <1> USE Who DEF Begin, GoTo, NoFault, Return, vars, row, local, derived, objects, extras, plocal,
           HoldsTypes, RowTypes, PictureTypes, None
  <1>1. ASSUME NEW h \in Handlers, RequestEffect(h) PROVE PictureTypes'
    BY <1>1 DEF RequestEffect
  <1>2. ASSUME NEW h \in Handlers, InsertRow(h) PROVE PictureTypes'
    BY <1>2 DEF InsertRow, InsertDocument, Checksum
  <1>3. ASSUME NEW h \in Handlers, StartOver(h) PROVE PictureTypes'
    BY <1>3 DEF StartOver, Replace, MayReplace, Current, Kept, Checksum, Doom
  <1>4. ASSUME NEW h \in Handlers, ListDerived(h) PROVE PictureTypes'
    BY <1>4 DEF ListDerived
  <1>5. ASSUME NEW h \in Handlers, DropDerived(h) PROVE PictureTypes'
    <2>1. shelf' = shelf \ {held[h]} /\ held' = [held EXCEPT ![h] = None]
      BY <1>5 DEF DropDerived
    <2>2. UNCHANGED <<pictures, picture, doomed, listed, owing>>
      BY <1>5 DEF DropDerived
    <2> HIDE DEF HoldsTypes, RowTypes
    <2>3. Len(pictures) \in Nat
      OBVIOUS
    <2>4. held' \in [Actors -> 0..Len(pictures')]
      BY <2>1, <2>2, <2>3
    <2>5. shelf' \subseteq 1..Len(pictures') /\ doomed' \subseteq 1..Len(pictures')
      BY <2>1, <2>2, <2>3
    <2> QED
      BY <2>2, <2>4, <2>5
  <1>6. ASSUME NEW h \in Handlers, PurgeLast(h) PROVE PictureTypes'
    BY <1>6 DEF PurgeLast, PurgeCurrent
  <1>7. ASSUME NEW h \in Handlers, DeleteRow(h) PROVE PictureTypes'
    BY <1>7 DEF DeleteRow, HardDelete
  <1>8. ASSUME NEW h \in Handlers, BeginChecksum(h) PROVE PictureTypes'
    BY <1>8 DEF BeginChecksum
  <1>9. ASSUME NEW h \in Handlers, Hash(h) PROVE PictureTypes'
    BY <1>9 DEF Hash
  <1>10. ASSUME NEW h \in Handlers, SetChecksum(h) PROVE PictureTypes'
    BY <1>10 DEF SetChecksum, SameObject
  <1>11. ASSUME NEW h \in Handlers, ChecksumFails(h) PROVE PictureTypes'
    BY <1>11 DEF ChecksumFails, Fault
  <1>12. ASSUME NEW w \in Workers, ScanEffect(w) PROVE PictureTypes'
    BY <1>12 DEF ScanEffect
  <1>13. ASSUME NEW w \in Workers, Clear(w) PROVE PictureTypes'
    BY <1>13 DEF Clear, Judge, Judges, Verdict
  <1>14. ASSUME NEW w \in Workers, QueueCleared(w) PROVE PictureTypes'
    BY <1>14 DEF QueueCleared
  <1>15. ASSUME NEW w \in Workers, SettleScan(w) PROVE PictureTypes'
    BY <1>15 DEF SettleScan, Settle
  <1>16. ASSUME NEW w \in Workers, QueueFails(w) PROVE PictureTypes'
    BY <1>16 DEF QueueFails, GiveBack, Fault
  <1>17. ASSUME NEW w \in Workers, ClaimProcess(w) PROVE PictureTypes'
    BY <1>17 DEF ClaimProcess
  <1>18. ASSUME NEW w \in Workers, ReadToProcess(w) PROVE PictureTypes'
    BY <1>18 DEF ReadToProcess, NothingToDo
  <1>19. ASSUME NEW w \in Workers, Skip(w) PROVE PictureTypes'
    BY <1>19 DEF Skip
  <1>20. ASSUME NEW w \in Workers, Derive(w) PROVE PictureTypes'
    <2>1. CASE Depicted(saw[w])
      <3>1. saw[w] \in Contents
        BY <1>20, <2>1 DEF Derive, WorkInv, Working
      <3>2. pictures' = Append(pictures, saw[w])
        BY <1>20, <2>1 DEF Derive
      <3> HIDE DEF HoldsTypes, RowTypes
      <3>5. pictures' \in Seq(Contents) /\ Len(pictures') = Len(pictures) + 1 /\ Len(pictures) \in Nat
        BY <3>1, <3>2
      <3>3. shelf' = shelf \cup {Len(pictures) + 1} /\ held' = [held EXCEPT ![w] = Len(pictures) + 1]
        BY <1>20, <2>1, <3>5 DEF Derive
      <3>4. UNCHANGED <<picture, doomed, listed, owing>>
        BY <1>20 DEF Derive
      <3>6. held' \in [Actors -> 0..Len(pictures')]
        BY <3>3, <3>4, <3>5
      <3>7. shelf' \subseteq 1..Len(pictures') /\ doomed' \subseteq 1..Len(pictures')
        <4> DEFINE n == Len(pictures)
                   m == Len(pictures')
        <4>1. n \in Nat /\ m = n + 1 /\ shelf \subseteq 1..n /\ doomed \subseteq 1..n
          BY <3>5
        <4>2. shelf' = shelf \cup {n + 1} /\ doomed' = doomed
          BY <3>3, <3>4
        <4> HIDE DEF n, m, PictureTypes
        <4>3. shelf' \subseteq 1..m /\ doomed' \subseteq 1..m
          BY <4>1, <4>2
        <4> QED
          BY <4>3 DEF m
      <3> QED
        BY <3>4, <3>5, <3>6, <3>7
    <2>2. CASE ~ Depicted(saw[w])
      BY <1>20, <2>2 DEF Derive
    <2> QED
      BY <2>1, <2>2
  <1>21. ASSUME NEW w \in Workers, Record(w) PROVE PictureTypes'
    BY <1>21 DEF Record, Unmoved, Doom
  <1>22. ASSUME NEW w \in Workers, Discard(w) PROVE PictureTypes'
    <2>1. doomed' = doomed \cup ({held[w]} \ {None}) /\ held' = [held EXCEPT ![w] = None]
      BY <1>22 DEF Discard, Doom
    <2>2. UNCHANGED <<pictures, picture, shelf, listed, owing>>
      BY <1>22 DEF Discard
    <2> HIDE DEF HoldsTypes, RowTypes
    <2>3. Len(pictures) \in Nat
      OBVIOUS
    <2>4. held' \in [Actors -> 0..Len(pictures')]
      BY <2>1, <2>2, <2>3
    <2>5. shelf' \subseteq 1..Len(pictures') /\ doomed' \subseteq 1..Len(pictures')
      <3> DEFINE n == Len(pictures)
      <3>1. n \in Nat /\ n = Len(pictures') /\ shelf' \subseteq 1..n /\ doomed \subseteq 1..n
        BY <2>2, <2>3
      <3>2. held[w] \in 0..n
        OBVIOUS
      <3> HIDE DEF n, PictureTypes
      <3>3. ASSUME NEW p \in doomed' PROVE p \in 1..n
        <4>1. p \in doomed \/ (p = held[w] /\ p # 0)
          BY <2>1, <3>3
        <4>2. held[w] # 0 => held[w] \in 1..n
          BY <3>1, <3>2
        <4> QED
          BY <4>1, <4>2, <3>1, Zenon
      <3> QED
        BY <3>1, <3>3
    <2> QED
      BY <2>2, <2>4, <2>5
  <1>23. ASSUME NEW w \in Workers, SettleProcess(w) PROVE PictureTypes'
    BY <1>23 DEF SettleProcess
  <1>24. ASSUME NEW w \in Workers, ProcessFails(w) PROVE PictureTypes'
    BY <1>24 DEF ProcessFails, GiveBackProcess, Forget, Fault
  <1>25. ASSUME NEW a \in Actors, Stop(a) PROVE PictureTypes'
    <2>1. CASE Crash(a)
      BY <1>25, <2>1 DEF Stop, Crash, Forget, Fault
    <2>2. CASE a \in Handlers /\ StorageFails(a)
      BY <1>25, <2>2 DEF Stop, StorageFails, Forget, Fault
    <2>3. CASE a \in Handlers /\ DatabaseFails(a)
      BY <1>25, <2>3 DEF Stop, DatabaseFails, Forget, Fault
    <2> QED
      BY <1>25, <2>1, <2>2, <2>3 DEF Stop
  <1>26. CASE QuietEffect
    BY <1>26 DEF QuietEffect
  <1>27. ASSUME NEW p \in 1..MaxPictures, DeleteQuietly(p) PROVE PictureTypes'
    BY <1>27 DEF DeleteQuietly, Fault
  <1> QED
    BY <1>1, <1>2, <1>3, <1>4, <1>5, <1>6, <1>7, <1>8, <1>9, <1>10, <1>11, <1>12, <1>13, <1>14,
       <1>15, <1>16, <1>17, <1>18, <1>19, <1>20, <1>21, <1>22, <1>23, <1>24, <1>25, <1>26,
       <1>27 DEF DerivedStep

\* The parts of the invariant, one by one.
LEMMA ScanInvStep ==
    ASSUME HoldsTypes, RowTypes, ScanInv, DerivedStep
    PROVE  ScanInv'
  <1> USE Who DEF Begin, GoTo, NoFault, Return, vars, row, local, derived, objects, extras, plocal,
           HoldsTypes, RowTypes, Registers, ScanInv, Kept, Alone
  <1>1. ASSUME NEW h \in Handlers, RequestEffect(h) PROVE ScanInv'
    <2>1. Kept' = Kept /\ cur' = cur /\ Alone(h) /\ Registers /\ HoldsTypes'
      BY <1>1 DEF RequestEffect
    <2>2. at'[h] \in {"insert", "copy", "replace"} =>
            \/ at[h] \in {"insert", "copy", "replace"} /\ mine'[h] = mine[h]
            \/ scan'[mine'[h]] # "none"
      BY <1>1 DEF RequestEffect
    <2>3. \A c \in Contents : scan[c] # "none" => scan'[c] # "none"
      BY <2>1
    <2>4. \A c \in fresh' : scan'[c] = "none"
      BY <2>1
    <2>5. \A g \in Handlers : at'[g] \in {"insert", "copy", "replace"} => scan'[mine'[g]] # "none"
      BY <2>1, <2>2, <2>3
    <2> QED
      BY <2>1, <2>3, <2>4, <2>5
  <1>2. ASSUME NEW h \in Handlers, InsertRow(h) PROVE ScanInv'
    BY <1>2 DEF InsertRow, InsertDocument, Checksum
  <1>3. ASSUME NEW h \in Handlers, StartOver(h) PROVE ScanInv'
    BY <1>3 DEF StartOver, Replace, MayReplace, Current, Kept, Checksum, Doom
  <1>4. ASSUME NEW h \in Handlers, ListDerived(h) PROVE ScanInv'
    BY <1>4 DEF ListDerived
  <1>5. ASSUME NEW h \in Handlers, DropDerived(h) PROVE ScanInv'
    BY <1>5 DEF DropDerived
  <1>6. ASSUME NEW h \in Handlers, PurgeLast(h) PROVE ScanInv'
    BY <1>6 DEF PurgeLast, PurgeCurrent
  <1>7. ASSUME NEW h \in Handlers, DeleteRow(h) PROVE ScanInv'
    BY <1>7 DEF DeleteRow, HardDelete
  <1>8. ASSUME NEW h \in Handlers, BeginChecksum(h) PROVE ScanInv'
    BY <1>8 DEF BeginChecksum
  <1>9. ASSUME NEW h \in Handlers, Hash(h) PROVE ScanInv'
    BY <1>9 DEF Hash
  <1>10. ASSUME NEW h \in Handlers, SetChecksum(h) PROVE ScanInv'
    BY <1>10 DEF SetChecksum, SameObject
  <1>11. ASSUME NEW h \in Handlers, ChecksumFails(h) PROVE ScanInv'
    BY <1>11 DEF ChecksumFails, Fault
  <1>12. ASSUME NEW w \in Workers, ScanEffect(w) PROVE ScanInv'
    BY <1>12 DEF ScanEffect
  <1>13. ASSUME NEW w \in Workers, Clear(w) PROVE ScanInv'
    BY <1>13 DEF Clear, Judge, Judges, Verdict
  <1>14. ASSUME NEW w \in Workers, QueueCleared(w) PROVE ScanInv'
    BY <1>14 DEF QueueCleared
  <1>15. ASSUME NEW w \in Workers, SettleScan(w) PROVE ScanInv'
    BY <1>15 DEF SettleScan, Settle
  <1>16. ASSUME NEW w \in Workers, QueueFails(w) PROVE ScanInv'
    BY <1>16 DEF QueueFails, GiveBack, Fault
  <1>17. ASSUME NEW w \in Workers, ClaimProcess(w) PROVE ScanInv'
    BY <1>17 DEF ClaimProcess
  <1>18. ASSUME NEW w \in Workers, ReadToProcess(w) PROVE ScanInv'
    BY <1>18 DEF ReadToProcess, NothingToDo, Quarantined
  <1>19. ASSUME NEW w \in Workers, Skip(w) PROVE ScanInv'
    BY <1>19 DEF Skip
  <1>20. ASSUME NEW w \in Workers, Derive(w) PROVE ScanInv'
    BY <1>20 DEF Derive, Depicted
  <1>21. ASSUME NEW w \in Workers, Record(w) PROVE ScanInv'
    BY <1>21 DEF Record, Unmoved, Doom
  <1>22. ASSUME NEW w \in Workers, Discard(w) PROVE ScanInv'
    BY <1>22 DEF Discard, Unmoved, Doom
  <1>23. ASSUME NEW w \in Workers, SettleProcess(w) PROVE ScanInv'
    BY <1>23 DEF SettleProcess
  <1>24. ASSUME NEW w \in Workers, ProcessFails(w) PROVE ScanInv'
    BY <1>24 DEF ProcessFails, GiveBackProcess, Forget, Fault
  <1>25. ASSUME NEW a \in Actors, Stop(a) PROVE ScanInv'
    <2>1. CASE Crash(a)
      BY <1>25, <2>1 DEF Stop, Crash, Forget, Fault
    <2>2. CASE a \in Handlers /\ StorageFails(a)
      BY <1>25, <2>2 DEF Stop, StorageFails, Forget, Fault
    <2>3. CASE a \in Handlers /\ DatabaseFails(a)
      BY <1>25, <2>3 DEF Stop, DatabaseFails, Forget, Fault
    <2> QED
      BY <1>25, <2>1, <2>2, <2>3 DEF Stop
  <1>26. CASE QuietEffect
    BY <1>26 DEF QuietEffect
  <1>27. ASSUME NEW p \in 1..MaxPictures, DeleteQuietly(p) PROVE ScanInv'
    BY <1>27 DEF DeleteQuietly, Fault
  <1> QED
    BY <1>1, <1>2, <1>3, <1>4, <1>5, <1>6, <1>7, <1>8, <1>9, <1>10, <1>11, <1>12, <1>13, <1>14,
       <1>15, <1>16, <1>17, <1>18, <1>19, <1>20, <1>21, <1>22, <1>23, <1>24, <1>25, <1>26,
       <1>27 DEF DerivedStep

LEMMA FirstInvStep ==
    ASSUME HoldsTypes, RowTypes, FirstInv, DerivedStep
    PROVE  FirstInv'
  <1> USE Who DEF Begin, GoTo, NoFault, Return, vars, row, local, derived, objects, extras, plocal, Alone,
           HoldsTypes, RowTypes, FirstInv, Kept
  <1>1. ASSUME NEW h \in Handlers, RequestEffect(h) PROVE FirstInv'
    BY <1>1 DEF RequestEffect
  <1>2. ASSUME NEW h \in Handlers, InsertRow(h) PROVE FirstInv'
    BY <1>2 DEF InsertRow, InsertDocument, Checksum
  <1>3. ASSUME NEW h \in Handlers, StartOver(h) PROVE FirstInv'
    BY <1>3 DEF StartOver, Replace, MayReplace, Current, Kept, Checksum, Doom
  <1>4. ASSUME NEW h \in Handlers, ListDerived(h) PROVE FirstInv'
    BY <1>4 DEF ListDerived
  <1>5. ASSUME NEW h \in Handlers, DropDerived(h) PROVE FirstInv'
    BY <1>5 DEF DropDerived
  <1>6. ASSUME NEW h \in Handlers, PurgeLast(h) PROVE FirstInv'
    BY <1>6 DEF PurgeLast, PurgeCurrent
  <1>7. ASSUME NEW h \in Handlers, DeleteRow(h) PROVE FirstInv'
    BY <1>7 DEF DeleteRow, HardDelete
  <1>8. ASSUME NEW h \in Handlers, BeginChecksum(h) PROVE FirstInv'
    BY <1>8 DEF BeginChecksum
  <1>9. ASSUME NEW h \in Handlers, Hash(h) PROVE FirstInv'
    BY <1>9 DEF Hash
  <1>10. ASSUME NEW h \in Handlers, SetChecksum(h) PROVE FirstInv'
    BY <1>10 DEF SetChecksum, SameObject
  <1>11. ASSUME NEW h \in Handlers, ChecksumFails(h) PROVE FirstInv'
    BY <1>11 DEF ChecksumFails, Fault
  <1>12. ASSUME NEW w \in Workers, ScanEffect(w) PROVE FirstInv'
    BY <1>12 DEF ScanEffect
  <1>13. ASSUME NEW w \in Workers, Clear(w) PROVE FirstInv'
    BY <1>13 DEF Clear, Judge, Judges, Verdict
  <1>14. ASSUME NEW w \in Workers, QueueCleared(w) PROVE FirstInv'
    BY <1>14 DEF QueueCleared
  <1>15. ASSUME NEW w \in Workers, SettleScan(w) PROVE FirstInv'
    BY <1>15 DEF SettleScan, Settle
  <1>16. ASSUME NEW w \in Workers, QueueFails(w) PROVE FirstInv'
    BY <1>16 DEF QueueFails, GiveBack, Fault
  <1>17. ASSUME NEW w \in Workers, ClaimProcess(w) PROVE FirstInv'
    BY <1>17 DEF ClaimProcess
  <1>18. ASSUME NEW w \in Workers, ReadToProcess(w) PROVE FirstInv'
    BY <1>18 DEF ReadToProcess, NothingToDo, Quarantined
  <1>19. ASSUME NEW w \in Workers, Skip(w) PROVE FirstInv'
    BY <1>19 DEF Skip
  <1>20. ASSUME NEW w \in Workers, Derive(w) PROVE FirstInv'
    BY <1>20 DEF Derive, Depicted
  <1>21. ASSUME NEW w \in Workers, Record(w) PROVE FirstInv'
    BY <1>21 DEF Record, Unmoved, Doom
  <1>22. ASSUME NEW w \in Workers, Discard(w) PROVE FirstInv'
    BY <1>22 DEF Discard, Unmoved, Doom
  <1>23. ASSUME NEW w \in Workers, SettleProcess(w) PROVE FirstInv'
    BY <1>23 DEF SettleProcess
  <1>24. ASSUME NEW w \in Workers, ProcessFails(w) PROVE FirstInv'
    BY <1>24 DEF ProcessFails, GiveBackProcess, Forget, Fault
  <1>25. ASSUME NEW a \in Actors, Stop(a) PROVE FirstInv'
    <2>1. CASE Crash(a)
      BY <1>25, <2>1 DEF Stop, Crash, Forget, Fault
    <2>2. CASE a \in Handlers /\ StorageFails(a)
      BY <1>25, <2>2 DEF Stop, StorageFails, Forget, Fault
    <2>3. CASE a \in Handlers /\ DatabaseFails(a)
      BY <1>25, <2>3 DEF Stop, DatabaseFails, Forget, Fault
    <2> QED
      BY <1>25, <2>1, <2>2, <2>3 DEF Stop
  <1>26. CASE QuietEffect
    BY <1>26 DEF QuietEffect
  <1>27. ASSUME NEW p \in 1..MaxPictures, DeleteQuietly(p) PROVE FirstInv'
    BY <1>27 DEF DeleteQuietly, Fault
  <1> QED
    BY <1>1, <1>2, <1>3, <1>4, <1>5, <1>6, <1>7, <1>8, <1>9, <1>10, <1>11, <1>12, <1>13, <1>14,
       <1>15, <1>16, <1>17, <1>18, <1>19, <1>20, <1>21, <1>22, <1>23, <1>24, <1>25, <1>26,
       <1>27 DEF DerivedStep

LEMMA WorkInvStep ==
    ASSUME HoldsTypes, RowTypes, PictureTypes, ScanInv, WorkInv, DerivedStep
    PROVE  WorkInv'
  <1> USE Who DEF Begin, GoTo, NoFault, Return, vars, row, local, derived, objects, extras, plocal, Alone,
           HoldsTypes, WorkInv, Working, None, Allowed, Kept
  <1> \A c \in Contents : scan[c] \in Allowed \cup {"infected"} => scan'[c] = scan[c]
    BY ScanStays
  <1>0. Kept => cur \in Contents /\ scan[cur] \in {"pending", "clean", "infected", "unscanned"}
    BY DEF ScanInv, RowTypes
  <1>1. ASSUME NEW h \in Handlers, RequestEffect(h) PROVE WorkInv'
    BY <1>1 DEF RequestEffect
  <1>2. ASSUME NEW h \in Handlers, InsertRow(h) PROVE WorkInv'
    BY <1>2 DEF InsertRow, InsertDocument, Checksum
  <1>3. ASSUME NEW h \in Handlers, StartOver(h) PROVE WorkInv'
    BY <1>3 DEF StartOver, Replace, MayReplace, Current, Kept, Checksum, Doom
  <1>4. ASSUME NEW h \in Handlers, ListDerived(h) PROVE WorkInv'
    BY <1>4 DEF ListDerived
  <1>5. ASSUME NEW h \in Handlers, DropDerived(h) PROVE WorkInv'
    BY <1>5 DEF DropDerived
  <1>6. ASSUME NEW h \in Handlers, PurgeLast(h) PROVE WorkInv'
    BY <1>6 DEF PurgeLast, PurgeCurrent
  <1>7. ASSUME NEW h \in Handlers, DeleteRow(h) PROVE WorkInv'
    BY <1>7 DEF DeleteRow, HardDelete
  <1>8. ASSUME NEW h \in Handlers, BeginChecksum(h) PROVE WorkInv'
    BY <1>8 DEF BeginChecksum
  <1>9. ASSUME NEW h \in Handlers, Hash(h) PROVE WorkInv'
    BY <1>9 DEF Hash
  <1>10. ASSUME NEW h \in Handlers, SetChecksum(h) PROVE WorkInv'
    BY <1>10 DEF SetChecksum, SameObject
  <1>11. ASSUME NEW h \in Handlers, ChecksumFails(h) PROVE WorkInv'
    BY <1>11 DEF ChecksumFails, Fault
  <1>12. ASSUME NEW w \in Workers, ScanEffect(w) PROVE WorkInv'
    BY <1>12 DEF ScanEffect
  <1>13. ASSUME NEW w \in Workers, Clear(w) PROVE WorkInv'
    <2>1. ASSUME NEW v \in Workers, v # w PROVE Working(v)'
      <3>1. at'[v] = at[v] /\ saw'[v] = saw[v] /\ held'[v] = held[v] /\ (v \in owing' => v \in owing)
        BY <1>13, <2>1 DEF Clear, Judge, Judges, Verdict, PictureTypes
      <3>2. pictures' = pictures
        BY <1>13 DEF Clear, Judge, Judges, Verdict
      <3> QED
        BY <2>1, <3>1, <3>2
    <2>2. at[w] = "judge" /\ held'[w] = None /\ w \notin owing
      BY <1>13 DEF Clear, Judge, PictureTypes
    <2>3. CASE Judges(w)
      <3>1. scan'[saw[w]] = Verdict(saw[w]) /\ saw[w] \in Contents
        BY <1>13, <2>3, <1>0 DEF Clear, Judge, Judges, RowTypes
      <3>2. at'[w] = IF Verdict(saw[w]) = "infected" THEN "erase" ELSE "settle"
        BY <1>13, <2>3 DEF Clear, Judge
      <3>3. w \in owing' => scan'[saw[w]] = "clean"
        BY <1>13, <2>2 DEF Clear
      <3>4. Working(w)'
        BY <2>2, <3>1, <3>2, <3>3 DEF Verdict
      <3> QED
        BY <2>1, <3>4
    <2>4. CASE ~ Judges(w)
      BY <1>13, <2>1, <2>2, <2>4 DEF Clear, Judge
    <2> QED
      BY <2>3, <2>4
  <1>14. ASSUME NEW w \in Workers, QueueCleared(w) PROVE WorkInv'
    BY <1>14 DEF QueueCleared
  <1>15. ASSUME NEW w \in Workers, SettleScan(w) PROVE WorkInv'
    BY <1>15 DEF SettleScan, Settle
  <1>16. ASSUME NEW w \in Workers, QueueFails(w) PROVE WorkInv'
    BY <1>16 DEF QueueFails, GiveBack, Fault
  <1>17. ASSUME NEW w \in Workers, ClaimProcess(w) PROVE WorkInv'
    BY <1>17 DEF ClaimProcess
  <1>18. ASSUME NEW w \in Workers, ReadToProcess(w) PROVE WorkInv'
    BY <1>18, <1>0 DEF ReadToProcess, NothingToDo, Quarantined
  <1>19. ASSUME NEW w \in Workers, Skip(w) PROVE WorkInv'
    BY <1>19 DEF Skip
  <1>20. ASSUME NEW w \in Workers, Derive(w) PROVE WorkInv'
    <2>1. ASSUME NEW v \in Workers, v # w PROVE Working(v)'
      <3>1. at'[v] = at[v] /\ saw'[v] = saw[v] /\ held'[v] = held[v] /\ (v \in owing' => v \in owing)
        BY <1>20, <2>1 DEF Derive, PictureTypes
      <3>2. held[v] # None => pictures'[held[v]] = pictures[held[v]]
        BY <1>20, <2>1 DEF Derive, PictureTypes
      <3> QED
        BY <2>1, <3>1, <3>2
    <2>2. saw[w] \in Contents /\ at[w] = "derive" /\ at'[w] = "record" /\ saw'[w] = saw[w] /\ scan' = scan /\ owing' = owing
      BY <1>20 DEF Derive
    <2>3. held'[w] # None => pictures'[held'[w]] = saw[w]
      BY <1>20, <2>2 DEF Derive, PictureTypes
    <2>4. Working(w)'
      BY <1>20, <2>2, <2>3
    <2> QED
      BY <2>1, <2>4
  <1>21. ASSUME NEW w \in Workers, Record(w) PROVE WorkInv'
    <2>1. ASSUME NEW v \in Workers, v # w PROVE Working(v)'
      <3>1. at'[v] = at[v] /\ saw'[v] = saw[v] /\ held'[v] = held[v] /\ (v \in owing' => v \in owing)
        BY <1>21, <2>1 DEF Record, PictureTypes
      <3>2. pictures' = pictures
        BY <1>21 DEF Record
      <3> QED
        BY <2>1, <3>1, <3>2
    <2>2. Working(w)'
      BY <1>21 DEF Record, PictureTypes
    <2> QED
      BY <2>1, <2>2
  <1>22. ASSUME NEW w \in Workers, Discard(w) PROVE WorkInv'
    <2>1. ASSUME NEW v \in Workers, v # w PROVE Working(v)'
      <3>1. at'[v] = at[v] /\ saw'[v] = saw[v] /\ held'[v] = held[v] /\ (v \in owing' => v \in owing)
        BY <1>22, <2>1 DEF Discard, PictureTypes
      <3>2. pictures' = pictures
        BY <1>22 DEF Discard
      <3> QED
        BY <2>1, <3>1, <3>2
    <2>2. Working(w)'
      BY <1>22 DEF Discard, PictureTypes
    <2> QED
      BY <2>1, <2>2
  <1>23. ASSUME NEW w \in Workers, SettleProcess(w) PROVE WorkInv'
    BY <1>23 DEF SettleProcess
  <1>24. ASSUME NEW w \in Workers, ProcessFails(w) PROVE WorkInv'
    <2>1. ASSUME NEW v \in Workers, v # w PROVE Working(v)'
      <3>1. at'[v] = at[v] /\ saw'[v] = saw[v] /\ held'[v] = held[v] /\ (v \in owing' => v \in owing)
        BY <1>24, <2>1 DEF ProcessFails, GiveBackProcess, Forget, PictureTypes
      <3>2. pictures' = pictures
        BY <1>24 DEF ProcessFails, GiveBackProcess, Forget
      <3> QED
        BY <2>1, <3>1, <3>2
    <2>2. Working(w)'
      BY <1>24 DEF ProcessFails, GiveBackProcess, Forget, PictureTypes
    <2> QED
      BY <2>1, <2>2
  <1>25. ASSUME NEW a \in Actors, Stop(a) PROVE WorkInv'
    <2>1. CASE Crash(a)
      <3>1. ASSUME NEW v \in Workers, v # a PROVE Working(v)'
        BY <1>25, <2>1, <3>1 DEF Stop, Crash, Forget, Fault, PictureTypes
      <3>2. ASSUME a \in Workers PROVE Working(a)'
        BY <1>25, <2>1, <3>2 DEF Stop, Crash, Forget, Fault, PictureTypes
      <3> QED
        BY <3>1, <3>2
    <2>2. CASE a \in Handlers /\ StorageFails(a)
      BY <1>25, <2>2 DEF Stop, StorageFails, Forget, Fault
    <2>3. CASE a \in Handlers /\ DatabaseFails(a)
      BY <1>25, <2>3 DEF Stop, DatabaseFails, Forget, Fault
    <2> QED
      BY <1>25, <2>1, <2>2, <2>3 DEF Stop
  <1>26. CASE QuietEffect
    BY <1>26 DEF QuietEffect
  <1>27. ASSUME NEW p \in 1..MaxPictures, DeleteQuietly(p) PROVE WorkInv'
    BY <1>27 DEF DeleteQuietly, Fault
  <1> QED
    BY <1>1, <1>2, <1>3, <1>4, <1>5, <1>6, <1>7, <1>8, <1>9, <1>10, <1>11, <1>12, <1>13, <1>14,
       <1>15, <1>16, <1>17, <1>18, <1>19, <1>20, <1>21, <1>22, <1>23, <1>24, <1>25, <1>26,
       <1>27 DEF DerivedStep

LEMMA PurgeInvStep ==
    ASSUME HoldsTypes, RowTypes, PictureTypes, WorkInv, PurgeInv, DerivedStep
    PROVE  PurgeInv'
  <1> USE Who DEF Begin, GoTo, NoFault, Return, vars, row, local, derived, objects, extras, plocal, Alone,
           HoldsTypes, PictureTypes, PurgeInv, None
  <1>1. ASSUME NEW h \in Handlers, RequestEffect(h) PROVE PurgeInv'
    BY <1>1 DEF RequestEffect
  <1>2. ASSUME NEW h \in Handlers, InsertRow(h) PROVE PurgeInv'
    BY <1>2 DEF InsertRow, InsertDocument, Checksum
  <1>3. ASSUME NEW h \in Handlers, StartOver(h) PROVE PurgeInv'
    BY <1>3 DEF StartOver, Replace, MayReplace, Current, Kept, Checksum, Doom
  <1>4. ASSUME NEW h \in Handlers, ListDerived(h) PROVE PurgeInv'
    BY <1>4 DEF ListDerived
  <1>5. ASSUME NEW h \in Handlers, DropDerived(h) PROVE PurgeInv'
    BY <1>5 DEF DropDerived
  <1>6. ASSUME NEW h \in Handlers, PurgeLast(h) PROVE PurgeInv'
    BY <1>6 DEF PurgeLast, PurgeCurrent
  <1>7. ASSUME NEW h \in Handlers, DeleteRow(h) PROVE PurgeInv'
    BY <1>7 DEF DeleteRow, HardDelete
  <1>8. ASSUME NEW h \in Handlers, BeginChecksum(h) PROVE PurgeInv'
    BY <1>8 DEF BeginChecksum
  <1>9. ASSUME NEW h \in Handlers, Hash(h) PROVE PurgeInv'
    BY <1>9 DEF Hash
  <1>10. ASSUME NEW h \in Handlers, SetChecksum(h) PROVE PurgeInv'
    BY <1>10 DEF SetChecksum, SameObject
  <1>11. ASSUME NEW h \in Handlers, ChecksumFails(h) PROVE PurgeInv'
    BY <1>11 DEF ChecksumFails, Fault
  <1>12. ASSUME NEW w \in Workers, ScanEffect(w) PROVE PurgeInv'
    BY <1>12 DEF ScanEffect
  <1>13. ASSUME NEW w \in Workers, Clear(w) PROVE PurgeInv'
    BY <1>13 DEF Clear, Judge, Judges, Verdict
  <1>14. ASSUME NEW w \in Workers, QueueCleared(w) PROVE PurgeInv'
    BY <1>14 DEF QueueCleared
  <1>15. ASSUME NEW w \in Workers, SettleScan(w) PROVE PurgeInv'
    BY <1>15 DEF SettleScan, Settle
  <1>16. ASSUME NEW w \in Workers, QueueFails(w) PROVE PurgeInv'
    BY <1>16 DEF QueueFails, GiveBack, Fault
  <1>17. ASSUME NEW w \in Workers, ClaimProcess(w) PROVE PurgeInv'
    BY <1>17 DEF ClaimProcess
  <1>18. ASSUME NEW w \in Workers, ReadToProcess(w) PROVE PurgeInv'
    BY <1>18 DEF ReadToProcess, NothingToDo, Quarantined
  <1>19. ASSUME NEW w \in Workers, Skip(w) PROVE PurgeInv'
    BY <1>19 DEF Skip
  <1>20. ASSUME NEW w \in Workers, Derive(w) PROVE PurgeInv'
    BY <1>20 DEF Derive, Depicted
  <1>21. ASSUME NEW w \in Workers, Record(w) PROVE PurgeInv'
    BY <1>21 DEF Record, Unmoved, Doom
  <1>22. ASSUME NEW w \in Workers, Discard(w) PROVE PurgeInv'
    BY <1>22 DEF Discard, Unmoved, Doom
  <1>23. ASSUME NEW w \in Workers, SettleProcess(w) PROVE PurgeInv'
    BY <1>23 DEF SettleProcess
  <1>24. ASSUME NEW w \in Workers, ProcessFails(w) PROVE PurgeInv'
    BY <1>24 DEF ProcessFails, GiveBackProcess, Forget, Fault
  <1>25. ASSUME NEW a \in Actors, Stop(a) PROVE PurgeInv'
    <2>1. CASE Crash(a)
      BY <1>25, <2>1 DEF Stop, Crash, Forget, Fault
    <2>2. CASE a \in Handlers /\ StorageFails(a)
      BY <1>25, <2>2 DEF Stop, StorageFails, Forget, Fault
    <2>3. CASE a \in Handlers /\ DatabaseFails(a)
      BY <1>25, <2>3 DEF Stop, DatabaseFails, Forget, Fault
    <2> QED
      BY <1>25, <2>1, <2>2, <2>3 DEF Stop
  <1>26. CASE QuietEffect
    BY <1>26 DEF QuietEffect
  <1>27. ASSUME NEW p \in 1..MaxPictures, DeleteQuietly(p) PROVE PurgeInv'
    BY <1>27 DEF DeleteQuietly, Fault
  <1> QED
    BY <1>1, <1>2, <1>3, <1>4, <1>5, <1>6, <1>7, <1>8, <1>9, <1>10, <1>11, <1>12, <1>13, <1>14,
       <1>15, <1>16, <1>17, <1>18, <1>19, <1>20, <1>21, <1>22, <1>23, <1>24, <1>25, <1>26,
       <1>27 DEF DerivedStep

\* The steps that touch no picture.
Framed ==
    /\ UNCHANGED <<picture, shelf, doomed, held>>
    /\ lapses \subseteq lapses'
    /\ faults' \in Nat /\ faults <= faults'

LEMMA PlacesFramed ==
    ASSUME Places, Framed, faults \in Nat
    PROVE  Places'
  BY DEF Places, Framed

\* An actor that crashes, or whose call fails, forgets its picture.
LEMMA PlacesForgotten ==
    ASSUME Places, PictureTypes, NEW a \in Actors, faults \in Nat,
           held' = [held EXCEPT ![a] = None], UNCHANGED <<picture, shelf, doomed>>,
           faults' = faults + 1 \/ (faults' = faults /\ held[a] = None)
    PROVE  Places'
  <1>1. \A b \in Actors : held'[b] = IF b = a THEN None ELSE held[b]
    BY DEF PictureTypes
  <1>2. \A w \in Workers : held'[w] # None => held'[w] = held[w]
    BY <1>1, Who
  <1>3. \A v, w \in Workers : held'[v] # None /\ held'[v] = held'[w] => v = w
    BY <1>2 DEF Places
  <1>4. ASSUME faults' = 0, NEW p \in shelf
        PROVE  p = picture \/ p \in doomed \/ \E b \in Actors : held'[b] = p
    <2>1. faults = 0 /\ held[a] = None
      BY <1>4
    <2>2. \A b \in Actors : held'[b] = held[b]
      BY <2>1, <1>1
    <2> QED
      BY <2>1, <2>2 DEF Places
  <1> QED
    BY <1>2, <1>3, <1>4 DEF Places

LEMMA PlacesStep ==
    ASSUME DerivedInv, DerivedStep, "purge" \notin lapses'
    PROVE  Places'
  <1> USE Who
  <1>0. DerivedTypes /\ WorkInv /\ PurgeInv /\ FromCurrent /\ faults \in Nat
    BY DEF DerivedInv, DerivedTypes, RowTypes
  <1>00. "purge" \notin lapses => Places
    BY DEF DerivedInv, HeldInv
  <1> USE DEF NoFault, vars, row, local, derived, objects, extras, plocal
  <1>1. ASSUME NEW h \in Handlers,
               \/ RequestEffect(h) \/ InsertRow(h) \/ PurgeLast(h) \/ BeginChecksum(h) \/ Hash(h)
               \/ SetChecksum(h) \/ ChecksumFails(h)
        PROVE  Places'
    <2>1. Framed
      BY <1>0, <1>1 DEF Framed, RequestEffect, InsertRow, InsertDocument, PurgeLast, PurgeCurrent,
               BeginChecksum, Hash, SetChecksum, ChecksumFails, Fault
    <2> QED
      BY <2>1, <1>0, <1>00, PlacesFramed DEF Framed
  <1>2. ASSUME NEW w \in Workers,
               \/ ScanEffect(w) \/ Clear(w) \/ QueueCleared(w) \/ SettleScan(w) \/ ClaimProcess(w)
               \/ ReadToProcess(w) \/ SettleProcess(w)
        PROVE  Places'
    <2>1. Framed
      BY <1>0, <1>2 DEF Framed, ScanEffect, Clear, Judge, QueueCleared, SettleScan, Settle, ClaimProcess,
               ReadToProcess, SettleProcess
    <2> QED
      BY <2>1, <1>0, <1>00, PlacesFramed DEF Framed
  <1>3. CASE QuietEffect
    <2>1. Framed
      BY <1>0, <1>3 DEF Framed, QuietEffect
    <2> QED
      BY <2>1, <1>0, <1>00, PlacesFramed DEF Framed
  <1>4. ASSUME NEW w \in Workers, QueueFails(w) \/ ProcessFails(w) PROVE Places'
    <2>1. held' = [held EXCEPT ![w] = None] \/ held' = held
      BY <1>4 DEF QueueFails, ProcessFails, GiveBackProcess, Forget
    <2>2. UNCHANGED <<picture, shelf, doomed, lapses>>
      BY <1>4 DEF QueueFails, ProcessFails, GiveBackProcess, Forget
    <2>3. faults' = faults + 1 \/ (faults' = faults /\ at[w] = "derive")
      BY <1>4 DEF QueueFails, ProcessFails, Fault
    <2>4. at[w] = "derive" => held[w] = None
      BY <1>0 DEF WorkInv, Working
    <2>5. CASE held' = held
      BY <2>2, <2>3, <2>5, <1>0, <1>00, PlacesFramed DEF Framed
    <2> QED
      BY <2>1, <2>2, <2>3, <2>4, <2>5, <1>0, <1>00, PlacesForgotten DEF DerivedTypes
  <1>5. ASSUME NEW a \in Actors, Stop(a) PROVE Places'
    <2>1. held' = [held EXCEPT ![a] = None] /\ UNCHANGED <<picture, shelf, doomed>>
      BY <1>5 DEF Stop, Forget
    <2>2. faults' = faults + 1 /\ lapses' = lapses
      BY <1>5 DEF Stop, Crash, StorageFails, DatabaseFails, Fault
    <2> QED
      BY <2>1, <2>2, <1>0, <1>00, PlacesForgotten DEF DerivedTypes
  <1>6. ASSUME NEW h \in Handlers, DropDerived(h) PROVE Places'
    BY <1>6 DEF DropDerived
  <1>7. ASSUME NEW h \in Handlers, StartOver(h) PROVE Places'
    <2>1. picture' = None /\ doomed' = doomed \cup ({picture} \ {None}) /\ UNCHANGED <<shelf, held, lapses, faults>>
      BY <1>7 DEF StartOver, Replace, Doom
    <2> QED
      BY <2>1, <1>00 DEF Places
  <1>8. ASSUME NEW h \in Handlers, ListDerived(h) PROVE Places'
    <2>1. held' = [held EXCEPT ![h] = picture] /\ UNCHANGED <<picture, shelf, doomed, lapses, faults>>
      BY <1>8 DEF ListDerived
    <2>2. held[h] = None
      BY <1>0, <1>8 DEF ListDerived, PurgeInv
    <2>3. \A b \in Actors : held'[b] = IF b = h THEN picture ELSE held[b]
      BY <2>1, <1>0 DEF DerivedTypes, PictureTypes
    <2>4. \A w \in Workers : held'[w] = held[w]
      BY <2>3
    <2>5. ASSUME NEW p \in shelf, NEW b \in Actors, held[b] = p
          PROVE  held'[b] = p \/ p = None
      BY <2>2, <2>3, <2>5
    <2>6. None \notin shelf
      BY <1>0 DEF DerivedTypes, PictureTypes, None
    <2>7. faults = 0 => \A p \in shelf : p = picture \/ p \in doomed \/ \E a \in Actors : held'[a] = p
      BY <2>5, <2>6, <2>1, <1>00 DEF Places
    <2> QED
      BY <2>1, <2>4, <2>7, <1>00 DEF Places
  <1>9. ASSUME NEW h \in Handlers, DeleteRow(h) PROVE Places'
    <2>1. "purge" \in lapses
      BY <1>0, <1>9 DEF DeleteRow, HardDelete, PurgeInv
    <2> QED
      BY <1>9, <2>1 DEF DeleteRow, HardDelete
  <1>10. ASSUME NEW w \in Workers, Skip(w) PROVE Places'
    <2>1. picture' = picture
      <3>1. at[w] = "skip" /\ scan[saw[w]] = "infected"
        BY <1>0, <1>10 DEF Skip, WorkInv, Working
      <3>2. cur = saw[w] => picture = None
        BY <3>1, <1>0 DEF FromCurrent, Allowed
      <3> QED
        BY <1>10, <3>2 DEF Skip
    <2>2. Framed
      BY <1>0, <1>10, <2>1 DEF Framed, Skip
    <2> QED
      BY <2>2, <1>0, <1>00, PlacesFramed DEF Framed
  <1>11. ASSUME NEW w \in Workers, Derive(w) PROVE Places'
    <2>1. held[w] = None /\ UNCHANGED <<picture, doomed, lapses, faults>>
      BY <1>0, <1>11 DEF Derive, WorkInv, Working
    <2>2. CASE ~ Depicted(saw[w])
      BY <1>0, <1>00, <1>11, <2>2, PlacesFramed DEF Framed, Derive
    <2>3. CASE Depicted(saw[w])
      <3> DEFINE n == Len(pictures')
      <3>1. shelf' = shelf \cup {n} /\ held' = [held EXCEPT ![w] = n]
        BY <1>11, <2>3 DEF Derive
      <3>2. n = Len(pictures) + 1
        BY <1>0, <1>11, <2>3 DEF Derive, DerivedTypes, PictureTypes
      <3>3. n # None /\ n # picture /\ n \notin doomed /\ \A v \in Actors : held[v] # n
        <4>1. Len(pictures) \in Nat /\ picture \in 0..Len(pictures) /\ doomed \subseteq 1..Len(pictures)
              /\ held \in [Actors -> 0..Len(pictures)]
          BY <1>0 DEF DerivedTypes, PictureTypes
        <4> HIDE DEF n
        <4> QED
          BY <4>1, <3>2 DEF None
      <3>4. \A b \in Actors : held'[b] = IF b = w THEN n ELSE held[b]
        BY <3>1, <1>0 DEF DerivedTypes, PictureTypes
      <3> HIDE DEF n
      <3>5. None \notin shelf
        BY <1>0 DEF DerivedTypes, PictureTypes, None
      <3>6. \A v \in Workers : held'[v] # None => held'[v] \in shelf' \ doomed /\ held'[v] # picture
        BY <3>1, <3>3, <3>4, <2>1, <1>00 DEF Places
      <3>7. \A u, v \in Workers : held'[u] # None /\ held'[u] = held'[v] => u = v
        BY <3>3, <3>4, <2>1, <1>00 DEF Places
      <3>8. ASSUME faults = 0, NEW p \in shelf'
            PROVE  p = picture \/ p \in doomed \/ \E a \in Actors : held'[a] = p
        <4>1. CASE p = n
          BY <4>1, <3>4
        <4>2. CASE p \in shelf
          <5>1. p = picture \/ p \in doomed \/ \E a \in Actors : held[a] = p
            BY <4>2, <3>8, <2>1, <1>00 DEF Places
          <5> QED
            BY <5>1, <4>2, <3>4, <3>5, <2>1
        <4> QED
          BY <4>1, <4>2, <3>1
      <3> QED
        BY <3>1, <3>6, <3>7, <3>8, <2>1, <1>00 DEF Places
    <2> QED
      BY <2>2, <2>3
  <1>12. ASSUME NEW w \in Workers, Record(w) PROVE Places'
    <2>1. /\ picture' = held[w] /\ held' = [held EXCEPT ![w] = None]
          /\ doomed' = doomed \cup ({picture} \ {None}) /\ UNCHANGED <<shelf, lapses, faults>>
      BY <1>12 DEF Record, Doom
    <2>2. \A b \in Actors : held'[b] = IF b = w THEN None ELSE held[b]
      BY <2>1, <1>0 DEF DerivedTypes, PictureTypes
    <2>3. None \notin shelf
      BY <1>0 DEF DerivedTypes, PictureTypes, None
    <2>4. picture' # None => picture' \in shelf' \ doomed'
      BY <2>1, <1>00 DEF Places
    <2>5. \A v \in Workers : held'[v] # None => held'[v] \in shelf' \ doomed' /\ held'[v] # picture'
      BY <2>1, <2>2, <1>00 DEF Places
    <2>6. \A u, v \in Workers : held'[u] # None /\ held'[u] = held'[v] => u = v
      BY <2>1, <2>2, <1>00 DEF Places
    <2>7. ASSUME faults = 0, NEW p \in shelf
          PROVE  p = picture' \/ p \in doomed' \/ \E a \in Actors : held'[a] = p
      <3>1. p = picture \/ p \in doomed \/ \E a \in Actors : held[a] = p
        BY <2>1, <2>7, <1>00 DEF Places
      <3> QED
        BY <3>1, <2>1, <2>2, <2>3
    <2> QED
      BY <2>1, <2>4, <2>5, <2>6, <2>7 DEF Places
  <1>13. ASSUME NEW w \in Workers, Discard(w) PROVE Places'
    <2>1. /\ held' = [held EXCEPT ![w] = None] /\ doomed' = doomed \cup ({held[w]} \ {None})
          /\ UNCHANGED <<picture, shelf, lapses, faults>>
      BY <1>13 DEF Discard, Doom
    <2>2. \A b \in Actors : held'[b] = IF b = w THEN None ELSE held[b]
      BY <2>1, <1>0 DEF DerivedTypes, PictureTypes
    <2>3. None \notin shelf
      BY <1>0 DEF DerivedTypes, PictureTypes, None
    <2>4. picture # None => picture \in shelf \ doomed'
      BY <2>1, <1>00 DEF Places
    <2>5. \A v \in Workers : held'[v] # None => held'[v] \in shelf \ doomed' /\ held'[v] # picture
      BY <2>1, <2>2, <1>00 DEF Places
    <2>6. \A u, v \in Workers : held'[u] # None /\ held'[u] = held'[v] => u = v
      BY <2>1, <2>2, <1>00 DEF Places
    <2>7. ASSUME faults = 0, NEW p \in shelf
          PROVE  p = picture \/ p \in doomed' \/ \E a \in Actors : held'[a] = p
      <3>1. p = picture \/ p \in doomed \/ \E a \in Actors : held[a] = p
        BY <2>1, <2>7, <1>00 DEF Places
      <3> QED
        BY <3>1, <2>1, <2>2, <2>3
    <2> QED
      BY <2>1, <2>4, <2>5, <2>6, <2>7 DEF Places
  <1>14. ASSUME NEW p \in 1..MaxPictures, DeleteQuietly(p) PROVE Places'
    <2>1. /\ p \in doomed /\ doomed' = doomed \ {p} /\ UNCHANGED <<picture, held, lapses>>
          /\ (shelf' = shelf \ {p} /\ faults' = faults) \/ (shelf' = shelf /\ faults' = faults + 1)
      BY <1>14 DEF DeleteQuietly, Fault
    <2> QED
      BY <2>1, <1>0, <1>00 DEF Places
  <1> QED
    BY <1>1, <1>2, <1>3, <1>4, <1>5, <1>6, <1>7, <1>8, <1>9, <1>10, <1>11, <1>12, <1>13, <1>14
       DEF DerivedStep

LEMMA FromCurrentStep ==
    ASSUME DerivedInv, DerivedStep
    PROVE  FromCurrent'
  <1> USE Who
  <1>0. DerivedTypes /\ ScanInv /\ FirstInv /\ WorkInv /\ FromCurrent
    BY DEF DerivedInv
  <1>00. /\ cur \in Contents \cup {NoKey}
         /\ \A c \in Contents : scan[c] \in Allowed => scan'[c] = scan[c]
         /\ picture # None \/ text # NoKey => cur \in Contents /\ scan'[cur] = scan[cur]
    <2>1. \A c \in Contents : scan[c] \in Allowed => scan'[c] = scan[c]
      BY <1>0, ScanStays DEF DerivedTypes
    <2>2. picture # None \/ text # NoKey => cur \in Contents
      <3>1. picture # None => pictures[picture] = cur /\ pictures[picture] \in Contents
        BY <1>0 DEF FromCurrent, DerivedTypes, PictureTypes, None
      <3> QED
        BY <3>1, <1>0 DEF FromCurrent, DerivedTypes, RowTypes
    <2> QED
      BY <2>1, <2>2, <1>0 DEF DerivedTypes, RowTypes, FromCurrent
  <1> USE DEF NoFault, vars, row, local, derived, objects, extras, plocal
  <1>1. ASSUME UNCHANGED <<cur, picture, processed, text>>, checked' \in {checked, NoKey, cur},
               picture # None => pictures'[picture] = pictures[picture]
        PROVE  FromCurrent'
    BY <1>0, <1>00, <1>1 DEF FromCurrent
  <1>2. ASSUME NEW h \in Handlers,
               \/ RequestEffect(h) \/ PurgeLast(h) \/ ListDerived(h) \/ DropDerived(h)
               \/ BeginChecksum(h) \/ Hash(h) \/ SetChecksum(h) \/ ChecksumFails(h)
        PROVE  FromCurrent'
    <2>1. UNCHANGED <<cur, picture, processed, text, pictures>> /\ checked' \in {checked, NoKey, cur}
      BY <1>2 DEF RequestEffect, PurgeLast, PurgeCurrent, ListDerived, DropDerived, BeginChecksum, Hash,
               SetChecksum, SameObject, ChecksumFails, Fault
    <2> QED
      BY <1>1, <2>1
  <1>3. ASSUME NEW w \in Workers,
               \/ ScanEffect(w) \/ Clear(w) \/ QueueCleared(w) \/ SettleScan(w) \/ QueueFails(w)
               \/ ClaimProcess(w) \/ ReadToProcess(w) \/ SettleProcess(w) \/ ProcessFails(w)
               \/ Discard(w)
        PROVE  FromCurrent'
    <2>1. UNCHANGED <<cur, picture, processed, text, pictures, checked>>
      BY <1>3 DEF ScanEffect, Clear, Judge, QueueCleared, SettleScan, Settle, QueueFails, GiveBack,
               ClaimProcess, ReadToProcess, SettleProcess, ProcessFails, GiveBackProcess, Forget, Discard
    <2> QED
      BY <1>1, <2>1
  <1>4. ASSUME NEW a \in Actors, Stop(a) PROVE FromCurrent'
    <2>1. UNCHANGED <<cur, picture, processed, text, pictures, checked>>
      BY <1>4 DEF Stop, Forget, Crash, StorageFails, DatabaseFails
    <2> QED
      BY <1>1, <2>1
  <1>5. ASSUME QuietEffect \/ \E p \in 1..MaxPictures : DeleteQuietly(p) PROVE FromCurrent'
    <2>1. UNCHANGED <<cur, picture, processed, text, pictures, checked>>
      BY <1>5 DEF QuietEffect, DeleteQuietly
    <2> QED
      BY <1>1, <2>1
  <1>6. ASSUME NEW h \in Handlers, InsertRow(h) PROVE FromCurrent'
    <2>1. picture = None /\ text = NoKey
      BY <1>0, <1>6 DEF InsertRow, InsertDocument, FirstInv
    <2>2. UNCHANGED <<picture, processed, text>> /\ cur' = mine[h] /\ checked' \in {NoKey, mine[h]}
      BY <1>6 DEF InsertRow, InsertDocument, Checksum
    <2> QED
      BY <2>1, <2>2 DEF FromCurrent
  <1>7. ASSUME NEW h \in Handlers, StartOver(h) PROVE FromCurrent'
    <2>1. picture' = None /\ text' = NoKey /\ cur' = mine[h] /\ checked' \in {NoKey, mine[h]}
      BY <1>7 DEF StartOver, Replace, Checksum
    <2> QED
      BY <2>1 DEF FromCurrent
  <1>8. ASSUME NEW h \in Handlers, DeleteRow(h) PROVE FromCurrent'
    <2>1. cur' = cur /\ pictures' = pictures
      BY <1>8 DEF DeleteRow, HardDelete
    <2>2. CASE status' = "gone"
      BY <1>8, <2>1, <2>2 DEF DeleteRow, FromCurrent
    <2>3. CASE status' # "gone"
      BY <1>1, <1>8, <2>1, <2>3 DEF DeleteRow
    <2> QED
      BY <2>2, <2>3
  <1>9. ASSUME NEW w \in Workers, Skip(w) PROVE FromCurrent'
    <2>1. at[w] = "skip" /\ scan[saw[w]] = "infected"
      BY <1>0, <1>9 DEF Skip, WorkInv, Working
    <2>2. cur = saw[w] => picture = None /\ text = NoKey
      BY <2>1, <1>0 DEF FromCurrent, Allowed
    <2>3. UNCHANGED <<cur, picture, text, pictures, checked>> /\ (picture # None => processed' = processed)
      BY <1>9, <2>2 DEF Skip
    <2> QED
      BY <2>3, <1>0, <1>00 DEF FromCurrent
  <1>10. ASSUME NEW w \in Workers, Derive(w) PROVE FromCurrent'
    <2>1. UNCHANGED <<cur, picture, processed, text, checked>>
      BY <1>10 DEF Derive
    <2>2. picture # None => pictures'[picture] = pictures[picture]
      <3>1. pictures \in Seq(Contents) /\ picture \in 0..Len(pictures)
        BY <1>0 DEF DerivedTypes, PictureTypes
      <3>2. pictures' = pictures \/ pictures' = Append(pictures, saw[w])
        BY <1>10 DEF Derive
      <3> QED
        BY <3>1, <3>2 DEF None
    <2> QED
      BY <1>1, <2>1, <2>2
  <1>11. ASSUME NEW w \in Workers, Record(w) PROVE FromCurrent'
    <2>1. /\ cur = saw[w] /\ UNCHANGED <<cur, pictures, checked>>
          /\ picture' = held[w] /\ processed' = saw[w] /\ text' \in {NoKey, saw[w]}
      BY <1>11 DEF Record, Unmoved
    <2>2. /\ saw[w] \in Contents /\ scan[saw[w]] \in Allowed
          /\ held[w] # None => pictures[held[w]] = saw[w]
      BY <1>0, <1>11 DEF Record, WorkInv, Working
    <2> QED
      BY <2>1, <2>2, <1>0, <1>00 DEF FromCurrent
  <1> QED
    BY <1>2, <1>3, <1>4, <1>5, <1>6, <1>7, <1>8, <1>9, <1>10, <1>11 DEF DerivedStep

LEMMA DerivedInvariant == SpecAll => []DerivedInv
  <1>1. ASSUME InitAll PROVE DerivedInv
    <2> USE DEF InitAll, Init, None
    <2>1. HoldsTypes /\ RowTypes
      BY <1>1 DEF HoldsTypes, RowTypes, AllSteps, Steps
    <2>2. PictureTypes
      BY <1>1 DEF PictureTypes
    <2>3. ScanInv /\ FirstInv /\ WorkInv /\ PurgeInv
      BY <1>1, Who DEF ScanInv, FirstInv, WorkInv, Working, PurgeInv, Kept
    <2>4. HeldInv /\ FromCurrent
      BY <1>1, Who DEF HeldInv, Places, FromCurrent
    <2> QED
      BY <2>1, <2>2, <2>3, <2>4 DEF DerivedInv, DerivedTypes
  <1>2. ASSUME DerivedInv, [NextAll]_all PROVE DerivedInv'
    <2>1. HoldsTypes /\ RowTypes /\ PictureTypes /\ ScanInv /\ FirstInv /\ WorkInv /\ PurgeInv
      BY <1>2 DEF DerivedInv, DerivedTypes
    <2>2. DerivedStep
      BY <1>2, <2>1, DerivedSteps
    <2>3. DerivedTypes'
      BY <2>1, <2>2, HoldsTypesStep, RowTypesStep, PictureTypesStep DEF DerivedTypes
    <2>4. ScanInv' /\ FirstInv' /\ WorkInv' /\ PurgeInv'
      BY <2>1, <2>2, ScanInvStep, FirstInvStep, WorkInvStep, PurgeInvStep
    <2>5. HeldInv'
      BY <1>2, <2>2, PlacesStep DEF HeldInv
    <2>6. FromCurrent'
      BY <1>2, <2>2, FromCurrentStep
    <2> QED
      BY <2>3, <2>4, <2>5, <2>6 DEF DerivedInv
  <1> QED
    BY <1>1, <1>2, PTL DEF SpecAll

\* What is derived from a document was made from its current content, once that
\* was cleared, and is in storage; and no picture is left over (processDocument,
\* jobs/document.process).
THEOREM DerivedHolds == SpecAll => []DerivedSound
  <1>1. ASSUME DerivedInv PROVE DerivedSound
    <2>1. FromCurrent
      BY <1>1 DEF DerivedInv
    <2>2. ASSUME "purge" \notin lapses
          PROVE  /\ picture # None => picture \in shelf \ doomed
                 /\ faults = 0 => shelf \subseteq {picture} \cup doomed \cup {held[a] : a \in Actors}
      BY <1>1, <2>2 DEF DerivedInv, HeldInv, Places
    <2> QED
      BY <2>1, <2>2 DEF DerivedSound, PictureKept
  <1> QED
    BY <1>1, DerivedInvariant, PTL

\* Nor does what workers and requests do beside the scan vouch for malware.
LEMMA VerdictsDerived ==
    ASSUME DerivedInv, DerivedStep, VerdictsEarned
    PROVE  VerdictsEarned'
  <1> USE DEF vars, row
  <1>0. HoldsTypes /\ RowTypes
    BY DEF DerivedInv, DerivedTypes
  <1>1. ASSUME UNCHANGED scan PROVE VerdictsEarned'
    BY <1>1 DEF VerdictsEarned
  <1>2. ASSUME NEW h \in Handlers, RequestEffect(h) PROVE VerdictsEarned'
    <2>1. CASE UNCHANGED <<scan, fresh>>
      BY <1>1, <2>1
    <2>2. ASSUME NEW c \in fresh, NEW s \in {"pending", "clean", "unscanned"},
                 scan' = [scan EXCEPT ![c] = s],
                 s = "clean" /\ c \in Malware => \E v \in Contents \cap Malware : scan[v] = "clean"
          PROVE  VerdictsEarned'
      <3>1. s = "clean" => c \notin Malware
        BY <2>2 DEF VerdictsEarned
      <3>2. \A d \in Contents : scan'[d] = IF d = c THEN s ELSE scan[d]
        BY <2>2, <1>0 DEF RowTypes
      <3> QED
        BY <3>1, <3>2 DEF VerdictsEarned
    <2> QED
      BY <1>2, <2>1, <2>2 DEF RequestEffect, Registers
  <1>3. ASSUME NEW w \in Workers, Clear(w) PROVE VerdictsEarned'
    <2>1. CASE Judges(w)
      <3>1. scan' = [scan EXCEPT ![saw[w]] = Verdict(saw[w])]
        BY <1>3, <2>1 DEF Clear, Judge, Judges
      <3>2. \A d \in Contents : scan'[d] = IF d = saw[w] THEN Verdict(d) ELSE scan[d]
        BY <3>1, <1>0 DEF RowTypes
      <3> QED
        BY <3>2 DEF VerdictsEarned, Verdict
    <2>2. CASE ~ Judges(w)
      BY <1>1, <1>3, <2>2 DEF Clear, Judge
    <2> QED
      BY <2>1, <2>2
  <1>4. ASSUME NEW h \in Handlers,
               \/ InsertRow(h) \/ StartOver(h)
               \/ ListDerived(h) \/ DropDerived(h) \/ PurgeLast(h) \/ DeleteRow(h)
               \/ BeginChecksum(h) \/ Hash(h) \/ SetChecksum(h) \/ ChecksumFails(h)
        PROVE  UNCHANGED scan
    BY <1>4 DEF InsertRow, InsertDocument, StartOver, Replace, ListDerived, DropDerived, PurgeLast,
                PurgeCurrent, DeleteRow, HardDelete, BeginChecksum, Hash, SetChecksum, ChecksumFails
  <1>5. ASSUME NEW w \in Workers,
               \/ ScanEffect(w) \/ QueueCleared(w) \/ SettleScan(w) \/ QueueFails(w)
               \/ ClaimProcess(w) \/ ReadToProcess(w) \/ Skip(w) \/ Derive(w)
               \/ Record(w) \/ Discard(w) \/ SettleProcess(w) \/ ProcessFails(w)
        PROVE  UNCHANGED scan
    BY <1>5 DEF ScanEffect, QueueCleared, SettleScan, Settle, QueueFails, GiveBack, ClaimProcess,
                ReadToProcess, Skip, Derive, Record, Discard, SettleProcess, ProcessFails, GiveBackProcess
  <1>6. ASSUME NEW a \in Actors, Stop(a) PROVE UNCHANGED scan
    BY <1>6 DEF Stop, Crash, StorageFails, DatabaseFails
  <1>7. ASSUME QuietEffect \/ \E p \in 1..MaxPictures : DeleteQuietly(p) PROVE UNCHANGED scan
    BY <1>7 DEF QuietEffect, DeleteQuietly
  <1> QED
    BY <1>1, <1>2, <1>3, <1>4, <1>5, <1>6, <1>7 DEF DerivedStep

\* The same for the document with everything that is derived from it.
THEOREM VerdictsHoldAll == SpecAll => []VerdictsEarned
  <1>1. ASSUME InitAll PROVE VerdictsEarned
    BY <1>1 DEF InitAll, Init, VerdictsEarned
  <1>2. ASSUME DerivedInv, VerdictsEarned, [NextAll]_all PROVE VerdictsEarned'
    BY <1>2, DerivedSteps, VerdictsDerived DEF DerivedInv, DerivedTypes
  <1> QED
    BY <1>1, <1>2, DerivedInvariant, PTL DEF SpecAll

=============================================================================
