---------------------------- MODULE BrowserUploads -------------------------
(***************************************************************************)
(* The uploader of the web application: one file that is sent in parts by  *)
(* several workers, in front of what the API and storage know of it. A run *)
(* is one call of directUpload; the documents page starts, cancels and     *)
(* resumes runs. Workers of a run that has failed go on with the part they *)
(* are at. What DirectUploads models in detail is one step here.           *)
(***************************************************************************)
EXTENDS Naturals, FiniteSets, Sequences, FiniteSetsExt

CONSTANTS
    Parts,          \* numbers of the file's parts
    Workers,        \* CONCURRENCY
    SignBatch,      \* SIGN_BATCH
    PartAttempts,   \* PART_ATTEMPTS
    Runs,           \* bound: calls of directUpload
    None,
    MaxFaults       \* bound: requests that fail or whose answer is lost, uploads that expire

VARIABLES
    uploads,    \* the API's rows, in the order they were made, with the parts storage has
    saved,      \* the upload that localStorage remembers for the file; 0 is none
    run,        \* of each run: its step and the variables of its closure
    worker,     \* of each worker of each run: its part, its attempt and its step
    control,    \* uploadControl.current
    issue,      \* uploadIssue: a run that stopped
    deletes,    \* DELETEs that cancelDirectUpload has sent
    stranded,   \* uploads whose id was lost with a request that failed
    faults

page == <<control, issue, deletes>>
troubles == <<stranded, faults>>
vars == <<uploads, saved, run, worker, page, troubles>>

Fresh == [step |-> "idle", id |-> 0, aborted |-> FALSE, queue |-> {}, urls |-> {}, signing |-> {},
          end |-> "none"]
AtRest == [part |-> 0, attempt |-> 0, step |-> "rest"]

Pending(u) == u # 0 /\ uploads[u].status = "pending"

\* A request fails, and with it what is known of uploads S.
Fault(S) == faults < MaxFaults /\ faults' = faults + 1 /\ stranded' = stranded \cup S

-----------------------------------------------------------------------------
(***************************************************************************)
(* The page                                                                *)
(***************************************************************************)

\* uploadFiles, by the button, which is disabled during an upload, or to resume.
Start(r) ==
    /\ run[r] = Fresh /\ control = None
    /\ run' = [run EXCEPT ![r].step = "open"]
    /\ control' = r
    /\ issue' = FALSE
    /\ UNCHANGED <<uploads, saved, worker, deletes, troubles>>

\* cancelUpload: the signal, and cancelDirectUpload for what is saved.
Cancel ==
    /\ control # None
    /\ run' = [run EXCEPT ![control].aborted = TRUE]
    /\ deletes' = IF saved = 0 THEN deletes ELSE deletes \cup {saved}
    /\ saved' = 0
    /\ UNCHANGED <<uploads, worker, control, issue, troubles>>

\* Discard, beside an upload that stopped.
Discard ==
    /\ issue
    /\ issue' = FALSE
    /\ deletes' = IF saved = 0 THEN deletes ELSE deletes \cup {saved}
    /\ saved' = 0
    /\ UNCHANGED <<uploads, run, worker, control, troubles>>

\* DELETE of an upload ends one that is pending; its failure is ignored.
Abort(u) == uploads' = IF Pending(u) THEN [uploads EXCEPT ![u] = [status |-> "ended", stored |-> {}]]
                                     ELSE uploads

Deleted(u) ==
    /\ u \in deletes
    /\ deletes' = deletes \ {u}
    /\ \/ Abort(u) /\ UNCHANGED troubles
       \/ Fault({u}) /\ UNCHANGED uploads
    /\ UNCHANGED <<saved, run, worker, control, issue>>

\* What uploadFiles does when a run ends.
Over(r, end) ==
    /\ control' = None
    /\ issue' = (issue \/ end = "failed")

-----------------------------------------------------------------------------
(***************************************************************************)
(* openOrResume                                                            *)
(***************************************************************************)

Begun(r, id, received) ==
    [run[r] EXCEPT !.step = "send", !.id = id, !.queue = Parts \ received]

\* cancelled(): the upload is forgotten, then deleted.
Cancelling(r, id) == [run[r] EXCEPT !.step = "cancel", !.id = id, !.queue = {}]

\* The upload is known; a cancel that came before is seen here.
Opened(r, id, received) ==
    IF run[r].aborted
    THEN run' = [run EXCEPT ![r] = Cancelling(r, id)] /\ saved' = 0
    ELSE run' = [run EXCEPT ![r] = Begun(r, id, received)] /\ saved' = id

Failed(r) == [run[r] EXCEPT !.step = "over", !.end = "failed", !.queue = {}]

Open(r) ==
    /\ run[r].step = "open"
    /\ run' = [run EXCEPT ![r].step = IF saved = 0 THEN "create" ELSE "status", ![r].id = saved]
    /\ UNCHANGED <<uploads, saved, worker, page, troubles>>

\* GET the saved upload: continue with it, or forget it; a network error ends the run.
Resume(r) ==
    /\ run[r].step = "status"
    /\ \/ /\ Pending(run[r].id)
          /\ Opened(r, run[r].id, uploads[run[r].id].stored)
          /\ UNCHANGED <<control, issue, troubles>>
       \/ /\ ~ Pending(run[r].id)
          /\ run' = [run EXCEPT ![r].step = "create"]
          /\ saved' = 0
          /\ UNCHANGED <<control, issue, troubles>>
       \/ Fault({run[r].id}) /\ run' = [run EXCEPT ![r].step = "create"] /\ saved' = 0 /\ UNCHANGED <<control, issue>>
       \/ Fault({}) /\ run' = [run EXCEPT ![r] = Failed(r)] /\ Over(r, "failed") /\ UNCHANGED saved
    /\ UNCHANGED <<uploads, worker, deletes>>

\* POST uploads reserves storage; the answer is on its way.
Create(r) ==
    /\ run[r].step = "create"
    /\ \/ /\ uploads' = Append(uploads, [status |-> "pending", stored |-> {}])
          /\ run' = [run EXCEPT ![r].step = "created", ![r].id = Len(uploads) + 1]
          /\ UNCHANGED <<control, issue, troubles>>
       \/ /\ \/ uploads' = Append(uploads, [status |-> "pending", stored |-> {}])
             \/ UNCHANGED uploads
          /\ Fault(DOMAIN uploads' \ DOMAIN uploads)
          /\ run' = [run EXCEPT ![r] = Failed(r)] /\ Over(r, "failed")
    /\ UNCHANGED <<saved, worker, deletes>>

Created(r) ==
    /\ run[r].step = "created"
    /\ Opened(r, run[r].id, {})
    /\ UNCHANGED <<uploads, worker, page, troubles>>

-----------------------------------------------------------------------------
(***************************************************************************)
(* The workers of a run                                                    *)
(***************************************************************************)

Signing(r) == UNION run[r].signing

\* queue.shift()
Take(r, w) ==
    /\ run[r].step = "send" /\ worker[r][w].step = "rest" /\ run[r].queue # {}
    /\ LET p == Min(run[r].queue) IN
       /\ run' = [run EXCEPT ![r].queue = @ \ {p}]
       /\ worker' = [worker EXCEPT ![r][w] = [part |-> p, attempt |-> 1, step |-> "try"]]
    /\ UNCHANGED <<uploads, saved, page, troubles>>

\* The parts of a signing request: this one, and the next that wait for a URL.
Waiting(r, p) == run[r].queue \ (run[r].urls \cup Signing(r))

Batch(r, p) == {p} \cup {n \in Waiting(r, p) :
                            Cardinality({m \in Waiting(r, p) : m < n}) < SignBatch - 1}

\* urlFor, with a fresh URL after the first attempt.
NeedUrl(r, w) ==
    LET p == worker[r][w].part
        urls == IF worker[r][w].attempt > 1 THEN run[r].urls \ {p} ELSE run[r].urls
    IN
    /\ worker[r][w].step = "try" /\ ~ run[r].aborted
    /\ run' = [run EXCEPT ![r].urls = urls,
                          ![r].signing = IF p \in urls \cup Signing(r) THEN @
                                         ELSE @ \cup {Batch(r, p)}]
    /\ worker' = [worker EXCEPT ![r][w].step = "url"]
    /\ UNCHANGED <<uploads, saved, page, troubles>>

\* POST parts: the URLs of a batch arrive, or none.
Signed(r, batch) ==
    /\ batch \in run[r].signing
    /\ \/ /\ Pending(run[r].id)
          /\ run' = [run EXCEPT ![r].signing = @ \ {batch}, ![r].urls = @ \cup batch]
          /\ UNCHANGED troubles
       \/ /\ ~ Pending(run[r].id)
          /\ run' = [run EXCEPT ![r].signing = @ \ {batch}]
          /\ UNCHANGED troubles
       \/ Fault({}) /\ run' = [run EXCEPT ![r].signing = @ \ {batch}]
    /\ UNCHANGED <<uploads, saved, worker, page>>

\* The request that this worker waited for is over.
HasUrl(r, w) ==
    /\ worker[r][w].step = "url" /\ worker[r][w].part \notin Signing(r)
    /\ worker' = [worker EXCEPT ![r][w].step =
                      IF worker[r][w].part \in run[r].urls THEN "put" ELSE "error"]
    /\ UNCHANGED <<uploads, saved, run, page, troubles>>

\* PUT to storage, which takes a part as long as the upload is open.
PutPart(r, w) ==
    LET u == run[r].id IN
    /\ worker[r][w].step = "put"
    /\ \/ /\ Pending(u) /\ ~ run[r].aborted
          /\ uploads' = [uploads EXCEPT ![u].stored = @ \cup {worker[r][w].part}]
          /\ \/ worker' = [worker EXCEPT ![r][w] = AtRest] /\ UNCHANGED troubles
             \/ Fault({}) /\ worker' = [worker EXCEPT ![r][w].step = "error"]
       \/ /\ ~ Pending(u) \/ run[r].aborted
          /\ worker' = [worker EXCEPT ![r][w].step = "error"]
          /\ UNCHANGED <<uploads, troubles>>
    /\ UNCHANGED <<saved, run, page>>

Retry(r, w) ==
    /\ worker[r][w].step = "error" /\ ~ run[r].aborted /\ worker[r][w].attempt < PartAttempts
    /\ worker' = [worker EXCEPT ![r][w].attempt = @ + 1, ![r][w].step = "try"]
    /\ UNCHANGED <<uploads, saved, run, page, troubles>>

\* A worker throws: nobody takes another part, and the run ends or is cancelled.
\* Of a run that is over already nobody hears it.
GiveUp(r, w) ==
    /\ \/ worker[r][w].step \in {"try", "error"} /\ run[r].aborted
       \/ worker[r][w].step = "error" /\ worker[r][w].attempt = PartAttempts
    /\ worker' = [worker EXCEPT ![r][w] = [AtRest EXCEPT !.step = "gone"]]
    /\ \/ run[r].step # "send" /\ UNCHANGED <<run, saved, control, issue>>
       \/ /\ run[r].step = "send" /\ run[r].aborted
          /\ run' = [run EXCEPT ![r] = Cancelling(r, run[r].id)] /\ saved' = 0
          /\ UNCHANGED <<control, issue>>
       \/ /\ run[r].step = "send" /\ ~ run[r].aborted
          /\ run' = [run EXCEPT ![r] = Failed(r)] /\ Over(r, "failed")
          /\ UNCHANGED saved
    /\ UNCHANGED <<uploads, deletes, troubles>>

-----------------------------------------------------------------------------
(***************************************************************************)
(* The end of a run                                                        *)
(***************************************************************************)

AllSent_Taken(r) == run[r].queue = {}                   \* Mutation: workers are not awaited

\* Promise.all(workers)
AllSent(r) == run[r].queue = {} /\ \A w \in Workers : worker[r][w].step = "rest"

Sent_Forgets(r) ==                              \* Mutation: forgotten before complete is asked for
    /\ run[r].step = "send" /\ AllSent(r)
    /\ run' = [run EXCEPT ![r] = IF run[r].aborted THEN Cancelling(r, run[r].id)
                                                   ELSE [@ EXCEPT !.step = "complete"]]
    /\ saved' = 0
    /\ UNCHANGED <<uploads, worker, page, troubles>>

Sent(r) ==
    /\ run[r].step = "send" /\ AllSent(r)
    /\ IF run[r].aborted
       THEN run' = [run EXCEPT ![r] = Cancelling(r, run[r].id)] /\ saved' = 0
       ELSE run' = [run EXCEPT ![r].step = "complete"] /\ UNCHANGED saved
    /\ UNCHANGED <<uploads, worker, page, troubles>>

\* POST complete makes the document, if all is there; then the upload is forgotten.
Complete(r) ==
    LET u == run[r].id
        whole == Pending(u) /\ uploads[u].stored = Parts
    IN
    /\ run[r].step = "complete"
    /\ \/ /\ whole
          /\ uploads' = [uploads EXCEPT ![u].status = "completed"]
          /\ run' = [run EXCEPT ![r] = [Failed(r) EXCEPT !.end = "uploaded"]]
          /\ saved' = 0
          /\ Over(r, "uploaded")
          /\ UNCHANGED troubles
       \/ /\ \/ ~ whole /\ UNCHANGED <<uploads, troubles>>
             \/ Fault({}) /\ UNCHANGED uploads
             \/ Fault({}) /\ whole /\ uploads' = [uploads EXCEPT ![u].status = "completed"]
          /\ run' = [run EXCEPT ![r] = Failed(r)]
          /\ Over(r, "failed")
          /\ UNCHANGED saved
    /\ UNCHANGED <<worker, deletes>>

\* The DELETE of cancelled(), whatever comes of it.
Released(r) ==
    /\ run[r].step = "cancel"
    /\ \/ Abort(run[r].id) /\ UNCHANGED troubles
       \/ Fault({run[r].id}) /\ UNCHANGED uploads
    /\ run' = [run EXCEPT ![r].step = "over", ![r].end = "cancelled"]
    /\ Over(r, "cancelled")
    /\ UNCHANGED <<saved, worker, deletes>>

\* expireStale ends what nobody came back for.
Expire(u) ==
    /\ Pending(u) /\ Fault({})
    /\ Abort(u)
    /\ UNCHANGED <<saved, run, worker, page>>

\* The tab is closed or reloaded: only localStorage remains, and the requests that
\* were on their way are lost.
CloseTab ==
    /\ control # None
    /\ Fault(deletes \cup {run[r].id : r \in {q \in Runs : run[q].step \in {"created", "cancel"}}})
    /\ run' = [r \in Runs |-> IF run[r] = Fresh THEN Fresh
                              ELSE [Fresh EXCEPT !.step = "over", !.end = "closed"]]
    /\ worker' = [r \in Runs |-> [w \in Workers |-> AtRest]]
    /\ control' = None /\ issue' = FALSE /\ deletes' = {}
    /\ UNCHANGED <<uploads, saved>>

-----------------------------------------------------------------------------
Init ==
    /\ uploads = <<>>
    /\ saved = 0
    /\ run = [r \in Runs |-> Fresh]
    /\ worker = [r \in Runs |-> [w \in Workers |-> AtRest]]
    /\ control = None /\ issue = FALSE /\ deletes = {}
    /\ stranded = {} /\ faults = 0

Next ==
    \/ Cancel \/ Discard \/ CloseTab
    \/ \E u \in DOMAIN uploads : Deleted(u) \/ Expire(u)
    \/ \E r \in Runs :
          \/ Start(r) \/ Open(r) \/ Resume(r) \/ Create(r) \/ Created(r)
          \/ Sent(r) \/ Complete(r) \/ Released(r)
          \/ \E batch \in run[r].signing : Signed(r, batch)
          \/ \E w \in Workers : \/ Take(r, w) \/ NeedUrl(r, w) \/ HasUrl(r, w) \/ PutPart(r, w)
                                \/ Retry(r, w) \/ GiveUp(r, w)

Spec == Init /\ [][Next]_vars

-----------------------------------------------------------------------------
\* complete is asked for only when storage has every part, whichever worker, run
\* or session sent it, unless the upload was ended meanwhile.
AskedWhole ==
    \A r \in Runs : run[r].step = "complete" /\ Pending(run[r].id) => uploads[run[r].id].stored = Parts

\* "Once it exists, the upload cancels itself, so its reserved storage is always
\* released" (direct-upload.ts:35-36), "re-selecting the same file continues"
\* (:19-23): whenever a run fails or is cancelled, what is still reserved is
\* remembered, about to be, or being deleted, so that there is one reservation
\* at most. Only a request that fails can strand one.
NothingStranded ==
    \A u \in DOMAIN uploads \ stranded : Pending(u) =>
        \/ saved = u \/ u \in deletes
        \/ \E r \in Runs : run[r].id = u /\ run[r].step \in {"created", "cancel"}

=============================================================================
