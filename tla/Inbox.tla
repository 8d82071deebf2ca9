-------------------------------- MODULE Inbox ------------------------------
(***************************************************************************)
(* The notifications of one person: jobs write them, digests mail those    *)
(* not read yet, and the bell of one browser tab shows them, told by a     *)
(* stream of events that the hub of the API process feeds from one         *)
(* LISTEN connection.                                                      *)
(***************************************************************************)
EXTENDS Naturals, Sequences, FiniteSets, SequencesExt

CONSTANTS
    Events,         \* what the person is to be told
    Durable,        \* those told by a notifications.fanout job
    Essential,      \* those of ESSENTIAL_TYPES
    MaxTries,       \* attempts of a job
    Passes,         \* maintenance passes that may overlap
    MaxLoads        \* bound: answers the tab is waiting for

ASSUME SubsetsAssumption == Durable \subseteq Events /\ Essential \subseteq Events
ASSUME TriesAssumption == MaxTries \in Nat \ {0} /\ MaxLoads \in Nat \ {0}

VARIABLES
    focus,      \* bound: a behaviour is about the mails or about the bell
    job,        \* of each event: its step, its tries, whether it is to be shown
    rows,       \* table notifications, by the event and the try that wrote them
    digested,   \* rows whose digested_at is set
    reported,   \* how many mails list each row
    prefs,      \* muted and digest of notification_preferences
    member,     \* the person is in the workspace of the events
    due,        \* the interval since last_digest_at has passed
    pass,       \* of each pass: its step and the rows it took
    conn,       \* the hub's LISTEN connection, which breaks before the hub knows
    stream,     \* the tab's stream, which the API ends before the tab knows
    stale,      \* a stream of the tab before, not ended yet
    leaked,     \* listeners of streams that could not be opened
    signal,     \* the event that is on its way to the tab
    tab, failures, shown, loads,
    missed      \* the tab was not told of a row, or its answer was lost

mail == <<digested, reported, prefs, due, pass>>
hub == <<conn, stream, stale, leaked>>
bell == <<tab, failures, shown, loads>>
inboxVars == <<focus, job, rows, mail, member, hub, signal, bell, missed>>

Ids == Events \X (1..MaxTries)

\* VISIBLE
Listed == {id \in Ids : rows[id] # "none" /\ member}
Unread == {id \in Listed : rows[id] = "unread"}

-----------------------------------------------------------------------------
(***************************************************************************)
(* deliver, as a job or in the background of a request                     *)
(***************************************************************************)

\* recipientsFor and deliveryFor, read before anything is written.
ReadRecipients(e) ==
    /\ job[e].state = "queued"
    /\ job' = [job EXCEPT ![e].state = IF e \in Durable /\ ~ member THEN "over" ELSE "picked",
                          ![e].show = e \in Essential \/ ~ prefs.muted]
    /\ UNCHANGED <<focus, rows, mail, member, hub, signal, bell, missed>>

\* The row and the trigger's pg_notify, which reaches an open stream through
\* the connection, if there is one.
InsertNotification(e) ==
    /\ job[e].state = "picked" /\ job[e].show
    /\ job' = [job EXCEPT ![e].state = "written"]
    /\ rows' = [rows EXCEPT ![<<e, job[e].tries>>] = "unread"]
    /\ signal' = IF conn = "open" /\ stream = "open" /\ signal = "none" THEN "event" ELSE signal
    /\ missed' = (missed \/ stream = "ended"
                          \/ (stream = "open" /\ conn \in {"broken", "reopening"}))
    /\ UNCHANGED <<focus, mail, member, hub, bell>>

\* The rest: the instant e-mail, and the other recipients.
FinishDelivery(e) ==
    /\ job[e].state = "written" \/ (job[e].state = "picked" /\ ~ job[e].show)
    /\ job' = [job EXCEPT ![e].state = "over"]
    /\ UNCHANGED <<focus, rows, mail, member, hub, signal, bell, missed>>

\* ... any of which may fail: a job starts over, a request's delivery is lost.
FailDelivery(e) ==
    /\ job[e].state \in {"picked", "written"}
    /\ job' = [job EXCEPT ![e] =
                  IF e \in Durable /\ @.tries < MaxTries
                    THEN [state |-> "queued", tries |-> @.tries + 1, show |-> FALSE]
                    ELSE [@ EXCEPT !.state = "over"]]
    /\ UNCHANGED <<focus, rows, mail, member, hub, signal, bell, missed>>

RemoveMember ==
    /\ member
    /\ member' = FALSE
    /\ UNCHANGED <<focus, job, rows, mail, hub, signal, bell, missed>>

SavePreferences(muted, digest) ==
    /\ focus = "mail"
    /\ prefs' = [muted |-> muted, digest |-> digest]
    /\ UNCHANGED <<focus, job, rows, digested, reported, member, due, pass, hub, signal, bell,
                   missed>>

Taken == UNION {pass[k].ids : k \in Passes}

\* One of them or all: a row that a digest has taken is locked until its end.
MarkRead(ids) ==
    /\ focus = "mail"
    /\ ids \cap Taken = {}
    /\ rows' = [id \in Ids |-> IF id \in ids /\ rows[id] = "unread" THEN "read" ELSE rows[id]]
    /\ UNCHANGED <<focus, job, mail, member, hub, signal, bell, missed>>

(***************************************************************************)
(* sendDigests.  A pass holds a session lock, but works on other           *)
(* connections: when the lock's is lost, another pass may begin.           *)
(***************************************************************************)

SetPass(k, state, ids) == pass' = [pass EXCEPT ![k] = [state |-> state, ids |-> ids]]

IntervalPasses ==
    /\ focus = "mail" /\ ~ due
    /\ due' = TRUE
    /\ UNCHANGED <<focus, job, rows, digested, reported, prefs, member, pass, hub, signal,
                   bell, missed>>

BeginDigest(k) ==
    /\ pass[k].state = "idle" /\ prefs.digest /\ due
    /\ SetPass(k, "due", {})
    /\ UNCHANGED <<focus, job, rows, digested, reported, prefs, member, due, hub, signal, bell,
                   missed>>

Candidates == Unread \ digested

\* It waits for rows another pass has taken, and looks at them again.  Nothing
\* new: no mail, and the clock is not reset.
TakeForDigest(k) ==
    /\ pass[k].state = "due"
    /\ Candidates \cap Taken = {}
    /\ IF Candidates = {} THEN SetPass(k, "idle", {}) ELSE SetPass(k, "taken", Candidates)
    /\ UNCHANGED <<focus, job, rows, digested, reported, prefs, member, due, hub, signal, bell,
                   missed>>

\* Mutation: what is unread by then is marked.
CommitDigest_MarksUnread(k) ==
    /\ pass[k].state = "taken"
    /\ digested' = digested \cup Unread
    /\ reported' = [id \in Ids |-> reported[id] + IF id \in pass[k].ids THEN 1 ELSE 0]
    /\ due' = FALSE
    /\ SetPass(k, "idle", {})
    /\ UNCHANGED <<focus, job, rows, prefs, member, hub, signal, bell, missed>>

\* The marks, the mail's job and last_digest_at.
CommitDigest(k) ==
    /\ pass[k].state = "taken"
    /\ digested' = digested \cup pass[k].ids
    /\ reported' = [id \in Ids |-> reported[id] + IF id \in pass[k].ids THEN 1 ELSE 0]
    /\ due' = FALSE
    /\ SetPass(k, "idle", {})
    /\ UNCHANGED <<focus, job, rows, prefs, member, hub, signal, bell, missed>>

AbortDigest(k) ==
    /\ pass[k].state \in {"due", "taken"}
    /\ SetPass(k, "idle", {})
    /\ UNCHANGED <<focus, job, rows, digested, reported, prefs, member, due, hub, signal, bell,
                   missed>>

(***************************************************************************)
(* The bell: load, and what starts it                                      *)
(***************************************************************************)

\* GET /api/notifications, answered with what there is now.
Load ==
    /\ Len(loads) < MaxLoads
    /\ loads' = Append(loads, [ids |-> Listed, late |-> FALSE])
    /\ missed' = FALSE

\* Answers arrive in any order, and the last one to arrive is shown.
Answer(i) ==
    /\ i \in DOMAIN loads
    /\ shown' = loads[i].ids
    /\ missed' = (missed \/ loads[i].late)
    /\ loads' = RemoveAt([j \in DOMAIN loads |-> IF j < i THEN [loads[j] EXCEPT !.late = TRUE]
                                                         ELSE loads[j]], i)
    /\ UNCHANGED <<focus, job, rows, mail, member, hub, signal, tab, failures>>

LoadFails(i) ==
    /\ i \in DOMAIN loads
    /\ missed' = (missed \/ (i = Len(loads) /\ ~ loads[i].late))
    /\ loads' = RemoveAt(loads, i)
    /\ UNCHANGED <<focus, job, rows, mail, member, hub, signal, tab, failures, shown>>

\* startPolling loads at once, and then again and again.
Poll ==
    /\ tab = "polling"
    /\ Load
    /\ UNCHANGED <<focus, job, rows, mail, member, hub, signal, tab, failures, shown>>

ShowTab ==
    /\ focus = "bell" /\ tab = "hidden"
    /\ tab' = "connecting"
    /\ UNCHANGED <<focus, job, rows, mail, member, hub, signal, failures, shown, loads, missed>>

\* The streams that have their listener in the hub.
Listening == {"subscribing", "open"}

\* The API notices that the tab's stream is gone later, or has ended it itself.
Leave ==
    /\ stream \notin Listening \/ ~ stale
    /\ stale' = (stale \/ stream \in Listening)
    /\ stream' = "none"
    /\ signal' = "none"

HideTab ==
    /\ tab # "hidden"
    /\ tab' = "hidden"
    /\ Leave
    /\ UNCHANGED <<focus, job, rows, mail, member, conn, leaked, failures, shown, loads, missed>>

\* An answer that is not a stream ends the attempts, and so does the third
\* error, of any kind, without "ready" in between.
CountError(closed) ==
    /\ failures' = IF failures = 2 THEN failures ELSE failures + 1
    /\ tab' = IF closed \/ failures = 2 THEN "polling" ELSE "connecting"

\* The connection of the stream breaks, cannot be made, or turns out to have
\* been ended.
StreamError ==
    /\ tab \in {"connecting", "live"}
    /\ CountError(FALSE)
    /\ Leave
    /\ UNCHANGED <<focus, job, rows, mail, member, conn, leaked, shown, loads, missed>>

\* "ready" and "notification" make the bell load; "ready" ends the errors.
ReceiveEvent ==
    /\ signal # "none"
    /\ signal' = "none"
    /\ tab' = IF signal = "ready" THEN "live" ELSE tab
    /\ failures' = IF signal = "ready" THEN 0 ELSE failures
    /\ Load
    /\ UNCHANGED <<focus, job, rows, mail, member, hub, shown>>

(***************************************************************************)
(* The stream's route and the hub                                          *)
(***************************************************************************)

\* 401 when the session has ended, 429 with too many streams.
Refuse ==
    /\ tab = "connecting" /\ stream = "none"
    /\ CountError(TRUE)
    /\ UNCHANGED <<focus, job, rows, mail, member, hub, signal, shown, loads, missed>>

\* subscribe adds the listener, then makes sure there is a connection.
Subscribe ==
    /\ tab = "connecting" /\ stream = "none"
    /\ stream' = "subscribing"
    /\ conn' = IF conn = "none" THEN "opening" ELSE conn
    /\ UNCHANGED <<focus, job, rows, mail, member, stale, leaked, signal, bell, missed>>

Connected ==
    /\ conn \in {"opening", "reopening"}
    /\ conn' = "open"
    /\ UNCHANGED <<focus, job, rows, mail, member, stream, stale, leaked, signal, bell, missed>>

\* What the hub takes for a connection.
HasClient == conn \in {"open", "broken"}

\* Mutation: the stream is opened first, the hub subscribed to afterwards.
OpenStream_First ==
    /\ stream = "subscribing"
    /\ stream' = "open"
    /\ signal' = "ready"
    /\ UNCHANGED <<focus, job, rows, mail, member, conn, stale, leaked, bell, missed>>

OpenStream ==
    /\ stream = "subscribing" /\ HasClient
    /\ stream' = "open"
    /\ signal' = "ready"
    /\ UNCHANGED <<focus, job, rows, mail, member, conn, stale, leaked, bell, missed>>

\* The stream is answered with an error, its listener stays.
ConnectFails ==
    /\ conn = "opening"
    /\ conn' = "none"
    /\ stream' = "none"
    /\ leaked' = (leaked \/ stream = "subscribing" \/ stale)
    /\ stale' = FALSE
    /\ IF stream = "subscribing" THEN CountError(TRUE) ELSE UNCHANGED <<tab, failures>>
    /\ UNCHANGED <<focus, job, rows, mail, member, signal, shown, loads, missed>>

\* Mutation: the connection goes with the first stream that ends.
Idle_Always(now, old) == TRUE

\* listeners.size = 0, by the tab's stream now and the one before
Idle(now, old) == now \notin Listening /\ ~ old /\ ~ leaked

\* disconnectIfIdle, when a stream has taken its listener away
Disconnect(now, old) == conn' = IF HasClient /\ Idle(now, old) THEN "none" ELSE conn

\* end of a stream that its tab has left
EndStream ==
    /\ stale
    /\ stale' = FALSE
    /\ Disconnect(stream, FALSE)
    /\ UNCHANGED <<focus, job, rows, mail, member, stream, leaked, signal, bell, missed>>

\* end of a stream whose session is over or cannot be resolved: what it has
\* sent is still on its way, and the tab notices later.
EndByServer ==
    /\ stream = "open"
    /\ stream' = "ended"
    /\ Disconnect("ended", stale)
    /\ UNCHANGED <<focus, job, rows, mail, member, stale, leaked, signal, bell, missed>>

\* Nothing comes any more, and the hub is told later.
LoseConnection ==
    /\ conn = "open"
    /\ conn' = "broken"
    /\ UNCHANGED <<focus, job, rows, mail, member, stream, stale, leaked, signal, bell, missed>>

NoticeLoss ==
    /\ conn = "broken"
    /\ conn' = IF Idle(stream, stale) THEN "none" ELSE "reopening"
    /\ UNCHANGED <<focus, job, rows, mail, member, stream, stale, leaked, signal, bell, missed>>

\* The API stops; so it does when it cannot connect again, as nothing handles
\* that error.
Restart ==
    /\ conn' = "none" /\ stale' = FALSE /\ leaked' = FALSE
    /\ stream' = IF stream = "none" THEN "none" ELSE "ended"
    /\ UNCHANGED <<focus, job, rows, mail, member, signal, bell, missed>>

-----------------------------------------------------------------------------

InboxInit ==
    /\ focus \in {"mail", "bell"}
    /\ job = [e \in Events |-> [state |-> "queued", tries |-> 1, show |-> FALSE]]
    /\ rows = [id \in Ids |-> "none"]
    /\ digested = {}
    /\ reported = [id \in Ids |-> 0]
    /\ prefs = [muted |-> FALSE, digest |-> FALSE]
    /\ member = TRUE
    /\ due = TRUE
    /\ pass = [k \in Passes |-> [state |-> "idle", ids |-> {}]]
    /\ conn = "none" /\ stream = "none" /\ stale = FALSE /\ leaked = FALSE
    /\ signal = "none"
    /\ tab = "hidden" /\ failures = 0 /\ shown = {} /\ loads = <<>>
    /\ missed = FALSE

InboxNext ==
    \/ \E e \in Events : ReadRecipients(e) \/ InsertNotification(e) \/ FinishDelivery(e)
                         \/ FailDelivery(e)
    \/ RemoveMember
    \/ \E muted, digest \in BOOLEAN : SavePreferences(muted, digest)
    \/ \E id \in Ids : MarkRead({id})
    \/ MarkRead(Ids)
    \/ IntervalPasses
    \/ \E k \in Passes : BeginDigest(k) \/ TakeForDigest(k) \/ CommitDigest(k) \/ AbortDigest(k)
    \/ \E i \in 1..MaxLoads : Answer(i) \/ LoadFails(i)
    \/ Poll \/ ShowTab \/ HideTab \/ StreamError \/ ReceiveEvent
    \/ Refuse \/ Subscribe \/ Connected \/ OpenStream \/ ConnectFails \/ EndStream
    \/ EndByServer \/ LoseConnection \/ NoticeLoss \/ Restart

InboxSafety == InboxInit /\ [][InboxNext]_inboxVars

-----------------------------------------------------------------------------
(***************************************************************************)
(* Properties                                                              *)
(***************************************************************************)

\* Every variable has its type, a pass holds rows only between their UPDATE and
\* its end, and no row is held by two passes.
InboxTypes ==
    /\ job \in [Events -> [state : {"queued", "picked", "written", "over"},
                           tries : 1..MaxTries, show : BOOLEAN]]
    /\ rows \in [Ids -> {"none", "unread", "read"}]
    /\ digested \subseteq Ids /\ reported \in [Ids -> Nat]
    /\ prefs \in [muted : BOOLEAN, digest : BOOLEAN]
    /\ member \in BOOLEAN /\ due \in BOOLEAN /\ missed \in BOOLEAN
    /\ pass \in [Passes -> [state : {"idle", "due", "taken"}, ids : SUBSET Ids]]
    /\ \A k, l \in Passes : pass[k].ids \cap pass[l].ids # {} => k = l
    /\ \A k \in Passes : pass[k].ids # {} <=> pass[k].state = "taken"
    /\ conn \in {"none", "opening", "open", "broken", "reopening"}
    /\ stream \in {"none", "subscribing", "open", "ended"}
    /\ stale \in BOOLEAN /\ leaked \in BOOLEAN
    /\ signal \in {"none", "event", "ready"}
    /\ tab \in {"hidden", "connecting", "live", "polling"} /\ failures \in 0..2
    /\ shown \subseteq Ids
    /\ loads \in Seq([ids : SUBSET Ids, late : BOOLEAN]) /\ Len(loads) <= MaxLoads

\* However passes, new notifications, reading and failures overlap, no row is
\* held by two passes, and a notification is in one digest at most, and marked
\* exactly when it is in one: none is summarised twice or skipped
\* (notificationsRepo.takeForDigest).
DigestExact ==
    /\ InboxTypes
    /\ \A id \in Ids : reported[id] = IF id \in digested THEN 1 ELSE 0

\* A tab whose stream is quiet shows every notification there is, unless one
\* was written after its stream had ended or while the hub had lost its
\* connection, or an answer was lost or overtaken (the order of subscribe,
\* "ready" and the bell's load).
Converges ==
    tab = "live" /\ signal = "none" /\ loads = <<>> /\ ~ missed => Listed \subseteq shown

\* Streams that are open have the connection their signals come from, as far as
\* the hub knows, or it is being opened again: it is not given back under them
\* (disconnectIfIdle).
StreamsAreFed == stream = "open" => conn \in {"open", "broken", "reopening"}

\* The bell is fed, and shows what there is.
BellSound == Converges /\ StreamsAreFed

=============================================================================
