------------------------------- MODULE Panels ------------------------------
(***************************************************************************)
(* The panels of the web application that list the rows of one table of    *)
(* the server and change them: links of a document and of a folder, file   *)
(* requests, webhooks, API tokens, members and invitations, versions and   *)
(* comments of a document.  They are written alike: a click starts a task, *)
(* which may ask for confirmation, calls the server, and loads the list    *)
(* again.  Tasks run side by side, each with the state it saw when it was  *)
(* started, and their answers come in any order.                           *)
(***************************************************************************)
EXTENDS Naturals, FiniteSets

CONSTANTS
    Kinds,          \* the panels looked at, among those named below
    Rows,           \* identities of rows
    Tasks,          \* clicks being served at the same time
    None,
    MaxEdits,       \* bound: changes of a row
    MaxClicks,      \* bound: clicks
    MaxElsewhere,   \* bound: changes by other people
    MaxFaults       \* bound: calls that fail

VARIABLES
    kind,           \* the panel
    rows,           \* the table: for each row 0, its version, or Gone
    list,           \* the panel's copy: the version shown, 0 if none
    busy,           \* creating, busy or inviteBusy
    dialog,         \* the task whose confirmation is open
    secret,         \* the row whose link, token or signing secret is shown, this once
    open, details,  \* the row that is expanded, and the row whose details are there
    task,           \* what each task does, has seen, and has got
    clock, clicks, elsewhere, faults,
    latest, known,  \* when the panel last learnt something, and what it learnt of its own changes
    owed, wiped,    \* the secret not dismissed yet; whether the revocation of another row hid it
    crossed, mistaken   \* a list, or details, that had been overtaken were shown

vars == <<kind, rows, list, busy, dialog, secret, open, details, task, clock, clicks, elsewhere,
          faults, latest, known, owed, wiped, crossed, mistaken>>
banner == <<secret, owed, wiped>>
detail == <<open, details, mistaken>>
shown  == <<list, latest, known, crossed>>
bounds == <<clicks, elsewhere, faults>>

Gone == MaxEdits + 1
Here(r) == rows[r] \in 1..MaxEdits

\* What the panels differ in.
WithSecret  == {"share", "folder", "request", "webhook", "token", "members"}
HidesRevoked == {"share", "folder"}                     \* if (created?.id === link.id) setCreated(null)
Dismissed   == {"share", "folder", "webhook", "token"}  \* the banner has a "Done"
WithDetails == {"share", "webhook"}
Changes     == {"share", "webhook", "members", "comments"}
OneAtATime  == {"versions", "comments"}                 \* busy disables every button
Patches     == {"comments"}                             \* the rest load the list again

Idle == [op |-> "none", row |-> None, step |-> "idle", saw |-> None, ok |-> TRUE,
         got |-> [r \in Rows |-> 0], sent |-> 0]

Init ==
    /\ kind \in Kinds
    /\ \E before \in SUBSET Rows : rows = [r \in Rows |-> IF r \in before THEN 1 ELSE 0]
    /\ list = [r \in Rows |-> 0] /\ busy = FALSE /\ dialog = None
    /\ secret = None /\ open = None /\ details = None
    /\ \E t \in Tasks : task = [u \in Tasks |-> IF u = t THEN [Idle EXCEPT !.op = "load", !.step = "load"]
                                                ELSE Idle]
    /\ clock = 0 /\ clicks = 0 /\ elsewhere = 0 /\ faults = 0
    /\ latest = 0 /\ known = [r \in Rows |-> 0]
    /\ owed = None /\ wiped = FALSE /\ crossed = FALSE /\ mistaken = FALSE

(***************************************************************************)
(* Clicks.  While a confirmation is open the page behind it is inert.      *)
(***************************************************************************)
Click(t, what) ==
    /\ task[t].step = "idle" /\ dialog = None /\ clicks < MaxClicks
    /\ clicks' = clicks + 1
    /\ task' = [task EXCEPT ![t] = what]
    /\ UNCHANGED <<kind, rows, shown, clock, elsewhere, faults>>

Does(op, r, step) == [Idle EXCEPT !.op = op, !.row = r, !.step = step, !.saw = IF op = "ping" THEN open ELSE secret]

Gated == kind \in OneAtATime => ~ busy

\* A form is sent: its button waits for the last one, but a comment can be sent by a key as well.
Create(t) ==
    /\ kind # "comments" => ~ busy
    /\ Click(t, Does("create", None, "call"))
    /\ busy' = TRUE
    /\ IF kind = "members" THEN secret' = None /\ owed' = None /\ UNCHANGED wiped ELSE UNCHANGED banner
    /\ UNCHANGED <<dialog, detail>>

\* Removing a row, restoring a version, or making a member a viewer is confirmed first.
Asked(op) ==
    \/ op = "remove"
    \/ op = "create" /\ kind = "versions"
    \/ op = "change" /\ kind = "members"

Ask(t, op, r) ==
    /\ list[r] # 0 /\ Gated /\ Asked(op)
    /\ Click(t, Does(op, r, "confirm"))
    /\ dialog' = t
    /\ UNCHANGED <<busy, banner, detail>>

Change(t, r) ==
    /\ kind \in Changes /\ list[r] # 0 /\ Gated
    /\ Click(t, Does("change", r, "call"))
    /\ busy' = (busy \/ kind \in OneAtATime)
    /\ UNCHANGED <<dialog, banner, detail>>

Ping(t, r) ==
    /\ kind = "webhook" /\ list[r] # 0
    /\ Click(t, Does("ping", r, "call"))
    /\ UNCHANGED <<busy, dialog, banner, detail>>

\* The share panel empties the details before it asks for others, the webhooks panel does not.
Expand(t, r) ==
    /\ kind \in WithDetails /\ list[r] # 0 /\ open # r
    /\ Click(t, Does("details", r, "call"))
    /\ open' = r
    /\ details' = IF kind = "share" THEN None ELSE details
    /\ UNCHANGED <<busy, dialog, banner, mistaken>>

Collapse ==
    /\ kind \in WithDetails /\ open # None /\ dialog = None
    /\ open' = None
    /\ UNCHANGED <<kind, rows, shown, busy, dialog, banner, details, mistaken, task, clock, bounds>>

Done ==
    /\ kind \in Dismissed /\ secret # None /\ dialog = None
    /\ secret' = None /\ owed' = None
    /\ UNCHANGED <<kind, rows, shown, busy, dialog, wiped, detail, task, clock, bounds>>

\* Only the members page does something when a change is cancelled: it loads the list.
Close(t, yes) ==
    /\ dialog = t
    /\ dialog' = None
    /\ busy' = (busy \/ (yes /\ kind \in OneAtATime))
    /\ clock' = clock + 1
    /\ task' = [task EXCEPT ![t] =
                   IF yes THEN [@ EXCEPT !.step = "call"]
                   ELSE IF task[t].op = "change" THEN [@ EXCEPT !.step = "load", !.sent = clock'] ELSE Idle]
    /\ UNCHANGED <<kind, rows, shown, banner, detail, bounds>>

(***************************************************************************)
(* The server.                                                             *)
(***************************************************************************)
\* What a call does to the table: a row that is gone is refused.
Effect(op, r) ==
    CASE op = "create" -> {[row |-> n, is |-> 1] : n \in {x \in Rows : rows[x] = 0}}
      [] op = "remove" -> {[row |-> r, is |-> Gone] : x \in {y \in {r} : Here(y)}}
      [] op = "change" -> {[row |-> r, is |-> rows[r] + 1] : x \in {y \in {r} : Here(y) /\ rows[y] < MaxEdits}}
      [] OTHER         -> {}

Reading == {"ping", "details"}

Serve(t) ==
    LET now == task[t] IN
    /\ now.step = "call"
    /\ \/ \E e \in Effect(now.op, now.row) :
             /\ rows' = [rows EXCEPT ![e.row] = e.is]
             /\ task' = [task EXCEPT ![t].step = "called", ![t].row = e.row, ![t].got = [@ EXCEPT ![e.row] = e.is]]
             /\ UNCHANGED faults
       \/ /\ now.op \in Reading
          /\ task' = [task EXCEPT ![t].step = "called"]
          /\ UNCHANGED <<rows, faults>>
       \/ /\ IF now.op \in Reading \/ Effect(now.op, now.row) # {}
             THEN faults < MaxFaults /\ faults' = faults + 1
             ELSE UNCHANGED faults
          /\ task' = [task EXCEPT ![t].step = "called", ![t].ok = FALSE]
          /\ UNCHANGED rows
    /\ UNCHANGED <<kind, shown, busy, dialog, banner, detail, clock, clicks, elsewhere>>

ServeLoad(t) ==
    /\ task[t].step = "load"
    /\ task' = [task EXCEPT ![t].step = "loaded",
                            ![t].got = [r \in Rows |-> IF Here(r) THEN rows[r] ELSE 0]]
    /\ UNCHANGED <<kind, rows, shown, busy, dialog, banner, detail, clock, bounds>>

Elsewhere(r) ==
    /\ elsewhere < MaxElsewhere
    /\ elsewhere' = elsewhere + 1
    /\ \E op \in {"create", "remove", "change"} : \E e \in Effect(op, r) :
          e.row = r /\ rows' = [rows EXCEPT ![r] = e.is]
    /\ UNCHANGED <<kind, shown, busy, dialog, banner, detail, task, clock, clicks, faults>>

(***************************************************************************)
(* Answers.                                                                *)
(***************************************************************************)
Ended(t) == [task EXCEPT ![t] = Idle]
Loads(t) == [task EXCEPT ![t].step = "load", ![t].sent = clock']
Frees(t) == IF task[t].op = "create" \/ (kind \in OneAtATime /\ task[t].op # "load") THEN FALSE ELSE busy

Refused(t) ==
    /\ task[t].step = "called" /\ ~ task[t].ok
    /\ clock' = clock + 1
    /\ task' = IF kind = "members" /\ task[t].op = "change" THEN Loads(t) ELSE Ended(t)
    /\ busy' = Frees(t)
    /\ UNCHANGED <<kind, rows, shown, dialog, banner, detail, bounds>>

Banner_Any(t) ==
    IF task[t].op = "create" /\ kind \in WithSecret
    THEN secret' = task[t].row /\ owed' = task[t].row /\ wiped' = FALSE
    ELSE secret' = None /\ UNCHANGED <<owed, wiped>>

\* A new secret takes the place of the last.  A revocation hides the secret if it was that of
\* its row when the button was clicked.
Banner(t) ==
    LET hides == kind \in HidesRevoked /\ task[t].op = "remove" /\ task[t].saw = task[t].row
    IN  CASE task[t].op = "create" /\ kind \in WithSecret ->
                 secret' = task[t].row /\ owed' = task[t].row /\ wiped' = FALSE
          [] hides ->
                 /\ secret' = None
                 /\ owed' = (IF owed = task[t].row THEN None ELSE owed)
                 /\ wiped' = (owed # task[t].row)
          [] OTHER -> UNCHANGED banner

Patched(t) ==
    LET now == task[t].got[task[t].row]
    IN  [list EXCEPT ![task[t].row] = IF now = Gone \/ (task[t].op = "change" /\ @ = 0) THEN 0 ELSE now]

Accepted_NoLoad(t) ==
    /\ task[t].step = "called" /\ task[t].ok /\ task[t].op \notin Reading
    /\ clock' = clock + 1 /\ latest' = clock'
    /\ known' = [known EXCEPT ![task[t].row] = IF @ > task[t].got[task[t].row] THEN @
                                               ELSE task[t].got[task[t].row]]
    /\ Banner(t)
    /\ task' = Ended(t)
    /\ UNCHANGED <<kind, rows, list, busy, crossed, dialog, detail, bounds>>

Accepted(t) ==
    /\ task[t].step = "called" /\ task[t].ok /\ task[t].op \notin Reading
    /\ clock' = clock + 1 /\ latest' = clock'
    /\ known' = [known EXCEPT ![task[t].row] = IF @ > task[t].got[task[t].row] THEN @
                                               ELSE task[t].got[task[t].row]]
    /\ Banner(t)
    /\ IF kind \in Patches
       THEN /\ list' = Patched(t) /\ task' = Ended(t) /\ busy' = Frees(t)
            /\ crossed' = (crossed \/ \E u \in Tasks \ {t} : task[u].row = task[t].row)
       ELSE UNCHANGED <<list, busy, crossed>> /\ task' = Loads(t)
    /\ UNCHANGED <<kind, rows, dialog, detail, bounds>>

Pinged(t) ==
    /\ task[t].step = "called" /\ task[t].ok /\ task[t].op = "ping"
    /\ clock' = clock + 1
    /\ task' = Loads(t)
    /\ UNCHANGED <<kind, rows, shown, busy, dialog, banner, detail, bounds>>

\* After a test, the deliveries of a webhook that was expanded at the click are shown again.
Loaded(t) ==
    LET again == task[t].op = "ping" /\ task[t].saw = task[t].row
    IN  /\ task[t].step = "loaded"
        /\ list' = task[t].got
        /\ crossed' = (task[t].sent < latest)
        /\ latest' = IF task[t].sent > latest THEN task[t].sent ELSE latest
        /\ busy' = Frees(t)
        /\ IF again
           THEN open' = task[t].row /\ task' = [task EXCEPT ![t] = Does("details", task[t].row, "call")]
           ELSE UNCHANGED open /\ task' = Ended(t)
        /\ UNCHANGED <<kind, rows, known, dialog, banner, details, mistaken, clock, bounds>>

DetailsCome(t) ==
    /\ task[t].step = "called" /\ task[t].ok /\ task[t].op = "details"
    /\ details' = task[t].row
    /\ mistaken' = (open # task[t].row)
    /\ task' = Ended(t)
    /\ UNCHANGED <<kind, rows, shown, busy, dialog, banner, open, clock, bounds>>

Next ==
    \/ \E t \in Tasks : Create(t)
    \/ \E t \in Tasks, r \in Rows : Change(t, r) \/ Ping(t, r) \/ Expand(t, r)
    \/ \E t \in Tasks, r \in Rows, op \in {"create", "remove", "change"} : Ask(t, op, r)
    \/ Collapse \/ Done
    \/ \E t \in Tasks, yes \in BOOLEAN : Close(t, yes)
    \/ \E t \in Tasks : Serve(t) \/ ServeLoad(t)
    \/ \E r \in Rows : Elsewhere(r)
    \/ \E t \in Tasks : Refused(t) \/ Accepted(t) \/ Pinged(t) \/ Loaded(t) \/ DetailsCome(t)

Spec == Init /\ [][Next]_vars

(***************************************************************************)
(* Properties.                                                             *)
(***************************************************************************)
Quiet == faults = 0 /\ \A t \in Tasks : task[t].step \in {"idle", "confirm"}

\* With nothing under way, and unless a list was shown that had been asked for before a newer one
\* or before the panel's own last change, a row one has removed is not listed, and one that was
\* created or changed is listed as it was left or newer, while it exists.
OwnChangesListed ==
    Quiet /\ ~ crossed => \A r \in Rows :
        /\ known[r] = Gone => list[r] = 0
        /\ known[r] \in 1..MaxEdits /\ Here(r) => list[r] >= known[r]

\* A secret that is shown only once stays until it is dismissed, replaced by the next one or
\* revoked; only the revocation of a row whose secret was there at the click may hide another.
SecretKept == owed # None => secret = owed \/ wiped

\* Once they are there, the details under an expanded row are its own, unless those asked for
\* earlier came later.
DetailsMatch ==
    Quiet /\ open # None /\ ~ mistaken => details = open

PanelsSound == OwnChangesListed /\ SecretKept /\ DetailsMatch

=============================================================================
