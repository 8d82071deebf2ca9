----------------------------- MODULE FolderTree ----------------------------
(***************************************************************************)
(* The folders of one workspace, the documents in them, and the two kinds  *)
(* of public links that point at a folder: a folder link, which shows it,  *)
(* and a file request, which takes files into it.  A request looks at the  *)
(* tree in several statements and writes in one more, without a lock; the  *)
(* foreign keys and the conditional updates do the rest.                   *)
(***************************************************************************)
EXTENDS Naturals, FiniteSets, FiniteSetsExt

CONSTANTS
    Folders, Docs,      \* identities of rows of folders and documents
    Handlers,           \* requests served at the same time
    Root, None,         \* the parent of a top folder, and of a folder without a row: not folders
    MaxDepth,           \* MAX_FOLDER_DEPTH
    WalkGuard,          \* where a recursive walk stops, above MaxDepth: 32 in the code
    MaxFiles,           \* max_files of the file request
    Attempts,           \* LINK_PASSWORD_ATTEMPTS
    MaxRequests         \* bound: requests served in all

ASSUME SizesAssumption ==
    /\ Root \notin Folders /\ None \notin Folders /\ Root # None
    /\ IsFiniteSet(Handlers)
    /\ MaxDepth \in Nat /\ WalkGuard \in Nat /\ MaxDepth < WalkGuard
    /\ MaxFiles \in Nat /\ Attempts \in Nat \ {0} /\ MaxRequests \in Nat

VARIABLES
    parent,     \* folders.parent_id
    docs,       \* documents: whether trashed, and folder_id
    fshare,     \* a row of folder_shares: its folder, use and failed unlocks
    asked,      \* a row of file_requests, with its received_count
    raced,      \* a check of the tree was out of date when its write was made
    served,     \* how many requests there were, for the bound
    request, pc \* what each handler has read, and the step it has come to

treeVars == <<parent, docs, fshare, asked, raced, served, request, pc>>
handling == <<served, request, pc>>

Exists(f) == f \in Folders /\ parent[f] # None
Place(f)  == f = Root \/ Exists(f)

\* up[n] is n levels above f.
Up(f) ==
    LET up[n \in 0..WalkGuard] ==
            IF n = 0 THEN f ELSE IF up[n - 1] \in Folders THEN parent[up[n - 1]] ELSE Root
    IN  up

\* pathTo: the folder and those above it, each with its distance.
PathTo(f) == {<<n, Up(f)[n]>> : n \in {i \in 0..WalkGuard : Exists(Up(f)[i])}}

\* subtreeHeight and the walks down from a folder
Below(f, n)      == {g \in Folders : Exists(g) /\ Up(g)[n] = f}
SubtreeHeight(f) == Max({n \in 0..WalkGuard : n = 0 \/ Below(f, n) # {}})

NoRequest == [op |-> "none", at |-> Root, to |-> Root, path |-> {}, height |-> 0]

Start(h, what, step) ==
    /\ pc[h] = "idle" /\ served < MaxRequests
    /\ served' = served + 1
    /\ request' = [request EXCEPT ![h] = what]
    /\ pc' = [pc EXCEPT ![h] = step]

Asks(op, at, to) == [NoRequest EXCEPT !.op = op, !.at = at, !.to = to]

Note(h, what, step) ==
    /\ request' = [request EXCEPT ![h] = what]
    /\ pc' = [pc EXCEPT ![h] = step]
    /\ UNCHANGED served

Answer(h) == Note(h, NoRequest, "idle")

rest == <<docs, fshare, asked>>

-----------------------------------------------------------------------------
(***************************************************************************)
(* Folders                                                                 *)
(***************************************************************************)

\* create: the path of the parent is looked at, then the row is written.
BeginCreateFolder(h, f, p) ==
    /\ ~ Exists(f) /\ (p = Root \/ Exists(p))
    /\ Cardinality(PathTo(p)) < MaxDepth
    /\ Start(h, [Asks("create", f, p) EXCEPT !.path = PathTo(p)], "insert")
    /\ UNCHANGED <<parent, raced, rest>>

\* The insert fails when the parent is gone.
InsertFolder(h) ==
    LET f == request[h].at  p == request[h].to
    IN  /\ pc[h] = "insert"
        /\ IF Place(p) /\ ~ Exists(f)
             THEN /\ parent' = [parent EXCEPT ![f] = p]
                  /\ raced' = (raced \/ PathTo(p) # request[h].path)
             ELSE UNCHANGED <<parent, raced>>
        /\ Answer(h)
        /\ UNCHANGED rest

\* update: a move to where the folder is already changes nothing.
BeginMove(h, f, p) ==
    /\ Exists(f) /\ parent[f] # p
    /\ Start(h, Asks("move", f, p), "path")
    /\ UNCHANGED <<parent, raced, rest>>

\* Into the top level nothing is checked.
ReadPath(h) ==
    LET p == request[h].to
    IN  /\ pc[h] = "path"
        /\ \/ p = Root /\ Note(h, request[h], "write")
           \/ /\ Exists(p)
              /\ ~ \E n \in 0..WalkGuard : <<n, request[h].at>> \in PathTo(p)
              /\ Note(h, [request[h] EXCEPT !.path = PathTo(p)], "height")
           \/ /\ p # Root
              /\ Exists(p) => \E n \in 0..WalkGuard : <<n, request[h].at>> \in PathTo(p)
              /\ Answer(h)
        /\ UNCHANGED <<parent, raced, rest>>

\* Mutation: only the folder itself is counted, not what it holds.
Fits_Alone(path, height) == Cardinality(path) + 1 <= MaxDepth

Fits(path, height) == Cardinality(path) + 1 + height <= MaxDepth

ReadHeight(h) ==
    LET height == SubtreeHeight(request[h].at)
    IN  /\ pc[h] = "height"
        /\ IF Fits(request[h].path, height)
             THEN Note(h, [request[h] EXCEPT !.height = height], "write")
             ELSE Answer(h)
        /\ UNCHANGED <<parent, raced, rest>>

Fresh(h) ==
    request[h].to # Root =>
        /\ PathTo(request[h].to) = request[h].path
        /\ SubtreeHeight(request[h].at) = request[h].height

\* The update is by id: of a folder that is gone it changes nothing, into one
\* that is gone it fails.
WriteMove(h) ==
    LET f == request[h].at
    IN  /\ pc[h] = "write"
        /\ IF Exists(f) /\ Place(request[h].to)
             THEN /\ parent' = [parent EXCEPT ![f] = request[h].to]
                  /\ raced' = (raced \/ ~ Fresh(h))
             ELSE UNCHANGED <<parent, raced>>
        /\ Answer(h)
        /\ UNCHANGED rest

Inside(f) == {d \in Docs : docs[d].state = "live" /\ docs[d].in = f}
Children(f) == {g \in Folders : parent[g] = f}

BeginRemove(h, f) ==
    /\ Exists(f)
    /\ Inside(f) = {} /\ Children(f) = {}       \* isEmpty
    /\ Start(h, Asks("remove", f, Root), "delete")
    /\ UNCHANGED <<parent, raced, rest>>

NoLink  == [state |-> "none", in |-> Root, opens |-> 0, told |-> 0, failed |-> 0]
NotAsked == [state |-> "none", in |-> Root, received |-> 0]

\* RESTRICT for subfolders, SET NULL for documents, CASCADE for the links and
\* what the file request has recorded: a row that is gone is no other row later.
DeleteFolder(h) ==
    LET f == request[h].at
    IN  /\ pc[h] = "delete"
        /\ IF Children(f) # {}
             THEN UNCHANGED <<parent, rest>>
             ELSE /\ parent' = [parent EXCEPT ![f] = None]
                  /\ docs' = [d \in Docs |->
                         [docs[d] EXCEPT !.in = IF @ = f THEN Root ELSE @,
                                         !.asked = @ /\ asked.in # f]]
                  /\ fshare' = IF fshare.in = f THEN [fshare EXCEPT !.state = "gone"] ELSE fshare
                  /\ asked' = IF asked.in = f THEN [asked EXCEPT !.state = "gone"] ELSE asked
        /\ Answer(h)
        /\ UNCHANGED raced

(***************************************************************************)
(* Documents                                                               *)
(***************************************************************************)

NoDoc == [state |-> "none", in |-> Root, asked |-> FALSE]

\* upload and a move to folder f look the folder up before they write.
BeginPut(h, op, f) ==
    /\ op = "put" \/ op = "complete" \/ Place(f)
    /\ Start(h, Asks(op, f, f), "put")
    /\ UNCHANGED <<parent, raced, rest>>

\* completeUpload takes the top level when the folder is gone; upload and
\* update fail then.
PutDocument(h, d) ==
    LET f    == request[h].at
        into == IF request[h].op = "complete" /\ ~ Place(f) THEN Root ELSE f
    IN  /\ pc[h] = "put"
        /\ docs[d].state \in (IF request[h].op = "rehome" THEN {"live"} ELSE {"none"})
        /\ IF Place(into)
             THEN docs' = [docs EXCEPT ![d] = [docs[d] EXCEPT !.state = "live", !.in = into]]
             ELSE UNCHANGED docs
        /\ Answer(h)
        /\ UNCHANGED <<parent, raced, fshare, asked>>

\* trash and restore keep the folder; the purge deletes the row.
ChangeDocument(d) ==
    /\ \/ docs[d].state = "live"  /\ docs' = [docs EXCEPT ![d].state = "trash"]
       \/ docs[d].state = "trash" /\ docs' = [docs EXCEPT ![d].state = "live"]
       \/ docs[d].state = "trash" /\ docs' = [docs EXCEPT ![d] = NoDoc]
    /\ UNCHANGED <<parent, raced, fshare, asked, handling>>

(***************************************************************************)
(* The file request                                                        *)
(***************************************************************************)

\* create looks the folder up and inserts: the insert fails without it.
BeginAsk(h, f) ==
    /\ asked.state = "none" /\ Place(f)
    /\ Start(h, Asks("ask", f, f), "ask")
    /\ UNCHANGED <<parent, raced, rest>>

InsertAsk(h) ==
    /\ pc[h] = "ask"
    /\ asked' = IF Place(request[h].at) /\ asked.state = "none"
                  THEN [state |-> "open", in |-> request[h].at, received |-> 0] ELSE asked
    /\ Answer(h)
    /\ UNCHANGED <<parent, docs, fshare, raced>>

\* publicUpload: resolveLive leaves the count out.
BeginSend(h) ==
    /\ asked.state = "open"
    /\ Start(h, Asks("send", asked.in, asked.in), "claim")
    /\ UNCHANGED <<parent, raced, rest>>

\* Mutation: what was resolved is not looked at again.
ClaimSlot_Resolved == asked.received < MaxFiles

\* Mutation: the limit is left to the page that shows how many remain.
ClaimSlot_Unlimited == asked.state = "open"

ClaimSlot == asked.state = "open" /\ asked.received < MaxFiles

\* The slot, the document and the record of the sender commit together.
ReceiveFile(h, d) ==
    /\ pc[h] = "claim"
    /\ docs[d].state = "none"
    /\ IF ClaimSlot /\ Place(request[h].at)
         THEN /\ asked' = [asked EXCEPT !.received = @ + 1]
              /\ docs' = [docs EXCEPT ![d] =
                             [state |-> "live", in |-> request[h].at, asked |-> TRUE]]
         ELSE UNCHANGED <<asked, docs>>
    /\ Answer(h)
    /\ UNCHANGED <<parent, fshare, raced>>

\* revoke, expires_at, or the maker's role is lost
CloseAsk ==
    /\ asked.state = "open"
    /\ asked' = [asked EXCEPT !.state = "closed"]
    /\ UNCHANGED <<parent, docs, fshare, raced, handling>>

(***************************************************************************)
(* The folder link                                                         *)
(***************************************************************************)

BeginLink(h, f) ==
    /\ fshare.state = "none" /\ Exists(f)
    /\ Start(h, Asks("link", f, f), "link")
    /\ UNCHANGED <<parent, raced, rest>>

InsertFolderLink(h) ==
    /\ pc[h] = "link"
    /\ fshare' = IF Exists(request[h].at) /\ fshare.state = "none"
                   THEN [NoLink EXCEPT !.state = "live", !.in = request[h].at] ELSE fshare
    /\ Answer(h)
    /\ UNCHANGED <<parent, docs, asked, raced>>

\* recordView: the answer does not wait for countAccess.
BeginView(h) ==
    /\ fshare.state = "live"
    /\ Start(h, Asks("view", fshare.in, fshare.in), "count")
    /\ UNCHANGED <<parent, raced, rest>>

CountAccess(h) ==
    /\ pc[h] = "count"
    /\ IF fshare.state = "gone"
         THEN Answer(h) /\ UNCHANGED fshare
         ELSE /\ fshare' = [fshare EXCEPT !.opens = @ + 1]
              /\ IF fshare.opens + 1 = 1 THEN Note(h, request[h], "tell") ELSE Answer(h)
    /\ UNCHANGED <<parent, docs, asked, raced>>

TellCreator(h) ==
    /\ pc[h] = "tell"
    /\ fshare' = [fshare EXCEPT !.told = @ + 1]
    /\ Answer(h)
    /\ UNCHANGED <<parent, docs, asked, raced>>

BeginUnlock(h) ==
    /\ fshare.state = "live" /\ fshare.failed < Attempts
    /\ Start(h, Asks("unlock", fshare.in, fshare.in), "verify")
    /\ UNCHANGED <<parent, raced, rest>>

\* A right password signs a grant and leaves the count as it is.
VerifyUnlock(h) ==
    /\ pc[h] = "verify"
    /\ fshare' \in {fshare} \cup (IF fshare.state = "gone" THEN {}
                                    ELSE {[fshare EXCEPT !.failed = @ + 1]})
    /\ Answer(h)
    /\ UNCHANGED <<parent, docs, asked, raced>>

\* A new window of the lockout
LockoutPasses ==
    /\ fshare.failed > 0
    /\ fshare' = [fshare EXCEPT !.failed = 0]
    /\ UNCHANGED <<parent, docs, asked, raced, handling>>

RevokeLink ==
    /\ fshare.state = "live"
    /\ fshare' = [fshare EXCEPT !.state = "revoked"]
    /\ UNCHANGED <<parent, docs, asked, raced, handling>>

-----------------------------------------------------------------------------

\* A statement fails, a name is taken, or the process dies.
Fails(h) ==
    /\ pc[h] # "idle"
    /\ Answer(h)
    /\ UNCHANGED <<parent, raced, rest>>

TreeInit ==
    /\ parent = [f \in Folders |-> None]
    /\ docs = [d \in Docs |-> NoDoc]
    /\ fshare = NoLink /\ asked = NotAsked
    /\ raced = FALSE /\ served = 0
    /\ request = [h \in Handlers |-> NoRequest]
    /\ pc = [h \in Handlers |-> "idle"]

Enter(h) ==
    \/ \E f \in Folders, p \in Folders \cup {Root} :
           BeginCreateFolder(h, f, p) \/ BeginMove(h, f, p)
    \/ \E f \in Folders : BeginRemove(h, f) \/ BeginLink(h, f)
    \/ \E f \in Folders \cup {Root} :
           BeginAsk(h, f) \/ \E op \in {"put", "complete", "rehome"} : BeginPut(h, op, f)
    \/ BeginSend(h) \/ BeginView(h) \/ BeginUnlock(h)

Proceed(h) ==
    \/ InsertFolder(h) \/ ReadPath(h) \/ ReadHeight(h) \/ WriteMove(h) \/ DeleteFolder(h)
    \/ \E d \in Docs : PutDocument(h, d) \/ ReceiveFile(h, d)
    \/ InsertAsk(h) \/ InsertFolderLink(h) \/ CountAccess(h) \/ TellCreator(h) \/ VerifyUnlock(h)
    \/ Fails(h)

TreeNext ==
    \/ \E h \in Handlers : Enter(h) \/ Proceed(h)
    \/ \E d \in Docs : ChangeDocument(d)
    \/ CloseAsk \/ LockoutPasses \/ RevokeLink

TreeSpec == TreeInit /\ [][TreeNext]_treeVars

-----------------------------------------------------------------------------
(***************************************************************************)
(* Properties                                                              *)
(***************************************************************************)

Ops == {"none", "create", "move", "remove", "put", "complete", "rehome", "ask", "send", "link",
        "view", "unlock"}

\* Every variable has its type; what points at a folder points at one that
\* has a row.
TreeTypes ==
    /\ parent \in [Folders -> Folders \cup {Root, None}]
    /\ docs \in [Docs -> [state : {"none", "live", "trash"}, in : Folders \cup {Root},
                          asked : BOOLEAN]]
    /\ fshare \in [state : {"none", "live", "revoked", "gone"}, in : Folders \cup {Root},
                    opens : Nat, told : Nat, failed : Nat]
    /\ asked \in [state : {"none", "open", "closed", "gone"}, in : Folders \cup {Root},
                   received : Nat]
    /\ raced \in BOOLEAN /\ served \in 0..MaxRequests
    /\ \A h \in Handlers : request[h].op \in Ops /\ (request[h].op = "none" <=> pc[h] = "idle")
    /\ \A f \in Folders : Exists(f) => Place(parent[f])
    /\ \A d \in Docs : Place(docs[d].in)
    /\ fshare.state \in {"live", "revoked"} => Exists(fshare.in)
    /\ asked.state # "gone" => Place(asked.in)

Reachable(f) == \E n \in 0..MaxDepth : Up(f)[n] = Root

\* No folder, document, link or request points at a folder that is gone, and
\* every folder can be reached from the top within MAX_FOLDER_DEPTH levels, as
\* long as no move or creation was written after the path or the height it
\* had checked became another one.
TreeSound ==
    /\ TreeTypes
    /\ raced \/ \A f \in Folders : Exists(f) => Reachable(f)

\* However many files are sent at once, purged and sent again, a file request
\* takes max_files in all, and every file there is counted; the first open of a
\* link is reported once however many come together, and every wrong password
\* counts although the limit was looked at before.
CountersExact ==
    /\ asked.received <= MaxFiles
    /\ Cardinality({d \in Docs : docs[d].asked}) <= asked.received
    /\ fshare.told <= 1
    /\ fshare.failed < Attempts + Cardinality(Handlers)

\* A file that was under way when the request was closed, expired or deleted
\* with its folder is not taken.
ClosedTakesNothing ==
    [][\A d \in Docs : docs'[d].asked /\ ~ docs[d].asked => asked.state = "open"]_treeVars

=============================================================================
