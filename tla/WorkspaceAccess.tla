-------------------------- MODULE WorkspaceAccess --------------------------
(***************************************************************************)
(* Who may do what in one workspace: the membership rows, the invitations, *)
(* the links members hand to outsiders, and the deletion of the workspace. *)
(* A request reads the caller's role first (requireMember) and changes     *)
(* something later; ownership changes hold the lock of the workspace's     *)
(* row, the rest does not.                                                 *)
(***************************************************************************)
CONSTANTS
    Users,      \* people with an account
    Creator,    \* who created the workspace
    Invites,    \* identities of invitation rows
    Links,      \* identities of rows of shares, folder_shares and file_requests
    KindOf,     \* which of the three a link is
    Handlers,   \* request handlers of the API
    Free        \* the lock of the workspace's row when nobody holds it

ASSUME CreatorAssumption == Creator \in Users
ASSUME KindAssumption    == KindOf \in [Links -> {"share", "folder", "request"}]
ASSUME FreeAssumption    == Free \notin Handlers

VARIABLES
    phase,      \* the workspace: "live", "deleted" (deleted_at set) or "purged"
    role,       \* workspace_members.role of each user, "none" without a row
    invites,    \* the invitation rows
    links,      \* the link rows
    lock,       \* who holds SELECT ... FOR UPDATE on the workspace's row
    request,    \* what each handler was asked to do
    pc          \* the step it has come to

vars == <<phase, role, invites, links, lock, request, pc>>

Roles == {"OWNER", "MEMBER", "VIEWER"}
Contributors == {"OWNER", "MEMBER"}

Owners == {u \in Users : role[u] = "OWNER"}

NoRequest == [op |-> "none"]

NoInvite == [state |-> "none"]
NoLink   == [state |-> "none"]

Pending(i) == invites[i].state = "pending"
Live(l)    == links[l].state = "live"

-----------------------------------------------------------------------------

Start(p, work, at) ==
    /\ pc[p] = "idle"
    /\ request' = [request EXCEPT ![p] = work]
    /\ pc' = [pc EXCEPT ![p] = at]

At(p, at, ops) == pc[p] = at /\ request[p].op \in ops

GoTo(p, at) ==
    /\ pc' = [pc EXCEPT ![p] = at]
    /\ UNCHANGED request

Return(p) ==
    /\ pc' = [pc EXCEPT ![p] = "idle"]
    /\ request' = [request EXCEPT ![p] = NoRequest]

(***************************************************************************)
(* changeRole, removeMember and deleteWorkspace                            *)
(***************************************************************************)

\* An owner gives u a role.
BeginChange(p, u, r) ==
    /\ Owners # {}
    /\ Start(p, [op |-> "change", user |-> u, as |-> r], "lock")
    /\ UNCHANGED <<phase, role, invites, links, lock>>

\* An owner removes u, or u leaves.
BeginRemove(p, u) ==
    /\ Owners # {} \/ role[u] # "none"
    /\ Start(p, [op |-> "remove", user |-> u, as |-> "none"], "lock")
    /\ UNCHANGED <<phase, role, invites, links, lock>>

BeginDelete(p) ==
    /\ Owners # {}
    /\ phase = "live"
    /\ Start(p, [op |-> "delete"], "lock")
    /\ UNCHANGED <<phase, role, invites, links, lock>>

\* Mutation: the transaction reads before it locks.
TakeLock_NoWait(p) ==
    /\ pc[p] = "lock"
    /\ lock' = p
    /\ GoTo(p, "check")
    /\ UNCHANGED <<phase, role, invites, links>>

TakeLock(p) ==
    /\ pc[p] = "lock"
    /\ lock = Free
    /\ lock' = p
    /\ GoTo(p, "check")
    /\ UNCHANGED <<phase, role, invites, links>>

\* Without a membership, without a change, or without another owner the
\* transaction ends here.
MayChange(u, r) ==
    /\ role[u] \notin {"none", r}
    /\ role[u] = "OWNER" => Owners \ {u} # {}

Check(p) ==
    /\ pc[p] = "check"
    /\ IF request[p].op = "delete" \/ MayChange(request[p].user, request[p].as)
         THEN /\ GoTo(p, "write")
              /\ UNCHANGED lock
         ELSE /\ Return(p)
              /\ lock' = Free
    /\ UNCHANGED <<phase, role, invites, links>>

MadeBy(u) == {l \in Links : Live(l) /\ links[l].by = u}

\* The bulk revocations update the live rows that match.
RevokeAmong(dying) ==
    links' = [l \in Links |-> IF Live(l) /\ l \in dying THEN [links[l] EXCEPT !.state = "gone"]
                                                        ELSE links[l]]

\* Mutation: a demotion forgets the links of whom it demotes.
WriteRole_KeepsLinks(p) ==
    /\ At(p, "write", {"change", "remove"})
    /\ role' = [role EXCEPT ![request[p].user] = request[p].as]
    /\ RevokeAmong(IF request[p].as = "none" THEN MadeBy(request[p].user) ELSE {})
    /\ lock' = Free
    /\ Return(p)
    /\ UNCHANGED <<phase, invites>>

\* The row, and with it every link its user may no longer have.
WriteRole(p) ==
    /\ At(p, "write", {"change", "remove"})
    /\ role' = [role EXCEPT ![request[p].user] = request[p].as]
    /\ RevokeAmong(IF request[p].as \in Contributors THEN {} ELSE MadeBy(request[p].user))
    /\ lock' = Free
    /\ Return(p)
    /\ UNCHANGED <<phase, invites>>

\* markDeleted.  File requests are not revoked: resolveLive refuses them once
\* deleted_at is set.
WriteDelete(p) ==
    /\ At(p, "write", {"delete"})
    /\ phase' = IF phase = "live" THEN "deleted" ELSE phase
    /\ RevokeAmong({l \in Links : KindOf[l] \in {"share", "folder"}})
    /\ invites' = [i \in Invites |-> IF Pending(i) THEN [invites[i] EXCEPT !.state = "gone"]
                                                   ELSE invites[i]]
    /\ role' = [u \in Users |-> "none"]
    /\ lock' = Free
    /\ Return(p)

\* The end of purgeWorkspace: DELETE FROM workspaces cascades.
Purge ==
    /\ phase = "deleted"
    /\ lock = Free
    /\ phase' = "purged"
    /\ role' = [u \in Users |-> "none"]
    /\ invites' = [i \in Invites |-> IF invites[i] = NoInvite THEN NoInvite
                                   ELSE [invites[i] EXCEPT !.state = "gone"]]
    /\ RevokeAmong(Links)
    /\ UNCHANGED <<lock, request, pc>>

(***************************************************************************)
(* Invitations                                                             *)
(***************************************************************************)

\* Whether the address already belongs to a member is read here, before the
\* transaction.
BeginInvite(p, u, r) ==
    /\ Owners # {}
    /\ role[u] = "none"
    /\ Start(p, [op |-> "invite", user |-> u, as |-> r], "insert")
    /\ UNCHANGED <<phase, role, invites, links, lock>>

PendingFor(u) == {i \in Invites : Pending(i) /\ invites[i].to = u}

\* upsertPending: the pending row of the address is taken over, or a new one is
\* inserted; its foreign key waits for the lock and needs the workspace's row.
UpsertInvite(p) ==
    /\ At(p, "insert", {"invite"})
    /\ \/ /\ phase # "purged"
          /\ \E i \in Invites :
                /\ \/ i \in PendingFor(request[p].user)
                   \/ PendingFor(request[p].user) = {} /\ invites[i] = NoInvite /\ lock = Free
                /\ invites' = [invites EXCEPT ![i] =
                        [state |-> "pending", to |-> request[p].user, as |-> request[p].as,
                         expired |-> FALSE]]
       \/ /\ phase = "purged"
          /\ UNCHANGED invites
    /\ Return(p)
    /\ UNCHANGED <<phase, role, links, lock>>

ExpireInvite(i) ==
    /\ Pending(i)
    /\ ~ invites[i].expired
    /\ invites' = [invites EXCEPT ![i].expired = TRUE]
    /\ UNCHANGED <<phase, role, links, lock, request, pc>>

BeginRevokeInvite(p, i) ==
    /\ Owners # {}
    /\ Pending(i)
    /\ Start(p, [op |-> "uninvite", invite |-> i], "revoke")
    /\ UNCHANGED <<phase, role, invites, links, lock>>

\* deletePending: a row that was accepted in between stays.
RevokeInvite(p) ==
    /\ At(p, "revoke", {"uninvite"})
    /\ invites' = [i \in Invites |-> IF i = request[p].invite /\ Pending(i)
                                       THEN [invites[i] EXCEPT !.state = "gone"]
                                       ELSE invites[i]]
    /\ Return(p)
    /\ UNCHANGED <<phase, role, links, lock>>

\* findByTokenHash: the row is found whatever its state.
BeginAccept(p, i) ==
    /\ invites[i].state \in {"pending", "accepted"}
    /\ Start(p, [op |-> "join", invite |-> i], "accept")
    /\ UNCHANGED <<phase, role, invites, links, lock>>

Acceptable(i) == Pending(i) /\ ~ invites[i].expired

\* Mutation: markAccepted forgets accepted_at IS NULL.
Accept_Again(p) ==
    /\ pc[p] = "accept"
    /\ LET i == request[p].invite
           u == invites[i].to
       IN  \/ /\ invites[i].state \in {"pending", "accepted"} /\ ~ invites[i].expired
              /\ invites' = [invites EXCEPT ![i].state = "accepted"]
              /\ role[u] = "none" => lock = Free
              /\ role' = [role EXCEPT ![u] = IF @ = "none" THEN invites[i].as ELSE @]
           \/ /\ ~ Acceptable(i)
              /\ UNCHANGED <<role, invites>>
    /\ Return(p)
    /\ UNCHANGED <<phase, links, lock>>

\* markAccepted and insertMember in one transaction.  A membership that exists
\* stays as it is; a new one waits, at its foreign key, for the lock.
Accept(p) ==
    /\ pc[p] = "accept"
    /\ LET i == request[p].invite
           u == invites[i].to
       IN  \/ /\ Acceptable(i)
              /\ invites' = [invites EXCEPT ![i].state = "accepted"]
              /\ role[u] = "none" => lock = Free
              /\ role' = [role EXCEPT ![u] = IF @ = "none" THEN invites[i].as ELSE @]
           \/ /\ ~ Acceptable(i)
              /\ UNCHANGED <<role, invites>>
    /\ Return(p)
    /\ UNCHANGED <<phase, links, lock>>

(***************************************************************************)
(* Links                                                                   *)
(***************************************************************************)

\* The creator's role is read here ...
BeginLink(p, u, l) ==
    /\ role[u] \in Contributors
    /\ links[l] = NoLink
    /\ \A q \in Handlers : request[q].op = "link" => request[q].link # l
    /\ Start(p, [op |-> "link", user |-> u, link |-> l], "insert")
    /\ UNCHANGED <<phase, role, invites, links, lock>>

\* ... and the row is inserted here, with no lock.  A folder link and a file
\* request refer to the workspace's row, a share to its document.
InsertLink(p) ==
    /\ At(p, "insert", {"link"})
    /\ \/ /\ phase # "purged"
          /\ KindOf[request[p].link] # "share" => lock = Free
          /\ links' = [links EXCEPT ![request[p].link] = [state |-> "live", by |-> request[p].user]]
       \/ /\ phase = "purged"
          /\ UNCHANGED links
    /\ Return(p)
    /\ UNCHANGED <<phase, role, invites, lock>>

\* canManageShare: an owner, or the creator while still a contributor.
BeginRevokeLink(p, l) ==
    /\ Live(l)
    /\ Owners # {} \/ role[links[l].by] = "MEMBER"
    /\ Start(p, [op |-> "unlink", link |-> l], "revoke")
    /\ UNCHANGED <<phase, role, invites, links, lock>>

RevokeLink(p) ==
    /\ At(p, "revoke", {"unlink"})
    /\ RevokeAmong({request[p].link})
    /\ Return(p)
    /\ UNCHANGED <<phase, role, invites, lock>>

\* The process dies, or the transaction is refused (a deadlock, a timeout):
\* PostgreSQL rolls back and releases.
Crash(p) ==
    /\ pc[p] # "idle"
    /\ Return(p)
    /\ lock' = IF lock = p THEN Free ELSE lock
    /\ UNCHANGED <<phase, role, invites, links>>

-----------------------------------------------------------------------------

Init ==
    /\ phase = "live"
    /\ role = [u \in Users |-> IF u = Creator THEN "OWNER" ELSE "none"]
    /\ invites = [i \in Invites |-> NoInvite]
    /\ links = [l \in Links |-> NoLink]
    /\ lock = Free
    /\ request = [p \in Handlers |-> NoRequest]
    /\ pc = [p \in Handlers |-> "idle"]

Begin(p) ==
    \/ BeginDelete(p)
    \/ \E u \in Users, r \in Roles : BeginChange(p, u, r) \/ BeginInvite(p, u, r)
    \/ \E u \in Users : BeginRemove(p, u)
    \/ \E i \in Invites : BeginRevokeInvite(p, i) \/ BeginAccept(p, i)
    \/ \E u \in Users, l \in Links : BeginLink(p, u, l)
    \/ \E l \in Links : BeginRevokeLink(p, l)

Continue(p) ==
    \/ TakeLock(p) \/ Check(p) \/ WriteRole(p) \/ WriteDelete(p)
    \/ UpsertInvite(p) \/ RevokeInvite(p) \/ Accept(p)
    \/ InsertLink(p) \/ RevokeLink(p)

Next ==
    \/ \E p \in Handlers : Begin(p) \/ Continue(p) \/ Crash(p)
    \/ \E i \in Invites : ExpireInvite(i)
    \/ Purge

Safety == Init /\ [][Next]_vars

-----------------------------------------------------------------------------
(***************************************************************************)
(* Properties                                                              *)
(***************************************************************************)

InviteRow == [state : {"pending", "accepted", "gone"}, to : Users, as : Roles,
              expired : BOOLEAN]
LinkRow == [state : {"live", "gone"}, by : Users]

Change == [op : {"change"}, user : Users, as : Roles]
Remove == [op : {"remove"}, user : Users, as : {"none"}]
Locked == Change \cup Remove \cup {[op |-> "delete"]}
Insert == [op : {"invite"}, user : Users, as : Roles]
            \cup [op : {"link"}, user : Users, link : Links]
Revoke == [op : {"uninvite"}, invite : Invites] \cup [op : {"unlink"}, link : Links]
Join   == [op : {"join"}, invite : Invites]

\* The lock is held from TakeLock to the end of the transaction, on every way
\* out of it.
TypeOK ==
    /\ phase \in {"live", "deleted", "purged"}
    /\ role \in [Users -> Roles \cup {"none"}]
    /\ invites \in [Invites -> InviteRow \cup {NoInvite}]
    /\ links \in [Links -> LinkRow \cup {NoLink}]
    /\ lock \in Handlers \cup {Free}
    /\ pc \in [Handlers -> {"idle", "lock", "check", "write", "insert", "revoke", "accept"}]
    /\ request \in [Handlers -> {NoRequest} \cup Locked \cup Insert \cup Revoke \cup Join]
    /\ \A p \in Handlers :
        /\ pc[p] \in {"lock", "check", "write"} => request[p] \in Locked
        /\ pc[p] = "insert" => request[p] \in Insert
        /\ pc[p] = "revoke" => request[p] \in Revoke
        /\ pc[p] = "accept" => request[p] \in Join
        /\ lock = p <=> pc[p] \in {"check", "write"}

\* A workspace that is not deleted has an owner, whoever demotes, removes or
\* leaves at the same time (the lock makes the last-owner check sound,
\* workspaces.repo.ts:160).
AlwaysAnOwner == phase = "live" => Owners # {}

\* Whether an outsider who has the link gets through it: resolveLive of the
\* three kinds, and the second look publicUpload takes at the creator's role.
Opens(l) ==
    /\ Live(l)
    /\ KindOf[l] # "share" => phase = "live"
    /\ KindOf[l] = "request" => role[links[l].by] \in Contributors

\* Nobody becomes a member but by using up a pending, unexpired invitation to
\* them, with the role it names: an invitation, accepted by two requests at a
\* time or again after its user was removed, lets nobody in twice.
JoinRule(u) ==
    role[u] = "none" /\ role'[u] # "none"
        => \E i \in Invites : /\ Acceptable(i)
                              /\ invites[i].to = u
                              /\ invites[i].as = role'[u]
                              /\ invites'[i].state = "accepted"

\* The role of a member changes by changeRole alone: an old invitation, accepted
\* late, neither promotes nor demotes.
KeepRule(u) ==
    role[u] # "none" /\ role'[u] \notin {role[u], "none"}
        => \E p \in Handlers : lock = p /\ request[p].op = "change"

\* In the step that takes away a contributor's role every link of theirs dies
\* with it, in the deletion of the workspace too.
LossRule(l) ==
    /\ Live(l)
    /\ role[links[l].by] \in Contributors
    /\ role'[links[l].by] \notin Contributors
    => ~ Opens(l)'

Rules == (\A u \in Users : JoinRule(u) /\ KeepRule(u)) /\ \A l \in Links : LossRule(l)

\* What no step may do to access, whichever requests meet: let somebody in, or
\* change what they may, or leave behind what they made, but by these rules.
AccessSteps == [][Rules]_vars

=============================================================================
