----------------------- MODULE WorkspaceProofs -----------------------
(***************************************************************************)
(* Proofs about WorkspaceAccess, for any number of people, invitations,    *)
(* links and requests; and about four other parts of a workspace, its      *)
(* archives, the passes of maintenance, the panels of the pages and the    *)
(* readers of a history, with the names MCWorkspace gives their variables. *)
(***************************************************************************)
EXTENDS MCWorkspace, FiniteSetTheorems, SequenceTheorems, WellFoundedInduction, TLAPS

USE CreatorAssumption, KindAssumption, FreeAssumption

\* What a transaction has read stays true until it writes: the lock keeps
\* away everybody who could change it.
DecisionInv ==
    \A p \in Handlers :
        At(p, "write", {"change", "remove"}) => MayChange(request[p].user, request[p].as)

IInv == DecisionInv /\ AlwaysAnOwner

-----------------------------------------------------------------------------
(***************************************************************************)
(* Type correctness.                                                       *)
(***************************************************************************)

LEMMA LockedWork ==
    ASSUME NEW w \in Locked
    PROVE  \/ w.op = "delete"
           \/ w.op \in {"change", "remove"} /\ w.user \in Users /\ w.as \in Roles \cup {"none"}
  BY DEF Locked, Change, Remove, Roles

LEMMA InsertWork ==
    ASSUME NEW w \in Insert
    PROVE  \/ w.op = "invite" /\ w.user \in Users /\ w.as \in Roles
           \/ w.op = "link" /\ w.user \in Users /\ w.link \in Links
  BY DEF Insert

LEMMA JoinWork ==
    ASSUME NEW w \in Join
    PROVE  w.op = "join" /\ w.invite \in Invites
  BY DEF Join

\* The end of an invitation keeps its row well typed.
LEMMA InviteGone ==
    ASSUME TypeOK, NEW i \in Invites, Pending(i) \/ invites[i] # NoInvite
    PROVE  [invites[i] EXCEPT !.state = "gone"] \in InviteRow
  BY DEF TypeOK, InviteRow, Pending, NoInvite

\* Starting, moving on and returning keep what TypeOK says of handlers.
HandlersOK ==
    /\ lock \in Handlers \cup {Free}
    /\ pc \in [Handlers -> {"idle", "lock", "check", "write", "insert", "revoke", "accept"}]
    /\ request \in [Handlers -> {NoRequest} \cup Locked \cup Insert \cup Revoke \cup Join]
    /\ \A p \in Handlers :
        /\ pc[p] \in {"lock", "check", "write"} => request[p] \in Locked
        /\ pc[p] = "insert" => request[p] \in Insert
        /\ pc[p] = "revoke" => request[p] \in Revoke
        /\ pc[p] = "accept" => request[p] \in Join
        /\ lock = p <=> pc[p] \in {"check", "write"}

DataOK ==
    /\ phase \in {"live", "deleted", "purged"}
    /\ role \in [Users -> Roles \cup {"none"}]
    /\ invites \in [Invites -> InviteRow \cup {NoInvite}]
    /\ links \in [Links -> LinkRow \cup {NoLink}]

LEMMA HandlersStep ==
    ASSUME TypeOK, [Next]_vars
    PROVE  HandlersOK'
  <1> USE DEF HandlersOK, TypeOK
  <1>1. ASSUME NEW p \in Handlers, Begin(p) PROVE HandlersOK'
    <2> DEFINE Starts(W, at) == \E w \in W : Start(p, w, at) /\ lock' = lock
    <2>1. ASSUME NEW u \in Users, NEW r \in Roles, BeginChange(p, u, r)
          PROVE  Starts(Locked, "lock")
      BY <2>1 DEF BeginChange, Locked, Change
    <2>2. ASSUME NEW u \in Users, BeginRemove(p, u)
          PROVE  Starts(Locked, "lock")
      BY <2>2 DEF BeginRemove, Locked, Remove
    <2>3. ASSUME BeginDelete(p) PROVE Starts(Locked, "lock")
      BY <2>3 DEF BeginDelete, Locked
    <2>4. ASSUME NEW u \in Users, NEW r \in Roles, BeginInvite(p, u, r)
          PROVE  Starts(Insert, "insert")
      BY <2>4 DEF BeginInvite, Insert
    <2>5. ASSUME NEW u \in Users, NEW l \in Links, BeginLink(p, u, l)
          PROVE  Starts(Insert, "insert")
      BY <2>5 DEF BeginLink, Insert
    <2>6. ASSUME NEW i \in Invites, BeginRevokeInvite(p, i)
          PROVE  Starts(Revoke, "revoke")
      BY <2>6 DEF BeginRevokeInvite, Revoke
    <2>7. ASSUME NEW l \in Links, BeginRevokeLink(p, l)
          PROVE  Starts(Revoke, "revoke")
      BY <2>7 DEF BeginRevokeLink, Revoke
    <2>8. ASSUME NEW i \in Invites, BeginAccept(p, i)
          PROVE  Starts(Join, "accept")
      BY <2>8 DEF BeginAccept, Join
    <2>9. \/ Starts(Locked, "lock") \/ Starts(Insert, "insert")
          \/ Starts(Revoke, "revoke") \/ Starts(Join, "accept")
      BY <1>1, <2>1, <2>2, <2>3, <2>4, <2>5, <2>6, <2>7, <2>8 DEF Begin
    <2>10. QED
      BY <2>9 DEF Start
  <1>2. ASSUME NEW p \in Handlers, TakeLock(p) PROVE HandlersOK'
    BY <1>2 DEF TakeLock, GoTo
  <1>3. ASSUME NEW p \in Handlers, Check(p) PROVE HandlersOK'
    BY <1>3 DEF Check, GoTo, Return
  <1>4. ASSUME NEW p \in Handlers, WriteRole(p) \/ WriteDelete(p) PROVE HandlersOK'
    BY <1>4 DEF WriteRole, WriteDelete, At, Return
  <1>5. ASSUME NEW p \in Handlers,
               UpsertInvite(p) \/ RevokeInvite(p) \/ Accept(p) \/ InsertLink(p) \/ RevokeLink(p)
        PROVE  HandlersOK'
    <2>1. lock' = lock /\ Return(p) /\ pc[p] \in {"insert", "revoke", "accept"}
      BY <1>5 DEF UpsertInvite, RevokeInvite, Accept, InsertLink, RevokeLink, At
    <2>2. QED
      BY <2>1 DEF Return
  <1>6. ASSUME NEW p \in Handlers, Crash(p) PROVE HandlersOK'
    BY <1>6 DEF Crash, Return
  <1>7. CASE UNCHANGED <<lock, request, pc>>
    BY <1>7
  <1> HIDE DEF HandlersOK, TypeOK
  <1>8. QED
    BY <1>1, <1>2, <1>3, <1>4, <1>5, <1>6, <1>7
       DEF Next, Continue, ExpireInvite, Purge, vars

LEMMA DataStep ==
    ASSUME TypeOK, [Next]_vars
    PROVE  DataOK'
  <1> USE DEF DataOK, TypeOK
  <1>1. ASSUME NEW p \in Handlers, WriteRole(p) PROVE DataOK'
    <2>1. links' \in [Links -> LinkRow \cup {NoLink}]
      BY <1>1 DEF WriteRole, RevokeAmong, MadeBy, LinkRow, NoLink, Live
    <2>2. request[p].user \in Users /\ request[p].as \in Roles \cup {"none"}
      BY <1>1, LockedWork DEF WriteRole, At
    <2>3. QED
      BY <1>1, <2>1, <2>2 DEF WriteRole
  <1>2. ASSUME NEW p \in Handlers, WriteDelete(p) PROVE DataOK'
    <2>1. links' \in [Links -> LinkRow \cup {NoLink}]
      BY <1>2 DEF WriteDelete, RevokeAmong, MadeBy, LinkRow, NoLink, Live
    <2>2. invites' \in [Invites -> InviteRow \cup {NoInvite}]
      BY <1>2, InviteGone DEF WriteDelete
    <2>3. QED
      BY <1>2, <2>1, <2>2 DEF WriteDelete
  <1>3. ASSUME Purge PROVE DataOK'
    <2>1. links' \in [Links -> LinkRow \cup {NoLink}]
      BY <1>3 DEF Purge, RevokeAmong, MadeBy, LinkRow, NoLink, Live
    <2>2. invites' \in [Invites -> InviteRow \cup {NoInvite}]
      BY <1>3, InviteGone DEF Purge
    <2>3. QED
      BY <1>3, <2>1, <2>2 DEF Purge
  <1>4. ASSUME NEW p \in Handlers, UpsertInvite(p) PROVE DataOK'
    <2>1. request[p].user \in Users /\ request[p].as \in Roles
      BY <1>4, InsertWork DEF UpsertInvite, At
    <2>2. [state |-> "pending", to |-> request[p].user, as |-> request[p].as,
           expired |-> FALSE] \in InviteRow
      BY <2>1 DEF InviteRow
    <2>3. QED
      BY <1>4, <2>2 DEF UpsertInvite
  <1>5. ASSUME NEW p \in Handlers, RevokeInvite(p) PROVE DataOK'
    BY <1>5, InviteGone DEF RevokeInvite
  <1>6. ASSUME NEW p \in Handlers, Accept(p) PROVE DataOK'
    <2> DEFINE i == request[p].invite
    <2>1. i \in Invites
      BY <1>6, JoinWork DEF Accept
    <2>2. CASE Acceptable(i) /\ invites' = [invites EXCEPT ![i].state = "accepted"]
                 /\ role' = [role EXCEPT ![invites[i].to] =
                                IF @ = "none" THEN invites[i].as ELSE @]
      <3>1. invites[i] \in InviteRow
        BY <2>1, <2>2 DEF Acceptable, Pending, NoInvite
      <3>2. [invites[i] EXCEPT !.state = "accepted"] \in InviteRow
        BY <3>1 DEF InviteRow
      <3>3. invites[i].to \in Users /\ invites[i].as \in Roles
        BY <3>1 DEF InviteRow
      <3>4. QED
        BY <1>6, <2>1, <2>2, <3>2, <3>3 DEF Accept
    <2>3. CASE UNCHANGED <<role, invites>>
      BY <1>6, <2>3 DEF Accept
    <2>4. QED
      BY <1>6, <2>2, <2>3 DEF Accept
  <1>7. ASSUME NEW p \in Handlers, InsertLink(p) PROVE DataOK'
    <2>1. \/ links' = links
          \/ /\ request[p].link \in Links /\ request[p].user \in Users
             /\ links' = [links EXCEPT ![request[p].link] =
                                [state |-> "live", by |-> request[p].user]]
      BY <1>7, InsertWork DEF InsertLink, At
    <2>2. QED
      BY <1>7, <2>1 DEF InsertLink, LinkRow
  <1>8. ASSUME NEW p \in Handlers, RevokeLink(p) PROVE DataOK'
    BY <1>8 DEF RevokeLink, RevokeAmong, MadeBy, LinkRow, NoLink, Live
  <1>9. ASSUME NEW i \in Invites, ExpireInvite(i) PROVE DataOK'
    <2>1. invites[i] \in InviteRow
      BY <1>9 DEF ExpireInvite, Pending, NoInvite
    <2>2. [invites[i] EXCEPT !.expired = TRUE] \in InviteRow
      BY <2>1 DEF InviteRow
    <2>3. QED
      BY <1>9, <2>2 DEF ExpireInvite
  <1>10. CASE UNCHANGED <<phase, role, invites, links>>
    BY <1>10
  <1>11. ASSUME NEW p \in Handlers, TakeLock(p) \/ Check(p) \/ Crash(p) PROVE DataOK'
    BY <1>11 DEF TakeLock, Check, Crash
  <1>12. ASSUME NEW p \in Handlers, Begin(p) PROVE DataOK'
    BY <1>10, <1>12 DEF Begin, BeginChange, BeginRemove, BeginDelete, BeginInvite,
                        BeginRevokeInvite, BeginAccept, BeginLink, BeginRevokeLink
  <1> HIDE DEF DataOK, TypeOK
  <1>13. QED
    BY <1>1, <1>2, <1>3, <1>4, <1>5, <1>6, <1>7, <1>8, <1>9, <1>10, <1>11, <1>12
       DEF Next, Continue, vars

\* TypeOK holds in every reachable state: the lock of the workspace's row is
\* held by the one transaction that is between its read and its write.
THEOREM TypeCorrect == Safety => []TypeOK
  <1>1. Init => TypeOK
    BY DEF Init, TypeOK, Roles
  <1>2. TypeOK /\ [Next]_vars => TypeOK'
    <2> SUFFICES ASSUME TypeOK, [Next]_vars PROVE TypeOK'
      OBVIOUS
    <2>1. HandlersOK' /\ DataOK'
      BY HandlersStep, DataStep
    <2>2. QED
      BY <2>1 DEF TypeOK, HandlersOK, DataOK
  <1>3. QED
    BY <1>1, <1>2, PTL DEF Safety

-----------------------------------------------------------------------------
(***************************************************************************)
(* The last owner.                                                         *)
(***************************************************************************)

Joins ==
    /\ phase' = phase
    /\ \E u \in Users, r \in Roles : role[u] = "none" /\ role' = [role EXCEPT ![u] = r]

Writes(p) ==
    /\ phase' = phase
    /\ At(p, "write", {"change", "remove"})
    /\ role' = [role EXCEPT ![request[p].user] = request[p].as]

\* Whoever changes a role either holds the lock and lets go of it, or adds a
\* member while nobody holds it.
RoleMoves ==
    \/ role' = role /\ phase' = phase
    \/ lock = Free /\ Joins
    \/ lock = Free /\ phase' # "live"
    \/ \E p \in Handlers : pc[p] = "write" /\ pc'[p] = "idle" /\ (Writes(p) \/ phase' = "deleted")
    \/ \E p \in Handlers : pc[p] = "write" /\ pc'[p] = "idle" /\ phase # "live" /\ phase' = phase

LEMMA RolesMove ==
    ASSUME TypeOK, [Next]_vars
    PROVE  RoleMoves
  <1>1. ASSUME NEW p \in Handlers, WriteRole(p) PROVE RoleMoves
    BY <1>1 DEF WriteRole, Return, At, Writes, RoleMoves, TypeOK
  <1>2. ASSUME NEW p \in Handlers, WriteDelete(p) PROVE RoleMoves
    BY <1>2 DEF WriteDelete, Return, At, RoleMoves, TypeOK
  <1>3. ASSUME Purge PROVE RoleMoves
    BY <1>3 DEF Purge, RoleMoves
  <1>4. ASSUME NEW p \in Handlers, Accept(p) PROVE RoleMoves
    <2> DEFINE i == request[p].invite
    <2>1. i \in Invites
      BY <1>4, JoinWork DEF Accept, TypeOK
    <2>2. CASE Acceptable(i) /\ role[invites[i].to] = "none" /\ lock = Free
                 /\ role' = [role EXCEPT ![invites[i].to] = invites[i].as]
      <3>1. invites[i].to \in Users /\ invites[i].as \in Roles
        BY <2>1, <2>2 DEF Acceptable, Pending, NoInvite, InviteRow, TypeOK
      <3>2. phase' = phase
        BY <1>4 DEF Accept
      <3>3. QED
        BY <2>2, <3>1, <3>2 DEF Joins, RoleMoves
    <2>3. CASE role' = role
      BY <1>4, <2>3 DEF Accept, RoleMoves
    <2>4. CASE Acceptable(i) /\ role[invites[i].to] # "none"
      <3>1. role' = role
        BY <1>4, <2>4 DEF Accept, TypeOK
      <3>2. QED
        BY <2>3, <3>1
    <2>5. QED
      BY <1>4, <2>2, <2>3, <2>4 DEF Accept
  <1>5. CASE UNCHANGED <<role, phase>>
    BY <1>5 DEF RoleMoves
  <1>6. ASSUME NEW p \in Handlers,
               \/ Begin(p) \/ TakeLock(p) \/ Check(p) \/ UpsertInvite(p)
               \/ RevokeInvite(p) \/ InsertLink(p) \/ RevokeLink(p) \/ Crash(p)
        PROVE  RoleMoves
    BY <1>5, <1>6 DEF Begin, BeginChange, BeginRemove, BeginDelete, BeginInvite,
                      BeginRevokeInvite, BeginAccept, BeginLink, BeginRevokeLink,
                      TakeLock, Check, UpsertInvite, RevokeInvite, InsertLink, RevokeLink,
                      Crash
  <1>7. ASSUME NEW i \in Invites, ExpireInvite(i) PROVE RoleMoves
    BY <1>5, <1>7 DEF ExpireInvite
  <1>8. CASE UNCHANGED vars
    BY <1>5, <1>8 DEF vars
  <1>9. QED
    BY <1>1, <1>2, <1>3, <1>4, <1>6, <1>7, <1>8 DEF Next, Continue

\* A handler comes to "write" through Check alone, and stays there with the
\* request it was checked for.
LEMMA WriteReached ==
    ASSUME TypeOK, [Next]_vars, NEW p \in Handlers, pc'[p] = "write",
           request'[p].op \in {"change", "remove"}
    PROVE  /\ request'[p] = request[p]
           /\ pc[p] # "write" => MayChange(request[p].user, request[p].as) /\ role' = role
  <1> DEFINE Goal == /\ request'[p] = request[p]
                     /\ pc[p] # "write" => MayChange(request[p].user, request[p].as)
                                             /\ role' = role
  <1>1. ASSUME NEW q \in Handlers, Begin(q) PROVE Goal
    BY <1>1 DEF Begin, BeginChange, BeginRemove, BeginDelete, BeginInvite, BeginRevokeInvite,
                BeginAccept, BeginLink, BeginRevokeLink, Start, TypeOK
  <1>2. ASSUME NEW q \in Handlers, TakeLock(q) PROVE Goal
    BY <1>2 DEF TakeLock, GoTo, TypeOK
  <1>3. ASSUME NEW q \in Handlers, Check(q) PROVE Goal
    BY <1>3 DEF Check, GoTo, Return, TypeOK
  <1>4. ASSUME NEW q \in Handlers, Return(q) PROVE Goal
    BY <1>4 DEF Return, TypeOK
  <1>5. CASE UNCHANGED <<request, pc>>
    BY <1>5
  <1>6. QED
    BY <1>1, <1>2, <1>3, <1>4, <1>5
       DEF Next, Continue, WriteRole, WriteDelete, UpsertInvite, RevokeInvite, Accept,
           InsertLink, RevokeLink, Crash, ExpireInvite, Purge, vars

LEMMA DecisionStep ==
    ASSUME TypeOK, DecisionInv, [Next]_vars
    PROVE  DecisionInv'
  <1> SUFFICES ASSUME NEW p \in Handlers, pc'[p] = "write",
                      request'[p].op \in {"change", "remove"}
               PROVE  MayChange(request[p].user, request[p].as)'
    BY DEF DecisionInv, At
  <1>1. request'[p] = request[p]
    BY WriteReached
  <1>2. MayChange(request[p].user, request[p].as) /\ role' = role
    <2>1. CASE pc[p] # "write"
      BY <2>1, WriteReached
    <2>2. CASE pc[p] = "write"
      <3>1. MayChange(request[p].user, request[p].as)
        BY <2>2, <1>1 DEF DecisionInv, At
      <3>2. lock = p
        BY <2>2 DEF TypeOK
      <3>3. \A q \in Handlers : pc[q] = "write" => q = p
        BY <3>2 DEF TypeOK
      <3>4. role' = role
        BY <3>2, <3>3, RolesMove DEF RoleMoves
      <3>5. QED
        BY <3>1, <3>4
    <2>3. QED
      BY <2>1, <2>2
  <1>3. QED
    BY <1>1, <1>2 DEF MayChange, Owners

LEMMA OwnerStep ==
    ASSUME TypeOK, DecisionInv, AlwaysAnOwner, [Next]_vars
    PROVE  AlwaysAnOwner'
  <1> SUFFICES ASSUME phase' = "live" PROVE \E v \in Users : role'[v] = "OWNER"
    BY DEF AlwaysAnOwner, Owners
  <1>1. CASE role' = role /\ phase' = phase
    BY <1>1 DEF AlwaysAnOwner, Owners
  <1>2. CASE Joins
    <2>1. PICK v \in Users : role[v] = "OWNER"
      BY <1>2 DEF Joins, AlwaysAnOwner, Owners
    <2>2. role'[v] = "OWNER"
      BY <1>2, <2>1 DEF Joins, TypeOK
    <2>3. QED
      BY <2>2
  <1>3. ASSUME NEW p \in Handlers, Writes(p) PROVE \E v \in Users : role'[v] = "OWNER"
    <2> DEFINE u == request[p].user
    <2>1. MayChange(u, request[p].as)
      BY <1>3 DEF Writes, DecisionInv
    <2>2. PICK v \in Users : role[v] = "OWNER"
      BY <1>3 DEF Writes, AlwaysAnOwner, Owners
    <2>3. CASE role[u] = "OWNER"
      <3>1. PICK w \in Users : role[w] = "OWNER" /\ w # u
        BY <2>1, <2>3 DEF MayChange, Owners
      <3>2. QED
        BY <1>3, <3>1 DEF Writes, TypeOK
    <2>4. CASE role[u] # "OWNER"
      BY <1>3, <2>2, <2>4 DEF Writes, TypeOK
    <2>5. QED
      BY <2>3, <2>4
  <1>4. QED
    BY <1>1, <1>2, <1>3, RolesMove DEF RoleMoves

LEMMA InvariantHolds == Safety => []IInv
  <1>1. Init => IInv
    BY DEF Init, IInv, DecisionInv, AlwaysAnOwner, Owners, At
  <1>2. TypeOK /\ IInv /\ [Next]_vars => IInv'
    BY DecisionStep, OwnerStep DEF IInv
  <1>3. QED
    BY <1>1, <1>2, TypeCorrect, PTL DEF Safety

\* A workspace that is not deleted always has an owner.
THEOREM OwnerRemains == Safety => []AlwaysAnOwner
  <1>1. Init => IInv
    BY DEF Init, IInv, DecisionInv, AlwaysAnOwner, Owners, At
  <1>2. TypeOK /\ IInv /\ [Next]_vars => IInv'
    BY DecisionStep, OwnerStep DEF IInv
  <1>3. IInv => AlwaysAnOwner
    BY DEF IInv
  <1>4. QED
    BY <1>1, <1>2, <1>3, TypeCorrect, PTL DEF Safety

-----------------------------------------------------------------------------
(***************************************************************************)
(* What one step may do to a role, and to the links that hang on it.       *)
(***************************************************************************)

LEMMA RulesHold ==
    ASSUME TypeOK, IInv, [Next]_vars
    PROVE  Rules
  <1>1. CASE role' = role
    BY <1>1 DEF Rules, JoinRule, KeepRule, LossRule
  <1>2. ASSUME NEW p \in Handlers, Accept(p) PROVE Rules
    <2> DEFINE i == request[p].invite
    <2>1. i \in Invites
      BY <1>2, JoinWork DEF Accept, TypeOK
    <2>2. CASE Acceptable(i) /\ invites' = [invites EXCEPT ![i].state = "accepted"]
                 /\ role' = [role EXCEPT ![invites[i].to] =
                                IF @ = "none" THEN invites[i].as ELSE @]
      <3>1. invites[i].to \in Users /\ invites[i] \in InviteRow
        BY <2>1, <2>2 DEF Acceptable, Pending, NoInvite, InviteRow, TypeOK
      <3>2. \A u \in Users : u # invites[i].to \/ role[u] # "none" => role'[u] = role[u]
        BY <2>2 DEF TypeOK
      <3>3. invites'[i].state = "accepted"
        BY <2>1, <2>2, <3>1 DEF TypeOK, InviteRow
      <3>4. \A u \in Users : JoinRule(u) /\ KeepRule(u)
        BY <2>1, <2>2, <3>1, <3>2, <3>3 DEF JoinRule, KeepRule, TypeOK
      <3>5. \A l \in Links : LossRule(l)
        <4> SUFFICES ASSUME NEW l \in Links, Live(l), role[links[l].by] \in Contributors
                     PROVE  role'[links[l].by] \in Contributors
          BY DEF LossRule
        <4>1. links[l].by \in Users
          BY DEF Live, TypeOK, LinkRow, NoLink
        <4>2. QED
          BY <4>1, <3>2 DEF Contributors
      <3>6. QED
        BY <3>4, <3>5 DEF Rules
    <2>3. QED
      BY <1>1, <1>2, <2>2 DEF Accept
  <1>3. ASSUME NEW p \in Handlers, WriteRole(p) PROVE Rules
    <2> DEFINE u == request[p].user
    <2>1. /\ u \in Users
          /\ lock = p
          /\ MayChange(u, request[p].as)
          /\ request[p].op = "change" \/ request[p].as = "none"
      BY <1>3, LockedWork DEF WriteRole, At, IInv, DecisionInv, TypeOK, Locked, Change, Remove
    <2>2. role' = [role EXCEPT ![u] = request[p].as]
      BY <1>3 DEF WriteRole
    <2>3. \A v \in Users : JoinRule(v) /\ KeepRule(v)
      BY <2>1, <2>2 DEF JoinRule, KeepRule, MayChange, TypeOK
    <2>4. \A l \in Links : LossRule(l)
      <3> SUFFICES ASSUME NEW l \in Links, Live(l), role[links[l].by] \in Contributors,
                          role'[links[l].by] \notin Contributors
                   PROVE  ~ Live(l)'
        BY DEF LossRule, Opens
      <3>1. links[l].by \in Users /\ links[l] \in LinkRow
        BY DEF Live, TypeOK, LinkRow, NoLink
      <3>2. links[l].by = u /\ request[p].as \notin Contributors
        BY <2>1, <2>2, <3>1 DEF TypeOK
      <3>3. links'[l] = [links[l] EXCEPT !.state = "gone"]
        BY <1>3, <3>2 DEF WriteRole, RevokeAmong, MadeBy
      <3>4. QED
        BY <3>1, <3>3 DEF Live, LinkRow
    <2>5. QED
      BY <2>3, <2>4 DEF Rules
  <1>4. ASSUME NEW p \in Handlers, WriteDelete(p) PROVE Rules
    <2>1. phase' # "live" /\ role' = [u \in Users |-> "none"]
      BY <1>4 DEF WriteDelete
    <2>2. \A l \in Links : Live(l) /\ KindOf[l] = "share" => ~ Live(l)'
      BY <1>4 DEF WriteDelete, RevokeAmong, MadeBy, Live, TypeOK, LinkRow, NoLink
    <2>3. \A l \in Links : LossRule(l)
      BY <2>1, <2>2 DEF LossRule, Opens
    <2>4. QED
      BY <2>1, <2>3 DEF Rules, JoinRule, KeepRule
  <1>5. ASSUME Purge PROVE Rules
    <2>1. phase' # "live" /\ role' = [u \in Users |-> "none"]
      BY <1>5 DEF Purge
    <2>2. \A l \in Links : Live(l) => ~ Live(l)'
      BY <1>5 DEF Purge, RevokeAmong, MadeBy, Live, TypeOK, LinkRow, NoLink
    <2>3. \A l \in Links : LossRule(l)
      BY <2>1, <2>2 DEF LossRule, Opens
    <2>4. QED
      BY <2>1, <2>3 DEF Rules, JoinRule, KeepRule
  <1>6. ASSUME NEW p \in Handlers,
               \/ Begin(p) \/ TakeLock(p) \/ Check(p) \/ UpsertInvite(p)
               \/ RevokeInvite(p) \/ InsertLink(p) \/ RevokeLink(p) \/ Crash(p)
        PROVE  role' = role
    BY <1>6 DEF Begin, BeginChange, BeginRemove, BeginDelete, BeginInvite,
                BeginRevokeInvite, BeginAccept, BeginLink, BeginRevokeLink,
                TakeLock, Check, UpsertInvite, RevokeInvite, InsertLink, RevokeLink, Crash
  <1>7. ASSUME NEW i \in Invites, ExpireInvite(i) PROVE role' = role
    BY <1>7 DEF ExpireInvite
  <1>8. CASE UNCHANGED vars
    BY <1>1, <1>8 DEF vars
  <1>9. QED
    BY <1>1, <1>2, <1>3, <1>4, <1>5, <1>6, <1>7, <1>8 DEF Next, Continue

\* No step lets anybody in without an invitation, changes a role but by
\* changeRole, or takes a role and leaves the links made with it.
THEOREM AccessStepsHold == Safety => AccessSteps
  <1>1. TypeOK /\ IInv /\ [Next]_vars => [Rules]_vars
    BY RulesHold
  <1>2. QED
    BY <1>1, TypeCorrect, InvariantHolds, PTL DEF Safety, AccessSteps

-----------------------------------------------------------------------------
(***************************************************************************)
(* The slots of ZipArchives: s4 is request, s5 is inUse.                   *)
(***************************************************************************)

Slotted == {"slot", "planned", "recorded", "sending", "unheard"}

Kept == {r \in Requests : s4[r].step \in Slotted}

\* A request that has a slot has not released it; one that answers with an error
\* has, and releases it again.
SlotInv ==
    /\ DOMAIN s4 = Requests
    /\ \A r \in Requests : {"step", "released"} \subseteq DOMAIN s4[r]
    /\ \A r \in Requests : s4[r].step \in Slotted => s4[r].released = FALSE
    /\ \A r \in Requests : s4[r].step = "answering" => s4[r].released = TRUE
    /\ s5 = Cardinality(Kept) /\ s5 <= Capacity

\* What a step does to one request, by the slots it takes or gives back.
Takes(r) == /\ s4[r].step = "idle" /\ s5 < Capacity
            /\ s4'[r].step = "slot" /\ s4'[r].released = FALSE
            /\ s5' = s5 + 1

Keeps(r) == /\ s4[r].step \in Slotted /\ s4'[r].step \in Slotted
            /\ s4'[r].released = s4[r].released
            /\ s5' = s5

Gives(r) == /\ s4[r].step \in Slotted /\ s4'[r].step \notin Slotted
            /\ s4'[r].released = TRUE
            /\ s5' = s5 - 1

Rests(r) == /\ s4[r].step \in {"idle", "answering"}
            /\ s4'[r].step \in {"refused", "failed"}
            /\ s5' = s5

Others(r) ==
    /\ DOMAIN s4' = Requests
    /\ {"step", "released"} \subseteq DOMAIN s4'[r]
    /\ \A q \in Requests \ {r} : s4'[q] = s4[q]

Serves(r) == Others(r) /\ (Takes(r) \/ Keeps(r) \/ Gives(r) \/ Rests(r))

\* Close releases a slot once, however often it is called.
LEMMA CloseEffect ==
    ASSUME SlotInv, NEW r \in Requests, NEW what, NEW step, Archives!Close(r, what, step),
           DOMAIN what = DOMAIN s4[r], what.released = s4[r].released, what.step = s4[r].step
    PROVE  /\ Others(r) /\ s4'[r].step = step /\ s4'[r].released = TRUE
           /\ s4[r].released = TRUE => s5' = s5
           /\ s4[r].released = FALSE => s5' = s5 - 1
  <1>1. /\ s4' = [s4 EXCEPT ![r] = [Archives!Released(what) EXCEPT !.step = step, !.chosen = {}]]
        /\ s5' = IF what.released THEN s5 ELSE s5 - 1
    BY DEF Archives!Close, Archives!InUseWithout
  <1>2. {"step", "released"} \subseteq DOMAIN what /\ DOMAIN s4 = Requests
    BY DEF SlotInv
  <1> DEFINE row == [Archives!Released(what) EXCEPT !.step = step, !.chosen = {}]
  <1>3. row.step = step /\ row.released = TRUE /\ {"step", "released"} \subseteq DOMAIN row
    BY <1>2, Zenon DEF Archives!Released
  <1>4. s4'[r] = row /\ DOMAIN s4' = Requests /\ \A q \in Requests \ {r} : s4'[q] = s4[q]
    BY <1>1, <1>2
  <1> HIDE DEF row
  <1>5. QED
    BY <1>1, <1>3, <1>4 DEF Others

LEMMA SlotsCounted == SlotInv => s5 \in Nat
  <1>1. Kept \subseteq Requests
    BY DEF Kept
  <1>2. QED
    BY <1>1, ArchivesAssumption, FS_Subset, FS_CardinalityType DEF SlotInv

LEMMA SlotsServed ==
    ASSUME SlotInv, NEW r \in Requests,
           \/ \E chosen : Archives!Ask(r, chosen)
           \/ Archives!Plan(r) \/ Archives!Record(r) \/ Archives!RecordFails(r)
           \/ Archives!Open(r) \/ Archives!OpenFails(r) \/ Archives!ErrorSent(r)
           \/ Archives!Send(r) \/ Archives!Finish(r) \/ Archives!ClientLeaves(r)
    PROVE  Serves(r)
  <1>1. /\ DOMAIN s4 = Requests /\ {"step", "released"} \subseteq DOMAIN s4[r]
        /\ s4[r].step \in Slotted => s4[r].released = FALSE
        /\ s4[r].step = "answering" => s4[r].released = TRUE
    BY DEF SlotInv
  <1>2. ASSUME NEW step, NEW what, Archives!Close(r, what, step), step \notin Slotted,
               DOMAIN what = DOMAIN s4[r], what.released = s4[r].released,
               what.step = s4[r].step, s4[r].step \in Slotted
        PROVE  Serves(r)
    BY <1>1, <1>2, CloseEffect DEF Serves, Gives
  <1>3. ASSUME NEW step, Archives!Close(r, s4[r], step), step \notin Slotted,
               s4[r].step \in Slotted
        PROVE  Serves(r)
    BY <1>2, <1>3
  <1>4. ASSUME NEW row, s4' = [s4 EXCEPT ![r] = row], s5' = s5, s4[r].step \in Slotted,
               {"step", "released"} \subseteq DOMAIN row,
               row.step \in Slotted, row.released = s4[r].released
        PROVE  Serves(r)
    BY <1>1, <1>4 DEF Serves, Others, Keeps
  <1>5. ASSUME NEW chosen, Archives!Ask(r, chosen) PROVE Serves(r)
    <2>1. CASE s5 >= Capacity
      <3>1. s4' = [s4 EXCEPT ![r].step = "refused"] /\ s5' = s5 /\ s4[r].step = "idle"
        BY <1>5, <2>1 DEF Archives!Ask
      <3>2. s4'[r].step = "refused" /\ Others(r)
        BY <1>1, <3>1 DEF Others
      <3>3. QED
        BY <3>1, <3>2 DEF Serves, Rests
    <2>2. CASE ~ (s5 >= Capacity)
      <3>1. /\ s4' = [s4 EXCEPT ![r] = [Archives!Fresh EXCEPT !.step = "slot", !.chosen = chosen]]
            /\ s5' = s5 + 1 /\ s4[r].step = "idle"
        BY <1>5, <2>2 DEF Archives!Ask
      <3>2. /\ s4'[r].step = "slot" /\ s4'[r].released = FALSE
            /\ {"step", "released"} \subseteq DOMAIN s4'[r]
        BY <1>1, <3>1 DEF Archives!Fresh
      <3>3. Others(r)
        BY <1>1, <3>1, <3>2 DEF Others
      <3>4. s5 < Capacity
        BY <2>2, SlotsCounted, ArchivesAssumption
      <3>5. QED
        BY <3>1, <3>2, <3>3, <3>4 DEF Serves, Takes
    <2>3. QED
      BY <2>1, <2>2
  <1>6. CASE Archives!Plan(r)
    <2>1. CASE Archives!Close(r, s4[r], "refused")
      BY <1>3, <1>6, <2>1 DEF Archives!Plan, Slotted
    <2>2. CASE \E rows, plan, skipped :
                  /\ s4' = [s4 EXCEPT ![r].step = "planned", ![r].rows = rows,
                                      ![r].plan = plan, ![r].skipped = skipped]
                  /\ s5' = s5
      <3>1. PICK rows, plan, skipped :
                /\ s4' = [s4 EXCEPT ![r].step = "planned", ![r].rows = rows,
                                    ![r].plan = plan, ![r].skipped = skipped]
                /\ s5' = s5
        BY <2>2
      <3>2. /\ s4'[r].step = "planned" /\ s4'[r].released = s4[r].released /\ Others(r)
        BY <1>1, <3>1 DEF Others
      <3>3. QED
        BY <1>6, <3>1, <3>2 DEF Serves, Keeps, Slotted, Archives!Plan
    <2>3. QED
      BY <1>6, <2>1, <2>2, Zenon DEF Archives!Plan
  <1>7. CASE Archives!Record(r)
    <2>1. s4' = [s4 EXCEPT ![r].step = "recorded"] /\ s5' = s5 /\ s4[r].step = "planned"
      BY <1>7 DEF Archives!Record, Archives!table
    <2>2. s4'[r].step = "recorded" /\ s4'[r].released = s4[r].released /\ Others(r)
      BY <1>1, <2>1 DEF Others
    <2>3. QED
      BY <2>1, <2>2 DEF Serves, Keeps, Slotted
  <1>8. CASE Archives!RecordFails(r)
    BY <1>3, <1>8 DEF Archives!RecordFails, Slotted
  <1>9. CASE Archives!Open(r)
    <2>1. PICK step \in {"sending", "unheard"} : s4' = [s4 EXCEPT ![r].step = step]
      BY <1>9 DEF Archives!Open
    <2>2. s4'[r].step = step /\ s4'[r].released = s4[r].released /\ Others(r)
      BY <1>1, <2>1 DEF Others
    <2>3. QED
      BY <1>9, <2>2 DEF Serves, Keeps, Slotted, Archives!Open
  <1>10. CASE Archives!OpenFails(r)
    <2>1. PICK step \in {"answering", "failed"} : Archives!Close(r, s4[r], step)
      BY <1>10 DEF Archives!OpenFails
    <2>2. QED
      BY <1>3, <1>10, <2>1 DEF Archives!OpenFails, Slotted
  <1>11. CASE Archives!ErrorSent(r)
    <2>1. Archives!Close(r, s4[r], "failed") /\ s4[r].step = "answering"
      BY <1>11 DEF Archives!ErrorSent
    <2>2. Others(r) /\ s4'[r].step = "failed" /\ s5' = s5
      BY <1>1, <2>1, CloseEffect
    <2>3. QED
      BY <2>1, <2>2 DEF Serves, Rests
  <1>12. CASE Archives!Send(r)
    <2>1. CASE Archives!Close(r, s4[r], "broken")
      BY <1>3, <1>12, <2>1 DEF Archives!Send, Slotted
    <2>2. CASE \E sent : s4' = [s4 EXCEPT ![r].sent = sent] /\ s5' = s5
      <3>1. PICK sent : s4' = [s4 EXCEPT ![r].sent = sent] /\ s5' = s5
        BY <2>2
      <3>2. s4'[r].step = s4[r].step /\ s4'[r].released = s4[r].released /\ Others(r)
        BY <1>1, <3>1 DEF Others
      <3>3. QED
        BY <1>12, <3>1, <3>2 DEF Serves, Keeps, Slotted, Archives!Send
    <2>3. QED
      BY <1>12, <2>1, <2>2, Zenon DEF Archives!Send
  <1>13. CASE Archives!Finish(r)
    BY <1>3, <1>13 DEF Archives!Finish, Slotted
  <1>14. CASE Archives!ClientLeaves(r)
    <2> DEFINE left == [s4[r] EXCEPT !.connected = FALSE]
    <2>1. /\ DOMAIN left = DOMAIN s4[r] /\ left.released = s4[r].released
          /\ left.step = s4[r].step
      BY <1>1
    <2>2. \/ /\ s4[r].step \in {"slot", "planned", "recorded"}
             /\ s4' = [s4 EXCEPT ![r] = left] /\ s5' = s5
          \/ s4[r].step = "sending" /\ Archives!Close(r, left, "broken")
      BY <1>14 DEF Archives!ClientLeaves
    <2> HIDE DEF left
    <2>3. QED
      BY <1>1, <1>2, <1>4, <2>1, <2>2 DEF Slotted
  <1>15. QED
    BY <1>5, <1>6, <1>7, <1>8, <1>9, <1>10, <1>11, <1>12, <1>13, <1>14

LEMMA SlotStep ==
    ASSUME SlotInv, NEW r \in Requests, Serves(r)
    PROVE  SlotInv'
  <1>1. /\ Kept \in SUBSET Requests /\ IsFiniteSet(Kept)
        /\ Cardinality(Kept) \in Nat /\ s5 = Cardinality(Kept) /\ s5 <= Capacity
    <2>1. Kept \subseteq Requests
      BY DEF Kept
    <2>2. IsFiniteSet(Kept)
      BY <2>1, ArchivesAssumption, FS_Subset
    <2>3. QED
      BY <2>1, <2>2, FS_CardinalityType DEF SlotInv
  <1>2. Others(r) /\ DOMAIN s4 = Requests
    BY DEF Serves, SlotInv
  <1>3. CASE Takes(r)
    <2>1. r \notin Kept
      BY <1>3 DEF Kept, Takes, Slotted
    <2>2. Kept' = Kept \cup {r}
      BY <1>2, <1>3 DEF Kept, Takes, Slotted, Others
    <2>3. Cardinality(Kept') = Cardinality(Kept) + 1
      BY <1>1, <2>1, <2>2, FS_AddElement
    <2>4. s5' = Cardinality(Kept') /\ s5' <= Capacity
      BY <1>1, <1>3, <2>3, ArchivesAssumption DEF Takes
    <2>5. QED
      BY <1>2, <1>3, <2>4 DEF SlotInv, Others, Takes, Slotted
  <1>4. CASE Keeps(r)
    <2>1. Kept' = Kept
      BY <1>2, <1>4 DEF Kept, Keeps, Others
    <2>2. QED
      BY <1>2, <1>4, <2>1 DEF SlotInv, Others, Keeps, Slotted
  <1>5. CASE Gives(r)
    <2>1. r \in Kept
      BY <1>5 DEF Kept, Gives
    <2>2. Kept' = Kept \ {r}
      BY <1>2, <1>5 DEF Kept, Gives, Others
    <2>3. Cardinality(Kept') = Cardinality(Kept) - 1
      BY <1>1, <2>1, <2>2, FS_RemoveElement
    <2>4. s5' = Cardinality(Kept') /\ s5' <= Capacity
      BY <1>1, <1>5, <2>3, ArchivesAssumption DEF Gives
    <2>5. QED
      BY <1>2, <1>5, <2>4 DEF SlotInv, Others, Gives
  <1>6. CASE Rests(r)
    <2>1. Kept' = Kept
      BY <1>2, <1>6 DEF Kept, Rests, Others, Slotted
    <2>2. QED
      BY <1>2, <1>6, <2>1 DEF SlotInv, Others, Rests, Slotted
  <1>7. QED
    BY <1>3, <1>4, <1>5, <1>6 DEF Serves

\* An instance has a Cardinality of its own, defined alike.
LEMMA SameCount == \A S : /\ Archives!Cardinality(S) = Cardinality(S)
                         /\ Upkeep!Cardinality(S) = Cardinality(S)
  BY DEF Archives!Cardinality, Upkeep!Cardinality, Cardinality

\* The slots that are taken are those of the requests that are served, and of the
\* few whose client left before the response was listened to: createSlots gives
\* back each slot once, whichever of its callers comes first.
THEOREM SlotsHold == PartsSpec => []SlotsExact
  <1> DEFINE Inv == about = "archives" => SlotInv
  <1>1. PartsInit => Inv
    <2> SUFFICES ASSUME PartsInit, about = "archives" PROVE SlotInv
      OBVIOUS
    <2>1. s4 = [r \in Requests |-> Archives!Fresh] /\ s5 = 0
      BY DEF PartsInit, Archives!Init
    <2>2. \A r \in Requests : s4[r].step = "idle" /\ {"step", "released"} \subseteq DOMAIN s4[r]
      BY <2>1 DEF Archives!Fresh
    <2>3. Kept = {}
      BY <2>2 DEF Kept, Slotted
    <2>4. QED
      BY <2>1, <2>2, <2>3, FS_EmptySet, ArchivesAssumption DEF SlotInv, Slotted
  <1>2. Inv /\ [PartsNext]_<<about, vars, state>> => Inv'
    <2> SUFFICES ASSUME Inv, [PartsNext]_<<about, vars, state>>, about' = "archives"
                 PROVE  SlotInv'
      OBVIOUS
    <2>1. about = "archives" /\ SlotInv
      BY DEF PartsNext
    <2>2. CASE UNCHANGED <<s4, s5>>
      BY <2>1, <2>2 DEF SlotInv, Kept
    <2>3. CASE Archives!Next
      <3>1. ASSUME NEW d \in Docs,
                   \/ Archives!Trash(d) \/ Archives!Restore(d) \/ Archives!Purge(d)
                   \/ Archives!NewVersion(d) \/ Archives!RemoveVersion(d) \/ Archives!Judge(d)
            PROVE  UNCHANGED <<s4, s5>>
        BY <3>1 DEF Archives!Trash, Archives!Restore, Archives!Purge, Archives!NewVersion,
                    Archives!RemoveVersion, Archives!Judge, Archives!Changing
      <3>2. QED
        BY <2>1, <2>2, <2>3, <3>1, SlotsServed, SlotStep DEF Archives!Next
    <2>4. QED
      BY <2>1, <2>2, <2>3 DEF PartsNext, state
  <1>3. Inv => SlotsExact
    <2> SUFFICES ASSUME SlotInv PROVE Archives!SlotsExact
      BY DEF SlotsExact
    <2>1. /\ Kept = Archives!Holding \cup Archives!Unheard
          /\ Archives!Holding \cap Archives!Unheard = {}
      BY DEF Kept, Slotted, Archives!Holding, Archives!Unheard
    <2>2. IsFiniteSet(Archives!Holding) /\ IsFiniteSet(Archives!Unheard)
      BY ArchivesAssumption, FS_Subset DEF Archives!Holding, Archives!Unheard
    <2>3. Cardinality(Kept) = Cardinality(Archives!Holding) + Cardinality(Archives!Unheard)
      <3> DEFINE H == Archives!Holding
                 U == Archives!Unheard
      <3>1. /\ IsFiniteSet(H) /\ IsFiniteSet(U) /\ H \cap U = {} /\ Kept = H \cup U
        BY <2>1, <2>2
      <3> HIDE DEF H, U
      <3>2. Cardinality(H \cup U) = Cardinality(H) + Cardinality(U) - Cardinality(H \cap U)
        BY <3>1, FS_Union
      <3>3. Cardinality(H \cap U) = 0
        BY <3>1, FS_EmptySet
      <3>4. Cardinality(H) \in Nat /\ Cardinality(U) \in Nat
        BY <3>1, FS_CardinalityType
      <3>5. Cardinality(Kept) = Cardinality(H) + Cardinality(U)
        BY <3>1, <3>2, <3>3, <3>4
      <3>6. QED
        BY <3>5 DEF H, U
    <2>4. s5 = Cardinality(Kept) /\ s5 <= Capacity
      BY DEF SlotInv
    <2>5. QED
      BY <2>3, <2>4, SameCount DEF Archives!SlotsExact
  <1> HIDE DEF Inv
  <1>4. QED
    BY <1>1, <1>2, <1>3, PTL DEF PartsSpec

-----------------------------------------------------------------------------
(***************************************************************************)
(* The passes of Maintenance: s1 is pass, s2 is holder, s4 is broken.      *)
(***************************************************************************)

PassRow == [at : 0..(Steps + 1), tried : SUBSET (1..Steps), on : Connections \cup {None}]

Runs(i) == s1[i].at > 0

\* The lock is with the connection of the pass that runs, unless it is lost; and a
\* pass that has come to a step has tried those before it.
PassInv ==
    /\ s1 \in [Instances -> PassRow]
    /\ \A i \in Instances : Runs(i) => /\ s1[i].on \in Connections
                                       /\ s1[i].tried = 1..(s1[i].at - 1)
    /\ \A i \in Instances : ~ Runs(i) /\ s1[i] # Upkeep!NoPass => s1[i].tried = 1..Steps
    /\ \A i, j \in Instances : i # j /\ Runs(i) /\ Runs(j) => s1[i].on # s1[j].on
    /\ \A i \in Instances : Runs(i) /\ s1[i].on \notin s4 => s2 = s1[i].on

\* The row of one instance is replaced.
Sets(i, row) == /\ row \in PassRow
                /\ s1' = [s1 EXCEPT ![i] = row]
                /\ s4' = s4

LEMMA SetsRow ==
    ASSUME PassInv, NEW i \in Instances, NEW row, Sets(i, row)
    PROVE  /\ s1' \in [Instances -> PassRow] /\ s1'[i] = row
           /\ \A j \in Instances \ {i} : s1'[j] = s1[j]
  BY DEF PassInv, Sets

LEMMA StartStep ==
    ASSUME PassInv, NEW i \in Instances, Upkeep!Start(i)
    PROVE  PassInv'
  <1>1. PICK c \in Connections \ (Upkeep!InUse \cup s4) :
            IF s2 \in {None, c}
            THEN /\ s1' = [s1 EXCEPT ![i] = [at |-> 1, tried |-> {}, on |-> c]]
                 /\ s2' = c
            ELSE UNCHANGED <<s1, s2>>
    BY DEF Upkeep!Start
  <1>2. s4' = s4 /\ s1[i] = Upkeep!NoPass
    BY DEF Upkeep!Start
  <1>3. CASE UNCHANGED <<s1, s2>>
    BY <1>2, <1>3 DEF PassInv, Runs
  <1>4. CASE s2 \in {None, c} /\ ~ UNCHANGED <<s1, s2>>
    <2> DEFINE row == [at |-> 1, tried |-> {}, on |-> c]
    <2>1. row \in PassRow /\ row.at = 1 /\ row.tried = {} /\ row.on = c
      BY UpkeepAssumption DEF PassRow
    <2>2. s1' = [s1 EXCEPT ![i] = row] /\ s2' = c
      BY <1>1, <1>4
    <2> HIDE DEF row
    <2>3. Sets(i, row)
      BY <1>2, <2>1, <2>2 DEF Sets
    <2>4. /\ s1' \in [Instances -> PassRow] /\ s1'[i] = row
          /\ \A j \in Instances \ {i} : s1'[j] = s1[j]
      BY <2>3, SetsRow
    <2>5. \A j \in Instances : s1[j].on # c
      BY <1>1 DEF Upkeep!InUse
    <2>6. \A j \in Instances \ {i} : Runs(j) => s1[j].on \in s4
      BY <1>4, <2>5, UpkeepAssumption DEF PassInv
    <2>7. 1..(1 - 1) = {}
      OBVIOUS
    <2>8. \A j \in Instances : Runs(j)' => /\ s1'[j].on \in Connections
                                           /\ s1'[j].tried = 1..(s1'[j].at - 1)
      BY <2>1, <2>4, <2>7 DEF PassInv, Runs
    <2>9. \A j \in Instances : ~ Runs(j)' /\ s1'[j] # Upkeep!NoPass => s1'[j].tried = 1..Steps
      BY <2>1, <2>4 DEF PassInv, Runs
    <2>10. \A j, k \in Instances : j # k /\ Runs(j)' /\ Runs(k)' => s1'[j].on # s1'[k].on
      BY <2>1, <2>4, <2>5 DEF PassInv, Runs
    <2>11. \A j \in Instances : Runs(j)' /\ s1'[j].on \notin s4' => s2' = s1'[j].on
      BY <1>2, <2>1, <2>2, <2>4, <2>6 DEF Runs
    <2>12. QED
      BY <2>4, <2>8, <2>9, <2>10, <2>11 DEF PassInv, Runs
  <1>5. QED
    BY <1>1, <1>3, <1>4

LEMMA StepStep ==
    ASSUME PassInv, NEW i \in Instances, Upkeep!Step(i)
    PROVE  PassInv'
  <1> DEFINE row == [s1[i] EXCEPT !.at = s1[i].at + 1, !.tried = s1[i].tried \cup {s1[i].at}]
  <1>1. /\ s1[i].at \in 1..Steps /\ s2' = s2 /\ s4' = s4
        /\ s1' = [s1 EXCEPT ![i] = row]
    BY DEF Upkeep!Step
  <1>2. s1[i] \in PassRow
    BY DEF PassInv
  <1>3. row.at = s1[i].at + 1 /\ row.tried = s1[i].tried \cup {s1[i].at} /\ row.on = s1[i].on
    BY <1>2 DEF PassRow
  <1>4. row \in PassRow
    <2>1. s1[i].at + 1 \in 0..(Steps + 1)
      BY <1>1, UpkeepAssumption
    <2>2. s1[i].tried \cup {s1[i].at} \in SUBSET (1..Steps)
      BY <1>1, <1>2 DEF PassRow
    <2>3. QED
      BY <1>2, <2>1, <2>2 DEF PassRow
  <1> HIDE DEF row
  <1>5. Sets(i, row)
    BY <1>1, <1>4 DEF Sets
  <1>6. /\ s1' \in [Instances -> PassRow] /\ s1'[i] = row
        /\ \A j \in Instances \ {i} : s1'[j] = s1[j]
    BY <1>5, SetsRow
  <1>7. Runs(i) /\ Runs(i)'
    BY <1>1, <1>3, <1>6, UpkeepAssumption DEF Runs
  <1>8. row.tried = 1..(row.at - 1)
    <2>1. s1[i].tried = 1..(s1[i].at - 1) /\ s1[i].at \in Nat \ {0}
      BY <1>1, <1>7, UpkeepAssumption DEF PassInv
    <2>2. row.tried = (1..(s1[i].at - 1)) \cup {s1[i].at} /\ row.at - 1 = s1[i].at
      BY <1>3, <2>1
    <2>3. \A k : k \in (1..(s1[i].at - 1)) \cup {s1[i].at} <=> k \in 1..s1[i].at
      BY <2>1
    <2>4. QED
      BY <2>2, <2>3
  <1>9. QED
    BY <1>1, <1>3, <1>6, <1>7, <1>8 DEF PassInv, Runs

LEMMA EndStep ==
    ASSUME PassInv, NEW i \in Instances, Upkeep!End(i) \/ Upkeep!Forget(i)
    PROVE  PassInv'
  <1>1. CASE Upkeep!End(i)
    <2> DEFINE row == [Upkeep!NoPass EXCEPT !.tried = s1[i].tried]
    <2>1. /\ s1[i].at = Steps + 1 /\ s4' = s4
          /\ s1' = [s1 EXCEPT ![i] = row]
          /\ s2' = s2 \/ s2 = s1[i].on
      BY <1>1 DEF Upkeep!End, Upkeep!Released
    <2>2. s1[i] \in PassRow /\ Runs(i)
      BY <2>1, UpkeepAssumption DEF PassInv, Runs
    <2>3. row.at = 0 /\ row.tried = s1[i].tried /\ row \in PassRow
      BY <2>2, UpkeepAssumption DEF Upkeep!NoPass, PassRow
    <2>4. s1[i].tried = 1..Steps
      BY <2>1, <2>2, UpkeepAssumption DEF PassInv
    <2> HIDE DEF row
    <2>5. /\ s1' \in [Instances -> PassRow] /\ s1'[i] = row
          /\ \A j \in Instances \ {i} : s1'[j] = s1[j]
      BY <2>1, <2>3, SetsRow DEF Sets
    <2>6. \A j \in Instances \ {i} : Runs(j) /\ s1[j].on \notin s4 => s2' = s2
      BY <2>1, <2>2 DEF PassInv
    <2>7. QED
      BY <2>1, <2>3, <2>4, <2>5, <2>6 DEF PassInv, Runs
  <1>2. CASE Upkeep!Forget(i)
    <2>1. s1' = [s1 EXCEPT ![i] = Upkeep!NoPass] /\ s2' = s2 /\ s4' = s4
      BY <1>2 DEF Upkeep!Forget
    <2>2. Upkeep!NoPass \in PassRow /\ Upkeep!NoPass.at = 0
      BY UpkeepAssumption DEF Upkeep!NoPass, PassRow
    <2>3. /\ s1' \in [Instances -> PassRow] /\ s1'[i] = Upkeep!NoPass
          /\ \A j \in Instances \ {i} : s1'[j] = s1[j]
      BY <2>1, <2>2, SetsRow DEF Sets
    <2>4. QED
      BY <2>1, <2>2, <2>3 DEF PassInv, Runs
  <1>3. QED
    BY <1>1, <1>2

\* A connection is lost with its lock.
LEMMA LoseStep ==
    ASSUME PassInv, NEW c \in Connections, Upkeep!LoseConnection(c)
    PROVE  PassInv'
  <1>1. s1' = s1 /\ s4' = s4 \cup {c} /\ (s2' = s2 \/ s2 = c)
    BY DEF Upkeep!LoseConnection
  <1>2. QED
    BY <1>1 DEF PassInv, Runs

-----------------------------------------------------------------------------
(***************************************************************************)
(* The rate limit of Maintenance: s5 is counter, s6 is admitted, s7 is the *)
(* clock.                                                                  *)
(***************************************************************************)

AdmittedRow == [at : Nat, ends : Nat \ {0}, nth : Nat]

\* The requests that were let through in the window that ends then.
InWindow(e) == {b \in s6 : b.ends = e}

\* Every window is over but that of the counter, which counts what it let through.
WindowInv ==
    /\ s5 \in [count : Nat, ends : Nat] /\ s7 \in Nat \ {0} /\ s8 \in Nat
    /\ s6 \subseteq AdmittedRow /\ IsFiniteSet(s6)
    /\ \A a \in s6 : a.ends <= s7 \/ a.ends = s5.ends
    /\ \A a, b \in s6 : a.ends < b.ends => a.ends <= b.at
    /\ \A e \in Nat : Cardinality(InWindow(e)) <= Limit
    /\ Cardinality(InWindow(s5.ends)) <= s5.count

\* The sweep deletes the counter of a window that is over, or nothing.
LEMMA SweepStep ==
    ASSUME WindowInv, s5' \in {s5, Upkeep!Swept}, UNCHANGED <<s6, s7, s8>>
    PROVE  WindowInv'
  <1>1. CASE s5' = s5
    BY <1>1 DEF WindowInv, InWindow
  <1>2. CASE s5' # s5
    <2>1. s5' = [count |-> 0, ends |-> 0] /\ s5.ends < s7
      BY <1>2 DEF Upkeep!Swept, Upkeep!NoRow
    <2>2. InWindow(0) = {} /\ \A a \in s6 : a.ends <= s7
      BY <2>1 DEF WindowInv, InWindow, AdmittedRow
    <2>3. Cardinality(InWindow(0)) = 0
      BY <2>2, FS_EmptySet
    <2>4. /\ s5' \in [count : Nat, ends : Nat] /\ s5'.ends = 0 /\ s5'.count = 0
      BY <2>1
    <2>5. \A e : InWindow(e)' = InWindow(e)
      BY DEF InWindow
    <2>6. Cardinality(InWindow(s5.ends))' <= s5'.count
      <3>1. InWindow(s5.ends)' = {}
        BY <2>2, <2>4 DEF InWindow
      <3>2. QED
        BY <2>4, <3>1, FS_EmptySet
    <2>7. \A e \in Nat : Cardinality(InWindow(e))' <= Limit
      BY DEF WindowInv, InWindow
    <2>8. QED
      BY <2>2, <2>4, <2>6, <2>7 DEF WindowInv
  <1>3. QED
    BY <1>1, <1>2

LEMMA TickStep ==
    ASSUME WindowInv, Upkeep!Tick
    PROVE  WindowInv'
  <1>1. s7' = s7 + 1 /\ UNCHANGED <<s5, s6, s8>>
    BY DEF Upkeep!Tick, Upkeep!bounds
  <1>2. QED
    BY <1>1 DEF WindowInv, InWindow, AdmittedRow

LEMMA RequestStep ==
    ASSUME WindowInv, Upkeep!Request
    PROVE  WindowInv'
  <1>1. /\ s8' = s8 + 1 /\ s7' = s7 /\ s5' = Upkeep!Counted
        /\ s6' = IF s5'.count <= Limit
                 THEN s6 \cup {[at |-> s7, ends |-> s5'.ends, nth |-> s8]} ELSE s6
    BY DEF Upkeep!Request
  <1>2. /\ s5 \in [count : Nat, ends : Nat] /\ s7 \in Nat \ {0} /\ s8 \in Nat
        /\ s6 \subseteq AdmittedRow /\ IsFiniteSet(s6)
    BY DEF WindowInv
  <1>3. \A e : IsFiniteSet(InWindow(e)) /\ Cardinality(InWindow(e)) \in Nat
    <2>1. \A e : InWindow(e) \subseteq s6
      BY DEF InWindow
    <2>2. QED
      BY <1>2, <2>1, FS_Subset, FS_CardinalityType
  \* The row of the request, in a window that was empty or is counted.
  <1>4. PICK n \in Nat, e \in Nat \ {0} :
            /\ s5' = [count |-> n, ends |-> e] /\ n >= 1 /\ e > s7
            /\ Cardinality(InWindow(e)) <= n - 1
            /\ \A a \in s6 : a.ends <= s7 \/ a.ends = e
    <2>1. CASE s5.ends <= s7
      <3>1. s5' = [count |-> 1, ends |-> s7 + Window]
        BY <1>1, <2>1 DEF Upkeep!Counted
      <3>2. \A a \in s6 : a.ends <= s7
        BY <2>1 DEF WindowInv
      <3>3. InWindow(s7 + Window) = {}
        BY <1>2, <3>2, UpkeepAssumption DEF InWindow, AdmittedRow
      <3>4. Cardinality(InWindow(s7 + Window)) = 0
        BY <3>3, FS_EmptySet
      <3>5. s7 + Window \in Nat \ {0} /\ s7 + Window > s7
        BY <1>2, UpkeepAssumption
      <3>6. QED
        BY <3>1, <3>2, <3>4, <3>5
    <2>2. CASE ~ (s5.ends <= s7)
      <3>1. s5' = [count |-> s5.count + 1, ends |-> s5.ends]
        BY <1>1, <1>2, <2>2 DEF Upkeep!Counted
      <3>2. /\ s5.count \in Nat /\ s5.ends \in Nat \ {0} /\ s5.ends > s7
            /\ Cardinality(InWindow(s5.ends)) <= (s5.count + 1) - 1
        BY <1>2, <1>3, <2>2 DEF WindowInv
      <3>3. \A a \in s6 : a.ends <= s7 \/ a.ends = s5.ends
        BY DEF WindowInv
      <3>4. QED
        BY <3>1, <3>2, <3>3
    <2>3. QED
      BY <2>1, <2>2
  <1> DEFINE new == [at |-> s7, ends |-> e, nth |-> s8]
  <1>5. new \in AdmittedRow /\ new.at = s7 /\ new.ends = e
    BY <1>2 DEF AdmittedRow
  <1>6. s5'.count = n /\ s5'.ends = e
    BY <1>4
  <1>7. s6' = IF n <= Limit THEN s6 \cup {new} ELSE s6
    BY <1>1, <1>6
  <1> HIDE DEF new
  <1>8. CASE n <= Limit
    <2>1. s6' = s6 \cup {new}
      BY <1>7, <1>8
    <2>2. IsFiniteSet(s6') /\ s6' \subseteq AdmittedRow
      BY <1>2, <1>5, <2>1, FS_AddElement
    <2>3. \A k \in Nat : Cardinality({b \in s6' : b.ends = k})
                           <= IF k = e THEN n ELSE Limit
      <3> SUFFICES ASSUME NEW k \in Nat
                   PROVE  Cardinality({b \in s6' : b.ends = k}) <= IF k = e THEN n ELSE Limit
        OBVIOUS
      <3>1. CASE k = e
        <4>1. {b \in s6' : b.ends = k} = InWindow(e) \cup {new}
          BY <1>5, <2>1, <3>1 DEF InWindow
        <4>2. IsFiniteSet(InWindow(e)) /\ Cardinality(InWindow(e)) \in Nat
          BY <1>3
        <4>3. \/ Cardinality(InWindow(e) \cup {new}) = Cardinality(InWindow(e))
              \/ Cardinality(InWindow(e) \cup {new}) = Cardinality(InWindow(e)) + 1
          BY <4>2, FS_AddElement
        <4>4. Cardinality(InWindow(e)) <= n - 1
          BY <1>4
        <4>5. Cardinality(InWindow(e) \cup {new}) <= n
          BY <4>2, <4>3, <4>4
        <4>6. QED
          BY <3>1, <4>1, <4>5
      <3>2. CASE k # e
        <4>1. {b \in s6' : b.ends = k} = InWindow(k)
          BY <1>5, <2>1, <3>2 DEF InWindow
        <4>2. QED
          BY <3>2, <4>1 DEF WindowInv
      <3>3. QED
        BY <3>1, <3>2
    <2>4. \A k \in Nat : Cardinality(InWindow(k))' <= Limit
      BY <1>4, <1>8, <2>3, UpkeepAssumption DEF InWindow
    <2>5. Cardinality(InWindow(s5.ends))' <= s5'.count
      BY <1>4, <1>6, <2>3 DEF InWindow
    <2>6. \A a \in s6' : a.ends <= s7' \/ a.ends = s5'.ends
      BY <1>1, <1>4, <1>5, <1>6, <2>1
    <2>7. \A a, b \in s6' : a.ends < b.ends => a.ends <= b.at
      <3> SUFFICES ASSUME NEW a \in s6', NEW b \in s6', a.ends < b.ends PROVE a.ends <= b.at
        OBVIOUS
      <3>1. CASE a \in s6 /\ b \in s6
        BY <3>1 DEF WindowInv
      <3>2. CASE b = new
        BY <1>2, <1>4, <1>5, <2>1, <3>2 DEF AdmittedRow
      <3>3. CASE a = new /\ b \in s6
        BY <1>2, <1>4, <1>5, <3>3 DEF AdmittedRow
      <3>4. QED
        BY <2>1, <3>1, <3>2, <3>3
    <2>8. s5' \in [count : Nat, ends : Nat]
      BY <1>4
    <2>9. s7' \in Nat \ {0} /\ s8' \in Nat
      BY <1>1, <1>2
    <2>10. QED
      BY <2>2, <2>4, <2>5, <2>6, <2>7, <2>8, <2>9, Zenon DEF WindowInv
  <1>9. CASE ~ (n <= Limit)
    <2>1. s6' = s6
      BY <1>7, <1>9
    <2>2. \A k \in Nat : Cardinality(InWindow(k))' <= Limit
      BY <2>1 DEF WindowInv, InWindow
    <2>3. Cardinality(InWindow(s5.ends))' <= s5'.count
      <3>1. InWindow(s5.ends)' = InWindow(e)
        BY <1>6, <2>1 DEF InWindow
      <3>2. QED
        BY <1>3, <1>4, <1>6, <3>1
    <2>4. \A a \in s6' : a.ends <= s7' \/ a.ends = s5'.ends
      BY <1>1, <1>4, <1>6, <2>1
    <2>5. s5' \in [count : Nat, ends : Nat]
      BY <1>4
    <2>6. \A a, b \in s6' : a.ends < b.ends => a.ends <= b.at
      BY <2>1 DEF WindowInv
    <2>7. s7' \in Nat \ {0} /\ s8' \in Nat /\ s6' \subseteq AdmittedRow /\ IsFiniteSet(s6')
      <3>1. s7' \in Nat \ {0} /\ s8' \in Nat
        BY <1>1, <1>2
      <3>2. s6' \subseteq AdmittedRow /\ IsFiniteSet(s6')
        BY <1>2, <2>1
      <3>3. QED
        BY <3>1, <3>2
    <2>8. QED
      BY <2>2, <2>3, <2>4, <2>5, <2>6, <2>7, Zenon DEF WindowInv
  <1>10. QED
    BY <1>8, <1>9

\* One pass runs at a time unless a connection was lost under one, each tries
\* every step, and sweeping the counters of windows that are over lets nobody
\* through who would not have been (maintenance.service.ts run, rate-limit.ts).
THEOREM PassesHold == PartsSpec => []PassesSound
  <1> DEFINE Inv == about = "upkeep" => PassInv /\ WindowInv
  <1>1. PartsInit => Inv
    <2> SUFFICES ASSUME PartsInit, about = "upkeep" PROVE PassInv /\ WindowInv
      OBVIOUS
    <2>1. /\ s1 = [i \in Instances |-> Upkeep!NoPass] /\ s4 = {}
          /\ s5 = Upkeep!NoRow /\ s6 = {} /\ s7 = 1 /\ s8 = 0
      BY DEF PartsInit, Upkeep!Init
    <2>2. Upkeep!NoPass \in PassRow /\ Upkeep!NoPass.at = 0
      BY UpkeepAssumption DEF Upkeep!NoPass, PassRow
    <2>3. PassInv
      BY <2>1, <2>2 DEF PassInv, Runs
    <2>4. \A e : InWindow(e) = {}
      BY <2>1 DEF InWindow
    <2>5. WindowInv
      BY <2>1, <2>4, FS_EmptySet, UpkeepAssumption DEF WindowInv, Upkeep!NoRow
    <2>6. QED
      BY <2>3, <2>5
  <1>2. Inv /\ [PartsNext]_<<about, vars, state>> => Inv'
    <2> SUFFICES ASSUME Inv, [PartsNext]_<<about, vars, state>>, about' = "upkeep"
                 PROVE  PassInv' /\ WindowInv'
      OBVIOUS
    <2>1. about = "upkeep" /\ PassInv /\ WindowInv
      BY DEF PartsNext
    <2>2. UNCHANGED <<s1, s2, s4>> => PassInv'
      BY <2>1 DEF PassInv, Runs
    <2>3. UNCHANGED <<s5, s6, s7, s8>> => WindowInv'
      BY <2>1 DEF WindowInv, InWindow
    <2>4. CASE Upkeep!Next
      <3>1. ASSUME NEW i \in Instances, Upkeep!Step(i) PROVE PassInv' /\ WindowInv'
        <4>1. s5' \in {s5, Upkeep!Swept} /\ UNCHANGED <<s6, s7, s8>>
          BY <3>1 DEF Upkeep!Step, Upkeep!bounds
        <4>2. QED
          BY <2>1, <3>1, <4>1, StepStep, SweepStep
      <3>2. ASSUME NEW i \in Instances, Upkeep!Start(i) \/ Upkeep!End(i) \/ Upkeep!Forget(i)
            PROVE  PassInv' /\ WindowInv'
        <4>1. UNCHANGED <<s5, s6, s7, s8>>
          BY <3>2 DEF Upkeep!Start, Upkeep!End, Upkeep!Forget, Upkeep!bounds
        <4>2. QED
          BY <2>1, <2>3, <3>2, <4>1, StartStep, EndStep
      <3>3. ASSUME NEW c \in Connections, Upkeep!LoseConnection(c) PROVE PassInv' /\ WindowInv'
        <4>1. UNCHANGED <<s5, s6, s7, s8>>
          BY <3>3 DEF Upkeep!LoseConnection
        <4>2. QED
          BY <2>1, <2>3, <3>3, <4>1, LoseStep
      <3>4. CASE Upkeep!Tick \/ Upkeep!Request
        <4>1. UNCHANGED <<s1, s2, s4>>
          BY <3>4 DEF Upkeep!Tick, Upkeep!Request
        <4>2. QED
          BY <2>1, <2>2, <3>4, <4>1, TickStep, RequestStep
      <3>5. QED
        BY <2>4, <3>1, <3>2, <3>3, <3>4 DEF Upkeep!Next
    <2>5. CASE UNCHANGED state
      BY <2>2, <2>3, <2>5 DEF state
    <2>6. QED
      BY <2>1, <2>4, <2>5 DEF PartsNext
  <1>3. Inv => PassesSound
    <2> SUFFICES ASSUME PassInv, WindowInv PROVE Upkeep!PassesSound
      BY DEF PassesSound
    <2>1. Upkeep!OnePass
      BY DEF PassInv, Runs, PassRow, Upkeep!OnePass
    <2>2. Upkeep!LimitHolds
      <3>1. \A a \in s6 : Upkeep!Cardinality({b \in s6 : b.ends = a.ends}) <= Limit
        <4> SUFFICES ASSUME NEW a \in s6
                     PROVE  Upkeep!Cardinality({b \in s6 : b.ends = a.ends}) <= Limit
          OBVIOUS
        <4>1. a.ends \in Nat
          BY DEF WindowInv, AdmittedRow
        <4>2. Cardinality({b \in s6 : b.ends = a.ends}) <= Limit
          BY <4>1 DEF WindowInv, InWindow
        <4>3. QED
          BY <4>2, SameCount
      <3>2. \A a, b \in s6 : a.ends < b.ends => a.ends <= b.at
        BY DEF WindowInv
      <3>3. QED
        BY <3>1, <3>2 DEF Upkeep!LimitHolds
    <2>3. QED
      BY <2>1, <2>2 DEF Upkeep!PassesSound
  <1> HIDE DEF Inv
  <1>4. QED
    BY <1>1, <1>2, <1>3, PTL DEF PartsSpec

-----------------------------------------------------------------------------
(***************************************************************************)
(* The panels of the pages, under the names their variables have there.    *)
(***************************************************************************)

kind == s1
rows == s2
list == s3
dialog == s5
secret == s6
open == s7
details == s8
task == s9
clock == s10
faults == s13
latest == s14
known == s15
owed == s16
wiped == s17
crossed == s18
mistaken == s19

USE DEF kind, rows, list, dialog, secret, open, details, task, clock, faults, latest, known, owed,
        wiped, crossed, mistaken

Versions == [PanelRows -> 0..Panel!Gone]

TaskRow ==
    [op : {"none", "load", "create", "remove", "change", "ping", "details"},
     row : PanelRows \cup {None}, step : {"idle", "confirm", "call", "called", "load", "loaded"},
     saw : PanelRows \cup {None}, ok : BOOLEAN, got : Versions, sent : Nat]

PanelTypes ==
    /\ rows \in Versions /\ list \in Versions /\ known \in Versions
    /\ dialog \in Clicks \cup {None}
    /\ secret \in PanelRows \cup {None} /\ open \in PanelRows \cup {None}
    /\ task \in [Clicks -> TaskRow]
    /\ clock \in Nat /\ faults \in Nat /\ latest \in Nat
    /\ crossed \in BOOLEAN /\ mistaken \in BOOLEAN

LEMMA GoneTypes ==
    /\ Panel!Gone \in Nat /\ Panel!Gone > 1
    /\ 0 \in 0..Panel!Gone /\ 1 \in 0..Panel!Gone /\ 0..Panel!Gone \subseteq Nat
  BY PanelsAssumption DEF Panel!Gone

LEMMA IdleTypes == Panel!Idle \in TaskRow /\ [Panel!Idle EXCEPT !.op = "load", !.step = "load"] \in TaskRow
  <1>1. [r \in PanelRows |-> 0] \in Versions
    BY GoneTypes DEF Versions
  <1> HIDE DEF Versions
  <1> QED
    BY <1>1 DEF Panel!Idle, TaskRow

LEMMA DoesTypes ==
    ASSUME PanelTypes, NEW op \in {"create", "remove", "change", "ping", "details"},
           NEW r \in PanelRows \cup {None}, NEW step \in {"confirm", "call"}
    PROVE  /\ Panel!Does(op, r, step) \in TaskRow
           /\ Panel!Does(op, r, step).op = op /\ Panel!Does(op, r, step).row = r
           /\ Panel!Does(op, r, step).step = step
           /\ Panel!Does(op, r, step).ok /\ Panel!Does(op, r, step).sent = 0
  <1> DEFINE s == IF op = "ping" THEN open ELSE secret
             d == [Panel!Idle EXCEPT !.op = op, !.row = r, !.step = step, !.saw = s]
  <1>1. Panel!Idle \in TaskRow /\ Panel!Idle.ok /\ Panel!Idle.sent = 0 /\ s \in PanelRows \cup {None}
    BY IdleTypes DEF PanelTypes, Panel!Idle
  <1>2. Panel!Does(op, r, step) = d
    BY DEF Panel!Does
  <1> HIDE DEF s
  <1>3. d \in TaskRow
    BY <1>1 DEF TaskRow
  <1>4. d.op = op /\ d.row = r /\ d.step = step /\ d.ok /\ d.sent = 0
    BY <1>1 DEF TaskRow
  <1> QED
    BY <1>2, <1>3, <1>4

\* What a call may do to a row: the row grows, and stays one of the table.
LEMMA EffectGrows ==
    ASSUME PanelTypes, NEW op, NEW r, op # "create" => r \in PanelRows, NEW e \in Panel!Effect(op, r)
    PROVE  e.row \in PanelRows /\ e.is \in 1..Panel!Gone /\ e.is > rows[e.row] /\ (op # "create" => e.row = r)
  <1>1. CASE op = "create"
    BY <1>1, GoneTypes DEF Panel!Effect, PanelTypes, Versions
  <1>2. CASE op = "remove"
    BY <1>2, PanelsAssumption DEF Panel!Effect, Panel!Here, PanelTypes, Versions, Panel!Gone
  <1>3. CASE op = "change"
    BY <1>3, PanelsAssumption DEF Panel!Effect, Panel!Here, PanelTypes, Versions, Panel!Gone
  <1>4. CASE op \notin {"create", "remove", "change"}
    BY <1>4 DEF Panel!Effect
  <1> QED
    BY <1>1, <1>2, <1>3, <1>4

-----------------------------------------------------------------------------
\* Task t becomes r, and the others go on as before.
Becomes(t, r) == r \in TaskRow /\ task' = [task EXCEPT ![t] = r]

LEMMA BecomesRow ==
    ASSUME PanelTypes, NEW t \in Clicks, NEW r, Becomes(t, r)
    PROVE  /\ task' \in [Clicks -> TaskRow] /\ task'[t] = r
           /\ \A u \in Clicks \ {t} : task'[u] = task[u]
  BY DEF PanelTypes, Becomes

\* A click.
Begins(t, r) ==
    /\ Becomes(t, r)
    /\ task[t].step = "idle" /\ dialog = None
    /\ r.op \in {"create", "remove", "change", "ping", "details"} /\ r.step \in {"confirm", "call"}
    /\ r.ok /\ r.sent = 0
    /\ r.op = "details" => r.step = "call"
    /\ r.op # "create" => r.row \in PanelRows /\ list[r.row] # 0
    /\ r.op = "ping" => kind = "webhook"
    /\ r.op = "change" /\ r.step = "confirm" => kind = "members"
    /\ IF r.op = "details" THEN open' = r.row ELSE UNCHANGED <<open, details>>
    /\ open' \in PanelRows \cup {None} /\ secret' \in PanelRows \cup {None}
    /\ dialog' = IF r.step = "confirm" THEN t ELSE None
    /\ UNCHANGED <<kind, rows, Panel!shown, clock, faults, mistaken>>
    /\ UNCHANGED Panel!banner \/ (secret' = None /\ owed' = None)

LEMMA ClickBegins ==
    ASSUME PanelTypes, NEW t \in Clicks,
           \/ Panel!Create(t)
           \/ \E r \in PanelRows : Panel!Change(t, r) \/ Panel!Ping(t, r) \/ Panel!Expand(t, r)
           \/ \E r \in PanelRows, op \in {"create", "remove", "change"} : Panel!Ask(t, op, r)
    PROVE  \E r : Begins(t, r)
  <1> USE DEF Panel!Click, Panel!shown, Panel!banner, Panel!detail
  <1>1. CASE Panel!Create(t)
    <2> DEFINE r == Panel!Does("create", None, "call")
    <2>1. r \in TaskRow /\ r.op = "create" /\ r.step = "call" /\ r.ok /\ r.sent = 0
      BY DoesTypes
    <2> HIDE DEF r
    <2>2. task' = [task EXCEPT ![t] = r] /\ task[t].step = "idle" /\ dialog = None
      BY <1>1 DEF Panel!Create, r
    <2>3. Begins(t, r)
      BY <1>1, <2>1, <2>2 DEF Panel!Create, Begins, Becomes, PanelTypes
    <2> QED
      BY <2>3
  <1>2. ASSUME NEW x \in PanelRows, Panel!Change(t, x) PROVE \E r : Begins(t, r)
    <2> DEFINE r == Panel!Does("change", x, "call")
    <2>1. r \in TaskRow /\ r.op = "change" /\ r.step = "call" /\ r.ok /\ r.row = x /\ r.sent = 0
      BY DoesTypes
    <2> HIDE DEF r
    <2>2. task' = [task EXCEPT ![t] = r] /\ task[t].step = "idle" /\ dialog = None
      BY <1>2 DEF Panel!Change, r
    <2>3. Begins(t, r)
      BY <1>2, <2>1, <2>2 DEF Panel!Change, Begins, Becomes, PanelTypes
    <2> QED
      BY <2>3
  <1>3. ASSUME NEW x \in PanelRows, Panel!Ping(t, x) PROVE \E r : Begins(t, r)
    <2> DEFINE r == Panel!Does("ping", x, "call")
    <2>1. r \in TaskRow /\ r.op = "ping" /\ r.step = "call" /\ r.ok /\ r.row = x /\ r.sent = 0
      BY DoesTypes
    <2> HIDE DEF r
    <2>2. task' = [task EXCEPT ![t] = r] /\ task[t].step = "idle" /\ dialog = None
      BY <1>3 DEF Panel!Ping, r
    <2>3. Begins(t, r)
      BY <1>3, <2>1, <2>2 DEF Panel!Ping, Begins, Becomes, PanelTypes
    <2> QED
      BY <2>3
  <1>4. ASSUME NEW x \in PanelRows, Panel!Expand(t, x) PROVE \E r : Begins(t, r)
    <2> DEFINE r == Panel!Does("details", x, "call")
    <2>1. r \in TaskRow /\ r.op = "details" /\ r.step = "call" /\ r.ok /\ r.row = x /\ r.sent = 0
      BY DoesTypes
    <2> HIDE DEF r
    <2>2. task' = [task EXCEPT ![t] = r] /\ task[t].step = "idle" /\ dialog = None
      BY <1>4 DEF Panel!Expand, r
    <2>3. Begins(t, r)
      BY <1>4, <2>1, <2>2 DEF Panel!Expand, Begins, Becomes, PanelTypes
    <2> QED
      BY <2>3
  <1>5. ASSUME NEW x \in PanelRows, NEW op \in {"create", "remove", "change"}, Panel!Ask(t, op, x)
        PROVE  \E r : Begins(t, r)
    <2> DEFINE r == Panel!Does(op, x, "confirm")
    <2>1. r \in TaskRow /\ r.op = op /\ r.step = "confirm" /\ r.ok /\ r.row = x /\ r.sent = 0
      BY DoesTypes
    <2> HIDE DEF r
    <2>2. task' = [task EXCEPT ![t] = r] /\ task[t].step = "idle" /\ dialog = None
      BY <1>5 DEF Panel!Ask, r
    <2>3. Begins(t, r)
      BY <1>5, <2>1, <2>2 DEF Panel!Ask, Panel!Asked, Begins, Becomes, PanelTypes
    <2> QED
      BY <2>3
  <1> QED
    BY <1>1, <1>2, <1>3, <1>4, <1>5

\* The end of a confirmation.
Closes(t, r) ==
    /\ Becomes(t, r)
    /\ dialog = t /\ dialog' = None
    /\ clock' = clock + 1
    /\ \/ r.step = "call" /\ r.op = task[t].op /\ r.row = task[t].row /\ r.ok = task[t].ok
                          /\ r.sent = task[t].sent
       \/ r.step = "load" /\ r.sent = clock' /\ r.ok = task[t].ok /\ r.row = task[t].row
                          /\ task[t].op = "change" /\ r.op = "change"
       \/ r = Panel!Idle
    /\ UNCHANGED <<kind, rows, Panel!shown, Panel!banner, Panel!detail, faults>>

LEMMA CloseCloses ==
    ASSUME PanelTypes, NEW t \in Clicks, NEW yes \in BOOLEAN, Panel!Close(t, yes)
    PROVE  \E r : Closes(t, r)
  <1>1. clock' = clock + 1 /\ clock' \in Nat /\ task[t] \in TaskRow
    BY DEF Panel!Close, PanelTypes
  <1>2. UNCHANGED <<kind, rows, Panel!shown, Panel!banner, Panel!detail, faults>> /\ dialog = t /\ dialog' = None
    BY DEF Panel!Close, Panel!bounds
  <1>3. CASE yes
    <2> DEFINE r == [task[t] EXCEPT !.step = "call"]
    <2>1. task' = [task EXCEPT ![t] = r]
      BY <1>3 DEF Panel!Close, PanelTypes
    <2>2. r \in TaskRow /\ r.step = "call" /\ r.op = task[t].op /\ r.row = task[t].row
          /\ r.ok = task[t].ok /\ r.sent = task[t].sent
      BY <1>1 DEF TaskRow
    <2> HIDE DEF r
    <2> QED
      BY <1>1, <1>2, <2>1, <2>2 DEF Closes, Becomes
  <1>4. CASE ~ yes /\ task[t].op = "change"
    <2> DEFINE r == [task[t] EXCEPT !.step = "load", !.sent = clock']
    <2>1. task' = [task EXCEPT ![t] = r]
      BY <1>4 DEF Panel!Close, PanelTypes
    <2>2. r \in TaskRow /\ r.step = "load" /\ r.op = "change" /\ r.sent = clock' /\ r.ok = task[t].ok
          /\ r.row = task[t].row
      BY <1>1, <1>4 DEF TaskRow
    <2> HIDE DEF r
    <2> QED
      BY <1>1, <1>2, <1>4, <2>1, <2>2 DEF Closes, Becomes
  <1>5. CASE ~ yes /\ task[t].op # "change"
    <2>1. task' = [task EXCEPT ![t] = Panel!Idle]
      BY <1>5 DEF Panel!Close, PanelTypes
    <2> QED
      BY <1>1, <1>2, <2>1, IdleTypes DEF Closes, Becomes
  <1> QED
    BY <1>3, <1>4, <1>5

\* A call is served: it changes a row, or reads, or fails.
ServesCall(t, r) ==
    /\ Becomes(t, r)
    /\ task[t].step = "call" /\ r.step = "called" /\ r.op = task[t].op /\ r.sent = task[t].sent
    /\ \/ /\ r.op \in {"create", "remove", "change"}
          /\ r.row \in PanelRows /\ (r.op # "create" => r.row = task[t].row)
          /\ r.got[r.row] \in 1..Panel!Gone /\ r.got[r.row] > rows[r.row]
          /\ rows' = [rows EXCEPT ![r.row] = r.got[r.row]]
          /\ r.ok = task[t].ok /\ faults' = faults
       \/ r.op \in Panel!Reading /\ r.row = task[t].row /\ r.ok = task[t].ok /\ UNCHANGED <<rows, faults>>
       \/ r.row = task[t].row /\ ~ r.ok /\ UNCHANGED rows /\ faults' \in Nat /\ faults <= faults'
          /\ (r.op \in Panel!Reading => faults' = faults + 1)
    /\ UNCHANGED <<kind, Panel!shown, dialog, Panel!banner, Panel!detail, clock>>

LEMMA ServeServes ==
    ASSUME PanelTypes, NEW t \in Clicks, Panel!Serve(t), task[t].op # "create" => task[t].row \in PanelRows
    PROVE  \E r : ServesCall(t, r)
  <1>1. task[t] \in TaskRow /\ task[t].step = "call" /\ faults \in Nat
    BY DEF Panel!Serve, PanelTypes
  <1>2. UNCHANGED <<kind, Panel!shown, dialog, Panel!banner, Panel!detail, clock>>
    BY DEF Panel!Serve
  <1>3. ASSUME NEW e \in Panel!Effect(task[t].op, task[t].row), rows' = [rows EXCEPT ![e.row] = e.is],
               task' = [task EXCEPT ![t].step = "called", ![t].row = e.row,
                                    ![t].got = [@ EXCEPT ![e.row] = e.is]],
               UNCHANGED faults
        PROVE  \E r : ServesCall(t, r)
    <2>1. /\ e.row \in PanelRows /\ e.is \in 1..Panel!Gone /\ e.is > rows[e.row]
          /\ task[t].op # "create" => e.row = task[t].row
      BY <1>3, EffectGrows
    <2>2. task[t].op \in {"create", "remove", "change"}
      BY <1>3 DEF Panel!Effect
    <2> DEFINE g == [task[t].got EXCEPT ![e.row] = e.is]
               r == [task[t] EXCEPT !.step = "called", !.row = e.row, !.got = g]
    <2>3. g \in Versions /\ g[e.row] = e.is
      BY <1>1, <2>1, GoneTypes DEF TaskRow, Versions
    <2>4. task' = [task EXCEPT ![t] = r]
      BY <1>1, <1>3 DEF PanelTypes, TaskRow
    <2> HIDE DEF g
    <2>5. r \in TaskRow /\ r.step = "called" /\ r.op = task[t].op /\ r.row = e.row /\ r.got = g
          /\ r.ok = task[t].ok /\ r.sent = task[t].sent
      BY <1>1, <2>1, <2>3 DEF TaskRow
    <2> HIDE DEF r
    <2>6. ServesCall(t, r)
      BY <1>1, <1>2, <1>3, <2>1, <2>2, <2>3, <2>4, <2>5 DEF ServesCall, Becomes
    <2> QED
      BY <2>6
  <1>4. ASSUME task[t].op \in Panel!Reading, task' = [task EXCEPT ![t].step = "called"],
               UNCHANGED <<rows, faults>>
        PROVE  \E r : ServesCall(t, r)
    <2> DEFINE r == [task[t] EXCEPT !.step = "called"]
    <2>1. task' = [task EXCEPT ![t] = r]
      BY <1>4 DEF PanelTypes
    <2>2. r \in TaskRow /\ r.step = "called" /\ r.op = task[t].op /\ r.row = task[t].row
          /\ r.ok = task[t].ok /\ r.sent = task[t].sent
      BY <1>1 DEF TaskRow
    <2> HIDE DEF r
    <2>3. ServesCall(t, r)
      BY <1>1, <1>2, <1>4, <2>1, <2>2 DEF ServesCall, Becomes
    <2> QED
      BY <2>3
  <1>5. ASSUME task' = [task EXCEPT ![t].step = "called", ![t].ok = FALSE], UNCHANGED rows,
               IF task[t].op \in Panel!Reading \/ Panel!Effect(task[t].op, task[t].row) # {}
               THEN faults < MaxErrors /\ faults' = faults + 1 ELSE UNCHANGED faults
        PROVE  \E r : ServesCall(t, r)
    <2> DEFINE r == [task[t] EXCEPT !.step = "called", !.ok = FALSE]
    <2>1. task' = [task EXCEPT ![t] = r]
      BY <1>5 DEF PanelTypes
    <2>2. r \in TaskRow /\ r.step = "called" /\ r.op = task[t].op /\ r.row = task[t].row
          /\ ~ r.ok /\ r.sent = task[t].sent
      BY <1>1 DEF TaskRow
    <2> HIDE DEF r
    <2>3. faults' \in Nat /\ faults <= faults' /\ (task[t].op \in Panel!Reading => faults' = faults + 1)
      BY <1>1, <1>5
    <2>4. ServesCall(t, r)
      BY <1>1, <1>2, <1>5, <2>1, <2>2, <2>3 DEF ServesCall, Becomes
    <2> QED
      BY <2>4
  <1> QED
    BY <1>3, <1>4, <1>5 DEF Panel!Serve

\* A list is read.
Current == [r \in PanelRows |-> IF Panel!Here(r) THEN rows[r] ELSE 0]

FetchesList(t, r) ==
    /\ Becomes(t, r)
    /\ task[t].step = "load" /\ r.step = "loaded" /\ r.op = task[t].op /\ r.row = task[t].row
    /\ r.ok = task[t].ok /\ r.sent = task[t].sent /\ r.got = Current
    /\ UNCHANGED <<kind, rows, Panel!shown, dialog, Panel!banner, Panel!detail, clock, faults>>

LEMMA ServeFetches ==
    ASSUME PanelTypes, NEW t \in Clicks, Panel!ServeLoad(t)
    PROVE  \E r : FetchesList(t, r)
  <1>1. task[t] \in TaskRow /\ task[t].step = "load"
    BY DEF Panel!ServeLoad, PanelTypes
  <1>2. Current \in Versions
    BY GoneTypes DEF Current, Versions, PanelTypes
  <1>3. UNCHANGED <<kind, rows, Panel!shown, dialog, Panel!banner, Panel!detail, clock, faults>>
    BY DEF Panel!ServeLoad, Panel!bounds
  <1> DEFINE r == [task[t] EXCEPT !.step = "loaded", !.got = Current]
  <1>4. task' = [task EXCEPT ![t] = r]
    BY DEF Panel!ServeLoad, PanelTypes, Current
  <1> HIDE DEF Current
  <1>5. r \in TaskRow /\ r.step = "loaded" /\ r.op = task[t].op /\ r.row = task[t].row
        /\ r.ok = task[t].ok /\ r.sent = task[t].sent /\ r.got = Current
    BY <1>1, <1>2 DEF TaskRow
  <1> HIDE DEF r
  <1>6. FetchesList(t, r)
    BY <1>1, <1>3, <1>4, <1>5 DEF FetchesList, Becomes
  <1> QED
    BY <1>6

\* Answers.
Reloads(t, r) ==
    r \in TaskRow /\ r.step = "load" /\ r.op = task[t].op /\ r.row = task[t].row /\ r.ok = task[t].ok
        /\ r.sent = clock'

LEMMA LoadsReload ==
    ASSUME PanelTypes, NEW t \in Clicks, clock' = clock + 1
    PROVE  \E r : Panel!Loads(t) = [task EXCEPT ![t] = r] /\ Reloads(t, r)
  <1>1. task[t] \in TaskRow /\ clock' \in Nat
    BY DEF PanelTypes
  <1> DEFINE r == [task[t] EXCEPT !.step = "load", !.sent = clock']
  <1>2. Panel!Loads(t) = [task EXCEPT ![t] = r]
    BY DEF Panel!Loads, PanelTypes
  <1>3. Reloads(t, r)
    BY <1>1 DEF TaskRow, Reloads
  <1> QED
    BY <1>2, <1>3

Refuses(t, r) ==
    /\ Becomes(t, r)
    /\ task[t].step = "called" /\ ~ task[t].ok
    /\ clock' = clock + 1
    /\ r = Panel!Idle \/ (Reloads(t, r) /\ kind = "members" /\ r.op = "change")
    /\ UNCHANGED <<kind, rows, Panel!shown, dialog, Panel!banner, Panel!detail, faults>>

LEMMA RefusedRefuses ==
    ASSUME PanelTypes, NEW t \in Clicks, Panel!Refused(t)
    PROVE  \E r : Refuses(t, r)
  <1>1. /\ task[t].step = "called" /\ ~ task[t].ok /\ clock' = clock + 1
        /\ UNCHANGED <<kind, rows, Panel!shown, dialog, Panel!banner, Panel!detail, faults>>
    BY DEF Panel!Refused, Panel!bounds
  <1>2. CASE kind = "members" /\ task[t].op = "change"
    <2>1. PICK r : Panel!Loads(t) = [task EXCEPT ![t] = r] /\ Reloads(t, r)
      BY <1>1, LoadsReload
    <2>2. Refuses(t, r)
      BY <1>1, <1>2, <2>1 DEF Panel!Refused, Refuses, Becomes, Reloads
    <2> QED
      BY <2>2
  <1>3. CASE ~ (kind = "members" /\ task[t].op = "change")
    <2>1. Refuses(t, Panel!Idle)
      BY <1>1, <1>3, IdleTypes DEF Panel!Refused, Refuses, Becomes, Panel!Ended
    <2> QED
      BY <2>1
  <1> QED
    BY <1>2, <1>3

Accepts(t, r) ==
    /\ Becomes(t, r)
    /\ task[t].step = "called" /\ task[t].ok /\ task[t].op \notin Panel!Reading
    /\ clock' = clock + 1 /\ latest' = clock'
    /\ known' = [known EXCEPT ![task[t].row] = IF @ > task[t].got[task[t].row] THEN @
                                               ELSE task[t].got[task[t].row]]
    /\ IF kind \in Panel!Patches
       THEN /\ list' = Panel!Patched(t) /\ r = Panel!Idle
            /\ crossed' = (crossed \/ \E u \in Clicks \ {t} : task[u].row = task[t].row)
       ELSE UNCHANGED <<list, crossed>> /\ Reloads(t, r)
    /\ Panel!Banner(t)
    /\ UNCHANGED <<kind, rows, dialog, Panel!detail, faults>>

LEMMA AcceptedAccepts ==
    ASSUME PanelTypes, NEW t \in Clicks, Panel!Accepted(t)
    PROVE  \E r : Accepts(t, r)
  <1>1. /\ task[t].step = "called" /\ task[t].ok /\ task[t].op \notin Panel!Reading
        /\ clock' = clock + 1 /\ latest' = clock'
        /\ known' = [known EXCEPT ![task[t].row] = IF @ > task[t].got[task[t].row] THEN @
                                                   ELSE task[t].got[task[t].row]]
        /\ Panel!Banner(t)
        /\ UNCHANGED <<kind, rows, dialog, Panel!detail, faults>>
    BY DEF Panel!Accepted, Panel!bounds
  <1>2. CASE kind \notin Panel!Patches
    <2>1. PICK r : Panel!Loads(t) = [task EXCEPT ![t] = r] /\ Reloads(t, r)
      BY <1>1, LoadsReload
    <2>2. UNCHANGED <<list, crossed>> /\ task' = Panel!Loads(t)
      BY <1>2 DEF Panel!Accepted
    <2>3. Accepts(t, r)
      BY <1>1, <1>2, <2>1, <2>2 DEF Accepts, Becomes, Reloads
    <2> QED
      BY <2>3
  <1>3. CASE kind \in Panel!Patches
    <2>1. /\ list' = Panel!Patched(t) /\ task' = Panel!Ended(t)
          /\ crossed' = (crossed \/ \E u \in Clicks \ {t} : task[u].row = task[t].row)
      BY <1>3 DEF Panel!Accepted
    <2>2. Accepts(t, Panel!Idle)
      BY <1>1, <1>3, <2>1, IdleTypes DEF Accepts, Becomes, Panel!Ended
    <2> QED
      BY <2>2
  <1> QED
    BY <1>2, <1>3

Pings(t, r) ==
    /\ Becomes(t, r)
    /\ task[t].step = "called" /\ task[t].ok /\ task[t].op = "ping"
    /\ clock' = clock + 1
    /\ Reloads(t, r)
    /\ UNCHANGED <<kind, rows, Panel!shown, dialog, Panel!banner, Panel!detail, faults>>

LEMMA PingedPings ==
    ASSUME PanelTypes, NEW t \in Clicks, Panel!Pinged(t)
    PROVE  \E r : Pings(t, r)
  <1>1. PICK r : Panel!Loads(t) = [task EXCEPT ![t] = r] /\ Reloads(t, r)
    BY LoadsReload DEF Panel!Pinged
  <1>2. Pings(t, r)
    BY <1>1 DEF Panel!Pinged, Pings, Becomes, Reloads, Panel!bounds
  <1> QED
    BY <1>2

Shows(t, r) ==
    /\ Becomes(t, r)
    /\ task[t].step = "loaded"
    /\ list' = task[t].got
    /\ crossed' = (task[t].sent < latest)
    /\ latest' = IF task[t].sent > latest THEN task[t].sent ELSE latest
    /\ \/ r = Panel!Idle /\ open' = open
       \/ r.op = "details" /\ r.step = "call" /\ r.ok /\ r.sent = 0 /\ task[t].op = "ping" /\ r.row = task[t].row
          /\ open' = r.row
    /\ UNCHANGED <<kind, rows, known, dialog, Panel!banner, details, mistaken, clock, faults>>

LEMMA LoadedShows ==
    ASSUME PanelTypes, NEW t \in Clicks, Panel!Loaded(t)
    PROVE  \E r : Shows(t, r)
  <1>1. /\ task[t].step = "loaded" /\ list' = task[t].got
        /\ crossed' = (task[t].sent < latest)
        /\ latest' = IF task[t].sent > latest THEN task[t].sent ELSE latest
        /\ UNCHANGED <<kind, rows, known, dialog, Panel!banner, details, mistaken, clock, faults>>
    BY DEF Panel!Loaded, Panel!bounds
  <1>2. CASE task[t].op = "ping" /\ task[t].saw = task[t].row
    <2> DEFINE r == Panel!Does("details", task[t].row, "call")
    <2>1. task[t].row \in PanelRows \cup {None}
      BY DEF PanelTypes, TaskRow
    <2>2. r \in TaskRow /\ r.op = "details" /\ r.step = "call" /\ r.ok /\ r.row = task[t].row /\ r.sent = 0
      BY <2>1, DoesTypes
    <2>3. task' = [task EXCEPT ![t] = r] /\ open' = task[t].row
      BY <1>2 DEF Panel!Loaded
    <2> HIDE DEF r
    <2>4. Shows(t, r)
      BY <1>1, <1>2, <2>2, <2>3 DEF Shows, Becomes
    <2> QED
      BY <2>4
  <1>3. CASE ~ (task[t].op = "ping" /\ task[t].saw = task[t].row)
    <2>1. UNCHANGED open /\ task' = Panel!Ended(t)
      BY <1>3 DEF Panel!Loaded
    <2>2. Shows(t, Panel!Idle)
      BY <1>1, <2>1, IdleTypes DEF Shows, Becomes, Panel!Ended
    <2> QED
      BY <2>2
  <1> QED
    BY <1>2, <1>3

Details(t) ==
    /\ Becomes(t, Panel!Idle)
    /\ task[t].step = "called" /\ task[t].ok /\ task[t].op = "details"
    /\ details' = task[t].row
    /\ mistaken' = (open # task[t].row)
    /\ UNCHANGED <<kind, rows, Panel!shown, dialog, Panel!banner, open, clock, faults>>

LEMMA DetailsDetails ==
    ASSUME PanelTypes, NEW t \in Clicks, Panel!DetailsCome(t)
    PROVE  Details(t)
  BY IdleTypes DEF Panel!DetailsCome, Details, Becomes, Panel!Ended, Panel!bounds

\* What no task does: the details are collapsed, the secret is dismissed, or a row changes elsewhere.
Leaves ==
    /\ UNCHANGED <<kind, Panel!shown, dialog, task, clock, faults, mistaken>>
    /\ \/ UNCHANGED <<rows, Panel!banner, details>> /\ open' = None
       \/ UNCHANGED <<rows, Panel!detail>> /\ secret' = None /\ owed' = None
       \/ UNCHANGED <<Panel!banner, Panel!detail>>
          /\ \E r \in PanelRows, n \in 1..Panel!Gone : n > rows[r] /\ rows' = [rows EXCEPT ![r] = n]
       \/ UNCHANGED <<rows, Panel!banner, Panel!detail>>

LEMMA OthersLeave ==
    ASSUME PanelTypes, Panel!Collapse \/ Panel!Done \/ (\E r \in PanelRows : Panel!Elsewhere(r)) \/ UNCHANGED state
    PROVE  Leaves
  <1>1. CASE Panel!Collapse           BY <1>1 DEF Panel!Collapse, Leaves, Panel!bounds
  <1>2. CASE Panel!Done               BY <1>2 DEF Panel!Done, Leaves, Panel!bounds, Panel!detail
  <1>3. ASSUME NEW r \in PanelRows, Panel!Elsewhere(r) PROVE Leaves
    <2>1. PICK op \in {"create", "remove", "change"} : \E e \in Panel!Effect(op, r) :
            e.row = r /\ rows' = [rows EXCEPT ![r] = e.is]
      BY <1>3 DEF Panel!Elsewhere
    <2>2. \E n \in 1..Panel!Gone : n > rows[r] /\ rows' = [rows EXCEPT ![r] = n]
      BY <2>1, EffectGrows
    <2> QED
      BY <1>3, <2>2 DEF Panel!Elsewhere, Leaves, Panel!detail
  <1>4. CASE UNCHANGED state     BY <1>4 DEF state, Leaves, Panel!shown, Panel!banner, Panel!detail
  <1> QED
    BY <1>1, <1>2, <1>3, <1>4

-----------------------------------------------------------------------------
PanelStep ==
    \/ \E t \in Clicks : \E r :
        \/ Begins(t, r) \/ Closes(t, r) \/ ServesCall(t, r) \/ FetchesList(t, r)
        \/ Refuses(t, r) \/ Accepts(t, r) \/ Pings(t, r) \/ Shows(t, r)
    \/ \E t \in Clicks : Details(t)
    \/ Leaves

\* A list that shows what the panel knows of its own changes.
ShowsIt(l, k, w) ==
    \A r \in PanelRows :
        /\ k[r] = Panel!Gone => l[r] = 0
        /\ k[r] \in 1..MaxEdits /\ w[r] \in 1..MaxEdits => l[r] >= k[r]

Good(l) == ShowsIt(l, known, rows)

\* What a task has got was so when it got it, and the panel has learnt of nothing
\* that has not happened.
TaskOK(t) ==
    /\ dialog = t => task[t].step = "confirm"
    /\ task[t].step \in {"confirm", "call", "called"} => task[t].op \notin {"none", "load"}
    /\ task[t].step # "idle" /\ task[t].op \notin {"create", "load"} => task[t].row \in PanelRows
    /\ task[t].step = "called" /\ task[t].ok /\ task[t].op \notin Panel!Reading =>
            /\ task[t].row \in PanelRows
            /\ task[t].got[task[t].row] \in 1..Panel!Gone
            /\ task[t].got[task[t].row] <= rows[task[t].row]
    /\ task[t].sent <= clock
    /\ faults = 0 /\ task[t].op \in Panel!Reading => task[t].ok
    /\ task[t].op = "ping" => kind = "webhook"
    /\ task[t].op = "change" /\ task[t].step = "confirm" => kind = "members"

TaskInv == \A t \in Clicks : TaskOK(t)

KnownInv == latest <= clock /\ \A r \in PanelRows : known[r] <= rows[r]

\* A list that is asked for after the last change will show it.
GotInv == \A t \in Clicks : task[t].step = "loaded" /\ task[t].sent >= latest => Good(task[t].got)

\* Every panel but the comments asks for it again when it changes something.
Awaited == \E t \in Clicks : task[t].step \in {"load", "loaded"} /\ task[t].sent >= latest

ListInv == kind \notin Panel!Patches /\ ~ crossed => Good(list) \/ Awaited

\* The comments load their list once, and patch it afterwards; whoever changes a
\* comment has one to change, and knows nothing older than the panel does.
PatchInv ==
    kind \in Panel!Patches =>
        /\ \A t \in Clicks : task[t].step \in {"load", "loaded"} =>
            /\ task[t].sent = 0
            /\ \A u \in Clicks : task[u].step \in {"load", "loaded"} => u = t
            /\ latest = 0 => ~ crossed /\ \A r \in PanelRows : list[r] = 0
        /\ ~ crossed =>
            /\ Good(list)
            /\ \A t \in Clicks :
                /\ task[t].step # "idle" /\ task[t].op \in {"change", "remove"} => list[task[t].row] # 0
                /\ task[t].step = "called" /\ task[t].ok /\ task[t].op \notin Panel!Reading =>
                        task[t].got[task[t].row] >= known[task[t].row]

\* Under a row that is expanded are its details, or they are being fetched.
DetailsInv ==
    faults = 0 /\ open # None /\ ~ mistaken =>
        \/ details = open
        \/ \E t \in Clicks : /\ task[t].op = "details" /\ task[t].row = open
                            /\ task[t].step \in {"call", "called"}

PanelInv ==
    /\ PanelTypes /\ TaskInv /\ KnownInv /\ GotInv /\ ListInv /\ PatchInv /\ DetailsInv
    /\ Panel!SecretKept

LEMMA PanelSteps ==
    ASSUME PanelTypes, TaskInv, (Panel!Next \/ UNCHANGED state)
    PROVE  PanelStep
  <1>1. ASSUME NEW t \in Clicks, Panel!Serve(t) PROVE PanelStep
    <2>1. task[t].op # "create" => task[t].row \in PanelRows
      <3>1. task[t].step = "call"
        BY <1>1 DEF Panel!Serve
      <3> QED
        BY <3>1 DEF TaskInv, TaskOK
    <2> QED
      BY <1>1, <2>1, ServeServes DEF PanelStep
  <1>2. ASSUME NEW t \in Clicks,
               \/ Panel!Create(t)
               \/ \E r \in PanelRows : Panel!Change(t, r) \/ Panel!Ping(t, r) \/ Panel!Expand(t, r)
               \/ \E r \in PanelRows, op \in {"create", "remove", "change"} : Panel!Ask(t, op, r)
        PROVE  PanelStep
    BY <1>2, ClickBegins DEF PanelStep
  <1>3. ASSUME NEW t \in Clicks,
               \/ Panel!ServeLoad(t) \/ Panel!Refused(t) \/ Panel!Accepted(t)
               \/ Panel!Pinged(t) \/ Panel!Loaded(t) \/ Panel!DetailsCome(t)
        PROVE  PanelStep
    BY <1>3, ServeFetches, RefusedRefuses, AcceptedAccepts, PingedPings, LoadedShows, DetailsDetails
       DEF PanelStep
  <1>4. ASSUME NEW t \in Clicks, NEW yes \in BOOLEAN, Panel!Close(t, yes) PROVE PanelStep
    BY <1>4, CloseCloses DEF PanelStep
  <1>5. CASE Panel!Collapse \/ Panel!Done \/ (\E r \in PanelRows : Panel!Elsewhere(r)) \/ UNCHANGED state
    BY <1>5, OthersLeave DEF PanelStep
  <1> QED
    BY <1>1, <1>2, <1>3, <1>4, <1>5 DEF Panel!Next

-----------------------------------------------------------------------------
\* A list that shows what the panel knows goes on doing so while rows grow.
LEMMA GoodStays ==
    ASSUME NEW l, NEW k \in Versions, NEW w \in Versions, NEW v \in Versions,
           ShowsIt(l, k, w), \A r \in PanelRows : k[r] <= w[r] /\ w[r] <= v[r]
    PROVE  ShowsIt(l, k, v)
  <1> SUFFICES ASSUME NEW r \in PanelRows
      PROVE  /\ k[r] = Panel!Gone => l[r] = 0
             /\ k[r] \in 1..MaxEdits /\ v[r] \in 1..MaxEdits => l[r] >= k[r]
    BY DEF ShowsIt
  <1>1. k[r] \in Nat /\ w[r] \in Nat /\ v[r] \in Nat /\ MaxEdits \in Nat
    BY GoneTypes, PanelsAssumption DEF Versions
  <1>2. k[r] \in 1..MaxEdits /\ v[r] \in 1..MaxEdits => w[r] \in 1..MaxEdits
    BY <1>1
  <1> QED
    BY <1>2 DEF ShowsIt

\* Rows only grow.
LEMMA RowsGrow ==
    ASSUME PanelTypes, PanelStep
    PROVE  rows' \in Versions /\ \A r \in PanelRows : rows[r] \in Nat /\ rows'[r] \in Nat /\ rows[r] <= rows'[r]
  <1>1. rows \in Versions /\ \A r \in PanelRows : rows[r] \in Nat
    BY GoneTypes DEF PanelTypes, Versions
  <1>2. CASE rows' = rows
    BY <1>1, <1>2
  <1>3. ASSUME NEW r \in PanelRows, NEW n \in 1..Panel!Gone, n > rows[r], rows' = [rows EXCEPT ![r] = n]
        PROVE  rows' \in Versions /\ \A x \in PanelRows : rows[x] \in Nat /\ rows'[x] \in Nat /\ rows[x] <= rows'[x]
    <2>1. rows' \in Versions
      BY <1>1, <1>3, GoneTypes DEF Versions
    <2>2. \A x \in PanelRows : rows'[x] \in Nat
      BY <2>1, GoneTypes DEF Versions
    <2> QED
      BY <1>1, <1>3, <2>1, <2>2 DEF Versions
  <1> DEFINE OneGrows == \E r \in PanelRows, n \in 1..Panel!Gone : n > rows[r] /\ rows' = [rows EXCEPT ![r] = n]
  <1>4. rows' = rows \/ OneGrows
    <2>1. ASSUME NEW t \in Clicks, NEW r, ServesCall(t, r) PROVE rows' = rows \/ OneGrows
      BY <2>1 DEF ServesCall
    <2>2. CASE Leaves
      BY <2>2 DEF Leaves
    <2> QED
      BY <2>1, <2>2 DEF PanelStep, Begins, Closes, FetchesList, Refuses, Accepts, Pings, Shows, Details
  <1> QED
    BY <1>2, <1>3, <1>4

\* What a task has got is one of its rows.
LEMMA GotRow ==
    ASSUME PanelTypes, TaskInv, NEW t \in Clicks, task[t].step = "called", task[t].ok, task[t].op \notin Panel!Reading
    PROVE  /\ task[t].row \in PanelRows /\ task[t].got \in Versions
           /\ task[t].got[task[t].row] \in 1..Panel!Gone /\ task[t].got[task[t].row] <= rows[task[t].row]
           /\ task[t].got[task[t].row] \in Nat
  <1>1. task[t].got \in Versions
    BY DEF PanelTypes, TaskRow
  <1>2. TaskOK(t)
    BY DEF TaskInv
  <1> QED
    BY <1>1, <1>2, GoneTypes DEF TaskOK

LEMMA TypesKeep ==
    ASSUME PanelTypes, TaskInv, PanelStep
    PROVE  PanelTypes'
  <1> USE DEF Panel!shown, Panel!banner, Panel!detail
  <1>1. rows' \in Versions
    BY RowsGrow
  <1>2. ASSUME NEW t \in Clicks, NEW r, Accepts(t, r) PROVE PanelTypes'
    <2>1. /\ task[t].row \in PanelRows /\ task[t].got \in Versions /\ task[t].got[task[t].row] \in 1..Panel!Gone
          /\ task' \in [Clicks -> TaskRow]
      BY <1>2, GotRow, BecomesRow DEF Accepts
    <2>2. known' \in Versions
      BY <1>2, <2>1 DEF Accepts, Versions, PanelTypes
    <2>3. list' \in Versions
      BY <1>2, <2>1, GoneTypes DEF Accepts, Panel!Patched, Versions, PanelTypes
    <2>4. secret' \in PanelRows \cup {None}
      BY <1>2, <2>1 DEF Accepts, Panel!Banner, PanelTypes
    <2>5. crossed' \in BOOLEAN
      BY <1>2 DEF Accepts, PanelTypes
    <2>6. /\ dialog' \in Clicks \cup {None} /\ open' \in PanelRows \cup {None} /\ mistaken' \in BOOLEAN
          /\ clock' \in Nat /\ faults' \in Nat /\ latest' \in Nat
      BY <1>2 DEF Accepts, PanelTypes
    <2> QED
      BY <1>1, <2>1, <2>2, <2>3, <2>4, <2>5, <2>6 DEF PanelTypes
  <1>3. ASSUME NEW t \in Clicks, NEW r, Shows(t, r) PROVE PanelTypes'
    <2>1. task[t] \in TaskRow
      BY DEF PanelTypes
    <2>2. task[t].got \in Versions /\ task[t].sent \in Nat /\ task[t].row \in PanelRows \cup {None}
      BY <2>1 DEF TaskRow
    <2>3. task' \in [Clicks -> TaskRow]
      BY <1>3, BecomesRow DEF Shows
    <2> QED
      BY <1>1, <1>3, <2>2, <2>3 DEF Shows, PanelTypes
  <1>4. ASSUME NEW t \in Clicks, Details(t) PROVE PanelTypes'
    <2>1. task' \in [Clicks -> TaskRow]
      BY <1>4, BecomesRow DEF Details
    <2> QED
      BY <1>1, <1>4, <2>1 DEF Details, PanelTypes
  <1>5. CASE Leaves
    <2>1. secret' \in PanelRows \cup {None} /\ open' \in PanelRows \cup {None}
      BY <1>5 DEF Leaves, PanelTypes
    <2> QED
      BY <1>1, <1>5, <2>1 DEF Leaves, PanelTypes
  <1>6. ASSUME NEW t \in Clicks, NEW r,
               \/ Begins(t, r) \/ Closes(t, r) \/ ServesCall(t, r) \/ FetchesList(t, r) \/ Refuses(t, r) \/ Pings(t, r)
        PROVE  PanelTypes'
    <2>1. task' \in [Clicks -> TaskRow]
      BY <1>6, BecomesRow DEF Begins, Closes, ServesCall, FetchesList, Refuses, Pings
    <2>2. UNCHANGED <<list, known, latest, crossed, mistaken>>
      BY <1>6 DEF Begins, Closes, ServesCall, FetchesList, Refuses, Pings
    <2>3. secret' \in PanelRows \cup {None} /\ open' \in PanelRows \cup {None}
      BY <1>6 DEF Begins, Closes, ServesCall, FetchesList, Refuses, Pings, PanelTypes
    <2>4. dialog' \in Clicks \cup {None}
      BY <1>6 DEF Begins, Closes, ServesCall, FetchesList, Refuses, Pings, PanelTypes
    <2>5. clock' \in Nat /\ faults' \in Nat
      BY <1>6 DEF Begins, Closes, ServesCall, FetchesList, Refuses, Pings, PanelTypes
    <2> QED
      BY <1>1, <2>1, <2>2, <2>3, <2>4, <2>5 DEF PanelTypes
  <1> QED
    BY <1>2, <1>3, <1>4, <1>5, <1>6 DEF PanelStep

-----------------------------------------------------------------------------
\* The clock goes on, calls that have failed have failed, and a panel stays the panel it is.
LEMMA StepMono ==
    ASSUME PanelTypes, PanelStep
    PROVE  clock \in Nat /\ clock' \in Nat /\ clock <= clock' /\ faults \in Nat /\ faults <= faults' /\ kind' = kind
           /\ (faults' = 0 => faults = 0)
  <1>1. clock \in Nat /\ faults \in Nat
    BY DEF PanelTypes
  <1>2. /\ kind' = kind
        /\ clock' = clock \/ clock' = clock + 1
        /\ faults' = faults \/ (faults' \in Nat /\ faults <= faults')
    BY DEF PanelStep, Begins, Closes, ServesCall, FetchesList, Refuses, Accepts, Pings, Shows, Details, Leaves
  <1> QED
    BY <1>1, <1>2

\* What holds of a task goes on holding while it waits.
LEMMA TaskWaits ==
    ASSUME PanelTypes, PanelStep, NEW u \in Clicks, TaskOK(u), task'[u] = task[u], dialog' = u => dialog = u
    PROVE  TaskOK(u)'
  <1>1. task[u] \in TaskRow /\ task[u].sent \in Nat
    BY DEF PanelTypes, TaskRow
  <1>2. task[u].step = "called" /\ task[u].ok /\ task[u].op \notin Panel!Reading =>
            task[u].got[task[u].row] <= rows'[task[u].row]
    <2>1. task[u].got \in Versions
      BY <1>1 DEF TaskRow
    <2>2. task[u].row \in PanelRows => task[u].got[task[u].row] \in Nat
      BY <2>1, GoneTypes DEF Versions
    <2> QED
      BY <2>2, RowsGrow DEF TaskOK
  <1>3. task[u].sent <= clock'
    BY <1>1, StepMono DEF TaskOK
  <1> QED
    BY <1>2, <1>3, StepMono DEF TaskOK

-----------------------------------------------------------------------------
LEMMA TasksKeep ==
    ASSUME PanelTypes, TaskInv, PanelStep
    PROVE  TaskInv'
  <1> DEFINE Rest(t) == \A u \in Clicks \ {t} : task'[u] = task[u]
             Quietly(t) == \A u \in Clicks \ {t} : dialog' = u => dialog = u
  <1>1. ASSUME NEW t \in Clicks, Rest(t), Quietly(t), TaskOK(t)' PROVE TaskInv'
    <2> SUFFICES ASSUME NEW u \in Clicks PROVE TaskOK(u)'
      BY DEF TaskInv
    <2>1. CASE u = t
      BY <1>1, <2>1
    <2>2. CASE u # t
      BY <1>1, <2>2, TaskWaits DEF TaskInv
    <2> QED
      BY <2>1, <2>2
  <1>2. \A t \in Clicks : TaskOK(t) /\ t # None
    BY PanelsAssumption DEF TaskInv
  <1>3. /\ clock \in Nat /\ clock' \in Nat /\ clock <= clock' /\ faults \in Nat /\ faults <= faults'
        /\ kind' = kind /\ (faults' = 0 => faults = 0)
    BY StepMono
  <1>4. \A t \in Clicks : task[t].sent \in Nat
    BY DEF PanelTypes, TaskRow
  <1>5. Panel!Idle.op = "none" /\ Panel!Idle.step = "idle" /\ Panel!Idle.sent = 0
    BY DEF Panel!Idle
  <1> USE DEF Panel!banner, Panel!detail
  <1>6. ASSUME NEW t \in Clicks, NEW r, Begins(t, r) PROVE TaskInv'
    <2>1. task'[t] = r /\ Rest(t)
      BY <1>6, BecomesRow DEF Begins
    <2>2. Quietly(t)
      BY <1>2, <1>6 DEF Begins
    <2>3. TaskOK(t)'
      BY <1>2, <1>3, <1>6, <2>1 DEF Begins, TaskOK
    <2> QED
      BY <1>1, <2>1, <2>2, <2>3
  <1>7. ASSUME NEW t \in Clicks, NEW r, Closes(t, r) PROVE TaskInv'
    <2>1. task'[t] = r /\ Rest(t) /\ Quietly(t)
      BY <1>2, <1>7, BecomesRow DEF Closes
    <2>2. TaskOK(t) /\ task[t].step = "confirm" /\ dialog' # t
      BY <1>2, <1>7 DEF Closes, TaskOK
    <2>3. TaskOK(t)'
      BY <1>2, <1>3, <1>4, <1>5, <1>7, <2>1, <2>2 DEF Closes, TaskOK, Panel!Reading
    <2> QED
      BY <1>1, <2>1, <2>3
  <1>8. ASSUME NEW t \in Clicks, NEW r, ServesCall(t, r) PROVE TaskInv'
    <2>1. task'[t] = r /\ Rest(t) /\ Quietly(t)
      BY <1>2, <1>8, BecomesRow DEF ServesCall
    <2>2. TaskOK(t) /\ dialog' # t
      BY <1>2, <1>8 DEF ServesCall, TaskOK
    <2>3. r.row \in PanelRows /\ r.op \notin Panel!Reading /\ r.ok =>
                r.got[r.row] \in 1..Panel!Gone /\ r.got[r.row] <= rows'[r.row]
      <3>1. r.op \in Panel!Reading \/ ~ r.ok
            \/ (r.got[r.row] \in 1..Panel!Gone /\ rows' = [rows EXCEPT ![r.row] = r.got[r.row]])
        BY <1>8 DEF ServesCall
      <3>2. ASSUME r.row \in PanelRows, r.got[r.row] \in 1..Panel!Gone, rows' = [rows EXCEPT ![r.row] = r.got[r.row]]
            PROVE  r.got[r.row] <= rows'[r.row]
        BY <3>2, GoneTypes DEF PanelTypes, Versions
      <3> QED
        BY <3>1, <3>2
    <2>4. r.op \notin {"none", "load"} /\ (r.op \notin {"create", "load"} => r.row \in PanelRows)
      BY <1>8, <2>2 DEF ServesCall, TaskOK
    <2>5. r.op \notin Panel!Reading /\ r.ok => r.row \in PanelRows
      BY <1>8 DEF ServesCall
    <2>6. r.sent <= clock' /\ (faults' = 0 /\ r.op \in Panel!Reading => r.ok)
      BY <1>3, <1>4, <1>8, <2>2 DEF ServesCall, TaskOK
    <2>7. (r.op = "ping" => kind = "webhook") /\ r.step = "called"
      BY <1>8, <2>2 DEF ServesCall, TaskOK
    <2>8. TaskOK(t)'
      BY <1>3, <2>1, <2>2, <2>3, <2>4, <2>5, <2>6, <2>7 DEF TaskOK
    <2> QED
      BY <1>1, <2>1, <2>8
  <1>9. ASSUME NEW t \in Clicks, NEW r,
               FetchesList(t, r) \/ Refuses(t, r) \/ Accepts(t, r) \/ Pings(t, r) \/ Shows(t, r)
        PROVE  TaskInv'
    <2>1. task'[t] = r /\ Rest(t)
      BY <1>9, BecomesRow DEF FetchesList, Refuses, Accepts, Pings, Shows
    <2>2. TaskOK(t) /\ task[t].step \in {"load", "called", "loaded"} /\ dialog' = dialog
      BY <1>2, <1>9 DEF FetchesList, Refuses, Accepts, Pings, Shows
    <2>3. dialog' # t /\ Quietly(t)
      BY <2>2 DEF TaskOK
    <2>4. /\ r.step \in {"idle", "load", "loaded", "call"}
          /\ r.step = "call" => r.op = "details" /\ r.ok /\ r.sent = 0 /\ task[t].op = "ping" /\ r.row = task[t].row
          /\ r.step \in {"load", "loaded"} => r.op = task[t].op /\ r.row = task[t].row /\ r.ok = task[t].ok
                                                /\ (r.sent = task[t].sent \/ r.sent = clock')
          /\ r.step = "idle" => r = Panel!Idle
      BY <1>5, <1>9 DEF FetchesList, Refuses, Accepts, Pings, Shows, Reloads
    <2>5. TaskOK(t)'
      <3>1. CASE r.step = "idle"
        BY <1>3, <1>5, <2>1, <2>3, <2>4, <3>1 DEF TaskOK, Panel!Reading
      <3>2. CASE r.step = "call"
        BY <1>3, <2>1, <2>2, <2>3, <2>4, <3>2 DEF TaskOK
      <3>3. CASE r.step \in {"load", "loaded"}
        BY <1>3, <1>4, <2>1, <2>2, <2>3, <2>4, <3>3 DEF TaskOK
      <3> QED
        BY <2>4, <3>1, <3>2, <3>3
    <2> QED
      BY <1>1, <2>1, <2>3, <2>5
  <1>10. ASSUME NEW t \in Clicks, Details(t) PROVE TaskInv'
    <2>1. task'[t] = Panel!Idle /\ Rest(t) /\ dialog' = dialog /\ TaskOK(t) /\ task[t].step = "called"
      BY <1>2, <1>10, BecomesRow DEF Details
    <2>2. TaskOK(t)' /\ Quietly(t)
      BY <1>3, <1>5, <2>1 DEF TaskOK, Panel!Reading
    <2> QED
      BY <1>1, <2>1, <2>2
  <1>11. CASE Leaves
    <2>1. task' = task /\ dialog' = dialog
      BY <1>11 DEF Leaves
    <2> QED
      BY <1>2, <2>1, TaskWaits DEF TaskInv
  <1> QED
    BY <1>6, <1>7, <1>8, <1>9, <1>10, <1>11 DEF PanelStep

LEMMA KnownKeeps ==
    ASSUME PanelTypes, TaskInv, KnownInv, PanelStep
    PROVE  KnownInv'
  <1> USE DEF Panel!shown
  <1>1. /\ clock \in Nat /\ clock' \in Nat /\ clock <= clock' /\ latest \in Nat
        /\ \A r \in PanelRows : known[r] \in Nat
    BY StepMono, GoneTypes DEF PanelTypes, Versions
  <1>2. ASSUME UNCHANGED <<latest, known>> PROVE KnownInv'
    BY <1>1, <1>2, RowsGrow DEF KnownInv
  <1>3. ASSUME NEW t \in Clicks, NEW r, Accepts(t, r) PROVE KnownInv'
    <2>1. /\ task[t].row \in PanelRows /\ task[t].got[task[t].row] <= rows[task[t].row]
          /\ task[t].got[task[t].row] \in Nat
      BY <1>3, GotRow DEF Accepts
    <2>2. latest' <= clock' /\ rows' = rows
      BY <1>1, <1>3 DEF Accepts
    <2>3. \A x \in PanelRows : known'[x] <= rows[x]
      BY <1>1, <1>3, <2>1 DEF Accepts, KnownInv, PanelTypes, Versions
    <2> QED
      BY <2>2, <2>3 DEF KnownInv
  <1>4. ASSUME NEW t \in Clicks, NEW r, Shows(t, r) PROVE KnownInv'
    <2>1. task[t].sent <= clock /\ task[t].sent \in Nat
      BY DEF TaskInv, TaskOK, PanelTypes, TaskRow
    <2>2. latest' <= clock'
      BY <1>1, <1>4, <2>1 DEF Shows, KnownInv
    <2> QED
      BY <1>1, <1>4, <2>2, RowsGrow DEF Shows, KnownInv
  <1>5. CASE UNCHANGED <<latest, known>> \/ \E t \in Clicks : \E r : Accepts(t, r) \/ Shows(t, r)
    BY <1>2, <1>3, <1>4, <1>5
  <1> QED
    BY <1>5 DEF PanelStep, Begins, Closes, ServesCall, FetchesList, Refuses, Pings, Details, Leaves

-----------------------------------------------------------------------------
LEMMA GotKeeps ==
    ASSUME PanelTypes, TaskInv, KnownInv, GotInv, PanelStep, KnownInv'
    PROVE  GotInv'
  <1> USE DEF Panel!shown
  <1>1. /\ rows \in Versions /\ rows' \in Versions /\ known \in Versions
        /\ \A r \in PanelRows : known[r] <= rows[r] /\ rows[r] <= rows'[r]
    BY RowsGrow DEF PanelTypes, KnownInv
  <1>2. /\ clock \in Nat /\ clock' \in Nat /\ latest \in Nat /\ latest <= clock
        /\ \A t \in Clicks : task[t].sent \in Nat /\ task[t].sent <= clock
    BY StepMono DEF KnownInv, PanelTypes, TaskInv, TaskOK, TaskRow
  \* What was got before is still good.
  <1>3. ASSUME NEW u \in Clicks, known' = known, latest' \in Nat, latest <= latest', task'[u] = task[u],
               task'[u].step = "loaded", task'[u].sent >= latest'
        PROVE  Good(task[u].got)'
    <2>1. Good(task[u].got)
      BY <1>2, <1>3 DEF GotInv
    <2>2. ShowsIt(task[u].got, known, rows')
      BY <1>1, <2>1, GoodStays DEF Good
    <2> QED
      BY <1>3, <2>2 DEF Good
  \* A task that has got nothing now.
  <1>4. ASSUME NEW t \in Clicks, \A u \in Clicks \ {t} : task'[u] = task[u], task'[t].step # "loaded",
               known' = known, latest' \in Nat, latest <= latest'
        PROVE  GotInv'
    BY <1>3, <1>4 DEF GotInv, Good
  <1>5. ASSUME NEW t \in Clicks, NEW r, FetchesList(t, r) PROVE GotInv'
    <2>1. /\ task'[t] = r /\ \A u \in Clicks \ {t} : task'[u] = task[u]
          /\ r.got = Current /\ UNCHANGED <<rows, known, latest>>
      BY <1>5, BecomesRow DEF FetchesList
    <2>2. ShowsIt(Current, known, rows)
      BY <1>1, GoneTypes, PanelsAssumption DEF ShowsIt, Current, Panel!Here, Versions, Panel!Gone
    <2>3. \A u \in Clicks : task'[u].step = "loaded" /\ task'[u].sent >= latest' => ShowsIt(task'[u].got, known, rows)
      BY <1>2, <1>3, <2>1, <2>2 DEF Good
    <2> QED
      BY <2>1, <2>3 DEF GotInv, Good
  <1>6. ASSUME NEW t \in Clicks, NEW r, Accepts(t, r) PROVE GotInv'
    <2>1. /\ task'[t] = r /\ \A u \in Clicks \ {t} : task'[u] = task[u]
          /\ latest' = clock + 1 /\ r.step # "loaded"
      <3>1. r = Panel!Idle \/ r.step = "load"
        BY <1>6 DEF Accepts, Reloads
      <3> QED
        BY <1>6, <3>1, BecomesRow DEF Accepts, Panel!Idle
    <2>2. \A u \in Clicks : task'[u].step = "loaded" => ~ (task'[u].sent >= latest')
      BY <1>2, <2>1
    <2> QED
      BY <2>2 DEF GotInv
  <1>7. ASSUME NEW t \in Clicks, NEW r, Shows(t, r) PROVE GotInv'
    <2>1. /\ \A u \in Clicks \ {t} : task'[u] = task[u]
          /\ task'[t].step # "loaded" /\ known' = known
      BY <1>7, BecomesRow DEF Shows, Panel!Idle
    <2>2. latest' \in Nat /\ latest <= latest'
      BY <1>2, <1>7 DEF Shows
    <2> QED
      BY <1>4, <2>1, <2>2
  <1>8. ASSUME NEW t \in Clicks, NEW r,
               Begins(t, r) \/ Closes(t, r) \/ ServesCall(t, r) \/ Refuses(t, r) \/ Pings(t, r)
        PROVE  GotInv'
    <2>1. /\ \A u \in Clicks \ {t} : task'[u] = task[u]
          /\ task'[t].step # "loaded" /\ known' = known /\ latest' = latest
      BY <1>8, BecomesRow DEF Begins, Closes, ServesCall, Refuses, Pings, Reloads, Panel!Idle
    <2> QED
      BY <1>2, <1>4, <2>1
  <1>9. ASSUME NEW t \in Clicks, Details(t) PROVE GotInv'
    <2>1. /\ \A u \in Clicks \ {t} : task'[u] = task[u]
          /\ task'[t].step # "loaded" /\ known' = known /\ latest' = latest
      BY <1>9, BecomesRow DEF Details, Panel!Idle
    <2> QED
      BY <1>2, <1>4, <2>1
  <1>10. CASE Leaves
    <2>1. task' = task /\ known' = known /\ latest' = latest
      BY <1>10 DEF Leaves
    <2> QED
      BY <1>2, <1>3, <2>1 DEF GotInv, Good
  <1> QED
    BY <1>5, <1>6, <1>7, <1>8, <1>9, <1>10 DEF PanelStep

LEMMA ListKeeps ==
    ASSUME PanelTypes, TaskInv, KnownInv, GotInv, ListInv, PanelStep
    PROVE  ListInv'
  <1> SUFFICES ASSUME kind \notin Panel!Patches, ~ crossed' PROVE Good(list)' \/ Awaited'
    BY StepMono DEF ListInv
  <1> USE DEF Panel!shown
  <1>1. /\ rows \in Versions /\ rows' \in Versions /\ known \in Versions
        /\ \A r \in PanelRows : known[r] <= rows[r] /\ rows[r] <= rows'[r]
    BY RowsGrow DEF PanelTypes, KnownInv
  <1>2. /\ clock \in Nat /\ clock' \in Nat /\ latest \in Nat /\ latest <= clock
        /\ \A t \in Clicks : task[t].sent \in Nat /\ task[t].sent <= clock
    BY StepMono DEF KnownInv, PanelTypes, TaskInv, TaskOK, TaskRow
  \* While the list stays, and no task that is awaited ends.
  <1>3. ASSUME UNCHANGED <<list, known, latest, crossed>>, Awaited => Awaited' PROVE Good(list)' \/ Awaited'
    <2>1. Good(list) \/ Awaited
      BY <1>3 DEF ListInv
    <2>2. Good(list) => ShowsIt(list, known, rows')
      BY <1>1, GoodStays DEF Good
    <2> QED
      BY <1>3, <2>1, <2>2 DEF Good
  <1>4. ASSUME NEW t \in Clicks, \A u \in Clicks \ {t} : task'[u] = task[u], latest' = latest,
               task[t].step \in {"load", "loaded"} =>
                    task'[t].step \in {"load", "loaded"} /\ task'[t].sent = task[t].sent
        PROVE  Awaited => Awaited'
    <2> SUFFICES ASSUME NEW u \in Clicks, task[u].step \in {"load", "loaded"}, task[u].sent >= latest
                 PROVE  task'[u].step \in {"load", "loaded"} /\ task'[u].sent >= latest'
      BY DEF Awaited
    <2> QED
      BY <1>4
  <1>5. ASSUME NEW t \in Clicks, NEW r, Accepts(t, r) PROVE Awaited'
    <2>1. task'[t] = r /\ r.step = "load" /\ r.sent = clock' /\ latest' = clock'
      BY <1>5, BecomesRow DEF Accepts, Reloads
    <2> QED
      BY <1>2, <2>1 DEF Awaited
  <1>6. ASSUME NEW t \in Clicks, NEW r, Shows(t, r) PROVE Good(list)'
    <2>1. task[t].step = "loaded" /\ task[t].sent >= latest /\ UNCHANGED <<rows, known>> /\ list' = task[t].got
      <3>1. ~ (task[t].sent < latest)
        BY <1>6, Zenon DEF Shows
      <3> QED
        BY <1>2, <1>6, <3>1 DEF Shows
    <2>2. Good(task[t].got)
      BY <2>1 DEF GotInv
    <2> QED
      BY <2>1, <2>2 DEF Good
  <1>7. ASSUME NEW t \in Clicks, NEW r,
               Begins(t, r) \/ Closes(t, r) \/ ServesCall(t, r) \/ Refuses(t, r) \/ Pings(t, r)
        PROVE  Good(list)' \/ Awaited'
    <2>1. TaskOK(t)
      BY DEF TaskInv
    <2>2. /\ \A u \in Clicks \ {t} : task'[u] = task[u]
          /\ UNCHANGED <<list, known, latest, crossed>>
      BY <1>7, BecomesRow DEF Begins, Closes, ServesCall, Refuses, Pings
    <2>3. task[t].step \in {"idle", "confirm", "call", "called"}
      BY <1>7, <2>1 DEF Begins, Closes, ServesCall, Refuses, Pings, TaskOK
    <2> QED
      BY <1>3, <1>4, <2>2, <2>3
  <1>8. ASSUME NEW t \in Clicks, NEW r, FetchesList(t, r) PROVE Good(list)' \/ Awaited'
    <2>1. /\ \A u \in Clicks \ {t} : task'[u] = task[u]
          /\ UNCHANGED <<list, known, latest, crossed>>
          /\ task'[t].step = "loaded" /\ task'[t].sent = task[t].sent
      BY <1>8, BecomesRow DEF FetchesList
    <2> QED
      BY <1>3, <1>4, <2>1
  <1>9. ASSUME NEW t \in Clicks, Details(t) PROVE Good(list)' \/ Awaited'
    <2>1. /\ \A u \in Clicks \ {t} : task'[u] = task[u]
          /\ UNCHANGED <<list, known, latest, crossed>> /\ task[t].step = "called"
      BY <1>9, BecomesRow DEF Details
    <2> QED
      BY <1>3, <1>4, <2>1
  <1>10. CASE Leaves
    <2>1. task' = task /\ UNCHANGED <<list, known, latest, crossed>>
      BY <1>10 DEF Leaves
    <2>2. Awaited => Awaited'
      BY <2>1 DEF Awaited
    <2> QED
      BY <1>3, <2>1, <2>2
  <1> QED
    BY <1>5, <1>6, <1>7, <1>8, <1>9, <1>10 DEF PanelStep

-----------------------------------------------------------------------------
\* What PatchInv says of the comments, in two parts.
FirstList ==
    \A t \in Clicks : task[t].step \in {"load", "loaded"} =>
        /\ task[t].sent = 0
        /\ \A u \in Clicks : task[u].step \in {"load", "loaded"} => u = t
        /\ latest = 0 => ~ crossed /\ \A r \in PanelRows : list[r] = 0

Abreast(t) ==
    /\ task[t].step # "idle" /\ task[t].op \in {"change", "remove"} => list[task[t].row] # 0
    /\ task[t].step = "called" /\ task[t].ok /\ task[t].op \notin Panel!Reading =>
            task[t].got[task[t].row] >= known[task[t].row]

LEMMA PatchParts ==
    PatchInv <=> (kind \in Panel!Patches => FirstList /\ (~ crossed => Good(list) /\ \A t \in Clicks : Abreast(t)))
  BY DEF PatchInv, FirstList, Abreast

\* No task loads the list of the comments a second time.
LEMMA FirstKeeps ==
    ASSUME PanelTypes, TaskInv, KnownInv, kind \in Panel!Patches, FirstList, PanelStep
    PROVE  FirstList'
  <1> USE DEF Panel!shown
  <1>1. /\ clock \in Nat /\ clock' \in Nat /\ latest \in Nat
        /\ \A t \in Clicks : task[t].sent \in Nat /\ TaskOK(t)
        /\ kind = "comments"
    BY StepMono DEF PanelTypes, TaskInv, TaskRow, Panel!Patches
  \* Tasks that load stay the same, or one of them ends.
  <1>2. ASSUME NEW t \in Clicks, \A u \in Clicks \ {t} : task'[u] = task[u],
               task'[t].step \in {"load", "loaded"} =>
                    task[t].step \in {"load", "loaded"} /\ task'[t].sent = task[t].sent,
               latest' = 0 => latest = 0 /\ (crossed' = crossed) /\ list' = list
        PROVE  FirstList'
    BY <1>2 DEF FirstList
  <1>3. ASSUME NEW t \in Clicks, NEW r, Begins(t, r) PROVE FirstList'
    <2>1. /\ \A u \in Clicks \ {t} : task'[u] = task[u]
          /\ UNCHANGED <<list, latest, crossed>> /\ task'[t].step \notin {"load", "loaded"}
      BY <1>3, BecomesRow DEF Begins
    <2> QED
      BY <1>2, <2>1
  <1>4. ASSUME NEW t \in Clicks, NEW r, Closes(t, r) PROVE FirstList'
    <2>1. /\ \A u \in Clicks \ {t} : task'[u] = task[u]
          /\ UNCHANGED <<list, latest, crossed>> /\ task'[t] = r
      BY <1>4, BecomesRow DEF Closes
    <2>2. task[t].op # "change"
      BY <1>1, <1>4 DEF Closes, TaskOK
    <2>3. r.step \in {"call", "idle"}
      BY <1>4, <2>2 DEF Closes, Panel!Idle
    <2> QED
      BY <1>2, <2>1, <2>3
  <1>5. ASSUME NEW t \in Clicks, NEW r, ServesCall(t, r) \/ FetchesList(t, r) \/ Refuses(t, r) PROVE FirstList'
    <2>1. /\ \A u \in Clicks \ {t} : task'[u] = task[u]
          /\ UNCHANGED <<list, latest, crossed>> /\ task'[t] = r
      BY <1>5, BecomesRow DEF ServesCall, FetchesList, Refuses
    <2>2. \/ r.step \in {"called", "idle"}
          \/ r.step = "loaded" /\ task[t].step = "load" /\ r.sent = task[t].sent
      BY <1>1, <1>5 DEF ServesCall, FetchesList, Refuses, Panel!Idle
    <2> QED
      BY <1>2, <2>1, <2>2
  <1>6. ASSUME NEW t \in Clicks, NEW r, Accepts(t, r) PROVE FirstList'
    <2>1. /\ \A u \in Clicks \ {t} : task'[u] = task[u]
          /\ task'[t] = Panel!Idle /\ latest' = clock + 1
      BY <1>6, BecomesRow DEF Accepts
    <2>2. latest' # 0 /\ task'[t].step = "idle"
      BY <1>1, <2>1 DEF Panel!Idle
    <2> QED
      BY <1>2, <2>1, <2>2
  <1>7. ASSUME NEW t \in Clicks, NEW r, Pings(t, r) PROVE FirstList'
    BY <1>1, <1>7 DEF Pings, TaskOK
  <1>8. ASSUME NEW t \in Clicks, NEW r, Shows(t, r) PROVE FirstList'
    <2>1. /\ \A u \in Clicks \ {t} : task'[u] = task[u]
          /\ task'[t].step \notin {"load", "loaded"} /\ task[t].step = "loaded"
      BY <1>8, BecomesRow DEF Shows, Panel!Idle
    <2>2. \A u \in Clicks : task'[u].step \notin {"load", "loaded"}
      BY <2>1 DEF FirstList
    <2> QED
      BY <2>2 DEF FirstList
  <1>9. ASSUME NEW t \in Clicks, Details(t) PROVE FirstList'
    <2>1. /\ \A u \in Clicks \ {t} : task'[u] = task[u]
          /\ UNCHANGED <<list, latest, crossed>> /\ task'[t].step = "idle"
      BY <1>9, BecomesRow DEF Details, Panel!Idle
    <2> QED
      BY <1>2, <2>1
  <1>10. CASE Leaves
    <2>1. task' = task /\ UNCHANGED <<list, latest, crossed>>
      BY <1>10 DEF Leaves
    <2> QED
      BY <2>1 DEF FirstList
  <1> QED
    BY <1>3, <1>4, <1>5, <1>6, <1>7, <1>8, <1>9, <1>10 DEF PanelStep

LEMMA PatchKeeps ==
    ASSUME PanelTypes, TaskInv, KnownInv, GotInv, PatchInv, PanelStep
    PROVE  PatchInv'
  <1> SUFFICES ASSUME kind \in Panel!Patches
               PROVE  FirstList' /\ (~ crossed' => Good(list)' /\ \A t \in Clicks : Abreast(t)')
    BY StepMono DEF PatchInv, FirstList, Abreast
  <1>0. FirstList /\ (~ crossed => Good(list) /\ \A t \in Clicks : Abreast(t))
    BY PatchParts
  <1> SUFFICES ASSUME ~ crossed' PROVE Good(list)' /\ \A t \in Clicks : Abreast(t)'
    BY <1>0, FirstKeeps
  <1> USE DEF Panel!shown
  <1>1. /\ rows \in Versions /\ rows' \in Versions /\ known \in Versions
        /\ \A r \in PanelRows : known[r] <= rows[r] /\ rows[r] <= rows'[r]
    BY RowsGrow DEF PanelTypes, KnownInv
  <1>2. /\ clock \in Nat /\ latest \in Nat /\ kind = "comments"
        /\ \A t \in Clicks : task[t].sent \in Nat /\ TaskOK(t)
    BY DEF KnownInv, PanelTypes, TaskInv, TaskRow, Panel!Patches
  \* While the list stays.
  <1>3. ASSUME UNCHANGED <<list, known, crossed>> PROVE Good(list)' /\ \A t \in Clicks : Abreast(t)
    <2>1. ~ crossed
      BY <1>3
    <2>2. ShowsIt(list, known, rows')
      BY <1>0, <1>1, <2>1, GoodStays DEF Good
    <2> QED
      BY <1>0, <1>3, <2>1, <2>2 DEF Good
  <1>4. ASSUME NEW t \in Clicks, \A u \in Clicks \ {t} : task'[u] = task[u], UNCHANGED <<list, known, crossed>>,
               Abreast(t)'
        PROVE  Good(list)' /\ \A u \in Clicks : Abreast(u)'
    <2> SUFFICES ASSUME NEW u \in Clicks PROVE Abreast(u)'
      BY <1>3, <1>4
    <2>1. CASE u = t
      BY <1>4, <2>1
    <2>2. CASE u # t
      BY <1>3, <1>4, <2>2 DEF Abreast
    <2> QED
      BY <2>1, <2>2
  <1>5. ASSUME NEW t \in Clicks, NEW r, Begins(t, r) PROVE Good(list)' /\ \A u \in Clicks : Abreast(u)'
    <2>1. /\ \A u \in Clicks \ {t} : task'[u] = task[u]
          /\ UNCHANGED <<list, known, crossed>> /\ task'[t] = r
      BY <1>5, BecomesRow DEF Begins
    <2>2. Abreast(t)'
      BY <1>5, <2>1 DEF Begins, Abreast
    <2> QED
      BY <1>4, <2>1, <2>2
  <1>6. ASSUME NEW t \in Clicks, NEW r, Closes(t, r) PROVE Good(list)' /\ \A u \in Clicks : Abreast(u)'
    <2>1. /\ \A u \in Clicks \ {t} : task'[u] = task[u]
          /\ UNCHANGED <<list, known, crossed>> /\ task'[t] = r /\ task[t].step = "confirm"
      BY <1>2, <1>6, BecomesRow DEF Closes, TaskOK
    <2>2. task[t].op # "change" /\ Abreast(t)
      BY <1>2, <1>3, <1>6, <2>1 DEF Closes, TaskOK
    <2>3. (r.step = "call" /\ r.op = task[t].op /\ r.row = task[t].row) \/ r.step = "idle"
      BY <1>6, <2>2 DEF Closes, Panel!Idle
    <2>4. Abreast(t)'
      BY <2>1, <2>2, <2>3 DEF Abreast
    <2> QED
      BY <1>4, <2>1, <2>4
  <1>7. ASSUME NEW t \in Clicks, NEW r, ServesCall(t, r) PROVE Good(list)' /\ \A u \in Clicks : Abreast(u)'
    <2>1. /\ \A u \in Clicks \ {t} : task'[u] = task[u]
          /\ UNCHANGED <<list, known, crossed>> /\ task'[t] = r /\ task[t].step = "call" /\ r.op = task[t].op
      BY <1>7, BecomesRow DEF ServesCall
    <2>2. Abreast(t)
      BY <1>3, <2>1
    <2>3. r.op \in {"change", "remove"} => list[r.row] # 0
      BY <1>7, <2>1, <2>2 DEF ServesCall, Abreast
    <2>4. r.ok /\ r.op \notin Panel!Reading => r.row \in PanelRows /\ r.got[r.row] \in Nat /\ r.got[r.row] > rows[r.row]
      <3>1. r.op \in Panel!Reading \/ ~ r.ok
            \/ (r.row \in PanelRows /\ r.got[r.row] \in 1..Panel!Gone /\ r.got[r.row] > rows[r.row])
        BY <1>7 DEF ServesCall
      <3> QED
        BY <3>1, GoneTypes
    <2>5. \A x \in PanelRows : known[x] \in Nat /\ rows[x] \in Nat
      BY <1>1, GoneTypes DEF Versions
    <2>6. Abreast(t)'
      BY <1>1, <2>1, <2>3, <2>4, <2>5 DEF Abreast
    <2> QED
      BY <1>4, <2>1, <2>6
  <1>8. ASSUME NEW t \in Clicks, NEW r, FetchesList(t, r) \/ Refuses(t, r) PROVE Good(list)' /\ \A u \in Clicks : Abreast(u)'
    <2>1. /\ \A u \in Clicks \ {t} : task'[u] = task[u]
          /\ UNCHANGED <<list, known, crossed>> /\ task'[t] = r
      BY <1>8, BecomesRow DEF FetchesList, Refuses
    <2>2. r.step = "idle" \/ (r.step = "loaded" /\ task[t].step = "load" /\ r.op = task[t].op /\ r.row = task[t].row)
      BY <1>2, <1>8 DEF FetchesList, Refuses, Panel!Idle
    <2>3. Abreast(t)'
      BY <1>3, <2>1, <2>2 DEF Abreast
    <2> QED
      BY <1>4, <2>1, <2>3
  <1>9. ASSUME NEW t \in Clicks, NEW r, Pings(t, r) PROVE FALSE
    BY <1>2, <1>9 DEF Pings, TaskOK
  <1>10. ASSUME NEW t \in Clicks, Details(t) PROVE Good(list)' /\ \A u \in Clicks : Abreast(u)'
    <2>1. /\ \A u \in Clicks \ {t} : task'[u] = task[u]
          /\ UNCHANGED <<list, known, crossed>> /\ task'[t].step = "idle"
      BY <1>10, BecomesRow DEF Details, Panel!Idle
    <2>2. Abreast(t)'
      BY <2>1 DEF Abreast
    <2> QED
      BY <1>4, <2>1, <2>2
  <1>11. CASE Leaves
    <2>1. task' = task /\ UNCHANGED <<list, known, crossed>>
      BY <1>11 DEF Leaves
    <2> QED
      BY <1>3, <2>1 DEF Abreast
  \* The first list finds nothing that it could overtake.
  <1>12. ASSUME NEW t \in Clicks, NEW r, Shows(t, r) PROVE Good(list)' /\ \A u \in Clicks : Abreast(u)'
    <2>1. /\ \A u \in Clicks \ {t} : task'[u] = task[u]
          /\ UNCHANGED <<rows, known>> /\ task[t].step = "loaded" /\ task[t].sent = 0 /\ list' = task[t].got
          /\ task'[t] = r
      BY <1>0, <1>12, BecomesRow DEF Shows, FirstList
    <2>2. task[t].op # "ping" /\ task'[t].step = "idle"
      BY <1>2, <1>12, <2>1 DEF Shows, TaskOK, Panel!Idle
    <2>3. ~ (task[t].sent < latest)
      BY <1>12, Zenon DEF Shows
    <2>4. latest = 0
      BY <1>2, <2>1, <2>3
    <2>5. Good(list)'
      BY <2>1, <2>4 DEF GotInv, Good
    <2>6. (\A x \in PanelRows : list[x] = 0) /\ \A u \in Clicks : Abreast(u)
      BY <1>0, <2>1, <2>4 DEF FirstList
    <2>7. \A u \in Clicks \ {t} : Abreast(u)'
      <3> SUFFICES ASSUME NEW u \in Clicks \ {t} PROVE Abreast(u)'
        OBVIOUS
      <3>1. task[u].step # "idle" /\ task[u].op \in {"change", "remove"} =>
                list[task[u].row] # 0 /\ task[u].step \in {"confirm", "call", "called"}
        BY <1>0, <2>1, <2>6 DEF Abreast, FirstList, PanelTypes, TaskRow
      <3>2. task[u].step # "idle" => task[u].op \notin {"change", "remove"}
        BY <1>2, <2>6, <3>1 DEF TaskOK
      <3> QED
        BY <2>1, <2>6, <3>2 DEF Abreast
    <2>8. Abreast(t)'
      BY <2>2 DEF Abreast
    <2> QED
      BY <2>5, <2>7, <2>8
  \* A change that is patched in.
  <1>13. ASSUME NEW t \in Clicks, NEW r, Accepts(t, r) PROVE Good(list)' /\ \A u \in Clicks : Abreast(u)'
    <2> DEFINE x == task[t].row
               n == task[t].got[x]
    <2>1. /\ \A u \in Clicks \ {t} : task'[u] = task[u]
          /\ task'[t].step = "idle" /\ rows' = rows /\ list' = Panel!Patched(t)
          /\ known' = [known EXCEPT ![x] = IF @ > n THEN @ ELSE n]
          /\ task[t].step = "called" /\ task[t].ok /\ task[t].op \notin Panel!Reading
      BY <1>13, BecomesRow DEF Accepts, Panel!Idle
    <2>2. ~ (crossed \/ \E u \in Clicks \ {t} : task[u].row = task[t].row)
      BY <1>13, Zenon DEF Accepts
    <2>3. /\ ~ crossed /\ \A u \in Clicks \ {t} : task[u].row # x
          /\ Good(list) /\ \A u \in Clicks : Abreast(u)
      BY <1>0, <2>2
    <2>4. x \in PanelRows /\ n \in 1..Panel!Gone /\ n \in Nat
      BY <2>1, GotRow
    <2>5. n >= known[x] /\ (task[t].op = "change" => list[x] # 0)
      BY <2>1, <2>3 DEF Abreast
    <2>6. \A y \in PanelRows : known[y] \in Nat
      BY <1>1, GoneTypes DEF Versions
    <2>7. known'[x] = n /\ \A y \in PanelRows \ {x} : known'[y] = known[y]
      BY <1>1, <2>1, <2>4, <2>5, <2>6 DEF Versions
    <2>8. list'[x] = (IF n = Panel!Gone THEN 0 ELSE n) /\ \A y \in PanelRows \ {x} : list'[y] = list[y]
      BY <2>1, <2>4, <2>5 DEF Panel!Patched, PanelTypes, Versions
    <2> HIDE DEF x, n
    <2>9. ShowsIt(list', known', rows)
      <3> SUFFICES ASSUME NEW y \in PanelRows
                   PROVE  /\ known'[y] = Panel!Gone => list'[y] = 0
                          /\ known'[y] \in 1..MaxEdits /\ rows[y] \in 1..MaxEdits => list'[y] >= known'[y]
        BY DEF ShowsIt
      <3>1. CASE y = x
        BY <2>4, <2>7, <2>8, <3>1, PanelsAssumption DEF Panel!Gone
      <3>2. CASE y # x
        BY <2>3, <2>7, <2>8, <3>2 DEF Good, ShowsIt
      <3> QED
        BY <3>1, <3>2
    <2>10. ASSUME NEW u \in Clicks PROVE Abreast(u)'
      <3>1. CASE u = t
        BY <2>1, <3>1 DEF Abreast
      <3>2. CASE u # t
        <4>1. task'[u] = task[u] /\ task[u].row # x /\ Abreast(u) /\ TaskOK(u)
          BY <1>2, <2>1, <2>3, <3>2
        <4>2. task[u].row \in PanelRows =>
                list'[task[u].row] = list[task[u].row] /\ known'[task[u].row] = known[task[u].row]
          BY <2>7, <2>8, <4>1
        <4>3. task[u].step # "idle" /\ task[u].op \in {"change", "remove"} => task[u].row \in PanelRows
          BY <4>1 DEF TaskOK
        <4>4. task[u].step = "called" /\ task[u].ok /\ task[u].op \notin Panel!Reading => task[u].row \in PanelRows
          BY <4>1 DEF TaskOK
        <4> QED
          BY <4>1, <4>2, <4>3, <4>4 DEF Abreast
      <3> QED
        BY <3>1, <3>2
    <2> QED
      BY <2>1, <2>9, <2>10 DEF Good
  <1> QED
    BY <1>5, <1>6, <1>7, <1>8, <1>9, <1>10, <1>11, <1>12, <1>13 DEF PanelStep

-----------------------------------------------------------------------------
LEMMA DetailsKeep ==
    ASSUME PanelTypes, TaskInv, DetailsInv, PanelStep
    PROVE  DetailsInv'
  <1> SUFFICES ASSUME faults' = 0, open' # None, ~ mistaken'
               PROVE  \/ details' = open'
                      \/ \E t \in Clicks : /\ task'[t].op = "details" /\ task'[t].row = open'
                                          /\ task'[t].step \in {"call", "called"}
    BY DEF DetailsInv
  <1> DEFINE Waits(t) == task[t].op = "details" /\ task[t].row = open /\ task[t].step \in {"call", "called"}
             WaitsNext(t) == task'[t].op = "details" /\ task'[t].row = open' /\ task'[t].step \in {"call", "called"}
  <1> USE DEF Panel!detail
  <1>1. faults = 0 /\ \A t \in Clicks : TaskOK(t)
    BY StepMono DEF TaskInv
  <1>2. ASSUME NEW t \in Clicks, \A u \in Clicks \ {t} : task'[u] = task[u], Waits(t) => WaitsNext(t),
               UNCHANGED <<open, details, mistaken>>
        PROVE  details' = open' \/ \E u \in Clicks : WaitsNext(u)
    <2>1. details = open \/ \E u \in Clicks : Waits(u)
      BY <1>1, <1>2 DEF DetailsInv
    <2>2. ASSUME NEW u \in Clicks, Waits(u) PROVE WaitsNext(u)
      BY <1>2, <2>2
    <2> QED
      BY <1>2, <2>1, <2>2
  <1>3. ASSUME NEW t \in Clicks, NEW r, Begins(t, r) PROVE details' = open' \/ \E u \in Clicks : WaitsNext(u)
    <2>1. task'[t] = r /\ \A u \in Clicks \ {t} : task'[u] = task[u]
      BY <1>3, BecomesRow DEF Begins
    <2>2. CASE r.op = "details"
      BY <1>3, <2>1, <2>2 DEF Begins
    <2>3. CASE r.op # "details"
      BY <1>2, <1>3, <2>1, <2>3 DEF Begins
    <2> QED
      BY <2>2, <2>3
  <1>4. ASSUME NEW t \in Clicks, NEW r,
               Closes(t, r) \/ ServesCall(t, r) \/ FetchesList(t, r) \/ Refuses(t, r) \/ Accepts(t, r) \/ Pings(t, r)
        PROVE  details' = open' \/ \E u \in Clicks : WaitsNext(u)
    <2>1. task'[t] = r /\ (\A u \in Clicks \ {t} : task'[u] = task[u]) /\ UNCHANGED <<open, details, mistaken>>
      BY <1>4, BecomesRow DEF Closes, ServesCall, FetchesList, Refuses, Accepts, Pings
    <2>2. Waits(t) => ServesCall(t, r)
      BY <1>1, <1>4 DEF Closes, FetchesList, Refuses, Accepts, Pings, Panel!Reading, TaskOK
    <2>3. Waits(t) => r.op = "details" /\ r.row = task[t].row /\ r.step = "called"
      BY <2>2 DEF ServesCall
    <2> QED
      BY <1>2, <2>1, <2>3
  <1>5. ASSUME NEW t \in Clicks, NEW r, Shows(t, r) PROVE details' = open' \/ \E u \in Clicks : WaitsNext(u)
    <2>1. task'[t] = r /\ (\A u \in Clicks \ {t} : task'[u] = task[u]) /\ ~ Waits(t) /\ UNCHANGED <<details, mistaken>>
      BY <1>5, BecomesRow DEF Shows
    <2>2. CASE open' = open
      BY <1>2, <2>1, <2>2
    <2>3. CASE r.op = "details" /\ r.step = "call" /\ open' = r.row
      BY <2>1, <2>3
    <2> QED
      BY <1>5, <2>2, <2>3 DEF Shows
  <1>6. ASSUME NEW t \in Clicks, Details(t) PROVE details' = open' \/ \E u \in Clicks : WaitsNext(u)
    <2>1. ~ (open # task[t].row)
      BY <1>6, Zenon DEF Details
    <2> QED
      BY <1>6, <2>1 DEF Details
  <1>7. CASE Leaves
    <2>1. task' = task /\ mistaken' = mistaken /\ UNCHANGED <<open, details>>
      BY <1>7 DEF Leaves
    <2> QED
      BY <1>1, <2>1 DEF DetailsInv
  <1> QED
    BY <1>3, <1>4, <1>5, <1>6, <1>7 DEF PanelStep

LEMMA SecretKeeps ==
    ASSUME PanelTypes, Panel!SecretKept, PanelStep
    PROVE  Panel!SecretKept'
  <1> USE DEF Panel!banner
  <1>1. ASSUME NEW t \in Clicks, NEW r, Accepts(t, r) PROVE Panel!SecretKept'
    <2>1. Panel!Banner(t)
      BY <1>1 DEF Accepts
    <2> DEFINE a == task[t].op = "create" /\ kind \in Panel!WithSecret
               b == kind \in Panel!HidesRevoked /\ task[t].op = "remove" /\ task[t].saw = task[t].row
    <2>2. CASE a
      BY <2>1, <2>2 DEF Panel!Banner, Panel!SecretKept
    <2>3. CASE ~ a /\ b
      <3>1. /\ owed' = (IF owed = task[t].row THEN None ELSE owed)
            /\ wiped' = (owed # task[t].row)
        BY <2>1, <2>3 DEF Panel!Banner
      <3> QED
        BY <3>1 DEF Panel!SecretKept
    <2>4. CASE ~ a /\ ~ b
      BY <2>1, <2>4 DEF Panel!Banner, Panel!SecretKept
    <2> QED
      BY <2>2, <2>3, <2>4
  <1>2. CASE UNCHANGED Panel!banner \/ (secret' = None /\ owed' = None)
    BY <1>2 DEF Panel!SecretKept
  <1> QED
    BY <1>1, <1>2 DEF PanelStep, Begins, Closes, ServesCall, FetchesList, Refuses, Pings, Shows, Details, Leaves

-----------------------------------------------------------------------------
LEMMA PanelsStart == Panel!Init => PanelInv
  <1> SUFFICES ASSUME Panel!Init PROVE PanelInv
    OBVIOUS
  <1> DEFINE first == [Panel!Idle EXCEPT !.op = "load", !.step = "load"]
  <1>1. PICK t \in Clicks : task = [u \in Clicks |-> IF u = t THEN first ELSE Panel!Idle]
    BY DEF Panel!Init
  <1>2. /\ Panel!Idle \in TaskRow /\ first \in TaskRow
        /\ Panel!Idle.op = "none" /\ Panel!Idle.step = "idle" /\ Panel!Idle.ok /\ Panel!Idle.sent = 0
        /\ first.op = "load" /\ first.step = "load" /\ first.ok /\ first.sent = 0
    BY IdleTypes DEF Panel!Idle
  <1> HIDE DEF first
  <1>3. /\ rows \in Versions
        /\ list = [r \in PanelRows |-> 0] /\ known = [r \in PanelRows |-> 0] /\ dialog = None /\ secret = None
        /\ open = None /\ clock = 0 /\ faults = 0 /\ latest = 0 /\ owed = None
        /\ crossed = FALSE /\ mistaken = FALSE
    BY GoneTypes DEF Panel!Init, Versions
  <1>4. PanelTypes
    BY <1>1, <1>2, <1>3, GoneTypes DEF PanelTypes, Versions
  <1>5. \A u \in Clicks : task[u] = first \/ task[u] = Panel!Idle
    BY <1>1
  <1>6. TaskInv
    BY <1>2, <1>3, <1>5, PanelsAssumption DEF TaskInv, TaskOK, Panel!Reading
  <1>7. Good(list) /\ KnownInv
    <2>1. \A r \in PanelRows : rows[r] \in Nat
      BY <1>3, GoneTypes DEF Versions
    <2> QED
      BY <1>3, <2>1, GoneTypes DEF Good, ShowsIt, KnownInv
  <1>8. GotInv
    BY <1>2, <1>5 DEF GotInv
  <1>9. PatchInv
    <2>1. \A u \in Clicks : task[u].step \in {"load", "loaded"} => u = t /\ task[u].sent = 0
      BY <1>1, <1>2
    <2>2. FirstList
      BY <1>3, <2>1 DEF FirstList
    <2>3. \A u \in Clicks : Abreast(u)
      BY <1>2, <1>5 DEF Abreast
    <2> QED
      BY <1>7, <2>2, <2>3, PatchParts
  <1> QED
    BY <1>3, <1>4, <1>6, <1>7, <1>8, <1>9 DEF PanelInv, ListInv, DetailsInv, Panel!SecretKept

LEMMA PanelsGoOn == PanelInv /\ (Panel!Next \/ UNCHANGED state) => PanelInv'
  <1> SUFFICES ASSUME PanelInv, (Panel!Next \/ UNCHANGED state) PROVE PanelInv'
    OBVIOUS
  <1>1. PanelStep
    BY PanelSteps DEF PanelInv
  <1>2. PanelTypes' /\ TaskInv' /\ KnownInv'
    BY <1>1, TypesKeep, TasksKeep, KnownKeeps DEF PanelInv
  <1> QED
    BY <1>1, <1>2, GotKeeps, ListKeeps, PatchKeeps, DetailsKeep, SecretKeeps DEF PanelInv

LEMMA PanelsFollow == PanelInv => Panel!PanelsSound
  <1> SUFFICES ASSUME PanelInv PROVE Panel!PanelsSound
    OBVIOUS
  <1>1. ASSUME Panel!Quiet, ~ crossed PROVE Good(list)
    <2>1. \A t \in Clicks : task[t].step \notin {"load", "loaded"}
      BY <1>1 DEF Panel!Quiet
    <2>2. ~ Awaited
      BY <2>1 DEF Awaited
    <2> QED
      BY <1>1, <2>2 DEF PanelInv, ListInv, PatchInv
  <1>2. Panel!OwnChangesListed
    BY <1>1 DEF Panel!OwnChangesListed, Good, ShowsIt, Panel!Here
  <1>3. Panel!DetailsMatch
    BY DEF Panel!DetailsMatch, Panel!Quiet, PanelInv, DetailsInv
  <1> QED
    BY <1>2, <1>3 DEF Panel!PanelsSound, PanelInv

\* With nothing under way a panel lists what it has changed as it left it or newer,
\* keeps a secret until it is dismissed, and shows details under the row they are
\* about, in whatever order clicks are served and answered (share-panel.tsx,
\* webhooks-panel.tsx, members and comments of the pages).
THEOREM PanelsHold == PartsSpec => []PanelsSound
  <1> DEFINE Inv == about = "panels" => PanelInv
  <1>1. PartsInit => Inv
    BY PanelsStart DEF PartsInit
  <1>2. Inv /\ [PartsNext]_<<about, vars, state>> => Inv'
    <2> SUFFICES ASSUME Inv, [PartsNext]_<<about, vars, state>>, about' = "panels" PROVE PanelInv'
      OBVIOUS
    <2>1. about = "panels" /\ (Panel!Next \/ UNCHANGED state)
      BY DEF PartsNext
    <2> QED
      BY <2>1, PanelsGoOn
  <1>3. Inv => PanelsSound
    BY PanelsFollow DEF PanelsSound
  <1> HIDE DEF Inv
  <1> QED
    BY <1>1, <1>2, <1>3, PTL DEF PartsSpec

-----------------------------------------------------------------------------
(***************************************************************************)
(* The readers of a history, under names that tell their variables from    *)
(* those of the panels.                                                    *)
(***************************************************************************)

source == s1
reader == s2
history == s3
dropped == s4
export == s5
filter == s6
feed == s7
cursor == s8
fetch == s11
mixed == s13

USE DEF source, reader, history, dropped, export, filter, feed, cursor, fetch, mixed

LEMMA SameSize == \A S : Events!Cardinality(S) = Cardinality(S)
  BY DEF Events!Cardinality, Cardinality

\* What NewestOf makes of a finite set of numbers.
LEMMA NewestSorts ==
    ASSUME NEW S \in SUBSET Nat, IsFiniteSet(S)
    PROVE  /\ Events!NewestOf(S) \in [1..Cardinality(S) -> S]
           /\ \A k \in S : \E i \in 1..Cardinality(S) : Events!NewestOf(S)[i] = k
           /\ \A i, j \in 1..Cardinality(S) : i < j => Events!NewestOf(S)[i] > Events!NewestOf(S)[j]
  <1> DEFINE n == Cardinality(S)
             Above(k) == {m \in S : m > k}
             rank == [k \in S |-> Cardinality(Above(k))]
  <1>1. n \in Nat
    BY FS_CardinalityType
  <1>2. \A k \in S : /\ IsFiniteSet(Above(k)) /\ Cardinality(Above(k)) \in Nat
                     /\ Cardinality(Above(k)) < n
    <2> SUFFICES ASSUME NEW k \in S
                 PROVE  /\ IsFiniteSet(Above(k)) /\ Cardinality(Above(k)) \in Nat
                        /\ Cardinality(Above(k)) < n
      OBVIOUS
    <2>1. Above(k) \in SUBSET S /\ Above(k) # S
      <3>1. k \notin Above(k)
        OBVIOUS
      <3>2. QED
        BY <3>1
    <2>2. IsFiniteSet(Above(k)) /\ Cardinality(Above(k)) <= n /\ Cardinality(Above(k)) # n
      BY <2>1, FS_Subset
    <2>3. Cardinality(Above(k)) \in Nat
      BY <2>2, FS_CardinalityType
    <2>4. QED
      BY <1>1, <2>2, <2>3
  <1>3. \A k, l \in S : k < l => Cardinality(Above(l)) < Cardinality(Above(k))
    <2> SUFFICES ASSUME NEW k \in S, NEW l \in S, k < l
                 PROVE  Cardinality(Above(l)) < Cardinality(Above(k))
      OBVIOUS
    <2>1. k \in Nat /\ l \in Nat
      OBVIOUS
    <2>2. Above(l) \in SUBSET Above(k) /\ Above(l) # Above(k)
      <3>1. l \in Above(k) /\ l \notin Above(l)
        BY <2>1
      <3>2. \A m \in Above(l) : m \in Above(k)
        BY <2>1
      <3>3. QED
        BY <3>1, <3>2
    <2>3. /\ Cardinality(Above(l)) <= Cardinality(Above(k))
          /\ Cardinality(Above(k)) # Cardinality(Above(l))
      BY <1>2, <2>2, FS_Subset
    <2>4. QED
      BY <1>2, <2>3
  <1> HIDE DEF Above
  <1>4. rank \in Injection(S, 0..(n-1))
    <2>1. rank \in [S -> 0..(n-1)]
      BY <1>1, <1>2
    <2>2. ASSUME NEW k \in S, NEW l \in S, rank[k] = rank[l] PROVE k = l
      <3>1. Cardinality(Above(k)) = Cardinality(Above(l)) /\ k \in Nat /\ l \in Nat
        BY <2>2
      <3>2. k < l \/ l < k \/ k = l
        BY <3>1
      <3>3. QED
        BY <1>2, <1>3, <3>1, <3>2
    <2>3. QED
      BY <2>1, <2>2 DEF Injection, IsInjective
  <1>5. IsFiniteSet(0..(n-1)) /\ Cardinality(0..(n-1)) = n
    <2>1. 0 \in Int /\ n - 1 \in Int
      BY <1>1
    <2>2. IsFiniteSet(0..(n-1)) /\ Cardinality(0..(n-1)) = IF 0 > n - 1 THEN 0 ELSE n - 1 - 0 + 1
      BY <2>1, FS_Interval
    <2> HIDE DEF n
    <2>3. QED
      BY <1>1, <2>2
  <1>6. rank \in Surjection(S, 0..(n-1))
    BY <1>4, <1>5, FS_Injection
  <1>7. \A i \in 1..n : \E k \in S : Cardinality(Above(k)) = i - 1
    <2> SUFFICES ASSUME NEW i \in 1..n PROVE \E k \in S : Cardinality(Above(k)) = i - 1
      OBVIOUS
    <2>1. i - 1 \in 0..(n-1)
      BY <1>1
    <2>2. \E k \in S : rank[k] = i - 1
      BY <1>6, <2>1 DEF Surjection
    <2>3. QED
      BY <2>2
  <1>8. \A i \in 1..n : /\ Events!NewestOf(S)[i] \in S
                        /\ Cardinality(Above(Events!NewestOf(S)[i])) = i - 1
    <2> SUFFICES ASSUME NEW i \in 1..n
                 PROVE  /\ Events!NewestOf(S)[i] \in S
                        /\ Cardinality(Above(Events!NewestOf(S)[i])) = i - 1
      OBVIOUS
    <2>1. Events!NewestOf(S)[i] = CHOOSE k \in S : Cardinality(Above(k)) = i - 1
      BY SameSize DEF Events!NewestOf, Above
    <2>2. QED
      BY <1>7, <2>1
  <1>9. Events!NewestOf(S) \in [1..n -> S]
    <2> DEFINE c == Events!Cardinality(S)
               e(i) == CHOOSE k \in S : Events!Cardinality({m \in S : m > k}) = i - 1
    <2>1. Events!NewestOf(S) = [i \in 1..c |-> e(i)]
      BY DEF Events!NewestOf
    <2>2. c = n
      BY SameSize
    <2> HIDE DEF e, c, n
    <2>3. \A i \in 1..n : e(i) \in S
      BY <1>8, <2>1, <2>2
    <2>4. QED
      BY <2>1, <2>2, <2>3
  <1>10. \A k \in S : \E i \in 1..n : Events!NewestOf(S)[i] = k
    <2> SUFFICES ASSUME NEW k \in S PROVE \E i \in 1..n : Events!NewestOf(S)[i] = k
      OBVIOUS
    <2>1. PICK i \in 1..n : i = Cardinality(Above(k)) + 1
      BY <1>1, <1>2
    <2>2. PICK l \in S : l = Events!NewestOf(S)[i] /\ Cardinality(Above(l)) = Cardinality(Above(k))
      <3> DEFINE l == Events!NewestOf(S)[i]
      <3>1. l \in S /\ Cardinality(Above(l)) = i - 1
        BY <1>8
      <3> HIDE DEF l
      <3>2. i - 1 = Cardinality(Above(k))
        BY <1>2, <2>1
      <3>3. l \in S /\ l = Events!NewestOf(S)[i] /\ Cardinality(Above(l)) = Cardinality(Above(k))
        BY <3>1, <3>2 DEF l
      <3>4. QED
        BY <3>3
    <2>3. ~ l < k /\ ~ k < l /\ k \in Nat /\ l \in Nat
      <3>1. Cardinality(Above(k)) \in Nat
        BY <1>2
      <3>2. QED
        BY <1>3, <2>2, <3>1
    <2>4. l = k
      BY <2>3
    <2>5. QED
      BY <2>2, <2>4
  <1>11. \A i, j \in 1..n : i < j => Events!NewestOf(S)[i] > Events!NewestOf(S)[j]
    <2> SUFFICES ASSUME NEW i \in 1..n, NEW j \in 1..n, i < j
                 PROVE  Events!NewestOf(S)[i] > Events!NewestOf(S)[j]
      OBVIOUS
    <2>1. /\ Events!NewestOf(S)[i] \in S /\ Events!NewestOf(S)[j] \in S
          /\ Events!NewestOf(S)[i] \in Nat /\ Events!NewestOf(S)[j] \in Nat
          /\ Cardinality(Above(Events!NewestOf(S)[i])) = i - 1
          /\ Cardinality(Above(Events!NewestOf(S)[j])) = j - 1
      BY <1>8
    <2>2. ~ Events!NewestOf(S)[i] = Events!NewestOf(S)[j]
      BY <2>1
    <2>3. ~ Events!NewestOf(S)[i] < Events!NewestOf(S)[j]
      BY <1>3, <2>1
    <2>4. QED
      BY <2>1, <2>2, <2>3
  <1>12. QED
    BY <1>9, <1>10, <1>11
Wanted(what, after) ==
    {k \in Events!Written : Events!Passes(k, what) /\ (after = None \/ k < after)}

RowsOK == history \in [Events!Keys -> Categories \cup {None}]

InSeq(k, seq) == \E i \in DOMAIN seq : seq[i] = k

LEMMA KeysFinite ==
    /\ IsFiniteSet(Events!Keys) /\ Events!Keys \subseteq Nat /\ None \notin Events!Keys
    /\ \A S \in SUBSET Events!Keys : IsFiniteSet(S) /\ S \in SUBSET Nat /\ Cardinality(S) \in Nat
  <1>1. IsFiniteSet(Events!Keys)
    BY EventsAssumption, FS_Interval DEF Events!Keys
  <1>2. Events!Keys \subseteq Nat /\ None \notin Events!Keys
    BY EventsAssumption DEF Events!Keys
  <1>3. \A S \in SUBSET Events!Keys : IsFiniteSet(S)
    BY <1>1, FS_Subset
  <1>4. QED
    BY <1>1, <1>2, <1>3, FS_CardinalityType

\* A page is the newest of what it is asked for: sorted, and cut only when it is full.
LEMMA PageFacts ==
    ASSUME NEW what, NEW after
    PROVE  LET got == Events!Page(what, after)
           IN  /\ got \in Seq(Wanted(what, after)) /\ Len(got) <= PageLimit
               /\ Events!NewestFirst(got)
               /\ \A k \in Wanted(what, after) :
                      InSeq(k, got) \/ (Len(got) = PageLimit /\ k < got[Len(got)])
  <1> DEFINE S == Wanted(what, after)
             c == Cardinality(S)
             all == Events!NewestOf(S)
             n == IF Len(all) < PageLimit THEN Len(all) ELSE PageLimit
             got == Events!Page(what, after)
  <1>1. S \in SUBSET Events!Keys
    BY DEF Wanted, Events!Written
  <1>2. IsFiniteSet(S) /\ S \in SUBSET Nat /\ c \in Nat
    BY <1>1, KeysFinite
  <1>3. /\ all \in [1..c -> S]
        /\ \A k \in S : \E i \in 1..c : all[i] = k
        /\ \A i, j \in 1..c : i < j => all[i] > all[j]
    BY <1>2, NewestSorts
  <1>4. got = SubSeq(all, 1, n)
    BY DEF Events!Page, Wanted
  <1> HIDE DEF S, c, all, got
  <1>5. all \in Seq(S) /\ Len(all) = c
    BY <1>2, <1>3 DEF Seq
  <1>6. n \in Nat /\ n <= c /\ n <= PageLimit /\ (n = c \/ n = PageLimit)
    BY <1>2, <1>5, EventsAssumption
  <1> HIDE DEF n
  <1>7. /\ got \in Seq(S) /\ Len(got) = n
        /\ \A i \in 1..n : got[i] = all[i]
    <2>1. 1 \in Int /\ n \in Int /\ \A i \in 1..n : all[i] \in S
      BY <1>2, <1>3, <1>6
    <2>2. /\ SubSeq(all, 1, n) \in Seq(S)
          /\ Len(SubSeq(all, 1, n)) = IF 1 <= n THEN n - 1 + 1 ELSE 0
          /\ \A i \in 1..n - 1 + 1 : SubSeq(all, 1, n)[i] = all[1 + i - 1]
      BY <2>1, SubSeqProperties
    <2>3. n - 1 + 1 = n /\ \A i \in 1..n : 1 + i - 1 = i
      BY <1>6
    <2>4. Len(got) = n
      BY <1>4, <1>6, <2>2, <2>3
    <2>5. QED
      BY <1>4, <2>2, <2>3, <2>4
  <1>8. Events!NewestFirst(got)
    <2>1. DOMAIN got = 1..n
      BY <1>7, LenProperties
    <2>2. \A i \in 1..n : i \in 1..c
      BY <1>2, <1>6
    <2>3. QED
      BY <1>3, <1>7, <2>1, <2>2 DEF Events!NewestFirst
  <1>9. ASSUME NEW k \in S
        PROVE  InSeq(k, got) \/ (Len(got) = PageLimit /\ k < got[Len(got)])
    <2>1. PICK i \in 1..c : all[i] = k
      BY <1>3
    <2>2. CASE i <= n
      <3>1. i \in DOMAIN got /\ got[i] = k
        BY <1>6, <1>7, <2>1, <2>2, LenProperties
      <3>2. QED
        BY <3>1 DEF InSeq
    <2>3. CASE ~ i <= n
      <3>1. n = PageLimit /\ n \in 1..c /\ n \in 1..n /\ n < i
        BY <1>2, <1>6, <2>3, EventsAssumption
      <3>2. all[n] > all[i] /\ got[n] = all[n] /\ all[n] \in Nat
        BY <1>2, <1>3, <1>7, <3>1
      <3>3. k < got[Len(got)]
        BY <1>2, <1>7, <2>1, <3>2
      <3>4. QED
        BY <1>7, <3>1, <3>3
    <2>4. QED
      BY <2>2, <2>3
  <1>10. QED
    BY <1>6, <1>7, <1>8, <1>9 DEF S, got
HistoryTypeOK ==
    /\ source \in {"trail", "link"} /\ reader \in {"export", "page"}
    /\ RowsOK /\ dropped \in 0..MaxKey
    /\ export \in [step : {"none", "reading", "done"}, filter : Events!Filters,
                   after : Events!Keys \cup {None},
                   out : Seq(Events!Keys), start : SUBSET Events!Keys]
    /\ filter \in Events!Filters /\ feed \in Seq(Events!Keys) /\ cursor \in Events!Keys \cup {None}
    /\ fetch \in [Fetches -> [step : {"idle", "sent", "answered"}, filter : Events!Filters,
                              after : Events!Keys \cup {None}, got : Seq(Events!Keys)]]
    /\ mixed \in BOOLEAN

\* What an export has still to read lies below its cursor; a row that was there when it began is
\* written out or lies there too, if it is there at all.
ExportInv ==
    /\ Events!NewestFirst(export.out)
    /\ export.step = "none" => export.out = <<>> /\ export.after = None
    /\ export.step = "reading" =>
        /\ export.after = None => export.out = <<>>
        /\ export.after # None => \A i \in DOMAIN export.out : export.out[i] >= export.after
        /\ \A k \in export.start :
               k > dropped => (InSeq(k, export.out) \/ k \in Wanted(export.filter, export.after))
    /\ export.step = "done" => \A k \in export.start : k > dropped => InSeq(k, export.out)

\* The rows of a filter from the first of them down to a cursor, or to the oldest.
Shown(what, seq, from) ==
    /\ Events!NewestFirst(seq)
    /\ seq # <<>> =>
           \A k \in Events!Keys : InSeq(k, seq) <=>
               (k \in Wanted(what, None) /\ k <= seq[1] /\ (from # None => k >= from))

\* An answer is what was asked for, as the history was and as it still is below its first row.
Answer(what, after, got) ==
    /\ Events!NewestFirst(got) /\ Len(got) <= PageLimit
    /\ \A i \in DOMAIN got : got[i] \in Events!Written
    /\ after = None => Shown(what, got, Events!NextCursor(got))
    /\ after # None =>
           \A k \in Events!Keys : InSeq(k, got) <=>
               (/\ k \in Wanted(what, after)
                /\ Events!NextCursor(got) # None => k >= Events!NextCursor(got))

AnswersInv ==
    /\ source = "trail"
    /\ \A i \in DOMAIN feed : feed[i] \in Events!Written
    /\ cursor \in Events!Written \cup {None}
    /\ \A r \in Fetches : fetch[r].step # "idle" => fetch[r].after \in Events!Written \cup {None}
    /\ \A r \in Fetches : fetch[r].step = "answered" =>
           Answer(fetch[r].filter, fetch[r].after, fetch[r].got)

FirstDue == \E r \in Fetches :
                fetch[r].step # "idle" /\ fetch[r].filter = filter /\ fetch[r].after = None

\* Unless answers crossed, what is listed belongs to the filter, or its first page is due; and
\* what is due besides goes on where the list ends.
FeedInv ==
    ~ mixed =>
        /\ Shown(filter, feed, cursor) \/ FirstDue
        /\ \A r \in Fetches : fetch[r].step # "idle" /\ fetch[r].after # None =>
               fetch[r].after = cursor /\ feed # <<>>

HistoryInv == HistoryTypeOK /\ ExportInv /\ (reader = "page" => AnswersInv /\ FeedInv)

LEMMA CursorFacts ==
    ASSUME NEW S \in SUBSET Events!Keys, NEW got \in Seq(S), Len(got) <= PageLimit
    PROVE  /\ Events!NextCursor(got) \in S \cup {None}
           /\ Events!NextCursor(got) = None <=> Len(got) # PageLimit
           /\ Events!NextCursor(got) # None => /\ Events!NextCursor(got) = got[Len(got)]
                                               /\ Len(got) \in 1..Len(got)
  <1>1. Len(got) \in Nat /\ \A i \in 1..Len(got) : got[i] \in S
    BY ElementOfSeq, LenProperties
  <1>2. CASE Len(got) = PageLimit
    <2>1. Len(got) \in 1..Len(got)
      BY <1>1, <1>2, EventsAssumption
    <2>2. Events!NextCursor(got) = got[Len(got)] /\ got[Len(got)] \in S
      BY <1>1, <1>2, <2>1 DEF Events!NextCursor, Events!Last
    <2>3. got[Len(got)] # None
      BY <2>2, KeysFinite
    <2>4. QED
      BY <1>2, <2>1, <2>2, <2>3
  <1>3. CASE Len(got) # PageLimit
    BY <1>3 DEF Events!NextCursor
  <1>4. QED
    BY <1>2, <1>3

\* A page the history has just given.
LEMMA PageAnswers ==
    ASSUME NEW what \in Events!Filters, NEW after \in Events!Keys \cup {None}
    PROVE  /\ Events!Page(what, after) \in Seq(Events!Keys)
           /\ Events!NextCursor(Events!Page(what, after)) \in Events!Written \cup {None}
           /\ Answer(what, after, Events!Page(what, after))
  <1> DEFINE got == Events!Page(what, after)
             W == Wanted(what, after)
             next == Events!NextCursor(got)
  <1>1. /\ got \in Seq(W) /\ Len(got) <= PageLimit /\ Events!NewestFirst(got)
        /\ \A k \in W : InSeq(k, got) \/ (Len(got) = PageLimit /\ k < got[Len(got)])
    BY PageFacts
  <1>2. /\ W \in SUBSET Events!Written /\ W \in SUBSET Events!Keys
        /\ Events!Written \in SUBSET Events!Keys
    BY DEF Wanted, Events!Written
  <1> HIDE DEF W, got
  <1>3. /\ Len(got) \in Nat /\ DOMAIN got = 1..Len(got)
        /\ \A i \in DOMAIN got : got[i] \in W
    BY <1>1, LenProperties, ElementOfSeq
  <1>4. /\ next \in W \cup {None}
        /\ next = None <=> Len(got) # PageLimit
        /\ next # None => next = got[Len(got)] /\ Len(got) \in 1..Len(got)
    BY <1>1, <1>2, CursorFacts
  <1>5. got \in Seq(Events!Keys)
    BY <1>1, <1>2, SeqMonotonic
  <1> HIDE DEF next
  <1>6. \A k \in Events!Keys : InSeq(k, got) <=> (k \in W /\ (next # None => k >= next))
    <2>1. ASSUME NEW k \in Events!Keys, InSeq(k, got) PROVE k \in W /\ (next # None => k >= next)
      <3>1. PICK i \in DOMAIN got : got[i] = k
        BY <2>1 DEF InSeq
      <3>2. ASSUME next # None PROVE k >= next
        <4>1. next = got[Len(got)] /\ Len(got) \in DOMAIN got /\ i <= Len(got) /\ i \in Nat
          BY <1>3, <1>4, <3>1, <3>2
        <4>2. k \in Nat
          BY KeysFinite
        <4>3. CASE i = Len(got)
          BY <3>1, <4>1, <4>2, <4>3
        <4>4. CASE i < Len(got)
          <5>1. got[i] > got[Len(got)]
            BY <1>1, <3>1, <4>1, <4>4 DEF Events!NewestFirst
          <5>2. next \in Nat
            BY <1>2, <1>4, <3>2, KeysFinite
          <5>3. QED
            BY <3>1, <4>1, <4>2, <5>1, <5>2
        <4>5. QED
          BY <1>3, <4>1, <4>3, <4>4
      <3>3. QED
        BY <1>3, <3>1, <3>2
    <2>2. ASSUME NEW k \in Events!Keys, k \in W, next # None => k >= next PROVE InSeq(k, got)
      <3>1. CASE Len(got) # PageLimit
        BY <1>1, <2>2, <3>1
      <3>2. CASE Len(got) = PageLimit
        <4>1. next = got[Len(got)] /\ k >= next /\ next \in Nat /\ k \in Nat
          BY <1>2, <1>4, <2>2, <3>2, KeysFinite
        <4>2. ~ k < got[Len(got)]
          BY <4>1
        <4>3. QED
          BY <1>1, <2>2, <4>2
      <3>3. QED
        BY <3>1, <3>2
    <2>3. QED
      BY <2>1, <2>2
  <1>7. ASSUME after = None PROVE Shown(what, got, next)
    <2>1. ASSUME got # <<>> PROVE \A k \in W : k <= got[1]
      <3>1. Len(got) # 0
        BY <1>1, <2>1, EmptySeq
      <3>2. 1 \in DOMAIN got /\ got[1] \in Nat
        <4>1. 1 \in DOMAIN got
          BY <1>3, <3>1
        <4>2. got[1] \in W /\ W \in SUBSET Nat
          BY <1>2, <1>3, <4>1, KeysFinite
        <4>3. QED
          BY <4>1, <4>2
      <3>3. ASSUME NEW k \in W PROVE k <= got[1]
        <4>1. k \in Nat
          BY <1>2, KeysFinite
        <4>2. ASSUME NEW i \in DOMAIN got PROVE got[i] <= got[1] /\ got[i] \in Nat
          <5>1. got[i] \in Nat
            BY <1>2, <1>3, KeysFinite
          <5>2. i = 1 \/ 1 < i
            BY <1>3
          <5>3. 1 < i => got[1] > got[i]
            BY <1>1, <3>2 DEF Events!NewestFirst
          <5>4. QED
            BY <3>2, <5>1, <5>2, <5>3
        <4>3. CASE InSeq(k, got)
          BY <4>2, <4>3 DEF InSeq
        <4>4. CASE Len(got) = PageLimit /\ k < got[Len(got)]
          <5>1. Len(got) \in DOMAIN got
            BY <1>3, <3>1
          <5>2. QED
            BY <3>2, <4>1, <4>2, <4>4, <5>1
        <4>5. QED
          BY <1>1, <4>3, <4>4
      <3>4. QED
        BY <3>3
    <2>2. W = Wanted(what, None)
      BY <1>7 DEF W
    <2>3. QED
      BY <1>1, <1>6, <2>1, <2>2 DEF Shown
  <1>8. Answer(what, after, got)
    BY <1>1, <1>2, <1>3, <1>6, <1>7 DEF Answer, W, next
  <1>9. QED
    BY <1>2, <1>4, <1>5, <1>8 DEF got, next

\* No row has a key beyond the newest.
LEMMA NewestIsLast ==
    \A k \in Events!Written : k <= Events!Newest /\ Events!Newest \in Nat
  <1> DEFINE S == Events!Written \cup {0}
  <1>1. IsFiniteSet(S) /\ S \in SUBSET Nat
    <2>1. Events!Written \in SUBSET Events!Keys /\ IsFiniteSet(Events!Written)
      BY KeysFinite DEF Events!Written
    <2>2. IsFiniteSet(S)
      BY <2>1, FS_AddElement
    <2>3. QED
      BY <2>1, <2>2, KeysFinite
  <1>2. \E x \in S : \A y \in S : x >= y
    <2> DEFINE c == Cardinality(S)
               all == Events!NewestOf(S)
    <2>1. /\ all \in [1..c -> S] /\ c \in Nat
          /\ \A k \in S : \E i \in 1..c : all[i] = k
          /\ \A i, j \in 1..c : i < j => all[i] > all[j]
      BY <1>1, NewestSorts, FS_CardinalityType
    <2> HIDE DEF c, all
    <2>2. 1 \in 1..c
      <3>1. PICK i \in 1..c : all[i] = 0
        BY <2>1
      <3>2. QED
        BY <2>1, <3>1
    <2>3. ASSUME NEW y \in S PROVE all[1] >= y
      <3>1. PICK i \in 1..c : all[i] = y
        BY <2>1
      <3>2. all[1] \in Nat /\ y \in Nat
        BY <1>1, <2>1, <2>2
      <3>3. i = 1 \/ 1 < i
        BY <2>1
      <3>4. 1 < i => all[1] > all[i]
        BY <2>1, <2>2
      <3>5. QED
        BY <3>1, <3>2, <3>3, <3>4
    <2>4. QED
      BY <2>1, <2>2, <2>3
  <1>3. Events!Newest \in S /\ \A y \in S : Events!Newest >= y
    BY <1>2 DEF Events!Newest, Events!Max
  <1>4. QED
    BY <1>1, <1>3

\* A row that is there stays as it is, but for those that are dropped with their partition.
RowsKept ==
    \A k \in Events!Keys : history[k] # None /\ k > dropped' => history'[k] = history[k]

LEMMA RowsStep ==
    ASSUME HistoryTypeOK, Events!Next
    PROVE  RowsOK' /\ dropped' \in 0..MaxKey /\ dropped' >= dropped /\ RowsKept
  <1>1. dropped \in Nat /\ history \in [Events!Keys -> Categories \cup {None}]
    BY EventsAssumption DEF HistoryTypeOK, RowsOK
  <1>2. ASSUME NEW w \in Events!Keys, NEW c \in Categories, Events!Write(w, c)
        PROVE  RowsOK' /\ dropped' \in 0..MaxKey /\ dropped' >= dropped /\ RowsKept
    BY <1>1, <1>2 DEF Events!Write, RowsOK, RowsKept, HistoryTypeOK
  <1>3. ASSUME NEW w \in Events!Keys, Events!DropPartition(w)
        PROVE  RowsOK' /\ dropped' \in 0..MaxKey /\ dropped' >= dropped /\ RowsKept
    <2>1. dropped' = w /\ w > dropped /\ w \in 1..MaxKey
      BY <1>3 DEF Events!DropPartition, Events!Keys
    <2>2. w \in Nat /\ dropped' \in 0..MaxKey /\ dropped' >= dropped
      BY <1>1, <2>1, EventsAssumption
    <2>3. history' = [k \in Events!Keys |-> IF k <= w THEN None ELSE history[k]]
      BY <1>3 DEF Events!DropPartition
    <2>4. RowsOK'
      BY <1>1, <2>3 DEF RowsOK
    <2>5. \A k \in Events!Keys : k > w => ~ k <= w
      BY <2>2, KeysFinite
    <2>6. RowsKept
      BY <2>1, <2>3, <2>5 DEF RowsKept
    <2>7. QED
      BY <2>2, <2>4, <2>6
  <1>4. ASSUME UNCHANGED <<history, dropped>>
        PROVE  RowsOK' /\ dropped' \in 0..MaxKey /\ dropped' >= dropped /\ RowsKept
    <2>1. dropped \in 0..MaxKey /\ RowsOK
      BY DEF HistoryTypeOK
    <2>2. QED
      BY <1>1, <1>4, <2>1 DEF RowsOK, RowsKept
  <1>5. QED
    BY <1>2, <1>3, <1>4
       DEF Events!Next, Events!StartExport, Events!ExportPage, Events!Choose, Events!LoadOlder,
           Events!Serve, Events!Show, Events!Fail

\* A row that is wanted goes on being wanted until it is dropped.
LEMMA WantedKept ==
    ASSUME RowsKept, RowsOK, NEW k \in Events!Keys, k > dropped', NEW what, NEW after,
           k \in Wanted(what, after)
    PROVE  k \in Wanted(what, after)'
  <1>1. history[k] # None /\ history'[k] = history[k]
    BY DEF Wanted, Events!Written, RowsKept
  <1>2. QED
    BY <1>1 DEF Wanted, Events!Written, Events!Passes

\* A row added at the end of the trail is wanted by nobody who goes on from a row before it.
LEMMA WriteFacts ==
    ASSUME HistoryTypeOK, source = "trail", NEW w \in Events!Keys, NEW c \in Categories,
           Events!Write(w, c)
    PROVE  /\ \A j \in Events!Written : j < w /\ j \in Events!Written'
           /\ \A j \in Events!Keys : \A what, after :
                  j # w => (j \in Wanted(what, after)' <=> j \in Wanted(what, after))
           /\ \A what, after : after \in Events!Written => w \notin Wanted(what, after)'
  <1>1. w = Events!Newest + 1 /\ history[w] = None /\ history' = [history EXCEPT ![w] = c]
    BY DEF Events!Write
  <1>2. history \in [Events!Keys -> Categories \cup {None}] /\ Events!Written \in SUBSET Events!Keys
    BY DEF HistoryTypeOK, RowsOK, Events!Written
  <1>3. \A j \in Events!Keys : j # w => history'[j] = history[j]
    BY <1>1, <1>2
  <1>4. \A j \in Events!Written : j < w /\ j # w
    <2> SUFFICES ASSUME NEW j \in Events!Written PROVE j < w /\ j # w
      OBVIOUS
    <2>1. j <= Events!Newest /\ Events!Newest \in Nat /\ j \in Nat
      BY <1>2, NewestIsLast, KeysFinite
    <2>2. QED
      BY <1>1, <2>1
  <1>5. \A j \in Events!Written : j \in Events!Written'
    BY <1>2, <1>3, <1>4 DEF Events!Written
  <1>6. \A j \in Events!Keys : \A what, after :
            j # w => (j \in Wanted(what, after)' <=> j \in Wanted(what, after))
    BY <1>3 DEF Wanted, Events!Written, Events!Passes
  <1>7. ASSUME NEW what, NEW after, after \in Events!Written PROVE w \notin Wanted(what, after)'
    <2>1. after < w /\ after # None /\ w \in Nat /\ after \in Nat
      BY <1>2, <1>4, <1>7, KeysFinite
    <2>2. ~ w < after
      BY <2>1
    <2>3. QED
      BY <2>1, <2>2 DEF Wanted
  <1>8. QED
    BY <1>4, <1>5, <1>6, <1>7

LEMMA ShownStays ==
    ASSUME HistoryTypeOK, source = "trail", NEW w \in Events!Keys, NEW c \in Categories,
           Events!Write(w, c),
           NEW what, NEW seq \in Seq(Events!Keys), NEW from,
           \A i \in DOMAIN seq : seq[i] \in Events!Written,
           Shown(what, seq, from)
    PROVE  Shown(what, seq, from)'
  <1>1. Events!NewestFirst(seq)'
    BY DEF Shown, Events!NewestFirst
  <1>2. ASSUME seq # <<>>, NEW k \in Events!Keys
        PROVE  InSeq(k, seq) <=>
               (k \in Wanted(what, None)' /\ k <= seq[1] /\ (from # None => k >= from))
    <2>1. Len(seq) # 0 /\ Len(seq) \in Nat /\ DOMAIN seq = 1..Len(seq)
      BY <1>2, EmptySeq, LenProperties
    <2>2. seq[1] \in Events!Written
      BY <2>1
    <2>3. CASE k = w
      <3>1. \A j \in Events!Written : j < w /\ j \in Nat /\ w \in Nat
        BY WriteFacts, KeysFinite DEF Events!Written
      <3>2. ~ k <= seq[1]
        BY <2>2, <2>3, <3>1
      <3>3. ~ InSeq(k, seq)
        BY <2>3, <3>1 DEF InSeq
      <3>4. QED
        BY <3>2, <3>3
    <2>4. CASE k # w
      <3>1. k \in Wanted(what, None)' <=> k \in Wanted(what, None)
        BY <2>4, WriteFacts
      <3>2. QED
        BY <1>2, <3>1 DEF Shown
    <2>5. QED
      BY <2>3, <2>4
  <1>3. QED
    BY <1>1, <1>2 DEF Shown, InSeq

LEMMA AnswerStays ==
    ASSUME HistoryTypeOK, source = "trail", NEW w \in Events!Keys, NEW c \in Categories,
           Events!Write(w, c),
           NEW what, NEW after \in Events!Written \cup {None}, NEW got \in Seq(Events!Keys),
           Answer(what, after, got)
    PROVE  Answer(what, after, got)'
  <1>1. \A i \in DOMAIN got : got[i] \in Events!Written /\ got[i] \in Events!Written'
    BY WriteFacts DEF Answer
  <1>2. ASSUME after = None PROVE Shown(what, got, Events!NextCursor(got))'
    <2> DEFINE next == Events!NextCursor(got)
    <2>1. Shown(what, got, next)
      BY <1>2 DEF Answer
    <2> HIDE DEF next
    <2>2. Shown(what, got, next)'
      BY <1>1, <2>1, ShownStays
    <2>3. QED
      BY <2>2 DEF next, Events!NextCursor, Events!Last, Shown, Events!NewestFirst, InSeq
  <1>3. ASSUME after # None, NEW k \in Events!Keys
        PROVE  k \in Wanted(what, after)' <=> k \in Wanted(what, after)
    <2>1. CASE k = w
      <3>1. w \notin Wanted(what, after)'
        BY <1>3, WriteFacts
      <3>2. w \notin Wanted(what, after)
        BY DEF Wanted, Events!Written, Events!Write
      <3>3. QED
        BY <2>1, <3>1, <3>2
    <2>2. CASE k # w
      BY <2>2, WriteFacts
    <2>3. QED
      BY <2>1, <2>2
  <1>4. Events!NewestFirst(got) /\ Len(got) <= PageLimit
    BY DEF Answer
  <1>5. ASSUME after # None
        PROVE  \A k \in Events!Keys : InSeq(k, got) <=>
                   (/\ k \in Wanted(what, after)'
                    /\ Events!NextCursor(got) # None => k >= Events!NextCursor(got))
    BY <1>3, <1>5 DEF Answer
  <1>6. QED
    BY <1>1, <1>2, <1>4, <1>5 DEF Answer, Events!NewestFirst, InSeq, Events!NextCursor, Events!Last

LEMMA HistoryTypeStep ==
    ASSUME HistoryTypeOK, Events!Next
    PROVE  HistoryTypeOK'
  <1> DEFINE Result == [step : {"idle", "sent", "answered"}, filter : Events!Filters,
                        after : Events!Keys \cup {None}, got : Seq(Events!Keys)]
             RestOK == /\ source \in {"trail", "link"} /\ reader \in {"export", "page"}
                       /\ export \in [step : {"none", "reading", "done"}, filter : Events!Filters,
                                      after : Events!Keys \cup {None}, out : Seq(Events!Keys),
                                      start : SUBSET Events!Keys]
                       /\ filter \in Events!Filters /\ feed \in Seq(Events!Keys)
                       /\ cursor \in Events!Keys \cup {None} /\ mixed \in BOOLEAN
                       /\ fetch \in [Fetches -> Result]
  <1>1. RowsOK' /\ dropped' \in 0..MaxKey
    BY RowsStep
  <1>2. RestOK
    BY DEF HistoryTypeOK
  <1>3. \A what \in Events!Filters, after \in Events!Keys \cup {None} :
            /\ Events!Page(what, after) \in Seq(Events!Keys)
            /\ Events!NextCursor(Events!Page(what, after)) \in Events!Keys \cup {None}
    BY PageAnswers DEF Events!Written
  <1>4. Events!Idle \in Result /\ All \in Events!Filters
    BY EmptySeq DEF Events!Idle, Events!Filters
  <1>5. \A what \in Events!Filters, after \in Events!Keys \cup {None} :
            Events!Load(what, after) \in Result
    BY EmptySeq DEF Events!Load
  <1>6. ASSUME NEW what \in Events!Filters, Events!StartExport(what) PROVE RestOK'
    <2>1. {k \in Events!Written : Events!Passes(k, what)} \in SUBSET Events!Keys
      BY DEF Events!Written
    <2>2. QED
      BY <1>2, <1>6, <2>1 DEF Events!StartExport, Events!page
  <1>7. ASSUME Events!ExportPage PROVE RestOK'
    <2> DEFINE got == Events!Page(export.filter, export.after)
    <2>1. /\ export.filter \in Events!Filters /\ export.after \in Events!Keys \cup {None}
          /\ export.out \in Seq(Events!Keys)
      BY <1>2
    <2>2. got \in Seq(Events!Keys) /\ Events!NextCursor(got) \in Events!Keys \cup {None}
      BY <1>3, <2>1
    <2>3. export.out \o got \in Seq(Events!Keys)
      BY <2>1, <2>2, ConcatProperties
    <2>4. export' = [export EXCEPT !.out = @ \o got, !.after = Events!NextCursor(got),
                                   !.step = IF Events!NextCursor(got) = None
                                            THEN "done" ELSE "reading"]
          /\ UNCHANGED <<source, reader, filter, feed, cursor, mixed, fetch>>
      BY <1>7 DEF Events!ExportPage, Events!page
    <2> HIDE DEF got
    <2>5. QED
      BY <1>2, <2>2, <2>3, <2>4
  <1>8. ASSUME NEW what \in Events!Filters, Events!Choose(what) PROVE RestOK'
    <2>1. PICK r \in Fetches : fetch' = [fetch EXCEPT ![r] = Events!Load(what, None)]
      BY <1>8 DEF Events!Choose, Events!Send, Events!AtHand
    <2>2. Events!Load(what, None) \in Result
      BY <1>5
    <2>3. UNCHANGED <<source, reader, export, feed, cursor, mixed>> /\ filter' \in Events!Filters
      BY <1>8 DEF Events!Choose
    <2> HIDE DEF Result
    <2>4. QED
      BY <1>2, <2>1, <2>2, <2>3
  <1>9. ASSUME Events!LoadOlder PROVE RestOK'
    <2>1. PICK r \in Fetches : fetch' = [fetch EXCEPT ![r] = Events!Load(filter, cursor)]
      BY <1>9 DEF Events!LoadOlder, Events!Send, Events!AtHand
    <2>2. Events!Load(filter, cursor) \in Result
      BY <1>2, <1>5
    <2>3. UNCHANGED <<source, reader, export, filter, feed, cursor, mixed>>
      BY <1>9 DEF Events!LoadOlder
    <2> HIDE DEF Result
    <2>4. QED
      BY <1>2, <2>1, <2>2, <2>3
  <1>10. ASSUME NEW r \in Fetches, Events!Serve(r) PROVE RestOK'
    <2>1. fetch[r] \in Result
      BY <1>2
    <2>2. Events!Page(fetch[r].filter, fetch[r].after) \in Seq(Events!Keys)
      BY <1>3, <2>1
    <2>3. [fetch[r] EXCEPT !.step = "answered",
                           !.got = Events!Page(fetch[r].filter, fetch[r].after)] \in Result
      BY <2>1, <2>2
    <2>4. fetch' = [fetch EXCEPT ![r] =
              [fetch[r] EXCEPT !.step = "answered",
                               !.got = Events!Page(fetch[r].filter, fetch[r].after)]]
      BY <1>10 DEF Events!Serve
    <2> HIDE DEF Result
    <2>5. QED
      BY <1>2, <1>10, <2>3, <2>4 DEF Events!Serve
  <1>11. ASSUME NEW r \in Fetches, Events!Show(r) PROVE RestOK'
    <2>1. fetch[r] \in Result /\ feed \in Seq(Events!Keys)
      BY <1>2
    <2>2. fetch[r].got \in Seq(Events!Keys) /\ feed \o fetch[r].got \in Seq(Events!Keys)
      BY <2>1, ConcatProperties
    <2>3. Events!NextCursor(fetch[r].got) \in Events!Keys \cup {None}
      <3>1. Len(fetch[r].got) = PageLimit => Len(fetch[r].got) \in 1..Len(fetch[r].got)
        BY <2>2, EventsAssumption, LenProperties
      <3>2. QED
        BY <2>2, <3>1, ElementOfSeq DEF Events!NextCursor, Events!Last
    <2>4. fetch' \in [Fetches -> Result]
      <3> HIDE DEF Result
      <3>1. QED
        BY <1>2, <1>4, <1>11 DEF Events!Show
    <2>5. mixed' \in BOOLEAN
      BY <1>11 DEF Events!Show
    <2>6. feed' \in Seq(Events!Keys) /\ cursor' \in Events!Keys \cup {None}
      BY <1>11, <2>2, <2>3 DEF Events!Show
    <2>7. UNCHANGED <<source, reader, export, filter>>
      BY <1>11 DEF Events!Show
    <2>8. QED
      BY <1>2, <2>4, <2>5, <2>6, <2>7
  <1>12. ASSUME NEW r \in Fetches, Events!Fail(r) PROVE RestOK'
    <2>1. fetch' \in [Fetches -> Result]
      <3> HIDE DEF Result
      <3>1. QED
        BY <1>2, <1>4, <1>12 DEF Events!Fail
    <2>2. mixed' \in BOOLEAN
      BY <1>12 DEF Events!Fail
    <2>3. QED
      BY <1>2, <1>12, <2>1, <2>2 DEF Events!Fail
  <1>13. ASSUME NEW w \in Events!Keys, NEW c \in Categories, Events!Write(w, c) PROVE RestOK'
    BY <1>2, <1>13 DEF Events!Write, Events!page
  <1>14. ASSUME NEW w \in Events!Keys, Events!DropPartition(w) PROVE RestOK'
    BY <1>2, <1>14 DEF Events!DropPartition, Events!page
  <1>15. RestOK'
    <2> HIDE DEF RestOK
    <2>1. QED
      BY <1>6, <1>7, <1>8, <1>9, <1>10, <1>11, <1>12, <1>13, <1>14 DEF Events!Next
  <1>16. QED
    BY <1>1, <1>15 DEF HistoryTypeOK

\* Adding below what is sorted what is sorted.
LEMMA SortedConcat ==
    ASSUME NEW seq \in Seq(Events!Keys), NEW got \in Seq(Events!Keys), Events!NewestFirst(seq),
           Events!NewestFirst(got),
           \A i \in DOMAIN seq, j \in DOMAIN got : seq[i] > got[j]
    PROVE  /\ Events!NewestFirst(seq \o got)
           /\ \A k : InSeq(k, seq \o got) <=> InSeq(k, seq) \/ InSeq(k, got)
           /\ seq # <<>> => (seq \o got)[1] = seq[1]
  <1> DEFINE m == Len(seq)
             n == Len(got)
             both == seq \o got
  <1>1. /\ m \in Nat /\ n \in Nat /\ DOMAIN seq = 1..m /\ DOMAIN got = 1..n
        /\ both \in Seq(Events!Keys) /\ Len(both) = m + n /\ DOMAIN both = 1..m + n
        /\ \A i \in 1..m + n : both[i] = IF i <= m THEN seq[i] ELSE got[i - m]
    BY ConcatProperties, LenProperties
  <1> HIDE DEF m, n, both
  <1>2. Events!NewestFirst(both)
    <2> SUFFICES ASSUME NEW i \in 1..m + n, NEW j \in 1..m + n, i < j
                 PROVE  both[i] > both[j]
      BY <1>1 DEF Events!NewestFirst
    <2>1. CASE j <= m
      <3>1. i \in 1..m /\ j \in 1..m /\ both[i] = seq[i] /\ both[j] = seq[j]
        BY <1>1, <2>1
      <3>2. QED
        BY <1>1, <3>1 DEF Events!NewestFirst
    <2>2. CASE i <= m /\ ~ j <= m
      <3>1. i \in 1..m /\ j - m \in 1..n /\ both[i] = seq[i] /\ both[j] = got[j - m]
        BY <1>1, <2>2
      <3>2. QED
        BY <1>1, <3>1
    <2>3. CASE ~ i <= m /\ ~ j <= m
      <3>1. i - m \in 1..n /\ j - m \in 1..n /\ i - m < j - m
            /\ both[i] = got[i - m] /\ both[j] = got[j - m]
        BY <1>1, <2>3
      <3>2. QED
        BY <1>1, <3>1 DEF Events!NewestFirst
    <2>4. QED
      BY <1>1, <2>1, <2>2, <2>3
  <1>3. ASSUME NEW k PROVE InSeq(k, both) <=> InSeq(k, seq) \/ InSeq(k, got)
    <2>1. ASSUME InSeq(k, both) PROVE InSeq(k, seq) \/ InSeq(k, got)
      <3>1. PICK i \in 1..m + n : both[i] = k
        BY <1>1, <2>1 DEF InSeq
      <3>2. CASE i <= m
        <4>1. i \in 1..m /\ seq[i] = k
          BY <1>1, <3>1, <3>2
        <4>2. QED
          BY <1>1, <4>1 DEF InSeq
      <3>3. CASE ~ i <= m
        <4>1. i - m \in 1..n /\ got[i - m] = k
          BY <1>1, <3>1, <3>3
        <4>2. QED
          BY <1>1, <4>1 DEF InSeq
      <3>4. QED
        BY <3>2, <3>3
    <2>2. ASSUME InSeq(k, seq) PROVE InSeq(k, both)
      <3>1. PICK i \in 1..m : seq[i] = k
        BY <1>1, <2>2 DEF InSeq
      <3>2. i \in 1..m + n /\ both[i] = k
        BY <1>1, <3>1
      <3>3. QED
        BY <1>1, <3>2 DEF InSeq
    <2>3. ASSUME InSeq(k, got) PROVE InSeq(k, both)
      <3>1. PICK i \in 1..n : got[i] = k
        BY <1>1, <2>3 DEF InSeq
      <3>2. m + i \in 1..m + n /\ ~ m + i <= m /\ m + i - m = i
        BY <1>1
      <3>3. both[m + i] = k
        BY <1>1, <3>1, <3>2
      <3>4. QED
        BY <1>1, <3>2, <3>3 DEF InSeq
    <2>4. QED
      BY <2>1, <2>2, <2>3
  <1>4. seq # <<>> => both[1] = seq[1]
    <2>1. seq # <<>> => m # 0
      BY EmptySeq DEF m
    <2>2. QED
      BY <1>1, <2>1
  <1>5. QED
    BY <1>2, <1>3, <1>4 DEF both

LEMMA ExportStep ==
    ASSUME HistoryTypeOK, ExportInv, Events!Next
    PROVE  ExportInv'
  <1>1. /\ export \in [step : {"none", "reading", "done"}, filter : Events!Filters,
                       after : Events!Keys \cup {None}, out : Seq(Events!Keys),
                       start : SUBSET Events!Keys]
        /\ RowsOK /\ dropped \in 0..MaxKey /\ dropped \in Nat
    BY EventsAssumption DEF HistoryTypeOK
  <1>2. dropped' \in 0..MaxKey /\ dropped' \in Nat /\ dropped' >= dropped /\ RowsKept
    BY RowsStep, EventsAssumption
  <1>3. ASSUME NEW k \in Events!Keys, k > dropped' PROVE k > dropped
    BY <1>1, <1>2, <1>3, KeysFinite
  <1>4. ASSUME export' = export PROVE ExportInv'
    <2>1. Events!NewestFirst(export'.out) /\ \A k : InSeq(k, export'.out) <=> InSeq(k, export.out)
      BY <1>4 DEF ExportInv
    <2>2. ASSUME export.step = "reading", NEW k \in export.start, k > dropped',
                 ~ InSeq(k, export.out)
          PROVE  k \in Wanted(export.filter, export.after)'
      <3>1. k \in Events!Keys /\ k \in Wanted(export.filter, export.after)
        BY <1>1, <1>3, <2>2 DEF ExportInv
      <3> DEFINE what == export.filter
                 after == export.after
      <3>2. ASSUME NEW w, NEW a, k \in Wanted(w, a) PROVE k \in Wanted(w, a)'
        BY <1>1, <1>2, <2>2, <3>1, <3>2, WantedKept
      <3>3. QED
        BY <1>4, <3>1, <3>2 DEF Wanted, Events!Written, Events!Passes
    <2>3. export.step = "done" => \A k \in export.start : k > dropped' => InSeq(k, export.out)
      BY <1>1, <1>3 DEF ExportInv
    <2>4. QED
      BY <1>4, <2>1, <2>2, <2>3 DEF ExportInv, InSeq, Events!NewestFirst
  <1>5. ASSUME NEW what \in Events!Filters, Events!StartExport(what) PROVE ExportInv'
    <2>1. /\ export.step = "none" /\ UNCHANGED <<history, dropped>>
          /\ export' = [export EXCEPT !.step = "reading", !.filter = what,
                                      !.start = {k \in Events!Written : Events!Passes(k, what)}]
      BY <1>5 DEF Events!StartExport
    <2>2. export.out = <<>> /\ export.after = None /\ Events!NewestFirst(export.out)
      BY <2>1 DEF ExportInv
    <2>3. /\ export'.step = "reading" /\ export'.filter = what /\ export'.after = None
          /\ export'.out = <<>> /\ export'.start = {k \in Events!Written : Events!Passes(k, what)}
      BY <1>1, <2>1, <2>2
    <2>4. Wanted(what, None)' = {k \in Events!Written : Events!Passes(k, what)}
      BY <2>1 DEF Wanted, Events!Written, Events!Passes
    <2>5. Wanted(export.filter, export.after)' = export'.start
      BY <2>1, <2>3, <2>4 DEF Wanted, Events!Written, Events!Passes
    <2>6. QED
      BY <2>2, <2>3, <2>5 DEF ExportInv, Events!NewestFirst
  <1>6. ASSUME Events!ExportPage PROVE ExportInv'
    <2> DEFINE what == export.filter
               after == export.after
               out == export.out
               got == Events!Page(what, after)
               next == Events!NextCursor(got)
               both == out \o got
               S == Wanted(what, after)
    <2>1. /\ what \in Events!Filters /\ after \in Events!Keys \cup {None}
          /\ out \in Seq(Events!Keys) /\ S \in SUBSET Events!Keys
      BY <1>1 DEF Wanted, Events!Written
    <2>2. /\ export.step = "reading" /\ UNCHANGED <<history, dropped>>
          /\ export' = [export EXCEPT !.out = @ \o got, !.after = next,
                                      !.step = IF next = None THEN "done" ELSE "reading"]
      BY <1>6 DEF Events!ExportPage
    <2>3. /\ got \in Seq(S) /\ Len(got) <= PageLimit /\ Events!NewestFirst(got)
          /\ \A k \in S : InSeq(k, got) \/ (Len(got) = PageLimit /\ k < got[Len(got)])
      BY PageFacts
    <2>4. /\ next \in S \cup {None}
          /\ next = None <=> Len(got) # PageLimit
          /\ next # None => next = got[Len(got)] /\ Len(got) \in 1..Len(got)
      BY <2>1, <2>3, CursorFacts
    <2>5. /\ export'.step = IF next = None THEN "done" ELSE "reading"
          /\ export'.filter = what /\ export'.after = next /\ export'.out = both
          /\ export'.start = export.start
      BY <1>1, <2>2
    <2>6. /\ Events!NewestFirst(out) /\ (after = None => out = <<>>)
          /\ after # None => \A i \in DOMAIN out : out[i] >= after
          /\ \A k \in export.start : k > dropped => (InSeq(k, out) \/ k \in S)
      BY <2>2 DEF ExportInv
    <2>7. \A k \in S : after = None \/ k < after
      BY DEF Wanted
    <2>8. export.start \in SUBSET Events!Keys
      BY <1>1
    <2> HIDE DEF what, after, out, got, next, both, S
    <2>9. got \in Seq(Events!Keys) /\ (\A i \in DOMAIN got : got[i] \in S)
      BY <2>1, <2>3, SeqMonotonic, ElementOfSeq, LenProperties
    <2>10. \A i \in DOMAIN out, j \in DOMAIN got : out[i] > got[j]
      <3> SUFFICES ASSUME NEW i \in DOMAIN out, NEW j \in DOMAIN got PROVE out[i] > got[j]
        OBVIOUS
      <3>1. after # None
        <4>1. CASE after = None
          <5>1. DOMAIN <<>> = {}
            OBVIOUS
          <5>2. QED
            BY <2>6, <4>1, <5>1
        <4>2. QED
          BY <4>1
      <3>2. out[i] >= after /\ got[j] < after
        BY <2>6, <2>7, <2>9, <3>1
      <3>3. out[i] \in Nat /\ got[j] \in Nat /\ after \in Nat
        BY <2>1, <2>9, <3>1, KeysFinite, ElementOfSeq, LenProperties
      <3>4. QED
        BY <3>2, <3>3
    <2>11. /\ Events!NewestFirst(both)
           /\ \A k : InSeq(k, both) <=> InSeq(k, out) \/ InSeq(k, got)
      BY <2>1, <2>3, <2>6, <2>9, <2>10, SortedConcat DEF both
    <2>12. ASSUME next # None
           PROVE  /\ \A i \in DOMAIN both : both[i] >= next
                  /\ next \in Nat
      <3>1. next = got[Len(got)] /\ Len(got) \in DOMAIN got /\ next \in Nat
        BY <2>1, <2>4, <2>9, <2>12, KeysFinite, LenProperties
      <3>2. ASSUME NEW i \in DOMAIN both PROVE both[i] >= next
        <4>1. InSeq(both[i], out) \/ InSeq(both[i], got)
          BY <2>11 DEF InSeq
        <4>2. ASSUME NEW j \in DOMAIN out PROVE out[j] >= next
          <5>1. out[j] > next /\ out[j] \in Nat
            BY <2>1, <2>10, <3>1, KeysFinite, ElementOfSeq, LenProperties
          <5>2. QED
            BY <3>1, <5>1
        <4>3. ASSUME NEW j \in DOMAIN got PROVE got[j] >= next
          <5>1. got[j] \in Nat /\ DOMAIN got = 1..Len(got) /\ Len(got) \in Nat
            BY <2>9, KeysFinite, ElementOfSeq, LenProperties
          <5>2. j = Len(got) \/ j < Len(got)
            BY <5>1
          <5>3. j < Len(got) => got[j] > got[Len(got)]
            BY <2>3, <3>1 DEF Events!NewestFirst
          <5>4. QED
            BY <3>1, <5>1, <5>2, <5>3
        <4>4. QED
          BY <4>1, <4>2, <4>3 DEF InSeq
      <3>3. QED
        BY <3>1, <3>2
    <2>13. ASSUME NEW k \in export.start, k > dropped, ~ InSeq(k, both)
           PROVE  k \in Wanted(what, next) /\ next # None
      <3>1. k \in S /\ ~ InSeq(k, got)
        BY <2>6, <2>11, <2>13
      <3>2. Len(got) = PageLimit /\ k < got[Len(got)]
        BY <2>3, <3>1
      <3>3. next # None /\ k < next
        BY <2>4, <3>2
      <3>4. QED
        BY <3>1, <3>3 DEF Wanted, S
    <2>14. Wanted(what, next) = Wanted(export.filter, export.after)'
      BY <2>2, <2>5 DEF Wanted, Events!Written, Events!Passes
    <2>15. CASE next = None
      <3>1. \A k \in export.start : k > dropped => InSeq(k, both)
        BY <2>13, <2>15
      <3>2. QED
        BY <2>2, <2>5, <2>11, <2>15, <3>1 DEF ExportInv, InSeq, Events!NewestFirst
    <2>16. CASE next # None
      <3>1. \A k \in export.start : k > dropped =>
                InSeq(k, both) \/ k \in Wanted(export.filter, export.after)'
        BY <2>13, <2>14
      <3>2. export'.step = "reading" /\ export'.after # None /\ Events!NewestFirst(export'.out)
        BY <2>5, <2>11, <2>16
      <3>3. \A i \in DOMAIN export'.out : export'.out[i] >= export'.after
        BY <2>5, <2>12, <2>16
      <3>4. \A k \in export'.start : k > dropped' =>
                InSeq(k, export'.out) \/ k \in Wanted(export.filter, export.after)'
        BY <2>2, <2>5, <3>1
      <3>5. QED
        BY <3>2, <3>3, <3>4 DEF ExportInv, InSeq, Events!NewestFirst
    <2>17. QED
      BY <2>15, <2>16
  <1>7. QED
    BY <1>4, <1>5, <1>6
       DEF Events!Next, Events!Write, Events!DropPartition, Events!Choose, Events!LoadOlder,
           Events!Serve, Events!Show, Events!Fail, Events!page

\* What the readers of the page rest on, when no row and no request changes but r.
LEMMA AnswersStep ==
    ASSUME HistoryTypeOK, AnswersInv, reader = "page", Events!Next
    PROVE  AnswersInv'
  <1> DEFINE Result == [step : {"idle", "sent", "answered"}, filter : Events!Filters,
                        after : Events!Keys \cup {None}, got : Seq(Events!Keys)]
             ListOK == /\ \A i \in DOMAIN feed : feed[i] \in Events!Written
                       /\ cursor \in Events!Written \cup {None}
             Asks(q) == q.step # "idle" => q.after \in Events!Written \cup {None}
             Answers(q) == q.step = "answered" => Answer(q.filter, q.after, q.got)
  <1>1. /\ fetch \in [Fetches -> Result] /\ feed \in Seq(Events!Keys)
        /\ filter \in Events!Filters /\ cursor \in Events!Keys \cup {None}
    BY DEF HistoryTypeOK
  <1>2. /\ source = "trail" /\ ListOK
        /\ \A q \in Fetches : Asks(fetch[q]) /\ Answers(fetch[q])
    BY DEF AnswersInv
  <1>3. source' = source
    BY DEF Events!Next, Events!Write, Events!DropPartition, Events!StartExport, Events!ExportPage,
           Events!Choose, Events!LoadOlder, Events!Serve, Events!Show, Events!Fail
  <1>4. Events!Idle.step = "idle" /\ \A what, after : /\ Events!Load(what, after).step = "sent"
                                                      /\ Events!Load(what, after).after = after
    BY DEF Events!Idle, Events!Load
  <1>5. ASSUME NEW w \in Events!Keys, NEW c \in Categories, Events!Write(w, c) PROVE AnswersInv'
    <2>1. UNCHANGED <<feed, cursor, fetch, filter>>
      BY <1>5 DEF Events!Write, Events!page
    <2>2. \A j \in Events!Written : j \in Events!Written'
      BY <1>2, <1>5, WriteFacts
    <2>3. ASSUME NEW q \in Fetches, fetch[q].step = "answered"
          PROVE  Answer(fetch[q].filter, fetch[q].after, fetch[q].got)'
      <3> DEFINE what == fetch[q].filter
                 after == fetch[q].after
                 got == fetch[q].got
      <3>1. /\ what \in Events!Filters /\ after \in Events!Written \cup {None}
            /\ got \in Seq(Events!Keys)
        BY <1>1, <1>2, <2>3
      <3>2. Answer(what, after, got)
        BY <1>2, <2>3
      <3>3. ASSUME NEW ww, NEW a \in Events!Written \cup {None}, NEW g \in Seq(Events!Keys),
                   Answer(ww, a, g)
            PROVE  Answer(ww, a, g)'
        BY <1>2, <1>5, <3>3, AnswerStays
      <3>4. PICK ww \in Events!Filters, a \in Events!Written \cup {None}, g \in Seq(Events!Keys) :
                ww = what /\ a = after /\ g = got /\ Answer(ww, a, g)
        BY <3>1, <3>2
      <3>5. Answer(ww, a, g)'
        BY <3>3, <3>4
      <3>6. what' = ww /\ after' = a /\ got' = g
        BY <2>1, <3>4
      <3> HIDE DEF what, after, got
      <3>7. Answer(what, after, got)'
        BY <3>5, <3>6
           DEF Answer, Shown, Events!NewestFirst, InSeq, Events!NextCursor, Events!Last, Wanted,
               Events!Written, Events!Passes
      <3>8. QED
        BY <3>7 DEF what, after, got
    <2>4. QED
      BY <1>2, <1>3, <2>1, <2>2, <2>3 DEF AnswersInv
  <1>6. ASSUME UNCHANGED history,
               \A q \in Fetches : /\ Asks(fetch'[q])
                                  /\ fetch'[q] = fetch[q] \/ Answers(fetch'[q]),
               /\ (\A i \in DOMAIN feed' : feed'[i] \in Events!Written)
               /\ cursor' \in Events!Written \cup {None}
        PROVE  AnswersInv'
    <2>1. Events!Written' = Events!Written
      BY <1>6 DEF Events!Written
    <2>2. \A what, after, got : Answer(what, after, got)' <=> Answer(what, after, got)
      BY <1>6
         DEF Answer, Shown, Events!NewestFirst, InSeq, Events!NextCursor, Events!Last, Wanted,
             Events!Written, Events!Passes
    <2>3. \A q \in Fetches : Asks(fetch'[q]) /\ Answers(fetch'[q])
      BY <1>2, <1>6
    <2>4. ASSUME NEW q \in Fetches, fetch'[q].step = "answered"
          PROVE  Answer(fetch[q].filter, fetch[q].after, fetch[q].got)'
      <3>1. Answer(fetch'[q].filter, fetch'[q].after, fetch'[q].got)
        BY <2>3, <2>4
      <3>2. QED
        BY <1>6, <3>1
           DEF Answer, Shown, Events!NewestFirst, InSeq, Events!NextCursor, Events!Last, Wanted,
               Events!Written, Events!Passes
    <2>5. \A q \in Fetches : fetch'[q].step # "idle" =>
              fetch'[q].after \in Events!Written' \cup {None}
      BY <2>1, <2>3
    <2>6. QED
      BY <1>2, <1>3, <1>6, <2>1, <2>4, <2>5 DEF AnswersInv
  <1>7. ASSUME NEW w \in Events!Keys, Events!DropPartition(w) PROVE AnswersInv'
    BY <1>2, <1>7 DEF Events!DropPartition
  <1>8. ASSUME Events!ExportPage \/ \E what \in Events!Filters : Events!StartExport(what)
        PROVE  AnswersInv'
    <2>1. UNCHANGED <<history, feed, cursor, fetch>>
      BY <1>8 DEF Events!StartExport, Events!ExportPage, Events!page
    <2>2. \A q \in Fetches : Asks(fetch'[q]) /\ fetch'[q] = fetch[q]
      BY <1>2, <2>1
    <2> HIDE DEF Asks, Answers
    <2>3. QED
      BY <1>2, <1>6, <2>1, <2>2
  <1>9. ASSUME NEW what \in Events!Filters, Events!Choose(what) PROVE AnswersInv'
    <2>1. PICK r \in Fetches : fetch' = [fetch EXCEPT ![r] = Events!Load(what, None)]
      BY <1>9 DEF Events!Choose, Events!Send, Events!AtHand
    <2>2. UNCHANGED <<history, feed, cursor>>
      BY <1>9 DEF Events!Choose
    <2>3. \A q \in Fetches : fetch'[q] = fetch[q] \/ fetch'[q] = Events!Load(what, None)
      BY <1>1, <2>1
    <2>4. Asks(Events!Load(what, None)) /\ Answers(Events!Load(what, None))
      BY <1>4
    <2> HIDE DEF Asks, Answers
    <2>5. \A q \in Fetches : /\ Asks(fetch'[q])
                             /\ fetch'[q] = fetch[q] \/ Answers(fetch'[q])
      BY <1>2, <2>3, <2>4
    <2>6. QED
      BY <1>2, <1>6, <2>2, <2>5 DEF Asks, Answers
  <1>10. ASSUME Events!LoadOlder PROVE AnswersInv'
    <2>1. PICK r \in Fetches : fetch' = [fetch EXCEPT ![r] = Events!Load(filter, cursor)]
      BY <1>10 DEF Events!LoadOlder, Events!Send, Events!AtHand
    <2>2. UNCHANGED <<history, feed, cursor>>
      BY <1>10 DEF Events!LoadOlder
    <2>3. \A q \in Fetches : fetch'[q] = fetch[q] \/ fetch'[q] = Events!Load(filter, cursor)
      BY <1>1, <2>1
    <2>4. Asks(Events!Load(filter, cursor)) /\ Answers(Events!Load(filter, cursor))
      BY <1>2, <1>4
    <2> HIDE DEF Asks, Answers
    <2>5. \A q \in Fetches : /\ Asks(fetch'[q])
                             /\ fetch'[q] = fetch[q] \/ Answers(fetch'[q])
      BY <1>2, <2>3, <2>4
    <2>6. QED
      BY <1>2, <1>6, <2>2, <2>5 DEF Asks, Answers
  <1>11. ASSUME NEW r \in Fetches, Events!Serve(r) PROVE AnswersInv'
    <2> DEFINE what == fetch[r].filter
               after == fetch[r].after
               got == Events!Page(what, after)
               new == [fetch[r] EXCEPT !.step = "answered", !.got = got]
    <2>1. /\ what \in Events!Filters /\ after \in Events!Keys \cup {None}
          /\ after \in Events!Written \cup {None}
      BY <1>1, <1>2, <1>11 DEF Events!Serve
    <2>2. Answer(what, after, got)
      BY <2>1, PageAnswers
    <2>3. fetch' = [fetch EXCEPT ![r] = new] /\ UNCHANGED <<history, feed, cursor>>
      BY <1>11 DEF Events!Serve
    <2>4. new.step = "answered" /\ new.filter = what /\ new.after = after /\ new.got = got
      BY <1>1
    <2> HIDE DEF what, after, got, new
    <2>5. Asks(new) /\ Answers(new)
      BY <2>1, <2>2, <2>4
    <2>6. \A q \in Fetches : fetch'[q] = fetch[q] \/ fetch'[q] = new
      BY <1>1, <2>3
    <2> HIDE DEF Asks, Answers
    <2>7. \A q \in Fetches : /\ Asks(fetch'[q])
                             /\ fetch'[q] = fetch[q] \/ Answers(fetch'[q])
      BY <1>2, <2>5, <2>6
    <2>8. QED
      BY <1>2, <1>6, <2>3, <2>7 DEF Asks, Answers
  <1>12. ASSUME NEW r \in Fetches, Events!Show(r) \/ Events!Fail(r) PROVE AnswersInv'
    <2>1. fetch' = [fetch EXCEPT ![r] = Events!Idle] /\ UNCHANGED history
      BY <1>12 DEF Events!Show, Events!Fail
    <2>2. \A q \in Fetches : fetch'[q] = fetch[q] \/ fetch'[q] = Events!Idle
      BY <1>1, <2>1
    <2>3. Asks(Events!Idle) /\ Answers(Events!Idle)
      BY <1>4
    <2> HIDE DEF Asks, Answers
    <2>4. \A q \in Fetches : /\ Asks(fetch'[q])
                             /\ fetch'[q] = fetch[q] \/ Answers(fetch'[q])
      BY <1>2, <2>2, <2>3
    <2>5. /\ (\A i \in DOMAIN feed' : feed'[i] \in Events!Written)
          /\ cursor' \in Events!Written \cup {None}
      <3>1. CASE Events!Fail(r)
        BY <1>2, <3>1 DEF Events!Fail
      <3>2. CASE Events!Show(r)
        <4> DEFINE got == fetch[r].got
        <4>1. /\ feed' = IF fetch[r].after = None THEN got ELSE feed \o got
              /\ cursor' = Events!NextCursor(got) /\ fetch[r].step = "answered"
          BY <3>2 DEF Events!Show
        <4>2. /\ got \in Seq(Events!Keys) /\ Len(got) <= PageLimit
              /\ \A i \in DOMAIN got : got[i] \in Events!Written
          BY <1>1, <1>2, <4>1 DEF Answer, Answers
        <4> HIDE DEF got
        <4>3. got \in Seq(Events!Written) /\ feed \in Seq(Events!Written)
          <5>1. ASSUME NEW seq \in Seq(Events!Keys), \A i \in DOMAIN seq : seq[i] \in Events!Written
                PROVE  seq \in Seq(Events!Written)
            <6>1. /\ Len(seq) \in Nat /\ DOMAIN seq = 1..Len(seq)
                  /\ seq \in [1..Len(seq) -> Events!Keys]
              BY LenProperties
            <6>2. seq \in [1..Len(seq) -> Events!Written]
              BY <5>1, <6>1
            <6>3. QED
              BY <6>1, <6>2 DEF Seq
          <5>2. QED
            BY <1>1, <1>2, <4>2, <5>1
        <4>4. feed \o got \in Seq(Events!Written)
          BY <4>3, ConcatProperties
        <4>5. feed' \in Seq(Events!Written)
          BY <4>1, <4>3, <4>4
        <4>6. \A i \in DOMAIN feed' : feed'[i] \in Events!Written
          BY <4>5, ElementOfSeq, LenProperties
        <4>7. Events!NextCursor(got) \in Events!Written \cup {None}
          <5>1. Events!Written \in SUBSET Events!Keys
            BY DEF Events!Written
          <5>2. QED
            BY <4>2, <4>3, <5>1, CursorFacts
        <4>8. QED
          BY <4>1, <4>6, <4>7
      <3>3. QED
        BY <1>12, <3>1, <3>2
    <2>6. QED
      BY <1>6, <2>1, <2>4, <2>5 DEF Asks, Answers
  <1>13. QED
    BY <1>5, <1>7, <1>8, <1>9, <1>10, <1>11, <1>12 DEF Events!Next

\* Showing an older page under what it goes on from.
LEMMA ShownLonger ==
    ASSUME NEW what, NEW seq \in Seq(Events!Keys), NEW from \in Events!Keys,
           NEW got \in Seq(Events!Keys),
           Shown(what, seq, from), seq # <<>>, Answer(what, from, got)
    PROVE  Shown(what, seq \o got, Events!NextCursor(got))
  <1> DEFINE next == Events!NextCursor(got)
             both == seq \o got
             W == Wanted(what, None)
  <1>1. /\ \A k \in Events!Keys : InSeq(k, seq) <=> (k \in W /\ k <= seq[1] /\ k >= from)
        /\ Events!NewestFirst(seq)
    BY KeysFinite DEF Shown
  <1>2. /\ \A k \in Events!Keys : InSeq(k, got) <=>
               (k \in W /\ k < from /\ (next # None => k >= next))
        /\ Events!NewestFirst(got) /\ Len(got) <= PageLimit
    BY KeysFinite DEF Answer, Wanted
  <1>3. next \in Events!Keys \cup {None} /\ (next # None => InSeq(next, got))
    <2>1. /\ next \in Events!Keys \cup {None}
          /\ next # None => next = got[Len(got)] /\ Len(got) \in 1..Len(got)
      BY <1>2, CursorFacts
    <2>2. DOMAIN got = 1..Len(got)
      BY LenProperties
    <2>3. QED
      BY <2>1, <2>2 DEF InSeq
  <1>4. from \in Nat /\ Events!Keys \in SUBSET Nat
    BY KeysFinite
  <1>5. /\ \A i \in DOMAIN seq : seq[i] \in Events!Keys /\ InSeq(seq[i], seq)
        /\ \A i \in DOMAIN got : got[i] \in Events!Keys /\ InSeq(got[i], got)
    BY ElementOfSeq, LenProperties DEF InSeq
  <1> HIDE DEF next, both, W
  <1>6. \A i \in DOMAIN seq, j \in DOMAIN got : seq[i] > got[j]
    <2> SUFFICES ASSUME NEW i \in DOMAIN seq, NEW j \in DOMAIN got PROVE seq[i] > got[j]
      OBVIOUS
    <2>1. seq[i] >= from /\ got[j] < from /\ seq[i] \in Nat /\ got[j] \in Nat
      BY <1>1, <1>2, <1>4, <1>5
    <2>2. QED
      BY <1>4, <2>1
  <1>7. /\ Events!NewestFirst(both)
        /\ \A k : InSeq(k, both) <=> InSeq(k, seq) \/ InSeq(k, got)
        /\ both[1] = seq[1]
    BY <1>1, <1>2, <1>6, SortedConcat DEF both
  <1>8. seq[1] \in Nat /\ seq[1] >= from
    <2>1. Len(seq) # 0 /\ Len(seq) \in Nat /\ DOMAIN seq = 1..Len(seq)
      BY EmptySeq, LenProperties
    <2>2. 1 \in DOMAIN seq
      BY <2>1
    <2>3. seq[1] \in Events!Keys /\ InSeq(seq[1], seq)
      BY <1>5, <2>2
    <2>4. QED
      BY <1>1, <1>4, <2>3
  <1>9. ASSUME NEW k \in Events!Keys
        PROVE  InSeq(k, both) <=> (k \in W /\ k <= both[1] /\ (next # None => k >= next))
    <2>1. k \in Nat
      BY <1>4
    <2>2. CASE k >= from
      <3>1. ~ InSeq(k, got)
        BY <1>2, <1>4, <2>1, <2>2
      <3>2. next # None => k >= next
        <4>1. next # None => next \in Nat /\ next < from
          BY <1>2, <1>3, <1>4
        <4>2. QED
          BY <1>4, <2>1, <2>2, <4>1
      <3>3. QED
        BY <1>1, <1>7, <2>2, <3>1, <3>2
    <2>3. CASE k < from
      <3>1. ~ InSeq(k, seq)
        BY <1>1, <1>4, <2>1, <2>3
      <3>2. k <= both[1]
        BY <1>4, <1>7, <1>8, <2>1, <2>3
      <3>3. QED
        BY <1>2, <1>7, <2>3, <3>1, <3>2
    <2>4. QED
      BY <1>4, <2>1, <2>2, <2>3
  <1>10. QED
    BY <1>7, <1>9 DEF Shown, both, next, W

LEMMA FeedStep ==
    ASSUME HistoryTypeOK, AnswersInv, FeedInv, reader = "page", Events!Next
    PROVE  FeedInv'
  <1> DEFINE Result == [step : {"idle", "sent", "answered"}, filter : Events!Filters,
                        after : Events!Keys \cup {None}, got : Seq(Events!Keys)]
             First(q, what) == q.step # "idle" /\ q.filter = what /\ q.after = None
             GoesOn(q, from, seq) == q.step # "idle" /\ q.after # None =>
                                         q.after = from /\ seq # <<>>
  <1>1. /\ fetch \in [Fetches -> Result] /\ feed \in Seq(Events!Keys)
        /\ filter \in Events!Filters /\ cursor \in Events!Keys \cup {None} /\ mixed \in BOOLEAN
    BY DEF HistoryTypeOK
  <1>2. ASSUME ~ mixed
        PROVE  /\ Shown(filter, feed, cursor) \/ \E q \in Fetches : First(fetch[q], filter)
               /\ \A q \in Fetches : GoesOn(fetch[q], cursor, feed)
    BY <1>2 DEF FeedInv, FirstDue
  <1>3. Events!Idle.step = "idle" /\ \A what, after : /\ Events!Load(what, after).step = "sent"
                                                      /\ Events!Load(what, after).filter = what
                                                      /\ Events!Load(what, after).after = after
    BY DEF Events!Idle, Events!Load
  <1>4. ASSUME UNCHANGED history
        PROVE  \A what, seq, from : Shown(what, seq, from)' <=> Shown(what, seq, from)
    BY <1>4 DEF Shown, Events!NewestFirst, InSeq, Wanted, Events!Written, Events!Passes
  \* The rows stay, the requests go on from where the list ends, and it belongs to the filter.
  <1>5. ASSUME UNCHANGED history,
               ~ mixed' => /\ \/ Shown(filter', feed', cursor')
                              \/ \E q \in Fetches : First(fetch'[q], filter')
                           /\ \A q \in Fetches : GoesOn(fetch'[q], cursor', feed')
        PROVE  FeedInv'
    <2>1. ASSUME Shown(filter', feed', cursor') PROVE Shown(filter, feed, cursor)'
      BY <1>5, <2>1 DEF Shown, Events!NewestFirst, InSeq, Wanted, Events!Written, Events!Passes
    <2>2. QED
      BY <1>5, <2>1 DEF FeedInv, FirstDue
  <1>6. ASSUME NEW w \in Events!Keys, NEW c \in Categories, Events!Write(w, c) PROVE FeedInv'
    <2>1. UNCHANGED <<feed, cursor, fetch, filter, mixed>>
      BY <1>6 DEF Events!Write, Events!page
    <2>2. ASSUME Shown(filter, feed, cursor) PROVE Shown(filter, feed, cursor)'
      <3>1. ASSUME NEW what, NEW seq \in Seq(Events!Keys), NEW from, Shown(what, seq, from),
                   \A i \in DOMAIN seq : seq[i] \in Events!Written
            PROVE  Shown(what, seq, from)'
        BY <1>6, <3>1, ShownStays DEF AnswersInv
      <3>2. PICK what \in Events!Filters, seq \in Seq(Events!Keys),
                 from \in Events!Keys \cup {None} :
                what = filter /\ seq = feed /\ from = cursor
        BY <1>1
      <3>3. Shown(what, seq, from)'
        BY <2>2, <3>1, <3>2 DEF AnswersInv
      <3>4. QED
        BY <2>1, <3>2, <3>3
           DEF Shown, Events!NewestFirst, InSeq, Wanted, Events!Written, Events!Passes
    <2>3. QED
      BY <2>1, <2>2 DEF FeedInv, FirstDue
  <1>7. ASSUME NEW w \in Events!Keys, Events!DropPartition(w) PROVE FeedInv'
    BY <1>7 DEF Events!DropPartition, AnswersInv
  <1>8. ASSUME Events!ExportPage \/ \E what \in Events!Filters : Events!StartExport(what)
        PROVE  FeedInv'
    <2>1. UNCHANGED <<history, feed, cursor, fetch, filter, mixed>>
      BY <1>8 DEF Events!StartExport, Events!ExportPage, Events!page
    <2> HIDE DEF First, GoesOn
    <2>2. QED
      BY <1>2, <1>5, <2>1
  <1>9. ASSUME NEW what \in Events!Filters, Events!Choose(what) PROVE FeedInv'
    <2>1. PICK r \in Events!AtHand : fetch' = [fetch EXCEPT ![r] = Events!Load(what, None)]
      BY <1>9 DEF Events!Choose, Events!Send
    <2>2. r \in Fetches /\ UNCHANGED <<history, feed, cursor, mixed>> /\ filter' = what
      BY <1>9 DEF Events!Choose, Events!AtHand
    <2>3. \A q \in Fetches : fetch'[q] = IF q = r THEN Events!Load(what, None) ELSE fetch[q]
      BY <1>1, <2>1
    <2>4. First(Events!Load(what, None), what) /\ GoesOn(Events!Load(what, None), cursor, feed)
      BY <1>3
    <2> HIDE DEF First, GoesOn
    <2>5. QED
      BY <1>2, <1>5, <2>2, <2>3, <2>4
  <1>10. ASSUME Events!LoadOlder PROVE FeedInv'
    <2>1. PICK r \in Events!AtHand : fetch' = [fetch EXCEPT ![r] = Events!Load(filter, cursor)]
      BY <1>10 DEF Events!LoadOlder, Events!Send
    <2>2. /\ r \in Fetches /\ fetch[r].step = "idle" /\ cursor # None /\ feed # <<>>
          /\ UNCHANGED <<history, feed, cursor, mixed, filter>>
      BY <1>10 DEF Events!LoadOlder, Events!AtHand
    <2>3. \A q \in Fetches : fetch'[q] = IF q = r THEN Events!Load(filter, cursor) ELSE fetch[q]
      BY <1>1, <2>1
    <2>4. GoesOn(Events!Load(filter, cursor), cursor, feed) /\ ~ First(fetch[r], filter)
      BY <1>3, <2>2
    <2> HIDE DEF First, GoesOn
    <2>5. QED
      BY <1>2, <1>5, <2>2, <2>3, <2>4
  <1>11. ASSUME NEW r \in Fetches, Events!Serve(r) PROVE FeedInv'
    <2> DEFINE new == [fetch[r] EXCEPT !.step = "answered",
                                       !.got = Events!Page(fetch[r].filter, fetch[r].after)]
    <2>1. /\ fetch' = [fetch EXCEPT ![r] = new] /\ fetch[r].step = "sent"
          /\ UNCHANGED <<history, feed, cursor, mixed, filter>>
      BY <1>11 DEF Events!Serve
    <2>2. new.step = "answered" /\ new.filter = fetch[r].filter /\ new.after = fetch[r].after
      BY <1>1
    <2> HIDE DEF new
    <2>3. \A q \in Fetches : fetch'[q] = IF q = r THEN new ELSE fetch[q]
      BY <1>1, <2>1
    <2>4. /\ First(new, filter) <=> First(fetch[r], filter)
          /\ GoesOn(new, cursor, feed) <=> GoesOn(fetch[r], cursor, feed)
      BY <2>1, <2>2
    <2> HIDE DEF First, GoesOn
    <2>5. QED
      BY <1>2, <1>5, <2>1, <2>3, <2>4
  <1>12. ASSUME NEW r \in Fetches, Events!Show(r) PROVE FeedInv'
    <2> DEFINE got == fetch[r].got
               after == fetch[r].after
    <2>1. /\ fetch[r].step = "answered"
          /\ feed' = IF after = None THEN got ELSE feed \o got
          /\ cursor' = Events!NextCursor(got)
          /\ mixed' = (~ (Events!Due = {r} /\ fetch[r].filter = filter) \/ (mixed /\ after # None))
          /\ fetch' = [fetch EXCEPT ![r] = Events!Idle] /\ UNCHANGED <<history, filter>>
      BY <1>12 DEF Events!Show
    <2>2. \A q \in Fetches : fetch'[q] = IF q = r THEN Events!Idle ELSE fetch[q]
      BY <1>1, <2>1
    <2>3. /\ Answer(fetch[r].filter, after, got) /\ got \in Seq(Events!Keys)
          /\ after \in Events!Keys \cup {None}
      BY <1>1, <2>1 DEF AnswersInv
    <2>4. ASSUME ~ mixed'
          PROVE  /\ Shown(filter', feed', cursor')
                 /\ \A q \in Fetches : GoesOn(fetch'[q], cursor', feed')
      <3>1. Events!Due = {r} /\ fetch[r].filter = filter /\ (after = None \/ ~ mixed)
        BY <1>1, <2>1, <2>4
      <3>2. \A q \in Fetches : fetch'[q].step = "idle"
        BY <1>3, <2>2, <3>1 DEF Events!Due, Events!AtHand
      <3>3. \A q \in Fetches : GoesOn(fetch'[q], cursor', feed')
        BY <3>2
      <3>4. CASE after = None
        <4>1. Shown(filter, got, Events!NextCursor(got))
          BY <2>3, <3>1, <3>4 DEF Answer
        <4>2. QED
          BY <2>1, <3>3, <3>4, <4>1
      <3>5. CASE after # None
        <4>1. after = cursor /\ feed # <<>>
          BY <1>2, <2>1, <3>1, <3>5
        <4>2. ~ \E q \in Fetches : First(fetch[q], filter)
          <5>1. \A q \in Fetches : q # r => fetch[q].step = "idle"
            BY <3>1 DEF Events!Due, Events!AtHand
          <5>2. QED
            BY <3>5, <5>1
        <4>3. Shown(filter, feed, cursor)
          <5> HIDE DEF First, GoesOn
          <5>1. QED
            BY <1>2, <3>1, <3>5, <4>2
        <4> HIDE DEF got, after
        <4>4. Answer(filter, cursor, got) /\ cursor \in Events!Keys
          BY <2>3, <3>1, <3>5, <4>1
        <4>5. Shown(filter, feed \o got, Events!NextCursor(got))
          BY <1>1, <2>3, <4>1, <4>3, <4>4, ShownLonger
        <4>6. QED
          BY <2>1, <3>3, <3>5, <4>5
      <3>6. QED
        BY <3>4, <3>5
    <2> HIDE DEF First, GoesOn, got, after
    <2>5. QED
      BY <1>5, <2>1, <2>4
  <1>13. ASSUME NEW r \in Fetches, Events!Fail(r) PROVE FeedInv'
    <2>1. /\ mixed' = (mixed \/ Events!Due # {r} \/ fetch[r].after = None)
          /\ fetch' = [fetch EXCEPT ![r] = Events!Idle]
          /\ UNCHANGED <<history, filter, feed, cursor>>
      BY <1>13 DEF Events!Fail
    <2>2. \A q \in Fetches : fetch'[q] = IF q = r THEN Events!Idle ELSE fetch[q]
      BY <1>1, <2>1
    <2>3. GoesOn(Events!Idle, cursor, feed)
      BY <1>3
    <2>4. ASSUME ~ mixed' PROVE ~ First(fetch[r], filter) /\ ~ mixed
      BY <1>1, <2>1, <2>4
    <2> HIDE DEF First, GoesOn
    <2>5. QED
      BY <1>2, <1>5, <2>1, <2>2, <2>3, <2>4
  <1>14. QED
    BY <1>6, <1>7, <1>8, <1>9, <1>10, <1>11, <1>12, <1>13 DEF Events!Next

LEMMA HistoryInit ==
    ASSUME Events!Init
    PROVE  HistoryInv
  <1>1. PICK r \in Fetches :
            fetch = [q \in Fetches |-> IF q = r THEN Events!Load(All, None) ELSE Events!Idle]
    BY DEF Events!Init
  <1>2. <<>> \in Seq(Events!Keys) /\ All \in Events!Filters /\ DOMAIN <<>> = {}
    BY EmptySeq DEF Events!Filters
  <1>3. /\ Events!Load(All, None) \in [step : {"idle", "sent", "answered"}, filter : Events!Filters,
                                       after : Events!Keys \cup {None}, got : Seq(Events!Keys)]
        /\ Events!Idle \in [step : {"idle", "sent", "answered"}, filter : Events!Filters,
                            after : Events!Keys \cup {None}, got : Seq(Events!Keys)]
    BY <1>2 DEF Events!Load, Events!Idle
  <1>4. /\ source \in {"trail", "link"} /\ reader \in {"export", "page"}
        /\ reader = "page" => source = "trail"
    BY DEF Events!Init
  <1>5. export = [step |-> "none", filter |-> All, after |-> None, out |-> <<>>, start |-> {}]
    BY DEF Events!Init
  <1>6. /\ dropped = 0 /\ filter = All /\ feed = <<>> /\ cursor = None /\ mixed = FALSE
        /\ history = [k \in Events!Keys |-> None]
    BY DEF Events!Init
  <1>7. HistoryTypeOK
    <2> DEFINE Result == [step : {"idle", "sent", "answered"}, filter : Events!Filters,
                          after : Events!Keys \cup {None}, got : Seq(Events!Keys)]
    <2>1. fetch \in [Fetches -> Result]
      <3>1. Events!Load(All, None) \in Result /\ Events!Idle \in Result
        BY <1>3
      <3> HIDE DEF Result
      <3>2. QED
        BY <1>1, <3>1
    <2>2. export \in [step : {"none", "reading", "done"}, filter : Events!Filters,
                      after : Events!Keys \cup {None}, out : Seq(Events!Keys),
                      start : SUBSET Events!Keys]
      BY <1>2, <1>5
    <2>3. dropped \in 0..MaxKey /\ RowsOK
      BY <1>6, EventsAssumption DEF RowsOK
    <2>4. QED
      BY <1>2, <1>4, <1>6, <2>1, <2>2, <2>3 DEF HistoryTypeOK
  <1>8. ExportInv
    BY <1>2, <1>5 DEF ExportInv, Events!NewestFirst
  <1>9. /\ fetch[r].step = "sent" /\ fetch[r].filter = All
        /\ \A q \in Fetches : fetch[q].after = None /\ fetch[q].step # "answered"
    BY <1>1 DEF Events!Load, Events!Idle
  <1>10. reader = "page" => AnswersInv /\ FeedInv
    BY <1>2, <1>4, <1>6, <1>9 DEF AnswersInv, FeedInv, FirstDue
  <1>11. QED
    BY <1>7, <1>8, <1>10 DEF HistoryInv

LEMMA HistoryStep ==
    ASSUME HistoryInv, Events!Next \/ UNCHANGED state
    PROVE  HistoryInv'
  <1>1. CASE Events!Next
    <2>1. HistoryTypeOK' /\ ExportInv'
      BY <1>1, HistoryTypeStep, ExportStep DEF HistoryInv
    <2>2. reader' = reader
      BY <1>1
         DEF Events!Next, Events!Write, Events!DropPartition, Events!StartExport,
             Events!ExportPage, Events!Choose, Events!LoadOlder, Events!Serve, Events!Show,
             Events!Fail
    <2>3. reader = "page" => AnswersInv' /\ FeedInv'
      BY <1>1, AnswersStep, FeedStep DEF HistoryInv
    <2>4. QED
      BY <2>1, <2>2, <2>3 DEF HistoryInv
  <1>2. CASE UNCHANGED state
    BY <1>2
       DEF state, HistoryInv, HistoryTypeOK, RowsOK, ExportInv, AnswersInv, FeedInv, FirstDue,
           Answer,
           Shown, Events!NewestFirst, InSeq, Events!NextCursor, Events!Last, Wanted,
           Events!Written, Events!Passes
  <1>3. QED
    BY <1>1, <1>2

LEMMA HistoryFollows ==
    ASSUME HistoryInv
    PROVE  Events!HistoryRead
  <1>1. HistoryTypeOK /\ ExportInv
    BY DEF HistoryInv
  <1>2. Events!ExportExact
    BY <1>1 DEF ExportInv, Events!ExportExact, InSeq, Events!ToSet
  <1>3. ASSUME reader = "page", Events!Due = {}, ~ mixed
        PROVE  /\ Events!NewestFirst(feed)
               /\ feed # <<>> => Events!ToSet(feed) =
                      {k \in Events!Written : /\ Events!Passes(k, filter) /\ k <= Head(feed)
                                              /\ cursor # None => k >= cursor}
    <2>1. \A r \in Fetches : fetch[r].step = "idle"
      BY <1>3 DEF Events!Due, Events!AtHand
    <2>2. Shown(filter, feed, cursor)
      BY <1>3, <2>1 DEF HistoryInv, FeedInv, FirstDue
    <2>3. feed \in Seq(Events!Keys) /\ (feed # <<>> => Head(feed) = feed[1])
      BY <1>1 DEF HistoryTypeOK
    <2>4. ASSUME feed # <<>>, NEW k
          PROVE  k \in Events!ToSet(feed) <=>
                 k \in {n \in Events!Written : /\ Events!Passes(n, filter) /\ n <= Head(feed)
                                               /\ cursor # None => n >= cursor}
      <3>1. k \in Events!ToSet(feed) <=> InSeq(k, feed)
        BY DEF Events!ToSet, InSeq
      <3>2. k \in Events!Written => k \in Events!Keys
        BY DEF Events!Written
      <3>3. InSeq(k, feed) => k \in Events!Keys
        BY <2>3, ElementOfSeq, LenProperties DEF InSeq
      <3>4. k \in Wanted(filter, None) <=> k \in Events!Written /\ Events!Passes(k, filter)
        BY DEF Wanted
      <3>5. QED
        BY <2>2, <2>3, <2>4, <3>1, <3>2, <3>3, <3>4 DEF Shown
    <2>5. QED
      BY <2>2, <2>4 DEF Shown
  <1>4. QED
    BY <1>2, <1>3 DEF Events!HistoryRead, Events!FeedExact

\* An export writes every row that was there when it began and is not dropped before its
\* turn, once and newest first; and the activity page lists what passes its filter
\* without a gap or a repetition unless answers crossed, while rows are written and
\* dropped under both (audit.service.ts list and export, shares.service.ts
\* exportEvents, activity/page.tsx).
THEOREM HistoriesHold == PartsSpec => []HistoryRead
  <1> DEFINE Inv == about = "events" => HistoryInv
  <1>1. PartsInit => Inv
    BY HistoryInit DEF PartsInit
  <1>2. Inv /\ [PartsNext]_<<about, vars, state>> => Inv'
    <2> SUFFICES ASSUME Inv, [PartsNext]_<<about, vars, state>>, about' = "events"
                 PROVE  HistoryInv'
      OBVIOUS
    <2>1. about = "events" /\ (Events!Next \/ UNCHANGED state)
      BY DEF PartsNext
    <2> QED
      BY <2>1, HistoryStep
  <1>3. Inv => HistoryRead
    BY HistoryFollows DEF HistoryRead
  <1> HIDE DEF Inv
  <1> QED
    BY <1>1, <1>2, <1>3, PTL DEF PartsSpec

-----------------------------------------------------------------------------
(***************************************************************************)
(* What archives hold, under names of their own for the variables they     *)
(* have in MCWorkspace.                                                    *)
(***************************************************************************)

docs == s1
scan == s2
stored == s3
archive == s4
inUse == s5
logged == s6
changes == s7

USE DEF docs, scan, stored, archive, inUse, logged, changes

LEMMA SameNumber == \A S : Archives!Cardinality(S) = Cardinality(S)
  BY DEF Archives!Cardinality, Cardinality

\* A number that is refuted has a least one that is.
LEMMA LeastExists ==
    ASSUME NEW T \in SUBSET Nat, T # {}
    PROVE  \E m \in T : \A k \in T : m <= k
  <1> DEFINE R == {q \in Nat \X Nat : q[1] < q[2]}
  <1>1. IsWellFoundedOn(R, Nat)
    BY NatLessThanWellFounded DEF OpToRel
  <1>2. PICK m \in T : \A k \in T : ~ (<<k, m>> \in R)
    BY <1>1, WFMin
  <1>3. \A k \in T : ~ (k < m)
    BY <1>2
  <1>4. QED
    BY <1>3

Paths == {Names[d][1] : d \in Docs} \X Seq(Nat)

Listed == <<base, <<>>>>

Entry == [id : Docs, key : Archives!Versions, path : Paths]

LEMMA NumbersDiffer ==
    ASSUME NEW path \in Paths, NEW m \in Nat, NEW n \in Nat
    PROVE  /\ Archives!Numbered(path, n) \in Paths
           /\ Archives!Numbered(path, m) = Archives!Numbered(path, n) => m = n
  <1>1. path[1] \in {Names[d][1] : d \in Docs} /\ path[2] \in Seq(Nat)
    BY DEF Paths
  <1>2. \A k \in Nat : /\ Append(path[2], k) \in Seq(Nat)
                       /\ Append(path[2], k)[Len(path[2]) + 1] = k
    BY <1>1, AppendProperties
  <1>3. Archives!Numbered(path, n) \in Paths
    BY <1>1, <1>2 DEF Archives!Numbered, Paths
  <1>4. Archives!Numbered(path, m) = Archives!Numbered(path, n) =>
            Append(path[2], m) = Append(path[2], n)
    BY DEF Archives!Numbered
  <1>5. QED
    BY <1>2, <1>3, <1>4

\* There are more numbers to try than paths taken, so the loop ends with a path that is free.
LEMMA PathIsFree ==
    ASSUME NEW taken, IsFiniteSet(taken), NEW path \in Paths
    PROVE  /\ Archives!UniquePath(taken, path) \in Paths
           /\ Archives!UniquePath(taken, path) \notin taken
  <1> DEFINE c == Archives!Cardinality(taken)
             tries == {n \in 2..(c + 2) : Archives!Numbered(path, n) \notin taken}
  <1>1. c \in Nat /\ c = Cardinality(taken)
    BY SameNumber, FS_CardinalityType
  <1>2. tries # {}
    <2> SUFFICES ASSUME \A n \in 2..(c + 2) : Archives!Numbered(path, n) \in taken
                 PROVE  FALSE
      OBVIOUS
    <2> DEFINE f == [n \in 2..(c + 2) |-> Archives!Numbered(path, n)]
    <2>1. f \in Injection(2..(c + 2), taken)
      <3>1. f \in [2..(c + 2) -> taken]
        OBVIOUS
      <3>2. \A m, n \in 2..(c + 2) : m \in Nat /\ n \in Nat
        BY <1>1
      <3>3. \A m, n \in 2..(c + 2) : f[m] = f[n] => m = n
        BY <3>2, NumbersDiffer
      <3>4. QED
        BY <3>1, <3>3 DEF Injection, IsInjective
    <2>2. Cardinality(2..(c + 2)) <= c
      BY <1>1, <2>1, FS_Injection
    <2>3. Cardinality(2..(c + 2)) = c + 1
      <3>1. 2 \in Int /\ c + 2 \in Int
        BY <1>1
      <3> HIDE DEF c
      <3>2. Cardinality(2..(c + 2)) = IF 2 > c + 2 THEN 0 ELSE (c + 2) - 2 + 1
        BY <3>1, FS_Interval
      <3>3. QED
        BY <1>1, <3>2
    <2> HIDE DEF c
    <2>4. QED
      BY <1>1, <2>2, <2>3
  <1>3. Archives!Min(tries) \in tries
    <2>1. tries \in SUBSET Nat
      BY <1>1
    <2>2. \E x \in tries : \A y \in tries : x =< y
      BY <1>2, <2>1, LeastExists
    <2> HIDE DEF tries
    <2>3. QED
      BY <2>2 DEF Archives!Min
  <1>4. Archives!Min(tries) \in Nat /\ Archives!Numbered(path, Archives!Min(tries)) \notin taken
    BY <1>1, <1>3
  <1>5. Archives!Numbered(path, Archives!Min(tries)) \in Paths
    BY <1>4, NumbersDiffer
  <1>6. Archives!UniquePath(taken, path) =
            IF path \notin taken THEN path ELSE Archives!Numbered(path, Archives!Min(tries))
    BY DEF Archives!UniquePath
  <1> HIDE DEF tries
  <1>7. QED
    BY <1>4, <1>5, <1>6

ScanOK ==
    /\ docs \in [Docs -> [place : {"live", "trash", "gone"}, current : 1..MaxVersions]]
    /\ scan \in [Archives!Versions -> {"none", "pending", "clean", "infected"}]
    /\ \A d \in Docs, n \in 1..MaxVersions : scan[<<d, n>>] = "none" <=> n > docs[d].current

\* Entries that were cleared, of documents of a set, at paths of their own.
GoodPlan(entries, S) ==
    /\ entries \in Seq(Entry)
    /\ \A i \in DOMAIN entries :
           /\ entries[i].id \in S /\ scan[entries[i].key] = "clean"
           /\ entries[i].path # Listed
    /\ \A i, j \in DOMAIN entries : entries[i].path = entries[j].path => i = j

LEMMA PlannedGood ==
    ASSUME ScanOK, NEW S \in SUBSET Docs, NEW entries, GoodPlan(entries, S), NEW d \in S
    PROVE  GoodPlan(Archives!Planned(entries, d), S)
  <1>1. CASE Archives!Verdict(d) \in {"pending", "infected"}
    BY <1>1 DEF Archives!Planned
  <1>2. CASE Archives!Verdict(d) \notin {"pending", "infected"}
    <2> DEFINE taken == {<<base, <<>>>>} \cup {e.path : e \in Archives!ToSet(entries)}
               new == [id |-> d, key |-> <<d, docs[d].current>>,
                       path |-> Archives!UniquePath(taken, Names[d])]
               more == Append(entries, new)
               n == Len(entries)
    <2>1. /\ entries \in Seq(Entry) /\ n \in Nat /\ DOMAIN entries = 1..n
          /\ \A i \in 1..n : entries[i] \in Entry
      BY LenProperties, ElementOfSeq DEF GoodPlan
    <2>2. IsFiniteSet(taken)
      <3>1. IsFiniteSet(1..n)
        BY <2>1, FS_Interval
      <3> DEFINE f == [i \in 1..n |-> entries[i].path]
                 T == {e.path : e \in Archives!ToSet(entries)}
      <3>2. f \in Surjection(1..n, T)
        BY <2>1 DEF Surjection, Archives!ToSet
      <3> HIDE DEF f, T
      <3>3. IsFiniteSet(T)
        BY <3>1, <3>2, FS_Surjection
      <3>4. IsFiniteSet({<<base, <<>>>>})
        BY FS_Singleton
      <3>5. QED
        BY <3>3, <3>4, FS_Union DEF T
    <2>3. d \in Docs /\ Names[d] \in Paths
      BY NamesAssumption DEF Paths
    <2>4. new.path \in Paths /\ new.path \notin taken
      BY <2>2, <2>3, PathIsFree
    <2>5. docs[d].current \in 1..MaxVersions /\ scan[<<d, docs[d].current>>] = "clean"
      <3>1. docs[d].current \in 1..MaxVersions /\ ~ docs[d].current > docs[d].current
        BY <2>3, NamesAssumption DEF ScanOK
      <3>2. scan[<<d, docs[d].current>>] # "none"
        BY <2>3, <3>1 DEF ScanOK
      <3>3. <<d, docs[d].current>> \in Archives!Versions
        BY <2>3, <3>1 DEF Archives!Versions
      <3>4. QED
        BY <1>2, <3>1, <3>2, <3>3 DEF ScanOK, Archives!Verdict
    <2>6. /\ new.id = d /\ new.key = <<d, docs[d].current>>
          /\ new \in Entry
      BY <2>3, <2>4, <2>5 DEF Entry, Archives!Versions
    <2> HIDE DEF new
    <2>7. /\ more \in Seq(Entry) /\ Len(more) = n + 1 /\ DOMAIN more = 1..n + 1
          /\ \A i \in 1..n : more[i] = entries[i]
          /\ more[n + 1] = new
      BY <2>1, <2>6, AppendProperties, LenProperties
    <2>8. Archives!Planned(entries, d) = more
      BY <1>2 DEF Archives!Planned, new
    <2>9. \A i \in 1..n : entries[i].path \in taken
      BY <2>1 DEF Archives!ToSet
    <2>10. Listed \in taken
      BY DEF Listed
    <2> HIDE DEF more, taken, n
    <2>11. \A i \in 1..n + 1 : i \in 1..n \/ i = n + 1
      BY <2>1
    <2>12. \A i \in 1..n + 1 : /\ more[i].id \in S /\ scan[more[i].key] = "clean"
                              /\ more[i].path # Listed
      BY <2>1, <2>4, <2>5, <2>6, <2>7, <2>10, <2>11 DEF GoodPlan
    <2>13. \A i, j \in 1..n + 1 : more[i].path = more[j].path => i = j
      <3> SUFFICES ASSUME NEW i \in 1..n + 1, NEW j \in 1..n + 1, more[i].path = more[j].path
                   PROVE  i = j
        OBVIOUS
      <3>1. CASE i \in 1..n /\ j \in 1..n
        BY <2>1, <2>7, <3>1 DEF GoodPlan
      <3>2. CASE i \in 1..n /\ j = n + 1
        BY <2>4, <2>7, <2>9, <3>2
      <3>3. CASE i = n + 1 /\ j \in 1..n
        BY <2>4, <2>7, <2>9, <3>3
      <3>4. QED
        BY <2>11, <3>1, <3>2, <3>3
    <2>14. GoodPlan(more, S)
      BY <2>7, <2>12, <2>13 DEF GoodPlan
    <2>15. QED
      BY <2>8, <2>14
  <1>3. QED
    BY <1>1, <1>2

\* The loop over the rows, up to each of them.
Loop(f, found, last) ==
    f = [n \in 0..last |-> IF n = 0 THEN <<>> ELSE Archives!Planned(f[n - 1], found[n])]

\* It can be run to the end of any rows: were there a first row it cannot get to, the run up to
\* the one before would go on.
LEMMA LoopEnds ==
    ASSUME NEW found, NEW last \in Nat
    PROVE  \E f : Loop(f, found, last)
  <1> DEFINE T == {n \in Nat : ~ \E f : Loop(f, found, n)}
  <1>1. SUFFICES ASSUME T # {} PROVE FALSE
    OBVIOUS
  <1>2. PICK m \in T : \A k \in T : m <= k
    BY <1>1, LeastExists
  <1>3. CASE m = 0
    <2> DEFINE f == [n \in 0..0 |-> <<>>]
    <2>1. \A n \in 0..0 : n = 0
      OBVIOUS
    <2>2. Loop(f, found, 0)
      BY <2>1 DEF Loop
    <2>3. QED
      BY <1>3, <2>2
  <1>4. CASE m # 0
    <2>1. m \in Nat /\ m - 1 \in Nat /\ ~ m <= m - 1
      BY <1>4
    <2>2. m - 1 \notin T
      BY <1>2, <2>1
    <2>3. PICK f : Loop(f, found, m - 1)
      BY <2>1, <2>2
    <2> DEFINE g == [n \in 0..m |-> IF n = m THEN Archives!Planned(f[m - 1], found[m]) ELSE f[n]]
    <2>4. \A n \in 0..m : n # m =>
              /\ n \in 0..(m - 1)
              /\ f[n] = IF n = 0 THEN <<>> ELSE Archives!Planned(f[n - 1], found[n])
      BY <2>1, <2>3 DEF Loop
    <2>5. \A n \in 0..m : n # 0 => n - 1 \in 0..m /\ n - 1 # m
      BY <2>1
    <2>6. ASSUME NEW n \in 0..m
          PROVE  g[n] = IF n = 0 THEN <<>> ELSE Archives!Planned(g[n - 1], found[n])
      <3>1. n # 0 => g[n - 1] = f[n - 1]
        BY <2>5
      <3>2. CASE n = m
        BY <1>4, <3>1, <3>2
      <3>3. CASE n # m
        BY <2>4, <3>1, <3>3
      <3>4. QED
        BY <3>2, <3>3
    <2>7. g = [n \in 0..m |-> g[n]]
      OBVIOUS
    <2> HIDE DEF g
    <2>8. Loop(g, found, m)
      BY <2>6, <2>7 DEF Loop
    <2>9. QED
      BY <1>2, <2>8
  <1>5. QED
    BY <1>3, <1>4

LEMMA PlanIsGood ==
    ASSUME ScanOK, NEW S \in SUBSET Docs, NEW found \in Seq(S)
    PROVE  GoodPlan(Archives!PlanArchive(found), S)
  <1> DEFINE last == Len(found)
             entries == CHOOSE f : Loop(f, found, last)
  <1>1. last \in Nat /\ \A n \in 1..last : found[n] \in S
    BY LenProperties, ElementOfSeq
  <1>2. Archives!PlanArchive(found) = entries[last]
    BY DEF Archives!PlanArchive, Loop
  <1>3. Loop(entries, found, last)
    BY <1>1, LoopEnds
  <1> HIDE DEF entries, last
  <1> DEFINE T == {n \in 0..last : ~ GoodPlan(entries[n], S)}
  <1>4. SUFFICES ASSUME T # {} PROVE FALSE
    BY <1>1, <1>2
  <1>5. PICK m \in T : \A k \in T : m <= k
    <2>1. T \in SUBSET Nat
      BY <1>1
    <2> HIDE DEF T
    <2>2. QED
      BY <1>4, <2>1, LeastExists
  <1>6. \A n \in 0..last :
            entries[n] = IF n = 0 THEN <<>> ELSE Archives!Planned(entries[n - 1], found[n])
    BY <1>3 DEF Loop
  <1>7. CASE m = 0
    <2>1. <<>> \in Seq(Entry) /\ DOMAIN <<>> = {}
      BY EmptySeq
    <2>2. GoodPlan(<<>>, S)
      BY <2>1 DEF GoodPlan
    <2>3. entries[m] = <<>>
      BY <1>6, <1>7
    <2>4. QED
      BY <2>2, <2>3
  <1>8. CASE m # 0
    <2>1. m \in 1..last /\ m - 1 \in 0..last /\ ~ m <= m - 1
      BY <1>1, <1>8
    <2>2. GoodPlan(entries[m - 1], S)
      BY <1>5, <2>1
    <2>3. GoodPlan(Archives!Planned(entries[m - 1], found[m]), S)
      BY <1>1, <2>1, <2>2, PlannedGood
    <2>4. QED
      BY <1>6, <1>8, <2>3
  <1>9. QED
    BY <1>7, <1>8

ZipSteps == {"idle", "refused", "slot", "planned", "recorded", "sending", "unheard", "answering",
             "failed", "broken", "done"}

ZipRow == [step : ZipSteps, chosen : SUBSET Docs, rows : Seq(Docs), plan : Seq(Entry),
           skipped : SUBSET Docs, sent : Seq(Entry), connected : BOOLEAN, released : BOOLEAN]

Ids(seq) == {e.id : e \in Archives!ToSet(seq)}

\* What was sent is the beginning of the plan, what was planned or left out is what was found,
\* and a member's plan is on record before any of it is sent.
RowInv(r, q) ==
    /\ GoodPlan(q.plan, Docs)
    /\ Len(q.sent) <= Len(q.plan) /\ \A i \in 1..Len(q.sent) : q.sent[i] = q.plan[i]
    /\ q.step \in {"idle", "slot"} => q.sent = <<>>
    /\ q.step = "done" => Len(q.sent) = Len(q.plan)
    /\ Ids(q.plan) \cup q.skipped = Archives!ToSet(q.rows)
    /\ r \notin LinkRequests /\ (q.step \in {"recorded", "sending"} \/ q.sent # <<>>) =>
           \A i \in DOMAIN q.plan : <<r, q.plan[i].id>> \in logged

ZipInv ==
    /\ ScanOK /\ archive \in [Requests -> ZipRow]
    /\ \A r \in Requests : RowInv(r, archive[r])

\* A row whose files stay as they are.
Moves(q, w) ==
    /\ w \in ZipRow
    /\ w.rows = q.rows /\ w.plan = q.plan /\ w.skipped = q.skipped /\ w.sent = q.sent

LEMMA FreshRow ==
    /\ Archives!Fresh \in ZipRow /\ Archives!Fresh.plan = <<>> /\ Archives!Fresh.sent = <<>>
    /\ Archives!Fresh.rows = <<>>
    /\ Archives!Fresh.skipped = {} /\ Archives!Fresh.step = "idle"
    /\ \A S \in SUBSET Docs : [Archives!Fresh EXCEPT !.step = "slot", !.chosen = S] \in ZipRow
  <1>1. <<>> \in Seq(Docs) /\ <<>> \in Seq(Entry)
    BY EmptySeq
  <1>2. QED
    BY <1>1 DEF Archives!Fresh, ZipRow, ZipSteps

LEMMA ClosedMoves ==
    ASSUME NEW q \in ZipRow, NEW step \in ZipSteps
    PROVE  /\ Moves(q, [Archives!Released(q) EXCEPT !.step = step, !.chosen = {}])
           /\ [Archives!Released(q) EXCEPT !.step = step, !.chosen = {}].step = step
  <1>1. QED
    BY DEF Moves, ZipRow, Archives!Released

LEMMA MovesKeep ==
    ASSUME NEW r \in Requests, NEW q \in ZipRow, RowInv(r, q), NEW w, Moves(q, w),
           w.step \in {"idle", "slot"} => w.step = q.step,
           w.step = "done" => Len(q.sent) = Len(q.plan),
           w.step \in {"recorded", "sending"} => q.step \in {"recorded", "sending"}
    PROVE  RowInv(r, w)
  BY DEF RowInv, Moves

\* The record only grows.
LEMMA LoggedKeeps ==
    ASSUME NEW r \in Requests, NEW q, RowInv(r, q), UNCHANGED scan, logged \subseteq logged'
    PROVE  RowInv(r, q)'
  BY DEF RowInv, GoodPlan

\* One request takes a step, which changes its own row and may add to the record.
LEMMA RowSteps ==
    ASSUME ZipInv, UNCHANGED Archives!table, logged \subseteq logged',
           NEW r \in Requests, NEW w \in ZipRow, RowInv(r, w)', archive' = [archive EXCEPT ![r] = w]
    PROVE  ZipInv'
  <1>1. ScanOK' /\ archive' \in [Requests -> ZipRow]
    BY DEF ZipInv, ScanOK, Archives!Verdict, Archives!table
  <1>2. ASSUME NEW q \in Requests PROVE RowInv(q, archive[q])'
    <2>1. CASE q = r
      <3>1. archive'[q] = w
        BY <2>1 DEF ZipInv
      <3>2. QED
        BY <2>1, <3>1 DEF RowInv, GoodPlan
    <2>2. CASE q # r
      <3>1. PICK x \in ZipRow : archive[q] = x /\ archive'[q] = x
        BY <2>2 DEF ZipInv
      <3>2. RowInv(q, x) /\ scan' = scan
        BY <3>1 DEF ZipInv, Archives!table
      <3>3. RowInv(q, x)'
        BY <3>2, LoggedKeeps
      <3>4. QED
        BY <3>1, <3>3 DEF RowInv, GoodPlan
    <2>3. QED
      BY <2>1, <2>2
  <1>3. QED
    BY <1>1, <1>2 DEF ZipInv

LEMMA PlanFacts ==
    ASSUME ScanOK, NEW S \in SUBSET Docs
    PROVE  /\ Archives!Rows(S) \in Seq(Docs)
           /\ GoodPlan(Archives!PlanArchive(Archives!Rows(S)), Docs)
           /\ Ids(Archives!PlanArchive(Archives!Rows(S)))
                  \in SUBSET Archives!ToSet(Archives!Rows(S))
           /\ Archives!ToSet(Archives!Rows(S)) \in SUBSET Docs
  <1> DEFINE L == {d \in S : docs[d].place = "live"}
             found == Archives!Rows(S)
  <1>1. IsFiniteSet(L) /\ L \in SUBSET Docs
    BY NamesAssumption, FS_Subset
  <1>2. \E f \in [1..Archives!Cardinality(L) -> L] : Archives!IsInjective(f)
    <2>1. PICK n \in Nat : ExistsBijection(1..n, L)
      BY <1>1, FS_NatBijection
    <2>2. Archives!Cardinality(L) = n
      BY <2>1, SameNumber, FS_CountingElements
    <2>3. QED
      BY <2>1, <2>2 DEF ExistsBijection, Bijection, Injection, IsInjective, Archives!IsInjective
  <1>3. found \in [1..Archives!Cardinality(L) -> L] /\ Archives!Cardinality(L) \in Nat
    BY <1>1, <1>2, SameNumber, FS_CardinalityType DEF Archives!Rows, Archives!SetToSeq
  <1> HIDE DEF found, L
  <1>4. found \in Seq(L)
    BY <1>3 DEF Seq
  <1>5. found \in Seq(Archives!ToSet(found)) /\ Archives!ToSet(found) \in SUBSET L
    <2>1. /\ DOMAIN found = 1..Archives!Cardinality(L)
          /\ \A i \in DOMAIN found : found[i] \in Archives!ToSet(found) /\ found[i] \in L
      BY <1>3 DEF Archives!ToSet
    <2>2. found \in [1..Archives!Cardinality(L) -> Archives!ToSet(found)]
      BY <1>3, <2>1
    <2>3. found \in Seq(Archives!ToSet(found))
      BY <1>3, <2>2 DEF Seq
    <2>4. QED
      BY <2>1, <2>3 DEF Archives!ToSet
  <1>6. Archives!ToSet(found) \in SUBSET Docs /\ found \in Seq(Docs)
    BY <1>1, <1>4, <1>5, SeqMonotonic
  <1>7. GoodPlan(Archives!PlanArchive(found), Archives!ToSet(found))
    BY <1>5, <1>6, PlanIsGood
  <1>8. Ids(Archives!PlanArchive(found)) \in SUBSET Archives!ToSet(found)
    BY <1>7 DEF GoodPlan, Ids, Archives!ToSet
  <1>9. GoodPlan(Archives!PlanArchive(found), Docs)
    BY <1>6, <1>7 DEF GoodPlan
  <1>10. QED
    BY <1>6, <1>8, <1>9 DEF found

LEMMA ArchiveRequestStep ==
    ASSUME ZipInv, NEW r \in Requests, NEW chosen \in SUBSET Docs,
           \/ Archives!Ask(r, chosen) \/ Archives!Plan(r) \/ Archives!Record(r)
           \/ Archives!RecordFails(r) \/ Archives!Open(r) \/ Archives!OpenFails(r)
           \/ Archives!ErrorSent(r) \/ Archives!Send(r) \/ Archives!Finish(r)
           \/ Archives!ClientLeaves(r)
    PROVE  ZipInv'
  <1> DEFINE q == archive[r]
  <1>1. q \in ZipRow /\ RowInv(r, q) /\ archive \in [Requests -> ZipRow]
    BY DEF ZipInv
  <1>2. UNCHANGED <<docs, scan, stored, changes>> /\ UNCHANGED Archives!table
    BY DEF Archives!Ask, Archives!Plan, Archives!Record, Archives!RecordFails, Archives!Open,
           Archives!OpenFails, Archives!ErrorSent, Archives!Send, Archives!Finish,
           Archives!ClientLeaves,
           Archives!table
  <1>3. logged \subseteq logged' /\ (~ Archives!Record(r) => logged' = logged)
    BY DEF Archives!Ask, Archives!Plan, Archives!Record, Archives!RecordFails, Archives!Open,
           Archives!OpenFails, Archives!ErrorSent, Archives!Send, Archives!Finish,
           Archives!ClientLeaves
  <1>4. /\ q.step \in ZipSteps /\ q.plan \in Seq(Entry) /\ q.sent \in Seq(Entry)
        /\ q.rows \in Seq(Docs)
        /\ q.chosen \in SUBSET Docs /\ q.skipped \in SUBSET Docs
    BY <1>1 DEF ZipRow
  \* The row goes on with the files it has.
  <1>19. ASSUME NEW w \in ZipRow, RowInv(r, w), archive' = [archive EXCEPT ![r] = w]
         PROVE  ZipInv'
    BY <1>2, <1>3, <1>19, LoggedKeeps, RowSteps
  <1>5. ASSUME NEW w, Moves(q, w), archive' = [archive EXCEPT ![r] = w],
               w.step \in {"idle", "slot"} => w.step = q.step,
               w.step = "done" => Len(q.sent) = Len(q.plan),
               w.step \in {"recorded", "sending"} => q.step \in {"recorded", "sending"}
        PROVE  ZipInv'
    <2>1. w \in ZipRow
      BY <1>5 DEF Moves
    <2>2. RowInv(r, w)
      BY <1>1, <1>5, MovesKeep
    <2>3. RowInv(r, w)'
      BY <1>2, <1>3, <2>2, LoggedKeeps
    <2>4. QED
      BY <1>2, <1>3, <1>5, <2>1, <2>3, RowSteps
  \* The download ends.
  <1>6. ASSUME NEW what, NEW step \in ZipSteps, Archives!Close(r, what, step), what \in ZipRow,
               Moves(q, what),
               step \notin {"idle", "slot", "recorded", "sending"},
               step = "done" => Len(q.sent) = Len(q.plan)
        PROVE  ZipInv'
    <2> DEFINE w == [Archives!Released(what) EXCEPT !.step = step, !.chosen = {}]
    <2>1. archive' = [archive EXCEPT ![r] = w]
      BY <1>6 DEF Archives!Close
    <2>2. Moves(what, w) /\ w.step = step
      BY <1>6, ClosedMoves
    <2> HIDE DEF w
    <2>3. Moves(q, w)
      BY <1>6, <2>2 DEF Moves
    <2>4. QED
      BY <1>5, <1>6, <2>1, <2>2, <2>3
  <1>7. Moves(q, q)
    BY <1>1 DEF Moves
  <1>8. CASE Archives!Ask(r, chosen)
    <2>1. q.step = "idle"
      BY <1>8 DEF Archives!Ask
    <2>2. CASE inUse >= Capacity
      <3> DEFINE w == [q EXCEPT !.step = "refused"]
      <3>1. archive' = [archive EXCEPT ![r] = w]
        BY <1>8, <2>2 DEF Archives!Ask
      <3>2. Moves(q, w) /\ w.step = "refused"
        BY <1>1 DEF Moves, ZipRow, ZipSteps
      <3> HIDE DEF w
      <3>3. QED
        BY <1>5, <3>1, <3>2
    <2>3. CASE ~ inUse >= Capacity
      <3> DEFINE w == [Archives!Fresh EXCEPT !.step = "slot", !.chosen = chosen]
      <3>1. archive' = [archive EXCEPT ![r] = w]
        BY <1>8, <2>3 DEF Archives!Ask
      <3>2. /\ w \in ZipRow /\ w.step = "slot" /\ w.plan = <<>> /\ w.sent = <<>> /\ w.rows = <<>>
            /\ w.skipped = {}
        BY FreshRow DEF Archives!Fresh
      <3> HIDE DEF w
      <3>3. <<>> \in Seq(Entry) /\ Len(<<>>) = 0 /\ DOMAIN <<>> = {} /\ Archives!ToSet(<<>>) = {}
        BY EmptySeq DEF Archives!ToSet
      <3>4. RowInv(r, w)'
        BY <3>2, <3>3 DEF RowInv, GoodPlan, Ids
      <3>5. QED
        BY <1>2, <1>3, <3>1, <3>2, <3>4, RowSteps
    <2>4. QED
      BY <2>2, <2>3
  <1>9. CASE Archives!Plan(r)
    <2> DEFINE found == Archives!Rows(q.chosen)
               plan == Archives!PlanArchive(found)
               left == Archives!ToSet(found) \ {e.id : e \in Archives!ToSet(plan)}
               w == [q EXCEPT !.step = "planned", !.rows = found, !.plan = plan, !.skipped = left]
    <2>1. q.step = "slot" /\ q.sent = <<>>
      BY <1>1, <1>9 DEF Archives!Plan, RowInv
    <2>2. CASE Archives!Close(r, q, "refused")
      BY <1>1, <1>6, <1>7, <2>2 DEF ZipSteps
    <2>3. CASE archive' = [archive EXCEPT ![r] = w]
      <3>1. /\ found \in Seq(Docs) /\ GoodPlan(plan, Docs)
            /\ Ids(plan) \in SUBSET Archives!ToSet(found)
            /\ Archives!ToSet(found) \in SUBSET Docs
        BY <1>4, PlanFacts DEF ZipInv
      <3> HIDE DEF found, plan
      <3>2. left = Archives!ToSet(found) \ Ids(plan) /\ left \in SUBSET Docs
        BY <3>1 DEF Ids
      <3> HIDE DEF left
      <3>3. plan \in Seq(Entry)
        BY <3>1 DEF GoodPlan
      <3>4. /\ w \in ZipRow /\ w.step = "planned" /\ w.rows = found /\ w.plan = plan
            /\ w.skipped = left /\ w.sent = <<>>
        BY <1>1, <2>1, <3>1, <3>2, <3>3 DEF ZipRow, ZipSteps
      <3> HIDE DEF w
      <3>5. Len(<<>>) = 0 /\ Len(plan) \in Nat
        BY <3>3, EmptySeq, LenProperties
      <3>6. RowInv(r, w)
        BY <3>1, <3>2, <3>4, <3>5 DEF RowInv
      <3>7. QED
        BY <1>19, <2>3, <3>4, <3>6
    <2>4. archive' = [archive EXCEPT ![r] = w] \/ Archives!Close(r, q, "refused")
      BY <1>9 DEF Archives!Plan
    <2>5. QED
      BY <2>2, <2>3, <2>4
  <1>10. CASE Archives!Record(r)
    <2> DEFINE w == [q EXCEPT !.step = "recorded"]
    <2>1. archive' = [archive EXCEPT ![r] = w] /\ q.step = "planned"
      BY <1>10 DEF Archives!Record
    <2>2. /\ w \in ZipRow /\ w.step = "recorded" /\ w.rows = q.rows /\ w.plan = q.plan
          /\ w.skipped = q.skipped /\ w.sent = q.sent
      BY <1>1 DEF ZipRow, ZipSteps
    <2> HIDE DEF w
    <2>3. r \notin LinkRequests => \A i \in DOMAIN q.plan : <<r, q.plan[i].id>> \in logged'
      BY <1>10 DEF Archives!Record, Archives!ToSet
    <2>4. PICK x \in ZipRow :
              /\ archive' = [archive EXCEPT ![r] = x] /\ x.step = "recorded" /\ x.rows = q.rows
              /\ x.plan = q.plan /\ x.skipped = q.skipped /\ x.sent = q.sent
      BY <2>1, <2>2
    <2>5. RowInv(r, x)'
      BY <1>1, <1>2, <1>3, <2>3, <2>4 DEF RowInv, GoodPlan
    <2>6. QED
      BY <1>2, <1>3, <2>4, <2>5, RowSteps
  <1>11. CASE Archives!RecordFails(r)
    BY <1>1, <1>6, <1>7, <1>11 DEF Archives!RecordFails, ZipSteps
  <1>12. CASE Archives!Open(r)
    <2> DEFINE step == IF q.connected THEN "sending" ELSE "unheard"
               w == [q EXCEPT !.step = step]
    <2>1. archive' = [archive EXCEPT ![r] = w] /\ q.step = "recorded"
      BY <1>12 DEF Archives!Open
    <2>2. step \in {"sending", "unheard"}
      OBVIOUS
    <2> HIDE DEF step
    <2>3. Moves(q, w) /\ w.step = step
      BY <1>1, <2>2 DEF Moves, ZipRow, ZipSteps
    <2> HIDE DEF w
    <2>4. QED
      BY <1>5, <2>1, <2>2, <2>3
  <1>13. CASE Archives!OpenFails(r)
    BY <1>1, <1>6, <1>7, <1>13 DEF Archives!OpenFails, ZipSteps
  <1>14. CASE Archives!ErrorSent(r)
    BY <1>1, <1>6, <1>7, <1>14 DEF Archives!ErrorSent, ZipSteps
  <1>15. CASE Archives!Send(r)
    <2> DEFINE n == Len(q.sent)
               next == q.plan[n + 1]
               w == [q EXCEPT !.sent = Append(@, next)]
    <2>1. q.step = "sending" /\ n < Len(q.plan)
      BY <1>15 DEF Archives!Send
    <2>2. n \in Nat /\ Len(q.plan) \in Nat /\ DOMAIN q.plan = 1..Len(q.plan)
      BY <1>4, LenProperties
    <2>3. n + 1 \in 1..Len(q.plan) /\ next \in Entry
      BY <1>4, <2>1, <2>2, ElementOfSeq
    <2>4. CASE Archives!Close(r, q, "broken")
      BY <1>1, <1>6, <1>7, <2>4 DEF ZipSteps
    <2>5. CASE archive' = [archive EXCEPT ![r] = w]
      <3>1. /\ Append(q.sent, next) \in Seq(Entry) /\ Len(Append(q.sent, next)) = n + 1
            /\ \A i \in 1..n : Append(q.sent, next)[i] = q.sent[i]
            /\ Append(q.sent, next)[n + 1] = next
        BY <1>4, <2>3, AppendProperties
      <3>2. /\ w \in ZipRow /\ w.step = "sending" /\ w.rows = q.rows /\ w.plan = q.plan
            /\ w.skipped = q.skipped /\ w.sent = Append(q.sent, next)
        BY <1>1, <2>1, <3>1 DEF ZipRow
      <3> HIDE DEF w
      <3>3. \A i \in 1..n + 1 : i \in 1..n \/ i = n + 1
        BY <2>2
      <3>4. Len(w.sent) = n + 1 /\ \A i \in 1..n + 1 : w.sent[i] = q.plan[i]
        BY <1>1, <3>1, <3>2, <3>3 DEF RowInv
      <3>5. n + 1 <= Len(q.plan)
        BY <2>1, <2>2
      <3>6. r \notin LinkRequests => \A i \in DOMAIN q.plan : <<r, q.plan[i].id>> \in logged
        BY <1>1, <2>1 DEF RowInv
      <3>7. RowInv(r, w)
        BY <1>1, <3>2, <3>4, <3>5, <3>6 DEF RowInv
      <3>8. QED
        BY <1>19, <2>5, <3>2, <3>7
    <2>6. archive' = [archive EXCEPT ![r] = w] \/ Archives!Close(r, q, "broken")
      <3>1. q.plan[Len(q.sent) + 1] = next
        OBVIOUS
      <3>2. CASE next.key \in stored
        <4>1. archive' = [archive EXCEPT ![r].sent = Append(@, next)]
          BY <1>15, <3>2 DEF Archives!Send
        <4>2. QED
          BY <1>1, <4>1
      <3>3. CASE next.key \notin stored
        BY <1>15, <3>3 DEF Archives!Send
      <3>4. QED
        BY <3>2, <3>3
    <2>7. QED
      BY <2>4, <2>5, <2>6
  <1>16. CASE Archives!Finish(r)
    <2>1. Archives!Close(r, q, "done") /\ Len(q.sent) = Len(q.plan)
      BY <1>16 DEF Archives!Finish
    <2>2. QED
      BY <1>1, <1>6, <1>7, <2>1 DEF ZipSteps
  <1>17. CASE Archives!ClientLeaves(r)
    <2> DEFINE w == [q EXCEPT !.connected = FALSE]
    <2>1. Moves(q, w) /\ w.step = q.step /\ w \in ZipRow
      BY <1>1 DEF Moves, ZipRow
    <2>2. archive' = [archive EXCEPT ![r] = w] \/ Archives!Close(r, w, "broken")
      BY <1>17 DEF Archives!ClientLeaves
    <2> HIDE DEF w
    <2>3. CASE archive' = [archive EXCEPT ![r] = w]
      <3>1. q.step # "done"
        BY <1>17, <2>3 DEF Archives!ClientLeaves, Archives!Close
      <3>2. QED
        BY <1>5, <2>1, <2>3, <3>1
    <2>4. CASE Archives!Close(r, w, "broken")
      BY <1>6, <2>1, <2>4 DEF ZipSteps
    <2>5. QED
      BY <2>2, <2>3, <2>4
  <1>18. QED
    BY <1>8, <1>9, <1>10, <1>11, <1>12, <1>13, <1>14, <1>15, <1>16, <1>17

\* What was cleared stays cleared, whatever happens to the documents.
LEMMA DocumentStep ==
    ASSUME ZipInv, NEW d \in Docs,
           \/ Archives!Trash(d) \/ Archives!Restore(d) \/ Archives!Purge(d)
           \/ Archives!NewVersion(d) \/ Archives!RemoveVersion(d) \/ Archives!Judge(d)
    PROVE  ZipInv'
  <1>1. UNCHANGED archive /\ UNCHANGED logged
    BY DEF Archives!Trash, Archives!Restore, Archives!Purge, Archives!NewVersion,
           Archives!RemoveVersion, Archives!Judge, Archives!Changing
  <1>2. /\ docs \in [Docs -> [place : {"live", "trash", "gone"}, current : 1..MaxVersions]]
        /\ scan \in [Archives!Versions -> {"none", "pending", "clean", "infected"}]
        /\ \A e \in Docs, n \in 1..MaxVersions : scan[<<e, n>>] = "none" <=> n > docs[e].current
    BY DEF ZipInv, ScanOK
  <1>3. ScanOK' /\ \A v \in Archives!Versions : scan[v] = "clean" => scan'[v] = "clean"
    <2>1. ASSUME UNCHANGED scan, NEW place \in {"live", "trash", "gone"},
                 docs' = [docs EXCEPT ![d].place = place] \/ UNCHANGED docs
          PROVE  ScanOK' /\ \A v \in Archives!Versions : scan[v] = "clean" => scan'[v] = "clean"
      <3>1. docs' \in [Docs -> [place : {"live", "trash", "gone"}, current : 1..MaxVersions]]
        BY <1>2, <2>1
      <3>2. \A e \in Docs : docs'[e].current = docs[e].current
        BY <1>2, <2>1
      <3>3. QED
        BY <1>2, <2>1, <3>1, <3>2 DEF ScanOK
    <2>2. CASE Archives!Trash(d)
      BY <2>1, <2>2 DEF Archives!Trash
    <2>3. CASE Archives!Restore(d)
      BY <2>1, <2>3 DEF Archives!Restore
    <2>4. CASE Archives!Purge(d)
      BY <2>1, <2>4 DEF Archives!Purge
    <2>5. CASE Archives!RemoveVersion(d)
      BY <2>1, <2>5 DEF Archives!RemoveVersion
    <2>6. CASE Archives!NewVersion(d)
      <3> DEFINE c == docs[d].current + 1
      <3>1. /\ docs[d].current \in 1..MaxVersions /\ docs[d].current \in Nat
            /\ c \in 1..MaxVersions /\ c > docs[d].current
        BY <1>2, <2>6, NamesAssumption DEF Archives!NewVersion, Archives!Versions
      <3>2. docs' = [docs EXCEPT ![d].current = c] /\ scan' = [scan EXCEPT ![<<d, c>>] = "pending"]
        BY <2>6 DEF Archives!NewVersion
      <3>3. docs' \in [Docs -> [place : {"live", "trash", "gone"}, current : 1..MaxVersions]]
        BY <1>2, <3>1, <3>2
      <3>4. /\ docs'[d].current = c
            /\ \A e \in Docs : e # d => docs'[e].current = docs[e].current
        BY <1>2, <3>2
      <3>5. scan[<<d, c>>] = "none" /\ <<d, c>> \in Archives!Versions
        BY <1>2, <3>1 DEF Archives!Versions
      <3>6. /\ scan' \in [Archives!Versions -> {"none", "pending", "clean", "infected"}]
            /\ scan'[<<d, c>>] = "pending"
            /\ \A v \in Archives!Versions : v # <<d, c>> => scan'[v] = scan[v]
        BY <1>2, <3>2, <3>5
      <3>7. ASSUME NEW e \in Docs, NEW n \in 1..MaxVersions
            PROVE  scan'[<<e, n>>] = "none" <=> n > docs'[e].current
        <4>1. <<e, n>> \in Archives!Versions /\ n \in Nat
          BY NamesAssumption DEF Archives!Versions
        <4>2. CASE e # d
          BY <1>2, <3>4, <3>6, <4>1, <4>2
        <4>3. CASE e = d /\ n = c
          BY <3>1, <3>4, <3>6, <4>3
        <4>4. CASE e = d /\ n # c
          <5>1. scan'[<<e, n>>] = scan[<<e, n>>]
            BY <3>6, <4>1, <4>4
          <5>2. n > c <=> n > docs[d].current
            BY <3>1, <4>1, <4>4
          <5>3. QED
            BY <1>2, <3>4, <4>4, <5>1, <5>2
        <4>5. QED
          BY <4>2, <4>3, <4>4
      <3> HIDE DEF c
      <3>8. QED
        BY <3>3, <3>5, <3>6, <3>7 DEF ScanOK
    <2>7. CASE Archives!Judge(d)
      <3> DEFINE v == <<d, docs[d].current>>
      <3>1. v \in Archives!Versions /\ scan[v] = "pending" /\ UNCHANGED docs
        BY <1>2, <2>7 DEF Archives!Judge, Archives!Versions
      <3>2. PICK judged \in {"clean", "infected"} : scan' = [scan EXCEPT ![v] = judged]
        BY <2>7 DEF Archives!Judge
      <3> HIDE DEF v
      <3>3. /\ scan' \in [Archives!Versions -> {"none", "pending", "clean", "infected"}]
            /\ scan'[v] # "none" /\ \A u \in Archives!Versions : u # v => scan'[u] = scan[u]
        BY <1>2, <3>1, <3>2
      <3>4. ASSUME NEW e \in Docs, NEW n \in 1..MaxVersions
            PROVE  scan'[<<e, n>>] = "none" <=> n > docs'[e].current
        <4>1. <<e, n>> \in Archives!Versions
          BY DEF Archives!Versions
        <4>2. scan'[<<e, n>>] = "none" <=> scan[<<e, n>>] = "none"
          BY <3>1, <3>3, <4>1
        <4>3. QED
          BY <1>2, <3>1, <4>2
      <3>5. QED
        BY <1>2, <3>1, <3>3, <3>4 DEF ScanOK
    <2>8. QED
      BY <2>2, <2>3, <2>4, <2>5, <2>6, <2>7
  <1>4. ASSUME NEW r \in Requests PROVE RowInv(r, archive[r])'
    <2>1. PICK q \in ZipRow : archive[r] = q /\ archive'[r] = q /\ RowInv(r, q)
      BY <1>1 DEF ZipInv
    <2>2. \A i \in DOMAIN q.plan : q.plan[i].key \in Archives!Versions
      <3>1. q.plan \in Seq(Entry)
        BY <2>1 DEF ZipRow
      <3>2. \A i \in DOMAIN q.plan : q.plan[i] \in Entry
        BY <3>1, LenProperties, ElementOfSeq
      <3>3. QED
        BY <3>2 DEF Entry
    <2>3. RowInv(r, q)'
      BY <1>1, <1>3, <2>1, <2>2 DEF RowInv, GoodPlan
    <2>4. QED
      BY <2>1, <2>3 DEF RowInv, GoodPlan
  <1>5. QED
    BY <1>1, <1>3, <1>4 DEF ZipInv

LEMMA ArchiveInit == Archives!Init => ZipInv
  <1> SUFFICES ASSUME Archives!Init PROVE ZipInv
    OBVIOUS
  <1>1. ScanOK
    <2>1. 1 \in 1..MaxVersions
      BY NamesAssumption
    <2>2. docs \in [Docs -> [place : {"live", "trash", "gone"}, current : 1..MaxVersions]]
      BY <2>1 DEF Archives!Init
    <2>3. scan \in [Archives!Versions -> {"none", "pending", "clean", "infected"}]
      BY DEF Archives!Init
    <2>4. ASSUME NEW d \in Docs, NEW n \in 1..MaxVersions
          PROVE  scan[<<d, n>>] = "none" <=> n > docs[d].current
      <3>1. <<d, n>> \in Archives!Versions /\ n \in Nat /\ n >= 1 /\ <<d, n>>[2] = n
        BY NamesAssumption DEF Archives!Versions
      <3>2. scan[<<d, n>>] = "none" <=> n # 1
        BY <3>1 DEF Archives!Init
      <3>3. docs[d].current = 1
        BY DEF Archives!Init
      <3>4. QED
        BY <3>1, <3>2, <3>3
    <2>5. QED
      BY <2>2, <2>3, <2>4 DEF ScanOK
  <1>2. archive \in [Requests -> ZipRow] /\ \A r \in Requests : archive[r] = Archives!Fresh
    BY FreshRow DEF Archives!Init
  <1>3. ASSUME NEW r \in Requests PROVE RowInv(r, Archives!Fresh)
    <2>1. <<>> \in Seq(Entry) /\ Len(<<>>) = 0 /\ DOMAIN <<>> = {} /\ Archives!ToSet(<<>>) = {}
      BY EmptySeq DEF Archives!ToSet
    <2>2. PICK q : /\ q = Archives!Fresh /\ q.plan = <<>> /\ q.sent = <<>> /\ q.rows = <<>>
                   /\ q.skipped = {} /\ q.step = "idle"
      BY FreshRow
    <2>3. RowInv(r, q)
      BY <2>1, <2>2 DEF RowInv, GoodPlan, Ids
    <2>4. QED
      BY <2>2, <2>3
  <1>4. QED
    BY <1>1, <1>2, <1>3 DEF ZipInv

LEMMA ArchiveStep ==
    ASSUME ZipInv, Archives!Next \/ UNCHANGED state
    PROVE  ZipInv'
  <1>1. CASE Archives!Next
    <2>1. CASE \E r \in Requests, chosen \in (SUBSET Docs) \ {{}} : Archives!Ask(r, chosen)
      BY <2>1, ArchiveRequestStep
    <2>2. CASE \E r \in Requests : Archives!Plan(r) \/ Archives!Record(r) \/ Archives!RecordFails(r)
      BY <2>2, ArchiveRequestStep
    <2>3. CASE \E r \in Requests :
                   Archives!Open(r) \/ Archives!OpenFails(r) \/ Archives!ErrorSent(r)
      BY <2>3, ArchiveRequestStep
    <2>4. CASE \E r \in Requests :
                   Archives!Send(r) \/ Archives!Finish(r) \/ Archives!ClientLeaves(r)
      BY <2>4, ArchiveRequestStep
    <2>5. CASE \E d \in Docs : Archives!Trash(d) \/ Archives!Restore(d) \/ Archives!Purge(d)
      BY <2>5, DocumentStep
    <2>6. CASE \E d \in Docs :
                   Archives!NewVersion(d) \/ Archives!RemoveVersion(d) \/ Archives!Judge(d)
      BY <2>6, DocumentStep
    <2>7. QED
      BY <1>1, <2>1, <2>2, <2>3, <2>4, <2>5, <2>6 DEF Archives!Next
  <1>2. CASE UNCHANGED state
    BY <1>2 DEF state, ZipInv, ScanOK, RowInv, GoodPlan
  <1>3. QED
    BY <1>1, <1>2

LEMMA ArchiveFollows == ZipInv => Archives!ZipSound
  <1> SUFFICES ASSUME ZipInv PROVE Archives!ZipSound
    OBVIOUS
  <1>1. ASSUME NEW r \in Requests
        PROVE  /\ DOMAIN archive[r].sent = 1..Len(archive[r].sent)
               /\ Len(archive[r].sent) \in Nat
               /\ \A i \in DOMAIN archive[r].sent : /\ i \in DOMAIN archive[r].plan
                                                    /\ archive[r].sent[i] = archive[r].plan[i]
               /\ DOMAIN archive[r].plan = 1..Len(archive[r].plan)
    <2>1. archive[r] \in ZipRow /\ RowInv(r, archive[r])
      BY DEF ZipInv
    <2>2. archive[r].plan \in Seq(Entry) /\ archive[r].sent \in Seq(Entry)
      BY <2>1 DEF ZipRow
    <2>3. /\ DOMAIN archive[r].sent = 1..Len(archive[r].sent) /\ Len(archive[r].sent) \in Nat
          /\ DOMAIN archive[r].plan = 1..Len(archive[r].plan) /\ Len(archive[r].plan) \in Nat
      BY <2>2, LenProperties
    <2>4. QED
      BY <2>1, <2>3 DEF RowInv
  <1>2. \A r \in Requests : RowInv(r, archive[r])
    BY DEF ZipInv
  <1>3. Archives!OnlyCleared
    <2> SUFFICES ASSUME NEW r \in Requests
                 PROVE  /\ \A i \in DOMAIN archive[r].sent : scan[archive[r].sent[i].key] = "clean"
                        /\ \A i, j \in DOMAIN archive[r].sent :
                               archive[r].sent[i].path = archive[r].sent[j].path => i = j
                        /\ \A i \in DOMAIN archive[r].sent :
                               archive[r].sent[i].path # <<base, <<>>>>
      BY DEF Archives!OnlyCleared
    <2>1. QED
      BY <1>1, <1>2 DEF RowInv, GoodPlan, Listed
  <1>4. Archives!RecordedFirst
    <2> SUFFICES ASSUME NEW r \in Requests, r \notin LinkRequests,
                        NEW e \in Archives!ToSet(archive[r].sent)
                 PROVE  <<r, e.id>> \in logged
      BY DEF Archives!RecordedFirst
    <2>1. PICK i \in DOMAIN archive[r].sent : archive[r].sent[i] = e
      BY DEF Archives!ToSet
    <2>2. archive[r].sent # <<>>
      BY <2>1, EmptySeq
    <2>3. i \in DOMAIN archive[r].plan /\ archive[r].plan[i] = e
      BY <1>1, <2>1
    <2>4. QED
      BY <1>2, <2>2, <2>3 DEF RowInv
  <1>5. Archives!WholeOrBroken
    <2> SUFFICES ASSUME NEW r \in Requests, archive[r].step = "done"
                 PROVE  Ids(archive[r].sent) \cup archive[r].skipped =
                            Archives!ToSet(archive[r].rows)
      BY DEF Archives!WholeOrBroken, Ids
    <2>1. DOMAIN archive[r].sent = DOMAIN archive[r].plan
      BY <1>1, <1>2 DEF RowInv
    <2>2. Archives!ToSet(archive[r].sent) = Archives!ToSet(archive[r].plan)
      BY <1>1, <2>1 DEF Archives!ToSet
    <2>3. QED
      BY <1>2, <2>2 DEF RowInv, Ids
  <1>6. QED
    BY <1>3, <1>4, <1>5 DEF Archives!ZipSound

\* An archive holds what the scan had cleared, at paths of their own, all of it on record
\* before a member gets any, and whole unless it is seen to be broken; whatever names the
\* documents have and whatever happens to them while it is sent (archive.ts planArchive and
\* createArchiveStream; documents.service.ts recordArchiveDownload, before the stream).
THEOREM ArchivesHold == PartsSpec => []ZipSound
  <1> DEFINE Inv == about = "archives" => ZipInv
  <1>1. PartsInit => Inv
    BY ArchiveInit DEF PartsInit
  <1>2. Inv /\ [PartsNext]_<<about, vars, state>> => Inv'
    <2> SUFFICES ASSUME Inv, [PartsNext]_<<about, vars, state>>, about' = "archives"
                 PROVE  ZipInv'
      OBVIOUS
    <2>1. about = "archives" /\ (Archives!Next \/ UNCHANGED state)
      BY DEF PartsNext
    <2> QED
      BY <2>1, ArchiveStep
  <1>3. Inv => ZipSound
    BY ArchiveFollows DEF ZipSound
  <1> HIDE DEF Inv
  <1> QED
    BY <1>1, <1>2, <1>3, PTL DEF PartsSpec

=============================================================================
