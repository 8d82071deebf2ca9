----------------------- MODULE AccountSessionsProofs -----------------------
(***************************************************************************)
(* Proofs about AccountSessions, for any number of requests, rows and      *)
(* passwords and any limits.                                               *)
(***************************************************************************)
EXTENDS AccountSessions, FiniteSetTheorems, TLAPS

\* Handler h is in the transaction of a reset.
Resetting(h) == request[h].op = "reset" /\ pc[h] \in {"begin", "finish"}

\* Who is about to insert a link knows which kind.
OpsInv == \A h \in Handlers : pc[h] = "mail" => request[h].op \in {"reset", "verify"}

\* A link is locked by the one reset that uses it, and every reset has locked
\* the link it came with.
ClaimsInv ==
    /\ \A m \in Mails : mails[m].by # Nobody =>
           /\ mails[m].kind = "reset" /\ Unused(m)
           /\ Resetting(mails[m].by) /\ request[mails[m].by].mail = m
    /\ \A h \in Handlers : Resetting(h) =>
           request[h].mail \in Mails /\ mails[request[h].mail].by = h

\* Before the account exists there is nothing that could let anybody in.
NoAccountInv ==
    password = 0 =>
        /\ \A s \in Sessions : ~ sessions[s].live
        /\ \A t \in Tokens : ~ tokens[t].live
        /\ \A m \in Mails : ~ Unused(m)
        /\ \A h \in Handlers : request[h].saw = 0
               /\ pc[h] \in {"idle", "register", "find", "verify"}

IInv == TypeOK /\ OpsInv /\ ClaimsInv /\ NoAccountInv /\ CredentialsFollowPassword

LEMMA InitHolds == Init => IInv
  <1> SUFFICES ASSUME Init PROVE IInv
    OBVIOUS
  <1>1. TypeOK /\ OpsInv
    BY NobodyAssumption
       DEF Init, TypeOK, OpsInv, Row_, MailRow, RequestRow, NoRow, NoMail, NoRequest, Steps
  <1>2. ClaimsInv
    BY DEF Init, ClaimsInv, NoMail, NoRequest, Resetting, Unused
  <1>3. NoAccountInv
    BY DEF Init, NoAccountInv, NoMail, NoRequest, NoRow, Unused
  <1>4. CredentialsFollowPassword
    BY DEF Init, CredentialsFollowPassword, LiveIn, NoMail, NoRequest, NoRow, Unused
  <1>5. QED
    BY <1>1, <1>2, <1>3, <1>4 DEF IInv

-----------------------------------------------------------------------------
(***************************************************************************)
(* Types                                                                   *)
(***************************************************************************)

LEMMA EmptyRows == NoRow \in Row_ /\ NoRequest \in RequestRow
  BY DEF NoRow, Row_, NoRequest, RequestRow

LEMMA UsedUpType ==
    ASSUME TypeOK, NEW m \in Mails
    PROVE  UsedUp(m) \in MailRow
  <1>1. mails[m] \in MailRow
    BY DEF TypeOK
  <1>2. QED
    BY <1>1 DEF UsedUp, MailRow

\* A request that is over is forgotten.
LEMMA ReturnTypes ==
    ASSUME TypeOK, NEW h \in Handlers, Return(h)
    PROVE  request' \in [Handlers -> RequestRow] /\ pc' = [pc EXCEPT ![h] = "idle"]
  <1>1. request \in [Handlers -> RequestRow]
    BY DEF TypeOK
  <1>2. QED
    BY <1>1, EmptyRows DEF Return

\* The lock is taken and left on the way in and out of "finish" only.
LEMMA LockKept ==
    ASSUME TypeOK, NEW h \in Handlers, NEW at \in Steps, at # "finish", pc[h] # "finish",
           pc' = [pc EXCEPT ![h] = at], UNCHANGED rowLock
    PROVE  /\ pc' \in [Handlers -> Steps]
           /\ rowLock' \in Handlers \cup {Nobody}
           /\ \A k \in Handlers : rowLock' = k <=> pc'[k] = "finish"
  BY DEF TypeOK

LEMMA InsertMailTypes ==
    ASSUME TypeOK, NEW kind \in {"reset", "verify"}, InsertMail(kind)
    PROVE  mails' \in [Mails -> MailRow]
  <1>1. [kind |-> kind, state |-> "unused", by |-> Nobody, pw |-> password,
         recent |-> TRUE] \in MailRow
    BY DEF MailRow, TypeOK
  <1>2. mails \in [Mails -> MailRow]
    BY DEF TypeOK
  <1>3. QED
    BY <1>1, <1>2 DEF InsertMail

LEMMA TypeStep ==
    ASSUME TypeOK, OpsInv, [Next]_vars
    PROVE  TypeOK'
  <1>1. ASSUME NEW h \in Handlers, BeginRegister(h) PROVE TypeOK'
    BY <1>1 DEF BeginRegister, Start, NoRequest, RequestRow, Steps, account, tables, TypeOK
  <1>2. ASSUME NEW h \in Handlers, BeginLogin(h) PROVE TypeOK'
    BY <1>2 DEF BeginLogin, Start, NoRequest, RequestRow, Steps, account, tables, TypeOK
  <1>3. ASSUME NEW h \in Handlers, BeginForgot(h) PROVE TypeOK'
    BY <1>3 DEF BeginForgot, Start, NoRequest, RequestRow, Steps, account, tables, TypeOK
  <1>4. ASSUME NEW h \in Handlers, NEW s \in Sessions, BeginChange(h, s) PROVE TypeOK'
    BY <1>4 DEF BeginChange, Start, NoRequest, RequestRow, Steps, account, tables, TypeOK
  <1>5. ASSUME NEW h \in Handlers, NEW s \in Sessions, BeginResend(h, s) PROVE TypeOK'
    BY <1>5 DEF BeginResend, Start, NoRequest, RequestRow, Steps, account, tables, TypeOK
  <1>6. ASSUME NEW h \in Handlers, NEW s \in Sessions, BeginToken(h, s) PROVE TypeOK'
    BY <1>6 DEF BeginToken, Start, NoRequest, RequestRow, Steps, account, tables, TypeOK
  <1>7. ASSUME NEW h \in Handlers, NEW s \in Sessions, BeginRevokeOthers(h, s) PROVE TypeOK'
    BY <1>7 DEF BeginRevokeOthers, Start, NoRequest, RequestRow, Steps, account, tables, TypeOK
  <1>8. ASSUME NEW h \in Handlers, NEW m \in Mails, ClaimPasswordReset(h, m)
        PROVE TypeOK'
    <2>1. [NoRequest EXCEPT !.op = "reset", !.mail = m, !.saw = password] \in RequestRow
      BY DEF NoRequest, RequestRow, TypeOK
    <2>2. request' \in [Handlers -> RequestRow]
      BY <1>8, <2>1 DEF ClaimPasswordReset, TypeOK
    <2>3. mails[m] \in MailRow /\ mails' = [mails EXCEPT ![m].by = h]
      BY <1>8 DEF ClaimPasswordReset, TypeOK
    <2>4. [mails[m] EXCEPT !.by = h] \in MailRow
      BY <2>3 DEF MailRow
    <2>5. mails' \in [Mails -> MailRow]
      BY <2>3, <2>4 DEF TypeOK
    <2>6. /\ pc[h] = "idle" /\ pc' = [pc EXCEPT ![h] = "begin"]
          /\ UNCHANGED <<account, sessions, tokens, failures>>
      BY <1>8 DEF ClaimPasswordReset
    <2>7. QED
      BY <2>2, <2>5, <2>6, LockKept DEF TypeOK, account, Steps
  <1>9. ASSUME NEW h \in Handlers, ReadUser(h) PROVE TypeOK'
    <2>1. request[h] \in RequestRow /\ request' = [request EXCEPT ![h].saw = password]
      BY <1>9 DEF ReadUser, TypeOK
    <2>2. [request[h] EXCEPT !.saw = password] \in RequestRow
      BY <2>1 DEF RequestRow, TypeOK
    <2>3. request' \in [Handlers -> RequestRow]
      BY <2>1, <2>2 DEF TypeOK
    <2>4. /\ pc[h] = "find" /\ pc' = [pc EXCEPT ![h] = "verify"]
          /\ UNCHANGED <<account, tables>>
      BY <1>9 DEF ReadUser
    <2>5. QED
      BY <2>3, <2>4, LockKept DEF TypeOK, account, tables, Steps
  <1>10. ASSUME NEW h \in Handlers, WrongPassword(h) PROVE TypeOK'
    <2>1. /\ pc[h] = "verify" /\ Return(h) /\ failures' = failures + 1
          /\ UNCHANGED <<account, sessions, tokens, mails>>
      BY <1>10 DEF WrongPassword
    <2>2. QED
      BY <2>1, ReturnTypes, LockKept DEF TypeOK, account, Steps
  <1>11. ASSUME NEW h \in Handlers, RightPassword(h) PROVE TypeOK'
    <2>1. PICK at \in {"issue", "begin"} : GoTo(h, at) /\ failures' \in {0, failures}
      BY <1>11 DEF RightPassword
    <2>2. pc[h] = "verify" /\ UNCHANGED <<account, sessions, tokens, mails>>
      BY <1>11 DEF RightPassword
    <2>3. /\ pc' = [pc EXCEPT ![h] = at] /\ UNCHANGED request
          /\ at \in Steps /\ at # "finish" /\ failures' \in Nat
      BY <2>1 DEF GoTo, TypeOK, Steps
    <2>4. QED
      BY <2>2, <2>3, LockKept DEF TypeOK, account
  <1>12. ASSUME NEW h \in Handlers, IssueSession(h) PROVE TypeOK'
    <2>1. request[h].saw \in Nat /\ password \in Nat
      BY DEF TypeOK, RequestRow
    <2>2. Row(request[h].saw) \in Row_
      BY <2>1 DEF Row, Row_
    <2>3. sessions' \in [Sessions -> Row_]
      BY <1>12, <2>2 DEF IssueSession, InsertSession, TypeOK
    <2>4. /\ pc[h] = "issue" /\ Return(h)
          /\ UNCHANGED <<account, tokens, mails, failures>>
      BY <1>12 DEF IssueSession
    <2>5. QED
      BY <2>3, <2>4, ReturnTypes, LockKept DEF TypeOK, account, Steps
  <1>13. ASSUME NEW h \in Handlers, LockUser(h) PROVE TypeOK'
    BY <1>13, NobodyAssumption DEF LockUser, GoTo, tables, Steps, TypeOK
  <1>14. ASSUME NEW h \in Handlers, CountTokens(h) PROVE TypeOK'
    <2>1. GoTo(h, "insert") \/ Return(h)
      BY <1>14 DEF CountTokens
    <2>2. pc[h] = "count" /\ UNCHANGED <<account, tables>>
      BY <1>14 DEF CountTokens
    <2>3. CASE GoTo(h, "insert")
      BY <2>2, <2>3, LockKept DEF GoTo, TypeOK, account, tables, Steps
    <2>4. CASE Return(h)
      BY <2>2, <2>4, ReturnTypes, LockKept DEF TypeOK, account, tables, Steps
    <2>5. QED
      BY <2>1, <2>3, <2>4
  <1>15. ASSUME NEW h \in Handlers, InsertToken(h) PROVE TypeOK'
    <2>1. request[h].saw \in Nat /\ password \in Nat
      BY DEF TypeOK, RequestRow
    <2>2. Row(request[h].saw) \in Row_
      BY <2>1 DEF Row, Row_
    <2>3. tokens' \in [Tokens -> Row_]
      BY <1>15, <2>2 DEF InsertToken, TypeOK
    <2>4. /\ pc[h] = "insert" /\ Return(h)
          /\ UNCHANGED <<account, sessions, mails, failures>>
      BY <1>15 DEF InsertToken
    <2>5. QED
      BY <2>3, <2>4, ReturnTypes, LockKept DEF TypeOK, account, Steps
  <1>16. ASSUME NEW h \in Handlers, RevokeOtherSessions(h) PROVE TypeOK'
    <2>1. sessions \in [Sessions -> Row_]
      BY DEF TypeOK
    <2>2. sessions' \in [Sessions -> Row_]
      BY <1>16, <2>1, EmptyRows DEF RevokeOtherSessions, EndAll
    <2>3. /\ pc[h] = "delete" /\ Return(h)
          /\ UNCHANGED <<account, tokens, mails, failures>>
      BY <1>16 DEF RevokeOtherSessions
    <2>4. QED
      BY <2>2, <2>3, ReturnTypes, LockKept DEF TypeOK, account, Steps
  <1>17. ASSUME NEW h \in Handlers, Fails(h) PROVE TypeOK'
    <2>1. ASSUME NEW m \in Mails PROVE mails'[m] \in MailRow
      <3>1. mails[m] \in MailRow
        BY DEF TypeOK
      <3>2. [mails[m] EXCEPT !.by = Nobody] \in MailRow
        BY <3>1 DEF MailRow
      <3>3. QED
        BY <1>17, <3>1, <3>2 DEF Fails
    <2>2. mails' \in [Mails -> MailRow]
      BY <1>17, <2>1 DEF Fails
    <2>3. /\ rowLock' = IF rowLock = h THEN Nobody ELSE rowLock
          /\ Return(h) /\ UNCHANGED <<password, verified, sessions, tokens, failures>>
      BY <1>17 DEF Fails
    <2>4. /\ rowLock' \in Handlers \cup {Nobody} /\ pc' \in [Handlers -> Steps]
          /\ \A k \in Handlers : rowLock' = k <=> pc'[k] = "finish"
      BY <2>3, ReturnTypes, NobodyAssumption DEF TypeOK, Steps
    <2>5. QED
      BY <2>2, <2>3, <2>4, ReturnTypes DEF TypeOK
  <1>18. ASSUME NEW h \in Handlers, SendMail(h) PROVE TypeOK'
    <2>1. /\ pc[h] = "mail" /\ InsertMail(request[h].op) /\ Return(h)
          /\ UNCHANGED <<account, sessions, tokens, failures>>
      BY <1>18 DEF SendMail
    <2>2. request[h].op \in {"reset", "verify"}
      BY <2>1 DEF OpsInv
    <2>3. mails' \in [Mails -> MailRow]
      BY <2>1, <2>2, InsertMailTypes
    <2>4. QED
      BY <2>1, <2>3, ReturnTypes, LockKept DEF TypeOK, account, Steps
  <1>19. ASSUME NEW h \in Handlers, Register(h) PROVE TypeOK'
    <2>1. [live |-> TRUE, pw |-> 1, late |-> FALSE] \in Row_
      BY DEF Row_
    <2>2. sessions' \in [Sessions -> Row_]
      BY <1>19, <2>1 DEF Register, TypeOK
    <2>3. mails' \in [Mails -> MailRow]
      BY <1>19, InsertMailTypes DEF Register, TypeOK
    <2>4. /\ pc[h] = "register" /\ password' \in Nat /\ verified' \in BOOLEAN
          /\ Return(h) /\ UNCHANGED <<tokens, failures, rowLock>>
      BY <1>19 DEF Register, TypeOK, account
    <2>5. QED
      BY <2>2, <2>3, <2>4, ReturnTypes, LockKept DEF TypeOK, Steps
  <1>20. ASSUME NEW h \in Handlers, FinishPassword(h) PROVE TypeOK'
    <2>1. KeepOwn(h) /\ sessions \in [Sessions -> Row_] /\ password \in Nat
      BY <1>20 DEF FinishPassword, TypeOK
    <2>2. \A b \in BOOLEAN : [live |-> TRUE, pw |-> password + 1, late |-> b] \in Row_
      BY <2>1 DEF Row_
    <2>3. sessions' \in [Sessions -> Row_]
      <3>1. CASE request[h].op = "change"
        BY <2>1, <2>2, <3>1, EmptyRows DEF KeepOwn
      <3>2. CASE request[h].op # "change"
        BY <2>1, <2>2, <3>2, EmptyRows DEF KeepOwn, EndAll
      <3>3. QED
        BY <3>1, <3>2
    <2>4. tokens' \in [Tokens -> Row_]
      <3>1. tokens \in [Tokens -> Row_] /\ tokens' = EndAll(tokens)
        BY <1>20 DEF FinishPassword, TypeOK
      <3>2. QED
        BY <3>1, EmptyRows DEF EndAll
    <2>5. mails' \in [Mails -> MailRow]
      <3>1. mails \in [Mails -> MailRow] /\ mails' = InvalidateResets(h)
        BY <1>20 DEF FinishPassword, TypeOK
      <3>2. QED
        BY <3>1, UsedUpType DEF InvalidateResets
    <2>6. /\ pc[h] = "finish" /\ Return(h)
          /\ password' = password + 1 /\ verified' = (verified \/ request[h].op = "reset")
          /\ rowLock' = Nobody /\ failures' = 0
      BY <1>20 DEF FinishPassword
    <2>7. \A k \in Handlers : rowLock' = k <=> pc'[k] = "finish"
      BY <2>6, ReturnTypes, NobodyAssumption DEF TypeOK, Steps
    <2>8. QED
      BY <2>1, <2>3, <2>4, <2>5, <2>6, <2>7, ReturnTypes DEF TypeOK, Steps
  <1>21. CASE FailureAges
    BY <1>21 DEF FailureAges, TypeOK, account
  <1>22. ASSUME NEW m \in Mails, MailAges(m) PROVE TypeOK'
    <2>1. mails[m] \in MailRow
      BY DEF TypeOK
    <2>2. [mails[m] EXCEPT !.recent = FALSE] \in MailRow
      BY <2>1 DEF MailRow
    <2>3. mails' \in [Mails -> MailRow]
      BY <1>22, <2>2, UsedUpType DEF MailAges, TypeOK
    <2>4. QED
      BY <1>22, <2>3 DEF MailAges, TypeOK, account
  <1>23. ASSUME NEW m \in Mails, VerifyEmail(m) PROVE TypeOK'
    <2>1. mails[m] \in MailRow
      BY DEF TypeOK
    <2>2. [mails[m] EXCEPT !.recent = FALSE] \in MailRow
      BY <2>1 DEF MailRow
    <2>3. mails' \in [Mails -> MailRow]
      BY <1>23, <2>2, UsedUpType DEF VerifyEmail, TypeOK
    <2>4. QED
      BY <1>23, <2>3 DEF VerifyEmail, TypeOK, account
  <1>24. ASSUME NEW t \in Tokens, EndToken(t) PROVE TypeOK'
    <2>1. tokens' \in [Tokens -> Row_]
      BY <1>24, EmptyRows DEF EndToken, TypeOK
    <2>2. QED
      BY <1>24, <2>1 DEF EndToken, TypeOK, account
  <1>25. ASSUME NEW s \in Sessions, EndSession(s) PROVE TypeOK'
    <2>1. sessions' \in [Sessions -> Row_]
      BY <1>25, EmptyRows DEF EndSession, TypeOK
    <2>2. QED
      BY <1>25, <2>1 DEF EndSession, TypeOK, account
  <1>26. CASE UNCHANGED vars
    BY <1>26 DEF vars, TypeOK
  <1>27. QED
    BY <1>1, <1>2, <1>3, <1>4, <1>5, <1>6, <1>7, <1>8, <1>9, <1>10, <1>11, <1>12, <1>13,
       <1>14, <1>15, <1>16, <1>17, <1>18, <1>19, <1>20, <1>21, <1>22, <1>23, <1>24, <1>25,
       <1>26
       DEF Next, Enter, Proceed, Elapse

\* A link that expires, or leaves the hour of the limit, keeps the rest.
LEMMA MailAgesEffect ==
    ASSUME TypeOK, NEW m \in Mails, MailAges(m)
    PROVE  /\ mails[m].by = Nobody /\ mails'[m].by = Nobody
           /\ mails'[m].kind = mails[m].kind
           /\ mails'[m].state = "unused" => UNCHANGED <<mails[m].state, mails[m].pw>>
           /\ \A n \in Mails \ {m} : mails'[n] = mails[n]
           /\ UNCHANGED <<account, sessions, tokens, failures, request, pc>>
  <1>1. mails[m] \in MailRow /\ mails \in [Mails -> MailRow]
    BY DEF TypeOK
  <1>2. /\ UsedUp(m).by = Nobody /\ UsedUp(m).kind = mails[m].kind
        /\ UsedUp(m).state = "used"
    BY <1>1 DEF UsedUp, MailRow
  <1>3. LET r == [mails[m] EXCEPT !.recent = FALSE]
        IN  r.by = mails[m].by /\ r.kind = mails[m].kind /\ r.state = mails[m].state
            /\ r.pw = mails[m].pw
    BY <1>1 DEF MailRow
  <1>4. /\ mails[m].by = Nobody /\ UNCHANGED <<account, sessions, tokens, failures, request, pc>>
        /\ \/ mails' = [mails EXCEPT ![m] = UsedUp(m)]
           \/ mails' = [mails EXCEPT ![m] = [mails[m] EXCEPT !.recent = FALSE]]
    BY DEF MailAges
  <1>5. QED
    BY <1>1, <1>2, <1>3, <1>4

LEMMA OpsStep ==
    ASSUME TypeOK, OpsInv, [Next]_vars
    PROVE  OpsInv'
  <1> USE DEF OpsInv, TypeOK, NoRequest, Start, GoTo, Return
  <1>1. ASSUME NEW h \in Handlers, BeginRegister(h) PROVE OpsInv'
    BY <1>1 DEF BeginRegister
  <1>2. ASSUME NEW h \in Handlers, BeginLogin(h) PROVE OpsInv'
    BY <1>2 DEF BeginLogin
  <1>3. ASSUME NEW h \in Handlers, BeginForgot(h) PROVE OpsInv'
    BY <1>3 DEF BeginForgot
  <1>4. ASSUME NEW h \in Handlers, NEW s \in Sessions, BeginChange(h, s) PROVE OpsInv'
    BY <1>4 DEF BeginChange
  <1>5. ASSUME NEW h \in Handlers, NEW s \in Sessions, BeginResend(h, s) PROVE OpsInv'
    BY <1>5 DEF BeginResend
  <1>6. ASSUME NEW h \in Handlers, NEW s \in Sessions, BeginToken(h, s) PROVE OpsInv'
    BY <1>6 DEF BeginToken
  <1>7. ASSUME NEW h \in Handlers, NEW s \in Sessions, BeginRevokeOthers(h, s) PROVE OpsInv'
    BY <1>7 DEF BeginRevokeOthers
  <1>8. ASSUME NEW h \in Handlers, NEW m \in Mails, ClaimPasswordReset(h, m)
        PROVE  OpsInv'
    BY <1>8 DEF ClaimPasswordReset
  <1>9. ASSUME NEW h \in Handlers, Register(h) PROVE OpsInv'
    BY <1>9 DEF Register
  <1>10. ASSUME NEW h \in Handlers, ReadUser(h) PROVE OpsInv'
    BY <1>10 DEF ReadUser
  <1>11. ASSUME NEW h \in Handlers, WrongPassword(h) PROVE OpsInv'
    BY <1>11 DEF WrongPassword
  <1>12. ASSUME NEW h \in Handlers, RightPassword(h) PROVE OpsInv'
    BY <1>12 DEF RightPassword
  <1>13. ASSUME NEW h \in Handlers, IssueSession(h) PROVE OpsInv'
    BY <1>13 DEF IssueSession
  <1>14. ASSUME NEW h \in Handlers, SendMail(h) PROVE OpsInv'
    BY <1>14 DEF SendMail
  <1>15. ASSUME NEW h \in Handlers, CountTokens(h) PROVE OpsInv'
    BY <1>15 DEF CountTokens
  <1>16. ASSUME NEW h \in Handlers, InsertToken(h) PROVE OpsInv'
    BY <1>16 DEF InsertToken
  <1>17. ASSUME NEW h \in Handlers, RevokeOtherSessions(h) PROVE OpsInv'
    BY <1>17 DEF RevokeOtherSessions
  <1>18. ASSUME NEW h \in Handlers, LockUser(h) PROVE OpsInv'
    BY <1>18 DEF LockUser
  <1>19. ASSUME NEW h \in Handlers, FinishPassword(h) PROVE OpsInv'
    BY <1>19 DEF FinishPassword
  <1>20. ASSUME NEW h \in Handlers, Fails(h) PROVE OpsInv'
    BY <1>20 DEF Fails
  <1>21. CASE FailureAges
    BY <1>21 DEF FailureAges
  <1>22. ASSUME NEW m \in Mails, MailAges(m) PROVE OpsInv'
    BY <1>22 DEF MailAges
  <1>23. ASSUME NEW m \in Mails, VerifyEmail(m) PROVE OpsInv'
    BY <1>23 DEF VerifyEmail
  <1>24. ASSUME NEW t \in Tokens, EndToken(t) PROVE OpsInv'
    BY <1>24 DEF EndToken
  <1>25. ASSUME NEW s \in Sessions, EndSession(s) PROVE OpsInv'
    BY <1>25 DEF EndSession
  <1>26. CASE UNCHANGED vars
    BY <1>26 DEF vars
  <1> HIDE DEF OpsInv, TypeOK, NoRequest, Start, GoTo, Return
  <1>27. QED
    BY <1>1, <1>2, <1>3, <1>4, <1>5, <1>6, <1>7, <1>8, <1>9, <1>10, <1>11, <1>12, <1>13,
       <1>14, <1>15, <1>16, <1>17, <1>18, <1>19, <1>20, <1>21, <1>22, <1>23, <1>24, <1>25,
       <1>26
       DEF Next, Enter, Proceed, Elapse

-----------------------------------------------------------------------------
LEMMA ClaimsStep ==
    ASSUME TypeOK, ClaimsInv, [Next]_vars
    PROVE  ClaimsInv'
  <1> USE DEF ClaimsInv, Resetting, Unused, TypeOK, MailRow, NoRequest, Start, GoTo, Return, account, tables
  <1>1. ASSUME NEW h \in Handlers, BeginRegister(h) PROVE ClaimsInv'
    BY <1>1 DEF BeginRegister
  <1>2. ASSUME NEW h \in Handlers, BeginLogin(h) PROVE ClaimsInv'
    BY <1>2 DEF BeginLogin
  <1>3. ASSUME NEW h \in Handlers, BeginForgot(h) PROVE ClaimsInv'
    BY <1>3 DEF BeginForgot
  <1>4. ASSUME NEW h \in Handlers, NEW s \in Sessions, BeginChange(h, s) PROVE ClaimsInv'
    BY <1>4 DEF BeginChange
  <1>5. ASSUME NEW h \in Handlers, NEW s \in Sessions, BeginResend(h, s) PROVE ClaimsInv'
    BY <1>5 DEF BeginResend
  <1>6. ASSUME NEW h \in Handlers, NEW s \in Sessions, BeginToken(h, s) PROVE ClaimsInv'
    BY <1>6 DEF BeginToken
  <1>7. ASSUME NEW h \in Handlers, NEW s \in Sessions, BeginRevokeOthers(h, s) PROVE ClaimsInv'
    BY <1>7 DEF BeginRevokeOthers
  <1>8. ASSUME NEW h \in Handlers, NEW m \in Mails, ClaimPasswordReset(h, m)
        PROVE  ClaimsInv'
    BY <1>8, NobodyAssumption DEF ClaimPasswordReset
  <1>9. ASSUME NEW h \in Handlers, Register(h) PROVE ClaimsInv'
    <2>1. \A k \in Handlers : Resetting(k)' => k # h /\ Resetting(k)
      BY <1>9 DEF Register
    <2>2. \A k \in Handlers \ {h} : UNCHANGED <<request[k], pc[k]>>
      BY <1>9 DEF Register
    <2>3. ~ Resetting(h)
      BY <1>9 DEF Register
    <2>4. CASE UNCHANGED mails
      BY <2>1, <2>2, <2>3, <2>4
    <2>5. CASE InsertMail("verify")
      <3>1. PICK m \in SpareMails :
                /\ mails'[m].by = Nobody
                /\ \A n \in Mails \ {m} : mails'[n] = mails[n]
        BY <2>5 DEF InsertMail, SpareMails
      <3>2. mails[m].by = Nobody /\ m \in Mails
        BY <3>1 DEF SpareMails
      <3>3. QED
        BY <2>1, <2>2, <2>3, <3>1, <3>2, NobodyAssumption
    <2>6. QED
      BY <1>9, <2>4, <2>5 DEF Register
  <1>10. ASSUME NEW h \in Handlers, ReadUser(h) PROVE ClaimsInv'
    BY <1>10 DEF ReadUser
  <1>11. ASSUME NEW h \in Handlers, WrongPassword(h) PROVE ClaimsInv'
    BY <1>11 DEF WrongPassword
  <1>12. ASSUME NEW h \in Handlers, RightPassword(h) PROVE ClaimsInv'
    BY <1>12 DEF RightPassword
  <1>13. ASSUME NEW h \in Handlers, IssueSession(h) PROVE ClaimsInv'
    BY <1>13 DEF IssueSession
  <1>14. ASSUME NEW h \in Handlers, SendMail(h) PROVE ClaimsInv'
    <2>1. \A k \in Handlers : Resetting(k)' => k # h /\ Resetting(k)
      BY <1>14 DEF SendMail
    <2>2. \A k \in Handlers \ {h} : UNCHANGED <<request[k], pc[k]>>
      BY <1>14 DEF SendMail
    <2>3. ~ Resetting(h)
      BY <1>14 DEF SendMail
    <2>4. PICK m \in SpareMails :
              /\ mails'[m].by = Nobody
              /\ \A n \in Mails \ {m} : mails'[n] = mails[n]
      BY <1>14 DEF SendMail, InsertMail, SpareMails
    <2>5. mails[m].by = Nobody /\ m \in Mails
      BY <2>4 DEF SpareMails
    <2>6. QED
      BY <2>1, <2>2, <2>3, <2>4, <2>5, NobodyAssumption
  <1>15. ASSUME NEW h \in Handlers, CountTokens(h) PROVE ClaimsInv'
    BY <1>15 DEF CountTokens
  <1>16. ASSUME NEW h \in Handlers, InsertToken(h) PROVE ClaimsInv'
    BY <1>16 DEF InsertToken
  <1>17. ASSUME NEW h \in Handlers, RevokeOtherSessions(h) PROVE ClaimsInv'
    BY <1>17 DEF RevokeOtherSessions
  <1>18. ASSUME NEW h \in Handlers, LockUser(h) PROVE ClaimsInv'
    BY <1>18 DEF LockUser
  <1>19. ASSUME NEW h \in Handlers, FinishPassword(h) PROVE ClaimsInv'
    <2>1. ASSUME NEW m \in Mails PROVE mails'[m].by = Nobody
      <3>1. UsedUp(m).by = Nobody
        BY DEF UsedUp
      <3>2. mails'[m] = IF mails[m].kind = "reset" THEN UsedUp(m) ELSE mails[m]
        BY <1>19 DEF FinishPassword, InvalidateResets
      <3>3. QED
        BY <3>1, <3>2
    <2>2. \A k \in Handlers \ {h} : ~ Resetting(k)
      BY <1>19, NobodyAssumption DEF FinishPassword, LinksFree
    <2>3. \A k \in Handlers : ~ Resetting(k)'
      BY <1>19, <2>2 DEF FinishPassword
    <2>4. QED
      BY <2>1, <2>3
  <1>20. ASSUME NEW h \in Handlers, Fails(h) PROVE ClaimsInv'
    BY <1>20, NobodyAssumption DEF Fails
  <1>21. CASE FailureAges
    BY <1>21 DEF FailureAges
  <1>22. ASSUME NEW m \in Mails, MailAges(m) PROVE ClaimsInv'
    BY <1>22, MailAgesEffect, NobodyAssumption
  <1>23. ASSUME NEW m \in Mails, VerifyEmail(m) PROVE ClaimsInv'
    <2>1. mails'[m].by = Nobody /\ \A n \in Mails \ {m} : mails'[n] = mails[n]
      BY <1>23 DEF VerifyEmail, UsedUp
    <2>2. UNCHANGED <<request, pc>> /\ mails[m].by = Nobody
      BY <1>23 DEF VerifyEmail
    <2>3. QED
      BY <2>1, <2>2, NobodyAssumption
  <1>24. ASSUME NEW t \in Tokens, EndToken(t) PROVE ClaimsInv'
    BY <1>24 DEF EndToken
  <1>25. ASSUME NEW s \in Sessions, EndSession(s) PROVE ClaimsInv'
    BY <1>25 DEF EndSession
  <1>26. CASE UNCHANGED vars
    BY <1>26 DEF vars
  <1> HIDE DEF ClaimsInv, Resetting, Unused, TypeOK, MailRow, NoRequest, Start, GoTo, Return, account, tables
  <1>27. QED
    BY <1>1, <1>2, <1>3, <1>4, <1>5, <1>6, <1>7, <1>8, <1>9, <1>10, <1>11, <1>12, <1>13,
       <1>14, <1>15, <1>16, <1>17, <1>18, <1>19, <1>20, <1>21, <1>22, <1>23, <1>24, <1>25,
       <1>26
       DEF Next, Enter, Proceed, Elapse

-----------------------------------------------------------------------------
LEMMA NoAccountStep ==
    ASSUME TypeOK, NoAccountInv, [Next]_vars
    PROVE  NoAccountInv'
  <1> USE DEF NoAccountInv, Unused, TypeOK, NoRow, NoRequest, Start, GoTo, Return, account, tables
  <1>1. ASSUME NEW h \in Handlers, BeginRegister(h) PROVE NoAccountInv'
    BY <1>1 DEF BeginRegister
  <1>2. ASSUME NEW h \in Handlers, BeginLogin(h) PROVE NoAccountInv'
    BY <1>2 DEF BeginLogin
  <1>3. ASSUME NEW h \in Handlers, BeginForgot(h) PROVE NoAccountInv'
    BY <1>3 DEF BeginForgot
  <1>4. ASSUME NEW h \in Handlers, NEW s \in Sessions, BeginChange(h, s) PROVE NoAccountInv'
    BY <1>4 DEF BeginChange, Authenticated
  <1>5. ASSUME NEW h \in Handlers, NEW s \in Sessions, BeginResend(h, s) PROVE NoAccountInv'
    BY <1>5 DEF BeginResend, Authenticated
  <1>6. ASSUME NEW h \in Handlers, NEW s \in Sessions, BeginToken(h, s) PROVE NoAccountInv'
    BY <1>6 DEF BeginToken, Authenticated
  <1>7. ASSUME NEW h \in Handlers, NEW s \in Sessions, BeginRevokeOthers(h, s) PROVE NoAccountInv'
    BY <1>7 DEF BeginRevokeOthers, Authenticated
  <1>8. ASSUME NEW h \in Handlers, NEW m \in Mails, ClaimPasswordReset(h, m)
        PROVE  NoAccountInv'
    BY <1>8 DEF ClaimPasswordReset
  <1>9. ASSUME NEW h \in Handlers, Register(h) PROVE NoAccountInv'
    <2>1. CASE password = 0
      <3>1. password' = 1
        BY <1>9, <2>1 DEF Register
      <3>2. QED
        BY <3>1
    <2>2. CASE password # 0
      <3>1. password' = password
        BY <1>9, <2>2 DEF Register
      <3>2. QED
        BY <2>2, <3>1
    <2>3. QED
      BY <2>1, <2>2
  <1>10. ASSUME NEW h \in Handlers, ReadUser(h) PROVE NoAccountInv'
    BY <1>10 DEF ReadUser
  <1>11. ASSUME NEW h \in Handlers, WrongPassword(h) PROVE NoAccountInv'
    BY <1>11 DEF WrongPassword
  <1>12. ASSUME NEW h \in Handlers, RightPassword(h) PROVE NoAccountInv'
    BY <1>12 DEF RightPassword
  <1>13. ASSUME NEW h \in Handlers, IssueSession(h) PROVE NoAccountInv'
    BY <1>13 DEF IssueSession
  <1>14. ASSUME NEW h \in Handlers, SendMail(h) PROVE NoAccountInv'
    BY <1>14 DEF SendMail
  <1>15. ASSUME NEW h \in Handlers, CountTokens(h) PROVE NoAccountInv'
    BY <1>15 DEF CountTokens, RoomForToken
  <1>16. ASSUME NEW h \in Handlers, InsertToken(h) PROVE NoAccountInv'
    BY <1>16 DEF InsertToken
  <1>17. ASSUME NEW h \in Handlers, RevokeOtherSessions(h) PROVE NoAccountInv'
    BY <1>17 DEF RevokeOtherSessions
  <1>18. ASSUME NEW h \in Handlers, LockUser(h) PROVE NoAccountInv'
    BY <1>18 DEF LockUser
  <1>19. ASSUME NEW h \in Handlers, FinishPassword(h) PROVE NoAccountInv'
    <2>1. password' = password + 1 /\ password \in Nat
      BY <1>19 DEF FinishPassword
    <2>2. QED
      BY <2>1
  <1>20. ASSUME NEW h \in Handlers, Fails(h) PROVE NoAccountInv'
    BY <1>20 DEF Fails
  <1>21. CASE FailureAges
    BY <1>21 DEF FailureAges
  <1>22. ASSUME NEW m \in Mails, MailAges(m) PROVE NoAccountInv'
    BY <1>22, MailAgesEffect
  <1>23. ASSUME NEW m \in Mails, VerifyEmail(m) PROVE NoAccountInv'
    BY <1>23 DEF VerifyEmail, UsedUp
  <1>24. ASSUME NEW t \in Tokens, EndToken(t) PROVE NoAccountInv'
    BY <1>24 DEF EndToken
  <1>25. ASSUME NEW s \in Sessions, EndSession(s) PROVE NoAccountInv'
    BY <1>25 DEF EndSession
  <1>26. CASE UNCHANGED vars
    BY <1>26 DEF vars
  <1> HIDE DEF NoAccountInv, Unused, TypeOK, NoRow, NoRequest, Start, GoTo, Return, account, tables
  <1>27. QED
    BY <1>1, <1>2, <1>3, <1>4, <1>5, <1>6, <1>7, <1>8, <1>9, <1>10, <1>11, <1>12, <1>13,
       <1>14, <1>15, <1>16, <1>17, <1>18, <1>19, <1>20, <1>21, <1>22, <1>23, <1>24, <1>25,
       <1>26
       DEF Next, Enter, Proceed, Elapse

-----------------------------------------------------------------------------
LEMMA CredentialsStep ==
    ASSUME TypeOK, ClaimsInv, NoAccountInv, CredentialsFollowPassword, [Next]_vars
    PROVE  CredentialsFollowPassword'
  <1> USE DEF CredentialsFollowPassword, LiveIn, Unused, TypeOK, NoRow, NoRequest, Start, GoTo, Return, account, tables
  <1>1. ASSUME NEW h \in Handlers, BeginRegister(h) PROVE CredentialsFollowPassword'
    BY <1>1 DEF BeginRegister
  <1>2. ASSUME NEW h \in Handlers, BeginLogin(h) PROVE CredentialsFollowPassword'
    BY <1>2 DEF BeginLogin
  <1>3. ASSUME NEW h \in Handlers, BeginForgot(h) PROVE CredentialsFollowPassword'
    BY <1>3 DEF BeginForgot
  <1>4. ASSUME NEW h \in Handlers, NEW s \in Sessions, BeginChange(h, s) PROVE CredentialsFollowPassword'
    BY <1>4 DEF BeginChange
  <1>5. ASSUME NEW h \in Handlers, NEW s \in Sessions, BeginResend(h, s) PROVE CredentialsFollowPassword'
    BY <1>5 DEF BeginResend
  <1>6. ASSUME NEW h \in Handlers, NEW s \in Sessions, BeginToken(h, s) PROVE CredentialsFollowPassword'
    BY <1>6 DEF BeginToken
  <1>7. ASSUME NEW h \in Handlers, NEW s \in Sessions, BeginRevokeOthers(h, s) PROVE CredentialsFollowPassword'
    BY <1>7 DEF BeginRevokeOthers
  <1>8. ASSUME NEW h \in Handlers, NEW m \in Mails, ClaimPasswordReset(h, m)
        PROVE  CredentialsFollowPassword'
    BY <1>8 DEF ClaimPasswordReset
  <1>9. ASSUME NEW h \in Handlers, Register(h) PROVE CredentialsFollowPassword'
    <2>1. CASE UNCHANGED <<password, sessions, mails>>
      BY <1>9, <2>1 DEF Register
    <2>2. CASE password = 0 /\ password' = 1
      <3>1. \A s \in Sessions : sessions'[s].live => sessions'[s].pw = 1
        BY <1>9, <2>2 DEF Register, NoAccountInv
      <3>2. \A t \in Tokens : ~ tokens'[t].live
        BY <1>9, <2>2 DEF Register, NoAccountInv
      <3>3. \A m \in Mails : mails'[m].state = "unused" => mails'[m].kind # "reset"
        BY <1>9, <2>2 DEF Register, NoAccountInv, InsertMail, SpareMails
      <3>4. \A k \in Handlers : pc'[k] \notin {"begin", "finish"}
        BY <1>9, <2>2 DEF Register, NoAccountInv
      <3>5. QED
        BY <2>2, <3>1, <3>2, <3>3, <3>4
    <2>3. QED
      BY <1>9, <2>1, <2>2 DEF Register
  <1>10. ASSUME NEW h \in Handlers, ReadUser(h) PROVE CredentialsFollowPassword'
    BY <1>10 DEF ReadUser
  <1>11. ASSUME NEW h \in Handlers, WrongPassword(h) PROVE CredentialsFollowPassword'
    BY <1>11 DEF WrongPassword
  <1>12. ASSUME NEW h \in Handlers, RightPassword(h) PROVE CredentialsFollowPassword'
    BY <1>12 DEF RightPassword
  <1>13. ASSUME NEW h \in Handlers, IssueSession(h) PROVE CredentialsFollowPassword'
    <2>1. PICK s \in Sessions : sessions' = [sessions EXCEPT ![s] = Row(request[h].saw)]
      BY <1>13 DEF IssueSession, InsertSession, Spare
    <2>2. Row(request[h].saw).pw = password \/ Row(request[h].saw).late
      BY DEF Row
    <2>3. \A k \in Handlers : pc'[k] \in {"begin", "finish"} =>
              pc'[k] = pc[k] /\ request'[k] = request[k]
      BY <1>13 DEF IssueSession
    <2>4. UNCHANGED <<password, tokens, mails>>
      BY <1>13 DEF IssueSession
    <2>5. QED
      BY <2>1, <2>2, <2>3, <2>4
  <1>14. ASSUME NEW h \in Handlers, SendMail(h) PROVE CredentialsFollowPassword'
    BY <1>14 DEF SendMail, InsertMail, SpareMails
  <1>15. ASSUME NEW h \in Handlers, CountTokens(h) PROVE CredentialsFollowPassword'
    BY <1>15 DEF CountTokens
  <1>16. ASSUME NEW h \in Handlers, InsertToken(h) PROVE CredentialsFollowPassword'
    <2>1. PICK t \in Tokens : tokens' = [tokens EXCEPT ![t] = Row(request[h].saw)]
      BY <1>16 DEF InsertToken
    <2>2. Row(request[h].saw).pw = password \/ Row(request[h].saw).late
      BY DEF Row
    <2>3. \A k \in Handlers : pc'[k] \in {"begin", "finish"} =>
              pc'[k] = pc[k] /\ request'[k] = request[k]
      BY <1>16 DEF InsertToken
    <2>4. UNCHANGED <<password, sessions, mails>>
      BY <1>16 DEF InsertToken
    <2>5. QED
      BY <2>1, <2>2, <2>3, <2>4
  <1>17. ASSUME NEW h \in Handlers, RevokeOtherSessions(h) PROVE CredentialsFollowPassword'
    BY <1>17 DEF RevokeOtherSessions, EndAll
  <1>18. ASSUME NEW h \in Handlers, LockUser(h) PROVE CredentialsFollowPassword'
    BY <1>18 DEF LockUser
  <1>19. ASSUME NEW h \in Handlers, FinishPassword(h) PROVE CredentialsFollowPassword'
    <2>1. password' = password + 1
      BY <1>19 DEF FinishPassword
    <2>2. \A s \in Sessions : sessions'[s].live => sessions'[s].pw = password'
      BY <1>19, <2>1 DEF FinishPassword, KeepOwn, EndAll
    <2>3. \A t \in Tokens : ~ tokens'[t].live
      BY <1>19 DEF FinishPassword, EndAll
    <2>4. ASSUME NEW m \in Mails, mails'[m].kind = "reset" PROVE mails'[m].state = "used"
      <3>1. mails[m] \in MailRow
        OBVIOUS
      <3>2. UsedUp(m).state = "used"
        BY <3>1 DEF UsedUp, MailRow
      <3>3. mails'[m] = IF mails[m].kind = "reset" THEN UsedUp(m) ELSE mails[m]
        BY <1>19 DEF FinishPassword, InvalidateResets
      <3>4. QED
        BY <2>4, <3>2, <3>3
    <2>5. \A k \in Handlers \ {h} : ~ Resetting(k)
      BY <1>19, NobodyAssumption DEF FinishPassword, LinksFree, ClaimsInv
    <2>6. \A k \in Handlers : ~ Resetting(k)'
      BY <1>19, <2>5 DEF FinishPassword, Resetting
    <2>7. QED
      BY <2>2, <2>3, <2>4, <2>6 DEF Resetting
  <1>20. ASSUME NEW h \in Handlers, Fails(h) PROVE CredentialsFollowPassword'
    BY <1>20 DEF Fails
  <1>21. CASE FailureAges
    BY <1>21 DEF FailureAges
  <1>22. ASSUME NEW m \in Mails, MailAges(m) PROVE CredentialsFollowPassword'
    BY <1>22, MailAgesEffect
  <1>23. ASSUME NEW m \in Mails, VerifyEmail(m) PROVE CredentialsFollowPassword'
    BY <1>23 DEF VerifyEmail, UsedUp
  <1>24. ASSUME NEW t \in Tokens, EndToken(t) PROVE CredentialsFollowPassword'
    BY <1>24 DEF EndToken
  <1>25. ASSUME NEW s \in Sessions, EndSession(s) PROVE CredentialsFollowPassword'
    BY <1>25 DEF EndSession
  <1>26. CASE UNCHANGED vars
    BY <1>26 DEF vars
  <1> HIDE DEF CredentialsFollowPassword, LiveIn, Unused, TypeOK, NoRow, NoRequest, Start, GoTo, Return, account, tables
  <1>27. QED
    BY <1>1, <1>2, <1>3, <1>4, <1>5, <1>6, <1>7, <1>8, <1>9, <1>10, <1>11, <1>12, <1>13,
       <1>14, <1>15, <1>16, <1>17, <1>18, <1>19, <1>20, <1>21, <1>22, <1>23, <1>24, <1>25,
       <1>26
       DEF Next, Enter, Proceed, Elapse

-----------------------------------------------------------------------------
(***************************************************************************)
(* Counts.  Every request that has passed the check may still add one, so  *)
(* what is counted and what is under way are bounded together.             *)
(***************************************************************************)

Trying    == {h \in Handlers : pc[h] \in {"find", "verify"}}
Inserting == {h \in Handlers : pc[h] = "insert"}

FailuresInv ==
    failures + Cardinality(Trying) < LockoutAttempts + Cardinality(Handlers)

TokensInv ==
    Cardinality(LiveIn(tokens, Tokens)) + Cardinality(Inserting)
        < MaxTokens + Cardinality(Handlers)

LEMMA FiniteParts ==
    /\ Cardinality(Handlers) \in Nat
    /\ IsFiniteSet(Trying) /\ Cardinality(Trying) \in Nat
    /\ IsFiniteSet(Inserting) /\ Cardinality(Inserting) \in Nat
    /\ IsFiniteSet(LiveIn(tokens, Tokens)) /\ Cardinality(LiveIn(tokens, Tokens)) \in Nat
  <1>1. /\ Trying \subseteq Handlers /\ Inserting \subseteq Handlers
        /\ LiveIn(tokens, Tokens) \subseteq Tokens
    BY DEF Trying, Inserting, LiveIn
  <1>2. QED
    BY <1>1, HandlersAssumption, FS_Subset, FS_CardinalityType

\* The same of the next state, with what a set of handlers cannot exceed.
LEMMA FinitePartsNext ==
    /\ IsFiniteSet(Trying') /\ Cardinality(Trying') \in Nat
    /\ Cardinality(Trying') <= Cardinality(Handlers)
    /\ IsFiniteSet(Inserting') /\ Cardinality(Inserting') \in Nat
    /\ Cardinality(Inserting') <= Cardinality(Handlers)
    /\ IsFiniteSet(LiveIn(tokens', Tokens)) /\ Cardinality(LiveIn(tokens', Tokens)) \in Nat
  <1>1. /\ Trying' \subseteq Handlers /\ Inserting' \subseteq Handlers
        /\ LiveIn(tokens', Tokens) \subseteq Tokens
    BY DEF Trying, Inserting, LiveIn
  <1>2. QED
    BY <1>1, HandlersAssumption, FS_Subset, FS_CardinalityType

LEMMA FewerTrying ==
    ASSUME FailuresInv, Trying' \subseteq Trying, failures \in Nat, failures' \in Nat,
           failures' <= failures
    PROVE  FailuresInv'
  <1>1. Cardinality(Trying') <= Cardinality(Trying)
    BY FiniteParts, FS_Subset
  <1>2. QED
    BY <1>1, FiniteParts, FinitePartsNext, LimitsAssumption DEF FailuresInv

LEMMA FewerTokens ==
    ASSUME TokensInv, Inserting' \subseteq Inserting,
           LiveIn(tokens', Tokens) \subseteq LiveIn(tokens, Tokens)
    PROVE  TokensInv'
  <1>1. /\ Cardinality(Inserting') <= Cardinality(Inserting)
        /\ Cardinality(LiveIn(tokens', Tokens)) <= Cardinality(LiveIn(tokens, Tokens))
    BY FiniteParts, FS_Subset
  <1>2. QED
    BY <1>1, FiniteParts, FinitePartsNext, LimitsAssumption DEF TokensInv

LEMMA FailuresStep ==
    ASSUME TypeOK, FailuresInv, [Next]_vars
    PROVE  FailuresInv'
  <1>1. ASSUME NEW h \in Handlers, BeginRegister(h) PROVE FailuresInv'
    <2>1. Trying' \subseteq Trying /\ failures' \in Nat /\ failures' <= failures
      BY <1>1 DEF BeginRegister, Trying, TypeOK, Start, GoTo, Return, account, tables
    <2>2. QED
      BY <2>1, FewerTrying DEF TypeOK
  <1>2. ASSUME NEW h \in Handlers, BeginLogin(h) PROVE FailuresInv'
    <2>1. failures' = failures /\ failures < LockoutAttempts /\ failures \in Nat
      BY <1>2, LimitsAssumption DEF BeginLogin, Locked, TypeOK, tables
    <2>2. QED
      BY <2>1, FinitePartsNext, FiniteParts, LimitsAssumption DEF FailuresInv
  <1>3. ASSUME NEW h \in Handlers, BeginForgot(h) PROVE FailuresInv'
    <2>1. Trying' \subseteq Trying /\ failures' \in Nat /\ failures' <= failures
      BY <1>3 DEF BeginForgot, Trying, TypeOK, Start, GoTo, Return, account, tables
    <2>2. QED
      BY <2>1, FewerTrying DEF TypeOK
  <1>4. ASSUME NEW h \in Handlers, NEW s \in Sessions, BeginChange(h, s) PROVE FailuresInv'
    <2>1. failures' = failures /\ failures < LockoutAttempts /\ failures \in Nat
      BY <1>4, LimitsAssumption DEF BeginChange, Locked, TypeOK, tables
    <2>2. QED
      BY <2>1, FinitePartsNext, FiniteParts, LimitsAssumption DEF FailuresInv
  <1>5. ASSUME NEW h \in Handlers, NEW s \in Sessions, BeginResend(h, s) PROVE FailuresInv'
    <2>1. Trying' \subseteq Trying /\ failures' \in Nat /\ failures' <= failures
      BY <1>5 DEF BeginResend, Trying, TypeOK, Start, GoTo, Return, account, tables
    <2>2. QED
      BY <2>1, FewerTrying DEF TypeOK
  <1>6. ASSUME NEW h \in Handlers, NEW s \in Sessions, BeginToken(h, s) PROVE FailuresInv'
    <2>1. Trying' \subseteq Trying /\ failures' \in Nat /\ failures' <= failures
      BY <1>6 DEF BeginToken, Trying, TypeOK, Start, GoTo, Return, account, tables
    <2>2. QED
      BY <2>1, FewerTrying DEF TypeOK
  <1>7. ASSUME NEW h \in Handlers, NEW s \in Sessions, BeginRevokeOthers(h, s) PROVE FailuresInv'
    <2>1. Trying' \subseteq Trying /\ failures' \in Nat /\ failures' <= failures
      BY <1>7 DEF BeginRevokeOthers, Trying, TypeOK, Start, GoTo, Return, account, tables
    <2>2. QED
      BY <2>1, FewerTrying DEF TypeOK
  <1>8. ASSUME NEW h \in Handlers, NEW m \in Mails, ClaimPasswordReset(h, m)
        PROVE  FailuresInv'
    <2>1. Trying' \subseteq Trying /\ failures' \in Nat /\ failures' <= failures
      BY <1>8 DEF ClaimPasswordReset, Trying, TypeOK, Start, GoTo, Return, account, tables
    <2>2. QED
      BY <2>1, FewerTrying DEF TypeOK
  <1>9. ASSUME NEW h \in Handlers, Register(h) PROVE FailuresInv'
    <2>1. Trying' \subseteq Trying /\ failures' \in Nat /\ failures' <= failures
      BY <1>9 DEF Register, Trying, TypeOK, Start, GoTo, Return, account, tables
    <2>2. QED
      BY <2>1, FewerTrying DEF TypeOK
  <1>10. ASSUME NEW h \in Handlers, ReadUser(h) PROVE FailuresInv'
    <2>1. Trying' \subseteq Trying /\ failures' \in Nat /\ failures' <= failures
      BY <1>10 DEF ReadUser, Trying, TypeOK, Start, GoTo, Return, account, tables
    <2>2. QED
      BY <2>1, FewerTrying DEF TypeOK
  <1>11. ASSUME NEW h \in Handlers, WrongPassword(h) PROVE FailuresInv'
    <2>1. h \in Trying /\ Trying' = Trying \ {h}
      BY <1>11 DEF WrongPassword, Trying, Return, TypeOK
    <2>2. Cardinality(Trying') = Cardinality(Trying) - 1
      BY <2>1, FiniteParts, FS_RemoveElement
    <2>3. failures' = failures + 1 /\ failures \in Nat
      BY <1>11 DEF WrongPassword, TypeOK
    <2>4. QED
      BY <2>2, <2>3, FiniteParts, LimitsAssumption DEF FailuresInv
  <1>12. ASSUME NEW h \in Handlers, RightPassword(h) PROVE FailuresInv'
    <2>1. Trying' \subseteq Trying /\ failures' \in Nat /\ failures' <= failures
      BY <1>12 DEF RightPassword, Trying, TypeOK, Start, GoTo, Return, account, tables
    <2>2. QED
      BY <2>1, FewerTrying DEF TypeOK
  <1>13. ASSUME NEW h \in Handlers, IssueSession(h) PROVE FailuresInv'
    <2>1. Trying' \subseteq Trying /\ failures' \in Nat /\ failures' <= failures
      BY <1>13 DEF IssueSession, Trying, TypeOK, Start, GoTo, Return, account, tables
    <2>2. QED
      BY <2>1, FewerTrying DEF TypeOK
  <1>14. ASSUME NEW h \in Handlers, SendMail(h) PROVE FailuresInv'
    <2>1. Trying' \subseteq Trying /\ failures' \in Nat /\ failures' <= failures
      BY <1>14 DEF SendMail, Trying, TypeOK, Start, GoTo, Return, account, tables
    <2>2. QED
      BY <2>1, FewerTrying DEF TypeOK
  <1>15. ASSUME NEW h \in Handlers, CountTokens(h) PROVE FailuresInv'
    <2>1. Trying' \subseteq Trying /\ failures' \in Nat /\ failures' <= failures
      BY <1>15 DEF CountTokens, Trying, TypeOK, Start, GoTo, Return, account, tables
    <2>2. QED
      BY <2>1, FewerTrying DEF TypeOK
  <1>16. ASSUME NEW h \in Handlers, InsertToken(h) PROVE FailuresInv'
    <2>1. Trying' \subseteq Trying /\ failures' \in Nat /\ failures' <= failures
      BY <1>16 DEF InsertToken, Trying, TypeOK, Start, GoTo, Return, account, tables
    <2>2. QED
      BY <2>1, FewerTrying DEF TypeOK
  <1>17. ASSUME NEW h \in Handlers, RevokeOtherSessions(h) PROVE FailuresInv'
    <2>1. Trying' \subseteq Trying /\ failures' \in Nat /\ failures' <= failures
      BY <1>17 DEF RevokeOtherSessions, Trying, TypeOK, Start, GoTo, Return, account, tables
    <2>2. QED
      BY <2>1, FewerTrying DEF TypeOK
  <1>18. ASSUME NEW h \in Handlers, LockUser(h) PROVE FailuresInv'
    <2>1. Trying' \subseteq Trying /\ failures' \in Nat /\ failures' <= failures
      BY <1>18 DEF LockUser, Trying, TypeOK, Start, GoTo, Return, account, tables
    <2>2. QED
      BY <2>1, FewerTrying DEF TypeOK
  <1>19. ASSUME NEW h \in Handlers, FinishPassword(h) PROVE FailuresInv'
    <2>1. Trying' \subseteq Trying /\ failures' \in Nat /\ failures' <= failures
      BY <1>19 DEF FinishPassword, Trying, TypeOK, Start, GoTo, Return, account, tables
    <2>2. QED
      BY <2>1, FewerTrying DEF TypeOK
  <1>20. ASSUME NEW h \in Handlers, Fails(h) PROVE FailuresInv'
    <2>1. Trying' \subseteq Trying /\ failures' \in Nat /\ failures' <= failures
      BY <1>20 DEF Fails, Trying, TypeOK, Start, GoTo, Return, account, tables
    <2>2. QED
      BY <2>1, FewerTrying DEF TypeOK
  <1>21. CASE FailureAges
    <2>1. Trying' \subseteq Trying /\ failures' \in Nat /\ failures' <= failures
      BY <1>21 DEF FailureAges, Trying, TypeOK, Start, GoTo, Return, account, tables
    <2>2. QED
      BY <2>1, FewerTrying DEF TypeOK
  <1>22. ASSUME NEW m \in Mails, MailAges(m) PROVE FailuresInv'
    <2>1. Trying' \subseteq Trying /\ failures' \in Nat /\ failures' <= failures
      BY <1>22 DEF MailAges, Trying, TypeOK, Start, GoTo, Return, account, tables
    <2>2. QED
      BY <2>1, FewerTrying DEF TypeOK
  <1>23. ASSUME NEW m \in Mails, VerifyEmail(m) PROVE FailuresInv'
    <2>1. Trying' \subseteq Trying /\ failures' \in Nat /\ failures' <= failures
      BY <1>23 DEF VerifyEmail, Trying, TypeOK, Start, GoTo, Return, account, tables
    <2>2. QED
      BY <2>1, FewerTrying DEF TypeOK
  <1>24. ASSUME NEW t \in Tokens, EndToken(t) PROVE FailuresInv'
    <2>1. Trying' \subseteq Trying /\ failures' \in Nat /\ failures' <= failures
      BY <1>24 DEF EndToken, Trying, TypeOK, Start, GoTo, Return, account, tables
    <2>2. QED
      BY <2>1, FewerTrying DEF TypeOK
  <1>25. ASSUME NEW s \in Sessions, EndSession(s) PROVE FailuresInv'
    <2>1. Trying' \subseteq Trying /\ failures' \in Nat /\ failures' <= failures
      BY <1>25 DEF EndSession, Trying, TypeOK, Start, GoTo, Return, account, tables
    <2>2. QED
      BY <2>1, FewerTrying DEF TypeOK
  <1>26. CASE UNCHANGED vars
    <2>1. Trying' \subseteq Trying /\ failures' \in Nat /\ failures' <= failures
      BY <1>26 DEF vars, Trying, TypeOK, Start, GoTo, Return, account, tables
    <2>2. QED
      BY <2>1, FewerTrying DEF TypeOK
  <1>27. QED
    BY <1>1, <1>2, <1>3, <1>4, <1>5, <1>6, <1>7, <1>8, <1>9, <1>10, <1>11, <1>12, <1>13,
       <1>14, <1>15, <1>16, <1>17, <1>18, <1>19, <1>20, <1>21, <1>22, <1>23, <1>24, <1>25,
       <1>26
       DEF Next, Enter, Proceed, Elapse

LEMMA TokensStep ==
    ASSUME TypeOK, TokensInv, [Next]_vars
    PROVE  TokensInv'
  <1>1. ASSUME NEW h \in Handlers, BeginRegister(h) PROVE TokensInv'
    <2>1. /\ Inserting' \subseteq Inserting
          /\ LiveIn(tokens', Tokens) \subseteq LiveIn(tokens, Tokens)
      BY <1>1 DEF BeginRegister, Inserting, LiveIn, TypeOK, Start, GoTo, Return, account, tables
    <2>2. QED
      BY <2>1, FewerTokens
  <1>2. ASSUME NEW h \in Handlers, BeginLogin(h) PROVE TokensInv'
    <2>1. /\ Inserting' \subseteq Inserting
          /\ LiveIn(tokens', Tokens) \subseteq LiveIn(tokens, Tokens)
      BY <1>2 DEF BeginLogin, Inserting, LiveIn, TypeOK, Start, GoTo, Return, account, tables
    <2>2. QED
      BY <2>1, FewerTokens
  <1>3. ASSUME NEW h \in Handlers, BeginForgot(h) PROVE TokensInv'
    <2>1. /\ Inserting' \subseteq Inserting
          /\ LiveIn(tokens', Tokens) \subseteq LiveIn(tokens, Tokens)
      BY <1>3 DEF BeginForgot, Inserting, LiveIn, TypeOK, Start, GoTo, Return, account, tables
    <2>2. QED
      BY <2>1, FewerTokens
  <1>4. ASSUME NEW h \in Handlers, NEW s \in Sessions, BeginChange(h, s) PROVE TokensInv'
    <2>1. /\ Inserting' \subseteq Inserting
          /\ LiveIn(tokens', Tokens) \subseteq LiveIn(tokens, Tokens)
      BY <1>4 DEF BeginChange, Inserting, LiveIn, TypeOK, Start, GoTo, Return, account, tables
    <2>2. QED
      BY <2>1, FewerTokens
  <1>5. ASSUME NEW h \in Handlers, NEW s \in Sessions, BeginResend(h, s) PROVE TokensInv'
    <2>1. /\ Inserting' \subseteq Inserting
          /\ LiveIn(tokens', Tokens) \subseteq LiveIn(tokens, Tokens)
      BY <1>5 DEF BeginResend, Inserting, LiveIn, TypeOK, Start, GoTo, Return, account, tables
    <2>2. QED
      BY <2>1, FewerTokens
  <1>6. ASSUME NEW h \in Handlers, NEW s \in Sessions, BeginToken(h, s) PROVE TokensInv'
    <2>1. /\ Inserting' \subseteq Inserting
          /\ LiveIn(tokens', Tokens) \subseteq LiveIn(tokens, Tokens)
      BY <1>6 DEF BeginToken, Inserting, LiveIn, TypeOK, Start, GoTo, Return, account, tables
    <2>2. QED
      BY <2>1, FewerTokens
  <1>7. ASSUME NEW h \in Handlers, NEW s \in Sessions, BeginRevokeOthers(h, s) PROVE TokensInv'
    <2>1. /\ Inserting' \subseteq Inserting
          /\ LiveIn(tokens', Tokens) \subseteq LiveIn(tokens, Tokens)
      BY <1>7 DEF BeginRevokeOthers, Inserting, LiveIn, TypeOK, Start, GoTo, Return, account, tables
    <2>2. QED
      BY <2>1, FewerTokens
  <1>8. ASSUME NEW h \in Handlers, NEW m \in Mails, ClaimPasswordReset(h, m)
        PROVE  TokensInv'
    <2>1. /\ Inserting' \subseteq Inserting
          /\ LiveIn(tokens', Tokens) \subseteq LiveIn(tokens, Tokens)
      BY <1>8 DEF ClaimPasswordReset, Inserting, LiveIn, TypeOK, Start, GoTo, Return, account, tables
    <2>2. QED
      BY <2>1, FewerTokens
  <1>9. ASSUME NEW h \in Handlers, Register(h) PROVE TokensInv'
    <2>1. /\ Inserting' \subseteq Inserting
          /\ LiveIn(tokens', Tokens) \subseteq LiveIn(tokens, Tokens)
      BY <1>9 DEF Register, Inserting, LiveIn, TypeOK, Start, GoTo, Return, account, tables
    <2>2. QED
      BY <2>1, FewerTokens
  <1>10. ASSUME NEW h \in Handlers, ReadUser(h) PROVE TokensInv'
    <2>1. /\ Inserting' \subseteq Inserting
          /\ LiveIn(tokens', Tokens) \subseteq LiveIn(tokens, Tokens)
      BY <1>10 DEF ReadUser, Inserting, LiveIn, TypeOK, Start, GoTo, Return, account, tables
    <2>2. QED
      BY <2>1, FewerTokens
  <1>11. ASSUME NEW h \in Handlers, WrongPassword(h) PROVE TokensInv'
    <2>1. /\ Inserting' \subseteq Inserting
          /\ LiveIn(tokens', Tokens) \subseteq LiveIn(tokens, Tokens)
      BY <1>11 DEF WrongPassword, Inserting, LiveIn, TypeOK, Start, GoTo, Return, account, tables
    <2>2. QED
      BY <2>1, FewerTokens
  <1>12. ASSUME NEW h \in Handlers, RightPassword(h) PROVE TokensInv'
    <2>1. /\ Inserting' \subseteq Inserting
          /\ LiveIn(tokens', Tokens) \subseteq LiveIn(tokens, Tokens)
      BY <1>12 DEF RightPassword, Inserting, LiveIn, TypeOK, Start, GoTo, Return, account, tables
    <2>2. QED
      BY <2>1, FewerTokens
  <1>13. ASSUME NEW h \in Handlers, IssueSession(h) PROVE TokensInv'
    <2>1. /\ Inserting' \subseteq Inserting
          /\ LiveIn(tokens', Tokens) \subseteq LiveIn(tokens, Tokens)
      BY <1>13 DEF IssueSession, Inserting, LiveIn, TypeOK, Start, GoTo, Return, account, tables
    <2>2. QED
      BY <2>1, FewerTokens
  <1>14. ASSUME NEW h \in Handlers, SendMail(h) PROVE TokensInv'
    <2>1. /\ Inserting' \subseteq Inserting
          /\ LiveIn(tokens', Tokens) \subseteq LiveIn(tokens, Tokens)
      BY <1>14 DEF SendMail, Inserting, LiveIn, TypeOK, Start, GoTo, Return, account, tables
    <2>2. QED
      BY <2>1, FewerTokens
  <1>15. ASSUME NEW h \in Handlers, CountTokens(h) PROVE TokensInv'
    <2>1. CASE RoomForToken
      <3>1. Cardinality(LiveIn(tokens', Tokens)) < MaxTokens
        BY <1>15, <2>1 DEF CountTokens, RoomForToken, tables
      <3>2. QED
        BY <3>1, FinitePartsNext, FiniteParts, LimitsAssumption DEF TokensInv
    <2>2. CASE ~ RoomForToken
      <3>1. /\ Inserting' \subseteq Inserting
            /\ LiveIn(tokens', Tokens) \subseteq LiveIn(tokens, Tokens)
        BY <1>15, <2>2 DEF CountTokens, Inserting, Return, TypeOK, tables
      <3>2. QED
        BY <3>1, FewerTokens
    <2>3. QED
      BY <2>1, <2>2
  <1>16. ASSUME NEW h \in Handlers, InsertToken(h) PROVE TokensInv'
    <2>1. PICK t \in Tokens \ LiveIn(tokens, Tokens) :
              tokens' = [tokens EXCEPT ![t] = Row(request[h].saw)]
      BY <1>16 DEF InsertToken
    <2>2. LiveIn(tokens', Tokens) = LiveIn(tokens, Tokens) \cup {t}
      BY <2>1 DEF LiveIn, Row, TypeOK
    <2>3. Cardinality(LiveIn(tokens', Tokens)) = Cardinality(LiveIn(tokens, Tokens)) + 1
      BY <2>1, <2>2, FiniteParts, FS_AddElement
    <2>4. h \in Inserting /\ Inserting' = Inserting \ {h}
      BY <1>16 DEF InsertToken, Inserting, Return, TypeOK
    <2>5. Cardinality(Inserting') = Cardinality(Inserting) - 1
      BY <2>4, FiniteParts, FS_RemoveElement
    <2>6. QED
      BY <2>3, <2>5, FiniteParts, LimitsAssumption DEF TokensInv
  <1>17. ASSUME NEW h \in Handlers, RevokeOtherSessions(h) PROVE TokensInv'
    <2>1. /\ Inserting' \subseteq Inserting
          /\ LiveIn(tokens', Tokens) \subseteq LiveIn(tokens, Tokens)
      BY <1>17 DEF RevokeOtherSessions, Inserting, LiveIn, TypeOK, Start, GoTo, Return, account, tables
    <2>2. QED
      BY <2>1, FewerTokens
  <1>18. ASSUME NEW h \in Handlers, LockUser(h) PROVE TokensInv'
    <2>1. /\ Inserting' \subseteq Inserting
          /\ LiveIn(tokens', Tokens) \subseteq LiveIn(tokens, Tokens)
      BY <1>18 DEF LockUser, Inserting, LiveIn, TypeOK, Start, GoTo, Return, account, tables
    <2>2. QED
      BY <2>1, FewerTokens
  <1>19. ASSUME NEW h \in Handlers, FinishPassword(h) PROVE TokensInv'
    <2>1. /\ Inserting' \subseteq Inserting
          /\ LiveIn(tokens', Tokens) \subseteq LiveIn(tokens, Tokens)
      BY <1>19 DEF FinishPassword, Inserting, LiveIn, EndAll, NoRow, TypeOK, Start, GoTo, Return, account, tables
    <2>2. QED
      BY <2>1, FewerTokens
  <1>20. ASSUME NEW h \in Handlers, Fails(h) PROVE TokensInv'
    <2>1. /\ Inserting' \subseteq Inserting
          /\ LiveIn(tokens', Tokens) \subseteq LiveIn(tokens, Tokens)
      BY <1>20 DEF Fails, Inserting, LiveIn, TypeOK, Start, GoTo, Return, account, tables
    <2>2. QED
      BY <2>1, FewerTokens
  <1>21. CASE FailureAges
    <2>1. /\ Inserting' \subseteq Inserting
          /\ LiveIn(tokens', Tokens) \subseteq LiveIn(tokens, Tokens)
      BY <1>21 DEF FailureAges, Inserting, LiveIn, TypeOK, Start, GoTo, Return, account, tables
    <2>2. QED
      BY <2>1, FewerTokens
  <1>22. ASSUME NEW m \in Mails, MailAges(m) PROVE TokensInv'
    <2>1. /\ Inserting' \subseteq Inserting
          /\ LiveIn(tokens', Tokens) \subseteq LiveIn(tokens, Tokens)
      BY <1>22 DEF MailAges, Inserting, LiveIn, TypeOK, Start, GoTo, Return, account, tables
    <2>2. QED
      BY <2>1, FewerTokens
  <1>23. ASSUME NEW m \in Mails, VerifyEmail(m) PROVE TokensInv'
    <2>1. /\ Inserting' \subseteq Inserting
          /\ LiveIn(tokens', Tokens) \subseteq LiveIn(tokens, Tokens)
      BY <1>23 DEF VerifyEmail, Inserting, LiveIn, TypeOK, Start, GoTo, Return, account, tables
    <2>2. QED
      BY <2>1, FewerTokens
  <1>24. ASSUME NEW t \in Tokens, EndToken(t) PROVE TokensInv'
    <2>1. /\ Inserting' \subseteq Inserting
          /\ LiveIn(tokens', Tokens) \subseteq LiveIn(tokens, Tokens)
      BY <1>24 DEF EndToken, Inserting, LiveIn, EndAll, NoRow, TypeOK, Start, GoTo, Return, account, tables
    <2>2. QED
      BY <2>1, FewerTokens
  <1>25. ASSUME NEW s \in Sessions, EndSession(s) PROVE TokensInv'
    <2>1. /\ Inserting' \subseteq Inserting
          /\ LiveIn(tokens', Tokens) \subseteq LiveIn(tokens, Tokens)
      BY <1>25 DEF EndSession, Inserting, LiveIn, TypeOK, Start, GoTo, Return, account, tables
    <2>2. QED
      BY <2>1, FewerTokens
  <1>26. CASE UNCHANGED vars
    <2>1. /\ Inserting' \subseteq Inserting
          /\ LiveIn(tokens', Tokens) \subseteq LiveIn(tokens, Tokens)
      BY <1>26 DEF vars, Inserting, LiveIn, TypeOK, Start, GoTo, Return, account, tables
    <2>2. QED
      BY <2>1, FewerTokens
  <1>27. QED
    BY <1>1, <1>2, <1>3, <1>4, <1>5, <1>6, <1>7, <1>8, <1>9, <1>10, <1>11, <1>12, <1>13,
       <1>14, <1>15, <1>16, <1>17, <1>18, <1>19, <1>20, <1>21, <1>22, <1>23, <1>24, <1>25,
       <1>26
       DEF Next, Enter, Proceed, Elapse

-----------------------------------------------------------------------------
(***************************************************************************)
(* Theorems                                                                *)
(***************************************************************************)

LEMMA InitCounts == Init => FailuresInv /\ TokensInv
  <1> SUFFICES ASSUME Init PROVE FailuresInv /\ TokensInv
    OBVIOUS
  <1>1. Trying = {} /\ Inserting = {} /\ LiveIn(tokens, Tokens) = {}
    BY DEF Init, Trying, Inserting, LiveIn, NoRow
  <1>2. /\ Cardinality(Trying) = 0 /\ Cardinality(Inserting) = 0
        /\ Cardinality(LiveIn(tokens, Tokens)) = 0
    BY <1>1, FS_EmptySet
  <1>3. failures = 0
    BY DEF Init
  <1>4. QED
    BY <1>2, <1>3, FiniteParts, LimitsAssumption DEF FailuresInv, TokensInv

LEMMA Step ==
    ASSUME IInv, FailuresInv, TokensInv, [Next]_vars
    PROVE  IInv' /\ FailuresInv' /\ TokensInv'
  <1>1. TypeOK' /\ OpsInv' /\ ClaimsInv'
    BY TypeStep, OpsStep, ClaimsStep DEF IInv
  <1>2. NoAccountInv' /\ CredentialsFollowPassword'
    BY NoAccountStep, CredentialsStep DEF IInv
  <1>3. FailuresInv' /\ TokensInv'
    BY FailuresStep, TokensStep DEF IInv
  <1>4. QED
    BY <1>1, <1>2, <1>3 DEF IInv

LEMMA CountsFollow ==
    ASSUME IInv, FailuresInv, TokensInv
    PROVE  CountsBounded
  <1>1. failures \in Nat /\ TypeOK
    BY DEF IInv, TypeOK
  <1>2. failures < LockoutAttempts + Cardinality(Handlers)
    BY <1>1, FiniteParts, LimitsAssumption DEF FailuresInv
  <1>3. Cardinality(LiveIn(tokens, Tokens)) < MaxTokens + Cardinality(Handlers)
    BY FiniteParts, LimitsAssumption DEF TokensInv
  <1>4. QED
    BY <1>1, <1>2, <1>3 DEF CountsBounded

\* The account's row is locked exactly by the password change that has begun
\* to write and not committed (authRepo.updatePassword), and every row has its
\* type.
THEOREM TypeCorrect == Spec => []TypeOK
  <1>1. IInv /\ FailuresInv /\ TokensInv /\ [Next]_vars
            => IInv' /\ FailuresInv' /\ TokensInv'
    BY Step
  <1>2. IInv => TypeOK
    BY DEF IInv
  <1>3. QED
    BY InitHolds, InitCounts, <1>1, <1>2, PTL DEF Spec

\* Nothing issued under an earlier password outlives resetPassword or
\* changePassword, except to requests that were let in before it; and of the
\* reset links that were sent, the first to be used is the last to work.
THEOREM PasswordEndsTheRest == Spec => []CredentialsFollowPassword
  <1>1. IInv /\ FailuresInv /\ TokensInv /\ [Next]_vars
            => IInv' /\ FailuresInv' /\ TokensInv'
    BY Step
  <1>2. IInv => CredentialsFollowPassword
    BY DEF IInv
  <1>3. QED
    BY InitHolds, InitCounts, <1>1, <1>2, PTL DEF Spec

\* Requests at the same time pass assertNotLocked and countLive together, yet
\* exceed the limits by less than their number.
THEOREM CountsStayBounded == Spec => []CountsBounded
  <1>1. IInv /\ FailuresInv /\ TokensInv /\ [Next]_vars
            => IInv' /\ FailuresInv' /\ TokensInv'
    BY Step
  <1>2. IInv /\ FailuresInv /\ TokensInv => CountsBounded
    BY CountsFollow
  <1>3. QED
    BY InitHolds, InitCounts, <1>1, <1>2, PTL DEF Spec

=============================================================================
