-------------------------- MODULE AccountSessions --------------------------
(***************************************************************************)
(* One account: its password, its sessions and API tokens, the links sent  *)
(* to its address, and the count of failed sign-ins.  A request reads the  *)
(* password hash in one statement, spends its time on argon2 and writes in *)
(* another; only password changes run in transactions that lock rows.     *)
(***************************************************************************)
EXTENDS Naturals, FiniteSets

CONSTANTS
    Handlers,           \* requests served at the same time
    Sessions, Tokens,   \* identities of rows of sessions and api_tokens
    Mails,              \* of rows of password_resets and email_verifications
    LockoutAttempts,    \* LOGIN_LOCKOUT_ATTEMPTS
    MaxTokens,          \* MAX_TOKENS_PER_USER
    MailsPerHour,       \* PASSWORD_RESETS_PER_HOUR, VERIFICATION_EMAILS_PER_HOUR
    MaxPasswords,       \* bound: passwords the account ever has
    Nobody

\* The configuration asks for three attempts or more, MAX_TOKENS_PER_USER is 25,
\* and a process serves finitely many requests at a time.
ASSUME LimitsAssumption ==
    /\ LockoutAttempts \in Nat \ {0} /\ MaxTokens \in Nat \ {0} /\ MailsPerHour \in Nat
    /\ MaxPasswords \in Nat
ASSUME HandlersAssumption == IsFiniteSet(Handlers) /\ IsFiniteSet(Tokens)
ASSUME NobodyAssumption == Nobody \notin Handlers \cup Sessions \cup Mails

VARIABLES
    password,   \* number of the present one, 0 before the account exists
    verified,   \* email_verified_at is set
    rowLock,    \* the transaction that has updated the account's row
    sessions,   \* rows of sessions: the password each was issued for
    tokens,     \* rows of api_tokens: the password when it was asked for
    mails,      \* rows of the two tables of links
    failures,   \* rows of login_failures inside the window
    request,    \* what each handler has read
    pc          \* the step it has come to

vars == <<password, verified, rowLock, sessions, tokens, mails, failures, request, pc>>
account == <<password, verified, rowLock>>
tables  == <<sessions, tokens, mails, failures>>

NoRow     == [live |-> FALSE, pw |-> 0, late |-> FALSE]
NoRequest == [op |-> "none", session |-> Nobody, mail |-> Nobody, saw |-> 0]
NoMail    == [kind |-> "reset", state |-> "used", by |-> Nobody, pw |-> 0, recent |-> FALSE]

LiveIn(table, rows)  == {r \in rows : table[r].live}
Spare(table, rows)   == {r \in rows : ~ table[r].live /\ \A h \in Handlers : request[h].session # r}
SpareMails           == {m \in Mails : mails[m].state = "used" /\ ~ mails[m].recent}
Recent(kind)         == {m \in Mails : mails[m].kind = kind /\ mails[m].recent}
Unused(m)            == mails[m].state = "unused"

Locked == failures >= LockoutAttempts       \* assertNotLocked

-----------------------------------------------------------------------------

Start(h, op, s, at) ==
    /\ pc[h] = "idle"
    /\ request' = [request EXCEPT ![h] = [NoRequest EXCEPT !.op = op, !.session = s,
                                   !.saw = IF op = "token" THEN password ELSE 0]]
    /\ pc' = [pc EXCEPT ![h] = at]

GoTo(h, at) ==
    /\ pc' = [pc EXCEPT ![h] = at]
    /\ UNCHANGED request

Return(h) ==
    /\ pc' = [pc EXCEPT ![h] = "idle"]
    /\ request' = [request EXCEPT ![h] = NoRequest]

(***************************************************************************)
(* The statements of authRepo and tokensRepo                               *)
(***************************************************************************)

\* A row is late when what let its request in is no longer the password.
Row(pw) == [live |-> TRUE, pw |-> pw, late |-> pw # password]

InsertSession(pw) ==
    \E s \in Spare(sessions, Sessions) : sessions' = [sessions EXCEPT ![s] = Row(pw)]

InsertMail(kind) ==
    \E m \in SpareMails :
        mails' = [mails EXCEPT ![m] = [kind |-> kind, state |-> "unused", by |-> Nobody,
                                       pw |-> password, recent |-> TRUE]]

\* resolveSession, for the routes that need a browser's session
Authenticated(s) == sessions[s].live

(***************************************************************************)
(* register and sign in                                                    *)
(***************************************************************************)

BeginRegister(h) ==
    /\ password = 0
    /\ Start(h, "register", Nobody, "register")
    /\ UNCHANGED <<account, tables>>

\* The unique index refuses the second of two.  An invitation to the address,
\* or EMAIL_VERIFICATION = off, makes it verified.
Register(h) ==
    /\ pc[h] = "register"
    /\ Return(h)
    /\ \/ password # 0 /\ UNCHANGED <<account, sessions, mails>>
       \/ /\ password = 0
          /\ password' = 1
          /\ verified' \in BOOLEAN
          /\ IF verified' THEN UNCHANGED mails ELSE InsertMail("verify")
          /\ \E s \in Spare(sessions, Sessions) :
                 sessions' = [sessions EXCEPT ![s] = [live |-> TRUE, pw |-> 1, late |-> FALSE]]
          /\ UNCHANGED rowLock
    /\ UNCHANGED <<tokens, failures>>

BeginLogin(h) ==
    /\ ~ Locked
    /\ Start(h, "login", Nobody, "find")
    /\ UNCHANGED <<account, tables>>

\* changePassword: the same lockout, for the browser of session s.
BeginChange(h, s) ==
    /\ Authenticated(s) /\ ~ Locked
    /\ Start(h, "change", s, "find")
    /\ UNCHANGED <<account, tables>>

\* findUserByEmail and findUserById
ReadUser(h) ==
    /\ pc[h] = "find"
    /\ request' = [request EXCEPT ![h].saw = password]
    /\ pc' = [pc EXCEPT ![h] = "verify"]
    /\ UNCHANGED <<account, tables>>

WrongPassword(h) ==
    /\ pc[h] = "verify"
    /\ failures' = failures + 1
    /\ Return(h)
    /\ UNCHANGED <<account, sessions, tokens, mails>>

\* clearLoginFailures commits before the session is written.
RightPassword(h) ==
    /\ pc[h] = "verify" /\ request[h].saw # 0
    /\ \/ request[h].op = "login"  /\ GoTo(h, "issue") /\ failures' = 0
       \/ request[h].op = "change" /\ GoTo(h, "begin") /\ UNCHANGED failures
    /\ UNCHANGED <<account, sessions, tokens, mails>>

IssueSession(h) ==
    /\ pc[h] = "issue"
    /\ InsertSession(request[h].saw)
    /\ Return(h)
    /\ UNCHANGED <<account, tokens, mails, failures>>

(***************************************************************************)
(* New passwords.  A reset locks the row of its link, then the account's,  *)
(* then every other unused link; a change starts at the account's.         *)
(***************************************************************************)

\* Mutation: the link is looked up, and marked used with the others.
ClaimPasswordReset_Unclaimed(h, m) ==
    /\ pc[h] = "idle" /\ mails[m].kind = "reset" /\ Unused(m)
    /\ request' = [request EXCEPT ![h] = [NoRequest EXCEPT !.op = "reset", !.mail = m,
                                                           !.saw = password]]
    /\ pc' = [pc EXCEPT ![h] = "begin"]
    /\ UNCHANGED <<account, tables>>

ClaimPasswordReset(h, m) ==
    /\ pc[h] = "idle"
    /\ mails[m].kind = "reset" /\ Unused(m) /\ mails[m].by = Nobody
    /\ mails' = [mails EXCEPT ![m].by = h]
    /\ request' = [request EXCEPT ![h] = [NoRequest EXCEPT !.op = "reset", !.mail = m,
                                                           !.saw = password]]
    /\ pc' = [pc EXCEPT ![h] = "begin"]
    /\ UNCHANGED <<account, sessions, tokens, failures>>

\* updatePassword
LockUser(h) ==
    /\ pc[h] = "begin" /\ password < MaxPasswords
    /\ rowLock = Nobody
    /\ rowLock' = h
    /\ GoTo(h, "finish")
    /\ UNCHANGED <<password, verified, tables>>

\* invalidatePasswordResets waits for the links other transactions hold.
LinksFree(h) == \A m \in Mails : mails[m].kind = "reset" => mails[m].by \in {Nobody, h}

\* What is left of a link is that it was sent.
UsedUp(m) == [mails[m] EXCEPT !.state = "used", !.by = Nobody, !.pw = 0]

InvalidateResets(h) ==
    [m \in Mails |-> IF mails[m].kind = "reset" THEN UsedUp(m) ELSE mails[m]]

\* Mutation: a new password leaves what was issued before alone.
EndAll_None(table) == table

EndAll(table) == [r \in DOMAIN table |-> NoRow]

\* deleteOtherSessions: the browser that changed the password keeps its
\* session, if that is still there; a reset gets the only one.
KeepOwn(h) ==
    LET own == request[h].session
        pw  == password + 1
    IN  IF request[h].op = "change"
          THEN sessions' = [s \in Sessions |->
                   IF s = own /\ sessions[s].live
                     THEN [live |-> TRUE, pw |-> pw, late |-> request[h].saw # password]
                     ELSE NoRow]
          ELSE \E new \in Sessions :
                   sessions' = [EndAll(sessions) EXCEPT
                                   ![new] = [live |-> TRUE, pw |-> pw, late |-> FALSE]]

\* The rest of the transaction, up to its commit.
FinishPassword(h) ==
    /\ pc[h] = "finish" /\ LinksFree(h)
    /\ password' = password + 1
    /\ verified' = (verified \/ request[h].op = "reset")
    /\ rowLock' = Nobody
    /\ mails' = InvalidateResets(h)
    /\ tokens' = EndAll(tokens)
    /\ KeepOwn(h)
    /\ failures' = 0
    /\ Return(h)

\* A statement fails, the process dies or the database ends the transaction
\* to break a deadlock: withTransaction rolls back.
Fails(h) ==
    /\ pc[h] # "idle"
    /\ rowLock' = IF rowLock = h THEN Nobody ELSE rowLock
    /\ mails' = [m \in Mails |-> IF mails[m].by = h THEN [mails[m] EXCEPT !.by = Nobody]
                                                    ELSE mails[m]]
    /\ Return(h)
    /\ UNCHANGED <<password, verified, sessions, tokens, failures>>

(***************************************************************************)
(* Links sent by e-mail                                                    *)
(***************************************************************************)

BeginForgot(h) ==
    /\ password # 0
    /\ Cardinality(Recent("reset")) < MailsPerHour
    /\ Start(h, "reset", Nobody, "mail")
    /\ UNCHANGED <<account, tables>>

BeginResend(h, s) ==
    /\ Authenticated(s) /\ ~ verified
    /\ Cardinality(Recent("verify")) < MailsPerHour
    /\ Start(h, "verify", Nobody, "mail")
    /\ UNCHANGED <<account, tables>>

SendMail(h) ==
    /\ pc[h] = "mail"
    /\ InsertMail(request[h].op)
    /\ Return(h)
    /\ UNCHANGED <<account, sessions, tokens, failures>>

\* claimEmailVerification, then markEmailVerified waits for the account's row.
VerifyEmail(m) ==
    /\ mails[m].kind = "verify" /\ Unused(m)
    /\ rowLock = Nobody
    /\ mails' = [mails EXCEPT ![m] = UsedUp(m)]
    /\ verified' = TRUE
    /\ UNCHANGED <<password, rowLock, sessions, tokens, failures, request, pc>>

(***************************************************************************)
(* Tokens and the list of sessions                                         *)
(***************************************************************************)

BeginToken(h, s) ==
    /\ Authenticated(s)
    /\ Start(h, "token", Nobody, "count")
    /\ UNCHANGED <<account, tables>>

\* Mutation: off by one.
RoomForToken_OneMore == Cardinality(LiveIn(tokens, Tokens)) <= MaxTokens

RoomForToken == Cardinality(LiveIn(tokens, Tokens)) < MaxTokens

CountTokens(h) ==
    /\ pc[h] = "count"
    /\ IF RoomForToken THEN GoTo(h, "insert") ELSE Return(h)
    /\ UNCHANGED <<account, tables>>

InsertToken(h) ==
    /\ pc[h] = "insert"
    /\ \E t \in Tokens \ LiveIn(tokens, Tokens) :
           tokens' = [tokens EXCEPT ![t] = Row(request[h].saw)]
    /\ Return(h)
    /\ UNCHANGED <<account, sessions, mails, failures>>

\* revoke, or the expiry the person chose
EndToken(t) ==
    /\ tokens[t].live
    /\ tokens' = [tokens EXCEPT ![t] = NoRow]
    /\ UNCHANGED <<account, sessions, mails, failures, request, pc>>

\* logout, revokeSession, or SESSION_TTL_DAYS are over
EndSession(s) ==
    /\ sessions[s].live
    /\ sessions' = [sessions EXCEPT ![s] = NoRow]
    /\ UNCHANGED <<account, tokens, mails, failures, request, pc>>

BeginRevokeOthers(h, s) ==
    /\ Authenticated(s)
    /\ Start(h, "others", s, "delete")
    /\ UNCHANGED <<account, tables>>

RevokeOtherSessions(h) ==
    /\ pc[h] = "delete"
    /\ sessions' = [EndAll(sessions) EXCEPT ![request[h].session] = sessions[request[h].session]]
    /\ Return(h)
    /\ UNCHANGED <<account, tokens, mails, failures>>

(***************************************************************************)
(* Time                                                                    *)
(***************************************************************************)

FailureAges ==
    /\ failures > 0
    /\ failures' = failures - 1
    /\ UNCHANGED <<account, sessions, tokens, mails, request, pc>>

\* The hour of the limit passes before or after the link expires.
MailAges(m) ==
    /\ mails[m].by = Nobody
    /\ \/ Unused(m) /\ mails' = [mails EXCEPT ![m] = UsedUp(m)]
       \/ mails[m].recent /\ mails' = [mails EXCEPT ![m].recent = FALSE]
    /\ UNCHANGED <<account, sessions, tokens, failures, request, pc>>

-----------------------------------------------------------------------------

Init ==
    /\ password = 0 /\ verified = FALSE /\ rowLock = Nobody /\ failures = 0
    /\ sessions = [s \in Sessions |-> NoRow]
    /\ tokens = [t \in Tokens |-> NoRow]
    /\ mails = [m \in Mails |-> NoMail]
    /\ request = [h \in Handlers |-> NoRequest]
    /\ pc = [h \in Handlers |-> "idle"]

Enter(h) ==
    \/ BeginRegister(h) \/ BeginLogin(h) \/ BeginForgot(h)
    \/ \E m \in Mails : ClaimPasswordReset(h, m)
    \/ \E s \in Sessions :
           BeginChange(h, s) \/ BeginResend(h, s) \/ BeginToken(h, s) \/ BeginRevokeOthers(h, s)

Proceed(h) ==
    \/ Register(h) \/ ReadUser(h) \/ WrongPassword(h) \/ RightPassword(h) \/ IssueSession(h)
    \/ SendMail(h) \/ CountTokens(h) \/ InsertToken(h) \/ RevokeOtherSessions(h)
    \/ LockUser(h) \/ FinishPassword(h)

Elapse ==
    \/ FailureAges
    \/ \E m \in Mails : MailAges(m) \/ VerifyEmail(m)
    \/ \E t \in Tokens : EndToken(t)
    \/ \E s \in Sessions : EndSession(s)

Next ==
    \/ \E h \in Handlers : Enter(h) \/ Proceed(h) \/ Fails(h)
    \/ Elapse

Spec == Init /\ [][Next]_vars

-----------------------------------------------------------------------------
(***************************************************************************)
(* Properties                                                              *)
(***************************************************************************)

Row_ == [live : BOOLEAN, pw : Nat, late : BOOLEAN]

MailRow == [kind : {"reset", "verify"}, state : {"unused", "used"},
            by : Handlers \cup {Nobody}, pw : Nat, recent : BOOLEAN]

RequestRow == [op : {"none", "register", "login", "change", "reset", "verify", "token", "others"},
               session : Sessions \cup {Nobody}, mail : Mails \cup {Nobody}, saw : Nat]

Steps == {"idle", "register", "find", "verify", "issue", "begin", "finish", "mail", "count",
          "insert", "delete"}

\* Every variable has its type, and the account's row is locked exactly by
\* the transaction that has updated it and not ended.
TypeOK ==
    /\ password \in Nat /\ failures \in Nat /\ verified \in BOOLEAN
    /\ sessions \in [Sessions -> Row_]
    /\ tokens \in [Tokens -> Row_]
    /\ mails \in [Mails -> MailRow]
    /\ request \in [Handlers -> RequestRow]
    /\ pc \in [Handlers -> Steps]
    /\ rowLock \in Handlers \cup {Nobody}
    /\ \A h \in Handlers : rowLock = h <=> pc[h] = "finish"

\* A session or token is there for the present password, or its request was
\* let in before the password changed and wrote after it: nothing older
\* outlives a change (resetPassword and changePassword).  A reset link that
\* still opens, or is being used, was sent under the present password: of
\* several links, used at once or one after the other, one sets a password and
\* the others die with it.
CredentialsFollowPassword ==
    /\ \A s \in LiveIn(sessions, Sessions) : sessions[s].pw = password \/ sessions[s].late
    /\ \A t \in LiveIn(tokens, Tokens) : tokens[t].pw = password \/ tokens[t].late
    /\ \A m \in Mails : mails[m].kind = "reset" /\ Unused(m) => mails[m].pw = password
    /\ \A h \in Handlers : request[h].op = "reset" /\ pc[h] \in {"begin", "finish"} =>
           request[h].saw = password

\* Failed sign-ins, like tokens, are counted in one statement and added to in a
\* later one: every request under way may add one to the limit, and no more.
CountsBounded ==
    /\ TypeOK
    /\ failures < LockoutAttempts + Cardinality(Handlers)
    /\ Cardinality(LiveIn(tokens, Tokens)) < MaxTokens + Cardinality(Handlers)

=============================================================================
