----------------------------- MODULE LinkGrants -----------------------------
(***************************************************************************)
(* The locks of a share link: the addresses it is restricted to, with the  *)
(* one-time codes that prove them, its password, with the lockout after    *)
(* wrong ones, and the cookies in which browsers keep what they have       *)
(* proved.  Nothing of a cookie is stored by the server, so everything it  *)
(* says is checked against the link as it is now.                          *)
(*                                                                         *)
(* A visitor is a browser with one request at a time; every query of a     *)
(* request is a step.  What makes a link usable at all is in ShareLinks: a *)
(* request for a link that is not ends at once, and changes nothing here.  *)
(***************************************************************************)
EXTENDS Naturals, FiniteSets

CONSTANTS
    Visitors,       \* browsers
    Emails,         \* addresses
    MailboxOf,      \* the address whose mail the person at a browser can read
    Passwords,      \* hashes of link passwords
    KnownTo,        \* the passwords that the person at a browser knows
    None,           \* no password, no address, no code
    Settings,       \* the locks a link may be given
    CodeIds,        \* bound: rows of share_email_codes
    CodeTries,      \* EMAIL_CODE_ATTEMPTS
    CodesPerWindow, \* EMAIL_CODES_PER_WINDOW
    PasswordTries   \* LINK_PASSWORD_ATTEMPTS

ASSUME SettingsAssumption ==
    Settings \subseteq [password : Passwords \cup {None}, emails : SUBSET Emails]
ASSUME NoneAssumption ==
    None \notin Passwords /\ None \notin Emails /\ None \notin CodeIds
ASSUME MailboxAssumption == MailboxOf \in [Visitors -> Emails]
ASSUME KnownAssumption == KnownTo \in [Visitors -> SUBSET Passwords]
ASSUME VisitorsAssumption == IsFiniteSet(Visitors)
ASSUME LimitsAssumption ==
    CodeTries \in Nat \ {0} /\ CodesPerWindow \in Nat \ {0} /\ PasswordTries \in Nat \ {0}

VARIABLES
    set,        \* password_hash and allowed_emails of its row
    codes,      \* rows of share_email_codes
    wrong,      \* bad_password events of the last 15 minutes
    cookie,     \* the grant in each browser
    at,         \* the next step of each request
    row,        \* the locks it read
    asked,      \* the address it wants a code for
    code,       \* the code it checks
    opened      \* history: how many browsers each code let in

local == <<at, row, asked, code>>
vars  == <<set, codes, wrong, cookie, local, opened>>

-----------------------------------------------------------------------------
(***************************************************************************)
(* Grants                                                                  *)
(***************************************************************************)

NoGrant == [email |-> None, password |-> None]

\* Mutation: the password hash is not part of the signature.
ReadGrant_Unsigned(s, g) == g

\* A password grant is signed with the hash of the password; after that has
\* changed, nothing in the cookie is valid.
ReadGrant(s, g) == IF g.password \in {None, s.password} THEN g ELSE NoGrant

EmailOk(s, g) == s.emails = {} \/ g.email \in s.emails

PasswordOk(s, g) == s.password = None \/ g.password # None

\* requireAccess
Unlocked(s, g) == EmailOk(s, ReadGrant(s, g)) /\ PasswordOk(s, ReadGrant(s, g))

-----------------------------------------------------------------------------
(***************************************************************************)
(* Steps of a request                                                      *)
(***************************************************************************)

Move(v, step) == at' = [at EXCEPT ![v] = step]

\* What a request read is forgotten when it ends.
Return(v) ==
    /\ Move(v, "idle")
    /\ row'   = [row   EXCEPT ![v] = None]
    /\ asked' = [asked EXCEPT ![v] = None]
    /\ code'  = [code  EXCEPT ![v] = None]

\* resolveOrThrow
Resolve(v, step) ==
    /\ at[v] = "idle"
    /\ Move(v, step)
    /\ row' = [row EXCEPT ![v] = set]
    /\ UNCHANGED <<set, codes, wrong, cookie, asked, code, opened>>

(***************************************************************************)
(* requestCode                                                             *)
(***************************************************************************)

BeginCode(v) == set.emails # {} /\ Resolve(v, "count")

SentTo(e)   == {c \in CodeIds : codes[c].email = e}
RecentTo(e) == {c \in SentTo(e) : codes[c].age # "old"}

\* emailCodesSince: the answer is the same whether or not a code is sent.
CountCodes(v, e) ==
    /\ at[v] = "count"
    /\ IF e \in row[v].emails /\ Cardinality(RecentTo(e)) < CodesPerWindow
       THEN /\ Move(v, "send")
            /\ asked' = [asked EXCEPT ![v] = e]
            /\ UNCHANGED <<row, code>>
       ELSE Return(v)
    /\ UNCHANGED <<set, codes, wrong, cookie, opened>>

Unsent == [email |-> None, used |-> FALSE, tries |-> 0, age |-> "fresh"]

\* supersedeEmailCodes
Superseded(e) ==
    [c \in CodeIds |-> IF c \in SentTo(e) THEN [codes[c] EXCEPT !.used = TRUE] ELSE codes[c]]

\* One transaction, in turns by the advisory lock.
SendCode(v, c) ==
    /\ at[v] = "send"
    /\ codes[c] = Unsent
    /\ codes' = [Superseded(asked[v]) EXCEPT ![c] = [Unsent EXCEPT !.email = asked[v]]]
    /\ Return(v)
    /\ UNCHANGED <<set, wrong, cookie, opened>>

\* After EMAIL_CODE_TTL_MINUTES, and after the longer EMAIL_CODE_WINDOW_MS.
CodeAges(c) ==
    /\ codes[c].email # None
    /\ codes[c].age # "old"
    /\ codes' = [codes EXCEPT ![c].age = IF @ = "fresh" THEN "expired" ELSE "old"]
    /\ UNCHANGED <<set, wrong, cookie, local, opened>>

(***************************************************************************)
(* verifyCode                                                              *)
(***************************************************************************)

BeginVerify(v) == set.emails # {} /\ Resolve(v, "find")

\* liveEmailCode; OneLiveCode says that there is no choice.
LiveCodes(e) == {c \in SentTo(e) : ~ codes[c].used}

\* Mutation: the wrong tries are not looked at.
Usable_AnyTries(c) == codes[c].age = "fresh"

Usable(c) == codes[c].age = "fresh" /\ codes[c].tries < CodeTries

\* A code can be typed right by whoever reads the mail, and wrong by anyone.
FindCode(v, e, c) ==
    /\ at[v] = "find"
    /\ e \in row[v].emails
    /\ c \in LiveCodes(e)
    /\ Usable(c)
    /\ code' = [code EXCEPT ![v] = c]
    /\ \/ Move(v, "fail")
       \/ MailboxOf[v] = e /\ Move(v, "consume")
    /\ UNCHANGED <<set, codes, wrong, cookie, row, asked, opened>>

\* CODE_INVALID: the address is not on the link, or has no usable code.
FindNone(v) ==
    /\ at[v] = "find"
    /\ \E e \in Emails :
        e \notin row[v].emails \/ \A c \in LiveCodes(e) : ~ Usable(c)
    /\ Return(v)
    /\ UNCHANGED <<set, codes, wrong, cookie, opened>>

\* failEmailCode, by id.
FailCode(v) ==
    /\ at[v] = "fail"
    /\ codes' = [codes EXCEPT ![code[v]].tries = @ + 1]
    /\ Return(v)
    /\ UNCHANGED <<set, wrong, cookie, opened>>

\* Mutation: the code was unused when it was looked up.
Consumes_Any(c) == TRUE

\* WHERE id = $1 AND consumed_at IS NULL
Consumes(c) == ~ codes[c].used

\* issueGrant, which keeps a password this browser has given; the browser may
\* have lost its cookie meanwhile.
ConsumeCode(v) ==
    /\ at[v] = "consume"
    /\ IF Consumes(code[v])
       THEN /\ codes' = [codes EXCEPT ![code[v]].used = TRUE]
            /\ cookie' = [cookie EXCEPT ![v] =
                    [ReadGrant(row[v], @) EXCEPT !.email = codes[code[v]].email]]
            /\ opened' = [opened EXCEPT ![code[v]] = @ + 1]
       ELSE UNCHANGED <<codes, cookie, opened>>
    /\ Return(v)
    /\ UNCHANGED <<set, wrong>>

(***************************************************************************)
(* unlock                                                                  *)
(***************************************************************************)

BeginUnlock(v) == set.password # None /\ Resolve(v, "unlock")

\* recentBadPasswords
MayGuess == wrong < PasswordTries

\* The password is compared with the hash that was read at the beginning.  An
\* address that this browser has proved is kept.
UnlockRight(v) ==
    /\ at[v] = "unlock"
    /\ MayGuess
    /\ row[v].password \in KnownTo[v]
    /\ cookie' = [cookie EXCEPT ![v] =
            [ReadGrant(row[v], @) EXCEPT !.password = row[v].password]]
    /\ Return(v)
    /\ UNCHANGED <<set, codes, wrong, opened>>

UnlockWrong(v) ==
    /\ at[v] = "unlock"
    /\ MayGuess
    /\ Move(v, "wrong")
    /\ UNCHANGED <<set, codes, wrong, cookie, row, asked, code, opened>>

\* LINK_LOCKED
UnlockLocked(v) ==
    /\ at[v] = "unlock"
    /\ ~ MayGuess
    /\ Return(v)
    /\ UNCHANGED <<set, codes, wrong, cookie, opened>>

\* writeAccess is awaited: the lockout counts this row.
RecordWrong(v) ==
    /\ at[v] = "wrong"
    /\ wrong' = wrong + 1
    /\ Return(v)
    /\ UNCHANGED <<set, codes, cookie, opened>>

WindowPasses ==
    /\ wrong > 0
    /\ wrong' \in 0..(wrong - 1)
    /\ UNCHANGED <<set, codes, cookie, local, opened>>

(***************************************************************************)
(* The file: downloadUrl, content and recordView                           *)
(***************************************************************************)

BeginAccess(v) == Unlocked(set, cookie[v]) /\ Resolve(v, "serve")

Serve(v) ==
    /\ at[v] = "serve"
    /\ Return(v)
    /\ UNCHANGED <<set, codes, wrong, cookie, opened>>

-----------------------------------------------------------------------------
(***************************************************************************)
(* The manager of the link, time and crashes                               *)
(***************************************************************************)

\* updateSettings
Edit(s) ==
    /\ set' = s
    /\ UNCHANGED <<codes, wrong, cookie, local, opened>>

\* GRANT_TTL_SECONDS
GrantExpires(v) ==
    /\ cookie' = [cookie EXCEPT ![v] = NoGrant]
    /\ UNCHANGED <<set, codes, wrong, local, opened>>

Crash(v) ==
    /\ at[v] # "idle"
    /\ Return(v)
    /\ UNCHANGED <<set, codes, wrong, cookie, opened>>

-----------------------------------------------------------------------------

Init ==
    /\ set \in Settings
    /\ codes = [c \in CodeIds |-> Unsent]
    /\ wrong = 0
    /\ cookie = [v \in Visitors |-> NoGrant]
    /\ at = [v \in Visitors |-> "idle"]
    /\ row = [v \in Visitors |-> None]
    /\ asked = [v \in Visitors |-> None]
    /\ code = [v \in Visitors |-> None]
    /\ opened = [c \in CodeIds |-> 0]

CodeStep(v) ==
    \/ BeginCode(v) \/ BeginVerify(v) \/ FindNone(v) \/ FailCode(v) \/ ConsumeCode(v)
    \/ \E e \in Emails : CountCodes(v, e) \/ \E c \in CodeIds : FindCode(v, e, c)
    \/ \E c \in CodeIds : SendCode(v, c)

PasswordStep(v) ==
    BeginUnlock(v) \/ UnlockRight(v) \/ UnlockWrong(v) \/ UnlockLocked(v) \/ RecordWrong(v)

Next ==
    \/ \E v \in Visitors :
        \/ CodeStep(v) \/ PasswordStep(v) \/ BeginAccess(v) \/ Serve(v)
        \/ GrantExpires(v) \/ Crash(v)
    \/ \E s \in Settings : Edit(s)
    \/ \E c \in CodeIds : CodeAges(c)
    \/ WindowPasses

Safety == Init /\ [][Next]_vars

-----------------------------------------------------------------------------
(***************************************************************************)
(* Properties                                                              *)
(***************************************************************************)

Steps == {"idle", "count", "send", "find", "fail", "consume", "unlock", "wrong", "serve"}

Grants == [email : Emails \cup {None}, password : Passwords \cup {None}]
Codes  == [email : Emails \cup {None}, used : BOOLEAN, tries : Nat,
           age : {"fresh", "expired", "old"}]

\* Everything is well formed, and a request has read what its step needs.
TypeOK ==
    /\ set \in Settings
    /\ codes \in [CodeIds -> Codes]
    /\ wrong \in Nat
    /\ cookie \in [Visitors -> Grants]
    /\ at \in [Visitors -> Steps]
    /\ row \in [Visitors -> Settings \cup {None}]
    /\ asked \in [Visitors -> Emails \cup {None}]
    /\ code \in [Visitors -> CodeIds \cup {None}]
    /\ opened \in [CodeIds -> Nat]
    /\ \A v \in Visitors :
        /\ at[v] # "idle" => row[v] \in Settings
        /\ at[v] \in {"unlock", "wrong"} => row[v].password # None
        /\ at[v] = "send" => asked[v] \in Emails
        /\ at[v] \in {"fail", "consume"} => code[v] \in CodeIds

\* Whoever gets the file of a restricted link can read the mail of an address
\* that was on it when the request came in, and knows the password it had then:
\* a cookie outlives neither ("removing an address from the link shuts
\* that person out at once", shares.service.ts:100).
AccessEarned ==
    \A v \in Visitors :
        at[v] = "serve" =>
            /\ row[v].emails = {} \/ MailboxOf[v] \in row[v].emails
            /\ row[v].password = None \/ row[v].password \in KnownTo[v]

\* A code lets one browser in, however many verify it at once ("two tabs racing
\* with the same code", shares.repo.ts:451).
CodeSpentOnce == \A c \in CodeIds : opened[c] <= 1

\* "Only the newest code for the address works" (shares.service.ts:626): two
\* requests for a code at once leave one that works.
OneLiveCode ==
    \A c, d \in CodeIds :
        codes[c].email # None /\ codes[c].email = codes[d].email
            /\ ~ codes[c].used /\ ~ codes[d].used
        => c = d

\* The tries are looked at before they are counted, so the requests under way
\* may go beyond the limit; no more than those do (shares.service.ts:638, 665).
GuessesBounded ==
    /\ \A c \in CodeIds : codes[c].tries < CodeTries + Cardinality(Visitors)
    /\ wrong < PasswordTries + Cardinality(Visitors)

=============================================================================
