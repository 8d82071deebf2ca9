-------------------------- MODULE LinkGrantsProofs -------------------------
(***************************************************************************)
(* Proofs about LinkGrants, for any number of browsers, addresses,         *)
(* passwords and codes, and any limits.                                    *)
(***************************************************************************)
EXTENDS LinkGrants, FiniteSetTheorems, TLAPS

USE SettingsAssumption, NoneAssumption, MailboxAssumption, KnownAssumption, LimitsAssumption

\* A cookie holds nothing that its browser has not proved, and a code is only
\* consumed by somebody who can read it.
GrantInv ==
    \A v \in Visitors :
        /\ cookie[v].email \in {None, MailboxOf[v]}
        /\ cookie[v].password \in KnownTo[v] \cup {None}
        /\ at[v] = "consume" => codes[code[v]].email = MailboxOf[v]

\* A code that can still be consumed has let nobody in.
SpentInv == \A c \in CodeIds : ~ codes[c].used => opened[c] = 0

\* The requests that are about to count a wrong try of a code, or of the
\* password.
Failing(c) == {v \in Visitors : at[v] = "fail" /\ code[v] = c}
Erring     == {v \in Visitors : at[v] = "wrong"}

\* Each of them has found the tries below their limit, so there is room for
\* all that are counted and all that are about to be.
GuessInv ==
    /\ \A c \in CodeIds :
        codes[c].tries + Cardinality(Failing(c)) < CodeTries + Cardinality(Visitors)
    /\ wrong + Cardinality(Erring) < PasswordTries + Cardinality(Visitors)

IInv ==
    /\ TypeOK /\ GrantInv /\ SpentInv /\ GuessInv
    /\ AccessEarned /\ CodeSpentOnce /\ OneLiveCode

-----------------------------------------------------------------------------
(***************************************************************************)
(* Grants and codes                                                        *)
(***************************************************************************)

\* The signature lets through what it was made for, or nothing.
LEMMA GrantRead ==
    ASSUME NEW s, NEW g
    PROVE  /\ ReadGrant(s, g) \in {g, NoGrant}
           /\ ReadGrant(s, g).password \in {None, s.password}
  BY DEF ReadGrant, NoGrant

LEMMA CodeFields ==
    ASSUME TypeOK, NEW c \in CodeIds
    PROVE  /\ codes[c].email \in Emails \cup {None}
           /\ codes[c].used \in BOOLEAN
           /\ codes[c].tries \in Nat
           /\ codes[c].age \in {"fresh", "expired", "old"}
           /\ [codes[c] EXCEPT !.used = TRUE] \in Codes
  <1>1. codes[c] \in Codes
    BY DEF TypeOK
  <1>2. QED
    BY <1>1 DEF Codes

\* What sending a code does: the earlier ones for its address are used up.
LEMMA Sent ==
    ASSUME TypeOK, NEW v \in Visitors, NEW c \in CodeIds, SendCode(v, c)
    PROVE  /\ codes' \in [CodeIds -> Codes]
           /\ codes[c].email = None /\ ~ codes[c].used
           /\ codes'[c].email = asked[v] /\ ~ codes'[c].used /\ asked[v] \in Emails
           /\ \A d \in CodeIds \ {c} :
                /\ codes'[d].email = codes[d].email
                /\ codes[d].used => codes'[d].used
                /\ codes[d].email = asked[v] => codes'[d].used
  <1> DEFINE new == [Unsent EXCEPT !.email = asked[v]]
  <1>1. asked[v] \in Emails /\ codes[c] = Unsent
    BY DEF SendCode, TypeOK
  <1>2. new \in Codes /\ new.email = asked[v] /\ ~ new.used
    BY <1>1 DEF Unsent, Codes
  <1>3. codes[c].email = None /\ ~ codes[c].used
    BY <1>1 DEF Unsent
  <1> HIDE DEF new
  <1>4. Superseded(asked[v]) \in [CodeIds -> Codes]
    BY CodeFields DEF Superseded, TypeOK
  <1>5. codes' = [Superseded(asked[v]) EXCEPT ![c] = new]
    BY DEF SendCode, new
  <1>6. codes' \in [CodeIds -> Codes] /\ codes'[c] = new
    BY <1>2, <1>4, <1>5
  <1>7. ASSUME NEW d \in CodeIds \ {c}
        PROVE  /\ codes'[d].email = codes[d].email
               /\ codes[d].used => codes'[d].used
               /\ codes[d].email = asked[v] => codes'[d].used
    <2>1. codes'[d] = IF codes[d].email = asked[v]
                      THEN [codes[d] EXCEPT !.used = TRUE] ELSE codes[d]
      BY <1>4, <1>5 DEF Superseded, SentTo
    <2>2. codes[d] \in Codes
      BY DEF TypeOK
    <2>3. QED
      BY <2>1, <2>2 DEF Codes
  <1>8. QED
    BY <1>1, <1>2, <1>3, <1>6, <1>7

\* Time and wrong tries leave the address and the use of a code alone.
LEMMA Aged ==
    ASSUME TypeOK, NEW c \in CodeIds, CodeAges(c)
    PROVE  /\ codes' \in [CodeIds -> Codes]
           /\ \A d \in CodeIds :
                codes'[d].email = codes[d].email /\ codes'[d].used = codes[d].used
  <1>1. codes[c] \in Codes /\ codes \in [CodeIds -> Codes]
    BY DEF TypeOK
  <1>2. \E a \in {"fresh", "expired", "old"} : codes' = [codes EXCEPT ![c].age = a]
    BY DEF CodeAges
  <1>3. QED
    BY <1>1, <1>2 DEF Codes

LEMMA Failed ==
    ASSUME TypeOK, NEW v \in Visitors, FailCode(v)
    PROVE  /\ codes' \in [CodeIds -> Codes]
           /\ \A d \in CodeIds :
                codes'[d].email = codes[d].email /\ codes'[d].used = codes[d].used
  <1>1. code[v] \in CodeIds /\ codes \in [CodeIds -> Codes]
    BY DEF FailCode, TypeOK
  <1>2. codes' = [codes EXCEPT ![code[v]].tries = @ + 1]
    BY DEF FailCode
  <1>3. codes[code[v]] \in Codes
    BY <1>1
  <1>4. QED
    BY <1>1, <1>2, <1>3 DEF Codes

\* What consuming a code does.
LEMMA Consumed ==
    ASSUME TypeOK, GrantInv, NEW v \in Visitors, ConsumeCode(v), ~ codes[code[v]].used
    PROVE  /\ code[v] \in CodeIds
           /\ codes' \in [CodeIds -> Codes] /\ codes'[code[v]].used
           /\ \A d \in CodeIds : codes'[d].email = codes[d].email
           /\ \A d \in CodeIds \ {code[v]} : codes'[d].used = codes[d].used
           /\ opened' = [opened EXCEPT ![code[v]] = @ + 1]
           /\ cookie' \in [Visitors -> Grants]
           /\ cookie'[v].email = MailboxOf[v]
           /\ cookie'[v].password \in {cookie[v].password, None}
           /\ \A w \in Visitors \ {v} : cookie'[w] = cookie[w]
  <1> DEFINE g   == ReadGrant(row[v], cookie[v])
             new == [g EXCEPT !.email = codes[code[v]].email]
  <1>1. at[v] = "consume" /\ code[v] \in CodeIds
    BY DEF ConsumeCode, TypeOK
  <1>2. /\ codes' = [codes EXCEPT ![code[v]].used = TRUE]
        /\ cookie' = [cookie EXCEPT ![v] = new]
        /\ opened' = [opened EXCEPT ![code[v]] = @ + 1]
    BY DEF ConsumeCode, Consumes
  <1>3. codes[code[v]].email = MailboxOf[v] /\ MailboxOf[v] \in Emails
    BY <1>1 DEF GrantInv
  <1>4. g \in {cookie[v], NoGrant} /\ g \in Grants
    BY GrantRead DEF TypeOK, NoGrant, Grants
  <1>5. new \in Grants /\ new.email = MailboxOf[v] /\ new.password = g.password
    <2> HIDE DEF g
    <2>1. QED
      BY <1>3, <1>4 DEF Grants
  <1>6. g.password \in {cookie[v].password, None}
    BY <1>4 DEF NoGrant
  <1> HIDE DEF g, new
  <1>7. /\ cookie' \in [Visitors -> Grants] /\ cookie'[v] = new
        /\ \A w \in Visitors \ {v} : cookie'[w] = cookie[w]
    BY <1>2, <1>5 DEF TypeOK
  <1>8. codes \in [CodeIds -> Codes] /\ codes[code[v]] \in Codes
    BY <1>1 DEF TypeOK
  <1>9. /\ codes' \in [CodeIds -> Codes] /\ codes'[code[v]].used
        /\ \A d \in CodeIds : codes'[d].email = codes[d].email
        /\ \A d \in CodeIds \ {code[v]} : codes'[d].used = codes[d].used
    BY <1>1, <1>2, <1>8 DEF Codes
  <1>10. QED
    BY <1>1, <1>2, <1>5, <1>6, <1>7, <1>9

\* What the right password does.
LEMMA Unlocks ==
    ASSUME TypeOK, NEW v \in Visitors, UnlockRight(v)
    PROVE  /\ cookie' \in [Visitors -> Grants]
           /\ cookie'[v].password \in KnownTo[v]
           /\ cookie'[v].email \in {cookie[v].email, None}
           /\ \A w \in Visitors \ {v} : cookie'[w] = cookie[w]
  <1> DEFINE g   == ReadGrant(row[v], cookie[v])
             new == [g EXCEPT !.password = row[v].password]
  <1>1. row[v].password \in KnownTo[v] /\ row[v].password \in Passwords
    BY DEF UnlockRight
  <1>2. g \in {cookie[v], NoGrant} /\ g \in Grants
    BY GrantRead DEF TypeOK, NoGrant, Grants
  <1>3. new \in Grants /\ new.password = row[v].password /\ new.email = g.email
    <2> HIDE DEF g
    <2>1. QED
      BY <1>1, <1>2 DEF Grants
  <1>4. g.email \in {cookie[v].email, None}
    BY <1>2 DEF NoGrant
  <1>5. cookie' = [cookie EXCEPT ![v] = new]
    BY DEF UnlockRight
  <1> HIDE DEF g, new
  <1>6. QED
    BY <1>1, <1>3, <1>4, <1>5 DEF TypeOK

-----------------------------------------------------------------------------
(***************************************************************************)
(* The initial states                                                      *)
(***************************************************************************)

LEMMA InitHolds == Init => IInv
  <1> SUFFICES ASSUME Init PROVE IInv
    OBVIOUS
  <1>1. Unsent \in Codes /\ Unsent.email = None /\ Unsent.used = FALSE /\ NoGrant \in Grants
    BY DEF Unsent, Codes, NoGrant, Grants
  <1>2. TypeOK
    BY <1>1 DEF Init, TypeOK, Steps
  <1>3. GrantInv
    BY DEF Init, GrantInv, NoGrant
  <1>4. SpentInv /\ CodeSpentOnce
    BY DEF Init, SpentInv, CodeSpentOnce
  <1>5. AccessEarned
    BY DEF Init, AccessEarned
  <1>6. OneLiveCode
    BY <1>1 DEF Init, OneLiveCode
  <1>7. GuessInv
    <2>1. Erring = {} /\ \A c \in CodeIds : Failing(c) = {} /\ codes[c].tries = 0
      BY DEF Init, Erring, Failing, Unsent
    <2>2. wrong = 0
      BY DEF Init
    <2>3. Cardinality({}) = 0 /\ Cardinality(Visitors) \in Nat
      BY VisitorsAssumption, FS_EmptySet, FS_CardinalityType
    <2>4. 0 + 0 < CodeTries + Cardinality(Visitors) /\ 0 + 0 < PasswordTries + Cardinality(Visitors)
      BY <2>3
    <2>5. QED
      BY <2>1, <2>2, <2>3, <2>4 DEF GuessInv
  <1>8. QED
    BY <1>2, <1>3, <1>4, <1>5, <1>6, <1>7 DEF IInv

-----------------------------------------------------------------------------
(***************************************************************************)
(* The kinds of steps                                                      *)
(***************************************************************************)

\* Steps of a request that only read and move on.
Reads(v) ==
    \/ BeginCode(v) \/ BeginVerify(v) \/ FindNone(v) \/ BeginUnlock(v) \/ UnlockWrong(v)
    \/ UnlockLocked(v) \/ BeginAccess(v) \/ Serve(v) \/ Crash(v)
    \/ \E e \in Emails : CountCodes(v, e) \/ \E c \in CodeIds : FindCode(v, e, c)

LEMMA Kinds ==
    ASSUME [Next]_vars
    PROVE  \/ \E v \in Visitors :
                \/ Reads(v) \/ FailCode(v) \/ ConsumeCode(v) \/ UnlockRight(v)
                \/ RecordWrong(v) \/ GrantExpires(v)
                \/ \E c \in CodeIds : SendCode(v, c)
           \/ \E s \in Settings : Edit(s)
           \/ \E c \in CodeIds : CodeAges(c)
           \/ WindowPasses \/ UNCHANGED vars
  BY DEF Next, CodeStep, PasswordStep, Reads

LEMMA ReadsKeep ==
    ASSUME NEW v, Reads(v)
    PROVE  UNCHANGED <<set, codes, wrong, cookie, opened>>
  BY DEF Reads, BeginCode, BeginVerify, FindNone, BeginUnlock, UnlockWrong, UnlockLocked,
         BeginAccess, Serve, Crash, Resolve, CountCodes, FindCode

\* A step that writes ends its request.
LEMMA Locals ==
    ASSUME [Next]_vars
    PROVE  (\E v \in Visitors : Reads(v) \/ Return(v)) \/ UNCHANGED local
  <1>1. ASSUME NEW v \in Visitors,
               \/ FailCode(v) \/ ConsumeCode(v) \/ UnlockRight(v) \/ RecordWrong(v)
               \/ \E c \in CodeIds : SendCode(v, c)
        PROVE  Return(v)
    BY <1>1 DEF FailCode, ConsumeCode, UnlockRight, RecordWrong, SendCode
  <1>2. ASSUME NEW v \in Visitors, GrantExpires(v) PROVE UNCHANGED local
    BY <1>2 DEF GrantExpires, local
  <1>3. QED
    BY <1>1, <1>2, Kinds DEF Edit, CodeAges, WindowPasses, vars, local

-----------------------------------------------------------------------------
(***************************************************************************)
(* Type correctness: the tables, and the requests                          *)
(***************************************************************************)

TablesOK ==
    /\ set \in Settings
    /\ codes \in [CodeIds -> Codes]
    /\ wrong \in Nat
    /\ cookie \in [Visitors -> Grants]
    /\ opened \in [CodeIds -> Nat]

\* What each step of a request has read.
HasRead(v) ==
    /\ at[v] # "idle" => row[v] \in Settings
    /\ at[v] \in {"unlock", "wrong"} => row[v].password # None
    /\ at[v] = "send" => asked[v] \in Emails
    /\ at[v] \in {"fail", "consume"} => code[v] \in CodeIds

RequestsOK ==
    /\ at \in [Visitors -> Steps]
    /\ row \in [Visitors -> Settings \cup {None}]
    /\ asked \in [Visitors -> Emails \cup {None}]
    /\ code \in [Visitors -> CodeIds \cup {None}]
    /\ \A v \in Visitors : HasRead(v)

LEMMA Halves == TypeOK <=> TablesOK /\ RequestsOK
  BY DEF TypeOK, TablesOK, RequestsOK, HasRead

LEMMA TablesStep ==
    ASSUME TypeOK, GrantInv, [Next]_vars
    PROVE  TablesOK'
  <1> TablesOK
    BY Halves
  <1> USE DEF TablesOK
  <1>1. ASSUME NEW v \in Visitors, NEW c \in CodeIds, SendCode(v, c) PROVE TablesOK'
    BY <1>1, Sent DEF SendCode
  <1>2. ASSUME NEW v \in Visitors, FailCode(v) PROVE TablesOK'
    BY <1>2, Failed DEF FailCode
  <1>3. ASSUME NEW v \in Visitors, ConsumeCode(v) PROVE TablesOK'
    <2>1. CASE codes[code[v]].used
      BY <1>3, <2>1 DEF ConsumeCode, Consumes
    <2>2. CASE ~ codes[code[v]].used
      BY <1>3, <2>2, Consumed DEF ConsumeCode
    <2>3. QED
      BY <2>1, <2>2
  <1>4. ASSUME NEW v \in Visitors, UnlockRight(v) PROVE TablesOK'
    BY <1>4, Unlocks DEF UnlockRight
  <1>5. ASSUME NEW v \in Visitors, RecordWrong(v) PROVE TablesOK'
    BY <1>5 DEF RecordWrong
  <1>6. ASSUME NEW v \in Visitors, GrantExpires(v) PROVE TablesOK'
    <2>1. NoGrant \in Grants
      BY DEF NoGrant, Grants
    <2>2. QED
      BY <1>6, <2>1 DEF GrantExpires
  <1>7. ASSUME NEW s \in Settings, Edit(s) PROVE TablesOK'
    BY <1>7 DEF Edit
  <1>8. ASSUME NEW c \in CodeIds, CodeAges(c) PROVE TablesOK'
    BY <1>8, Aged DEF CodeAges
  <1>9. CASE WindowPasses
    BY <1>9 DEF WindowPasses
  <1>10. CASE UNCHANGED <<set, codes, wrong, cookie, opened>>
    BY <1>10
  <1> HIDE DEF TablesOK
  <1>11. QED
    BY <1>1, <1>2, <1>3, <1>4, <1>5, <1>6, <1>7, <1>8, <1>9, <1>10, Kinds, ReadsKeep DEF vars

\* A request that ends has nothing left that it has read.
LEMMA Returns ==
    ASSUME RequestsOK, NEW v \in Visitors, Return(v)
    PROVE  RequestsOK'
  <1>1. /\ at' = [at EXCEPT ![v] = "idle"] /\ row' = [row EXCEPT ![v] = None]
        /\ asked' = [asked EXCEPT ![v] = None] /\ code' = [code EXCEPT ![v] = None]
    BY DEF Return, Move
  <1>2. QED
    BY <1>1 DEF RequestsOK, HasRead, Steps

LEMMA Resolved ==
    ASSUME TypeOK, NEW v \in Visitors, NEW step \in {"count", "find", "unlock", "serve"},
           Resolve(v, step), step = "unlock" => set.password # None
    PROVE  RequestsOK'
  <1>1. /\ at' = [at EXCEPT ![v] = step] /\ row' = [row EXCEPT ![v] = set]
        /\ UNCHANGED <<asked, code>>
    BY DEF Resolve, Move
  <1>2. RequestsOK /\ set \in Settings
    BY Halves DEF TypeOK
  <1>3. QED
    BY <1>1, <1>2 DEF RequestsOK, HasRead, Steps

LEMMA RequestsStep ==
    ASSUME TypeOK, [Next]_vars
    PROVE  RequestsOK'
  <1> RequestsOK
    BY Halves
  <1>1. ASSUME NEW v \in Visitors, Reads(v) PROVE RequestsOK'
    <2>1. CASE BeginCode(v) \/ BeginVerify(v) \/ BeginUnlock(v) \/ BeginAccess(v)
      BY <2>1, Resolved DEF BeginCode, BeginVerify, BeginUnlock, BeginAccess
    <2>2. ASSUME NEW e \in Emails, CountCodes(v, e) PROVE RequestsOK'
      <3>1. CASE Return(v)
        BY <3>1, Returns
      <3>2. CASE ~ Return(v)
        <4>1. /\ at[v] = "count" /\ at' = [at EXCEPT ![v] = "send"]
              /\ asked' = [asked EXCEPT ![v] = e] /\ UNCHANGED <<row, code>>
          BY <2>2, <3>2 DEF CountCodes, Move
        <4>2. QED
          BY <4>1 DEF RequestsOK, HasRead, Steps
      <3>3. QED
        BY <3>1, <3>2
    <2>3. ASSUME NEW e \in Emails, NEW c \in CodeIds, FindCode(v, e, c) PROVE RequestsOK'
      <3>1. PICK step \in {"fail", "consume"} :
                /\ at[v] = "find" /\ at' = [at EXCEPT ![v] = step]
                /\ code' = [code EXCEPT ![v] = c] /\ UNCHANGED <<row, asked>>
        BY <2>3 DEF FindCode, Move
      <3>2. QED
        BY <3>1 DEF RequestsOK, HasRead, Steps
    <2>4. CASE UnlockWrong(v)
      <3>1. /\ at[v] = "unlock" /\ at' = [at EXCEPT ![v] = "wrong"]
            /\ UNCHANGED <<row, asked, code>>
        BY <2>4 DEF UnlockWrong, Move
      <3>2. QED
        BY <3>1 DEF RequestsOK, HasRead, Steps
    <2>5. CASE FindNone(v) \/ UnlockLocked(v) \/ Serve(v) \/ Crash(v)
      BY <2>5, Returns DEF FindNone, UnlockLocked, Serve, Crash
    <2>6. QED
      BY <1>1, <2>1, <2>2, <2>3, <2>4, <2>5 DEF Reads
  <1>2. CASE UNCHANGED local
    BY <1>2 DEF local, RequestsOK, HasRead
  <1>3. QED
    BY <1>1, <1>2, Returns, Locals

LEMMA TypeStep ==
    ASSUME TypeOK, GrantInv, [Next]_vars
    PROVE  TypeOK'
  <1>1. TablesOK' /\ RequestsOK'
    BY TablesStep, RequestsStep
  <1>2. QED
    BY <1>1, Halves, PTL

-----------------------------------------------------------------------------
(***************************************************************************)
(* Access                                                                  *)
(***************************************************************************)

\* A code that belongs to an address keeps it.
LEMMA EmailsStay ==
    ASSUME TypeOK, GrantInv, [Next]_vars, NEW c \in CodeIds, codes[c].email # None
    PROVE  codes'[c].email = codes[c].email
  <1>1. ASSUME NEW v \in Visitors, NEW d \in CodeIds, SendCode(v, d)
        PROVE  codes'[c].email = codes[c].email
    <2>1. c # d
      BY <1>1, Sent
    <2>2. QED
      BY <1>1, <2>1, Sent
  <1>2. ASSUME NEW v \in Visitors, FailCode(v) PROVE codes'[c].email = codes[c].email
    BY <1>2, Failed
  <1>3. ASSUME NEW v \in Visitors, ConsumeCode(v) PROVE codes'[c].email = codes[c].email
    <2>1. CASE codes[code[v]].used
      BY <1>3, <2>1 DEF ConsumeCode, Consumes
    <2>2. CASE ~ codes[code[v]].used
      BY <1>3, <2>2, Consumed
    <2>3. QED
      BY <2>1, <2>2
  <1>4. ASSUME NEW d \in CodeIds, CodeAges(d) PROVE codes'[c].email = codes[c].email
    BY <1>4, Aged
  <1>5. CASE UNCHANGED codes
    BY <1>5
  <1>6. QED
    BY <1>1, <1>2, <1>3, <1>4, <1>5, Kinds, ReadsKeep
       DEF UnlockRight, RecordWrong, GrantExpires, Edit, WindowPasses, vars

\* Only a code that its reader can read is consumed, and nobody moves but the
\* request that takes the step.
LEMMA Consuming ==
    ASSUME TypeOK, [Next]_vars, NEW v \in Visitors, at'[v] = "consume"
    PROVE  \/ at[v] = "consume" /\ code'[v] = code[v]
           \/ code'[v] \in CodeIds /\ codes[code'[v]].email = MailboxOf[v]
  <1> RequestsOK
    BY Halves
  <1> USE DEF RequestsOK
  <1>1. ASSUME NEW w \in Visitors, Return(w)
        PROVE  at[v] = "consume" /\ code'[v] = code[v]
    BY <1>1 DEF Return, Move
  <1>2. ASSUME NEW w \in Visitors, NEW step \in {"count", "find", "unlock", "serve"},
               Resolve(w, step)
        PROVE  at[v] = "consume" /\ code'[v] = code[v]
    BY <1>2 DEF Resolve, Move
  <1>3. ASSUME NEW w \in Visitors, NEW step \in {"send", "wrong"}, Move(w, step), code' = code
        PROVE  at[v] = "consume" /\ code'[v] = code[v]
    BY <1>3 DEF Move
  <1>4. ASSUME NEW w \in Visitors, NEW e \in Emails, NEW c \in CodeIds, FindCode(w, e, c)
        PROVE  \/ at[v] = "consume" /\ code'[v] = code[v]
               \/ code'[v] \in CodeIds /\ codes[code'[v]].email = MailboxOf[v]
    <2>1. CASE v # w
      BY <1>4, <2>1 DEF FindCode, Move
    <2>2. CASE v = w
      <3>1. code'[v] = c /\ codes[c].email = e
        BY <1>4, <2>2 DEF FindCode, LiveCodes, SentTo
      <3>2. MailboxOf[v] = e
        BY <1>4, <2>2 DEF FindCode, Move
      <3>3. QED
        BY <3>1, <3>2
    <2>3. QED
      BY <2>1, <2>2
  <1>5. ASSUME NEW w \in Visitors, Reads(w)
        PROVE  \/ at[v] = "consume" /\ code'[v] = code[v]
               \/ code'[v] \in CodeIds /\ codes[code'[v]].email = MailboxOf[v]
    BY <1>1, <1>2, <1>3, <1>4, <1>5
       DEF Reads, BeginCode, BeginVerify, FindNone, BeginUnlock, UnlockWrong, UnlockLocked,
           BeginAccess, Serve, Crash, CountCodes
  <1>6. CASE UNCHANGED local
    BY <1>6 DEF local
  <1>7. QED
    BY <1>1, <1>5, <1>6, Locals

LEMMA GrantStep ==
    ASSUME TypeOK, GrantInv, [Next]_vars
    PROVE  GrantInv'
  <1> SUFFICES ASSUME NEW v \in Visitors
               PROVE  /\ cookie'[v].email \in {None, MailboxOf[v]}
                      /\ cookie'[v].password \in KnownTo[v] \cup {None}
                      /\ at'[v] = "consume" => codes'[code'[v]].email = MailboxOf[v]
    BY DEF GrantInv
  <1> DEFINE Proved == /\ cookie'[v].email \in {None, MailboxOf[v]}
                       /\ cookie'[v].password \in KnownTo[v] \cup {None}
  <1>1. ASSUME NEW w \in Visitors, ConsumeCode(w) PROVE Proved
    <2>1. CASE codes[code[w]].used
      BY <1>1, <2>1 DEF ConsumeCode, Consumes, GrantInv
    <2>2. CASE ~ codes[code[w]].used
      BY <1>1, <2>2, Consumed DEF GrantInv
    <2>3. QED
      BY <2>1, <2>2
  <1>2. ASSUME NEW w \in Visitors, UnlockRight(w) PROVE Proved
    BY <1>2, Unlocks DEF GrantInv
  <1>3. ASSUME NEW w \in Visitors, GrantExpires(w) PROVE Proved
    <2>1. cookie' = [cookie EXCEPT ![w] = NoGrant] /\ cookie \in [Visitors -> Grants]
      BY <1>3 DEF GrantExpires, TypeOK
    <2>2. cookie'[v] \in {cookie[v], NoGrant}
      BY <2>1
    <2>3. QED
      BY <2>2 DEF GrantInv, NoGrant
  <1>4. ASSUME UNCHANGED cookie PROVE Proved
    <2>1. cookie'[v] = cookie[v]
      BY <1>4
    <2>2. QED
      BY <2>1 DEF GrantInv
  <1>5. Proved
    <2> HIDE DEF Proved
    <2>1. \/ \E w \in Visitors : ConsumeCode(w) \/ UnlockRight(w) \/ GrantExpires(w)
          \/ UNCHANGED cookie
      BY Kinds, ReadsKeep
         DEF FailCode, RecordWrong, SendCode, Edit, CodeAges, WindowPasses, vars
    <2>2. QED
      BY <1>1, <1>2, <1>3, <1>4, <2>1
  <1>6. ASSUME at'[v] = "consume" PROVE codes'[code'[v]].email = MailboxOf[v]
    <2>1. code'[v] \in CodeIds /\ codes[code'[v]].email = MailboxOf[v]
      BY <1>6, Consuming DEF GrantInv, TypeOK
    <2>2. MailboxOf[v] # None
      OBVIOUS
    <2>3. QED
      BY <2>1, <2>2, EmailsStay
  <1>7. QED
    BY <1>5, <1>6

\* What an address and a password have to be for the file.
Earned(v, s) ==
    /\ s.emails = {} \/ MailboxOf[v] \in s.emails
    /\ s.password = None \/ s.password \in KnownTo[v]

\* requireAccess lets nobody in but those who have earned it.
LEMMA UnlockedEarned ==
    ASSUME TypeOK, GrantInv, NEW v \in Visitors, Unlocked(set, cookie[v])
    PROVE  Earned(v, set)
  <1> DEFINE g == ReadGrant(set, cookie[v])
  <1>1. g \in {cookie[v], NoGrant} /\ g.password \in {None, set.password}
    BY GrantRead
  <1>2. g.email \in {None, MailboxOf[v]} /\ g.password \in KnownTo[v] \cup {None}
    BY <1>1 DEF GrantInv, NoGrant
  <1>3. set.emails \subseteq Emails
    BY DEF TypeOK
  <1>4. /\ set.emails = {} \/ g.email \in set.emails
        /\ set.password = None \/ g.password # None
    BY DEF Unlocked, EmailOk, PasswordOk
  <1> HIDE DEF g
  <1>5. QED
    BY <1>1, <1>2, <1>3, <1>4 DEF Earned

LEMMA Serving ==
    ASSUME TypeOK, [Next]_vars, NEW v \in Visitors, at'[v] = "serve"
    PROVE  \/ at[v] = "serve" /\ row'[v] = row[v]
           \/ Unlocked(set, cookie[v]) /\ row'[v] = set
  <1> RequestsOK
    BY Halves
  <1> USE DEF RequestsOK
  <1> DEFINE Stays == at[v] = "serve" /\ row'[v] = row[v]
  <1>1. ASSUME NEW w \in Visitors, Return(w) PROVE Stays
    BY <1>1 DEF Return, Move
  <1>2. ASSUME NEW w \in Visitors, NEW step \in {"count", "find", "unlock"}, Resolve(w, step)
        PROVE  Stays
    BY <1>2 DEF Resolve, Move
  <1>3. ASSUME NEW w \in Visitors, NEW step \in {"send", "wrong", "fail", "consume"},
               Move(w, step), row' = row
        PROVE  Stays
    BY <1>3 DEF Move
  <1>4. ASSUME NEW w \in Visitors, BeginAccess(w)
        PROVE  Stays \/ (Unlocked(set, cookie[v]) /\ row'[v] = set)
    <2>1. CASE v # w
      BY <1>4, <2>1 DEF BeginAccess, Resolve, Move
    <2>2. CASE v = w
      BY <1>4, <2>2 DEF BeginAccess, Resolve
    <2>3. QED
      BY <2>1, <2>2
  <1>5. ASSUME UNCHANGED local PROVE Stays
    BY <1>5 DEF local
  <1> HIDE DEF Stays
  <1>6. ASSUME NEW w \in Visitors, Reads(w)
        PROVE  Stays \/ (Unlocked(set, cookie[v]) /\ row'[v] = set)
    BY <1>1, <1>2, <1>3, <1>4, <1>6
       DEF Reads, BeginCode, BeginVerify, FindNone, BeginUnlock, UnlockWrong, UnlockLocked,
           Serve, Crash, CountCodes, FindCode
  <1>7. Stays \/ (Unlocked(set, cookie[v]) /\ row'[v] = set)
    BY <1>1, <1>5, <1>6, Locals
  <1>8. QED
    BY <1>7 DEF Stays

LEMMA AccessStep ==
    ASSUME TypeOK, GrantInv, AccessEarned, [Next]_vars
    PROVE  AccessEarned'
  <1> SUFFICES ASSUME NEW v \in Visitors, at'[v] = "serve" PROVE Earned(v, row'[v])
    BY DEF AccessEarned, Earned
  <1>1. CASE at[v] = "serve" /\ row'[v] = row[v]
    BY <1>1 DEF AccessEarned, Earned
  <1>2. CASE Unlocked(set, cookie[v]) /\ row'[v] = set
    BY <1>2, UnlockedEarned
  <1>3. QED
    BY <1>1, <1>2, Serving

-----------------------------------------------------------------------------
(***************************************************************************)
(* Codes                                                                   *)
(***************************************************************************)

LEMMA SpentStep ==
    ASSUME TypeOK, GrantInv, SpentInv, CodeSpentOnce, [Next]_vars
    PROVE  SpentInv' /\ CodeSpentOnce'
  <1> USE DEF SpentInv, CodeSpentOnce
  <1>1. ASSUME NEW v \in Visitors, ConsumeCode(v) PROVE SpentInv' /\ CodeSpentOnce'
    <2>1. CASE codes[code[v]].used
      BY <1>1, <2>1 DEF ConsumeCode, Consumes
    <2>2. CASE ~ codes[code[v]].used
      <3>1. opened[code[v]] = 0 /\ code[v] \in CodeIds
        BY <1>1, <2>2, Consumed
      <3>2. opened \in [CodeIds -> Nat] /\ opened' = [opened EXCEPT ![code[v]] = @ + 1]
        BY <1>1, <2>2, Consumed DEF TypeOK
      <3>3. /\ opened'[code[v]] = 1
            /\ \A d \in CodeIds \ {code[v]} : opened'[d] = opened[d]
        BY <3>1, <3>2
      <3>4. /\ codes'[code[v]].used
            /\ \A d \in CodeIds \ {code[v]} : codes'[d].used = codes[d].used
        BY <1>1, <2>2, Consumed
      <3>5. QED
        BY <3>1, <3>3, <3>4
    <2>3. QED
      BY <2>1, <2>2
  <1>2. ASSUME opened' = opened, \A c \in CodeIds : codes[c].used => codes'[c].used
        PROVE  SpentInv' /\ CodeSpentOnce'
    BY <1>2
  <1>3. ASSUME NEW v \in Visitors, NEW c \in CodeIds, SendCode(v, c)
        PROVE  \A d \in CodeIds : codes[d].used => codes'[d].used
    BY <1>3, Sent
  <1>4. ASSUME NEW v \in Visitors, FailCode(v)
        PROVE  \A d \in CodeIds : codes[d].used => codes'[d].used
    BY <1>4, Failed
  <1>5. ASSUME NEW c \in CodeIds, CodeAges(c)
        PROVE  \A d \in CodeIds : codes[d].used => codes'[d].used
    BY <1>5, Aged
  <1> HIDE DEF SpentInv, CodeSpentOnce
  <1>6. QED
    BY <1>1, <1>2, <1>3, <1>4, <1>5, Kinds, ReadsKeep
       DEF FailCode, SendCode, CodeAges, UnlockRight, RecordWrong, GrantExpires, Edit,
           WindowPasses, vars

LEMMA OneLiveStep ==
    ASSUME TypeOK, GrantInv, OneLiveCode, [Next]_vars
    PROVE  OneLiveCode'
  <1>1. ASSUME \A c \in CodeIds :
                codes'[c].email = codes[c].email /\ (codes[c].used => codes'[c].used)
        PROVE  OneLiveCode'
    BY <1>1 DEF OneLiveCode
  <1>2. ASSUME NEW v \in Visitors, NEW c \in CodeIds, SendCode(v, c) PROVE OneLiveCode'
    <2> SUFFICES ASSUME NEW d \in CodeIds, NEW e \in CodeIds, codes'[d].email # None,
                        codes'[d].email = codes'[e].email, ~ codes'[d].used, ~ codes'[e].used
                 PROVE  d = e
      BY DEF OneLiveCode
    <2>1. CASE d = c
      BY <1>2, <2>1, Sent
    <2>2. CASE e = c
      BY <1>2, <2>2, Sent
    <2>3. CASE d # c /\ e # c
      BY <1>2, <2>3, Sent DEF OneLiveCode
    <2>4. QED
      BY <2>1, <2>2, <2>3
  <1>3. ASSUME NEW v \in Visitors, FailCode(v) PROVE OneLiveCode'
    BY <1>1, <1>3, Failed
  <1>4. ASSUME NEW v \in Visitors, ConsumeCode(v) PROVE OneLiveCode'
    <2>1. CASE codes[code[v]].used
      BY <1>1, <1>4, <2>1 DEF ConsumeCode, Consumes
    <2>2. CASE ~ codes[code[v]].used
      BY <1>1, <1>4, <2>2, Consumed
    <2>3. QED
      BY <2>1, <2>2
  <1>5. ASSUME NEW c \in CodeIds, CodeAges(c) PROVE OneLiveCode'
    BY <1>1, <1>5, Aged
  <1>6. CASE UNCHANGED codes
    BY <1>1, <1>6
  <1>7. QED
    BY <1>2, <1>3, <1>4, <1>5, <1>6, Kinds, ReadsKeep
       DEF UnlockRight, RecordWrong, GrantExpires, Edit, WindowPasses, vars

-----------------------------------------------------------------------------
(***************************************************************************)
(* Guesses                                                                 *)
(***************************************************************************)

LEMMA GuessersFinite ==
    ASSUME NEW A \in SUBSET Visitors, NEW B \in SUBSET A
    PROVE  /\ Cardinality(A) \in Nat /\ Cardinality(B) \in Nat /\ Cardinality(Visitors) \in Nat
           /\ Cardinality(B) <= Cardinality(A) /\ Cardinality(A) <= Cardinality(Visitors)
           /\ \A v \in A : Cardinality(A \ {v}) = Cardinality(A) - 1
  <1>1. IsFiniteSet(Visitors) /\ IsFiniteSet(A) /\ IsFiniteSet(B)
    BY VisitorsAssumption, FS_Subset
  <1>2. QED
    BY <1>1, FS_Subset, FS_CardinalityType, FS_RemoveElement

\* Only verifying makes a request fail, and only failing counts a try.
LEMMA Failures ==
    ASSUME TypeOK, GrantInv, [Next]_vars, NEW c \in CodeIds
    PROVE  \/ codes'[c].tries \in {0, codes[c].tries} /\ Failing(c)' \subseteq Failing(c)
           \/ codes'[c].tries = codes[c].tries /\ codes[c].tries < CodeTries
           \/ /\ codes'[c].tries = codes[c].tries + 1
              /\ \E v \in Failing(c) : Failing(c)' = Failing(c) \ {v}
  <1> DEFINE Fewer == Failing(c)' \subseteq Failing(c)
             Same  == codes'[c].tries \in {0, codes[c].tries}
  <1> RequestsOK
    BY Halves
  <1>1. ASSUME NEW v \in Visitors, Return(v) PROVE Failing(c)' = Failing(c) \ {v}
    BY <1>1 DEF Failing, Return, Move, RequestsOK
  <1>2. ASSUME NEW v \in Visitors, Reads(v), \A e \in Emails : ~ FindCode(v, e, c) PROVE Fewer
    <2>1. ASSUME NEW e \in Emails, NEW d \in CodeIds \ {c}, FindCode(v, e, d) PROVE Fewer
      BY <2>1 DEF FindCode, Move, Failing, RequestsOK
    <2>2. ASSUME NEW step \in {"count", "find", "unlock", "serve", "send", "wrong"},
                 Move(v, step), code' = code
          PROVE  Fewer
      BY <2>2 DEF Move, Failing, RequestsOK
    <2> HIDE DEF Fewer
    <2>3. Return(v) => Fewer
      BY <1>1 DEF Fewer
    <2>4. QED
      BY <1>2, <2>1, <2>2, <2>3
         DEF Reads, BeginCode, BeginVerify, FindNone, BeginUnlock, UnlockWrong, UnlockLocked,
             BeginAccess, Serve, Crash, CountCodes, Resolve
  <1>3. ASSUME NEW v \in Visitors, NEW e \in Emails, FindCode(v, e, c)
        PROVE  codes'[c].tries = codes[c].tries /\ codes[c].tries < CodeTries
    BY <1>3 DEF FindCode, Usable
  <1>4. ASSUME NEW v \in Visitors, FailCode(v), code[v] = c
        PROVE  /\ codes'[c].tries = codes[c].tries + 1
               /\ \E w \in Failing(c) : Failing(c)' = Failing(c) \ {w}
    <2>1. codes'[c].tries = codes[c].tries + 1
      BY <1>4 DEF FailCode, TypeOK, Codes
    <2>2. v \in Failing(c) /\ Return(v)
      BY <1>4 DEF FailCode, Failing
    <2>3. QED
      BY <1>1, <2>1, <2>2
  <1>5. ASSUME NEW v \in Visitors, FailCode(v), code[v] # c PROVE Same
    BY <1>5 DEF FailCode, TypeOK, Codes
  <1>6. ASSUME NEW v \in Visitors, NEW d \in CodeIds, SendCode(v, d) PROVE Same
    <2> DEFINE new == [Unsent EXCEPT !.email = asked[v]]
    <2>1. codes' = [Superseded(asked[v]) EXCEPT ![d] = new] /\ new.tries = 0
      BY <1>6 DEF SendCode, Unsent
    <2>2. codes'[c] \in {codes[c], [codes[c] EXCEPT !.used = TRUE], new}
      BY <2>1 DEF Superseded, TypeOK
    <2>3. codes[c] \in Codes
      BY DEF TypeOK
    <2> HIDE DEF new
    <2>4. QED
      BY <2>1, <2>2, <2>3 DEF Codes
  <1>7. ASSUME NEW v \in Visitors, ConsumeCode(v) PROVE Same
    <2>1. codes[c] \in Codes
      BY DEF TypeOK
    <2>2. codes'[c] \in {codes[c], [codes[c] EXCEPT !.used = TRUE]}
      BY <1>7 DEF ConsumeCode, TypeOK
    <2>3. QED
      BY <2>1, <2>2 DEF Codes
  <1>8. ASSUME NEW d \in CodeIds, CodeAges(d) PROVE Same
    <2>1. codes[c] \in Codes
      BY DEF TypeOK
    <2>2. \E a \in {"expired", "old"} : codes' = [codes EXCEPT ![d].age = a]
      BY <1>8 DEF CodeAges
    <2>3. \E a \in {"expired", "old"} : codes'[c] \in {codes[c], [codes[c] EXCEPT !.age = a]}
      BY <2>2 DEF TypeOK
    <2>4. QED
      BY <2>1, <2>3 DEF Codes
  <1>9. ASSUME UNCHANGED codes PROVE Same
    BY <1>9
  <1>10. ASSUME UNCHANGED local PROVE Fewer
    BY <1>10 DEF local, Failing
  <1> HIDE DEF Same, Fewer
  <1>11. ASSUME NEW v \in Visitors, NEW e \in Emails, FindCode(v, e, c)
         PROVE  codes'[c].tries = codes[c].tries /\ codes[c].tries < CodeTries
    BY <1>3, <1>11
  <1>12. CASE \E v \in Visitors : FailCode(v) /\ code[v] = c
    BY <1>4, <1>12
  <1>13. CASE \E v \in Visitors, e \in Emails : FindCode(v, e, c)
    BY <1>11, <1>13
  <1>14. CASE /\ ~ \E v \in Visitors : FailCode(v) /\ code[v] = c
              /\ ~ \E v \in Visitors, e \in Emails : FindCode(v, e, c)
    <2>1. Same
      BY <1>5, <1>6, <1>7, <1>8, <1>9, <1>14, Kinds, ReadsKeep
         DEF UnlockRight, RecordWrong, GrantExpires, Edit, WindowPasses, vars
    <2>2. Fewer
      <3>1. \A v \in Visitors : Return(v) => Fewer
        BY <1>1 DEF Fewer
      <3>2. QED
        BY <1>2, <1>10, <1>14, <3>1, Locals
    <2>3. QED
      BY <2>1, <2>2 DEF Same, Fewer
  <1>15. QED
    BY <1>12, <1>13, <1>14

LEMMA Errors ==
    ASSUME TypeOK, [Next]_vars
    PROVE  \/ wrong' <= wrong /\ Erring' \subseteq Erring
           \/ wrong' = wrong /\ wrong < PasswordTries
           \/ wrong' = wrong + 1 /\ \E v \in Erring : Erring' = Erring \ {v}
  <1> DEFINE Fewer == Erring' \subseteq Erring
  <1> RequestsOK
    BY Halves
  <1>1. ASSUME NEW v \in Visitors, Return(v) PROVE Erring' = Erring \ {v}
    BY <1>1 DEF Erring, Return, Move, RequestsOK
  <1>2. ASSUME NEW v \in Visitors, Reads(v), ~ UnlockWrong(v) PROVE Fewer
    <2>1. ASSUME NEW step \in {"count", "find", "unlock", "serve", "send", "fail", "consume"},
                 Move(v, step)
          PROVE  Fewer
      BY <2>1 DEF Move, Erring, RequestsOK
    <2> HIDE DEF Fewer
    <2>2. Return(v) => Fewer
      BY <1>1 DEF Fewer
    <2>3. QED
      BY <1>2, <2>1, <2>2
         DEF Reads, BeginCode, BeginVerify, FindNone, BeginUnlock, UnlockLocked,
             BeginAccess, Serve, Crash, CountCodes, FindCode, Resolve
  <1>3. ASSUME NEW v \in Visitors, UnlockWrong(v)
        PROVE  wrong' = wrong /\ wrong < PasswordTries
    BY <1>3 DEF UnlockWrong, MayGuess
  <1>4. ASSUME NEW v \in Visitors, RecordWrong(v)
        PROVE  wrong' = wrong + 1 /\ \E w \in Erring : Erring' = Erring \ {w}
    <2>1. wrong' = wrong + 1 /\ v \in Erring /\ Return(v)
      BY <1>4 DEF RecordWrong, Erring
    <2>2. QED
      BY <1>1, <2>1
  <1>5. ASSUME UNCHANGED local PROVE Fewer
    BY <1>5 DEF local, Erring
  <1> HIDE DEF Fewer
  <1>6. CASE /\ ~ \E v \in Visitors : UnlockWrong(v)
             /\ ~ \E v \in Visitors : RecordWrong(v)
    <2>1. UNCHANGED wrong \/ WindowPasses
      BY <1>6, Kinds, ReadsKeep
         DEF FailCode, ConsumeCode, SendCode, UnlockRight, GrantExpires, Edit, CodeAges, vars
    <2>2. wrong' <= wrong
      BY <2>1 DEF WindowPasses, TypeOK
    <2>3. Fewer
      <3>1. \A v \in Visitors : Return(v) => Fewer
        BY <1>1 DEF Fewer
      <3>2. QED
        BY <1>2, <1>5, <1>6, <3>1, Locals
    <2>4. QED
      BY <2>2, <2>3 DEF Fewer
  <1>7. QED
    BY <1>3, <1>4, <1>6

\* Where tries and those about to be counted stay below the bound.
LEMMA Room ==
    ASSUME NEW A \in SUBSET Visitors, NEW B \in SUBSET Visitors,
           NEW limit \in Nat, NEW n \in Nat, NEW m \in Nat,
           n + Cardinality(A) < limit + Cardinality(Visitors),
           \/ m <= n /\ B \subseteq A
           \/ m = n /\ n < limit
           \/ m = n + 1 /\ \E v \in A : B = A \ {v}
    PROVE  m + Cardinality(B) < limit + Cardinality(Visitors)
  <1>1. /\ Cardinality(A) \in Nat /\ Cardinality(B) \in Nat /\ Cardinality(Visitors) \in Nat
        /\ Cardinality(B) <= Cardinality(Visitors)
    BY GuessersFinite
  <1>2. CASE m <= n /\ B \subseteq A
    <2>1. Cardinality(B) <= Cardinality(A)
      BY <1>2, GuessersFinite
    <2>2. QED
      BY <1>1, <1>2, <2>1
  <1>3. CASE m = n /\ n < limit
    BY <1>1, <1>3
  <1>4. CASE m = n + 1 /\ \E v \in A : B = A \ {v}
    <2>1. Cardinality(B) = Cardinality(A) - 1
      BY <1>4, GuessersFinite
    <2>2. QED
      BY <1>1, <1>4, <2>1
  <1>5. QED
    BY <1>2, <1>3, <1>4

LEMMA GuessStep ==
    ASSUME TypeOK, GrantInv, GuessInv, [Next]_vars
    PROVE  GuessInv'
  <1>1. TablesOK /\ TablesOK'
    BY TablesStep, Halves
  <1>2. ASSUME NEW c \in CodeIds
        PROVE  codes'[c].tries + Cardinality(Failing(c)') < CodeTries + Cardinality(Visitors)
    <2>1. codes[c].tries \in Nat /\ codes'[c].tries \in Nat
      BY <1>1 DEF TablesOK, Codes
    <2>2. Failing(c) \in SUBSET Visitors /\ Failing(c)' \in SUBSET Visitors
      BY DEF Failing
    <2>3. codes[c].tries + Cardinality(Failing(c)) < CodeTries + Cardinality(Visitors)
      BY DEF GuessInv
    <2>4. \/ codes'[c].tries <= codes[c].tries /\ Failing(c)' \subseteq Failing(c)
          \/ codes'[c].tries = codes[c].tries /\ codes[c].tries < CodeTries
          \/ /\ codes'[c].tries = codes[c].tries + 1
             /\ \E v \in Failing(c) : Failing(c)' = Failing(c) \ {v}
      <3>1. codes'[c].tries \in {0, codes[c].tries} => codes'[c].tries <= codes[c].tries
        BY <2>1
      <3>2. QED
        BY <3>1, Failures
    <2> DEFINE A == Failing(c)
               B == Failing(c)'
               n == codes[c].tries
               m == codes'[c].tries
    <2> HIDE DEF A, B, n, m
    <2>5. A \in SUBSET Visitors /\ B \in SUBSET Visitors /\ n \in Nat /\ m \in Nat
      BY <2>1, <2>2 DEF A, B, n, m
    <2>6. n + Cardinality(A) < CodeTries + Cardinality(Visitors)
      BY <2>3 DEF A, n
    <2>7. \/ m <= n /\ B \subseteq A
          \/ m = n /\ n < CodeTries
          \/ m = n + 1 /\ \E v \in A : B = A \ {v}
      BY <2>4 DEF A, B, n, m
    <2>8. m + Cardinality(B) < CodeTries + Cardinality(Visitors)
      BY <2>5, <2>6, <2>7, Room
    <2>9. QED
      BY <2>8 DEF B, m
  <1>3. wrong' + Cardinality(Erring') < PasswordTries + Cardinality(Visitors)
    <2>1. wrong \in Nat /\ wrong' \in Nat
      BY <1>1 DEF TablesOK
    <2>2. Erring \in SUBSET Visitors /\ Erring' \in SUBSET Visitors
      BY DEF Erring
    <2>3. wrong + Cardinality(Erring) < PasswordTries + Cardinality(Visitors)
      BY DEF GuessInv
    <2>4. QED
      BY <2>1, <2>2, <2>3, Errors, Room
  <1>4. QED
    BY <1>2, <1>3 DEF GuessInv

-----------------------------------------------------------------------------

LEMMA Invariance == Safety => []IInv
  <1>1. IInv /\ [Next]_vars => IInv'
    BY TypeStep, GrantStep, SpentStep, GuessStep, AccessStep, OneLiveStep DEF IInv
  <1>2. QED
    BY <1>1, InitHolds, PTL DEF Safety

-----------------------------------------------------------------------------
(***************************************************************************)
(* The results                                                             *)
(***************************************************************************)

\* Everything stays well formed, and every request has read what its next query
\* needs.
THEOREM TypeCorrect == Safety => []TypeOK
  BY Invariance, PTL DEF IInv

\* Nobody gets the file of a restricted link without an address and a password
\* that were good when the request came in, whatever was changed since the
\* cookie was written (readGrant and requireAccess).
THEOREM AccessHolds == Safety => []AccessEarned
  BY Invariance, PTL DEF IInv

\* A code lets one browser in, however many verify it (consumeEmailCode).
THEOREM SpentHolds == Safety => []CodeSpentOnce
  BY Invariance, PTL DEF IInv

\* An address has one code that works, however many are asked for
\* (supersedeEmailCodes).
THEOREM OneLiveHolds == Safety => []OneLiveCode
  BY Invariance, PTL DEF IInv

\* A code and a password are tried no more often than their limit allows and
\* requests are under way (verifyCode and unlock).
THEOREM GuessesHold == Safety => []GuessesBounded
  <1>1. IInv => GuessesBounded
    <2> SUFFICES ASSUME IInv PROVE GuessesBounded
      OBVIOUS
    <2>1. ASSUME NEW c \in CodeIds PROVE codes[c].tries < CodeTries + Cardinality(Visitors)
      <3>1. codes[c].tries \in Nat /\ Failing(c) \in SUBSET Visitors
        BY DEF IInv, TypeOK, Codes, Failing
      <3>2. Cardinality(Failing(c)) \in Nat /\ Cardinality(Visitors) \in Nat
        BY <3>1, GuessersFinite
      <3>3. codes[c].tries + Cardinality(Failing(c)) < CodeTries + Cardinality(Visitors)
        BY DEF IInv, GuessInv
      <3>4. QED
        BY <3>1, <3>2, <3>3
    <2>2. wrong < PasswordTries + Cardinality(Visitors)
      <3>1. wrong \in Nat /\ Erring \in SUBSET Visitors
        BY DEF IInv, TypeOK, Erring
      <3>2. Cardinality(Erring) \in Nat /\ Cardinality(Visitors) \in Nat
        BY <3>1, GuessersFinite
      <3>3. wrong + Cardinality(Erring) < PasswordTries + Cardinality(Visitors)
        BY DEF IInv, GuessInv
      <3>4. QED
        BY <3>1, <3>2, <3>3
    <2>3. QED
      BY <2>1, <2>2 DEF GuessesBounded
  <1>2. QED
    BY <1>1, Invariance, PTL

=============================================================================
