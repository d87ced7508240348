------------------------------ MODULE GatewayProofs ------------------------------
(***************************************************************************)
(* Gateway, for any numbers of requests, addresses and passwords and any   *)
(* limit: types, who may share an address, who may be shut out, and as     *)
(* whom a protected route is entered. A registration that is about to      *)
(* insert relies on a check that may be old; the invariant says that the   *)
(* check still holds, or somebody has inserted the address since and       *)
(* marked it. A token in turn describes an account that is there for good. *)
(***************************************************************************)
EXTENDS Gateway, FiniteSetTheorems, WellFoundedInduction, NaturalsInduction, TLAPS

LEMMA RefusalIsStatus == ASSUME NEW error PROVE Refusal(error) \in Statuses
  BY DEF Refusal, GRPCCode, HTTPStatus, Statuses

CheckHolds ==
    \A r \in Registration : stage[r] = "insert" => r \in overtaken \/ ~Used(r)

\* Handlers past the first statement have a company to put the user in.
CompanyThere ==
    \A r \in Registration : stage[r] \in {"email", "insert"} => CompanyOf(r) \in companies

\* A row of users was asked for, in a company that is there.
UsersAsAsked ==
    \A u \in users : u.company \in companies /\ u.email = form[u.by].email

TokensGenuine ==
    \A l \in Login : tokens[l] # None =>
        \E u \in users :
            /\ u.email = attempt[l].email /\ u.secret = attempt[l].secret
            /\ tokens[l] = Claims(u)

AccountInv == CheckHolds /\ CompanyThere /\ UsersAsAsked /\ OnlyRacesShareEmails

SessionInv == TokensGenuine /\ OnlyRacesShutOut /\ IdentityIsGenuine

GatewayInv == TypeOK /\ AccountInv /\ SessionInv

LEMMA InitGatewayInv == Init => GatewayInv
  <1> SUFFICES ASSUME Init PROVE GatewayInv
    OBVIOUS
  <1>1. TypeOK
    BY AccountAssumption, SessionAssumption
    DEF Init, LimitInit, AccountInit, SessionInit, TypeOK
  <1>2. AccountInv
    BY DEF Init, AccountInit, AccountInv, CheckHolds, CompanyThere, UsersAsAsked,
           OnlyRacesShareEmails
  <1>3. SessionInv
    BY DEF Init, SessionInit, SessionInv, TokensGenuine, OnlyRacesShutOut, IdentityIsGenuine
  <1> QED
    BY <1>1, <1>2, <1>3 DEF GatewayInv

\* Steps that leave the accounts alone, and steps that only add to them.
LEMMA SameAccounts == ASSUME AccountInv, UNCHANGED accountVars PROVE AccountInv'
  BY DEF AccountInv, CheckHolds, CompanyThere, UsersAsAsked, OnlyRacesShareEmails, accountVars, Used,
         CompanyOf

LEMMA SameSessions ==
    ASSUME SessionInv, UNCHANGED sessionVars, form' = form,
           users \subseteq users', overtaken \subseteq overtaken'
    PROVE  SessionInv'
  <1>1. TokensGenuine'
    BY DEF SessionInv, TokensGenuine, sessionVars, Claims
  <1>2. OnlyRacesShutOut'
    BY DEF SessionInv, OnlyRacesShutOut, sessionVars
  <1>3. IdentityIsGenuine'
    BY DEF SessionInv, IdentityIsGenuine, sessionVars, Claims
  <1> QED
    BY <1>1, <1>2, <1>3 DEF SessionInv

\* The limiter touches no account, and moves no request back before the gate.
LEMMA LimiterPreserves ==
    ASSUME GatewayInv, NEW r \in Request, Limiter(r) PROVE GatewayInv'
  <1>1. UNCHANGED <<accountVars, sessionVars>>
    BY DEF Limiter
  <1>2. gate[r] \in {"new", "first"}
    BY DEF Limiter, LimitStep, Incr, IncrFails, Expire, ExpireFails
  <1>3. /\ r \in Registration => stage[r] = "company"
        /\ r \in Login \cup Call => answer[r] = "none"
    BY <1>2 DEF GatewayInv, TypeOK
  <1>4. /\ gate' \in [Request -> {"new", "first", "passed", "refused"}]
        /\ \A q \in Request : q # r => gate'[q] = gate[q]
        /\ admitted' \subseteq Request
    BY DEF Limiter, LimitStep, Incr, IncrFails, Expire, ExpireFails, Decide, GatewayInv, TypeOK
  <1>5. count' \in Nat /\ ttl' \in BOOLEAN /\ lost' \in BOOLEAN
    <2>1. count \in Nat
      BY DEF GatewayInv, TypeOK
    <2>2. count' \in Nat
      BY <2>1 DEF Limiter, LimitStep, Incr, IncrFails, Expire, ExpireFails
    <2>3. ttl' \in BOOLEAN /\ lost' \in BOOLEAN
      <3>1. ttl \in BOOLEAN /\ lost \in BOOLEAN
        BY DEF GatewayInv, TypeOK
      <3>2. (count > 0) \in BOOLEAN
        BY <2>1
      <3>3. ttl' \in BOOLEAN
        BY <3>1, <3>2, Zenon DEF Limiter, LimitStep, Incr, IncrFails, Expire, ExpireFails
      <3>4. lost' \in BOOLEAN
        BY <3>1, Zenon DEF Limiter, LimitStep, Incr, IncrFails, Expire, ExpireFails
      <3> QED
        BY <3>3, <3>4
    <2> QED
      BY <2>2, <2>3
  <1>6. /\ \A q \in Registration : gate'[q] # "passed" => stage[q] = "company"
        /\ \A q \in Login \cup Call : gate'[q] # "passed" => answer[q] = "none"
    BY <1>3, <1>4 DEF GatewayInv, TypeOK, Request
  <1>7. TypeOK'
    BY <1>1, <1>4, <1>5, <1>6 DEF GatewayInv, TypeOK, accountVars, sessionVars
  <1>8. AccountInv' /\ SessionInv'
    BY <1>1, SameAccounts, SameSessions DEF GatewayInv, accountVars
  <1> QED
    BY <1>7, <1>8 DEF GatewayInv

LEMMA ExpiryPreserves == ASSUME GatewayInv, Expiry PROVE GatewayInv'
  <1>1. TypeOK'
    BY DEF GatewayInv, TypeOK, Expiry, KeyExpires, accountVars, sessionVars
  <1>2. AccountInv' /\ SessionInv'
    BY SameAccounts, SameSessions DEF GatewayInv, accountVars, Expiry
  <1> QED
    BY <1>1, <1>2 DEF GatewayInv

\* A handler's statement keeps the types when the tables do.
LEMMA StageTyped ==
    ASSUME GatewayInv, NEW r \in Registration, Register(r),
           NEW next \in {"company", "email", "insert", "registered"} \cup Statuses,
           Proceed(r, next), form' = form, companies' \subseteq Registration,
           users' \subseteq Account, overtaken' \subseteq Registration
    PROVE  TypeOK'
  <1>1. gate[r] = "passed" /\ UNCHANGED <<limitVars, sessionVars>>
    BY DEF Register
  <1>2. /\ stage' \in [Registration -> {"company", "email", "insert", "registered"} \cup Statuses]
        /\ \A q \in Registration : q # r => stage'[q] = stage[q]
    BY DEF Proceed, GatewayInv, TypeOK
  <1> QED
    BY <1>1, <1>2 DEF GatewayInv, TypeOK, limitVars, sessionVars, Request

\* A statement that refuses the request, or checks it, changes its stage only.
LEMMA RefusalPreserves ==
    ASSUME GatewayInv, NEW r \in Registration, Register(r),
           NEW next \in {"insert"} \cup Statuses, Proceed(r, next),
           next = "insert" => ~Used(r) /\ CompanyOf(r) \in companies,
           UNCHANGED <<form, companies, users, overtaken>>
    PROVE  GatewayInv'
  <1>1. TypeOK'
    BY StageTyped DEF GatewayInv, TypeOK
  <1>2. \A q \in Registration : stage'[q] = IF q = r THEN next ELSE stage[q]
    BY DEF Proceed, GatewayInv, TypeOK
  <1>3. next \in Statuses => next \notin {"email", "insert"}
    BY DEF Statuses
  <1>4. CheckHolds' /\ CompanyThere'
    BY <1>2, <1>3 DEF GatewayInv, AccountInv, CheckHolds, CompanyThere, Used, CompanyOf
  <1>5. UsersAsAsked' /\ OnlyRacesShareEmails'
    BY DEF GatewayInv, AccountInv, UsersAsAsked, OnlyRacesShareEmails
  <1>6. SessionInv'
    BY SameSessions DEF GatewayInv, Register
  <1> QED
    BY <1>1, <1>4, <1>5, <1>6 DEF GatewayInv, AccountInv

LEMMA ResolveCompanyPreserves ==
    ASSUME GatewayInv, NEW r \in Registration, Register(r), ResolveCompany(r) PROVE GatewayInv'
  <1>1. PICK next \in {"email"} \cup Statuses :
           /\ Proceed(r, next)
           /\ next = "email" => CompanyOf(r) \in companies'
    <2>1. Refusal("ErrCompanyNotFound") \in Statuses /\ "email" \notin Statuses
      BY RefusalIsStatus DEF Statuses
    <2> QED
      BY <2>1 DEF ResolveCompany, CompanyOf
  <1>2. /\ UNCHANGED <<form, users, overtaken>>
        /\ companies \subseteq companies' /\ companies' \subseteq Registration
    BY DEF ResolveCompany, GatewayInv, TypeOK
  <1>3. TypeOK'
    BY <1>1, <1>2, StageTyped DEF GatewayInv, TypeOK
  <1>4. \A q \in Registration : stage'[q] = IF q = r THEN next ELSE stage[q]
    BY <1>1 DEF Proceed, GatewayInv, TypeOK
  <1>5. next # "insert" /\ (next \in Statuses => next # "email")
    BY DEF Statuses
  <1>6. CheckHolds' /\ CompanyThere'
    BY <1>1, <1>2, <1>4, <1>5 DEF GatewayInv, AccountInv, CheckHolds, CompanyThere, Used, CompanyOf
  <1>7. UsersAsAsked' /\ OnlyRacesShareEmails'
    BY <1>2 DEF GatewayInv, AccountInv, UsersAsAsked, OnlyRacesShareEmails
  <1>8. SessionInv'
    BY <1>2, SameSessions DEF GatewayInv, Register
  <1> QED
    BY <1>3, <1>6, <1>7, <1>8 DEF GatewayInv, AccountInv

LEMMA CheckEmailPreserves ==
    ASSUME GatewayInv, NEW r \in Registration, Register(r), CheckEmail(r) PROVE GatewayInv'
  <1>1. PICK next \in {"insert"} \cup Statuses :
           /\ Proceed(r, next)
           /\ next = "insert" => ~Used(r)
    <2>1. Refusal("ErrEmailExists") \in Statuses /\ "insert" \notin Statuses
      BY RefusalIsStatus DEF Statuses
    <2> QED
      BY <2>1 DEF CheckEmail
  <1>2. UNCHANGED <<form, companies, users, overtaken>> /\ CompanyOf(r) \in companies
    BY DEF CheckEmail, GatewayInv, AccountInv, CompanyThere
  <1> QED
    BY <1>1, <1>2, RefusalPreserves

LEMMA RegisterFailsPreserves ==
    ASSUME GatewayInv, NEW r \in Registration, Register(r), RegisterFails(r) PROVE GatewayInv'
  <1>1. PICK next \in Statuses : Proceed(r, next)
    BY RefusalIsStatus DEF RegisterFails
  <1>2. UNCHANGED <<form, companies, users, overtaken>> /\ next # "insert"
    BY DEF RegisterFails, Statuses
  <1> QED
    BY <1>1, <1>2, RefusalPreserves

\* The INSERT marks everybody whose check it outdates; if the address was there before,
\* this request is itself marked.
LEMMA InsertUserPreserves ==
    ASSUME GatewayInv, NEW r \in Registration, Register(r), InsertUser(r) PROVE GatewayInv'
  <1>1. form[r].email \in Email /\ CompanyOf(r) \in companies /\ stage[r] = "insert"
    BY DEF InsertUser, GatewayInv, TypeOK, AccountInv, CompanyThere, Form
  <1>2. Row(r) \in Account /\ Row(r).by = r /\ Row(r).email = form[r].email
        /\ Row(r).company = CompanyOf(r)
    BY <1>1, AccountAssumption DEF Row, Account, Role, GatewayInv, TypeOK, Form
  <1>3. r \in overtaken \/ \A u \in users : u.email # form[r].email
    BY <1>1 DEF GatewayInv, AccountInv, CheckHolds, Used
  <1>4. CASE Duplicate(r)
    <2>1. Proceed(r, Refusal("SQLSTATE 23505")) /\ UNCHANGED <<form, companies, users, overtaken>>
      BY <1>4 DEF InsertUser
    <2>2. Refusal("SQLSTATE 23505") \in Statuses /\ "insert" \notin Statuses
      BY RefusalIsStatus DEF Statuses
    <2> QED
      BY <2>1, <2>2, RefusalPreserves
  <1>5. CASE ~Duplicate(r)
    <2>1. /\ Proceed(r, "registered") /\ UNCHANGED <<form, companies>>
          /\ users' = users \cup {Row(r)}
          /\ overtaken' = overtaken \cup
                 {q \in Registration \ {r} : stage[q] = "insert" /\ form[q].email = form[r].email}
      BY <1>5 DEF InsertUser
    <2>2. users' \subseteq Account /\ overtaken' \subseteq Registration
      BY <1>2, <2>1 DEF GatewayInv, TypeOK
    <2>3. TypeOK'
      BY <2>1, <2>2, StageTyped DEF GatewayInv, TypeOK
    <2>4. \A q \in Registration : stage'[q] = IF q = r THEN "registered" ELSE stage[q]
      BY <2>1 DEF Proceed, GatewayInv, TypeOK
    <2>5. CheckHolds'
      BY <1>2, <2>1, <2>4 DEF GatewayInv, AccountInv, CheckHolds, Used
    <2>6. CompanyThere'
      BY <2>1, <2>4 DEF GatewayInv, AccountInv, CompanyThere, CompanyOf
    <2>7. UsersAsAsked'
      BY <1>1, <1>2, <2>1 DEF GatewayInv, AccountInv, UsersAsAsked
    <2>8. OnlyRacesShareEmails'
      BY <1>2, <1>3, <2>1 DEF GatewayInv, AccountInv, OnlyRacesShareEmails
    <2>9. SessionInv'
      BY <2>1, SameSessions DEF GatewayInv, Register
    <2> QED
      BY <2>3, <2>5, <2>6, <2>7, <2>8, <2>9 DEF GatewayInv, AccountInv
  <1> QED
    BY <1>4, <1>5

\* An address that has an account has a first one.
LEMMA FirstExists ==
    ASSUME TypeOK, NEW email, NEW u \in Holders(email) PROVE Found(email) # {}
  <1> DEFINE ids == {Id[v.by] : v \in Holders(email)}
  <1>1. \A v \in Holders(email) : Id[v.by] \in Nat
    BY SessionAssumption DEF TypeOK, Holders, Account
  <1>2. ids \subseteq Nat /\ ids # {}
    BY <1>1
  <1>3. PICK n \in ids : \A k \in ids : ~(<<k, n>> \in OpToRel(<, Nat))
    BY <1>2, NatLessThanWellFounded, WFMin
  <1>4. PICK v \in Holders(email) : n = Id[v.by]
    BY <1>3
  <1>5. ASSUME NEW w \in Holders(email) PROVE Id[v.by] <= Id[w.by]
    <2>1. Id[w.by] \in ids /\ Id[w.by] \in Nat /\ n \in Nat
      BY <1>1, <1>2, <1>3
    <2>2. ~(Id[w.by] < n)
      BY <1>3, <2>1 DEF OpToRel
    <2> QED
      BY <1>4, <2>1, <2>2
  <1> QED
    BY <1>4, <1>5 DEF Found

\* Replies keep the types.
LEMMA ReplyTyped ==
    ASSUME TypeOK, UNCHANGED <<limitVars, accountVars, attempt>>,
           NEW r \in Login \cup Call, gate[r] = "passed",
           NEW status \in {"ok"} \cup Statuses, Reply(r, status),
           tokens' \in [Login -> Identity \cup {None}], acts' \in [Call -> Identity \cup {None}],
           shutOut' \subseteq Login, unread' \subseteq Login
    PROVE  TypeOK'
  <1>1. /\ answer' \in [Login \cup Call -> {"none", "ok"} \cup Statuses]
        /\ \A q \in Login \cup Call : q # r => answer'[q] = answer[q]
    BY DEF Reply, TypeOK
  <1> QED
    BY <1>1 DEF TypeOK, limitVars, accountVars

LEMMA ClaimsTyped == ASSUME TypeOK, NEW u \in users PROVE Claims(u) \in Identity
  BY DEF TypeOK, Account, Claims, Identity

LEMMA LogsInPreserves ==
    ASSUME GatewayInv, NEW l \in Login, LogIn(l), LogsIn(l) PROVE GatewayInv'
  <1>1. PICK u \in Granted(l) : tokens' = [tokens EXCEPT ![l] = Claims(u)]
    BY DEF LogsIn
  <1>2. u \in users /\ u.email = attempt[l].email /\ u.secret = attempt[l].secret
    BY <1>1 DEF Granted, Found, Holders, Knows
  <1>3. /\ UNCHANGED <<attempt, acts, shutOut, unread>> /\ UNCHANGED <<limitVars, accountVars>>
        /\ Reply(l, "ok") /\ gate[l] = "passed"
    BY DEF LogsIn, LogIn
  <1>4. tokens' \in [Login -> Identity \cup {None}]
    BY <1>1, <1>2, ClaimsTyped DEF GatewayInv, TypeOK
  <1>5. TypeOK'
    BY <1>3, <1>4, ReplyTyped DEF GatewayInv, TypeOK
  <1>6. AccountInv'
    BY <1>3, SameAccounts DEF GatewayInv
  <1>7. \A k \in Login : tokens'[k] = IF k = l THEN Claims(u) ELSE tokens[k]
    BY <1>1 DEF GatewayInv, TypeOK
  <1>8. TokensGenuine'
    BY <1>2, <1>3, <1>7 DEF GatewayInv, SessionInv, TokensGenuine, accountVars, Claims
  <1>9. OnlyRacesShutOut' /\ IdentityIsGenuine'
    BY <1>3 DEF GatewayInv, SessionInv, OnlyRacesShutOut, IdentityIsGenuine, accountVars, Claims
  <1> QED
    BY <1>5, <1>6, <1>8, <1>9 DEF GatewayInv, SessionInv

\* Somebody is shut out only by another account of the address.
LEMMA LoginRefusedPreserves ==
    ASSUME GatewayInv, NEW l \in Login, LogIn(l), LoginRefused(l) PROVE GatewayInv'
  <1>1. /\ UNCHANGED <<attempt, tokens, acts>> /\ UNCHANGED <<limitVars, accountVars>>
        /\ Granted(l) = {} /\ gate[l] = "passed" /\ unread' = unread
        /\ shutOut' = shutOut \cup {x \in {l} : \E u \in Holders(attempt[l].email) : Knows(l, u)}
    BY DEF LoginRefused, Distrust, LogIn
  <1>2. PICK status \in Statuses : Reply(l, status)
    BY RefusalIsStatus DEF LoginRefused, Distrust
  <1>3. shutOut' \subseteq Login /\ unread' \subseteq Login
    BY <1>1 DEF GatewayInv, TypeOK
  <1>4. TypeOK'
    BY <1>1, <1>2, <1>3, ReplyTyped DEF GatewayInv, TypeOK
  <1>5. AccountInv'
    BY <1>1, SameAccounts DEF GatewayInv
  <1>6. ASSUME NEW u \in Holders(attempt[l].email), Knows(l, u)
        PROVE  \E r \in overtaken : form[r].email = attempt[l].email
    <2>1. PICK v \in Found(attempt[l].email) : TRUE
      BY <1>6, FirstExists DEF GatewayInv
    <2>2. ~Knows(l, v) /\ v # u
      BY <1>1, <1>6, <2>1 DEF Granted
    <2>3. u \in users /\ v \in users /\ u.email = attempt[l].email /\ v.email = attempt[l].email
      BY <2>1 DEF Found, Holders
    <2> QED
      BY <2>2, <2>3 DEF GatewayInv, AccountInv, OnlyRacesShareEmails, UsersAsAsked
  <1>7. OnlyRacesShutOut'
    BY <1>1, <1>6 DEF GatewayInv, SessionInv, OnlyRacesShutOut, accountVars
  <1>8. TokensGenuine' /\ IdentityIsGenuine'
    BY <1>1 DEF GatewayInv, SessionInv, TokensGenuine, IdentityIsGenuine, accountVars, Claims
  <1> QED
    BY <1>4, <1>5, <1>7, <1>8 DEF GatewayInv, SessionInv

\* A login that learns nothing of its account is marked.
LEMMA SelectFailsPreserves ==
    ASSUME GatewayInv, NEW l \in Login, LogIn(l), SelectFails(l) PROVE GatewayInv'
  <1>1. /\ UNCHANGED <<attempt, tokens, acts>> /\ UNCHANGED <<limitVars, accountVars>>
        /\ gate[l] = "passed" /\ unread' = unread \cup {l}
        /\ shutOut' \subseteq shutOut \cup {l}
    BY DEF SelectFails, Distrust, LogIn
  <1>2. PICK status \in Statuses : Reply(l, status)
    BY RefusalIsStatus DEF SelectFails, Distrust
  <1>3. shutOut' \subseteq Login /\ unread' \subseteq Login
    BY <1>1 DEF GatewayInv, TypeOK
  <1>4. TypeOK'
    BY <1>1, <1>2, <1>3, ReplyTyped DEF GatewayInv, TypeOK
  <1>5. AccountInv'
    BY <1>1, SameAccounts DEF GatewayInv
  <1>6. OnlyRacesShutOut'
    BY <1>1 DEF GatewayInv, SessionInv, OnlyRacesShutOut, accountVars
  <1>7. TokensGenuine' /\ IdentityIsGenuine'
    BY <1>1 DEF GatewayInv, SessionInv, TokensGenuine, IdentityIsGenuine, accountVars, Claims
  <1> QED
    BY <1>4, <1>5, <1>6, <1>7 DEF GatewayInv, SessionInv

\* A reply that grants nothing.
LEMMA BareReplyPreserves ==
    ASSUME GatewayInv, NEW r \in Login \cup Call, gate[r] = "passed",
           NEW status \in Statuses, Reply(r, status),
           UNCHANGED <<limitVars, accountVars>>,
           UNCHANGED <<attempt, tokens, acts, shutOut, unread>>
    PROVE  GatewayInv'
  <1>1. TypeOK'
    BY ReplyTyped DEF GatewayInv, TypeOK
  <1>2. AccountInv'
    BY SameAccounts DEF GatewayInv
  <1>3. SessionInv'
    BY DEF GatewayInv, SessionInv, TokensGenuine, OnlyRacesShutOut, IdentityIsGenuine, accountVars,
           Claims
  <1> QED
    BY <1>1, <1>2, <1>3 DEF GatewayInv

LEMMA LogInPreserves == ASSUME GatewayInv, NEW l \in Login, LogIn(l) PROVE GatewayInv'
  <1>1. CASE LogsIn(l)
    BY <1>1, LogsInPreserves
  <1>2. CASE LoginRefused(l)
    BY <1>2, LoginRefusedPreserves
  <1>3. CASE LoginFails(l)
    <2>1. PICK status \in Statuses : Reply(l, status)
      BY <1>3, RefusalIsStatus DEF LoginFails
    <2>2. /\ UNCHANGED <<attempt, tokens, acts, shutOut, unread>> /\ UNCHANGED <<limitVars, accountVars>>
          /\ gate[l] = "passed"
      BY <1>3 DEF LoginFails, LogIn
    <2> QED
      BY <2>1, <2>2, BareReplyPreserves
  <1>4. CASE SelectFails(l)
    BY <1>4, SelectFailsPreserves
  <1> QED
    BY <1>1, <1>2, <1>3, <1>4 DEF LogIn, LoginStep

LEMMA ProtectedPreserves == ASSUME GatewayInv, NEW c \in Call, Protected(c) PROVE GatewayInv'
  <1>1. UNCHANGED <<limitVars, accountVars>> /\ gate[c] = "passed"
    BY DEF Protected
  <1>2. "unauthorized" \in Statuses /\ "forbidden" \in Statuses
    BY DEF Statuses
  <1>3. CASE CallRefused(c)
    BY <1>1, <1>2, <1>3, BareReplyPreserves DEF CallRefused
  <1>4. CASE CallEnters(c)
    <2>1. PICK l \in Login :
             /\ tokens[l] # None
             /\ \/ acts' = [acts EXCEPT ![c] = tokens[l]] /\ Reply(c, "ok")
                \/ UNCHANGED acts /\ Reply(c, "forbidden")
      BY <1>4 DEF CallEnters
    <2>2. UNCHANGED <<attempt, tokens, shutOut, unread>>
      BY <1>4 DEF CallEnters
    <2>3. CASE UNCHANGED acts /\ Reply(c, "forbidden")
      BY <1>1, <1>2, <2>2, <2>3, BareReplyPreserves
    <2>4. CASE acts' = [acts EXCEPT ![c] = tokens[l]] /\ Reply(c, "ok")
      <3>1. acts' \in [Call -> Identity \cup {None}]
        BY <2>4 DEF GatewayInv, TypeOK
      <3>2. TypeOK'
        BY <1>1, <2>2, <2>4, <3>1, ReplyTyped DEF GatewayInv, TypeOK
      <3>3. AccountInv'
        BY <1>1, SameAccounts DEF GatewayInv
      <3>4. \A d \in Call : acts'[d] = IF d = c THEN tokens[l] ELSE acts[d]
        BY <2>4 DEF GatewayInv, TypeOK
      <3>5. TokensGenuine' /\ OnlyRacesShutOut'
        BY <1>1, <2>2 DEF GatewayInv, SessionInv, TokensGenuine, OnlyRacesShutOut, accountVars, Claims
      <3>6. PICK u \in users :
               /\ u.email = attempt[l].email /\ u.secret = attempt[l].secret
               /\ tokens[l] = Claims(u)
        BY <2>1 DEF GatewayInv, SessionInv, TokensGenuine
      <3>7. IdentityIsGenuine'
        <4>1. UNCHANGED <<users, attempt>>
          BY <1>1, <2>2 DEF accountVars
        <4> SUFFICES ASSUME NEW d \in Call, acts'[d] # None
                     PROVE  \E k \in Login, v \in users :
                                /\ v.email = attempt[k].email /\ v.secret = attempt[k].secret
                                /\ acts'[d] = Claims(v)
          BY <4>1 DEF IdentityIsGenuine, Claims
        <4>2. CASE d = c
          BY <3>4, <3>6, <4>2
        <4>3. CASE d # c
          BY <3>4, <4>3 DEF GatewayInv, SessionInv, IdentityIsGenuine
        <4> QED
          BY <4>2, <4>3
      <3> QED
        BY <3>2, <3>3, <3>5, <3>7 DEF GatewayInv, SessionInv
    <2> QED
      BY <2>1, <2>3, <2>4
  <1> QED
    BY <1>3, <1>4 DEF Protected, CallStep

THEOREM GatewayInvariant == Spec => []GatewayInv
  <1>1. ASSUME GatewayInv, [Next]_vars PROVE GatewayInv'
    <2>1. ASSUME NEW r \in Registration, Register(r) PROVE GatewayInv'
      <3>1. RegisterStep(r)
        BY <2>1 DEF Register
      <3> QED
        BY <1>1, <2>1, <3>1, ResolveCompanyPreserves, CheckEmailPreserves, InsertUserPreserves,
           RegisterFailsPreserves DEF RegisterStep
    <2>2. CASE UNCHANGED vars
      <3>1. TypeOK'
        BY <1>1, <2>2 DEF vars, limitVars, accountVars, sessionVars, GatewayInv, TypeOK
      <3>2. AccountInv' /\ SessionInv'
        BY <1>1, <2>2, SameAccounts, SameSessions DEF vars, GatewayInv, accountVars
      <3> QED
        BY <3>1, <3>2 DEF GatewayInv
    <2> QED
      BY <1>1, <2>1, <2>2, LimiterPreserves, ExpiryPreserves, LogInPreserves, ProtectedPreserves
      DEF Next
  <1> QED
    BY <1>1, InitGatewayInv, PTL DEF Spec

\* Gateway: every variable keeps its type, and no refused request reaches user-service.
THEOREM GatewayTypeOK == Spec => []TypeOK
  <1>1. GatewayInv => TypeOK
    BY DEF GatewayInv
  <1> QED
    BY <1>1, GatewayInvariant, PTL

\* Register: two accounts share an address only when the INSERT of one fell between the
\* check and the INSERT of the other.
THEOREM AccountsShareEmailsOnlyByRaces == Spec => []OnlyRacesShareEmails
  <1>1. GatewayInv => OnlyRacesShareEmails
    BY DEF GatewayInv, AccountInv
  <1> QED
    BY <1>1, GatewayInvariant, PTL

\* Login: with the right address and password one is refused only after a race of
\* registrations for that address, or by a login whose SELECT failed.
THEOREM OnlyRacesShutAccountsOut == Spec => []OnlyRacesShutOut
  <1>1. GatewayInv => OnlyRacesShutOut
    BY DEF GatewayInv, SessionInv
  <1> QED
    BY <1>1, GatewayInvariant, PTL

\* Protected routes: the caller acts as an account whose credentials a login gave.
THEOREM CallersAreGenuine == Spec => []IdentityIsGenuine
  <1>1. GatewayInv => IdentityIsGenuine
    BY DEF GatewayInv, SessionInv
  <1> QED
    BY <1>1, GatewayInvariant, PTL
-------------------------------------------------------------------------------
(***************************************************************************)
(* The limit. A key counts more requests than it admits as long as the one *)
(* that created it waits for its EXPIRE; there is only one such request.   *)
(***************************************************************************)

CreatorWaits ==
    \A r \in Request : gate[r] = "first" =>
        /\ Cardinality(admitted) < count
        /\ Limit = 0 \/ Cardinality(admitted) < Limit
        /\ \A s \in Request : gate[s] = "first" => s = r

CountInv ==
    /\ IsFiniteSet(admitted)
    /\ Cardinality(admitted) <= count
    /\ AdmittedWithinLimit
    /\ ttl => count > 0 /\ \A r \in Request : gate[r] # "first"
    /\ CreatorWaits

\* A decision admits at most one request, and none beyond the limit.
LEMMA DecideCounts ==
    ASSUME IsFiniteSet(admitted), NEW r \in Request, NEW n \in Nat, Decide(r, n)
    PROVE  /\ IsFiniteSet(admitted') /\ Cardinality(admitted') \in Nat
           /\ Cardinality(admitted) \in Nat
           /\ \/ Cardinality(admitted') = Cardinality(admitted)
              \/ Cardinality(admitted') = Cardinality(admitted) + 1 /\ n <= Limit
           /\ \/ gate' = [gate EXCEPT ![r] = "passed"]
              \/ gate' = [gate EXCEPT ![r] = "refused"]
  <1>1. Cardinality(admitted) \in Nat
    BY FS_CardinalityType
  <1>2. CASE UNCHANGED admitted
    BY <1>1, <1>2 DEF Decide
  <1>3. CASE admitted' = admitted \cup {r} /\ Within(n)
    <2>1. IsFiniteSet(admitted') /\ Cardinality(admitted') =
              IF r \in admitted THEN Cardinality(admitted) ELSE Cardinality(admitted) + 1
      BY <1>3, FS_AddElement
    <2> QED
      BY <1>1, <1>3, <2>1 DEF Decide, Within
  <1> QED
    BY <1>2, <1>3 DEF Decide

LEMMA IncrCounts ==
    ASSUME TypeOK, CountInv, NEW r \in Request, Incr(r)
    PROVE  CountInv'
  <1>1. count \in Nat /\ Limit \in Nat /\ Cardinality(admitted) \in Nat /\ count' = count + 1 /\ UNCHANGED ttl
    BY LimitAssumption, FS_CardinalityType DEF TypeOK, CountInv, Incr
  <1>2. CASE count = 0
    <2>1. UNCHANGED admitted /\ gate' = [gate EXCEPT ![r] = "first"] /\ Cardinality(admitted) = 0
      BY <1>1, <1>2 DEF Incr, Creates, CountInv
    <2>2. ~ttl /\ \A s \in Request : gate[s] # "first"
      BY <1>1, <1>2 DEF CountInv, CreatorWaits
    <2>3. \A s \in Request : gate'[s] = "first" => s = r
      BY <2>1, <2>2 DEF TypeOK
    <2> QED
      BY <1>1, <1>2, <2>1, <2>2, <2>3 DEF CountInv, CreatorWaits, AdmittedWithinLimit
  <1>3. CASE count # 0
    <2>1. Decide(r, count + 1)
      BY <1>1, <1>3 DEF Incr, Creates
    <2>2. \A s \in Request : gate'[s] = "first" => gate[s] = "first"
      BY <1>1, <2>1, DecideCounts DEF CountInv, TypeOK
    <2> QED
      BY <1>1, <1>3, <2>1, <2>2, DecideCounts DEF CountInv, CreatorWaits, AdmittedWithinLimit
  <1> QED
    BY <1>2, <1>3

LEMMA IncrFailsCounts ==
    ASSUME TypeOK, CountInv, NEW r \in Request, IncrFails(r)
    PROVE  CountInv'
  <1>1. /\ count \in Nat /\ Cardinality(admitted) \in Nat /\ Limit \in Nat
        /\ UNCHANGED <<ttl, admitted>> /\ count' \in Nat /\ count' >= count
    BY LimitAssumption, FS_CardinalityType DEF TypeOK, CountInv, IncrFails
  <1>2. \A s \in Request : gate'[s] = "first" => gate[s] = "first"
    BY DEF IncrFails, TypeOK
  <1> QED
    BY <1>1, <1>2 DEF CountInv, CreatorWaits, AdmittedWithinLimit

LEMMA ExpireCounts ==
    ASSUME TypeOK, CountInv, NEW r \in Request, Expire(r) \/ ExpireFails(r)
    PROVE  CountInv'
  <1>1. count \in Nat /\ Limit \in Nat /\ Decide(r, 1) /\ gate[r] = "first" /\ UNCHANGED count
    BY LimitAssumption DEF TypeOK, Expire, ExpireFails
  <1>2. \A s \in Request : gate'[s] # "first"
    BY <1>1, DecideCounts DEF CountInv, CreatorWaits, TypeOK
  <1>3. Cardinality(admitted) < count /\ (Limit = 0 \/ Cardinality(admitted) < Limit)
    BY <1>1 DEF CountInv, CreatorWaits
  <1>4. /\ IsFiniteSet(admitted') /\ Cardinality(admitted') <= count
        /\ Cardinality(admitted') <= Limit /\ count > 0
    BY <1>1, <1>3, DecideCounts DEF CountInv, AdmittedWithinLimit
  <1> QED
    BY <1>1, <1>2, <1>4 DEF CountInv, CreatorWaits, AdmittedWithinLimit

LEMMA CountInvNext == TypeOK /\ CountInv /\ [Next]_vars => CountInv'
  <1> SUFFICES ASSUME TypeOK, CountInv, [Next]_vars PROVE CountInv'
    OBVIOUS
  <1>1. CASE \E r \in Request : Limiter(r)
    BY <1>1, IncrCounts, IncrFailsCounts, ExpireCounts DEF Limiter, LimitStep
  <1>2. CASE Expiry
    <2>1. /\ admitted' = {} /\ count' = 0 /\ ttl' = FALSE /\ UNCHANGED gate
          /\ \A r \in Request : gate[r] # "first"
      BY <1>2 DEF Expiry, KeyExpires, CountInv
    <2>2. IsFiniteSet({}) /\ Cardinality({}) = 0
      BY FS_EmptySet
    <2> QED
      BY <2>1, <2>2, LimitAssumption DEF CountInv, CreatorWaits, AdmittedWithinLimit
  <1>3. CASE UNCHANGED limitVars
    BY <1>3 DEF limitVars, CountInv, CreatorWaits, AdmittedWithinLimit
  <1> QED
    BY <1>1, <1>2, <1>3 DEF Next, Register, LogIn, Protected, vars

\* RateLimitMiddleware: as long as a key lives it admits no more requests than the limit,
\* in whatever order the requests count, decide and set the TTL.
THEOREM KeyAdmitsWithinLimit == Spec => []AdmittedWithinLimit
  <1>1. Init => CountInv
    BY FS_EmptySet, LimitAssumption
    DEF Init, LimitInit, CountInv, CreatorWaits, AdmittedWithinLimit
  <1>2. CountInv => AdmittedWithinLimit
    BY DEF CountInv
  <1> QED
    BY <1>1, <1>2, CountInvNext, GatewayTypeOK, PTL DEF Spec

LEMMA LimitSteps ==
    ASSUME TypeOK, [Next]_vars
    PROVE  \/ KeyExpires
           \/ \E r \in Request : Incr(r) \/ IncrFails(r) \/ Expire(r) \/ ExpireFails(r)
           \/ UNCHANGED limitVars
  BY DEF Next, vars, Expiry, Limiter, LimitStep, Register, LogIn, Protected

\* RateLimitMiddleware: a key that counts will die, or the EXPIRE of the request that
\* created it failed: with an error nobody looks at, or with an INCR of unknown outcome.
THEOREM CountedKeysDie == Spec => []KeysDieUnlessLost
  <1>1. Init => KeysDieUnlessLost
    BY DEF Init, LimitInit, KeysDieUnlessLost
  <1>2. TypeOK /\ KeysDieUnlessLost /\ [Next]_vars => KeysDieUnlessLost'
    <2> SUFFICES ASSUME TypeOK, KeysDieUnlessLost, [Next]_vars PROVE KeysDieUnlessLost'
      OBVIOUS
    <2>1. CASE KeyExpires
      BY <2>1 DEF KeyExpires, KeysDieUnlessLost
    <2>2. ASSUME NEW r \in Request, Incr(r) PROVE KeysDieUnlessLost'
      <3>1. CASE count = 0
        <4>1. gate'[r] = "first"
          BY <2>2, <3>1 DEF Incr, Creates, TypeOK
        <4> QED
          BY <4>1 DEF KeysDieUnlessLost
      <3>2. CASE count # 0
        <4>1. Decide(r, count + 1) /\ gate[r] = "new"
          BY <2>2, <3>2 DEF Incr, Creates, TypeOK
        <4>2. \A s \in Request : gate[s] = "first" => gate'[s] = "first"
          BY <4>1 DEF Decide, TypeOK
        <4> QED
          BY <2>2, <3>2, <4>2 DEF Incr, KeysDieUnlessLost, TypeOK
      <3> QED
        BY <3>1, <3>2
    <2>3. ASSUME NEW r \in Request, IncrFails(r) PROVE KeysDieUnlessLost'
      <3>1. \A s \in Request : gate[s] = "first" => gate'[s] = "first"
        BY <2>3 DEF IncrFails, TypeOK
      <3>2. /\ ttl' = ttl
            /\ \/ count' = count /\ lost' = lost
               \/ lost' = (lost \/ count = 0)
        BY <2>3, Zenon DEF IncrFails
      <3>3. count = 0 \/ count > 0
        BY DEF TypeOK
      <3>4. (count' = count /\ (lost => lost')) \/ (lost \/ count = 0 => lost')
        BY <3>2, Zenon
      <3>5. ttl \/ (\E s \in Request : gate[s] = "first") =>
                ttl' \/ (\E s \in Request : gate'[s] = "first")
        BY <3>1, <3>2, Zenon
      <3> QED
        BY <3>3, <3>4, <3>5, Zenon DEF KeysDieUnlessLost
    <2>4. ASSUME NEW r \in Request, Expire(r) \/ ExpireFails(r) PROVE KeysDieUnlessLost'
      BY <2>4 DEF Expire, ExpireFails, KeysDieUnlessLost, TypeOK
    <2>5. CASE UNCHANGED limitVars
      BY <2>5 DEF limitVars, KeysDieUnlessLost
    <2> QED
      BY <2>1, <2>2, <2>3, <2>4, <2>5, LimitSteps
  <1> QED
    BY <1>1, <1>2, GatewayTypeOK, PTL DEF Spec

\* RateLimitMiddleware: once the EXPIRE of a key is lost nothing ever sets it again, as
\* only the first request tries; at the limit the client is blocked for good.
THEOREM LostExpiryBlocksForEver == Spec => UndyingKeysBlock
  <1> DEFINE Blocks == Undying => Undying' /\ (count >= Limit => admitted' = admitted)
  <1>1. TypeOK /\ [Next]_vars => Blocks
    <2> SUFFICES ASSUME TypeOK, [Next]_vars, Undying PROVE Undying' /\ (count >= Limit => admitted' = admitted)
      OBVIOUS
    <2>0. count \in Nat \ {0} /\ ~ttl /\ Limit \in Nat /\ \A r \in Request : gate[r] # "first"
      BY LimitAssumption DEF Undying, TypeOK
    <2>1. ASSUME NEW r \in Request, Incr(r) PROVE Undying' /\ (count >= Limit => admitted' = admitted)
      <3>1. Decide(r, count + 1) /\ count' = count + 1 /\ ttl' = ttl
        BY <2>0, <2>1 DEF Incr, Creates
      <3>2. \A s \in Request : gate'[s] # "first"
        BY <2>0, <3>1 DEF Decide, TypeOK
      <3>3. count >= Limit => admitted' = admitted
        BY <2>0, <3>1 DEF Decide, Within
      <3> QED
        BY <2>0, <3>1, <3>2, <3>3 DEF Undying
    <2>2. ASSUME NEW r \in Request, IncrFails(r) PROVE Undying' /\ admitted' = admitted
      <3>1. \A s \in Request : gate'[s] # "first"
        BY <2>0, <2>2 DEF IncrFails, TypeOK
      <3> QED
        BY <2>0, <2>2, <3>1 DEF IncrFails, Undying
    <2>3. ~KeyExpires /\ \A r \in Request : ~Expire(r) /\ ~ExpireFails(r)
      BY <2>0 DEF KeyExpires, Expire, ExpireFails
    <2>4. CASE UNCHANGED limitVars
      BY <2>4 DEF limitVars, Undying
    <2> QED
      BY <2>1, <2>2, <2>3, <2>4, LimitSteps
  <1>2. TypeOK /\ [Next]_vars => [Blocks]_vars
    BY <1>1
  <1> QED
    BY <1>2, GatewayTypeOK, PTL DEF Spec, UndyingKeysBlock
===============================================================================
