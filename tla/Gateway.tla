--------------------------------- MODULE Gateway ---------------------------------
(***************************************************************************)
(* The gateway in front of user-service: each request of a client passes   *)
(* the rate limiter, and registers, logs in, or enters a protected route   *)
(* with the token of a login.                                              *)
(***************************************************************************)
EXTENDS RateLimit, Sessions, FiniteSets

vars == <<limitVars, accountVars, sessionVars>>

Init == LimitInit /\ AccountInit /\ SessionInit

Limiter(r) == LimitStep(r) /\ UNCHANGED <<accountVars, sessionVars>>

\* Mutant: the limiter does not abort the chain of handlers.
RegisterAnyway(r) ==
    /\ gate[r] \in {"passed", "refused"}
    /\ RegisterStep(r)
    /\ UNCHANGED <<limitVars, sessionVars>>

Register(r) ==
    /\ gate[r] = "passed"
    /\ RegisterStep(r)
    /\ UNCHANGED <<limitVars, sessionVars>>

LogIn(l) ==
    /\ gate[l] = "passed"
    /\ LoginStep(l)
    /\ UNCHANGED <<limitVars, accountVars>>

Protected(c) ==
    /\ gate[c] = "passed"
    /\ CallStep(c)
    /\ UNCHANGED <<limitVars, accountVars>>

Expiry == KeyExpires /\ UNCHANGED <<accountVars, sessionVars>>

Next ==
    \/ Expiry
    \/ \E r \in Request : Limiter(r)
    \/ \E r \in Registration : Register(r)
    \/ \E l \in Login : LogIn(l)
    \/ \E c \in Call : Protected(c)

Spec == Init /\ [][Next]_vars

\* A request that has reached the limiter goes on, and Redis drops keys in time. Clients
\* are free to send their requests or not.
FairSpec ==
    /\ Spec
    /\ WF_vars(Expiry)
    /\ \A r \in Request : WF_vars(gate[r] # "new" /\ Limiter(r))
-------------------------------------------------------------------------------
(***************************************************************************)
(* Properties                                                              *)
(***************************************************************************)

\* Every variable has its type; a refused request reaches no service.
TypeOK ==
    /\ gate \in [Request -> {"new", "first", "passed", "refused"}]
    /\ count \in Nat
    /\ ttl \in BOOLEAN
    /\ admitted \subseteq Request
    /\ lost \in BOOLEAN
    /\ form \in [Registration -> Form]
    /\ stage \in [Registration -> {"company", "email", "insert", "registered"} \cup Statuses]
    /\ companies \subseteq Registration
    /\ users \subseteq Account
    /\ overtaken \subseteq Registration
    /\ attempt \in [Login -> [email : Email, secret : Secret]]
    /\ tokens \in [Login -> Identity \cup {None}]
    /\ acts \in [Call -> Identity \cup {None}]
    /\ answer \in [Login \cup Call -> {"none", "ok"} \cup Statuses]
    /\ shutOut \subseteq Login
    /\ unread \subseteq Login
    /\ \A r \in Registration : gate[r] # "passed" => stage[r] = "company"
    /\ \A r \in Login \cup Call : gate[r] # "passed" => answer[r] = "none"

\* "maximum number of requests": while a key lives it lets no more than Limit through,
\* however the INCRs of concurrent requests fall. (Requests that pass because Redis
\* gave no answer are not counted.)
AdmittedWithinLimit == Cardinality(admitted) <= Limit

\* A client over the limit is let in again: the key dies, unless the EXPIRE of the
\* request that created it never reached Redis.
BlockedClientsRecover == (count > Limit /\ ~lost) ~> (count = 0 \/ lost)

\* Why it dies: a key has its TTL, or the request that is to set it is on its way, or that
\* EXPIRE was lost.
KeysDieUnlessLost == count > 0 => ttl \/ lost \/ \E r \in Request : gate[r] = "first"

\* A key without a TTL, and nobody left who would set it.
Undying == count > 0 /\ ~ttl /\ \A r \in Request : gate[r] # "first"

\* What a lost EXPIRE means: such a key stays for good, and at the limit the client is
\* admitted by it never again, only past it while Redis gives no answer.
UndyingKeysBlock == [][Undying => Undying' /\ (count >= Limit => admitted' = admitted)]_vars

\* ExistsByEmail looks in all companies ("One email may register for one company only",
\* init.sql:28; architecture.md:265 says otherwise): two accounts share an address only if
\* one of them was inserted between the check and the INSERT of the other.
OnlyRacesShareEmails ==
    \A u, v \in users : u # v /\ u.email = v.email => u.by \in overtaken \/ v.by \in overtaken

\* Login knows no company: whoever registered and gives the right address and password is
\* let in, unless a race of registrations has put the address into two companies, or the
\* SELECT of the login failed, which it takes for a wrong password.
OnlyRacesShutOut ==
    \A l \in shutOut \ unread : \E r \in overtaken : form[r].email = attempt[l].email

\* A protected request is served as the account whose address and password a login of
\* the client gave, with the company and the role that account has in the database.
IdentityIsGenuine ==
    \A c \in Call : acts[c] # None =>
        \E l \in Login, u \in users :
            /\ u.email = attempt[l].email /\ u.secret = attempt[l].secret
            /\ acts[c] = Claims(u)
===============================================================================
