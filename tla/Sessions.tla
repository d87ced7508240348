-------------------------------- MODULE Sessions --------------------------------
(***************************************************************************)
(* Login of user-service, and the requests of protected routes: what they  *)
(* are served as is in the token of a login, which the gateway checks      *)
(* without a look at the accounts.                                         *)
(***************************************************************************)
EXTENDS Accounts, AccessPolicy, Naturals

CONSTANTS
    Attempts, \* login -> [email, secret]: the choices
    Id,       \* registration -> the UUID its account would get, as a number
    RouteOf   \* call -> <<resource, action>>

ASSUME SessionAssumption ==
    /\ Attempts \subseteq [Login -> [email : Email, secret : Secret]]
    /\ Id \in [Registration -> Nat]
    /\ \A r, q \in Registration : Id[r] = Id[q] => r = q

Identity == [user : Registration, company : Registration, role : Role]

VARIABLES
    attempt,  \* login -> [email, secret]
    tokens,   \* login -> the claims of its token, or None
    acts,     \* call -> the claims it is served with, or None
    answer,   \* login, call -> "none" yet, "ok" or the status of a refusal
    shutOut,  \* history: logins refused in spite of an account with their credentials
    unread    \* history: logins whose SELECT failed

sessionVars == <<attempt, tokens, acts, answer, shutOut, unread>>

SessionInit ==
    /\ attempt \in Attempts
    /\ tokens = [l \in Login |-> None]
    /\ acts = [c \in Call |-> None]
    /\ answer = [r \in Login \cup Call |-> "none"]
    /\ shutOut = {} /\ unread = {}

Reply(r, status) == answer[r] = "none" /\ answer' = [answer EXCEPT ![r] = status]

Holders(email) == {u \in users : u.email = email}

\* FindByEmail: First is the row with the smallest id.
Found(email) == {u \in Holders(email) : \A v \in Holders(email) : Id[u.by] <= Id[v.by]}

Knows(l, u) == u.secret = attempt[l].secret

\* Mutant: the password is looked for in all accounts of the address.
GrantedToAny(l) == {u \in Found(attempt[l].email) : \E v \in users : Knows(l, v)}

\* The account a login is for, in a set; empty when it is refused.
Granted(l) == {u \in Found(attempt[l].email) : Knows(l, u)}

Claims(u) == [user |-> u.by, company |-> u.company, role |-> u.role]

\* One SELECT decides.
LogsIn(l) ==
    /\ \E u \in Granted(l) : tokens' = [tokens EXCEPT ![l] = Claims(u)]
    /\ Reply(l, "ok")
    /\ UNCHANGED <<attempt, acts, shutOut, unread>>

Distrust(l) ==
    /\ Reply(l, Refusal("ErrInvalidCredentials"))
    /\ shutOut' = shutOut \cup {x \in {l} : \E u \in Holders(attempt[l].email) : Knows(l, u)}
    /\ UNCHANGED <<attempt, tokens, acts>>

\* The answer does not tell an unknown address from a wrong password.
LoginRefused(l) == Granted(l) = {} /\ Distrust(l) /\ UNCHANGED unread

\* Every error of FindByEmail, a failed SELECT too, is taken for an unknown address.
SelectFails(l) == Distrust(l) /\ unread' = unread \cup {l}

\* A field is empty, or the token cannot be signed.
LoginFails(l) ==
    /\ \E error \in {"ErrInvalidInput", "signing"} : Reply(l, Refusal(error))
    /\ UNCHANGED <<attempt, tokens, acts, shutOut, unread>>

LoginStep(l) == LogsIn(l) \/ LoginRefused(l) \/ SelectFails(l) \/ LoginFails(l)

\* AuthMiddleware: no token, a foreign one, or one older than 24 hours.
CallRefused(c) ==
    /\ Reply(c, "unauthorized")
    /\ UNCHANGED <<attempt, tokens, acts, shutOut, unread>>

\* A client presents a token it got. RBACMiddleware looks at the role in it.
CallEnters(c) ==
    /\ \E l \in Login :
           /\ tokens[l] # None
           /\ IF Enforce(tokens[l].role, RouteOf[c][1], RouteOf[c][2])
                THEN acts' = [acts EXCEPT ![c] = tokens[l]] /\ Reply(c, "ok")
                ELSE UNCHANGED acts /\ Reply(c, "forbidden")
    /\ UNCHANGED <<attempt, tokens, shutOut, unread>>

CallStep(c) == CallRefused(c) \/ CallEnters(c)
===============================================================================
