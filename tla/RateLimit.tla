-------------------------------- MODULE RateLimit --------------------------------
(***************************************************************************)
(* The rate limiter of gw-gateway, for the requests of one client address: *)
(* INCR of a key in Redis, EXPIRE for the request that created it. Every   *)
(* route passes it. A key that has its TTL dies at some time; one without  *)
(* lives for ever.                                                         *)
(***************************************************************************)
EXTENDS AuthRequests, Naturals

CONSTANT Limit  \* requestsPerMinute

ASSUME LimitAssumption == Limit \in Nat

VARIABLES
    gate,      \* request -> "new", "first" (between INCR and EXPIRE), "passed", "refused"
    count,     \* the value of the key; 0 when there is none
    ttl,       \* the key has a TTL
    admitted,  \* history: requests let through since the key was created
    lost       \* history: EXPIRE did not reach the key that is there

limitVars == <<gate, count, ttl, admitted, lost>>

LimitInit ==
    /\ gate = [r \in Request |-> "new"]
    /\ count = 0
    /\ ttl = FALSE
    /\ admitted = {}
    /\ lost = FALSE

\* Mutant: the limit is compared with the requests before this one.
OneMoreWithin(n) == n - 1 <= Limit

Within(n) == n <= Limit

\* The decision about the request that was the n-th.
Decide(r, n) ==
    IF Within(n)
      THEN /\ gate' = [gate EXCEPT ![r] = "passed"]
           /\ admitted' = admitted \cup {r}
      ELSE /\ gate' = [gate EXCEPT ![r] = "refused"]
           /\ UNCHANGED admitted

\* Mutant: the TTL is set by the request that reaches the limit.
AtLimit(n) == n = Limit

Creates(n) == n = 1

Incr(r) ==
    /\ gate[r] = "new"
    /\ count' = count + 1
    /\ IF Creates(count + 1)
         THEN gate' = [gate EXCEPT ![r] = "first"] /\ UNCHANGED admitted
         ELSE Decide(r, count + 1)
    /\ UNCHANGED <<ttl, lost>>

\* Redis gives no answer: the request passes. The key may have been counted up, or
\* created, all the same.
IncrFails(r) ==
    /\ gate[r] = "new"
    /\ gate' = [gate EXCEPT ![r] = "passed"]
    /\ \/ UNCHANGED <<count, lost>>
       \/ /\ count' = count + 1
          /\ lost' = (lost \/ count = 0)
    /\ UNCHANGED <<ttl, admitted>>

Expire(r) ==
    /\ gate[r] = "first"
    /\ ttl' = (count > 0)
    /\ Decide(r, 1)
    /\ UNCHANGED <<count, lost>>

\* An error, or a client that hangs up; nobody looks at the result.
ExpireFails(r) ==
    /\ gate[r] = "first"
    /\ lost' = TRUE
    /\ Decide(r, 1)
    /\ UNCHANGED <<count, ttl>>

\* A minute later Redis drops the key.
KeyExpires ==
    /\ ttl
    /\ count' = 0
    /\ ttl' = FALSE
    /\ admitted' = {}
    /\ UNCHANGED <<gate, lost>>

LimitStep(r) == Incr(r) \/ IncrFails(r) \/ Expire(r) \/ ExpireFails(r)
===============================================================================
