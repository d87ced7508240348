--------------------------------- MODULE MCGateway ---------------------------------
(* Two registrations, a login and a call of a protected route from one client     *)
(* address, a limit of two. Both registrations want the address of the login, for *)
(* any companies and passwords, or the second another one.                        *)
EXTENDS Gateway, TLC

CONSTANTS r1, r2, c1, l1, e1, e2, s1, s2

MCForms ==
    { r1 :> [email |-> e1, company |-> c, secret |-> s] @@ r2 :> [email |-> e, company |-> d, secret |-> t] :
        <<c, s, e, d, t>> \in ({None, r2} \X Secret \X {e1} \X {None, r1} \X Secret)
                               \cup {<<None, s1, e2, r1, s1>>} }
MCAttempts == {l1 :> [email |-> e1, secret |-> s1]}
MCId == r1 :> 2 @@ r2 :> 1
MCRoleOf == r1 :> "" @@ r2 :> "manager"
MCRouteOf == c1 :> <<"/tasks/assign", "write">>
====================================================================================
