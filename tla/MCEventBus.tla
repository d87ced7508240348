------------------------------- MODULE MCEventBus -------------------------------
(* Three pods, a choice of three services for them; one event that everyone can   *)
(* read, one that some services cannot.                                           *)
EXTENDS EventBus, TLC

CONSTANTS p1, p2, p3, good, bad

MCKey == {"task.assigned", "report.requested"}
MCDeployments ==
    { p1 :> a @@ p2 :> b @@ p3 :> c :
        <<a, b, c>> \in {<<"task", "notification", "search">>,
                         <<"report", "audit", "gateway">>, <<"user", "user", "scheduler">>, <<"file", "file", "gateway">>} }
MCKeyOf == good :> "report.requested" @@ bad :> "task.assigned"
MCMalformed == [svc \in Service |-> IF svc \in {"search", "report"} THEN {bad} ELSE {}]
===============================================================================
