---------------------------- MODULE MCTaskService ----------------------------
(* Small instances of TaskService for TLC: one task of company "c1", its       *)
(* manager and worker, and a stranger from company "c2".                       *)
EXTENDS TaskService, TLC

MCUser == {"mgr", "wrk", "ext"}
MCCompany == {"c1", "c2"}
MCCompanyOf == [u \in MCUser |-> IF u = "ext" THEN "c2" ELSE "c1"]
MCRoleOf == [u \in MCUser |-> IF u = "wrk" THEN "worker" ELSE "manager"]
MCDetail == {"d0", "d1"}

Assigns == [kind : {"assign"}, caller : MCUser, task : Task, arg : MCUser]
Moves   == [kind : {"status"}, caller : MCUser, task : Task, arg : Status]
Edits   == [kind : {"edit"}, caller : {"mgr", "ext"}, task : Task, arg : {"d1"}]
Creates == [kind : {"create"}, caller : {"mgr", "wrk"}, task : Task, arg : {"d0"}]
Deletes == [kind : {"delete"}, caller : {"mgr", "ext"}, task : Task]

ExistingRow(status) == [NewRow("c1", "d0") EXCEPT !.status = status]

\* Every kind of request on one task, created or found in the table.
AllTraffic == Assigns \cup Moves \cup Edits \cup Creates \cup Deletes
AllInitialRows == {NoRow} \cup {ExistingRow(s) : s \in {"in_progress", "done"}}

WorkerSymmetry == Permutations(Worker)

\* One manager's assignments only: what the lock is for.
LockTraffic ==
    [kind : {"assign"}, caller : {"mgr"}, task : Task, arg : {"mgr", "wrk"}]
        \cup [kind : {"delete"}, caller : {"mgr"}, task : Task]
LockInitialRows == {ExistingRow("todo")}
=============================================================================
