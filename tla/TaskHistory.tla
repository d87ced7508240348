------------------------------ MODULE TaskHistory ------------------------------
(***************************************************************************)
(* What task-service promises about a task row under concurrency, with no  *)
(* requests, locks or steps in sight. A row is replaced as a whole, by ONE *)
(* authorised edit of SOME version that was visible before: the service    *)
(* never mixes the fields of two versions, never writes an edit nobody was *)
(* entitled to make on the version it was made on, and never changes a     *)
(* task of another tenant. It does not promise that the version edited is  *)
(* the latest one.                                                         *)
(***************************************************************************)
EXTENDS TaskData

VARIABLES
    rows,      \* task -> the row in the table, or NoRow
    versions   \* task -> every live row the table has held for it

historyVars == <<rows, versions>>

VisibleVersions(row) == IF Live(row) THEN {row} ELSE {}

HistoryInit ==
    /\ rows \in [Task -> InitialRows]
    /\ versions = [t \in Task |-> VisibleVersions(rows[t])]

Commit(t, row) ==
    /\ rows' = [rows EXCEPT ![t] = row]
    /\ versions' = [versions EXCEPT ![t] = @ \cup {row}]

Create(t) ==
    /\ rows[t] = NoRow
    /\ \E caller \in User, detail \in Detail :
           /\ RoleOf[caller] \in {"manager", "admin"}
           /\ Commit(t, NewRow(CompanyOf[caller], detail))

Assign(t) ==
    \E base \in versions[t], caller \in User, user \in User :
        /\ RoleOf[caller] \in {"manager", "admin"}
        /\ CompanyOf[caller] = base.company
        /\ CompanyOf[user] = base.company
        /\ Commit(t, [base EXCEPT !.assigned = user])

Move(t) ==
    \E base \in versions[t], caller \in User, status \in Status :
        /\ CompanyOf[caller] = base.company
        /\ MayMove(base.status, status, RoleOf[caller])
        /\ Commit(t, [base EXCEPT !.status = status])

Edit(t) ==
    \E base \in versions[t], detail \in Detail :
        Commit(t, [base EXCEPT !.detail = detail])

Remove(t) ==
    /\ Live(rows[t])
    /\ rows' = [rows EXCEPT ![t].deleted = TRUE]
    /\ UNCHANGED versions

HistoryNext ==
    \E t \in Task : Create(t) \/ Assign(t) \/ Move(t) \/ Edit(t) \/ Remove(t)

HistorySpec == HistoryInit /\ [][HistoryNext]_historyVars
===============================================================================
