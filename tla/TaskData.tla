------------------------------- MODULE TaskData -------------------------------
(***************************************************************************)
(* The data task-service works on: a row of table "tasks", the status      *)
(* state machine of UpdateTaskStatus and the people who call the service.  *)
(* Title, description, priority and due date are one value, "detail": no   *)
(* rule of the service tells them apart.                                   *)
(***************************************************************************)

CONSTANTS
    Task,        \* task ids
    User,        \* user ids; users are never changed by task-service
    Company,     \* tenants
    Detail,      \* values of the free-text part of a task
    CompanyOf,   \* user -> company, from the caller's token
    RoleOf,      \* user -> role, from the caller's token
    NoUser,      \* a task that is not assigned
    NoRow,       \* no row with this id
    InitialRows  \* what the table may hold for a task when the service starts

Role == {"admin", "manager", "worker"}

Status == {"todo", "in_progress", "blocked", "done"}

Row == [company : Company, status : Status, assigned : User \cup {NoUser},
        detail : Detail, deleted : BOOLEAN]

AllowedTransitions ==
    {<<"todo", "in_progress">>, <<"in_progress", "done">>,
     <<"in_progress", "blocked">>, <<"blocked", "in_progress">>,
     <<"done", "in_progress">>}

ManagerOnlyTransitions == {<<"done", "in_progress">>}

\* The two checks of UpdateTaskStatus, in the order of the code.
MayMove(old, new, role) ==
    /\ <<old, new>> \in AllowedTransitions
    /\ <<old, new>> \in ManagerOnlyTransitions => role \in {"manager", "admin"}

Live(row) == row # NoRow /\ ~row.deleted

\* Mutant: the row is looked up by id alone.
VisibleToAll(row, company) == Live(row)

\* FindByID: scoped by company, soft-deleted rows are invisible.
VisibleTo(row, company) == Live(row) /\ row.company = company

\* The row CreateTask inserts. The controller does not pass the assignee on.
NewRow(company, detail) ==
    [company |-> company, status |-> "todo", assigned |-> NoUser,
     detail |-> detail, deleted |-> FALSE]

\* Whoever a task is assigned to works for the company the task belongs to.
TenantRow(row) ==
    row.assigned # NoUser => CompanyOf[row.assigned] = row.company

ASSUME PeopleAssumption ==
    /\ CompanyOf \in [User -> Company]
    /\ RoleOf \in [User -> Role]
    /\ NoUser \notin User

ASSUME RowsAssumption ==
    /\ NoRow \notin Row
    /\ InitialRows \subseteq Row \cup {NoRow}
    /\ \A row \in InitialRows \ {NoRow} : TenantRow(row)
===============================================================================
