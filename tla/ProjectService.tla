---------------------------- MODULE ProjectService ----------------------------
(***************************************************************************)
(* The projects of task-service: CreateProject, UpdateProject,             *)
(* DeleteProject, and CreateTask, which checks a project before it inserts *)
(* the task. Nothing is locked; UpdateProject reads a row and writes the   *)
(* whole copy back, CreateTask inserts after its check.                    *)
(***************************************************************************)
EXTENDS Naturals

CONSTANTS
    Project,      \* project ids
    Company,      \* tenants
    Phase,        \* values of a project's name, description, status and dates
    Worker,       \* requests that can be in flight at the same time
    Requests,     \* the requests clients send
    InitialProjects,  \* contents of the table at the start: the choices
    MaxRequests,  \* bound: requests served in a behaviour
    NoProject,    \* no row with this id
    NoRequest     \* an idle worker

AllRequests ==
    [kind : {"create_project", "update_project"}, company : Company,
     project : Project, phase : Phase] \cup
    [kind : {"delete_project", "create_task"}, company : Company, project : Project]

ProjectRow == [company : Company, phase : Phase, deleted : BOOLEAN]

ASSUME ProjectAssumption ==
    /\ Requests \subseteq AllRequests
    /\ NoRequest \notin AllRequests
    /\ NoProject \notin ProjectRow
    /\ InitialProjects \subseteq [Project -> ProjectRow \cup {NoProject}]
    /\ MaxRequests \in Nat

VARIABLES
    projects,  \* table projects
    tasks,     \* table tasks: which company created a task in which project
    pc, req, snap,
    served,    \* how many requests have been received
    late       \* history: requests received when their project was deleted

vars == <<projects, tasks, pc, req, snap, served, late>>

Live(row) == row # NoProject /\ ~row.deleted

Deleted(row) == row # NoProject /\ row.deleted

\* Mutant: rows with a deleted_at are found too.
FoundUnscoped(row, company) == row # NoProject /\ row.company = company

\* Mutant: the row is looked up by id alone.
FoundInAnyTenant(row, company) == Live(row)

\* FindByID: scoped by company, soft-deleted rows are invisible.
Found(row, company) == Live(row) /\ row.company = company

Init ==
    /\ projects \in InitialProjects
    /\ tasks = {}
    /\ pc = [w \in Worker |-> "idle"]
    /\ req = [w \in Worker |-> NoRequest]
    /\ snap = [w \in Worker |-> NoProject]
    /\ served = 0
    /\ late = {}

\* A project that is live again makes its late requests ordinary ones.
StillLate == {w \in late : Deleted(projects'[req[w].project])}

Respond(w) ==
    /\ pc' = [pc EXCEPT ![w] = "idle"]
    /\ req' = [req EXCEPT ![w] = NoRequest]
    /\ snap' = [snap EXCEPT ![w] = NoProject]
    /\ late' = StillLate \ {w}
    /\ UNCHANGED served

\* gorm's Save: every column of the copy, upserted when the UPDATE finds no row.
Save(p, row) == projects' = [projects EXCEPT ![p] = row]

Receive(w) ==
    /\ pc[w] = "idle"
    /\ served < MaxRequests
    /\ served' = served + 1
    /\ \E r \in Requests :
           /\ req' = [req EXCEPT ![w] = r]
           /\ pc' = [pc EXCEPT ![w] = r.kind]
           /\ late' = late \cup {v \in {w} : Deleted(projects[r.project])}
    /\ UNCHANGED <<projects, tasks, snap>>

\* Invalid input, a failed INSERT, or the row, with a fresh UUID.
CreateProject(w) ==
    LET r == req[w]
        row == [company |-> r.company, phase |-> r.phase, deleted |-> FALSE]
    IN  /\ pc[w] = "create_project"
        /\ UNCHANGED projects \/ (projects[r.project] = NoProject /\ Save(r.project, row))
        /\ Respond(w)
        /\ UNCHANGED tasks

\* Mutant: the error of FindByID is ignored and the zero row is used.
UpdateProjectLoadIgnoringErrors(w) ==
    LET row == projects[req[w].project]
        zero == [company |-> "", phase |-> "", deleted |-> FALSE]
    IN  /\ pc[w] = "update_project"
        /\ snap' = [snap EXCEPT ![w] = IF Found(row, req[w].company) THEN row ELSE zero]
        /\ pc' = [pc EXCEPT ![w] = "update_save"]
        /\ UNCHANGED <<projects, tasks, req, served, late>>

UpdateProjectLoad(w) ==
    LET row == projects[req[w].project]
    IN  /\ pc[w] = "update_project"
        /\ UNCHANGED <<projects, tasks>>
        /\ \/ /\ Found(row, req[w].company)
              /\ snap' = [snap EXCEPT ![w] = row]
              /\ pc' = [pc EXCEPT ![w] = "update_save"]
              /\ UNCHANGED <<req, served, late>>
           \/ Respond(w)   \* not found, a bad end_date, or a database error

UpdateProjectSave(w) ==
    /\ pc[w] = "update_save"
    /\ \/ Save(req[w].project, [snap[w] EXCEPT !.phase = req[w].phase])
       \/ UNCHANGED projects
    /\ Respond(w)
    /\ UNCHANGED tasks

DeleteProject(w) ==
    LET p == req[w].project
    IN  /\ pc[w] = "delete_project"
        /\ \/ /\ Found(projects[p], req[w].company)
              /\ projects' = [projects EXCEPT ![p].deleted = TRUE]
           \/ UNCHANGED projects
        /\ Respond(w)
        /\ UNCHANGED tasks

CreateTaskCheck(w) ==
    /\ pc[w] = "create_task"
    /\ UNCHANGED <<projects, tasks>>
    /\ \/ /\ Found(projects[req[w].project], req[w].company)
          /\ pc' = [pc EXCEPT ![w] = "insert_task"]
          /\ UNCHANGED <<req, snap, served, late>>
       \/ Respond(w)

CreateTaskInsert(w) ==
    /\ pc[w] = "insert_task"
    /\ \/ tasks' = tasks \cup {[project |-> req[w].project, company |-> req[w].company]}
       \/ UNCHANGED tasks
    /\ UNCHANGED projects
    /\ Respond(w)

Crash(w) ==
    /\ pc[w] # "idle"
    /\ UNCHANGED <<projects, tasks>>
    /\ Respond(w)

Next == \E w \in Worker :
    \/ Receive(w) \/ CreateProject(w) \/ UpdateProjectLoad(w) \/ UpdateProjectSave(w)
    \/ DeleteProject(w) \/ CreateTaskCheck(w) \/ CreateTaskInsert(w) \/ Crash(w)

Spec == Init /\ [][Next]_vars
-------------------------------------------------------------------------------
\* Every variable has its type.
TypeOK ==
    /\ projects \in [Project -> ProjectRow \cup {NoProject}]
    /\ tasks \subseteq [project : Project, company : Company]
    /\ pc \in [Worker -> {"idle", "create_project", "update_project", "update_save",
                          "delete_project", "create_task", "insert_task"}]
    /\ req \in [Worker -> AllRequests \cup {NoRequest}]
    /\ snap \in [Worker -> ProjectRow \cup {NoProject}]
    /\ served \in Nat
    /\ late \subseteq Worker

\* Tenant check of CreateTask, and the company of a project, survive every
\* interleaving: the project of a task belongs to the company of the task, also
\* after the project was deleted, written back from a stale copy or deleted between
\* the check and the insert.
ProjectTasksInTenant ==
    \A t \in tasks : /\ projects[t.project] # NoProject
                     /\ projects[t.project].company = t.company

\* A request received after the deletion of its project never changes the project
\* nor creates a task in it, as long as no older request brings the project back.
DeletedProjectsRefuse ==
    [][\A w \in late : pc'[w] # pc[w] => UNCHANGED <<projects, tasks>>]_vars
===============================================================================
