----------------------------- MODULE TaskService -----------------------------
(***************************************************************************)
(* task-service: requests that run concurrently (goroutines of one pod or  *)
(* of several) against one PostgreSQL table and one Redis. Every action is *)
(* the code between two calls that other requests can interleave with: a   *)
(* handler reads a row, works on its copy and writes the whole copy back.  *)
(* AssignTask alone takes the Redis lock of the task; nothing else does.   *)
(***************************************************************************)
EXTENDS TaskData, AccessPolicy, Naturals

CONSTANTS
    Worker,       \* requests that can be in flight at the same time
    Requests,     \* the requests clients send
    MaxRequests,  \* bound: requests served in a behaviour
    Free,         \* the lock key is not in Redis
    NoRequest     \* an idle worker

AllRequests ==
    [kind : {"assign"}, caller : User, task : Task, arg : User] \cup
    [kind : {"status"}, caller : User, task : Task, arg : Status] \cup
    [kind : {"edit", "create"}, caller : User, task : Task, arg : Detail] \cup
    [kind : {"delete"}, caller : User, task : Task]

ASSUME RequestAssumption ==
    /\ Requests \subseteq AllRequests
    /\ NoRequest \notin AllRequests
    /\ MaxRequests \in Nat
    /\ Free \notin Worker

VARIABLES
    rows,      \* the table: task -> row or NoRow
    locks,     \* Redis key lock:task:assign:<task>: who set it, or Free
    expiring,  \* tasks whose key has a TTL
    pc,        \* worker -> the next call of its handler
    req,       \* worker -> the request it handles
    snap,      \* worker -> the copy of the row it has read
    result,    \* worker -> the gRPC code of its last answer
    events,    \* the events RabbitMQ has accepted
    served,    \* how many requests have been received
    versions,  \* history: every live row the table has held
    overrun    \* history: tasks with a request that outlived its lock's TTL

vars == <<rows, locks, expiring, pc, req, snap, result, events, served, versions, overrun>>

LockedSteps == {"assign_load", "assign_save", "assign_publish", "assign_release"}

Steps == LockedSteps \cup
    {"idle", "assign_lock", "status_load", "status_save", "status_publish",
     "edit_load", "edit_save", "create", "delete"}

FirstStep == [kind \in {"assign", "status", "edit", "create", "delete"} |->
    CASE kind = "assign" -> "assign_lock"
      [] kind = "status" -> "status_load"
      [] kind = "edit"   -> "edit_load"
      [] kind = "create" -> "create"
      [] kind = "delete" -> "delete"]

Codes == {"OK", "NotFound", "InvalidArgument", "PermissionDenied", "Aborted",
          "Internal"}

\* Mutant: an error the switch does not know is passed on as it is.
ToGRPCErrorWithoutDefault(err) ==
    CASE err \in {"ErrNotFound", "ErrUserNotFound"} -> "NotFound"
      [] err = "nil" -> "OK"
      [] OTHER -> err

\* The controller's mapping of use-case errors; anything unknown is Internal.
ToGRPCError(err) ==
    CASE err \in {"ErrNotFound", "ErrUserNotFound"} -> "NotFound"
      [] err \in {"ErrInvalidInput", "ErrInvalidStatusTransition",
                 "invalid due_date"} -> "InvalidArgument"
      [] err = "ErrForbidden" -> "PermissionDenied"
      [] err = "ErrTaskLocked" -> "Aborted"
      [] err = "nil" -> "OK"
      [] OTHER -> "Internal"

AssignedEvents ==
    [type : {"task.assigned"}, task : Task, assigned : User, by : User]
StatusEvents ==
    [type : {"task.status_changed"}, task : Task, old : Status, new : Status,
     by : User]

CallerCompany(w) == CompanyOf[req[w].caller]

\* w runs between SetNX and the deferred Del of AssignTask.
Inside(w, t) == pc[w] \in LockedSteps /\ req[w].task = t

Init ==
    /\ rows \in [Task -> InitialRows]
    /\ locks = [t \in Task |-> Free]
    /\ expiring = {}
    /\ pc = [w \in Worker |-> "idle"]
    /\ req = [w \in Worker |-> NoRequest]
    /\ snap = [w \in Worker |-> NoRow]
    /\ result = [w \in Worker |-> "OK"]
    /\ events = {}
    /\ served = 0
    /\ versions = [t \in Task |-> IF Live(rows[t]) THEN {rows[t]} ELSE {}]
    /\ overrun = {}

(***************************************************************************)
(* How a handler ends. Respond frees the worker; a handler that holds the  *)
(* lock unwinds to its deferred Del first.                                 *)
(***************************************************************************)
Goto(w, step) == pc' = [pc EXCEPT ![w] = step]

Forget(w) ==
    /\ Goto(w, "idle")
    /\ req' = [req EXCEPT ![w] = NoRequest]
    /\ snap' = [snap EXCEPT ![w] = NoRow]

Respond(w, err) ==
    /\ Forget(w)
    /\ result' = [result EXCEPT ![w] = ToGRPCError(err)]

Unwind(w, err) ==
    /\ Goto(w, "assign_release")
    /\ result' = [result EXCEPT ![w] = ToGRPCError(err)]
    /\ UNCHANGED <<req, snap>>

Continue(w, step) ==
    /\ Goto(w, step)
    /\ UNCHANGED <<req, snap, result>>

\* FindByID found the row and the checks passed: keep the copy, go on.
Loaded(w, step) ==
    /\ Goto(w, step)
    /\ snap' = [snap EXCEPT ![w] = rows[req[w].task]]
    /\ UNCHANGED <<req, result>>

\* Update is gorm's Save: it writes every column of the copy, and when the
\* UPDATE ... WHERE deleted_at IS NULL matches nothing it upserts the row.
Save(t, row) ==
    /\ rows' = [rows EXCEPT ![t] = row]
    /\ versions' = [versions EXCEPT ![t] = @ \cup {row}]

\* A write that returns an error: it was rolled back, or it was committed
\* and the connection died before the answer.
SaveUncertain(t, row) == Save(t, row) \/ UNCHANGED <<rows, versions>>

\* The gateway passes a request on, with the company and user of its token.
Receive(w) ==
    /\ pc[w] = "idle"
    /\ served < MaxRequests
    /\ served' = served + 1
    /\ \E r \in Requests :
           /\ Admitted(RoleOf[r.caller], r.kind)
           /\ req' = [req EXCEPT ![w] = r]
           /\ Goto(w, FirstStep[r.kind])
    /\ UNCHANGED <<rows, locks, expiring, snap, result, events, versions, overrun>>
-------------------------------------------------------------------------------
(***************************************************************************)
(* AssignTask                                                              *)
(***************************************************************************)

\* Mutant: a plain SET, without NX.
SetReply(t) == [acquired |-> TRUE, err |-> "nil"]

\* SET key value NX EX ttl through SetArgs: go-redis answers a key that is
\* already there with the error redis.Nil, not with a nil error.
SetNXReply(t) ==
    IF locks[t] = Free THEN [acquired |-> TRUE, err |-> "nil"]
                       ELSE [acquired |-> FALSE, err |-> "redis.Nil"]

\* SET ... EX: the key and its TTL, in one command.
SetKey(t, w) ==
    /\ locks' = [locks EXCEPT ![t] = w]
    /\ expiring' = expiring \cup {t}

DropKey(t) ==
    /\ locks' = [locks EXCEPT ![t] = Free]
    /\ expiring' = expiring \ {t}

AssignAcquire(w) ==
    LET t == req[w].task
        reply == SetNXReply(t)
    IN  /\ pc[w] = "assign_lock"
        /\ IF reply.acquired THEN SetKey(t, w) ELSE UNCHANGED <<locks, expiring>>
        /\ IF reply.err # "nil" THEN Respond(w, reply.err)
           ELSE IF ~reply.acquired THEN Respond(w, "ErrTaskLocked")
           ELSE Continue(w, "assign_load")
        /\ UNCHANGED <<rows, events, served, versions, overrun>>

\* Mutant: SETNX, and EXPIRE with its answer in hand: a lost answer leaves no TTL.
AssignAcquireFailsBeforeExpire(w) ==
    LET t == req[w].task
    IN  /\ pc[w] = "assign_lock"
        /\ UNCHANGED locks \/ (locks[t] = Free /\ locks' = [locks EXCEPT ![t] = w])
        /\ Respond(w, "redis error")
        /\ UNCHANGED <<expiring, rows, events, served, versions, overrun>>

\* Redis does not answer. The key may have been set all the same; no Del is
\* deferred yet, so it stays until its TTL.
AssignAcquireFails(w) ==
    LET t == req[w].task
    IN  /\ pc[w] = "assign_lock"
        /\ \/ UNCHANGED <<locks, expiring>>
           \/ locks[t] = Free /\ SetKey(t, w)
        /\ Respond(w, "redis error")
        /\ UNCHANGED <<rows, events, served, versions, overrun>>

\* userRepo.FindByID in the caller's company.
AssigneeFound(w) == CompanyOf[req[w].arg] = CallerCompany(w)

\* Every error of the user lookup, a failed query included, reads as "not found".
AssignLoad(w) ==
    LET visible == VisibleTo(rows[req[w].task], CallerCompany(w))
    IN  /\ pc[w] = "assign_load"
        /\ \/ ~visible /\ Unwind(w, "ErrNotFound")
           \/ Unwind(w, "database error")
           \/ visible /\ Unwind(w, "ErrUserNotFound")
           \/ visible /\ AssigneeFound(w) /\ Loaded(w, "assign_save")
        /\ UNCHANGED <<rows, locks, expiring, events, served, versions, overrun>>

\* Mutant: assigning a task also starts it.
AssignSaveStarting(w) ==
    LET row == [snap[w] EXCEPT !.assigned = req[w].arg, !.status = "in_progress"]
    IN  /\ pc[w] = "assign_save"
        /\ Save(req[w].task, row)
        /\ Continue(w, "assign_publish")
        /\ UNCHANGED <<locks, expiring, events, served, overrun>>

AssignSave(w) ==
    LET row == [snap[w] EXCEPT !.assigned = req[w].arg]
    IN  /\ pc[w] = "assign_save"
        /\ \/ Save(req[w].task, row) /\ Continue(w, "assign_publish")
           \/ SaveUncertain(req[w].task, row) /\ Unwind(w, "database error")
        /\ UNCHANGED <<locks, expiring, events, served, overrun>>

\* The channel has no confirms and is never reopened: an event is accepted or
\* lost, and the handlers ignore the error that may tell them.
Publish(event) == events' = events \cup {event} \/ UNCHANGED events

AssignPublish(w) ==
    /\ pc[w] = "assign_publish"
    /\ Publish([type |-> "task.assigned", task |-> req[w].task,
                assigned |-> req[w].arg, by |-> req[w].caller])
    /\ Unwind(w, "nil")
    /\ UNCHANGED <<rows, locks, expiring, served, versions, overrun>>

\* Tasks whose late request is still inside; the others are safe again.
StillOverrun == {t \in overrun : \E v \in Worker : Inside(v, t)'}

\* Del removes the key whoever set it. The deferred call runs with the
\* request's context: when the client is gone it fails and the key stays.
Del(t) == DropKey(t) \/ UNCHANGED <<locks, expiring>>

AssignRelease(w) ==
    /\ pc[w] = "assign_release"
    /\ Del(req[w].task)
    /\ Forget(w)
    /\ overrun' = StillOverrun
    /\ UNCHANGED <<rows, result, events, served, versions>>
-------------------------------------------------------------------------------
(***************************************************************************)
(* UpdateTaskStatus: no lock.                                              *)
(***************************************************************************)
\* Mutant: the role of the caller is not looked at.
PermittedToAll(w, old, new) == <<old, new>> \in AllowedTransitions

Permitted(w, old, new) == MayMove(old, new, RoleOf[req[w].caller])

StatusLoad(w) ==
    LET row == rows[req[w].task]
        old == row.status
        new == req[w].arg
        visible == VisibleTo(row, CallerCompany(w))
        known == visible /\ <<old, new>> \in AllowedTransitions
        permitted == known /\ Permitted(w, old, new)
    IN  /\ pc[w] = "status_load"
        /\ \/ ~visible /\ Respond(w, "ErrNotFound")
           \/ visible /\ ~known /\ Respond(w, "ErrInvalidStatusTransition")
           \/ known /\ ~permitted /\ Respond(w, "ErrForbidden")
           \/ permitted /\ Loaded(w, "status_save")
           \/ Respond(w, "database error")
        /\ UNCHANGED <<rows, locks, expiring, events, served, versions, overrun>>

\* Mutant: the error of Update is dropped and the event goes out anyway.
StatusSaveIgnoringErrors(w) ==
    LET row == [snap[w] EXCEPT !.status = req[w].arg]
    IN  /\ pc[w] = "status_save"
        /\ SaveUncertain(req[w].task, row)
        /\ Continue(w, "status_publish")
        /\ UNCHANGED <<locks, expiring, events, served, overrun>>

StatusSave(w) ==
    LET row == [snap[w] EXCEPT !.status = req[w].arg]
    IN  /\ pc[w] = "status_save"
        /\ \/ Save(req[w].task, row) /\ Continue(w, "status_publish")
           \/ SaveUncertain(req[w].task, row) /\ Respond(w, "database error")
        /\ UNCHANGED <<locks, expiring, events, served, overrun>>

StatusPublish(w) ==
    /\ pc[w] = "status_publish"
    /\ Publish([type |-> "task.status_changed", task |-> req[w].task,
                old |-> snap[w].status, new |-> req[w].arg, by |-> req[w].caller])
    /\ Respond(w, "nil")
    /\ UNCHANGED <<rows, locks, expiring, served, versions, overrun>>
-------------------------------------------------------------------------------
(***************************************************************************)
(* UpdateTask, CreateTask, DeleteTask: no lock, no event.                  *)
(***************************************************************************)
EditLoad(w) ==
    /\ pc[w] = "edit_load"
    /\ \/ /\ VisibleTo(rows[req[w].task], CallerCompany(w))
          /\ Loaded(w, "edit_save")
       \/ /\ ~VisibleTo(rows[req[w].task], CallerCompany(w))
          /\ Respond(w, "ErrNotFound")
       \/ \E err \in {"database error", "invalid due_date"} : Respond(w, err)
    /\ UNCHANGED <<rows, locks, expiring, events, served, versions, overrun>>

EditSave(w) ==
    LET row == [snap[w] EXCEPT !.detail = req[w].arg]
    IN  /\ pc[w] = "edit_save"
        /\ \/ Save(req[w].task, row) /\ Respond(w, "nil")
           \/ SaveUncertain(req[w].task, row) /\ Respond(w, "database error")
        /\ UNCHANGED <<locks, expiring, events, served, overrun>>

\* The id is a fresh UUID. Whether the project is found is the environment's
\* choice: projects are not part of this module.
CreateTask(w) ==
    LET t == req[w].task
        row == NewRow(CallerCompany(w), req[w].arg)
    IN  /\ pc[w] = "create"
        /\ \/ rows[t] = NoRow /\ Save(t, row) /\ Respond(w, "nil")
           \/ rows[t] = NoRow /\ SaveUncertain(t, row) /\ Respond(w, "database error")
           \/ UNCHANGED <<rows, versions>> /\
              \E err \in {"ErrNotFound", "ErrInvalidInput"} : Respond(w, err)
        /\ UNCHANGED <<locks, expiring, events, served, overrun>>

\* Soft delete: one UPDATE that sets deleted_at on the visible row.
DeleteTask(w) ==
    LET t == req[w].task
        visible == VisibleTo(rows[t], CallerCompany(w))
        marked == rows' = [rows EXCEPT ![t].deleted = TRUE]
    IN  /\ pc[w] = "delete"
        /\ \/ visible /\ marked /\ Respond(w, "nil")
           \/ ~visible /\ UNCHANGED rows /\ Respond(w, "ErrNotFound")
           \/ (UNCHANGED rows \/ (visible /\ marked)) /\ Respond(w, "database error")
        /\ UNCHANGED <<locks, expiring, events, served, versions, overrun>>
-------------------------------------------------------------------------------
(***************************************************************************)
(* The environment: a pod dies with its requests, Redis drops a key whose  *)
(* TTL is over, whether or not its request is still running.               *)
(***************************************************************************)
Crash(w) ==
    /\ pc[w] # "idle"
    /\ Forget(w)
    /\ overrun' = StillOverrun
    /\ UNCHANGED <<rows, locks, expiring, result, events, served, versions>>

LockExpires(t) ==
    /\ t \in expiring
    /\ DropKey(t)
    /\ overrun' = overrun \cup {u \in {t} : \E w \in Worker : Inside(w, t)}
    /\ UNCHANGED <<rows, pc, req, snap, result, events, served, versions>>

AssignStep(w) ==
    \/ AssignAcquire(w) \/ AssignAcquireFails(w) \/ AssignLoad(w)
    \/ AssignSave(w) \/ AssignPublish(w) \/ AssignRelease(w)
StatusStep(w) == StatusLoad(w) \/ StatusSave(w) \/ StatusPublish(w)
OtherStep(w) == EditLoad(w) \/ EditSave(w) \/ CreateTask(w) \/ DeleteTask(w)

HandlerStep(w) == AssignStep(w) \/ StatusStep(w) \/ OtherStep(w)

Next ==
    \/ \E w \in Worker : Receive(w) \/ HandlerStep(w) \/ Crash(w)
    \/ \E t \in Task : LockExpires(t)

Spec == Init /\ [][Next]_vars

\* A handler that runs is scheduled and its calls return; Redis drops every
\* key whose TTL has run out.
FairSpec ==
    /\ Spec
    /\ \A w \in Worker : WF_vars(HandlerStep(w))
    /\ \A t \in Task : WF_vars(LockExpires(t))
-------------------------------------------------------------------------------
(***************************************************************************)
(* Properties                                                              *)
(***************************************************************************)

\* Every variable has its type.
TypeOK ==
    /\ rows \in [Task -> Row \cup {NoRow}]
    /\ locks \in [Task -> Worker \cup {Free}]
    /\ expiring \subseteq Task
    /\ pc \in [Worker -> Steps]
    /\ req \in [Worker -> AllRequests \cup {NoRequest}]
    /\ snap \in [Worker -> Row \cup {NoRow}]
    /\ result \in [Worker -> Codes]
    /\ events \subseteq AssignedEvents \cup StatusEvents
    /\ served \in Nat
    /\ versions \in [Task -> SUBSET Row]
    /\ overrun \subseteq Task

\* AssignTask, "prevents concurrent double-assignment": unless a request outlives
\* the TTL of its own lock, no two requests assign the same task at a time.
\* The window closes again when the requests inside it have left.
AssignersExclusive ==
    \A t \in Task \ overrun : \A v, w \in Worker :
        Inside(v, t) /\ Inside(w, t) => v = w

\* Where assignments are the only writers, the lock makes the copy an assignment
\* is about to write back agree with the table on the assignee: it replaces the
\* assignment its caller's request was decided on, not a newer one.
LockedSnapshotFresh ==
    (\A r \in Requests : r.kind \notin {"status", "edit"}) =>
        \A w \in Worker :
            pc[w] = "assign_save" /\ req[w].task \notin overrun
                => snap[w].assigned = rows[req[w].task].assigned

\* Cross-tenant protection of AssignTask: whatever interleaving wrote the row,
\* the assignee works for the company that owns the task.
AssigneeInTenant == \A t \in Task : rows[t] # NoRow => TenantRow(rows[t])

\* An event other services act on tells of versions the table really went
\* through: the assignment was stored; the old and the new status were stored in
\* two rows that differ in nothing else, and who is named was allowed to move one
\* to the other. A request that fails before its write announces nothing.
EventsDescribeCommits ==
    \A e \in events :
        IF e.type = "task.assigned"
        THEN \E v \in versions[e.task] : v.assigned = e.assigned
        ELSE /\ MayMove(e.old, e.new, RoleOf[e.by])
             /\ \E u \in versions[e.task] :
                    /\ u.status = e.old
                    /\ [u EXCEPT !.status = e.new] \in versions[e.task]

\* A step on task t that the status rules forbid: a move the state machine does
\* not have, or the return of a deleted task.
BreaksRules(t) ==
    /\ rows[t] # NoRow
    /\ \/ rows[t].deleted /\ ~rows'[t].deleted
       \/ /\ rows'[t].status # rows[t].status
          /\ <<rows[t].status, rows'[t].status>> \notin AllowedTransitions
       \/ /\ <<rows[t].status, rows'[t].status>> \in ManagerOnlyTransitions
          /\ \A w \in Worker : pc'[w] # pc[w] =>
                 RoleOf[req[w].caller] \notin {"manager", "admin"}

\* The checks of the handlers are sound for the row they read: the table breaks
\* the status rules or brings a deleted task back ONLY in the step of a request
\* whose copy is no longer the row in the table. Such a request can: two moves out of
\* in_progress, both legal for the row that was read, store done -> blocked.
OnlyStaleSavesBreakRules ==
    [][\A t \in Task : BreaksRules(t) =>
          \E w \in Worker : /\ pc[w] \in {"assign_save", "status_save", "edit_save"}
                            /\ pc'[w] # pc[w]
                            /\ req[w].task = t
                            /\ snap[w] # rows[t]]_vars

\* Who can change a row, however stale the copy that is written: a request from its
\* own company; and an assignee that no version of the task had is chosen by a manager
\* or an admin (a worker's write-back can only bring an older one back).
OnlyEntitledWrites ==
    [][\A t \in Task : rows'[t] # rows[t] =>
          \E w \in Worker : /\ pc'[w] # pc[w]
                            /\ req[w] # NoRequest
                            /\ req[w].task = t
                            /\ CallerCompany(w) = rows'[t].company
                            /\ \/ RoleOf[req[w].caller] \in {"manager", "admin"}
                               \/ \E version \in versions[t] :
                                      version.assigned = rows'[t].assigned]_vars

\* The lock of a task never stays for good, also when the pod that took it died,
\* its Del failed or the reply to its SET was lost: whatever left the key, it has its TTL.
LockFreed == \A t \in Task : locks[t] # Free ~> locks[t] = Free

\* Why: no step leaves a key without its TTL, whoever is to delete it.
LocksExpire == \A t \in Task : locks[t] # Free => t \in expiring

\* The service implements the abstract history of TaskHistory: every version is
\* one authorised edit of a version that was there before.
History == INSTANCE TaskHistory WITH rows <- rows, versions <- versions
ImplementsHistory == History!HistorySpec
===============================================================================
