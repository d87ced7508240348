-------------------------- MODULE TaskServiceProofs --------------------------
(***************************************************************************)
(* Theorems about TaskService for any number of tasks, users, workers and  *)
(* requests. Every invariant is proved by one step per action.             *)
(***************************************************************************)
EXTENDS TaskService, TLAPS

\* A handler starts at a step it has, and every error has a gRPC code.
LEMMA FirstStepType ==
    \A r \in AllRequests : FirstStep[r.kind] \in Steps
BY DEF AllRequests, FirstStep, Steps, LockedSteps

LEMMA CodeType == ASSUME NEW err PROVE ToGRPCError(err) \in Codes
BY DEF ToGRPCError, Codes

\* The row a handler writes back is a row.
LEMMA EditedRowType ==
    ASSUME NEW row \in Row
    PROVE  /\ \A u \in User : [row EXCEPT !.assigned = u] \in Row
           /\ \A s \in Status : [row EXCEPT !.status = s] \in Row
           /\ \A d \in Detail : [row EXCEPT !.detail = d] \in Row
           /\ [row EXCEPT !.deleted = TRUE] \in Row
BY DEF Row

LEMMA NewRowType ==
    ASSUME NEW c \in Company, NEW d \in Detail
    PROVE  NewRow(c, d) \in Row /\ Live(NewRow(c, d))
<1>1. NewRow(c, d) \in Row
  BY DEF Row, NewRow, Status
<1>2. QED
  BY <1>1, RowsAssumption DEF NewRow, Live

-------------------------------------------------------------------------------
(***************************************************************************)
(* Type correctness. RequestType relates the step a worker is at to the    *)
(* request it handles and the copy it has; TypeOK alone is not inductive.  *)
(***************************************************************************)
SaveSteps == {"assign_save", "status_save", "edit_save"}

CopySteps == SaveSteps \cup {"assign_publish", "assign_release", "status_publish"}

AssignSteps == LockedSteps \cup {"assign_lock"}
StatusSteps == {"status_load", "status_save", "status_publish"}
EditSteps == {"edit_load", "edit_save"}

RequestTyped(w) ==
    /\ pc[w] # "idle" => req[w] \in AllRequests /\ Admitted(RoleOf[req[w].caller], req[w].kind)
    /\ pc[w] \in AssignSteps => req[w].kind = "assign"
    /\ pc[w] \in StatusSteps => req[w].kind = "status"
    /\ pc[w] \in EditSteps => req[w].kind = "edit"
    /\ pc[w] = "create" => req[w].kind = "create"
    /\ pc[w] = "delete" => req[w].kind = "delete"
    /\ pc[w] \in (CopySteps \ {"assign_release"}) => snap[w] \in Row

\* The part of the state that belongs to the workers.
WorkersTyped ==
    /\ pc \in [Worker -> Steps]
    /\ req \in [Worker -> AllRequests \cup {NoRequest}]
    /\ snap \in [Worker -> Row \cup {NoRow}]
    /\ result \in [Worker -> Codes]
    /\ \A w \in Worker : RequestTyped(w)

Typed == TypeOK /\ WorkersTyped

\* What the fields of a request are, at the step its worker has reached.
LEMMA RequestFields ==
    ASSUME WorkersTyped, NEW w \in Worker, pc[w] # "idle"
    PROVE  /\ req[w].task \in Task /\ req[w].caller \in User
           /\ pc[w] \in AssignSteps => req[w].arg \in User
           /\ pc[w] \in StatusSteps => req[w].arg \in Status
           /\ pc[w] \in EditSteps \cup {"create"} => req[w].arg \in Detail
<1>1. req[w] \in AllRequests /\ RequestTyped(w)
  BY DEF WorkersTyped, RequestTyped
<1>2. QED
  BY <1>1 DEF RequestTyped, AllRequests

\* The four ways a step moves its worker on.
LEMMA RespondTyped ==
    ASSUME WorkersTyped, NEW w \in Worker, NEW err, Respond(w, err)
    PROVE  WorkersTyped'
BY CodeType DEF WorkersTyped, RequestTyped, Respond, Forget, Goto, Steps, LockedSteps,
     AssignSteps, StatusSteps, EditSteps, CopySteps, SaveSteps

LEMMA ForgetTyped ==
    ASSUME WorkersTyped, NEW w \in Worker, Forget(w), UNCHANGED result
    PROVE  WorkersTyped'
BY DEF WorkersTyped, RequestTyped, Forget, Goto, Steps, LockedSteps,
     AssignSteps, StatusSteps, EditSteps, CopySteps, SaveSteps

LEMMA UnwindTyped ==
    ASSUME WorkersTyped, NEW w \in Worker, NEW err, Unwind(w, err),
           pc[w] \in LockedSteps
    PROVE  WorkersTyped'
BY CodeType DEF WorkersTyped, RequestTyped, Unwind, Goto, Steps, LockedSteps,
     AssignSteps, StatusSteps, EditSteps, CopySteps, SaveSteps

LEMMA ContinueTyped ==
    ASSUME WorkersTyped, NEW w \in Worker, NEW step \in Steps \ {"idle"},
           Continue(w, step),
           \/ pc[w] = "assign_lock" /\ step = "assign_load"
           \/ pc[w] = "assign_save" /\ step = "assign_publish"
           \/ pc[w] = "status_save" /\ step = "status_publish"
    PROVE  WorkersTyped'
BY DEF WorkersTyped, RequestTyped, Continue, Goto, Steps, LockedSteps,
     AssignSteps, StatusSteps, EditSteps, CopySteps, SaveSteps

LEMMA LoadedTyped ==
    ASSUME WorkersTyped, NEW w \in Worker, NEW step \in SaveSteps,
           Loaded(w, step), rows[req[w].task] \in Row,
           \/ pc[w] = "assign_load" /\ step = "assign_save"
           \/ pc[w] = "status_load" /\ step = "status_save"
           \/ pc[w] = "edit_load" /\ step = "edit_save"
    PROVE  WorkersTyped'
BY DEF WorkersTyped, RequestTyped, Loaded, Goto, Steps, LockedSteps,
     AssignSteps, StatusSteps, EditSteps, CopySteps, SaveSteps

\* A row that FindByID returns is a row of the table.
LEMMA VisibleIsRow ==
    ASSUME TypeOK, NEW t \in Task, NEW c, VisibleTo(rows[t], c)
    PROVE  rows[t] \in Row
BY DEF TypeOK, VisibleTo, Live

\* Both outcomes of a write keep the table and its history typed.
LEMMA SaveTyped ==
    ASSUME TypeOK, NEW t \in Task, NEW row \in Row,
           Save(t, row) \/ SaveUncertain(t, row)
    PROVE  /\ rows' \in [Task -> Row \cup {NoRow}]
           /\ versions' \in [Task -> SUBSET Row]
BY DEF TypeOK, Save, SaveUncertain

LEMMA TypedInit == Init => Typed
<1> SUFFICES ASSUME Init PROVE Typed
  OBVIOUS
<1>1. rows \in [Task -> Row \cup {NoRow}]
  BY RowsAssumption DEF Init
<1>2. versions \in [Task -> SUBSET Row]
  BY <1>1 DEF Init, Live
<1>3. TypeOK
  BY <1>1, <1>2 DEF Init, TypeOK, Steps, Codes
<1>4. WorkersTyped
  BY <1>3 DEF Init, TypeOK, WorkersTyped, RequestTyped, AssignSteps, LockedSteps,
     StatusSteps, EditSteps, CopySteps, SaveSteps
<1>5. QED
  BY <1>3, <1>4 DEF Typed

LEMMA TypedNext == Typed /\ [Next]_vars => Typed'
<1> SUFFICES ASSUME Typed, [Next]_vars PROVE Typed'
  OBVIOUS
<1>0. TypeOK /\ WorkersTyped
  BY DEF Typed
<1>a. ASSUME WorkersTyped',
             rows' \in [Task -> Row \cup {NoRow}], versions' \in [Task -> SUBSET Row],
             locks' \in [Task -> Worker \cup {Free}], expiring' \subseteq Task,
             events' \subseteq AssignedEvents \cup StatusEvents,
             served' \in Nat, overrun' \subseteq Task
      PROVE  Typed'
  BY <1>a DEF Typed, TypeOK, WorkersTyped
<1>1. ASSUME NEW w \in Worker, Receive(w) PROVE Typed'
  <2>1. PICK r \in Requests : /\ req' = [req EXCEPT ![w] = r]
                              /\ pc' = [pc EXCEPT ![w] = FirstStep[r.kind]]
    BY <1>1 DEF Receive, Goto
  <2>2. r \in AllRequests /\ FirstStep[r.kind] \in Steps
    BY RequestAssumption, FirstStepType
  <2>3. pc' \in [Worker -> Steps] /\ req' \in [Worker -> AllRequests \cup {NoRequest}]
    BY <1>0, <2>1, <2>2 DEF WorkersTyped
  <2>4. RequestTyped(w)'
    BY <1>0, <1>1, <2>1, <2>2 DEF Receive, WorkersTyped, RequestTyped, FirstStep,
       AllRequests, AssignSteps, LockedSteps, StatusSteps, EditSteps, CopySteps, SaveSteps
  <2>5. \A v \in Worker \ {w} : RequestTyped(v)'
    BY <1>0, <1>1, <2>1 DEF Receive, WorkersTyped, RequestTyped
  <2>6. WorkersTyped'
    BY <1>0, <1>1, <2>3, <2>4, <2>5 DEF Receive, WorkersTyped
  <2>7. QED
    BY <1>0, <1>a, <1>1, <2>6 DEF Receive, TypeOK
<1>2. ASSUME NEW w \in Worker, AssignAcquire(w) PROVE Typed'
  <2>1. WorkersTyped'
    BY <1>0, <1>2, RespondTyped, ContinueTyped
    DEF AssignAcquire, SetNXReply, Steps, LockedSteps
  <2>2. req[w].task \in Task
    BY <1>0, <1>2, RequestFields DEF AssignAcquire
  <2>3. QED
    BY <1>0, <1>a, <1>2, <2>1, <2>2 DEF AssignAcquire, SetKey, TypeOK
<1>3. ASSUME NEW w \in Worker, AssignAcquireFails(w) PROVE Typed'
  <2>1. WorkersTyped'
    BY <1>0, <1>3, RespondTyped DEF AssignAcquireFails
  <2>2. req[w].task \in Task
    BY <1>0, <1>3, RequestFields DEF AssignAcquireFails
  <2>3. QED
    BY <1>0, <1>a, <1>3, <2>1, <2>2 DEF AssignAcquireFails, SetKey, TypeOK
<1>4. ASSUME NEW w \in Worker, AssignLoad(w) PROVE Typed'
  <2>1. req[w].task \in Task /\ pc[w] = "assign_load"
    BY <1>0, <1>4, RequestFields DEF AssignLoad
  <2>2. ASSUME NEW err, Unwind(w, err) PROVE WorkersTyped'
    BY <1>0, <2>1, <2>2, UnwindTyped DEF LockedSteps
  <2>3. ASSUME VisibleTo(rows[req[w].task], CallerCompany(w)), Loaded(w, "assign_save")
        PROVE  WorkersTyped'
    BY <1>0, <2>1, <2>3, VisibleIsRow, LoadedTyped DEF SaveSteps
  <2>4. WorkersTyped'
    BY <1>4, <2>2, <2>3 DEF AssignLoad
  <2>5. QED
    BY <1>0, <1>a, <1>4, <2>4 DEF AssignLoad, TypeOK
<1>5. ASSUME NEW w \in Worker, AssignSave(w) PROVE Typed'
  <2> DEFINE row == [snap[w] EXCEPT !.assigned = req[w].arg]
  <2>1. pc[w] = "assign_save"
    BY <1>5 DEF AssignSave
  <2>2. req[w].task \in Task /\ req[w].arg \in User /\ snap[w] \in Row
    BY <1>0, <2>1, RequestFields
    DEF AssignSteps, LockedSteps, WorkersTyped, RequestTyped, CopySteps, SaveSteps
  <2>3. row \in Row
    BY <2>2, EditedRowType
  <2>4. /\ rows' \in [Task -> Row \cup {NoRow}]
        /\ versions' \in [Task -> SUBSET Row]
    BY <1>0, <1>5, <2>2, <2>3, SaveTyped DEF AssignSave
  <2>5. WorkersTyped'
    BY <1>0, <1>5, <2>1, UnwindTyped, ContinueTyped DEF AssignSave, Steps, LockedSteps
  <2>6. QED
    BY <1>0, <1>a, <1>5, <2>4, <2>5 DEF AssignSave, TypeOK
<1>6. ASSUME NEW w \in Worker, AssignPublish(w) PROVE Typed'
  <2>1. pc[w] = "assign_publish"
    BY <1>6 DEF AssignPublish
  <2>2. req[w].task \in Task /\ req[w].arg \in User /\ req[w].caller \in User
    BY <1>0, <2>1, RequestFields DEF AssignSteps, LockedSteps
  <2>3. events' \subseteq AssignedEvents \cup StatusEvents
    BY <1>0, <1>6, <2>2 DEF AssignPublish, Publish, AssignedEvents, TypeOK
  <2>4. WorkersTyped'
    BY <1>0, <1>6, <2>1, UnwindTyped DEF AssignPublish, LockedSteps
  <2>5. QED
    BY <1>0, <1>a, <1>6, <2>3, <2>4 DEF AssignPublish, TypeOK
<1>7. ASSUME NEW w \in Worker, AssignRelease(w) PROVE Typed'
  <2>1. WorkersTyped'
    BY <1>0, <1>7, ForgetTyped DEF AssignRelease
  <2>2. QED
    BY <1>0, <1>a, <1>7, <2>1 DEF AssignRelease, Del, DropKey, StillOverrun, TypeOK
<1>8. ASSUME NEW w \in Worker, StatusLoad(w) PROVE Typed'
  <2>1. req[w].task \in Task /\ pc[w] = "status_load"
    BY <1>0, <1>8, RequestFields DEF StatusLoad
  <2>2. ASSUME NEW err, Respond(w, err) PROVE WorkersTyped'
    BY <1>0, <2>2, RespondTyped
  <2>3. ASSUME VisibleTo(rows[req[w].task], CallerCompany(w)), Loaded(w, "status_save")
        PROVE  WorkersTyped'
    BY <1>0, <2>1, <2>3, VisibleIsRow, LoadedTyped DEF SaveSteps
  <2>4. WorkersTyped'
    BY <1>8, <2>2, <2>3 DEF StatusLoad
  <2>5. QED
    BY <1>0, <1>a, <1>8, <2>4 DEF StatusLoad, TypeOK
<1>9. ASSUME NEW w \in Worker, StatusSave(w) PROVE Typed'
  <2> DEFINE row == [snap[w] EXCEPT !.status = req[w].arg]
  <2>1. pc[w] = "status_save"
    BY <1>9 DEF StatusSave
  <2>2. req[w].task \in Task /\ req[w].arg \in Status /\ snap[w] \in Row
    BY <1>0, <2>1, RequestFields
    DEF StatusSteps, WorkersTyped, RequestTyped, CopySteps, SaveSteps
  <2>3. row \in Row
    BY <2>2, EditedRowType
  <2>4. /\ rows' \in [Task -> Row \cup {NoRow}]
        /\ versions' \in [Task -> SUBSET Row]
    BY <1>0, <1>9, <2>2, <2>3, SaveTyped DEF StatusSave
  <2>5. WorkersTyped'
    BY <1>0, <1>9, <2>1, RespondTyped, ContinueTyped DEF StatusSave, Steps
  <2>6. QED
    BY <1>0, <1>a, <1>9, <2>4, <2>5 DEF StatusSave, TypeOK
<1>10. ASSUME NEW w \in Worker, StatusPublish(w) PROVE Typed'
  <2>1. pc[w] = "status_publish"
    BY <1>10 DEF StatusPublish
  <2>2. /\ req[w].task \in Task /\ req[w].arg \in Status /\ req[w].caller \in User
        /\ snap[w] \in Row
    BY <1>0, <2>1, RequestFields
    DEF StatusSteps, WorkersTyped, RequestTyped, CopySteps, SaveSteps
  <2>3. events' \subseteq AssignedEvents \cup StatusEvents
    BY <1>0, <1>10, <2>2 DEF StatusPublish, Publish, StatusEvents, TypeOK, Row
  <2>4. WorkersTyped'
    BY <1>0, <1>10, RespondTyped DEF StatusPublish
  <2>5. QED
    BY <1>0, <1>a, <1>10, <2>3, <2>4 DEF StatusPublish, TypeOK
<1>11. ASSUME NEW w \in Worker, EditLoad(w) PROVE Typed'
  <2>1. req[w].task \in Task /\ pc[w] = "edit_load"
    BY <1>0, <1>11, RequestFields DEF EditLoad
  <2>2. ASSUME NEW err, Respond(w, err) PROVE WorkersTyped'
    BY <1>0, <2>2, RespondTyped
  <2>3. ASSUME VisibleTo(rows[req[w].task], CallerCompany(w)), Loaded(w, "edit_save")
        PROVE  WorkersTyped'
    BY <1>0, <2>1, <2>3, VisibleIsRow, LoadedTyped DEF SaveSteps
  <2>4. WorkersTyped'
    BY <1>11, <2>2, <2>3 DEF EditLoad
  <2>5. QED
    BY <1>0, <1>a, <1>11, <2>4 DEF EditLoad, TypeOK
<1>12. ASSUME NEW w \in Worker, EditSave(w) PROVE Typed'
  <2> DEFINE row == [snap[w] EXCEPT !.detail = req[w].arg]
  <2>1. pc[w] = "edit_save"
    BY <1>12 DEF EditSave
  <2>2. req[w].task \in Task /\ req[w].arg \in Detail /\ snap[w] \in Row
    BY <1>0, <2>1, RequestFields
    DEF EditSteps, WorkersTyped, RequestTyped, CopySteps, SaveSteps
  <2>3. row \in Row
    BY <2>2, EditedRowType
  <2>4. /\ rows' \in [Task -> Row \cup {NoRow}]
        /\ versions' \in [Task -> SUBSET Row]
    BY <1>0, <1>12, <2>2, <2>3, SaveTyped DEF EditSave
  <2>5. WorkersTyped'
    BY <1>0, <1>12, RespondTyped DEF EditSave
  <2>6. QED
    BY <1>0, <1>a, <1>12, <2>4, <2>5 DEF EditSave, TypeOK
<1>13. ASSUME NEW w \in Worker, CreateTask(w) PROVE Typed'
  <2>1. req[w].task \in Task /\ req[w].arg \in Detail /\ req[w].caller \in User
    BY <1>0, <1>13, RequestFields DEF CreateTask
  <2>2. NewRow(CallerCompany(w), req[w].arg) \in Row
    BY <2>1, PeopleAssumption, NewRowType DEF CallerCompany
  <2>3. /\ rows' \in [Task -> Row \cup {NoRow}]
        /\ versions' \in [Task -> SUBSET Row]
    BY <1>0, <1>13, <2>1, <2>2, SaveTyped DEF CreateTask, TypeOK
  <2>4. WorkersTyped'
    BY <1>0, <1>13, RespondTyped DEF CreateTask
  <2>5. QED
    BY <1>0, <1>a, <1>13, <2>3, <2>4 DEF CreateTask, TypeOK
<1>14. ASSUME NEW w \in Worker, DeleteTask(w) PROVE Typed'
  <2>1. req[w].task \in Task
    BY <1>0, <1>14, RequestFields DEF DeleteTask
  <2> DEFINE t == req[w].task
             marked == [rows EXCEPT ![t].deleted = TRUE]
  <2>2. rows' = rows \/ (VisibleTo(rows[t], CallerCompany(w)) /\ rows' = marked)
    BY <1>14 DEF DeleteTask
  <2>3. ASSUME VisibleTo(rows[t], CallerCompany(w)) PROVE marked \in [Task -> Row \cup {NoRow}]
    <3>1. rows \in [Task -> Row \cup {NoRow}] /\ rows[t] \in Row
      BY <1>0, <2>1, <2>3, VisibleIsRow DEF TypeOK
    <3>2. [rows[t] EXCEPT !.deleted = TRUE] \in Row
      BY <3>1, EditedRowType
    <3>3. marked = [rows EXCEPT ![t] = [rows[t] EXCEPT !.deleted = TRUE]]
      BY Zenon
    <3>4. QED
      BY <3>1, <3>2, <3>3
  <2>4. rows' \in [Task -> Row \cup {NoRow}]
    BY <1>0, <2>2, <2>3 DEF TypeOK
  <2>5. WorkersTyped'
    BY <1>0, <1>14, RespondTyped DEF DeleteTask
  <2>6. QED
    BY <1>0, <1>a, <1>14, <2>4, <2>5 DEF DeleteTask, TypeOK
<1>15. ASSUME NEW w \in Worker, Crash(w) PROVE Typed'
  <2>1. WorkersTyped'
    BY <1>0, <1>15, ForgetTyped DEF Crash
  <2>2. QED
    BY <1>0, <1>a, <1>15, <2>1 DEF Crash, StillOverrun, TypeOK
<1>16. ASSUME NEW t \in Task, LockExpires(t) PROVE Typed'
  <2>1. WorkersTyped'
    BY <1>0, <1>16 DEF LockExpires, WorkersTyped, RequestTyped
  <2>2. QED
    BY <1>0, <1>a, <1>16, <2>1 DEF LockExpires, DropKey, TypeOK
<1>17. CASE UNCHANGED vars
  BY <1>17 DEF vars, Typed, TypeOK, WorkersTyped, RequestTyped
<1>18. QED
  BY <1>1, <1>2, <1>3, <1>4, <1>5, <1>6, <1>7, <1>8, <1>9, <1>10, <1>11, <1>12,
     <1>13, <1>14, <1>15, <1>16, <1>17
  DEF Next, HandlerStep, AssignStep, StatusStep, OtherStep

\* Every variable keeps its type, and a worker that is about to write or to
\* announce holds a copy of a row.
THEOREM TaskServiceTyped == Spec => []Typed
<1>1. QED
  BY TypedInit, TypedNext, PTL DEF Spec

\* The type invariant the runs check.
THEOREM TaskServiceTypeOK == Spec => []TypeOK
<1>1. Typed => TypeOK
  BY DEF Typed
<1>2. QED
  BY <1>1, TaskServiceTyped, PTL
-------------------------------------------------------------------------------
(***************************************************************************)
(* The assignment lock. AssignersExclusive is not inductive: it says       *)
(* nothing of the key. What a step keeps is that a request inside the      *)
(* section of a task that is not overrun is the one that set the key.      *)
(***************************************************************************)
LockInv == \A t \in Task \ overrun : \A w \in Worker : Inside(w, t) => locks[t] = w

\* A step that moves its worker within or out of the locked steps, keeps the keys
\* and forgets no overrun of a task somebody is inside of.
LEMMA LockInvQuiet ==
    ASSUME LockInv, UNCHANGED locks,
           \A t \in Task, v \in Worker : Inside(v, t)' => Inside(v, t),
           \A t \in overrun : (\E v \in Worker : Inside(v, t)') => t \in overrun'
    PROVE  LockInv'
BY DEF LockInv

\* Where the worker that steps is, is the only thing that changes about "inside".
LEMMA OthersStayPut ==
    ASSUME WorkersTyped, NEW w \in Worker, NEW v \in Worker, v # w, NEW t,
           Forget(w) \/ \E step : Goto(w, step) /\ UNCHANGED req
    PROVE  Inside(v, t)' <=> Inside(v, t)
BY DEF WorkersTyped, Inside, Forget, Goto

LEMMA LockInvNext == Typed /\ LockInv /\ [Next]_vars => LockInv'
<1> SUFFICES ASSUME Typed, LockInv, [Next]_vars PROVE LockInv'
  OBVIOUS
<1>0. WorkersTyped /\ TypeOK
  BY DEF Typed
<1>a. ASSUME NEW w \in Worker, Forget(w), UNCHANGED locks,
             \/ UNCHANGED overrun
             \/ overrun' = StillOverrun
      PROVE  LockInv'
  <2>1. \A t \in Task, v \in Worker : Inside(v, t)' => Inside(v, t)
    BY <1>0, <1>a DEF WorkersTyped, Inside, Forget, Goto, LockedSteps
  <2>2. QED
    BY <1>0, <1>a, <2>1, LockInvQuiet DEF StillOverrun
<1>b. ASSUME NEW w \in Worker, NEW step, Goto(w, step), UNCHANGED <<req, locks, overrun>>,
             step \in LockedSteps => pc[w] \in LockedSteps
      PROVE  LockInv'
  <2>1. \A t \in Task, v \in Worker : Inside(v, t)' => Inside(v, t)
    BY <1>0, <1>b DEF WorkersTyped, Inside, Goto
  <2>2. QED
    BY <1>b, <2>1, LockInvQuiet
<1>1. ASSUME NEW w \in Worker, Receive(w) PROVE LockInv'
  <2>1. \A t \in Task, v \in Worker : Inside(v, t)' => Inside(v, t)
    <3>1. PICK r \in Requests : /\ req' = [req EXCEPT ![w] = r]
                                /\ pc' = [pc EXCEPT ![w] = FirstStep[r.kind]]
      BY <1>1 DEF Receive, Goto
    <3>2. FirstStep[r.kind] \notin LockedSteps
      BY RequestAssumption DEF AllRequests, FirstStep, LockedSteps
    <3>3. QED
      BY <1>0, <3>1, <3>2 DEF WorkersTyped, Inside
  <2>2. QED
    BY <1>1, <2>1, LockInvQuiet DEF Receive
<1>2. ASSUME NEW w \in Worker, AssignAcquire(w) PROVE LockInv'
  <2> DEFINE t0 == req[w].task
  <2>1. CASE locks[t0] = Free
    <3>1. /\ locks' = [locks EXCEPT ![t0] = w] /\ Goto(w, "assign_load")
          /\ UNCHANGED <<req, overrun>>
      BY <1>2, <2>1 DEF AssignAcquire, SetKey, SetNXReply, Continue
    <3>2. pc[w] = "assign_lock" /\ t0 \in Task
      BY <1>0, <1>2, RequestFields DEF AssignAcquire
    <3>3. ASSUME NEW t \in Task \ overrun', NEW v \in Worker, Inside(v, t)'
          PROVE  locks'[t] = v
      <4>1. CASE v = w
        BY <1>0, <3>1, <3>2, <3>3, <4>1 DEF TypeOK, Inside
      <4>2. CASE v # w
        <5>1. Inside(v, t) /\ locks[t] = v
          BY <1>0, <3>1, <3>3, <4>2, OthersStayPut DEF LockInv
        <5>2. t # t0
          BY <2>1, <5>1, RequestAssumption
        <5>3. QED
          BY <1>0, <3>1, <5>1, <5>2 DEF TypeOK
      <4>3. QED
        BY <4>1, <4>2
    <3>4. QED
      BY <3>3 DEF LockInv
  <2>2. CASE locks[t0] # Free
    BY <1>2, <1>a, <2>2 DEF AssignAcquire, SetNXReply, Respond
  <2>3. QED
    BY <2>1, <2>2
<1>3. ASSUME NEW w \in Worker, AssignAcquireFails(w) PROVE LockInv'
  <2> DEFINE t0 == req[w].task
  <2>1. CASE UNCHANGED locks
    BY <1>3, <1>a, <2>1 DEF AssignAcquireFails, Respond
  <2>2. CASE locks[t0] = Free /\ locks' = [locks EXCEPT ![t0] = w]
    <3>1. Forget(w) /\ UNCHANGED overrun
      BY <1>3 DEF AssignAcquireFails, Respond
    <3>2. ASSUME NEW t \in Task \ overrun', NEW v \in Worker, Inside(v, t)'
          PROVE  locks'[t] = v
      <4>1. v # w
        BY <1>0, <3>1, <3>2 DEF WorkersTyped, Inside, Forget, Goto, LockedSteps
      <4>2. Inside(v, t) /\ locks[t] = v
        BY <1>0, <3>1, <3>2, <4>1, OthersStayPut DEF LockInv
      <4>3. t # t0
        BY <2>2, <4>2, RequestAssumption
      <4>4. QED
        BY <1>0, <2>2, <4>2, <4>3 DEF TypeOK
    <3>3. QED
      BY <3>2 DEF LockInv
  <2>3. QED
    BY <1>3, <2>1, <2>2 DEF AssignAcquireFails, SetKey
<1>4. ASSUME NEW w \in Worker, AssignLoad(w) PROVE LockInv'
  BY <1>4, <1>b DEF AssignLoad, Unwind, Loaded, LockedSteps
<1>5. ASSUME NEW w \in Worker, AssignSave(w) PROVE LockInv'
  BY <1>5, <1>b DEF AssignSave, Unwind, Continue, LockedSteps
<1>6. ASSUME NEW w \in Worker, AssignPublish(w) PROVE LockInv'
  BY <1>6, <1>b DEF AssignPublish, Unwind, LockedSteps
<1>7. ASSUME NEW w \in Worker, AssignRelease(w) PROVE LockInv'
  <2> DEFINE t0 == req[w].task
  <2>1. CASE UNCHANGED locks
    BY <1>7, <1>a, <2>1 DEF AssignRelease
  <2>2. CASE locks' = [locks EXCEPT ![t0] = Free]
    <3>1. Forget(w) /\ overrun' = StillOverrun /\ pc[w] = "assign_release"
      BY <1>7 DEF AssignRelease
    <3>2. t0 \in Task /\ Inside(w, t0)
      BY <1>0, <3>1, RequestFields DEF Inside, LockedSteps
    <3>3. ASSUME NEW t \in Task \ overrun', NEW v \in Worker, Inside(v, t)'
          PROVE  locks'[t] = v
      <4>1. v # w
        BY <1>0, <3>1, <3>3 DEF WorkersTyped, Inside, Forget, Goto, LockedSteps
      <4>2. t \notin overrun
        BY <3>1, <3>3 DEF StillOverrun
      <4>3. Inside(v, t) /\ locks[t] = v
        BY <1>0, <3>1, <3>3, <4>1, <4>2, OthersStayPut DEF LockInv
      <4>4. t # t0
        BY <3>2, <4>1, <4>2, <4>3 DEF LockInv
      <4>5. QED
        BY <1>0, <2>2, <4>3, <4>4 DEF TypeOK
    <3>4. QED
      BY <3>3 DEF LockInv
  <2>3. QED
    BY <1>7, <2>1, <2>2 DEF AssignRelease, Del, DropKey
<1>8. ASSUME NEW w \in Worker, StatusStep(w) \/ OtherStep(w) PROVE LockInv'
  <2>1. UNCHANGED <<locks, overrun>>
    BY <1>8 DEF StatusStep, OtherStep, StatusLoad, StatusSave, StatusPublish,
       EditLoad, EditSave, CreateTask, DeleteTask
  <2>2. \/ Forget(w)
        \/ /\ Goto(w, "status_save") \/ Goto(w, "status_publish") \/ Goto(w, "edit_save")
           /\ UNCHANGED req
    BY <1>8 DEF StatusStep, OtherStep, StatusLoad, StatusSave, StatusPublish,
       EditLoad, EditSave, CreateTask, DeleteTask, Respond, Loaded, Continue
  <2>3. QED
    BY <1>a, <1>b, <2>1, <2>2 DEF LockedSteps
<1>9. ASSUME NEW w \in Worker, Crash(w) PROVE LockInv'
  BY <1>9, <1>a DEF Crash
<1>10. ASSUME NEW t0 \in Task, LockExpires(t0) PROVE LockInv'
  <2>1. \A t \in Task, v \in Worker : Inside(v, t)' <=> Inside(v, t)
    BY <1>10 DEF LockExpires, Inside
  <2>2. ASSUME NEW t \in Task \ overrun', NEW v \in Worker, Inside(v, t)'
        PROVE  locks'[t] = v
    BY <1>0, <1>10, <2>1, <2>2 DEF LockExpires, DropKey, LockInv, TypeOK
  <2>3. QED
    BY <2>2 DEF LockInv
<1>11. CASE UNCHANGED vars
  BY <1>11 DEF vars, LockInv, Inside
<1>12. QED
  BY <1>1, <1>2, <1>3, <1>4, <1>5, <1>6, <1>7, <1>8, <1>9, <1>10, <1>11
  DEF Next, HandlerStep, AssignStep

\* No two requests are inside AssignTask for the same task, unless one of them has
\* outlived the TTL of its lock. It holds whatever else fails: a SET whose reply is
\* lost, a Del that fails, a pod that dies inside.
THEOREM AssignmentMutualExclusion == Spec => []AssignersExclusive
<1>1. Init => LockInv
  BY DEF Init, LockInv, Inside, LockedSteps
<1>2. LockInv => AssignersExclusive
  <2> SUFFICES ASSUME LockInv, NEW t \in Task \ overrun, NEW v \in Worker,
                      NEW w \in Worker, Inside(v, t), Inside(w, t)
               PROVE  v = w
    BY DEF AssignersExclusive
  <2>1. QED
    BY DEF LockInv
<1>3. Spec => []LockInv
  BY <1>1, LockInvNext, TaskServiceTyped, PTL DEF Spec
<1>4. QED
  BY <1>2, <1>3, PTL

\* The safety half of LockFreed: a key in Redis has its TTL, also when the reply to its SET
\* was lost, and Del, by whomever, leaves no TTL to a later key.
THEOREM NoLockWithoutTTL == Spec => []LocksExpire
<1>1. Init => LocksExpire
  BY DEF Init, LocksExpire
<1>2. TypeOK /\ LocksExpire /\ [Next]_vars => LocksExpire'
  <2> SUFFICES ASSUME TypeOK, LocksExpire, [Next]_vars PROVE LocksExpire'
    OBVIOUS
  <2>1. ASSUME NEW t, NEW w \in Worker, SetKey(t, w) PROVE LocksExpire'
    BY <2>1 DEF SetKey, LocksExpire, TypeOK
  <2>2. ASSUME NEW t, DropKey(t) PROVE LocksExpire'
    BY <2>2 DEF DropKey, LocksExpire, TypeOK
  <2>3. CASE UNCHANGED <<locks, expiring>>
    BY <2>3 DEF LocksExpire
  <2>4. ASSUME NEW w \in Worker, AssignStep(w) PROVE LocksExpire'
    BY <2>1, <2>2, <2>3, <2>4 DEF AssignStep, AssignAcquire, AssignAcquireFails, AssignLoad,
       AssignSave, AssignPublish, AssignRelease, Del
  <2>5. ASSUME NEW w \in Worker, Receive(w) \/ StatusStep(w) \/ OtherStep(w) \/ Crash(w)
        PROVE  LocksExpire'
    BY <2>3, <2>5 DEF Receive, StatusStep, StatusLoad, StatusSave, StatusPublish, OtherStep,
       EditLoad, EditSave, CreateTask, DeleteTask, Crash
  <2>6. ASSUME NEW t \in Task, LockExpires(t) PROVE LocksExpire'
    BY <2>2, <2>6 DEF LockExpires
  <2> QED
    BY <2>3, <2>4, <2>5, <2>6 DEF Next, HandlerStep, vars
<1>3. QED
  BY <1>1, <1>2, TaskServiceTypeOK, PTL DEF Spec
-------------------------------------------------------------------------------
(***************************************************************************)
(* What a request knows about the copy it holds, and what the history      *)
(* knows about the table. Everything below follows from these two.         *)
(***************************************************************************)
Edited(w) ==
    CASE pc[w] = "assign_publish" -> [snap[w] EXCEPT !.assigned = req[w].arg]
      [] pc[w] = "status_publish" -> [snap[w] EXCEPT !.status = req[w].arg]

CopyInv(w) ==
    /\ pc[w] \in CopySteps \ {"assign_release"} =>
          /\ snap[w] \in versions[req[w].task]
          /\ snap[w].company = CallerCompany(w)
    /\ pc[w] = "assign_save" => AssigneeFound(w)
    /\ pc[w] \in {"status_save", "status_publish"}
          => Permitted(w, snap[w].status, req[w].arg)
    /\ pc[w] \in {"assign_publish", "status_publish"}
          => Edited(w) \in versions[req[w].task]

VersionInv(t) ==
    /\ \A v \in versions[t] : Live(v) /\ TenantRow(v)
    /\ rows[t] # NoRow => TenantRow(rows[t])
    /\ Live(rows[t]) => rows[t] \in versions[t]

HistoryInv ==
    /\ \A w \in Worker : CopyInv(w)
    /\ \A t \in Task : VersionInv(t)

\* A request whose own state does not change keeps what it knows: versions only grow.
LEMMA CopyKept ==
    ASSUME NEW w \in Worker, CopyInv(w),
           pc'[w] = pc[w], req'[w] = req[w], snap'[w] = snap[w],
           versions[req[w].task] \subseteq versions'[req[w].task]
    PROVE  CopyInv(w)'
BY DEF CopyInv, CallerCompany, AssigneeFound, Permitted, Edited

\* The same for every request but one, whatever that one does.
LEMMA OthersKept ==
    ASSUME Typed, NEW w \in Worker, \A v \in Worker : CopyInv(v),
           \/ Forget(w)
           \/ \E step : Goto(w, step) /\ UNCHANGED <<req, snap>>
           \/ \E step : Loaded(w, step),
           \A t \in Task : versions[t] \subseteq versions'[t]
    PROVE  \A v \in Worker \ {w} : CopyInv(v)'
<1> SUFFICES ASSUME NEW v \in Worker \ {w} PROVE CopyInv(v)'
  OBVIOUS
<1>1. pc'[v] = pc[v] /\ req'[v] = req[v] /\ snap'[v] = snap[v]
  BY DEF Typed, WorkersTyped, Forget, Goto, Loaded
<1>2. CASE pc[v] = "idle"
  BY <1>1, <1>2 DEF CopyInv, CopySteps, SaveSteps
<1>3. CASE pc[v] # "idle"
  BY <1>1, <1>3, CopyKept, RequestFields DEF Typed
<1>4. QED
  BY <1>2, <1>3

\* A worker that is idle, or unwinding to its Del, claims nothing.
LEMMA NothingClaimed ==
    ASSUME Typed, NEW w \in Worker,
           Forget(w) \/ (\E err : Unwind(w, err))
    PROVE  CopyInv(w)'
BY DEF Typed, WorkersTyped, Forget, Unwind, Goto, CopyInv, CopySteps, SaveSteps

\* Writing a live row whose assignee is of the right company keeps the history.
LEMMA SaveKeepsVersions ==
    ASSUME Typed, NEW t \in Task, NEW row \in Row, Live(row), TenantRow(row),
           Save(t, row) \/ SaveUncertain(t, row), \A u \in Task : VersionInv(u)
    PROVE  /\ \A u \in Task : VersionInv(u)'
           /\ \A u \in Task : versions[u] \subseteq versions'[u]
BY DEF Typed, TypeOK, Save, SaveUncertain, VersionInv

\* What AssignSave writes: a live row of the same company, assigned within it.
LEMMA AssignWrites ==
    ASSUME Typed, HistoryInv, NEW w \in Worker, pc[w] = "assign_save"
    PROVE  /\ req[w].task \in Task /\ req[w].arg \in User
           /\ snap[w] \in versions[req[w].task] /\ snap[w] \in Row
           /\ snap[w].company = CallerCompany(w) /\ AssigneeFound(w)
           /\ LET row == [snap[w] EXCEPT !.assigned = req[w].arg]
              IN  row \in Row /\ Live(row) /\ TenantRow(row)
<1>1. req[w].task \in Task /\ req[w].arg \in User /\ snap[w] \in Row
  BY RequestFields DEF Typed, WorkersTyped, RequestTyped, AssignSteps, LockedSteps,
     CopySteps, SaveSteps
<1>2. /\ snap[w] \in versions[req[w].task] /\ Live(snap[w])
      /\ snap[w].company = CallerCompany(w) /\ AssigneeFound(w)
  BY <1>1 DEF HistoryInv, CopyInv, VersionInv, CopySteps, SaveSteps
<1>3. [snap[w] EXCEPT !.assigned = req[w].arg] \in Row
  BY <1>1, EditedRowType
<1>4. QED
  BY <1>1, <1>2, <1>3, RowsAssumption DEF Live, TenantRow, AssigneeFound, Row

\* What StatusSave writes.
LEMMA StatusWrites ==
    ASSUME Typed, HistoryInv, NEW w \in Worker, pc[w] = "status_save"
    PROVE  /\ req[w].task \in Task /\ req[w].arg \in Status /\ req[w].caller \in User
           /\ snap[w] \in versions[req[w].task] /\ snap[w] \in Row
           /\ snap[w].company = CallerCompany(w)
           /\ Permitted(w, snap[w].status, req[w].arg)
           /\ LET row == [snap[w] EXCEPT !.status = req[w].arg]
              IN  row \in Row /\ Live(row) /\ TenantRow(row)
<1>1. /\ req[w].task \in Task /\ req[w].arg \in Status /\ req[w].caller \in User
      /\ snap[w] \in Row
  BY RequestFields DEF Typed, WorkersTyped, RequestTyped, StatusSteps, CopySteps, SaveSteps
<1>2. /\ snap[w] \in versions[req[w].task] /\ Live(snap[w]) /\ TenantRow(snap[w])
      /\ snap[w].company = CallerCompany(w)
      /\ Permitted(w, snap[w].status, req[w].arg)
  BY <1>1 DEF HistoryInv, CopyInv, VersionInv, CopySteps, SaveSteps
<1>3. [snap[w] EXCEPT !.status = req[w].arg] \in Row
  BY <1>1, EditedRowType
<1>4. QED
  BY <1>1, <1>2, <1>3, RowsAssumption DEF Live, TenantRow, Row

\* What EditSave writes.
LEMMA EditWrites ==
    ASSUME Typed, HistoryInv, NEW w \in Worker, pc[w] = "edit_save"
    PROVE  /\ req[w].task \in Task /\ req[w].arg \in Detail
           /\ snap[w] \in versions[req[w].task] /\ snap[w] \in Row
           /\ snap[w].company = CallerCompany(w)
           /\ LET row == [snap[w] EXCEPT !.detail = req[w].arg]
              IN  row \in Row /\ Live(row) /\ TenantRow(row)
<1>1. req[w].task \in Task /\ req[w].arg \in Detail /\ snap[w] \in Row
  BY RequestFields DEF Typed, WorkersTyped, RequestTyped, EditSteps, CopySteps, SaveSteps
<1>2. /\ snap[w] \in versions[req[w].task] /\ Live(snap[w]) /\ TenantRow(snap[w])
      /\ snap[w].company = CallerCompany(w)
  BY <1>1 DEF HistoryInv, CopyInv, VersionInv, CopySteps, SaveSteps
<1>3. [snap[w] EXCEPT !.detail = req[w].arg] \in Row
  BY <1>1, EditedRowType
<1>4. QED
  BY <1>1, <1>2, <1>3, RowsAssumption DEF Live, TenantRow, Row

\* What CreateTask writes.
LEMMA CreateWrites ==
    ASSUME Typed, NEW w \in Worker, pc[w] = "create"
    PROVE  /\ req[w].task \in Task /\ req[w].arg \in Detail
           /\ CallerCompany(w) \in Company
           /\ LET row == NewRow(CallerCompany(w), req[w].arg)
              IN  row \in Row /\ Live(row) /\ TenantRow(row)
<1>1. req[w].task \in Task /\ req[w].arg \in Detail /\ CallerCompany(w) \in Company
  BY RequestFields, PeopleAssumption DEF Typed, CallerCompany
<1>2. QED
  BY <1>1, NewRowType DEF NewRow, TenantRow

LEMMA HistoryInvInit == Init => HistoryInv
<1> SUFFICES ASSUME Init PROVE HistoryInv
  OBVIOUS
<1>1. \A w \in Worker : CopyInv(w)
  BY DEF Init, CopyInv, CopySteps, SaveSteps
<1>2. ASSUME NEW t \in Task PROVE VersionInv(t)
  BY RowsAssumption DEF Init, VersionInv, Live
<1>3. QED
  BY <1>1, <1>2 DEF HistoryInv

LEMMA HistoryInvNext == Typed /\ HistoryInv /\ [Next]_vars => HistoryInv'
<1> SUFFICES ASSUME Typed, HistoryInv, [Next]_vars PROVE HistoryInv'
  OBVIOUS
<1>0. /\ \A w \in Worker : CopyInv(w)
      /\ \A t \in Task : VersionInv(t)
      /\ TypeOK /\ WorkersTyped
  BY DEF HistoryInv, Typed
<1>q. ASSUME UNCHANGED <<rows, versions>>
      PROVE  /\ \A t \in Task : VersionInv(t)'
             /\ \A t \in Task : versions[t] \subseteq versions'[t]
  BY <1>0, <1>q DEF VersionInv
<1>1. ASSUME NEW w \in Worker, Receive(w) PROVE HistoryInv'
  <2>1. PICK r \in Requests : /\ req' = [req EXCEPT ![w] = r]
                              /\ pc' = [pc EXCEPT ![w] = FirstStep[r.kind]]
    BY <1>1 DEF Receive, Goto
  <2>2. FirstStep[r.kind] \notin CopySteps
    BY RequestAssumption DEF AllRequests, FirstStep, CopySteps, SaveSteps
  <2>3. CopyInv(w)'
    BY <1>0, <2>1, <2>2 DEF WorkersTyped, CopyInv, CopySteps, SaveSteps
  <2>4. \A v \in Worker \ {w} : CopyInv(v)'
    BY <1>0, <1>1, <2>1, CopyKept DEF Receive, WorkersTyped
  <2>5. QED
    BY <1>1, <1>q, <2>3, <2>4 DEF Receive, HistoryInv
<1>2. ASSUME NEW w \in Worker, UNCHANGED <<rows, versions>>, Forget(w) PROVE HistoryInv'
  BY <1>0, <1>2, <1>q, OthersKept, NothingClaimed DEF HistoryInv
<1>3. ASSUME NEW w \in Worker, NEW err, UNCHANGED <<rows, versions>>, Unwind(w, err)
      PROVE  HistoryInv'
  BY <1>0, <1>3, <1>q, OthersKept, NothingClaimed DEF HistoryInv, Unwind
<1>4. ASSUME NEW w \in Worker, AssignAcquire(w) PROVE HistoryInv'
  <2>1. CASE Forget(w)
    BY <1>2, <1>4, <2>1 DEF AssignAcquire
  <2>2. CASE Continue(w, "assign_load")
    <3>1. CopyInv(w)'
      BY <1>0, <2>2 DEF Continue, Goto, WorkersTyped, CopyInv, CopySteps, SaveSteps
    <3>2. \A v \in Worker \ {w} : CopyInv(v)'
      BY <1>0, <1>4, <1>q, <2>2, OthersKept DEF AssignAcquire, Continue
    <3>3. QED
      BY <1>4, <1>q, <3>1, <3>2 DEF AssignAcquire, HistoryInv
  <2>3. QED
    BY <1>4, <2>1, <2>2 DEF AssignAcquire, Respond
<1>5. ASSUME NEW w \in Worker, NEW step \in SaveSteps, Loaded(w, step),
             VisibleTo(rows[req[w].task], CallerCompany(w)),
             UNCHANGED <<rows, versions>>, pc[w] # "idle",
             step = "assign_save" => AssigneeFound(w),
             step = "status_save" =>
                 Permitted(w, rows[req[w].task].status, req[w].arg)
      PROVE  HistoryInv'
  <2>1. req[w].task \in Task
    BY <1>0, <1>5, RequestFields
  <2>2. /\ rows[req[w].task] \in versions[req[w].task]
        /\ rows[req[w].task].company = CallerCompany(w)
    BY <1>0, <1>5, <2>1 DEF VersionInv, VisibleTo
  <2>3. pc'[w] = step /\ snap'[w] = rows[req[w].task] /\ UNCHANGED req
    BY <1>0, <1>5 DEF Loaded, Goto, WorkersTyped
  <2>4. CopyInv(w)'
    BY <1>5, <2>2, <2>3
    DEF CopyInv, CopySteps, SaveSteps, CallerCompany, AssigneeFound, Permitted
  <2>5. \A v \in Worker \ {w} : CopyInv(v)'
    BY <1>0, <1>5, <1>q, OthersKept
  <2>6. QED
    BY <1>5, <1>q, <2>4, <2>5 DEF HistoryInv
<1>6. ASSUME NEW w \in Worker, AssignLoad(w) PROVE HistoryInv'
  <2>1. pc[w] = "assign_load" /\ UNCHANGED <<rows, versions>>
    BY <1>6 DEF AssignLoad
  <2>2. ASSUME VisibleTo(rows[req[w].task], CallerCompany(w)), AssigneeFound(w),
               Loaded(w, "assign_save")
        PROVE  HistoryInv'
    BY <1>5, <2>1, <2>2 DEF SaveSteps
  <2>3. QED
    BY <1>3, <1>6, <2>1, <2>2 DEF AssignLoad
<1>7. ASSUME NEW w \in Worker, AssignSave(w) PROVE HistoryInv'
  <2> DEFINE row == [snap[w] EXCEPT !.assigned = req[w].arg]
  <2>1. pc[w] = "assign_save"
    BY <1>7 DEF AssignSave
  <2>2. /\ req[w].task \in Task /\ row \in Row /\ Live(row) /\ TenantRow(row)
        /\ Save(req[w].task, row) \/ SaveUncertain(req[w].task, row)
    BY <1>7, <2>1, AssignWrites DEF AssignSave
  <2> HIDE DEF row
  <2>3. /\ \A u \in Task : VersionInv(u)'
        /\ \A u \in Task : versions[u] \subseteq versions'[u]
    BY <1>0, <2>2, SaveKeepsVersions
  <2>4. \A v \in Worker \ {w} : CopyInv(v)'
    BY <1>0, <1>7, <2>3, OthersKept DEF AssignSave, Continue, Unwind
  <2>5. CopyInv(w)'
    <3>1. CASE \E err : Unwind(w, err)
      BY <3>1, NothingClaimed
    <3>2. CASE Save(req[w].task, row) /\ Continue(w, "assign_publish")
      <4>1. pc'[w] = "assign_publish" /\ UNCHANGED <<req, snap>>
        BY <1>0, <3>2 DEF Continue, Goto, WorkersTyped
      <4>2. row \in versions'[req[w].task]
        BY <1>0, <2>2, <3>2 DEF Save, TypeOK
      <4>3. snap[w] \in versions'[req[w].task] /\ snap[w].company = CallerCompany(w)
        BY <2>1, <2>2, <2>3, AssignWrites
      <4>4. QED
        BY <4>1, <4>2, <4>3
        DEF CopyInv, CallerCompany, Edited, row
    <3>3. QED
      BY <1>7, <3>1, <3>2 DEF AssignSave, row
  <2>6. QED
    BY <2>3, <2>4, <2>5 DEF HistoryInv
<1>8. ASSUME NEW w \in Worker, StatusLoad(w) PROVE HistoryInv'
  <2>1. pc[w] = "status_load" /\ UNCHANGED <<rows, versions>>
    BY <1>8 DEF StatusLoad
  <2>2. ASSUME VisibleTo(rows[req[w].task], CallerCompany(w)),
               Permitted(w, rows[req[w].task].status, req[w].arg),
               Loaded(w, "status_save")
        PROVE  HistoryInv'
    BY <1>5, <2>1, <2>2 DEF SaveSteps
  <2>3. QED
    BY <1>2, <1>8, <2>1, <2>2 DEF StatusLoad, Respond
<1>9. ASSUME NEW w \in Worker, StatusSave(w) PROVE HistoryInv'
  <2> DEFINE row == [snap[w] EXCEPT !.status = req[w].arg]
  <2>1. pc[w] = "status_save"
    BY <1>9 DEF StatusSave
  <2>2. /\ req[w].task \in Task /\ row \in Row /\ Live(row) /\ TenantRow(row)
        /\ Save(req[w].task, row) \/ SaveUncertain(req[w].task, row)
    BY <1>9, <2>1, StatusWrites DEF StatusSave
  <2> HIDE DEF row
  <2>3. /\ \A u \in Task : VersionInv(u)'
        /\ \A u \in Task : versions[u] \subseteq versions'[u]
    BY <1>0, <2>2, SaveKeepsVersions
  <2>4. \A v \in Worker \ {w} : CopyInv(v)'
    BY <1>0, <1>9, <2>3, OthersKept DEF StatusSave, Continue, Respond
  <2>5. CopyInv(w)'
    <3>1. CASE Forget(w)
      BY <3>1, NothingClaimed
    <3>2. CASE Save(req[w].task, row) /\ Continue(w, "status_publish")
      <4>1. pc'[w] = "status_publish" /\ UNCHANGED <<req, snap>>
        BY <1>0, <3>2 DEF Continue, Goto, WorkersTyped
      <4>2. row \in versions'[req[w].task]
        BY <1>0, <2>2, <3>2 DEF Save, TypeOK
      <4>3. /\ snap[w] \in versions'[req[w].task]
            /\ snap[w].company = CallerCompany(w)
            /\ Permitted(w, snap[w].status, req[w].arg)
        BY <2>1, <2>2, <2>3, StatusWrites
      <4>4. QED
        BY <4>1, <4>2, <4>3
        DEF CopyInv, CallerCompany, Edited, Permitted, row
    <3>3. QED
      BY <1>9, <3>1, <3>2 DEF StatusSave, Respond, row
  <2>6. QED
    BY <2>3, <2>4, <2>5 DEF HistoryInv
<1>10. ASSUME NEW w \in Worker, EditLoad(w) PROVE HistoryInv'
  <2>1. pc[w] = "edit_load" /\ UNCHANGED <<rows, versions>>
    BY <1>10 DEF EditLoad
  <2>2. ASSUME VisibleTo(rows[req[w].task], CallerCompany(w)), Loaded(w, "edit_save")
        PROVE  HistoryInv'
    BY <1>5, <2>1, <2>2 DEF SaveSteps
  <2>3. QED
    BY <1>2, <1>10, <2>1, <2>2 DEF EditLoad, Respond
<1>11. ASSUME NEW w \in Worker, NEW t \in Task, NEW row \in Row,
              Live(row), TenantRow(row),
              Save(t, row) \/ SaveUncertain(t, row), Forget(w)
       PROVE  HistoryInv'
  <2>1. /\ \A u \in Task : VersionInv(u)'
        /\ \A u \in Task : versions[u] \subseteq versions'[u]
    BY <1>0, <1>11, SaveKeepsVersions
  <2>2. QED
    BY <1>0, <1>11, <2>1, OthersKept, NothingClaimed DEF HistoryInv
<1>12. ASSUME NEW w \in Worker, EditSave(w) PROVE HistoryInv'
  BY <1>11, <1>12, EditWrites DEF EditSave, Respond
<1>13. ASSUME NEW w \in Worker, CreateTask(w) PROVE HistoryInv'
  BY <1>2, <1>11, <1>13, CreateWrites DEF CreateTask, Respond
<1>14. ASSUME NEW w \in Worker, DeleteTask(w) PROVE HistoryInv'
  <2> DEFINE t == req[w].task
  <2>1. Forget(w) /\ UNCHANGED versions /\ t \in Task
    BY <1>0, <1>14, RequestFields DEF DeleteTask, Respond
  <2>2. CASE UNCHANGED rows
    BY <1>2, <2>1, <2>2
  <2>3. CASE /\ VisibleTo(rows[t], CallerCompany(w))
             /\ rows' = [rows EXCEPT ![t].deleted = TRUE]
    <3>1. rows[t] \in Row /\ rows[t] # NoRow
      BY <1>0, <2>1, <2>3, VisibleIsRow DEF VisibleTo, Live
    <3>2. rows'[t].deleted /\ TenantRow(rows'[t])
      BY <1>0, <2>1, <2>3, <3>1 DEF VersionInv, TenantRow, TypeOK, Row
    <3>3. \A u \in Task : VersionInv(u)'
      BY <1>0, <2>1, <2>3, <3>2 DEF VersionInv, Live, TypeOK
    <3>4. QED
      BY <1>0, <2>1, <3>3, OthersKept, NothingClaimed DEF HistoryInv
  <2>4. QED
    BY <1>14, <2>2, <2>3 DEF DeleteTask
<1>15. ASSUME NEW t \in Task, LockExpires(t) PROVE HistoryInv'
  BY <1>0, <1>15, <1>q
  DEF LockExpires, HistoryInv, CopyInv, Edited, CallerCompany, AssigneeFound, Permitted
<1>16. CASE UNCHANGED vars
  BY <1>0, <1>16, <1>q
  DEF vars, HistoryInv, CopyInv, Edited, CallerCompany, AssigneeFound, Permitted
<1>17. ASSUME NEW w \in Worker,
              \/ AssignAcquireFails(w) \/ AssignRelease(w) \/ Crash(w)
       PROVE  HistoryInv'
  BY <1>2, <1>17 DEF AssignAcquireFails, AssignRelease, Crash, Respond
<1>18. ASSUME NEW w \in Worker, AssignPublish(w) PROVE HistoryInv'
  BY <1>3, <1>18 DEF AssignPublish
<1>19. ASSUME NEW w \in Worker, StatusPublish(w) PROVE HistoryInv'
  BY <1>2, <1>19 DEF StatusPublish, Respond
<1>20. QED
  BY <1>1, <1>4, <1>6, <1>7, <1>8, <1>9, <1>10, <1>12, <1>13, <1>14, <1>15, <1>16,
     <1>17, <1>18, <1>19
  DEF Next, HandlerStep, AssignStep, StatusStep, OtherStep

THEOREM TaskServiceHistoryInv == Spec => []HistoryInv
<1>1. QED
  BY HistoryInvInit, HistoryInvNext, TaskServiceTyped, PTL DEF Spec
-------------------------------------------------------------------------------
(***************************************************************************)
(* What follows from the invariants.                                       *)
(***************************************************************************)

\* No interleaving stores an assignee from another company.
THEOREM AssigneesStayInTenant == Spec => []AssigneeInTenant
<1>1. HistoryInv => AssigneeInTenant
  BY DEF HistoryInv, VersionInv, AssigneeInTenant
<1>2. QED
  BY <1>1, TaskServiceHistoryInv, PTL

\* Only the six actions that write can change a row or its history.
LEMMA WritersOnly ==
    ASSUME Typed, [Next]_vars
    PROVE  \/ UNCHANGED <<rows, versions>>
           \/ \E w \in Worker : \/ AssignSave(w) \/ StatusSave(w) \/ EditSave(w)
                                \/ CreateTask(w) \/ DeleteTask(w)
<1>1. ASSUME NEW w \in Worker, HandlerStep(w)
      PROVE  \/ UNCHANGED <<rows, versions>>
             \/ AssignSave(w) \/ StatusSave(w) \/ EditSave(w)
             \/ CreateTask(w) \/ DeleteTask(w)
  BY <1>1 DEF HandlerStep, AssignStep, StatusStep, OtherStep, AssignAcquire,
     AssignAcquireFails, AssignLoad, AssignPublish, AssignRelease, StatusLoad,
     StatusPublish, EditLoad
<1>2. QED
  BY <1>1 DEF Next, Receive, Crash, LockExpires, vars

\* What the policy means for the two handlers that do not look at the role.
LEMMA OnlyManagersAdmitted ==
    ASSUME NEW role, NEW kind \in {"assign", "create"}, Admitted(role, kind)
    PROVE  role \in {"manager", "admin"}
<1>1. Resource(kind) \in {"/tasks/assign", "/tasks"}
  BY DEF Resource
<1>2. <<role, Resource(kind), "write">> \in Policy
  BY DEF Admitted, Routed, Enforce
<1>3. QED
  BY <1>1, <1>2 DEF Policy

\* So whoever saves an assignment or inserts a task is a manager or an admin.
LEMMA WriterIsManager ==
    ASSUME Typed, NEW w \in Worker, pc[w] \in {"assign_save", "create"}
    PROVE  req[w].caller \in User /\ RoleOf[req[w].caller] \in {"manager", "admin"}
<1>1. RequestTyped(w)
  BY DEF Typed, WorkersTyped
<1>2. req[w] \in AllRequests /\ req[w].kind \in {"assign", "create"}
  BY <1>1 DEF RequestTyped, AssignSteps, LockedSteps
<1>3. QED
  BY <1>1, <1>2, OnlyManagersAdmitted DEF RequestTyped, AllRequests

LEMMA HistoryStep ==
    ASSUME Typed, HistoryInv, [Next]_vars
    PROVE  [History!HistoryNext]_<<rows, versions>>
<1> USE DEF History!HistoryNext, History!Commit, Save, SaveUncertain
<1>1. CASE UNCHANGED <<rows, versions>>
  BY <1>1
<1>2. ASSUME NEW w \in Worker, AssignSave(w)
      PROVE  [History!HistoryNext]_<<rows, versions>>
  <2>1. /\ req[w].task \in Task /\ req[w].arg \in User
        /\ snap[w] \in versions[req[w].task]
        /\ CompanyOf[req[w].arg] = snap[w].company
        /\ CompanyOf[req[w].caller] = snap[w].company
    BY <1>2, AssignWrites DEF AssignSave, AssigneeFound, CallerCompany
  <2>a. req[w].caller \in User /\ RoleOf[req[w].caller] \in {"manager", "admin"}
    BY WriterIsManager, <1>2 DEF AssignSave
  <2>2. UNCHANGED <<rows, versions>> \/ History!Assign(req[w].task)
    BY <1>2, <2>1, <2>a DEF AssignSave, History!Assign
  <2>3. QED
    BY <2>1, <2>2
<1>3. ASSUME NEW w \in Worker, StatusSave(w)
      PROVE  [History!HistoryNext]_<<rows, versions>>
  <2>1. /\ req[w].task \in Task /\ req[w].arg \in Status /\ req[w].caller \in User
        /\ snap[w] \in versions[req[w].task]
        /\ CompanyOf[req[w].caller] = snap[w].company
        /\ MayMove(snap[w].status, req[w].arg, RoleOf[req[w].caller])
    BY <1>3, StatusWrites DEF StatusSave, Permitted, CallerCompany
  <2>2. UNCHANGED <<rows, versions>> \/ History!Move(req[w].task)
    BY <1>3, <2>1 DEF StatusSave, History!Move, MayMove, History!MayMove,
       AllowedTransitions, History!AllowedTransitions,
       ManagerOnlyTransitions, History!ManagerOnlyTransitions, Status, History!Status
  <2>3. QED
    BY <2>1, <2>2
<1>4. ASSUME NEW w \in Worker, EditSave(w)
      PROVE  [History!HistoryNext]_<<rows, versions>>
  <2>1. /\ req[w].task \in Task /\ req[w].arg \in Detail
        /\ snap[w] \in versions[req[w].task]
    BY <1>4, EditWrites DEF EditSave
  <2>2. UNCHANGED <<rows, versions>> \/ History!Edit(req[w].task)
    BY <1>4, <2>1 DEF EditSave, History!Edit
  <2>3. QED
    BY <2>1, <2>2
<1>5. ASSUME NEW w \in Worker, CreateTask(w)
      PROVE  [History!HistoryNext]_<<rows, versions>>
  <2>1. /\ req[w].task \in Task /\ req[w].arg \in Detail
        /\ CallerCompany(w) \in Company
    BY <1>5, CreateWrites DEF CreateTask
  <2>a. req[w].caller \in User /\ RoleOf[req[w].caller] \in {"manager", "admin"}
    BY WriterIsManager, <1>5 DEF CreateTask
  <2>2. UNCHANGED <<rows, versions>> \/ History!Create(req[w].task)
    BY <1>5, <2>1, <2>a
    DEF CreateTask, History!Create, NewRow, History!NewRow, CallerCompany
  <2>3. QED
    BY <2>1, <2>2
<1>6. ASSUME NEW w \in Worker, DeleteTask(w)
      PROVE  [History!HistoryNext]_<<rows, versions>>
  <2>1. req[w].task \in Task
    BY <1>6, RequestFields DEF DeleteTask, Typed
  <2>2. UNCHANGED <<rows, versions>> \/ History!Remove(req[w].task)
    BY <1>6 DEF DeleteTask, History!Remove, VisibleTo, Live, History!Live
  <2>3. QED
    BY <2>1, <2>2
<1>7. QED
  BY <1>1, <1>2, <1>3, <1>4, <1>5, <1>6, WritersOnly

\* task-service implements the abstract history: each version of a task is one
\* authorised edit of one earlier version.
THEOREM TaskServiceImplementsHistory == Spec => ImplementsHistory
<1>1. Init => History!HistoryInit
  BY DEF Init, History!HistoryInit, History!VisibleVersions, Live, History!Live
<1>2. Typed /\ HistoryInv /\ [Next]_vars => [History!HistoryNext]_<<rows, versions>>
  BY HistoryStep
<1>3. QED
  BY <1>1, <1>2, TaskServiceTyped, TaskServiceHistoryInv, PTL
  DEF Spec, ImplementsHistory, History!HistorySpec, History!historyVars

\* A write leaves every other row alone, and its worker moves on.
LEMMA WriterMoves ==
    ASSUME Typed, NEW w \in Worker,
           \/ AssignSave(w) \/ StatusSave(w) \/ EditSave(w)
           \/ CreateTask(w) \/ DeleteTask(w)
    PROVE  /\ pc'[w] # pc[w] /\ req[w] # NoRequest /\ req[w].task \in Task
           /\ \A v \in Worker \ {w} : pc'[v] = pc[v]
           /\ \A t \in Task \ {req[w].task} : rows'[t] = rows[t]
<1> USE DEF AssignSave, StatusSave, EditSave, CreateTask, DeleteTask
<1>1. pc[w] \in {"assign_save", "status_save", "edit_save", "create", "delete"}
  OBVIOUS
<1>2. req[w] # NoRequest /\ req[w].task \in Task
  BY <1>1, RequestFields, RequestAssumption DEF Typed, WorkersTyped, RequestTyped
<1>3. \/ Goto(w, "idle") \/ Goto(w, "assign_release")
      \/ Goto(w, "assign_publish") \/ Goto(w, "status_publish")
  BY DEF Respond, Forget, Unwind, Continue
<1>4. pc'[w] # pc[w] /\ \A v \in Worker \ {w} : pc'[v] = pc[v]
  BY <1>1, <1>3 DEF Typed, WorkersTyped, Goto
<1>5. \A t \in Task \ {req[w].task} : rows'[t] = rows[t]
  BY <1>2 DEF Typed, TypeOK, Save, SaveUncertain
<1>6. QED
  BY <1>2, <1>4, <1>5

\* A row changes only in the step of a request from its own company, and only a
\* manager or an admin gives it an assignee it never had.
THEOREM WritersAreEntitled == Spec => OnlyEntitledWrites
<1> DEFINE Chosen(w, t) ==
        \/ RoleOf[req[w].caller] \in {"manager", "admin"}
        \/ \E version \in versions[t] : version.assigned = rows'[t].assigned
<1> DEFINE Entitled(t) == rows'[t] # rows[t] =>
        \E w \in Worker : /\ pc'[w] # pc[w]
                          /\ req[w] # NoRequest
                          /\ req[w].task = t
                          /\ CallerCompany(w) = rows'[t].company
                          /\ Chosen(w, t)
<1>1. Typed /\ HistoryInv /\ [Next]_vars => \A t \in Task : Entitled(t)
  <2> SUFFICES ASSUME Typed, HistoryInv, [Next]_vars, NEW t \in Task,
                      rows'[t] # rows[t]
               PROVE  Entitled(t)
    OBVIOUS
  <2>1. PICK w \in Worker : \/ AssignSave(w) \/ StatusSave(w) \/ EditSave(w)
                            \/ CreateTask(w) \/ DeleteTask(w)
    BY WritersOnly
  <2>2. /\ pc'[w] # pc[w] /\ req[w] # NoRequest /\ req[w].task = t
    BY <2>1, WriterMoves
  <2>3. CallerCompany(w) = rows'[t].company
    <3>1. CASE AssignSave(w)
      <4>1. rows'[t] = [snap[w] EXCEPT !.assigned = req[w].arg]
        BY <2>2, <3>1 DEF AssignSave, Save, SaveUncertain, Typed, TypeOK
      <4>2. snap[w] \in Row /\ snap[w].company = CallerCompany(w)
        BY <3>1, AssignWrites DEF AssignSave
      <4>3. QED
        BY <4>1, <4>2 DEF Row
    <3>2. CASE StatusSave(w)
      <4>1. rows'[t] = [snap[w] EXCEPT !.status = req[w].arg]
        BY <2>2, <3>2 DEF StatusSave, Save, SaveUncertain, Typed, TypeOK
      <4>2. snap[w] \in Row /\ snap[w].company = CallerCompany(w)
        BY <3>2, StatusWrites DEF StatusSave
      <4>3. QED
        BY <4>1, <4>2 DEF Row
    <3>3. CASE EditSave(w)
      <4>1. rows'[t] = [snap[w] EXCEPT !.detail = req[w].arg]
        BY <2>2, <3>3 DEF EditSave, Save, SaveUncertain, Typed, TypeOK
      <4>2. snap[w] \in Row /\ snap[w].company = CallerCompany(w)
        BY <3>3, EditWrites DEF EditSave
      <4>3. QED
        BY <4>1, <4>2 DEF Row
    <3>4. CASE CreateTask(w)
      <4>1. rows'[t] = NewRow(CallerCompany(w), req[w].arg)
        BY <2>2, <3>4 DEF CreateTask, Save, SaveUncertain, Typed, TypeOK
      <4>2. QED
        BY <4>1 DEF NewRow
    <3>5. CASE DeleteTask(w)
      <4>1. VisibleTo(rows[t], CallerCompany(w)) /\ rows' = [rows EXCEPT ![t].deleted = TRUE]
        BY <2>2, <3>5 DEF DeleteTask
      <4>2. rows[t] \in Row
        BY <4>1, VisibleIsRow DEF Typed
      <4>3. QED
        BY <4>1, <4>2 DEF VisibleTo, Row, Typed, TypeOK
    <3>6. QED
      BY <2>1, <3>1, <3>2, <3>3, <3>4, <3>5
  <2>4. Chosen(w, t)
    <3>1. CASE AssignSave(w) \/ CreateTask(w)
      BY <3>1, WriterIsManager DEF AssignSave, CreateTask
    <3>2. CASE StatusSave(w)
      <4>1. rows'[t] = [snap[w] EXCEPT !.status = req[w].arg]
        BY <2>2, <3>2 DEF StatusSave, Save, SaveUncertain, Typed, TypeOK
      <4>2. snap[w] \in Row /\ snap[w] \in versions[t]
        BY <2>2, <3>2, StatusWrites DEF StatusSave
      <4>3. rows'[t].assigned = snap[w].assigned
        BY <4>1, <4>2 DEF Row
      <4>4. QED
        BY <4>2, <4>3
    <3>3. CASE EditSave(w)
      <4>1. rows'[t] = [snap[w] EXCEPT !.detail = req[w].arg]
        BY <2>2, <3>3 DEF EditSave, Save, SaveUncertain, Typed, TypeOK
      <4>2. snap[w] \in Row /\ snap[w] \in versions[t]
        BY <2>2, <3>3, EditWrites DEF EditSave
      <4>3. rows'[t].assigned = snap[w].assigned
        BY <4>1, <4>2 DEF Row
      <4>4. QED
        BY <4>2, <4>3
    <3>4. CASE DeleteTask(w)
      <4>1. VisibleTo(rows[t], CallerCompany(w)) /\ rows' = [rows EXCEPT ![t].deleted = TRUE]
        BY <2>2, <3>4 DEF DeleteTask
      <4>2. rows[t] \in Row /\ rows[t] \in versions[t]
        BY <4>1, VisibleIsRow DEF Typed, HistoryInv, VersionInv, VisibleTo
      <4>3. rows'[t].assigned = rows[t].assigned
        BY <4>1, <4>2 DEF Row, Typed, TypeOK
      <4>4. QED
        BY <4>2, <4>3
    <3>5. QED
      BY <2>1, <3>1, <3>2, <3>3, <3>4
  <2>5. QED
    BY <2>2, <2>3, <2>4
<1>2. QED
  BY <1>1, TaskServiceTyped, TaskServiceHistoryInv, PTL DEF Spec, OnlyEntitledWrites

\* The state machine, the manager rule and soft deletion can only be broken by a
\* write-back of a copy that is out of date.
THEOREM OnlyStaleCopiesBreakRules == Spec => OnlyStaleSavesBreakRules
<1> DEFINE StaleSave(t) ==
        \E w \in Worker : /\ pc[w] \in {"assign_save", "status_save", "edit_save"}
                          /\ pc'[w] # pc[w]
                          /\ req[w].task = t
                          /\ snap[w] # rows[t]
<1>1. Typed /\ HistoryInv /\ [Next]_vars
         => \A t \in Task : BreaksRules(t) => StaleSave(t)
  <2> SUFFICES ASSUME Typed, HistoryInv, [Next]_vars, NEW t \in Task, BreaksRules(t)
               PROVE  StaleSave(t)
    OBVIOUS
  <2>0. rows[t] # NoRow /\ rows[t] \in Row
    BY DEF BreaksRules, Typed, TypeOK
  <2>1. rows'[t] # rows[t]
    BY <2>0 DEF BreaksRules, ManagerOnlyTransitions, Row
  <2>2. PICK w \in Worker : \/ AssignSave(w) \/ StatusSave(w) \/ EditSave(w)
                            \/ CreateTask(w) \/ DeleteTask(w)
    BY <2>1, WritersOnly
  <2>3. pc'[w] # pc[w] /\ req[w].task = t
    BY <2>1, <2>2, WriterMoves
  <2>4. CASE CreateTask(w)
    BY <2>0, <2>1, <2>3, <2>4 DEF CreateTask, SaveUncertain
  <2>5. CASE DeleteTask(w)
    <3>1. ~rows[t].deleted /\ rows' = [rows EXCEPT ![t].deleted = TRUE]
      BY <2>1, <2>3, <2>5 DEF DeleteTask, VisibleTo, Live
    <3>2. rows'[t] = [rows[t] EXCEPT !.deleted = TRUE]
      BY <3>1 DEF Typed, TypeOK
    <3>3. rows'[t].deleted /\ rows'[t].status = rows[t].status
      BY <2>0, <3>2 DEF Row
    <3>4. QED
      BY <3>1, <3>3 DEF BreaksRules, ManagerOnlyTransitions
  <2>6. ASSUME pc[w] \in {"assign_save", "status_save", "edit_save"},
               snap[w] = rows[t]
        PROVE  FALSE
    <3>1. CASE AssignSave(w)
      <4>1. rows'[t] = [rows[t] EXCEPT !.assigned = req[w].arg]
        BY <2>1, <2>3, <2>6, <3>1 DEF AssignSave, Save, SaveUncertain, Typed, TypeOK
      <4>2. rows'[t].status = rows[t].status /\ rows'[t].deleted = rows[t].deleted
        BY <2>0, <4>1 DEF Row
      <4>3. QED
        BY <2>0, <4>2 DEF BreaksRules, ManagerOnlyTransitions
    <3>2. CASE StatusSave(w)
      <4>1. rows'[t] = [rows[t] EXCEPT !.status = req[w].arg]
        BY <2>1, <2>3, <2>6, <3>2 DEF StatusSave, Save, SaveUncertain, Typed, TypeOK
      <4>2. /\ rows'[t].status = req[w].arg /\ rows'[t].deleted = rows[t].deleted
            /\ MayMove(rows[t].status, req[w].arg, RoleOf[req[w].caller])
        BY <2>0, <2>6, <3>2, <4>1, StatusWrites DEF Row, StatusSave, Permitted
      <4>3. QED
        BY <2>0, <2>3, <4>2 DEF BreaksRules, MayMove
    <3>3. CASE EditSave(w)
      <4>1. rows'[t] = [rows[t] EXCEPT !.detail = req[w].arg]
        BY <2>1, <2>3, <2>6, <3>3 DEF EditSave, Save, SaveUncertain, Typed, TypeOK
      <4>2. rows'[t].status = rows[t].status /\ rows'[t].deleted = rows[t].deleted
        BY <2>0, <4>1 DEF Row
      <4>3. QED
        BY <2>0, <4>2 DEF BreaksRules, ManagerOnlyTransitions
    <3>4. QED
      BY <2>2, <2>6, <3>1, <3>2, <3>3 DEF CreateTask, DeleteTask
  <2>7. QED
    BY <2>2, <2>3, <2>4, <2>5, <2>6 DEF AssignSave, StatusSave, EditSave
<1>2. QED
  BY <1>1, TaskServiceTyped, TaskServiceHistoryInv, PTL DEF Spec, OnlyStaleSavesBreakRules

\* An event tells of versions that were stored, and names somebody who was entitled
\* to the change.
LEMMA EventsKept ==
    ASSUME Typed, HistoryInv, EventsDescribeCommits, UNCHANGED events, [Next]_vars
    PROVE  EventsDescribeCommits'
<1>1. \A t \in Task : versions[t] \subseteq versions'[t]
  <2>1. CASE UNCHANGED versions
    BY <2>1
  <2>2. ASSUME NEW w \in Worker,
               \E row : Save(req[w].task, row) \/ SaveUncertain(req[w].task, row)
        PROVE  \A t \in Task : versions[t] \subseteq versions'[t]
    BY <2>2 DEF Save, SaveUncertain, Typed, TypeOK
  <2>3. QED
    BY <2>1, <2>2, WritersOnly DEF AssignSave, StatusSave, EditSave, CreateTask, DeleteTask
<1>2. \A e \in events : e.task \in Task
  BY DEF Typed, TypeOK, AssignedEvents, StatusEvents
<1>3. QED
  BY <1>1, <1>2 DEF EventsDescribeCommits

THEOREM EventsTellOfCommits == Spec => []EventsDescribeCommits
<1>1. Init => EventsDescribeCommits
  BY DEF Init, EventsDescribeCommits
<1>2. Typed /\ HistoryInv /\ EventsDescribeCommits /\ [Next]_vars => EventsDescribeCommits'
  <2> SUFFICES ASSUME Typed, HistoryInv, EventsDescribeCommits, [Next]_vars
               PROVE  EventsDescribeCommits'
    OBVIOUS
  <2>1. CASE UNCHANGED events
    BY <2>1, EventsKept
  <2>2. ASSUME NEW w \in Worker, AssignPublish(w), ~UNCHANGED events
        PROVE  EventsDescribeCommits'
    <3> DEFINE e == [type |-> "task.assigned", task |-> req[w].task,
                     assigned |-> req[w].arg, by |-> req[w].caller]
               row == [snap[w] EXCEPT !.assigned = req[w].arg]
    <3>1. pc[w] = "assign_publish" /\ events' = events \cup {e} /\ UNCHANGED versions
      BY <2>2 DEF AssignPublish, Publish
    <3>2. row \in versions[req[w].task] /\ snap[w] \in Row
      BY <3>1 DEF HistoryInv, CopyInv, Edited, Typed, WorkersTyped, RequestTyped,
         CopySteps, SaveSteps
    <3>3. row.assigned = req[w].arg
      BY <3>2 DEF Row
    <3>4. \E v \in versions'[e.task] : v.assigned = e.assigned
      BY <3>1, <3>2, <3>3
    <3>5. QED
      BY <3>1, <3>4 DEF EventsDescribeCommits
  <2>3. ASSUME NEW w \in Worker, StatusPublish(w), ~UNCHANGED events
        PROVE  EventsDescribeCommits'
    <3> DEFINE e == [type |-> "task.status_changed", task |-> req[w].task,
                     old |-> snap[w].status, new |-> req[w].arg,
                     by |-> req[w].caller]
    <3>1. pc[w] = "status_publish" /\ events' = events \cup {e} /\ UNCHANGED versions
      BY <2>3 DEF StatusPublish, Publish
    <3>2. /\ snap[w] \in versions[e.task] /\ snap[w].status = e.old
          /\ [snap[w] EXCEPT !.status = e.new] \in versions[e.task]
          /\ MayMove(e.old, e.new, RoleOf[e.by])
      BY <3>1 DEF HistoryInv, CopyInv, Edited, Permitted, CopySteps, SaveSteps
    <3>3. \E u \in versions'[e.task] :
              u.status = e.old /\ [u EXCEPT !.status = e.new] \in versions'[e.task]
      BY <3>1, <3>2
    <3>4. e.type = "task.status_changed"
      OBVIOUS
    <3> HIDE DEF e
    <3>5. QED
      BY <3>1, <3>2, <3>3, <3>4 DEF EventsDescribeCommits
  <2>4. ASSUME NEW w \in Worker, AssignStep(w), ~UNCHANGED events
        PROVE  AssignPublish(w)
    BY <2>4 DEF AssignStep, AssignAcquire, AssignAcquireFails, AssignLoad, AssignSave,
       AssignRelease
  <2>5. ASSUME NEW w \in Worker, StatusStep(w) \/ OtherStep(w), ~UNCHANGED events
        PROVE  StatusPublish(w)
    BY <2>5 DEF StatusStep, OtherStep, StatusLoad, StatusSave, EditLoad, EditSave,
       CreateTask, DeleteTask
  <2>6. ASSUME NEW w \in Worker, Receive(w) \/ Crash(w) PROVE UNCHANGED events
    BY <2>6 DEF Receive, Crash
  <2>7. ASSUME NEW t \in Task, LockExpires(t) PROVE UNCHANGED events
    BY <2>7 DEF LockExpires
  <2>8. ASSUME NEW w \in Worker, HandlerStep(w) PROVE EventsDescribeCommits'
    BY <2>1, <2>2, <2>3, <2>4, <2>5, <2>8 DEF HandlerStep
  <2>9. CASE UNCHANGED vars
    BY <2>1, <2>9 DEF vars
  <2>10. QED
    BY <2>1, <2>6, <2>7, <2>8, <2>9 DEF Next
<1>3. QED
  BY <1>1, <1>2, TaskServiceTyped, TaskServiceHistoryInv, PTL DEF Spec
-------------------------------------------------------------------------------
(***************************************************************************)
(* The copy under the lock. It can only get old by an assignment, which    *)
(* the lock keeps out, as long as nobody else writes.                      *)
(***************************************************************************)
AssignmentsOnly == \A r \in Requests : r.kind \notin {"status", "edit"}

CopyIsFresh(w) ==
    pc[w] = "assign_save" /\ req[w].task \notin overrun =>
        /\ rows[req[w].task] # NoRow
        /\ snap[w].assigned = rows[req[w].task].assigned

FreshInv ==
    AssignmentsOnly => \A w \in Worker :
        pc[w] \notin StatusSteps \cup EditSteps /\ CopyIsFresh(w)

\* Rows of tasks with a request inside change without their assignee, unless that
\* request is the one that writes.
LEMMA AssigneeStays ==
    ASSUME Typed, LockInv, [Next]_vars,
           \A u \in Worker : pc[u] \notin StatusSteps \cup EditSteps,
           NEW v \in Worker, pc[v] = "assign_save", pc'[v] = pc[v],
           NEW t \in Task \ overrun, req[v].task = t, rows[t] # NoRow
    PROVE  rows'[t] # NoRow /\ rows'[t].assigned = rows[t].assigned
<1>0. rows[t] \in Row /\ NoRow \notin Row
  BY RowsAssumption DEF Typed, TypeOK
<1>1. CASE rows'[t] = rows[t]
  BY <1>1
<1>2. CASE rows'[t] # rows[t]
  <2>1. PICK w \in Worker : \/ AssignSave(w) \/ StatusSave(w) \/ EditSave(w)
                            \/ CreateTask(w) \/ DeleteTask(w)
    BY <1>2, WritersOnly
  <2>2. pc'[w] # pc[w] /\ req[w].task = t
    BY <1>2, <2>1, WriterMoves
  <2>3. ~AssignSave(w)
    <3> SUFFICES ASSUME AssignSave(w) PROVE FALSE
      OBVIOUS
    <3>1. Inside(w, t) /\ Inside(v, t)
      BY <2>2 DEF AssignSave, Inside, LockedSteps
    <3> QED
      BY <2>2, <3>1 DEF LockInv
  <2>4. ~StatusSave(w) /\ ~EditSave(w)
    BY DEF StatusSave, EditSave, StatusSteps, EditSteps
  <2>5. ~CreateTask(w)
    BY <1>2, <2>2 DEF CreateTask
  <2>6. rows' = [rows EXCEPT ![t].deleted = TRUE]
    BY <1>2, <2>1, <2>2, <2>3, <2>4, <2>5 DEF DeleteTask
  <2>7. rows'[t] = [rows[t] EXCEPT !.deleted = TRUE]
    BY <2>6 DEF Typed, TypeOK
  <2> QED
    BY <1>0, <2>7 DEF Row
<1> QED
  BY <1>1, <1>2

\* A step moves one worker.
LEMMA StepMovesOne ==
    ASSUME Typed, NEW w \in Worker, Receive(w) \/ HandlerStep(w) \/ Crash(w),
           NEW v \in Worker \ {w}
    PROVE  pc'[v] = pc[v] /\ req'[v] = req[v] /\ snap'[v] = snap[v]
<1>0. WorkersTyped
  BY DEF Typed
<1>1. CASE Receive(w)
  BY <1>0, <1>1 DEF Receive, Goto, WorkersTyped
<1>2. CASE AssignStep(w)
  BY <1>0, <1>2 DEF AssignStep, AssignAcquire, AssignAcquireFails, AssignLoad, AssignSave,
     AssignPublish, AssignRelease, Respond, Unwind, Continue, Loaded, Forget, Goto, WorkersTyped
<1>3. CASE StatusStep(w)
  BY <1>0, <1>3 DEF StatusStep, StatusLoad, StatusSave, StatusPublish, Respond, Continue,
     Loaded, Forget, Goto, WorkersTyped
<1>4. CASE OtherStep(w)
  BY <1>0, <1>4 DEF OtherStep, EditLoad, EditSave, CreateTask, DeleteTask, Respond, Loaded,
     Forget, Goto, WorkersTyped
<1>5. CASE Crash(w)
  BY <1>0, <1>5 DEF Crash, Forget, Goto, WorkersTyped
<1> QED
  BY <1>1, <1>2, <1>3, <1>4, <1>5 DEF HandlerStep

\* Without requests that change a status or edit, a worker gets to no step of theirs, and
\* to "assign_save" with the row it has just read.
LEMMA WhereStepsLead ==
    ASSUME Typed, AssignmentsOnly, NEW w \in Worker, pc[w] \notin StatusSteps \cup EditSteps,
           Receive(w) \/ HandlerStep(w) \/ Crash(w)
    PROVE  /\ pc'[w] \notin StatusSteps \cup EditSteps
           /\ pc'[w] = "assign_save" =>
                  /\ req'[w] = req[w] /\ rows' = rows /\ rows[req[w].task] # NoRow
                  /\ snap'[w] = rows[req[w].task]
<1>0. WorkersTyped
  BY DEF Typed
<1> USE DEF StatusSteps, EditSteps
<1>1. CASE Receive(w)
  <2>1. PICK r \in Requests : pc' = [pc EXCEPT ![w] = FirstStep[r.kind]]
    BY <1>1 DEF Receive, Goto
  <2>2. r \in AllRequests /\ r.kind \notin {"status", "edit"}
    BY RequestAssumption DEF AssignmentsOnly
  <2>3. FirstStep[r.kind] \in {"assign_lock", "create", "delete"}
    BY <2>2 DEF AllRequests, FirstStep
  <2> QED
    BY <1>0, <2>1, <2>3 DEF WorkersTyped
<1>2. CASE AssignLoad(w)
  BY <1>0, <1>2 DEF AssignLoad, Unwind, Loaded, Goto, WorkersTyped, VisibleTo, Live
<1>3. CASE AssignStep(w) /\ ~AssignLoad(w)
  <2>1. Goto(w, "idle") \/ Goto(w, "assign_load") \/ Goto(w, "assign_publish") \/ Goto(w, "assign_release")
    BY <1>3 DEF AssignStep, AssignAcquire, AssignAcquireFails, AssignSave, AssignPublish,
       AssignRelease, Respond, Unwind, Continue, Forget
  <2> QED
    BY <1>0, <2>1 DEF Goto, WorkersTyped
<1>4. ~StatusStep(w)
  BY DEF StatusStep, StatusLoad, StatusSave, StatusPublish
<1>5. CASE OtherStep(w) \/ Crash(w)
  <2>1. Goto(w, "idle")
    BY <1>5 DEF OtherStep, EditLoad, EditSave, CreateTask, DeleteTask, Crash, Respond, Forget
  <2> QED
    BY <1>0, <2>1 DEF Goto, WorkersTyped
<1> QED
  BY <1>1, <1>2, <1>3, <1>4, <1>5 DEF HandlerStep

\* An overrun is forgotten only when nobody is inside any more.
LEMMA OverrunStays ==
    ASSUME [Next]_vars, NEW t \in overrun, NEW v \in Worker, Inside(v, t)'
    PROVE  t \in overrun'
<1>1. \/ overrun' = overrun \/ overrun' = StillOverrun
      \/ \E u \in Task : LockExpires(u)
  BY DEF Next, HandlerStep, AssignStep, StatusStep, OtherStep, Receive, AssignAcquire,
     AssignAcquireFails, AssignLoad, AssignSave, AssignPublish, AssignRelease, StatusLoad,
     StatusSave, StatusPublish, EditLoad, EditSave, CreateTask, DeleteTask, Crash, vars
<1> QED
  BY <1>1 DEF StillOverrun, LockExpires

LEMMA FreshInvNext == Typed /\ LockInv /\ FreshInv /\ [Next]_vars => FreshInv'
<1> SUFFICES ASSUME Typed, LockInv, FreshInv, [Next]_vars, AssignmentsOnly, NEW v \in Worker
             PROVE  pc'[v] \notin StatusSteps \cup EditSteps /\ CopyIsFresh(v)'
  BY DEF FreshInv, AssignmentsOnly
<1>0. \A w \in Worker : pc[w] \notin StatusSteps \cup EditSteps /\ CopyIsFresh(w)
  BY DEF FreshInv
<1>1. ASSUME pc'[v] = pc[v], req'[v] = req[v], snap'[v] = snap[v]
      PROVE  pc'[v] \notin StatusSteps \cup EditSteps /\ CopyIsFresh(v)'
  <2> SUFFICES ASSUME pc'[v] = "assign_save", req'[v].task \notin overrun'
               PROVE  /\ rows'[req'[v].task] # NoRow
                      /\ snap'[v].assigned = rows'[req'[v].task].assigned
    BY <1>0, <1>1 DEF CopyIsFresh
  <2> DEFINE t == req[v].task
  <2>1. t \in Task
    BY <1>1, RequestFields DEF Typed
  <2>2. Inside(v, t)'
    BY <1>1 DEF Inside, LockedSteps
  <2>3. t \notin overrun
    BY <1>1, <2>2, OverrunStays
  <2>4. rows[t] # NoRow /\ snap[v].assigned = rows[t].assigned
    BY <1>0, <1>1, <2>3 DEF CopyIsFresh
  <2>5. rows'[t] # NoRow /\ rows'[t].assigned = rows[t].assigned
    BY <1>0, <1>1, <2>1, <2>3, <2>4, AssigneeStays
  <2> QED
    BY <1>1, <2>4, <2>5
<1>2. ASSUME Receive(v) \/ HandlerStep(v) \/ Crash(v)
      PROVE  pc'[v] \notin StatusSteps \cup EditSteps /\ CopyIsFresh(v)'
  <2>1. /\ pc'[v] \notin StatusSteps \cup EditSteps
        /\ pc'[v] = "assign_save" =>
               /\ req'[v] = req[v] /\ rows' = rows /\ rows[req[v].task] # NoRow
               /\ snap'[v] = rows[req[v].task]
    BY <1>0, <1>2, WhereStepsLead
  <2> QED
    BY <2>1 DEF CopyIsFresh
<1>3. CASE UNCHANGED <<pc, req, snap>>
  BY <1>1, <1>3
<1>4. ASSUME NEW w \in Worker \ {v}, Receive(w) \/ HandlerStep(w) \/ Crash(w)
      PROVE  pc'[v] \notin StatusSteps \cup EditSteps /\ CopyIsFresh(v)'
  BY <1>1, <1>4, StepMovesOne
<1> QED
  BY <1>2, <1>3, <1>4 DEF Next, LockExpires, vars

\* AssignTask: where assignments are the only updates, the lock keeps the assignee of the
\* copy up to date until it is written back.
THEOREM LockedCopiesAreFresh == Spec => []LockedSnapshotFresh
<1>1. Init => LockInv /\ FreshInv
  BY DEF Init, LockInv, Inside, LockedSteps, FreshInv, CopyIsFresh, StatusSteps, EditSteps
<1>2. Typed /\ FreshInv => LockedSnapshotFresh
  BY DEF FreshInv, AssignmentsOnly, CopyIsFresh, LockedSnapshotFresh
<1> QED
  BY <1>1, <1>2, LockInvNext, FreshInvNext, TaskServiceTyped, PTL DEF Spec
===============================================================================
