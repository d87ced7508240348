------------------------------ MODULE ListingProofs ------------------------------
(***************************************************************************)
(* ProjectService keeps its types, its tenants and its deletions apart,    *)
(* for any number of projects, companies and requests; and a client that   *)
(* walks through a list misses a row only for the reasons WalkSeesAll      *)
(* names, whatever the length of the list and of its pages.                *)
(***************************************************************************)
EXTENDS Listing, FiniteSetTheorems, TLAPS

(***************************************************************************)
(* Places in a list                                                        *)
(***************************************************************************)

\* Every finite set of rows gives a row a place, at most its size.
LEMMA PlaceBounded ==
    ASSUME NEW S \in SUBSET Project, NEW p \in Project
    PROVE  /\ IsFiniteSet(S) /\ Cardinality(S) \in Nat
           /\ Place(p, S) \in Nat
           /\ Place(p, S) <= Cardinality(S)
<1>1. IsFiniteSet(S)
  BY ListingAssumption, FS_Subset DEF ListingAssumption
<1>2. {q \in S : Created[q] >= Created[p]} \subseteq S
  OBVIOUS
<1> QED
  BY <1>1, <1>2, FS_Subset, FS_CardinalityType DEF Place

\* Rows that come push others back, never forward.
LEMMA PlaceMonotone ==
    ASSUME NEW T \in SUBSET Project, NEW S \in SUBSET T, NEW p \in Project
    PROVE  Place(p, S) <= Place(p, T) /\ Cardinality(S) <= Cardinality(T)
<1>1. IsFiniteSet(T)
  BY ListingAssumption, FS_Subset DEF ListingAssumption
<1> DEFINE Before(U) == {q \in U : Created[q] >= Created[p]}
<1>2. Before(S) \subseteq Before(T) /\ Before(T) \subseteq T
  OBVIOUS
<1>3. IsFiniteSet(Before(T))
  BY <1>1, <1>2, FS_Subset
<1>4. Cardinality(Before(S)) <= Cardinality(Before(T))
  BY <1>2, <1>3, FS_Subset
<1> QED
  BY <1>1, <1>4, FS_Subset DEF Place

\* The first place is 1.
LEMMA PlaceNotZero ==
    ASSUME NEW S \in SUBSET Project, NEW p \in S
    PROVE  1 <= Place(p, S)
<1> DEFINE Before == {q \in S : Created[q] >= Created[p]}
<1>1. IsFiniteSet(Before)
  BY PlaceBounded, FS_Subset
<1>2. p \in Before
  BY ListingAssumption DEF ListingAssumption
<1>3. Cardinality(Before) # 0
  BY <1>1, <1>2, FS_EmptySet
<1> QED
  BY <1>3, PlaceBounded DEF Place

\* Two rows have two places.
LEMMA PlacesDiffer ==
    ASSUME NEW S \in SUBSET Project, NEW p \in S, NEW q \in S, p # q
    PROVE  Place(p, S) # Place(q, S)
<1> DEFINE Before(r) == {x \in S : Created[x] >= Created[r]}
<1>1. ASSUME NEW r \in S, NEW t \in S, Created[r] > Created[t]
      PROVE  Place(r, S) # Place(t, S)
  <2>1. Before(r) \subseteq Before(t) /\ t \in Before(t) /\ t \notin Before(r)
    BY <1>1, ListingAssumption DEF ListingAssumption
  <2>2. IsFiniteSet(Before(t))
    BY PlaceBounded, FS_Subset
  <2>3. Before(r) # Before(t)
    BY <2>1
  <2>4. Cardinality(Before(r)) # Cardinality(Before(t))
    BY <2>1, <2>2, <2>3, FS_Subset
  <2> QED BY <2>4 DEF Place
<1>2. Created[p] > Created[q] \/ Created[q] > Created[p]
  BY ListingAssumption DEF ListingAssumption
<1> QED
  BY <1>1, <1>2

\* No place is left out.
LEMMA EveryPlaceTaken ==
    ASSUME NEW S \in SUBSET Project, NEW k \in 1 .. Cardinality(S)
    PROVE  \E p \in S : Place(p, S) = k
<1> DEFINE n == Cardinality(S)
           f == [p \in S |-> Place(p, S)]
<1>1. IsFiniteSet(S) /\ n \in Nat
  BY ListingAssumption, FS_Subset, FS_CardinalityType DEF ListingAssumption
<1>2. f \in [S -> 1 .. n]
  <2> SUFFICES ASSUME NEW p \in S PROVE Place(p, S) \in 1 .. n
    OBVIOUS
  <2> QED BY <1>1, PlaceBounded, PlaceNotZero
<1>3. f \in Injection(S, 1 .. n)
  BY <1>2, PlacesDiffer DEF Injection, IsInjective
<1>4. IsFiniteSet(1 .. n) /\ Cardinality(1 .. n) = n
  BY <1>1, FS_Interval
<1>5. f \in Surjection(S, 1 .. n)
  BY <1>3, <1>4, FS_Injection
<1> QED
  BY <1>5 DEF Surjection
-------------------------------------------------------------------------------
(***************************************************************************)
(* The requests of task-service on projects                                *)
(***************************************************************************)

\* What holds beside the properties. A copy, and a project that passed the check of
\* CreateTask, keep their company: a row that is there is never taken out and never
\* changes hands.
OfCompany(p, company) == projects[p] # NoProject /\ projects[p].company = company

CopiesInTenant ==
    \A w \in Worker :
        pc[w] = "update_save" =>
            /\ req[w].kind = "update_project" /\ snap[w] # NoProject
            /\ OfCompany(req[w].project, snap[w].company)

ChecksLast ==
    \A w \in Worker :
        pc[w] = "insert_task" => OfCompany(req[w].project, req[w].company)

RequestsAtWork ==
    \A w \in Worker :
        pc[w] # "idle" =>
            /\ req[w] \in AllRequests
            /\ pc[w] \in {req[w].kind} \cup {"update_save", "insert_task"}
            /\ pc[w] = "update_save" => req[w].kind = "update_project"
            /\ pc[w] = "insert_task" => req[w].kind = "create_task"

\* A late request has not passed a check, and its project is still deleted.
LateFindNothing ==
    \A w \in late : pc[w] \notin {"idle", "update_save", "insert_task"} /\ Deleted(projects[req[w].project])

ProjectInv ==
    /\ TypeOK /\ ProjectTasksInTenant
    /\ CopiesInTenant /\ ChecksLast /\ RequestsAtWork /\ LateFindNothing

\* Rows stay, with their company.
RowsStay ==
    \A p \in Project :
        projects[p] # NoProject =>
            projects'[p] # NoProject /\ projects'[p].company = projects[p].company

\* Most steps end a request: what is left is to look at the rows they leave.
LEMMA ResponsesKeepInv ==
    ASSUME ProjectInv, NEW w \in Worker, pc[w] # "idle", Respond(w), RowsStay,
           projects' \in [Project -> ProjectRow \cup {NoProject}],
           tasks' \subseteq [project : Project, company : Company],
           \A t \in tasks' \ tasks : OfCompany(t.project, t.company)'
    PROVE  ProjectInv'
<1>1. TypeOK'
  BY DEF ProjectInv, TypeOK, Respond, StillLate
<1>2. ProjectTasksInTenant'
  BY DEF ProjectInv, TypeOK, ProjectTasksInTenant, OfCompany, RowsStay
<1>3. CopiesInTenant' /\ ChecksLast'
  <2> SUFFICES ASSUME NEW v \in Worker, v # w, pc[v] # "idle"
               PROVE  /\ pc[v] = "update_save" => OfCompany(req[v].project, snap[v].company)'
                      /\ pc[v] = "insert_task" => OfCompany(req[v].project, req[v].company)'
    BY DEF Respond, CopiesInTenant, ChecksLast, ProjectInv, TypeOK
  <2>1. req'[v] = req[v] /\ snap'[v] = snap[v] /\ req[v].project \in Project
    BY DEF Respond, ProjectInv, TypeOK, RequestsAtWork, AllRequests
  <2> QED
    BY <2>1 DEF ProjectInv, CopiesInTenant, ChecksLast, OfCompany, RowsStay
<1>4. RequestsAtWork'
  BY DEF ProjectInv, TypeOK, RequestsAtWork, Respond
<1>5. LateFindNothing'
  BY DEF ProjectInv, TypeOK, LateFindNothing, Respond, StillLate
<1> QED
  BY <1>1, <1>2, <1>3, <1>4, <1>5 DEF ProjectInv

LEMMA ReceiveKeepsInv ==
    ASSUME ProjectInv, NEW w \in Worker, Receive(w)
    PROVE  ProjectInv'
<1> PICK r \in Requests :
        /\ req' = [req EXCEPT ![w] = r]
        /\ pc' = [pc EXCEPT ![w] = r.kind]
        /\ late' = late \cup {v \in {w} : Deleted(projects[r.project])}
  BY DEF Receive
<1>1. r \in AllRequests /\ r.kind \in {"create_project", "update_project", "delete_project", "create_task"}
  BY ProjectAssumption DEF ProjectAssumption, AllRequests
<1>2. UNCHANGED <<projects, tasks, snap>> /\ served' \in Nat
  BY DEF Receive, ProjectInv, TypeOK
<1>3. TypeOK'
  BY <1>1, <1>2 DEF ProjectInv, TypeOK
<1>4. \A v \in Worker \ {w} : pc'[v] = pc[v] /\ req'[v] = req[v]
  BY DEF ProjectInv, TypeOK
<1>5. pc'[w] = r.kind /\ req'[w] = r /\ pc[w] = "idle"
  BY DEF ProjectInv, TypeOK, Receive
<1>6. ProjectTasksInTenant'
  BY <1>2 DEF ProjectInv, ProjectTasksInTenant
<1>7. CopiesInTenant' /\ ChecksLast' /\ RequestsAtWork'
  BY <1>1, <1>2, <1>4, <1>5 DEF ProjectInv, CopiesInTenant, ChecksLast, RequestsAtWork, OfCompany
<1>8. LateFindNothing'
  BY <1>1, <1>2, <1>4, <1>5 DEF ProjectInv, TypeOK, LateFindNothing
<1> QED
  BY <1>3, <1>6, <1>7, <1>8 DEF ProjectInv

\* The two steps that pass a check and go on.
LEMMA LoadKeepsInv ==
    ASSUME ProjectInv, NEW w \in Worker, UpdateProjectLoad(w)
    PROVE  ProjectInv'
<1> DEFINE row == projects[req[w].project]
<1>1. pc[w] = "update_project" /\ UNCHANGED <<projects, tasks>>
  BY DEF UpdateProjectLoad
<1>2. req[w] \in AllRequests /\ req[w].kind = "update_project" /\ req[w].project \in Project
  BY <1>1 DEF ProjectInv, RequestsAtWork, AllRequests
<1>3. RowsStay /\ projects' \in [Project -> ProjectRow \cup {NoProject}]
      /\ tasks' \subseteq [project : Project, company : Company]
  BY <1>1 DEF RowsStay, ProjectInv, TypeOK
<1>4. CASE Respond(w)
  BY <1>1, <1>3, <1>4, ResponsesKeepInv
<1>5. CASE /\ Found(row, req[w].company)
           /\ snap' = [snap EXCEPT ![w] = row]
           /\ pc' = [pc EXCEPT ![w] = "update_save"]
           /\ UNCHANGED <<req, served, late>>
  <2>1. row # NoProject /\ row \in ProjectRow /\ w \notin late
    BY <1>1, <1>2, <1>5 DEF Found, Live, Deleted, ProjectInv, TypeOK, LateFindNothing
  <2>2. TypeOK' /\ ProjectTasksInTenant'
    BY <1>1, <1>5, <2>1 DEF ProjectInv, TypeOK, ProjectTasksInTenant
  <2>3. CopiesInTenant' /\ ChecksLast' /\ RequestsAtWork'
    BY <1>1, <1>2, <1>5, <2>1
    DEF ProjectInv, TypeOK, CopiesInTenant, ChecksLast, RequestsAtWork, OfCompany
  <2>4. LateFindNothing'
    BY <1>1, <1>5, <2>1 DEF ProjectInv, TypeOK, LateFindNothing
  <2> QED
    BY <2>2, <2>3, <2>4 DEF ProjectInv
<1> QED
  BY <1>4, <1>5 DEF UpdateProjectLoad

LEMMA CheckKeepsInv ==
    ASSUME ProjectInv, NEW w \in Worker, CreateTaskCheck(w)
    PROVE  ProjectInv'
<1>1. pc[w] = "create_task" /\ UNCHANGED <<projects, tasks>>
  BY DEF CreateTaskCheck
<1>2. req[w] \in AllRequests /\ req[w].kind = "create_task"
  BY <1>1 DEF ProjectInv, RequestsAtWork
<1>3. RowsStay /\ projects' \in [Project -> ProjectRow \cup {NoProject}]
      /\ tasks' \subseteq [project : Project, company : Company]
  BY <1>1 DEF RowsStay, ProjectInv, TypeOK
<1>4. CASE Respond(w)
  BY <1>1, <1>3, <1>4, ResponsesKeepInv
<1>5. CASE /\ Found(projects[req[w].project], req[w].company)
           /\ pc' = [pc EXCEPT ![w] = "insert_task"]
           /\ UNCHANGED <<req, snap, served, late>>
  <2>1. OfCompany(req[w].project, req[w].company) /\ w \notin late
    BY <1>1, <1>5 DEF Found, Live, Deleted, ProjectInv, LateFindNothing, OfCompany
  <2>2. TypeOK' /\ ProjectTasksInTenant'
    BY <1>1, <1>5 DEF ProjectInv, TypeOK, ProjectTasksInTenant
  <2>3. CopiesInTenant' /\ ChecksLast' /\ RequestsAtWork'
    BY <1>1, <1>2, <1>5, <2>1
    DEF ProjectInv, TypeOK, CopiesInTenant, ChecksLast, RequestsAtWork, OfCompany
  <2>4. LateFindNothing'
    BY <1>1, <1>5, <2>1 DEF ProjectInv, TypeOK, LateFindNothing
  <2> QED
    BY <2>2, <2>3, <2>4 DEF ProjectInv
<1> QED
  BY <1>4, <1>5 DEF CreateTaskCheck

\* The steps that write and end.
LEMMA WritesKeepInv ==
    ASSUME ProjectInv, NEW w \in Worker,
           CreateProject(w) \/ UpdateProjectSave(w) \/ DeleteProject(w)
             \/ CreateTaskInsert(w) \/ Crash(w)
    PROVE  ProjectInv'
<1> DEFINE p == req[w].project
           Fits == /\ RowsStay
                   /\ projects' \in [Project -> ProjectRow \cup {NoProject}]
                   /\ tasks' \subseteq [project : Project, company : Company]
                   /\ \A t \in tasks' \ tasks : OfCompany(t.project, t.company)'
<1>1. pc[w] # "idle" /\ Respond(w)
  BY DEF CreateProject, UpdateProjectSave, DeleteProject, CreateTaskInsert, Crash
<1>2. req[w] \in AllRequests /\ p \in Project /\ req[w].company \in Company
  BY <1>1 DEF ProjectInv, RequestsAtWork, AllRequests
<1>3. ASSUME UNCHANGED <<projects, tasks>> PROVE Fits
  BY <1>3 DEF RowsStay, ProjectInv, TypeOK
<1>4. ASSUME CreateProject(w) PROVE Fits
  <2>1. req[w].kind = "create_project"
    BY <1>4, <1>1 DEF CreateProject, ProjectInv, RequestsAtWork
  <2>2. [company |-> req[w].company, phase |-> req[w].phase, deleted |-> FALSE] \in ProjectRow
    BY <2>1, <1>2 DEF AllRequests, ProjectRow
  <2> QED
    BY <1>2, <1>3, <1>4, <2>2 DEF CreateProject, Save, RowsStay, ProjectInv, TypeOK
<1>5. ASSUME UpdateProjectSave(w) PROVE Fits
  <2>1. /\ req[w].kind = "update_project" /\ snap[w] \in ProjectRow
        /\ OfCompany(p, snap[w].company)
    BY <1>5 DEF UpdateProjectSave, ProjectInv, TypeOK, CopiesInTenant
  <2>2. /\ [snap[w] EXCEPT !.phase = req[w].phase] \in ProjectRow
        /\ [snap[w] EXCEPT !.phase = req[w].phase].company = snap[w].company
    BY <2>1, <1>2 DEF AllRequests, ProjectRow
  <2>3. NoProject \notin ProjectRow
    BY ProjectAssumption DEF ProjectAssumption
  <2> QED
    BY <1>2, <1>3, <1>5, <2>1, <2>2, <2>3
    DEF UpdateProjectSave, Save, RowsStay, OfCompany, ProjectInv, TypeOK
<1>6. ASSUME DeleteProject(w) PROVE Fits
  <2>1. CASE UNCHANGED projects
    BY <1>3, <1>6, <2>1 DEF DeleteProject
  <2>2. CASE /\ Found(projects[p], req[w].company)
             /\ projects' = [projects EXCEPT ![p].deleted = TRUE]
    <3>1. projects[p] \in ProjectRow
      BY <1>2, <2>2 DEF Found, Live, ProjectInv, TypeOK
    <3>2. /\ [projects[p] EXCEPT !.deleted = TRUE] \in ProjectRow
          /\ [projects[p] EXCEPT !.deleted = TRUE].company = projects[p].company
      BY <3>1 DEF ProjectRow
    <3>3. NoProject \notin ProjectRow
      BY ProjectAssumption DEF ProjectAssumption
    <3> QED
      BY <1>2, <1>6, <2>2, <3>1, <3>2, <3>3 DEF DeleteProject, RowsStay, ProjectInv, TypeOK
  <2> QED
    BY <1>6, <2>1, <2>2 DEF DeleteProject
<1>7. ASSUME CreateTaskInsert(w) PROVE Fits
  <2>1. OfCompany(p, req[w].company)
    BY <1>7 DEF CreateTaskInsert, ProjectInv, ChecksLast
  <2> QED
    BY <1>2, <1>7, <2>1 DEF CreateTaskInsert, RowsStay, OfCompany, ProjectInv, TypeOK
<1>8. Fits
  BY <1>3, <1>4, <1>5, <1>6, <1>7 DEF Crash
<1> QED
  BY <1>1, <1>8, ResponsesKeepInv

LEMMA ProjectInductive == ProjectInv /\ [Next]_vars => ProjectInv'
<1> SUFFICES ASSUME ProjectInv, [Next]_vars PROVE ProjectInv'
  OBVIOUS
<1>1. CASE UNCHANGED vars
  BY <1>1 DEF vars, ProjectInv, TypeOK, ProjectTasksInTenant, CopiesInTenant, ChecksLast,
              RequestsAtWork, LateFindNothing, OfCompany
<1>2. ASSUME NEW w \in Worker,
             \/ Receive(w) \/ CreateProject(w) \/ UpdateProjectLoad(w) \/ UpdateProjectSave(w)
             \/ DeleteProject(w) \/ CreateTaskCheck(w) \/ CreateTaskInsert(w) \/ Crash(w)
      PROVE  ProjectInv'
  BY <1>2, ReceiveKeepsInv, LoadKeepsInv, CheckKeepsInv, WritesKeepInv
<1> QED
  BY <1>1, <1>2 DEF Next

LEMMA ProjectStart == Init => ProjectInv
  BY ProjectAssumption
  DEF ProjectAssumption, Init, ProjectInv, TypeOK, ProjectTasksInTenant, CopiesInTenant,
      ChecksLast, RequestsAtWork, LateFindNothing

LEMMA ProjectInvHolds == Spec => []ProjectInv
  BY ProjectStart, ProjectInductive, PTL DEF Spec

\* Every variable of ProjectService keeps its type.
THEOREM ProjectTypeOK == Spec => []TypeOK
  BY ProjectInvHolds, PTL DEF ProjectInv

\* No interleaving, stale copy or deletion parts a task from the company of its project.
THEOREM TasksStayInTenant == Spec => []ProjectTasksInTenant
  BY ProjectInvHolds, PTL DEF ProjectInv

\* A step changes the pc of one request.
LEMMA OneRequestMoves ==
    ASSUME ProjectInv, NEW v \in Worker, NEW w \in Worker, v # w,
           \/ Receive(v) \/ CreateProject(v) \/ UpdateProjectLoad(v) \/ UpdateProjectSave(v)
           \/ DeleteProject(v) \/ CreateTaskCheck(v) \/ CreateTaskInsert(v) \/ Crash(v)
    PROVE  pc'[w] = pc[w]
<1>1. \E at : pc' = [pc EXCEPT ![v] = at]
  BY DEF Receive, CreateProject, UpdateProjectLoad, UpdateProjectSave, DeleteProject,
         CreateTaskCheck, CreateTaskInsert, Crash, Respond
<1> QED
  BY <1>1 DEF ProjectInv, TypeOK

\* A request that came after the deletion of its project changes nothing: its row is
\* deleted until it ends, so every check it makes fails.
THEOREM LateRequestsAreRefused == Spec => DeletedProjectsRefuse
<1>1. ASSUME ProjectInv, [Next]_vars
      PROVE  [\A w \in late : pc'[w] # pc[w] => UNCHANGED <<projects, tasks>>]_vars
  <2>1. ASSUME NEW w \in Worker, w \in late,
               \/ Receive(w) \/ CreateProject(w) \/ UpdateProjectLoad(w) \/ UpdateProjectSave(w)
               \/ DeleteProject(w) \/ CreateTaskCheck(w) \/ CreateTaskInsert(w) \/ Crash(w)
        PROVE  UNCHANGED <<projects, tasks>>
    <3>1. /\ pc[w] \notin {"idle", "update_save", "insert_task"}
          /\ projects[req[w].project] # NoProject
          /\ ~Found(projects[req[w].project], req[w].company)
      BY <1>1, <2>1 DEF ProjectInv, LateFindNothing, Deleted, Found, Live
    <3> QED
      BY <2>1, <3>1 DEF Receive, CreateProject, UpdateProjectLoad, UpdateProjectSave,
         DeleteProject, CreateTaskCheck, CreateTaskInsert, Crash
  <2>2. late \subseteq Worker
    BY <1>1 DEF ProjectInv, TypeOK
  <2> QED
    BY <1>1, <2>1, <2>2, OneRequestMoves DEF Next
<1> QED
  BY <1>1, ProjectInvHolds, PTL DEF Spec, DeletedProjectsRefuse
-------------------------------------------------------------------------------
(***************************************************************************)
(* The walk                                                                *)
(***************************************************************************)

\* The rows that were there all the time and that the client has not seen are all
\* behind the pages it has read.
UnseenAreAhead ==
    step \in {"count", "find"} /\ ~left =>
        \A p \in stayed \ seen : (page - 1) * Effective < Place(p, Listed)

CountIsEnough ==
    step = "find" /\ ~uncounted => Cardinality(Listed) <= total

WalkTypeOK ==
    /\ list \in Lists /\ asked \in Nat
    /\ page \in Nat \ {0} /\ total \in Nat
    /\ stayed \subseteq Listed
    /\ step = "start" => page = 1

WalkInv == WalkTypeOK /\ UnseenAreAhead /\ CountIsEnough /\ WalkSeesAll

\* Pages in places.
LEMMA Pages ==
    ASSUME WalkTypeOK
    PROVE  /\ Effective \in Nat \ {0} /\ Told \in Nat
           /\ (page - 1) * Effective \in Nat
           /\ page * Effective = (page - 1) * Effective + Effective
           /\ ((page + 1) - 1) * Effective = page * Effective
           /\ Told <= Effective => page * Told <= page * Effective
<1>1. Effective \in Nat \ {0} /\ Told \in Nat
  BY ListingAssumption DEF ListingAssumption, WalkTypeOK, Effective, Told
<1>2. \A m, n \in Nat : m * n \in Nat
  OBVIOUS
<1>3. \A k, n \in Nat : (k + 1) * n = k * n + n
  OBVIOUS
<1>4. \A k, m, n \in Nat : m <= n => k * m <= k * n
  OBVIOUS
<1>5. page - 1 \in Nat /\ page \in Nat /\ page = (page - 1) + 1 /\ (page + 1) - 1 = page
  BY DEF WalkTypeOK
<1>6. page * Effective = (page - 1) * Effective + Effective
  BY <1>1, <1>3, <1>5
<1> QED
  BY <1>1, <1>2, <1>4, <1>5, <1>6

LEMMA ServeKeepsWalk ==
    ASSUME WalkInv, Serve
    PROVE  WalkInv'
<1>1. UNCHANGED <<list, asked, step, page, total, seen>> /\ stayed' \subseteq stayed
  BY DEF Serve, walkVars
<1>2. WalkTypeOK'
  BY <1>1 DEF WalkInv, WalkTypeOK, Serve
<1>3. Effective' = Effective /\ Told' = Told
  BY <1>1 DEF Effective, Told
<1>4. UnseenAreAhead'
  <2> SUFFICES ASSUME step \in {"count", "find"}, ~left', NEW p \in stayed', p \notin seen
               PROVE  (page - 1) * Effective < Place(p, Listed')
    BY <1>1, <1>3 DEF UnseenAreAhead
  <2>1. Listed \subseteq Listed' /\ ~left
    BY DEF Serve
  <2>2. (page - 1) * Effective < Place(p, Listed)
    BY <1>1, <2>1 DEF WalkInv, UnseenAreAhead
  <2>3. Listed' \in SUBSET Project /\ Listed \in SUBSET Project /\ p \in Project
    BY <1>1 DEF Listed, WalkInv, WalkTypeOK
  <2>4. Place(p, Listed) <= Place(p, Listed')
    BY <2>1, <2>3, PlaceMonotone
  <2>5. Place(p, Listed) \in Nat /\ Place(p, Listed') \in Nat /\ (page - 1) * Effective \in Nat
    BY <2>3, PlaceBounded, Pages DEF WalkInv
  <2> QED
    BY <2>2, <2>4, <2>5
<1>5. CountIsEnough'
  <2> SUFFICES ASSUME step = "find", ~uncounted' PROVE Cardinality(Listed') <= total
    BY <1>1 DEF CountIsEnough
  <2>1. Listed' \subseteq Listed /\ Cardinality(Listed) <= total
    BY DEF Serve, WalkInv, CountIsEnough
  <2>2. Listed \in SUBSET Project /\ Listed' \in SUBSET Project
    BY DEF Listed
  <2>3. IsFiniteSet(Listed)
    BY <2>2, FS_Subset, ListingAssumption DEF ListingAssumption
  <2>4. /\ Cardinality(Listed') <= Cardinality(Listed)
        /\ Cardinality(Listed) \in Nat /\ Cardinality(Listed') \in Nat
    BY <2>1, <2>3, FS_Subset, FS_CardinalityType
  <2> QED
    BY <2>1, <2>4 DEF WalkInv, WalkTypeOK
<1>6. WalkSeesAll'
  BY <1>1, <1>3 DEF WalkInv, WalkSeesAll, Serve
<1> QED
  BY <1>2, <1>4, <1>5, <1>6 DEF WalkInv

\* A row the client has not seen is behind this page; were there none on it, or were
\* the count reached, the list would end before the row.
LEMMA FindKeepsWalk ==
    ASSUME WalkInv, Find
    PROVE  WalkInv'
<1>1. /\ step = "find" /\ seen' = seen \cup Rows
      /\ UNCHANGED <<list, asked, total, stayed, left, uncounted, projects>>
  BY DEF Find, vars
<1>2. Effective' = Effective /\ Told' = Told /\ Listed' = Listed
  BY <1>1 DEF Effective, Told, Listed
<1>3. step' \in {"count", "done"} /\ page' \in Nat \ {0}
  BY DEF Find, WalkInv, WalkTypeOK
<1>4. WalkTypeOK'
  BY <1>1, <1>2, <1>3 DEF WalkInv, WalkTypeOK
<1>5. ASSUME ~left, NEW p \in stayed, p \notin seen'
      PROVE  /\ p \in Listed /\ p \in Project /\ page * Effective < Place(p, Listed)
             /\ Place(p, Listed) <= Cardinality(Listed)
             /\ Place(p, Listed) \in Nat /\ Cardinality(Listed) \in Nat
  <2>1. p \in Listed /\ p \in Project /\ Listed \in SUBSET Project
    BY DEF WalkInv, WalkTypeOK, Listed
  <2>2. /\ Place(p, Listed) \in Nat /\ Cardinality(Listed) \in Nat
        /\ Place(p, Listed) <= Cardinality(Listed)
    BY <2>1, PlaceBounded
  <2>3. (page - 1) * Effective < Place(p, Listed) /\ p \notin Rows
    BY <1>1, <1>5 DEF WalkInv, UnseenAreAhead
  <2>4. page * Effective \in Nat
    BY Pages DEF WalkInv
  <2> QED
    BY <2>1, <2>2, <2>3, <2>4 DEF Rows
<1>6. UnseenAreAhead'
  <2> SUFFICES ASSUME step' = "count", ~left, NEW p \in stayed, p \notin seen'
               PROVE  (page' - 1) * Effective < Place(p, Listed)
    BY <1>1, <1>2, <1>3 DEF UnseenAreAhead
  <2>1. page' = page + 1
    BY DEF Find
  <2> QED
    BY <2>1, <1>5, Pages DEF WalkInv
<1>7. CountIsEnough'
  BY <1>3 DEF CountIsEnough
<1>8. WalkSeesAll'
  <2> SUFFICES ASSUME step' = "done", ~left, ~uncounted, Told <= Effective,
                      NEW p \in stayed, p \notin seen'
               PROVE  FALSE
    BY <1>1, <1>2 DEF WalkSeesAll
  <2>1. /\ page * Effective < Place(p, Listed) /\ Place(p, Listed) <= Cardinality(Listed)
        /\ Place(p, Listed) \in Nat /\ Cardinality(Listed) \in Nat
    BY <1>5
  <2>2. /\ Effective \in Nat \ {0} /\ Told \in Nat /\ (page - 1) * Effective \in Nat
        /\ page * Effective = (page - 1) * Effective + Effective
        /\ page * Told <= page * Effective
    BY Pages DEF WalkInv
  <2>3. page * Told \in Nat /\ total \in Nat /\ Cardinality(Listed) <= total
    BY <1>1, <2>2 DEF WalkInv, WalkTypeOK, CountIsEnough
  <2>4. CASE page * Told >= total
    BY <2>1, <2>2, <2>3, <2>4
  <2>5. CASE Rows = {}
    <3> DEFINE k == (page - 1) * Effective + 1
    <3>1. k \in 1 .. Cardinality(Listed) /\ k > (page - 1) * Effective /\ k <= page * Effective
      BY <2>1, <2>2
    <3>2. PICK q \in Listed : Place(q, Listed) = k
      <4>1. Listed \in SUBSET Project
        BY DEF Listed
      <4> QED BY <3>1, <4>1, EveryPlaceTaken
    <3>3. q \in Rows
      BY <3>1, <3>2 DEF Rows
    <3> QED BY <2>5, <3>3
  <2> QED
    BY <2>4, <2>5 DEF Find
<1> QED
  BY <1>4, <1>6, <1>7, <1>8 DEF WalkInv

LEMMA WalkInductive == WalkInv /\ [ListingNext]_listingVars => WalkInv'
<1> SUFFICES ASSUME WalkInv, [ListingNext]_listingVars PROVE WalkInv'
  OBVIOUS
<1>1. CASE UNCHANGED listingVars
  BY <1>1 DEF listingVars, walkVars, vars, WalkInv, WalkTypeOK, UnseenAreAhead, CountIsEnough,
              WalkSeesAll, Effective, Told, Listed
<1>2. CASE StartWalk
  <2>1. /\ Listed' = Listed /\ Effective' = Effective /\ step' = "count" /\ page' = 1
        /\ stayed' = Listed /\ UNCHANGED <<list, asked, total, seen>>
    BY <1>2 DEF StartWalk, vars, Listed, Effective, WalkInv, WalkTypeOK
  <2>2. ASSUME NEW p \in Listed PROVE (1 - 1) * Effective < Place(p, Listed)
    <3>1. Listed \in SUBSET Project /\ p \in Project
      BY DEF Listed
    <3>2. 1 <= Place(p, Listed) /\ Place(p, Listed) \in Nat
      BY <3>1, PlaceNotZero, PlaceBounded
    <3>3. Effective \in Nat
      BY Pages DEF WalkInv
    <3> QED BY <3>2, <3>3
  <2> QED
    BY <2>1, <2>2 DEF WalkInv, WalkTypeOK, UnseenAreAhead, CountIsEnough, WalkSeesAll
<1>3. CASE Count
  <2>1. /\ Listed' = Listed /\ Effective' = Effective /\ step' = "find"
        /\ total' = Cardinality(Listed) /\ step = "count"
        /\ UNCHANGED <<list, asked, page, seen, stayed, left>>
    BY <1>3 DEF Count, vars, Listed, Effective
  <2>2. Cardinality(Listed) \in Nat /\ Cardinality(Listed) <= Cardinality(Listed)
    <3>1. Listed \in SUBSET Project
      BY DEF Listed
    <3>2. IsFiniteSet(Listed)
      BY <3>1, FS_Subset, ListingAssumption DEF ListingAssumption
    <3>3. Cardinality(Listed) \in Nat
      BY <3>2, FS_CardinalityType
    <3> QED BY <3>3
  <2> QED
    BY <2>1, <2>2 DEF WalkInv, WalkTypeOK, UnseenAreAhead, CountIsEnough, WalkSeesAll
<1>4. CASE ReadFails
  <2>1. /\ Listed' = Listed /\ step' = "failed"
        /\ UNCHANGED <<list, asked, page, total, stayed>>
    BY <1>4 DEF ReadFails, vars, Listed
  <2> QED
    BY <2>1 DEF WalkInv, WalkTypeOK, UnseenAreAhead, CountIsEnough, WalkSeesAll
<1> QED
  BY <1>1, <1>2, <1>3, <1>4, ServeKeepsWalk, FindKeepsWalk DEF ListingNext

LEMMA WalkStart == ListingInit => WalkInv
  BY ListingAssumption
  DEF ListingAssumption, ListingInit, WalkInv, WalkTypeOK, UnseenAreAhead, CountIsEnough,
      WalkSeesAll

\* Lists of any length, pages of any size, any number of requests that change the rows:
\* a walk that ends has shown every row that was there all the time, unless a row left,
\* one came between the last Count and its SELECT, or the size was not the one told.
THEOREM WalksSeeAll == ListingSpec => []WalkSeesAll
  BY WalkStart, WalkInductive, PTL DEF ListingSpec, WalkInv

\* The theorems about ProjectService hold of the composition: walks leave its variables.
LEMMA ListingLeavesProjects == ListingSpec => Spec
<1>1. ListingInit => Init
  BY DEF ListingInit
<1>2. [ListingNext]_listingVars => [Next]_vars
  BY DEF ListingNext, listingVars, Serve, StartWalk, Count, Find, ReadFails
<1> QED
  BY <1>1, <1>2, PTL DEF ListingSpec, Spec
===============================================================================
