--------------------------------- MODULE Listing ---------------------------------
(***************************************************************************)
(* A client reads a list page by page while its rows come, go and come     *)
(* back. Each page is a Count and a SELECT with OFFSET and LIMIT, newest   *)
(* first, in no transaction. The rows are those of ProjectService; the     *)
(* lists of the other services have the same two statements, and differ in *)
(* what they do with the page size.                                        *)
(***************************************************************************)
EXTENDS ProjectService, FiniteSets

CONSTANTS
    Created,      \* project -> created_at, once there is a row
    Caller,       \* the company of the client
    Wanted,       \* the phases its filter lets through
    Sizes,        \* page sizes a client may ask for; 0 is none
    DefaultSize,
    LargestSize,  \* larger ones count as none
    Walked        \* the lists that are walked

\* limited: there is a largest size; tells: the answer names the size that was used.
ProjectList == [limited |-> TRUE, tells |-> TRUE]
TaskList == [limited |-> TRUE, tells |-> TRUE]
NotificationList == [limited |-> TRUE, tells |-> FALSE]   \* the size asked for
ReportList == [limited |-> TRUE, tells |-> FALSE]         \* no size
AuditList == [limited |-> TRUE, tells |-> FALSE]
FileList == [limited |-> FALSE, tells |-> FALSE]

Lists == {ProjectList, TaskList, NotificationList, ReportList, AuditList, FileList}

ASSUME ListingAssumption ==
    /\ IsFiniteSet(Project)
    /\ Created \in [Project -> Nat]
    /\ \A p, q \in Project : Created[p] = Created[q] => p = q
    /\ Caller \in Company /\ Wanted \subseteq Phase
    /\ Sizes \subseteq Nat
    /\ DefaultSize \in Nat \ {0} /\ LargestSize \in Nat
    /\ Walked \subseteq Lists

VARIABLES
    list,       \* the list that is walked
    asked,      \* the page size the client asks for
    step,       \* "start", "count" and "find" of a page, "done" or "failed"
    page,
    total,      \* the count of this page
    seen,       \* rows the client got
    stayed,     \* history: rows that were there all the time
    left,       \* history: a row has left the list
    uncounted   \* history: a row has come since the count of this page

walkVars == <<list, asked, step, page, total, seen>>
listingVars == <<vars, walkVars, stayed, left, uncounted>>

Listed ==
    {p \in Project : Live(projects[p]) /\ projects[p].company = Caller /\ projects[p].phase \in Wanted}

Effective == IF asked < 1 \/ (list.limited /\ asked > LargestSize) THEN DefaultSize ELSE asked

\* The size a client believes in.
Told == IF list.tells THEN Effective ELSE asked

\* ORDER BY created_at DESC.
Place(p, rows) == Cardinality({q \in rows : Created[q] >= Created[p]})

\* Mutant: pages are counted from zero.
RowsOfNext ==
    {p \in Listed : page * Effective < Place(p, Listed) /\ Place(p, Listed) <= (page + 1) * Effective}

\* OFFSET (page - 1) * size LIMIT size.
Rows ==
    {p \in Listed : (page - 1) * Effective < Place(p, Listed) /\ Place(p, Listed) <= page * Effective}

ListingInit ==
    /\ Init
    /\ list \in Walked
    /\ asked \in Sizes
    /\ step = "start"
    /\ page = 1
    /\ total = 0
    /\ seen = {} /\ stayed = {}
    /\ left = FALSE /\ uncounted = FALSE

StartWalk ==
    /\ step = "start"
    /\ step' = "count"
    /\ stayed' = Listed
    /\ UNCHANGED <<vars, list, asked, page, total, seen, left, uncounted>>

Count ==
    /\ step = "count"
    /\ step' = "find"
    /\ total' = Cardinality(Listed)
    /\ uncounted' = FALSE
    /\ UNCHANGED <<vars, list, asked, page, seen, stayed, left>>

\* The client goes on until the total is reached, or a page is empty.
Find ==
    /\ step = "find"
    /\ seen' = seen \cup Rows
    /\ IF page * Told >= total \/ Rows = {}
         THEN step' = "done" /\ UNCHANGED page
         ELSE step' = "count" /\ page' = page + 1
    /\ UNCHANGED <<vars, list, asked, total, stayed, left, uncounted>>

ReadFails ==
    /\ step \in {"count", "find"}
    /\ step' = "failed"
    /\ UNCHANGED <<vars, list, asked, page, total, seen, stayed, left, uncounted>>

\* Other requests change the table.
Serve ==
    /\ Next
    /\ stayed' = stayed \cap Listed'
    /\ left' = (left \/ (step # "start" /\ ~(Listed \subseteq Listed')))
    /\ uncounted' = (uncounted \/ (step = "find" /\ ~(Listed' \subseteq Listed)))
    /\ UNCHANGED walkVars

ListingNext == Serve \/ StartWalk \/ Count \/ Find \/ ReadFails

ListingSpec == ListingInit /\ [][ListingNext]_listingVars
-------------------------------------------------------------------------------
\* ListProjects and its like: a walk that ends has shown every row that was there all
\* the time, unless a row left its place meanwhile (those behind it moved up a page), one
\* came between Count and SELECT, or the list used a smaller size than the client
\* was told of. Rows that come at other times only show some row twice.
WalkSeesAll ==
    step = "done" /\ ~left /\ ~uncounted /\ Told <= Effective => stayed \subseteq seen
===============================================================================
