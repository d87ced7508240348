-------------------------------- MODULE MCListing --------------------------------
(* Three projects, of which requests touch one: not the newest and not the       *)
(* oldest. It may be there at the start or not.                                  *)
EXTENDS Listing, TLC

CONSTANTS p1, p2, p3

MCCompany == {"c1", "c2"}
MCPhase == {"active", "archived"}

MCRequests ==
    [kind : {"create_project"}, company : {"c1"}, project : {p2}, phase : {"active"}] \cup
    [kind : {"update_project"}, company : MCCompany, project : {p2}, phase : MCPhase] \cup
    [kind : {"delete_project", "create_task"}, company : MCCompany, project : {p2}]

MCCreated == p1 :> 1 @@ p2 :> 2 @@ p3 :> 3
There == [company |-> "c1", phase |-> "active", deleted |-> FALSE]
MCInitialProjects == { p1 :> There @@ p2 :> r @@ p3 :> There : r \in {NoProject, There} }
MCWalked == {ProjectList, NotificationList, FileList}

WorkerSymmetry == Permutations(Worker)
===============================================================================
