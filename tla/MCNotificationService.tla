------------------------ MODULE MCNotificationService ------------------------
(* One assignment, one status change (its payload names no user, as            *)
(* task-service publishes it) and one message that is not JSON.                *)
EXTENDS NotificationService, TLC

MCEvent == {"assigned", "status", "garbage"}
MCQueue == {AssignedQueue, StatusQueue}
MCQueueOf == [e \in MCEvent |-> IF e = "status" THEN StatusQueue ELSE AssignedQueue]
MCRecipient == [e \in MCEvent |-> IF e = "assigned" THEN "ann" ELSE NoUser]

\* Assignments only, for retries and redelivery.
AssignmentsQueueOf == [e \in Event |-> AssignedQueue]
AssignmentsRecipient == [e \in Event |-> "ann"]

PodSymmetry == Permutations(Pod)
===============================================================================
