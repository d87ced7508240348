------------------------------ MODULE AccessPolicy ------------------------------
(***************************************************************************)
(* The access control of the gateway, as far as task-service relies on it: *)
(* AssignTask and CreateTask do not look at the role of their caller. A    *)
(* policy holds in every company (its domain is "*"); the company and the  *)
(* role are those of the token.                                            *)
(***************************************************************************)

Policy ==
    ({"admin", "manager"} \X {"/projects", "/tasks", "/notifications"} \X {"read", "write"})
        \cup ({"admin", "manager"} \X {"/tasks/assign", "/tasks/status"} \X {"write"})
        \cup ({"worker"} \X {"/projects", "/tasks", "/notifications"} \X {"read"})
        \cup ({"worker"} \X {"/tasks/status", "/notifications"} \X {"write"})

\* The kinds of request that have a route. UpdateTask and DeleteTask have none: they
\* are called inside the cluster, and nobody checks a role.
Routed == {"create", "assign", "status"}

\* The resource that the route hands to RBACMiddleware.
Resource(kind) ==
    CASE kind = "create" -> "/tasks"
      [] kind = "assign" -> "/tasks/assign"
      [] kind = "status" -> "/tasks/status"

\* Mutant: a policy for some role lets every role pass.
EnforceAnyRole(role, resource, action) ==
    \E other \in {"admin", "manager", "worker"} : <<other, resource, action>> \in Policy

Enforce(role, resource, action) == <<role, resource, action>> \in Policy

\* A request of this kind gets to its service.
Admitted(role, kind) == kind \in Routed => Enforce(role, Resource(kind), "write")
===============================================================================
