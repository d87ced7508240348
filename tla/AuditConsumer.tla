------------------------------ MODULE AuditConsumer ------------------------------
(***************************************************************************)
(* audit-service: the consumer of audit_queue turns every event into a row *)
(* of audit_logs. A column of the row is TRUE when it gets a value of its  *)
(* type, FALSE when it gets the empty string, which is no UUID and no JSON.*)
(***************************************************************************)
EXTENDS Naturals

\* The ids in the payload of an event. Nobody names the acting user "user_id".
Payload(key) ==
    CASE key \in {"task.assigned", "task.status_changed"} -> {"company_id", "task_id"}
      [] key \in {"report.requested", "report.completed"} -> {"company_id", "job_id"}
      [] OTHER -> {}

\* The first of these ids that is there is the resource.
ResourceIds == {"task_id", "file_id", "job_id"}

\* BeforeState is never set.
Row(key) ==
    [company_id |-> "company_id" \in Payload(key), resource_id |-> Payload(key) \cap ResourceIds # {},
     user_id |-> "user_id" \in Payload(key), before_state |-> FALSE, after_state |-> TRUE]

\* The INSERT, which PostgreSQL refuses when one column has no value of its type.
Inserts(row) == \A column \in DOMAIN row : row[column]

MaxRetries == 3

\* The handler's answer when its work failed: deaths is the count of x-death, which
\* counts dead-letterings and not returns to the queue.
FailureVerdict(deaths) == IF deaths >= MaxRetries THEN "dead" ELSE "requeue"

\* What processMessage may answer; the database may fail too.
Answers(key, malformed, deaths) ==
    IF malformed THEN {"dead"}
    ELSE {FailureVerdict(deaths)} \cup {a \in {"ack"} : Inserts(Row(key))}
===============================================================================
