------------------------------- MODULE Deployment -------------------------------
(***************************************************************************)
(* What a pod of each service does, in the order of its main.go, until it  *)
(* serves: connect, migrate its tables, declare its part of the RabbitMQ   *)
(* topology. Every failure on the way is fatal, and the pod starts again.  *)
(***************************************************************************)
EXTENDS Naturals, Sequences

CONSTANT Key  \* the routing keys of the instance

Events == "constructflow.events"
DeadLetters == "constructflow.events.dlx"

Step(op, of, key) == [op |-> op, of |-> of, key |-> key]

\* amqp.Dial and Channel, then declarations: an exchange, the queue q and its
\* dead-letter queue ("dlq"), and their bindings to the two exchanges.
Dial == Step("dial", "", "")
Exchange(name) == Step("exchange", name, "")
Queue(q) == Step("queue", q, "")
Dlq(q) == Step("dlq", q, "")
Bind(q, key) == Step("bind", q, key)
BindDlq(q, key) == Step("bind_dlq", q, key)

Declarations == {"exchange", "queue", "dlq", "bind", "bind_dlq"}

\* What the broker must know for a declaration not to close the channel.
Needs(d) ==
    CASE d.op = "bind" -> {Exchange(Events), Queue(d.of)}
      [] d.op = "bind_dlq" -> {Exchange(DeadLetters), Dlq(d.of)}
      [] OTHER -> {}

Known(keys) == SelectSeq(keys, LAMBDA k : k \in Key)

IndexRoutingKeys == Known(<<"task.assigned", "task.status_changed", "file.uploaded", "report.completed">>)
AuditRoutingKeys == Known(<<"task.assigned", "task.status_changed", "file.uploaded", "file.deleted",
                            "report.requested", "report.completed", "user.login">>)

Subscriptions ==
    [task_assigned_queue |-> Known(<<"task.assigned">>),
     task_status_changed_queue |-> Known(<<"task.status_changed">>),
     report_requested_queue |-> Known(<<"report.requested">>),
     search_index_queue |-> IndexRoutingKeys,
     audit_queue |-> AuditRoutingKeys]
AllQueues == DOMAIN Subscriptions

Range(s) == {s[i] : i \in DOMAIN s}
KeysOf(q) == Range(Subscriptions[q])
ForEachKey(op, q) == [i \in DOMAIN Subscriptions[q] |-> Step(op, q, Subscriptions[q][i])]

DlqFirst(q) == <<Dlq(q)>> \o ForEachKey("bind_dlq", q) \o <<Queue(q)>> \o ForEachKey("bind", q)

\* A channel, the two exchanges, then each queue after its dead-letter queue.
Connect == <<Dial, Exchange(Events), Exchange(DeadLetters)>>

NotificationBroker == Connect \o DlqFirst("task_assigned_queue") \o DlqFirst("task_status_changed_queue")
ReportBroker == Connect \o DlqFirst("report_requested_queue")
SearchBroker == Connect \o DlqFirst("search_index_queue")
AuditBroker == Connect \o DlqFirst("audit_queue")

\* These two only publish.
TaskBroker == <<Dial, Exchange(Events)>>
SchedulerBroker == <<Dial, Exchange(Events)>>

\* AutoMigrate: one table after the other.
Migrate(tables) == [i \in DOMAIN tables |-> Step("migrate", tables[i], "")]

UserTables == Migrate(<<"companies", "users">>)
TaskTables == Migrate(<<"projects", "tasks">>)
NotificationTables == Migrate(<<"notifications">>)
ReportTables == Migrate(<<"report_jobs">>)
AuditTables == Migrate(<<"audit_logs">>)
FileTables == Migrate(<<"files">>)

Ping == <<Step("ping", "", "")>>  \* of Redis

\* Start the consumers and the server. Key files, the MinIO and the gRPC clients are
\* read or made without a connection.
Serve == <<Step("serve", "", "")>>

UserPlan == UserTables \o Serve
TaskPlan == TaskTables \o Ping \o TaskBroker \o Serve
NotificationPlan == NotificationTables \o Ping \o NotificationBroker \o Serve
ReportPlan == ReportTables \o ReportBroker \o Serve
SchedulerPlan == Ping \o SchedulerBroker \o Serve
AuditPlan == AuditTables \o AuditBroker \o Serve
SearchPlan == SearchBroker \o Serve
FilePlan == FileTables \o Serve
GatewayPlan == Ping \o Serve

Plan == [user |-> UserPlan, task |-> TaskPlan, notification |-> NotificationPlan,
         report |-> ReportPlan, scheduler |-> SchedulerPlan, audit |-> AuditPlan,
         search |-> SearchPlan, file |-> FilePlan, gateway |-> GatewayPlan]
Service == DOMAIN Plan

Steps == UNION {Range(Plan[svc]) : svc \in Service}
AllTables == {d.of : d \in {x \in Steps : x.op = "migrate"}}

\* The queues a service consumes.
QueuesOf(svc) ==
    CASE svc = "notification" -> {"task_assigned_queue", "task_status_changed_queue"}
      [] svc = "report" -> {"report_requested_queue"}
      [] svc = "search" -> {"search_index_queue"}
      [] svc = "audit" -> {"audit_queue"}
      [] OTHER -> {}

\* The events a service publishes. file-service and user-service publish none.
PublishedBy(svc) ==
    CASE svc = "task" -> {"task.assigned", "task.status_changed"}
      [] svc = "report" -> {"report.requested", "report.completed"}
      [] svc = "scheduler" -> {"deadline.reminder", "deadline.overdue", "report.requested", "file.lifecycle"}
      [] OTHER -> {}
===============================================================================
