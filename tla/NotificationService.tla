------------------------- MODULE NotificationService -------------------------
(***************************************************************************)
(* notification-service: the consumers of task.assigned and                *)
(* task.status_changed store a notification for the user an event names.   *)
(* A Redis key per event is meant to make the delivery idempotent: it is   *)
(* set before the row is written.                                          *)
(***************************************************************************)
EXTENDS WorkQueue

CONSTANTS
    User,
    NoUser,      \* the payload names no one
    Recipient    \* event -> the user in its payload

AssignedQueue == "task_assigned_queue"
StatusQueue == "task_status_changed_queue"

ASSUME PayloadAssumption ==
    /\ {AssignedQueue, StatusQueue} \subseteq Queue
    /\ Recipient \in [Event -> User \cup {NoUser}]
    /\ NoUser \notin User

VARIABLES
    keys,      \* Redis keys event:<id>
    unread,    \* event -> unread notifications made from it
    seen,      \* event -> notifications made from it that were marked read
    unguarded  \* history: events whose key Redis failed to set, or dropped

serviceVars == <<keys, unread, seen, unguarded>>
vars == <<queueVars, serviceVars>>

Init ==
    /\ QueueInit
    /\ keys = {}
    /\ unread = [e \in Event |-> 0]
    /\ seen = [e \in Event |-> 0]
    /\ unguarded = {}

Notified(e) == unread[e] + seen[e] > 0

\* Events a consumer acknowledges or rejects without a notification: no user
\* to tell (status events only), or a body it cannot read.
Silent(e) == QueueOf[e] = StatusQueue /\ Recipient[e] = NoUser

StoreRow(e) == unread' = [unread EXCEPT ![e] = @ + 1]

\* Decoding the message, up to the first call that leaves the process.
Decode(c) ==
    LET e == job[c]
    IN  /\ at[c] = "received"
        /\ \/ e \in Malformed /\ Reply(c, "dead")
           \/ e \notin Malformed /\ Silent(e) /\ Reply(c, "ack")
           \/ /\ e \notin Malformed /\ ~Silent(e)
              /\ Goto(c, IF Recipient[e] = NoUser THEN "failed" ELSE "check_key")
              /\ UNCHANGED faults
        /\ UNCHANGED serviceVars

\* Mutant: the answer the comment in the code expects: no error, and not set.
KeyReplyOfComment(e) == [set |-> e \notin keys, err |-> FALSE]

\* SET NX through SetArgs: a key that exists is answered with redis.Nil, an error.
KeyReply(e) == [set |-> e \notin keys, err |-> e \in keys]

CheckKey(c) ==
    LET e == job[c]
        reply == KeyReply(e)
    IN  /\ at[c] = "check_key"
        /\ keys' = keys \cup {e}
        /\ \/ (reply.err \/ reply.set) /\ Goto(c, "create") /\ UNCHANGED faults
           \/ ~reply.err /\ ~reply.set /\ Reply(c, "ack")    \* ErrDuplicateEvent
        /\ UNCHANGED <<unread, seen, unguarded>>

\* Redis is not reachable, or its reply is lost: go on without the key.
CheckKeyFails(c) ==
    /\ at[c] = "check_key"
    /\ Fault
    /\ keys' = keys \/ keys' = keys \cup {job[c]}
    /\ unguarded' = unguarded \cup {job[c]}
    /\ Goto(c, "create")
    /\ UNCHANGED <<unread, seen>>

Create(c) ==
    /\ at[c] = "create"
    /\ StoreRow(job[c])
    /\ Goto(c, "stored")
    /\ UNCHANGED <<faults, keys, seen, unguarded>>

\* The INSERT returns an error, rolled back or committed.
CreateFails(c) ==
    /\ at[c] = "create"
    /\ Fault
    /\ StoreRow(job[c]) \/ UNCHANGED unread
    /\ Goto(c, "failed")
    /\ UNCHANGED <<keys, seen, unguarded>>

Acknowledge(c) ==
    /\ at[c] = "stored"
    /\ Reply(c, "ack")
    /\ UNCHANGED serviceVars

\* The handler sleeps, then returns the message.
Reject(c) ==
    /\ at[c] = "failed"
    /\ Reply(c, FailureVerdict(job[c]))
    /\ UNCHANGED serviceVars

\* 24 hours after it was set.
KeyExpires(e) ==
    /\ e \in keys
    /\ keys' = keys \ {e}
    /\ unguarded' = unguarded \cup {e}
    /\ UNCHANGED <<queueVars, unread, seen>>

\* gRPC: only the rows of the calling user are touched. Marking a row that was
\* read already changes nothing.
MarkRead(u) ==
    \E e \in Event :
        /\ Recipient[e] = u
        /\ unread[e] > 0
        /\ unread' = [unread EXCEPT ![e] = @ - 1]
        /\ seen' = [seen EXCEPT ![e] = @ + 1]
        /\ UNCHANGED <<queueVars, keys, unguarded>>

MarkAllRead(u) ==
    LET mine == {e \in Event : Recipient[e] = u}
    IN  /\ unread' = [e \in Event |-> IF e \in mine THEN 0 ELSE unread[e]]
        /\ seen' = [e \in Event |-> IF e \in mine THEN seen[e] + unread[e] ELSE seen[e]]
        /\ UNCHANGED <<queueVars, keys, unguarded>>

Take(c) == Deliver(c) /\ UNCHANGED serviceVars

Handle(c) ==
    \/ Decode(c) \/ CheckKey(c) \/ CheckKeyFails(c)
    \/ Create(c) \/ CreateFails(c) \/ Acknowledge(c) \/ Reject(c)

Next ==
    \/ QueueEnvironment /\ UNCHANGED serviceVars
    \/ \E c \in Consumer : Take(c) \/ Handle(c)
    \/ \E e \in Event : KeyExpires(e)
    \/ \E u \in User : MarkRead(u) \/ MarkAllRead(u)

Spec == Init /\ [][Next]_vars

\* The broker delivers to an open channel and a handler that runs goes on; no
\* one is sure to restart a pod.
FairSpec ==
    /\ Spec
    /\ \A c \in Consumer : WF_vars(Take(c)) /\ WF_vars(Handle(c))
-------------------------------------------------------------------------------
(***************************************************************************)
(* Properties                                                              *)
(***************************************************************************)

\* Every variable has its type.
TypeOK ==
    /\ QueueTypeOK({"check_key", "create", "stored", "failed"})
    /\ keys \subseteq Event
    /\ unread \in [Event -> Nat]
    /\ seen \in [Event -> Nat]
    /\ unguarded \subseteq Event

\* At-least-once delivery: an event leaves the broker's queues only when the
\* notification it asks for is stored, whatever was redelivered, failed or died on
\* the way. (The key is set before the row: were it believed, as the comment in
\* CreateNotification intends, an event whose INSERT failed would be lost.)
NoEventLost ==
    \A e \in settled : Notified(e) \/ (Silent(e) /\ e \notin Malformed)

\* Every notification of an event beyond its first costs a failure: a lost answer, a closed
\* channel, a pod that died. The Redis key that create_notification.go sets against
\* duplicates has no part in it.
DuplicatesCostFailures == \A e \in Event : unread[e] + seen[e] <= 1 + faults

\* While one pod keeps its channel, every published event is in the end
\* acknowledged or dead-lettered.
EveryEventSettles ==
    (\E p \in Pod : [](channel[p] = "open")) =>
        \A e \in Event : e \in Published ~> e \in settled \cup dead
-------------------------------------------------------------------------------
(***************************************************************************)
(* What comments and documents say and the code does not do.               *)
(***************************************************************************)

\* create_notification.go: "If the key already exists, this event was already
\* processed -> skip": as long as Redis works and the key lives, one event makes
\* one notification.
NotifiedOnce == \A e \in Event \ unguarded : unread[e] + seen[e] <= 1
===============================================================================
