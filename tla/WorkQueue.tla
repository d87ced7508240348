------------------------------ MODULE WorkQueue ------------------------------
(***************************************************************************)
(* The RabbitMQ queues of a consuming service and the frame its consumers  *)
(* share: every pod opens one channel and starts one goroutine per queue,  *)
(* which handles one message after the other and answers each with Ack or  *)
(* Nack. Messages are acknowledged by hand; a closed channel gives back    *)
(* what it had not acknowledged. A service extends this module with what   *)
(* its handler does between Deliver and Reply.                             *)
(*                                                                         *)
(* A queue is a set: two pods take messages of one queue in any order, and *)
(* what a pod has buffered goes back when its channel closes, so buffered  *)
(* is the same as ready.                                                   *)
(***************************************************************************)
EXTENDS Naturals

CONSTANTS
    Event,      \* messages that may be published, each once
    Queue,      \* the queues of the service
    QueueOf,    \* event -> the queue its routing key is bound to
    Malformed,  \* messages whose body is not valid JSON
    Pod,        \* replicas of the service
    None,       \* no message
    MaxFaults   \* bound: failures in a behaviour

ASSUME QueueAssumption ==
    /\ QueueOf \in [Event -> Queue]
    /\ Malformed \subseteq Event
    /\ None \notin Event
    /\ MaxFaults \in Nat

VARIABLES
    ready,      \* messages that wait in their queue
    unacked,    \* pod -> messages delivered on its channel, not yet answered
    settled,    \* messages that were acknowledged
    dead,       \* messages in a dead-letter queue
    channel,    \* pod -> its channel is "open" or "closed"
    at,         \* consumer -> the next call of its handler
    job,        \* consumer -> the message it handles
    faults      \* how many failures have happened

queueVars == <<ready, unacked, settled, dead, channel, at, job, faults>>

\* A goroutine: one for each pod and queue.
Consumer == Pod \X Queue
PodOf(c) == c[1]
Served(c) == c[2]

MaxRetries == 3

Published == ready \cup settled \cup dead \cup UNION {unacked[p] : p \in Pod}

QueueInit ==
    /\ ready = {}
    /\ unacked = [p \in Pod |-> {}]
    /\ settled = {}
    /\ dead = {}
    /\ channel = [p \in Pod |-> "open"]
    /\ at = [c \in Consumer |-> "idle"]
    /\ job = [c \in Consumer |-> None]
    /\ faults = 0

\* A failure of a database, of Redis, of the broker or of a pod.
Fault ==
    /\ faults < MaxFaults
    /\ faults' = faults + 1

Publish(e) ==
    /\ e \notin Published
    /\ ready' = ready \cup {e}
    /\ UNCHANGED <<unacked, settled, dead, channel, at, job, faults>>

\* Mutant: Consume with autoAck, the broker forgets a message when it sends it.
DeliverAutoAck(c) ==
    /\ channel[PodOf(c)] = "open"
    /\ at[c] = "idle"
    /\ \E e \in ready :
           /\ QueueOf[e] = Served(c)
           /\ ready' = ready \ {e}
           /\ settled' = settled \cup {e}
           /\ job' = [job EXCEPT ![c] = e]
    /\ at' = [at EXCEPT ![c] = "received"]
    /\ UNCHANGED <<unacked, dead, channel, faults>>

\* Mutant: Consume names a queue of another consumer.
DeliverOfOtherQueue(c) ==
    /\ channel[PodOf(c)] = "open"
    /\ at[c] = "idle"
    /\ \E e \in ready :
           /\ QueueOf[e] # Served(c)
           /\ ready' = ready \ {e}
           /\ unacked' = [unacked EXCEPT ![PodOf(c)] = @ \cup {e}]
           /\ job' = [job EXCEPT ![c] = e]
    /\ at' = [at EXCEPT ![c] = "received"]
    /\ UNCHANGED <<settled, dead, channel, faults>>

Deliver(c) ==
    /\ channel[PodOf(c)] = "open"
    /\ at[c] = "idle"
    /\ \E e \in ready :
           /\ QueueOf[e] = Served(c)
           /\ ready' = ready \ {e}
           /\ unacked' = [unacked EXCEPT ![PodOf(c)] = @ \cup {e}]
           /\ job' = [job EXCEPT ![c] = e]
    /\ at' = [at EXCEPT ![c] = "received"]
    /\ UNCHANGED <<settled, dead, channel, faults>>

\* The handler goes on to its next call.
Goto(c, step) ==
    /\ at' = [at EXCEPT ![c] = step]
    /\ UNCHANGED <<ready, unacked, settled, dead, channel, job>>

\* Mutant: the handler returns without an answer when it fails.
ReplyOnlyAck(c, verdict) ==
    LET e == job[c]
        answered == IF e \in unacked[PodOf(c)] /\ verdict # "requeue" THEN {e} ELSE {}
    IN  /\ unacked' = [unacked EXCEPT ![PodOf(c)] = @ \ answered]
        /\ settled' = settled \cup {x \in answered : verdict = "ack"}
        /\ dead' = dead \cup {x \in answered : verdict = "dead"}
        /\ at' = [at EXCEPT ![c] = "idle"]
        /\ job' = [job EXCEPT ![c] = None]
        /\ UNCHANGED <<ready, channel, faults>>

\* Ack, Nack with requeue, or Nack to the dead-letter exchange. On a closed
\* channel the call fails, and the handlers ignore its error.
Reply(c, verdict) ==
    LET e == job[c]
        answered == IF e \in unacked[PodOf(c)] THEN {e} ELSE {}
    IN  /\ unacked' = [unacked EXCEPT ![PodOf(c)] = @ \ answered]
        /\ settled' = settled \cup {x \in answered : verdict = "ack"}
        /\ ready' = ready \cup {x \in answered : verdict = "requeue"}
        /\ dead' = dead \cup {x \in answered : verdict = "dead"}
        /\ at' = [at EXCEPT ![c] = "idle"]
        /\ job' = [job EXCEPT ![c] = None]
        /\ UNCHANGED <<channel, faults>>

\* The header x-death counts dead-letterings. Nack with requeue does not add to
\* it, and no one takes messages back from a dead-letter queue.
RetryCount(e) == IF e \in dead THEN 1 ELSE 0

\* What a handler answers when its work failed (after its back-off).
FailureVerdict(e) == IF RetryCount(e) >= MaxRetries THEN "dead" ELSE "requeue"

\* The connection breaks or the broker restarts. The goroutines finish the
\* message they have and return; nothing opens the channel again.
ChannelCloses(p) ==
    /\ Fault
    /\ channel[p] = "open"
    /\ channel' = [channel EXCEPT ![p] = "closed"]
    /\ ready' = ready \cup unacked[p]
    /\ unacked' = [unacked EXCEPT ![p] = {}]
    /\ UNCHANGED <<settled, dead, at, job>>

\* The pod dies, or is stopped, and a new one takes its place.
PodRestarts(p) ==
    LET mine(c) == PodOf(c) = p
    IN  /\ Fault
        /\ channel' = [channel EXCEPT ![p] = "open"]
        /\ ready' = ready \cup unacked[p]
        /\ unacked' = [unacked EXCEPT ![p] = {}]
        /\ at' = [c \in Consumer |-> IF mine(c) THEN "idle" ELSE at[c]]
        /\ job' = [c \in Consumer |-> IF mine(c) THEN None ELSE job[c]]
        /\ UNCHANGED <<settled, dead>>

\* The broker's own step with no handler involved.
QueueEnvironment ==
    \/ \E e \in Event : Publish(e)
    \/ \E p \in Pod : ChannelCloses(p) \/ PodRestarts(p)

\* The types of the queue's variables, for handlers with these steps; a goroutine
\* at work holds a message of its own queue.
QueueTypeOK(Step) ==
    /\ ready \subseteq Event
    /\ unacked \in [Pod -> SUBSET Event]
    /\ settled \subseteq Event
    /\ dead \subseteq Event
    /\ channel \in [Pod -> {"open", "closed"}]
    /\ at \in [Consumer -> Step \cup {"idle", "received"}]
    /\ job \in [Consumer -> Event \cup {None}]
    /\ \A c \in Consumer : at[c] # "idle" => job[c] \in Event /\ QueueOf[job[c]] = Served(c)
    /\ faults \in Nat

\* Of these messages, those of a queue.
Of(q, messages) == {e \in messages : QueueOf[e] = q}

\* What waits, or is delivered and not yet answered.
Pending == ready \cup UNION {unacked[p] : p \in Pod}

Broker == INSTANCE Delivery WITH
    Event <- Event,
    Q <- Queue,
    Wants <- [q \in Queue |-> Of(q, Event)],
    listening <- Queue,
    owed <- [q \in Queue |-> Of(q, Pending)],
    handled <- [q \in Queue |-> Of(q, settled)],
    buried <- [q \in Queue |-> Of(q, dead)]

\* The consumers of a service treat its queues as the bus promises: a message is handled
\* once, or given up into the dead-letter queue of its own queue, and is owed until then.
QueuesImplementDelivery == Broker!Spec
===============================================================================
