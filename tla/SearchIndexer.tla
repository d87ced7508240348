------------------------------ MODULE SearchIndexer ------------------------------
(***************************************************************************)
(* The write path of search-service: the event of a change, published      *)
(* after its transaction, goes through search_index_queue to the pods, and *)
(* each puts it into Elasticsearch over the document that was there. Which *)
(* event a document shows in the end is a matter of order, so the queue    *)
(* and the buffer of each pod are kept in order. There is no prefetch      *)
(* limit: a pod buffers all the broker pushes to it and works through it.  *)
(***************************************************************************)
EXTENDS Naturals, SequencesExt

CONSTANTS
    Event,       \* 1 .. n, in the order in which the changes are committed
    Document,    \* Elasticsearch documents: index and id
    DocumentOf,  \* event -> the document routeEvent picks
    Malformed,   \* events whose JSON cannot be read
    Pod,         \* replicas of search-service
    None,
    MaxFaults    \* bound: failed calls, closed channels and restarts

ASSUME SearchAssumption ==
    /\ Event \subseteq Nat
    /\ DocumentOf \in [Event -> Document]
    /\ Malformed \subseteq Event
    /\ None \notin Event /\ None \notin Pod
    /\ MaxFaults \in Nat

VARIABLES
    log,      \* the events published so far, in the order of their arrival
    ready,    \* events that wait at the broker
    buffer,   \* pod -> deliveries its goroutine has not taken yet
    unacked,  \* pod -> deliveries on its channel that are not answered
    channel,  \* pod -> "open" or "closed"
    at, job,  \* pod -> what its goroutine does, and with which event
    settled, dead,
    again,    \* events given back to the queue at least once: their redelivered flag
    index,    \* document -> the event it shows, and the pod that put it
    indexed,  \* history: events that were ever put
    faults

brokerVars == <<log, ready, unacked, channel, settled, dead, again>>
podVars == <<buffer, at, job>>
indexVars == <<index, indexed>>
vars == <<brokerVars, podVars, indexVars, faults>>

Init ==
    /\ log = <<>>
    /\ ready = {}
    /\ buffer = [p \in Pod |-> <<>>]
    /\ unacked = [p \in Pod |-> {}]
    /\ channel = [p \in Pod |-> "open"]
    /\ at = [p \in Pod |-> "idle"]
    /\ job = [p \in Pod |-> None]
    /\ settled = {} /\ dead = {} /\ again = {}
    /\ index = [d \in Document |-> [event |-> None, pod |-> None]]
    /\ indexed = {}
    /\ faults = 0

Fault == faults < MaxFaults /\ faults' = faults + 1
-------------------------------------------------------------------------------
(***************************************************************************)
(* The broker                                                              *)
(***************************************************************************)

\* Requests publish after their transactions, concurrently and without retries: in
\* any order, or never.
Publish(e) ==
    /\ e \notin ToSet(log)
    /\ log' = Append(log, e)
    /\ ready' = ready \cup {e}
    /\ UNCHANGED <<unacked, channel, settled, dead, again, podVars, indexVars, faults>>

\* The oldest waiting event: what is given back returns to its place in the queue.
Oldest ==
    log[CHOOSE i \in DOMAIN log : /\ log[i] \in ready
                                  /\ \A j \in DOMAIN log : log[j] \in ready => i <= j]

\* Mutant: Consume with autoAck.
PushAutoAck(p) ==
    /\ channel[p] = "open"
    /\ ready # {}
    /\ ready' = ready \ {Oldest}
    /\ settled' = settled \cup {Oldest}
    /\ buffer' = [buffer EXCEPT ![p] = Append(@, Oldest)]
    /\ UNCHANGED <<log, unacked, channel, dead, again, at, job, indexVars, faults>>

Push(p) ==
    /\ channel[p] = "open"
    /\ ready # {}
    /\ ready' = ready \ {Oldest}
    /\ unacked' = [unacked EXCEPT ![p] = @ \cup {Oldest}]
    /\ buffer' = [buffer EXCEPT ![p] = Append(@, Oldest)]
    /\ UNCHANGED <<log, channel, settled, dead, again, at, job, indexVars, faults>>

\* The answers that are still open on the channel of p go back to the queue.
GiveBack(p) ==
    /\ ready' = ready \cup unacked[p]
    /\ again' = again \cup unacked[p]
    /\ unacked' = [unacked EXCEPT ![p] = {}]

\* The connection breaks: the client drops its buffer, the goroutine ends after the
\* event it has, and nothing opens the channel again.
ChannelCloses(p) ==
    /\ Fault
    /\ channel[p] = "open"
    /\ channel' = [channel EXCEPT ![p] = "closed"]
    /\ GiveBack(p)
    /\ buffer' = [buffer EXCEPT ![p] = <<>>]
    /\ UNCHANGED <<log, settled, dead, at, job, indexVars>>

PodRestarts(p) ==
    /\ Fault
    /\ channel' = [channel EXCEPT ![p] = "open"]
    /\ GiveBack(p)
    /\ buffer' = [buffer EXCEPT ![p] = <<>>]
    /\ at' = [at EXCEPT ![p] = "idle"]
    /\ job' = [job EXCEPT ![p] = None]
    /\ UNCHANGED <<log, settled, dead, indexVars>>
-------------------------------------------------------------------------------
(***************************************************************************)
(* The consumer of a pod: one event after the other                        *)
(***************************************************************************)

\* Mutant: a goroutine for each message, the next to come is any of the buffer.
TakeAny(p) ==
    /\ at[p] = "idle"
    /\ \E i \in DOMAIN buffer[p] :
           /\ job' = [job EXCEPT ![p] = buffer[p][i]]
           /\ buffer' = [buffer EXCEPT ![p] = RemoveAt(@, i)]
    /\ at' = [at EXCEPT ![p] = "index"]
    /\ UNCHANGED <<brokerVars, indexVars, faults>>

Take(p) ==
    /\ at[p] = "idle"
    /\ buffer[p] # <<>>
    /\ job' = [job EXCEPT ![p] = Head(buffer[p])]
    /\ buffer' = [buffer EXCEPT ![p] = Tail(@)]
    /\ at' = [at EXCEPT ![p] = "index"]
    /\ UNCHANGED <<brokerVars, indexVars, faults>>

Goto(p, step) == at' = [at EXCEPT ![p] = step] /\ UNCHANGED <<job, buffer>>

\* The answer counts only on the channel the delivery came by.
Answer(p, step) ==
    /\ at[p] = step
    /\ unacked' = [unacked EXCEPT ![p] = @ \ {job[p]}]
    /\ at' = [at EXCEPT ![p] = "idle"]
    /\ job' = [job EXCEPT ![p] = None]
    /\ UNCHANGED <<log, channel, buffer, indexVars, faults>>

Answered(p) == unacked[p] \cap {job[p]}

\* Unreadable: Nack without requeue.
Discard(p) ==
    /\ job[p] \in Malformed
    /\ Answer(p, "index")
    /\ dead' = dead \cup Answered(p)
    /\ UNCHANGED <<ready, settled, again>>

\* PUT <index>/_doc/<id>: the whole document, whatever was there.
Put(p) ==
    /\ index' = [index EXCEPT ![DocumentOf[job[p]]] = [event |-> job[p], pod |-> p]]
    /\ indexed' = indexed \cup {job[p]}

Index(p) ==
    /\ at[p] = "index"
    /\ job[p] \notin Malformed
    /\ Put(p)
    /\ Goto(p, "ack")
    /\ UNCHANGED <<brokerVars, faults>>

\* Mutant: the status of the response is not looked at.
IndexFailsUnnoticed(p) ==
    /\ at[p] = "index"
    /\ job[p] \notin Malformed
    /\ Fault
    /\ Put(p) \/ UNCHANGED indexVars
    /\ Goto(p, "ack")
    /\ UNCHANGED brokerVars

\* No answer, or a bad one: the document may have been put.
IndexFails(p) ==
    /\ at[p] = "index"
    /\ job[p] \notin Malformed
    /\ Fault
    /\ Put(p) \/ UNCHANGED indexVars
    /\ Goto(p, "nack")
    /\ UNCHANGED brokerVars

Ack(p) ==
    /\ Answer(p, "ack")
    /\ settled' = settled \cup Answered(p)
    /\ UNCHANGED <<ready, dead, again>>

\* After the back-off: x-death never counts a requeue, so every failure is requeued.
Requeue(p) ==
    /\ Answer(p, "nack")
    /\ ready' = ready \cup Answered(p)
    /\ again' = again \cup Answered(p)
    /\ UNCHANGED <<settled, dead>>

Work(p) == Take(p) \/ Discard(p) \/ Index(p) \/ IndexFails(p) \/ Ack(p) \/ Requeue(p)

Next ==
    \/ \E e \in Event : Publish(e)
    \/ \E p \in Pod : Push(p) \/ Work(p) \/ ChannelCloses(p) \/ PodRestarts(p)

Spec == Init /\ [][Next]_vars

\* The broker pushes what waits, the goroutines go on; failures are finitely many.
FairSpec == Spec /\ \A p \in Pod : WF_vars(Push(p)) /\ WF_vars(Work(p))
-------------------------------------------------------------------------------
(***************************************************************************)
(* Properties                                                              *)
(***************************************************************************)

\* Every variable has its type, and a pod buffers only what it has not answered.
TypeOK ==
    /\ log \in Seq(Event)
    /\ ready \subseteq Event
    /\ buffer \in [Pod -> Seq(Event)]
    /\ unacked \in [Pod -> SUBSET Event]
    /\ channel \in [Pod -> {"open", "closed"}]
    /\ at \in [Pod -> {"idle", "index", "ack", "nack"}]
    /\ job \in [Pod -> Event \cup {None}]
    /\ settled \subseteq Event /\ dead \subseteq Event /\ again \subseteq Event
    /\ index \in [Document -> [event : Event \cup {None}, pod : Pod \cup {None}]]
    /\ indexed \subseteq Event
    /\ faults \in Nat
    /\ \A p \in Pod : ToSet(buffer[p]) \subseteq unacked[p]

\* Published after a newer event of the same document.
Late(e) ==
    \E i, j \in DOMAIN log : i < j /\ log[j] = e /\ log[i] > e /\ DocumentOf[log[i]] = DocumentOf[e]

\* A document goes back to an older event by one of three ways only: the requests
\* published in the wrong order, the older event was redelivered, or two pods work
\* side by side. On one pod without failures the index moves forward.
IndexGoesBackOnlyFor ==
    [][\A d \in Document :
           LET old == index[d]
               new == index'[d]
           IN  old.event # None /\ new.event < old.event =>
                   Late(new.event) \/ new.event \in again \/ new.pod # old.pod]_vars

\* What waits, or is delivered and not yet answered.
Pending == ready \cup UNION {unacked[p] : p \in Pod}

\* An acknowledged event was put: Elasticsearch answered for it at least once.
AckedEventsWereIndexed == settled \subseteq indexed

\* An event that was published and can be read was put, or is still the broker's to
\* deliver: no failure, closed channel or restart takes it out of the queue before.
NoEventSkipped ==
    ToSet(log) \ Malformed \subseteq indexed \cup Pending

IndexQueue == "search_index_queue"

Broker == INSTANCE Delivery WITH
    Event <- Event,
    Q <- {IndexQueue},
    Wants <- [q \in {IndexQueue} |-> Event],
    listening <- {IndexQueue},
    owed <- [q \in {IndexQueue} |-> Pending],
    handled <- [q \in {IndexQueue} |-> settled],
    buried <- [q \in {IndexQueue} |-> dead]

\* The pods treat their queue as the bus promises: whatever goes back and comes again, an
\* event is owed until it is handled, once, or given up.
QueueImplementsDelivery == Broker!Spec

\* While one pod keeps its channel, every event that was published gets into the
\* index, or is unreadable.
EveryEventIndexed ==
    (\E p \in Pod : [](channel[p] = "open")) =>
        \A e \in Event \ Malformed : e \in ToSet(log) ~> e \in indexed
===============================================================================
