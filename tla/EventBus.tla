-------------------------------- MODULE EventBus --------------------------------
(***************************************************************************)
(* The services on one RabbitMQ: pods come up along the plan of their      *)
(* service, publish to the shared exchange and consume their queues; each  *)
(* of these steps may be the last of a pod. What happens inside a handler  *)
(* is in the modules of the services, but for audit-service.               *)
(***************************************************************************)
EXTENDS Deployment, AuditConsumer, FiniteSets

CONSTANTS
    Pod,
    Deployments,  \* pod -> service: the choices
    Event,        \* each is published once
    KeyOf,        \* event -> routing key
    Malformed,    \* service -> events whose body it cannot read
    None,         \* no event
    MaxFaults     \* bound: failures in a behaviour

ASSUME BusAssumption ==
    /\ Deployments \subseteq [Pod -> Service]
    /\ KeyOf \in [Event -> Key]
    /\ Malformed \in [Service -> SUBSET Event]
    /\ None \notin Event
    /\ MaxFaults \in Nat

\* The plans of the services: a queue is bound to keys of its own, to each only where its
\* dead-letter queue is, and a service that serves has declared all its bindings.
ASSUME PlanAssumption ==
    \A svc \in Service :
        /\ Plan[svc] \in Seq(Steps)
        /\ \A i \in DOMAIN Plan[svc] :
               LET d == Plan[svc][i]
               IN  /\ d.op \in {"bind", "bind_dlq"} => d.key \in KeysOf(d.of)
                   /\ d.op = "bind" => \E j \in 1 .. (i - 1) : Plan[svc][j] = BindDlq(d.of, d.key)
        /\ \A q \in QueuesOf(svc) : \A key \in KeysOf(q) : Bind(q, key) \in Range(Plan[svc])

VARIABLES
    serves,    \* pod -> its service; never changes
    at,        \* pod -> position in the plan of its service
    missing,   \* pods whose AutoMigrate found that its table does not exist
    tables,    \* tables of the database
    topology,  \* kind -> the declarations the broker has carried out; all are durable
    link,      \* pods whose channel is open
    ready,     \* queue -> events that wait
    job,       \* pod -> queue -> the event a handler works on
    done,      \* queue -> events acknowledged
    graves,    \* queue -> events in its dead-letter queue
    rejected,  \* history: queue -> events its consumers gave up
    sent,      \* events published
    faults

startVars == <<at, missing, tables, topology>>
queueVars == <<ready, job, done, graves, rejected>>
vars == <<serves, startVars, link, queueVars, sent, faults>>

Init ==
    /\ serves \in Deployments
    /\ at = [p \in Pod |-> 1]
    /\ missing = {}
    /\ tables = {}
    /\ topology = [op \in Declarations |-> {}]
    /\ link = {}
    /\ ready = [q \in AllQueues |-> {}]
    /\ job = [p \in Pod |-> [q \in AllQueues |-> None]]
    /\ done = [q \in AllQueues |-> {}]
    /\ graves = [q \in AllQueues |-> {}]
    /\ rejected = [q \in AllQueues |-> {}]
    /\ sent = {}
    /\ faults = 0

Fault == faults < MaxFaults /\ faults' = faults + 1

PlanOf(p) == Plan[serves[p]]
Up(p) == at[p] > Len(PlanOf(p))
Doing(p, op) == ~Up(p) /\ PlanOf(p)[at[p]].op = op
Object(p) == PlanOf(p)[at[p]].of
Advance(p) == at' = [at EXCEPT ![p] = @ + 1]
Declared(d) == <<d.of, d.key>> \in topology[d.op]

\* Events given back when the channels of these pods close.
Returned(pods, q) == {job[p][q] : p \in pods} \ {None}

\* Mutant: automatic acknowledgement, what a pod worked on is gone with its channel.
ReleaseForgets(pods) ==
    /\ link' = link \ pods
    /\ job' = [p \in Pod |-> IF p \in pods THEN [q \in AllQueues |-> None] ELSE job[p]]
    /\ UNCHANGED <<ready, done, graves, rejected>>

\* Mutant: a handler's answer still counts after its channel has closed.
ReleaseLater(pods) ==
    /\ link' = link \ pods
    /\ UNCHANGED queueVars

Release(pods) ==
    /\ link' = link \ pods
    /\ ready' = [q \in AllQueues |-> ready[q] \cup Returned(pods, q)]
    /\ job' = [p \in Pod |-> IF p \in pods THEN [q \in AllQueues |-> None] ELSE job[p]]
    /\ UNCHANGED <<done, graves, rejected>>

\* log.Fatalf, a signal or a crash; the container starts again.
Exits(p) ==
    /\ at' = [at EXCEPT ![p] = 1]
    /\ missing' = missing \ {p}
    /\ Release({p})
    /\ UNCHANGED <<serves, tables, topology, sent>>
-------------------------------------------------------------------------------
(***************************************************************************)
(* Starting                                                                *)
(***************************************************************************)

\* Mutant: AutoMigrate creates every table it is asked for.
CheckTableNever(p) ==
    /\ Doing(p, "migrate")
    /\ p \notin missing
    /\ missing' = missing \cup {p} /\ UNCHANGED at
    /\ UNCHANGED <<serves, tables, topology, link, queueVars, sent, faults>>

\* AutoMigrate asks for the table first; one that exists it only alters.
CheckTable(p) ==
    /\ Doing(p, "migrate")
    /\ p \notin missing
    /\ IF Object(p) \in tables
         THEN Advance(p) /\ UNCHANGED missing
         ELSE missing' = missing \cup {p} /\ UNCHANGED at
    /\ UNCHANGED <<serves, tables, topology, link, queueVars, sent, faults>>

\* CREATE TABLE, which fails when another pod was faster.
CreateTable(p) ==
    /\ p \in missing
    /\ IF Object(p) \in tables
         THEN Exits(p) /\ UNCHANGED faults
         ELSE /\ tables' = tables \cup {Object(p)}
              /\ missing' = missing \ {p}
              /\ Advance(p)
              /\ UNCHANGED <<serves, topology, link, queueVars, sent, faults>>

PingRedis(p) ==
    /\ Doing(p, "ping")
    /\ Advance(p)
    /\ UNCHANGED <<serves, missing, tables, topology, link, queueVars, sent, faults>>

DialBroker(p) ==
    /\ Doing(p, "dial")
    /\ Advance(p)
    /\ link' = link \cup {p}
    /\ UNCHANGED <<serves, missing, tables, topology, queueVars, sent, faults>>

\* Declaring twice is no error; a binding to something unknown is.
Declare(p) ==
    \E op \in Declarations :
        /\ Doing(p, op)
        /\ LET d == PlanOf(p)[at[p]]
           IN  IF p \in link /\ \A n \in Needs(d) : Declared(n)
                 THEN /\ topology' = [topology EXCEPT ![op] = @ \cup {<<d.of, d.key>>}]
                      /\ Advance(p)
                      /\ UNCHANGED <<serves, missing, tables, link, queueVars, sent, faults>>
                 ELSE Exits(p) /\ UNCHANGED faults

\* Consume fails on a closed channel, and that is fatal.
StartServing(p) ==
    /\ Doing(p, "serve")
    /\ IF QueuesOf(serves[p]) = {} \/ p \in link
         THEN /\ Advance(p)
              /\ UNCHANGED <<serves, missing, tables, topology, link, queueVars, sent, faults>>
         ELSE Exits(p) /\ UNCHANGED faults

Start(p) ==
    CheckTable(p) \/ CreateTable(p) \/ PingRedis(p) \/ DialBroker(p) \/ Declare(p) \/ StartServing(p)
-------------------------------------------------------------------------------
(***************************************************************************)
(* Publishing and consuming                                                *)
(***************************************************************************)

\* The queues of a binding that matches; without one the event is dropped (not
\* mandatory).
Routes(e) == {q \in AllQueues : Declared(Bind(q, KeyOf[e]))}

\* Mutant: the services compete for one copy.
RouteToOne(e) ==
    LET one == CHOOSE q \in AllQueues : Routes(e) # {} => q \in Routes(e)
    IN  ready' = [q \in AllQueues |-> IF q = one /\ q \in Routes(e) THEN ready[q] \cup {e} ELSE ready[q]]

\* A direct exchange copies the event to every queue bound to its key.
Route(e) == ready' = [q \in AllQueues |-> IF q \in Routes(e) THEN ready[q] \cup {e} ELSE ready[q]]

\* On a closed channel Publish fails; publishers ignore the error, or log it. Without
\* publisher confirms an event may also get lost on its way.
Publish(p, e) ==
    /\ Up(p)
    /\ KeyOf[e] \in PublishedBy(serves[p])
    /\ e \notin sent
    /\ sent' = sent \cup {e}
    /\ \/ p \in link /\ Route(e) /\ UNCHANGED faults
       \/ p \notin link /\ UNCHANGED <<ready, faults>>
       \/ p \in link /\ Fault /\ UNCHANGED ready
    /\ UNCHANGED <<serves, startVars, link, job, done, graves, rejected>>

Take(p, q) ==
    /\ Up(p)
    /\ p \in link
    /\ q \in QueuesOf(serves[p])
    /\ job[p][q] = None
    /\ \E e \in ready[q] :
           /\ ready' = [ready EXCEPT ![q] = @ \ {e}]
           /\ job' = [job EXCEPT ![p][q] = e]
    /\ UNCHANGED <<serves, startVars, link, done, graves, rejected, sent, faults>>

\* Mutant: another dead-letter queue has taken over the binding of the key.
GravesOfOthers(q, e) ==
    LET bound == {o \in AllQueues : Declared(BindDlq(o, KeyOf[e]))}
    IN  IF bound = {q} THEN bound ELSE bound \ {q}

\* The dead-letter exchange is shared, and keeps the routing key.
GravesOf(q, e) == {o \in AllQueues : Declared(BindDlq(o, KeyOf[e]))}

Deaths(q, e) == IF e \in graves[q] THEN 1 ELSE 0

\* What the handlers of the other services answer, by their modules.
AnswersOf(svc, q, e) ==
    IF svc = "audit" THEN Answers(KeyOf[e], e \in Malformed[svc], Deaths(q, e))
    ELSE IF e \in Malformed[svc] THEN {"dead"} ELSE {"ack", "requeue"}

Answer(p, q) ==
    LET e == job[p][q]
    IN  /\ e # None
        /\ \E answer \in AnswersOf(serves[p], q, e) :
               /\ ready' = [ready EXCEPT ![q] = @ \cup {x \in {e} : answer = "requeue"}]
               /\ done' = [done EXCEPT ![q] = @ \cup {x \in {e} : answer = "ack"}]
               /\ rejected' = [rejected EXCEPT ![q] = @ \cup {x \in {e} : answer = "dead"}]
               /\ graves' = [o \in AllQueues |->
                      IF answer = "dead" /\ o \in GravesOf(q, e) THEN graves[o] \cup {e} ELSE graves[o]]
        /\ job' = [job EXCEPT ![p][q] = None]
        /\ UNCHANGED <<serves, startVars, link, sent, faults>>
-------------------------------------------------------------------------------
(***************************************************************************)
(* Failures                                                                *)
(***************************************************************************)

\* A pod dies, is stopped, or a call of its start fails.
PodFails(p) == Fault /\ Exits(p)

\* Nobody opens a closed channel again; the pod goes on without it. A handler that
\* runs finishes, but its answer is lost.
ChannelCloses(p) ==
    /\ p \in link
    /\ Fault
    /\ Release({p})
    /\ UNCHANGED <<serves, startVars, sent>>

\* Mutant: the dead-letter queues and their bindings are not durable.
BrokerForgets ==
    /\ Fault
    /\ Release(link)
    /\ topology' = [topology EXCEPT !["dlq"] = {}, !["bind_dlq"] = {}]
    /\ UNCHANGED <<serves, at, missing, tables, sent>>

\* Queues are durable and messages persistent.
BrokerRestarts ==
    /\ Fault
    /\ Release(link)
    /\ UNCHANGED <<serves, startVars, sent>>

Next ==
    \/ \E p \in Pod :
        \/ Start(p) \/ PodFails(p) \/ ChannelCloses(p)
        \/ \E e \in Event : Publish(p, e)
        \/ \E q \in AllQueues : Take(p, q) \/ Answer(p, q)
    \/ BrokerRestarts

Spec == Init /\ [][Next]_vars

\* A start goes on ("restart: unless-stopped", or a Deployment of k8s).
StartSpec == Spec /\ \A p \in Pod : WF_vars(Start(p))

\* The broker delivers, and a handler answers.
FairSpec ==
    /\ StartSpec
    /\ \A p \in Pod, q \in AllQueues : WF_vars(Take(p, q)) /\ WF_vars(Answer(p, q))
-------------------------------------------------------------------------------
(***************************************************************************)
(* Properties                                                              *)
(***************************************************************************)

\* Every variable has its type; a handler works only where there is a channel.
TypeOK ==
    /\ serves \in Deployments
    /\ \A p \in Pod : at[p] \in 1 .. Len(PlanOf(p)) + 1
    /\ missing \subseteq {p \in Pod : Doing(p, "migrate")}
    /\ tables \subseteq AllTables
    /\ topology \in [Declarations -> SUBSET {<<d.of, d.key>> : d \in Steps}]
    /\ link \subseteq Pod
    /\ ready \in [AllQueues -> SUBSET Event]
    /\ job \in [Pod -> [AllQueues -> Event \cup {None}]]
    /\ \A p \in Pod, q \in AllQueues : job[p][q] # None => p \in link /\ q \in QueuesOf(serves[p])
    /\ done \in [AllQueues -> SUBSET Event]
    /\ graves \in [AllQueues -> SUBSET Event]
    /\ rejected \in [AllQueues -> SUBSET Event]
    /\ sent \subseteq Event
    /\ faults \in 0 .. MaxFaults

\* "DLQ first": wherever a start was cut off, and after a restart of the broker, a queue
\* that can receive a message has a dead-letter queue that takes it.
DeadLettersHaveAHome ==
    \A q \in AllQueues : \A key \in KeysOf(q) :
        Declared(Bind(q, key)) => Declared(BindDlq(q, key))

\* The services share a dead-letter exchange: what one gives up is kept for it, but lies
\* in the dead-letter queues of the others too. Nothing else gets there.
DeadLettersAreShared ==
    \A q \in AllQueues :
        /\ rejected[q] \subseteq graves[q]
        /\ \A e \in graves[q] : \E o \in AllQueues : e \in rejected[o] /\ KeyOf[e] \in KeysOf(o)

\* Pods of several services race for tables and topology, and every start may fail half
\* way: each pod comes up in the end.
EveryPodStarts == \A p \in Pod : <>[]Up(p)

InHand(q) == {job[p][q] : p \in Pod} \ {None}
Subscribed ==
    {q \in AllQueues : Declared(Queue(q)) /\ \A key \in KeysOf(q) : Declared(Bind(q, key))}

Bus == INSTANCE Delivery WITH
    Event <- Event,
    Q <- AllQueues,
    Wants <- [q \in AllQueues |-> {e \in Event : KeyOf[e] \in KeysOf(q)}],
    listening <- Subscribed,
    owed <- [q \in AllQueues |-> ready[q] \cup InHand(q)],
    handled <- done,
    buried <- graves

\* Once a service has come up a single time, every event the broker accepts reaches its
\* queues, with the service running or not, and stays there until it is handled or kept
\* as a dead letter.
ImplementsDelivery == Bus!Spec
-------------------------------------------------------------------------------
(***************************************************************************)
(* What comments and documents say and the code does not do.               *)
(***************************************************************************)

\* "consumes all domain events and appends to the audit log": an event in the queue is
\* appended, or given up, in the end.
EveryEventAudited ==
    \A e \in Event : e \in ready["audit_queue"] ~> e \in done["audit_queue"] \cup graves["audit_queue"]
===============================================================================
