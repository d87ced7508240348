------------------------------ MODULE EventBusProofs ------------------------------
(***************************************************************************)
(* The event bus keeps what Delivery promises, for any number of pods,     *)
(* events and failures and whichever services the pods run. Of the plans   *)
(* of the services only PlanAssumption is used.                            *)
(***************************************************************************)
EXTENDS EventBus, TLAPS

(***************************************************************************)
(* Starting: what the broker has been told                                 *)
(***************************************************************************)

StartTypeOK ==
    /\ serves \in Deployments
    /\ at \in [Pod -> Nat \ {0}]
    /\ \A p \in Pod : at[p] \in 1 .. Len(PlanOf(p)) + 1
    /\ missing \subseteq {p \in Pod : Doing(p, "migrate")}
    /\ tables \subseteq AllTables
    /\ topology \in [Declarations -> SUBSET {<<d.of, d.key>> : d \in Steps}]
    /\ link \subseteq Pod
    /\ faults \in 0 .. MaxFaults

\* A start has carried out all declarations of its plan it has come by; none of them is
\* ever undone.
PlansAreKept ==
    \A p \in Pod : \A j \in 1 .. (at[p] - 1) :
        PlanOf(p)[j].op \in Declarations => Declared(PlanOf(p)[j])

BindingsFit ==
    \A q \in AllQueues : \A key \in Key :
        Declared(Bind(q, key)) \/ Declared(BindDlq(q, key)) => key \in KeysOf(q)

StartInv == StartTypeOK /\ PlansAreKept /\ BindingsFit /\ DeadLettersHaveAHome

LEMMA PlanType ==
    ASSUME StartTypeOK, NEW p \in Pod
    PROVE  /\ serves[p] \in Service
           /\ PlanOf(p) \in Seq(Steps) /\ Len(PlanOf(p)) \in Nat
           /\ DOMAIN PlanOf(p) = 1 .. Len(PlanOf(p))
           /\ ~Up(p) => at[p] \in 1 .. Len(PlanOf(p)) /\ PlanOf(p)[at[p]] \in Steps
<1>1. serves[p] \in Service
  BY BusAssumption DEF BusAssumption, StartTypeOK
<1>2. PlanOf(p) \in Seq(Steps)
  BY <1>1, PlanAssumption DEF PlanAssumption, PlanOf
<1>3. ~Up(p) => at[p] \in 1 .. Len(PlanOf(p))
  BY <1>2 DEF Up, StartTypeOK
<1> QED
  BY <1>1, <1>2, <1>3

\* Steps that declare nothing: a pod goes on, or starts again.
LEMMA NothingDeclared ==
    ASSUME StartInv, NEW p \in Pod, UNCHANGED <<serves, topology>>,
           \/ at' = at
           \/ at' = [at EXCEPT ![p] = 1]
           \/ ~Up(p) /\ Advance(p) /\ PlanOf(p)[at[p]].op \notin Declarations,
           missing' \ {p} \subseteq missing, p \in missing' => at' = at /\ Doing(p, "migrate"),
           tables' \subseteq AllTables, link' \subseteq Pod, faults' \in 0 .. MaxFaults
    PROVE  StartInv'
<1>1. \A r \in Pod : Len(PlanOf(r)) \in Nat /\ PlanOf(r)' = PlanOf(r)
  BY PlanType DEF StartInv, PlanOf
<1>2. \A r \in Pod : r # p => at'[r] = at[r]
  BY DEF StartInv, StartTypeOK, Advance
<1>3. at'[p] \in {at[p], 1} \/ (~Up(p) /\ at'[p] = at[p] + 1 /\ PlanOf(p)[at[p]].op \notin Declarations)
  BY DEF StartInv, StartTypeOK, Advance
<1>4. at' \in [Pod -> Nat \ {0}]
  BY DEF StartInv, StartTypeOK, Advance
<1>5. \A r \in Pod : at'[r] \in 1 .. Len(PlanOf(r)) + 1
  <2>1. at'[p] \in 1 .. Len(PlanOf(p)) + 1
    BY <1>1, <1>3, PlanType DEF StartInv, StartTypeOK
  <2> QED
    BY <1>2, <2>1 DEF StartInv, StartTypeOK
<1>6. missing' \subseteq {r \in Pod : Doing(r, "migrate")'}
  BY <1>1, <1>2 DEF StartInv, StartTypeOK, Doing, Up
<1>7. StartTypeOK'
  BY <1>1, <1>4, <1>5, <1>6 DEF StartInv, StartTypeOK
<1>8. PlansAreKept'
  <2> SUFFICES ASSUME NEW r \in Pod, NEW j \in 1 .. (at'[r] - 1), PlanOf(r)[j].op \in Declarations
               PROVE  Declared(PlanOf(r)[j])
    BY <1>1 DEF PlansAreKept, Declared
  <2>1. at[r] \in Nat \ {0}
    BY DEF StartInv, StartTypeOK
  <2>2. j \in 1 .. (at[r] - 1)
    BY <1>2, <1>3, <2>1
  <2> QED
    BY <2>2 DEF StartInv, PlansAreKept
<1>9. BindingsFit' /\ DeadLettersHaveAHome'
  BY DEF StartInv, BindingsFit, DeadLettersHaveAHome, Declared
<1> QED
  BY <1>7, <1>8, <1>9 DEF StartInv

\* The step a declaration makes, when it succeeds.
Declares(p) ==
    /\ ~Up(p) /\ PlanOf(p)[at[p]].op \in Declarations
    /\ topology' = [topology EXCEPT ![PlanOf(p)[at[p]].op] =
                        @ \cup {<<PlanOf(p)[at[p]].of, PlanOf(p)[at[p]].key>>}]
    /\ Advance(p)
    /\ UNCHANGED <<serves, missing, tables, link, queueVars, sent, faults>>

LEMMA DeclaresKeepStart ==
    ASSUME StartInv, NEW p \in Pod, Declares(p)
    PROVE  StartInv' /\ \A op \in Declarations : topology[op] \subseteq topology'[op]
<1> DEFINE d == PlanOf(p)[at[p]]
<1>1. /\ serves[p] \in Service /\ PlanOf(p) = Plan[serves[p]]
      /\ at[p] \in DOMAIN Plan[serves[p]] /\ at[p] \in 1 .. Len(PlanOf(p)) /\ d \in Steps
      /\ d.op \in Declarations
  BY PlanType DEF StartInv, Declares, PlanOf
<1>2. \A r \in Pod : Len(PlanOf(r)) \in Nat /\ PlanOf(r)' = PlanOf(r)
  BY PlanType DEF StartInv, PlanOf, Declares
<1>3. /\ \A r \in Pod : r # p => at'[r] = at[r]
      /\ at'[p] = at[p] + 1 /\ at' \in [Pod -> Nat \ {0}]
  BY DEF StartInv, StartTypeOK, Declares, Advance
<1>4. \A op \in Declarations :
          topology'[op] = IF op = d.op THEN topology[op] \cup {<<d.of, d.key>>} ELSE topology[op]
  BY DEF StartInv, StartTypeOK, Declares
<1>5. topology' \in [Declarations -> SUBSET {<<x.of, x.key>> : x \in Steps}]
  BY <1>1 DEF StartInv, StartTypeOK, Declares
<1>6. StartTypeOK'
  <2>1. \A r \in Pod : at'[r] \in 1 .. Len(PlanOf(r)) + 1
    <3>1. at'[p] \in 1 .. Len(PlanOf(p)) + 1
      BY <1>1, <1>2, <1>3
    <3> QED
      BY <1>3, <3>1 DEF StartInv, StartTypeOK
  <2>2. \A r \in Pod : Doing(r, "migrate") => r # p
    <3>1. "migrate" \notin Declarations
      BY DEF Declarations
    <3> QED
      BY <1>1, <3>1 DEF Doing
  <2>3. missing' \subseteq {r \in Pod : Doing(r, "migrate")'}
    BY <1>2, <1>3, <2>2 DEF StartInv, StartTypeOK, Declares, Doing, Up
  <2> QED
    BY <1>2, <1>3, <1>5, <2>1, <2>3 DEF StartInv, StartTypeOK, Declares
<1>7. PlansAreKept'
  <2> SUFFICES ASSUME NEW r \in Pod, NEW j \in 1 .. (at'[r] - 1), PlanOf(r)[j].op \in Declarations
               PROVE  Declared(PlanOf(r)[j])'
    BY <1>2 DEF PlansAreKept, Declared
  <2>1. at[r] \in Nat \ {0}
    BY DEF StartInv, StartTypeOK
  <2>2. j \in 1 .. (at[r] - 1) \/ (r = p /\ j = at[p])
    BY <1>3, <2>1
  <2>3. PlanOf(r)' = PlanOf(r)
    BY <1>2
  <2>4. CASE j \in 1 .. (at[r] - 1)
    BY <1>4, <2>3, <2>4 DEF StartInv, PlansAreKept, Declared
  <2>5. CASE r = p /\ j = at[p]
    BY <1>1, <1>4, <2>3, <2>5 DEF Declared
  <2> QED
    BY <2>2, <2>4, <2>5
<1>8. BindingsFit'
  <2> SUFFICES ASSUME NEW q \in AllQueues, NEW key \in Key,
                      <<q, key>> \in topology'["bind"] \/ <<q, key>> \in topology'["bind_dlq"]
               PROVE  key \in KeysOf(q)
    BY DEF BindingsFit, Declared, Bind, BindDlq, Step
  <2>1. CASE <<q, key>> \in topology["bind"] \/ <<q, key>> \in topology["bind_dlq"]
    BY <2>1 DEF StartInv, BindingsFit, Declared, Bind, BindDlq, Step
  <2>2. CASE d.op \in {"bind", "bind_dlq"} /\ d.of = q /\ d.key = key
    BY <1>1, <2>2, PlanAssumption DEF PlanAssumption
  <2> QED
    BY <1>4, <2>1, <2>2 DEF Declarations
<1>9. DeadLettersHaveAHome'
  <2> SUFFICES ASSUME NEW q \in AllQueues, NEW key \in KeysOf(q), <<q, key>> \in topology'["bind"]
               PROVE  <<q, key>> \in topology'["bind_dlq"]
    BY DEF DeadLettersHaveAHome, Declared, Bind, BindDlq, Step
  <2>1. CASE <<q, key>> \in topology["bind"]
    BY <1>4, <2>1 DEF StartInv, DeadLettersHaveAHome, Declared, Bind, BindDlq, Step, Declarations
  <2>2. CASE d.op = "bind" /\ d.of = q /\ d.key = key
    <3>1. PICK j \in 1 .. (at[p] - 1) : PlanOf(p)[j] = BindDlq(q, key)
      BY <1>1, <2>2, PlanAssumption DEF PlanAssumption
    <3>2. Declared(BindDlq(q, key))
      BY <3>1 DEF StartInv, PlansAreKept, BindDlq, Step, Declarations
    <3> QED
      BY <1>4, <3>2 DEF Declared, BindDlq, Step, Declarations
  <2> QED
    BY <1>4, <2>1, <2>2 DEF Declarations
<1> QED
  BY <1>4, <1>6, <1>7, <1>8, <1>9 DEF StartInv

\* What a step of a start does to the queues: nothing, or it gives back what a channel held.
LEMMA StepsOfAStart ==
    ASSUME StartInv, NEW p \in Pod, Start(p)
    PROVE  /\ StartInv'
           /\ UNCHANGED <<serves, sent>>
           /\ \/ UNCHANGED queueVars /\ link \subseteq link'
              \/ Release({p})
           /\ \A op \in Declarations : topology[op] \subseteq topology'[op]
           /\ UNCHANGED topology \/ Declares(p)
<1> DEFINE Result ==
        /\ StartInv' /\ UNCHANGED <<serves, sent>>
        /\ (UNCHANGED queueVars /\ link \subseteq link') \/ Release({p})
        /\ \A op \in Declarations : topology[op] \subseteq topology'[op]
        /\ UNCHANGED topology \/ Declares(p)
<1>1. "migrate" \notin Declarations /\ "ping" \notin Declarations
      /\ "dial" \notin Declarations /\ "serve" \notin Declarations
  BY DEF Declarations
<1>2. missing \subseteq {r \in Pod : Doing(r, "migrate")} /\ tables \subseteq AllTables
      /\ link \subseteq Pod /\ faults \in 0 .. MaxFaults
  BY DEF StartInv, StartTypeOK
<1>3. ASSUME Exits(p), faults' = faults PROVE Result
  <2>1. StartInv'
    BY <1>2, <1>3, NothingDeclared DEF Exits, Release
  <2> QED
    BY <1>3, <2>1 DEF Exits
<1>4. ASSUME CheckTable(p) PROVE Result
  <2>1. StartInv'
    BY <1>1, <1>2, <1>4, NothingDeclared DEF CheckTable, Doing
  <2> QED
    BY <1>4, <2>1 DEF CheckTable
<1>5. ASSUME CreateTable(p) PROVE Result
  <2>1. CASE Object(p) \in tables
    BY <1>3, <1>5, <2>1 DEF CreateTable
  <2>2. CASE Object(p) \notin tables
    <3>1. Doing(p, "migrate")
      BY <1>2, <1>5 DEF CreateTable
    <3>2. Object(p) \in AllTables
      BY <3>1, PlanType DEF StartInv, Doing, Object, AllTables
    <3>3. /\ Advance(p) /\ missing' = missing \ {p} /\ tables' = tables \cup {Object(p)}
          /\ UNCHANGED <<serves, topology, link, queueVars, sent, faults>>
      BY <1>5, <2>2 DEF CreateTable
    <3>4. StartInv'
      BY <1>1, <1>2, <3>1, <3>2, <3>3, NothingDeclared DEF Doing
    <3> QED
      BY <3>3, <3>4
  <2> QED
    BY <2>1, <2>2
<1>6. ASSUME PingRedis(p) PROVE Result
  <2>1. StartInv'
    <3>1. p \notin missing
      BY <1>2, <1>6 DEF PingRedis, Doing
    <3> QED
      BY <1>1, <1>2, <1>6, <3>1, NothingDeclared DEF PingRedis, Doing
  <2> QED
    BY <1>6, <2>1 DEF PingRedis
<1>7. ASSUME DialBroker(p) PROVE Result
  <2>1. StartInv'
    <3>1. p \notin missing
      BY <1>2, <1>7 DEF DialBroker, Doing
    <3> QED
      BY <1>1, <1>2, <1>7, <3>1, NothingDeclared DEF DialBroker, Doing
  <2> QED
    BY <1>7, <2>1 DEF DialBroker
<1>8. ASSUME Declare(p) PROVE Result
  <2>1. Declares(p) \/ (Exits(p) /\ faults' = faults)
    BY <1>8 DEF Declare, Declares, Doing
  <2>2. CASE Declares(p)
    BY <2>2, DeclaresKeepStart DEF Declares
  <2> QED
    BY <1>3, <2>1, <2>2
<1>9. ASSUME StartServing(p) PROVE Result
  <2>1. CASE Exits(p) /\ faults' = faults
    BY <1>3, <2>1
  <2>2. CASE Advance(p) /\ UNCHANGED <<serves, missing, tables, topology, link, queueVars, sent, faults>>
    <3>1. p \notin missing
      BY <1>2, <1>9 DEF StartServing, Doing
    <3>2. StartInv'
      BY <1>1, <1>2, <1>9, <2>2, <3>1, NothingDeclared DEF StartServing, Doing
    <3> QED
      BY <2>2, <3>2
  <2> QED
    BY <1>9, <2>1, <2>2 DEF StartServing
<1> QED
  BY <1>4, <1>5, <1>6, <1>7, <1>8, <1>9 DEF Start

\* The failures of pods, channels and the broker undo no declaration.
LEMMA FailuresKeepStart ==
    ASSUME StartInv
    PROVE  /\ \A p \in Pod : PodFails(p) \/ ChannelCloses(p) => StartInv'
           /\ BrokerRestarts => StartInv'
<1>1. missing \subseteq {r \in Pod : Doing(r, "migrate")} /\ tables \subseteq AllTables
      /\ link \subseteq Pod
  BY DEF StartInv, StartTypeOK
<1>2. Fault => faults' \in 0 .. MaxFaults
  BY BusAssumption DEF BusAssumption, Fault, StartInv, StartTypeOK
<1>3. ASSUME NEW p \in Pod, PodFails(p) PROVE StartInv'
  BY <1>1, <1>2, <1>3, NothingDeclared DEF PodFails, Exits, Release
<1>4. ASSUME UNCHANGED <<serves, startVars>>, link' \subseteq link, faults' \in 0 .. MaxFaults
      PROVE  StartInv'
  BY <1>1, <1>4 DEF startVars, StartInv, StartTypeOK, PlansAreKept, BindingsFit,
     DeadLettersHaveAHome, Declared, PlanOf, Doing, Up
<1>5. ASSUME NEW p \in Pod, ChannelCloses(p) PROVE StartInv'
  BY <1>2, <1>4, <1>5 DEF ChannelCloses, Release
<1>6. ASSUME BrokerRestarts PROVE StartInv'
  BY <1>2, <1>4, <1>6 DEF BrokerRestarts, Release
<1> QED
  BY <1>3, <1>5, <1>6
-------------------------------------------------------------------------------
(***************************************************************************)
(* The queues                                                              *)
(***************************************************************************)

QueueTypeOK ==
    /\ ready \in [AllQueues -> SUBSET Event]
    /\ job \in [Pod -> [AllQueues -> Event \cup {None}]]
    /\ \A p \in Pod, q \in AllQueues : job[p][q] # None => p \in link /\ q \in QueuesOf(serves[p])
    /\ done \in [AllQueues -> SUBSET Event]
    /\ graves \in [AllQueues -> SUBSET Event]
    /\ rejected \in [AllQueues -> SUBSET Event]
    /\ sent \subseteq Event

Owed(q) == ready[q] \cup InHand(q)

\* What a queue has to handle it is bound to, and was published.
OwedByBinding ==
    \A q \in AllQueues :
        /\ \A e \in Owed(q) : Declared(Bind(q, KeyOf[e]))
        /\ Owed(q) \cup done[q] \cup graves[q] \subseteq sent

\* An event is in the hands of one pod, or waits.
OneCopy ==
    \A q \in AllQueues : \A p \in Pod :
        job[p][q] # None =>
            /\ job[p][q] \notin ready[q]
            /\ \A r \in Pod : job[r][q] = job[p][q] => r = p

QueueInv == QueueTypeOK /\ OwedByBinding /\ OneCopy /\ DeadLettersAreShared

\* Bindings that are added, and channels that open, change nothing for the queues.
LEMMA QueuesAlone ==
    ASSUME QueueInv, UNCHANGED <<serves, queueVars, sent>>, link \subseteq link',
           \A op \in Declarations : topology[op] \subseteq topology'[op]
    PROVE  QueueInv'
<1>1. QueueTypeOK'
  BY DEF QueueInv, QueueTypeOK, queueVars
<1>2. OwedByBinding'
  BY DEF QueueInv, OwedByBinding, Owed, InHand, queueVars, Declared, Bind, Step, Declarations
<1>3. OneCopy' /\ DeadLettersAreShared'
  BY DEF QueueInv, OneCopy, DeadLettersAreShared, queueVars
<1> QED
  BY <1>1, <1>2, <1>3 DEF QueueInv

\* What a closed channel held goes back: the queues owe what they owed.
LEMMA ReleaseKeepsQueues ==
    ASSUME QueueInv, NEW pods \in SUBSET Pod, Release(pods), UNCHANGED <<serves, sent>>,
           \A op \in Declarations : topology[op] \subseteq topology'[op]
    PROVE  /\ QueueInv'
           /\ \A q \in AllQueues : Owed(q)' = Owed(q)
           /\ UNCHANGED <<done, graves>>
<1>1. /\ link' = link \ pods /\ UNCHANGED <<done, graves, rejected>>
      /\ \A q \in AllQueues : ready'[q] = ready[q] \cup Returned(pods, q)
      /\ \A p \in Pod, q \in AllQueues : job'[p][q] = IF p \in pods THEN None ELSE job[p][q]
  BY DEF Release
<1>2. \A q \in AllQueues : Returned(pods, q) \subseteq Event
  BY DEF Returned, QueueInv, QueueTypeOK
<1>3. QueueTypeOK'
  <2>1. ready' \in [AllQueues -> SUBSET Event]
    BY <1>2 DEF Release, QueueInv, QueueTypeOK
  <2>2. job' \in [Pod -> [AllQueues -> Event \cup {None}]]
    BY DEF Release, QueueInv, QueueTypeOK
  <2>3. \A p \in Pod, q \in AllQueues :
            job'[p][q] # None => p \in link' /\ q \in QueuesOf(serves'[p])
    BY <1>1 DEF QueueInv, QueueTypeOK
  <2> QED
    BY <1>1, <2>1, <2>2, <2>3 DEF QueueInv, QueueTypeOK
<1>4. \A q \in AllQueues : Owed(q)' = Owed(q)
  <2> SUFFICES ASSUME NEW q \in AllQueues PROVE Owed(q)' = Owed(q)
    OBVIOUS
  <2>1. InHand(q)' = {job[p][q] : p \in Pod \ pods} \ {None}
    BY <1>1 DEF InHand
  <2> QED
    BY <1>1, <2>1 DEF Owed, InHand, Returned
<1>5. OwedByBinding'
  BY <1>1, <1>4 DEF QueueInv, OwedByBinding, Declared, Bind, Step, Declarations
<1>6. OneCopy'
  <2> SUFFICES ASSUME NEW q \in AllQueues, NEW p \in Pod, job'[p][q] # None
               PROVE  /\ job'[p][q] \notin ready'[q]
                      /\ \A r \in Pod : job'[r][q] = job'[p][q] => r = p
    BY DEF OneCopy
  <2>1. p \notin pods /\ job'[p][q] = job[p][q]
    BY <1>1
  <2>2. job[p][q] \notin ready[q] /\ \A r \in Pod : job[r][q] = job[p][q] => r = p
    BY <1>1, <2>1 DEF QueueInv, OneCopy
  <2>3. job[p][q] \notin Returned(pods, q)
    BY <2>1, <2>2 DEF Returned
  <2> QED
    BY <1>1, <2>1, <2>2, <2>3
<1>7. DeadLettersAreShared'
  BY <1>1 DEF QueueInv, DeadLettersAreShared
<1> QED
  BY <1>1, <1>3, <1>4, <1>5, <1>6, <1>7 DEF QueueInv

LEMMA PublishKeepsQueues ==
    ASSUME StartInv, QueueInv, NEW p \in Pod, NEW e \in Event, Publish(p, e)
    PROVE  /\ QueueInv'
           /\ \/ \A q \in AllQueues :
                     Owed(q)' = IF q \in Routes(e) THEN Owed(q) \cup {e} ELSE Owed(q)
              \/ \A q \in AllQueues : Owed(q)' = Owed(q)
           /\ e \notin sent
<1>1. /\ e \notin sent /\ sent' = sent \cup {e}
      /\ UNCHANGED <<serves, topology, link, job, done, graves, rejected>>
      /\ Route(e) \/ UNCHANGED ready
  BY DEF Publish, startVars
<1>2. /\ ready' \in [AllQueues -> SUBSET Event]
      /\ \/ \A q \in AllQueues : ready'[q] = IF q \in Routes(e) THEN ready[q] \cup {e} ELSE ready[q]
         \/ \A q \in AllQueues : ready'[q] = ready[q]
  BY <1>1 DEF Route, QueueInv, QueueTypeOK
<1>3. \A q \in AllQueues : InHand(q)' = InHand(q) /\ e \notin InHand(q)
  BY <1>1 DEF InHand, QueueInv, OwedByBinding, Owed
<1>4. QueueTypeOK'
  BY <1>1, <1>2 DEF QueueInv, QueueTypeOK
<1>5. \/ \A q \in AllQueues :
             Owed(q)' = IF q \in Routes(e) THEN Owed(q) \cup {e} ELSE Owed(q)
      \/ \A q \in AllQueues : Owed(q)' = Owed(q)
  BY <1>2, <1>3 DEF Owed
<1>6. OwedByBinding'
  BY <1>1, <1>5 DEF QueueInv, OwedByBinding, Declared, Routes
<1>7. OneCopy'
  <2> SUFFICES ASSUME NEW q \in AllQueues, NEW r \in Pod, job[r][q] # None
               PROVE  job[r][q] \notin ready'[q]
    BY <1>1 DEF QueueInv, OneCopy
  <2>1. job[r][q] \notin ready[q] /\ job[r][q] # e
    BY <1>3 DEF QueueInv, OneCopy, InHand
  <2> QED
    BY <1>2, <2>1
<1>8. DeadLettersAreShared'
  BY <1>1 DEF QueueInv, DeadLettersAreShared
<1> QED
  BY <1>1, <1>4, <1>5, <1>6, <1>7, <1>8 DEF QueueInv

LEMMA TakeKeepsQueues ==
    ASSUME QueueInv, NEW p \in Pod, NEW q \in AllQueues, Take(p, q)
    PROVE  /\ QueueInv'
           /\ \A o \in AllQueues : Owed(o)' = Owed(o)
<1> PICK e \in ready[q] :
        /\ ready' = [ready EXCEPT ![q] = @ \ {e}]
        /\ job' = [job EXCEPT ![p][q] = e]
  BY DEF Take
<1>1. /\ UNCHANGED <<serves, topology, link, done, graves, rejected, sent>>
      /\ job[p][q] = None /\ p \in link /\ q \in QueuesOf(serves[p])
  BY DEF Take, startVars
<1>2. e \in Event /\ e # None
  BY BusAssumption DEF BusAssumption, QueueInv, QueueTypeOK
<1>3. /\ \A o \in AllQueues : ready'[o] = IF o = q THEN ready[q] \ {e} ELSE ready[o]
      /\ \A r \in Pod, o \in AllQueues :
             job'[r][o] = IF r = p /\ o = q THEN e ELSE job[r][o]
  BY DEF QueueInv, QueueTypeOK
<1>4. QueueTypeOK'
  <2>1. ready' \in [AllQueues -> SUBSET Event] /\ job' \in [Pod -> [AllQueues -> Event \cup {None}]]
    BY <1>2 DEF QueueInv, QueueTypeOK
  <2> QED
    BY <1>1, <1>3, <2>1 DEF QueueInv, QueueTypeOK
<1>5. \A o \in AllQueues : InHand(o)' = IF o = q THEN InHand(q) \cup {e} ELSE InHand(o)
  BY <1>1, <1>2, <1>3 DEF InHand
<1>6. \A o \in AllQueues : Owed(o)' = Owed(o)
  BY <1>3, <1>5 DEF Owed
<1>7. OwedByBinding'
  BY <1>1, <1>6 DEF QueueInv, OwedByBinding, Declared
<1>8. OneCopy'
  <2> SUFFICES ASSUME NEW o \in AllQueues, NEW r \in Pod, job'[r][o] # None
               PROVE  /\ job'[r][o] \notin ready'[o]
                      /\ \A x \in Pod : job'[x][o] = job'[r][o] => x = r
    BY DEF OneCopy
  <2>1. CASE r = p /\ o = q
    BY <1>2, <1>3, <2>1 DEF QueueInv, OneCopy
  <2>2. CASE ~(r = p /\ o = q)
    BY <1>3, <2>2 DEF QueueInv, OneCopy
  <2> QED
    BY <2>1, <2>2
<1>9. DeadLettersAreShared'
  BY <1>1 DEF QueueInv, DeadLettersAreShared
<1> QED
  BY <1>4, <1>6, <1>7, <1>8, <1>9 DEF QueueInv

\* What a handler's answer does to the debts of its queue.
LEMMA AnswerKeepsQueues ==
    ASSUME StartInv, QueueInv, NEW p \in Pod, NEW q \in AllQueues, Answer(p, q)
    PROVE  LET e == job[p][q]
           IN  /\ QueueInv'
               /\ e \in Owed(q) /\ e \in Event
               /\ \/ /\ \A o \in AllQueues : Owed(o)' = Owed(o)
                     /\ UNCHANGED <<done, graves>>
                  \/ /\ \A o \in AllQueues : Owed(o)' = IF o = q THEN Owed(q) \ {e} ELSE Owed(o)
                     /\ done' = [done EXCEPT ![q] = @ \cup {e}] /\ UNCHANGED graves
                  \/ /\ \A o \in AllQueues : Owed(o)' = IF o = q THEN Owed(q) \ {e} ELSE Owed(o)
                     /\ UNCHANGED done
                     /\ graves' = [o \in AllQueues |->
                                      IF o \in GravesOf(q, e) THEN graves[o] \cup {e} ELSE graves[o]]
                     /\ q \in GravesOf(q, e)
<1> DEFINE e == job[p][q]
<1>1. PICK answer \in AnswersOf(serves[p], q, e) :
          /\ ready' = [ready EXCEPT ![q] = @ \cup {x \in {e} : answer = "requeue"}]
          /\ done' = [done EXCEPT ![q] = @ \cup {x \in {e} : answer = "ack"}]
          /\ rejected' = [rejected EXCEPT ![q] = @ \cup {x \in {e} : answer = "dead"}]
          /\ graves' = [o \in AllQueues |->
                 IF answer = "dead" /\ o \in GravesOf(q, e) THEN graves[o] \cup {e} ELSE graves[o]]
  BY DEF Answer
<1>2. answer \in {"ack", "requeue", "dead"}
  BY DEF AnswersOf, Answers, FailureVerdict
<1>3. /\ UNCHANGED <<serves, topology, link, sent>> /\ e # None
      /\ job' = [job EXCEPT ![p][q] = None]
  BY DEF Answer, startVars
<1>4. /\ e \in Event /\ e \in InHand(q) /\ e \in Owed(q) /\ e \in sent /\ e \notin ready[q]
      /\ Declared(Bind(q, KeyOf[e]))
  BY <1>3 DEF QueueInv, QueueTypeOK, InHand, Owed, OwedByBinding, OneCopy
<1>5. KeyOf[e] \in KeysOf(q) /\ q \in GravesOf(q, e)
  BY <1>4, BusAssumption DEF BusAssumption, StartInv, BindingsFit, DeadLettersHaveAHome, GravesOf
<1>6. /\ \A r \in Pod, o \in AllQueues : job'[r][o] = IF r = p /\ o = q THEN None ELSE job[r][o]
      /\ \A o \in AllQueues :
             ready'[o] = IF o = q /\ answer = "requeue" THEN ready[q] \cup {e} ELSE ready[o]
      /\ \A o \in AllQueues :
             done'[o] = IF o = q /\ answer = "ack" THEN done[q] \cup {e} ELSE done[o]
      /\ \A o \in AllQueues :
             rejected'[o] = IF o = q /\ answer = "dead" THEN rejected[q] \cup {e} ELSE rejected[o]
      /\ \A o \in AllQueues :
             graves'[o] = IF answer = "dead" /\ o \in GravesOf(q, e) THEN graves[o] \cup {e} ELSE graves[o]
  BY <1>1, <1>3 DEF QueueInv, QueueTypeOK
<1>7. QueueTypeOK'
  <2>1. /\ ready' \in [AllQueues -> SUBSET Event] /\ done' \in [AllQueues -> SUBSET Event]
        /\ rejected' \in [AllQueues -> SUBSET Event] /\ graves' \in [AllQueues -> SUBSET Event]
    BY <1>1, <1>4 DEF QueueInv, QueueTypeOK
  <2>2. job' \in [Pod -> [AllQueues -> Event \cup {None}]]
    BY <1>3 DEF QueueInv, QueueTypeOK
  <2> QED
    BY <1>3, <1>6, <2>1, <2>2 DEF QueueInv, QueueTypeOK
<1>8. \A o \in AllQueues : InHand(o)' = IF o = q THEN InHand(q) \ {e} ELSE InHand(o)
  <2>1. \A o \in AllQueues : o # q => InHand(o)' = InHand(o)
    BY <1>6 DEF InHand
  <2>2. \A r \in Pod : job[r][q] = e => r = p
    BY <1>3 DEF QueueInv, OneCopy
  <2>3. InHand(q)' = InHand(q) \ {e}
    BY <1>3, <1>6, <2>2 DEF InHand
  <2> QED
    BY <2>1, <2>3
<1>9. \A o \in AllQueues :
          Owed(o)' = IF o = q /\ answer # "requeue" THEN Owed(q) \ {e} ELSE Owed(o)
  BY <1>4, <1>6, <1>8 DEF Owed
<1>10. OwedByBinding'
  <2> SUFFICES ASSUME NEW o \in AllQueues
               PROVE  /\ \A x \in Owed(o)' : Declared(Bind(o, KeyOf[x]))
                      /\ Owed(o)' \cup done'[o] \cup graves'[o] \subseteq sent
    BY <1>3 DEF OwedByBinding, Declared
  <2>1. Owed(o)' \subseteq Owed(o)
    BY <1>9
  <2>2. done'[o] \subseteq done[o] \cup {e} /\ graves'[o] \subseteq graves[o] \cup {e}
    BY <1>6
  <2> QED
    BY <1>4, <2>1, <2>2 DEF QueueInv, OwedByBinding
<1>11. OneCopy'
  <2> SUFFICES ASSUME NEW o \in AllQueues, NEW r \in Pod, job'[r][o] # None
               PROVE  /\ job'[r][o] \notin ready'[o]
                      /\ \A x \in Pod : job'[x][o] = job'[r][o] => x = r
    BY DEF OneCopy
  <2>1. /\ job'[r][o] = job[r][o] /\ job[r][o] # None
        /\ job[r][o] \notin ready[o] /\ \A x \in Pod : job[x][o] = job[r][o] => x = r
    BY <1>6 DEF QueueInv, OneCopy
  <2>2. o = q => job[r][o] # e
    BY <1>6, <2>1
  <2> QED
    BY <1>6, <2>1, <2>2
<1>12. DeadLettersAreShared'
  <2>1. \A o \in AllQueues : rejected'[o] \subseteq graves'[o]
    BY <1>5, <1>6 DEF QueueInv, DeadLettersAreShared
  <2>2. ASSUME NEW o \in AllQueues, NEW x \in graves'[o]
        PROVE  \E b \in AllQueues : x \in rejected'[b] /\ KeyOf[x] \in KeysOf(b)
    <3>1. CASE x \in graves[o]
      BY <1>6, <3>1 DEF QueueInv, DeadLettersAreShared
    <3>2. CASE answer = "dead" /\ x = e
      BY <1>5, <1>6, <3>2
    <3> QED
      BY <1>6, <3>1, <3>2
  <2> QED
    BY <2>1, <2>2 DEF DeadLettersAreShared
<1>13. QueueInv'
  BY <1>7, <1>10, <1>11, <1>12 DEF QueueInv
<1>14. CASE answer = "requeue"
  <2>1. UNCHANGED <<done, graves>>
    BY <1>1, <1>14 DEF QueueInv, QueueTypeOK
  <2> QED
    BY <1>4, <1>9, <1>13, <1>14, <2>1
<1>15. CASE answer = "ack"
  <2>1. {x \in {e} : answer = "ack"} = {e}
    BY <1>15
  <2>2. done' = [done EXCEPT ![q] = @ \cup {e}] /\ UNCHANGED graves
    BY <1>1, <1>15, <2>1 DEF QueueInv, QueueTypeOK
  <2> QED
    BY <1>4, <1>9, <1>13, <1>15, <2>2
<1>16. CASE answer = "dead"
  <2>1. UNCHANGED done
    BY <1>1, <1>16 DEF QueueInv, QueueTypeOK
  <2>2. graves' = [o \in AllQueues |->
                      IF o \in GravesOf(q, e) THEN graves[o] \cup {e} ELSE graves[o]]
    BY <1>1, <1>16
  <2> QED
    BY <1>4, <1>5, <1>9, <1>13, <1>16, <2>1, <2>2
<1> QED
  BY <1>2, <1>14, <1>15, <1>16

BusInv == StartInv /\ QueueInv

\* A step is one of these; with what the lemmas say of it.
LEMMA BusInductive ==
    ASSUME BusInv, [Next]_vars
    PROVE  BusInv'
<1>1. CASE UNCHANGED vars
  <2>1. StartInv'
    BY <1>1 DEF vars, startVars, BusInv, StartInv, StartTypeOK, PlansAreKept, BindingsFit,
       DeadLettersHaveAHome, Declared, PlanOf, Doing, Up
  <2>2. QueueInv'
    BY <1>1, QueuesAlone DEF vars, startVars, BusInv
  <2> QED
    BY <2>1, <2>2 DEF BusInv
<1>2. ASSUME NEW p \in Pod, Start(p) PROVE BusInv'
  BY <1>2, StepsOfAStart, QueuesAlone, ReleaseKeepsQueues DEF BusInv
<1>3. ASSUME UNCHANGED <<serves, startVars, link>>, faults' \in 0 .. MaxFaults PROVE StartInv'
  BY <1>3 DEF BusInv, startVars, StartInv, StartTypeOK, PlansAreKept, BindingsFit,
     DeadLettersHaveAHome, Declared, PlanOf, Doing, Up
<1>4. faults \in 0 .. MaxFaults /\ (Fault => faults' \in 0 .. MaxFaults)
  BY BusAssumption DEF BusAssumption, BusInv, StartInv, StartTypeOK, Fault
<1>5. ASSUME NEW p \in Pod, NEW e \in Event, Publish(p, e) PROVE BusInv'
  <2>1. StartInv'
    BY <1>3, <1>4, <1>5 DEF Publish
  <2> QED
    BY <1>5, <2>1, PublishKeepsQueues DEF BusInv
<1>6. ASSUME NEW p \in Pod, NEW q \in AllQueues, Take(p, q) PROVE BusInv'
  <2>1. StartInv'
    BY <1>3, <1>4, <1>6 DEF Take
  <2> QED
    BY <1>6, <2>1, TakeKeepsQueues DEF BusInv
<1>7. ASSUME NEW p \in Pod, NEW q \in AllQueues, Answer(p, q) PROVE BusInv'
  <2>1. StartInv'
    BY <1>3, <1>4, <1>7 DEF Answer
  <2> QED
    BY <1>7, <2>1, AnswerKeepsQueues DEF BusInv
<1>8. ASSUME NEW pods \in SUBSET Pod, Release(pods), UNCHANGED <<serves, topology, sent>>, StartInv'
      PROVE  BusInv'
  BY <1>8, ReleaseKeepsQueues DEF BusInv
<1>9. ASSUME NEW p \in Pod, PodFails(p) \/ ChannelCloses(p) PROVE BusInv'
  BY <1>8, <1>9, FailuresKeepStart DEF BusInv, PodFails, ChannelCloses, Exits, startVars
<1>10. ASSUME BrokerRestarts PROVE BusInv'
  <2>1. link \in SUBSET Pod
    BY DEF BusInv, StartInv, StartTypeOK
  <2> QED
    BY <1>8, <1>10, <2>1, FailuresKeepStart DEF BusInv, BrokerRestarts, startVars
<1> QED
  BY <1>1, <1>2, <1>5, <1>6, <1>7, <1>9, <1>10 DEF Next

LEMMA BusStart == Init => BusInv
<1> SUFFICES ASSUME Init PROVE BusInv
  OBVIOUS
<1>1. \A p \in Pod : Len(PlanOf(p)) \in Nat
  BY BusAssumption, PlanAssumption DEF BusAssumption, PlanAssumption, PlanOf, Init
<1>2. StartInv
  BY <1>1, BusAssumption
  DEF BusAssumption, Init, StartInv, StartTypeOK, PlansAreKept, BindingsFit, DeadLettersHaveAHome,
      Declared, Bind, BindDlq, Step, Declarations
<1>3. QueueInv
  BY DEF Init, QueueInv, QueueTypeOK, OwedByBinding, Owed, InHand, OneCopy, DeadLettersAreShared
<1> QED
  BY <1>2, <1>3 DEF BusInv

LEMMA BusInvHolds == Spec => []BusInv
  BY BusStart, BusInductive, PTL DEF Spec

\* Every variable of the bus keeps its type; handlers work only behind an open channel.
THEOREM BusTypeOK == Spec => []TypeOK
<1>1. BusInv => TypeOK
  BY DEF BusInv, StartInv, StartTypeOK, QueueInv, QueueTypeOK, TypeOK
<1> QED
  BY <1>1, BusInvHolds, PTL

\* Wherever starts are cut off, channels close or the broker restarts: a queue that is
\* bound to a key has a dead-letter queue bound to the same key.
THEOREM DeadLettersAreNeverLost == Spec => []DeadLettersHaveAHome
  BY BusInvHolds, PTL DEF BusInv, StartInv

\* What a consumer gives up is in the dead-letter queue of its own queue, and in a
\* dead-letter queue lies nothing that no consumer has given up.
THEOREM DeadLettersComeFromConsumers == Spec => []DeadLettersAreShared
  BY BusInvHolds, PTL DEF BusInv, QueueInv
-------------------------------------------------------------------------------
(***************************************************************************)
(* What audit-service makes of its queue                                   *)
(***************************************************************************)

AuditQueue == "audit_queue"
AuditReads == Event \ Malformed["audit"]

\* No row has a before_state that PostgreSQL accepts, and x-death never counts as far as
\* MaxRetries: an event the consumer can read goes back to the queue, always.
LEMMA AuditAnswers ==
    ASSUME NEW e
    PROVE  AnswersOf("audit", AuditQueue, e) = IF e \in Malformed["audit"] THEN {"dead"} ELSE {"requeue"}
<1>1. ~Inserts(Row(KeyOf[e]))
  <2>1. /\ "before_state" \in DOMAIN Row(KeyOf[e])
        /\ Row(KeyOf[e])["before_state"] = FALSE
    BY DEF Row
  <2> QED
    BY <2>1 DEF Inserts
<1>2. FailureVerdict(Deaths(AuditQueue, e)) = "requeue"
  BY DEF FailureVerdict, MaxRetries, Deaths
<1> QED
  BY <1>1, <1>2 DEF AnswersOf, Answers

\* What a step leaves as it is, of the audit queue.
AuditStands ==
    /\ done'[AuditQueue] = done[AuditQueue]
    /\ rejected'[AuditQueue] \subseteq rejected[AuditQueue] \cup Malformed["audit"]
    /\ Owed(AuditQueue) \cap AuditReads \subseteq Owed(AuditQueue)'

LEMMA AuditSteps ==
    ASSUME BusInv, [Next]_vars
    PROVE  AuditStands
<1>1. AuditQueue \in AllQueues
  BY DEF AuditQueue, AllQueues, Subscriptions
<1>2. ASSUME UNCHANGED <<done, rejected>>, Owed(AuditQueue) \subseteq Owed(AuditQueue)' PROVE AuditStands
  BY <1>2 DEF AuditStands
<1>3. ASSUME UNCHANGED queueVars PROVE AuditStands
  <2>1. Owed(AuditQueue)' = Owed(AuditQueue)
    BY <1>3 DEF queueVars, Owed, InHand
  <2> QED
    BY <1>2, <1>3, <2>1 DEF queueVars
<1>4. ASSUME NEW pods \in SUBSET Pod, Release(pods), UNCHANGED <<serves, topology, sent>>
      PROVE  AuditStands
  <2>1. Owed(AuditQueue)' = Owed(AuditQueue)
    BY <1>1, <1>4, ReleaseKeepsQueues DEF BusInv
  <2> QED
    BY <1>2, <1>4, <2>1 DEF Release
<1>5. ASSUME NEW p \in Pod, Start(p) PROVE AuditStands
  <2>1. CASE UNCHANGED queueVars
    BY <1>3, <2>1
  <2>2. CASE Release({p})
    <3>1. Owed(AuditQueue)' = Owed(AuditQueue)
      BY <1>1, <1>5, <2>2, StepsOfAStart, ReleaseKeepsQueues DEF BusInv
    <3> QED
      BY <1>2, <2>2, <3>1 DEF Release
  <2> QED
    BY <1>5, <2>1, <2>2, StepsOfAStart DEF BusInv
<1>6. ASSUME NEW p \in Pod, NEW e \in Event, Publish(p, e) PROVE AuditStands
  BY <1>1, <1>2, <1>6, PublishKeepsQueues DEF BusInv, Publish
<1>7. ASSUME NEW p \in Pod, NEW q \in AllQueues, Take(p, q) PROVE AuditStands
  BY <1>1, <1>2, <1>7, TakeKeepsQueues DEF BusInv, Take
<1>8. ASSUME NEW p \in Pod, NEW q \in AllQueues, q # AuditQueue, Answer(p, q) PROVE AuditStands
  <2>1. done'[AuditQueue] = done[AuditQueue] /\ rejected'[AuditQueue] = rejected[AuditQueue]
    BY <1>1, <1>8 DEF Answer, BusInv, QueueInv, QueueTypeOK
  <2>2. Owed(AuditQueue)' = Owed(AuditQueue)
    BY <1>1, <1>8, AnswerKeepsQueues DEF BusInv
  <2> QED
    BY <2>1, <2>2 DEF AuditStands
<1>9. ASSUME NEW p \in Pod, Answer(p, AuditQueue) PROVE AuditStands
  <2> DEFINE e == job[p][AuditQueue]
  <2>1. serves[p] = "audit" /\ e \in Event
    <3>1. serves[p] \in Service
      BY PlanType DEF BusInv, StartInv
    <3>2. e # None /\ AuditQueue \in QueuesOf(serves[p]) /\ e \in Event
      BY <1>1, <1>9 DEF Answer, BusInv, QueueInv, QueueTypeOK
    <3> QED
      BY <3>1, <3>2 DEF QueuesOf, AuditQueue
  <2>2. AnswersOf(serves[p], AuditQueue, e) = IF e \in Malformed["audit"] THEN {"dead"} ELSE {"requeue"}
    BY <2>1, AuditAnswers
  <2>3. PICK answer \in AnswersOf(serves[p], AuditQueue, e) :
            /\ done' = [done EXCEPT ![AuditQueue] = @ \cup {x \in {e} : answer = "ack"}]
            /\ rejected' = [rejected EXCEPT ![AuditQueue] = @ \cup {x \in {e} : answer = "dead"}]
            /\ ready' = [ready EXCEPT ![AuditQueue] = @ \cup {x \in {e} : answer = "requeue"}]
    BY <1>9 DEF Answer
  <2>4. job' = [job EXCEPT ![p][AuditQueue] = None]
    BY <1>9 DEF Answer
  <2>5. \A x \in Event : x # e => (x \in Owed(AuditQueue) => x \in Owed(AuditQueue)')
    <3>1. \A r \in Pod : job[r][AuditQueue] # e => job'[r][AuditQueue] = job[r][AuditQueue]
      BY <1>1, <2>4 DEF BusInv, QueueInv, QueueTypeOK
    <3>2. ready[AuditQueue] \subseteq ready'[AuditQueue]
      BY <1>1, <2>3 DEF BusInv, QueueInv, QueueTypeOK
    <3> QED
      BY <3>1, <3>2 DEF Owed, InHand
  <2>6. CASE e \in Malformed["audit"]
    <3>1. answer = "dead"
      BY <2>2, <2>3, <2>6
    <3>2. /\ done'[AuditQueue] = done[AuditQueue]
          /\ rejected'[AuditQueue] = rejected[AuditQueue] \cup {e}
      BY <1>1, <2>3, <3>1 DEF BusInv, QueueInv, QueueTypeOK
    <3> QED
      BY <2>5, <2>6, <3>2 DEF AuditStands, AuditReads
  <2>7. CASE e \notin Malformed["audit"]
    <3>1. answer = "requeue"
      BY <2>2, <2>3, <2>7
    <3>2. /\ done'[AuditQueue] = done[AuditQueue] /\ rejected'[AuditQueue] = rejected[AuditQueue]
          /\ e \in ready'[AuditQueue]
      BY <1>1, <2>3, <3>1 DEF BusInv, QueueInv, QueueTypeOK
    <3> QED
      BY <2>5, <3>2 DEF AuditStands, AuditReads, Owed
  <2> QED
    BY <2>6, <2>7
<1>10. ASSUME NEW p \in Pod, PodFails(p) \/ ChannelCloses(p) PROVE AuditStands
  BY <1>4, <1>10 DEF PodFails, ChannelCloses, Exits, startVars
<1>11. ASSUME BrokerRestarts PROVE AuditStands
  <2>1. link \in SUBSET Pod
    BY DEF BusInv, StartInv, StartTypeOK
  <2> QED
    BY <1>4, <1>11, <2>1 DEF BrokerRestarts, startVars
<1>12. CASE UNCHANGED vars
  BY <1>3, <1>12 DEF vars
<1> QED
  BY <1>5, <1>6, <1>7, <1>8, <1>9, <1>10, <1>11, <1>12 DEF Next

\* event_consumer.go appends no event to audit_logs, in any deployment and with any
\* luck: it acknowledges nothing, and gives up nothing but what it cannot read.
THEOREM NothingIsAudited ==
    Spec => [](done[AuditQueue] = {} /\ rejected[AuditQueue] \subseteq Malformed["audit"])
<1> DEFINE Nothing == done[AuditQueue] = {} /\ rejected[AuditQueue] \subseteq Malformed["audit"]
<1>1. Init => Nothing
  BY DEF Init, AuditQueue, AllQueues, Subscriptions
<1>2. BusInv /\ Nothing /\ [Next]_vars => Nothing'
  BY AuditSteps DEF AuditStands
<1> QED
  BY <1>1, <1>2, BusInvHolds, PTL DEF Spec

\* An event that the audit queue owes and its consumer can read is owed for ever: the
\* queue only grows, and each of its messages is delivered again and again.
THEOREM AuditQueueOnlyGrows ==
    Spec => [][Owed(AuditQueue) \cap AuditReads \subseteq Owed(AuditQueue)']_vars
<1>1. BusInv /\ [Next]_vars => [Owed(AuditQueue) \cap AuditReads \subseteq Owed(AuditQueue)']_vars
  BY AuditSteps DEF AuditStands
<1> QED
  BY <1>1, BusInvHolds, PTL DEF Spec
-------------------------------------------------------------------------------
(***************************************************************************)
(* The bus implements Delivery                                             *)
(***************************************************************************)

Debts == [q \in AllQueues |-> ready[q] \cup InHand(q)]
Wanted == [q \in AllQueues |-> {e \in Event : KeyOf[e] \in KeysOf(q)}]

LEMMA SameDebts ==
    ASSUME \A q \in AllQueues : Owed(q)' = Owed(q)
    PROVE  Debts' = Debts
BY DEF Debts, Owed

\* Queues listen for good: without a declaration they stay as they are.
LEMMA SameListeners ==
    ASSUME UNCHANGED topology
    PROVE  Subscribed' = Subscribed
BY DEF Subscribed, Declared

LEMMA Stutters ==
    ASSUME UNCHANGED <<topology, done, graves>>, \A q \in AllQueues : Owed(q)' = Owed(q)
    PROVE  UNCHANGED Bus!vars
<1>1. Debts' = Debts /\ Subscribed' = Subscribed
  BY SameDebts, SameListeners
<1> QED
  BY <1>1 DEF Bus!vars, Debts

\* A declaration completes at most one queue.
LEMMA DeclaresImplement ==
    ASSUME StartInv, NEW p \in Pod, Declares(p)
    PROVE  [Bus!Next]_Bus!vars
<1> DEFINE d == PlanOf(p)[at[p]]
<1>1. \A op \in Declarations :
          topology'[op] = IF op = d.op THEN topology[op] \cup {<<d.of, d.key>>} ELSE topology[op]
  BY DEF StartInv, StartTypeOK, Declares
<1>2. \A q \in AllQueues :
          /\ Declared(Queue(q)) => Declared(Queue(q))'
          /\ q # d.of /\ Declared(Queue(q))' => Declared(Queue(q))
          /\ \A key \in KeysOf(q) :
                 /\ Declared(Bind(q, key)) => Declared(Bind(q, key))'
                 /\ q # d.of /\ Declared(Bind(q, key))' => Declared(Bind(q, key))
  <2>1. ASSUME NEW q \in AllQueues, NEW key, NEW op \in Declarations
        PROVE  /\ <<q, key>> \in topology[op] => <<q, key>> \in topology'[op]
               /\ q # d.of /\ <<q, key>> \in topology'[op] => <<q, key>> \in topology[op]
    <3>1. \/ topology'[op] = topology[op]
          \/ topology'[op] = topology[op] \cup {<<d.of, d.key>>}
      BY <1>1
    <3>2. ASSUME NEW of, NEW k, q # of PROVE <<q, key>> # <<of, k>>
      BY <3>2
    <3> HIDE DEF d
    <3>3. q # d.of => <<q, key>> # <<d.of, d.key>>
      BY <3>2
    <3> QED
      BY <3>1, <3>3
  <2>2. "queue" \in Declarations /\ "bind" \in Declarations
    BY DEF Declarations
  <2> QED
    BY <2>1, <2>2 DEF Declared, Queue, Bind, Step
<1>3. Subscribed \subseteq Subscribed' /\ Subscribed' \subseteq Subscribed \cup {d.of}
  BY <1>2 DEF Subscribed
<1>4. UNCHANGED <<Debts, done, graves>>
  BY DEF Declares, queueVars, Debts, InHand
<1>5. CASE Subscribed' = Subscribed
  BY <1>4, <1>5 DEF Bus!vars, Debts
<1>6. CASE Subscribed' # Subscribed
  <2>1. d.of \in AllQueues /\ Subscribed' = Subscribed \cup {d.of}
    BY <1>3, <1>6 DEF Subscribed
  <2>2. Bus!Listen(d.of)
    BY <1>4, <2>1 DEF Bus!Listen, Debts
  <2> QED
    BY <2>1, <2>2 DEF Bus!Next
<1> QED
  BY <1>5, <1>6

\* Where an event with this key may go: to every queue that listens, and to no queue
\* that does not want it.
LEMMA CopiesReach ==
    ASSUME StartInv, NEW e \in Event,
           NEW to \in SUBSET AllQueues,
           \A q \in to : KeyOf[e] \in KeysOf(q),
           \A q \in Subscribed : KeyOf[e] \in KeysOf(q) => q \in to
    PROVE  to \in Bus!Reached(e)
<1> DEFINE wanting == {q \in AllQueues : e \in Wanted[q]}
<1>1. \A q \in AllQueues : e \in Wanted[q] <=> KeyOf[e] \in KeysOf(q)
  BY DEF Wanted
<1>2. to \in SUBSET wanting /\ to = (Subscribed \cap wanting) \cup to
  BY <1>1 DEF Subscribed
<1>3. to \in {(Subscribed \cap wanting) \cup others : others \in SUBSET wanting}
  BY <1>2
<1> QED
  BY <1>3 DEF Bus!Reached, Wanted

LEMMA PublishImplements ==
    ASSUME BusInv, NEW p \in Pod, NEW e \in Event, Publish(p, e)
    PROVE  [Bus!Next]_Bus!vars
<1>1. /\ UNCHANGED <<topology, done, graves>> /\ e \notin sent
      /\ \/ \A q \in AllQueues :
                Owed(q)' = IF q \in Routes(e) THEN Owed(q) \cup {e} ELSE Owed(q)
         \/ \A q \in AllQueues : Owed(q)' = Owed(q)
  BY PublishKeepsQueues DEF BusInv, Publish, startVars
<1>2. CASE \A q \in AllQueues : Owed(q)' = Owed(q)
  BY <1>1, <1>2, Stutters
<1>3. CASE \A q \in AllQueues :
               Owed(q)' = IF q \in Routes(e) THEN Owed(q) \cup {e} ELSE Owed(q)
  <2>1. KeyOf[e] \in Key
    BY BusAssumption DEF BusAssumption
  <2>2. Routes(e) \in Bus!Reached(e)
    <3>1. Routes(e) \in SUBSET AllQueues /\ \A q \in Routes(e) : KeyOf[e] \in KeysOf(q)
      BY <2>1 DEF Routes, BusInv, StartInv, BindingsFit
    <3>2. \A q \in Subscribed : KeyOf[e] \in KeysOf(q) => q \in Routes(e)
      BY DEF Subscribed, Routes
    <3> QED
      BY <3>1, <3>2, CopiesReach DEF BusInv
  <2>3. \A q \in AllQueues : e \notin Debts[q] \cup done[q] \cup graves[q]
    BY <1>1 DEF BusInv, QueueInv, OwedByBinding, Owed, Debts
  <2>4. Debts' = [q \in AllQueues |-> IF q \in Routes(e) THEN Debts[q] \cup {e} ELSE Debts[q]]
    BY <1>3 DEF Debts, Owed
  <2>5. Bus!Send(e)
    BY <1>1, <2>2, <2>3, <2>4, SameListeners DEF Bus!Send, Debts
  <2> QED
    BY <2>5 DEF Bus!Next
<1> QED
  BY <1>1, <1>2, <1>3

LEMMA AnswerImplements ==
    ASSUME BusInv, NEW p \in Pod, NEW q \in AllQueues, Answer(p, q)
    PROVE  [Bus!Next]_Bus!vars
<1>0. PICK e : e = job[p][q]
  OBVIOUS
<1>1. UNCHANGED topology
  BY DEF Answer, startVars
<1>2. e \in Owed(q) /\ e \in Event /\ e \in Debts[q]
  BY <1>0, AnswerKeepsQueues DEF BusInv, Debts, Owed
<1>3. CASE (\A o \in AllQueues : Owed(o)' = Owed(o)) /\ UNCHANGED <<done, graves>>
  BY <1>1, <1>3, Stutters
<1>4. ASSUME \A o \in AllQueues : Owed(o)' = IF o = q THEN Owed(q) \ {e} ELSE Owed(o)
      PROVE  Debts' = [Debts EXCEPT ![q] = @ \ {e}]
  BY <1>4 DEF Debts, Owed
<1>5. CASE /\ \A o \in AllQueues : Owed(o)' = IF o = q THEN Owed(q) \ {e} ELSE Owed(o)
           /\ done' = [done EXCEPT ![q] = @ \cup {e}] /\ UNCHANGED graves
  <2>1. Bus!Handle(q, e)
    BY <1>1, <1>4, <1>5, SameListeners DEF Bus!Handle, Debts
  <2>2. \E x \in ready[q] \cup InHand(q) : Bus!Handle(q, x) \/ Bus!GiveUp(q, x)
    BY <1>2, <2>1 DEF Owed
  <2> QED
    BY <2>2 DEF Bus!Next
<1>6. CASE /\ \A o \in AllQueues : Owed(o)' = IF o = q THEN Owed(q) \ {e} ELSE Owed(o)
           /\ UNCHANGED done
           /\ graves' = [o \in AllQueues |->
                            IF o \in GravesOf(q, e) THEN graves[o] \cup {e} ELSE graves[o]]
           /\ q \in GravesOf(q, e)
  <2>1. KeyOf[e] \in Key
    BY <1>2, BusAssumption DEF BusAssumption
  <2>2. GravesOf(q, e) \in Bus!Reached(e)
    <3>1. GravesOf(q, e) \in SUBSET AllQueues /\ \A o \in GravesOf(q, e) : KeyOf[e] \in KeysOf(o)
      BY <2>1 DEF GravesOf, BusInv, StartInv, BindingsFit
    <3>2. \A o \in Subscribed : KeyOf[e] \in KeysOf(o) => o \in GravesOf(q, e)
      BY DEF Subscribed, GravesOf, BusInv, StartInv, DeadLettersHaveAHome
    <3> QED
      BY <1>2, <3>1, <3>2, CopiesReach DEF BusInv
  <2>3. Bus!GiveUp(q, e)
    BY <1>1, <1>4, <1>6, <2>2, SameListeners DEF Bus!GiveUp, Debts
  <2>4. \E x \in ready[q] \cup InHand(q) : Bus!Handle(q, x) \/ Bus!GiveUp(q, x)
    BY <1>2, <2>3 DEF Owed
  <2> QED
    BY <2>4 DEF Bus!Next
<1> QED
  BY <1>0, <1>3, <1>5, <1>6, AnswerKeepsQueues DEF BusInv

LEMMA StepsImplement ==
    ASSUME BusInv, [Next]_vars
    PROVE  [Bus!Next]_Bus!vars
<1>1. CASE UNCHANGED vars
  <2>1. \A q \in AllQueues : Owed(q)' = Owed(q)
    BY <1>1 DEF vars, queueVars, Owed, InHand
  <2> QED
    BY <1>1, <2>1, Stutters DEF vars, startVars, queueVars
<1>2. ASSUME UNCHANGED topology, NEW pods \in SUBSET Pod, Release(pods), UNCHANGED <<serves, sent>>
      PROVE  [Bus!Next]_Bus!vars
  BY <1>2, ReleaseKeepsQueues, Stutters DEF BusInv
<1>3. ASSUME NEW p \in Pod, Start(p) PROVE [Bus!Next]_Bus!vars
  <2>1. CASE Declares(p)
    BY <2>1, DeclaresImplement DEF BusInv
  <2>2. CASE UNCHANGED topology /\ UNCHANGED queueVars
    <3>1. \A q \in AllQueues : Owed(q)' = Owed(q)
      BY <2>2 DEF queueVars, Owed, InHand
    <3> QED
      BY <2>2, <3>1, Stutters DEF queueVars
  <2>3. CASE UNCHANGED topology /\ Release({p}) /\ UNCHANGED <<serves, sent>>
    BY <1>2, <2>3
  <2> QED
    BY <1>3, <2>1, <2>2, <2>3, StepsOfAStart DEF BusInv
<1>4. ASSUME NEW p \in Pod, NEW q \in AllQueues, Take(p, q) PROVE [Bus!Next]_Bus!vars
  <2>1. UNCHANGED <<topology, done, graves>>
    BY <1>4 DEF Take, startVars
  <2> QED
    BY <1>4, <2>1, TakeKeepsQueues, Stutters DEF BusInv
<1>5. ASSUME NEW p \in Pod, PodFails(p) \/ ChannelCloses(p) PROVE [Bus!Next]_Bus!vars
  BY <1>2, <1>5 DEF PodFails, ChannelCloses, Exits, startVars
<1>6. ASSUME BrokerRestarts PROVE [Bus!Next]_Bus!vars
  <2>1. link \in SUBSET Pod
    BY DEF BusInv, StartInv, StartTypeOK
  <2> QED
    BY <1>2, <1>6, <2>1 DEF BrokerRestarts, startVars
<1> QED
  BY <1>1, <1>3, <1>4, <1>5, <1>6, PublishImplements, AnswerImplements DEF Next

\* A queue that listens gets every event that the broker accepts and it wants, and loses
\* it only by handling it or into its dead-letter queue, whatever pods, channels and the
\* broker do.
THEOREM BusImplementsDelivery == Spec => ImplementsDelivery
<1>1. Init => Bus!Init
  <2> SUFFICES ASSUME Init PROVE Bus!Init
    OBVIOUS
  <2>1. Subscribed = {}
    BY DEF Init, Subscribed, Declared, Queue, Step, Declarations
  <2>2. \A q \in AllQueues : InHand(q) = {}
    BY DEF Init, InHand
  <2> QED
    BY <2>1, <2>2 DEF Init, Bus!Init
<1>2. BusInv /\ [Next]_vars => [Bus!Next]_Bus!vars
  BY StepsImplement
<1> QED
  BY <1>1, <1>2, BusInvHolds, PTL DEF Spec, ImplementsDelivery, Bus!Spec

\* No failure makes a queue owe again what it has acknowledged: it follows from Delivery
\* for the bus with its pods, channels and copies.
THEOREM EventsAreHandledOnce == Spec => []Bus!HandledOnce
<1>1. Bus!Init => Bus!HandledOnce
  BY DEF Bus!Init, Bus!HandledOnce
<1>2. TypeOK /\ Bus!HandledOnce /\ [Bus!Next]_Bus!vars => Bus!HandledOnce'
  <2> SUFFICES ASSUME TypeOK, Bus!HandledOnce, [Bus!Next]_Bus!vars PROVE Bus!HandledOnce'
    OBVIOUS
  <2>1. ASSUME NEW q \in AllQueues, Bus!Listen(q) PROVE Bus!HandledOnce'
    BY <2>1 DEF Bus!Listen, Bus!HandledOnce
  <2>2. ASSUME NEW e \in Event, Bus!Send(e) PROVE Bus!HandledOnce'
    BY <2>2 DEF Bus!Send, Bus!HandledOnce
  <2>3. ASSUME NEW q \in AllQueues, NEW e \in Debts[q], Bus!Handle(q, e) PROVE Bus!HandledOnce'
    <3>1. \A o \in AllQueues :
              /\ Debts'[o] = IF o = q THEN Debts[q] \ {e} ELSE Debts[o]
              /\ done'[o] = IF o = q THEN done[q] \cup {e} ELSE done[o]
      BY <2>3 DEF Bus!Handle, Debts, TypeOK
    <3>2. \A o \in AllQueues : Debts[o] \cap done[o] = {}
      BY DEF Bus!HandledOnce, Debts
    <3>3. \A o \in AllQueues : Debts'[o] \cap done'[o] = {}
      BY <3>1, <3>2
    <3> QED
      BY <3>3 DEF Bus!HandledOnce, Debts
  <2>4. ASSUME NEW q \in AllQueues, NEW e \in Debts[q], Bus!GiveUp(q, e) PROVE Bus!HandledOnce'
    BY <2>4 DEF Bus!GiveUp, Bus!HandledOnce
  <2>5. CASE UNCHANGED Bus!vars
    BY <2>5 DEF Bus!vars, Bus!HandledOnce
  <2> QED
    BY <2>1, <2>2, <2>3, <2>4, <2>5 DEF Bus!Next, Debts
<1> QED
  BY <1>1, <1>2, BusTypeOK, BusImplementsDelivery, PTL DEF ImplementsDelivery, Bus!Spec
===============================================================================
