----------------------------- MODULE ConsumerProofs -----------------------------
(***************************************************************************)
(* The services that consume from a WorkQueue. First what every step of    *)
(* the queue does, whatever the handler: it keeps the types, and every     *)
(* message stays at one place. Then, for any events, pods and failures,    *)
(* what NotificationService and ReportService make of it; each is taken by *)
(* itself, on a queue of its own.                                          *)
(***************************************************************************)
EXTENDS NotificationService, ReportService, FiniteSetTheorems, TLAPS

LEMMA ConsumerParts ==
    ASSUME NEW c \in Consumer
    PROVE  PodOf(c) \in Pod /\ Served(c) \in Queue
BY DEF Consumer, PodOf, Served

LEMMA QueueInitTyped ==
    ASSUME NEW Step, QueueInit
    PROVE  QueueTypeOK(Step)
BY DEF QueueInit, QueueTypeOK

LEMMA PublishTyped ==
    ASSUME NEW Step, QueueTypeOK(Step), NEW e \in Event, Publish(e)
    PROVE  QueueTypeOK(Step)'
BY DEF Publish, QueueTypeOK

LEMMA DeliverTyped ==
    ASSUME NEW Step, QueueTypeOK(Step), NEW c \in Consumer, Deliver(c)
    PROVE  QueueTypeOK(Step)'
<1> PICK e \in ready : /\ QueueOf[e] = Served(c)
                       /\ ready' = ready \ {e}
                       /\ unacked' = [unacked EXCEPT ![PodOf(c)] = @ \cup {e}]
                       /\ job' = [job EXCEPT ![c] = e]
    BY DEF Deliver
<1>1. e \in Event
    BY DEF QueueTypeOK
<1>2. unacked' \in [Pod -> SUBSET Event]
    BY <1>1, ConsumerParts DEF QueueTypeOK
<1>3. /\ at' \in [Consumer -> Step \cup {"idle", "received"}]
      /\ job' \in [Consumer -> Event \cup {None}]
    BY <1>1 DEF QueueTypeOK, Deliver
<1>4. \A d \in Consumer : at'[d] # "idle" => job'[d] \in Event /\ QueueOf[job'[d]] = Served(d)
    BY <1>1 DEF QueueTypeOK, Deliver
<1> QED BY <1>1, <1>2, <1>3, <1>4 DEF QueueTypeOK, Deliver, Served

LEMMA GotoTyped ==
    ASSUME NEW Step, QueueTypeOK(Step), NEW c \in Consumer, NEW step \in Step,
           at[c] # "idle", Goto(c, step), faults' \in Nat
    PROVE  QueueTypeOK(Step)'
BY DEF QueueTypeOK, Goto, Served

LEMMA ReplyTyped ==
    ASSUME NEW Step, QueueTypeOK(Step), NEW c \in Consumer, NEW verdict,
           at[c] # "idle", Reply(c, verdict)
    PROVE  QueueTypeOK(Step)'
<1> DEFINE e == job[c]
           answered == IF e \in unacked[PodOf(c)] THEN {e} ELSE {}
<1>1. answered \subseteq Event
    BY DEF QueueTypeOK
<1>2. unacked' \in [Pod -> SUBSET Event]
    BY <1>1, ConsumerParts DEF QueueTypeOK, Reply
<1>3. settled' \subseteq Event /\ ready' \subseteq Event /\ dead' \subseteq Event
    BY <1>1 DEF QueueTypeOK, Reply
<1>4. /\ at' \in [Consumer -> Step \cup {"idle", "received"}]
      /\ job' \in [Consumer -> Event \cup {None}]
      /\ \A d \in Consumer : at'[d] # "idle" =>
             job'[d] \in Event /\ QueueOf[job'[d]] = Served(d)
    BY DEF QueueTypeOK, Reply
<1> QED BY <1>2, <1>3, <1>4 DEF QueueTypeOK, Reply, Served

LEMMA FaultTyped == ASSUME faults \in Nat, Fault PROVE faults' \in Nat
BY DEF Fault

LEMMA ChannelClosesTyped ==
    ASSUME NEW Step, QueueTypeOK(Step), NEW p \in Pod, ChannelCloses(p)
    PROVE  QueueTypeOK(Step)'
BY FaultTyped DEF QueueTypeOK, ChannelCloses, Served

LEMMA PodRestartsTyped ==
    ASSUME NEW Step, QueueTypeOK(Step), NEW p \in Pod, PodRestarts(p)
    PROVE  QueueTypeOK(Step)'
<1>1. /\ at' \in [Consumer -> Step \cup {"idle", "received"}]
      /\ job' \in [Consumer -> Event \cup {None}]
      /\ \A d \in Consumer : at'[d] # "idle" =>
             job'[d] \in Event /\ QueueOf[job'[d]] = Served(d)
    BY DEF QueueTypeOK, PodRestarts
<1>2. /\ ready' \subseteq Event
      /\ unacked' \in [Pod -> SUBSET Event]
      /\ channel' \in [Pod -> {"open", "closed"}]
    BY DEF QueueTypeOK, PodRestarts
<1> QED BY <1>1, <1>2, FaultTyped DEF QueueTypeOK, PodRestarts, Served

LEMMA QueueEnvironmentTyped ==
    ASSUME NEW Step, QueueTypeOK(Step), QueueEnvironment
    PROVE  QueueTypeOK(Step)'
BY PublishTyped, ChannelClosesTyped, PodRestartsTyped DEF QueueEnvironment

\* Only an acknowledgement settles a message, and only the message it answers.
LEMMA OnlyAckSettles ==
    ASSUME NEW c \in Consumer, NEW verdict, Reply(c, verdict)
    PROVE  settled' \subseteq IF verdict = "ack" THEN settled \cup {job[c]} ELSE settled
BY DEF Reply

\* A message waits, is with one pod, or is answered for good.
OnePlace ==
    /\ ready \cap (settled \cup dead) = {}
    /\ settled \cap dead = {}
    /\ \A p \in Pod : unacked[p] \cap (ready \cup settled \cup dead) = {}
    /\ \A p, q \in Pod : p # q => unacked[p] \cap unacked[q] = {}

LEMMA PublishPlaced ==
    ASSUME OnePlace, NEW e \in Event, Publish(e)
    PROVE  OnePlace'
BY DEF OnePlace, Publish, Published

LEMMA DeliverPlaced ==
    ASSUME NEW Step, QueueTypeOK(Step), OnePlace, NEW c \in Consumer, Deliver(c)
    PROVE  OnePlace'
<1> PICK e \in ready : /\ ready' = ready \ {e}
                       /\ unacked' = [unacked EXCEPT ![PodOf(c)] = @ \cup {e}]
    BY DEF Deliver
<1> QED BY ConsumerParts DEF OnePlace, Deliver, QueueTypeOK

LEMMA ReplyPlaced ==
    ASSUME NEW Step, QueueTypeOK(Step), OnePlace, NEW c \in Consumer, NEW verdict,
           Reply(c, verdict)
    PROVE  OnePlace'
<1> DEFINE e == job[c]
           answered == IF e \in unacked[PodOf(c)] THEN {e} ELSE {}
<1>1. /\ unacked' = [unacked EXCEPT ![PodOf(c)] = @ \ answered]
      /\ settled' = settled \cup {x \in answered : verdict = "ack"}
      /\ ready' = ready \cup {x \in answered : verdict = "requeue"}
      /\ dead' = dead \cup {x \in answered : verdict = "dead"}
    BY DEF Reply
<1>2. answered \subseteq unacked[PodOf(c)] /\ PodOf(c) \in Pod
    BY ConsumerParts
<1> HIDE DEF answered
<1>3. \A p \in Pod : unacked'[p] = IF p = PodOf(c) THEN unacked[p] \ answered ELSE unacked[p]
    BY <1>1 DEF QueueTypeOK
<1>4. \A p \in Pod : p # PodOf(c) => unacked[p] \cap answered = {}
    BY <1>2 DEF OnePlace
<1>5. answered \cap (ready \cup settled \cup dead) = {}
    BY <1>2 DEF OnePlace
<1>6. /\ ready' \cap (settled' \cup dead') = {}
      /\ settled' \cap dead' = {}
    BY <1>1, <1>5 DEF OnePlace
<1>7. \A p \in Pod : unacked'[p] \cap (ready' \cup settled' \cup dead') = {}
    BY <1>1, <1>3, <1>4 DEF OnePlace
<1>8. \A p, q \in Pod : p # q => unacked'[p] \cap unacked'[q] = {}
    BY <1>3 DEF OnePlace
<1> QED BY <1>6, <1>7, <1>8 DEF OnePlace

\* What a channel gives back waits again.
LEMMA GivenBackPlaced ==
    ASSUME NEW Step, QueueTypeOK(Step), OnePlace, NEW p \in Pod,
           ChannelCloses(p) \/ PodRestarts(p)
    PROVE  OnePlace'
<1>1. /\ ready' = ready \cup unacked[p]
      /\ unacked' = [unacked EXCEPT ![p] = {}]
      /\ UNCHANGED <<settled, dead>>
    BY DEF ChannelCloses, PodRestarts
<1> QED BY <1>1 DEF OnePlace, QueueTypeOK

\* Out of the two verdicts of a failure only one is ever given.
LEMMA FailuresAreRequeued == \A e : FailureVerdict(e) = "requeue"
BY DEF FailureVerdict, RetryCount, MaxRetries

\* A step as the broker sees it. A message is dead-lettered when it cannot be read, and
\* only then.
QueueMoves ==
    \/ \E e \in Event : Publish(e)
    \/ \E c \in Consumer : Deliver(c)
    \/ \E c \in Consumer, verdict \in {"ack", "requeue", "dead"} :
           Reply(c, verdict) /\ (verdict = "dead" => job[c] \in Malformed)
    \/ \E p \in Pod : ChannelCloses(p) \/ PodRestarts(p)
    \/ UNCHANGED <<ready, unacked, settled, dead>>

\* A message that can be read leaves the broker by an acknowledgement only: no number
\* of failures ends its retries.
LeavesByAck == \A e \in Pending \ Malformed : e \in Pending' \cup settled'

LEMMA MovesKeepMessages ==
    ASSUME NEW Step, QueueTypeOK(Step), QueueMoves
    PROVE  /\ LeavesByAck
           /\ Published \subseteq Published'
           /\ dead' \subseteq dead \cup Malformed
<1> SUFFICES /\ Pending \subseteq Pending' \cup settled' \cup dead'
             /\ settled \subseteq settled' /\ dead \subseteq dead'
             /\ dead' \subseteq dead \cup (Malformed \cap dead')
             /\ \A e \in Pending \ Malformed : e \in Pending' \cup settled'
    BY DEF LeavesByAck, Published, Pending
<1>1. ASSUME NEW e \in Event, Publish(e)
      PROVE  Pending \subseteq Pending' /\ settled' = settled /\ dead' = dead
    BY <1>1 DEF Publish, Pending
<1>2. ASSUME NEW c \in Consumer, Deliver(c)
      PROVE  Pending \subseteq Pending' /\ settled' = settled /\ dead' = dead
  <2>1. PICK e \in ready : /\ ready' = ready \ {e}
                           /\ unacked' = [unacked EXCEPT ![PodOf(c)] = @ \cup {e}]
      BY <1>2 DEF Deliver
  <2>2. PodOf(c) \in Pod /\ e \in unacked'[PodOf(c)] /\ \A p \in Pod : unacked[p] \subseteq unacked'[p]
      BY <2>1, ConsumerParts DEF QueueTypeOK
  <2> QED BY <1>2, <2>1, <2>2 DEF Deliver, Pending
<1>3. ASSUME NEW c \in Consumer, NEW verdict \in {"ack", "requeue", "dead"}, Reply(c, verdict),
             verdict = "dead" => job[c] \in Malformed
      PROVE  /\ \A e \in Pending : e \in Pending' \cup settled' \/ (e \in dead' /\ e \in Malformed)
             /\ settled \subseteq settled' /\ dead \subseteq dead' /\ dead' \subseteq dead \cup Malformed
  <2> DEFINE answered == IF job[c] \in unacked[PodOf(c)] THEN {job[c]} ELSE {}
  <2>1. /\ unacked' = [unacked EXCEPT ![PodOf(c)] = @ \ answered]
        /\ settled' = settled \cup {x \in answered : verdict = "ack"}
        /\ ready' = ready \cup {x \in answered : verdict = "requeue"}
        /\ dead' = dead \cup {x \in answered : verdict = "dead"}
      BY <1>3 DEF Reply
  <2>2. \A p \in Pod : unacked[p] \subseteq unacked'[p] \cup answered
      BY <2>1 DEF QueueTypeOK
  <2>3. \A x \in answered : verdict = "dead" => x \in Malformed
      BY <1>3
  <2> HIDE DEF answered
  <2>4. \A e \in answered : e \in ready' \cup settled' \/ (e \in dead' /\ e \in Malformed)
      BY <2>1, <2>3
  <2>5. \A e \in Pending : e \in Pending' \/ e \in answered
      BY <2>1, <2>2 DEF Pending
  <2> QED BY <2>1, <2>3, <2>4, <2>5 DEF Pending
<1>4. ASSUME NEW p \in Pod, ChannelCloses(p) \/ PodRestarts(p)
      PROVE  Pending \subseteq Pending' /\ settled' = settled /\ dead' = dead
  <2>1. /\ ready' = ready \cup unacked[p] /\ unacked' = [unacked EXCEPT ![p] = {}]
        /\ settled' = settled /\ dead' = dead
      BY <1>4 DEF ChannelCloses, PodRestarts
  <2>2. \A q \in Pod : unacked[q] \subseteq unacked'[q] \cup unacked[p]
      BY <2>1 DEF QueueTypeOK
  <2> QED BY <2>1, <2>2 DEF Pending
<1>5. CASE UNCHANGED <<ready, unacked, settled, dead>>
    BY <1>5 DEF Pending
<1> QED BY <1>1, <1>2, <1>3, <1>4, <1>5 DEF QueueMoves

LEMMA MovesKeepPlaces ==
    ASSUME NEW Step, QueueTypeOK(Step), OnePlace, QueueMoves
    PROVE  OnePlace'
<1>1. CASE UNCHANGED <<ready, unacked, settled, dead>>
    BY <1>1 DEF OnePlace
<1> QED BY <1>1, PublishPlaced, DeliverPlaced, ReplyPlaced, GivenBackPlaced DEF QueueMoves

LEMMA QueuesStart == QueueInit => OnePlace /\ Broker!Init
<1> SUFFICES ASSUME QueueInit PROVE OnePlace /\ Broker!Init
    OBVIOUS
<1>1. Pending = {}
    BY DEF QueueInit, Pending
<1> QED BY <1>1 DEF QueueInit, OnePlace, Broker!Init, Of

\* What may change of the queues, for Delivery.
LEMMA SameQueues ==
    ASSUME Pending' = Pending, settled' = settled, dead' = dead
    PROVE  UNCHANGED Broker!vars
BY DEF Broker!vars, Of

\* A message has one queue, so a copy of it, or a dead letter, gets to that queue only.
LEMMA OneQueueWants ==
    ASSUME NEW e \in Event
    PROVE  /\ QueueOf[e] \in Queue
           /\ {QueueOf[e]} \in Broker!Reached(e)
<1>1. QueueOf[e] \in Queue
    BY QueueAssumption DEF QueueAssumption
<1>2. {q \in Queue : e \in [r \in Queue |-> Of(r, Event)][q]} = {QueueOf[e]}
    BY <1>1 DEF Of
<1>3. {QueueOf[e]} = (Queue \cap {QueueOf[e]}) \cup {QueueOf[e]} /\ {QueueOf[e]} \in SUBSET {QueueOf[e]}
    BY <1>1
<1>4. {QueueOf[e]} \in {(Queue \cap {QueueOf[e]}) \cup others : others \in SUBSET {QueueOf[e]}}
    BY <1>3
<1> QED BY <1>1, <1>2, <1>4 DEF Broker!Reached

\* Each step of the queues is one of Delivery, or changes nothing of what is owed,
\* handled and buried.
LEMMA MovesImplementDelivery ==
    ASSUME NEW Step, QueueTypeOK(Step), OnePlace, QueueMoves
    PROVE  [Broker!Next]_Broker!vars
<1> DEFINE Owed == [q \in Queue |-> Of(q, Pending)]
           Handled == [q \in Queue |-> Of(q, settled)]
           Buried == [q \in Queue |-> Of(q, dead)]
<1>1. ASSUME NEW e \in Event, Publish(e) PROVE Broker!Send(e)
  <2>1. /\ Pending' = Pending \cup {e} /\ settled' = settled /\ dead' = dead
        /\ e \notin Pending /\ e \notin settled /\ e \notin dead
      BY <1>1 DEF Publish, Published, Pending
  <2>2. Owed' = [q \in Queue |-> IF q \in {QueueOf[e]} THEN Owed[q] \cup {e} ELSE Owed[q]]
      BY <2>1 DEF Of
  <2>3. \A q \in Queue : e \notin Owed[q] \cup Handled[q] \cup Buried[q]
      BY <2>1 DEF Of
  <2>4. Handled' = Handled /\ Buried' = Buried
      BY <2>1
  <2> QED BY <2>2, <2>3, <2>4, OneQueueWants DEF Broker!Send
<1>2. ASSUME NEW c \in Consumer, Deliver(c) PROVE UNCHANGED Broker!vars
  <2>1. PICK e \in ready : /\ ready' = ready \ {e}
                           /\ unacked' = [unacked EXCEPT ![PodOf(c)] = @ \cup {e}]
      BY <1>2 DEF Deliver
  <2>2. PodOf(c) \in Pod
      BY ConsumerParts
  <2>3. \A p \in Pod : unacked'[p] = IF p = PodOf(c) THEN unacked[p] \cup {e} ELSE unacked[p]
      BY <2>1 DEF QueueTypeOK
  <2>4. Pending' = Pending
      BY <2>1, <2>2, <2>3 DEF Pending
  <2> QED BY <1>2, <2>4, SameQueues DEF Deliver
<1>3. ASSUME NEW p \in Pod, ChannelCloses(p) \/ PodRestarts(p) PROVE UNCHANGED Broker!vars
  <2>1. /\ ready' = ready \cup unacked[p] /\ unacked' = [unacked EXCEPT ![p] = {}]
        /\ settled' = settled /\ dead' = dead
      BY <1>3 DEF ChannelCloses, PodRestarts
  <2>2. \A q \in Pod : unacked'[q] = IF q = p THEN {} ELSE unacked[q]
      BY <2>1 DEF QueueTypeOK
  <2>3. Pending' = Pending
      BY <2>1, <2>2 DEF Pending
  <2> QED BY <2>1, <2>3, SameQueues
<1>4. ASSUME NEW c \in Consumer, NEW verdict \in {"ack", "requeue", "dead"}, Reply(c, verdict)
      PROVE  [Broker!Next]_Broker!vars
  <2> DEFINE e == job[c]
             answered == IF e \in unacked[PodOf(c)] THEN {e} ELSE {}
  <2>1. /\ unacked' = [unacked EXCEPT ![PodOf(c)] = @ \ answered]
        /\ settled' = settled \cup {x \in answered : verdict = "ack"}
        /\ ready' = ready \cup {x \in answered : verdict = "requeue"}
        /\ dead' = dead \cup {x \in answered : verdict = "dead"}
      BY <1>4 DEF Reply
  <2>2. PodOf(c) \in Pod
      BY ConsumerParts
  <2>3. \A p \in Pod : unacked'[p] = IF p = PodOf(c) THEN unacked[p] \ answered ELSE unacked[p]
      BY <2>1 DEF QueueTypeOK
  <2>4. CASE answered = {}
    <3>1. Pending' = Pending /\ settled' = settled /\ dead' = dead
        BY <2>1, <2>3, <2>4 DEF Pending
    <3> QED BY <3>1, SameQueues
  <2>5. CASE verdict = "requeue"
    <3>1. Pending' = Pending /\ settled' = settled /\ dead' = dead
        BY <2>1, <2>2, <2>3, <2>5 DEF Pending
    <3> QED BY <3>1, SameQueues
  <2>6. CASE e \in unacked[PodOf(c)] /\ verdict # "requeue"
    <3>1. answered = {e} /\ e \in Event /\ e \in Pending
        BY <2>2, <2>6 DEF QueueTypeOK, Pending
    <3>2. /\ e \notin ready' /\ ready' = ready
          /\ \A p \in Pod : unacked'[p] = unacked[p] \ {e}
        BY <2>1, <2>2, <2>3, <2>6, <3>1 DEF OnePlace
    <3>3. Pending' = Pending \ {e}
        BY <3>2 DEF Pending
    <3>4. Owed' = [Owed EXCEPT ![QueueOf[e]] = @ \ {e}]
        BY <3>3 DEF Of
    <3>5. e \in Owed[QueueOf[e]] /\ QueueOf[e] \in Queue
        BY <3>1, OneQueueWants DEF Of
    <3>6. CASE verdict = "ack"
      <4>1. settled' = settled \cup {e} /\ dead' = dead
          BY <2>1, <3>1, <3>6
      <4>2. Handled' = [Handled EXCEPT ![QueueOf[e]] = @ \cup {e}] /\ Buried' = Buried
          BY <4>1 DEF Of
      <4>3. Broker!Handle(QueueOf[e], e)
          BY <3>4, <4>2 DEF Broker!Handle
      <4> QED BY <3>5, <4>3 DEF Broker!Next
    <3>7. CASE verdict = "dead"
      <4>1. settled' = settled /\ dead' = dead \cup {e}
          BY <2>1, <3>1, <3>7
      <4>2. /\ Handled' = Handled
            /\ Buried' = [q \in Queue |-> IF q \in {QueueOf[e]} THEN Buried[q] \cup {e} ELSE Buried[q]]
          BY <4>1 DEF Of
      <4>3. Broker!GiveUp(QueueOf[e], e)
          BY <3>1, <3>4, <4>2, OneQueueWants DEF Broker!GiveUp
      <4> QED BY <3>5, <4>3 DEF Broker!Next
    <3> QED BY <2>6, <3>6, <3>7
  <2> QED BY <2>4, <2>5, <2>6
<1>5. CASE UNCHANGED <<ready, unacked, settled, dead>>
  <2>1. Pending' = Pending
      BY <1>5 DEF Pending
  <2> QED BY <1>5, <2>1, SameQueues
<1>6. ASSUME NEW e \in Event, Publish(e) PROVE [Broker!Next]_Broker!vars
    BY <1>1, <1>6 DEF Broker!Next
<1> QED BY <1>2, <1>3, <1>4, <1>5, <1>6 DEF QueueMoves
-------------------------------------------------------------------------------
(*****************************************************************************)
(* NotificationService                                                       *)
(*****************************************************************************)

\* A handler that is about to acknowledge has stored its row, and rows are never
\* removed: this is what an acknowledged event can rely on.
StoredInv == \A c \in Consumer : at[c] = "stored" => Notified(job[c])

DeliveryInv == TypeOK /\ StoredInv /\ NoEventLost

HandlerSteps == {"check_key", "create", "stored", "failed"}

\* A step that only moves the handler, stores a row or changes the Redis keys.
LEMMA MovePreserves ==
    ASSUME DeliveryInv, NEW c \in Consumer, NEW step \in HandlerSteps, at[c] # "idle",
           Goto(c, step), faults' \in Nat, keys' \subseteq Event, unguarded' \subseteq Event,
           UNCHANGED seen,
           StoreRow(job[c]) \/ UNCHANGED unread,
           step = "stored" => StoreRow(job[c])
    PROVE  DeliveryInv'
<1>0. job[c] \in Event /\ c \in Consumer
    BY DEF DeliveryInv, TypeOK, QueueTypeOK
<1>1. unread' \in [Event -> Nat] /\ \A e \in Event : unread'[e] >= unread[e]
    BY <1>0 DEF DeliveryInv, TypeOK, StoreRow
<1>2. QueueTypeOK(HandlerSteps)'
    BY GotoTyped DEF DeliveryInv, TypeOK, HandlerSteps
<1>3. TypeOK'
    BY <1>1, <1>2 DEF DeliveryInv, TypeOK, HandlerSteps
<1>4. \A e \in Event : Notified(e) => Notified(e)'
    BY <1>1 DEF DeliveryInv, TypeOK, Notified
<1>5. StoredInv'
  <2> SUFFICES ASSUME NEW d \in Consumer, at'[d] = "stored" PROVE Notified(job[d])'
      BY DEF StoredInv
  <2>1. job' = job /\ job[d] \in Event
      BY DEF Goto, DeliveryInv, TypeOK, QueueTypeOK
  <2>2. CASE d = c
    <3>1. StoreRow(job[c])
        BY <2>2 DEF Goto, DeliveryInv, TypeOK, QueueTypeOK
    <3>2. unread'[job[c]] = unread[job[c]] + 1 /\ seen'[job[c]] = seen[job[c]]
        BY <3>1, <1>0 DEF StoreRow, DeliveryInv, TypeOK
    <3>3. unread'[job[c]] + seen'[job[c]] > 0
        BY <3>2, <1>0 DEF DeliveryInv, TypeOK
    <3> QED BY <3>3, <2>1, <2>2 DEF Notified
  <2>3. CASE d # c
    <3>1. at[d] = "stored"
        BY <2>3 DEF Goto, DeliveryInv, TypeOK, QueueTypeOK
    <3> QED BY <3>1, <2>1, <1>4 DEF DeliveryInv, StoredInv, Notified
  <2> QED BY <2>2, <2>3
<1>6. NoEventLost'
    BY <1>4 DEF Goto, DeliveryInv, NoEventLost, TypeOK, QueueTypeOK, Silent
<1> QED BY <1>3, <1>5, <1>6 DEF DeliveryInv

\* An answer settles an event only by Ack, and Ack is for an event that has its
\* notification or asks for none.
LEMMA ReplyPreserves ==
    ASSUME DeliveryInv, NEW c \in Consumer, NEW verdict, at[c] # "idle",
           Reply(c, verdict), keys' \subseteq Event,
           UNCHANGED <<unread, seen, unguarded>>,
           verdict = "ack" =>
               Notified(job[c]) \/ (Silent(job[c]) /\ job[c] \notin Malformed)
    PROVE  DeliveryInv'
<1>1. TypeOK'
  <2>1. QueueTypeOK(HandlerSteps)'
      BY ReplyTyped DEF DeliveryInv, TypeOK, HandlerSteps
  <2> QED BY <2>1 DEF DeliveryInv, TypeOK, HandlerSteps
<1>2. StoredInv'
  <2> SUFFICES ASSUME NEW d \in Consumer, at'[d] = "stored" PROVE Notified(job[d])'
      BY DEF StoredInv
  <2>1. d # c /\ at[d] = "stored" /\ job'[d] = job[d]
      BY DEF Reply, DeliveryInv, TypeOK, QueueTypeOK
  <2> QED BY <2>1 DEF DeliveryInv, StoredInv, Notified
<1>3. NoEventLost'
    BY OnlyAckSettles DEF DeliveryInv, NoEventLost, Notified, Silent
<1> QED BY <1>1, <1>2, <1>3 DEF DeliveryInv

LEMMA DecodePreserves ==
    ASSUME DeliveryInv, NEW c \in Consumer, Decode(c) PROVE DeliveryInv'
<1>0. at[c] # "idle" /\ keys' \subseteq Event
    BY DEF Decode, serviceVars, DeliveryInv, TypeOK
<1>1. CASE job[c] \in Malformed /\ Reply(c, "dead")
    BY <1>0, <1>1, ReplyPreserves DEF Decode, serviceVars
<1>2. CASE job[c] \notin Malformed /\ Silent(job[c]) /\ Reply(c, "ack")
    BY <1>0, <1>2, ReplyPreserves DEF Decode, serviceVars
<1>3. CASE /\ Goto(c, IF Recipient[job[c]] = NoUser THEN "failed" ELSE "check_key")
           /\ UNCHANGED faults
  <2> DEFINE step == IF Recipient[job[c]] = NoUser THEN "failed" ELSE "check_key"
  <2>1. step \in HandlerSteps /\ step # "stored"
      BY DEF HandlerSteps
  <2>2. /\ faults' \in Nat /\ unguarded' \subseteq Event
        /\ UNCHANGED <<seen, unread>>
      BY <1>3 DEF Decode, serviceVars, DeliveryInv, TypeOK, QueueTypeOK
  <2> HIDE DEF step
  <2>3. Goto(c, step)
      BY <1>3 DEF step
  <2> QED BY <1>0, <2>1, <2>2, <2>3, MovePreserves
<1> QED BY <1>1, <1>2, <1>3 DEF Decode

LEMMA CheckKeyPreserves ==
    ASSUME DeliveryInv, NEW c \in Consumer, CheckKey(c) PROVE DeliveryInv'
<1>0. at[c] # "idle" /\ job[c] \in Event
    BY DEF CheckKey, DeliveryInv, TypeOK, QueueTypeOK
<1>1. keys' \subseteq Event
    BY <1>0 DEF CheckKey, DeliveryInv, TypeOK
<1>2. Goto(c, "create") /\ UNCHANGED faults   \* the duplicate branch is never taken
    BY DEF CheckKey, KeyReply
<1>3. "create" \in HandlerSteps
    BY DEF HandlerSteps
<1>4. /\ faults' \in Nat /\ unguarded' \subseteq Event
      /\ UNCHANGED <<seen, unread>>
    BY <1>2 DEF CheckKey, DeliveryInv, TypeOK, QueueTypeOK
<1> QED BY <1>0, <1>1, <1>2, <1>3, <1>4, MovePreserves

LEMMA CheckKeyFailsPreserves ==
    ASSUME DeliveryInv, NEW c \in Consumer, CheckKeyFails(c) PROVE DeliveryInv'
<1>0. at[c] # "idle" /\ job[c] \in Event
    BY DEF CheckKeyFails, DeliveryInv, TypeOK, QueueTypeOK
<1>1. keys' \subseteq Event /\ unguarded' \subseteq Event
    BY <1>0 DEF CheckKeyFails, DeliveryInv, TypeOK
<1>2. faults' \in Nat
    BY FaultTyped DEF CheckKeyFails, DeliveryInv, TypeOK, QueueTypeOK
<1>3. "create" \in HandlerSteps
    BY DEF HandlerSteps
<1>4. /\ Goto(c, "create")
      /\ UNCHANGED <<seen, unread>>
    BY DEF CheckKeyFails, DeliveryInv, TypeOK
<1> QED BY <1>0, <1>1, <1>2, <1>3, <1>4, MovePreserves

LEMMA CreatePreserves ==
    ASSUME DeliveryInv, NEW c \in Consumer, Create(c) PROVE DeliveryInv'
<1>0. at[c] # "idle" /\ "stored" \in HandlerSteps
    BY DEF Create, HandlerSteps
<1>1. /\ faults' \in Nat /\ keys' \subseteq Event /\ unguarded' \subseteq Event
      /\ UNCHANGED seen
    BY DEF Create, DeliveryInv, TypeOK, QueueTypeOK
<1>2. Goto(c, "stored") /\ StoreRow(job[c])
    BY DEF Create
<1> QED BY <1>0, <1>1, <1>2, MovePreserves

LEMMA CreateFailsPreserves ==
    ASSUME DeliveryInv, NEW c \in Consumer, CreateFails(c) PROVE DeliveryInv'
<1>0. at[c] # "idle" /\ "failed" \in HandlerSteps /\ job[c] \in Event
    BY DEF CreateFails, HandlerSteps, DeliveryInv, TypeOK, QueueTypeOK
<1>1. /\ keys' \subseteq Event /\ unguarded' \subseteq Event
      /\ UNCHANGED seen
    BY <1>0 DEF CreateFails, DeliveryInv, TypeOK
<1>2. faults' \in Nat
    BY FaultTyped DEF CreateFails, DeliveryInv, TypeOK, QueueTypeOK
<1>3. Goto(c, "failed") /\ (StoreRow(job[c]) \/ UNCHANGED unread)
    BY DEF CreateFails
<1> QED BY <1>0, <1>1, <1>2, <1>3, MovePreserves

LEMMA AnswerPreserves ==
    ASSUME DeliveryInv, NEW c \in Consumer, Acknowledge(c) \/ Reject(c)
    PROVE  DeliveryInv'
<1>0. keys' \subseteq Event /\ at[c] # "idle"
    BY DEF Acknowledge, Reject, serviceVars, DeliveryInv, TypeOK
<1>1. CASE Acknowledge(c)
  <2>1. Notified(job[c])
      BY <1>1 DEF Acknowledge, DeliveryInv, StoredInv
  <2> QED BY <1>0, <1>1, <2>1, ReplyPreserves DEF Acknowledge, serviceVars
<1>2. CASE Reject(c)
  <2>1. FailureVerdict(job[c]) # "ack"
      BY DEF FailureVerdict
  <2> QED BY <1>0, <1>2, <2>1, ReplyPreserves DEF Reject, serviceVars
<1> QED BY <1>1, <1>2

\* The queue's own steps leave the rows alone and settle nothing.
LEMMA QueuePreserves ==
    ASSUME DeliveryInv, UNCHANGED serviceVars,
           QueueEnvironment \/ (\E c \in Consumer : Deliver(c))
    PROVE  DeliveryInv'
<1>1. QueueTypeOK(HandlerSteps)'
    BY QueueEnvironmentTyped, DeliverTyped DEF DeliveryInv, TypeOK, HandlerSteps
<1>2. settled' = settled
    BY DEF QueueEnvironment, Publish, Deliver, ChannelCloses, PodRestarts
<1>3. \A d \in Consumer : at'[d] = "stored" => at[d] = "stored" /\ job'[d] = job[d]
  <2>1. ASSUME NEW c \in Consumer, Deliver(c), NEW d \in Consumer, at'[d] = "stored"
        PROVE  at[d] = "stored" /\ job'[d] = job[d]
      BY <2>1 DEF Deliver, DeliveryInv, TypeOK, QueueTypeOK
  <2>2. ASSUME NEW p \in Pod, PodRestarts(p), NEW d \in Consumer, at'[d] = "stored"
        PROVE  at[d] = "stored" /\ job'[d] = job[d]
      BY <2>2 DEF PodRestarts
  <2>3. ASSUME NEW p \in Pod, ChannelCloses(p) PROVE UNCHANGED <<at, job>>
      BY <2>3 DEF ChannelCloses
  <2>4. ASSUME NEW e \in Event, Publish(e) PROVE UNCHANGED <<at, job>>
      BY <2>4 DEF Publish
  <2> QED BY <2>1, <2>2, <2>3, <2>4 DEF QueueEnvironment
<1>4. TypeOK'
    BY <1>1 DEF DeliveryInv, TypeOK, serviceVars, HandlerSteps
<1>5. StoredInv'
    BY <1>3 DEF DeliveryInv, StoredInv, Notified, serviceVars
<1>6. NoEventLost'
    BY <1>2 DEF DeliveryInv, NoEventLost, Notified, Silent, serviceVars
<1> QED BY <1>4, <1>5, <1>6 DEF DeliveryInv

\* Reading moves rows from unread to seen: an event that notified stays so.
LEMMA ReadingPreserves ==
    ASSUME DeliveryInv, NEW u \in User, MarkRead(u) \/ MarkAllRead(u)
    PROVE  DeliveryInv'
<1>1. /\ unread' \in [Event -> Nat] /\ seen' \in [Event -> Nat]
      /\ \A e \in Event : unread'[e] + seen'[e] = unread[e] + seen[e]
  <2>1. CASE MarkRead(u)
    <3> PICK e \in Event : /\ unread[e] > 0
                           /\ unread' = [unread EXCEPT ![e] = @ - 1]
                           /\ seen' = [seen EXCEPT ![e] = @ + 1]
        BY <2>1 DEF MarkRead
    <3> QED BY DEF DeliveryInv, TypeOK
  <2>2. CASE MarkAllRead(u)
    <3>1. \A e \in Event : unread[e] \in Nat /\ seen[e] \in Nat
        BY DEF DeliveryInv, TypeOK
    <3> QED BY <2>2, <3>1 DEF MarkAllRead
  <2> QED BY <2>1, <2>2
<1>2. UNCHANGED <<queueVars, keys, unguarded>>
    BY DEF MarkRead, MarkAllRead
<1>3. \A e \in Event : Notified(e)' <=> Notified(e)
    BY <1>1 DEF Notified
<1>4. TypeOK'
    BY <1>1, <1>2 DEF DeliveryInv, TypeOK, QueueTypeOK, queueVars, Served
<1>5. StoredInv'
    BY <1>2, <1>3 DEF DeliveryInv, StoredInv, Notified, queueVars, TypeOK, QueueTypeOK
<1>6. NoEventLost'
    BY <1>2, <1>3 DEF DeliveryInv, NoEventLost, Silent, queueVars, TypeOK, QueueTypeOK
<1> QED BY <1>4, <1>5, <1>6 DEF DeliveryInv

LEMMA KeyExpiresPreserves ==
    ASSUME DeliveryInv, NEW e \in Event, KeyExpires(e) PROVE DeliveryInv'
BY DEF KeyExpires, DeliveryInv, TypeOK, QueueTypeOK, StoredInv, NoEventLost, Notified,
       Silent, queueVars, Served

LEMMA NextPreserves == DeliveryInv /\ [Next]_vars => DeliveryInv'
<1> SUFFICES ASSUME DeliveryInv, [Next]_vars PROVE DeliveryInv'
    OBVIOUS
<1>1. CASE QueueEnvironment /\ UNCHANGED serviceVars
    BY <1>1, QueuePreserves
<1>2. ASSUME NEW c \in Consumer, Take(c) PROVE DeliveryInv'
    BY <1>2, QueuePreserves DEF Take
<1>3. ASSUME NEW c \in Consumer, Handle(c) PROVE DeliveryInv'
    BY <1>3, DecodePreserves, CheckKeyPreserves, CheckKeyFailsPreserves,
       CreatePreserves, CreateFailsPreserves, AnswerPreserves DEF Handle
<1>4. ASSUME NEW e \in Event, KeyExpires(e) PROVE DeliveryInv'
    BY <1>4, KeyExpiresPreserves
<1>5. ASSUME NEW u \in User, MarkRead(u) \/ MarkAllRead(u) PROVE DeliveryInv'
    BY <1>5, ReadingPreserves
<1>6. CASE UNCHANGED vars
    BY <1>6 DEF vars, queueVars, serviceVars, DeliveryInv, TypeOK, QueueTypeOK,
       StoredInv, NoEventLost, Notified, Silent, Served
<1> QED BY <1>1, <1>2, <1>3, <1>4, <1>5, <1>6 DEF Next

\* Every state of notification-service satisfies the invariant: the variables have their
\* types, a handler about to acknowledge has stored its row, and no event got lost.
THEOREM DeliveryInvariant == Spec => []DeliveryInv
<1>1. Init => DeliveryInv
  <2> SUFFICES ASSUME Init PROVE DeliveryInv
      OBVIOUS
  <2>1. TypeOK
      BY QueueInitTyped DEF Init, TypeOK
  <2> QED BY <2>1 DEF Init, QueueInit, DeliveryInv, StoredInv, NoEventLost
<1> QED BY <1>1, NextPreserves, PTL DEF Spec

\* Every variable of notification-service keeps its type.
THEOREM NotificationTypeOK == Spec => []TypeOK
<1>1. DeliveryInv => TypeOK
    BY DEF DeliveryInv
<1> QED BY <1>1, DeliveryInvariant, PTL

\* task_assigned_consumer.go acknowledges only after CreateNotification stored the
\* row: whatever fails, no event that names a user leaves the queue unnotified.
THEOREM NoNotificationLost == Spec => []NoEventLost
<1>1. DeliveryInv => NoEventLost
    BY DEF DeliveryInv
<1> QED BY <1>1, DeliveryInvariant, PTL

LEMMA NotificationMoves ==
    ASSUME DeliveryInv, [Next]_vars
    PROVE  QueueMoves
<1>1. ASSUME NEW c \in Consumer, Handle(c) PROVE QueueMoves
  <2>1. CASE Decode(c)
    <3>1. \/ job[c] \in Malformed /\ Reply(c, "dead")
          \/ Reply(c, "ack")
          \/ UNCHANGED <<ready, unacked, settled, dead>>
        BY <2>1 DEF Decode, Goto
    <3> QED BY <3>1 DEF QueueMoves
  <2>2. CASE CheckKey(c)
      BY <2>2 DEF CheckKey, KeyReply, Goto, QueueMoves
  <2>3. CASE CheckKeyFails(c) \/ Create(c) \/ CreateFails(c)
      BY <2>3 DEF CheckKeyFails, Create, CreateFails, Goto, QueueMoves
  <2>4. CASE Acknowledge(c)
      BY <2>4 DEF Acknowledge, QueueMoves
  <2>5. CASE Reject(c)
      BY <2>5, FailuresAreRequeued DEF Reject, QueueMoves
  <2> QED BY <1>1, <2>1, <2>2, <2>3, <2>4, <2>5 DEF Handle
<1>2. CASE QueueEnvironment
    BY <1>2 DEF QueueEnvironment, QueueMoves
<1>3. ASSUME NEW c \in Consumer, Take(c) PROVE QueueMoves
    BY <1>3 DEF Take, QueueMoves
<1>4. CASE UNCHANGED queueVars
    BY <1>4 DEF queueVars, QueueMoves
<1>5. ASSUME NEW e \in Event, KeyExpires(e) PROVE QueueMoves
    BY <1>4, <1>5 DEF KeyExpires
<1>6. ASSUME NEW u \in User, MarkRead(u) \/ MarkAllRead(u) PROVE QueueMoves
    BY <1>4, <1>6 DEF MarkRead, MarkAllRead
<1> QED BY <1>1, <1>2, <1>3, <1>4, <1>5, <1>6 DEF Next, vars

\* The documents end the retries after three failures, with the dead-letter queue. The
\* code never does: x-death does not count what is requeued. Only what cannot be read
\* is dead-lettered, and everything else stays in the queue until it is acknowledged.
THEOREM NotificationRetriesNeverEnd ==
    Spec => [](dead \subseteq Malformed) /\ [][LeavesByAck]_vars
<1>1. Init => dead \subseteq Malformed
    BY DEF Init, QueueInit
<1>2. DeliveryInv /\ [Next]_vars => LeavesByAck /\ dead' \subseteq dead \cup Malformed
  <2> SUFFICES ASSUME DeliveryInv, [Next]_vars
               PROVE  LeavesByAck /\ dead' \subseteq dead \cup Malformed
      OBVIOUS
  <2>1. QueueTypeOK(HandlerSteps)
      BY DEF DeliveryInv, TypeOK, HandlerSteps
  <2> QED BY <2>1, NotificationMoves, MovesKeepMessages
<1>3. DeliveryInv /\ dead \subseteq Malformed /\ [Next]_vars => (dead \subseteq Malformed)'
    BY <1>2
<1>4. DeliveryInv /\ [Next]_vars => [LeavesByAck]_vars
    BY <1>2
<1> QED BY <1>1, <1>3, <1>4, DeliveryInvariant, PTL DEF Spec

\* notification-service treats its queues as the bus promises: a message is owed, through
\* failures and restarts, until it is handled once or lies in its dead-letter queue.
THEOREM NotificationImplementsDelivery == Spec => QueuesImplementDelivery
<1>1. Init => OnePlace /\ Broker!Init
    BY QueuesStart DEF Init
<1>2. DeliveryInv /\ OnePlace /\ [Next]_vars => OnePlace' /\ [Broker!Next]_Broker!vars
  <2> SUFFICES ASSUME DeliveryInv, OnePlace, [Next]_vars
               PROVE  OnePlace' /\ [Broker!Next]_Broker!vars
      OBVIOUS
  <2>1. QueueTypeOK(HandlerSteps)
      BY DEF DeliveryInv, TypeOK, HandlerSteps
  <2> QED BY <2>1, NotificationMoves, MovesKeepPlaces, MovesImplementDelivery
<1> QED BY <1>1, <1>2, DeliveryInvariant, PTL DEF Spec, QueuesImplementDelivery, Broker!Spec

(*****************************************************************************)
(* How many notifications one event makes                                    *)
(*****************************************************************************)

\* Goroutines that may still store a row for e, or bring e back to the queue.
Promising(e) ==
    {c \in Consumer : /\ job[c] = e
                      /\ \/ at[c] \in {"received", "check_key", "create"}
                         \/ at[c] = "failed" /\ e \in unacked[PodOf(c)]}

One(condition) == IF condition THEN 1 ELSE 0

Rows(e) == unread[e] + seen[e]

\* The rows of an event, and those that are on their way, are paid for by its publication
\* and by failures.
RowsArePaid ==
    \A e \in Event :
        /\ IsFiniteSet(Promising(e))
        /\ Rows(e) + Cardinality(Promising(e)) + One(e \in ready) <= faults + One(e \in Published)

LEMMA PromiseParts ==
    ASSUME TypeOK, RowsArePaid, NEW e \in Event
    PROVE  /\ Rows(e) \in Nat /\ faults \in Nat
           /\ IsFiniteSet(Promising(e)) /\ Cardinality(Promising(e)) \in Nat
           /\ Rows(e) + Cardinality(Promising(e)) + One(e \in ready) <= faults + One(e \in Published)
BY FS_CardinalityType DEF TypeOK, QueueTypeOK, RowsArePaid, Rows

\* What a step may do for an event: nothing without a failure or a publication, turn the
\* waiting message into a promise, or redeem a promise.
Affordable(e) ==
    \/ /\ Promising(e)' \subseteq Promising(e)
       /\ Rows(e)' + One(e \in ready') + faults + One(e \in Published)
              <= Rows(e) + One(e \in ready) + faults' + One(e \in Published')
    \/ \E c : /\ Promising(e)' \subseteq Promising(e) \cup {c}
              /\ e \in ready /\ e \notin ready' /\ Rows(e)' = Rows(e) /\ faults' = faults
    \/ \E c : /\ c \in Promising(e) /\ Promising(e)' \subseteq Promising(e) \ {c}
              /\ Rows(e)' + One(e \in ready') <= Rows(e) + One(e \in ready) + 1
              /\ faults' = faults

LEMMA PaidStep ==
    ASSUME TypeOK, RowsArePaid, NEW e \in Event, faults' \in Nat, Rows(e)' \in Nat,
           e \in Published => e \in Published',
           Affordable(e)
    PROVE  /\ IsFiniteSet(Promising(e)')
           /\ Rows(e)' + Cardinality(Promising(e)') + One(e \in ready')
                  <= faults' + One(e \in Published')
<1> DEFINE P == Promising(e)
           n == Cardinality(P)
<1>0. /\ Rows(e) \in Nat /\ faults \in Nat /\ IsFiniteSet(P) /\ n \in Nat
      /\ Rows(e) + n + One(e \in ready) <= faults + One(e \in Published)
    BY PromiseParts
<1>1. \A b : One(b) \in {0, 1}
    BY DEF One
<1>2. CASE /\ P' \subseteq P
           /\ Rows(e)' + One(e \in ready') + faults + One(e \in Published)
                  <= Rows(e) + One(e \in ready) + faults' + One(e \in Published')
  <2>1. IsFiniteSet(P') /\ Cardinality(P') \in Nat /\ Cardinality(P') <= n
      BY <1>0, <1>2, FS_Subset, FS_CardinalityType
  <2>2. Rows(e)' + Cardinality(P') + One(e \in ready') <= faults' + One(e \in Published')
    <3> HIDE DEF P
    <3> QED BY <1>0, <1>1, <1>2, <2>1
  <2> QED BY <2>1, <2>2
<1>3. ASSUME NEW c, P' \subseteq P \cup {c},
             e \in ready, e \notin ready', Rows(e)' = Rows(e), faults' = faults
      PROVE  /\ IsFiniteSet(P')
             /\ Rows(e)' + Cardinality(P') + One(e \in ready') <= faults' + One(e \in Published')
  <2>1. IsFiniteSet(P \cup {c}) /\ Cardinality(P \cup {c}) \in {n, n + 1}
      BY <1>0, FS_AddElement
  <2>2. IsFiniteSet(P') /\ Cardinality(P') \in Nat /\ Cardinality(P') <= n + 1
      BY <1>0, <1>3, <2>1, FS_Subset, FS_CardinalityType
  <2>3. One(e \in ready) = 1 /\ One(e \in ready') = 0 /\ One(e \in Published) <= One(e \in Published')
      BY <1>3 DEF One
  <2> HIDE DEF P
  <2> QED BY <1>0, <1>1, <1>3, <2>2, <2>3
<1>4. ASSUME NEW c \in P, P' \subseteq P \ {c},
             Rows(e)' + One(e \in ready') <= Rows(e) + One(e \in ready) + 1, faults' = faults
      PROVE  /\ IsFiniteSet(P')
             /\ Rows(e)' + Cardinality(P') + One(e \in ready') <= faults' + One(e \in Published')
  <2>1. IsFiniteSet(P \ {c}) /\ Cardinality(P \ {c}) = n - 1
      BY <1>0, FS_RemoveElement
  <2>2. IsFiniteSet(P') /\ Cardinality(P') \in Nat /\ Cardinality(P') <= n - 1
      BY <1>4, <2>1, FS_Subset, FS_CardinalityType
  <2>3. One(e \in Published) <= One(e \in Published')
      BY DEF One
  <2> HIDE DEF P
  <2> QED BY <1>0, <1>1, <1>4, <2>2, <2>3
<1> QED BY <1>2, <1>3, <1>4 DEF Affordable

\* No step costs more than it has.
LEMMA NothingChangesForIt ==
    ASSUME TypeOK, RowsArePaid, NEW e \in Event, Promising(e)' \subseteq Promising(e),
           e \in ready' => e \in ready, Rows(e)' = Rows(e), faults' \in Nat, faults <= faults',
           e \in Published => e \in Published'
    PROVE  Affordable(e)
<1>1. Rows(e) \in Nat /\ faults \in Nat /\ \A b : One(b) \in {0, 1}
    BY PromiseParts DEF One
<1>2. One(e \in ready') <= One(e \in ready) /\ One(e \in Published) <= One(e \in Published')
    BY DEF One
<1> QED BY <1>1, <1>2 DEF Affordable

LEMMA FailureAffordable ==
    ASSUME TypeOK, RowsArePaid, NEW e \in Event, Promising(e)' \subseteq Promising(e), Fault,
           \/ Rows(e)' = Rows(e)
           \/ Rows(e)' = Rows(e) + 1 /\ ready' = ready,
           e \in Published => e \in Published'
    PROVE  Affordable(e)
<1>1. Rows(e) \in Nat /\ faults \in Nat /\ faults' = faults + 1 /\ \A b : One(b) \in {0, 1}
    BY PromiseParts DEF One, Fault
<1>2. One(e \in Published) <= One(e \in Published')
    BY DEF One
<1> QED BY <1>1, <1>2 DEF Affordable

LEMMA DeliverAffordable ==
    ASSUME TypeOK, RowsArePaid, NEW c \in Consumer, Deliver(c), UNCHANGED <<unread, seen>>,
           NEW e \in Event, e \in Published => e \in Published'
    PROVE  Affordable(e)
<1>1. PICK f \in ready : /\ QueueOf[f] = Served(c)
                         /\ ready' = ready \ {f}
                         /\ unacked' = [unacked EXCEPT ![PodOf(c)] = @ \cup {f}]
                         /\ job' = [job EXCEPT ![c] = f]
    BY DEF Deliver
<1>2. /\ \A d \in Consumer : d # c => at'[d] = at[d] /\ job'[d] = job[d]
      /\ job'[c] = f /\ PodOf(c) \in Pod /\ at[c] = "idle"
      /\ \A p \in Pod : unacked'[p] = IF p = PodOf(c) THEN unacked[p] \cup {f} ELSE unacked[p]
      /\ Rows(e)' = Rows(e) /\ faults' = faults /\ faults \in Nat
    BY <1>1, ConsumerParts DEF Deliver, TypeOK, QueueTypeOK, Rows
<1>3. CASE e # f
  <2>1. Promising(e)' \subseteq Promising(e)
    <3> SUFFICES ASSUME NEW d \in Promising(e)' PROVE d \in Promising(e)
        OBVIOUS
    <3>1. d \in Consumer /\ d # c /\ at'[d] = at[d] /\ job'[d] = job[d] /\ PodOf(d) \in Pod
        BY <1>2, <1>3, ConsumerParts DEF Promising
    <3> QED BY <1>2, <1>3, <3>1 DEF Promising
  <2> QED BY <1>1, <1>2, <2>1, NothingChangesForIt
<1>4. CASE e = f
  <2>1. Promising(e)' \subseteq Promising(e) \cup {c}
    <3> SUFFICES ASSUME NEW d \in Promising(e)', d # c PROVE d \in Promising(e)
        OBVIOUS
    <3>1. d \in Consumer /\ at'[d] = at[d] /\ job'[d] = job[d] /\ job[d] = e /\ PodOf(d) \in Pod
          /\ at[d] # "idle"
        BY <1>2, ConsumerParts DEF Promising
    <3>2. QueueOf[e] = Served(d)
        BY <3>1 DEF TypeOK, QueueTypeOK
    <3>3. Served(d) = Served(c) /\ d # c
        BY <1>1, <1>2, <1>4, <3>1, <3>2
    <3>4. PodOf(d) # PodOf(c)
        BY <3>1, <3>3 DEF Consumer, PodOf, Served
    <3>5. unacked'[PodOf(d)] = unacked[PodOf(d)]
        BY <1>2, <3>1, <3>4
    <3> QED BY <3>1, <3>5 DEF Promising
  <2> QED BY <1>1, <1>2, <1>4, <2>1 DEF Affordable
<1> QED BY <1>3, <1>4

\* The handler goes on without a row.
LEMMA GotoAffordable ==
    ASSUME TypeOK, RowsArePaid, NEW c \in Consumer, NEW step \in {"check_key", "create", "failed"},
           at[c] \in {"received", "check_key", "create"}, Goto(c, step),
           NEW e \in Event
    PROVE  Promising(e)' \subseteq Promising(e)
<1> SUFFICES ASSUME NEW d \in Promising(e)' PROVE d \in Promising(e)
    OBVIOUS
<1>1. d \in Consumer /\ job[d] = e /\ UNCHANGED <<job, unacked>> /\ (d # c => at'[d] = at[d])
    BY DEF Promising, Goto, TypeOK, QueueTypeOK
<1> QED BY <1>1 DEF Promising

LEMMA CreateAffordable ==
    ASSUME TypeOK, RowsArePaid, NEW c \in Consumer, Create(c),
           NEW e \in Event, e \in Published => e \in Published'
    PROVE  Affordable(e)
<1>1. /\ at[c] = "create" /\ at'[c] = "stored"
      /\ \A d \in Consumer : d # c => at'[d] = at[d]
      /\ UNCHANGED <<ready, unacked, job, faults>> /\ faults \in Nat
      /\ Rows(e)' = IF e = job[c] THEN Rows(e) + 1 ELSE Rows(e)
    BY DEF Create, Goto, StoreRow, Rows, TypeOK, QueueTypeOK
<1>2. Promising(e)' \subseteq Promising(e) \ {c}
  <2> SUFFICES ASSUME NEW d \in Promising(e)' PROVE d \in Promising(e) /\ d # c
      OBVIOUS
  <2>1. d \in Consumer /\ d # c /\ at'[d] = at[d]
      BY <1>1 DEF Promising
  <2> QED BY <1>1, <2>1 DEF Promising
<1>3. CASE e # job[c]
    BY <1>1, <1>2, <1>3, NothingChangesForIt
<1>4. CASE e = job[c]
  <2>1. c \in Promising(e)
      BY <1>1, <1>4 DEF Promising
  <2>2. Rows(e) \in Nat /\ One(e \in ready) \in Nat
      BY PromiseParts DEF One
  <2>3. Rows(e)' + One(e \in ready') <= Rows(e) + One(e \in ready) + 1
      BY <1>1, <1>4, <2>2
  <2> QED BY <1>1, <1>2, <2>1, <2>3 DEF Affordable
<1> QED BY <1>3, <1>4

\* The answer takes the promise of the goroutine; a requeue makes the message wait.
LEMMA ReplyAffordable ==
    ASSUME TypeOK, RowsArePaid, NEW c \in Consumer, NEW verdict, Reply(c, verdict),
           at[c] # "idle", verdict = "requeue" => at[c] = "failed",
           UNCHANGED <<unread, seen>>, NEW e \in Event, e \in Published => e \in Published'
    PROVE  Affordable(e)
<1> DEFINE answered == IF job[c] \in unacked[PodOf(c)] THEN {job[c]} ELSE {}
<1>1. /\ unacked' = [unacked EXCEPT ![PodOf(c)] = @ \ answered]
      /\ ready' = ready \cup {x \in answered : verdict = "requeue"}
      /\ at' = [at EXCEPT ![c] = "idle"] /\ job' = [job EXCEPT ![c] = None]
      /\ faults' = faults /\ faults \in Nat /\ Rows(e)' = Rows(e)
    BY DEF Reply, TypeOK, QueueTypeOK, Rows
<1>2. Promising(e)' \subseteq Promising(e) \ {c}
  <2> SUFFICES ASSUME NEW d \in Promising(e)' PROVE d \in Promising(e) /\ d # c
      OBVIOUS
  <2>1. d \in Consumer /\ d # c /\ at'[d] = at[d] /\ job'[d] = job[d] /\ PodOf(d) \in Pod
      BY <1>1, ConsumerParts DEF Promising, TypeOK, QueueTypeOK
  <2>2. unacked'[PodOf(d)] \subseteq unacked[PodOf(d)]
      BY <1>1, <2>1 DEF TypeOK, QueueTypeOK
  <2> QED BY <2>1, <2>2 DEF Promising
<1>3. CASE e \in ready' => e \in ready
    BY <1>1, <1>2, <1>3, NothingChangesForIt
<1>4. CASE e \in ready' /\ e \notin ready
  <2>1. e = job[c] /\ e \in unacked[PodOf(c)] /\ at[c] = "failed"
      BY <1>1, <1>4
  <2>2. c \in Promising(e)
      BY <2>1 DEF Promising
  <2>3. Rows(e)' + One(e \in ready') <= Rows(e) + One(e \in ready) + 1
      BY <1>1, <1>4, PromiseParts DEF One
  <2> QED BY <1>1, <1>2, <2>2, <2>3 DEF Affordable
<1> QED BY <1>3, <1>4

LEMMA GivingBackAffordable ==
    ASSUME TypeOK, RowsArePaid, NEW p \in Pod, ChannelCloses(p) \/ PodRestarts(p),
           UNCHANGED <<unread, seen>>, NEW e \in Event, e \in Published => e \in Published'
    PROVE  Affordable(e)
<1>1. /\ Fault /\ Rows(e)' = Rows(e)
      /\ \A q \in Pod : unacked'[q] \subseteq unacked[q]
      /\ \A d \in Consumer : at'[d] # "idle" => at'[d] = at[d] /\ job'[d] = job[d]
    BY DEF ChannelCloses, PodRestarts, Rows, TypeOK, QueueTypeOK
<1>2. Promising(e)' \subseteq Promising(e)
  <2> SUFFICES ASSUME NEW d \in Promising(e)' PROVE d \in Promising(e)
      OBVIOUS
  <2>1. d \in Consumer /\ at'[d] = at[d] /\ job'[d] = job[d] /\ PodOf(d) \in Pod
      BY <1>1, ConsumerParts DEF Promising
  <2> QED BY <1>1, <2>1 DEF Promising
<1> QED BY <1>1, <1>2, FailureAffordable

LEMMA PublishAffordable ==
    ASSUME TypeOK, RowsArePaid, NEW f \in Event, Publish(f),
           UNCHANGED <<unread, seen>>, NEW e \in Event, e \in Published => e \in Published'
    PROVE  Affordable(e)
<1>1. /\ f \notin Published /\ ready' = ready \cup {f} /\ faults' = faults
      /\ faults \in Nat /\ Rows(e)' = Rows(e)
      /\ Promising(e)' = Promising(e)
    BY DEF Publish, Promising, Rows, TypeOK, QueueTypeOK
<1>2. CASE e # f
    BY <1>1, <1>2, NothingChangesForIt
<1>3. CASE e = f
  <2>1. e \notin ready /\ e \in ready' /\ e \notin Published /\ e \in Published'
      BY <1>1, <1>3 DEF Published
  <2> QED BY <1>1, <2>1, PromiseParts DEF Affordable, One
<1> QED BY <1>2, <1>3

LEMMA HandleAffordable ==
    ASSUME TypeOK, RowsArePaid, NEW c \in Consumer, Handle(c), faults' \in Nat,
           NEW e \in Event, e \in Published => e \in Published'
    PROVE  Affordable(e)
<1>0. faults \in Nat
    BY DEF TypeOK, QueueTypeOK
<1>1. CASE Decode(c)
  <2>1. /\ at[c] = "received" /\ UNCHANGED <<unread, seen>> /\ Rows(e)' = Rows(e)
        /\ \/ Reply(c, "dead") \/ Reply(c, "ack")
           \/ /\ \E step \in {"failed", "check_key"} : Goto(c, step)
              /\ UNCHANGED <<faults, ready>>
      BY <1>1 DEF Decode, serviceVars, Rows, Goto
  <2> QED BY <1>0, <2>1, ReplyAffordable, GotoAffordable, NothingChangesForIt
<1>2. CASE CheckKey(c)
  <2>1. /\ at[c] = "check_key" /\ Rows(e)' = Rows(e)
        /\ Goto(c, "create") /\ UNCHANGED <<faults, ready>>
      BY <1>2 DEF CheckKey, KeyReply, Rows, Goto
  <2> QED BY <1>0, <2>1, GotoAffordable, NothingChangesForIt
<1>3. CASE CheckKeyFails(c)
  <2>1. at[c] = "check_key" /\ Fault /\ Rows(e)' = Rows(e) /\ Goto(c, "create")
      BY <1>3 DEF CheckKeyFails, Rows
  <2> QED BY <2>1, GotoAffordable, FailureAffordable
<1>4. CASE Create(c)
    BY <1>4, CreateAffordable
<1>5. CASE CreateFails(c)
  <2>1. at[c] = "create" /\ Fault /\ Goto(c, "failed") /\ ready' = ready
      BY <1>5 DEF CreateFails, Goto
  <2>2. Rows(e)' = Rows(e) \/ Rows(e)' = Rows(e) + 1
      BY <1>5 DEF CreateFails, StoreRow, Rows, TypeOK
  <2> QED BY <2>1, <2>2, GotoAffordable, FailureAffordable
<1>6. CASE Acknowledge(c)
    BY <1>6, ReplyAffordable DEF Acknowledge, serviceVars
<1>7. CASE Reject(c)
    BY <1>7, ReplyAffordable DEF Reject, serviceVars
<1> QED BY <1>1, <1>2, <1>3, <1>4, <1>5, <1>6, <1>7 DEF Handle

LEMMA RowsStayPaid ==
    ASSUME DeliveryInv, RowsArePaid, [Next]_vars
    PROVE  RowsArePaid'
<1>0. /\ TypeOK /\ TypeOK' /\ faults' \in Nat /\ faults \in Nat
      /\ \A e \in Event : Rows(e)' \in Nat
    BY NextPreserves DEF DeliveryInv, TypeOK, QueueTypeOK, Rows
<1>1. Published \subseteq Published'
  <2>1. QueueTypeOK(HandlerSteps)
      BY <1>0 DEF TypeOK, HandlerSteps
  <2> QED BY <2>1, NotificationMoves, MovesKeepMessages
<1>2. ASSUME NEW e \in Event PROVE Affordable(e)
  <2>1. CASE QueueEnvironment /\ UNCHANGED serviceVars
      BY <1>0, <1>1, <2>1, PublishAffordable, GivingBackAffordable DEF QueueEnvironment, serviceVars
  <2>2. ASSUME NEW c \in Consumer, Take(c) PROVE Affordable(e)
      BY <1>0, <1>1, <2>2, DeliverAffordable DEF Take, serviceVars
  <2>3. ASSUME NEW c \in Consumer, Handle(c) PROVE Affordable(e)
      BY <1>0, <1>1, <2>3, HandleAffordable
  <2>4. CASE UNCHANGED queueVars /\ Rows(e)' = Rows(e)
    <3>1. Promising(e)' = Promising(e) /\ UNCHANGED <<ready, faults>>
        BY <2>4 DEF Promising, queueVars
    <3> QED BY <1>0, <1>1, <2>4, <3>1, NothingChangesForIt
  <2>5. ASSUME NEW f \in Event, KeyExpires(f) PROVE Affordable(e)
      BY <2>4, <2>5 DEF KeyExpires, Rows
  <2>6. ASSUME NEW u \in User, MarkRead(u) \/ MarkAllRead(u) PROVE Affordable(e)
    <3>1. CASE MarkRead(u)
      <4>1. PICK f \in Event : /\ unread[f] > 0
                               /\ unread' = [unread EXCEPT ![f] = @ - 1]
                               /\ seen' = [seen EXCEPT ![f] = @ + 1]
                               /\ UNCHANGED queueVars
          BY <3>1 DEF MarkRead
      <4>2. Rows(e)' = Rows(e)
          BY <1>0, <4>1 DEF Rows, TypeOK
      <4> QED BY <2>4, <4>1, <4>2
    <3>2. CASE MarkAllRead(u)
      <4>1. Rows(e)' = Rows(e)
          BY <1>0, <3>2 DEF Rows, MarkAllRead, TypeOK
      <4> QED BY <2>4, <3>2, <4>1 DEF MarkAllRead
    <3> QED BY <2>6, <3>1, <3>2
  <2>7. CASE UNCHANGED vars
      BY <2>4, <2>7 DEF vars, serviceVars, Rows
  <2> QED BY <2>1, <2>2, <2>3, <2>5, <2>6, <2>7 DEF Next
<1> QED BY <1>0, <1>1, <1>2, PaidStep DEF RowsArePaid

\* One event makes one notification where nothing fails, and at most one more with each
\* failure, however long its retries go on.
THEOREM DuplicatesArePaidFor == Spec => []DuplicatesCostFailures
<1>1. Init => RowsArePaid
  <2> SUFFICES ASSUME Init, NEW e \in Event
               PROVE  /\ IsFiniteSet(Promising(e))
                      /\ Rows(e) + Cardinality(Promising(e)) + One(e \in ready)
                             <= faults + One(e \in Published)
      BY DEF RowsArePaid
  <2>1. Promising(e) = {}
      BY DEF Init, QueueInit, Promising
  <2>2. IsFiniteSet(Promising(e)) /\ Cardinality(Promising(e)) = 0
      BY <2>1, FS_EmptySet
  <2> QED BY <2>2 DEF Init, QueueInit, Rows, One
<1>2. DeliveryInv /\ RowsArePaid => DuplicatesCostFailures
  <2> SUFFICES ASSUME DeliveryInv, RowsArePaid, NEW e \in Event
               PROVE  unread[e] + seen[e] <= 1 + faults
      BY DEF DuplicatesCostFailures
  <2> QED BY PromiseParts DEF DeliveryInv, Rows, One
<1>3. DeliveryInv /\ RowsArePaid /\ [Next]_vars => RowsArePaid'
    BY RowsStayPaid
<1> QED BY <1>1, <1>2, <1>3, DeliveryInvariant, PTL DEF Spec
-------------------------------------------------------------------------------
(*****************************************************************************)
(* ReportService                                                             *)
(*****************************************************************************)

\* A goroutine at work holds its message on the channel of its pod, or the channel
\* closed under it and the message was given back.
HeldOrOrphaned ==
    \A c \in Consumer : at[c] # "idle" => job[c] \in unacked[PodOf(c)] \cup orphaned

\* The row of a job is stored before anyone can ask for its report.
RowsBeforeMessages ==
    \A j \in Job : rows[j] = "none" =>
        /\ asking[j] = None
        /\ j \notin Published
        /\ \A c \in Consumer : at[c] # "idle" => job[c] # j

\* The upload comes before the row and the event that tell of it.
UploadedBeforeReady ==
    \A c \in Consumer : at[c] \in {"mark_ready", "announce"} => job[c] \in objects

\* A goroutine that may acknowledge finds its job ready as it left it, unless
\* another one has the message too.
ReadyBeforeAck ==
    \A c \in Consumer : at[c] \in {"announce", "generated"} =>
        rows[job[c]] = "ready" \/ job[c] \in orphaned

ReportInv ==
    /\ ReportTypeOK
    /\ OnePlace
    /\ HeldOrOrphaned
    /\ RowsBeforeMessages
    /\ UploadedBeforeReady
    /\ ReadyBeforeAck
    /\ ReadyReportsExist
    /\ AckedReportsReady

GeneratorSteps == {"upload", "mark_ready", "announce", "generated", "failed"}

LEMMA ReportParts ==
    ASSUME ReportInv
    PROVE  /\ QueueTypeOK(GeneratorSteps)
           /\ \A c \in Consumer : at[c] # "idle" =>
                  job[c] \in Event /\ QueueOf[job[c]] = Served(c) /\ PodOf(c) \in Pod
           /\ \A c \in Consumer : PodOf(c) \in Pod
BY ConsumerParts DEF ReportInv, ReportTypeOK, QueueTypeOK, GeneratorSteps

\* Two goroutines of one pod serve different queues; a message whose channel never
\* closed under a goroutine is with one of them only.
LEMMA OnlyHolder ==
    ASSUME ReportInv, NEW c \in Consumer, NEW d \in Consumer,
           at[c] # "idle", at[d] # "idle", job[c] = job[d]
    PROVE  job[c] \in orphaned \/ c = d
<1> SUFFICES ASSUME job[c] \notin orphaned PROVE c = d
    OBVIOUS
<1>1. job[c] \in unacked[PodOf(c)] /\ job[c] \in unacked[PodOf(d)]
    BY DEF ReportInv, HeldOrOrphaned
<1>2. PodOf(c) = PodOf(d)
    BY <1>1, ReportParts DEF ReportInv, OnePlace
<1>3. Served(c) = Served(d)
    BY ReportParts
<1> QED BY <1>2, <1>3 DEF Consumer, PodOf, Served

\* A step of the generator between delivery and answer: it may set the row of its
\* job, store its report, its URL and its event.
LEMMA GeneratorMoves ==
    ASSUME ReportInv, NEW c \in Consumer, NEW step \in GeneratorSteps,
           at[c] # "idle", Goto(c, step), faults' \in Nat, UNCHANGED <<asking, orphaned>>,
           \/ UNCHANGED rows
           \/ job[c] \in Job /\ \E status \in Status : SetStatus(job[c], status),
           objects \subseteq objects', objects' \subseteq Job,
           urls' \subseteq Job, completed' \subseteq Job,
           step # "failed" => job[c] \in Job,
           step \in {"mark_ready", "announce"} => job[c] \in objects',
           step \in {"announce", "generated"} =>
               rows'[job[c]] = "ready" \/ job[c] \in orphaned,
           \A j \in Job : rows'[j] = "ready" \/ j \in urls' \/ j \in completed' =>
               j \in objects'
    PROVE  ReportInv'
<1> USE ReportParts
<1>0. /\ at' \in [Consumer -> GeneratorSteps \cup {"idle", "received"}]
      /\ at'[c] = step /\ step # "idle" /\ step # "received"
      /\ \A d \in Consumer : d # c => at'[d] = at[d]
      /\ UNCHANGED <<ready, unacked, settled, dead, channel, job>>
    BY DEF Goto, QueueTypeOK, GeneratorSteps
<1>1. rows' \in [Job -> Status \cup {"none"}]
    BY DEF SetStatus, ReportInv, ReportTypeOK, Status
<1>2. \A j \in Job : /\ j # job[c] => rows'[j] = rows[j]
                     /\ rows'[j] = "none" <=> rows[j] = "none"
    BY DEF SetStatus, ReportInv, ReportTypeOK, Status
<1>3. ReportTypeOK'
  <2>1. QueueTypeOK(GeneratorSteps)'
      BY GotoTyped
  <2>2. \A d \in Consumer : at'[d] \in {"upload", "mark_ready", "announce", "generated"}
            => job'[d] \in Job
      BY <1>0 DEF ReportInv, ReportTypeOK
  <2> QED BY <1>1, <2>1, <2>2 DEF ReportInv, ReportTypeOK, GeneratorSteps
<1>4. OnePlace' /\ HeldOrOrphaned'
    BY <1>0 DEF ReportInv, OnePlace, HeldOrOrphaned
<1>5. RowsBeforeMessages'
    BY <1>0, <1>2 DEF ReportInv, RowsBeforeMessages, Published
<1>6. UploadedBeforeReady'
    BY <1>0 DEF ReportInv, UploadedBeforeReady
<1>7. ReadyBeforeAck'
  <2> SUFFICES ASSUME NEW d \in Consumer, d # c, at[d] \in {"announce", "generated"},
                      job[d] \notin orphaned
               PROVE  rows'[job[d]] = "ready"
      BY <1>0 DEF ReadyBeforeAck
  <2>1. job[d] # job[c]
      BY OnlyHolder
  <2>2. job[d] \in Job /\ rows[job[d]] = "ready"
      BY DEF ReportInv, ReportTypeOK, ReadyBeforeAck
  <2> QED BY <2>1, <2>2, <1>2
<1>8. ReadyReportsExist'
    BY DEF ReadyReportsExist
<1>9. AckedReportsReady'
  <2> SUFFICES ASSUME NEW j \in Job \cap settled, j \notin orphaned PROVE rows'[j] = "ready"
      BY <1>0 DEF AckedReportsReady
  <2>1. j # job[c]
      BY DEF ReportInv, HeldOrOrphaned, OnePlace
  <2> QED BY <2>1, <1>2 DEF ReportInv, AckedReportsReady
<1> QED BY <1>3, <1>4, <1>5, <1>6, <1>7, <1>8, <1>9 DEF ReportInv

\* An answer: Ack only from "generated", and no row changes.
LEMMA GeneratorReplies ==
    ASSUME ReportInv, NEW c \in Consumer, NEW verdict, at[c] # "idle",
           Reply(c, verdict), UNCHANGED jobVars,
           verdict = "ack" => at[c] = "generated"
    PROVE  ReportInv'
<1> USE ReportParts
<1>0. /\ at' = [at EXCEPT ![c] = "idle"] /\ job' = [job EXCEPT ![c] = None]
      /\ UNCHANGED <<rows, urls, objects, asking, completed, orphaned>>
    BY DEF Reply, jobVars
<1>1. \A d \in Consumer : at'[d] # "idle" => d # c /\ at'[d] = at[d] /\ job'[d] = job[d]
    BY <1>0 DEF QueueTypeOK
<1>2. ReportTypeOK'
  <2>1. QueueTypeOK(GeneratorSteps)'
      BY ReplyTyped
  <2> QED BY <2>1, <1>0, <1>1 DEF ReportInv, ReportTypeOK, GeneratorSteps
<1>3. OnePlace'
    BY ReplyPlaced DEF ReportInv
<1>4. HeldOrOrphaned'
  <2> SUFFICES ASSUME NEW d \in Consumer, at'[d] # "idle", job[d] \notin orphaned
               PROVE  job[d] \in unacked'[PodOf(d)]
      BY <1>0, <1>1 DEF HeldOrOrphaned
  <2>1. job[d] # job[c]
      BY <1>1, OnlyHolder
  <2>2. job[d] \in unacked[PodOf(d)]
      BY <1>1 DEF ReportInv, HeldOrOrphaned
  <2> QED BY <2>1, <2>2 DEF Reply, QueueTypeOK
<1>5. Published' \subseteq Published
  <2>1. \A p \in Pod : unacked'[p] \subseteq unacked[p]
      BY DEF Reply, QueueTypeOK
  <2>2. ready' \cup settled' \cup dead' \subseteq ready \cup settled \cup dead \cup unacked[PodOf(c)]
      BY DEF Reply
  <2> QED BY <2>1, <2>2 DEF Published
<1>6. RowsBeforeMessages'
    BY <1>0, <1>1, <1>5 DEF ReportInv, RowsBeforeMessages
<1>7. UploadedBeforeReady' /\ ReadyBeforeAck' /\ ReadyReportsExist'
    BY <1>0, <1>1 DEF ReportInv, UploadedBeforeReady, ReadyBeforeAck, ReadyReportsExist
<1>8. AckedReportsReady'
    BY <1>0, OnlyAckSettles DEF ReportInv, AckedReportsReady, ReadyBeforeAck
<1> QED BY <1>2, <1>3, <1>4, <1>6, <1>7, <1>8 DEF ReportInv

\* A message enters the queue; the request of a job has stored its row.
LEMMA PublishKeepsReports ==
    ASSUME ReportInv, NEW e \in Event, Publish(e), e \in Job => rows[e] # "none",
           asking' \in [Job -> Pod \cup {None}],
           \A j \in Job : asking[j] = None => asking'[j] = None,
           UNCHANGED <<rows, urls, objects, completed, orphaned>>
    PROVE  ReportInv'
<1>1. QueueTypeOK(GeneratorSteps)'
    BY ReportParts, PublishTyped
<1>2. OnePlace'
    BY PublishPlaced DEF ReportInv
<1>3. ready' = ready \cup {e} /\ UNCHANGED <<unacked, settled, dead, channel, at, job, faults>>
    BY DEF Publish
<1>4. ReportTypeOK'
    BY <1>1, <1>3 DEF ReportInv, ReportTypeOK, GeneratorSteps
<1>5. RowsBeforeMessages'
    BY <1>3 DEF ReportInv, RowsBeforeMessages, Published
<1>6. HeldOrOrphaned' /\ UploadedBeforeReady' /\ ReadyBeforeAck'
    BY <1>3 DEF ReportInv, HeldOrOrphaned, UploadedBeforeReady, ReadyBeforeAck
<1>7. ReadyReportsExist' /\ AckedReportsReady'
    BY <1>3 DEF ReportInv, ReadyReportsExist, AckedReportsReady
<1> QED BY <1>2, <1>4, <1>5, <1>6, <1>7 DEF ReportInv

\* A request stores its row, or ends; the queue is as it was.
LEMMA RequestKeepsReports ==
    ASSUME ReportInv, NEW j \in Job, faults' \in Nat,
           UNCHANGED <<ready, unacked, settled, dead, channel, at, job>>,
           UNCHANGED <<urls, objects, completed, orphaned>>,
           \/ rows[j] = "none" /\ CreateRow(j)
           \/ UNCHANGED rows,
           asking' \in [Job -> Pod \cup {None}],
           \A k \in Job : rows'[k] = "none" => asking'[k] = None
    PROVE  ReportInv'
<1>1. QueueTypeOK(GeneratorSteps)'
    BY ReportParts DEF QueueTypeOK, Served
<1>2. /\ rows' \in [Job -> Status \cup {"none"}]
      /\ \A k \in Job : rows[k] # "none" => rows'[k] = rows[k]
      /\ \A k \in Job : rows'[k] = "ready" => rows[k] = "ready"
    BY DEF CreateRow, Status, ReportInv, ReportTypeOK
<1>3. ReportTypeOK'
    BY <1>1, <1>2 DEF ReportInv, ReportTypeOK, GeneratorSteps
<1>4. OnePlace' /\ HeldOrOrphaned' /\ UploadedBeforeReady'
    BY DEF ReportInv, OnePlace, HeldOrOrphaned, UploadedBeforeReady
<1>5. RowsBeforeMessages'
    BY <1>2 DEF ReportInv, RowsBeforeMessages, Published
<1>6. ReadyBeforeAck'
    BY <1>2 DEF ReportInv, ReportTypeOK, ReadyBeforeAck
<1>7. ReadyReportsExist' /\ AckedReportsReady'
    BY <1>2 DEF ReportInv, ReadyReportsExist, AckedReportsReady
<1> QED BY <1>3, <1>4, <1>5, <1>6, <1>7 DEF ReportInv

LEMMA TakeKeepsReports ==
    ASSUME ReportInv, NEW c \in Consumer, TakeRequest(c)
    PROVE  ReportInv'
<1> USE ReportParts
<1>0. PICK e \in ready : /\ ready' = ready \ {e}
                        /\ unacked' = [unacked EXCEPT ![PodOf(c)] = @ \cup {e}]
                        /\ job' = [job EXCEPT ![c] = e]
    BY DEF TakeRequest, Deliver
<1>1. /\ at[c] = "idle" /\ at' = [at EXCEPT ![c] = "received"]
      /\ UNCHANGED <<settled, dead, channel, faults>>
      /\ UNCHANGED <<rows, urls, objects, asking, completed, orphaned>>
    BY DEF TakeRequest, Deliver, jobVars
<1>2. \A d \in Consumer : IF d = c THEN at'[d] = "received" /\ job'[d] = e
                                     ELSE at'[d] = at[d] /\ job'[d] = job[d]
    BY <1>0, <1>1 DEF QueueTypeOK
<1>3. \A p \in Pod : unacked'[p] = IF p = PodOf(c) THEN unacked[p] \cup {e} ELSE unacked[p]
    BY <1>0 DEF QueueTypeOK
<1>4. ReportTypeOK'
  <2>1. QueueTypeOK(GeneratorSteps)'
      BY DeliverTyped DEF TakeRequest
  <2> QED BY <2>1, <1>1, <1>2 DEF ReportInv, ReportTypeOK, GeneratorSteps
<1>5. OnePlace'
    BY DeliverPlaced DEF TakeRequest, ReportInv
<1>6. HeldOrOrphaned'
    BY <1>1, <1>2, <1>3 DEF ReportInv, HeldOrOrphaned
<1>7. e \in Published /\ Published' \subseteq Published
    BY <1>0, <1>1, <1>3 DEF Published
<1>8. RowsBeforeMessages'
    BY <1>1, <1>2, <1>7 DEF ReportInv, RowsBeforeMessages
<1>9. UploadedBeforeReady' /\ ReadyBeforeAck' /\ ReadyReportsExist' /\ AckedReportsReady'
    BY <1>1, <1>2 DEF ReportInv, UploadedBeforeReady, ReadyBeforeAck, ReadyReportsExist,
                      AckedReportsReady
<1> QED BY <1>4, <1>5, <1>6, <1>8, <1>9 DEF ReportInv

\* A closed channel or a dead pod gives its messages back; the goroutines that go on
\* are those whose messages count as orphaned.
LEMMA GivingBackKeepsReports ==
    ASSUME ReportInv, NEW p \in Pod, Close(p) \/ Restart(p)
    PROVE  ReportInv'
<1> USE ReportParts
<1>0. /\ ready' = ready \cup unacked[p] /\ unacked' = [unacked EXCEPT ![p] = {}]
      /\ UNCHANGED <<settled, dead, rows, urls, objects, completed>>
      /\ orphaned \subseteq orphaned'
      /\ asking' \in [Job -> Pod \cup {None}]
      /\ \A j \in Job : asking[j] = None => asking'[j] = None
    BY DEF Close, Restart, ChannelCloses, PodRestarts, ReportInv, ReportTypeOK
<1>1. \A d \in Consumer : at'[d] # "idle" => at'[d] = at[d] /\ job'[d] = job[d]
    BY DEF Close, Restart, ChannelCloses, PodRestarts, QueueTypeOK
<1>2. \A d \in Consumer : at'[d] # "idle" /\ PodOf(d) = p => job[d] \in orphaned'
  <2>1. CASE Close(p)
    <3> SUFFICES ASSUME NEW d \in Consumer, at'[d] # "idle", PodOf(d) = p
                 PROVE  job[d] \in orphaned'
        OBVIOUS
    <3>1. at[d] # "idle"
        BY <1>1
    <3> QED BY <2>1, <3>1 DEF Close
  <2>2. CASE Restart(p)
      BY <2>2 DEF Restart, PodRestarts
  <2> QED BY <2>1, <2>2
<1>3. ReportTypeOK'
  <2>1. QueueTypeOK(GeneratorSteps)'
      BY ChannelClosesTyped, PodRestartsTyped DEF Close, Restart
  <2>2. orphaned' \subseteq Event
      BY DEF Close, Restart, ReportInv, ReportTypeOK
  <2> QED BY <2>1, <2>2, <1>0, <1>1 DEF ReportInv, ReportTypeOK, GeneratorSteps
<1>4. OnePlace'
    BY GivenBackPlaced DEF Close, Restart, ReportInv
<1>5. HeldOrOrphaned'
  <2> SUFFICES ASSUME NEW d \in Consumer, at'[d] # "idle", PodOf(d) # p
               PROVE  job[d] \in unacked'[PodOf(d)] \cup orphaned'
      BY <1>1, <1>2 DEF HeldOrOrphaned
  <2> QED BY <1>0, <1>1 DEF ReportInv, HeldOrOrphaned, QueueTypeOK
<1>6. Published' \subseteq Published
    BY <1>0 DEF Published, QueueTypeOK
<1>7. RowsBeforeMessages'
    BY <1>0, <1>1, <1>6 DEF ReportInv, RowsBeforeMessages
<1>8. UploadedBeforeReady' /\ ReadyBeforeAck' /\ ReadyReportsExist' /\ AckedReportsReady'
    BY <1>0, <1>1 DEF ReportInv, UploadedBeforeReady, ReadyBeforeAck, ReadyReportsExist,
                      AckedReportsReady
<1> QED BY <1>3, <1>4, <1>5, <1>7, <1>8 DEF ReportInv

LEMMA GenerateKeepsReports ==
    ASSUME ReportInv, NEW c \in Consumer, Generate(c)
    PROVE  ReportInv'
<1> USE ReportParts
<1>0. /\ faults \in Nat /\ objects \subseteq Job /\ urls \subseteq Job /\ completed \subseteq Job
      /\ rows \in [Job -> Status \cup {"none"}]
      /\ \A j \in Job : rows[j] = "ready" \/ j \in urls \/ j \in completed => j \in objects
    BY DEF ReportInv, ReportTypeOK, QueueTypeOK, ReadyReportsExist
<1>1. CASE Discard(c)
    BY <1>1, GeneratorReplies DEF Discard
<1>2. CASE MarkProcessing(c)
  <2>1. \A j \in Job : rows'[j] = "ready" => rows[j] = "ready"
      BY <1>0, <1>2 DEF MarkProcessing, SetStatus
  <2> QED BY <1>0, <1>2, <2>1, GeneratorMoves DEF MarkProcessing, GeneratorSteps, Status
<1>3. CASE MarkProcessingFails(c)
  <2>1. /\ \A j \in Job : rows'[j] = "ready" => rows[j] = "ready"
        /\ faults' \in Nat
      BY <1>0, <1>3, FaultTyped DEF MarkProcessingFails, SetStatus
  <2>2. \/ UNCHANGED rows
        \/ job[c] \in Job /\ \E status \in Status : SetStatus(job[c], status)
      BY <1>3 DEF MarkProcessingFails, Status
  <2> QED BY <1>0, <1>3, <2>1, <2>2, GeneratorMoves DEF MarkProcessingFails, GeneratorSteps
<1>4. CASE Upload(c)
  <2>1. job[c] \in Job
      BY <1>4 DEF Upload, ReportInv, ReportTypeOK
  <2> QED BY <1>0, <1>4, <2>1, GeneratorMoves DEF Upload, GeneratorSteps
<1>5. CASE UploadFails(c)
  <2>1. job[c] \in Job /\ faults' \in Nat
      BY <1>0, <1>5, FaultTyped DEF UploadFails, ReportInv, ReportTypeOK
  <2> QED BY <1>0, <1>5, <2>1, GeneratorMoves DEF UploadFails, GeneratorSteps
<1>6. CASE MarkReady(c)
  <2>1. job[c] \in Job /\ job[c] \in objects
      BY <1>6 DEF MarkReady, ReportInv, ReportTypeOK, UploadedBeforeReady
  <2>2. rows[job[c]] # "none"
      BY <1>6, <2>1 DEF MarkReady, ReportInv, RowsBeforeMessages
  <2>3. /\ rows'[job[c]] = "ready"
        /\ \A j \in Job : j # job[c] => rows'[j] = rows[j]
        /\ \E status \in Status : SetStatus(job[c], status)
        /\ urls' = urls \cup {job[c]}
      BY <1>0, <1>6, <2>1, <2>2 DEF MarkReady, StoreReady, SetStatus, Status
  <2> QED BY <1>0, <1>6, <2>1, <2>3, GeneratorMoves DEF MarkReady, GeneratorSteps
<1>7. CASE MarkReadyFails(c)
  <2>1. job[c] \in Job /\ job[c] \in objects /\ faults' \in Nat
      BY <1>0, <1>7, FaultTyped DEF MarkReadyFails, ReportInv, ReportTypeOK, UploadedBeforeReady
  <2>2. /\ \/ UNCHANGED rows
           \/ \E status \in Status : SetStatus(job[c], status)
        /\ \A j \in Job : rows'[j] = "ready" => rows[j] = "ready" \/ j = job[c]
        /\ urls' \subseteq urls \cup {job[c]}
      BY <1>0, <1>7, <2>1 DEF MarkReadyFails, StoreReady, SetStatus, Status
  <2> QED BY <1>0, <1>7, <2>1, <2>2, GeneratorMoves DEF MarkReadyFails, GeneratorSteps
<1>8. CASE Announce(c)
  <2>1. /\ job[c] \in Job /\ job[c] \in objects /\ faults' \in Nat
        /\ rows[job[c]] = "ready" \/ job[c] \in orphaned
      BY <1>0, <1>8, FaultTyped
         DEF Announce, ReportInv, ReportTypeOK, UploadedBeforeReady, ReadyBeforeAck
  <2>2. completed' \subseteq completed \cup {job[c]}
      BY <1>8 DEF Announce
  <2> QED BY <1>0, <1>8, <2>1, <2>2, GeneratorMoves DEF Announce, GeneratorSteps
<1>9. CASE AcknowledgeRequest(c)
    BY <1>9, GeneratorReplies DEF AcknowledgeRequest
<1>10. CASE RejectRequest(c)
    BY <1>10, GeneratorReplies, FailuresAreRequeued DEF RejectRequest, jobVars
<1> QED BY <1>1, <1>2, <1>3, <1>4, <1>5, <1>6, <1>7, <1>8, <1>9, <1>10 DEF Generate, GeneratorSteps

LEMMA RequestsKeepReports ==
    ASSUME ReportInv, NEW j \in Job,
           (\E p \in Pod : Request(j, p)) \/ RequestUncertain(j) \/ PublishRequested(j)
    PROVE  ReportInv'
<1>0. /\ faults \in Nat /\ rows \in [Job -> Status \cup {"none"}]
      /\ asking \in [Job -> Pod \cup {None}]
      /\ \A k \in Job : rows[k] = "none" => asking[k] = None
      /\ j \in Event
    BY ReportAssumption DEF ReportInv, ReportTypeOK, QueueTypeOK, RowsBeforeMessages
<1>1. ASSUME NEW p \in Pod, Request(j, p) PROVE ReportInv'
  <2>1. \A k \in Job : rows'[k] = "none" => asking'[k] = None
      BY <1>0, <1>1 DEF Request, CreateRow
  <2>2. asking' \in [Job -> Pod \cup {None}]
      BY <1>0, <1>1 DEF Request
  <2> QED BY <1>0, <1>1, <2>1, <2>2, RequestKeepsReports DEF Request, queueVars
<1>2. CASE RequestUncertain(j)
  <2>1. \A k \in Job : rows'[k] = "none" => asking'[k] = None
      BY <1>0, <1>2 DEF RequestUncertain, CreateRow
  <2>2. faults' \in Nat
      BY <1>0, <1>2, FaultTyped DEF RequestUncertain
  <2> QED BY <1>0, <1>2, <2>1, <2>2, RequestKeepsReports DEF RequestUncertain
<1>3. CASE PublishRequested(j)
  <2>1. /\ rows[j] # "none"
        /\ asking' \in [Job -> Pod \cup {None}]
        /\ \A k \in Job : asking[k] = None => asking'[k] = None
        /\ UNCHANGED <<rows, urls, objects, completed, orphaned>>
      BY <1>0, <1>3 DEF PublishRequested
  <2>2. CASE Publish(j)
      BY <1>0, <2>1, <2>2, PublishKeepsReports
  <2>3. CASE UNCHANGED queueVars
      BY <1>0, <2>1, <2>3, RequestKeepsReports DEF queueVars
  <2>4. CASE Fault /\ UNCHANGED <<ready, unacked, settled, dead, channel, at, job>>
      BY <1>0, <2>1, <2>4, FaultTyped, RequestKeepsReports
  <2> QED BY <1>3, <2>2, <2>3, <2>4 DEF PublishRequested
<1> QED BY <1>1, <1>2, <1>3

LEMMA ReportNextKeeps == ReportInv /\ [ReportNext]_reportVars => ReportInv'
<1> SUFFICES ASSUME ReportInv, [ReportNext]_reportVars PROVE ReportInv'
    OBVIOUS
<1>1. ASSUME NEW e \in Event, PublishOther(e) PROVE ReportInv'
  <2>1. asking \in [Job -> Pod \cup {None}]
      BY DEF ReportInv, ReportTypeOK
  <2> QED BY <1>1, <2>1, PublishKeepsReports DEF PublishOther, jobVars
<1>2. CASE UNCHANGED reportVars
    BY <1>2 DEF reportVars, queueVars, jobVars, ReportInv, ReportTypeOK, QueueTypeOK, Served,
                OnePlace, HeldOrOrphaned, RowsBeforeMessages, Published, UploadedBeforeReady,
                ReadyBeforeAck, ReadyReportsExist, AckedReportsReady
<1> QED BY <1>1, <1>2, RequestsKeepReports, TakeKeepsReports, GenerateKeepsReports,
           GivingBackKeepsReports DEF ReportNext

\* Every state of report-service satisfies the invariant: a message is at one place of
\* the broker, and what a goroutine has not lost its channel over it has done in order.
THEOREM ReportInvariant == ReportSpec => []ReportInv
<1>1. ReportInit => ReportInv
  <2> SUFFICES ASSUME ReportInit PROVE ReportInv
      OBVIOUS
  <2>1. ReportTypeOK
      BY QueueInitTyped DEF ReportInit, QueueInit, ReportTypeOK
  <2>2. OnePlace /\ RowsBeforeMessages
      BY DEF ReportInit, QueueInit, OnePlace, RowsBeforeMessages, Published
  <2> QED BY <2>1, <2>2 DEF ReportInit, QueueInit, ReportInv, HeldOrOrphaned,
             UploadedBeforeReady, ReadyBeforeAck, ReadyReportsExist, AckedReportsReady
<1> QED BY <1>1, ReportNextKeeps, PTL DEF ReportSpec

\* Every variable of report-service keeps its type: also the weekly request, which
\* names no job, never gets past its first UPDATE.
THEOREM ReportsTyped == ReportSpec => []ReportTypeOK
<1>1. ReportInv => ReportTypeOK
    BY DEF ReportInv
<1> QED BY <1>1, ReportInvariant, PTL

\* report_requested_consumer.go uploads before it stores the status and the URL and
\* publishes report.completed: no failure, repetition or second goroutine makes one
\* of them tell of a report that is not in MinIO.
THEOREM ReadyMeansStored == ReportSpec => []ReadyReportsExist
<1>1. ReportInv => ReadyReportsExist
    BY DEF ReportInv
<1> QED BY <1>1, ReportInvariant, PTL

\* Acknowledged means ready: the only way to lose the status afterwards is a
\* goroutine that went on with the message after its channel had closed.
THEOREM AcknowledgedMeansReady == ReportSpec => []AckedReportsReady
<1>1. ReportInv => AckedReportsReady
    BY DEF ReportInv
<1> QED BY <1>1, ReportInvariant, PTL

\* The broker's side of report-service: a message is never in two of the queue, the
\* channels, the acknowledged and the dead-lettered ones, and two goroutines have
\* the same one only after a channel closed under one of them.
THEOREM OneGoroutinePerMessage ==
    ReportSpec => [](OnePlace /\ \A c, d \in Consumer :
        at[c] # "idle" /\ at[d] # "idle" /\ job[c] = job[d] => job[c] \in orphaned \/ c = d)
<1>1. ReportInv => OnePlace /\ \A c, d \in Consumer :
          at[c] # "idle" /\ at[d] # "idle" /\ job[c] = job[d] => job[c] \in orphaned \/ c = d
    BY OnlyHolder DEF ReportInv
<1> QED BY <1>1, ReportInvariant, PTL

LEMMA ReportMoves ==
    ASSUME ReportInv, [ReportNext]_reportVars
    PROVE  QueueMoves
<1>1. ASSUME NEW c \in Consumer, Generate(c) PROVE QueueMoves
  <2>1. CASE Discard(c)
      BY <2>1 DEF Discard, QueueMoves
  <2>2. CASE AcknowledgeRequest(c)
      BY <2>2 DEF AcknowledgeRequest, QueueMoves
  <2>3. CASE RejectRequest(c)
      BY <2>3, FailuresAreRequeued DEF RejectRequest, QueueMoves
  <2>4. CASE \/ MarkProcessing(c) \/ MarkProcessingFails(c) \/ Upload(c) \/ UploadFails(c)
             \/ MarkReady(c) \/ MarkReadyFails(c) \/ Announce(c)
      BY <2>4 DEF MarkProcessing, MarkProcessingFails, Upload, UploadFails, MarkReady,
                  MarkReadyFails, Announce, Goto, QueueMoves
  <2> QED BY <1>1, <2>1, <2>2, <2>3, <2>4 DEF Generate
<1>2. ASSUME NEW j \in Job,
             (\E p \in Pod : Request(j, p)) \/ RequestUncertain(j) \/ PublishRequested(j)
      PROVE  QueueMoves
  <2>1. j \in Event
      BY ReportAssumption
  <2>2. Publish(j) \/ UNCHANGED <<ready, unacked, settled, dead>>
      BY <1>2 DEF Request, RequestUncertain, PublishRequested, queueVars
  <2> QED BY <2>1, <2>2 DEF QueueMoves
<1>3. ASSUME NEW e \in Event, PublishOther(e) PROVE QueueMoves
    BY <1>3 DEF PublishOther, QueueMoves
<1>4. ASSUME NEW c \in Consumer, TakeRequest(c) PROVE QueueMoves
    BY <1>4 DEF TakeRequest, QueueMoves
<1>5. ASSUME NEW p \in Pod, Close(p) \/ Restart(p) PROVE QueueMoves
    BY <1>5 DEF Close, Restart, QueueMoves
<1>6. CASE UNCHANGED reportVars
    BY <1>6 DEF reportVars, queueVars, QueueMoves
<1> QED BY <1>1, <1>2, <1>3, <1>4, <1>5, <1>6 DEF ReportNext

\* As for notifications, no number of failures ends the retries of a request; the UPDATE
\* to "failed", which comes with the dead-lettering of a job, is never reached.
THEOREM ReportRetriesNeverEnd ==
    ReportSpec => [](dead \subseteq Malformed) /\ [][LeavesByAck]_reportVars
<1>1. ReportInit => dead \subseteq Malformed
    BY DEF ReportInit, QueueInit
<1>2. ReportInv /\ [ReportNext]_reportVars => LeavesByAck /\ dead' \subseteq dead \cup Malformed
    BY ReportParts, ReportMoves, MovesKeepMessages
<1>3. ReportInv /\ dead \subseteq Malformed /\ [ReportNext]_reportVars => (dead \subseteq Malformed)'
    BY <1>2
<1>4. ReportInv /\ [ReportNext]_reportVars => [LeavesByAck]_reportVars
    BY <1>2
<1> QED BY <1>1, <1>3, <1>4, ReportInvariant, PTL DEF ReportSpec

\* report-service treats its queue as the bus promises, also when two goroutines answer
\* for one message.
THEOREM ReportImplementsDelivery == ReportSpec => QueuesImplementDelivery
<1>1. ReportInit => Broker!Init
    BY QueuesStart DEF ReportInit
<1>2. ReportInv /\ [ReportNext]_reportVars => [Broker!Next]_Broker!vars
  <2> SUFFICES ASSUME ReportInv, [ReportNext]_reportVars PROVE [Broker!Next]_Broker!vars
      OBVIOUS
  <2>1. QueueTypeOK(GeneratorSteps) /\ OnePlace
      BY ReportParts DEF ReportInv
  <2> QED BY <2>1, ReportMoves, MovesImplementDelivery
<1> QED BY <1>1, <1>2, ReportInvariant, PTL DEF ReportSpec, QueuesImplementDelivery, Broker!Spec

\* No job is ever marked failed: the status of the API's contract that a poller could
\* stop at is not reached, whatever goes wrong.
THEOREM NoJobEverFails == ReportSpec => [](\A j \in Job : rows[j] # "failed")
<1> DEFINE NoneFailed == \A j \in Job : rows[j] # "failed"
<1>1. ReportInit => NoneFailed
    BY DEF ReportInit
<1>2. ReportInv /\ NoneFailed /\ [ReportNext]_reportVars => NoneFailed'
  <2> SUFFICES ASSUME ReportInv, NoneFailed, [ReportNext]_reportVars PROVE NoneFailed'
      OBVIOUS
  <2>0. rows \in [Job -> Status \cup {"none"}]
      BY DEF ReportInv, ReportTypeOK
  <2>1. \/ UNCHANGED rows
        \/ \E j \in Job : CreateRow(j)
        \/ \E c \in Consumer : SetStatus(job[c], "processing") \/ SetStatus(job[c], "ready")
    <3>1. ASSUME NEW c \in Consumer, Generate(c)
          PROVE  UNCHANGED rows \/ SetStatus(job[c], "processing") \/ SetStatus(job[c], "ready")
        BY <3>1, FailuresAreRequeued
           DEF Generate, Discard, MarkProcessing, MarkProcessingFails, Upload, UploadFails,
               MarkReady, MarkReadyFails, StoreReady, Announce, AcknowledgeRequest,
               RejectRequest, jobVars
    <3>2. ASSUME NEW j \in Job,
                 (\E p \in Pod : Request(j, p)) \/ RequestUncertain(j) \/ PublishRequested(j)
          PROVE  UNCHANGED rows \/ CreateRow(j)
        BY <3>2 DEF Request, RequestUncertain, PublishRequested
    <3>3. ASSUME NEW e \in Event, PublishOther(e) PROVE UNCHANGED rows
        BY <3>3 DEF PublishOther, jobVars
    <3>4. ASSUME NEW c \in Consumer, TakeRequest(c) PROVE UNCHANGED rows
        BY <3>4 DEF TakeRequest, jobVars
    <3>5. ASSUME NEW p \in Pod, Close(p) \/ Restart(p) PROVE UNCHANGED rows
        BY <3>5 DEF Close, Restart
    <3>6. CASE UNCHANGED reportVars
        BY <3>6 DEF reportVars, jobVars
    <3> QED BY <3>1, <3>2, <3>3, <3>4, <3>5, <3>6 DEF ReportNext
  <2> QED BY <2>0, <2>1 DEF CreateRow, SetStatus
<1> QED BY <1>1, <1>2, ReportInvariant, PTL DEF ReportSpec
===============================================================================
