-------------------------------- MODULE Delivery --------------------------------
(***************************************************************************)
(* What the event bus promises the services, without pods, channels and    *)
(* declarations: a queue that listens gets every event it wants, at once   *)
(* with all others; a queue loses an event only by handling it or by       *)
(* putting it into its own dead-letter queue.                              *)
(***************************************************************************)
CONSTANTS
    Event,
    Q,        \* queues
    Wants     \* queue -> the events its bindings ask for

VARIABLES
    listening,  \* queues that are set up, for good
    owed,       \* queue -> events it has to handle
    handled,    \* queue -> events it has handled
    buried      \* queue -> events in its dead-letter queue

vars == <<listening, owed, handled, buried>>

\* Queues are durable: earlier starts may have set them up.
Init ==
    /\ listening \in SUBSET Q
    /\ owed = [q \in Q |-> {}]
    /\ handled = [q \in Q |-> {}]
    /\ buried = [q \in Q |-> {}]

\* Where copies of e may end up: all queues that listen, and perhaps one that is being
\* set up.
Reached(e) ==
    LET wanting == {q \in Q : e \in Wants[q]}
        listeners == listening \cap wanting
    IN  {listeners \cup others : others \in SUBSET wanting}

Listen(q) ==
    /\ listening' = listening \cup {q}
    /\ UNCHANGED <<owed, handled, buried>>

Send(e) ==
    /\ \A q \in Q : e \notin owed[q] \cup handled[q] \cup buried[q]
    /\ \E to \in Reached(e) :
           owed' = [q \in Q |-> IF q \in to THEN owed[q] \cup {e} ELSE owed[q]]
    /\ UNCHANGED <<listening, handled, buried>>

Handle(q, e) ==
    /\ owed' = [owed EXCEPT ![q] = @ \ {e}]
    /\ handled' = [handled EXCEPT ![q] = @ \cup {e}]
    /\ UNCHANGED <<listening, buried>>

\* The dead letter is copied to the other dead-letter queues that want the event.
GiveUp(q, e) ==
    /\ owed' = [owed EXCEPT ![q] = @ \ {e}]
    /\ \E to \in Reached(e) :
           /\ q \in to
           /\ buried' = [o \in Q |-> IF o \in to THEN buried[o] \cup {e} ELSE buried[o]]
    /\ UNCHANGED <<listening, handled>>

Next ==
    \/ \E q \in Q : Listen(q)
    \/ \E e \in Event : Send(e)
    \/ \E q \in Q : \E e \in owed[q] : Handle(q, e) \/ GiveUp(q, e)

Spec == Init /\ [][Next]_vars

\* A queue handles an event once: what it has handled it never owes again.
HandledOnce == \A q \in Q : owed[q] \cap handled[q] = {}
===============================================================================
