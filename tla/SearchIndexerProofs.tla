--------------------------- MODULE SearchIndexerProofs ---------------------------
(***************************************************************************)
(* Proofs about SearchIndexer, for any events, documents, pods and number  *)
(* of failures. The queue is a log of which parts wait, are buffered or    *)
(* are at work; the invariant says what an event that was never given back *)
(* finds when its turn comes.                                              *)
(***************************************************************************)
EXTENDS SearchIndexer, WellFoundedInduction, NaturalsInduction, TLAPS

\* The pairs of events of which the first arrived at the broker after the second.
Newer ==
    {pair \in Event \X Event :
        \E i, j \in DOMAIN log : i < j /\ log[i] = pair[2] /\ log[j] = pair[1]}

After(f, e) == <<f, e>> \in Newer

Working(p) == at[p] # "idle"

\* Events that have left the queue at least once.
Pushed ==
    again \cup settled \cup dead \cup indexed \cup {index[d].event : d \in Document}
        \cup {job[p] : p \in {q \in Pod : Working(q)}} \cup UNION {unacked[p] : p \in Pod}

\* An event is published once, and what leaves the queue was published.
LogInv ==
    /\ \A i, j \in DOMAIN log : log[i] = log[j] => i = j
    /\ ready \subseteq ToSet(log)
    /\ \A e \in Event : e \in Pushed => e \in ToSet(log)

\* What a pod has not answered waits nowhere else, is buffered at most once, and
\* goes back when the channel closes; a goroutine that works on an open channel
\* has its event there.
ChannelInv ==
    /\ \A p \in Pod : unacked[p] \cap ready = {}
    /\ \A p, q \in Pod : p # q => unacked[p] \cap unacked[q] = {}
    /\ \A p \in Pod : channel[p] = "closed" => unacked[p] = {}
    /\ \A p \in Pod : \A i, j \in DOMAIN buffer[p] : buffer[p][i] = buffer[p][j] => i = j
    /\ \A p \in Pod : Working(p) =>
           /\ job[p] \in Event
           /\ job[p] \notin ToSet(buffer[p])
           /\ job[p] \in unacked[p] \/ (channel[p] = "closed" /\ job[p] \in again)

\* The broker serves the oldest first: while an event waits that was never given
\* back, neither it nor a later one has left the queue.
OldestFirst ==
    \A e \in ready \ again : e \notin Pushed /\ \A f \in Event : After(f, e) => f \notin Pushed

\* A pod works in the order of its buffer: an event that was never given back comes
\* after older ones only, in the buffer, at work, and in what the pod has put.
InOrder ==
    \A p \in Pod :
        /\ \A i, j \in DOMAIN buffer[p] :
               i < j /\ buffer[p][j] \notin again => ~After(buffer[p][i], buffer[p][j])
        /\ \A i \in DOMAIN buffer[p] : Working(p) /\ buffer[p][i] \notin again =>
               ~After(job[p], buffer[p][i])
        /\ \A d \in Document : index[d].pod = p =>
               /\ \A i \in DOMAIN buffer[p] : buffer[p][i] \notin again =>
                      ~After(index[d].event, buffer[p][i])
               /\ Working(p) /\ job[p] \notin again => ~After(index[d].event, job[p])

\* Ack comes after the PUT.
PutBeforeAck == \A p \in Pod : at[p] = "ack" => job[p] \in indexed

\* The index shows what was put, for the document it belongs to.
IndexInv ==
    \A d \in Document : index[d].event # None => DocumentOf[index[d].event] = d

SearchInv ==
    /\ TypeOK
    /\ LogInv
    /\ ChannelInv
    /\ OldestFirst
    /\ InOrder
    /\ PutBeforeAck
    /\ IndexInv
    /\ AckedEventsWereIndexed

-------------------------------------------------------------------------------
(***************************************************************************)
(* Sequences and the order of the log                                      *)
(***************************************************************************)

LEMMA AppendParts ==
    ASSUME NEW S, NEW s \in Seq(S), NEW x \in S
    PROVE  /\ Append(s, x) \in Seq(S)
           /\ DOMAIN s = 1 .. Len(s) /\ Len(s) \in Nat
           /\ DOMAIN Append(s, x) = 1 .. Len(s) + 1
           /\ \A i \in DOMAIN s : Append(s, x)[i] = s[i]
           /\ Append(s, x)[Len(s) + 1] = x
OBVIOUS

LEMMA TailParts ==
    ASSUME NEW S, NEW s \in Seq(S), s # <<>>
    PROVE  /\ Tail(s) \in Seq(S)
           /\ DOMAIN s = 1 .. Len(s) /\ Len(s) \in Nat \ {0}
           /\ DOMAIN Tail(s) = 1 .. Len(s) - 1
           /\ \A i \in DOMAIN Tail(s) : Tail(s)[i] = s[i + 1] /\ i + 1 \in DOMAIN s
           /\ Head(s) = s[1] /\ 1 \in DOMAIN s
OBVIOUS

LEMMA InToSet ==
    ASSUME NEW s, NEW x
    PROVE  x \in ToSet(s) <=> \E i \in DOMAIN s : s[i] = x
BY DEF ToSet

\* The oldest waiting event exists, waits, and arrived after none that waits.
LEMMA OldestParts ==
    ASSUME TypeOK, LogInv, ready # {}
    PROVE  /\ Oldest \in ready /\ Oldest \in Event
           /\ \A e \in ready : ~After(Oldest, e)
<1> DEFINE waiting == {i \in DOMAIN log : log[i] \in ready}
<1>1. waiting \subseteq Nat /\ waiting # {}
    BY InToSet DEF TypeOK, LogInv
<1>2. PICK n \in waiting : \A k \in waiting : ~(<<k, n>> \in OpToRel(<, Nat))
    BY <1>1, NatLessThanWellFounded, WFMin
<1>3. ASSUME NEW k \in waiting PROVE n <= k
  <2>1. n \in Nat /\ k \in Nat
      BY <1>1
  <2>2. ~(k < n)
      BY <1>2, <2>1 DEF OpToRel
  <2> QED BY <2>1, <2>2
<1> DEFINE First(i) == log[i] \in ready /\ \A j \in DOMAIN log : log[j] \in ready => i <= j
           m == CHOOSE i \in DOMAIN log : First(i)
<1>4. n \in DOMAIN log /\ First(n)
    BY <1>3
<1>5. m \in DOMAIN log /\ First(m) /\ Oldest = log[m]
    BY <1>4 DEF Oldest
<1> HIDE DEF m
<1>6. ASSUME NEW e \in ready, After(Oldest, e) PROVE FALSE
  <2>1. PICK i, j \in DOMAIN log : i < j /\ log[i] = e /\ log[j] = Oldest
      BY <1>6 DEF After, Newer
  <2>2. j = m /\ m <= i
      BY <1>5, <2>1 DEF LogInv
  <2>3. i \in Nat /\ j \in Nat
      BY DEF TypeOK
  <2> QED BY <2>1, <2>2, <2>3
<1> QED BY <1>5, <1>6 DEF TypeOK

\* Two events of the log that are not after one another are the same.
LEMMA LogIsOrdered ==
    ASSUME TypeOK, LogInv, NEW e \in Event, NEW f \in Event,
           e \in ToSet(log), f \in ToSet(log), e # f, ~After(f, e)
    PROVE  \E i, j \in DOMAIN log : i < j /\ log[j] = e /\ log[i] = f
<1>1. PICK i \in DOMAIN log : log[i] = f
    BY InToSet
<1>2. PICK j \in DOMAIN log : log[j] = e
    BY InToSet
<1>3. i \in Nat /\ j \in Nat /\ ~(j < i) /\ i # j
    BY <1>1, <1>2 DEF TypeOK, After, Newer
<1> QED BY <1>1, <1>2, <1>3

LEMMA NotAfterItself == ASSUME TypeOK, LogInv, NEW e PROVE ~After(e, e)
<1> SUFFICES ASSUME NEW i \in DOMAIN log, NEW j \in DOMAIN log, i < j, log[i] = log[j]
             PROVE  FALSE
    BY DEF After, Newer
<1> QED BY DEF TypeOK, LogInv

\* What a pod holds and what the index shows has left the queue.
LEMMA HeldIsPushed ==
    ASSUME TypeOK, NEW p \in Pod
    PROVE  /\ \A i \in DOMAIN buffer[p] : /\ buffer[p][i] \in Pushed /\ buffer[p][i] \in Event
                                          /\ buffer[p][i] \in unacked[p]
           /\ Working(p) => job[p] \in Pushed
           /\ unacked[p] \subseteq Pushed /\ unacked[p] \subseteq Event
           /\ \A d \in Document : index[d].event \in Pushed
<1>1. \A i \in DOMAIN buffer[p] : buffer[p][i] \in unacked[p]
    BY InToSet DEF TypeOK
<1>2. unacked[p] \subseteq Pushed /\ unacked[p] \subseteq Event
    BY DEF TypeOK, Pushed
<1> QED BY <1>1, <1>2 DEF Pushed
-------------------------------------------------------------------------------
(***************************************************************************)
(* What one step keeps                                                     *)
(***************************************************************************)

\* Nothing new is pushed, and nothing is put back as if it had not been.
LEMMA QueueKept ==
    ASSUME TypeOK, LogInv, OldestFirst, UNCHANGED log,
           again \subseteq again', ready' \ again' \subseteq ready \ again,
           ready' \subseteq ready \cup Pushed, ready' \subseteq Event, Pushed' \subseteq Pushed
    PROVE  LogInv' /\ OldestFirst'
<1>1. Newer' = Newer
    BY DEF Newer
<1>2. LogInv'
    BY DEF LogInv
<1>3. OldestFirst'
    BY <1>1 DEF OldestFirst, After
<1> QED BY <1>2, <1>3

\* No buffer grows, no goroutine begins, nothing is put.
LEMMA OrderKept ==
    ASSUME InOrder, UNCHANGED <<log, index>>, again \subseteq again',
           \A p \in Pod : buffer'[p] = buffer[p] \/ buffer'[p] = <<>>,
           \A p \in Pod : Working(p)' => Working(p) /\ job'[p] = job[p]
    PROVE  InOrder'
<1>1. Newer' = Newer
    BY DEF Newer
<1>2. DOMAIN <<>> = {}
    OBVIOUS
<1> SUFFICES ASSUME NEW p \in Pod
    PROVE  /\ \A i, j \in DOMAIN buffer'[p] : i < j /\ buffer'[p][j] \notin again' =>
                  <<buffer'[p][i], buffer'[p][j]>> \notin Newer
           /\ \A i \in DOMAIN buffer'[p] : Working(p)' /\ buffer'[p][i] \notin again' =>
                  <<job'[p], buffer'[p][i]>> \notin Newer
           /\ \A d \in Document : index[d].pod = p =>
                  /\ \A i \in DOMAIN buffer'[p] : buffer'[p][i] \notin again' =>
                         <<index[d].event, buffer'[p][i]>> \notin Newer
                  /\ Working(p)' /\ job'[p] \notin again' => <<index[d].event, job'[p]>> \notin Newer
    BY <1>1 DEF InOrder, After
<1>3. CASE buffer'[p] = buffer[p]
    BY <1>3 DEF InOrder, After
<1>4. CASE buffer'[p] = <<>>
    BY <1>2, <1>4 DEF InOrder, After
<1> QED BY <1>3, <1>4

LEMMA PublishKeeps ==
    ASSUME SearchInv, NEW e \in Event, Publish(e)
    PROVE  SearchInv'
<1> USE DEF SearchInv
<1>0. /\ log' = Append(log, e) /\ ready' = ready \cup {e} /\ e \notin ToSet(log)
      /\ UNCHANGED <<unacked, channel, settled, dead, again, buffer, at, job, index, indexed, faults>>
    BY DEF Publish, podVars, indexVars
<1>1. /\ log' \in Seq(Event) /\ DOMAIN log = 1 .. Len(log) /\ Len(log) \in Nat
      /\ DOMAIN log' = 1 .. Len(log) + 1
      /\ \A i \in DOMAIN log : log'[i] = log[i] /\ log[i] # e
      /\ log'[Len(log) + 1] = e
    BY <1>0, AppendParts, InToSet DEF TypeOK
<1>2. ToSet(log') = ToSet(log) \cup {e}
    BY <1>1 DEF ToSet
<1>3. Pushed' = Pushed /\ e \notin Pushed
    BY <1>0 DEF Pushed, Working, LogInv
<1>4. \A pair \in Newer' : pair \in Newer \/ (pair[1] = e /\ pair[2] # e)
  <2> SUFFICES ASSUME NEW f \in Event, NEW g \in Event,
                      NEW i \in DOMAIN log', NEW j \in DOMAIN log', i < j,
                      log'[i] = g, log'[j] = f
               PROVE  <<f, g>> \in Newer \/ (f = e /\ g # e)
      BY DEF Newer
  <2>1. i \in DOMAIN log /\ g # e
      BY <1>1
  <2>2. CASE j \in DOMAIN log
      BY <1>1, <2>1, <2>2 DEF Newer
  <2>3. CASE j = Len(log) + 1
      BY <1>1, <2>1, <2>3
  <2> QED BY <1>1, <2>2, <2>3
<1>5. TypeOK'
    BY <1>0, <1>1 DEF TypeOK
<1>6. LogInv'
  <2>1. \A i, j \in DOMAIN log' : log'[i] = log'[j] => i = j
      BY <1>1 DEF LogInv
  <2> QED BY <1>0, <1>2, <1>3, <2>1 DEF LogInv
<1>7. ChannelInv'
  <2>1. \A p \in Pod : e \notin unacked[p]
      BY <1>3, HeldIsPushed
  <2> QED BY <1>0, <2>1 DEF ChannelInv, Working
<1>8. \A f, g : <<f, g>> \in Newer' => <<f, g>> \in Newer \/ (f = e /\ g # e)
  <2> SUFFICES ASSUME NEW f, NEW g, <<f, g>> \in Newer'
               PROVE  <<f, g>> \in Newer \/ (f = e /\ g # e)
      OBVIOUS
  <2> DEFINE pair == <<f, g>>
  <2>1. pair[1] = f /\ pair[2] = g /\ pair \in Newer'
      OBVIOUS
  <2> QED BY <1>4, <2>1
<1>9. OldestFirst'
  <2> SUFFICES ASSUME NEW g \in (ready \cup {e}) \ again
               PROVE  g \notin Pushed /\ \A f \in Event : <<f, g>> \in Newer' => f \notin Pushed
      BY <1>0, <1>3 DEF OldestFirst, After
  <2>1. CASE g = e
    <3>1. \A f \in Event : <<f, e>> \notin Newer
      <4> SUFFICES ASSUME NEW i \in DOMAIN log, log[i] = e PROVE FALSE
          BY DEF Newer
      <4> QED BY <1>1
    <3> QED BY <1>3, <1>8, <2>1, <3>1
  <2>2. CASE g \in ready \ again
      BY <1>3, <1>8, <2>2 DEF OldestFirst, After
  <2> QED BY <2>1, <2>2
<1>10. InOrder'
  <2>1. \A f, g : f # e => (<<f, g>> \in Newer' => <<f, g>> \in Newer)
      BY <1>8
  <2>2. \A p \in Pod : /\ \A i \in DOMAIN buffer[p] : buffer[p][i] # e
                       /\ Working(p) => job[p] # e
                       /\ \A d \in Document : index[d].event # e
      BY <1>3, HeldIsPushed
  <2>3. /\ \A p \in Pod : Working(p)' <=> Working(p)
        /\ UNCHANGED <<buffer, job, index, again>>
      BY <1>0 DEF Working
  <2> QED BY <2>1, <2>2, <2>3 DEF InOrder, After
<1>11. PutBeforeAck' /\ IndexInv' /\ AckedEventsWereIndexed'
    BY <1>0 DEF PutBeforeAck, IndexInv, AckedEventsWereIndexed
<1> QED BY <1>5, <1>6, <1>7, <1>9, <1>10, <1>11

\* The broker pushes the oldest event: no event that waits on was there before it,
\* and when it was never given back, all the pod has had came before it.
LEMMA PushKeeps ==
    ASSUME SearchInv, NEW p \in Pod, Push(p)
    PROVE  SearchInv'
<1> USE DEF SearchInv
<1> DEFINE o == Oldest
<1>0. /\ channel[p] = "open"
      /\ ready' = ready \ {o}
      /\ unacked' = [unacked EXCEPT ![p] = @ \cup {o}]
      /\ buffer' = [buffer EXCEPT ![p] = Append(@, o)]
      /\ UNCHANGED <<log, channel, settled, dead, again, at, job, index, indexed, faults>>
    BY DEF Push, indexVars
<1>1. o \in ready /\ o \in Event /\ \A e \in ready : <<o, e>> \notin Newer
    BY OldestParts DEF Push, After
<1> HIDE DEF o
<1>2. /\ \A q \in Pod : unacked'[q] = IF q = p THEN unacked[p] \cup {o} ELSE unacked[q]
      /\ \A q \in Pod : q # p => buffer'[q] = buffer[q]
      /\ buffer'[p] \in Seq(Event) /\ buffer[p] \in Seq(Event)
      /\ DOMAIN buffer[p] = 1 .. Len(buffer[p]) /\ Len(buffer[p]) \in Nat
      /\ DOMAIN buffer'[p] = 1 .. Len(buffer[p]) + 1
      /\ \A i \in DOMAIN buffer[p] : buffer'[p][i] = buffer[p][i]
      /\ buffer'[p][Len(buffer[p]) + 1] = o
    BY <1>0, <1>1, AppendParts DEF TypeOK
<1>3. /\ ToSet(buffer'[p]) = ToSet(buffer[p]) \cup {o}
      /\ o \notin unacked[p] /\ o \notin ToSet(buffer[p])
  <2>1. ToSet(buffer'[p]) = ToSet(buffer[p]) \cup {o}
      BY <1>2 DEF ToSet
  <2> QED BY <1>1, <2>1 DEF ChannelInv, TypeOK
<1>4. Newer' = Newer
    BY <1>0 DEF Newer
<1>5. \A x : x \in Pushed' => x \in Pushed \/ x = o
    BY <1>0, <1>2 DEF Pushed, Working
<1>6. TypeOK'
  <2>1. /\ unacked' \in [Pod -> SUBSET Event] /\ buffer' \in [Pod -> Seq(Event)]
        /\ ready' \subseteq Event
      BY <1>0, <1>1, <1>2 DEF TypeOK
  <2>2. \A q \in Pod : ToSet(buffer'[q]) \subseteq unacked'[q]
      BY <1>2, <1>3 DEF TypeOK
  <2> QED BY <1>0, <2>1, <2>2 DEF TypeOK
<1>7. LogInv'
    BY <1>0, <1>1, <1>5 DEF LogInv
<1>8. ChannelInv'
  <2>1. \A q \in Pod : unacked'[q] \cap ready' = {}
      BY <1>0, <1>2 DEF ChannelInv
  <2>2. \A q, r \in Pod : q # r => unacked'[q] \cap unacked'[r] = {}
      BY <1>1, <1>2 DEF ChannelInv
  <2>3. \A q \in Pod : \A i, j \in DOMAIN buffer'[q] : buffer'[q][i] = buffer'[q][j] => i = j
    <3>1. \A i \in DOMAIN buffer[p] : buffer[p][i] # o
        BY <1>3, InToSet
    <3>2. \A i \in DOMAIN buffer'[p] : i \in DOMAIN buffer[p] \/ i = Len(buffer[p]) + 1
        BY <1>2
    <3>3. \A i, j \in DOMAIN buffer'[p] : buffer'[p][i] = buffer'[p][j] => i = j
        BY <1>2, <3>1, <3>2 DEF ChannelInv
    <3> QED BY <1>2, <3>3 DEF ChannelInv
  <2>4. \A q \in Pod : Working(q) => job[q] \notin ToSet(buffer'[q])
      BY <1>0, <1>2, <1>3 DEF ChannelInv
  <2>5. \A q \in Pod : unacked[q] \subseteq unacked'[q]
      BY <1>2
  <2>6. \A q \in Pod : channel[q] = "closed" => unacked'[q] = {}
      BY <1>0, <1>2 DEF ChannelInv
  <2> QED BY <1>0, <2>1, <2>2, <2>3, <2>4, <2>5, <2>6 DEF ChannelInv, Working
<1>9. OldestFirst'
  <2> SUFFICES ASSUME NEW e \in ready, e # o, e \notin again
               PROVE  /\ e \notin Pushed'
                      /\ \A f \in Event : <<f, e>> \in Newer => f \notin Pushed'
      BY <1>0, <1>4 DEF OldestFirst, After
  <2> QED BY <1>1, <1>5 DEF OldestFirst, After
<1>10. InOrder'
  <2>1. o \notin again => \A f : <<f, o>> \in Newer => f \notin Pushed
      BY <1>1 DEF OldestFirst, After, Newer
  <2>2. ASSUME NEW i \in DOMAIN buffer'[p], NEW j \in DOMAIN buffer'[p], i < j,
               buffer'[p][j] \notin again
        PROVE  <<buffer'[p][i], buffer'[p][j]>> \notin Newer
    <3>1. i \in DOMAIN buffer[p] /\ buffer'[p][i] = buffer[p][i]
        BY <1>2, <2>2
    <3>2. CASE j \in DOMAIN buffer[p]
        BY <1>2, <2>2, <3>1, <3>2 DEF InOrder, After
    <3>3. CASE j = Len(buffer[p]) + 1
        BY <1>2, <2>1, <2>2, <3>1, <3>3, HeldIsPushed
    <3> QED BY <1>2, <3>2, <3>3
  <2>3. ASSUME NEW i \in DOMAIN buffer'[p], buffer'[p][i] \notin again
        PROVE  /\ Working(p) => <<job[p], buffer'[p][i]>> \notin Newer
               /\ \A d \in Document : index[d].pod = p =>
                      <<index[d].event, buffer'[p][i]>> \notin Newer
    <3>1. CASE i \in DOMAIN buffer[p]
        BY <1>2, <2>3, <3>1 DEF InOrder, After
    <3>2. CASE i = Len(buffer[p]) + 1
        BY <1>2, <2>1, <2>3, <3>2, HeldIsPushed
    <3>3. i \in DOMAIN buffer[p] \/ i = Len(buffer[p]) + 1
        BY <1>2
    <3> QED BY <3>1, <3>2, <3>3
  <2>4. \A d \in Document : index[d].pod = p /\ Working(p) /\ job[p] \notin again =>
            <<index[d].event, job[p]>> \notin Newer
      BY DEF InOrder, After
  <2>5. ASSUME NEW q \in Pod, q # p
        PROVE  /\ \A i, j \in DOMAIN buffer'[q] : i < j /\ buffer'[q][j] \notin again =>
                      <<buffer'[q][i], buffer'[q][j]>> \notin Newer
               /\ \A i \in DOMAIN buffer'[q] : Working(q) /\ buffer'[q][i] \notin again =>
                      <<job[q], buffer'[q][i]>> \notin Newer
               /\ \A d \in Document : index[d].pod = q =>
                      /\ \A i \in DOMAIN buffer'[q] : buffer'[q][i] \notin again =>
                             <<index[d].event, buffer'[q][i]>> \notin Newer
                      /\ Working(q) /\ job[q] \notin again => <<index[d].event, job[q]>> \notin Newer
      BY <1>2, <2>5 DEF InOrder, After
  <2>6. /\ \A q \in Pod : Working(q)' <=> Working(q)
        /\ UNCHANGED <<job, index, again>>
      BY <1>0 DEF Working
  <2>7. ASSUME NEW q \in Pod
        PROVE  /\ \A i, j \in DOMAIN buffer'[q] : i < j /\ buffer'[q][j] \notin again =>
                      <<buffer'[q][i], buffer'[q][j]>> \notin Newer
               /\ \A i \in DOMAIN buffer'[q] : Working(q) /\ buffer'[q][i] \notin again =>
                      <<job[q], buffer'[q][i]>> \notin Newer
               /\ \A d \in Document : index[d].pod = q =>
                      /\ \A i \in DOMAIN buffer'[q] : buffer'[q][i] \notin again =>
                             <<index[d].event, buffer'[q][i]>> \notin Newer
                      /\ Working(q) /\ job[q] \notin again => <<index[d].event, job[q]>> \notin Newer
    <3>1. CASE q = p
        BY <2>2, <2>3, <2>4, <3>1
    <3>2. CASE q # p
        BY <2>5, <3>2
    <3> QED BY <3>1, <3>2
  <2> QED BY <1>4, <2>6, <2>7 DEF InOrder, After
<1>11. PutBeforeAck' /\ IndexInv' /\ AckedEventsWereIndexed'
    BY <1>0 DEF PutBeforeAck, IndexInv, AckedEventsWereIndexed
<1> QED BY <1>6, <1>7, <1>8, <1>9, <1>10, <1>11

\* The goroutine takes the first of its buffer.
LEMMA TakeKeeps ==
    ASSUME SearchInv, NEW p \in Pod, Take(p)
    PROVE  SearchInv'
<1> USE DEF SearchInv
<1>0. /\ ~Working(p) /\ buffer[p] # <<>>
      /\ job' = [job EXCEPT ![p] = Head(buffer[p])]
      /\ buffer' = [buffer EXCEPT ![p] = Tail(@)]
      /\ at' = [at EXCEPT ![p] = "index"]
      /\ UNCHANGED <<log, ready, unacked, channel, settled, dead, again, index, indexed, faults>>
    BY DEF Take, Working, brokerVars, indexVars
<1>1. /\ buffer[p] \in Seq(Event) /\ buffer'[p] \in Seq(Event)
      /\ 1 \in DOMAIN buffer[p] /\ job'[p] = buffer[p][1]
      /\ \A i \in DOMAIN buffer'[p] : /\ i + 1 \in DOMAIN buffer[p]
                                      /\ buffer'[p][i] = buffer[p][i + 1]
                                      /\ i \in Nat /\ i >= 1
      /\ \A q \in Pod : q # p => buffer'[q] = buffer[q] /\ job'[q] = job[q] /\ at'[q] = at[q]
      /\ at'[p] = "index"
    BY <1>0, TailParts DEF TypeOK
<1>2. Newer' = Newer
    BY <1>0 DEF Newer
<1>3. job'[p] \in Event /\ job'[p] \in unacked[p] /\ job'[p] \in Pushed
    BY <1>1, HeldIsPushed
<1>4. \A x : x \in Pushed' => x \in Pushed
  <2>1. \A q \in Pod : Working(q)' /\ q # p => Working(q) /\ job'[q] = job[q]
      BY <1>1 DEF Working
  <2> QED BY <1>0, <1>3, <2>1 DEF Pushed
<1>5. TypeOK'
  <2>1. /\ buffer' \in [Pod -> Seq(Event)] /\ job' \in [Pod -> Event \cup {None}]
        /\ at' \in [Pod -> {"idle", "index", "ack", "nack"}]
      BY <1>0, <1>1, <1>3 DEF TypeOK
  <2>2. ToSet(buffer'[p]) \subseteq ToSet(buffer[p])
      BY <1>1 DEF ToSet
  <2>3. \A q \in Pod : ToSet(buffer'[q]) \subseteq unacked[q]
      BY <1>1, <2>2 DEF TypeOK
  <2> QED BY <1>0, <2>1, <2>3 DEF TypeOK
<1>6. LogInv' /\ OldestFirst'
    BY <1>0, <1>4, QueueKept DEF TypeOK
<1>7. ChannelInv'
  <2>1. \A i \in DOMAIN buffer'[p] : buffer'[p][i] # job'[p]
      BY <1>1 DEF ChannelInv
  <2>2. job'[p] \notin ToSet(buffer'[p])
      BY <2>1, InToSet
  <2>3. \A i, j \in DOMAIN buffer'[p] : buffer'[p][i] = buffer'[p][j] => i = j
    <3> SUFFICES ASSUME NEW i \in DOMAIN buffer'[p], NEW j \in DOMAIN buffer'[p],
                        buffer'[p][i] = buffer'[p][j]
                 PROVE  i = j
        OBVIOUS
    <3>1. i + 1 = j + 1
        BY <1>1 DEF ChannelInv
    <3> QED BY <1>1, <3>1
  <2>4. \A q \in Pod : \A i, j \in DOMAIN buffer'[q] : buffer'[q][i] = buffer'[q][j] => i = j
      BY <1>1, <2>3 DEF ChannelInv
  <2>5. ASSUME NEW q \in Pod, Working(q)'
        PROVE  /\ job'[q] \in Event
               /\ job'[q] \notin ToSet(buffer'[q])
               /\ job'[q] \in unacked[q] \/ (channel[q] = "closed" /\ job'[q] \in again)
    <3>1. CASE q = p
        BY <1>3, <2>2, <3>1
    <3>2. CASE q # p
        BY <1>1, <2>5, <3>2 DEF ChannelInv, Working
    <3> QED BY <3>1, <3>2
  <2> QED BY <1>0, <2>4, <2>5 DEF ChannelInv
<1>8. InOrder'
  <2>1. ASSUME NEW i \in DOMAIN buffer[p], buffer[p][i] \notin again
        PROVE  /\ \A j \in DOMAIN buffer[p] : j < i => <<buffer[p][j], buffer[p][i]>> \notin Newer
               /\ \A d \in Document : index[d].pod = p => <<index[d].event, buffer[p][i]>> \notin Newer
      BY <2>1 DEF InOrder, After
  <2>2. ASSUME NEW i \in DOMAIN buffer'[p], buffer'[p][i] \notin again
        PROVE  /\ \A j \in DOMAIN buffer'[p] : j < i => <<buffer'[p][j], buffer'[p][i]>> \notin Newer
               /\ <<job'[p], buffer'[p][i]>> \notin Newer
               /\ \A d \in Document : index[d].pod = p => <<index[d].event, buffer'[p][i]>> \notin Newer
    <3>1. i + 1 \in DOMAIN buffer[p] /\ buffer'[p][i] = buffer[p][i + 1] /\ 1 < i + 1
        BY <1>1
    <3>2. ASSUME NEW j \in DOMAIN buffer'[p], j < i
          PROVE  <<buffer'[p][j], buffer'[p][i]>> \notin Newer
      <4>1. j + 1 \in DOMAIN buffer[p] /\ buffer'[p][j] = buffer[p][j + 1] /\ j + 1 < i + 1
          BY <1>1, <3>2
      <4> QED BY <2>1, <2>2, <3>1, <4>1
    <3>3. <<job'[p], buffer'[p][i]>> \notin Newer
        BY <1>1, <2>1, <2>2, <3>1
    <3>4. \A d \in Document : index[d].pod = p => <<index[d].event, buffer'[p][i]>> \notin Newer
        BY <2>1, <2>2, <3>1
    <3> QED BY <3>2, <3>3, <3>4
  <2>3. ASSUME job'[p] \notin again
        PROVE  \A d \in Document : index[d].pod = p => <<index[d].event, job'[p]>> \notin Newer
      BY <1>1, <2>1, <2>3
  <2>4. ASSUME NEW q \in Pod, q # p
        PROVE  /\ \A i, j \in DOMAIN buffer'[q] : i < j /\ buffer'[q][j] \notin again =>
                      <<buffer'[q][i], buffer'[q][j]>> \notin Newer
               /\ \A i \in DOMAIN buffer'[q] : Working(q)' /\ buffer'[q][i] \notin again =>
                      <<job'[q], buffer'[q][i]>> \notin Newer
               /\ \A d \in Document : index[d].pod = q =>
                      /\ \A i \in DOMAIN buffer'[q] : buffer'[q][i] \notin again =>
                             <<index[d].event, buffer'[q][i]>> \notin Newer
                      /\ Working(q)' /\ job'[q] \notin again => <<index[d].event, job'[q]>> \notin Newer
    <3>1. Working(q)' <=> Working(q)
        BY <1>1, <2>4 DEF Working
    <3> QED BY <1>1, <2>4, <3>1 DEF InOrder, After
  <2>5. ASSUME NEW q \in Pod
        PROVE  /\ \A i, j \in DOMAIN buffer'[q] : i < j /\ buffer'[q][j] \notin again =>
                      <<buffer'[q][i], buffer'[q][j]>> \notin Newer
               /\ \A i \in DOMAIN buffer'[q] : Working(q)' /\ buffer'[q][i] \notin again =>
                      <<job'[q], buffer'[q][i]>> \notin Newer
               /\ \A d \in Document : index[d].pod = q =>
                      /\ \A i \in DOMAIN buffer'[q] : buffer'[q][i] \notin again =>
                             <<index[d].event, buffer'[q][i]>> \notin Newer
                      /\ Working(q)' /\ job'[q] \notin again => <<index[d].event, job'[q]>> \notin Newer
    <3>1. CASE q = p
        BY <2>2, <2>3, <3>1
    <3>2. CASE q # p
        BY <2>4, <3>2
    <3> QED BY <3>1, <3>2
  <2> QED BY <1>0, <1>2, <2>5 DEF InOrder, After
<1>9. PutBeforeAck' /\ IndexInv' /\ AckedEventsWereIndexed'
    BY <1>0, <1>1 DEF PutBeforeAck, IndexInv, AckedEventsWereIndexed
<1> QED BY <1>5, <1>6, <1>7, <1>8, <1>9

\* The PUT of the event at work, done or not.
LEMMA IndexKeeps ==
    ASSUME SearchInv, NEW p \in Pod, Index(p) \/ IndexFails(p)
    PROVE  SearchInv'
<1> USE DEF SearchInv
<1> DEFINE e == job[p]
<1>0. /\ at[p] = "index" /\ Working(p)
      /\ \E step \in {"ack", "nack"} :
             at' = [at EXCEPT ![p] = step] /\ (step = "ack" => Put(p))
      /\ Put(p) \/ UNCHANGED <<index, indexed>>
      /\ UNCHANGED <<log, ready, unacked, channel, settled, dead, again, buffer, job>>
      /\ faults' \in Nat
    BY DEF Index, IndexFails, Goto, Working, Fault, brokerVars, indexVars, TypeOK
<1>1. /\ e \in Event /\ e \in Pushed
      /\ \A q \in Pod : Working(q)' <=> Working(q)
    BY <1>0, HeldIsPushed DEF ChannelInv, Working, TypeOK
<1>2. /\ index' \in [Document -> [event : Event \cup {None}, pod : Pod \cup {None}]]
      /\ \A d \in Document :
             index'[d] = index[d] \/ (d = DocumentOf[e] /\ index'[d] = [event |-> e, pod |-> p])
      /\ indexed \subseteq indexed' /\ indexed' \subseteq indexed \cup {e}
  <2>1. CASE Put(p)
    <3>1. index' = [index EXCEPT ![DocumentOf[e]] = [event |-> e, pod |-> p]]
        BY <2>1 DEF Put
    <3>2. index \in [Document -> [event : Event \cup {None}, pod : Pod \cup {None}]]
        BY DEF TypeOK
    <3>3. [event |-> e, pod |-> p] \in [event : Event \cup {None}, pod : Pod \cup {None}]
        BY <1>1
    <3>4. index' \in [Document -> [event : Event \cup {None}, pod : Pod \cup {None}]]
        BY ONLY <3>1, <3>2, <3>3
    <3>5. \A d \in Document :
              index'[d] = index[d] \/ (d = DocumentOf[e] /\ index'[d] = [event |-> e, pod |-> p])
        BY ONLY <3>1, <3>2
    <3>6. indexed' = indexed \cup {e}
        BY <2>1 DEF Put
    <3> QED BY ONLY <3>4, <3>5, <3>6
  <2>2. CASE UNCHANGED <<index, indexed>>
      BY <2>2 DEF TypeOK
  <2> QED BY <1>0, <2>1, <2>2
<1> HIDE DEF e
<1>3. Newer' = Newer
    BY <1>0 DEF Newer
<1>4. \A x : x \in Pushed' => x \in Pushed
  <2>1. \A d \in Document : index'[d].event \in Pushed
      BY <1>1, <1>2, HeldIsPushed
  <2>2. indexed' \subseteq Pushed
      BY <1>1, <1>2 DEF Pushed
  <2> QED BY <1>0, <1>1, <2>1, <2>2 DEF Pushed
<1>5. TypeOK'
    BY <1>0, <1>1, <1>2 DEF TypeOK
<1>6. LogInv' /\ OldestFirst'
    BY <1>0, <1>4, QueueKept DEF TypeOK
<1>7. ChannelInv'
    BY <1>0, <1>1 DEF ChannelInv
<1>8. InOrder'
  <2>1. ASSUME NEW q \in Pod, NEW d \in Document, index'[d].pod = q
        PROVE  /\ \A i \in DOMAIN buffer[q] : buffer[q][i] \notin again =>
                      <<index'[d].event, buffer[q][i]>> \notin Newer
               /\ Working(q) /\ job[q] \notin again => <<index'[d].event, job[q]>> \notin Newer
    <3>1. CASE index'[d] = index[d]
        BY <2>1, <3>1 DEF InOrder, After
    <3>2. CASE index'[d] = [event |-> e, pod |-> p]
      <4>1. q = p /\ index'[d].event = job[p]
          BY <2>1, <3>2 DEF e
      <4> QED BY <1>0, <4>1, NotAfterItself DEF InOrder, After
    <3> QED BY <1>2, <3>1, <3>2
  <2> QED BY <1>0, <1>1, <1>3, <2>1 DEF InOrder, After
<1>9. PutBeforeAck'
  <2> SUFFICES ASSUME NEW q \in Pod, at'[q] = "ack" PROVE job[q] \in indexed'
      BY <1>0 DEF PutBeforeAck
  <2>1. CASE q = p
      BY <1>0, <2>1 DEF Put, TypeOK
  <2>2. CASE q # p
      BY <1>0, <1>2, <2>2 DEF PutBeforeAck, TypeOK
  <2> QED BY <2>1, <2>2
<1>10. IndexInv' /\ AckedEventsWereIndexed'
    BY <1>0, <1>2 DEF IndexInv, AckedEventsWereIndexed
<1> QED BY <1>5, <1>6, <1>7, <1>8, <1>9, <1>10

\* The answer: what is acknowledged was put.
LEMMA AnswerKeeps ==
    ASSUME SearchInv, NEW p \in Pod, Discard(p) \/ Ack(p) \/ Requeue(p)
    PROVE  SearchInv'
<1> USE DEF SearchInv
<1> DEFINE e == job[p]
           answered == unacked[p] \cap {e}
<1>0. /\ Working(p) /\ at[p] \in {"index", "ack", "nack"}
      /\ unacked' = [unacked EXCEPT ![p] = @ \ {e}]
      /\ at' = [at EXCEPT ![p] = "idle"] /\ job' = [job EXCEPT ![p] = None]
      /\ UNCHANGED <<log, channel, buffer, index, indexed, faults>>
    BY DEF Discard, Ack, Requeue, Answer, Working, indexVars
<1>1. /\ ready \subseteq ready' /\ ready' \subseteq ready \cup answered
      /\ again \subseteq again' /\ again' \subseteq again \cup answered
      /\ \A x \in ready' : x \in ready \/ x \in again'
      /\ settled \subseteq settled' /\ settled' \subseteq settled \cup answered
      /\ at[p] # "ack" => settled' = settled
      /\ dead' \subseteq dead \cup answered
    BY DEF Discard, Ack, Requeue, Answer, Answered
<1>2. e \in Event /\ e \notin ToSet(buffer[p]) /\ answered \subseteq Pushed
    BY <1>0, HeldIsPushed DEF ChannelInv
<1>3. /\ unacked'[p] = unacked[p] \ {e} /\ at'[p] = "idle"
      /\ \A q \in Pod : unacked'[q] \subseteq unacked[q]
      /\ \A q \in Pod : q # p => unacked'[q] = unacked[q] /\ at'[q] = at[q] /\ job'[q] = job[q]
      /\ \A q \in Pod : Working(q)' => q # p /\ Working(q) /\ job'[q] = job[q]
    BY <1>0 DEF TypeOK, Working
<1> HIDE DEF e
<1>4. Pushed' \subseteq Pushed
    BY <1>0, <1>1, <1>2, <1>3 DEF Pushed
<1>5. TypeOK'
  <2>1. /\ unacked' \in [Pod -> SUBSET Event] /\ job' \in [Pod -> Event \cup {None}]
        /\ at' \in [Pod -> {"idle", "index", "ack", "nack"}]
      BY <1>0 DEF TypeOK
  <2>2. \A q \in Pod : ToSet(buffer'[q]) \subseteq unacked'[q]
      BY <1>0, <1>2, <1>3 DEF TypeOK
  <2>3. /\ ready' \subseteq Event /\ settled' \subseteq Event
        /\ dead' \subseteq Event /\ again' \subseteq Event
      BY <1>1 DEF TypeOK
  <2> QED BY <1>0, <2>1, <2>2, <2>3 DEF TypeOK
<1>6. LogInv' /\ OldestFirst'
    BY <1>0, <1>1, <1>2, <1>4, <1>5, QueueKept DEF TypeOK
<1>7. ChannelInv'
  <2>1. \A q \in Pod : unacked'[q] \cap ready' = {}
    <3>1. \A q \in Pod : q # p => e \notin unacked[q] \/ e \notin unacked[p]
        BY DEF ChannelInv
    <3> QED BY <1>1, <1>3, <3>1 DEF ChannelInv
  <2>2. \A q, r \in Pod : q # r => unacked'[q] \cap unacked'[r] = {}
      BY <1>3 DEF ChannelInv
  <2>3. \A q \in Pod : channel[q] = "closed" => unacked'[q] = {}
      BY <1>3 DEF ChannelInv
  <2>4. ASSUME NEW q \in Pod, Working(q)'
        PROVE  /\ job'[q] \in Event
               /\ job'[q] \notin ToSet(buffer[q])
               /\ job'[q] \in unacked'[q] \/ (channel[q] = "closed" /\ job'[q] \in again')
      BY <1>1, <1>3, <2>4 DEF ChannelInv
  <2> QED BY <1>0, <2>1, <2>2, <2>3, <2>4 DEF ChannelInv
<1>8. InOrder'
    BY <1>0, <1>1, <1>3, OrderKept
<1>9. PutBeforeAck' /\ IndexInv'
  <2>1. \A q \in Pod : at'[q] = "ack" => at[q] = "ack" /\ job'[q] = job[q]
      BY <1>3
  <2> QED BY <1>0, <2>1 DEF PutBeforeAck, IndexInv
<1>10. AckedEventsWereIndexed'
    BY <1>0, <1>1 DEF AckedEventsWereIndexed, PutBeforeAck, e
<1> QED BY <1>5, <1>6, <1>7, <1>8, <1>9, <1>10

\* The channel closes or the pod restarts: all it had goes back to its place.
LEMMA GiveBackKeeps ==
    ASSUME SearchInv, NEW p \in Pod, ChannelCloses(p) \/ PodRestarts(p)
    PROVE  SearchInv'
<1> USE DEF SearchInv
<1>0. /\ ready' = ready \cup unacked[p] /\ again' = again \cup unacked[p]
      /\ unacked' = [unacked EXCEPT ![p] = {}]
      /\ buffer' = [buffer EXCEPT ![p] = <<>>]
      /\ channel' \in [Pod -> {"open", "closed"}] /\ faults' \in Nat
      /\ UNCHANGED <<log, settled, dead, index, indexed>>
  <2>1. channel' \in [Pod -> {"open", "closed"}]
      BY DEF ChannelCloses, PodRestarts, TypeOK
  <2>2. faults' \in Nat
      BY DEF ChannelCloses, PodRestarts, Fault, TypeOK
  <2> QED BY <2>1, <2>2 DEF ChannelCloses, PodRestarts, GiveBack, indexVars
<1>1. /\ at' \in [Pod -> {"idle", "index", "ack", "nack"}] /\ job' \in [Pod -> Event \cup {None}]
      /\ \A q \in Pod : Working(q)' => Working(q) /\ at'[q] = at[q] /\ job'[q] = job[q]
      /\ \A q \in Pod : q # p => channel'[q] = channel[q]
      /\ Working(p)' => channel'[p] = "closed"
    BY DEF ChannelCloses, PodRestarts, Working, TypeOK
<1>2. /\ unacked'[p] = {} /\ buffer'[p] = <<>>
      /\ \A q \in Pod : q # p => unacked'[q] = unacked[q] /\ buffer'[q] = buffer[q]
      /\ unacked' \in [Pod -> SUBSET Event] /\ buffer' \in [Pod -> Seq(Event)]
    BY <1>0 DEF TypeOK
<1>3. unacked[p] \subseteq Pushed /\ unacked[p] \subseteq Event
    BY HeldIsPushed
<1>4. Pushed' \subseteq Pushed
  <2>1. UNION {unacked'[q] : q \in Pod} \subseteq Pushed
    <3>1. \A q \in Pod : unacked'[q] \subseteq unacked[q]
        BY <1>2
    <3> QED BY <3>1, HeldIsPushed
  <2> QED BY <1>0, <1>1, <1>3, <2>1 DEF Pushed
<1>5. DOMAIN <<>> = {} /\ ToSet(<<>>) = {}
    BY DEF ToSet
<1>6. TypeOK'
  <2>1. \A q \in Pod : ToSet(buffer'[q]) \subseteq unacked'[q]
      BY <1>2, <1>5 DEF TypeOK
  <2> QED BY <1>0, <1>1, <1>2, <1>3, <2>1 DEF TypeOK
<1>7. LogInv' /\ OldestFirst'
    BY <1>0, <1>3, <1>4, <1>6, QueueKept DEF TypeOK
<1>8. ChannelInv'
  <2>1. \A q \in Pod : unacked'[q] \cap ready' = {}
      BY <1>0, <1>2 DEF ChannelInv
  <2>2. \A q, r \in Pod : q # r => unacked'[q] \cap unacked'[r] = {}
      BY <1>2 DEF ChannelInv
  <2>3. \A q \in Pod : channel'[q] = "closed" => unacked'[q] = {}
      BY <1>1, <1>2 DEF ChannelInv
  <2>4. \A q \in Pod : \A i, j \in DOMAIN buffer'[q] : buffer'[q][i] = buffer'[q][j] => i = j
      BY <1>2, <1>5 DEF ChannelInv
  <2>5. ASSUME NEW q \in Pod, Working(q)'
        PROVE  /\ job'[q] \in Event
               /\ job'[q] \notin ToSet(buffer'[q])
               /\ job'[q] \in unacked'[q] \/ (channel'[q] = "closed" /\ job'[q] \in again')
    <3>1. CASE q = p
        BY <1>0, <1>1, <1>2, <1>5, <2>5, <3>1 DEF ChannelInv
    <3>2. CASE q # p
        BY <1>0, <1>1, <1>2, <2>5, <3>2 DEF ChannelInv
    <3> QED BY <3>1, <3>2
  <2> QED BY <2>1, <2>2, <2>3, <2>4, <2>5 DEF ChannelInv
<1>9. InOrder'
    BY <1>0, <1>1, <1>2, OrderKept
<1>10. PutBeforeAck' /\ IndexInv' /\ AckedEventsWereIndexed'
    BY <1>0, <1>1 DEF PutBeforeAck, IndexInv, AckedEventsWereIndexed, Working
<1> QED BY <1>6, <1>7, <1>8, <1>9, <1>10

LEMMA SearchInitially == Init => SearchInv
<1> SUFFICES ASSUME Init PROVE SearchInv
    OBVIOUS
<1>1. <<>> \in Seq(Event) /\ DOMAIN <<>> = {} /\ ToSet(<<>>) = {}
    BY DEF ToSet
<1>2. \A e \in Event : e \notin Pushed
    BY SearchAssumption DEF Init, Pushed, Working
<1>3. TypeOK
    BY <1>1, SearchAssumption DEF Init, TypeOK
<1>4. LogInv /\ OldestFirst
    BY <1>1, <1>2 DEF Init, LogInv, OldestFirst
<1>5. ChannelInv /\ InOrder
    BY <1>1, SearchAssumption DEF Init, ChannelInv, InOrder, Working
<1>6. PutBeforeAck /\ IndexInv /\ AckedEventsWereIndexed
    BY DEF Init, PutBeforeAck, IndexInv, AckedEventsWereIndexed
<1> QED BY <1>3, <1>4, <1>5, <1>6 DEF SearchInv

LEMMA SearchNextKeeps ==
    ASSUME SearchInv, [Next]_vars
    PROVE  SearchInv'
<1>1. CASE UNCHANGED vars
    BY <1>1 DEF SearchInv, TypeOK, LogInv, ChannelInv, OldestFirst, InOrder, PutBeforeAck, IndexInv,
        AckedEventsWereIndexed, Pushed, Working, After, Newer,
        vars, brokerVars, podVars, indexVars
<1>2. ASSUME NEW e \in Event, Publish(e) PROVE SearchInv'
    BY <1>2, PublishKeeps
<1>3. ASSUME NEW p \in Pod, Push(p) PROVE SearchInv'
    BY <1>3, PushKeeps
<1>4. ASSUME NEW p \in Pod, Work(p) PROVE SearchInv'
    BY <1>4, TakeKeeps, IndexKeeps, AnswerKeeps DEF Work
<1>5. ASSUME NEW p \in Pod, ChannelCloses(p) \/ PodRestarts(p) PROVE SearchInv'
    BY <1>5, GiveBackKeeps
<1> QED BY <1>1, <1>2, <1>3, <1>4, <1>5 DEF Next
-------------------------------------------------------------------------------
(***************************************************************************)
(* Results                                                                 *)
(***************************************************************************)

\* Every state of the indexer satisfies the invariant: the queue serves its oldest
\* event first, each pod works in that order, and puts before it acknowledges.
THEOREM SearchInvariant == Spec => []SearchInv
<1>1. SearchInv /\ [Next]_vars => SearchInv'
    BY SearchNextKeeps
<1> QED BY SearchInitially, <1>1, PTL DEF Spec

\* Every variable keeps its type, and a pod buffers only what it has not answered.
THEOREM IndexerTyped == Spec => []TypeOK
<1>1. SearchInv => TypeOK
    BY DEF SearchInv
<1> QED BY SearchInvariant, <1>1, PTL

\* Elasticsearch answered for every event whose delivery was acknowledged: Ack comes
\* after a PUT that succeeded, through closed channels and restarts.
THEOREM AckedMeansIndexed == Spec => []AckedEventsWereIndexed
<1>1. SearchInv => AckedEventsWereIndexed
    BY DEF SearchInv
<1> QED BY SearchInvariant, <1>1, PTL

\* The step that puts an older event over a newer one of the same document: the two
\* were published in the wrong order, the older was given back, or two pods are at it.
LEMMA PutGoesBackOnlyFor ==
    ASSUME SearchInv, NEW p \in Pod, Index(p) \/ IndexFails(p), NEW d \in Document,
           index[d].event # None, index'[d].event < index[d].event
    PROVE  Late(index'[d].event) \/ index'[d].event \in again \/ index'[d].pod # index[d].pod
<1> DEFINE e == job[p]
           f == index[d].event
<1>1. at[p] = "index" /\ Working(p) /\ (Put(p) \/ index' = index)
    BY DEF Index, IndexFails, Working, indexVars
<1>2. e \in Event /\ f \in Event /\ e \in Nat /\ f \in Nat
    BY <1>1, SearchAssumption DEF SearchInv, ChannelInv, TypeOK
<1>3. d = DocumentOf[e] /\ index'[d] = [event |-> e, pod |-> p]
    BY <1>1, <1>2, SearchAssumption DEF Put, SearchInv, TypeOK
<1>4. e < f
    BY <1>3
<1>5. DocumentOf[f] = d
    BY DEF SearchInv, IndexInv
<1> SUFFICES ASSUME e \notin again, index[d].pod = p
             PROVE  Late(e)
    BY <1>3
<1>6. ~After(f, e)
    BY <1>1 DEF SearchInv, InOrder
<1>7. e \in ToSet(log) /\ f \in ToSet(log)
    BY <1>1, <1>2, HeldIsPushed DEF SearchInv, LogInv
<1>8. \E i, j \in DOMAIN log : i < j /\ log[j] = e /\ log[i] = f
    BY <1>2, <1>4, <1>6, <1>7, LogIsOrdered DEF SearchInv
<1> QED BY <1>2, <1>3, <1>4, <1>5, <1>8 DEF Late

\* A document shows an older event again for one of three reasons only: the requests
\* published in the wrong order, the older event was delivered again, or two pods
\* work side by side. One pod that loses no channel never moves the index back.
THEOREM IndexGoesForward == Spec => IndexGoesBackOnlyFor
<1>1. ASSUME SearchInv, [Next]_vars, NEW d \in Document,
             index[d].event # None, index'[d].event < index[d].event
      PROVE  Late(index'[d].event) \/ index'[d].event \in again \/ index'[d].pod # index[d].pod
  <2>1. index[d].event \in Nat
      BY <1>1, SearchAssumption DEF SearchInv, TypeOK
  <2>2. index' # index
      BY <1>1, <2>1
  <2>3. PICK p \in Pod : Index(p) \/ IndexFails(p)
      BY <1>1, <2>2 DEF Next, Publish, Push, Work, Take, Discard, Ack, Requeue, Answer,
          ChannelCloses, PodRestarts, vars, indexVars
  <2> QED BY <1>1, <2>3, PutGoesBackOnlyFor
<1>2. SearchInv /\ [Next]_vars =>
          [\A d \in Document :
               LET old == index[d]
                   new == index'[d]
               IN  old.event # None /\ new.event < old.event =>
                       Late(new.event) \/ new.event \in again \/ new.pod # old.pod]_vars
    BY <1>1
<1> QED BY SearchInvariant, <1>2, PTL DEF Spec, IndexGoesBackOnlyFor

AtBroker == Pending \cup settled \cup dead

\* What was published stays at the broker, and only what cannot be read is dead-lettered.
KeptByBroker == ToSet(log) \subseteq AtBroker /\ dead \subseteq Malformed

LEMMA PublishedStays ==
    ASSUME SearchInv, KeptByBroker, [Next]_vars
    PROVE  KeptByBroker'
<1>0. TypeOK
    BY DEF SearchInv
<1>1. ASSUME NEW e \in Event, Publish(e) PROVE KeptByBroker'
  <2>1. ToSet(log') \subseteq ToSet(log) \cup {e}
      BY <1>0, <1>1, AppendParts DEF Publish, TypeOK, ToSet
  <2> QED BY <1>1, <2>1 DEF Publish, KeptByBroker, AtBroker, Pending
<1>2. ASSUME NEW p \in Pod, Push(p) PROVE KeptByBroker'
  <2> DEFINE o == Oldest
  <2>1. /\ ready' = ready \ {o} /\ unacked' = [unacked EXCEPT ![p] = @ \cup {o}]
        /\ UNCHANGED <<log, settled, dead>>
      BY <1>2 DEF Push
  <2> HIDE DEF o
  <2>2. o \in unacked'[p] /\ \A q \in Pod : unacked[q] \subseteq unacked'[q]
      BY <1>0, <2>1 DEF TypeOK
  <2> QED BY <2>1, <2>2 DEF KeptByBroker, AtBroker, Pending
<1>3. ASSUME NEW p \in Pod, Discard(p) \/ Ack(p) \/ Requeue(p) PROVE KeptByBroker'
  <2>1. /\ unacked' = [unacked EXCEPT ![p] = @ \ {job[p]}] /\ log' = log
        /\ Answered(p) \subseteq ready' \cup settled' \cup dead'
        /\ ready \subseteq ready' /\ settled \subseteq settled' /\ dead \subseteq dead'
        /\ dead' \subseteq dead \cup Malformed
      BY <1>3 DEF Discard, Ack, Requeue, Answer, Answered
  <2>2. \A q \in Pod : unacked[q] \subseteq unacked'[q] \cup Answered(p)
      BY <1>0, <2>1 DEF TypeOK, Answered
  <2> QED BY <2>1, <2>2 DEF KeptByBroker, AtBroker, Pending
<1>4. ASSUME NEW p \in Pod, ChannelCloses(p) \/ PodRestarts(p) PROVE KeptByBroker'
  <2>1. /\ ready' = ready \cup unacked[p] /\ unacked' = [unacked EXCEPT ![p] = {}]
        /\ UNCHANGED <<log, settled, dead>>
      BY <1>4 DEF ChannelCloses, PodRestarts, GiveBack
  <2>2. \A q \in Pod : unacked[q] \subseteq unacked'[q] \cup unacked[p]
      BY <1>0, <2>1 DEF TypeOK
  <2> QED BY <2>1, <2>2 DEF KeptByBroker, AtBroker, Pending
<1>5. CASE UNCHANGED <<log, ready, unacked, settled, dead>>
    BY <1>5 DEF KeptByBroker, AtBroker, Pending
<1>6. ASSUME NEW p \in Pod, Take(p) \/ Index(p) \/ IndexFails(p) PROVE KeptByBroker'
    BY <1>5, <1>6 DEF Take, Index, IndexFails, brokerVars
<1> QED BY <1>1, <1>2, <1>3, <1>4, <1>5, <1>6 DEF Next, Work, vars, brokerVars

\* Every event that was published and can be read has been indexed or is still with
\* the broker: the consumer of indexer_consumer.go skips none, however often it fails.
THEOREM NothingIsSkipped == Spec => []NoEventSkipped
<1>1. Init => KeptByBroker
    BY DEF Init, KeptByBroker, AtBroker, Pending, ToSet
<1>2. SearchInv /\ KeptByBroker /\ [Next]_vars => KeptByBroker'
    BY PublishedStays
<1>3. SearchInv /\ KeptByBroker => NoEventSkipped
    BY DEF SearchInv, AckedEventsWereIndexed, KeptByBroker, AtBroker, Pending, NoEventSkipped
<1> QED BY <1>1, <1>2, <1>3, SearchInvariant, PTL DEF Spec

\* What the queue owes as Delivery sees it, when it owes the events of S.
LEMMA BrokerVars ==
    /\ (Pending' = Pending /\ settled' = settled /\ dead' = dead => UNCHANGED Broker!vars)
    /\ \A e \in Event : {IndexQueue} \in Broker!Reached(e)
<1>1. Pending' = Pending /\ settled' = settled /\ dead' = dead => UNCHANGED Broker!vars
    BY DEF Broker!vars
<1>2. ASSUME NEW e \in Event PROVE {IndexQueue} \in Broker!Reached(e)
  <2>1. {q \in {IndexQueue} : e \in [r \in {IndexQueue} |-> Event][q]} = {IndexQueue}
      OBVIOUS
  <2>2. {IndexQueue} \in {({IndexQueue} \cap {IndexQueue}) \cup others : others \in SUBSET {IndexQueue}}
      OBVIOUS
  <2> QED BY <2>1, <2>2 DEF Broker!Reached
<1> QED BY <1>1, <1>2

LEMMA AnswersImplement ==
    ASSUME SearchInv, NEW p \in Pod, Discard(p) \/ Ack(p) \/ Requeue(p)
    PROVE  [Broker!Next]_Broker!vars
<1> DEFINE e == job[p]
           Owed == [q \in {IndexQueue} |-> Pending]
           Handled == [q \in {IndexQueue} |-> settled]
           Buried == [q \in {IndexQueue} |-> dead]
<1>1. /\ unacked' = [unacked EXCEPT ![p] = @ \ {e}]
      /\ \/ ready' = ready \cup Answered(p) /\ settled' = settled /\ dead' = dead
         \/ ready' = ready /\ settled' = settled \cup Answered(p) /\ dead' = dead
         \/ ready' = ready /\ settled' = settled /\ dead' = dead \cup Answered(p)
    BY DEF Discard, Ack, Requeue, Answer
<1>2. \A q \in Pod : unacked'[q] = IF q = p THEN unacked[p] \ {e} ELSE unacked[q]
    BY <1>1 DEF SearchInv, TypeOK
<1>3. CASE e \notin unacked[p]
  <2>1. Answered(p) = {} /\ \A q \in Pod : unacked'[q] = unacked[q]
      BY <1>2, <1>3 DEF Answered
  <2>2. Pending' = Pending /\ settled' = settled /\ dead' = dead
      BY <1>1, <2>1 DEF Pending
  <2> QED BY <2>2, BrokerVars
<1>4. CASE e \in unacked[p]
  <2>1. /\ Answered(p) = {e} /\ e \in Event /\ e \in Pending /\ e \notin ready
        /\ \A q \in Pod : unacked'[q] = unacked[q] \ {e}
    <3>1. Answered(p) = {e} /\ e \in Event /\ e \in Pending
        BY <1>4 DEF Answered, SearchInv, TypeOK, Pending
    <3>2. e \notin ready /\ \A q \in Pod : q # p => e \notin unacked[q]
        BY <1>4 DEF SearchInv, ChannelInv
    <3> QED BY <1>2, <3>1, <3>2
  <2>2. CASE ready' = ready \cup Answered(p) /\ settled' = settled /\ dead' = dead
    <3>1. Pending' = Pending
        BY <2>1, <2>2 DEF Pending
    <3> QED BY <2>2, <3>1, BrokerVars
  <2>3. ready' = ready => Owed' = [Owed EXCEPT ![IndexQueue] = @ \ {e}]
    <3>1. ready' = ready => Pending' = Pending \ {e}
        BY <2>1 DEF Pending
    <3> QED BY <3>1
  <2>4. CASE ready' = ready /\ settled' = settled \cup Answered(p) /\ dead' = dead
    <3>1. Handled' = [Handled EXCEPT ![IndexQueue] = @ \cup {e}] /\ Buried' = Buried
        BY <2>1, <2>4
    <3>2. Broker!Handle(IndexQueue, e)
        BY <2>3, <2>4, <3>1 DEF Broker!Handle, Pending
    <3>3. e \in Owed[IndexQueue]
        BY <2>1
    <3> QED BY <3>2, <3>3 DEF Broker!Next
  <2>5. CASE ready' = ready /\ settled' = settled /\ dead' = dead \cup Answered(p)
    <3>1. /\ Handled' = Handled
          /\ Buried' = [q \in {IndexQueue} |->
                            IF q \in {IndexQueue} THEN Buried[q] \cup {e} ELSE Buried[q]]
        BY <2>1, <2>5
    <3>2. Broker!GiveUp(IndexQueue, e)
        BY <2>1, <2>3, <2>5, <3>1, BrokerVars DEF Broker!GiveUp, Pending
    <3>3. e \in Owed[IndexQueue]
        BY <2>1
    <3> QED BY <3>2, <3>3 DEF Broker!Next
  <2> QED BY <1>1, <2>2, <2>4, <2>5
<1> QED BY <1>3, <1>4

LEMMA IndexerImplements ==
    ASSUME SearchInv, [Next]_vars
    PROVE  [Broker!Next]_Broker!vars
<1>0. TypeOK /\ LogInv
    BY DEF SearchInv
<1> DEFINE Owed == [q \in {IndexQueue} |-> Pending]
           Handled == [q \in {IndexQueue} |-> settled]
           Buried == [q \in {IndexQueue} |-> dead]
<1>1. ASSUME NEW e \in Event, Publish(e) PROVE [Broker!Next]_Broker!vars
  <2>1. /\ ready' = ready \cup {e} /\ e \notin ToSet(log)
        /\ unacked' = unacked /\ settled' = settled /\ dead' = dead
      BY <1>1 DEF Publish
  <2>2. e \notin Pending /\ e \notin settled /\ e \notin dead /\ Pending' = Pending \cup {e}
      BY <1>0, <2>1 DEF LogInv, Pushed, Pending
  <2>3. /\ \A q \in {IndexQueue} : e \notin Owed[q] \cup Handled[q] \cup Buried[q]
        /\ Owed' = [q \in {IndexQueue} |-> IF q \in {IndexQueue} THEN Owed[q] \cup {e} ELSE Owed[q]]
      BY <2>2
  <2>4. Broker!Send(e)
      BY <2>1, <2>3, BrokerVars DEF Broker!Send, Pending
  <2> QED BY <2>4 DEF Broker!Next
<1>2. ASSUME NEW p \in Pod, Push(p) PROVE UNCHANGED Broker!vars
  <2>1. PICK o : /\ o \in ready /\ ready' = ready \ {o} /\ unacked' = [unacked EXCEPT ![p] = @ \cup {o}]
                 /\ UNCHANGED <<settled, dead>>
      BY <1>0, <1>2, OldestParts DEF Push
  <2>2. \A q \in Pod : unacked'[q] = IF q = p THEN unacked[p] \cup {o} ELSE unacked[q]
      BY <1>0, <2>1 DEF TypeOK
  <2>3. Pending' = Pending
      BY <2>1, <2>2 DEF Pending
  <2> QED BY <2>1, <2>3, BrokerVars
<1>3. ASSUME NEW p \in Pod, ChannelCloses(p) \/ PodRestarts(p) PROVE UNCHANGED Broker!vars
  <2>1. /\ ready' = ready \cup unacked[p] /\ unacked' = [unacked EXCEPT ![p] = {}]
        /\ UNCHANGED <<settled, dead>>
      BY <1>3 DEF ChannelCloses, PodRestarts, GiveBack
  <2>2. \A q \in Pod : unacked'[q] = IF q = p THEN {} ELSE unacked[q]
      BY <1>0, <2>1 DEF TypeOK
  <2>3. Pending' = Pending
      BY <2>1, <2>2 DEF Pending
  <2> QED BY <2>1, <2>3, BrokerVars
<1>4. CASE UNCHANGED <<ready, unacked, settled, dead>>
    BY <1>4, BrokerVars DEF Pending
<1>5. ASSUME NEW p \in Pod, Take(p) \/ Index(p) \/ IndexFails(p) PROVE [Broker!Next]_Broker!vars
    BY <1>4, <1>5 DEF Take, Index, IndexFails, brokerVars
<1> QED BY <1>1, <1>2, <1>3, <1>4, <1>5, AnswersImplement DEF Next, Work, vars, brokerVars

\* search-service treats its queue as the bus promises: buffers that are dropped and
\* answers on closed channels leave an event owed, until it is handled once.
THEOREM IndexerImplementsDelivery == Spec => QueueImplementsDelivery
<1>1. Init => Broker!Init
  <2>1. Init => Pending = {}
      BY DEF Init, Pending
  <2> QED BY <2>1 DEF Init, Broker!Init, Pending
<1>2. SearchInv /\ [Next]_vars => [Broker!Next]_Broker!vars
    BY IndexerImplements
<1> QED BY <1>1, <1>2, SearchInvariant, PTL DEF Spec, QueueImplementsDelivery, Broker!Spec
==================================================================================
