----------------------------- MODULE CronLockProofs -----------------------------
(***************************************************************************)
(* Proofs about CronLock, for any number of pods, any interval, clock      *)
(* offsets and delays that stay below the interval.                        *)
(***************************************************************************)
EXTENDS CronLock, TLAPS

\* The instant, on the clock of Redis, at which pod p reaches its tick k.
At(p, k) == k * Interval - Ahead[p]

LEMMA AtTyped ==
    ASSUME NEW p \in Pod, NEW k \in Nat
    PROVE  At(p, k) \in Int /\ At(p, k + 1) = At(p, k) + Interval
BY TimingAssumption DEF At

\* A pod whose clock is between its ticks k and k + 1 computes the time to k + 1.
LEMMA TickOfClock ==
    ASSUME NEW k \in Nat, NEW x \in Nat, k * Interval <= x, x < (k + 1) * Interval
    PROVE  x \div Interval = k
<1> DEFINE d == x \div Interval
           m == x % Interval
<1>1. d \in Int /\ m \in 0 .. (Interval - 1) /\ x = Interval * d + m
    BY TimingAssumption
<1>2. Interval * (d - k) < Interval /\ Interval * (k - d) < Interval
    BY <1>1, TimingAssumption
<1>3. ~(d - k >= 1) /\ ~(k - d >= 1)
    BY <1>1, <1>2, TimingAssumption
<1> QED BY <1>1, <1>3

LEMMA ClockReading ==
    ASSUME TypeOK, NEW p \in Pod
    PROVE  /\ LastTick(p) \in Nat
           /\ UntilNextTick(p) \in 1 .. Interval
           /\ Clock(p) + UntilNextTick(p) = (LastTick(p) + 1) * Interval
<1> DEFINE x == Clock(p)
           d == x \div Interval
           m == x % Interval
<1>1. x \in Nat
    BY TimingAssumption DEF TypeOK, Clock
<1>2. d \in Nat /\ m \in 0 .. (Interval - 1) /\ x = Interval * d + m
    BY <1>1, TimingAssumption
<1>3. (d + 1) * Interval = Interval * d + Interval
    BY <1>2, TimingAssumption
<1> HIDE DEF d, m, x
<1>4. (d + 1) * Interval - x = Interval - m
    BY <1>1, <1>2, <1>3, TimingAssumption
<1> QED BY <1>1, <1>2, <1>4, TimingAssumption DEF LastTick, UntilNextTick, d, x
-------------------------------------------------------------------------------
(***************************************************************************)
(* The invariant: an attempt reaches Redis while its tick is fresh, and    *)
(* the key of a run lives until the next tick on the clock of its pod.     *)
(***************************************************************************)
AttemptsAreFresh ==
    \A a \in attempts :
        /\ At(a.pod, a.tick) <= now
        /\ now <= a.due
        /\ a.due = At(a.pod, a.tick) + MaxDelay
        /\ a.ttl > 0 => now + a.ttl >= At(a.pod, a.tick + 1)

KeyCoversRuns ==
    \A r \in runs : \/ now >= At(r.pod, r.tick + 1)
                    \/ expires >= At(r.pod, r.tick + 1)

KeyCoversRunning == \A r \in running : now >= r.until \/ expires >= r.until

LockInv ==
    /\ TypeOK
    /\ AttemptsAreFresh
    /\ KeyCoversRuns
    /\ KeyCoversRunning
    /\ OncePerInterval
    /\ OneAtATime

LEMMA TroubleTyped ==
    ASSUME TypeOK, NEW ticks, ticks \subseteq Nat, Trouble(ticks)
    PROVE  faults' \in Nat /\ troubled' \subseteq Nat
BY DEF TypeOK, Trouble

LEMMA InitLockInv == Init => LockInv
BY TimingAssumption DEF Init, LockInv, TypeOK, AttemptsAreFresh, KeyCoversRuns,
       KeyCoversRunning, OncePerInterval, OneAtATime

LEMMA TimePassesPreserves == ASSUME LockInv, TimePasses PROVE LockInv'
<1>1. now' = now + 1 /\ now \in Nat /\ expires \in Nat
    BY DEF LockInv, TypeOK, TimePasses
<1>2. UNCHANGED <<fired, attempts, expires, running, runs, faults, troubled>>
    BY DEF TimePasses
<1>3. TypeOK'
    BY <1>1, <1>2 DEF LockInv, TypeOK
<1>4. AttemptsAreFresh'
  <2> SUFFICES ASSUME NEW a \in attempts
               PROVE  /\ At(a.pod, a.tick) <= now + 1
                      /\ now + 1 <= a.due
                      /\ a.due = At(a.pod, a.tick) + MaxDelay
                      /\ a.ttl > 0 => now + 1 + a.ttl >= At(a.pod, a.tick + 1)
      BY <1>1, <1>2 DEF AttemptsAreFresh, At
  <2>1. a.pod \in Pod /\ a.tick \in Nat /\ a.due \in Nat /\ a.ttl \in 0 .. Interval
      BY DEF LockInv, TypeOK
  <2>2. At(a.pod, a.tick) \in Int /\ At(a.pod, a.tick + 1) \in Int
      BY <2>1, AtTyped
  <2>3. now < a.due
      BY DEF TimePasses
  <2> QED BY <1>1, <2>1, <2>2, <2>3, TimingAssumption DEF LockInv, AttemptsAreFresh
<1>5. KeyCoversRuns'
  <2> SUFFICES ASSUME NEW r \in runs
               PROVE  now + 1 >= At(r.pod, r.tick + 1) \/ expires >= At(r.pod, r.tick + 1)
      BY <1>1, <1>2 DEF KeyCoversRuns, At
  <2>1. At(r.pod, r.tick + 1) \in Int
      BY AtTyped DEF LockInv, TypeOK
  <2> QED BY <1>1, <2>1 DEF LockInv, KeyCoversRuns
<1>6. KeyCoversRunning' /\ OneAtATime'
    BY <1>1, <1>2 DEF LockInv, TypeOK, KeyCoversRunning, OneAtATime
<1>7. OncePerInterval'
    BY <1>2 DEF LockInv, OncePerInterval
<1> QED BY <1>3, <1>4, <1>5, <1>6, <1>7 DEF LockInv

LEMMA FirePreserves == ASSUME LockInv, NEW p \in Pod, Fire(p) PROVE LockInv'
<1> DEFINE k == fired[p] + 1
           a == [pod |-> p, tick |-> k, due |-> now + MaxDelay, ttl |-> 0]
<1>1. k \in Nat /\ now \in Nat /\ At(p, k) = now /\ attempts' = attempts \cup {a}
  <2>1. k \in Nat /\ now \in Nat /\ Ahead[p] \in Nat
      BY TimingAssumption DEF LockInv, TypeOK
  <2>2. now + Ahead[p] = k * Interval /\ attempts' = attempts \cup {a}
      BY DEF Fire, Clock
  <2>3. k * Interval \in Nat
      BY <2>1, TimingAssumption
  <2> HIDE DEF k
  <2> QED BY <2>1, <2>2, <2>3 DEF At
<1>2. UNCHANGED <<now, expires, running, runs, faults, troubled>>
    BY DEF Fire
<1>3. TypeOK'
  <2>1. a \in [pod : Pod, tick : Nat, due : Nat, ttl : 0 .. Interval]
      BY <1>1, TimingAssumption
  <2>2. fired' \in [Pod -> Nat]
      BY <1>1 DEF LockInv, TypeOK, Fire
  <2> HIDE DEF a
  <2> QED BY <1>1, <1>2, <2>1, <2>2 DEF LockInv, TypeOK
<1>4. AttemptsAreFresh'
    BY <1>1, <1>2, TimingAssumption DEF LockInv, AttemptsAreFresh, At
<1>5. KeyCoversRuns' /\ KeyCoversRunning' /\ OncePerInterval' /\ OneAtATime'
    BY <1>2 DEF LockInv, KeyCoversRuns, KeyCoversRunning, OncePerInterval, OneAtATime, At
<1> QED BY <1>3, <1>4, <1>5 DEF LockInv

\* An attempt reads its clock before the next tick, as its delay is short.
LEMMA ReadClockPreserves == ASSUME LockInv, NEW a \in attempts, ReadClock(a) PROVE LockInv'
<1> DEFINE b == [a EXCEPT !.ttl = UntilNextTick(a.pod)]
<1>1. a \in [pod : Pod, tick : Nat, due : Nat, ttl : 0 .. Interval] /\ now \in Nat
    BY DEF LockInv, TypeOK
<1>2. UNCHANGED <<now, fired, expires, running, runs, faults, troubled>>
    BY DEF ReadClock
<1>3. attempts' = (attempts \ {a}) \cup {b}
    BY DEF ReadClock
<1>4. UntilNextTick(a.pod) \in 1 .. Interval
    BY <1>1, ClockReading DEF LockInv
<1>5. b \in [pod : Pod, tick : Nat, due : Nat, ttl : 0 .. Interval]
      /\ b.pod = a.pod /\ b.tick = a.tick /\ b.due = a.due /\ b.ttl = UntilNextTick(a.pod)
    BY <1>1, <1>4
<1>6. TypeOK'
    BY <1>2, <1>3, <1>5 DEF LockInv, TypeOK
<1>7. LastTick(a.pod) = a.tick
  <2>1. At(a.pod, a.tick) <= now /\ now <= At(a.pod, a.tick) + MaxDelay
      BY DEF LockInv, AttemptsAreFresh
  <2>2. a.tick * Interval \in Nat /\ (a.tick + 1) * Interval = a.tick * Interval + Interval
      BY <1>1, TimingAssumption
  <2>3. a.tick * Interval <= Clock(a.pod) /\ Clock(a.pod) < (a.tick + 1) * Interval
        /\ Clock(a.pod) \in Nat
      BY <1>1, <2>1, <2>2, TimingAssumption DEF At, Clock
  <2> QED BY <1>1, <2>3, TickOfClock DEF LastTick
<1>8. now + b.ttl = At(a.pod, a.tick + 1)
    BY <1>1, <1>4, <1>5, <1>7, ClockReading, TimingAssumption DEF LockInv, Clock, At
<1>9. AttemptsAreFresh'
  <2> SUFFICES ASSUME NEW c \in attempts'
               PROVE  /\ At(c.pod, c.tick) <= now
                      /\ now <= c.due
                      /\ c.due = At(c.pod, c.tick) + MaxDelay
                      /\ c.ttl > 0 => now + c.ttl >= At(c.pod, c.tick + 1)
      BY <1>2 DEF AttemptsAreFresh, At
  <2>1. CASE c \in attempts
      BY <2>1 DEF LockInv, AttemptsAreFresh
  <2>2. CASE c = b
    <3>1. At(a.pod, a.tick) <= now /\ now <= a.due /\ a.due = At(a.pod, a.tick) + MaxDelay
        BY DEF LockInv, AttemptsAreFresh
    <3>2. At(a.pod, a.tick + 1) \in Int
        BY <1>1, AtTyped
    <3> HIDE DEF b
    <3> QED BY <1>5, <1>8, <2>2, <3>1, <3>2
  <2> QED BY <1>3, <2>1, <2>2
<1>10. KeyCoversRuns' /\ KeyCoversRunning' /\ OncePerInterval' /\ OneAtATime'
    BY <1>2 DEF LockInv, KeyCoversRuns, KeyCoversRunning, OncePerInterval, OneAtATime, At
<1> QED BY <1>6, <1>9, <1>10 DEF LockInv

\* The heart of the argument: an attempt for a tick arrives before the next tick of
\* any pod, so the key of a run of the same tick would still be there.
LEMMA NoSecondRun ==
    ASSUME LockInv, NEW a \in attempts, Free, NEW r \in runs
    PROVE  r.tick # a.tick
<1> SUFFICES ASSUME r.tick = a.tick PROVE FALSE
    OBVIOUS
<1>1. /\ a.pod \in Pod /\ a.tick \in Nat /\ a.due \in Nat
      /\ r.pod \in Pod /\ now \in Nat /\ expires \in Nat
    BY DEF LockInv, TypeOK
<1>2. now <= At(a.pod, a.tick) + MaxDelay
    BY DEF LockInv, AttemptsAreFresh
<1>3. now >= At(r.pod, a.tick + 1) \/ expires >= At(r.pod, a.tick + 1)
    BY DEF LockInv, KeyCoversRuns
<1>4. /\ a.tick * Interval \in Nat
      /\ At(a.pod, a.tick) = a.tick * Interval - Ahead[a.pod]
      /\ At(r.pod, a.tick + 1) = a.tick * Interval + Interval - Ahead[r.pod]
    BY <1>1, TimingAssumption DEF At
<1>5. now >= a.tick * Interval + Interval - Ahead[r.pod]
    BY <1>1, <1>3, <1>4, TimingAssumption DEF Free
<1> QED BY <1>1, <1>2, <1>4, <1>5, TimingAssumption

LEMMA LockPreserves == ASSUME LockInv, NEW a \in attempts, Lock(a) PROVE LockInv'
<1> DEFINE r == [pod |-> a.pod, tick |-> a.tick, until |-> now + a.ttl]
           s == [pod |-> a.pod, tick |-> a.tick, at |-> now]
<1>0. /\ a \in [pod : Pod, tick : Nat, due : Nat, ttl : 0 .. Interval]
      /\ now \in Nat /\ expires \in Nat
    BY DEF LockInv, TypeOK
<1>1. UNCHANGED <<now, fired, faults, troubled>> /\ attempts' = attempts \ {a} /\ a.ttl > 0
    BY DEF Lock
<1>2. AttemptsAreFresh'
    BY <1>1 DEF LockInv, AttemptsAreFresh, At
<1>3. CASE ~Free
  <2>1. UNCHANGED <<expires, running, runs>>
      BY <1>3 DEF Lock
  <2> QED BY <1>1, <1>2, <2>1 DEF LockInv, TypeOK, KeyCoversRuns, KeyCoversRunning,
                OncePerInterval, OneAtATime, At
<1>4. CASE Free
  <2>1. expires' = now + a.ttl /\ running' = running \cup {r} /\ runs' = runs \cup {s}
      BY <1>4 DEF Lock, Start
  <2>2. now >= expires
      BY <1>4 DEF Free
  <2>3. r \in [pod : Pod, tick : Nat, until : Nat] /\ s \in [pod : Pod, tick : Nat, at : Nat]
        /\ r.until = now + a.ttl /\ s.pod = a.pod /\ s.tick = a.tick
      BY <1>0
  <2> HIDE DEF r, s
  <2>4. TypeOK'
      BY <1>0, <1>1, <2>1, <2>3 DEF LockInv, TypeOK
  <2>5. KeyCoversRuns'
    <3>1. \A x \in runs : now >= At(x.pod, x.tick + 1)
      <4> SUFFICES ASSUME NEW x \in runs PROVE now >= At(x.pod, x.tick + 1)
          OBVIOUS
      <4>1. At(x.pod, x.tick + 1) \in Int
          BY AtTyped DEF LockInv, TypeOK
      <4> QED BY <1>0, <2>2, <4>1 DEF LockInv, KeyCoversRuns
    <3>2. now + a.ttl >= At(s.pod, s.tick + 1)
        BY <1>1, <2>3 DEF LockInv, AttemptsAreFresh
    <3> QED BY <1>1, <2>1, <3>1, <3>2 DEF KeyCoversRuns, At
  <2>6. \A x \in running : now >= x.until
      BY <1>0, <2>2 DEF LockInv, TypeOK, KeyCoversRunning
  <2>7. KeyCoversRunning' /\ OneAtATime'
      BY <1>0, <1>1, <2>1, <2>3, <2>6 DEF KeyCoversRunning, OneAtATime
  <2>8. OncePerInterval'
      BY <1>4, <2>1, <2>3, NoSecondRun DEF LockInv, OncePerInterval
  <2> QED BY <1>2, <2>4, <2>5, <2>7, <2>8 DEF LockInv
<1> QED BY <1>3, <1>4

\* A key set without an answer protects no run, and replaces only a key that is gone.
LEMMA LockFailsPreserves == ASSUME LockInv, NEW a \in attempts, LockFails(a) PROVE LockInv'
<1>0. /\ a \in [pod : Pod, tick : Nat, due : Nat, ttl : 0 .. Interval]
      /\ now \in Nat /\ expires \in Nat
    BY DEF LockInv, TypeOK
<1>1. UNCHANGED <<now, fired, running, runs>> /\ attempts' = attempts \ {a}
    BY DEF LockFails
<1>2. expires' \in Nat /\ (expires' = expires \/ now >= expires)
    BY <1>0 DEF LockFails, Free
<1>3. TypeOK'
  <2>1. faults' \in Nat /\ troubled' \subseteq Nat
      BY <1>0, TroubleTyped DEF LockInv, LockFails
  <2> QED BY <1>0, <1>1, <1>2, <2>1 DEF LockInv, TypeOK
<1>4. AttemptsAreFresh'
    BY <1>1 DEF LockInv, AttemptsAreFresh, At
<1>5. KeyCoversRuns'
  <2> SUFFICES ASSUME NEW x \in runs
               PROVE  now >= At(x.pod, x.tick + 1) \/ expires' >= At(x.pod, x.tick + 1)
      BY <1>1 DEF KeyCoversRuns, At
  <2>1. At(x.pod, x.tick + 1) \in Int
      BY AtTyped DEF LockInv, TypeOK
  <2> QED BY <1>0, <1>2, <2>1 DEF LockInv, KeyCoversRuns
<1>6. KeyCoversRunning'
    BY <1>0, <1>1, <1>2 DEF LockInv, TypeOK, KeyCoversRunning
<1>7. OncePerInterval' /\ OneAtATime'
    BY <1>1 DEF LockInv, OncePerInterval, OneAtATime
<1> QED BY <1>3, <1>4, <1>5, <1>6, <1>7 DEF LockInv

LEMMA EndPreserves ==
    ASSUME LockInv, (\E p \in Pod : Crash(p)) \/ (\E r \in running : Finish(r))
    PROVE  LockInv'
<1>1. /\ UNCHANGED <<now, expires, runs>>
      /\ attempts' \subseteq attempts /\ running' \subseteq running
    BY DEF Crash, Finish
<1>2. fired' \in [Pod -> Nat] /\ faults' \in Nat /\ troubled' \subseteq Nat
  <2>1. CASE \E r \in running : Finish(r)
      BY <2>1 DEF LockInv, TypeOK, Finish
  <2>2. ASSUME NEW p \in Pod, Crash(p)
        PROVE  fired' \in [Pod -> Nat] /\ faults' \in Nat /\ troubled' \subseteq Nat
    <3>1. LastTick(p) \in Nat
        BY ClockReading DEF LockInv
    <3>2. {a.tick : a \in {x \in attempts : x.pod = p}} \subseteq Nat
        BY DEF LockInv, TypeOK
    <3>3. fired' \in [Pod -> Nat]
        BY <2>2, <3>1 DEF LockInv, TypeOK, Crash
    <3>4. Trouble({LastTick(p)} \cup {a.tick : a \in {x \in attempts : x.pod = p}})
        BY <2>2 DEF Crash
    <3>5. {LastTick(p)} \cup {a.tick : a \in {x \in attempts : x.pod = p}} \subseteq Nat
        BY <3>1, <3>2
    <3> QED BY <3>3, <3>4, <3>5, TroubleTyped DEF LockInv
  <2> QED BY <2>1, <2>2
<1>3. TypeOK'
    BY <1>1, <1>2 DEF LockInv, TypeOK
<1>4. AttemptsAreFresh' /\ KeyCoversRuns' /\ KeyCoversRunning' /\ OncePerInterval' /\ OneAtATime'
    BY <1>1 DEF LockInv, AttemptsAreFresh, KeyCoversRuns, KeyCoversRunning, OncePerInterval,
              OneAtATime, At
<1> QED BY <1>3, <1>4 DEF LockInv

\* The invariant of the cron lock.
THEOREM CronLockInvariant == Spec => []LockInv
<1>1. LockInv /\ [Next]_vars => LockInv'
  <2> SUFFICES ASSUME LockInv, [Next]_vars PROVE LockInv'
      OBVIOUS
  <2>1. CASE TimePasses
      BY <2>1, TimePassesPreserves
  <2>2. ASSUME NEW p \in Pod, Fire(p) PROVE LockInv'
      BY <2>2, FirePreserves
  <2>3. ASSUME NEW a \in attempts, ReadClock(a) \/ Lock(a) \/ LockFails(a) PROVE LockInv'
      BY <2>3, ReadClockPreserves, LockPreserves, LockFailsPreserves
  <2>4. CASE (\E p \in Pod : Crash(p)) \/ (\E r \in running : Finish(r))
      BY <2>4, EndPreserves
  <2>5. CASE UNCHANGED vars
      BY <2>5 DEF vars, LockInv, TypeOK, AttemptsAreFresh, KeyCoversRuns, KeyCoversRunning,
                OncePerInterval, OneAtATime, At
  <2> QED BY <2>1, <2>2, <2>3, <2>4, <2>5 DEF Next
<1> QED BY <1>1, InitLockInv, PTL DEF Spec

\* Every variable of the scheduler's lock keeps its type.
THEOREM CronLockTypeOK == Spec => []TypeOK
<1>1. LockInv => TypeOK
    BY DEF LockInv
<1> QED BY <1>1, CronLockInvariant, PTL

\* AddJob in scheduler.go: one pod runs the job per interval, as long as clocks and
\* delays together differ by less than the interval.
THEOREM JobRunsOncePerInterval == Spec => []OncePerInterval
<1>1. LockInv => OncePerInterval
    BY DEF LockInv
<1> QED BY <1>1, CronLockInvariant, PTL

\* scheduler.go: two pods run a job at once only when one outlives its key.
THEOREM JobRunsOneAtATime == Spec => []OneAtATime
<1>1. LockInv => OneAtATime
    BY DEF LockInv
<1> QED BY <1>1, CronLockInvariant, PTL
-------------------------------------------------------------------------------
(***************************************************************************)
(* No two ticks in a row are skipped: an attempt that finds the key there  *)
(* finds that of its own tick or of the tick before.                       *)
(***************************************************************************)

Accounted(j) == j \in troubled \/ \E r \in runs : r.tick = j
Settled(k) == Accounted(k - 1) \/ Accounted(k)

\* The key is that of a tick that has run, or had trouble, and dies when the next is due.
KeyHasOwner ==
    expires = 0 \/ \E q \in Pod, j \in Nat :
        Accounted(j) /\ At(q, j) <= now /\ expires <= At(q, j + 1) + MaxDelay

TicksSettle ==
    \A p \in Pod, k \in Nat \ {0} :
        k <= fired[p] => Settled(k) \/ \E a \in attempts : a.tick = k

FiresInTime == \A p \in Pod : now <= At(p, fired[p] + 1)

TickInv == LockInv /\ KeyHasOwner /\ TicksSettle /\ FiresInTime

LEMMA TicksCompare ==
    ASSUME NEW j \in Nat, NEW k \in Nat, j * Interval < k * Interval + Interval
    PROVE  j <= k
<1>1. j * Interval - k * Interval = (j - k) * Interval
    BY TimingAssumption
<1>2. (j - k) * Interval < Interval
    BY <1>1, TimingAssumption
<1>3. ~(j - k >= 1)
    BY <1>2, TimingAssumption
<1> QED BY <1>3

LEMMA AtAsProduct ==
    ASSUME NEW p \in Pod, NEW k \in Nat
    PROVE  /\ k * Interval \in Nat /\ Ahead[p] \in Nat
           /\ At(p, k) = k * Interval - Ahead[p]
           /\ At(p, k + 1) = k * Interval + Interval - Ahead[p]
BY TimingAssumption DEF At

LEMMA LastTickInTime ==
    ASSUME TypeOK, FiresInTime, NEW p \in Pod
    PROVE  LastTick(p) <= fired[p] + 1 /\ now <= At(p, LastTick(p) + 1)
<1> DEFINE d == LastTick(p)
           f == fired[p] + 1
<1>1. d \in Nat /\ f \in Nat /\ now \in Nat
    BY ClockReading DEF TypeOK
<1>2. d * Interval \in Nat /\ f * Interval \in Nat
      /\ (d + 1) * Interval = d * Interval + Interval
    BY <1>1, TimingAssumption
<1>3. d * Interval <= now + Ahead[p] /\ now + Ahead[p] <= d * Interval + Interval
    BY <1>1, <1>2, ClockReading, TimingAssumption DEF Clock
<1>4. now <= f * Interval - Ahead[p]
    BY DEF FiresInTime, At
<1> HIDE DEF d, f
<1>5. d <= f
    BY <1>1, <1>2, <1>3, <1>4, TicksCompare, TimingAssumption
<1>6. now <= At(p, d + 1)
    BY <1>1, <1>2, <1>3, AtAsProduct, TimingAssumption
<1> QED BY <1>5, <1>6 DEF d, f

\* What is accounted for stays so, and time does not run back.
LEMMA OwnerStays ==
    ASSUME TypeOK, KeyHasOwner, expires' = expires, now' \in Nat, now' >= now,
           troubled \subseteq troubled', runs \subseteq runs'
    PROVE  KeyHasOwner'
<1>1. CASE expires = 0
    BY <1>1 DEF KeyHasOwner
<1>2. CASE expires # 0
  <2>1. PICK q \in Pod, j \in Nat :
            Accounted(j) /\ At(q, j) <= now /\ expires <= At(q, j + 1) + MaxDelay
      BY <1>2 DEF KeyHasOwner
  <2>2. At(q, j) \in Int /\ now \in Nat
      BY AtTyped DEF TypeOK
  <2>3. Accounted(j)'
      BY <2>1 DEF Accounted
  <2>4. At(q, j)' = At(q, j) /\ At(q, j + 1)' = At(q, j + 1)
      BY DEF At
  <2> QED BY <2>1, <2>2, <2>3, <2>4 DEF KeyHasOwner
<1> QED BY <1>1, <1>2

LEMMA SettledStays ==
    ASSUME NEW k, Settled(k), troubled \subseteq troubled', runs \subseteq runs'
    PROVE  Settled(k)'
BY DEF Settled, Accounted

\* The key that an attempt finds is that of its own tick or of the one before.
LEMMA KeyFoundSettles ==
    ASSUME LockInv, KeyHasOwner, NEW a \in attempts, ~Free
    PROVE  Settled(a.tick)
<1>1. /\ a.pod \in Pod /\ a.tick \in Nat /\ now \in Nat /\ expires \in Nat
      /\ At(a.pod, a.tick) <= now /\ now <= At(a.pod, a.tick) + MaxDelay
    BY DEF LockInv, TypeOK, AttemptsAreFresh
<1>2. now < expires
    BY <1>1 DEF Free
<1>3. PICK q \in Pod, j \in Nat :
          Accounted(j) /\ At(q, j) <= now /\ expires <= At(q, j + 1) + MaxDelay
    BY <1>1, <1>2 DEF KeyHasOwner
<1> DEFINE k == a.tick
           p == a.pod
<1>4. /\ k \in Nat /\ p \in Pod
      /\ At(p, k) = k * Interval - Ahead[p] /\ k * Interval \in Nat
      /\ At(q, j) = j * Interval - Ahead[q] /\ j * Interval \in Nat
      /\ At(q, j + 1) = j * Interval + Interval - Ahead[q]
      /\ (j + 1) * Interval = j * Interval + Interval
    BY <1>1, AtAsProduct, TimingAssumption
<1>5. At(p, k) <= now /\ now <= At(p, k) + MaxDelay
    BY <1>1
<1> HIDE DEF k, p
<1>6. j <= k
    BY <1>1, <1>3, <1>4, <1>5, TicksCompare, TimingAssumption
<1>7. k <= j + 1
  <2>1. k * Interval < (j + 1) * Interval + Interval
      BY <1>1, <1>2, <1>3, <1>4, <1>5, TimingAssumption
  <2> QED BY <1>4, <2>1, TicksCompare
<1>8. j = k \/ j = k - 1
    BY <1>4, <1>6, <1>7
<1> QED BY <1>3, <1>8 DEF Settled, k

\* A key that is set now has its attempt's tick for an owner.
LEMMA SetterOwns ==
    ASSUME LockInv, NEW a \in attempts, expires' = now + a.ttl, now' = now,
           Accounted(a.tick)'
    PROVE  KeyHasOwner'
<1>1. /\ a.pod \in Pod /\ a.tick \in Nat /\ now \in Nat /\ a.ttl \in 0 .. Interval
      /\ At(a.pod, a.tick) <= now /\ now <= At(a.pod, a.tick) + MaxDelay
    BY DEF LockInv, TypeOK, AttemptsAreFresh
<1>2. At(a.pod, a.tick) \in Int /\ At(a.pod, a.tick + 1) = At(a.pod, a.tick) + Interval
    BY <1>1, AtTyped
<1>3. expires' <= At(a.pod, a.tick + 1) + MaxDelay
    BY <1>1, <1>2, TimingAssumption
<1> QED BY <1>1, <1>3 DEF KeyHasOwner, At

LEMMA QuietTicks ==
    ASSUME TypeOK, TicksSettle, FiresInTime, UNCHANGED <<now, fired>>,
           troubled \subseteq troubled', runs \subseteq runs',
           \A a \in attempts : Settled(a.tick)' \/ \E b \in attempts' : b.tick = a.tick
    PROVE  TicksSettle' /\ FiresInTime'
<1>1. FiresInTime'
    BY DEF FiresInTime, At
<1>2. ASSUME NEW p \in Pod, NEW k \in Nat \ {0}, k <= fired'[p]
      PROVE  Settled(k)' \/ \E a \in attempts' : a.tick = k
    BY <1>2, SettledStays DEF TicksSettle
<1> QED BY <1>1, <1>2 DEF TicksSettle

LEMMA TickInvNext == TickInv /\ LockInv' /\ [Next]_vars => TickInv'
<1> SUFFICES ASSUME TickInv, LockInv', [Next]_vars PROVE TickInv'
    OBVIOUS
<1>0. TypeOK /\ now \in Nat /\ now' \in Nat /\ LockInv /\ KeyHasOwner /\ TicksSettle /\ FiresInTime
    BY DEF TickInv, LockInv, TypeOK
<1>1. CASE TimePasses
  <2>1. now' = now + 1 /\ UNCHANGED <<fired, attempts, expires, runs, troubled>>
      BY <1>1 DEF TimePasses
  <2>2. KeyHasOwner'
      BY <1>0, <2>1, OwnerStays
  <2>3. TicksSettle'
      BY <1>0, <2>1 DEF TicksSettle, Settled, Accounted
  <2>4. ASSUME NEW p \in Pod PROVE (now <= At(p, fired[p] + 1))'
    <3>1. now + Ahead[p] < (fired[p] + 1) * Interval /\ fired[p] \in Nat
        BY <1>0, <1>1 DEF TimePasses, Clock, TypeOK
    <3>2. (fired[p] + 1) * Interval \in Nat /\ Ahead[p] \in Nat
        BY <3>1, TimingAssumption
    <3>3. now + 1 <= (fired[p] + 1) * Interval - Ahead[p]
        BY <1>0, <3>1, <3>2
    <3> QED BY <2>1, <3>3 DEF At
  <2> QED BY <2>2, <2>3, <2>4 DEF TickInv, FiresInTime
<1>2. ASSUME NEW p \in Pod, Fire(p) PROVE TickInv'
  <2>1. /\ UNCHANGED <<now, expires, runs, troubled>>
        /\ fired' = [fired EXCEPT ![p] = @ + 1]
        /\ attempts \subseteq attempts'
        /\ \E a \in attempts' : a.tick = fired[p] + 1
    <3> DEFINE a == [pod |-> p, tick |-> fired[p] + 1, due |-> now + MaxDelay, ttl |-> 0]
    <3>1. /\ UNCHANGED <<now, expires, runs, troubled>>
          /\ fired' = [fired EXCEPT ![p] = @ + 1] /\ attempts' = attempts \cup {a}
        BY <1>2 DEF Fire
    <3>2. a.tick = fired[p] + 1
        OBVIOUS
    <3> HIDE DEF a
    <3> QED BY <3>1, <3>2
  <2>2. KeyHasOwner'
      BY <1>0, <2>1, OwnerStays
  <2>3. fired[p] \in Nat
      BY <1>0 DEF TypeOK
  <2>4. ASSUME NEW q \in Pod, NEW k \in Nat \ {0}, k <= fired'[q]
        PROVE  Settled(k)' \/ \E a \in attempts' : a.tick = k
    <3>1. k <= fired[q] \/ (q = p /\ k = fired[p] + 1)
        BY <1>0, <2>1, <2>3, <2>4 DEF TypeOK
    <3> QED BY <1>0, <2>1, <3>1, SettledStays DEF TicksSettle
  <2>5. ASSUME NEW q \in Pod PROVE (now <= At(q, fired[q] + 1))'
    <3>1. CASE q # p
        BY <1>0, <2>1, <3>1 DEF FiresInTime, TypeOK, At
    <3>2. CASE q = p
      <4>1. now <= At(p, fired[p] + 1) /\ fired'[p] = fired[p] + 1
          BY <1>0, <2>1 DEF FiresInTime, TypeOK
      <4>2. /\ At(p, fired[p] + 1) \in Int
            /\ At(p, (fired[p] + 1) + 1) = At(p, fired[p] + 1) + Interval
          BY <2>3, AtTyped
      <4>3. now <= At(p, fired'[p] + 1)
          BY <1>0, <4>1, <4>2, TimingAssumption
      <4> QED BY <2>1, <3>2, <4>3 DEF At
    <3> QED BY <3>1, <3>2
  <2>6. TicksSettle' /\ FiresInTime'
      BY <2>4, <2>5 DEF TicksSettle, FiresInTime
  <2> QED BY <2>2, <2>6 DEF TickInv
<1>3. ASSUME NEW a \in attempts, ReadClock(a) PROVE TickInv'
  <2> DEFINE b == [a EXCEPT !.ttl = UntilNextTick(a.pod)]
  <2>1. UNCHANGED <<now, fired, expires, runs, troubled>> /\ attempts' = (attempts \ {a}) \cup {b}
      BY <1>3 DEF ReadClock
  <2>2. b.tick = a.tick
      BY <1>0 DEF TypeOK
  <2>3. \A c \in attempts : \E d \in attempts' : d.tick = c.tick
      BY <2>1, <2>2
  <2> QED BY <1>0, <2>1, <2>3, OwnerStays, QuietTicks DEF TickInv
<1>4. ASSUME NEW a \in attempts, Lock(a) PROVE TickInv'
  <2>1. UNCHANGED <<now, fired, troubled>> /\ attempts' = attempts \ {a} /\ runs \subseteq runs'
      BY <1>4 DEF Lock, Start
  <2>2. Settled(a.tick)' /\ KeyHasOwner'
    <3>1. CASE ~Free
      <4>1. UNCHANGED expires
          BY <1>4, <3>1 DEF Lock
      <4> QED BY <1>0, <2>1, <3>1, <4>1, KeyFoundSettles, SettledStays, OwnerStays
    <3>2. CASE Free
      <4> DEFINE r == [pod |-> a.pod, tick |-> a.tick, at |-> now]
      <4>1. expires' = now + a.ttl /\ runs' = runs \cup {r}
          BY <1>4, <3>2 DEF Lock, Start
      <4>2. r.tick = a.tick /\ r \in runs'
          BY <4>1
      <4> HIDE DEF r
      <4>3. Accounted(a.tick)'
          BY <4>2 DEF Accounted
      <4> QED BY <1>0, <2>1, <4>1, <4>3, SetterOwns DEF Settled
    <3> QED BY <3>1, <3>2
  <2>3. \A c \in attempts : Settled(c.tick)' \/ \E b \in attempts' : b.tick = c.tick
      BY <2>1, <2>2
  <2> QED BY <1>0, <2>1, <2>2, <2>3, QuietTicks DEF TickInv
<1>5. ASSUME NEW a \in attempts, LockFails(a) PROVE TickInv'
  <2>1. /\ UNCHANGED <<now, fired, runs>> /\ attempts' = attempts \ {a}
        /\ troubled' = troubled \cup {a.tick}
        /\ expires' = expires \/ expires' = now + a.ttl
      BY <1>5 DEF LockFails, Trouble
  <2>2. Accounted(a.tick)'
      BY <2>1 DEF Accounted
  <2>3. KeyHasOwner'
      BY <1>0, <2>1, <2>2, OwnerStays, SetterOwns
  <2>4. \A c \in attempts : Settled(c.tick)' \/ \E b \in attempts' : b.tick = c.tick
      BY <2>1, <2>2 DEF Settled
  <2> QED BY <1>0, <2>1, <2>3, <2>4, QuietTicks DEF TickInv
<1>6. ASSUME NEW p \in Pod, Crash(p) PROVE TickInv'
  <2>1. /\ UNCHANGED <<now, expires, runs>>
        /\ troubled' = troubled \cup ({LastTick(p)} \cup {a.tick : a \in {x \in attempts : x.pod = p}})
        /\ attempts' = {a \in attempts : a.pod # p}
        /\ fired' = [fired EXCEPT ![p] = LastTick(p)]
      BY <1>6 DEF Crash, Trouble
  <2>2. KeyHasOwner'
      BY <1>0, <2>1, OwnerStays
  <2>3. LastTick(p) \in Nat /\ LastTick(p) <= fired[p] + 1 /\ now <= At(p, LastTick(p) + 1)
      BY <1>0, ClockReading, LastTickInTime
  <2>4. \A j \in {LastTick(p)} \cup {a.tick : a \in attempts \ attempts'} : Settled(j)'
    <3> SUFFICES ASSUME NEW j \in {LastTick(p)} \cup {a.tick : a \in attempts \ attempts'}
                 PROVE  j \in troubled'
        BY DEF Settled, Accounted
    <3> QED BY <2>1
  <2>5. ASSUME NEW q \in Pod, NEW k \in Nat \ {0}, k <= fired'[q]
        PROVE  Settled(k)' \/ \E a \in attempts' : a.tick = k
    <3>1. k <= fired[q] \/ k = LastTick(p)
        BY <1>0, <2>1, <2>3, <2>5 DEF TypeOK
    <3>2. CASE k <= fired[q]
      <4>1. Settled(k) \/ \E a \in attempts : a.tick = k
          BY <1>0, <3>2 DEF TicksSettle
      <4> QED BY <2>1, <2>4, <4>1, SettledStays
    <3> QED BY <2>4, <3>1, <3>2
  <2>6. ASSUME NEW q \in Pod PROVE (now <= At(q, fired[q] + 1))'
    <3>1. now <= At(q, fired'[q] + 1)
        BY <1>0, <2>1, <2>3 DEF FiresInTime, TypeOK
    <3> QED BY <2>1, <3>1 DEF At
  <2> QED BY <2>2, <2>5, <2>6 DEF TickInv, TicksSettle, FiresInTime
<1>7. CASE UNCHANGED vars \/ \E r \in running : Finish(r)
  <2>1. UNCHANGED <<now, fired, attempts, expires, runs, troubled>>
      BY <1>7 DEF vars, Finish
  <2> QED BY <1>0, <2>1, OwnerStays, QuietTicks DEF TickInv
<1> QED BY <1>1, <1>2, <1>3, <1>4, <1>5, <1>6, <1>7 DEF Next

LEMMA InitTickInv == Init => TickInv
<1> SUFFICES ASSUME Init PROVE TickInv
    OBVIOUS
<1>1. KeyHasOwner /\ TicksSettle
    BY DEF Init, KeyHasOwner, TicksSettle
<1>2. ASSUME NEW p \in Pod PROVE now <= At(p, fired[p] + 1)
    BY TimingAssumption DEF Init, At
<1> QED BY <1>1, <1>2, InitLockInv DEF TickInv, FiresInTime

\* scheduler.go: the key of one tick may still be there at the next, so that every pod
\* skips it; never two in a row, as long as no pod dies and Redis answers.
THEOREM NoTwoTicksSkipped == Spec => []NoTwoTicksMissed
<1>1. TickInv => NoTwoTicksMissed
  <2> SUFFICES ASSUME TickInv, NEW k \in 1 .. Horizon, Over(k + 1),
                      {k, k + 1} \cap troubled = {}
               PROVE  \E r \in runs : r.tick \in {k, k + 1}
      BY DEF NoTwoTicksMissed
  <2>1. PICK p \in Pod : TRUE
      BY PodAssumption
  <2>2. k \in Nat /\ k + 1 \in Nat \ {0} /\ k + 1 <= fired[p] /\ (k + 1) - 1 = k
      BY TimingAssumption DEF Over
  <2>3. Settled(k + 1)
      BY <2>2 DEF TickInv, TicksSettle, Over
  <2>4. Accounted(k) \/ Accounted(k + 1)
      BY <2>2, <2>3 DEF Settled
  <2> QED BY <2>4 DEF Accounted
<1> QED BY <1>1, InitTickInv, TickInvNext, CronLockInvariant, PTL DEF Spec
===============================================================================
