-------------------------------- MODULE CronLock --------------------------------
(***************************************************************************)
(* scheduler-service: every pod runs the same cron table. When a job is    *)
(* due, a pod runs it if SET NX "cron:<job>" succeeds; the key lives until *)
(* the next due time and is never deleted. One job; its ticks are the      *)
(* multiples of Interval on the clock of each pod. Jobs have keys of their *)
(* own and do not meet.                                                    *)
(***************************************************************************)
EXTENDS Integers

CONSTANTS
    Pod,
    Interval,   \* time between two ticks
    Ahead,      \* pod -> how far its clock is ahead of that of Redis
    MaxDelay,   \* from a tick to the arrival of its SET at Redis, at most
    MaxFaults,  \* bound: crashes and failed calls
    Horizon     \* bound: the time a behaviour lasts

\* Clocks and delays together stay below the interval: cron's shortest is a minute.
ASSUME TimingAssumption ==
    /\ Interval \in Nat \ {0}
    /\ Ahead \in [Pod -> Nat]
    /\ MaxDelay \in Nat
    /\ \A p \in Pod : Ahead[p] + MaxDelay < Interval
    /\ MaxFaults \in Nat /\ Horizon \in Nat

ASSUME PodAssumption == Pod # {}

VARIABLES
    now,        \* time, by the clock of Redis
    fired,      \* pod -> the last tick its cron has fired
    attempts,   \* goroutines of the job that have not got to Redis yet
    expires,    \* when the key dies (it is set while now < expires)
    running,    \* goroutines that hold, or held, the key and run the job
    runs,       \* history: every start of the job, as [pod, tick, at]
    faults,     \* how many failures have happened
    troubled    \* history: ticks with a crash or a failed call

vars == <<now, fired, attempts, expires, running, runs, faults, troubled>>

Clock(p) == now + Ahead[p]
LastTick(p) == Clock(p) \div Interval

Init ==
    /\ now = 0
    /\ fired = [p \in Pod |-> 0]
    /\ attempts = {}
    /\ expires = 0
    /\ running = {}
    /\ runs = {}
    /\ faults = 0
    /\ troubled = {}

Trouble(ticks) ==
    /\ faults < MaxFaults
    /\ faults' = faults + 1
    /\ troubled' = troubled \cup ticks

\* The job is due: cron starts a goroutine for it.
Fire(p) ==
    /\ Clock(p) = (fired[p] + 1) * Interval
    /\ fired' = [fired EXCEPT ![p] = @ + 1]
    /\ attempts' = attempts \cup
           {[pod |-> p, tick |-> fired[p] + 1, due |-> now + MaxDelay, ttl |-> 0]}
    /\ UNCHANGED <<now, expires, running, runs, faults, troubled>>

\* Mutant: the key lives until the tick after the next.
TwoIntervals(p) == (LastTick(p) + 2) * Interval - Clock(p)

\* next.Sub(now), on the clock of the pod.
UntilNextTick(p) == (LastTick(p) + 1) * Interval - Clock(p)

ReadClock(a) ==
    /\ a.ttl = 0
    /\ attempts' = (attempts \ {a}) \cup {[a EXCEPT !.ttl = UntilNextTick(a.pod)]}
    /\ UNCHANGED <<now, fired, expires, running, runs, faults, troubled>>

\* Mutant: SET without NX.
KeyIsFree == TRUE

Free == now >= expires

Start(a) ==
    /\ running' = running \cup {[pod |-> a.pod, tick |-> a.tick, until |-> now + a.ttl]}
    /\ runs' = runs \cup {[pod |-> a.pod, tick |-> a.tick, at |-> now]}

\* SET NX with the TTL: the job starts, or this pod skips the tick.
Lock(a) ==
    /\ a.ttl > 0
    /\ attempts' = attempts \ {a}
    /\ IF Free
         THEN expires' = now + a.ttl /\ Start(a)
         ELSE UNCHANGED <<expires, running, runs>>
    /\ UNCHANGED <<now, fired, faults, troubled>>

\* No answer from Redis, whether the key was set or not: the pod skips the tick.
LockFails(a) ==
    /\ a.ttl > 0
    /\ Trouble({a.tick})
    /\ attempts' = attempts \ {a}
    /\ \/ UNCHANGED expires
       \/ Free /\ expires' = now + a.ttl
    /\ UNCHANGED <<now, fired, running, runs>>

\* The job returns; the key stays.
Finish(r) ==
    /\ running' = running \ {r}
    /\ UNCHANGED <<now, fired, attempts, expires, runs, faults, troubled>>

\* The pod dies with its goroutines; a new one fires from the next tick on.
Crash(p) ==
    /\ Trouble({LastTick(p)} \cup {a.tick : a \in {x \in attempts : x.pod = p}})
    /\ attempts' = {a \in attempts : a.pod # p}
    /\ running' = {r \in running : r.pod # p}
    /\ fired' = [fired EXCEPT ![p] = LastTick(p)]
    /\ UNCHANGED <<now, expires, runs>>

\* Time goes on, but not past a tick that is to be fired or a SET that is due.
TimePasses ==
    /\ now < Horizon
    /\ \A p \in Pod : Clock(p) < (fired[p] + 1) * Interval
    /\ \A a \in attempts : now < a.due
    /\ now' = now + 1
    /\ UNCHANGED <<fired, attempts, expires, running, runs, faults, troubled>>

Next ==
    \/ TimePasses
    \/ \E p \in Pod : Fire(p) \/ Crash(p)
    \/ \E a \in attempts : ReadClock(a) \/ Lock(a) \/ LockFails(a)
    \/ \E r \in running : Finish(r)

Spec == Init /\ [][Next]_vars
-------------------------------------------------------------------------------
(***************************************************************************)
(* Properties                                                              *)
(***************************************************************************)

\* Every variable has its type.
TypeOK ==
    /\ now \in Nat
    /\ fired \in [Pod -> Nat]
    /\ \A a \in attempts : a \in [pod : Pod, tick : Nat, due : Nat, ttl : 0 .. Interval]
    /\ expires \in Nat
    /\ \A r \in running : r \in [pod : Pod, tick : Nat, until : Nat]
    /\ \A r \in runs : r \in [pod : Pod, tick : Nat, at : Nat]
    /\ faults \in Nat
    /\ troubled \subseteq Nat

\* AddJob: "only 1 pod runs the job per interval", whatever the clocks of the pods,
\* the delays between reading the clock and setting the key, and the failures.
OncePerInterval == \A r, s \in runs : r.tick = s.tick => r = s

\* "Only one pod will execute each job at a time", up to jobs that run longer than
\* their key lives.
OneAtATime ==
    \A r, s \in running : r # s => now >= r.until \/ now >= s.until

\* A tick is over when every pod has fired it and no attempt for it is left.
Over(k) == (\A p \in Pod : fired[p] >= k) /\ (\A a \in attempts : a.tick # k)

\* A key that outlives its interval by the latency of Redis makes every pod skip the
\* next tick; but never two in a row, as long as no call fails.
NoTwoTicksMissed ==
    \A k \in 1 .. Horizon :
        Over(k) /\ Over(k + 1) /\ {k, k + 1} \cap troubled = {}
            => \E r \in runs : r.tick \in {k, k + 1}
===============================================================================
