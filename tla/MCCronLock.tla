------------------------------- MODULE MCCronLock -------------------------------
(* Pods whose clocks differ by one unit, a delay of up to two, an interval of    *)
(* four: a key may be gone early or late at the next tick.                       *)
EXTENDS CronLock, TLC

CONSTANTS p1, p2, p3
MCPod == {p1, p2, p3}
MCAhead == (p1 :> 0) @@ (p2 :> 1) @@ (p3 :> 0)
===============================================================================
