SPECIFICATION Spec
CONSTANTS
    p1 = p1
    p2 = p2
    p3 = p3
    Pod <- MCPod
    Ahead <- MCAhead
    Interval = 4
    MaxDelay = 2
    MaxFaults = 1
    Horizon = 13
INVARIANT TypeOK
INVARIANT OncePerInterval
INVARIANT OneAtATime
INVARIANT NoTwoTicksMissed
\* Time ends at the horizon.
CHECK_DEADLOCK FALSE
