SPECIFICATION FairSpec
CONSTANTS
    Event <- MCEvent
    Queue <- MCQueue
    QueueOf <- MCQueueOf
    Recipient <- MCRecipient
    Malformed = {"garbage"}
    User = {"ann"}
    NoUser = NoUser
    None = None
    Pod = {p1, p2}
    MaxFaults = 2
INVARIANT TypeOK
INVARIANT NoEventLost
PROPERTY EveryEventSettles
\* Every event may be published and settled: nothing is left to do.
CHECK_DEADLOCK FALSE
