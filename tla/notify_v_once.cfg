SPECIFICATION Spec
CONSTANTS
    Event = {"a1", "a2"}
    Queue <- MCQueue
    QueueOf <- AssignmentsQueueOf
    Recipient <- AssignmentsRecipient
    Malformed = {}
    User = {"ann"}
    NoUser = NoUser
    None = None
    Pod = {p1, p2}
    MaxFaults = 1
INVARIANT NotifiedOnce
\* Every event may be published and settled: nothing is left to do.
CHECK_DEADLOCK FALSE
