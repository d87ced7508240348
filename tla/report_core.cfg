SPECIFICATION ReportFairSpec
CONSTANTS
    Event = {"j1", "weekly", "garbage"}
    Job = {"j1"}
    Malformed = {"garbage"}
    Queue <- MCQueue
    QueueOf <- MCQueueOf
    None = None
    Pod = {p1, p2}
    MaxFaults = 3
INVARIANT ReportTypeOK
INVARIANT ReadyReportsExist
INVARIANT AckedReportsReady
PROPERTY EveryReportGenerated
\* Every request may be generated: nothing is left to do.
CHECK_DEADLOCK FALSE
