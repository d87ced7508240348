SPECIFICATION FairSpec
CONSTANTS
    Event <- MCEvent
    Document = {"task"}
    DocumentOf <- MCDocumentOf
    Malformed <- MCMalformed
    Pod = {p1, p2}
    None = None
    MaxFaults = 2
INVARIANT TypeOK
PROPERTY IndexGoesBackOnlyFor
PROPERTY EveryEventIndexed
\* The events are finitely many: everything settles in the end.
CHECK_DEADLOCK FALSE
