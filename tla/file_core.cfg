SPECIFICATION Spec
CONSTANTS
    File = {f1}
    Company = {c1, c2}
    Size = {0, 1, 2}
    Target <- MCTarget
    Handler = {h1, h2, h3}
    NoFile = NoFile
    Idle = Idle
SYMMETRY FileSymmetry
INVARIANT TypeOK
INVARIANT WritesStayInTenant
PROPERTY OnlyStaleListsWarm
PROPERTY ConfirmedSizeStays
