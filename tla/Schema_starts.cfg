SPECIFICATION FairSpec
CONSTANTS
    Procs = {p1, p2, p3}
    Rows = {r1, r2}
    MaxCol = 2
    MaxFaults = 1
    Events = {"crash", "busy"}
INVARIANTS TypeOK MigrationExclusive NothingDestroyed MigrationComplete ColumnsThere
PROPERTIES StartsSucceed
