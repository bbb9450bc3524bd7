\* Three pods of three builds start on an empty database, with two faults anywhere.
SPECIFICATION FairSpec
CONSTANTS
    old = old  new = new  edited = edited  c1 = c1  c2 = c2  c3 = c3  d2 = d2  d3 = d3
    None = None
    Migrators = {old, new, edited}
    Checksums = {c1, c2, c3, d2, d3}
    Files <- Builds
    Repeatable = {1, 3}
    MaxFaults = 2
INVARIANTS SchemaMatchesTable OneLineage ReadyMeansMigrated
PROPERTIES EveryoneSettles
CHECK_DEADLOCK FALSE
