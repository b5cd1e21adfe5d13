\* Two transactions on a seeded table: every operation but creation, direct work, an array write, a fault.
SPECIFICATION Spec
CONSTANTS
    Nil = Nil
    Seeder = seeder
    tbl1 = t1
    tbl2 = t2
    Writers = {w1, w2}
    Managed = {}
    Tables = {t1}
    Chunks = {c1}
    Branches = {main}
    SeedTables = {t1}
    SeedKeys = {1, 2}
    Keys = {1, 2}
    Ops <- MixedOps
    DirectOps <- OtherOps
    MaxOps = 2
    MaxRetries = 1
    MaxCalls = 1
    MaxFaults = 1
SYMMETRY WriterSymmetry
INVARIANTS
    PublishedDescends
    PublishedIsSerial
    AppendedOnce
    RefusedOnlyIfEmpty
PROPERTIES
    SnapshotsAreImmutable
    Implements
