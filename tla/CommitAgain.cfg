\* commit() is called again after a storage error.
SPECIFICATION Spec
CONSTANTS
    Nil = Nil
    Seeder = seeder
    tbl1 = t1
    tbl2 = t2
    Writers = {w1}
    Managed = {}
    Tables = {t1}
    Chunks = {}
    Branches = {main}
    SeedTables = {t1}
    SeedKeys = {1}
    Keys = {1}
    Ops <- RaceOps
    DirectOps <- NoOps
    MaxOps = 1
    MaxRetries = 1
    MaxCalls = 2
    MaxFaults = 1
INVARIANT AppendedOnce
