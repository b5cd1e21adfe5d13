\* Two concurrent deletes of the same rows.
SPECIFICATION Spec
CONSTANTS
    Nil = Nil
    Seeder = seeder
    tbl1 = t1
    tbl2 = t2
    Writers = {w1, w2}
    Managed = {}
    Tables = {t1}
    Chunks = {}
    Branches = {main}
    SeedTables = {t1}
    SeedKeys = {1, 3}
    Keys = {1, 3}
    Ops <- DeleteOps
    DirectOps <- NoOps
    MaxOps = 1
    MaxRetries = 1
    MaxCalls = 1
    MaxFaults = 0
INVARIANT SameFileDeletesExclude
