\* A commit lands between the two reads of the tip in _recover.
SPECIFICATION Spec
CONSTANTS
    Nil = Nil
    Seeder = seeder
    tbl1 = t1
    tbl2 = t2
    Writers = {w1, w2, w3}
    Managed = {}
    Tables = {t1}
    Chunks = {}
    Branches = {main}
    SeedTables = {t1}
    SeedKeys = {1}
    Keys = {1}
    Ops <- RaceOps
    DirectOps <- NoOps
    MaxOps = 1
    MaxRetries = 2
    MaxCalls = 1
    MaxFaults = 0
INVARIANT PublishedDescends
