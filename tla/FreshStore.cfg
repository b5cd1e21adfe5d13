\* Two transactions race to create tables; storage fails, bodies raise, commit() is called again.
SPECIFICATION Spec
CONSTANTS
    Nil = Nil
    Seeder = seeder
    tbl1 = t1
    tbl2 = t2
    Writers = {w1, w2}
    Managed = {w1}
    Tables = {t1, t2}
    Chunks = {c1}
    Branches = {main}
    SeedTables = {}
    SeedKeys = {}
    Keys = {1}
    Ops <- FreshOps
    DirectOps <- NoOps
    MaxOps = 2
    MaxRetries = 1
    MaxCalls = 2
    MaxFaults = 1
INVARIANTS
    DeclaredResolves
    AllOrNothing
PROPERTY
    Implements
