\* Three transactions on two branches, with sessions of either branch supplied and a fault.
SPECIFICATION FairSpec
CONSTANTS
    Nil = Nil
    Seeder = seeder
    tbl1 = t1
    tbl2 = t2
    Writers = {w1, w2, w3}
    Managed = {w1}
    Tables = {t1}
    Chunks = {}
    Branches = {main, dev}
    SeedTables = {t1}
    SeedKeys = {1}
    Keys = {1, 2}
    Ops <- ContendedOps
    DirectOps <- NoOps
    MaxOps = 1
    MaxRetries = 1
    MaxCalls = 1
    MaxFaults = 1
INVARIANTS
    TypeOK
    NoBlindRemoval
    AllOrNothing
    ExhaustionIsEarned
PROPERTY
    CommitTerminates
