\* A reader beside writers on two branches, a tag, and maintenance.
SPECIFICATION Spec
CONSTANTS
    Nil = Nil
    Main = main
    Readers = {r1}
    Tables = {t1, t2}
    Branches = {main, dev}
    Tags = {tag1}
    Locations = {"warehouse", "elsewhere"}
    Properties <- CallersProperties
    Kept = 1
    MaxFiles = 3
    MaxSnaps = 4
SYMMETRY Symmetry
INVARIANTS
    LockstepReads
    PinnedVersionsResolve
PROPERTIES
    DeclarationsStay
