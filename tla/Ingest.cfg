\* Three processes ingesting the same granules, with failed cleanups, storage errors and lost answers.
SPECIFICATION Spec
CONSTANTS
    Nil = Nil
    granule1 = g1
    granule2 = g2
    granule3 = g3
    malformed = bad
    Granules = {g1, g2, g3, bad}
    NoBbox = {bad}
    Batches = {b1, b2, b3}
    Inputs <- ThreeInputs
    Parts = 2
    MaxRetries = 1
    MaxFaults = 2
SYMMETRY BatchSymmetry
INVARIANTS
    TypeOK
    RowsHaveArrays
    OneRowPerGranule
    ResultIsTrue
    ArraysHaveRow
    PublishedStays
