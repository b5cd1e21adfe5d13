\* One batch whose cleanup of a failed granule fails.
SPECIFICATION Spec
CONSTANTS
    Nil = Nil
    granule1 = g1
    granule2 = g2
    granule3 = g3
    malformed = bad
    Granules = {g1, g2, g3, bad}
    NoBbox = {bad}
    Batches = {b1}
    Inputs <- TwoGranules
    Parts = 2
    MaxRetries = 1
    MaxFaults = 1
INVARIANTS
    RowAndArraysTogether
