\* Two writers and a reader in any modes; keys that may expire within a granule.
SPECIFICATION Spec
CONSTANTS
    Nil = Nil
    Host = "daac"
    Bucket = "protected"
    granule1 = g1
    granule2 = g2
    granule3 = g3
    band1 = b1
    band2 = b2
    cog1 = c1
    cog2 = c2
    cog3 = c3
    Writers = {w1, w2}
    Readers = {r1}
    Assets <- Records
    Bands <- BandOrder
    Requested = {"s3", "https", "ftp"}
    KeyLife = 1
    TokenLife = 1
    MaxTime = 1
CHECK_DEADLOCK FALSE
SYMMETRY WriterSymmetry
INVARIANTS
    RequestsHitTheObject
    ReadersOutliveKeys
    GranulesAreWhole
