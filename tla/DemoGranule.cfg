\* Every header length from empty to the whole file; records with either, both or
\* no band, and COGs of several depths.
SPECIFICATION Spec
CONSTANTS
    Nil = Nil
    band1 = b1
    band2 = b2
    Bands <- BandOrder
    Pyramids <- Cogs
    Shapes <- RecordShapes
    Transforms <- Affines
    Files <- SomeFiles
    Lengths <- HeaderLengths
INVARIANTS
    LayoutResolves
    NothingStagedUnread
    ReturnedIsWhole
    BoundsAreThePixels
    LevelsAreCovered
    ReadsInHeader
PROPERTIES
    WalkEnds
