\* Archives of three records, one published later, two rounds; three bits per
\* dimension, blocks of one level, files of two rows.
SPECIFICATION Spec
CONSTANTS
    Nil = Nil
    DATETIME_FLOOR = 1
    Archives <- FirstArchives
    Later <- LaterRecords
    Queries <- SomeQueries
    MaxCalls = 2
    LevelBits = 3
    PARTITION_BITS = 3
    ARRAY_PATH_FIELD_ID = 10
    Sources <- SourceIds
    FileRows = 2
    MaxBatches = 2
CHECK_DEADLOCK FALSE
INVARIANTS
    SelectionIsSound
    SelectionIsComplete
    LimitIsFilled
    FilesAreRanges
    PartitionsAreBoxes
    FiledWhereItLies
