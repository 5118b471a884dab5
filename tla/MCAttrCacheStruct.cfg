\* Attribute cache in the running server, inserts into the file may fail:
\* recency list, index, footprint accounting and LRU eviction.
CONSTANTS
    Keys <- MCKeys
    Hash <- MCHash
    Texts <- MCTexts
    LBUF_SIZE = 2
    HDR = 1
    max_cache_size = 5
    N_TEMP_FILES = 8
    MaxSpool = 2
    StandAlone = FALSE
    StoreMayFail = TRUE
    AllocMayFail = FALSE
    Converter = FALSE
    DelInBulk = FALSE
    PutAfterCleanup = FALSE
    Nil = Nil
SPECIFICATION Spec
INVARIANTS
    TypeOK
    ListWellFormed
    IndexExact
    FootprintAccounted
PROPERTIES
    LRUDiscipline
