\* A failed insert into the attribute file after its old record was
\* removed: does the cache still agree with the file?
CONSTANTS
    Keys <- MCKeys
    Hash <- MCHash
    Texts <- MCTexts
    LBUF_SIZE = 2
    HDR = 1
    max_cache_size = 5
    N_TEMP_FILES = 8
    MaxSpool = 2
    StandAlone = FALSE
    StoreMayFail = TRUE
    AllocMayFail = TRUE
    Converter = FALSE
    DelInBulk = FALSE
    PutAfterCleanup = FALSE
    Nil = Nil
SPECIFICATION Spec
INVARIANTS
    CacheCoherent
