\* The running server (no conversion), allocations that may fail so that a
\* key can be read from the file rather than the cache: a caller copies an
\* attribute by passing cache_get's text to cache_put.
CONSTANTS
    Keys <- MCKeys
    Hash <- MCHash
    Texts <- MCTexts
    LBUF_SIZE = 2
    HDR = 1
    max_cache_size = 5
    N_TEMP_FILES = 8
    MaxSpool = 2
    StandAlone = FALSE
    StoreMayFail = FALSE
    AllocMayFail = TRUE
    Converter = FALSE
    DelInBulk = FALSE
    PutAfterCleanup = FALSE
    Nil = Nil
SPECIFICATION TempSpec
INVARIANTS
    CopyFaithful
