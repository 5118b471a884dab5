\* A cache_del while an earlier put of the key is spooled: is the result
\* still the one direct execution gives?
CONSTANTS
    Keys <- MCKeysSpool
    Hash <- MCHash
    Texts <- MCTextsSpool
    LBUF_SIZE = 2
    HDR = 1
    max_cache_size = 5
    N_TEMP_FILES = 8
    MaxSpool = 2
    StandAlone = TRUE
    StoreMayFail = FALSE
    AllocMayFail = FALSE
    Converter = TRUE
    DelInBulk = TRUE
    PutAfterCleanup = FALSE
    RedirectTwice = FALSE
    Nil = Nil
SPECIFICATION BulkSpec
INVARIANTS
    BulkReplayEquivalent
