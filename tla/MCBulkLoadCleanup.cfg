\* A cache_put after cache_cleanup has closed the spool files: is it
\* committed as a direct put would be?
CONSTANTS
    Keys <- MCKeysSpool
    Hash <- MCHash
    Texts <- MCTextsSpool
    LBUF_SIZE = 2
    HDR = 1
    max_cache_size = 5
    N_TEMP_FILES = 8
    MaxSpool = 2
    StandAlone = TRUE
    StoreMayFail = FALSE
    AllocMayFail = FALSE
    Converter = TRUE
    DelInBulk = FALSE
    PutAfterCleanup = TRUE
    RedirectTwice = FALSE
    Nil = Nil
SPECIFICATION BulkSpec
INVARIANTS
    BulkReplayEquivalent
