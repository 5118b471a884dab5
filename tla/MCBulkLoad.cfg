\* The converter's protocol (no del while puts are spooled, no put after
\* cache_cleanup, one redirect): redirect and replay are equivalent to
\* direct execution.
CONSTANTS
    Keys <- MCKeysSpool
    Hash <- MCHash
    Texts <- MCTextsSpool
    LBUF_SIZE = 2
    HDR = 1
    max_cache_size = 5
    N_TEMP_FILES = 8
    MaxSpool = 2
    StandAlone = TRUE
    StoreMayFail = FALSE
    AllocMayFail = FALSE
    Converter = TRUE
    DelInBulk = FALSE
    PutAfterCleanup = FALSE
    RedirectTwice = FALSE
    Nil = Nil
SPECIFICATION BulkSpec
INVARIANTS
    BulkReplayEquivalent
