\* The converter calls cache_redirect a second time while puts are spooled:
\* are the puts spooled before it still replayed?
CONSTANTS
    Keys <- MCKeysSpool
    Hash <- MCHash
    Texts <- MCTextsSpool
    LBUF_SIZE = 2
    HDR = 1
    max_cache_size = 5
    N_TEMP_FILES = 8
    MaxSpool = 2
    StandAlone = TRUE
    StoreMayFail = FALSE
    AllocMayFail = FALSE
    Converter = TRUE
    DelInBulk = FALSE
    PutAfterCleanup = FALSE
    RedirectTwice = TRUE
    Nil = Nil
SPECIFICATION BulkRedirectSpec
INVARIANTS
    BulkReplayEquivalent
