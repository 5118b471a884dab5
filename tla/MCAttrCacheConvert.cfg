\* Attribute cache in the standalone converter: puts diverted to the spool
\* files, replayed by cache_pass2 or discarded by cache_cleanup, with
\* close/open interleaved.  A caller keeping the converter's protocol sees
\* the abstract keyed store with its deferred bulk puts.
CONSTANTS
    Keys <- MCKeysSpool
    Hash <- MCHash
    Texts <- MCTextsSpool
    LBUF_SIZE = 2
    HDR = 1
    max_cache_size = 5
    N_TEMP_FILES = 8
    MaxSpool = 2
    StandAlone = TRUE
    StoreMayFail = FALSE
    AllocMayFail = FALSE
    Converter = TRUE
    DelInBulk = FALSE
    PutAfterCleanup = FALSE
    Nil = Nil
SPECIFICATION Spec
PROPERTIES
    RefinesAttrStore
