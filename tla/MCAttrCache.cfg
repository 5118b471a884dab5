\* Attribute cache in the running server (no bulk conversion, inserts into
\* the file succeed): the cache agrees with the file, and the whole refines
\* the abstract keyed store.
CONSTANTS
    Keys <- MCKeys
    Hash <- MCHash
    Texts <- MCTexts
    LBUF_SIZE = 2
    HDR = 1
    max_cache_size = 5
    N_TEMP_FILES = 8
    MaxSpool = 2
    StandAlone = FALSE
    StoreMayFail = FALSE
    AllocMayFail = TRUE
    Converter = FALSE
    DelInBulk = FALSE
    PutAfterCleanup = FALSE
    Nil = Nil
SPECIFICATION Spec
INVARIANTS
    CacheCoherent
PROPERTIES
    RefinesAttrStore
