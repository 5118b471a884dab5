\* Round trip of spec 8: put(K, P) then get(K) returns P unchanged for any
\* P within the size bound, here a text that does not end in NUL.
CONSTANTS
    Keys <- MCKeys
    Hash <- MCHash
    Texts <- MCTextsUnterminated
    LBUF_SIZE = 2
    HDR = 1
    max_cache_size = 5
    N_TEMP_FILES = 8
    MaxSpool = 2
    StandAlone = FALSE
    StoreMayFail = FALSE
    AllocMayFail = FALSE
    Converter = FALSE
    DelInBulk = FALSE
    PutAfterCleanup = FALSE
    Nil = Nil
SPECIFICATION Spec
PROPERTIES
    RefinesAttrStore
