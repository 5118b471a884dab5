\* One hash table used through the htab.cpp wrappers by callers that look a
\* key up before adding it: the table implements a key map.
CONSTANTS
    Keys = {k1, k2, k3}
    Data = {d1, d2}
    Nil = Nil
    NSlots = 3
    InsertMayFail = FALSE
SPECIFICATION Spec
PROPERTIES
    RefinesKeyedMap
