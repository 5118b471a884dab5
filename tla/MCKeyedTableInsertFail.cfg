\* CHashTable::Insert failing under hashaddLEN: does the wrapper still keep
\* its promise to return false for failure?
CONSTANTS
    Keys = {k1, k2, k3}
    Data = {d1, d2}
    Nil = Nil
    NSlots = 3
    InsertMayFail = TRUE
SPECIFICATION Spec
PROPERTIES
    RefinesKeyedMap
