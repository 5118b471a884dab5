\* The player cache in the server: finds, trims, syncs, reloads, queued
\* commands and purse updates implement the abstract purse, and the second
\* trim after its last find frees every entry with nothing queued.
CONSTANTS
    DbTop = 2
    Players = {0, 1}
    Wizards = {1}
    Moneys = {1, 2}
    QMaxAttr <- MCQMaxAttr
    queuemax = 2
    MaxQueue = 1
    NoAttr = NoAttr
    Nil = Nil
SPECIFICATION AgingSpec
INVARIANTS
    AgingBounded
PROPERTIES
    RefinesPurse
