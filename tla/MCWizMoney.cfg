\* The player cache under the wizard commands as well: chain and index
\* agree, and queued-command counts of players are never lost.
CONSTANTS
    DbTop = 2
    Players = {0, 1}
    Wizards = {1}
    Moneys = {1, 2}
    QMaxAttr <- MCQMaxAttr
    queuemax = 2
    MaxQueue = 1
    NoAttr = NoAttr
    Nil = Nil
SPECIFICATION WizSpec
INVARIANTS
    TypeOK
    ChainIndexExact
    QueueAccounted
