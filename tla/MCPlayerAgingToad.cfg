\* @toad of a player with a queued command: is its entry still freed once
\* the command has run?
CONSTANTS
    DbTop = 2
    Players = {0, 1}
    Wizards = {1}
    Moneys = {1, 2}
    QMaxAttr <- MCQMaxAttr
    queuemax = 2
    MaxQueue = 1
    NoAttr = NoAttr
    Nil = Nil
SPECIFICATION AgingWizSpec
INVARIANTS
    AgingBounded
