\* @toad of a player whose cache entry holds unsaved money: the purse
\* promise of Pennies / s_Pennies checked against do_toad and do_poor.
CONSTANTS
    DbTop = 2
    Players = {0, 1}
    Wizards = {1}
    Moneys = {1, 2}
    QMaxAttr <- MCQMaxAttr
    queuemax = 2
    MaxQueue = 1
    NoAttr = NoAttr
    Nil = Nil
SPECIFICATION WizSpec
PROPERTIES
    RefinesPurse
