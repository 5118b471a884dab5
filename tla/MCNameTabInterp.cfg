\* interp_nametab listing two or more entries: are they separated by ";"?
CONSTANTS
    Table <- MCTable
    Perms <- MCPerms
    Players <- MCPlayers
    Gods = {"god"}
    CheckAccess <- MCCheckAccess
    MinMatch <- MCMinMatch
    Typed <- MCTyped
    FlagWords = {0, 3, 5}
    Prefix <- MCPrefix
    TrueText <- MCTrue
    FalseText <- MCFalse
    NoMsg = NoMsg
    EnableNames <- MCEnableNames
    GlobalTyped <- MCGlobalTyped
    CA_PUBLIC = {}
    CF_DEQUEUE = 8
    GLOB_ENABLE = 1
    GLOB_DISABLE = 2
    GlobalKeys = {0, 1, 2}
    PRIORITY_CF_DEQUEUE_ENABLED = PRIORITY_CF_DEQUEUE_ENABLED
    PRIORITY_CF_DEQUEUE_DISABLED = PRIORITY_CF_DEQUEUE_DISABLED
    Quiets = {"god"}
SPECIFICATION GlobalSpec
INVARIANTS
    InterpSeparated
