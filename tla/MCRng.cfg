CONSTANTS
    W = 8
    N = 5
    M = 3
    SysWords <- MCSysWords
    Seeds = {5, 70000}
    Ranges <- MCRanges
    Elided = {FALSE, TRUE}
    MaxDraws = 12
SPECIFICATION Spec
INVARIANTS GenrandIsMT19937 RandomUniform
