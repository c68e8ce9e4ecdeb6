\* Every sequence of up to four claims over three words.
SPECIFICATION Spec
CONSTANTS
    Words = {w1, w2, w3}
    MaxClaims = 4
INVARIANTS
    LoopFindsTheFounders
CHECK_DEADLOCK FALSE
