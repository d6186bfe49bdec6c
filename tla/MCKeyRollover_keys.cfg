\* Times in ticks: a lifetime of two renegotiation intervals, as in the
\* default configuration, and callbacks that come at most three ticks apart:
\* enough for the expiry of a dead primary to come due between two callbacks.
\* The exploration stops at its bounds and where the session is over.
CONSTANTS
    HandshakeWindow = 2
    BecomePrimary = 1
    Renegotiate = 3
    Expire = 6
    LimitDelay = 1
    KeyIdMask = 3
    MaxLate = 3
    MaxTime = 9
    MaxKeys = 6
SPECIFICATION Spec
INVARIANTS IndInv KeyExpires IdsApart LimitHeeded
PROPERTIES NeverRollsBack OldKeyKept FlushReturns
CHECK_DEADLOCK FALSE
