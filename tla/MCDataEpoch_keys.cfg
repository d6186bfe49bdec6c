\* Three future keys, epochs up to eight, one packet for each key: both peers
\* move on by their own limit and by the other's packets, skip epochs, and come
\* to the edge of the epochs. A session that ran out of ids has stopped.
SPECIFICATION Spec
CONSTANTS
    A = a
    B = b
    Future = 3
    MaxEpoch = 8
    MaxCounter = 2
INVARIANTS IndInv FreshNonce DecryptOnce LookupMatches
CHECK_DEADLOCK FALSE
