\* A ring of four bits, ids up to 7, expiration after one second: jumps below
\* and beyond the ring, a wraparound and an expiration all happen.
SPECIFICATION Spec
CONSTANTS
    Window = 4
    Patience = 1
    MaxId = 7
    MaxTime = 2
    Starts = {0, 3}
INVARIANTS IndInv NoReplay AcceptsExactly FreshIds
