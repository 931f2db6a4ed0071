\* A second of four nanoseconds, a start anywhere in the first second and
\* steps of up to three: every start and current nanosecond on both sides
\* of tsDelta's borrow, and a delay of 5 that straddles a second.
CONSTANTS
    NSecsPerSec = 4
    USecsPerSec = 3
    MaxSec = 3
    Amt = 5
    MaxStep = 3
SPECIFICATION FairSpec
INVARIANT DeltaExact
INVARIANT DelayAtLeast
PROPERTY DelayReturns
CHECK_DEADLOCK FALSE
