\* Ceiling = 2 with naps of 1 or 2 s: the give-up takes two to three empty
\* lookups, as 10 s with sleep(1) takes eleven.
CONSTANTS
    t1 = t1
    t2 = t2
    NoThread = NoThread
    Threads <- MCThreads
    Ops <- MCOps
    MaxNap = 2
    MaxCalls = 2
    MaxInc = 2
    Ceiling = 2
SPECIFICATION Spec
INVARIANT TokenFromSameService
CHECK_DEADLOCK FALSE
