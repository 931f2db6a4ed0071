\* W = 4: int is -8..7 and unsigned 0..15; Default stands for 1000.
\* Every environment failure is possible.
CONSTANTS
    W = 4
    OptLists <- MCOptLists
    AvailCPUs = {0, 1}
    Default = 2
    Faults = {"fork", "bind", "add"}
SPECIFICATION FairSpec
INVARIANT NoUnexpectedResult
PROPERTY ClientCompletes
\* The processes exit, or the client polls forever.
CHECK_DEADLOCK FALSE
