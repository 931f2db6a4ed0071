\* W = 4: int is -8..7 and unsigned 0..15; Default stands for 1000.
CONSTANTS
    W = 4
    OptLists <- MCLiveOptLists
    AvailCPUs = {0, 1}
    Default = 2
    Faults = {"add"}
SPECIFICATION FairSpec
PROPERTY BenchmarkTerminates
\* The benchmark ends: both processes exit.
CHECK_DEADLOCK FALSE
