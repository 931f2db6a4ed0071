\* The service tool: exit status and the compiled parcel, over every
\* argument vector of MCArgvs.
CONSTANTS
    Argvs <- MCArgvs
    Services = {"svc"}
    Files = {"/f"}
    MaxFd = 5
    IntentWords <- MCIntentWords
SPECIFICATION Spec
INVARIANT CompiledInOrder
INVARIANT ExitStatus
