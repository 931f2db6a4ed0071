\* The service tool against spec.md: FdOwnedOnce.
CONSTANTS
    Argvs <- MCFdArgvs
    Services = {"svc"}
    Files = {"/f"}
    MaxFd = 5
    IntentWords <- MCIntentWords
SPECIFICATION Spec
INVARIANT FdOwnedOnce
