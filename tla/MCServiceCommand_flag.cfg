\* The service tool against spec.md: UnknownFlagIsUsageError.
CONSTANTS
    Argvs <- MCArgvs
    Services = {"svc"}
    Files = {"/f"}
    MaxFd = 5
    IntentWords <- MCIntentWords
SPECIFICATION Spec
INVARIANT UnknownFlagIsUsageError
