\* The service tool against spec.md: NoPartialRequest.
CONSTANTS
    Argvs <- MCArgvs
    Services = {"svc"}
    Files = {"/f"}
    MaxFd = 5
    IntentWords <- MCIntentWords
SPECIFICATION Spec
INVARIANT NoPartialRequest
