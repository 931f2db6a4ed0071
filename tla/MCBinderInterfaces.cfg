\* Proxies and stubs of IPermissionController and IProcessInfoService.
\* Arrays of up to two pids: a skewed peer's array reaches three.
CONSTANTS
    Perms = {"android.permission.CAMERA"}
    Pkgs = {"com.example"}
    Msgs = {"", "denied"}
    Pids = {7}
    StateVals = {0, 2}
    MaxLen = 2
SPECIFICATION Spec
INVARIANT FailClosed
INVARIANT StatesMatchRequest
