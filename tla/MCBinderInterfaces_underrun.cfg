\* Proxies and stubs of IPermissionController and IProcessInfoService.
\* spec.md 4.1 against the proxies: values read past the end of a reply.
CONSTANTS
    Perms = {"android.permission.CAMERA"}
    Pkgs = {"com.example"}
    Msgs = {"", "denied"}
    Pids = {7}
    StateVals = {0, 2}
    MaxLen = 2
SPECIFICATION Spec
INVARIANT NoValueFromUnderrun
