---------------------------- MODULE SessionToken ----------------------------
(***************************************************************************)
(* What getToken promises the callers of startOp and finishOp, whatever   *)
(* the threads and the service do: the process has one client token, set *)
(* once and never replaced, and every start/finishOperation passes the    *)
(* token the process holds at that moment (null before it is set).        *)
(***************************************************************************)
CONSTANT NoToken   \* the null token

VARIABLES
    token,   \* the process's client token
    sent     \* the tokens passed so far

\* The token is fetched once: only while it is still null.
Create ==
    /\ token = NoToken
    /\ token' # NoToken
    /\ UNCHANGED sent

\* A start/finishOperation passes the current token.
Pass ==
    /\ sent' = sent \cup {token}
    /\ UNCHANGED token

Init == token = NoToken /\ sent = {}

Spec == Init /\ [][Create \/ Pass]_<<token, sent>>

=============================================================================
