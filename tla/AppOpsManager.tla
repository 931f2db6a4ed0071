--------------------------- MODULE AppOpsManager ---------------------------
(***************************************************************************)
(* The client side of the app-ops service (src/libs/binder/AppOpsManager.cpp)*)
(* as used by several threads of one process.                              *)
(*                                                                         *)
(*  - getService() takes mLock, and loops until its cached handle mService *)
(*    is non-null and alive: it looks "appops" up in the service manager, *)
(*    caches any binder it finds, and otherwise sleeps one second, giving  *)
(*    up once more than 10 s have passed since the first empty lookup.     *)
(*  - getToken() creates, under gTokenMutex, the process-wide client token *)
(*    gToken by a remote call, once; it is read after the unlock.          *)
(*  - checkOp ... permissionToOpCode call getService() and then one remote *)
(*    method; startOp and finishOp pass getToken(service) along.           *)
(*                                                                         *)
(* The environment is the app-ops service process, which may die and be    *)
(* restarted as a new incarnation, and the service manager, which drops a  *)
(* dead registration once it has processed the death notification.         *)
(* Time is the thread's own uptime in seconds; 10 s becomes Ceiling.       *)
(***************************************************************************)
EXTENDS Naturals, Sequences

CONSTANTS
    Threads,     \* the client threads of the process
    NoThread,    \* the owner of a free mutex
    Ops,         \* the AppOpsManager methods the threads call
    MaxCalls,    \* calls each thread makes
    MaxInc,      \* incarnations of the app-ops service process
    Ceiling,     \* the give-up bound of getService (10000 ms)
    MaxNap       \* the most seconds one sleep(1) plus lookup may take

AllOps == {"checkOp", "noteOp", "startOp", "finishOp",
           "startWatchingMode", "stopWatchingMode", "permissionToOpCode"}
\* The methods that pass getToken(service) to the remote call.
TokenOps == {"startOp", "finishOp"}

ASSUME ConstAssumption ==
    /\ NoThread \notin Threads
    /\ Ops \subseteq AllOps
    /\ MaxCalls \in Nat
    /\ MaxInc \in Nat
    /\ Ceiling \in Nat
    /\ MaxNap \in Nat \ {0}

\* The durations of one sleep.  ClockCap bounds a thread's uptime within one call for
\* TLC; it lies a whole nap beyond what the code can reach (WaitBounded), so
\* it never disables a step of the code.
Naps == 1..MaxNap
ClockCap == 1 + Ceiling + 2 * MaxNap

\* Service incarnations are 1..MaxInc; 0 is the null binder.
NoService == 0
Incarnations == 1..MaxInc
\* Tokens are numbered in issue order; 0 is the null token.
NoToken == 0

VARIABLES
    mLock,        \* owner of AppOpsManager::mLock
    mService,     \* AppOpsManager::mService, the cached handle
    gTokenMutex,  \* owner of gTokenMutex
    gToken,       \* the process-wide client token
    issuer,       \* issuer[k]: the incarnation that issued token k
    registry,     \* what checkService("appops") returns
    alive,        \* the incarnations that are running
    inc,          \* the newest incarnation started
    pc,           \* where each thread is
    op,           \* the method each thread is executing
    svc,          \* the local `service` of getService and of the method
    clk,          \* uptimeMillis() of the thread, in seconds
    startTime,    \* the local startTime of getService
    calls,        \* methods each thread has invoked
    passed        \* the remote start/finishOperation calls made

vars == <<mLock, mService, gTokenMutex, gToken, issuer, registry, alive,
          inc, pc, op, svc, clk, startTime, calls, passed>>

Pcs == {"idle", "lock", "test", "lookup", "got", "tokcheck",
        "tokfetch", "tokuse"}

IsAlive(s) == s # NoService /\ s \in alive

-----------------------------------------------------------------------------
(* The threads.                                                            *)

\* A thread enters one of the methods; each starts with getService().
Invoke(t) ==
    /\ pc[t] = "idle"
    /\ calls[t] < MaxCalls
    /\ \E o \in Ops : op' = [op EXCEPT ![t] = o]
    /\ calls' = [calls EXCEPT ![t] = @ + 1]
    /\ pc' = [pc EXCEPT ![t] = "lock"]
    /\ clk' = [clk EXCEPT ![t] = 1]
    /\ startTime' = [startTime EXCEPT ![t] = 0]
    /\ UNCHANGED <<mLock, mService, gTokenMutex, gToken, issuer, registry,
                   alive, inc, svc, passed>>

\* mLock.lock(); service = mService;
Lock(t) ==
    /\ pc[t] = "lock"
    /\ mLock = NoThread
    /\ mLock' = t
    /\ svc' = [svc EXCEPT ![t] = mService]
    /\ pc' = [pc EXCEPT ![t] = "test"]
    /\ UNCHANGED <<mService, gTokenMutex, gToken, issuer, registry, alive,
                   inc, op, clk, startTime, calls, passed>>

\* The loop condition holds no more: mLock.unlock(); return service;
LoopExit(t) ==
    /\ pc[t] = "test"
    /\ IsAlive(svc[t])
    /\ mLock' = NoThread
    /\ pc' = [pc EXCEPT ![t] = "got"]
    /\ UNCHANGED <<mService, gTokenMutex, gToken, issuer, registry, alive,
                   inc, op, svc, clk, startTime, calls, passed>>

\* service == NULL || !isBinderAlive(): enter the loop body.
LoopEnter(t) ==
    /\ pc[t] = "test"
    /\ ~IsAlive(svc[t])
    /\ pc' = [pc EXCEPT ![t] = "lookup"]
    /\ UNCHANGED <<mLock, mService, gTokenMutex, gToken, issuer, registry,
                   alive, inc, op, svc, clk, startTime, calls, passed>>

\* Mutant: the binder found is cached in mService but not in the local
\* service the loop tests.
LookupFoundNoLocal(t) ==
    /\ pc[t] = "lookup"
    /\ registry # NoService
    /\ mService' = registry
    /\ pc' = [pc EXCEPT ![t] = "test"]
    /\ UNCHANGED <<mLock, gTokenMutex, gToken, issuer, registry, alive, inc,
                   op, svc, clk, startTime, calls, passed>>

\* checkService returns a binder, dead or alive: cache it unconditionally.
LookupFound(t) ==
    /\ pc[t] = "lookup"
    /\ registry # NoService
    /\ svc' = [svc EXCEPT ![t] = registry]
    /\ mService' = registry
    /\ pc' = [pc EXCEPT ![t] = "test"]
    /\ UNCHANGED <<mLock, gTokenMutex, gToken, issuer, registry, alive, inc,
                   op, clk, startTime, calls, passed>>

\* Mutant: the elapsed-time test is lost, so the loop never gives up.
TimedOutNever(t) == startTime[t] # 0 /\ FALSE

\* The wait has lasted too long: ALOGW(...); return NULL;  -- mLock is not
\* released on this path.
TimedOut(t) == startTime[t] # 0 /\ clk[t] - startTime[t] > Ceiling

GiveUp(t) ==
    /\ pc[t] = "lookup"
    /\ registry = NoService
    /\ TimedOut(t)
    /\ svc' = [svc EXCEPT ![t] = NoService]
    /\ pc' = [pc EXCEPT ![t] = "got"]
    /\ UNCHANGED <<mLock, mService, gTokenMutex, gToken, issuer, registry,
                   alive, inc, op, clk, startTime, calls, passed>>

\* Mutant: startTime is taken anew on every empty lookup.
WaitRestarting(t) ==
    /\ pc[t] = "lookup"
    /\ registry = NoService
    /\ ~TimedOut(t)
    /\ startTime' = [startTime EXCEPT ![t] = clk[t]]
    /\ \E d \in Naps : /\ clk[t] + d <= ClockCap
                       /\ clk' = [clk EXCEPT ![t] = @ + d]
    /\ pc' = [pc EXCEPT ![t] = "test"]
    /\ UNCHANGED <<mLock, mService, gTokenMutex, gToken, issuer, registry,
                   alive, inc, op, svc, calls, passed>>

\* checkService returns NULL: note the start of the wait, then sleep(1).
Wait(t) ==
    /\ pc[t] = "lookup"
    /\ registry = NoService
    /\ ~TimedOut(t)
    /\ startTime' = [startTime EXCEPT ![t] = IF @ = 0 THEN clk[t] ELSE @]
    /\ \E d \in Naps : /\ clk[t] + d <= ClockCap
                       /\ clk' = [clk EXCEPT ![t] = @ + d]
    /\ pc' = [pc EXCEPT ![t] = "test"]
    /\ UNCHANGED <<mLock, mService, gTokenMutex, gToken, issuer, registry,
                   alive, inc, op, svc, calls, passed>>

\* getService() returned NULL: the method returns MODE_IGNORED (or -1).
ReturnIgnored(t) ==
    /\ pc[t] = "got"
    /\ svc[t] = NoService
    /\ pc' = [pc EXCEPT ![t] = "idle"]
    /\ UNCHANGED <<mLock, mService, gTokenMutex, gToken, issuer, registry,
                   alive, inc, op, svc, clk, startTime, calls, passed>>

\* checkOperation, noteOperation, startWatchingMode, ...: one remote call
\* on the returned handle, which changes no client state.
CallRemote(t) ==
    /\ pc[t] = "got"
    /\ svc[t] # NoService
    /\ op[t] \notin TokenOps
    /\ pc' = [pc EXCEPT ![t] = "idle"]
    /\ UNCHANGED <<mLock, mService, gTokenMutex, gToken, issuer, registry,
                   alive, inc, op, svc, clk, startTime, calls, passed>>

\* Mutant: getToken enters without taking gTokenMutex.
TokenLockUnguarded(t) ==
    /\ pc[t] = "got"
    /\ svc[t] # NoService
    /\ op[t] \in TokenOps
    /\ gTokenMutex' = t
    /\ pc' = [pc EXCEPT ![t] = "tokcheck"]
    /\ UNCHANGED <<mLock, mService, gToken, issuer, registry, alive, inc,
                   op, svc, clk, startTime, calls, passed>>

\* startOp / finishOp: getToken(service) first takes gTokenMutex.
TokenLock(t) ==
    /\ pc[t] = "got"
    /\ svc[t] # NoService
    /\ op[t] \in TokenOps
    /\ gTokenMutex = NoThread
    /\ gTokenMutex' = t
    /\ pc' = [pc EXCEPT ![t] = "tokcheck"]
    /\ UNCHANGED <<mLock, mService, gToken, issuer, registry, alive, inc,
                   op, svc, clk, startTime, calls, passed>>

\* if (gToken == NULL): go on to the remote call, or else unlock at once.
TokenTest(t) ==
    /\ pc[t] = "tokcheck"
    /\ IF gToken = NoToken
         THEN /\ pc' = [pc EXCEPT ![t] = "tokfetch"]
              /\ UNCHANGED gTokenMutex
         ELSE /\ pc' = [pc EXCEPT ![t] = "tokuse"]
              /\ gTokenMutex' = NoThread
    /\ UNCHANGED <<mLock, mService, gToken, issuer, registry, alive, inc, op,
                   svc, clk, startTime, calls, passed>>

\* gToken = service->getToken(new BBinder()); unlock.  The remote call
\* returns a new token from a live service and NULL from a dead one (the
\* empty reply reads as no exception and a null binder), and gToken takes
\* whatever it returned.
TokenCreate(t) ==
    /\ pc[t] = "tokfetch"
    /\ IF IsAlive(svc[t])
         THEN /\ issuer' = Append(issuer, svc[t])
              /\ gToken' = Len(issuer) + 1
         ELSE /\ gToken' = NoToken
              /\ UNCHANGED issuer
    /\ gTokenMutex' = NoThread
    /\ pc' = [pc EXCEPT ![t] = "tokuse"]
    /\ UNCHANGED <<mLock, mService, registry, alive, inc, op, svc, clk,
                   startTime, calls, passed>>

\* return gToken; (read after the unlock) and pass it to the remote
\* startOperation / finishOperation of the handle getService returned.
TokenUse(t) ==
    /\ pc[t] = "tokuse"
    /\ passed' = passed \cup {[op |-> op[t], token |-> gToken, to |-> svc[t]]}
    /\ pc' = [pc EXCEPT ![t] = "idle"]
    /\ UNCHANGED <<mLock, mService, gTokenMutex, gToken, issuer, registry,
                   alive, inc, op, svc, clk, startTime, calls>>

Thread(t) ==
    \/ Invoke(t) \/ Lock(t) \/ LoopExit(t) \/ LoopEnter(t)
    \/ LookupFound(t) \/ GiveUp(t) \/ Wait(t)
    \/ ReturnIgnored(t) \/ CallRemote(t)
    \/ TokenLock(t) \/ TokenTest(t) \/ TokenCreate(t) \/ TokenUse(t)

-----------------------------------------------------------------------------
(* The environment: the app-ops service process and the service manager.   *)

\* The registered app-ops process exits.
Die ==
    /\ IsAlive(registry)
    /\ alive' = alive \ {registry}
    /\ UNCHANGED <<mLock, mService, gTokenMutex, gToken, issuer, registry,
                   inc, pc, op, svc, clk, startTime, calls, passed>>

\* The service manager processes the death notification of the registered
\* binder and removes the registration.
Unregister ==
    /\ registry # NoService
    /\ registry \notin alive
    /\ registry' = NoService
    /\ UNCHANGED <<mLock, mService, gTokenMutex, gToken, issuer, alive, inc,
                   pc, op, svc, clk, startTime, calls, passed>>

\* A new incarnation starts and registers "appops", replacing a dead entry.
Restart ==
    /\ ~IsAlive(registry)
    /\ inc < MaxInc
    /\ inc' = inc + 1
    /\ alive' = alive \cup {inc + 1}
    /\ registry' = inc + 1
    /\ UNCHANGED <<mLock, mService, gTokenMutex, gToken, issuer, pc, op,
                   svc, clk, startTime, calls, passed>>

Environment == Die \/ Unregister \/ Restart

-----------------------------------------------------------------------------

\* The service may or may not be running when the process starts.
Init ==
    /\ inc \in {0, 1} \cap (0..MaxInc)
    /\ registry = inc
    /\ alive = IF inc = 0 THEN {} ELSE {1}
    /\ mLock = NoThread
    /\ mService = NoService
    /\ gTokenMutex = NoThread
    /\ gToken = NoToken
    /\ issuer = <<>>
    /\ pc = [t \in Threads |-> "idle"]
    /\ op = [t \in Threads |-> "checkOp"]
    /\ svc = [t \in Threads |-> NoService]
    /\ clk = [t \in Threads |-> 1]
    /\ startTime = [t \in Threads |-> 0]
    /\ calls = [t \in Threads |-> 0]
    /\ passed = {}

Next == (\E t \in Threads : Thread(t)) \/ Environment

\* Threads run whenever they can (the scheduler is fair to runnable threads)
\* and the service manager eventually processes a death notification.  The
\* service process is not assumed ever to die or to come back.
Fairness == (\A t \in Threads : WF_vars(Thread(t))) /\ WF_vars(Unregister)

Spec == Init /\ [][Next]_vars
FairSpec == Spec /\ Fairness

-----------------------------------------------------------------------------
(* Properties.                                                             *)

Call == [op : AllOps, token : Nat, to : 0..MaxInc]

\* Every variable has its type.
TypeOK ==
    /\ mLock \in Threads \cup {NoThread}
    /\ gTokenMutex \in Threads \cup {NoThread}
    /\ mService \in 0..MaxInc
    /\ issuer \in Seq(Incarnations)
    /\ gToken \in 0..Len(issuer)
    /\ registry \in 0..MaxInc
    /\ alive \subseteq Incarnations
    /\ inc \in 0..MaxInc
    /\ pc \in [Threads -> Pcs]
    /\ op \in [Threads -> AllOps]
    /\ svc \in [Threads -> 0..MaxInc]
    /\ clk \in [Threads -> 1..ClockCap]
    /\ startTime \in [Threads -> 0..ClockCap]
    /\ calls \in [Threads -> 0..MaxCalls]
    /\ passed \subseteq Call

\* getToken: every start/finishOperation that passed a token, by whichever
\* thread and whenever, passed the one token gToken holds now -- the
\* token is created at most once although threads race on first use.
TokenAgreement ==
    \A c \in passed : c.token # NoToken => c.token = gToken

\* getService: a single call never sleeps for much longer than the 10 s
\* ceiling, however the lookups of the service manager go.
WaitBounded ==
    \A t \in Threads : clk[t] - 1 <= Ceiling + MaxNap

\* getService's lock leaves with its thread in every path but one: mLock is
\* held only by a thread inside getService's loop.
Leaked == mLock # NoThread /\ pc[mLock] \notin {"test", "lookup"}

\* Every call of getService returns, unless mLock has been leaked.
GetServiceReturns ==
    \A t \in Threads : (pc[t] = "lock") ~> (pc[t] = "got" \/ Leaked)

\* Every call of getService returns (the spec: acquisition never blocks
\* indefinitely, it returns "no handle" within the ceiling).
GetServiceAlwaysReturns ==
    \A t \in Threads : (pc[t] = "lock") ~> (pc[t] = "got")

\* The token a start/finishOperation passes was issued by the very service
\* instance it is passed to.
TokenFromSameService ==
    \A c \in passed : c.token # NoToken => issuer[c.token] = c.to


-----------------------------------------------------------------------------
(* Refinement of the one-time token of SessionToken.                      *)

\* The token seen by the abstract specification is gToken, and the tokens it
\* has sent are those of the recorded remote calls.
SentTokens == {c.token : c \in passed}

Abs == INSTANCE SessionToken WITH token <- gToken, sent <- SentTokens

\* getToken implements a one-time initialisation: however the threads race
\* through gTokenMutex and however the service dies and restarts, gToken
\* changes only from null to a token, and every startOp/finishOp passes the
\* gToken of that moment.
TokenOnce == Abs!Spec

=============================================================================
