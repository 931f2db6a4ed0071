--------------------------- MODULE BinderAddInts ---------------------------
(***************************************************************************)
(* The binder add-integers benchmark (src/test/binderAddInts.cpp): main    *)
(* parses its options and forks; the parent registers AddIntsService and   *)
(* starts its binder thread pool, then waits for its children; the child   *)
(* polls the service manager until the service is published and performs  *)
(* `iterations` round trips, each sending <<iter, iter + 3>> and checking  *)
(* the sum the server's onTransact writes back.                            *)
(*                                                                         *)
(* int and unsigned int are W bits wide (32 in the build); unsigned long,  *)
(* which strtoul returns, is wider, so the assignment to the unsigned int  *)
(* options.iterations keeps its low W bits.  Signed overflow is undefined  *)
(* behaviour and is recorded in ub; the value the build produces is the    *)
(* two's-complement wrap.  Timing (clock_gettime, tsDelta, testDelaySpin)  *)
(* and CPU pinning are left out: they decide how long a step takes, not    *)
(* which step comes next.  A step of the environment that can fail (fork,  *)
(* sched_setaffinity, addService) fails only for the kinds in Faults.      *)
(***************************************************************************)
EXTENDS Integers, Sequences

CONSTANTS
    W,            \* bits of int and unsigned int
    OptLists,     \* the option lists main may be started with
    AvailCPUs,    \* the CPUs sched_getaffinity reports
    Default,      \* options.iterations when -n is not given (1000)
    Faults        \* the environment failures that may happen

Option == [f : {"c", "s", "n", "?", "x"}, v : Int]

ASSUME AddIntsAssumption ==
    /\ W \in Nat \ {0, 1}
    /\ OptLists \subseteq Seq(Option)
    /\ Default \in 1..(2^W - 1)
    /\ Faults \subseteq {"fork", "bind", "add"}

Modulus == 2^W
\* The value the build gives an integer converted to (signed) int.
ToInt(x) == LET u == x % Modulus
            IN IF u >= Modulus \div 2 THEN u - Modulus ELSE u
\* Whether a signed sum is representable; otherwise it is undefined.
InInt(x) == -(Modulus \div 2) <= x /\ x < Modulus \div 2

Unbound == -1       \* const int unbound
NoExit == -1        \* the process has not exited
NoMsg == <<>>       \* no transaction in flight

VARIABLES
    opts,        \* the options getopt has still to return
    serverCPU,   \* options.serverCPU
    clientCPU,   \* options.clientCPU
    iterations,  \* options.iterations
    requested,   \* the count the operator asked for (the -n number)
    ppc,         \* where the parent (server) process is
    cpc,         \* where the child (client) process is
    registered,  \* the service manager knows "test.binderAddInts"
    poolUp,      \* the server's binder threads are running
    req,         \* the ADD_INTS request in flight: <<val1, val2>>
    rep,         \* the reply in flight: <<sum>>
    iter,        \* the client's loop counter
    unexpected,  \* the iterations for which "Unexpected result" was printed
    ub,          \* undefined behaviour reached
    pexit,       \* the parent's exit status
    cexit        \* the child's exit status

vars == <<opts, serverCPU, clientCPU, iterations, requested, ppc, cpc,
          registered, poolUp, req, rep, iter, unexpected, ub, pexit, cexit>>

-----------------------------------------------------------------------------
(* main: option parsing and fork.                                           *)

\* getopt returns the next option.  -c/-s take a CPU that must be in the
\* affinity mask (exit 3); -n takes strtoul's value, truncated to unsigned
\* int, that must not be 0 (exit 5); '?' prints the usage and exits 0 for
\* -? and 7 for an unknown option.
ParseOption ==
    /\ ppc = "opts"
    /\ opts # <<>>
    /\ LET o == Head(opts) IN
         \/ /\ o.f \in {"c", "s"}
            /\ o.v \notin AvailCPUs
            /\ pexit' = 3 /\ ppc' = "exited"
            /\ UNCHANGED <<opts, serverCPU, clientCPU, iterations, requested>>
         \/ /\ o.f \in {"c", "s"}
            /\ o.v \in AvailCPUs
            /\ clientCPU' = IF o.f = "c" THEN o.v ELSE clientCPU
            /\ serverCPU' = IF o.f = "s" THEN o.v ELSE serverCPU
            /\ opts' = Tail(opts)
            /\ UNCHANGED <<iterations, requested, ppc, pexit>>
         \/ /\ o.f = "n"
            /\ iterations' = o.v % Modulus
            /\ requested' = o.v
            /\ IF o.v % Modulus < 1
                 THEN pexit' = 5 /\ ppc' = "exited" /\ opts' = opts
                 ELSE opts' = Tail(opts) /\ UNCHANGED <<ppc, pexit>>
            /\ UNCHANGED <<serverCPU, clientCPU>>
         \/ /\ o.f \in {"?", "x"}
            /\ pexit' = IF o.f = "?" THEN 0 ELSE 7
            /\ ppc' = "exited"
            /\ UNCHANGED <<opts, serverCPU, clientCPU, iterations, requested>>
    /\ UNCHANGED <<cpc, registered, poolUp, req, rep, iter, unexpected, ub,
                   cexit>>

\* The options are exhausted: fork the client and become the server.
Fork ==
    /\ ppc = "opts"
    /\ opts = <<>>
    /\ \/ /\ ppc' = "add"
          /\ cpc' = "start"
          /\ UNCHANGED pexit
       \/ /\ "fork" \in Faults
          /\ ppc' = "exited" /\ pexit' = 9
          /\ UNCHANGED cpc
    /\ UNCHANGED <<opts, serverCPU, clientCPU, iterations, requested,
                   registered, poolUp, req, rep, iter, unexpected, ub, cexit>>

-----------------------------------------------------------------------------
(* The parent: server() and the wait loop.                                 *)

\* new AddIntsService(serverCPU) pins the thread (bindCPU: exit 30 when
\* sched_setaffinity fails), then sm->addService; a failure is only logged.
AddService ==
    /\ ppc = "add"
    /\ \/ /\ serverCPU # Unbound
          /\ "bind" \in Faults
          /\ ppc' = "exited" /\ pexit' = 30
          /\ UNCHANGED registered
       \/ /\ registered' = TRUE
          /\ ppc' = "pool"
          /\ UNCHANGED pexit
       \/ /\ "add" \in Faults
          /\ ppc' = "pool"
          /\ UNCHANGED <<registered, pexit>>
    /\ UNCHANGED <<opts, serverCPU, clientCPU, iterations, requested, cpc,
                   poolUp, req, rep, iter, unexpected, ub, cexit>>

\* Mutant: startThreadPool is left out, so no thread ever serves the
\* service.
StartPoolMissing ==
    /\ ppc = "pool"
    /\ ppc' = "wait"
    /\ UNCHANGED <<opts, serverCPU, clientCPU, iterations, requested, cpc,
                   registered, poolUp, req, rep, iter, unexpected, ub, pexit,
                   cexit>>

\* proc->startThreadPool(); server() returns to main's wait loop.
StartPool ==
    /\ ppc = "pool"
    /\ poolUp' = TRUE
    /\ ppc' = "wait"
    /\ UNCHANGED <<opts, serverCPU, clientCPU, iterations, requested, cpc,
                   registered, req, rep, iter, unexpected, ub, pexit, cexit>>

\* wait(&stat) reaps the client, whatever its status; the next wait fails
\* with ECHILD and main returns 0.
ParentReturn ==
    /\ ppc = "wait"
    /\ cpc = "exited"
    /\ ppc' = "exited" /\ pexit' = 0
    /\ UNCHANGED <<opts, serverCPU, clientCPU, iterations, requested, cpc,
                   registered, poolUp, req, rep, iter, unexpected, ub, cexit>>

\* Mutant: onTransact reads the first int twice.
ServeReadsFirstTwice ==
    /\ poolUp
    /\ ppc # "exited"
    /\ req # NoMsg
    /\ LET s == req[1] + req[1] IN
         /\ rep' = <<ToInt(s)>>
         /\ ub' = IF InInt(s) THEN ub ELSE ub \cup {"val1 + val2"}
    /\ req' = NoMsg
    /\ UNCHANGED <<opts, serverCPU, clientCPU, iterations, requested, ppc,
                   cpc, registered, poolUp, iter, unexpected, pexit, cexit>>

\* A binder thread runs AddIntsService::onTransact(ADD_INTS): read the two
\* ints and write their (int) sum.
Serve ==
    /\ poolUp
    /\ ppc # "exited"
    /\ req # NoMsg
    /\ LET s == req[1] + req[2] IN
         /\ rep' = <<ToInt(s)>>
         /\ ub' = IF InInt(s) THEN ub ELSE ub \cup {"val1 + val2"}
    /\ req' = NoMsg
    /\ UNCHANGED <<opts, serverCPU, clientCPU, iterations, requested, ppc,
                   cpc, registered, poolUp, iter, unexpected, pexit, cexit>>

-----------------------------------------------------------------------------
(* The child: client().                                                     *)

\* if (options.clientCPU != unbound) bindCPU(...): exit 30 on failure.
ClientStart ==
    /\ cpc = "start"
    /\ \/ /\ cpc' = "attach"
          /\ UNCHANGED cexit
       \/ /\ clientCPU # Unbound
          /\ "bind" \in Faults
          /\ cpc' = "exited" /\ cexit' = 30
    /\ UNCHANGED <<opts, serverCPU, clientCPU, iterations, requested, ppc,
                   registered, poolUp, req, rep, iter, unexpected, ub, pexit>>

\* binder = sm->getService(serviceName); break when found, otherwise print
\* "not published, waiting..." and usleep(500000) -- without end.
Attach ==
    /\ cpc = "attach"
    /\ registered
    /\ cpc' = "loop"
    /\ UNCHANGED <<opts, serverCPU, clientCPU, iterations, requested, ppc,
                   registered, poolUp, req, rep, iter, unexpected, ub, pexit,
                   cexit>>

\* iter < options.iterations: val1 = iter, val2 = iter + 3, expected =
\* val1 + val2; binder->transact(ADD_INTS, send, &reply).
SendAdd ==
    /\ cpc = "loop"
    /\ iter < iterations
    /\ LET val1 == ToInt(iter)
           val2 == ToInt((iter + 3) % Modulus)
       IN /\ req' = <<val1, val2>>
          /\ ub' = IF InInt(val1 + val2) THEN ub ELSE ub \cup {"expected"}
    /\ cpc' = "await"
    /\ UNCHANGED <<opts, serverCPU, clientCPU, iterations, requested, ppc,
                   registered, poolUp, rep, iter, unexpected, pexit, cexit>>

\* The reply is back: result = reply.readInt32(), compared with
\* (int) (iter + iter + 3); a mismatch is printed and the loop goes on.
CheckReply ==
    /\ cpc = "await"
    /\ rep # NoMsg
    /\ unexpected' = IF rep[1] # ToInt((iter + iter + 3) % Modulus)
                       THEN unexpected \cup {iter}
                       ELSE unexpected
    /\ iter' = (iter + 1) % Modulus
    /\ rep' = NoMsg
    /\ cpc' = "loop"
    /\ UNCHANGED <<opts, serverCPU, clientCPU, iterations, requested, ppc,
                   registered, poolUp, req, ub, pexit, cexit>>

\* The loop is over: print min/avg/max; client() returns and the child
\* returns 0 from main.
ClientDone ==
    /\ cpc = "loop"
    /\ iter >= iterations
    /\ cpc' = "exited" /\ cexit' = 0
    /\ UNCHANGED <<opts, serverCPU, clientCPU, iterations, requested, ppc,
                   registered, poolUp, req, rep, iter, unexpected, ub, pexit>>

-----------------------------------------------------------------------------

Init ==
    /\ opts \in OptLists
    /\ serverCPU = Unbound
    /\ clientCPU = Unbound
    /\ iterations = Default
    /\ requested = Default
    /\ ppc = "opts"
    /\ cpc = "none"
    /\ registered = FALSE
    /\ poolUp = FALSE
    /\ req = NoMsg
    /\ rep = NoMsg
    /\ iter = 0
    /\ unexpected = {}
    /\ ub = {}
    /\ pexit = NoExit
    /\ cexit = NoExit

Parent == ParseOption \/ Fork \/ AddService \/ StartPool \/ ParentReturn
Client == ClientStart \/ Attach \/ SendAdd \/ CheckReply \/ ClientDone

Next == Parent \/ Serve \/ Client

\* Both processes are scheduled whenever they can run, and the binder
\* driver hands a pending transaction to a waiting pool thread.
Fairness == WF_vars(Parent) /\ WF_vars(Serve) /\ WF_vars(Client)

Spec == Init /\ [][Next]_vars
FairSpec == Spec /\ Fairness

-----------------------------------------------------------------------------
(* Properties.                                                             *)

IntRange == (-(Modulus \div 2))..(Modulus \div 2 - 1)

\* Every variable has its type.
TypeOK ==
    /\ opts \in Seq(Option)
    /\ iterations \in 0..(Modulus - 1)
    /\ ppc \in {"opts", "add", "pool", "wait", "exited"}
    /\ cpc \in {"none", "start", "attach", "loop", "await", "exited"}
    /\ registered \in BOOLEAN /\ poolUp \in BOOLEAN
    /\ req \in {NoMsg} \cup (IntRange \X IntRange)
    /\ iter \in 0..(Modulus - 1)
    /\ unexpected \subseteq 0..(Modulus - 1)
    /\ pexit \in Int /\ cexit \in Int

\* The end-to-end check of the benchmark: every reply the client reads is
\* the sum it expects for that iteration, so "Unexpected result" is never
\* printed -- across the unsigned/signed conversions of iter, iter + 3 and
\* iter + iter + 3 on the client and the int addition on the server.
NoUnexpectedResult == unexpected = {}

\* Whatever fails in the environment, a published service is used to the
\* end: once "test.binderAddInts" is registered the client finishes its
\* round trips and exits, and once the client is gone the parent returns.
ClientCompletes ==
    /\ registered ~> (cexit # NoExit)
    /\ (cpc = "exited") ~> (pexit # NoExit)

\* The benchmark ends: both the client and the server process exit.
BenchmarkTerminates == <>(pexit # NoExit /\ cexit # NoExit)

\* Benchmark failures are fatal with a distinct non-zero status: the
\* benchmark does not report success (exit 0 of main) when its client
\* failed.
ExitReportsClient == pexit = 0 /\ cexit # NoExit => cexit = 0

\* No signed int addition of the client or of the server overflows.
NoSignedOverflow == ub = {}

\* A client that completes has performed as many round trips as -n asked.
IterationsAsRequested == cpc = "exited" /\ cexit = 0 => iter = requested

=============================================================================
