# Formal models of binder-for-linux

This directory holds TLA+ models of the user-space parts of
binder-for-linux, the TLC configurations that check them on small
instances, and TLAPS proofs of the main safety properties of the
AppOpsManager client and of the time utilities of the tests. `PROJECT.json` lists the components, the runs, the
mutants, the source lines each definition models, the findings, the hazards
and the theorems.

## The system and how its parts interact

| Part | Source | Role |
|---|---|---|
| AppOpsManager client | `src/libs/binder/AppOpsManager.cpp` | Caches a handle to the `appops` service. It waits a bounded time for the service to appear. It fetches one session token per process and passes it with start/finish operations. |
| `service` tool | `src/cmds/service.cpp` | Command line: `check`, `list` and `call`. `call` compiles typed words (`i32`, `s16`, `fd`, `afd`, `nfd`, `intent` …) into a transaction. |
| IPermissionController | `src/libs/binder/IPermissionController.cpp` | Proxy (request encoding, reply decoding) and stub (interface check, dispatch). |
| IProcessInfoService | `src/libs/binder/IProcessInfoService.cpp` | The same for `getProcessStatesFromPids`. |
| Parcel, transport, service manager | not in `src/` | The buffer the proxies write and read, and the lookup and death machinery. These are modelled from `spec.md` as environment actions. |
| binderAddInts | `src/test/binderAddInts.cpp` | A benchmark: `main` forks a client; the parent registers `AddIntsService` and serves it, the client polls the service manager for it and performs round trips. |
| testUtil | `src/test/testUtil.c` | Timespec arithmetic, the delay loops the benchmark calls, random numbers and a hex dump. |

The client and the tool are both users of the service manager. They look a
service up by name and transact with the handle. The permission and
process-info interfaces are the two request/reply protocols in the tree
whose both ends are in the source.

## Modules

### AppOpsManager (AppOpsManager.tla, MCAppOpsManager.tla)

**State.** The per-object state is `mLock` (the owning thread, or
`NoThread`) and `mService`. `gTokenMutex` and `gToken` are process-wide.
Each thread has its own
- program counter,
- uptime `clk`,
- `startTime`,
- call count.

The environment holds the service manager's `registry`, the `alive`
incarnation and the `issuer` of each token. `passed` records every remote
call: its operation, token and target incarnation.

**Actions.** Every public method is one `Invoke` of an operation in
`Ops`. It goes through `getService`, modelled one step at a time:
1. `Lock`.
2. The liveness test: `LoopEnter` or `LoopExit`.
3. `checkService`: `LookupFound` or `Wait`.
4. The ten-second give-up: `TimedOut` or `GiveUp`. `GiveUp` returns without
   unlocking, as the code does.

Three actions follow `getService`:
- `ReturnIgnored` is the null-service default return.
- `CallRemote` is the plain remote call.
- For `startOp` and `finishOp`, `getToken` runs first, as three steps:
  `TokenLock` takes `gTokenMutex`; `TokenTest` tests `gToken == NULL` and
  unlocks at once when a token is there; `TokenCreate` makes the remote
  `getToken` call, stores its result (NULL from a dead service) and
  unlocks. `TokenUse` then reads `gToken` after the unlock and makes the
  remote call. Because the test and the store are separate steps, only the
  mutex keeps two first users from both storing a token.

**Environment.** `Die`, `Unregister` and `Restart` are the environment. They
stand for the app-ops process exiting, the service manager dropping a dead
registration, and a new incarnation registering.

**Bounds.**
- `Ceiling = 2` with naps of 1–2 s gives two to three empty lookups before
  the give-up. The 10 s ceiling with `sleep(1)` gives eleven, and the
  control is the same.
- Two threads (under symmetry) are enough for lock contention and for a
  race on the token.
- With `MaxCalls = 2`, one thread can call again after its own give-up.
- `MaxInc = 2` incarnations allows one restart.

**Fairness** (`FairSpec`):
- weak fairness for every thread, since the scheduler runs a runnable
  thread;
- weak fairness for `Unregister`, since the service manager processes
  death notifications.

`Die` and `Restart` are left unfair, because nothing obliges the app-ops
service to fail or come back.

**Deadlock checking is off** in these runs. The number of calls is bounded,
so every thread eventually reaches the idle end state. After the give-up
leak, threads also block on `mLock` forever. That is the behaviour the
`appops_leak` run exhibits, not a modelling artefact.

### ServiceCommand (ServiceCommand.tla, ServiceCommandRef.tla, MCServiceCommand.tla)

**State.** `main` of `service.cpp`, with
- the argument vector `argv` and the option index;
- `result`, `wantsUsage` and `err`;
- the target and the parcel `data`, a sequence of typed words;
- the open descriptors and the transmitted parcel `sent`;
- the exit code;
- `ub`, the set of undefined-behaviour events reached.

**Actions.** Initial states are every argument vector of `Argvs`. There is
one action per step of `main`:
- option parsing (`GetOpt`);
- the service-manager lookup (the manager may be absent);
- the commands `check`, `list`, `call` and an unknown command.

Under `call` there is one action per tag: `WriteInteger` (`i32`, `i64`),
`WriteFloat` (`f`, `d`), `WriteString`,
`WriteNull`, `WriteFd`, `WriteAshmem`, `WriteNfd`, `WriteIntent` and
`UnknownTag`, plus the missing-literal error.

**Nondeterministic outcomes.**
- The results of `ashmem_create_region`, `mmap` and `read` are chosen
  nondeterministically, because the code does not check them.
- Descriptors are the lowest free number, as `open` allocates them. A
  non-null `defaultServiceManager()` has opened the binder driver
  (`ServiceManager` adds its descriptor, 3, to `openFds`), so the first
  file or ashmem region gets 4.

**`RefCompile`** (in `ServiceCommandRef.tla`) is a recursive reference
compiler written from the grammar in `spec.md` 4.3. `CompiledInOrder`
compares the parcel against it. The reference is kept out of
`ServiceCommand.tla` because it is a RECURSIVE operator, and a module that
reaches one cannot be given to the provers. For the same reason the
flattening of the `intent` category lists is written as a recursive function
(`flat` in `WriteIntent`) rather than with `FlattenSeq` of SequencesExt,
which reaches the RECURSIVE operators of Folds. The empty `String16` is named
`NoName`: the SMT backend of the provers cannot read an empty string
literal.

**Bounds.** The runs check, for every flag and command combination:
- up to three words after `call svc 1`, drawn from
  `i32 d s16 null fd afd nfd 3 /f x`;
- the intent scripts;
- every flag and command combination.

This covers every tag, each literal missing, each ownership clash and each
intent key.

### BinderInterfaces (BinderInterfaces.tla, MCBinderInterfaces.tla)

**State.** One proxy call and its reply. The Parcel is a sequence of words
(`I32`, `Str`, `Token`). Its read operations are `ReadInt32` (0 past the end)
and `ReadString16` (empty past the end). `ExceptionCodes` models the
exception header: an empty reply reads as no exception or as
`EX_TRANSACTION_FAILED`. These come from `spec.md` 4.1 because the Parcel is
not in this tree.

**Actions.**
- The proxy writes its request (`SendCheckPermission`,
  `SendGetPackagesForUid`, `SendIsRuntimePermission`,
  `SendGetProcessStates`).
- The transport either fails with `DEAD_OBJECT` or delivers to a peer:
  - the native stubs `PermissionControllerStub` and
    `ProcessInfoServiceStub`, translated from `onTransact`;
  - a service that throws;
  - a peer that answers array requests with arrays of any length up to
    `MaxLen + 1`, possibly truncated.
- The proxy then decodes the reply (`ReadPermissionAnswer`, `ReadPackages`,
  `ReadProcessStates`).

The stubs can also receive a request meant for the other interface (a
misdirected handle).

### SessionToken (SessionToken.tla)

The abstract specification of what `getToken` promises: one process-wide
token, set once from null (`Create`) and never replaced, and every
start/finishOperation passing the token of that moment (`Pass`).
`AppOpsManager` instantiates it as `Abs` with `token <- gToken` and
`sent <- SentTokens`, the tokens of the recorded calls. `TokenOnce` is
`Abs!Spec`. `TokenCreate` maps to `Create` or to a stutter, `TokenUse` to
`Pass`, and every other step to a stutter. A thread that took no mutex
before the test (the mutant `TokenLockUnguarded`) lets a second first user
replace the token, which `Create` forbids.

### BinderAddInts (BinderAddInts.tla, MCBinderAddInts.tla)

**State.**
- The options: the list getopt still has to return, the server and client
  CPUs, `iterations`, and `requested`, the number the operator typed.
- One program counter each for the parent (`ppc`) and the child (`cpc`).
- Whether the service is registered and whether the pool runs.
- The request and the reply in flight, and the client's `iter`.
- The iterations that printed "Unexpected result", and the undefined
  behaviour reached (`ub`).
- Both exit statuses.

**Actions.**
- `main`:
  - `ParseOption` handles one option. `-c`/`-s` exit 3 for an unavailable
    CPU. `-n` truncates to `unsigned int` and exits 5 on 0. `-?` exits 0 and
    an unknown option exits 7.
  - `Fork` creates the child, or exits 9.
- The parent:
  - `AddService` covers the `AddIntsService` constructor's `bindCPU` (exit
    30) and `addService`, whose failure is only logged.
  - `StartPool` starts the thread pool.
  - `ParentReturn` is the wait loop, which returns 0 once the child is gone.
- `Serve` is `onTransact` on a pool thread.
- The child:
  - `ClientStart` is the client's `bindCPU`.
  - `Attach` is the `getService` poll. It has no step until the service is
    registered, because the code polls forever.
  - `SendAdd`, `CheckReply` and `ClientDone` are the round-trip loop.
    The server process never dies once registered, so `transact` does not
    fail and its `exit(10)` path is not modelled.

**Arithmetic.** `int` and `unsigned int` are `W` bits wide. `ToInt` is the
build's conversion to `int` (wrap). A signed sum outside the `int` range is
recorded in `ub`, because it is undefined behaviour.

**Faults.** `Faults` chooses which of fork, `sched_setaffinity` and
`addService` may fail.

**Bounds.**
- `W = 4` makes `-n` values near the wrap reachable: 16 and 17 wrap, and -1
  becomes 15.
- There are 12 option lists.

**Fairness.** Weak fairness of the parent, the pool and the client: the
kernel schedules runnable processes, and the driver hands a pending
transaction to a waiting pool thread. Deadlock checking is off, because both
processes exit. The client's endless poll is a stuttering loop, and
`addints_hang` exhibits it as a liveness violation.

### TimeUtil (TimeUtil.tla, MCTimeUtil.tla)

**Time differences.** `TsDelta` and `TvDelta` are `tsDelta` and `tvDelta`
on records `[sec, nsec]` and `[sec, usec]`. `TsValue` stands for
`ts2double`, counted exactly in nanoseconds.

**The delay.** The state is the clock `now`, which delay runs (`fn`), the
program counter, and `start` and `current`. The actions are:
- `Begin`, which reads the clock;
- `Check`, which computes `tsDelta` and breaks when the delay exceeds
  `amt`;
- `Sleep`, a `nanosleep` that a signal may cut short at any time;
- `Tick`, time passing.

`NSecsPerSec = 4` and `USecsPerSec = 3` stand for 10^9 and 10^6. The run
starts anywhere in the first second and moves the clock by one to three, so
the readings fall on both sides of `tsDelta`'s borrow. `tvDelta` is not
used by the delay, and it is checked by proof only (`TvDeltaCorrectHolds`).

**Fairness.** The caller's thread runs, and the clock advances.

### XDump (XDump.tla, XDumpAbs.tla, MCTestUtil.tla)

**Actions.**
- `SetIndent` and `SetOffset` are the setters.
- `Call` enters `testXDump`.
- `Byte` is one pass of the `while (num)` loop:
  1. print the previous line at a multiple of sixteen;
  2. `snprintf` the prefix, whose length is what `snprintf` returns:
     indent + max(6, hex digits) + 1;
  3. the assertion, which moves to `"aborted"` when it fails;
  4. `" %02x"`.
- `Finish` prints the last partial line.

The byte values are left out. A printed line is its address, its byte count
and its length. Addresses are `AddrBits = 28` bits wide in the run (64 in
the code), so an offset near 2^24 crosses from six to seven hex digits
within one dump. `Layout(i, o, s)` is the reference layout of a dump of `s`
bytes at indent `i` and offset `o`, and `RefLines` is the layout of the dump
under way.

**Abstract specification.** `XDumpAbs.tla` states what `testXDump` promises
its caller. The state is the indent, the offset, the size, the printed lines
and the pc. The dump prints the next line of its layout (`PrintLine`),
completes the layout and ends (`Complete`), or stops short with a prefix of
the layout printed (`Abort`). `XDump` instantiates it with the identity on
those five variables. The line buffer, the byte position and the assertion
are hidden. `DumpRefines` is `Abs!Spec`. `HexDigits(x)` counts the powers of sixteen from 16 up
to x and adds one. It stops at `16^(ceil(AddrBits/4) - 1)`, so TLC never
forms a power outside its 32-bit integers, and the provers can see that the
result is a natural.

### TestRand (TestRand.tla, checked from MCTestUtil.tla)

**Operators.**
- `TestRand(a, b)` is `a ^ (b << 1)` in a `W`-bit word.
- `Fold` is the two folds of `testRandMod`.
- `RandWord` chooses `lrand48` or `testRand` by `lrand48maxVal`.
- `RandMod` is the whole `testRandMod`.

The `lrand48` results are inputs: any value of `0..2^(W-1) - 1`. The
functions keep no state of their own. The module's one variable, `mod`, is
the argument of the call a test makes: `CallRandMod` (any mod of
`CheckMods`) or `CallRandBool` (mod 2). `RandModCovers` and
`RandModUniform` quantify over every draw that call can consume.
`MCTestUtil` instantiates the module with `W = 4` and interleaves its calls
with the hex dump's steps (`TestSpec`). No code under `src/` calls `testRandMod`, and the mods start at 1.

**Bounds.** `W = 4` keeps every branch: the quarter fold (mod ≤ 2), the half
fold (mod ≤ 4), `lrand48` (mod ≤ 7) and `testRand` (mod 8 to 15). The
checks cover every mod of the word. The module uses `Bitwise`, so it holds
no proofs.

## Runs

| Run | Expect | What it shows |
|---|---|---|
| appops_safety | pass | Runs under `FairSpec`, with no symmetry because it checks temporal properties. `WaitBounded`: no wait outlasts the ceiling by more than one nap. `GetServiceReturns`: every `getService` returns unless `mLock` was leaked. `TokenOnce`: the client implements `SessionToken`, although two first users race through the separate lock, test and fetch steps of `getToken`. One call per thread. |
| appops_leak | violation | `GetServiceAlwaysReturns`: after one give-up, every later `getService` blocks (AppOpsManager.cpp:56). |
| appops_stale | violation | `TokenFromSameService`: after a restart, a token from the dead service is passed to the new one. |
| cli_safety | pass | `CompiledInOrder` (from `ServiceCommandRef`): the parcel equals the grammar's compilation. `ExitStatus`: the exit status is 20, 10 or 0 exactly for no manager, a diagnostic, or neither. |
| cli_fd | violation | `FdOwnedOnce`: `fd /f nfd 4` transfers one descriptor twice; `/f` gets 4 because the binder driver holds 3. |
| cli_intent | violation | `NoUndefinedBehaviour`: `atoi(NULL)`, and `categories[16]` written out of bounds. |
| ipc_safety | pass | `FailClosed`: a dead, throwing or misdirected peer never grants a permission. `StatesMatchRequest`: a state array is returned only at the requested length. |
| addints_safety | pass | Every option list and every fault, under `FairSpec`. `NoUnexpectedResult`: every reply matches the client's expected sum. `ClientCompletes`: a registered service is used to the end, and the parent returns after the client. |
| addints_hang | violation | `BenchmarkTerminates`: a failed `addService` leaves the client polling forever (binderAddInts.cpp:230). |
| timeutil | pass | `DeltaExact`: every `tsDelta` the loop computes is the exact, normalised elapsed time. `DelayAtLeast`: the delay never returns early. `DelayReturns`: it returns. |
| testutil | pass | `PrintsWholeLines` (action property): each print appends one line, addressed at the next unprinted byte, and full unless it is the final flush. `DumpRefines`: `XDump` implements `XDumpAbs`. `RandModCovers`: every value below the mod is reachable. `RandModUniform`: a power-of-two mod is uniform. |
| xdump_fits | violation | `LineFits`: an indent of 145 fails the assertion at testUtil.c:347. |

Some properties are stated in the modules but are not among the runs. Each
has a configuration here that shows its counterexample:
- `NoPartialRequest` (`MCServiceCommand_partial.cfg`): a parse error still
  sends the partial parcel.
- `UnknownFlagIsUsageError` (`MCServiceCommand_flag.cfg`): an unknown flag
  exits 0.
- `AshmemComplete` (`MCServiceCommand_afd.cfg`): a failed region setup is
  still sent.
- `NoValueFromUnderrun` (`MCBinderInterfaces_underrun.cfg`): short replies
  yield empty names or `NO_ERROR`.

In `BinderAddInts`, three more properties are stated without a run:
- `ExitReportsClient`: the parent returns 0 after the client exits 30.
- `NoSignedOverflow`: `-n -1` overflows the `int` sums.
- `IterationsAsRequested`: `-n` is kept modulo 2^W.

Each property of a passing run has a mutant in `PROJECT.json`: a plausible
bug in the mapped code (a dropped guard, a restarted clock, a missing length
check) under which TLC finds the property violated.

## Proofs

### AppOpsManagerProofs.tla

The proofs depend only on `ConstAssumption`:
- `NoThread` is not a thread;
- the operations are among the client's methods;
- the bounds are naturals, with `MaxNap` positive.

- `TypeCorrect` (a lemma): `Spec => []TypeOK`. The proof has one case per
  action.
- `TokenLockInvHolds` (lemma): `Spec => []TokenLockInv`. A thread between
  `TokenLock` and the end of `TokenCreate` holds `gTokenMutex`, and a thread
  about to store found `gToken` null and it is still null. `TokenLock`
  finds the mutex free, so no other thread is inside; `OutsideTokenFrame`
  shows that every other thread step leaves the mutex, `gToken` and the
  critical section alone.
- `TokenAgreementHolds`: `Spec => []TokenAgreement`.
  - `TokenAgreement` is inductive relative to `TypeOK` and `TokenLockInv`.
  - Only `TokenCreate` writes `gToken`, and by `TokenLockInv` only while it
    is null, when no call has passed a non-null token.
  - Only `TokenUse` records a call, and it records the current `gToken`.
- `WaitBoundedHolds`: `Spec => []WaitBounded`. `WaitBounded` alone is not
  inductive: a step of `Wait` could start from any uptime. It is
  strengthened to `ThreadWaitInv` for every thread:
  - `startTime` is 1 or unset;
  - while `startTime` is unset, the uptime is 1;
  - the uptime exceeds the ceiling by at most one nap.

  This holds because the clock moves only in `Wait`, and the give-up is
  taken as soon as the elapsed time reaches the ceiling.
- `TokenOnceHolds`: `Spec => TokenOnce`, the refinement. The proof shows:
  - `Init` maps to `Abs!Init`.
  - Under `TypeOK` and `TokenLockInv`, every step maps to `Create`, `Pass`
    or a stutter. `TokenLockInv` gives that `gToken` is null when
    `TokenCreate` stores; `TypeOK` that the new token `Len(issuer) + 1` is
    not null.
  - `TokenUse` maps to `Pass`. A sub-step shows that the image of the
    recorded calls grows by exactly `gToken`.

### TimeUtilProofs.tla

The proofs assume only `TimeAssumption`: positive units of a second and
natural bounds.
- `TsDeltaExact` and `TvDeltaExact` (lemmas): for normalised times with
  integer seconds, the difference is exact and normalised. Each lemma has
  one case for each branch of the borrow.
- `TsDeltaCorrectHolds` and `TvDeltaCorrectHolds`: both differences are
  exact and normalised on every pair of normalised times, in either order.
- `DelayInvariant` (lemma): `Spec => []DelayInv`, where the inductive
  `DelayInv` says:
  - `now` is natural;
  - `start` is a normalised reading with natural seconds;
  - once the delay has begun, `start` is not after `now`;
  - `DelayAtLeast` itself.

  `DelayAtLeast` alone is not inductive, because a `Check` step needs the
  value of `start` to relate the `tsDelta` to `now`. `ToTsExact` shows that
  a clock reading split into seconds and nanoseconds stands for the same
  value.
- `DelayAtLeastHolds`: `Spec => []DelayAtLeast`, from `DelayInvariant`.
- `DeltaExactHolds`: `Spec => []DeltaExact`. It follows from `DelayInv`
  (the start reading is normalised) with `TsDeltaExact` and `ToTsExact`.

### BinderInterfacesProofs.tla

The proofs assume only `InterfacesAssumption`:
- pids and state values are integers;
- the array bound `MaxLen` is a natural.

They hold for every array
length up to that bound and for every peer the model allows: dead, throwing,
misdirected, or answering with an array that is too long or cut short.
- `ArrayParcel` (lemma): the parcel `<<w>> \o Int32Array(a) \o <<x>>` has:
  - length `Len(a) + 3`;
  - its count at word 2;
  - element `i` at word `2 + i`;
  - `x` last.
- `ReadI32` and `TokensDiffer` (lemmas): reading a word that was written as
  an int gives that int back, and the two interface tokens differ.
- `IInvHolds` (lemma): `Spec => []IInv`. The three properties are not
  inductive on their own. A decoding step needs to know what the request
  held and what the reply holds, so `IInv` also says:
  - the phases are typed, and no stub has handled the call before delivery;
  - from `sent` on, the request is well formed (`RequestOK`): its token,
    its code and, for `getProcessStatesFromPids`, a readable array of
    `args.length` pids;
  - a reply with no exception and a nonzero answer to a permission call
    comes from `PermissionController` granting it (`PermReplyOK`);
  - a reply with no exception, the right count, readable words and a
    trailing `NO_ERROR` carries the states of the requested pids
    (`StatesReplyOK`).

  One lemma per group of actions shows that the group keeps `IInv`:
  `SendIInv`, `TransportIInv`, `PermissionControllerIInv`,
  `ProcessInfoServiceIInv`, `OtherPeersIInv` and `ReadIInv`.
  - `StatesReply` computes the reply of the native stub word by word.
  - `SkewedStatesReply` does the same for a peer whose array has another
    length, or is cut short.
  - `EmptyReply` covers the empty reply of a dead or throwing peer.
- `FailClosedHolds` and `StatesMatchRequestHolds`: each is `Spec => []P`
  and follows from `IInvHolds`. `IInv` also carries `RejectBeforeHandler`,
  the stubs' two guards, which the other conjuncts need.

### BinderAddIntsProofs.tla

The proof assumes only `AddIntsAssumption`. `ModulusPos` derives from it
that `2^W` is an integer of at least 2. The provers know nothing about `^`
beyond this, and the bound comes from `Default` lying in `1..(2^W - 1)`.
- `SumWraps` (lemma): for every `i` in `0..2^W - 1`,
  `ToInt(ToInt(i) + ToInt((i + 3) % 2^W)) = ToInt((i + i + 3) % 2^W)`.
  The server's int addition of the two wrapped operands and the client's
  wrapped expected sum therefore agree, for every width. Z3 proves this
  from the definition of `ToInt`.
- `IInvHolds` (lemma): `Spec => []IInv`. `NoUnexpectedResult` alone is not
  inductive: `CheckReply` must know that the reply in flight is the sum for
  the current `iter`. `IInv` says:
  - `iter` is in range;
  - the client is at `none` while the parent parses options, so `Fork`
    finds no transaction in flight;
  - a request is in flight only while the client awaits, with no reply
    beside it, and it is `SentPair` for the current `iter`;
  - a reply is in flight only while the client awaits, with no request
    beside it, and it is `ServedSum`;
  - `NoUnexpectedResult`;
  - `opts` is a sequence of options and `iterations` fits an
    `unsigned int`, and the client awaits a reply only with
    `iter < iterations`.
- `NoUnexpectedResultHolds`: `Spec => []NoUnexpectedResult`.
### XDumpProofs.tla

The proof assumes only `XDumpAssumption`:
- the line width is a positive natural;
- the address width, `MAXSTR` and the sizes are naturals;
- the indents are bytes.

It holds for every line width, every address width, every indent and
offset, and every size.
- `PrefixNat` (lemma): the prefix `snprintf` writes has a natural length.
- `LinePos`, `LineEnds` and `LineGoesOn` (lemmas): byte `p > 0` comes after
  `(p - 1) \div B` complete lines. A byte at a multiple of `B` starts a
  new line; any other byte extends the current one.
- `RefArith` (lemma): a dump of `p > 0` bytes has `(p - 1) \div B + 1`
  lines, all full but the last.
- `RefLinesAt` (lemma): the reference layout, line by line.
- `XInvHolds` (lemma): `Spec => []XInv`. `XDumpLayout` speaks only of the
  finished dump, so it cannot be inductive. `XInv` says:
  - while the loop runs, `out` holds exactly the full lines before the
    current one;
  - the line being built is the next one, with `Partial` bytes;
  - before the first byte nothing is built;
  - indent and offset stay fixed during the call.

  `ByteXInv` has one case for each branch of the loop: the assertion fails,
  the first byte, a byte that ends a full line, and any other byte.
  `FinishXInv` shows that the flush turns this into `RefLines`.
- `XDumpLayoutHolds`: `Spec => []XDumpLayout`, a completed dump printed
  exactly `RefLines`. It is not among the runs, because `DumpRefines`
  says the same and more.
- `PrintsWholeLinesHolds`: `Spec => PrintsWholeLines`.
  - `PrintingStep` (lemma): only a line end of the loop or the flush prints,
    and only after a byte has been dumped.
  - `PrintStep` (lemma): such a step appends the line being built. By
    `XInv`, that line is line `Full + 1`, where `Full = Len(out)`. It has
    `BytesPerLine` bytes at a line end, by `LineEnds`.
- `DumpRefinesHolds`: `Spec => DumpRefines`, proved step by step.
  - `Init` maps to `Abs!Init`.
  - The setters and `Call` map to their abstract actions.
  - `LineIsNext` (lemma): at a line end, the buffer is
    `RefLines[Len(out) + 1]` and the layout has that line, because
    `(Full + 1) * B = pos < size`. So `ByteRefines` maps a printing pass to
    `PrintLine`, a silent pass to a stutter, and a failed assertion to
    `Abort`.
  - `FinishRefines` maps the flush to `Complete`, through `FinishXInv`.

### ServiceCommandProofs.tla

No assumption is needed.
- `EInvHolds` (lemma): `Spec => []EInv`. `ExitStatus` is not inductive: it
  speaks only of the finished run. `EInv` says:
  - `result` is 10 exactly when `err` is set, because every error path sets
    both (`Fail`, and the "does not exist" path of `call`);
  - nothing is printed before the service-manager lookup;
  - a NULL manager means `pc = "done"`, exit 20 and no diagnostic;
  - otherwise a finished run returns `result`.

  TLC checked `EInv` on the argument vectors of `cli_safety` before it was
  proved. The proof has one case per action. The error paths go through
  `FailEInv`.
- `ExitStatusHolds`: `Spec => []ExitStatus`.

**Only model-checked.**
- Liveness (`GetServiceReturns`), because TLAPS does not reason about
  fairness or ENABLED.
- `CompiledInOrder`, which needs the RECURSIVE `RefCompile`.
- `ClientCompletes` of `BinderAddInts`, which is liveness.
- `DelayReturns`, which is liveness.
- The `TestRand` properties, because the module uses the RECURSIVE `Bitwise`
  operators.

## Not modelled

- The kernel driver, `IPCThreadState` and the service manager. Only what
  the client sees of them is modelled: a lookup that finds a registered
  handle, death, unregistration and `DEAD_OBJECT`.
- The text printed by `list` (`good_old_string`) and the usage message.
  They are output only.
- `fstat` failing on a descriptor that was just opened.
- The `getopt` permutation of non-option words. The model scans up to the
  first non-flag word.
- In binderAddInts:
  - the `-d` option (the delay loop is `TimeUtil`);
  - the syntax errors of `strtoul`/`strtod` (exits 2, 4, 6);
  - the timing statistics;
  - the server's exits 20/21 and the client's exit 10, which cannot be
    reached while the server lives.
- In testUtil:
  - the floating-point conversions (`double2ts` and `double2tv`);
  - `testPrint` and the log tag;
  - `testRandFract`;
  - `testExecCmd`, which forks and execs a shell command.

## Plan for later sittings

1. Model the `getopt` argument permutation, and `good_old_string` with its
   uninitialised first byte.
2. Compose binderAddInts with TimeUtil's `testDelaySpin` between round
   trips.
