-------------------------- MODULE BinderInterfaces --------------------------
(***************************************************************************)
(* One remote call through the hand-written proxies and stubs of           *)
(* IPermissionController and IProcessInfoService                           *)
(* (src/libs/binder/IPermissionController.cpp, IProcessInfoService.cpp):   *)
(* the proxy writes the request parcel, the transport delivers it to the   *)
(* object behind the handle or fails, that object's onTransact writes the  *)
(* reply, and the proxy decodes it.  The object behind the handle may be   *)
(* either native stub of these files (a misdirected handle reaches the     *)
(* other one), a service that answers with an exception, or a peer of      *)
(* another interface version whose arrays have other lengths or whose      *)
(* reply stops early.                                                      *)
(*                                                                         *)
(* Parcel is not part of this source tree: a parcel is a sequence of typed *)
(* words, and the reads are modelled from spec.md 4.1 and from what the    *)
(* proxies rely on: a value read past the end yields 0 (an empty string    *)
(* for readString16), and readExceptionCode past the end yields 0 or       *)
(* EX_TRANSACTION_FAILED depending on the Parcel version.                  *)
(***************************************************************************)
EXTENDS Integers, Sequences

CONSTANTS
    Perms,      \* permission names
    Pkgs,       \* package names
    Msgs,       \* exception messages
    Pids,       \* pid values
    StateVals,  \* process states a service may report
    MaxLen      \* the largest pid array a caller passes

ASSUME InterfacesAssumption ==
    /\ Perms \subseteq STRING /\ Pkgs \subseteq STRING /\ Msgs \subseteq STRING
    /\ Pids \subseteq Int /\ StateVals \subseteq Int
    /\ MaxLen \in Nat

\* Status codes (utils/Errors.h) and exception codes (binder/Status.h).
NO_ERROR == 0
PERMISSION_DENIED == -1
DEAD_OBJECT == -32
NOT_ENOUGH_DATA == -61
UNKNOWN_TRANSACTION == -74
EX_SECURITY == -1
EX_TRANSACTION_FAILED == -129

\* Interface descriptors and transaction codes (FIRST_CALL_TRANSACTION = 1).
PermDesc == "android.os.IPermissionController"
ProcDesc == "android.os.IProcessInfoService"
CHECK_PERMISSION_TRANSACTION == 1
GET_PACKAGES_FOR_UID_TRANSACTION == 2
IS_RUNTIME_PERMISSION_TRANSACTION == 3
GET_PROCESS_STATES_FROM_PIDS == 1

-----------------------------------------------------------------------------
(* The parcel: words, and the reads the proxies and stubs use.             *)

I32(n) == [k |-> "i32", v |-> n]
Str(s) == [k |-> "str", v |-> s]
Token(d) == [k |-> "token", v |-> d]
Int32Array(a) == <<I32(Len(a))>> \o [i \in DOMAIN a |-> I32(a[i])]

\* readInt32 at word i: past the end 0; on a string, its length prefix.
ReadInt32(p, i) == IF i > Len(p) THEN 0
                   ELSE IF p[i].k = "str" THEN Len(p[i].v) ELSE p[i].v
\* readString16 at word i: the string, or String16() when there is none.
ReadString16(p, i) == IF i <= Len(p) /\ p[i].k = "str" THEN p[i].v ELSE ""
\* The values readExceptionCode may return for the reply p.
ExceptionCodes(p) == IF Len(p) = 0 THEN {0, EX_TRANSACTION_FAILED}
                     ELSE {ReadInt32(p, 1)}
\* read(buf, n * 4) from word i: all n words are there.
CanRead(p, i, n) == i + n - 1 <= Len(p)

-----------------------------------------------------------------------------
VARIABLES
    phase,     \* "idle", "sent", "delivered", "replied", "done"
    method,    \* the proxy method called
    args,      \* its arguments
    code,      \* the transaction code sent
    data,      \* the request parcel
    peer,      \* the object behind the handle
    reply,     \* the reply parcel
    status,    \* what transact returned
    handled,   \* the object's service logic ran on this request
    verdict,   \* what that logic (or the peer) answered
    out        \* what the proxy method returned

vars == <<phase, method, args, code, data, peer, reply, status, handled, verdict, out>>

Methods == {"checkPermission", "getPackagesForUid", "isRuntimePermission",
            "getProcessStatesFromPids"}
Peers == {"PermissionController", "ProcessInfoService", "Throwing", "Skewed"}
ArrayMethods == {"getPackagesForUid", "getProcessStatesFromPids"}
NoVerdict == [none |-> TRUE]

Init ==
    /\ phase = "idle"
    /\ method = "none" /\ args = NoVerdict /\ code = 0 /\ data = <<>>
    /\ peer = "none" /\ reply = <<>> /\ status = NO_ERROR
    /\ handled = FALSE /\ verdict = NoVerdict /\ out = NoVerdict

Send(m, a, c, d) ==
    /\ phase = "idle"
    /\ phase' = "sent"
    /\ method' = m /\ args' = a /\ code' = c /\ data' = d
    /\ UNCHANGED <<peer, reply, status, handled, verdict, out>>

\* BpPermissionController::checkPermission, up to remote()->transact.
SendCheckPermission ==
    \E p \in Perms, pid \in Pids, uid \in Pids :
        Send("checkPermission", [perm |-> p], CHECK_PERMISSION_TRANSACTION,
             <<Token(PermDesc), Str(p), I32(pid), I32(uid)>>)

\* BpPermissionController::getPackagesForUid, up to remote()->transact.
SendGetPackagesForUid ==
    \E uid \in Pids :
        Send("getPackagesForUid", [uid |-> uid], GET_PACKAGES_FOR_UID_TRANSACTION,
             <<Token(PermDesc), I32(uid)>>)

\* BpPermissionController::isRuntimePermission, up to remote()->transact.
SendIsRuntimePermission ==
    \E p \in Perms :
        Send("isRuntimePermission", [perm |-> p], IS_RUNTIME_PERMISSION_TRANSACTION,
             <<Token(PermDesc), Str(p)>>)

\* BpProcessInfoService::getProcessStatesFromPids, up to remote()->transact:
\* the pid array, then its length again for the Java stubs.
SendGetProcessStates ==
    \E n \in 0..MaxLen : \E pids \in [1..n -> Pids] :
        Send("getProcessStatesFromPids", [length |-> n, pids |-> pids],
             GET_PROCESS_STATES_FROM_PIDS,
             <<Token(ProcDesc)>> \o Int32Array(pids) \o <<I32(n)>>)

\* The transport: the handle's process is gone, or the call is delivered
\* (to a peer of another version only for the calls with an array reply).
TransactDead ==
    /\ phase = "sent"
    /\ phase' = "replied" /\ status' = DEAD_OBJECT /\ reply' = <<>>
    /\ UNCHANGED <<method, args, code, data, peer, handled, verdict, out>>

Deliver ==
    /\ phase = "sent"
    /\ \E p \in Peers : /\ p = "Skewed" => method \in ArrayMethods
                        /\ peer' = p
    /\ phase' = "delivered"
    /\ UNCHANGED <<method, args, code, data, reply, status, handled, verdict, out>>

\* The object behind the handle writes its reply and onTransact returns.
Served(r, st, h, v) ==
    /\ phase' = "replied"
    /\ reply' = r /\ status' = st /\ handled' = h /\ verdict' = v
    /\ UNCHANGED <<method, args, code, data, peer, out>>

\* CHECK_INTERFACE: the first word of the request is this interface's token.
TokenOk(d) == Len(data) >= 1 /\ data[1] = Token(d)

PkgLists == UNION {[1..n -> Pkgs] : n \in 0..MaxLen}

\* BnPermissionController::onTransact.  Every code the proxies send is one
\* of its three cases; a request whose token is not its descriptor is
\* refused with PERMISSION_DENIED before the case reads anything.
PermissionControllerStub ==
    /\ phase = "delivered" /\ peer = "PermissionController"
    /\ \/ /\ ~TokenOk(PermDesc)
          /\ Served(<<>>, PERMISSION_DENIED, FALSE, NoVerdict)
       \/ /\ TokenOk(PermDesc)
          /\ code \in {CHECK_PERMISSION_TRANSACTION, IS_RUNTIME_PERMISSION_TRANSACTION}
          /\ \E res \in BOOLEAN :
               Served(<<I32(0), I32(IF res THEN 1 ELSE 0)>>, NO_ERROR, TRUE,
                      [granted |-> res])
       \/ /\ TokenOk(PermDesc)
          /\ code = GET_PACKAGES_FOR_UID_TRANSACTION
          /\ \E pk \in PkgLists :
               Served(<<I32(0), I32(Len(pk))>> \o [i \in DOMAIN pk |-> Str(pk[i])],
                      NO_ERROR, TRUE, [pkgs |-> pk])

\* Mutant: onTransact without CHECK_INTERFACE.
ProcessInfoServiceStubUnchecked ==
    /\ phase = "delivered" /\ peer = "ProcessInfoService"
    /\ \/ /\ code = GET_PROCESS_STATES_FROM_PIDS
          /\ ReadInt32(data, 2) <= 0
          /\ Served(<<I32(0), I32(0), I32(NOT_ENOUGH_DATA)>>, NO_ERROR, FALSE, NoVerdict)
       \/ /\ code = GET_PROCESS_STATES_FROM_PIDS
          /\ ReadInt32(data, 2) > 0
          /\ LET len == ReadInt32(data, 2) IN
             IF CanRead(data, 3, len)
             THEN \E st \in [1..len -> StateVals], res \in {NO_ERROR, PERMISSION_DENIED} :
                    Served(<<I32(0)>> \o Int32Array(st) \o <<I32(res)>>, NO_ERROR, TRUE,
                           [states |-> st, res |-> res])
             ELSE Served(<<I32(0)>> \o Int32Array([i \in 1..len |-> -1])
                           \o <<I32(NOT_ENOUGH_DATA)>>, NO_ERROR, FALSE, NoVerdict)
       \/ /\ code # GET_PROCESS_STATES_FROM_PIDS
          /\ Served(<<>>, UNKNOWN_TRANSACTION, FALSE, NoVerdict)

\* BnProcessInfoService::onTransact.  A count of zero or less is answered
\* with an empty array and NOT_ENOUGH_DATA without calling the service; a
\* pid array shorter than its count leaves every state -1 and the status
\* of the failed read; other codes go to BBinder::onTransact.
ProcessInfoServiceStub ==
    /\ phase = "delivered" /\ peer = "ProcessInfoService"
    /\ \/ /\ code = GET_PROCESS_STATES_FROM_PIDS /\ ~TokenOk(ProcDesc)
          /\ Served(<<>>, PERMISSION_DENIED, FALSE, NoVerdict)
       \/ /\ code = GET_PROCESS_STATES_FROM_PIDS /\ TokenOk(ProcDesc)
          /\ ReadInt32(data, 2) <= 0
          /\ Served(<<I32(0), I32(0), I32(NOT_ENOUGH_DATA)>>, NO_ERROR, FALSE, NoVerdict)
       \/ /\ code = GET_PROCESS_STATES_FROM_PIDS /\ TokenOk(ProcDesc)
          /\ ReadInt32(data, 2) > 0
          /\ LET len == ReadInt32(data, 2) IN
             IF CanRead(data, 3, len)
             THEN \E st \in [1..len -> StateVals], res \in {NO_ERROR, PERMISSION_DENIED} :
                    Served(<<I32(0)>> \o Int32Array(st) \o <<I32(res)>>, NO_ERROR, TRUE,
                           [states |-> st, res |-> res])
             ELSE Served(<<I32(0)>> \o Int32Array([i \in 1..len |-> -1])
                           \o <<I32(NOT_ENOUGH_DATA)>>, NO_ERROR, FALSE, NoVerdict)
       \/ /\ code # GET_PROCESS_STATES_FROM_PIDS
          /\ Served(<<>>, UNKNOWN_TRANSACTION, FALSE, NoVerdict)

\* A service implementation that refuses the call with an exception.
ThrowingPeer ==
    /\ phase = "delivered" /\ peer = "Throwing"
    /\ \E msg \in Msgs :
         Served(<<I32(EX_SECURITY), Str(msg)>>, NO_ERROR, FALSE,
                [exception |-> EX_SECURITY])

\* A peer of another interface version for the array-returning calls: its
\* array may be longer or shorter than the request's, its package count
\* may exceed the names it sends, and its reply may stop before the last
\* field.
SkewedPeer ==
    /\ phase = "delivered" /\ peer = "Skewed"
    /\ \/ /\ method = "getProcessStatesFromPids"
          /\ \E n \in 0..(MaxLen + 1), cut \in BOOLEAN :
             \E st \in [1..n -> StateVals], res \in {NO_ERROR, PERMISSION_DENIED} :
               LET full == <<I32(0)>> \o Int32Array(st) \o <<I32(res)>> IN
               Served(IF cut THEN SubSeq(full, 1, Len(full) - 1) ELSE full,
                      NO_ERROR, FALSE, [states |-> st, res |-> res])
       \/ /\ method = "getPackagesForUid"
          /\ \E pk \in PkgLists, extra \in 0..1 :
               Served(<<I32(0), I32(Len(pk) + extra)>> \o [i \in DOMAIN pk |-> Str(pk[i])],
                      NO_ERROR, FALSE, [pkgs |-> pk])

-----------------------------------------------------------------------------
(* The proxies decode the reply.                                           *)

Return(o) == /\ phase' = "done" /\ out' = o
             /\ UNCHANGED <<method, args, code, data, peer, reply, status, handled, verdict>>

\* Mutant: the exception header is not tested.
ReadPermissionAnswerNoException ==
    /\ phase = "replied"
    /\ method \in {"checkPermission", "isRuntimePermission"}
    /\ \E ex \in ExceptionCodes(reply) :
         Return([value |-> ReadInt32(reply, 2) # 0])

\* checkPermission / isRuntimePermission: the transact status is ignored;
\* an exception reads as "not granted", otherwise readInt32() != 0.
ReadPermissionAnswer ==
    /\ phase = "replied"
    /\ method \in {"checkPermission", "isRuntimePermission"}
    /\ \E ex \in ExceptionCodes(reply) :
         Return([value |-> IF ex # 0 THEN FALSE ELSE ReadInt32(reply, 2) # 0])

\* getPackagesForUid: the transact status is ignored; an exception or a
\* count <= 0 leaves packages empty; otherwise count names are pushed.
ReadPackages ==
    /\ phase = "replied"
    /\ method = "getPackagesForUid"
    /\ \E ex \in ExceptionCodes(reply) :
         LET size == ReadInt32(reply, 2) IN
         Return([pkgs |-> IF ex # 0 \/ size <= 0 THEN <<>>
                          ELSE [i \in 1..size |-> ReadString16(reply, 2 + i)]])

\* Mutant: the reply array's length is not compared with the request's.
ReadProcessStatesNoLength ==
    /\ phase = "replied"
    /\ method = "getProcessStatesFromPids"
    /\ \E ex \in ExceptionCodes(reply) :
         LET n == args.length IN
         Return(
              CASE status # NO_ERROR -> [ret |-> status, states |-> <<>>]
                [] ex # 0            -> [ret |-> ex, states |-> <<>>]
                [] n > 0 /\ ~CanRead(reply, 3, n)
                                     -> [ret |-> NOT_ENOUGH_DATA, states |-> <<>>]
                [] OTHER -> [ret |-> ReadInt32(reply, 3 + n),
                             states |-> [i \in 1..n |-> ReadInt32(reply, 2 + i)]])

\* getProcessStatesFromPids: a failed transact or an exception is returned;
\* a reply array whose length is not the request's is NOT_ENOUGH_DATA;
\* otherwise the states are read and the trailing status returned.
ReadProcessStates ==
    /\ phase = "replied"
    /\ method = "getProcessStatesFromPids"
    /\ \E ex \in ExceptionCodes(reply) :
         LET n == args.length
             replyLen == ReadInt32(reply, 2)
         IN Return(
              CASE status # NO_ERROR -> [ret |-> status, states |-> <<>>]
                [] ex # 0            -> [ret |-> ex, states |-> <<>>]
                [] replyLen # n      -> [ret |-> NOT_ENOUGH_DATA, states |-> <<>>]
                [] replyLen > 0 /\ ~CanRead(reply, 3, n)
                                     -> [ret |-> NOT_ENOUGH_DATA, states |-> <<>>]
                [] OTHER -> [ret |-> ReadInt32(reply, 3 + n),
                             states |-> [i \in 1..n |-> ReadInt32(reply, 2 + i)]])

\* The call has returned.
Returned == phase = "done" /\ UNCHANGED vars

Next ==
    \/ SendCheckPermission \/ SendGetPackagesForUid \/ SendIsRuntimePermission
    \/ SendGetProcessStates \/ TransactDead \/ Deliver
    \/ PermissionControllerStub \/ ProcessInfoServiceStub \/ ThrowingPeer \/ SkewedPeer
    \/ ReadPermissionAnswer \/ ReadPackages \/ ReadProcessStates \/ Returned

Spec == Init /\ [][Next]_vars

-----------------------------------------------------------------------------
(* Types and properties.                                                   *)

Word == [k : {"i32"}, v : Int] \cup [k : {"str", "token"}, v : STRING]
Out == {NoVerdict} \cup [value : BOOLEAN] \cup [pkgs : Seq(STRING)]
       \cup [ret : Int, states : Seq(Int)]

TypeOK ==
    /\ phase \in {"idle", "sent", "delivered", "replied", "done"}
    /\ method \in Methods \cup {"none"}
    /\ data \in Seq(Word) /\ reply \in Seq(Word)
    /\ peer \in Peers \cup {"none"}
    /\ status \in {NO_ERROR, PERMISSION_DENIED, DEAD_OBJECT, UNKNOWN_TRANSACTION}
    /\ handled \in BOOLEAN
    /\ out \in Out

\* spec.md 4.2: checkPermission and isRuntimePermission fail closed.  They
\* answer "granted" only when a permission controller's own logic granted
\* this very request -- never for a dead handle, a refused or misdirected
\* token, an unknown code, or a reply that carries an exception, although
\* both proxies ignore the transact status.
FailClosed ==
    phase = "done" /\ method \in {"checkPermission", "isRuntimePermission"}
    /\ out.value
    => handled /\ peer = "PermissionController" /\ verdict.granted

\* spec.md 4.5: getProcessStatesFromPids returns NO_ERROR only with the
\* states the service computed for exactly this request: one per pid sent,
\* never an array of another length taken from the wire.
StatesMatchRequest ==
    phase = "done" /\ method = "getProcessStatesFromPids" /\ out.ret = NO_ERROR
    => /\ "states" \in DOMAIN verdict
       /\ Len(verdict.states) = args.length
       /\ out.states = verdict.states

\* spec.md 4.2 and 4.5: a stub runs its service logic only for a request
\* that carries its own interface token and, for the pid array, a positive
\* count.  It restates the stubs' two guards and serves as a conjunct of
\* the inductive invariant of BinderInterfacesProofs.
RejectBeforeHandler ==
    handled =>
        \/ peer = "PermissionController" /\ data[1] = Token(PermDesc)
        \/ peer = "ProcessInfoService" /\ data[1] = Token(ProcDesc)
           /\ ReadInt32(data, 2) > 0

\* spec.md 4.1: a read past the end of a buffer is a distinct underrun
\* failure, never a value: a proxy returns no package name and no status
\* it did not find in the reply.
NoValueFromUnderrun ==
    phase = "done" =>
        /\ method = "getPackagesForUid" =>
             \A i \in DOMAIN out.pkgs : 2 + i <= Len(reply) /\ reply[2 + i] = Str(out.pkgs[i])
        /\ method = "getProcessStatesFromPids" /\ out.ret = NO_ERROR =>
             3 + args.length <= Len(reply)

=============================================================================
