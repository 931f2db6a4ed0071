----------------------- MODULE BinderInterfacesProofs -----------------------
(***************************************************************************)
(* Proofs, for every set of names, pids and states and every array bound,  *)
(* that the proxies and stubs of IPermissionController and                 *)
(* IProcessInfoService fail closed, return states only for the request    *)
(* that was sent, and run a stub's service logic only on its own          *)
(* well-formed requests.                                                   *)
(*                                                                         *)
(* None of the three is inductive: each speaks of the call once it has    *)
(* returned, and what it returned depends on the reply, which depends on  *)
(* the request and on the object behind the handle.  The inductive        *)
(* invariant IInv records what is known of each at every phase.           *)
(***************************************************************************)
EXTENDS BinderInterfaces, SequenceTheorems, TLAPS

USE InterfacesAssumption

-----------------------------------------------------------------------------
(* The parcels.                                                            *)

\* The words an array parcel is made of: int32 words and the two tokens.
ArrayWords == {I32(v) : v \in Int} \cup {Token(PermDesc), Token(ProcDesc)}

\* An int32 array framed by one word before and one after, as the pid
\* request and the states reply are laid out: the count at word 2, the
\* elements behind it, and the last word after them.
LEMMA ArrayParcel ==
    ASSUME NEW a \in Seq(Int), NEW w \in ArrayWords, NEW x \in ArrayWords
    PROVE  LET R == <<w>> \o Int32Array(a) \o <<x>>
           IN  /\ R \in Seq(ArrayWords)
               /\ Len(R) = Len(a) + 3
               /\ R[1] = w
               /\ R[2] = I32(Len(a))
               /\ \A i \in 1..Len(a) : R[2 + i] = I32(a[i])
               /\ R[Len(a) + 3] = x
<1> DEFINE A == Int32Array(a)
<1>1. [i \in DOMAIN a |-> I32(a[i])] \in Seq(ArrayWords)
      /\ Len([i \in DOMAIN a |-> I32(a[i])]) = Len(a)
  BY DEF ArrayWords
<1>2. /\ A \in Seq(ArrayWords)
      /\ Len(A) = Len(a) + 1
      /\ A[1] = I32(Len(a))
      /\ \A i \in 1..Len(a) : A[1 + i] = I32(a[i])
  <2>1. <<I32(Len(a))>> \in Seq(ArrayWords)
    BY DEF ArrayWords
  <2> QED
    BY <1>1, <2>1, ConcatProperties DEF Int32Array
<1>3. <<w>> \o A \in Seq(ArrayWords) /\ Len(<<w>> \o A) = Len(a) + 2
      /\ (<<w>> \o A)[1] = w
      /\ \A i \in 1..Len(a) + 1 : (<<w>> \o A)[1 + i] = A[i]
  BY <1>2, ConcatProperties
<1> QED
  BY <1>2, <1>3, ConcatProperties

\* readInt32 of an int32 word that is there returns its value.
LEMMA ReadI32 ==
    ASSUME NEW p, NEW i \in Int, NEW v, i >= 1, i <= Len(p), p[i] = I32(v)
    PROVE  ReadInt32(p, i) = v
  BY DEF ReadInt32, I32

\* The interfaces' tokens differ: a request to one never passes the
\* other's CHECK_INTERFACE.
LEMMA TokensDiffer == Token(PermDesc) # Token(ProcDesc)
  BY DEF Token, PermDesc, ProcDesc

-----------------------------------------------------------------------------
(* The inductive invariant.                                                *)

PermMethods == {"checkPermission", "isRuntimePermission"}

\* The request a proxy sent: the transaction code of its method, its
\* interface token first, and for the pid array the count in word 2 with
\* every pid behind it.
RequestOK ==
    /\ method \in Methods
    /\ Len(data) >= 1
    /\ method \in PermMethods \cup {"getPackagesForUid"} =>
         data[1] = Token(PermDesc)
    /\ method = "checkPermission" => code = CHECK_PERMISSION_TRANSACTION
    /\ method = "isRuntimePermission" => code = IS_RUNTIME_PERMISSION_TRANSACTION
    /\ method = "getPackagesForUid" => code = GET_PACKAGES_FOR_UID_TRANSACTION
    /\ method = "getProcessStatesFromPids" =>
         /\ code = GET_PROCESS_STATES_FROM_PIDS
         /\ data[1] = Token(ProcDesc)
         /\ args.length \in 0..MaxLen
         /\ ReadInt32(data, 2) = args.length
         /\ CanRead(data, 3, args.length)

\* A permission reply that reads as "granted" -- no exception and a
\* non-zero answer -- was written by a permission controller that granted.
PermReplyOK ==
    0 \in ExceptionCodes(reply) /\ ReadInt32(reply, 2) # 0
    => handled /\ peer = "PermissionController" /\ verdict.granted

\* A states reply that getProcessStatesFromPids would return as NO_ERROR
\* carries, word for word, the states its writer computed for this many
\* pids.
StatesReplyOK ==
    LET n == args.length IN
    /\ status = NO_ERROR
    /\ 0 \in ExceptionCodes(reply)
    /\ ReadInt32(reply, 2) = n
    /\ n > 0 => CanRead(reply, 3, n)
    /\ ReadInt32(reply, 3 + n) = NO_ERROR
    => /\ "states" \in DOMAIN verdict
       /\ verdict.states \in Seq(Int)
       /\ Len(verdict.states) = n
       /\ \A i \in 1..n : ReadInt32(reply, 2 + i) = verdict.states[i]

\* The inductive invariant.
IInv ==
    /\ phase \in {"idle", "sent", "delivered", "replied", "done"}
    /\ handled \in BOOLEAN
    /\ phase \in {"idle", "sent", "delivered"} => ~handled
    /\ phase # "idle" => RequestOK
    /\ phase \in {"replied", "done"} /\ method \in PermMethods => PermReplyOK
    /\ phase \in {"replied", "done"} /\ method = "getProcessStatesFromPids"
         => StatesReplyOK
    /\ RejectBeforeHandler
    /\ FailClosed
    /\ StatesMatchRequest

\* No call has been made.
LEMMA InitIInv == Init => IInv
  BY DEF Init, IInv, RejectBeforeHandler, FailClosed, StatesMatchRequest

\* A proxy sends a well-formed request: nothing has been handled yet and
\* nothing has returned, so the request is all there is to check.
LEMMA SendStep ==
    ASSUME IInv, NEW m, NEW a, NEW c, NEW d, Send(m, a, c, d), RequestOK'
    PROVE  IInv'
  BY DEF IInv, Send, RejectBeforeHandler, FailClosed, StatesMatchRequest

LEMMA SendIInv ==
    ASSUME IInv,
           SendCheckPermission \/ SendGetPackagesForUid
           \/ SendIsRuntimePermission \/ SendGetProcessStates
    PROVE  IInv'
<1>1. CASE SendCheckPermission
  <2>1. PICK p \in Perms, pid \in Pids, uid \in Pids :
          Send("checkPermission", [perm |-> p], CHECK_PERMISSION_TRANSACTION,
               <<Token(PermDesc), Str(p), I32(pid), I32(uid)>>)
    BY <1>1 DEF SendCheckPermission
  <2>2. RequestOK'
    BY <2>1 DEF Send, RequestOK, Methods, PermMethods
  <2> QED
    BY <2>1, <2>2, SendStep
<1>2. CASE SendGetPackagesForUid
  <2>1. PICK uid \in Pids :
          Send("getPackagesForUid", [uid |-> uid], GET_PACKAGES_FOR_UID_TRANSACTION,
               <<Token(PermDesc), I32(uid)>>)
    BY <1>2 DEF SendGetPackagesForUid
  <2>2. RequestOK'
    BY <2>1 DEF Send, RequestOK, Methods, PermMethods
  <2> QED
    BY <2>1, <2>2, SendStep
<1>3. CASE SendIsRuntimePermission
  <2>1. PICK p \in Perms :
          Send("isRuntimePermission", [perm |-> p], IS_RUNTIME_PERMISSION_TRANSACTION,
               <<Token(PermDesc), Str(p)>>)
    BY <1>3 DEF SendIsRuntimePermission
  <2>2. RequestOK'
    BY <2>1 DEF Send, RequestOK, Methods, PermMethods
  <2> QED
    BY <2>1, <2>2, SendStep
<1>4. CASE SendGetProcessStates
  <2>0. PICK n \in 0..MaxLen : \E pids \in [1..n -> Pids] :
          Send("getProcessStatesFromPids", [length |-> n, pids |-> pids],
               GET_PROCESS_STATES_FROM_PIDS,
               <<Token(ProcDesc)>> \o Int32Array(pids) \o <<I32(n)>>)
    BY <1>4 DEF SendGetProcessStates
  <2>1. PICK pids \in [1..n -> Pids] :
          Send("getProcessStatesFromPids", [length |-> n, pids |-> pids],
               GET_PROCESS_STATES_FROM_PIDS,
               <<Token(ProcDesc)>> \o Int32Array(pids) \o <<I32(n)>>)
    BY <2>0
  <2> DEFINE R == <<Token(ProcDesc)>> \o Int32Array(pids) \o <<I32(n)>>
  <2>2. pids \in Seq(Int) /\ Len(pids) = n
    <3>1. pids \in [1..n -> Int]
      OBVIOUS
    <3> QED
      BY <3>1
  <2>3. Token(ProcDesc) \in ArrayWords /\ I32(n) \in ArrayWords
    BY DEF ArrayWords
  <2>4. /\ Len(R) = n + 3
        /\ R[1] = Token(ProcDesc) /\ R[2] = I32(n)
    BY <2>2, <2>3, ArrayParcel
  <2>5. ReadInt32(R, 2) = n
    BY <2>4 DEF ReadInt32, I32
  <2>6. RequestOK'
    BY <2>1, <2>4, <2>5 DEF Send, RequestOK, Methods, PermMethods, CanRead
  <2> QED
    BY <2>1, <2>6, SendStep
<1> QED
  BY <1>1, <1>2, <1>3, <1>4


\* The request is not touched once it is sent.
LEMMA RequestKept ==
    ASSUME RequestOK, UNCHANGED <<method, args, code, data>>
    PROVE  RequestOK'
  BY DEF RequestOK

\* An empty reply with a failed status reads as neither granted nor states,
\* whoever wrote it; it touches nothing the service decided.
LEMMA EmptyReply ==
    ASSUME IInv, phase # "idle", phase' = "replied", reply' = <<>>,
           status' # NO_ERROR, handled' = FALSE,
           UNCHANGED <<method, args, code, data>>
    PROVE  IInv'
<1>1. RequestOK'
  BY RequestKept DEF IInv
<1>2. ReadInt32(reply', 2) = 0
  BY DEF ReadInt32
<1> QED
  BY <1>1, <1>2 DEF IInv, PermReplyOK, StatesReplyOK,
                    RejectBeforeHandler, FailClosed, StatesMatchRequest

\* The binder driver fails the call or delivers it.
LEMMA TransportIInv ==
    ASSUME IInv, TransactDead \/ Deliver
    PROVE  IInv'
<1>1. CASE TransactDead
  <2>1. phase = "sent" /\ handled = FALSE
    BY <1>1 DEF IInv, TransactDead
  <2>2. /\ phase' = "replied" /\ reply' = <<>> /\ status' # NO_ERROR
        /\ handled' = FALSE /\ UNCHANGED <<method, args, code, data>>
    BY <1>1, <2>1 DEF TransactDead, DEAD_OBJECT, NO_ERROR
  <2> QED
    BY <2>1, <2>2, EmptyReply
<1>2. CASE Deliver
  <2>1. RequestOK'
    BY <1>2, RequestKept DEF IInv, Deliver
  <2> QED
    BY <1>2, <2>1 DEF IInv, Deliver, RejectBeforeHandler, FailClosed,
                      StatesMatchRequest
<1> QED
  BY <1>1, <1>2

\* BnPermissionController::onTransact.
LEMMA PermissionControllerIInv ==
    ASSUME IInv, PermissionControllerStub
    PROVE  IInv'
<1> USE DEF CHECK_PERMISSION_TRANSACTION, GET_PACKAGES_FOR_UID_TRANSACTION,
            IS_RUNTIME_PERMISSION_TRANSACTION, GET_PROCESS_STATES_FROM_PIDS
<1>0. /\ phase = "delivered" /\ peer = "PermissionController"
      /\ RequestOK /\ ~handled
  BY DEF PermissionControllerStub, IInv
<1>1. CASE ~TokenOk(PermDesc) /\ Served(<<>>, PERMISSION_DENIED, FALSE, NoVerdict)
  <2>1. /\ phase' = "replied" /\ reply' = <<>> /\ status' # NO_ERROR
        /\ handled' = FALSE /\ UNCHANGED <<method, args, code, data>>
    BY <1>1 DEF Served, PERMISSION_DENIED, NO_ERROR
  <2> QED
    BY <1>0, <2>1, EmptyReply
<1>2. CASE /\ TokenOk(PermDesc)
           /\ code \in {CHECK_PERMISSION_TRANSACTION, IS_RUNTIME_PERMISSION_TRANSACTION}
           /\ \E res \in BOOLEAN :
                Served(<<I32(0), I32(IF res THEN 1 ELSE 0)>>, NO_ERROR, TRUE,
                       [granted |-> res])
  <2>1. PICK res \in BOOLEAN :
          Served(<<I32(0), I32(IF res THEN 1 ELSE 0)>>, NO_ERROR, TRUE,
                 [granted |-> res])
    BY <1>2
  <2>2. method \in PermMethods
    BY <1>0, <1>2, TokensDiffer DEF RequestOK, TokenOk, PermMethods, Methods
  <2>3. RequestOK'
    BY <1>0, <2>1, RequestKept DEF Served
  <2>4. ExceptionCodes(reply') = {0}
    BY <2>1 DEF Served, ExceptionCodes, ReadInt32, I32
  <2>5. ReadInt32(reply', 2) # 0 => res
    BY <2>1 DEF Served, ReadInt32, I32
  <2>6. PermReplyOK'
    BY <1>0, <2>1, <2>4, <2>5 DEF PermReplyOK, Served
  <2>7. RejectBeforeHandler'
    BY <1>0, <1>2, <2>1 DEF RejectBeforeHandler, Served, TokenOk
  <2> QED
    BY <1>0, <2>1, <2>2, <2>3, <2>6, <2>7
       DEF IInv, Served, PermMethods, FailClosed, StatesMatchRequest
<1>3. CASE /\ TokenOk(PermDesc)
           /\ code = GET_PACKAGES_FOR_UID_TRANSACTION
           /\ \E pk \in PkgLists :
                Served(<<I32(0), I32(Len(pk))>> \o [i \in DOMAIN pk |-> Str(pk[i])],
                       NO_ERROR, TRUE, [pkgs |-> pk])
  <2>1. PICK pk \in PkgLists :
          Served(<<I32(0), I32(Len(pk))>> \o [i \in DOMAIN pk |-> Str(pk[i])],
                 NO_ERROR, TRUE, [pkgs |-> pk])
    BY <1>3
  <2>2. method = "getPackagesForUid"
    BY <1>0, <1>3 DEF RequestOK, Methods
  <2>3. RequestOK'
    BY <1>0, <2>1, RequestKept DEF Served
  <2>4. RejectBeforeHandler'
    BY <1>0, <1>3, <2>1 DEF RejectBeforeHandler, Served, TokenOk
  <2> QED
    BY <1>0, <2>1, <2>2, <2>3, <2>4
       DEF IInv, Served, PermMethods, FailClosed, StatesMatchRequest
<1> QED
  BY <1>1, <1>2, <1>3 DEF PermissionControllerStub

\* The states reply of a service: the exception header, then the array,
\* then the status.  Whatever the array, its words are the states and its
\* count is their number.
LEMMA StatesReply ==
    ASSUME NEW st \in Seq(Int), NEW res \in Int
    PROVE  LET R == <<I32(0)>> \o Int32Array(st) \o <<I32(res)>>
           IN  /\ R \in Seq(ArrayWords)
               /\ Len(R) = Len(st) + 3
               /\ ExceptionCodes(R) = {0}
               /\ ReadInt32(R, 2) = Len(st)
               /\ \A i \in 1..Len(st) : ReadInt32(R, 2 + i) = st[i]
               /\ ReadInt32(R, 3 + Len(st)) = res
<1> DEFINE R == <<I32(0)>> \o Int32Array(st) \o <<I32(res)>>
<1>1. I32(0) \in ArrayWords /\ I32(res) \in ArrayWords
  BY DEF ArrayWords
<1>2. /\ R \in Seq(ArrayWords) /\ Len(R) = Len(st) + 3
      /\ R[1] = I32(0) /\ R[2] = I32(Len(st))
      /\ \A i \in 1..Len(st) : R[2 + i] = I32(st[i])
      /\ R[Len(st) + 3] = I32(res)
  BY <1>1, ArrayParcel
<1>3. ExceptionCodes(R) = {0}
  BY <1>2 DEF ExceptionCodes, ReadInt32, I32
<1>4. ReadInt32(R, 2) = Len(st)
  BY <1>2 DEF ReadInt32, I32
<1>5. \A i \in 1..Len(st) : ReadInt32(R, 2 + i) = st[i]
  <2> SUFFICES ASSUME NEW i \in 1..Len(st) PROVE ReadInt32(R, 2 + i) = st[i]
    OBVIOUS
  <2>1. R[2 + i] = I32(st[i]) /\ 2 + i <= Len(R)
    BY <1>2
  <2> QED
    BY <2>1 DEF ReadInt32, I32
<1>6. ReadInt32(R, 3 + Len(st)) = res
  BY <1>2 DEF ReadInt32, I32
<1> QED
  BY <1>2, <1>3, <1>4, <1>5, <1>6

\* BnProcessInfoService::onTransact.
LEMMA ProcessInfoServiceIInv ==
    ASSUME IInv, ProcessInfoServiceStub
    PROVE  IInv'
<1> USE DEF CHECK_PERMISSION_TRANSACTION, GET_PACKAGES_FOR_UID_TRANSACTION,
            IS_RUNTIME_PERMISSION_TRANSACTION, GET_PROCESS_STATES_FROM_PIDS
<1>0. /\ phase = "delivered" /\ peer = "ProcessInfoService"
      /\ RequestOK /\ ~handled
  BY DEF ProcessInfoServiceStub, IInv
<1>1. CASE /\ code = GET_PROCESS_STATES_FROM_PIDS /\ ~TokenOk(ProcDesc)
           /\ Served(<<>>, PERMISSION_DENIED, FALSE, NoVerdict)
  <2>1. /\ phase' = "replied" /\ reply' = <<>> /\ status' # NO_ERROR
        /\ handled' = FALSE /\ UNCHANGED <<method, args, code, data>>
    BY <1>1 DEF Served, PERMISSION_DENIED, NO_ERROR
  <2> QED
    BY <1>0, <2>1, EmptyReply
<1>2. CASE /\ code = GET_PROCESS_STATES_FROM_PIDS /\ TokenOk(ProcDesc)
           /\ ReadInt32(data, 2) <= 0
           /\ Served(<<I32(0), I32(0), I32(NOT_ENOUGH_DATA)>>, NO_ERROR, FALSE,
                     NoVerdict)
  <2>1. method = "getProcessStatesFromPids" /\ args.length = 0
    BY <1>0, <1>2, TokensDiffer DEF RequestOK, TokenOk, PermMethods, Methods
  <2>2. ReadInt32(reply', 2) = 0 /\ ReadInt32(reply', 3) = NOT_ENOUGH_DATA
    BY <1>2 DEF Served, ReadInt32, I32
  <2>3. RequestOK'
    BY <1>0, <1>2, RequestKept DEF Served
  <2>4. StatesReplyOK'
    BY <1>2, <2>1, <2>2 DEF Served, StatesReplyOK, NOT_ENOUGH_DATA, NO_ERROR
  <2> QED
    BY <1>0, <1>2, <2>1, <2>3, <2>4
       DEF IInv, Served, PermMethods, RejectBeforeHandler, FailClosed,
           StatesMatchRequest
<1>3. CASE /\ code = GET_PROCESS_STATES_FROM_PIDS /\ TokenOk(ProcDesc)
           /\ ReadInt32(data, 2) > 0
           /\ LET len == ReadInt32(data, 2) IN
              IF CanRead(data, 3, len)
              THEN \E st \in [1..len -> StateVals], res \in {NO_ERROR, PERMISSION_DENIED} :
                     Served(<<I32(0)>> \o Int32Array(st) \o <<I32(res)>>, NO_ERROR, TRUE,
                            [states |-> st, res |-> res])
              ELSE Served(<<I32(0)>> \o Int32Array([i \in 1..len |-> -1])
                            \o <<I32(NOT_ENOUGH_DATA)>>, NO_ERROR, FALSE, NoVerdict)
  <2> DEFINE n == args.length
  <2>1. method = "getProcessStatesFromPids" /\ ReadInt32(data, 2) = n
        /\ CanRead(data, 3, n) /\ n \in Nat /\ n > 0
    BY <1>0, <1>3, TokensDiffer DEF RequestOK, TokenOk, PermMethods, Methods
  <2>2. PICK st \in [1..n -> StateVals], res \in {NO_ERROR, PERMISSION_DENIED} :
          Served(<<I32(0)>> \o Int32Array(st) \o <<I32(res)>>, NO_ERROR, TRUE,
                 [states |-> st, res |-> res])
    BY <1>3, <2>1
  <2>3. st \in Seq(Int) /\ Len(st) = n /\ res \in Int
    <3>1. st \in [1..n -> Int]
      OBVIOUS
    <3> QED
      BY <2>1, <3>1 DEF NO_ERROR, PERMISSION_DENIED
  <2>4. /\ ReadInt32(reply', 2) = n
        /\ \A i \in 1..n : ReadInt32(reply', 2 + i) = st[i]
    BY <2>2, <2>3, StatesReply DEF Served
  <2>5. StatesReplyOK'
    BY <2>2, <2>3, <2>4 DEF StatesReplyOK, Served
  <2>6. RequestOK'
    BY <1>0, <2>2, RequestKept DEF Served
  <2>7. RejectBeforeHandler'
    BY <1>0, <1>3, <2>2 DEF RejectBeforeHandler, Served, TokenOk
  <2> QED
    BY <1>0, <2>1, <2>2, <2>5, <2>6, <2>7
       DEF IInv, Served, PermMethods, FailClosed, StatesMatchRequest
<1>4. CASE /\ code # GET_PROCESS_STATES_FROM_PIDS
           /\ Served(<<>>, UNKNOWN_TRANSACTION, FALSE, NoVerdict)
  <2>1. /\ phase' = "replied" /\ reply' = <<>> /\ status' # NO_ERROR
        /\ handled' = FALSE /\ UNCHANGED <<method, args, code, data>>
    BY <1>4 DEF Served, UNKNOWN_TRANSACTION, NO_ERROR
  <2> QED
    BY <1>0, <2>1, EmptyReply
<1> QED
  BY <1>1, <1>2, <1>3, <1>4 DEF ProcessInfoServiceStub

\* The states reply of a peer of another version, cut before its last
\* word or not: its count and its states are still there to be read.
LEMMA SkewedStatesReply ==
    ASSUME NEW st \in Seq(Int), NEW res \in Int, NEW cut \in BOOLEAN
    PROVE  LET full == <<I32(0)>> \o Int32Array(st) \o <<I32(res)>>
               R == IF cut THEN SubSeq(full, 1, Len(full) - 1) ELSE full
           IN  /\ ExceptionCodes(R) = {0}
               /\ ReadInt32(R, 2) = Len(st)
               /\ \A i \in 1..Len(st) : ReadInt32(R, 2 + i) = st[i]
<1> DEFINE full == <<I32(0)>> \o Int32Array(st) \o <<I32(res)>>
           R == IF cut THEN SubSeq(full, 1, Len(full) - 1) ELSE full
<1>1. /\ full \in Seq(ArrayWords) /\ Len(full) = Len(st) + 3
      /\ ExceptionCodes(full) = {0}
      /\ ReadInt32(full, 2) = Len(st)
      /\ \A i \in 1..Len(st) : ReadInt32(full, 2 + i) = st[i]
  BY StatesReply
<1>2. CASE ~cut
  BY <1>1, <1>2
<1>3. CASE cut
  <2> DEFINE C == SubSeq(full, 1, Len(full) - 1)
  <2>1. /\ Len(C) = Len(st) + 2
        /\ \A i \in 1..Len(st) + 2 : C[i] = full[i]
    <3>1. \A i \in 1..Len(full) - 1 : full[i] \in ArrayWords
      BY <1>1
    <3> QED
      BY <1>1, <3>1, SubSeqProperties
  <2>2. ExceptionCodes(C) = {0}
    <3>1. ReadInt32(full, 1) = 0
      BY <1>1 DEF ExceptionCodes
    <3>a. Len(C) # 0 /\ C[1] = full[1] /\ 1 <= Len(full)
      BY <1>1, <2>1
    <3>2. ReadInt32(C, 1) = ReadInt32(full, 1) /\ Len(C) # 0
      BY <3>a DEF ReadInt32
    <3> QED
      BY <3>1, <3>2 DEF ExceptionCodes
  <2>3. ReadInt32(C, 2) = Len(st)
    BY <1>1, <2>1 DEF ReadInt32
  <2>4. \A i \in 1..Len(st) : ReadInt32(C, 2 + i) = st[i]
    <3> SUFFICES ASSUME NEW i \in 1..Len(st) PROVE ReadInt32(C, 2 + i) = st[i]
      OBVIOUS
    <3>1. C[2 + i] = full[2 + i] /\ 2 + i <= Len(C) /\ 2 + i <= Len(full)
      BY <2>1
    <3>2. ReadInt32(full, 2 + i) = st[i]
      BY <1>1
    <3> QED
      BY <3>1, <3>2 DEF ReadInt32
  <2> QED
    BY <1>3, <2>2, <2>3, <2>4
<1> QED
  BY <1>2, <1>3

\* A service that throws, and a peer of another version.
LEMMA OtherPeersIInv ==
    ASSUME IInv, ThrowingPeer \/ SkewedPeer
    PROVE  IInv'
<1>1. CASE ThrowingPeer
  <2>1. PICK msg \in Msgs :
          Served(<<I32(EX_SECURITY), Str(msg)>>, NO_ERROR, FALSE,
                 [exception |-> EX_SECURITY])
    BY <1>1 DEF ThrowingPeer
  <2>2. ExceptionCodes(reply') = {EX_SECURITY} /\ EX_SECURITY # 0
    BY <2>1 DEF Served, ExceptionCodes, ReadInt32, I32, EX_SECURITY
  <2>3. RequestOK'
    BY <1>1, <2>1, RequestKept DEF IInv, ThrowingPeer, Served
  <2> QED
    BY <1>1, <2>1, <2>2, <2>3
       DEF IInv, ThrowingPeer, Served, PermReplyOK, StatesReplyOK,
           RejectBeforeHandler, FailClosed, StatesMatchRequest
<1>2. CASE SkewedPeer
  <2>0. phase = "delivered" /\ RequestOK
    BY <1>2 DEF SkewedPeer, IInv
  <2>1. CASE method = "getProcessStatesFromPids"
    <3>1. PICK m \in 0..(MaxLen + 1), cut \in BOOLEAN :
            \E st \in [1..m -> StateVals], res \in {NO_ERROR, PERMISSION_DENIED} :
              LET full == <<I32(0)>> \o Int32Array(st) \o <<I32(res)>> IN
              Served(IF cut THEN SubSeq(full, 1, Len(full) - 1) ELSE full,
                     NO_ERROR, FALSE, [states |-> st, res |-> res])
      BY <1>2, <2>1 DEF SkewedPeer
    <3>2. PICK st \in [1..m -> StateVals], res \in {NO_ERROR, PERMISSION_DENIED} :
              LET full == <<I32(0)>> \o Int32Array(st) \o <<I32(res)>> IN
              Served(IF cut THEN SubSeq(full, 1, Len(full) - 1) ELSE full,
                     NO_ERROR, FALSE, [states |-> st, res |-> res])
      BY <3>1
    <3>3. st \in Seq(Int) /\ Len(st) = m /\ res \in Int
      <4>1. st \in [1..m -> Int]
        OBVIOUS
      <4> QED
        BY <4>1 DEF NO_ERROR, PERMISSION_DENIED
    <3>4. /\ ReadInt32(reply', 2) = Len(st)
          /\ \A i \in 1..Len(st) : ReadInt32(reply', 2 + i) = st[i]
      BY <3>2, <3>3, SkewedStatesReply DEF Served
    <3>5. StatesReplyOK'
      BY <3>2, <3>3, <3>4 DEF StatesReplyOK, Served
    <3>6. RequestOK'
      BY <2>0, <3>2, RequestKept DEF Served
    <3> QED
      BY <2>0, <2>1, <3>2, <3>5, <3>6
         DEF IInv, Served, PermMethods, RejectBeforeHandler, FailClosed,
             StatesMatchRequest
  <2>2. CASE method = "getPackagesForUid"
    <3>1. PICK pk \in PkgLists, extra \in 0..1 :
            Served(<<I32(0), I32(Len(pk) + extra)>> \o [i \in DOMAIN pk |-> Str(pk[i])],
                   NO_ERROR, FALSE, [pkgs |-> pk])
      BY <1>2, <2>2 DEF SkewedPeer
    <3>2. RequestOK'
      BY <2>0, <3>1, RequestKept DEF Served
    <3> QED
      BY <2>0, <2>2, <3>1, <3>2
         DEF IInv, Served, PermMethods, RejectBeforeHandler, FailClosed,
             StatesMatchRequest
  <2> QED
    BY <1>2, <2>1, <2>2 DEF SkewedPeer
<1> QED
  BY <1>1, <1>2

\* The proxies decode the reply and return.
LEMMA ReadIInv ==
    ASSUME IInv, ReadPermissionAnswer \/ ReadPackages \/ ReadProcessStates
    PROVE  IInv'
<1>0. phase = "replied" /\ RequestOK
  BY DEF IInv, ReadPermissionAnswer, ReadPackages, ReadProcessStates
<1>1. CASE ReadPermissionAnswer
  <2>1. PICK ex \in ExceptionCodes(reply) :
          Return([value |-> IF ex # 0 THEN FALSE ELSE ReadInt32(reply, 2) # 0])
    BY <1>1 DEF ReadPermissionAnswer
  <2>2. method \in PermMethods
    BY <1>1 DEF ReadPermissionAnswer, PermMethods
  <2>3. FailClosed'
    <3> SUFFICES ASSUME out'.value
                 PROVE  handled' /\ peer' = "PermissionController" /\ verdict'.granted
      BY <2>1 DEF FailClosed, Return
    <3>1. ex = 0 /\ ReadInt32(reply, 2) # 0
      BY <2>1 DEF Return
    <3>2. PermReplyOK
      BY <1>0, <2>2 DEF IInv
    <3> QED
      BY <2>1, <3>1, <3>2 DEF PermReplyOK, Return
  <2>4. RequestOK'
    BY <1>0, <2>1, RequestKept DEF Return
  <2> QED
    BY <1>0, <2>1, <2>2, <2>3, <2>4
       DEF IInv, Return, PermMethods, PermReplyOK, RejectBeforeHandler,
           StatesMatchRequest
<1>2. CASE ReadPackages
  <2>1. PICK ex \in ExceptionCodes(reply) :
          LET size == ReadInt32(reply, 2) IN
          Return([pkgs |-> IF ex # 0 \/ size <= 0 THEN <<>>
                           ELSE [i \in 1..size |-> ReadString16(reply, 2 + i)]])
    BY <1>2 DEF ReadPackages
  <2>2. RequestOK'
    BY <1>0, <2>1, RequestKept DEF Return
  <2> QED
    BY <1>0, <1>2, <2>1, <2>2
       DEF IInv, ReadPackages, Return, PermMethods, RejectBeforeHandler,
           FailClosed, StatesMatchRequest
<1>3. CASE ReadProcessStates
  <2> DEFINE n == args.length
             replyLen == ReadInt32(reply, 2)
  <2>1. PICK ex \in ExceptionCodes(reply) :
          Return(
            CASE status # NO_ERROR -> [ret |-> status, states |-> <<>>]
              [] ex # 0            -> [ret |-> ex, states |-> <<>>]
              [] replyLen # n      -> [ret |-> NOT_ENOUGH_DATA, states |-> <<>>]
              [] replyLen > 0 /\ ~CanRead(reply, 3, n)
                                   -> [ret |-> NOT_ENOUGH_DATA, states |-> <<>>]
              [] OTHER -> [ret |-> ReadInt32(reply, 3 + n),
                           states |-> [i \in 1..n |-> ReadInt32(reply, 2 + i)]])
    BY <1>3 DEF ReadProcessStates
  <2>2. method = "getProcessStatesFromPids" /\ n \in Nat
    BY <1>0, <1>3 DEF ReadProcessStates, RequestOK
  <2>3. StatesMatchRequest'
    <3> SUFFICES ASSUME out'.ret = NO_ERROR
                 PROVE  /\ "states" \in DOMAIN verdict
                        /\ Len(verdict.states) = n
                        /\ out'.states = verdict.states
      BY <2>1 DEF StatesMatchRequest, Return
    <3>1. /\ status = NO_ERROR /\ ex = 0 /\ replyLen = n
          /\ (replyLen > 0 => CanRead(reply, 3, n))
          /\ out' = [ret |-> ReadInt32(reply, 3 + n),
                     states |-> [i \in 1..n |-> ReadInt32(reply, 2 + i)]]
      BY <2>1 DEF Return, NO_ERROR, NOT_ENOUGH_DATA
    <3>2. StatesReplyOK
      BY <1>0, <2>2 DEF IInv
    <3>3. /\ "states" \in DOMAIN verdict /\ verdict.states \in Seq(Int)
          /\ Len(verdict.states) = n
          /\ \A i \in 1..n : ReadInt32(reply, 2 + i) = verdict.states[i]
      BY <2>1, <2>2, <3>1, <3>2 DEF StatesReplyOK, NO_ERROR
    <3>4. out'.states = verdict.states
      BY <3>1, <3>3
    <3> QED
      BY <2>1, <3>3, <3>4 DEF Return
  <2>4. RequestOK'
    BY <1>0, <2>1, RequestKept DEF Return
  <2> QED
    BY <1>0, <2>1, <2>2, <2>3, <2>4
       DEF IInv, Return, PermMethods, PermReplyOK, StatesReplyOK,
           RejectBeforeHandler, FailClosed
<1> QED
  BY <1>1, <1>2, <1>3

\* Every step of the call keeps the inductive invariant.
LEMMA NextIInv == IInv /\ [Next]_vars => IInv'
<1> SUFFICES ASSUME IInv, [Next]_vars PROVE IInv'
  OBVIOUS
<1>1. CASE SendCheckPermission \/ SendGetPackagesForUid
           \/ SendIsRuntimePermission \/ SendGetProcessStates
  BY <1>1, SendIInv
<1>2. CASE TransactDead \/ Deliver
  BY <1>2, TransportIInv
<1>3. CASE PermissionControllerStub
  BY <1>3, PermissionControllerIInv
<1>4. CASE ProcessInfoServiceStub
  BY <1>4, ProcessInfoServiceIInv
<1>5. CASE ThrowingPeer \/ SkewedPeer
  BY <1>5, OtherPeersIInv
<1>6. CASE ReadPermissionAnswer \/ ReadPackages \/ ReadProcessStates
  BY <1>6, ReadIInv
<1>7. CASE Returned \/ UNCHANGED vars
  <2>1. UNCHANGED vars
    BY <1>7 DEF Returned
  <2> QED
    BY <2>1 DEF vars, IInv, RequestOK, PermReplyOK, StatesReplyOK,
                RejectBeforeHandler, FailClosed, StatesMatchRequest
<1> QED
  BY <1>1, <1>2, <1>3, <1>4, <1>5, <1>6, <1>7 DEF Next

\* IInv holds throughout every call.
LEMMA IInvHolds == Spec => []IInv
  BY InitIInv, NextIInv, PTL DEF Spec

-----------------------------------------------------------------------------
(* The properties the ipc_safety run checks, for every constant.           *)

\* checkPermission and isRuntimePermission answer "granted" only when a
\* permission controller's own logic granted this request, although both
\* proxies ignore the transact status (spec.md 4.2).
THEOREM FailClosedHolds == Spec => []FailClosed
  BY IInvHolds, PTL DEF IInv

\* getProcessStatesFromPids returns NO_ERROR only with the states the
\* service computed for this request, one per pid sent (spec.md 4.5).
THEOREM StatesMatchRequestHolds == Spec => []StatesMatchRequest
  BY IInvHolds, PTL DEF IInv

=============================================================================
