------------------------ MODULE ServiceCommandProofs ------------------------
(***************************************************************************)
(* Proof, for every set of argument vectors, services, files and every     *)
(* descriptor table size, that main of src/cmds/service.cpp returns 20     *)
(* exactly when the service manager is unreachable, 10 exactly when it     *)
(* printed a diagnostic of its own, and 0 otherwise.                       *)
(***************************************************************************)
EXTENDS ServiceCommand, TLAPS

(***************************************************************************)
(* The inductive invariant.  result and the diagnostic go together: every  *)
(* error path sets both (Fail, and the "does not exist" path of `call').  *)
(* A NULL service manager makes main return 20 before it can print         *)
(* anything; otherwise the status returned is result.                      *)
(***************************************************************************)
EInv ==
    /\ pc \in {"getopt", "sm", "dispatch", "tags", "transact", "usage", "done"}
    /\ result \in {0, 10} /\ smNull \in BOOLEAN
    /\ (result = 10) <=> (err # NoErr)
    /\ pc \in {"getopt", "sm"} => err = NoErr
    /\ smNull => pc = "done" /\ exitCode = 20 /\ err = NoErr
    /\ pc = "done" /\ ~smNull => exitCode = result

LEMMA InitEInv == Init => EInv
  <1> SUFFICES ASSUME Init PROVE EInv
    OBVIOUS
  <1>1. pc = "getopt" /\ result = 0 /\ err = NoErr /\ smNull = FALSE
    BY SMTT(30) DEF Init
  <1>2. result \in {0, 10} /\ smNull \in BOOLEAN
    BY <1>1
  <1>3. (result = 10) <=> (err # NoErr)
    BY <1>1
  <1>4. pc \in {"getopt", "sm", "dispatch", "tags", "transact", "usage",
                "done"}
    BY <1>1
  <1>5. /\ pc \in {"getopt", "sm"} => err = NoErr
        /\ smNull => pc = "done" /\ exitCode = 20 /\ err = NoErr
        /\ pc = "done" /\ ~smNull => exitCode = result
    BY <1>1
  <1> QED BY <1>2, <1>3, <1>4, <1>5 DEF EInv

\* Every error path: the diagnostic is not NoErr and result becomes 10.
LEMMA FailEInv ==
  ASSUME NEW e, e # NoErr, Fail(e)
  PROVE  result' = 10 /\ err' # NoErr
  BY DEF Fail

LEMMA NextEInv == EInv /\ [Next]_vars => EInv'
  <1> SUFFICES ASSUME EInv, [Next]_vars PROVE EInv'
    OBVIOUS
  <1>1. CASE GetOpt
    BY <1>1 DEF GetOpt, EInv
  <1>2. CASE ServiceManager
    <2>1. /\ pc = "sm" /\ UNCHANGED <<result, err>>
          /\ smNull' \in BOOLEAN
          /\ smNull' => exitCode' = 20 /\ pc' = "done"
          /\ ~smNull' => pc' = "dispatch"
      BY <1>2 DEF ServiceManager
    <2> QED BY <2>1 DEF EInv
  <1>3. CASE NoCommand
    BY <1>3 DEF NoCommand, EInv
  <1>4. CASE Check
    <2>1. CASE optind + 1 <= Argc
      BY <1>4, <2>1 DEF Check, EInv
    <2>2. CASE ~(optind + 1 <= Argc)
      BY <1>4, <2>2, FailEInv DEF Check, EInv, NoErr
    <2> QED BY <2>1, <2>2
  <1>5. CASE List
    BY <1>5 DEF List, EInv
  <1>6. CASE UnknownCommand
    BY <1>6, FailEInv DEF UnknownCommand, EInv, NoErr
  <1>7. CASE Call
    <2>1. CASE optind + 2 <= Argc /\ InterfaceName(Arg(optind + 1)) # NoName
      BY <1>7, <2>1 DEF Call, EInv
    <2>2. CASE optind + 2 <= Argc /\ ~(InterfaceName(Arg(optind + 1)) # NoName)
      <3>1. /\ err' = "service does not exist" /\ result' = 10
            /\ pc' = "usage" /\ pc = "dispatch"
            /\ UNCHANGED <<smNull, exitCode>>
        BY <1>7, <2>2 DEF Call
      <3> QED BY <3>1 DEF EInv, NoErr
    <2>3. CASE ~(optind + 2 <= Argc)
      <3>1. Fail(IF optind + 1 <= Argc THEN "no service for call"
                                       ELSE "no code for call")
        BY <1>7, <2>3 DEF Call
      <3>2. result' = 10 /\ err' # NoErr
        BY <3>1, FailEInv DEF NoErr
      <3> QED BY <1>7, <2>3, <3>2 DEF Call, EInv
    <2> QED BY <2>1, <2>2, <2>3
  <1>8. CASE MissingLiteral
    BY <1>8, FailEInv DEF MissingLiteral, InTags, EInv, NoErr
  <1>9. CASE WriteInteger \/ WriteFloat
    BY <1>9 DEF WriteInteger, WriteFloat, EInv
  <1>10. CASE WriteString
    BY <1>10 DEF WriteString, EInv
  <1>11. CASE WriteNull
    BY <1>11 DEF WriteNull, EInv
  <1>12. CASE WriteFd
    <2> DEFINE fd == IF Literal \in Files THEN LowestFree(openFds) ELSE -1
    <2>1. CASE fd >= 0
      BY <1>12, <2>1 DEF WriteFd, EInv
    <2>2. CASE ~(fd >= 0)
      BY <1>12, <2>2, FailEInv DEF WriteFd, HasLiteral, InTags, EInv, NoErr
    <2> QED BY <2>1, <2>2
  <1>13. CASE WriteAshmem
    <2> DEFINE fd == IF Literal \in Files THEN LowestFree(openFds) ELSE -1
    <2>1. CASE fd >= 0
      BY <1>13, <2>1 DEF WriteAshmem, EInv
    <2>2. CASE ~(fd >= 0)
      BY <1>13, <2>2, FailEInv DEF WriteAshmem, HasLiteral, InTags, EInv,
                                    NoErr
    <2> QED BY <2>1, <2>2
  <1>14. CASE WriteNfd
    BY <1>14 DEF WriteNfd, EInv
  <1>15. CASE WriteIntent
    BY <1>15 DEF WriteIntent, EInv
  <1>16. CASE UnknownTag
    BY <1>16, FailEInv DEF UnknownTag, InTags, EInv, NoErr
  <1>17. CASE TagsDone
    BY <1>17 DEF TagsDone, EInv
  <1>18. CASE Transact
    BY <1>18 DEF Transact, EInv
  <1>19. CASE Finish
    BY <1>19 DEF Finish, EInv
  <1>20. CASE Exited \/ UNCHANGED vars
    BY <1>20 DEF Exited, vars, EInv
  <1> QED
    BY <1>1, <1>2, <1>3, <1>4, <1>5, <1>6, <1>7, <1>8, <1>9, <1>10, <1>11,
       <1>12, <1>13, <1>14, <1>15, <1>16, <1>17, <1>18, <1>19, <1>20
    DEF Next

LEMMA EInvHolds == Spec => []EInv
  BY InitEInv, NextEInv, PTL DEF Spec

\* main's exit status is 20 exactly when defaultServiceManager() returned
\* NULL, 10 exactly when main printed a diagnostic of its own, and 0
\* otherwise, on every argument vector (ExitStatus, checked by the run on
\* 22,658 vectors).
THEOREM ExitStatusHolds == Spec => []ExitStatus
  <1>1. EInv => ExitStatus
    BY DEF EInv, ExitStatus
  <1> QED BY EInvHolds, <1>1, PTL
=============================================================================
