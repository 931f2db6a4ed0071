------------------------ MODULE AppOpsManagerProofs ------------------------
(***************************************************************************)
(* Proofs, for every value of the constants, of the safety properties of   *)
(* AppOpsManager that MCAppOpsManager.cfg checks on a small instance.      *)
(***************************************************************************)
EXTENDS AppOpsManager, TLAPS

USE ConstAssumption

-----------------------------------------------------------------------------
(* Type correctness.                                                       *)

\* Every step of every thread and of the environment keeps the variables in
\* their types: the uptime stays under ClockCap, gToken names a token that
\* was issued, and every recorded remote call is a well-formed Call.
LEMMA ExceptType ==
    ASSUME NEW S, NEW T, NEW f \in [S -> T], NEW x \in S, NEW v \in T
    PROVE  [f EXCEPT ![x] = v] \in [S -> T]
  OBVIOUS

LEMMA TypeCorrect == Spec => []TypeOK
<1>1. Init => TypeOK
  BY DEF Init, TypeOK, ClockCap, AllOps, Pcs, NoService, NoToken, Incarnations
<1>2. TypeOK /\ [Next]_vars => TypeOK'
  <2> SUFFICES ASSUME TypeOK, [Next]_vars PROVE TypeOK'
    OBVIOUS
  <2> USE DEF IsAlive, NoService, NoToken, Incarnations
  <2>a. calls \in [Threads -> 0..MaxCalls] BY DEF TypeOK
  <2>b. clk \in [Threads -> 1..ClockCap] BY DEF TypeOK
  <2>c. startTime \in [Threads -> 0..ClockCap] BY DEF TypeOK
  <2>d. issuer \in Seq(Incarnations) /\ gToken \in 0..Len(issuer) BY DEF TypeOK
  <2>e. svc \in [Threads -> 0..MaxInc] BY DEF TypeOK
  <2>1. ASSUME NEW t \in Threads, Invoke(t) PROVE TypeOK'
    <3>1. PICK o \in Ops : op' = [op EXCEPT ![t] = o]
      BY <2>1 DEF Invoke
    <3>2. op' \in [Threads -> AllOps]
      BY <3>1, ExceptType DEF TypeOK
    <3>3. calls' \in [Threads -> 0..MaxCalls]
      <4>1. calls[t] + 1 \in 0..MaxCalls
        BY <2>1, <2>a DEF Invoke
      <4>2. QED
        BY <2>1, <2>a, <4>1, ExceptType DEF Invoke
    <3>4. clk' \in [Threads -> 1..ClockCap] /\ startTime' \in [Threads -> 0..ClockCap]
      <4>1. 1 \in 1..ClockCap /\ 0 \in 0..ClockCap
        BY DEF ClockCap
      <4>2. QED
        BY <2>1, <2>b, <2>c, <4>1, ExceptType DEF Invoke
    <3>5. pc' \in [Threads -> Pcs]
      BY <2>1, ExceptType DEF Invoke, TypeOK, Pcs
    <3>6. QED
      BY <2>1, <3>2, <3>3, <3>4, <3>5 DEF Invoke, TypeOK
  <2>2. ASSUME NEW t \in Threads, Lock(t) PROVE TypeOK'
    BY <2>2, ExceptType DEF Lock, TypeOK, Pcs
  <2>3. ASSUME NEW t \in Threads, LoopExit(t) PROVE TypeOK'
    BY <2>3, ExceptType DEF LoopExit, TypeOK, Pcs
  <2>4. ASSUME NEW t \in Threads, LoopEnter(t) PROVE TypeOK'
    BY <2>4, ExceptType DEF LoopEnter, TypeOK, Pcs
  <2>5. ASSUME NEW t \in Threads, LookupFound(t) PROVE TypeOK'
    BY <2>5, ExceptType DEF LookupFound, TypeOK, Pcs
  <2>6. ASSUME NEW t \in Threads, GiveUp(t) PROVE TypeOK'
    BY <2>6, ExceptType DEF GiveUp, TypeOK, Pcs
  <2>7. ASSUME NEW t \in Threads, Wait(t) PROVE TypeOK'
    <3>1. PICK d \in Naps : /\ clk[t] + d <= ClockCap
                           /\ clk' = [clk EXCEPT ![t] = @ + d]
      BY <2>7 DEF Wait
    <3>2. clk' \in [Threads -> 1..ClockCap]
      <4>1. clk[t] + d \in 1..ClockCap
        BY <2>b, <3>1 DEF Naps
      <4>2. QED
        BY <2>b, <3>1, <4>1, ExceptType
    <3>3. startTime' \in [Threads -> 0..ClockCap]
      BY <2>7, ExceptType DEF Wait, TypeOK
    <3>4. pc' \in [Threads -> Pcs]
      BY <2>7, ExceptType DEF Wait, TypeOK, Pcs
    <3>5. QED
      BY <2>7, <3>2, <3>3, <3>4 DEF Wait, TypeOK
  <2>8. ASSUME NEW t \in Threads, ReturnIgnored(t) PROVE TypeOK'
    BY <2>8, ExceptType DEF ReturnIgnored, TypeOK, Pcs
  <2>9. ASSUME NEW t \in Threads, CallRemote(t) PROVE TypeOK'
    BY <2>9, ExceptType DEF CallRemote, TypeOK, Pcs
  <2>10. ASSUME NEW t \in Threads, TokenLock(t) PROVE TypeOK'
    BY <2>10, ExceptType DEF TokenLock, TypeOK, Pcs
  <2>11. ASSUME NEW t \in Threads, TokenCreate(t) PROVE TypeOK'
    <3>1. issuer' \in Seq(Incarnations) /\ gToken' \in 0..Len(issuer')
      <4>1. CASE IsAlive(svc[t])
        <5>1. svc[t] \in Incarnations
          BY <2>e, <4>1
        <5>2. issuer' = Append(issuer, svc[t]) /\ gToken' = Len(issuer) + 1
          BY <2>11, <4>1 DEF TokenCreate
        <5>3. QED
          BY <2>d, <5>1, <5>2
      <4>2. CASE ~IsAlive(svc[t])
        BY <2>11, <2>d, <4>2 DEF TokenCreate
      <4>3. QED
        BY <4>1, <4>2
    <3>2. pc' \in [Threads -> Pcs]
      BY <2>11, ExceptType DEF TokenCreate, TypeOK, Pcs
    <3>3. QED
      BY <2>11, <3>1, <3>2 DEF TokenCreate, TypeOK
  <2>18. ASSUME NEW t \in Threads, TokenTest(t) PROVE TypeOK'
    <3>1. pc' \in [Threads -> Pcs]
      <4>1. \E x \in Pcs : pc' = [pc EXCEPT ![t] = x]
        BY <2>18 DEF TokenTest, Pcs
      <4> QED
        BY <4>1, ExceptType DEF TypeOK
    <3>2. gTokenMutex' \in Threads \cup {NoThread}
      BY <2>18 DEF TokenTest, TypeOK
    <3> QED
      BY <2>18, <3>1, <3>2 DEF TokenTest, TypeOK
  <2>12. ASSUME NEW t \in Threads, TokenUse(t) PROVE TypeOK'
    <3>1. [op |-> op[t], token |-> gToken, to |-> svc[t]] \in Call
      BY DEF TypeOK, Call
    <3>2. pc' \in [Threads -> Pcs]
      BY <2>12, ExceptType DEF TokenUse, TypeOK, Pcs
    <3>3. QED
      BY <2>12, <3>1, <3>2 DEF TokenUse, TypeOK
  <2>13. CASE Die
    BY <2>13 DEF Die, TypeOK
  <2>14. CASE Unregister
    BY <2>14 DEF Unregister, TypeOK
  <2>15. CASE Restart
    BY <2>15 DEF Restart, TypeOK
  <2>16. CASE UNCHANGED vars
    BY <2>16 DEF vars, TypeOK
  <2>17. QED
    BY <2>1, <2>2, <2>3, <2>4, <2>5, <2>6, <2>7, <2>8, <2>9, <2>10, <2>11,
       <2>12, <2>13, <2>14, <2>15, <2>16, <2>18 DEF Next, Thread, Environment
<1>3. QED
  BY <1>1, <1>2, PTL DEF Spec

-----------------------------------------------------------------------------
(* The client token.                                                       *)

\* gTokenMutex guards getToken: a thread between its test of gToken and the
\* store of the remote call's result holds the mutex, and the gToken it
\* tested is still null when it stores.
TokenLockInv ==
    /\ \A t \in Threads : pc[t] \in {"tokcheck", "tokfetch"} => gTokenMutex = t
    /\ \A t \in Threads : pc[t] = "tokfetch" => gToken = NoToken

\* The steps that move no thread into or out of getToken's critical section
\* and leave gTokenMutex and gToken alone.
OutsideToken(t) ==
    \/ Invoke(t) \/ Lock(t) \/ LoopExit(t) \/ LoopEnter(t) \/ LookupFound(t)
    \/ GiveUp(t) \/ Wait(t) \/ ReturnIgnored(t) \/ CallRemote(t) \/ TokenUse(t)

LEMMA OutsideTokenFrame ==
    ASSUME TypeOK, NEW t \in Threads, OutsideToken(t)
    PROVE  /\ UNCHANGED <<gTokenMutex, gToken, issuer>>
           /\ pc[t] \notin {"tokcheck", "tokfetch"}
           /\ \E x \in Pcs \ {"tokcheck", "tokfetch"} : pc' = [pc EXCEPT ![t] = x]
  BY DEF OutsideToken, Invoke, Lock, LoopExit, LoopEnter, LookupFound, GiveUp,
         Wait, ReturnIgnored, CallRemote, TokenUse, Pcs

LEMMA TokenLockInvHolds == Spec => []TokenLockInv
<1>1. Init => TokenLockInv
  BY DEF Init, TokenLockInv
<1>2. TypeOK /\ TokenLockInv /\ [Next]_vars => TokenLockInv'
  <2> SUFFICES ASSUME TypeOK, TokenLockInv, [Next]_vars
               PROVE TokenLockInv'
    OBVIOUS
  <2>0. pc \in [Threads -> Pcs] /\ NoThread \notin Threads
    BY DEF TypeOK
  <2>1. CASE vars' = vars
    BY <2>1 DEF vars, TokenLockInv
  <2>2. CASE Environment
    BY <2>2 DEF Environment, Die, Unregister, Restart, TokenLockInv
  <2>3. ASSUME NEW t \in Threads, OutsideToken(t) PROVE TokenLockInv'
    <3>1. /\ UNCHANGED <<gTokenMutex, gToken, issuer>>
          /\ pc[t] \notin {"tokcheck", "tokfetch"}
          /\ \E x \in Pcs \ {"tokcheck", "tokfetch"} : pc' = [pc EXCEPT ![t] = x]
      BY <2>3, OutsideTokenFrame
    <3>2. PICK x \in Pcs \ {"tokcheck", "tokfetch"} : pc' = [pc EXCEPT ![t] = x]
      BY <3>1
    <3> QED
      BY <2>0, <3>1, <3>2 DEF TokenLockInv
  <2>4. ASSUME NEW t \in Threads, TokenLock(t) PROVE TokenLockInv'
    \* The mutex was free, so no thread was inside; now t alone is.
    <3>1. \A u \in Threads : pc[u] \notin {"tokcheck", "tokfetch"}
      BY <2>0, <2>4 DEF TokenLock, TokenLockInv
    <3> QED
      BY <2>0, <2>4, <3>1 DEF TokenLock, TokenLockInv
  <2>5. ASSUME NEW t \in Threads, TokenTest(t) PROVE TokenLockInv'
    \* t holds the mutex, so it is the only thread inside.
    <3>1. gTokenMutex = t /\ \A u \in Threads \ {t} : pc[u] \notin {"tokcheck", "tokfetch"}
      BY <2>0, <2>5 DEF TokenTest, TokenLockInv
    <3>2. CASE gToken = NoToken
      BY <2>0, <2>5, <3>1, <3>2 DEF TokenTest, TokenLockInv
    <3>3. CASE gToken # NoToken
      BY <2>0, <2>5, <3>1, <3>3 DEF TokenTest, TokenLockInv
    <3> QED
      BY <3>2, <3>3
  <2>6. ASSUME NEW t \in Threads, TokenCreate(t) PROVE TokenLockInv'
    <3>1. \A u \in Threads \ {t} : pc[u] \notin {"tokcheck", "tokfetch"}
      BY <2>0, <2>6 DEF TokenCreate, TokenLockInv
    <3>2. gTokenMutex' = NoThread /\ pc' = [pc EXCEPT ![t] = "tokuse"]
      BY <2>6 DEF TokenCreate
    <3> QED
      BY <2>0, <3>1, <3>2 DEF TokenLockInv
  <2> QED
    BY <2>1, <2>2, <2>3, <2>4, <2>5, <2>6 DEF Next, Thread, OutsideToken
<1> QED
  BY <1>1, <1>2, TypeCorrect, PTL DEF Spec

\* A token is stored only by a thread holding gTokenMutex that found gToken
\* null, and only TokenUse records a call; so, given TokenLockInv, every
\* non-null token passed is the one gToken holds.
THEOREM TokenAgreementHolds == Spec => []TokenAgreement
<1>1. Init => TokenAgreement
  BY DEF Init, TokenAgreement
<1>2. TypeOK /\ TokenLockInv /\ TokenAgreement /\ [Next]_vars => TokenAgreement'
  <2> SUFFICES ASSUME TypeOK, TokenLockInv, TokenAgreement, [Next]_vars
               PROVE TokenAgreement'
    OBVIOUS
  <2> USE DEF TokenAgreement
  <2>1. CASE vars' = vars
    BY <2>1 DEF vars
  <2>2. CASE Environment
    \* Death, unregistration and restart touch neither gToken nor passed.
    BY <2>2 DEF Environment, Die, Unregister, Restart
  <2>3. ASSUME NEW t \in Threads, TokenCreate(t) PROVE TokenAgreement'
    \* gToken was null, so no call has passed a non-null token yet.
    <3>1. gToken = NoToken /\ UNCHANGED passed
      BY <2>3 DEF TokenCreate, TokenLockInv
    <3> QED
      BY <3>1
  <2>4. ASSUME NEW t \in Threads, TokenUse(t) PROVE TokenAgreement'
    BY <2>4 DEF TokenUse
  <2>5. ASSUME NEW t \in Threads, OutsideToken(t), ~TokenUse(t)
        PROVE TokenAgreement'
    BY <2>5 DEF OutsideToken, Invoke, Lock, LoopExit, LoopEnter, LookupFound,
                GiveUp, Wait, ReturnIgnored, CallRemote
  <2>6. ASSUME NEW t \in Threads, TokenLock(t) \/ TokenTest(t)
        PROVE TokenAgreement'
    BY <2>6 DEF TokenLock, TokenTest
  <2> QED
    BY <2>1, <2>2, <2>3, <2>4, <2>5, <2>6 DEF Next, Thread, OutsideToken
<1> QED
  BY <1>1, <1>2, TypeCorrect, TokenLockInvHolds, PTL DEF Spec

-----------------------------------------------------------------------------
(* The bounded wait of getService.                                         *)

\* The strengthening, per thread: a thread's uptime moves only in Wait, and
\* startTime is set at the first Wait of a call, when the uptime is still
\* 1; so startTime is 1 or unset, and the uptime is at most one nap beyond
\* the ceiling.
ThreadWaitInv(t) ==
    /\ startTime[t] \in {0, 1}
    /\ startTime[t] = 0 => clk[t] = 1
    /\ clk[t] - 1 <= Ceiling + MaxNap

WaitInv == \A t \in Threads : ThreadWaitInv(t)

\* getService gives up after waiting a little longer than the ceiling.
THEOREM WaitBoundedHolds == Spec => []WaitBounded
<1>1. Init => WaitInv
  <2> SUFFICES ASSUME Init, NEW u \in Threads PROVE ThreadWaitInv(u)
    BY DEF WaitInv
  <2> QED
    BY DEF Init, ThreadWaitInv
<1>2. TypeOK /\ WaitInv /\ [Next]_vars => WaitInv'
  <2> SUFFICES ASSUME TypeOK, WaitInv, [Next]_vars, NEW u \in Threads
               PROVE ThreadWaitInv(u)'
    BY DEF WaitInv
  <2>0. /\ clk \in [Threads -> Nat] /\ startTime \in [Threads -> Nat]
        /\ ThreadWaitInv(u)
    <3>1. clk \in [Threads -> 1..ClockCap] /\ startTime \in [Threads -> 0..ClockCap]
      BY DEF TypeOK
    <3>2. clk \in [Threads -> Nat] /\ startTime \in [Threads -> Nat]
      BY <3>1 DEF ClockCap
    <3>3. ThreadWaitInv(u)
      BY DEF WaitInv
    <3>4. QED
      BY <3>2, <3>3
  <2>1. ASSUME NEW t \in Threads, Invoke(t) PROVE ThreadWaitInv(u)'
    <3>1. clk' = [clk EXCEPT ![t] = 1]
          /\ startTime' = [startTime EXCEPT ![t] = 0]
      BY <2>1 DEF Invoke
    <3>2. QED
      BY <2>0, <3>1 DEF ThreadWaitInv
  <2>2. ASSUME NEW t \in Threads, Wait(t) PROVE ThreadWaitInv(u)'
    <3>1. PICK d \in Naps : clk' = [clk EXCEPT ![t] = @ + d]
      BY <2>2 DEF Wait
    <3>2. startTime' = [startTime EXCEPT ![t] = IF @ = 0 THEN clk[t] ELSE @]
      BY <2>2 DEF Wait
    <3>3. CASE u # t
      BY <2>0, <3>1, <3>2, <3>3 DEF ThreadWaitInv
    <3>4. CASE u = t
      <4>1. ThreadWaitInv(t) /\ ~TimedOut(t)
        BY <2>0, <2>2, <3>4 DEF Wait
      <4>2. startTime[t] = 0 \/ clk[t] - startTime[t] <= Ceiling
        BY <2>0, <4>1 DEF TimedOut
      <4>3. clk'[t] = clk[t] + d /\ d \in 1..MaxNap
        BY <2>0, <3>1 DEF Naps
      <4>4. startTime'[t] = IF startTime[t] = 0 THEN clk[t] ELSE startTime[t]
        BY <2>0, <3>2
      <4>5. QED
        BY <2>0, <3>4, <4>1, <4>2, <4>3, <4>4 DEF ThreadWaitInv
    <3>5. QED
      BY <3>3, <3>4
  <2>3. ASSUME NEW t \in Threads, Thread(t), ~Invoke(t), ~Wait(t)
        PROVE UNCHANGED <<clk, startTime>>
    BY <2>3 DEF Thread, Lock, LoopExit, LoopEnter, LookupFound,
                GiveUp, ReturnIgnored, CallRemote, TokenLock, TokenTest,
                TokenCreate, TokenUse
  <2>4. CASE Environment
    BY <2>0, <2>4 DEF ThreadWaitInv, Environment, Die, Unregister, Restart
  <2>5. CASE UNCHANGED vars
    BY <2>0, <2>5 DEF ThreadWaitInv, vars
  <2>6. QED
    BY <2>0, <2>1, <2>2, <2>3, <2>4, <2>5 DEF Next, ThreadWaitInv
<1>3. WaitInv => WaitBounded
  BY DEF WaitInv, ThreadWaitInv, WaitBounded
<1>4. QED
  BY <1>1, <1>2, <1>3, TypeCorrect, PTL DEF Spec

-----------------------------------------------------------------------------
(* getToken refines the one-time token of SessionToken.                   *)

\* getToken implements SessionToken under the mapping token <- gToken,
\* sent <- the tokens of the recorded calls: TokenCreate is the abstract
\* Create when it fetches a token and a stutter otherwise -- because the
\* thread holds gTokenMutex, the gToken it tested is still null when it
\* stores (TokenLockInv) --, TokenUse is the abstract Pass, and every other
\* step, of a thread or of the environment, leaves gToken and passed alone.
THEOREM TokenOnceHolds == Spec => TokenOnce
<1>1. Init => Abs!Init
  BY DEF Init, Abs!Init, SentTokens
<1>2. TypeOK /\ TokenLockInv /\ [Next]_vars
        => [Abs!Create \/ Abs!Pass]_<<gToken, SentTokens>>
  <2> SUFFICES ASSUME TypeOK, TokenLockInv, [Next]_vars
               PROVE  [Abs!Create \/ Abs!Pass]_<<gToken, SentTokens>>
    OBVIOUS
  <2>1. CASE vars' = vars
    BY <2>1 DEF vars, SentTokens
  <2>2. CASE Environment
    BY <2>2 DEF Environment, Die, Unregister, Restart, SentTokens
  <2>3. ASSUME NEW t \in Threads, TokenCreate(t)
        PROVE  [Abs!Create \/ Abs!Pass]_<<gToken, SentTokens>>
    <3>1. UNCHANGED passed
      BY <2>3 DEF TokenCreate
    <3>0. gToken = NoToken
      BY <2>3 DEF TokenCreate, TokenLockInv
    <3>2. CASE IsAlive(svc[t])
      \* A new token, numbered one past those issued: never the null one.
      <4>1. gToken' = Len(issuer) + 1 /\ Len(issuer) \in Nat
        BY <2>3, <3>2 DEF TokenCreate, TypeOK
      <4> QED
        BY <3>0, <3>1, <3>2, <4>1 DEF Abs!Create, SentTokens, NoToken
    <3>3. CASE ~IsAlive(svc[t])
      \* The dead service's null reply leaves gToken null.
      BY <2>3, <3>0, <3>1, <3>3 DEF TokenCreate, SentTokens
    <3> QED
      BY <3>2, <3>3
  <2>4. ASSUME NEW t \in Threads, TokenUse(t)
        PROVE  [Abs!Create \/ Abs!Pass]_<<gToken, SentTokens>>
    <3>1. passed' = passed \cup {[op |-> op[t], token |-> gToken, to |-> svc[t]]}
          /\ UNCHANGED gToken
      BY <2>4 DEF TokenUse
    <3>2. SentTokens' = SentTokens \cup {gToken}
      \* The image of a union is the union of the images.
      <4>1. ASSUME NEW x \in SentTokens' PROVE x \in SentTokens \cup {gToken}
        BY <3>1, <4>1 DEF SentTokens
      <4>2. ASSUME NEW x \in SentTokens \cup {gToken} PROVE x \in SentTokens'
        <5>1. CASE x \in SentTokens
          <6>1. PICK c \in passed : x = c.token
            BY <5>1 DEF SentTokens
          <6> QED
            BY <3>1, <6>1 DEF SentTokens
        <5>2. CASE x = gToken
          <6>1. [op |-> op[t], token |-> gToken, to |-> svc[t]] \in passed'
            BY <3>1
          <6> QED
            BY <5>2, <6>1 DEF SentTokens
        <5> QED
          BY <5>1, <5>2
      <4> QED
        BY <4>1, <4>2
    <3> QED
      BY <3>1, <3>2 DEF Abs!Pass
  <2>5. ASSUME NEW t \in Threads,
               Thread(t), ~TokenCreate(t), ~TokenUse(t)
        PROVE  UNCHANGED <<gToken, SentTokens>>
    BY <2>5 DEF Thread, Invoke, Lock, LoopExit, LoopEnter, LookupFound,
                GiveUp, Wait, ReturnIgnored, CallRemote, TokenLock, TokenTest,
                SentTokens
  <2> QED
    BY <2>1, <2>2, <2>3, <2>4, <2>5 DEF Next, vars
<1> QED
  BY <1>1, <1>2, TypeCorrect, TokenLockInvHolds, PTL DEF Spec, TokenOnce, Abs!Spec

=============================================================================
