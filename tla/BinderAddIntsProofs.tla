----------------------- MODULE BinderAddIntsProofs -----------------------
(***************************************************************************)
(* Proof, for every word width W, that the benchmark's end-to-end check    *)
(* never fires (src/test/binderAddInts.cpp): the client sends               *)
(* <<(int) iter, (int) (iter + 3)>>, the server's onTransact writes back    *)
(* (int) (val1 + val2), and the client compares it with                     *)
(* (int) (iter + iter + 3).  The three wrap the same way, whatever W is.    *)
(***************************************************************************)
EXTENDS BinderAddInts, TLAPS

\* The pair SendAdd puts in flight for the current iteration.
SentPair == <<ToInt(iter), ToInt((iter + 3) % Modulus)>>

\* The reply Serve writes for that pair.
ServedSum == <<ToInt(SentPair[1] + SentPair[2])>>

(***************************************************************************)
(* The inductive invariant.  A request or a reply is in flight only while  *)
(* the client awaits it, never both at once, and it carries the values of  *)
(* the client's current iteration: iter does not move between SendAdd and  *)
(* CheckReply.  The client stays at "none" until the parent forks, so Fork *)
(* cannot take it away from a transaction.  While a round trip is        *)
(* pending, iter is below options.iterations, which -n can only set before *)
(* the fork and which fits an unsigned int.                                *)
(***************************************************************************)
IInv ==
    /\ iter \in 0..(Modulus - 1)
    /\ opts \in Seq(Option)
    /\ iterations \in 0..(Modulus - 1)
    /\ cpc = "await" => iter < iterations
    /\ ppc = "opts" => cpc = "none"
    /\ req = NoMsg \/ (cpc = "await" /\ rep = NoMsg /\ req = SentPair)
    /\ rep = NoMsg \/ (cpc = "await" /\ req = NoMsg /\ rep = ServedSum)
    /\ NoUnexpectedResult

\* 2^W is an integer of at least 2: Default lies in 1..(2^W - 1).
LEMMA ModulusPos == Modulus \in Nat /\ Modulus >= 2
  <1>1. Modulus \in Int
    BY AddIntsAssumption DEF Modulus
  <1>2. Default \in 1..(Modulus - 1)
    BY AddIntsAssumption DEF Modulus
  <1> QED BY <1>1, <1>2

\* The arithmetic of the round trip: adding the two wrapped ints and
\* wrapping the sum gives the wrapped value of iter + iter + 3.
LEMMA SumWraps ==
  ASSUME NEW i \in 0..(Modulus - 1)
  PROVE  ToInt(ToInt(i) + ToInt((i + 3) % Modulus))
           = ToInt((i + i + 3) % Modulus)
  BY ModulusPos, Z3 DEF ToInt

LEMMA InitIInv == Init => IInv
  <1> SUFFICES ASSUME Init PROVE IInv
    OBVIOUS
  <1>1. opts \in Seq(Option)
    <2>1. opts \in OptLists /\ OptLists \subseteq Seq(Option)
      BY AddIntsAssumption DEF Init
    <2> QED BY <2>1, Zenon
  <1>2. iterations \in 0..(Modulus - 1)
    BY AddIntsAssumption DEF Init, Modulus
  <1> QED
    BY <1>1, <1>2, ModulusPos DEF Init, IInv, NoUnexpectedResult

LEMMA NextIInv == IInv /\ [Next]_vars => IInv'
  <1> SUFFICES ASSUME IInv, [Next]_vars PROVE IInv'
    OBVIOUS
  <1> USE ModulusPos
  <1>1. CASE ParseOption
    <2>1. Head(opts) \in Option /\ Tail(opts) \in Seq(Option)
      BY <1>1 DEF ParseOption, IInv
    <2>2. Head(opts).v \in Int
      BY <2>1 DEF Option
    <2> QED
      BY <1>1, <2>1, <2>2 DEF ParseOption, IInv, SentPair, ServedSum,
                              NoUnexpectedResult
  <1>2. CASE Fork
    BY <1>2 DEF Fork, IInv, SentPair, ServedSum, NoUnexpectedResult
  <1>3. CASE AddService
    BY <1>3 DEF AddService, IInv, SentPair, ServedSum, NoUnexpectedResult
  <1>4. CASE StartPool
    BY <1>4 DEF StartPool, IInv, SentPair, ServedSum, NoUnexpectedResult
  <1>5. CASE ParentReturn
    BY <1>5 DEF ParentReturn, IInv, SentPair, ServedSum, NoUnexpectedResult
  <1>6. CASE Serve
    BY <1>6 DEF Serve, IInv, SentPair, ServedSum, NoUnexpectedResult, NoMsg
  <1>7. CASE ClientStart
    BY <1>7 DEF ClientStart, IInv, SentPair, ServedSum, NoUnexpectedResult
  <1>8. CASE Attach
    BY <1>8 DEF Attach, IInv, SentPair, ServedSum, NoUnexpectedResult
  <1>9. CASE SendAdd
    BY <1>9 DEF SendAdd, IInv, SentPair, ServedSum, NoUnexpectedResult, NoMsg
  <1>10. CASE CheckReply
    <2>1. rep = ServedSum
      BY <1>10 DEF CheckReply, IInv
    <2>2. rep[1] = ToInt((iter + iter + 3) % Modulus)
      BY <2>1, SumWraps DEF IInv, ServedSum, SentPair
    <2> QED
      BY <1>10, <2>2 DEF CheckReply, IInv, SentPair, ServedSum,
                         NoUnexpectedResult, NoMsg
  <1>11. CASE ClientDone
    BY <1>11 DEF ClientDone, IInv, SentPair, ServedSum, NoUnexpectedResult
  <1>12. CASE UNCHANGED vars
    BY <1>12 DEF vars, IInv, SentPair, ServedSum, NoUnexpectedResult
  <1> QED
    BY <1>1, <1>2, <1>3, <1>4, <1>5, <1>6, <1>7, <1>8, <1>9, <1>10, <1>11,
       <1>12 DEF Next, Parent, Client

LEMMA IInvHolds == Spec => []IInv
  BY InitIInv, NextIInv, PTL DEF Spec

\* The end-to-end check of the benchmark never prints "Unexpected result",
\* for every width of int: the client's expected sum and the server's sum
\* wrap alike (NoUnexpectedResult, checked by the run for W = 4).
THEOREM NoUnexpectedResultHolds == Spec => []NoUnexpectedResult
  BY IInvHolds, PTL DEF IInv
=============================================================================
