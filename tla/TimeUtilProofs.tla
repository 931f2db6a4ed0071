--------------------------- MODULE TimeUtilProofs ---------------------------
(***************************************************************************)
(* Proofs, for every length of a second and every delay, that tsDelta and  *)
(* tvDelta compute normalised differences and that testDelay and          *)
(* testDelaySpin never return before amt has passed.                       *)
(***************************************************************************)
EXTENDS TimeUtil, TLAPS

USE TimeAssumption

\* tsDelta of two normalised times, whatever their seconds, is the
\* normalised difference.
LEMMA TsDeltaExact ==
    ASSUME NEW a, NEW b,
           a.sec \in Int, b.sec \in Int, TsNormal(a), TsNormal(b)
    PROVE  /\ TsValue(TsDelta(a, b)) = TsValue(b) - TsValue(a)
           /\ TsNormal(TsDelta(a, b))
<1>1. CASE b.nsec >= a.nsec
  BY <1>1 DEF TsDelta, TsValue, TsNormal
<1>2. CASE ~(b.nsec >= a.nsec)
  BY <1>2 DEF TsDelta, TsValue, TsNormal
<1> QED
  BY <1>1, <1>2

\* The same for tvDelta.
LEMMA TvDeltaExact ==
    ASSUME NEW a, NEW b,
           a.sec \in Int, b.sec \in Int, TvNormal(a), TvNormal(b)
    PROVE  /\ TvValue(TvDelta(a, b)) = TvValue(b) - TvValue(a)
           /\ TvNormal(TvDelta(a, b))
<1>1. CASE b.usec >= a.usec
  BY <1>1 DEF TvDelta, TvValue, TvNormal
<1>2. CASE ~(b.usec >= a.usec)
  BY <1>2 DEF TvDelta, TvValue, TvNormal
<1> QED
  BY <1>1, <1>2

\* tsDelta is correct on every pair of the times the TLC run enumerates,
\* for every length of a second and every range of seconds.
THEOREM TsDeltaCorrectHolds == TsDeltaCorrect
<1> SUFFICES ASSUME NEW a \in TimeSpecs, NEW b \in TimeSpecs
             PROVE  /\ TsValue(TsDelta(a, b)) = TsValue(b) - TsValue(a)
                    /\ TsNormal(TsDelta(a, b))
  BY DEF TsDeltaCorrect
<1> QED
  BY TsDeltaExact DEF TimeSpecs, TsNormal

\* tvDelta is correct on every pair of the times the TLC run enumerates.
THEOREM TvDeltaCorrectHolds == TvDeltaCorrect
<1> SUFFICES ASSUME NEW a \in TimeVals, NEW b \in TimeVals
             PROVE  /\ TvValue(TvDelta(a, b)) = TvValue(b) - TvValue(a)
                    /\ TvNormal(TvDelta(a, b))
  BY DEF TvDeltaCorrect
<1> QED
  BY TvDeltaExact DEF TimeVals, TvNormal

-----------------------------------------------------------------------------
(* The delay.                                                              *)

\* A clock reading split into seconds and nanoseconds stands for the same
\* time and is normalised.
LEMMA ToTsExact ==
    ASSUME NEW n \in Nat
    PROVE  /\ TsValue(ToTs(n)) = n
           /\ TsNormal(ToTs(n))
           /\ ToTs(n).sec \in Nat
  BY DEF ToTs, TsValue, TsNormal

\* The delay's invariant: the start time is a normalised reading, the clock
\* has not gone back past it, and the delay has returned only after amt.
DelayInv ==
    /\ now \in Nat
    /\ start.sec \in Nat /\ TsNormal(start)
    /\ pc \in {"begin", "check", "sleep", "returned"}
    /\ pc # "begin" => TsValue(start) <= now
    /\ DelayAtLeast

\* DelayInv holds in every state of the delay.
LEMMA DelayInvariant == Spec => []DelayInv
<1>1. Init => DelayInv
  BY ToTsExact DEF Init, DelayInv, DelayAtLeast
<1>2. DelayInv /\ [Next]_vars => DelayInv'
  <2> SUFFICES ASSUME DelayInv, [Next]_vars PROVE DelayInv'
    OBVIOUS
  <2>1. CASE Tick
    <3>1. PICK d \in 1..MaxStep : now' = now + d
      BY <2>1 DEF Tick
    <3>2. UNCHANGED <<fn, pc, start, current>> /\ pc \in {"check", "sleep"}
      BY <2>1 DEF Tick
    <3> QED
      BY <3>1, <3>2 DEF DelayInv, DelayAtLeast, TsNormal, TsValue
  <2>2. CASE Begin
    BY <2>2, ToTsExact DEF Begin, DelayInv, DelayAtLeast
  <2>3. CASE Check
    <3>1. start.sec \in Int /\ ToTs(now).sec \in Int
          /\ TsNormal(start) /\ TsNormal(ToTs(now))
      BY ToTsExact DEF DelayInv
    <3>2. TsValue(TsDelta(start, ToTs(now))) = TsValue(ToTs(now)) - TsValue(start)
      BY <3>1, TsDeltaExact
    <3>3. TsValue(ToTs(now)) = now
      BY ToTsExact DEF DelayInv
    <3>4. TsValue(start) \in Int
      BY DEF DelayInv, TsValue, TsNormal
    <3>5. UNCHANGED <<now, fn, start>> /\ pc = "check"
      BY <2>3 DEF Check
    <3>6. pc' = "returned" => now - TsValue(start) > Amt
      BY <2>3, <3>2, <3>3, <3>4 DEF Check
    <3>7. pc' \in {"check", "sleep", "returned"}
      BY <2>3 DEF Check
    <3> QED
      BY <3>4, <3>5, <3>6, <3>7 DEF DelayInv, DelayAtLeast
  <2>4. CASE Sleep
    <3>1. PICK n \in now..ClockCap : now' = n
      BY <2>4 DEF Sleep
    <3>2. UNCHANGED <<fn, start, current>> /\ pc = "sleep" /\ pc' = "check"
      BY <2>4 DEF Sleep
    <3> QED
      BY <3>1, <3>2 DEF DelayInv, DelayAtLeast, TsNormal, TsValue
  <2>5. CASE UNCHANGED vars
    BY <2>5 DEF vars, DelayInv, DelayAtLeast
  <2> QED
    BY <2>1, <2>2, <2>3, <2>4, <2>5 DEF Next
<1> QED
  BY <1>1, <1>2, PTL DEF Spec

\* testDelay and testDelaySpin return only once at least amt has passed.
THEOREM DelayAtLeastHolds == Spec => []DelayAtLeast
<1>1. DelayInv => DelayAtLeast
  BY DEF DelayInv
<1> QED
  BY <1>1, DelayInvariant, PTL

\* Every tsDelta the delay computes, on the start reading and the current
\* one, is the exact elapsed time and is normalised.
THEOREM DeltaExactHolds == Spec => []DeltaExact
<1>1. DelayInv => DeltaExact
  <2> SUFFICES ASSUME DelayInv, pc # "begin"
               PROVE  /\ TsValue(TsDelta(start, ToTs(now))) = now - TsValue(start)
                      /\ TsNormal(TsDelta(start, ToTs(now)))
    BY DEF DeltaExact
  <2>1. start.sec \in Int /\ ToTs(now).sec \in Int
        /\ TsNormal(start) /\ TsNormal(ToTs(now))
    BY ToTsExact DEF DelayInv
  <2>2. TsValue(ToTs(now)) = now
    BY ToTsExact DEF DelayInv
  <2> QED
    BY <2>1, <2>2, TsDeltaExact
<1> QED
  BY <1>1, DelayInvariant, PTL

=============================================================================
