----------------------------- MODULE TimeUtil -----------------------------
(***************************************************************************)
(* The time utilities of src/test/testUtil.c: tsDelta and tvDelta, the     *)
(* differences of two normalised struct timespec / struct timeval, and the *)
(* two delay loops built on them, testDelay (nanosleep, which a signal may *)
(* cut short) and testDelaySpin (busy loop) -- the one binderAddInts calls *)
(* after every round trip.                                                 *)
(*                                                                         *)
(* A time is a record [sec, nsec] (usec for a timeval); NSecsPerSec and    *)
(* USecsPerSec are 10^9 and 10^6 in the code.  CLOCK_MONOTONIC is `now`,   *)
(* counted in nanoseconds; the delay amt is counted in the same unit, so   *)
(* ts2double's division by nSecsPerSec and the comparison with the float   *)
(* amt become an exact comparison of integers.                             *)
(***************************************************************************)
EXTENDS Integers

CONSTANTS
    NSecsPerSec,   \* nSecsPerSec
    USecsPerSec,   \* uSecsPerSec
    MaxSec,        \* the seconds of the times the reference check ranges over
    Amt,           \* the amt argument of the delay
    MaxStep        \* the most the clock advances in one step

ASSUME TimeAssumption ==
    /\ NSecsPerSec \in Nat \ {0}
    /\ USecsPerSec \in Nat \ {0}
    /\ MaxSec \in Nat
    /\ Amt \in Nat
    /\ MaxStep \in Nat \ {0}

\* The nanoseconds (microseconds) a timespec (timeval) stands for.
TsValue(t) == t.sec * NSecsPerSec + t.nsec
TvValue(t) == t.sec * USecsPerSec + t.usec

\* A normalised timespec: the precondition tsDelta asserts.
TsNormal(t) == t.nsec \in 0..(NSecsPerSec - 1)
TvNormal(t) == t.usec \in 0..(USecsPerSec - 1)

\* Mutant: the borrow branch forgets rv.tv_sec--.
TsDeltaNoBorrow(first, second) ==
    IF second.nsec >= first.nsec
      THEN [sec |-> second.sec - first.sec, nsec |-> second.nsec - first.nsec]
      ELSE [sec |-> second.sec - first.sec,
            nsec |-> (second.nsec + NSecsPerSec) - first.nsec]

\* Mutant: the nanoseconds are subtracted without a borrow.
TsDeltaUnnormalised(first, second) ==
    [sec |-> second.sec - first.sec, nsec |-> second.nsec - first.nsec]

\* tsDelta(first, second).
TsDelta(first, second) ==
    IF second.nsec >= first.nsec
      THEN [sec |-> second.sec - first.sec, nsec |-> second.nsec - first.nsec]
      ELSE [sec |-> second.sec - first.sec - 1,
            nsec |-> (second.nsec + NSecsPerSec) - first.nsec]

\* Mutant: the borrow adds the seconds' worth in the wrong unit.
TvDeltaWrongUnit(first, second) ==
    IF second.usec >= first.usec
      THEN [sec |-> second.sec - first.sec, usec |-> second.usec - first.usec]
      ELSE [sec |-> second.sec - first.sec - 1,
            usec |-> (second.usec + NSecsPerSec) - first.usec]

\* tvDelta(first, second).
TvDelta(first, second) ==
    IF second.usec >= first.usec
      THEN [sec |-> second.sec - first.sec, usec |-> second.usec - first.usec]
      ELSE [sec |-> second.sec - first.sec - 1,
            usec |-> (second.usec + USecsPerSec) - first.usec]

\* The clock reading as clock_gettime(CLOCK_MONOTONIC) fills it in.
ToTs(n) == [sec |-> n \div NSecsPerSec, nsec |-> n % NSecsPerSec]

-----------------------------------------------------------------------------
(* The delay loops.                                                        *)


VARIABLES
    now,      \* CLOCK_MONOTONIC
    fn,       \* which delay the caller runs
    pc,       \* where the delay is
    start,    \* the local start
    current   \* the local current

vars == <<now, fn, pc, start, current>>

\* The clock never needs to pass this for a delay of Amt to end.
ClockCap == TsValue(start) + Amt + 2 * MaxStep

\* Time passes while the delay runs or spins.
Tick ==
    /\ pc \in {"check", "sleep"}
    /\ \E d \in 1..MaxStep : now + d <= ClockCap /\ now' = now + d
    /\ UNCHANGED <<fn, pc, start, current>>

\* clock_gettime(CLOCK_MONOTONIC, &start);
Begin ==
    /\ pc = "begin"
    /\ start' = ToTs(now)
    /\ pc' = "check"
    /\ UNCHANGED <<now, fn, current>>

\* Mutant: tsDelta is given its arguments the wrong way round.
CheckSwapped ==
    /\ pc = "check"
    /\ current' = ToTs(now)
    /\ pc' = IF TsValue(TsDelta(ToTs(now), start)) > Amt THEN "returned"
             ELSE IF fn = "testDelay" THEN "sleep" ELSE "check"
    /\ UNCHANGED <<now, fn, start>>

\* clock_gettime(..., &current); delta = tsDelta(&start, &current);
\* if (ts2double(&delta) > amt) break; otherwise testDelay goes to sleep
\* and testDelaySpin reads the clock again.
Check ==
    /\ pc = "check"
    /\ current' = ToTs(now)
    /\ pc' = IF TsValue(TsDelta(start, ToTs(now))) > Amt THEN "returned"
             ELSE IF fn = "testDelay" THEN "sleep" ELSE "check"
    /\ UNCHANGED <<now, fn, start>>

\* Mutant: the loop ends after nanosleep, trusting it to have slept the
\* whole remaining time.
SleepTrusting ==
    /\ pc = "sleep"
    /\ \E n \in now..ClockCap : now' = n
    /\ pc' = "returned"
    /\ UNCHANGED <<fn, start, current>>

\* remaining = double2ts(amt - ts2double(&delta)); nanosleep(&remaining):
\* the clock passes at least `remaining`, unless a signal ends the sleep
\* early, after any shorter time.
Sleep ==
    /\ pc = "sleep"
    /\ \E n \in now..ClockCap : now' = n
    /\ pc' = "check"
    /\ UNCHANGED <<fn, start, current>>

Init ==
    /\ now \in 0..(NSecsPerSec - 1)
    /\ fn \in {"testDelay", "testDelaySpin"}
    /\ pc = "begin"
    /\ start = ToTs(0)
    /\ current = ToTs(0)

Next == Tick \/ Begin \/ Check \/ Sleep

\* The caller's thread runs whenever it can and the clock keeps moving.
Fairness == WF_vars(Begin \/ Check \/ Sleep) /\ WF_vars(Tick)

Spec == Init /\ [][Next]_vars
FairSpec == Spec /\ Fairness

-----------------------------------------------------------------------------
(* Properties.                                                             *)

\* Every variable has its type.
TypeOK ==
    /\ now \in Nat
    /\ fn \in {"testDelay", "testDelaySpin"}
    /\ pc \in {"begin", "check", "sleep", "returned"}
    /\ TsNormal(start) /\ TsNormal(current)

\* The times the reference check ranges over.
TimeSpecs == [sec : 0..MaxSec, nsec : 0..(NSecsPerSec - 1)]
TimeVals == [sec : 0..MaxSec, usec : 0..(USecsPerSec - 1)]

\* tsDelta computes the difference of two normalised times, in either order
\* (a negative difference has negative seconds), and normalises it.
TsDeltaCorrect ==
    \A a, b \in TimeSpecs :
        /\ TsValue(TsDelta(a, b)) = TsValue(b) - TsValue(a)
        /\ TsNormal(TsDelta(a, b))

\* tvDelta does the same for microsecond times.
TvDeltaCorrect ==
    \A a, b \in TimeVals :
        /\ TvValue(TvDelta(a, b)) = TvValue(b) - TvValue(a)
        /\ TvNormal(TvDelta(a, b))

\* Every comparison the delay makes measures exactly the time that has
\* passed since it started, as a normalised timespec, whichever of the two
\* readings has the larger nanoseconds: tsDelta's borrow is right on the
\* clock readings the loop really takes.
DeltaExact ==
    pc # "begin" =>
        LET delta == TsDelta(start, ToTs(now))
        IN TsValue(delta) = now - TsValue(start) /\ TsNormal(delta)

\* "Delays for the number of seconds specified by amt or a greater amount":
\* once testDelay or testDelaySpin returns, at least amt has passed since
\* it started, however the clock readings straddle a second boundary and
\* however often nanosleep was cut short.
DelayAtLeast == pc = "returned" => now - TsValue(start) >= Amt

\* The delay returns.
DelayReturns == <>(pc = "returned")

=============================================================================
