-------------------------- MODULE MCBinderAddInts --------------------------
(* Small instances of BinderAddInts for TLC: 4-bit int, so that the sums  *)
(* overflow from iteration 3 on and -n values wrap at 16.                 *)
EXTENDS BinderAddInts

N(v) == [f |-> "n", v |-> v]
C(v) == [f |-> "c", v |-> v]
S(v) == [f |-> "s", v |-> v]

\* Every outcome of getopt: a pinned client or server, an unavailable CPU,
\* a count, a count that is 0 or wraps, the usage flag, an unknown flag.
MCOptLists ==
    { <<>>, <<N(3)>>, <<C(0), N(2)>>, <<S(1), N(2)>>, <<C(0), S(0), N(1)>>,
      <<C(5)>>, <<N(0)>>, <<N(16)>>, <<N(17)>>, <<N(-1)>>,
      <<[f |-> "?", v |-> 0]>>, <<N(2), [f |-> "x", v |-> 0]>> }

\* The fault-free options of the termination run.
MCLiveOptLists == { <<N(3)>>, <<C(0), S(1), N(2)>>, <<N(-1)>> }
=============================================================================
