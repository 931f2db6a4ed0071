---------------------------- MODULE MCTimeUtil ----------------------------
(* TimeUtil with a second of 4 ticks (timespec) or 3 ticks (timeval), so   *)
(* that a delay of 5 ticks straddles second boundaries and the borrow     *)
(* branch of tsDelta is taken.                                            *)
EXTENDS TimeUtil
=============================================================================
