----------------------------- MODULE MCTestUtil -----------------------------
(***************************************************************************)
(* The hex dump and the random numbers of testUtil.c for TLC.              *)
(*                                                                         *)
(* The dump: addresses 28 bits wide (seven hex digits, one more than       *)
(* %06llx pads to), indents around the largest that still fits in MAXSTR, *)
(* and sizes of zero, one, one line, one line and a byte, and two lines   *)
(* and a byte.                                                             *)
(*                                                                         *)
(* The random numbers on 4-bit words (lrand48 of 3 bits): both folds (mod  *)
(* <= 4 and mod <= 2), both sources of the word (mod <= 7 and above), and  *)
(* every mod of the word.                                                  *)
(***************************************************************************)
EXTENDS XDump

MCIndents == {0, 3, 137, 144, 145}
MCOffsets == {0, 8, 2^24 - 8}
MCSizes == {0, 1, 16, 17, 33}

VARIABLE mod

Rand == INSTANCE TestRand WITH W <- 4, CheckMods <- 1..15

\* The dump and the random numbers side by side: a test may call either
\* between the steps of the other, and neither touches the other's state.
TestInit == Init /\ Rand!Init

TestNext == \/ Next /\ UNCHANGED mod
            \/ Rand!Next /\ UNCHANGED vars

TestSpec == TestInit /\ [][TestNext]_<<vars, mod>>

\* testRandMod(mod) can return every value of [0, mod) (TestRand).
RandModCovers == Rand!RandModCovers

\* For a power-of-two mod, every value of [0, mod) comes from equally many
\* lrand48 results (TestRand).
RandModUniform == Rand!RandModUniform

=============================================================================
