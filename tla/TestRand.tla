------------------------------ MODULE TestRand ------------------------------
(***************************************************************************)
(* The random numbers of src/test/testUtil.c: testRand merges two lrand48 *)
(* results into one unsigned word, testRandMod reduces a word to [0, mod)  *)
(* after folding its halves (and quarters) together for small mods, and   *)
(* testRandBool is testRandMod(2).  The words are W bits wide (32 in the  *)
(* code); lrand48 returns W - 1 bits.  The generator itself is left out:  *)
(* its results are inputs, any value of 0..L48Max.  The functions keep no *)
(* state of their own; the state is the mod of the call a test makes, and *)
(* the properties hold of every draw that call can consume.               *)
(***************************************************************************)
EXTENDS Integers, FiniteSets, Bitwise

CONSTANTS
    W,          \* the width of uint32_t, a multiple of 4
    CheckMods   \* the mods the tests may pass, in 1..2^W - 1

Word == 2^W
\* lrand48maxVal: lrand48 returns 0 .. 2^31 - 1.
L48Max == 2^(W - 1) - 1
L48 == 0..L48Max

\* Mutant: the second lrand48 call is not merged in.
TestRandOneCall(a, b) == a

\* testRand(): val = lrand48(); val ^= lrand48() << 1; in uint32_t.
TestRand(a, b) == a ^^ ((b * 2) % Word)

\* Mutant: the halves are merged with | rather than ^.
FoldOr(mod, val) ==
    LET h == IF mod <= 2^(W \div 2)
               THEN (val % 2^(W \div 2)) | (val \div 2^(W \div 2)) ELSE val
    IN IF mod <= 2^(W \div 4)
         THEN (h % 2^(W \div 4)) | (h \div 2^(W \div 4)) ELSE h

\* For mod <= 0x10000: val = (val & 0xffff) ^ (val >> 16); and for
\* mod <= 0x100 further val = (val & 0xff) ^ (val >> 8).
Fold(mod, val) ==
    LET h == IF mod <= 2^(W \div 2)
               THEN (val % 2^(W \div 2)) ^^ (val \div 2^(W \div 2)) ELSE val
    IN IF mod <= 2^(W \div 4)
         THEN (h % 2^(W \div 4)) ^^ (h \div 2^(W \div 4)) ELSE h

\* The word testRandMod reduces: lrand48() when it has enough bits for mod,
\* testRand() otherwise.
RandWord(mod, a, b) == IF mod <= L48Max THEN a ELSE TestRand(a, b)

\* testRandMod(mod), given the lrand48 results a and b it consumes (b only
\* when it calls testRand).
RandMod(mod, a, b) == Fold(mod, RandWord(mod, a, b)) % mod

\* The pairs of lrand48 results a call with mod m consumes.
Draws(m) == IF m <= L48Max THEN {<<a, 0>> : a \in L48} ELSE L48 \X L48

-----------------------------------------------------------------------------
(* The calls.                                                              *)

VARIABLE mod   \* the argument of the testRandMod call a test makes

\* A test calls testRandMod(mod) with any mod it needs.
CallRandMod == mod' \in CheckMods

\* testRandBool() is testRandMod(2).
CallRandBool == mod' = 2

Init == mod \in CheckMods

Next == CallRandMod \/ CallRandBool

Spec == Init /\ [][Next]_mod

-----------------------------------------------------------------------------
(* Properties.                                                             *)

\* The powers of two among the checked mods.
Pow2Mods == {m \in CheckMods : \E k \in 1..(W - 1) : m = 2^k}

\* testRandMod(mod) can return every value of [0, mod): no value is made
\* unreachable by the choice between lrand48 and testRand, by testRand's
\* merge of two results or by the folds for small mods.
RandModCovers ==
    LET result(d) == RandMod(mod, d[1], d[2])
    IN /\ \A d \in Draws(mod) : result(d) \in 0..(mod - 1)
       /\ \A r \in 0..(mod - 1) : \E d \in Draws(mod) : result(d) = r

\* For a power-of-two mod, every value of [0, mod) comes from equally many
\* lrand48 results: the folds and the merge keep a uniform word uniform.
RandModUniform ==
    mod \in Pow2Mods =>
        LET out == [d \in Draws(mod) |-> RandMod(mod, d[1], d[2])]
            count(r) == Cardinality({d \in Draws(mod) : out[d] = r})
        IN \A r \in 0..(mod - 1) : count(r) * mod = Cardinality(Draws(mod))

=============================================================================
