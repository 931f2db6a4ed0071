-------------------------- MODULE MCAppOpsManager --------------------------
(* Small instances of AppOpsManager for TLC.                               *)
EXTENDS AppOpsManager, TLC

CONSTANTS t1, t2

MCThreads == {t1, t2}
\* checkOp stands for the methods that make one plain remote call.
MCOps == {"checkOp", "startOp", "finishOp"}

Symm == Permutations(MCThreads)
=============================================================================
