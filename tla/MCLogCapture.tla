---------------------------- MODULE MCLogCapture ----------------------------
(* Small instances of LogCapture for TLC: two threads of TDLib.            *)
EXTENDS LogCapture, TLC

CONSTANTS t1, t2
MCThreads == {t1, t2}
Symmetry == Permutations(MCThreads)
=============================================================================
