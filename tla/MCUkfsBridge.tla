----------------------------- MODULE MCUkfsBridge -----------------------------
(* Instances of UkfsBridge for TLC.                                        *)
EXTENDS UkfsBridge, TLC

CONSTANTS t1, t2, t3, d1, d2

ThreadSymmetry == Permutations(Threads) \cup Permutations(Daemons)
===============================================================================
