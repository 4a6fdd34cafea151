------------------------------ MODULE MCFuseFile ------------------------------
(* Instances of FuseFile for TLC.                                          *)
EXTENDS FuseFile, TLC

CONSTANTS t1, t2, n1, n2, f1, f2, f3, outer

FileSymmetry == Permutations(Threads) \cup Permutations(Fds) \cup Permutations(Files)
===============================================================================
