------------------------------ MODULE MCUkfsMount -----------------------------
(* Instances of UkfsMount for TLC.                                         *)
EXTENDS UkfsMount

CONSTANTS t1, t2, t3
===============================================================================
