----------------------------- MODULE DataVectors ------------------------------
(***************************************************************************)
(* The bytes of a vector of buffers.  A place is the number of a buffer    *)
(* and of a byte in it; places are ordered as a reader of the vector meets *)
(* them.                                                                   *)
(***************************************************************************)
EXTENDS Naturals, Sequences, FiniteSets

Places(b) == UNION {{i} \X (1 .. Len(b[i])) : i \in 1 .. Len(b)}
Precedes(p, q) == p[1] < q[1] \/ (p[1] = q[1] /\ p[2] < q[2])

ByteAt(b, p) == b[p[1]][p[2]]

(* How many bytes the buffers hold.                                        *)
Stored(b) == Cardinality(Places(b))
===============================================================================
