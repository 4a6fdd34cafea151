------------------------------- MODULE BufCopy --------------------------------
(***************************************************************************)
(* Copying between data vectors: fuse_buf_copy and what it is built from,  *)
(* one step per system call.  A buffer is memory or a descriptor, which    *)
(* may seek and may ask for retries; a descriptor may deliver or accept    *)
(* less than asked, nothing, or fail.  A byte of the source is its         *)
(* position <<buffer, offset>>; every buffer has a descriptor of its own.  *)
(*                                                                         *)
(* A caller that reads a message in pieces (fuse_ll_copy_from_pipe) copies *)
(* the same source into one destination after the other.                   *)
(***************************************************************************)
EXTENDS Integers, DataVectors

CONSTANTS
  SrcVectors,   \* source vectors
  DstVectors,   \* destination vectors
  Bounce,       \* bytes of the intermediate buffer (4096 in the code)
  MaxPieces     \* bound: a source is read on while fewer buffers than this are done

(* struct fuse_buf: FUSE_BUF_IS_FD, FD_SEEK, FD_RETRY, the size, and how   *)
(* many bytes a source really has (a file may end before `size`).          *)
Buffer == [fd : BOOLEAN, seek : BOOLEAN, retry : BOOLEAN, size : Nat, has : Nat]

ASSUME BufAssumption ==
  /\ SrcVectors \subseteq Seq(Buffer) /\ DstVectors \subseteq Seq(Buffer)
  /\ \A v \in SrcVectors : \A i \in 1 .. Len(v) :
       v[i].has <= v[i].size /\ (~v[i].fd => v[i].has = v[i].size)
  /\ Bounce \in Nat \ {0} /\ MaxPieces \in Nat

VARIABLES
  src, dst,     \* the two vectors
  spos, dpos,   \* struct fuse_bufvec: idx (from 1) and off
  taken,        \* per source buffer: bytes read(2) has taken from its descriptor
  out,          \* per destination buffer: the bytes put into it
  earlier,      \* the buffers of earlier destinations
  cpc,          \* "next", inside fuse_buf_copy_one, or "done"
  moved,        \* `copied` of the function that fuse_buf_copy_one calls
  tmp, drained, \* intermediate buffer: its bytes, and how many are written
  copied, res   \* `copied` and the result of fuse_buf_copy

copyVars == <<src, dst, spos, dpos, taken, out, earlier, cpc, moved, tmp, drained,
              copied, res>>

Start0 == [idx |-> 1, off |-> 0]

CopyFrom(s, d) ==
  /\ src = s /\ dst = d
  /\ spos = Start0 /\ dpos = Start0
  /\ taken = [i \in 1 .. Len(src) |-> 0]
  /\ out = [i \in 1 .. Len(dst) |-> <<>>]
  /\ earlier = <<>>
  /\ cpc = "next" /\ moved = 0 /\ tmp = <<>> /\ drained = 0
  /\ copied = 0 /\ res = 0

CopyInit == \E s \in SrcVectors, d \in DstVectors : CopyFrom(s, d)

-------------------------------------------------------------------------------
(* The bytes a vector has room for, and those before a position.           *)
Room(v) == UNION {{i} \X (1 .. v[i].size) : i \in 1 .. Len(v)}
Before(v, p) == {x \in Room(v) : x[1] < p.idx \/ (x[1] = p.idx /\ x[2] <= p.off)}

(* fuse_buf_size: the sum of the sizes, as the number of bytes; its        *)
(* saturation at SIZE_MAX is out of reach of sizes that fit in memory.     *)
fuse_buf_size(v) == Cardinality(Room(v))

(* fuse_bufvec_current is NULL.                                            *)
AtEnd(v, p) == p.idx > Len(v)

AdvanceForgetsOff(v, p, n) ==   \* mutant: the offset is not reset
  LET o == p.off + n IN
  IF o # v[p.idx].size THEN [pos |-> [p EXCEPT !.off = o], more |-> TRUE]
  ELSE [pos |-> [idx |-> p.idx + 1, off |-> o], more |-> p.idx < Len(v)]

fuse_bufvec_advance(v, p, n) ==
  LET o == p.off + n IN
  IF o # v[p.idx].size THEN [pos |-> [p EXCEPT !.off = o], more |-> TRUE]
  ELSE IF p.idx = Len(v) THEN [pos |-> [idx |-> p.idx + 1, off |-> o], more |-> FALSE]
  ELSE [pos |-> [idx |-> p.idx + 1, off |-> 0], more |-> TRUE]

From == src[spos.idx]
To == dst[dpos.idx]

(* What fuse_buf_copy asks fuse_buf_copy_one for.                          *)
OneLen ==
  LET s == From.size - spos.off
      d == To.size - dpos.off
  IN IF s < d THEN s ELSE d

(* Bytes n of the current source buffer, k bytes after its position; a     *)
(* descriptor without FD_SEEK delivers what comes next.                    *)
Bytes(k, n) ==
  LET at == IF From.fd /\ ~From.seek THEN taken[spos.idx] ELSE spos.off + k
  IN [i \in 1 .. n |-> <<spos.idx, at + i>>]

Left(k) ==
  From.has - (IF From.fd /\ ~From.seek THEN taken[spos.idx] ELSE spos.off + k)

Take(n) == taken' = [taken EXCEPT ![spos.idx] = @ + n]

(* pwrite or memcpy k bytes after the destination's position; write        *)
(* appends.  What lies between, if anything, is a hole.                    *)
Put(k, bytes) ==
  LET old == out[dpos.idx]
      at == IF To.fd /\ ~To.seek THEN Len(old) ELSE dpos.off + k
      top == IF at + Len(bytes) > Len(old) THEN at + Len(bytes) ELSE Len(old)
  IN out' = [out EXCEPT ![dpos.idx] =
               [i \in 1 .. top |-> IF i > at /\ i <= at + Len(bytes) THEN bytes[i - at]
                                   ELSE IF i <= Len(old) THEN old[i] ELSE <<0, 0>>]]

(* fuse_buf_copy_one has returned r.                                       *)
Returned(r) ==
  /\ moved' = 0 /\ tmp' = <<>> /\ drained' = 0
  /\ IF r < 0
     THEN /\ cpc' = "done" /\ res' = IF copied = 0 THEN r ELSE copied
          /\ UNCHANGED <<spos, dpos, copied>>
     ELSE LET s == fuse_bufvec_advance(src, spos, r)
              d == fuse_bufvec_advance(dst, dpos, r)
              on == s.more /\ d.more /\ r = OneLen
          IN /\ copied' = copied + r
             /\ spos' = s.pos
             /\ dpos' = IF s.more THEN d.pos ELSE dpos     \* || skips the second
             /\ cpc' = IF on THEN "next" ELSE "done"
             /\ res' = IF on THEN res ELSE copied + r

vectors == <<src, dst, earlier>>
positions == <<spos, dpos, copied, res>>

-------------------------------------------------------------------------------
(* The loop of fuse_buf_copy: one of the vectors is used up.               *)
CopyEnds ==
  /\ cpc = "next"
  /\ AtEnd(src, spos) \/ AtEnd(dst, dpos)
  /\ cpc' = "done" /\ res' = copied
  /\ UNCHANGED <<vectors, spos, dpos, copied, taken, out, moved, tmp, drained>>

(* A call with a length of 0 returns 0 whatever the buffers are.           *)
CopyNone ==
  /\ cpc = "next" /\ ~AtEnd(src, spos) /\ ~AtEnd(dst, dpos) /\ OneLen = 0
  /\ Returned(0)
  /\ UNCHANGED <<vectors, taken, out>>

(* Memory to memory, at once.                                              *)
CopyMemory ==
  /\ cpc = "next" /\ ~AtEnd(src, spos) /\ ~AtEnd(dst, dpos) /\ OneLen > 0
  /\ ~From.fd /\ ~To.fd
  /\ Put(0, Bytes(0, OneLen))
  /\ Returned(OneLen)
  /\ UNCHANGED <<vectors, taken>>

(* The other paths of fuse_buf_copy_one; without HAVE_SPLICE descriptors   *)
(* are copied through the intermediate buffer whatever the flags are.      *)
CopyCalls ==
  /\ cpc = "next" /\ ~AtEnd(src, spos) /\ ~AtEnd(dst, dpos) /\ OneLen > 0
  /\ From.fd \/ To.fd
  /\ cpc' = IF ~From.fd THEN "write" ELSE IF ~To.fd THEN "read" ELSE "fill"
  /\ UNCHANGED <<vectors, positions, taken, out, moved, tmp, drained>>

(* fuse_buf_write: one write(2) or pwrite(2) that returns n.               *)
WriteCall(n) ==
  /\ cpc = "write" /\ n <= OneLen - moved
  /\ IF n <= 0
     THEN Returned(IF n < 0 /\ moved = 0 THEN -1 ELSE moved) /\ UNCHANGED out
     ELSE /\ Put(moved, Bytes(moved, n))
          /\ IF ~To.retry \/ moved + n = OneLen
             THEN Returned(moved + n)
             ELSE moved' = moved + n /\ UNCHANGED <<positions, cpc, tmp, drained>>
  /\ UNCHANGED <<vectors, taken>>

ReadCallNoAdvance(n) ==         \* mutant: dst_off is not advanced
  /\ cpc = "read" /\ n <= OneLen - moved /\ n <= Left(moved) /\ (n = 0 => Left(moved) = 0)
  /\ IF n <= 0
     THEN Returned(IF n < 0 /\ moved = 0 THEN -1 ELSE moved) /\ UNCHANGED <<out, taken>>
     ELSE /\ Put(0, Bytes(moved, n)) /\ Take(n)
          /\ IF ~From.retry \/ moved + n = OneLen
             THEN Returned(moved + n)
             ELSE moved' = moved + n /\ UNCHANGED <<positions, cpc, tmp, drained>>
  /\ UNCHANGED vectors

(* fuse_buf_read: one read(2) or pread(2); 0 is the end of the file.       *)
ReadCall(n) ==
  /\ cpc = "read" /\ n <= OneLen - moved /\ n <= Left(moved) /\ (n = 0 => Left(moved) = 0)
  /\ IF n <= 0
     THEN Returned(IF n < 0 /\ moved = 0 THEN -1 ELSE moved) /\ UNCHANGED <<out, taken>>
     ELSE /\ Put(moved, Bytes(moved, n)) /\ Take(n)
          /\ IF ~From.retry \/ moved + n = OneLen
             THEN Returned(moved + n)
             ELSE moved' = moved + n /\ UNCHANGED <<positions, cpc, tmp, drained>>
  /\ UNCHANGED vectors

(* fuse_buf_fd_to_fd: this_len, and its fuse_buf_read ...                  *)
ThisLen == IF Bounce < OneLen - moved THEN Bounce ELSE OneLen - moved

FillCall(n) ==
  /\ cpc = "fill"
  /\ LET k == moved + Len(tmp) IN
     /\ n <= ThisLen - Len(tmp) /\ n <= Left(k) /\ (n = 0 => Left(k) = 0)
     /\ IF n <= 0
        THEN IF tmp = <<>>
             THEN Returned(IF n < 0 /\ moved = 0 THEN -1 ELSE moved) /\ UNCHANGED taken
             ELSE cpc' = "drain" /\ UNCHANGED <<positions, taken, moved, tmp, drained>>
        ELSE /\ tmp' = tmp \o Bytes(k, n) /\ Take(n)
             /\ cpc' = IF ~From.retry \/ Len(tmp) + n = ThisLen THEN "drain" ELSE "fill"
             /\ UNCHANGED <<positions, moved, drained>>
  /\ UNCHANGED <<vectors, out>>

(* ... and what follows its fuse_buf_write of w bytes.                     *)
Drained(w) ==
  IF w < ThisLen \/ moved + w = OneLen
  THEN Returned(moved + w)
  ELSE /\ moved' = moved + w /\ tmp' = <<>> /\ drained' = 0 /\ cpc' = "fill"
       /\ UNCHANGED positions

DrainCall(n) ==
  /\ cpc = "drain" /\ n <= Len(tmp) - drained
  /\ IF n <= 0
     THEN /\ IF drained = 0
             THEN Returned(IF n < 0 /\ moved = 0 THEN -1 ELSE moved)
             ELSE Drained(drained)
          /\ UNCHANGED out
     ELSE /\ Put(moved + drained, SubSeq(tmp, drained + 1, drained + n))
          /\ IF ~To.retry \/ drained + n = Len(tmp)
             THEN Drained(drained + n)
             ELSE drained' = drained + n /\ UNCHANGED <<positions, cpc, moved, tmp>>
  /\ UNCHANGED <<vectors, taken>>

(* fuse_ll_copy_from_pipe filled the memory it was given; the next piece   *)
(* of the message goes into a new destination.                             *)
NextPiece(v) ==
  /\ cpc = "done" /\ res = fuse_buf_size(dst) /\ res > 0
  /\ \A i \in 1 .. Len(dst) : ~dst[i].fd
  /\ Len(earlier) < MaxPieces
  /\ dst' = v /\ dpos' = Start0 /\ out' = [i \in 1 .. Len(v) |-> <<>>]
  /\ earlier' = earlier \o out
  /\ copied' = 0 /\ res' = 0 /\ cpc' = "next"
  /\ UNCHANGED <<src, spos, taken, moved, tmp, drained>>

Outcomes == -1 .. fuse_buf_size(src)

CopyNext ==
  \/ CopyEnds \/ CopyNone \/ CopyMemory \/ CopyCalls
  \/ \E n \in Outcomes : WriteCall(n) \/ ReadCall(n) \/ FillCall(n) \/ DrainCall(n)
  \/ \E v \in DstVectors : NextPiece(v)

CopySpec == CopyInit /\ [][CopyNext]_copyVars

-------------------------------------------------------------------------------
CopyTypeOK ==
  /\ src \in Seq(Buffer) /\ dst \in Seq(Buffer)
  /\ spos \in [idx : 1 .. Len(src) + 1, off : Nat]
  /\ dpos \in [idx : 1 .. Len(dst) + 1, off : Nat]
  /\ taken \in [1 .. Len(src) -> Nat]
  /\ \A i \in 1 .. Len(src) : taken[i] <= src[i].has
  /\ earlier \in Seq(Seq(Nat \X Nat)) /\ out \in Seq(Seq(Nat \X Nat))
  /\ cpc \in {"next", "write", "read", "fill", "drain", "done"}
  /\ tmp \in Seq(Nat \X Nat) /\ Len(tmp) <= Bounce
  /\ moved \in Nat /\ drained \in 0 .. Len(tmp)
  /\ copied \in Nat /\ res \in -1 .. copied

(* Whatever the descriptors deliver, accept or refuse, what arrives is the *)
(* source from its start, each byte once, in order, with nothing skipped - *)
(* over all the pieces a message is read in - and the count returned is    *)
(* the number of bytes that arrived.  No destination is overrun, and one   *)
(* is used only when those before it are full.                             *)
CopiedInOrder ==
  LET all == earlier \o out
      Arrived == {ByteAt(all, p) : p \in Places(all)}
  IN /\ Arrived \subseteq Room(src)
     /\ \A p, q \in Places(all) : Precedes(p, q) => Precedes(ByteAt(all, p), ByteAt(all, q))
     /\ \A x \in Arrived, y \in Room(src) : Precedes(y, x) => y \in Arrived
     /\ cpc = "next" => Stored(out) = copied
     /\ cpc = "done" => Stored(out) = IF res < 0 THEN 0 ELSE res
     /\ \A j \in 1 .. Len(dst) :
          /\ Len(out[j]) <= dst[j].size
          /\ \A i \in 1 .. j - 1 : out[j] # <<>> => Len(out[i]) = dst[i].size

(* The source's position counts the bytes copied, so that a next piece     *)
(* begins where the last one stopped.  So does the destination's, unless   *)
(* the source has just ended: then it still lacks the last call's bytes.   *)
(* The assertions of fuse_bufvec_advance hold.                             *)
PositionsInStep ==
  /\ cpc \in {"next", "done"} =>
       /\ Cardinality(Before(src, spos)) = Stored(earlier) + copied
       /\ AtEnd(src, spos) \/ Cardinality(Before(dst, dpos)) = copied
       /\ Cardinality(Before(dst, dpos)) <= copied
  /\ ~AtEnd(src, spos) => spos.off <= From.size
  /\ ~AtEnd(dst, dpos) => dpos.off <= To.size

-------------------------------------------------------------------------------
(* Toward both.  When the k bytes behind the positions have been written,  *)
(* the buffers b before the destination's position are full, those behind  *)
(* it empty, and all that arrived is what lies before the source's.        *)
At(p, k) == [idx |-> p.idx, off |-> p.off + k]

InOrder(b, R) ==
  /\ {ByteAt(b, p) : p \in Places(b)} = R
  /\ \A p, q \in Places(b) : Precedes(p, q) => Precedes(ByteAt(b, p), ByteAt(b, q))

Filled(b) ==
  \A j \in 1 .. Len(dst) :
    /\ Len(b[j]) <= dst[j].size
    /\ \A i \in 1 .. j - 1 : b[j] # <<>> => Len(b[i]) = dst[i].size

Written(b, k) ==
  /\ b \in Seq(Seq(Nat \X Nat)) /\ Len(b) = Len(dst)
  /\ InOrder(earlier \o b, Before(src, At(spos, k)))
  /\ Stored(b) = copied + k

Pointed(b, k) ==
  /\ \A j \in 1 .. dpos.idx - 1 : Len(b[j]) = dst[j].size
  /\ dpos.idx <= Len(dst) => Len(b[dpos.idx]) = dpos.off + k
  /\ \A j \in dpos.idx + 1 .. Len(dst) : b[j] = <<>>

(* Where the source's descriptors are; only a copy to a descriptor may     *)
(* lose what it has read.                                                  *)
TakenInv ==
  \A i \in 1 .. Len(src) : src[i].fd =>
    /\ i = spos.idx => taken[i] = spos.off + moved + Len(tmp)
    /\ i > spos.idx => taken[i] = 0

(* What the functions below fuse_buf_copy_one know.                        *)
CallInv ==
  /\ cpc \in {"next", "done"} => moved = 0
  /\ cpc \notin {"fill", "drain"} => tmp = <<>>
  /\ cpc # "drain" => drained = 0
  /\ cpc \in {"write", "read", "fill", "drain"} =>
       ~AtEnd(src, spos) /\ ~AtEnd(dst, dpos) /\ moved < OneLen
  /\ cpc = "write" => ~From.fd
  /\ cpc = "read" => From.fd
  /\ cpc \in {"fill", "drain"} =>
       /\ From.fd /\ To.fd
       /\ Len(tmp) <= ThisLen
       /\ \A i \in 1 .. Len(tmp) : tmp[i] = <<spos.idx, spos.off + moved + i>>
  /\ cpc = "fill" => Len(tmp) < ThisLen
  /\ cpc = "drain" => drained < Len(tmp)

CountInv ==
  /\ Cardinality(Before(src, spos)) = Stored(earlier) + copied
  /\ AtEnd(src, spos) \/ Cardinality(Before(dst, dpos)) = copied
  /\ Cardinality(Before(dst, dpos)) <= copied
  /\ ~AtEnd(src, spos) => spos.off <= From.size
  /\ ~AtEnd(dst, dpos) => dpos.off <= To.size

CopyInv ==
  /\ CopyTypeOK /\ CallInv /\ CountInv
  /\ Written(out, moved + drained) /\ Filled(out)
  /\ cpc # "done" => Pointed(out, moved + drained)
  /\ (cpc = "done" => \A i \in 1 .. Len(dst) : ~dst[i].fd) => TakenInv
  /\ IF cpc = "done" THEN res = copied \/ (res = -1 /\ copied = 0) ELSE res = 0
===============================================================================
