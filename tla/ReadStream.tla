------------------------------ MODULE ReadStream ------------------------------
(***************************************************************************)
(* Reading a file: fusefs_read adds up the caller's I/O vector, asks for   *)
(* that many bytes in a READ whose size field is 32 bits wide, the         *)
(* hello_ll backend answers with what the file has from that offset on,    *)
(* and the reply is scattered over the vector, one step per round of a     *)
(* loop.  A byte of the file is its position; the reader goes on until a   *)
(* read returns 0.                                                         *)
(***************************************************************************)
EXTENDS DataVectors

CONSTANTS
  MaxLen,    \* bound: length of the file
  IovLens,   \* lengths of the buffers of a vector
  MaxIov,    \* bound: buffers of a vector
  SizeMod    \* 2^32, the range of the size field

ASSUME ReadAssumption ==
  /\ MaxLen \in Nat /\ IovLens \subseteq Nat /\ MaxIov \in Nat
  /\ SizeMod \in Nat \ {0}

VARIABLES
  flen,      \* length of the file
  pos,       \* file position, kept by the file system layer above
  rdpc,      \* "idle", or the loop that fusefs_read is in
  iov,       \* the vector of the last read: the lengths of its buffers
  offset,    \* its offset
  ind,       \* `i` of the loops
  total,     \* `total`
  reply,     \* req.reply_data
  bufs,      \* what each buffer of the vector got
  stored,    \* `copied`, which the read returns
  got,       \* everything read so far
  ended      \* a read with room for data has returned 0

readVars == <<flen, pos, rdpc, iov, offset, ind, total, reply, bufs, stored, got, ended>>
fileVars == <<flen, pos, got, ended>>

Vectors == UNION {[1 .. k -> IovLens] : k \in 1 .. MaxIov}
Content == [i \in 1 .. flen |-> i]

ReadTypeOK ==
  /\ flen \in 0 .. MaxLen /\ pos \in 0 .. flen /\ offset \in 0 .. flen
  /\ rdpc \in {"idle", "sum", "scatter"}
  /\ iov \in Vectors \cup {<<>>}
  /\ ind \in 1 .. Len(iov) + 1 /\ total \in Nat
  /\ reply \in Seq(1 .. flen)
  /\ bufs \in Seq(Seq(1 .. flen))
  /\ stored \in 0 .. Len(reply)
  /\ got \in Seq(1 .. flen)
  /\ ended \in BOOLEAN

ReadInit ==
  /\ flen \in 0 .. MaxLen /\ pos = 0 /\ offset = 0
  /\ rdpc = "idle" /\ iov = <<>> /\ ind = 1 /\ total = 0
  /\ reply = <<>> /\ bufs = <<>> /\ stored = 0 /\ got = <<>>
  /\ ended = FALSE

(* hello_ll_read: reply_buf_limited.                                       *)
ServeOffByOne(off, size) ==     \* mutant: the last byte is never served
  IF off + 1 < flen
  THEN SubSeq(Content, off + 1, off + (IF flen - off < size THEN flen - off ELSE size))
  ELSE <<>>

Serve(off, size) ==
  IF off < flen
  THEN SubSeq(Content, off + 1, off + (IF flen - off < size THEN flen - off ELSE size))
  ELSE <<>>

-------------------------------------------------------------------------------
(* fusefs_read of an open file.                                            *)
ReadBegins(v) ==
  /\ rdpc = "idle" /\ ~ended
  /\ rdpc' = "sum" /\ iov' = v /\ offset' = pos
  /\ ind' = 1 /\ total' = 0
  /\ reply' = <<>> /\ bufs' = [i \in 1 .. Len(v) |-> <<>>] /\ stored' = 0
  /\ UNCHANGED fileVars

AddLength ==
  /\ rdpc = "sum" /\ ind <= Len(iov)
  /\ total' = total + iov[ind]
  /\ ind' = ind + 1
  /\ UNCHANGED <<fileVars, rdpc, iov, offset, reply, bufs, stored>>

(* A vector without room asks for nothing.                                 *)
ReadNothing ==
  /\ rdpc = "sum" /\ ind > Len(iov) /\ total = 0
  /\ rdpc' = "idle"
  /\ UNCHANGED <<fileVars, iov, offset, ind, total, reply, bufs, stored>>

(* The READ and its answer.                                                *)
ReadSent ==
  /\ rdpc = "sum" /\ ind > Len(iov) /\ total > 0
  /\ reply' = Serve(offset, total % SizeMod)
  /\ rdpc' = "scatter" /\ ind' = 1
  /\ UNCHANGED <<fileVars, iov, offset, total, bufs, stored>>

(* The reply cannot be allocated: the read returns the error.              *)
ReadNoMemory ==
  /\ rdpc = "sum" /\ ind > Len(iov) /\ total > 0
  /\ Serve(offset, total % SizeMod) # <<>>
  /\ rdpc' = "idle"
  /\ UNCHANGED <<fileVars, iov, offset, ind, total, reply, bufs, stored>>

Fill(n) ==
  LET chunk == SubSeq(reply, stored + 1, stored + n) IN
  /\ bufs' = [bufs EXCEPT ![ind] = chunk]
  /\ stored' = stored + n
  /\ got' = got \o chunk

ScatterUnbounded ==             \* mutant: iov_len is ignored
  /\ rdpc = "scatter" /\ ind <= Len(iov) /\ stored < Len(reply)
  /\ Fill(Len(reply) - stored)
  /\ ind' = ind + 1
  /\ UNCHANGED <<flen, pos, ended, rdpc, iov, offset, total, reply>>

(* One round of the scatter loop: src is behind the `stored` bytes.        *)
Scatter ==
  /\ rdpc = "scatter" /\ ind <= Len(iov) /\ stored < Len(reply)
  /\ Fill(IF iov[ind] < Len(reply) - stored THEN iov[ind] ELSE Len(reply) - stored)
  /\ ind' = ind + 1
  /\ UNCHANGED <<flen, pos, ended, rdpc, iov, offset, total, reply>>

(* The vector or the reply is used up; an empty reply is the end of the    *)
(* file.                                                                   *)
ReadReturns ==
  /\ rdpc = "scatter" /\ (ind > Len(iov) \/ stored = Len(reply))
  /\ rdpc' = "idle"
  /\ pos' = pos + stored
  /\ ended' = (stored = 0)
  /\ UNCHANGED <<flen, got, iov, offset, ind, total, reply, bufs, stored>>

Seek ==       \* lseek, external
  /\ rdpc = "idle"
  /\ pos' = 0 /\ got' = <<>> /\ ended' = FALSE
  /\ UNCHANGED <<flen, rdpc, iov, offset, ind, total, reply, bufs, stored>>

ReadNext ==
  \/ \E v \in Vectors : ReadBegins(v)
  \/ AddLength \/ ReadNothing \/ ReadSent \/ ReadNoMemory \/ Scatter \/ ReadReturns \/ Seek

ReadSpec == ReadInit /\ [][ReadNext]_readVars

-------------------------------------------------------------------------------
(* The buffers b hold the bytes lo .. hi, each once and in order.          *)
HoldInOrder(b, lo, hi) ==
  /\ {ByteAt(b, p) : p \in Places(b)} = lo .. hi
  /\ \A p, q \in Places(b) : Precedes(p, q) => ByteAt(b, p) < ByteAt(b, q)

(* The count returned is the number of bytes stored: these are the bytes   *)
(* of the file from the offset on, each once and in order.  No buffer is   *)
(* overrun, and a buffer is used only when the ones before it are full.    *)
ScatterExact ==
  /\ Len(bufs) = Len(iov)
  /\ HoldInOrder(bufs, offset + 1, offset + stored)
  /\ \A i \in 1 .. Len(iov) :
       /\ Len(bufs[i]) <= iov[i]
       /\ \A j \in 1 .. i - 1 : bufs[i] # <<>> => Len(bufs[j]) = iov[j]

(* What arrives is the file from its start, byte by byte, with no gap and  *)
(* no repetition between reads of any shape.  A read with room for data    *)
(* that returns 0 is at the end of the file, the caller's "EOF", with one  *)
(* exception: a vector that adds up to a multiple of the size field's      *)
(* range asks for 0 bytes.                                                 *)
ReadsWholeFile ==
  /\ got = [i \in 1 .. Len(got) |-> i]
  /\ rdpc = "idle" => Len(got) = pos
  /\ ended => pos = flen \/ total % SizeMod = 0

(* Toward both.  The reply is the file from the offset on; the buffers up  *)
(* to `ind` hold its first `stored` bytes and are full while there is more *)
(* of it; a vector with room has a buffer with room.                       *)
ServedInv ==
  /\ \A k \in 1 .. Len(reply) : reply[k] = offset + k
  /\ reply = <<>> => rdpc # "scatter" \/ offset = flen \/ total % SizeMod = 0
  /\ rdpc # "idle" => offset = pos /\ ~ended
  /\ rdpc = "sum" => reply = <<>>

LoopInv ==
  /\ rdpc = "sum" => stored = 0 /\ Len(got) = pos
  /\ rdpc = "sum" /\ total > 0 => \E i \in 1 .. ind - 1 : iov[i] > 0
  /\ rdpc = "scatter" =>
       /\ Len(got) = pos + stored
       /\ \E i \in 1 .. Len(iov) : iov[i] > 0
       /\ stored = 0 => \A i \in 1 .. ind - 1 : iov[i] = 0 \/ reply = <<>>
       /\ \A i \in ind .. Len(iov) : bufs[i] = <<>>
       /\ stored < Len(reply) => \A i \in 1 .. ind - 1 : Len(bufs[i]) = iov[i]
  /\ rdpc = "sum" => \A i \in 1 .. Len(iov) : bufs[i] = <<>>

ReadInv == ReadTypeOK /\ ServedInv /\ LoopInv /\ ScatterExact /\ ReadsWholeFile
===============================================================================
