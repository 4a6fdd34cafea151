------------------------------- MODULE Replies --------------------------------
(***************************************************************************)
(* The reply functions of libfuse.  Five of them were adapted to the ukfs  *)
(* driver: they store the answer in the caller's request and wake it.  The *)
(* others still write to the descriptor of the device.  Every allocation,  *)
(* every copy and every write may fail.  fuse_reply_data copies a vector   *)
(* that is not one piece of memory with fuse_buf_copy (BufCopy).           *)
(*                                                                         *)
(* One request and one call.  The contents of the structures that are sent *)
(* are abstracted; of the data the bytes are kept.                         *)
(***************************************************************************)
EXTENDS BufCopy

CONSTANTS
  Minors,     \* protocol versions a session can be in
  Errnos      \* what a backend hands to fuse_reply_err, "ok" for 0 included

ASSUME RepliesAssumption == Minors \subseteq Nat

VARIABLES
  rfn,      \* the reply function called
  rpc,      \* where it is
  rq,       \* the request, and what its caller and the device have got
  want,     \* temporary allocations still to be made
  temps,    \* temporary allocations made and not freed
  rret      \* what the function returned

replyVars == <<rfn, rpc, rq, want, temps, rret>>

Nothing == "nothing"

RepliesInit ==
  /\ rq \in [ukfs : BOOLEAN, minor : Minors, freed : {0}, woken : {0},
             error : {Nothing}, data : {Nothing}, sent : {<<>>}]
  /\ rfn = Nothing /\ rpc = "idle" /\ want = {} /\ temps = {} /\ rret = Nothing

(* The vector that fuse_reply_data may get, and mem_buf, as large.         *)
MemBuf(v) ==
  <<[fd |-> FALSE, seek |-> FALSE, retry |-> FALSE, size |-> fuse_buf_size(v), has |-> 0]>>
ReplyVectors == \E v \in SrcVectors : CopyFrom(v, MemBuf(v))

-------------------------------------------------------------------------------
(* fuse_free_req.                                                          *)
FreedReq(r) == [r EXCEPT !.freed = @ + 1]

(* The answer is stored in the caller's request, which wakes it, if there  *)
(* is one; the request is freed either way.                                *)
Answer(r, error, data) ==
  FreedReq(IF r.ukfs THEN [r EXCEPT !.error = error, !.data = data, !.woken = @ + 1]
           ELSE r)

Calls(f) == rpc = "idle" /\ rfn' = f
Returns(r) == rpc' = "returned" /\ rret' = r

(* fuse_reply_err as the end of another function, which then frees its     *)
(* temporary memory.                                                       *)
EndWithErr(e) ==
  /\ rq' = Answer(rq, e, Nothing)
  /\ rpc' = "cleanup" /\ rret' = "ok"

fuse_reply_err(e) ==
  /\ Calls("err")
  /\ rq' = Answer(rq, e, Nothing)
  /\ Returns("ok")
  /\ UNCHANGED <<copyVars, want, temps>>

fuse_reply_none ==
  /\ Calls("none")
  /\ rq' = FreedReq(rq)
  /\ Returns(Nothing)
  /\ UNCHANGED <<copyVars, want, temps>>

(* A copy of the answer, or ENOMEM when there is no memory for it.         *)
Copies(f, memory) ==
  /\ Calls(f)
  /\ rq' = IF memory THEN Answer(rq, "ok", f) ELSE Answer(rq, "ENOMEM", Nothing)
  /\ Returns("ok")
  /\ UNCHANGED <<copyVars, want, temps>>

(* Inode number 0 is an error only for kernels before 7.4.                 *)
fuse_reply_entry(ino, memory) ==
  IF ino = 0 /\ rq.minor < 4
  THEN fuse_reply_err("ENOENT")
  ELSE Copies("entry", memory)

fuse_reply_attr(memory) == Copies("attr", memory)

(* An empty answer is its length of 0; whether malloc(0) gives a pointer   *)
(* does not matter.                                                        *)
fuse_reply_buf(size, memory) ==
  IF size > 0 THEN Copies("buf", memory)
  ELSE /\ Calls("buf")
       /\ rq' = Answer(rq, "ok", "empty")
       /\ Returns("ok")
       /\ UNCHANGED <<copyVars, want, temps>>

-------------------------------------------------------------------------------
(* send_reply_ok: nothing to allocate.                                     *)
send_reply_ok(f) ==
  /\ Calls(f)
  /\ rpc' = "send"
  /\ UNCHANGED <<copyVars, rq, want, temps, rret>>

fuse_reply_open(memory) ==
  IF rq.ukfs THEN Copies("open", memory) ELSE send_reply_ok("open")

fuse_reply_create == send_reply_ok("create")
fuse_reply_readlink == send_reply_ok("readlink")
fuse_reply_write == send_reply_ok("write")
fuse_reply_statfs == send_reply_ok("statfs")
fuse_reply_xattr == send_reply_ok("xattr")
fuse_reply_lock == send_reply_ok("lock")
fuse_reply_bmap == send_reply_ok("bmap")
fuse_reply_ioctl == send_reply_ok("ioctl")
fuse_reply_poll == send_reply_ok("poll")
fuse_reply_lseek == send_reply_ok("lseek")

(* Without HAVE_STATX the request is left to the backend.                  *)
fuse_reply_statx ==
  /\ Calls("statx")
  /\ Returns("ENOSYS")
  /\ UNCHANGED <<copyVars, rq, want, temps>>

(* Functions that first allocate.                                          *)
Allocates(f, blocks) ==
  /\ Calls(f)
  /\ rpc' = "alloc" /\ want' = blocks
  /\ UNCHANGED <<copyVars, rq, temps, rret>>

fuse_reply_iov == Allocates("iov", {"padded"})
fuse_reply_ioctl_iov == Allocates("ioctl_iov", {"padded"})

(* Vectors are converted for kernels from 7.16 on; in and out are counts.  *)
fuse_reply_ioctl_retry(in, out_) ==
  IF rq.minor < 16
  THEN send_reply_ok("ioctl_retry")
  ELSE Allocates("ioctl_retry", (IF in > 0 THEN {"in_fiov"} ELSE {})
                                \cup (IF out_ > 0 THEN {"out_fiov"} ELSE {}))

(* One piece of memory is sent where it is.                                *)
fuse_reply_data ==
  IF Len(src) = 1 /\ ~src[1].fd
  THEN send_reply_ok("data")
  ELSE Allocates("data", {"mbuf"})

-------------------------------------------------------------------------------
(* The next allocation, in_fiov before out_fiov.                           *)
NextBlock == IF "in_fiov" \in want THEN "in_fiov" ELSE CHOOSE b \in want : TRUE

Alloc ==
  /\ rpc = "alloc" /\ want # {}
  /\ temps' = temps \cup {NextBlock}
  /\ want' = want \ {NextBlock}
  /\ UNCHANGED <<copyVars, rfn, rpc, rq, rret>>

AllocFails ==
  /\ rpc = "alloc" /\ want # {}
  /\ want' = {}
  /\ EndWithErr("ENOMEM")
  /\ UNCHANGED <<copyVars, rfn, temps>>

Allocated ==
  /\ rpc = "alloc" /\ want = {}
  /\ rpc' = IF rfn = "data" THEN "copy" ELSE "send"
  /\ UNCHANGED <<copyVars, rfn, rq, want, temps, rret>>

(* fuse_send_data_iov_fallback: fuse_buf_copy into mbuf, which is as large *)
(* as the vector.                                                          *)
CopyStep ==
  /\ rpc = "copy" /\ cpc # "done"
  /\ \/ CopyEnds \/ CopyNone \/ CopyMemory \/ CopyCalls
     \/ \E n \in Outcomes : ReadCall(n)
  /\ UNCHANGED replyVars

(* A negative result is made positive, which fuse_reply_data takes for an  *)
(* error that has not been sent yet.                                       *)
CopyFailsAsSent ==              \* mutant: the sign is kept
  /\ rpc = "copy" /\ cpc = "done" /\ res < 0
  /\ rq' = FreedReq(rq) /\ rpc' = "cleanup" /\ rret' = "EIO"
  /\ UNCHANGED <<copyVars, rfn, want, temps>>

CopyFails ==
  /\ rpc = "copy" /\ cpc = "done" /\ res < 0
  /\ EndWithErr("EIO")
  /\ UNCHANGED <<copyVars, rfn, want, temps>>

CopyDone ==
  /\ rpc = "copy" /\ cpc = "done" /\ res >= 0
  /\ rpc' = "send"
  /\ UNCHANGED <<copyVars, rfn, rq, want, temps, rret>>

(* How many bytes of mbuf go out: the result of the copy.                  *)
Payload == IF "mbuf" \in temps THEN res ELSE 0

(* fuse_send_msg and fuse_free_req: the write may fail, the request is     *)
(* freed in any case.                                                      *)
Send ==
  /\ rpc = "send"
  /\ rq' = [FreedReq(rq) EXCEPT !.sent = Append(@, Payload)]
  /\ rret' = "ok" /\ rpc' = "cleanup"
  /\ UNCHANGED <<copyVars, rfn, want, temps>>

SendFails ==
  /\ rpc = "send"
  /\ rq' = FreedReq(rq)
  /\ rret' = "device error" /\ rpc' = "cleanup"
  /\ UNCHANGED <<copyVars, rfn, want, temps>>

CleanupOnSuccess ==             \* mutant: the error path skips free
  /\ rpc = "cleanup"
  /\ temps' = IF rq.woken = 0 THEN {} ELSE temps
  /\ rpc' = "returned"
  /\ UNCHANGED <<copyVars, rfn, rq, want, rret>>

(* free of the temporary memory, on every path.                            *)
Cleanup ==
  /\ rpc = "cleanup"
  /\ temps' = {} /\ rpc' = "returned"
  /\ UNCHANGED <<copyVars, rfn, rq, want, rret>>

-------------------------------------------------------------------------------
ReplyCall ==
  \/ \E e \in Errnos : fuse_reply_err(e)
  \/ fuse_reply_none
  \/ \E memory \in BOOLEAN :
       \/ \E ino \in {0, 1} : fuse_reply_entry(ino, memory)
       \/ \E size \in {0, 1} : fuse_reply_buf(size, memory)
       \/ fuse_reply_attr(memory) \/ fuse_reply_open(memory)
  \/ fuse_reply_create \/ fuse_reply_readlink \/ fuse_reply_write \/ fuse_reply_statfs
  \/ fuse_reply_xattr \/ fuse_reply_lock \/ fuse_reply_bmap \/ fuse_reply_ioctl
  \/ fuse_reply_poll \/ fuse_reply_lseek \/ fuse_reply_statx
  \/ fuse_reply_iov \/ fuse_reply_ioctl_iov \/ fuse_reply_data
  \/ \E in, out_ \in {0, 1} : fuse_reply_ioctl_retry(in, out_)

RepliesNext ==
  \/ ReplyCall
  \/ Alloc \/ AllocFails \/ Allocated
  \/ CopyStep \/ CopyFails \/ CopyDone
  \/ Send \/ SendFails \/ Cleanup

RepliesSpec == RepliesInit /\ ReplyVectors /\ [][RepliesNext]_<<replyVars, copyVars>>

-------------------------------------------------------------------------------
Blocks == {"padded", "in_fiov", "out_fiov", "mbuf"}

RepliesTypeOK ==
  /\ rpc \in {"idle", "alloc", "copy", "send", "cleanup", "returned"}
  /\ want \subseteq Blocks /\ temps \subseteq Blocks
  /\ rq.freed \in Nat /\ rq.woken \in Nat

(* Whatever fails on the way, a reply function uses up the request exactly *)
(* once (fuse_reply_statx alone does not), answers in one place at most,   *)
(* and returns with none of its temporary memory allocated.                *)
ConsumedOnce ==
  /\ rpc \in {"alloc", "copy", "send"} => rq.freed = 0 /\ rq.woken = 0
  /\ rpc = "returned" =>
       /\ rq.freed = IF rfn = "statx" THEN 0 ELSE 1
       /\ rq.woken + Len(rq.sent) <= 1
       /\ temps = {}

(* A reply function that could not build its answer wakes the caller with  *)
(* the error: a caller is left asleep only by a reply that went to the     *)
(* device, or failed there, and by fuse_reply_none and fuse_reply_statx.   *)
(* A caller woken without an error has the data - an empty answer only if  *)
(* that is what the backend gave - unless the backend itself reported      *)
(* success with fuse_reply_err.                                            *)
CallerKnows ==
  /\ rq.ukfs /\ rq.woken = 0 =>
       rq.sent # <<>> \/ rret = "device error" \/ rfn \in {"none", "statx"}
  /\ rq.woken = 1 /\ rq.error = "ok" => rq.data # Nothing \/ rfn = "err"

CallerLearns == rpc = "returned" => CallerKnows

(* CallerLearns, and what fuse_reply_data writes has the length of what    *)
(* was copied.                                                             *)
FailureReported ==
  /\ CallerLearns
  /\ rpc = "returned" /\ rq.sent # <<>> => rq.sent[1] = Stored(out)

-------------------------------------------------------------------------------
(* Toward both: the request at each place of the function.                 *)
Fields == {"ukfs", "minor", "freed", "woken", "error", "data", "sent"}

Untouched == rq.freed = 0 /\ rq.woken = 0 /\ rq.sent = <<>>

Consumed ==
  /\ rfn # "statx"
  /\ rq.freed = 1
  /\ \/ rq.woken = 0 /\ rq.sent = <<>>
     \/ rq.woken = 1 /\ rq.sent = <<>>
     \/ rq.woken = 0 /\ Len(rq.sent) = 1 /\ rq.sent # <<>>

ReplyInv ==
  /\ DOMAIN rq = Fields /\ rq.ukfs \in BOOLEAN
  /\ rpc \in {"idle", "alloc", "copy", "send", "cleanup", "returned"}
  /\ rpc \in {"idle", "alloc", "copy", "send"} => Untouched
  /\ rpc \in {"alloc", "copy", "send"} => rfn \notin {"none", "statx"}
  /\ rpc = "cleanup" => Consumed /\ CallerKnows
  /\ rpc = "returned" => CallerKnows /\ (Consumed \/ (rfn = "statx" /\ Untouched))
  /\ rpc \in {"idle", "returned"} => temps = {}

(* Toward FailureReported: only a reply with mbuf copies, and it is sent   *)
(* when the copy has ended without an error.                               *)
CopyUnused == cpc = "next" /\ copied = 0 /\ moved = 0 /\ drained = 0

SentInv ==
  /\ want \subseteq Blocks /\ temps \subseteq Blocks
  /\ rpc \in {"idle", "alloc"} => CopyUnused
  /\ rpc = "alloc" => ("mbuf" \in want \cup temps <=> rfn = "data")
  /\ rpc = "copy" => "mbuf" \in temps
  /\ rpc = "send" => IF "mbuf" \in temps THEN cpc = "done" /\ res >= 0 ELSE CopyUnused
  /\ rpc \in {"cleanup", "returned"} /\ rq.sent # <<>> => rq.sent[1] = Stored(out)
===============================================================================
