----------------------------- MODULE RepliesProofs ----------------------------
(***************************************************************************)
(* The reply functions use a request up exactly once and tell its caller   *)
(* what failed, for every protocol version, error number and data vector,  *)
(* whatever allocation, copy or write fails on the way.                    *)
(***************************************************************************)
EXTENDS Replies, BufCopyProofs

(* What a call may do, in one of four ways.                                *)
Answered ==
  \E e, d :
    /\ rq' = Answer(rq, e, d)
    /\ rpc' = "returned" /\ rfn' \notin {"none", "statx"}
    /\ e = "ok" => d # Nothing \/ rfn' = "err"

Dropped == rq' = FreedReq(rq) /\ rpc' = "returned" /\ rfn' = "none"

Started == rq' = rq /\ rpc' \in {"alloc", "send"} /\ rfn' \notin {"none", "statx"}

Refused == rq' = rq /\ rpc' = "returned" /\ rfn' = "statx"

CallEffect == /\ rpc = "idle" /\ temps' = temps
              /\ Answered \/ Dropped \/ Started \/ Refused

LEMMA ErrEffect == ASSUME NEW e, fuse_reply_err(e) PROVE CallEffect
<1>1. rq' = Answer(rq, e, Nothing) /\ rpc' = "returned" /\ rfn' = "err"
      /\ rpc = "idle" /\ temps' = temps
  BY DEF fuse_reply_err, Calls, Returns
<1>2. Answered
  BY <1>1 DEF Answered
<1> QED
  BY <1>1, <1>2 DEF CallEffect

LEMMA CopiesEffect ==
  ASSUME NEW f, f \notin {"none", "statx", Nothing}, NEW memory, Copies(f, memory)
  PROVE  CallEffect
<1>1. /\ rq' = Answer(rq, "ok", f) \/ rq' = Answer(rq, "ENOMEM", Nothing)
      /\ rpc' = "returned" /\ rfn' = f /\ rpc = "idle" /\ temps' = temps
  BY DEF Copies, Calls, Returns
<1>2. CASE rq' = Answer(rq, "ok", f)
  BY <1>1, <1>2 DEF Answered, CallEffect
<1>3. CASE rq' = Answer(rq, "ENOMEM", Nothing)
  BY <1>1, <1>3 DEF Answered, CallEffect
<1> QED
  BY <1>1, <1>2, <1>3

LEMMA BufEffect == ASSUME NEW size, NEW memory, fuse_reply_buf(size, memory) PROVE CallEffect
<1>1. CASE size > 0
  BY <1>1, CopiesEffect DEF fuse_reply_buf, Nothing
<1>2. CASE ~(size > 0)
  <2>1. /\ rq' = Answer(rq, "ok", "empty")
        /\ rpc' = "returned" /\ rfn' = "buf" /\ rpc = "idle" /\ temps' = temps
    BY <1>2 DEF fuse_reply_buf, Calls, Returns
  <2>2. Answered
    BY <2>1 DEF Answered, Nothing
  <2> QED
    BY <2>1, <2>2 DEF CallEffect
<1> QED
  BY <1>1, <1>2

LEMMA SendEffect ==
  ASSUME NEW f, f \notin {"none", "statx"}, send_reply_ok(f) PROVE CallEffect
  BY DEF send_reply_ok, Calls, CallEffect, Started

LEMMA AllocatesEffect ==
  ASSUME NEW f, f \notin {"none", "statx"}, NEW blocks, Allocates(f, blocks) PROVE CallEffect
  BY DEF Allocates, Calls, CallEffect, Started

LEMMA ReplyCallEffect == ReplyCall => CallEffect
<1>1. ASSUME NEW e \in Errnos, fuse_reply_err(e) PROVE CallEffect
  BY <1>1, ErrEffect
<1>2. ASSUME fuse_reply_none PROVE CallEffect
  BY <1>2 DEF fuse_reply_none, Calls, Returns, CallEffect, Dropped
<1>3. ASSUME NEW memory \in BOOLEAN, NEW ino \in {0, 1}, fuse_reply_entry(ino, memory)
      PROVE  CallEffect
  BY <1>3, ErrEffect, CopiesEffect DEF fuse_reply_entry, Nothing
<1>4. ASSUME NEW memory \in BOOLEAN, NEW size \in {0, 1}, fuse_reply_buf(size, memory)
      PROVE  CallEffect
  BY <1>4, BufEffect
<1>5. ASSUME NEW memory \in BOOLEAN, fuse_reply_attr(memory) \/ fuse_reply_open(memory)
      PROVE  CallEffect
  BY <1>5, CopiesEffect, SendEffect DEF fuse_reply_attr, fuse_reply_open, Nothing
<1>6. ASSUME \/ fuse_reply_create \/ fuse_reply_readlink \/ fuse_reply_write
             \/ fuse_reply_statfs \/ fuse_reply_xattr
      PROVE  CallEffect
  BY <1>6, SendEffect DEF fuse_reply_create, fuse_reply_readlink, fuse_reply_write,
                          fuse_reply_statfs, fuse_reply_xattr
<1>7. ASSUME \/ fuse_reply_lock \/ fuse_reply_bmap \/ fuse_reply_ioctl
             \/ fuse_reply_poll \/ fuse_reply_lseek
      PROVE  CallEffect
  BY <1>7, SendEffect DEF fuse_reply_lock, fuse_reply_bmap, fuse_reply_ioctl,
                          fuse_reply_poll, fuse_reply_lseek
<1>8. ASSUME fuse_reply_statx PROVE CallEffect
  BY <1>8 DEF fuse_reply_statx, Calls, Returns, CallEffect, Refused
<1>9. ASSUME fuse_reply_iov \/ fuse_reply_ioctl_iov PROVE CallEffect
  BY <1>9, AllocatesEffect DEF fuse_reply_iov, fuse_reply_ioctl_iov
<1>10. ASSUME fuse_reply_data PROVE CallEffect
  <2>1. send_reply_ok("data") \/ Allocates("data", {"mbuf"})
    BY <1>10 DEF fuse_reply_data
  <2> QED
    BY <2>1, SendEffect, AllocatesEffect
<1>11. ASSUME NEW in \in {0, 1}, NEW out_ \in {0, 1}, fuse_reply_ioctl_retry(in, out_)
       PROVE  CallEffect
  BY <1>11, SendEffect, AllocatesEffect DEF fuse_reply_ioctl_retry
<1> QED
  BY <1>1, <1>2, <1>3, <1>4, <1>5, <1>6, <1>7, <1>8, <1>9, <1>10, <1>11 DEF ReplyCall

-------------------------------------------------------------------------------
(* What the two ways of using up a request leave in it.                    *)
LEMMA AnswerFields ==
  ASSUME DOMAIN rq = Fields, rq.ukfs \in BOOLEAN, Untouched, NEW e, NEW d, NEW r, r = Answer(rq, e, d)
  PROVE  /\ DOMAIN r = Fields /\ r.ukfs \in BOOLEAN
         /\ r.freed = 1 /\ r.sent = <<>> /\ r.ukfs = rq.ukfs
         /\ r.ukfs => r.woken = 1 /\ r.woken # 0 /\ r.error = e /\ r.data = d
         /\ ~r.ukfs => r.woken = 0 /\ r.woken # 1
  BY DEF Answer, FreedReq, Fields, Untouched

LEMMA FreedFields ==
  ASSUME DOMAIN rq = Fields, rq.ukfs \in BOOLEAN, Untouched, NEW r, r = FreedReq(rq)
  PROVE  /\ DOMAIN r = Fields /\ r.ukfs \in BOOLEAN
         /\ r.freed = 1 /\ r.sent = <<>> /\ r.woken = 0
  BY DEF FreedReq, Fields, Untouched

LEMMA InitReplyInv == RepliesInit => ReplyInv
  BY DEF RepliesInit, ReplyInv, Fields, Untouched

LEMMA CallKeeps == ReplyInv /\ CallEffect => ReplyInv'
<1> SUFFICES ASSUME ReplyInv, CallEffect PROVE ReplyInv'
  OBVIOUS
<1>0. DOMAIN rq = Fields /\ rq.ukfs \in BOOLEAN /\ Untouched /\ temps = {} /\ temps' = {}
  BY DEF ReplyInv, Fields, CallEffect
<1>1. CASE Answered
  <2>1. PICK e, d : /\ rq' = Answer(rq, e, d)
                    /\ rpc' = "returned" /\ rfn' \notin {"none", "statx"}
                    /\ e = "ok" => d # Nothing \/ rfn' = "err"
    BY <1>1 DEF Answered
  <2>2. /\ DOMAIN rq' = Fields /\ rq'.ukfs \in BOOLEAN
        /\ rq'.freed = 1 /\ rq'.sent = <<>> /\ rq'.ukfs = rq.ukfs
        /\ rq'.ukfs => rq'.woken = 1 /\ rq'.woken # 0 /\ rq'.error = e /\ rq'.data = d
        /\ ~rq'.ukfs => rq'.woken = 0 /\ rq'.woken # 1
    BY <1>0, <2>1, AnswerFields
  <2>3. Consumed' /\ CallerKnows'
    <3>1. Consumed'
      BY <2>1, <2>2 DEF Consumed
    <3>2. CallerKnows'
      BY <2>1, <2>2, Zenon DEF CallerKnows
    <3> QED
      BY <3>1, <3>2
  <2> QED
    BY <1>0, <2>1, <2>2, <2>3 DEF ReplyInv, Fields
<1>2. CASE Dropped
  <2>1. /\ DOMAIN rq' = Fields /\ rq'.ukfs \in BOOLEAN
        /\ rq'.freed = 1 /\ rq'.sent = <<>> /\ rq'.woken = 0
    BY <1>0, <1>2, FreedFields DEF Dropped
  <2>2. Consumed' /\ CallerKnows'
    <3>1. Consumed'
      BY <1>2, <2>1 DEF Dropped, Consumed
    <3>2. CallerKnows'
      BY <1>2, <2>1 DEF Dropped, CallerKnows, Nothing
    <3> QED
      BY <3>1, <3>2
  <2> QED
    BY <1>0, <1>2, <2>1, <2>2 DEF Dropped, ReplyInv, Fields
<1>3. CASE Started
  BY <1>0, <1>3 DEF Started, ReplyInv, Fields, Untouched
<1>4. CASE Refused
  <2>1. CallerKnows'
    <3>1. rq'.woken # 1
      BY <1>0, <1>4 DEF Refused, Untouched
    <3> QED
      BY <1>4, <3>1, Zenon DEF Refused, CallerKnows
  <2> QED
    BY <1>0, <1>4, <2>1 DEF Refused, ReplyInv, Fields, Untouched
<1> QED
  BY <1>1, <1>2, <1>3, <1>4 DEF CallEffect

(* AllocFails and CopyFails: the error goes to the caller.                 *)
LEMMA EndWithErrKeeps ==
  ASSUME ReplyInv, rpc \in {"alloc", "copy"}, NEW e, e # "ok", EndWithErr(e),
         UNCHANGED <<rfn, temps>>
  PROVE  ReplyInv'
<1>1. DOMAIN rq = Fields /\ rq.ukfs \in BOOLEAN /\ Untouched /\ rfn \notin {"none", "statx"}
  BY DEF ReplyInv, Fields
<1>2. /\ rq' = Answer(rq, e, Nothing) /\ rpc' = "cleanup" /\ rfn' = rfn
  BY DEF EndWithErr
<1>3. /\ DOMAIN rq' = Fields /\ rq'.ukfs \in BOOLEAN
      /\ rq'.freed = 1 /\ rq'.sent = <<>> /\ rq'.ukfs = rq.ukfs
      /\ rq'.ukfs => rq'.woken = 1 /\ rq'.woken # 0 /\ rq'.error = e
      /\ ~rq'.ukfs => rq'.woken = 0 /\ rq'.woken # 1
  BY <1>1, <1>2, AnswerFields
<1>4. Consumed' /\ CallerKnows'
  <2>1. Consumed'
    BY <1>1, <1>2, <1>3 DEF Consumed
  <2>2. CallerKnows'
    BY <1>1, <1>2, <1>3, Zenon DEF CallerKnows
  <2> QED
    BY <2>1, <2>2
<1> QED
  BY <1>2, <1>3, <1>4 DEF ReplyInv, Fields

LEMMA SendKeeps == ReplyInv /\ (Send \/ SendFails) => ReplyInv'
<1> SUFFICES ASSUME ReplyInv, Send \/ SendFails PROVE ReplyInv'
  OBVIOUS
<1>1. DOMAIN rq = Fields /\ rq.ukfs \in BOOLEAN /\ Untouched /\ rfn \notin {"none", "statx"}
      /\ rpc' = "cleanup" /\ rfn' = rfn
  BY DEF ReplyInv, Fields, Send, SendFails
<1> DEFINE r == FreedReq(rq)
<1>2. DOMAIN r = Fields /\ r.ukfs \in BOOLEAN /\ r.freed = 1 /\ r.sent = <<>> /\ r.woken = 0
  BY <1>1, FreedFields
<1>3. CASE Send
  <2> DEFINE sent == Append(r.sent, Payload)
  <2>1. sent = <<Payload>>
    BY <1>2
  <2>2. Len(sent) = 1 /\ sent # <<>>
    BY <2>1
  <2> HIDE DEF r, sent
  <2>3. rq' = [r EXCEPT !.sent = sent]
    BY <1>3 DEF Send, r, sent
  <2>4. /\ DOMAIN rq' = Fields /\ rq'.ukfs \in BOOLEAN
        /\ rq'.freed = 1 /\ rq'.woken = 0 /\ rq'.woken # 1 /\ rq'.sent = sent
    BY <1>2, <2>3 DEF Fields
  <2>5. Consumed' /\ CallerKnows'
    <3>1. Consumed'
      BY <1>1, <2>2, <2>4 DEF Consumed
    <3>2. CallerKnows'
      BY <2>2, <2>4, Zenon DEF CallerKnows
    <3> QED
      BY <3>1, <3>2
  <2> QED
    BY <1>1, <2>4, <2>5 DEF ReplyInv, Fields
<1>4. CASE SendFails
  <2>1. rq' = r /\ rret' = "device error"
    BY <1>4 DEF SendFails
  <2> HIDE DEF r
  <2>2. Consumed' /\ CallerKnows'
    <3>1. Consumed'
      BY <1>1, <1>2, <2>1 DEF Consumed
    <3>2. CallerKnows'
      <4>0. rq'.woken = 0
        BY <1>2, <2>1, Zenon
      <4>1. rq'.woken # 1
        BY <4>0
      <4> QED
        BY <2>1, <4>1, Zenon DEF CallerKnows
    <3> QED
      BY <3>1, <3>2
  <2> QED
    BY <1>1, <1>2, <2>1, <2>2 DEF ReplyInv, Fields
<1> QED
  BY <1>3, <1>4

LEMMA ReplyNextKeeps == ReplyInv /\ RepliesNext => ReplyInv'
<1> SUFFICES ASSUME ReplyInv, RepliesNext PROVE ReplyInv'
  OBVIOUS
<1>1. CASE ReplyCall
  BY <1>1, ReplyCallEffect, CallKeeps
<1>2. CASE Alloc \/ Allocated
  BY <1>2 DEF Alloc, Allocated, ReplyInv, Fields, Untouched
<1>3. CASE AllocFails
  BY <1>3, EndWithErrKeeps DEF AllocFails
<1>4. CASE CopyStep
  BY <1>4 DEF CopyStep, replyVars, ReplyInv, Fields, Untouched
<1>5. CASE CopyFails
  BY <1>5, EndWithErrKeeps DEF CopyFails
<1>6. CASE CopyDone
  BY <1>6 DEF CopyDone, ReplyInv, Fields, Untouched
<1>7. CASE Send \/ SendFails
  BY <1>7, SendKeeps
<1>8. CASE Cleanup
  BY <1>8 DEF Cleanup, ReplyInv, Fields, Consumed, CallerKnows
<1> QED
  BY <1>1, <1>2, <1>3, <1>4, <1>5, <1>6, <1>7, <1>8 DEF RepliesNext

LEMMA ReplyStutters == ReplyInv /\ UNCHANGED replyVars => ReplyInv'
  BY DEF replyVars, ReplyInv, Fields, Untouched, Consumed, CallerKnows

(* The inductive invariant of a reply function.                            *)
THEOREM RepliesInductive == RepliesSpec => []ReplyInv
<1>1. UNCHANGED <<replyVars, copyVars>> => UNCHANGED replyVars
  OBVIOUS
<1> QED
  BY <1>1, InitReplyInv, ReplyNextKeeps, ReplyStutters, PTL DEF RepliesSpec

(* A reply function uses up the request exactly once, answers in one place *)
(* at most and leaves no temporary memory, whatever fails on the way.      *)
THEOREM RequestUsedOnce == RepliesSpec => []ConsumedOnce
<1>1. ReplyInv => ConsumedOnce
  <2> SUFFICES ASSUME ReplyInv PROVE ConsumedOnce
    OBVIOUS
  <2>1. /\ rpc \in {"alloc", "copy", "send"} => Untouched
        /\ rpc = "returned" => Consumed \/ (rfn = "statx" /\ Untouched)
        /\ rpc = "returned" => temps = {}
    BY DEF ReplyInv
  <2>2. Len(<<>>) = 0
    OBVIOUS
  <2>3. Untouched => rq.woken + Len(rq.sent) <= 1
    BY <2>2 DEF Untouched
  <2>4. Consumed => rq.woken + Len(rq.sent) <= 1
    <3> DEFINE n == Len(rq.sent)
    <3>1. Consumed => \/ rq.woken \in {0, 1} /\ n = 0
                      \/ rq.woken = 0 /\ n = 1
      BY <2>2, Zenon DEF Consumed
    <3> HIDE DEF n
    <3>2. Consumed => rq.woken + n <= 1
      BY <3>1
    <3> QED
      BY <3>2 DEF n
  <2> QED
    BY <2>1, <2>3, <2>4 DEF ConsumedOnce, Consumed, Untouched
<1> QED
  BY <1>1, RepliesInductive, PTL

(* The caller of a reply that could not be built wakes with the error, and *)
(* one that wakes without an error has its data: the part of               *)
(* FailureReported that is not about the length of what was copied.        *)
THEOREM FailureReachesCaller == RepliesSpec => []CallerLearns
<1>1. ReplyInv => CallerLearns
  BY DEF ReplyInv, Fields, CallerLearns
<1> QED
  BY <1>1, RepliesInductive, PTL

-------------------------------------------------------------------------------
(* The copy that a reply makes.  What a call does to it: nothing yet.      *)
CallStarts ==
  /\ rpc = "idle" /\ copyVars' = copyVars /\ temps' = temps
  /\ \/ rpc' = "returned" /\ want' = want
     \/ rpc' = "send" /\ want' = want
     \/ /\ rpc' = "alloc" /\ want' \subseteq Blocks
        /\ "mbuf" \in want' <=> rfn' = "data"

LEMMA ErrStarts == ASSUME NEW e, fuse_reply_err(e) PROVE CallStarts
  BY DEF fuse_reply_err, Calls, Returns, CallStarts

LEMMA CopiesStarts == ASSUME NEW f, NEW memory, Copies(f, memory) PROVE CallStarts
  BY DEF Copies, Calls, Returns, CallStarts

LEMMA BufStarts == ASSUME NEW size, NEW memory, fuse_reply_buf(size, memory) PROVE CallStarts
<1>1. CASE size > 0
  BY <1>1, CopiesStarts DEF fuse_reply_buf
<1>2. CASE ~(size > 0)
  BY <1>2 DEF fuse_reply_buf, Calls, Returns, CallStarts
<1> QED
  BY <1>1, <1>2

LEMMA SendStarts == ASSUME NEW f, send_reply_ok(f) PROVE CallStarts
  BY DEF send_reply_ok, Calls, CallStarts

LEMMA AllocatesStarts ==
  ASSUME NEW f, NEW blocks, blocks \subseteq Blocks, "mbuf" \in blocks <=> f = "data",
         Allocates(f, blocks)
  PROVE  CallStarts
  BY DEF Allocates, Calls, CallStarts

LEMMA ReplyCallStarts == ReplyCall => CallStarts
<1>1. ASSUME NEW e \in Errnos, fuse_reply_err(e) PROVE CallStarts
  BY <1>1, ErrStarts
<1>2. ASSUME fuse_reply_none PROVE CallStarts
  BY <1>2 DEF fuse_reply_none, Calls, Returns, CallStarts
<1>3. ASSUME NEW memory \in BOOLEAN, NEW ino \in {0, 1}, fuse_reply_entry(ino, memory)
      PROVE  CallStarts
  BY <1>3, ErrStarts, CopiesStarts DEF fuse_reply_entry
<1>4. ASSUME NEW memory \in BOOLEAN, NEW size \in {0, 1}, fuse_reply_buf(size, memory)
      PROVE  CallStarts
  BY <1>4, BufStarts
<1>5. ASSUME NEW memory \in BOOLEAN, fuse_reply_attr(memory) \/ fuse_reply_open(memory)
      PROVE  CallStarts
  BY <1>5, CopiesStarts, SendStarts DEF fuse_reply_attr, fuse_reply_open
<1>6. ASSUME \/ fuse_reply_create \/ fuse_reply_readlink \/ fuse_reply_write
             \/ fuse_reply_statfs \/ fuse_reply_xattr
      PROVE  CallStarts
  BY <1>6, SendStarts DEF fuse_reply_create, fuse_reply_readlink, fuse_reply_write,
                          fuse_reply_statfs, fuse_reply_xattr
<1>7. ASSUME \/ fuse_reply_lock \/ fuse_reply_bmap \/ fuse_reply_ioctl
             \/ fuse_reply_poll \/ fuse_reply_lseek
      PROVE  CallStarts
  BY <1>7, SendStarts DEF fuse_reply_lock, fuse_reply_bmap, fuse_reply_ioctl,
                          fuse_reply_poll, fuse_reply_lseek
<1>8. ASSUME fuse_reply_statx PROVE CallStarts
  BY <1>8 DEF fuse_reply_statx, Calls, Returns, CallStarts
<1>9. ASSUME fuse_reply_iov \/ fuse_reply_ioctl_iov PROVE CallStarts
  BY <1>9, AllocatesStarts DEF fuse_reply_iov, fuse_reply_ioctl_iov, Blocks
<1>10. ASSUME fuse_reply_data PROVE CallStarts
  <2>1. send_reply_ok("data") \/ Allocates("data", {"mbuf"})
    BY <1>10 DEF fuse_reply_data
  <2> QED
    BY <2>1, SendStarts, AllocatesStarts DEF Blocks
<1>11. ASSUME NEW in \in {0, 1}, NEW out_ \in {0, 1}, fuse_reply_ioctl_retry(in, out_)
       PROVE  CallStarts
  <2> DEFINE blocks == (IF in > 0 THEN {"in_fiov"} ELSE {})
                       \cup (IF out_ > 0 THEN {"out_fiov"} ELSE {})
  <2>1. blocks \subseteq Blocks /\ ("mbuf" \in blocks <=> "ioctl_retry" = "data")
    BY DEF Blocks
  <2>2. send_reply_ok("ioctl_retry") \/ Allocates("ioctl_retry", blocks)
    BY <1>11 DEF fuse_reply_ioctl_retry
  <2> HIDE DEF blocks
  <2> QED
    BY <2>1, <2>2, SendStarts, AllocatesStarts
<1> QED
  BY <1>1, <1>2, <1>3, <1>4, <1>5, <1>6, <1>7, <1>8, <1>9, <1>10, <1>11 DEF ReplyCall

(* A step of the copy keeps the invariant of fuse_buf_copy.                *)
LEMMA CopyStepKeeps == CopyInv /\ CopyStep => CopyInv'
<1> SUFFICES ASSUME CopyInv, CopyStep PROVE CopyInv'
  OBVIOUS
<1>1. src \in Seq(Buffer)
  BY DEF CopyInv, CopyTypeOK
<1>2. CASE CopyEnds
  BY <1>2, EndsKeeps
<1>3. CASE CopyNone
  BY <1>3, NoneKeeps
<1>4. CASE CopyMemory
  BY <1>4, MemoryKeeps
<1>5. CASE CopyCalls
  BY <1>5, CallsKeeps
<1>6. ASSUME NEW n \in Outcomes, ReadCall(n) PROVE CopyInv'
  <2>1. n \in Int
    BY <1>1, OutcomesAre
  <2> QED
    BY <1>6, <2>1, ReadKeeps
<1> QED
  BY <1>2, <1>3, <1>4, <1>5, <1>6 DEF CopyStep

LEMMA RepliesKeepCopy == CopyInv /\ RepliesNext => CopyInv'
<1> SUFFICES ASSUME CopyInv, RepliesNext PROVE CopyInv'
  OBVIOUS
<1>1. CASE CopyStep
  BY <1>1, CopyStepKeeps
<1>2. CASE ReplyCall
  <2>1. UNCHANGED copyVars
    BY <1>2, ReplyCallStarts DEF CallStarts
  <2> QED
    BY <2>1, CopyStutters
<1>3. CASE Alloc \/ AllocFails \/ Allocated \/ CopyFails \/ CopyDone
  <2>1. UNCHANGED copyVars
    BY <1>3 DEF Alloc, AllocFails, Allocated, CopyFails, CopyDone
  <2> QED
    BY <2>1, CopyStutters
<1>4. CASE Send \/ SendFails \/ Cleanup
  <2>1. UNCHANGED copyVars
    BY <1>4, Zenon DEF Send, SendFails, Cleanup
  <2> QED
    BY <2>1, CopyStutters
<1> QED
  BY <1>1, <1>2, <1>3, <1>4 DEF RepliesNext

(* How many bytes mbuf holds before the copy and after it.                 *)
LEMMA CopyHolds ==
  ASSUME CopyInv
  PROVE  /\ CopyUnused => Stored(out) = 0
         /\ cpc = "done" /\ res >= 0 => Stored(out) = res
<1>1. Stored(out) = copied + (moved + drained) /\ copied \in Nat
  BY DEF CopyInv, CopyTypeOK, Written
<1>2. cpc = "done" => moved = 0 /\ drained = 0
  BY DEF CopyInv, CallInv
<1>3. cpc = "done" /\ res >= 0 => res = copied
  BY DEF CopyInv
<1> QED
  BY <1>1, <1>2, <1>3 DEF CopyUnused

(* What SentInv needs of the copy's variables where they do not change.    *)
LEMMA SameCopy ==
  UNCHANGED copyVars => /\ CopyUnused' <=> CopyUnused
                        /\ cpc' = cpc /\ res' = res /\ Stored(out)' = Stored(out)
  BY DEF copyVars, CopyUnused

LEMMA CallKeepsSent == ReplyInv /\ ReplyInv' /\ SentInv /\ ReplyCall => SentInv'
<1> SUFFICES ASSUME ReplyInv, ReplyInv', SentInv, ReplyCall PROVE SentInv'
  OBVIOUS
<1>1. CallStarts /\ CallEffect
  BY ReplyCallStarts, ReplyCallEffect
<1>2. rpc = "idle" /\ UNCHANGED copyVars /\ temps' = temps /\ temps = {}
  BY <1>1 DEF CallStarts, ReplyInv
<1>3. CopyUnused /\ CopyUnused'
  BY <1>2, SameCopy DEF SentInv
<1>4. rpc' = "returned" => rq'.sent = <<>>
  <2>1. DOMAIN rq = Fields /\ rq.ukfs \in BOOLEAN /\ Untouched
    BY <1>2 DEF ReplyInv
  <2>2. CASE Answered
    BY <2>1, <2>2, AnswerFields DEF Answered
  <2>3. CASE Dropped
    BY <2>1, <2>3, FreedFields DEF Dropped
  <2>4. CASE Started
    BY <2>4 DEF Started
  <2>5. CASE Refused
    BY <2>1, <2>5 DEF Refused, Untouched
  <2> QED
    BY <1>1, <2>2, <2>3, <2>4, <2>5 DEF CallEffect
<1>5. /\ want \subseteq Blocks
  BY DEF SentInv
<1> QED
  BY <1>1, <1>2, <1>3, <1>4, <1>5 DEF CallStarts, SentInv

LEMMA AllocKeepsSent == SentInv /\ Alloc => SentInv'
<1> SUFFICES ASSUME SentInv, Alloc PROVE SentInv'
  OBVIOUS
<1>1. /\ rpc = "alloc" /\ want # {} /\ rpc' = rpc /\ rfn' = rfn /\ UNCHANGED copyVars
      /\ temps' = temps \cup {NextBlock} /\ want' = want \ {NextBlock}
  BY DEF Alloc
<1>2. NextBlock \in want
  <2>1. PICK b : b \in want
    BY <1>1
  <2>2. (CHOOSE x \in want : TRUE) \in want
    BY <2>1, Zenon
  <2> QED
    BY <2>2 DEF NextBlock
<1>3. CopyUnused'
  BY <1>1, SameCopy DEF SentInv
<1> QED
  BY <1>1, <1>2, <1>3 DEF SentInv

(* A reply that ends with an error has sent nothing.                       *)
LEMMA ErrKeepsSent ==
  ASSUME ReplyInv, SentInv, rpc \in {"alloc", "copy"}, NEW e, EndWithErr(e),
         want' \in {want, {}}, UNCHANGED <<rfn, temps>>
  PROVE  SentInv'
<1>1. DOMAIN rq = Fields /\ rq.ukfs \in BOOLEAN /\ Untouched
  BY DEF ReplyInv
<1>2. rq' = Answer(rq, e, Nothing) /\ rpc' = "cleanup"
  BY DEF EndWithErr
<1>3. rq'.sent = <<>>
  BY <1>1, <1>2, AnswerFields
<1> QED
  BY <1>2, <1>3 DEF SentInv

LEMMA SendKeepsSent == CopyInv /\ ReplyInv /\ SentInv /\ Send => SentInv'
<1> SUFFICES ASSUME CopyInv, ReplyInv, SentInv, Send PROVE SentInv'
  OBVIOUS
<1>1. /\ rpc = "send" /\ rpc' = "cleanup" /\ UNCHANGED copyVars /\ want' = want /\ temps' = temps
      /\ rq' = [FreedReq(rq) EXCEPT !.sent = Append(@, Payload)]
  BY DEF Send
<1>2. Payload = Stored(out)
  <2>1. CASE "mbuf" \in temps
    BY <1>1, <2>1, CopyHolds DEF SentInv, Payload
  <2>2. CASE "mbuf" \notin temps
    BY <1>1, <2>2, CopyHolds DEF SentInv, Payload
  <2> QED
    BY <2>1, <2>2
<1>3. Stored(out)' = Stored(out)
  BY <1>1, SameCopy
<1>4. rq'.sent[1] = Payload
  <2> DEFINE r == FreedReq(rq)
  <2>1. DOMAIN rq = Fields /\ rq.ukfs \in BOOLEAN /\ Untouched
    BY <1>1 DEF ReplyInv
  <2>2. DOMAIN r = Fields /\ r.sent = <<>>
    BY <2>1, FreedFields
  <2>3. Append(r.sent, Payload)[1] = Payload
    BY <2>2
  <2> HIDE DEF r
  <2>4. rq' = [r EXCEPT !.sent = Append(r.sent, Payload)]
    BY <1>1 DEF r
  <2>5. rq'.sent = Append(r.sent, Payload)
    BY <2>2, <2>4 DEF Fields
  <2> QED
    BY <2>3, <2>5
<1>5. rq'.sent[1] = Stored(out)'
  BY <1>2, <1>3, <1>4, Zenon
<1>6. want' \subseteq Blocks /\ temps' \subseteq Blocks
  BY <1>1 DEF SentInv
<1> QED
  BY <1>1, <1>5, <1>6 DEF SentInv

LEMMA SendFailsKeepsSent == ReplyInv /\ SentInv /\ SendFails => SentInv'
<1> SUFFICES ASSUME ReplyInv, SentInv, SendFails PROVE SentInv'
  OBVIOUS
<1>1. /\ rpc = "send" /\ rpc' = "cleanup" /\ want' = want /\ temps' = temps
      /\ rq' = FreedReq(rq)
  BY Zenon DEF SendFails
<1>2. rq'.sent = <<>>
  BY <1>1, FreedFields DEF ReplyInv
<1> QED
  BY <1>1, <1>2 DEF SentInv

LEMMA InitSentInv == RepliesInit /\ ReplyVectors => CopyInv /\ SentInv
<1> SUFFICES ASSUME RepliesInit, ReplyVectors PROVE CopyInv /\ SentInv
  OBVIOUS
<1>1. PICK v \in SrcVectors : CopyFrom(v, MemBuf(v))
  BY DEF ReplyVectors
<1>2. v \in Seq(Buffer)
  BY BufAssumption
<1>3. fuse_buf_size(v) \in Nat
  BY <1>2, RoomFinite, FS_CardinalityType DEF fuse_buf_size
<1>4. MemBuf(v) \in Seq(Buffer)
  BY <1>3 DEF MemBuf, Buffer
<1>5. CopyInv
  BY <1>1, <1>2, <1>4, FromKeeps
<1>6. CopyUnused
  BY <1>1 DEF CopyFrom, CopyUnused
<1>7. rpc = "idle" /\ want = {} /\ temps = {}
  BY DEF RepliesInit
<1> QED
  BY <1>5, <1>6, <1>7 DEF SentInv

LEMMA SentNextKeeps == CopyInv /\ ReplyInv /\ ReplyInv' /\ SentInv /\ RepliesNext => SentInv'
<1> SUFFICES ASSUME CopyInv, ReplyInv, ReplyInv', SentInv, RepliesNext PROVE SentInv'
  OBVIOUS
<1>1. CASE ReplyCall
  BY <1>1, CallKeepsSent
<1>2. CASE Alloc
  BY <1>2, AllocKeepsSent
<1>3. CASE AllocFails
  BY <1>3, ErrKeepsSent DEF AllocFails
<1>4. CASE Allocated
  <2>1. /\ rpc = "alloc" /\ want = {} /\ rfn' = rfn /\ want' = want /\ temps' = temps
        /\ rpc' = IF rfn = "data" THEN "copy" ELSE "send"
        /\ UNCHANGED copyVars
    BY <1>4 DEF Allocated
  <2>2. CopyUnused'
    BY <2>1, SameCopy DEF SentInv
  <2> QED
    BY <2>1, <2>2 DEF SentInv
<1>5. CASE CopyStep
  BY <1>5 DEF CopyStep, replyVars, SentInv
<1>6. CASE CopyFails
  BY <1>6, ErrKeepsSent DEF CopyFails
<1>7. CASE CopyDone
  BY <1>7 DEF CopyDone, SentInv, copyVars
<1>8. CASE Send
  BY <1>8, SendKeepsSent
<1>9. CASE SendFails
  BY <1>9, SendFailsKeepsSent
<1>10. CASE Cleanup
  <2>1. /\ rpc = "cleanup" /\ rpc' = "returned" /\ temps' = {} /\ want' = want /\ rq' = rq
        /\ Stored(out)' = Stored(out)
    BY <1>10, SameCopy DEF Cleanup
  <2> QED
    BY <2>1 DEF SentInv
<1> QED
  BY <1>1, <1>2, <1>3, <1>4, <1>5, <1>6, <1>7, <1>8, <1>9, <1>10 DEF RepliesNext

LEMMA SentStutters == SentInv /\ UNCHANGED <<replyVars, copyVars>> => SentInv'
<1> SUFFICES ASSUME SentInv, UNCHANGED <<replyVars, copyVars>> PROVE SentInv'
  OBVIOUS
<1>1. /\ rfn' = rfn /\ rpc' = rpc /\ rq' = rq /\ want' = want /\ temps' = temps
      /\ UNCHANGED copyVars
  BY DEF replyVars
<1>2. /\ CopyUnused' <=> CopyUnused
      /\ cpc' = cpc /\ res' = res /\ Stored(out)' = Stored(out)
  BY <1>1, SameCopy
<1> QED
  BY <1>1, <1>2 DEF SentInv

(* The inductive invariant of a reply and its copy.                        *)
THEOREM SentInductive == RepliesSpec => [](CopyInv /\ SentInv)
<1>1. CopyInv /\ UNCHANGED <<replyVars, copyVars>> => CopyInv'
  BY CopyStutters
<1> QED
  BY <1>1, InitSentInv, SentNextKeeps, SentStutters, RepliesKeepCopy, RepliesInductive, PTL
     DEF RepliesSpec

(* What a reply function could not do it reports to the caller, and what   *)
(* fuse_reply_data writes to the device is as long as what the copy put    *)
(* into mbuf, whatever the descriptors of the vector deliver.              *)
THEOREM FailuresReported == RepliesSpec => []FailureReported
<1>1. SentInv => (rpc = "returned" /\ rq.sent # <<>> => rq.sent[1] = Stored(out))
  BY DEF SentInv
<1>2. CallerLearns /\ SentInv => FailureReported
  BY <1>1 DEF FailureReported
<1> QED
  BY <1>2, FailureReachesCaller, SentInductive, PTL

(* The temporary memory and the counters of a request are well typed.      *)
THEOREM RepliesTypes == RepliesSpec => []RepliesTypeOK
<1>1. ReplyInv /\ SentInv => RepliesTypeOK
  BY DEF ReplyInv, SentInv, RepliesTypeOK, Untouched, Consumed
<1> QED
  BY <1>1, RepliesInductive, SentInductive, PTL
===============================================================================
