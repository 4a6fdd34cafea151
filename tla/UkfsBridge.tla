------------------------------ MODULE UkfsBridge ------------------------------
(***************************************************************************)
(* The transport between the ukfs file system driver and the libfuse       *)
(* session (libs/ukfusefs, and the reply path of libs/libfuse).  An        *)
(* application thread builds a struct fuse_ukfs_request on its own stack,  *)
(* pushes a pointer to it on the global queue and sleeps on its `done`     *)
(* semaphore.  The daemon thread pops the pointer, copies the request into *)
(* a FUSE message and hands message and pointer to libfuse, whose handler  *)
(* (or, later, any thread of the backend) fills in the reply and ups       *)
(* `done`.  Nothing but that semaphore keeps the stack frame alive.        *)
(*                                                                         *)
(* A request is named by its `unique` number, which also stands for its    *)
(* address: no two requests of a behaviour share one, so a pointer kept    *)
(* too long cannot hide behind a frame that reuses the address.            *)
(***************************************************************************)
EXTENDS Naturals, Sequences, FiniteSets

CONSTANTS
  Threads,        \* application threads inside the mounted file system
  Daemons,        \* daemon threads serving the queue
  MaxUnique,      \* bound: how many requests a behaviour issues
  UkfsOpcodes,    \* opcodes callers put in a request
  Implemented,    \* opcodes with a handler in the backend's fuse_lowlevel_ops
  ReplyStyles,    \* how the backend answers: see Answers and Unadapted
  FailingAllocs,  \* allocation sites that may fail
  MayDefer        \* TRUE if a handler may return before it has replied

(* dispatch_table: what the daemon can translate.                          *)
DispatchTable == {"LOOKUP", "GETATTR", "OPEN", "READ", "READDIR"}
BufOpcodes == {"READ", "READDIR"}   \* answered with fuse_reply_buf

ASSUME ThreadsAssumption ==
  /\ IsFiniteSet(Threads)
  /\ IsFiniteSet(Daemons)
  /\ Threads \cap Daemons = {}
ASSUME BoundAssumption == MaxUnique \in Nat
ASSUME BackendAssumption ==
  /\ Implemented \subseteq DispatchTable
  /\ ReplyStyles \subseteq {"err", "ok", "eof", "negative", "iov", "data"}
  /\ FailingAllocs \subseteq {"name", "child", "reply", "request"}
  /\ MayDefer \in BOOLEAN

Agents == Threads \cup Daemons
Uniques == 1 .. MaxUnique
NoReq == 0

(* The output half of struct fuse_ukfs_request.  `data` tells apart a NULL *)
(* reply_data, a buffer with content, a buffer of length 0 and an entry    *)
(* with inode number 0.                                                    *)
Errors == {"none", "ENOSYS", "ENOMEM", "backend"}
DataKinds == {"null", "bytes", "empty", "negative"}
Replies == [error : Errors, data : DataKinds]
Zeroed == [error |-> "none", data |-> "null"]     \* memset(&req, 0, ...)
Err(e) == [error |-> e, data |-> "null"]

VARIABLES
  nextUnique,   \* fuse_req_unique
  pc, cur,      \* per thread: where it is, and the request on its stack
  op, reply,    \* per request: opcode, reply fields
  done,         \* per request: count of the `done` semaphore
  heap,         \* live allocations: <<"name" or "reply", request>>
  ret,          \* per thread: what its last call returned
  queue,        \* fuse_global_queue.head
  lock,         \* fuse_global_queue.lock: the set of its holders
  count,        \* fuse_global_queue.count
  seen,         \* per agent: the list as read since it took the lock
  dpc, dreq,    \* per daemon: where it is, and the request it carries
  rstate        \* per request: its struct fuse_req, "none" when there is none

callerVars == <<nextUnique, pc, cur, op, ret>>
queueVars == <<queue, lock, count, seen>>
daemonVars == <<dpc, dreq>>
replyVars == <<reply, done, heap, rstate>>
vars == <<nextUnique, pc, cur, op, ret, queue, lock, count, seen,
          dpc, dreq, reply, done, heap, rstate>>

Results == Errors \cup {"EIO", "node", "node0", "stat", "fh", "data", "eof",
                         "entry", "end", "none yet"}

TypeOK ==
  /\ nextUnique \in 1 .. MaxUnique + 1
  /\ pc \in [Threads -> {"idle", "lock", "insert", "up", "wait"}]
  /\ cur \in [Threads -> Uniques \cup {NoReq}]
  /\ op \in [Uniques -> UkfsOpcodes \cup {"nothing"}]
  /\ reply \in [Uniques -> Replies]
  /\ done \in [Uniques -> Nat]
  /\ heap \subseteq {"name", "reply"} \X Uniques
  /\ ret \in [Threads -> Results]
  /\ queue \in Seq(Uniques)
  /\ lock \subseteq Agents
  /\ count \in Nat
  /\ seen \in [Agents -> Seq(Uniques)]
  /\ dpc \in [Daemons -> {"down", "lock", "remove", "fill", "inop"}]
  /\ dreq \in [Daemons -> Uniques \cup {NoReq}]
  /\ rstate \in [Uniques -> {"none", "held", "filled"}]

Init ==
  /\ nextUnique = 1
  /\ pc = [t \in Threads |-> "idle"]
  /\ cur = [t \in Threads |-> NoReq]
  /\ op = [u \in Uniques |-> "nothing"]
  /\ reply = [u \in Uniques |-> Zeroed]
  /\ done = [u \in Uniques |-> 0]
  /\ heap = {}
  /\ ret = [t \in Threads |-> "none yet"]
  /\ queue = <<>>
  /\ lock = {}
  /\ count = 0
  /\ seen = [a \in Agents |-> <<>>]
  /\ dpc = [d \in Daemons |-> "down"]
  /\ dreq = [d \in Daemons |-> NoReq]
  /\ rstate = [u \in Uniques |-> "none"]

-------------------------------------------------------------------------------
(* The queue's mutex.  Linking or unlinking a TAILQ element is not one     *)
(* memory access: an agent reads the list when it enters and writes back   *)
(* what follows from that reading when it leaves.                          *)
Acquire(a) ==
  /\ lock = {}
  /\ lock' = lock \cup {a}
  /\ seen' = [seen EXCEPT ![a] = queue]

Release(a) ==
  /\ lock' = lock \ {a}
  /\ seen' = [seen EXCEPT ![a] = <<>>]

-------------------------------------------------------------------------------
(* The calling thread: fusefs_lookup, fusefs_getstat, fusefs_do_open,      *)
(* fusefs_read and fusefs_listdir share this shape.                        *)

(* The name of a LOOKUP cannot be copied: the call fails with no request.  *)
NameAllocFails(t) ==
  /\ pc[t] = "idle"
  /\ "name" \in FailingAllocs
  /\ "LOOKUP" \in UkfsOpcodes
  /\ ret' = [ret EXCEPT ![t] = "ENOMEM"]
  /\ UNCHANGED <<nextUnique, pc, cur, op, queueVars, daemonVars, replyVars>>

(* Build the request: zeroed, numbered, `done` at 0.                       *)
Begin(t, o) ==
  LET u == nextUnique IN
  /\ pc[t] = "idle"
  /\ u \in Uniques
  /\ nextUnique' = u + 1
  /\ cur' = [cur EXCEPT ![t] = u]
  /\ op' = [op EXCEPT ![u] = o]
  /\ reply' = [reply EXCEPT ![u] = Zeroed]
  /\ done' = [done EXCEPT ![u] = 0]
  /\ heap' = heap \cup {<<"name", v>> : v \in IF o = "LOOKUP" THEN {u} ELSE {}}
  /\ pc' = [pc EXCEPT ![t] = "lock"]
  /\ UNCHANGED <<ret, queueVars, daemonVars, rstate>>

PushLockUnlocked(t) ==      \* mutant: push does not take the mutex
  /\ pc[t] = "lock"
  /\ seen' = [seen EXCEPT ![t] = queue]
  /\ pc' = [pc EXCEPT ![t] = "insert"]
  /\ UNCHANGED <<nextUnique, cur, op, ret, queue, lock, count, daemonVars, replyVars>>

(* fuse_ukfs_queue_push: lock; link at the tail and unlock; up(count).     *)
PushLock(t) ==
  /\ pc[t] = "lock"
  /\ Acquire(t)
  /\ pc' = [pc EXCEPT ![t] = "insert"]
  /\ UNCHANGED <<nextUnique, cur, op, ret, queue, count, daemonVars, replyVars>>

PushInsert(t) ==
  /\ pc[t] = "insert"
  /\ queue' = Append(seen[t], cur[t])
  /\ Release(t)
  /\ pc' = [pc EXCEPT ![t] = "up"]
  /\ UNCHANGED <<nextUnique, cur, op, ret, count, daemonVars, replyVars>>

PushUp(t) ==
  /\ pc[t] = "up"
  /\ count' = count + 1
  /\ pc' = [pc EXCEPT ![t] = "wait"]
  /\ UNCHANGED <<nextUnique, cur, op, ret, queue, lock, seen, daemonVars, replyVars>>

(* Mutant: the caller reports every failed request as -EIO.               *)
KeptAsEIO(o, r) == IF r.error # "none" THEN {"EIO"} ELSE {"ENOMEM"}

(* Mutant: an early return skips free(name).                              *)
FreedOnSuccess(u) == {b \in {"name", "reply"} \X {u} : reply[u].error = "none"}

(* What each caller makes of the reply.                                    *)
Decode(o, r) ==
  IF r.error # "none" THEN r.error
  ELSE CASE o = "READ" -> IF r.data = "bytes" THEN "data" ELSE "eof"
         [] o = "READDIR" -> IF r.data = "bytes" THEN "entry" ELSE "end"
         [] o \notin BufOpcodes /\ r.data = "null" -> "EIO"
         [] o = "LOOKUP" /\ r.data # "null" -> IF r.data = "negative" THEN "node0" ELSE "node"
         [] o = "GETATTR" /\ r.data # "null" -> "stat"
         [] OTHER -> "fh"

(* A LOOKUP that cannot allocate the child node gives up with -ENOMEM.     *)
Kept(o, r) ==
  {Decode(o, r)} \cup
  {e \in {"ENOMEM"} : "child" \in FailingAllocs /\ o = "LOOKUP" /\ r.error = "none"}

(* What the caller frees on its way out: the name always, the reply buffer *)
(* on every path but the error return.                                     *)
Freed(u) ==
  {<<"name", u>>} \cup {<<"reply", v>> : v \in {w \in {u} : reply[w].error = "none"}}

WakeUnasked(t) ==           \* mutant: the caller does not wait for `done`
  LET u == cur[t] IN
  /\ pc[t] = "wait"
  /\ heap' = heap \ Freed(u)
  /\ cur' = [cur EXCEPT ![t] = NoReq]
  /\ pc' = [pc EXCEPT ![t] = "idle"]
  /\ UNCHANGED <<nextUnique, op, ret, reply, done, rstate, queueVars, daemonVars>>

(* down(done) returns; the rest of the caller runs and its frame is gone.  *)
Wake(t) ==
  LET u == cur[t] IN
  /\ pc[t] = "wait"
  /\ done[u] > 0
  /\ done' = [done EXCEPT ![u] = @ - 1]
  /\ \E r \in Kept(op[u], reply[u]) : ret' = [ret EXCEPT ![t] = r]
  /\ heap' = heap \ Freed(u)
  /\ cur' = [cur EXCEPT ![t] = NoReq]
  /\ pc' = [pc EXCEPT ![t] = "idle"]
  /\ UNCHANGED <<nextUnique, op, reply, rstate, queueVars, daemonVars>>

-------------------------------------------------------------------------------
(* The daemon thread.                                                      *)

PopDownNoWait(d) ==         \* mutant: pop does not wait for a request
  /\ dpc[d] = "down"
  /\ count' = count - 1
  /\ dpc' = [dpc EXCEPT ![d] = "lock"]
  /\ UNCHANGED <<callerVars, queue, lock, seen, dreq, replyVars>>

PopRemoveKeeps(d) ==        \* mutant: the head is read but not unlinked
  /\ dpc[d] = "remove"
  /\ seen[d] # <<>>
  /\ dreq' = [dreq EXCEPT ![d] = Head(seen[d])]
  /\ Release(d)
  /\ dpc' = [dpc EXCEPT ![d] = "fill"]
  /\ UNCHANGED <<callerVars, queue, count, replyVars>>

DispatchUnknownSilent(d) == \* mutant: the unknown opcode is not signalled
  /\ dpc[d] = "fill"
  /\ op[dreq[d]] \notin DispatchTable
  /\ reply' = [reply EXCEPT ![dreq[d]] = Err("ENOSYS")]
  /\ dpc' = [dpc EXCEPT ![d] = "down"]
  /\ dreq' = [dreq EXCEPT ![d] = NoReq]
  /\ UNCHANGED <<callerVars, queueVars, done, heap, rstate>>

(* fuse_ukfs_queue_pop: down(count); lock; unlink the head and unlock.     *)
PopDown(d) ==
  /\ dpc[d] = "down"
  /\ count > 0
  /\ count' = count - 1
  /\ dpc' = [dpc EXCEPT ![d] = "lock"]
  /\ UNCHANGED <<callerVars, queue, lock, seen, dreq, replyVars>>

PopLock(d) ==
  /\ dpc[d] = "lock"
  /\ Acquire(d)
  /\ dpc' = [dpc EXCEPT ![d] = "remove"]
  /\ UNCHANGED <<callerVars, queue, count, dreq, replyVars>>

PopRemove(d) ==
  /\ dpc[d] = "remove"
  /\ seen[d] # <<>>                                   \* UK_ASSERT(req)
  /\ dreq' = [dreq EXCEPT ![d] = Head(seen[d])]
  /\ queue' = Tail(seen[d])
  /\ Release(d)
  /\ dpc' = [dpc EXCEPT ![d] = "fill"]
  /\ UNCHANGED <<callerVars, count, replyVars>>

(* No entry of dispatch_table for this opcode: answered by the daemon.     *)
DispatchUnknown(d) ==
  LET u == dreq[d] IN
  /\ dpc[d] = "fill"
  /\ op[u] \notin DispatchTable
  /\ reply' = [reply EXCEPT ![u] = Err("ENOSYS")]
  /\ done' = [done EXCEPT ![u] = @ + 1]
  /\ dpc' = [dpc EXCEPT ![d] = "down"]
  /\ dreq' = [dreq EXCEPT ![d] = NoReq]
  /\ UNCHANGED <<callerVars, queueVars, heap, rstate>>

(* Fill the message; process_buf allocates a struct fuse_req that carries  *)
(* the pointer, queues it on the session and calls the handler.            *)
Dispatch(d) ==
  /\ dpc[d] = "fill"
  /\ op[dreq[d]] \in DispatchTable
  /\ rstate' = [rstate EXCEPT ![dreq[d]] = "held"]
  /\ dpc' = [dpc EXCEPT ![d] = "inop"]
  /\ UNCHANGED <<callerVars, queueVars, dreq, reply, done, heap>>

(* fuse_ll_alloc_req fails: the -ENOMEM message goes to the channel's fd;  *)
(* the requester's semaphore is not touched.                               *)
DispatchAllocFails(d) ==
  /\ dpc[d] = "fill"
  /\ "request" \in FailingAllocs
  /\ op[dreq[d]] \in DispatchTable
  /\ dpc' = [dpc EXCEPT ![d] = "down"]
  /\ dreq' = [dreq EXCEPT ![d] = NoReq]
  /\ UNCHANGED <<callerVars, queueVars, replyVars>>

(* The handler returns to the daemon loop: having replied, or, if the      *)
(* backend defers, with the reply still to come from another thread.       *)
HandlerReturns(d) ==
  /\ dpc[d] = "inop"
  /\ rstate[dreq[d]] = "none" \/ MayDefer
  /\ dpc' = [dpc EXCEPT ![d] = "down"]
  /\ dreq' = [dreq EXCEPT ![d] = NoReq]
  /\ UNCHANGED <<callerVars, queueVars, replyVars>>

-------------------------------------------------------------------------------
(* The backend answers a request it holds.                                 *)

(* fuse_reply_entry, fuse_reply_attr, fuse_reply_open, fuse_reply_buf: the *)
(* payload is copied into a fresh buffer, or the copy cannot be allocated. *)
Payload(kind) ==
  {[error |-> "none", data |-> kind]} \cup
  {Err(e) : e \in {x \in {"ENOMEM"} : "reply" \in FailingAllocs}}

(* fuse_reply_buf of 0 bytes: whatever malloc(0) returns.                  *)
EmptyBuf == {[error |-> "none", data |-> k] : k \in {"null", "empty"}}

(* The replies that reach the requester, by opcode.  An operation that the *)
(* backend lacks is answered by libfuse: ENOSYS, except that OPEN succeeds.*)
Answers(o) ==
  IF o \notin Implemented
    THEN IF o = "OPEN" THEN Payload("bytes") ELSE {Err("ENOSYS")}
    ELSE UNION {
      IF "err" \in ReplyStyles THEN {Err("backend")} ELSE {},
      IF "ok" \in ReplyStyles THEN Payload("bytes") ELSE {},
      IF "eof" \in ReplyStyles /\ o \in BufOpcodes THEN EmptyBuf ELSE {},
      IF "negative" \in ReplyStyles /\ o = "LOOKUP" THEN Payload("negative") ELSE {},
      IF {"iov", "data"} \cap ReplyStyles # {} /\ "reply" \in FailingAllocs
           /\ o \in BufOpcodes
        THEN {Err("ENOMEM")} ELSE {} }

(* A reply function stores error, reply_data and reply_len ...             *)
ReplyFill(u) ==
  /\ rstate[u] = "held"
  /\ \E a \in Answers(op[u]) :
       /\ reply' = [reply EXCEPT ![u] = a]
       /\ heap' = heap \cup {<<"reply", v>> : v \in {w \in {u} : a.data # "null"}}
  /\ rstate' = [rstate EXCEPT ![u] = "filled"]
  /\ UNCHANGED <<callerVars, queueVars, daemonVars, done>>

ReplyDoneHolds(u) ==        \* mutant: the struct fuse_req survives its reply
  /\ rstate[u] = "filled"
  /\ done' = [done EXCEPT ![u] = @ + 1]
  /\ rstate' = [rstate EXCEPT ![u] = "held"]
  /\ UNCHANGED <<callerVars, queueVars, daemonVars, reply, heap>>

(* ... then ups `done` and frees the struct fuse_req.                      *)
ReplyDone(u) ==
  /\ rstate[u] = "filled"
  /\ done' = [done EXCEPT ![u] = @ + 1]
  /\ rstate' = [rstate EXCEPT ![u] = "none"]
  /\ UNCHANGED <<callerVars, queueVars, daemonVars, reply, heap>>

(* fuse_reply_iov and fuse_reply_data write to ch->fd and free the struct  *)
(* fuse_req; the request of the waiting thread is left as it was.          *)
ReplyUnadapted(u) ==
  /\ rstate[u] = "held"
  /\ op[u] \in BufOpcodes \cap Implemented
  /\ {"iov", "data"} \cap ReplyStyles # {}
  /\ rstate' = [rstate EXCEPT ![u] = "none"]
  /\ UNCHANGED <<callerVars, queueVars, daemonVars, reply, done, heap>>

-------------------------------------------------------------------------------
ThreadStep(t) == PushLock(t) \/ PushInsert(t) \/ PushUp(t) \/ Wake(t)

DaemonStep(d) ==
  \/ PopDown(d) \/ PopLock(d) \/ PopRemove(d)
  \/ DispatchUnknown(d) \/ Dispatch(d) \/ DispatchAllocFails(d)
  \/ HandlerReturns(d)

BackendStep(u) == ReplyFill(u) \/ ReplyDone(u) \/ ReplyUnadapted(u)

(* Every call the bound allows has returned and the daemons wait for more. *)
Quiescent ==
  /\ nextUnique > MaxUnique
  /\ \A t \in Threads : pc[t] = "idle"
  /\ \A d \in Daemons : dpc[d] = "down"
  /\ UNCHANGED vars

Next ==
  \/ \E t \in Threads :
       NameAllocFails(t) \/ (\E o \in UkfsOpcodes : Begin(t, o)) \/ ThreadStep(t)
  \/ \E d \in Daemons : DaemonStep(d)
  \/ \E u \in Uniques : BackendStep(u)
  \/ Quiescent

Spec == Init /\ [][Next]_vars

(* Threads are scheduled, a mutex held for a bounded time is obtained, and *)
(* the backend answers what it was asked.                                  *)
FairSpec ==
  /\ Spec
  /\ \A t \in Threads : WF_vars(ThreadStep(t))
  /\ \A d \in Daemons : WF_vars(DaemonStep(d))
  /\ \A u \in Uniques : WF_vars(BackendStep(u))

-------------------------------------------------------------------------------
(* Who may still follow a pointer to request u.                            *)
Carried(u) == \E d \in Daemons : dpc[d] = "fill" /\ dreq[d] = u
Queued(u) == \E i \in 1 .. Len(queue) : queue[i] = u
Owned(u) == \E t \in Threads : cur[t] = u /\ pc[t] \in {"up", "wait"}

(* Why the properties below hold.  The mutex: its holder is the one agent  *)
(* inside the critical section, and what it read is still the list.        *)
MutexInv ==
  /\ \A a, b \in lock : a = b
  /\ \A t \in Threads : t \in lock <=> pc[t] = "insert"
  /\ \A d \in Daemons : d \in lock <=> dpc[d] = "remove"
  /\ \A a \in lock : seen[a] = queue

(* The semaphore: a request on the list is counted, or taken by a daemon   *)
(* that has yet to unlink one, or linked by a thread that has yet to up.   *)
Tickets == {d \in Daemons : dpc[d] \in {"lock", "remove"}}
Pushers == {t \in Threads : pc[t] = "up"}
CountInv == Len(queue) = count + Cardinality(Tickets) + Cardinality(Pushers)

(* The stack frames: one request per thread in a call, numbered below the  *)
(* next one, on no two stacks.                                             *)
CallerInv ==
  /\ \A t \in Threads : cur[t] = NoReq <=> pc[t] = "idle"
  /\ \A t \in Threads : cur[t] < nextUnique
  /\ \A s, t \in Threads : cur[s] = cur[t] /\ cur[s] # NoReq => s = t

(* The reply buffer exists from the fill to the caller's return, and never *)
(* beside an error.                                                        *)
BufferInv ==
  \A u \in Uniques :
    <<"reply", u>> \in heap =>
      /\ rstate[u] = "filled" \/ done[u] > 0
      /\ reply[u].error = "none"

(* fuse_ukfs_queue_pop asserts that the list is not empty once the         *)
(* semaphore has been taken, although push links the request before it ups *)
(* the semaphore and pop unlinks it after: UK_ASSERT(req) never fails.     *)
PopFindsRequest ==
  \A d \in Daemons : dpc[d] = "remove" => seen[d] # <<>>

(* The request lives in the caller's stack frame.  As long as the queue,   *)
(* the daemon or libfuse can still follow the pointer, the caller has not  *)
(* returned.                                                               *)
FramesOutliveUse ==
  \A u \in Uniques :
    (Queued(u) \/ Carried(u) \/ rstate[u] # "none") => Owned(u)

(* A request has one position on its way: on the list once, with one       *)
(* daemon, in one struct fuse_req, or signalled once.  So no request is    *)
(* served twice and no reply is written over another.                      *)
ServedOnce ==
  /\ \A i, j \in 1 .. Len(queue) : queue[i] = queue[j] => i = j
  /\ \A d, e \in Daemons :
       dpc[d] = "fill" /\ dpc[e] = "fill" /\ dreq[d] = dreq[e] => d = e
  /\ \A u \in Uniques :
       /\ ~(Queued(u) /\ Carried(u))
       /\ rstate[u] # "none" => ~Queued(u) /\ ~Carried(u)
       /\ done[u] > 0 => done[u] = 1 /\ rstate[u] = "none" /\ ~Queued(u) /\ ~Carried(u)

(* The copied name of a LOOKUP and the reply buffer belong to the caller:  *)
(* whatever path it returns by, it leaves neither behind.                  *)
NoLeak == \A b \in heap : \E t \in Threads : cur[t] = b[2]

(* A signalled request still has its caller.                               *)
SignalledOwned == \A u \in Uniques : done[u] > 0 => Owned(u)

(* The inductive invariant: no part of it survives a step without others.  *)
IndInv ==
  /\ TypeOK /\ MutexInv /\ CountInv /\ CallerInv /\ BufferInv
  /\ FramesOutliveUse /\ SignalledOwned /\ ServedOnce /\ NoLeak

(* Once `done` is up the caller reads the reply with no lock: nobody       *)
(* writes to it any more.                                                  *)
ReplyStable ==
  [][\A u \in Uniques : done[u] > 0 => reply'[u] = reply[u]]_vars

(* Every call into the file system returns.                                *)
EveryCallReturns ==
  \A t \in Threads : pc[t] # "idle" ~> pc[t] = "idle"

(* The documentation of the read and readdir handlers lists fuse_reply_iov *)
(* and fuse_reply_data among the valid replies: a READ or READDIR answered *)
(* in a valid way completes.                                               *)
ValidReplyCompletes ==
  \A t \in Threads :
    (pc[t] = "wait" /\ op[cur[t]] \in BufOpcodes) ~> pc[t] = "idle"

(* "In lookup, zero means negative entry": no caller of fusefs_lookup is   *)
(* handed a file for an entry whose inode number is 0.                     *)
NegativeEntryIsNotFound == \A t \in Threads : ret[t] # "node0"

-------------------------------------------------------------------------------
(* The transport as the driver sees it: RequestService.                    *)
PhaseOf(t) ==
  IF cur[t] = NoReq THEN "idle"
  ELSE IF done[cur[t]] > 0 THEN "answered" ELSE "pending"

ServicePhase == [t \in Threads |-> PhaseOf(t)]
ServiceAsked == [t \in Threads |-> IF cur[t] = NoReq THEN "nothing" ELSE op[cur[t]]]
ServiceAnswer ==
  [t \in Threads |-> IF PhaseOf(t) = "answered" THEN Decode(op[cur[t]], reply[cur[t]])
                     ELSE "none yet"]

ServiceOutcomes ==
  [o \in UkfsOpcodes |->
     {Decode(o, a) : a \in IF o \in DispatchTable THEN Answers(o) ELSE {Err("ENOSYS")}}]
ServiceDiscards ==
  [o \in UkfsOpcodes |-> {e \in {"ENOMEM"} : o = "LOOKUP" /\ "child" \in FailingAllocs}]

Service == INSTANCE RequestService WITH
  Opcodes  <- UkfsOpcodes,
  Outcomes <- ServiceOutcomes,
  Discards <- ServiceDiscards,
  Refusals <- {e \in {"ENOMEM"} : "name" \in FailingAllocs},
  phase    <- ServicePhase,
  asked    <- ServiceAsked,
  answer   <- ServiceAnswer,
  returned <- ret

(* The answer that is on its way is one that its opcode allows.            *)
AnswerInv ==
  /\ \A t \in Threads : cur[t] # NoReq => op[cur[t]] \in UkfsOpcodes
  /\ \A d \in Daemons : dpc[d] \in {"fill", "inop"} => dreq[d] \in Uniques
  /\ \A u \in Uniques : rstate[u] # "none" => op[u] \in DispatchTable
  /\ \A u \in Uniques : rstate[u] = "filled" => reply[u] \in Answers(op[u])

(* Behind the queue, the semaphores and the daemon, a caller sees a        *)
(* service that answers each call once with an outcome of its opcode and   *)
(* returns that outcome.                                                   *)
ImplementsService == Service!ServiceSpec

(* The same with the service's promise to answer and return.               *)
ImplementsFairService == Service!FairServiceSpec
===============================================================================
