--------------------------- MODULE SessionRequests ----------------------------
(***************************************************************************)
(* A libfuse session and the requests in it: struct fuse_req from          *)
(* fuse_session_process_buf_internal to fuse_free_req, the handlers that   *)
(* hand it to the backend or answer it themselves, FUSE_INTERRUPT with its *)
(* two locks and the reference count, the interrupt callback, and          *)
(* retrievals with their NOTIFY_REPLY.                                     *)
(*                                                                         *)
(* Several workers (the daemons of repeated mounts) process messages of    *)
(* one session at once; the backend answers from any thread.  A message is *)
(* named by its `unique`, which also stands for the address of its struct  *)
(* fuse_req.  A critical section of se->lock is one step: none of them     *)
(* blocks inside.  req->lock is explicit, because it is held across the    *)
(* callback.  Callbacks do not reply to the request they are called for.   *)
(* Messages are memory buffers (no pipes) and numbered as they arrive; a   *)
(* retrieval's number is not the unique of another message.                *)
(***************************************************************************)
EXTENDS Naturals, Sequences, FiniteSets, SequencesExt

CONSTANTS
  Workers,       \* threads in fuse_session_process_buf_internal
  MaxReqs,       \* bound: messages received
  Traffic,       \* bound: the sets of opcodes that occur together
  Implemented,   \* entries of fuse_lowlevel_ops the backend provides
  MaxRetrieves   \* bound: retrievals started

Nobody == "nobody"

ASSUME SessionAssumption ==
  /\ IsFiniteSet(Workers) /\ {Nobody, "backend"} \cap Workers = {}
  /\ "unused" \notin UNION Traffic
  /\ MaxReqs \in Nat /\ MaxRetrieves \in Nat

-------------------------------------------------------------------------------
(* The handlers, grouped as they stand in the file.                        *)
LookupOps == {"LOOKUP"}
ForgetOps == {"FORGET", "BATCH_FORGET"}
AttrOps == {"GETATTR", "SETATTR", "ACCESS", "READLINK"}
NameOps == {"MKNOD", "MKDIR", "UNLINK", "RMDIR", "SYMLINK"}
LinkOps == {"RENAME", "RENAME2", "TMPFILE", "LINK", "CREATE"}
DataOps == {"OPEN", "READ", "WRITE"}
CloseOps == {"FLUSH", "RELEASE", "FSYNC"}
DirOps == {"OPENDIR", "READDIR", "READDIRPLUS", "RELEASEDIR", "FSYNCDIR"}
StatOps == {"STATFS"}
XattrOps == {"SETXATTR", "GETXATTR", "LISTXATTR", "REMOVEXATTR"}
LockOps == {"GETLK", "SETLK", "SETLKW"}
DeviceOps == {"BMAP", "IOCTL", "POLL"}
RangeOps == {"FALLOCATE", "COPY_FILE_RANGE", "COPY_FILE_RANGE_64", "LSEEK"}

(* fuse_ll_ops: the opcodes with an entry.                                 *)
fuse_ll_ops ==
  UNION {LookupOps, ForgetOps, AttrOps, NameOps, LinkOps, DataOps, CloseOps,
         DirOps, StatOps, XattrOps, LockOps, DeviceOps, RangeOps,
         {"STATX", "INIT", "DESTROY", "INTERRUPT", "NOTIFY_REPLY", "CUSE_INIT"}}

(* The entries of fuse_lowlevel_ops that can serve an opcode.              *)
Entries(o) ==
  CASE o = "RENAME2" -> {"RENAME"}
    [] o = "COPY_FILE_RANGE_64" -> {"COPY_FILE_RANGE"}
    [] o \in {"SETLK", "SETLKW"} -> {"SETLK", "FLOCK"}
    [] o = "WRITE" -> {"WRITE", "WRITE_BUF"}
    [] o = "BATCH_FORGET" -> {"FORGET_MULTI"}
    [] o = "STATX" -> {}                              \* no HAVE_STATX
    [] OTHER -> {o}

(* What libfuse may do for an operation the backend lacks.  An open is     *)
(* refused if op.init asked for NO_OPEN_SUPPORT or NO_OPENDIR_SUPPORT.     *)
Lacking(o) ==
  CASE o \in {"OPEN", "OPENDIR"} -> {"success", "ENOSYS"}
    [] o \in {"RELEASE", "RELEASEDIR"} -> {"success"}
    [] o \in StatOps -> {"device"}
    [] o \in ForgetOps -> {"quiet"}
    [] OTHER -> {"ENOSYS"}

(* What libfuse answers because of the arguments.                          *)
ArgErrors(o) ==
  CASE o = "WRITE" /\ "WRITE_BUF" \in Implemented -> {"EIO"}
    [] o = "POLL" /\ "POLL" \in Implemented -> {"ENOMEM"}
    [] o = "IOCTL" -> {"ENOTTY"}
    [] OTHER -> {}

Serves(o) == Entries(o) \cap Implemented # {}

(* SETLK and SETLKW go to flock or to setlk, by a flag of the message.     *)
Declines(o) ==
  LET lacks == IF o \in {"SETLK", "SETLKW"} THEN ~(Entries(o) \subseteq Implemented)
               ELSE ~Serves(o)
  IN ArgErrors(o) \cup (IF lacks THEN Lacking(o) ELSE {})

-------------------------------------------------------------------------------
VARIABLES
  gotInit,       \* se->got_init
  noInterrupt,   \* se->conn.no_interrupt
  list,          \* se->list
  interrupts,    \* se->interrupts
  notify,        \* per retrieval: its struct fuse_retrieve_req
  req,           \* per message: its struct fuse_req, and who works on it
  worker         \* per worker: its step, its message, another request

vars == <<gotInit, noInterrupt, list, interrupts, notify, req, worker>>

Reqs == 1 .. MaxReqs
Opcodes == UNION Traffic
Retrieves == 1 .. MaxRetrieves
NoArg == 0

Errors == {"ENOSYS", "EIO", "ENOMEM", "ENOTTY", "EPROTO", "EAGAIN"}
Answers == Errors \cup {"none", "success", "backend", "device", "quiet"}

(* `step` is where the request is: not received, with its worker, with the *)
(* backend, inside fuse_req_interrupt_func, answered but not yet through   *)
(* fuse_free_req, done, pending in se->interrupts, or dropped unanswered.  *)
RequestType ==
  [op : Opcodes \cup {"unused"},
   arg : Reqs \cup Retrieves \cup {NoArg},  \* INTERRUPT: target; NOTIFY_REPLY: retrieval
   mem : {"none", "live", "freed"}, refs : 0 .. 1 + Cardinality(Workers),
   interrupted : BOOLEAN,
   func : {"none", "set", "unset"},         \* the interrupt callback
   called : BOOLEAN,                        \* it was called
   lock : Workers \cup {Nobody, "backend"}, \* req->lock
   answer : Answers,
   step : {"unused", "worker", "handling", "setting", "freeing", "over",
           "pending", "lost"}]

Unused ==
  [op |-> "unused", arg |-> NoArg, mem |-> "none", refs |-> 0,
   interrupted |-> FALSE, func |-> "none", called |-> FALSE, lock |-> Nobody,
   answer |-> "none", step |-> "unused"]

WorkerType ==
  [step : {"idle", "accept", "again", "dispatch", "lock", "call", "unlock", "unref"},
   msg : Reqs \cup {NoArg}, curr : Reqs \cup {NoArg}]

(* Every reachable state is well typed: a reference count never passes the *)
(* owner and one per worker, and a lock has one holder (struct fuse_req,   *)
(* struct fuse_session).                                                   *)
TypeOK ==
  /\ gotInit \in BOOLEAN /\ noInterrupt \in BOOLEAN
  /\ list \subseteq Reqs
  /\ interrupts \in Seq(Reqs)
  /\ notify \in [Retrieves -> {"none", "listed", "sent", "replied", "failed"}]
  /\ req \in [Reqs -> RequestType]
  /\ worker \in [Workers -> WorkerType]

Idle == [step |-> "idle", msg |-> NoArg, curr |-> NoArg]

(* fuse_session_new: got_init is set, no_interrupt is not, lists are empty. *)
Init ==
  /\ gotInit = TRUE /\ noInterrupt = FALSE
  /\ list = {} /\ interrupts = <<>>
  /\ notify = [n \in Retrieves |-> "none"]
  /\ req = [r \in Reqs |-> Unused]
  /\ worker = [w \in Workers |-> Idle]

-------------------------------------------------------------------------------
(* Receiving a message.                                                    *)

(* What is sent: an INTERRUPT for a message that was or will be sent, a    *)
(* NOTIFY_REPLY for a retrieval that went out, perhaps answered already,   *)
(* INIT and DESTROY only while nothing else is under way.                  *)
Quiescent ==
  /\ \A w \in Workers : worker[w] = Idle
  /\ \A r \in Reqs : req[r].step \in {"unused", "over", "pending", "lost"}

Targeted(r) == \E s \in Reqs : req[s].op = "INTERRUPT" /\ req[s].arg = r

Allowed(o) ==
  \E T \in Traffic : o \in T /\ \A r \in Reqs : req[r].op \in T \cup {"unused"}

Sent(r, o, a) ==
  /\ req[r].op = "unused" /\ \A s \in Reqs : s < r => req[s].op # "unused"
  /\ Allowed(o)
  /\ CASE o = "INTERRUPT" -> /\ a \in Reqs \ {r} /\ ~Targeted(r)
                             /\ req[a].op \notin {"INTERRUPT", "NOTIFY_REPLY"}
       [] o = "NOTIFY_REPLY" -> /\ a \in Retrieves /\ ~Targeted(r)
                                /\ notify[a] \in {"sent", "replied"}
       [] o \in {"INIT", "DESTROY"} -> a = NoArg /\ Quiescent
       [] OTHER -> a = NoArg

(* fuse_req_opcode_sanity_ok, the table, and INTERRUPT when it is off.     *)
(* fuse_req_check_allow_root never refuses: session_new ignores options.   *)
Refusal(o) ==
  IF gotInit = (o \in {"INIT", "CUSE_INIT"}) THEN "EIO"
  ELSE IF o = "CUSE_INIT" THEN "EIO"                 \* se->cuse_data is NULL
  ELSE IF o \notin fuse_ll_ops \/ (noInterrupt /\ o = "INTERRUPT") THEN "ENOSYS"
  ELSE "none"

(* fuse_ll_alloc_req and fuse_session_in2req.                              *)
Fresh(o, a) ==
  [Unused EXCEPT !.op = o, !.arg = a, !.mem = "live", !.refs = 1, !.step = "worker"]

(* The request cannot be allocated: -ENOMEM is written to the device.      *)
ReceiveNoMemory(w, r, o, a) ==
  /\ worker[w].step = "idle" /\ Sent(r, o, a)
  /\ req' = [req EXCEPT ![r] = [Unused EXCEPT !.op = o, !.arg = a,
                                              !.answer = "device", !.step = "over"]]
  /\ UNCHANGED <<gotInit, noInterrupt, list, interrupts, notify, worker>>

(* fuse_reply_err for a request that is on no list.                        *)
ReceiveRefused(w, r, o, a) ==
  /\ worker[w].step = "idle" /\ Sent(r, o, a)
  /\ Refusal(o) # "none"
  /\ req' = [req EXCEPT ![r] = [Fresh(o, a) EXCEPT !.mem = "freed", !.refs = 0,
                                  !.answer = Refusal(o), !.step = "over"]]
  /\ UNCHANGED <<gotInit, noInterrupt, list, interrupts, notify, worker>>

Receive(w, r, o, a) ==
  /\ worker[w].step = "idle" /\ Sent(r, o, a)
  /\ Refusal(o) = "none"
  /\ req' = [req EXCEPT ![r] = Fresh(o, a)]
  /\ worker' = [worker EXCEPT ![w] =
       [step |-> IF noInterrupt THEN "dispatch" ELSE "accept", msg |-> r, curr |-> NoArg]]
  /\ UNCHANGED <<gotInit, noInterrupt, list, interrupts, notify>>

-------------------------------------------------------------------------------
(* Interrupts.                                                             *)

(* destroy_req of an INTERRUPT that has been put to use.                   *)
Destroyed(q) == [q EXCEPT !.mem = "freed", !.refs = 0, !.answer = "quiet", !.step = "over"]

(* Where in se->interrupts an INTERRUPT for r waits.                       *)
WaitingFor(r) == {k \in 1 .. Len(interrupts) : req[interrupts[k]].arg = r}

(* Mutant: find_interrupted keeps no reference of its own.                 *)
InterruptFindsUncounted(w) ==
  LET t == req[worker[w].msg].arg
  IN /\ worker[w].step = "accept" /\ req[worker[w].msg].op = "INTERRUPT"
     /\ t \in list
     /\ worker' = [worker EXCEPT ![w].step = "lock", ![w].curr = t]
     /\ UNCHANGED <<gotInit, noInterrupt, list, interrupts, notify, req>>

(* The target is listed: find_interrupted takes a reference and drops      *)
(* se->lock.                                                               *)
InterruptFinds(w) ==
  LET i == worker[w].msg
      t == req[i].arg
  IN /\ worker[w].step = "accept" /\ req[i].op = "INTERRUPT"
     /\ t \in list
     /\ req' = [req EXCEPT ![t].refs = @ + 1]
     /\ worker' = [worker EXCEPT ![w].step = "lock", ![w].curr = t]
     /\ UNCHANGED <<gotInit, noInterrupt, list, interrupts, notify>>

(* Mutant: an INTERRUPT that comes before its target is dropped.           *)
InterruptWaitsNot(w) ==
  LET i == worker[w].msg
  IN /\ worker[w].step = "accept" /\ req[i].op = "INTERRUPT"
     /\ req[i].arg \notin list
     /\ req' = [req EXCEPT ![i] = Destroyed(@)]
     /\ worker' = [worker EXCEPT ![w] = Idle]
     /\ UNCHANGED <<gotInit, noInterrupt, list, interrupts, notify>>

(* It is not listed: the INTERRUPT waits in se->interrupts, unless another *)
(* one for the same target does.                                           *)
InterruptWaits(w) ==
  LET i == worker[w].msg
      known == WaitingFor(req[i].arg) # {}
  IN /\ worker[w].step = "accept" /\ req[i].op = "INTERRUPT"
     /\ req[i].arg \notin list
     /\ req' = [req EXCEPT ![i] = IF known THEN Destroyed(@) ELSE [@ EXCEPT !.step = "pending"]]
     /\ interrupts' = IF known THEN interrupts ELSE Append(interrupts, i)
     /\ worker' = [worker EXCEPT ![w] = Idle]
     /\ UNCHANGED <<gotInit, noInterrupt, list, notify>>

(* Mutant: curr->lock is not taken.                                        *)
InterruptLockNot(w) ==
  LET t == worker[w].curr
  IN /\ worker[w].step = "lock"
     /\ req' = [req EXCEPT ![t].interrupted = TRUE]
     /\ worker' = [worker EXCEPT ![w].step = IF req[t].func = "set" THEN "call" ELSE "unlock"]
     /\ UNCHANGED <<gotInit, noInterrupt, list, interrupts, notify>>

(* curr->lock, then se->lock: mark and read the callback.                  *)
InterruptLock(w) ==
  LET t == worker[w].curr
  IN /\ worker[w].step = "lock" /\ req[t].lock = Nobody
     /\ req' = [req EXCEPT ![t].lock = w, ![t].interrupted = TRUE]
     /\ worker' = [worker EXCEPT ![w].step = IF req[t].func = "set" THEN "call" ELSE "unlock"]
     /\ UNCHANGED <<gotInit, noInterrupt, list, interrupts, notify>>

(* func(curr, data) returns.                                               *)
InterruptCall(w) ==
  /\ worker[w].step = "call"
  /\ req' = [req EXCEPT ![worker[w].curr].called = TRUE]
  /\ worker' = [worker EXCEPT ![w].step = "unlock"]
  /\ UNCHANGED <<gotInit, noInterrupt, list, interrupts, notify>>

InterruptUnlock(w) ==
  /\ worker[w].step = "unlock"
  /\ req' = [req EXCEPT ![worker[w].curr].lock = Nobody]
  /\ worker' = [worker EXCEPT ![w].step = "unref"]
  /\ UNCHANGED <<gotInit, noInterrupt, list, interrupts, notify>>

(* Mutant: whoever drops a reference frees the request.                    *)
UnrefFrees(q) == [q EXCEPT !.refs = @ - 1, !.mem = "freed"]

(* A reference is dropped; the last one frees the request.                 *)
Unref(q) == [q EXCEPT !.refs = @ - 1, !.mem = IF q.refs = 1 THEN "freed" ELSE @]

InterruptUnref(w) ==
  LET i == worker[w].msg
  IN /\ worker[w].step = "unref"
     /\ req' = [req EXCEPT ![worker[w].curr] = Unref(@), ![i] = Destroyed(@)]
     /\ worker' = [worker EXCEPT ![w] = Idle]
     /\ UNCHANGED <<gotInit, noInterrupt, list, interrupts, notify>>

(* Mutant: check_interrupt leaves the INTERRUPT it used on the list.       *)
AcceptKeeps(w) ==
  LET r == worker[w].msg
  IN /\ worker[w].step = "accept" /\ req[r].op # "INTERRUPT"
     /\ list' = list \cup {r}
     /\ \/ \E k \in WaitingFor(r) :
             /\ \A l \in WaitingFor(r) : k <= l
             /\ req' = [req EXCEPT ![r].interrupted = TRUE, ![interrupts[k]] = Destroyed(@)]
             /\ UNCHANGED interrupts
             /\ worker' = [worker EXCEPT ![w].step = "dispatch"]
        \/ /\ WaitingFor(r) = {} /\ interrupts # <<>>
           /\ interrupts' = Tail(interrupts)
           /\ worker' = [worker EXCEPT ![w].step = "again", ![w].curr = Head(interrupts)]
           /\ UNCHANGED req
        \/ /\ interrupts = <<>>
           /\ worker' = [worker EXCEPT ![w].step = "dispatch"]
           /\ UNCHANGED <<interrupts, req>>
     /\ UNCHANGED <<gotInit, noInterrupt, notify>>

(* A request is listed.  check_interrupt first takes its INTERRUPT out of  *)
(* se->interrupts; without one, it takes out the oldest for others.        *)
Accept(w) ==
  LET r == worker[w].msg
  IN /\ worker[w].step = "accept" /\ req[r].op # "INTERRUPT"
     /\ list' = list \cup {r}
     /\ \/ \E k \in WaitingFor(r) :
             /\ \A l \in WaitingFor(r) : k <= l
             /\ req' = [req EXCEPT ![r].interrupted = TRUE, ![interrupts[k]] = Destroyed(@)]
             /\ interrupts' = RemoveAt(interrupts, k)
             /\ worker' = [worker EXCEPT ![w].step = "dispatch"]
        \/ /\ WaitingFor(r) = {} /\ interrupts # <<>>
           /\ interrupts' = Tail(interrupts)
           /\ worker' = [worker EXCEPT ![w].step = "again", ![w].curr = Head(interrupts)]
           /\ UNCHANGED req
        \/ /\ interrupts = <<>>
           /\ worker' = [worker EXCEPT ![w].step = "dispatch"]
           /\ UNCHANGED <<interrupts, req>>
     /\ UNCHANGED <<gotInit, noInterrupt, notify>>

(* fuse_reply_err(intr, EAGAIN).                                           *)
Again(w) ==
  /\ worker[w].step = "again"
  /\ req' = [req EXCEPT ![worker[w].curr] =
               [Unref(@) EXCEPT !.answer = "EAGAIN", !.step = "over"]]
  /\ worker' = [worker EXCEPT ![w].step = "dispatch", ![w].curr = NoArg]
  /\ UNCHANGED <<gotInit, noInterrupt, list, interrupts, notify>>

-------------------------------------------------------------------------------
(* Handlers: the backend gets the request, or libfuse answers it.          *)
Answered(q, a) == [q EXCEPT !.answer = a, !.step = "freeing"]

Special == {"INIT", "DESTROY", "NOTIFY_REPLY", "STATX"}

Dispatching(w, ops) ==
  /\ worker[w].step = "dispatch" /\ req[worker[w].msg].op \in ops
  /\ worker' = [worker EXCEPT ![w] = Idle]

HandToBackend(w) ==
  LET r == worker[w].msg
  IN /\ Dispatching(w, {o \in Opcodes \ Special : Serves(o)})
     /\ req' = [req EXCEPT ![r].step = "handling"]
     /\ UNCHANGED <<gotInit, noInterrupt, list, interrupts, notify>>

(* Mutant: an operation the backend lacks is not answered.                 *)
DeclineSilent(w) ==
  LET r == worker[w].msg
  IN /\ Dispatching(w, Opcodes \ Special)
     /\ Declines(req[r].op) # {}
     /\ req' = [req EXCEPT ![r].step = "lost"]
     /\ UNCHANGED <<gotInit, noInterrupt, list, interrupts, notify>>

(* libfuse answers in the backend's place.                                 *)
Decline(w) ==
  LET r == worker[w].msg
  IN /\ Dispatching(w, Opcodes \ Special)
     /\ \E a \in Declines(req[r].op) : req' = [req EXCEPT ![r] = Answered(@, a)]
     /\ UNCHANGED <<gotInit, noInterrupt, list, interrupts, notify>>

(* Without HAVE_STATX, _do_statx does nothing.                             *)
DoStatx(w) ==
  /\ Dispatching(w, {"STATX"})
  /\ req' = [req EXCEPT ![worker[w].msg].step = "lost"]
  /\ UNCHANGED <<gotInit, noInterrupt, list, interrupts, notify>>

(* Major version below 7; above 7, to be asked again; agreed or not after  *)
(* op.init, which may turn interrupts off.                                 *)
DoInit(w) ==
  LET r == worker[w].msg
  IN /\ Dispatching(w, {"INIT"})
     /\ \/ req' = [req EXCEPT ![r] = Answered(@, "EPROTO")] /\ UNCHANGED <<gotInit, noInterrupt>>
        \/ req' = [req EXCEPT ![r] = Answered(@, "device")] /\ UNCHANGED <<gotInit, noInterrupt>>
        \/ \E agreed \in BOOLEAN :
             /\ noInterrupt' \in {noInterrupt, TRUE}
             /\ gotInit' = agreed
             /\ req' = [req EXCEPT ![r] = Answered(@, IF agreed THEN "device" ELSE "EPROTO")]
     /\ UNCHANGED <<list, interrupts, notify>>

DoDestroy(w) ==
  /\ Dispatching(w, {"DESTROY"})
  /\ gotInit' = FALSE
  /\ req' = [req EXCEPT ![worker[w].msg] = Answered(@, "device")]
  /\ UNCHANGED <<noInterrupt, list, interrupts, notify>>

(* The retrieval is unlinked; fuse_ll_retrieve_reply passes the data on,   *)
(* or drops a reply that is too short.  An unknown number is dropped.      *)
DoNotifyReply(w) ==
  LET r == worker[w].msg
      n == req[r].arg
  IN /\ Dispatching(w, {"NOTIFY_REPLY"})
     /\ \/ /\ notify[n] = "sent"
           /\ notify' = [notify EXCEPT ![n] = "replied"]
           /\ \/ "RETRIEVE_REPLY" \in Implemented /\ req' = [req EXCEPT ![r].step = "handling"]
              \/ req' = [req EXCEPT ![r] = Answered(@, "quiet")]
        \/ /\ notify[n] # "sent"
           /\ req' = [req EXCEPT ![r].step = "lost"]
           /\ UNCHANGED notify
     /\ UNCHANGED <<gotInit, noInterrupt, list, interrupts>>

-------------------------------------------------------------------------------
(* The backend.                                                            *)

(* fuse_req_interrupt_func, up to the call.  Bound: a request registers    *)
(* once and unregisters once.                                              *)
SetFunc(r) ==
  /\ req[r].step = "handling" /\ req[r].lock = Nobody
  /\ req[r].func # "unset"
  /\ req' = [req EXCEPT ![r] =
       [@ EXCEPT !.lock = "backend", !.step = "setting",
                 !.func = IF req[r].func = "none" THEN "set" ELSE "unset"]]
  /\ UNCHANGED <<gotInit, noInterrupt, list, interrupts, notify, worker>>

(* Mutant: an interrupt that came before the callback is not reported.     *)
SetFuncDoneSilent(r) ==
  /\ req[r].step = "setting"
  /\ req' = [req EXCEPT ![r].lock = Nobody, ![r].step = "handling"]
  /\ UNCHANGED <<gotInit, noInterrupt, list, interrupts, notify, worker>>

(* Its end: an interrupt that came earlier is reported now.                *)
SetFuncDone(r) ==
  /\ req[r].step = "setting"
  /\ req' = [req EXCEPT ![r] =
               [@ EXCEPT !.called = req[r].called \/ (req[r].interrupted /\ req[r].func = "set"),
                         !.lock = Nobody, !.step = "handling"]]
  /\ UNCHANGED <<gotInit, noInterrupt, list, interrupts, notify, worker>>

(* fuse_reply_none for FORGET and retrieved data; a reply function for the *)
(* rest.                                                                   *)
Reply(r) ==
  /\ req[r].step = "handling"
  /\ req' = [req EXCEPT ![r] =
       Answered(@, IF @.op \in ForgetOps \cup {"NOTIFY_REPLY"} THEN "quiet" ELSE "backend")]
  /\ UNCHANGED <<gotInit, noInterrupt, list, interrupts, notify, worker>>

(* fuse_free_req, the last thing every reply does.                         *)
FreeReq(r) ==
  /\ req[r].step = "freeing"
  /\ list' = IF noInterrupt THEN list ELSE list \ {r}
  /\ req' = [req EXCEPT ![r] =
       [Unref(@) EXCEPT !.func = IF noInterrupt THEN req[r].func ELSE "unset",
                        !.step = "over"]]
  /\ UNCHANGED <<gotInit, noInterrupt, interrupts, notify, worker>>

(* fuse_lowlevel_notify_retrieve links its record and then sends.          *)
Retrieve(n) ==
  /\ notify[n] = "none" /\ Allowed("NOTIFY_REPLY")
  /\ \A k \in Retrieves : k < n => notify[k] # "none"
  /\ notify' = [notify EXCEPT ![n] = "listed"]
  /\ UNCHANGED <<gotInit, noInterrupt, list, interrupts, req, worker>>

RetrieveSend(n) ==
  /\ notify[n] = "listed"
  /\ \/ gotInit /\ notify' = [notify EXCEPT ![n] = "sent"]
     \/ notify' = [notify EXCEPT ![n] = "failed"]
  /\ UNCHANGED <<gotInit, noInterrupt, list, interrupts, req, worker>>

-------------------------------------------------------------------------------
Arrive(w) ==
  \E r \in Reqs, o \in Opcodes, a \in Reqs \cup Retrieves \cup {NoArg} :
    \/ ReceiveNoMemory(w, r, o, a) \/ ReceiveRefused(w, r, o, a) \/ Receive(w, r, o, a)

WorkerStep(w) ==
  \/ InterruptFinds(w) \/ InterruptWaits(w) \/ InterruptLock(w) \/ InterruptCall(w)
  \/ InterruptUnlock(w) \/ InterruptUnref(w) \/ Accept(w) \/ Again(w)
  \/ HandToBackend(w) \/ Decline(w) \/ DoStatx(w) \/ DoInit(w) \/ DoDestroy(w)
  \/ DoNotifyReply(w)

BackendFinishes(r) == SetFuncDone(r) \/ Reply(r) \/ FreeReq(r)

Next ==
  \/ \E w \in Workers : Arrive(w) \/ WorkerStep(w)
  \/ \E r \in Reqs : SetFunc(r) \/ BackendFinishes(r)
  \/ \E n \in Retrieves : Retrieve(n) \/ RetrieveSend(n)

Spec == Init /\ [][Next]_vars

(* Threads run, req->lock is granted in the end, callbacks return and the  *)
(* backend answers what it was given.                                      *)
FairSpec ==
  /\ Spec
  /\ \A w \in Workers : WF_vars(WorkerStep(w))
  /\ \A r \in Reqs : WF_vars(BackendFinishes(r))

-------------------------------------------------------------------------------
(* Properties.                                                             *)

Interrupting(r) == {w \in Workers : worker[w].step \in {"lock", "call", "unlock", "unref"}
                                    /\ worker[w].curr = r}
Owned(r) == req[r].step \in {"worker", "handling", "setting", "freeing", "lost"}

(* No list, no worker and no reply reaches a request that has been freed:  *)
(* se->list while interrupts are on (they are what walks it), se->interrupts, *)
(* the request find_interrupted holds with se->lock dropped, the one       *)
(* answered EAGAIN, and the one the backend has.                           *)
NoUseAfterFree ==
  /\ ~noInterrupt => \A r \in list : req[r].mem = "live"
  /\ \A i \in Range(interrupts) : req[i].mem = "live" /\ req[i].step = "pending"
  /\ \A w \in Workers : worker[w].curr # NoArg => req[worker[w].curr].mem = "live"
  /\ \A r \in Reqs : Owned(r) => req[r].mem = "live"

(* ref_cnt is the owner's reference plus one per worker inside             *)
(* find_interrupted, so that the last of them frees the request and        *)
(* nothing is freed twice or kept (fuse_free_req, find_interrupted).       *)
RefsExact ==
  \A r \in Reqs :
    /\ req[r].refs = Cardinality(Interrupting(r))
         + (IF Owned(r) \/ req[r].step = "pending"
               \/ \E w \in Workers : worker[w].step = "again" /\ worker[w].curr = r
            THEN 1 ELSE 0)
    /\ (req[r].mem = "live") = (req[r].refs > 0)

(* A callback registered for an interrupted request has been called, in    *)
(* whichever order registration and interrupt came, once nobody holds      *)
(* req->lock ("not possible for interrupts to be lost").                   *)
CallbackNotLost ==
  \A r \in Reqs :
    req[r].step = "handling" /\ req[r].func = "set" /\ req[r].interrupted /\ req[r].lock = Nobody
      => req[r].called

(* A callback is not run once fuse_req_interrupt_func(req, NULL) has       *)
(* returned, so its data may be freed; only a reply may overtake it.       *)
CallbackQuiet ==
  \A w \in Workers :
    worker[w].step = "call" =>
      req[worker[w].curr].func = "set" \/ req[worker[w].curr].step \in {"freeing", "over"}

(* An INTERRUPT is used up silently only if its target has seen it or      *)
(* another one for the same target is pending, being put back with EAGAIN, *)
(* or was put back after it (find_interrupted, check_interrupt).           *)
InterruptNotLost ==
  \A i \in Reqs :
    req[i].op = "INTERRUPT" /\ req[i].answer = "quiet" =>
      \/ req[req[i].arg].interrupted
      \/ \E j \in Reqs \ {i} :
           /\ req[j].op = "INTERRUPT" /\ req[j].arg = req[i].arg
           /\ req[j].step = "pending" \/ req[j].answer = "EAGAIN"

-------------------------------------------------------------------------------
(* The inductive invariant.  What a worker works on: its message is its    *)
(* own, a request it interrupts is one it holds a reference to, and one it *)
(* puts back is off se->interrupts.                                        *)
Holding == {"lock", "call", "unlock", "unref"}
Op(r) == req[r].op
Step(r) == req[r].step
WorkerAt(w) == worker[w].step

WorkerInv ==
  \A w \in Workers :
    LET m == worker[w].msg
        c == worker[w].curr
    IN /\ WorkerAt(w) = "idle" => m = NoArg
       /\ WorkerAt(w) # "idle" => m \in Reqs /\ Step(m) = "worker"
       /\ \A v \in Workers : m # NoArg /\ worker[v].msg = m => v = w
       /\ WorkerAt(w) \in {"idle", "accept", "dispatch"} => c = NoArg
       /\ WorkerAt(w) \in Holding =>
            c \in Reqs /\ Op(m) = "INTERRUPT" /\ req[m].arg = c
              /\ Op(c) \notin {"INTERRUPT", "unused"}
       /\ WorkerAt(w) \in {"dispatch", "again"} => Op(m) # "INTERRUPT"
       /\ WorkerAt(w) = "again" =>
            /\ c \in Reqs /\ Op(c) = "INTERRUPT" /\ Step(c) = "pending"
            /\ \A k \in 1 .. Len(interrupts) : interrupts[k] # c
            /\ \A v \in Workers : WorkerAt(v) = "again" /\ worker[v].curr = c => v = w

(* The two lists hold what they are for.                                   *)
ListInv ==
  /\ \A r \in list : Op(r) \notin {"INTERRUPT", "unused"} /\ (~noInterrupt => Owned(r))
  /\ \A k \in 1 .. Len(interrupts) :
       Op(interrupts[k]) = "INTERRUPT" /\ Step(interrupts[k]) = "pending"
  /\ \A k, l \in 1 .. Len(interrupts) : interrupts[k] = interrupts[l] => k = l

(* A message that has not come has no state; its argument fits its opcode; *)
(* it has no answer while it waits, no callback before it reaches the      *)
(* backend, where no INTERRUPT comes, and the backend has the lock while   *)
(* it sets one.                                                            *)
MessageInv ==
  \A r \in Reqs :
    /\ Op(r) = "unused" <=> Step(r) = "unused"
    /\ Op(r) = "unused" => ~req[r].interrupted
    /\ Op(r) = "INTERRUPT" => req[r].arg \in Reqs \ {r}
    /\ Op(r) = "NOTIFY_REPLY" => req[r].arg \in Retrieves
    /\ Step(r) \in {"worker", "pending"} => req[r].answer = "none"
    /\ Step(r) = "worker" => req[r].func = "none"
    /\ Step(r) \in {"handling", "setting", "freeing", "lost"} => Op(r) # "INTERRUPT"
    /\ Step(r) = "setting" <=> req[r].lock = "backend"

(* A worker in the callback has the lock; it leaves it with the callback   *)
(* called if there is one, and with the target marked.                     *)
LockInv ==
  \A w \in Workers :
    LET q == req[worker[w].curr]
    IN /\ WorkerAt(w) \in {"call", "unlock"} => q.lock = w
       /\ WorkerAt(w) = "unlock" /\ q.func = "set" => q.called
       /\ WorkerAt(w) \in {"call", "unlock", "unref"} => q.interrupted

(* INIT is alone in the session while it is processed, and once interrupts *)
(* are off nothing more is done about them.                                *)
OffInv ==
  /\ \A w \in Workers : WorkerAt(w) # "idle" /\ Op(worker[w].msg) = "INIT" =>
       ~gotInit /\ \A v \in Workers \ {w} : WorkerAt(v) = "idle"
  /\ noInterrupt => \A w \in Workers : WorkerAt(w) \in {"idle", "dispatch"}

IndInv ==
  /\ TypeOK /\ WorkerInv /\ ListInv /\ MessageInv /\ LockInv /\ OffInv
  /\ RefsExact /\ CallbackNotLost /\ CallbackQuiet /\ InterruptNotLost

-------------------------------------------------------------------------------
(* Every message is concluded: its request is freed, except an INTERRUPT   *)
(* that waits for its target, STATX, and a NOTIFY_REPLY nobody waits for   *)
(* (fuse_session_process_buf_internal and the handlers).                   *)
Concluded(r) ==
  \/ req[r].step = "over" /\ req[r].mem # "live"
  \/ req[r].step = "pending"
  \/ req[r].step = "lost" /\ req[r].op \in {"STATX", "NOTIFY_REPLY"}

EveryMessageConcluded == \A r \in Reqs : (req[r].step # "unused") ~> Concluded(r)
===============================================================================
