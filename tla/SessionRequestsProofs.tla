------------------------- MODULE SessionRequestsProofs ------------------------
(* Proofs about SessionRequests: the life of a request and of its          *)
(* interrupts, for any number of workers, messages and retrievals, any     *)
(* traffic and any backend.                                                *)
EXTENDS SessionRequests, FiniteSetTheorems, TLAPS

-------------------------------------------------------------------------------
(* The effect of each step, request by request and field by field.  Only   *)
(* one request and one worker change unless an effect says otherwise.      *)
Only(r) == \A q \in Reqs : q # r => req'[q] = req[q]
OnlyWorker(w) == \A v \in Workers : v # w => worker'[v] = worker[v]

SameName(r) == req'[r].op = req[r].op /\ req'[r].arg = req[r].arg
SameRefs(r) == req'[r].refs = req[r].refs /\ req'[r].mem = req[r].mem
SameMark(r) == req'[r].interrupted = req[r].interrupted
SameCall(r) == req'[r].func = req[r].func /\ req'[r].called = req[r].called
SameLock(r) == req'[r].lock = req[r].lock
SameEnd(r) == req'[r].answer = req[r].answer /\ req'[r].step = req[r].step

(* A new message: its number was unused, its argument fits its opcode.     *)
Named(r) ==
  /\ Op(r) = "unused" /\ req'[r].op # "unused"
  /\ req'[r].op = "INTERRUPT" => req'[r].arg \in Reqs \ {r}
  /\ req'[r].op = "NOTIFY_REPLY" => req'[r].arg \in Retrieves
  /\ ~req'[r].interrupted /\ req'[r].func = "none" /\ req'[r].lock = Nobody

(* It is answered at once, without a worker.                               *)
Settled(r) ==
  /\ Named(r) /\ Only(r)
  /\ req'[r].refs = 0 /\ req'[r].mem # "live"
  /\ req'[r].step = "over" /\ req'[r].answer # "quiet"
  /\ UNCHANGED <<gotInit, noInterrupt, list, interrupts, worker>>

(* It is given to worker w.  INIT comes to a quiet session only, and       *)
(* nothing else is let in before it.                                       *)
Received(w, r) ==
  /\ Named(r) /\ Only(r) /\ OnlyWorker(w)
  /\ req'[r].refs = 1 /\ req'[r].mem = "live"
  /\ req'[r].step = "worker" /\ req'[r].answer = "none"
  /\ WorkerAt(w) = "idle"
  /\ worker'[w].msg = r /\ worker'[w].curr = NoArg
  /\ worker'[w].step = IF noInterrupt THEN "dispatch" ELSE "accept"
  /\ noInterrupt => req'[r].op # "INTERRUPT"
  /\ req'[r].op = "INIT" => ~gotInit /\ \A v \in Workers : WorkerAt(v) = "idle"
  /\ req'[r].op # "INIT" => gotInit
  /\ UNCHANGED <<gotInit, noInterrupt, list, interrupts>>

(* A worker is done with its message.                                      *)
Leaves(w) ==
  /\ OnlyWorker(w)
  /\ worker'[w].step = "idle" /\ worker'[w].msg = NoArg /\ worker'[w].curr = NoArg

(* It moves on to step s with its message and the request c.               *)
Moves(w, s, c) ==
  /\ OnlyWorker(w)
  /\ worker'[w].step = s /\ worker'[w].msg = worker[w].msg /\ worker'[w].curr = c

(* Request r, an INTERRUPT, has been put to use.                           *)
UsedUp(r) ==
  /\ SameName(r) /\ SameMark(r) /\ SameCall(r) /\ SameLock(r)
  /\ req'[r].refs = 0 /\ req'[r].mem = "freed"
  /\ req'[r].step = "over" /\ req'[r].answer = "quiet"

(* One reference to r is dropped.                                          *)
Dropped(r) ==
  /\ SameName(r) /\ SameMark(r) /\ SameLock(r)
  /\ req'[r].refs = req[r].refs - 1
  /\ req'[r].mem = IF req[r].refs = 1 THEN "freed" ELSE req[r].mem

Quiet == UNCHANGED <<gotInit, noInterrupt, list, interrupts>>

Found(w, t) ==
  /\ WorkerAt(w) = "accept" /\ Op(worker[w].msg) = "INTERRUPT"
  /\ req[worker[w].msg].arg = t /\ t \in list
  /\ Only(t) /\ SameName(t) /\ SameMark(t) /\ SameCall(t) /\ SameLock(t) /\ SameEnd(t)
  /\ req'[t].refs = req[t].refs + 1 /\ req'[t].mem = req[t].mem
  /\ Moves(w, "lock", t) /\ Quiet

(* A second INTERRUPT for a target that one waits for already ...          *)
Repeated(w, i) ==
  /\ WorkerAt(w) = "accept" /\ i = worker[w].msg /\ Op(i) = "INTERRUPT"
  /\ Only(i) /\ UsedUp(i) /\ Leaves(w) /\ Quiet
  /\ \E k \in 1 .. Len(interrupts) : req[interrupts[k]].arg = req[i].arg

(* ... and the first one.                                                  *)
Waiting(w, i) ==
  /\ WorkerAt(w) = "accept" /\ i = worker[w].msg /\ Op(i) = "INTERRUPT"
  /\ Only(i) /\ SameName(i) /\ SameRefs(i) /\ SameMark(i) /\ SameCall(i) /\ SameLock(i)
  /\ req'[i].answer = req[i].answer /\ req'[i].step = "pending"
  /\ Leaves(w)
  /\ interrupts' = Append(interrupts, i)
  /\ UNCHANGED <<gotInit, noInterrupt, list>>

Locked(w, t) ==
  /\ WorkerAt(w) = "lock" /\ t = worker[w].curr
  /\ Only(t) /\ SameName(t) /\ SameRefs(t) /\ SameCall(t) /\ SameEnd(t)
  /\ req[t].lock = Nobody /\ req'[t].lock = w /\ req'[t].interrupted
  /\ Moves(w, IF req[t].func = "set" THEN "call" ELSE "unlock", t) /\ Quiet

Called(w, t) ==
  /\ WorkerAt(w) = "call" /\ t = worker[w].curr
  /\ Only(t) /\ SameName(t) /\ SameRefs(t) /\ SameMark(t) /\ SameLock(t) /\ SameEnd(t)
  /\ req'[t].func = req[t].func /\ req'[t].called
  /\ Moves(w, "unlock", t) /\ Quiet

Unlocked(w, t) ==
  /\ WorkerAt(w) = "unlock" /\ t = worker[w].curr
  /\ Only(t) /\ SameName(t) /\ SameRefs(t) /\ SameMark(t) /\ SameCall(t) /\ SameEnd(t)
  /\ req'[t].lock = Nobody
  /\ Moves(w, "unref", t) /\ Quiet

Unreffed(w, i, t) ==
  /\ WorkerAt(w) = "unref" /\ i = worker[w].msg /\ t = worker[w].curr /\ i # t
  /\ \A q \in Reqs \ {i, t} : req'[q] = req[q]
  /\ Dropped(t) /\ SameCall(t) /\ SameEnd(t)
  /\ UsedUp(i)
  /\ Leaves(w) /\ Quiet

(* INTERRUPT i is taken out of se->interrupts.                             *)
Unqueued(i) ==
  /\ \E k \in 1 .. Len(interrupts) : interrupts[k] = i
  /\ \A k \in 1 .. Len(interrupts') : interrupts'[k] # i
       /\ \E l \in 1 .. Len(interrupts) : interrupts'[k] = interrupts[l]
  /\ \A k, l \in 1 .. Len(interrupts') : interrupts'[k] = interrupts'[l] => k = l

(* A request is listed: with its own INTERRUPT waiting, ...                *)
AcceptedHit(w, r, i) ==
  /\ WorkerAt(w) = "accept" /\ r = worker[w].msg /\ Op(r) # "INTERRUPT"
  /\ req[i].arg = r /\ i # r
  /\ \A q \in Reqs \ {i, r} : req'[q] = req[q]
  /\ SameName(r) /\ SameRefs(r) /\ SameCall(r) /\ SameLock(r) /\ SameEnd(r)
  /\ req'[r].interrupted
  /\ UsedUp(i)
  /\ list' = list \cup {r}
  /\ Unqueued(i)
  /\ Moves(w, "dispatch", NoArg)
  /\ UNCHANGED <<gotInit, noInterrupt>>

(* ... with one for another target, ...                                    *)
AcceptedOther(w, r, i) ==
  /\ WorkerAt(w) = "accept" /\ r = worker[w].msg /\ Op(r) # "INTERRUPT"
  /\ \A q \in Reqs : req'[q] = req[q]
  /\ list' = list \cup {r}
  /\ Unqueued(i)
  /\ Moves(w, "again", i)
  /\ UNCHANGED <<gotInit, noInterrupt>>

(* ... or with none.                                                       *)
AcceptedPlain(w, r) ==
  /\ WorkerAt(w) = "accept" /\ r = worker[w].msg /\ Op(r) # "INTERRUPT"
  /\ \A q \in Reqs : req'[q] = req[q]
  /\ list' = list \cup {r}
  /\ Len(interrupts') = 0
  /\ Moves(w, "dispatch", NoArg)
  /\ UNCHANGED <<gotInit, noInterrupt>>

PutBack(w, i) ==
  /\ WorkerAt(w) = "again" /\ i = worker[w].curr
  /\ Only(i) /\ Dropped(i) /\ SameCall(i)
  /\ req'[i].step = "over" /\ req'[i].answer = "EAGAIN"
  /\ Moves(w, "dispatch", NoArg) /\ Quiet

(* Every way out of dispatch.                                              *)
Dispatched(w, r) ==
  /\ WorkerAt(w) = "dispatch" /\ r = worker[w].msg
  /\ Only(r) /\ SameName(r) /\ SameRefs(r) /\ SameMark(r) /\ SameCall(r) /\ SameLock(r)
  /\ req'[r].step \in {"handling", "freeing", "lost"}
  /\ Leaves(w)
  /\ UNCHANGED <<list, interrupts>>
  /\ Op(r) # "INIT" => (gotInit' => gotInit) /\ noInterrupt' = noInterrupt
  /\ noInterrupt => noInterrupt'

FuncSetting(r) ==
  /\ Step(r) = "handling" /\ req[r].lock = Nobody
  /\ Only(r) /\ SameName(r) /\ SameRefs(r) /\ SameMark(r)
  /\ req'[r].lock = "backend" /\ req'[r].step = "setting"
  /\ req'[r].answer = req[r].answer
  /\ UNCHANGED worker /\ Quiet

FuncSet(r) ==
  /\ Step(r) = "setting"
  /\ Only(r) /\ SameName(r) /\ SameRefs(r) /\ SameMark(r)
  /\ req'[r].func = req[r].func
  /\ req[r].interrupted /\ req[r].func = "set" => req'[r].called
  /\ req'[r].lock = Nobody /\ req'[r].step = "handling"
  /\ req'[r].answer = req[r].answer
  /\ UNCHANGED worker /\ Quiet

Replied(r) ==
  /\ Step(r) = "handling"
  /\ Only(r) /\ SameName(r) /\ SameRefs(r) /\ SameMark(r) /\ SameCall(r) /\ SameLock(r)
  /\ req'[r].step = "freeing"
  /\ UNCHANGED worker /\ Quiet

Freed(r) ==
  /\ Step(r) = "freeing"
  /\ Only(r) /\ Dropped(r)
  /\ req'[r].step = "over" /\ req'[r].answer = req[r].answer
  /\ req'[r].called = req[r].called /\ req'[r].func \in {req[r].func, "unset"}
  /\ list' = IF noInterrupt THEN list ELSE list \ {r}
  /\ UNCHANGED <<gotInit, noInterrupt, interrupts, worker>>

Elsewhere == UNCHANGED <<gotInit, noInterrupt, list, interrupts, req, worker>>

Effect ==
  \/ \E r \in Reqs :
       Settled(r) \/ FuncSetting(r) \/ FuncSet(r) \/ Replied(r) \/ Freed(r)
  \/ \E w \in Workers, r \in Reqs :
       \/ Received(w, r) \/ Found(w, r) \/ Repeated(w, r) \/ Waiting(w, r)
       \/ Locked(w, r) \/ Called(w, r) \/ Unlocked(w, r)
       \/ AcceptedPlain(w, r) \/ PutBack(w, r) \/ Dispatched(w, r)
  \/ \E w \in Workers, r \in Reqs, i \in Reqs :
       Unreffed(w, i, r) \/ AcceptedHit(w, r, i) \/ AcceptedOther(w, r, i)
  \/ Elsewhere

-------------------------------------------------------------------------------
(* What a worker that is not idle works on.                                *)
LEMMA AtWork ==
  ASSUME IndInv, NEW w \in Workers, WorkerAt(w) # "idle"
  PROVE  /\ worker[w].msg \in Reqs /\ Step(worker[w].msg) = "worker"
         /\ WorkerAt(w) \in Holding => worker[w].curr \in Reqs
  BY DEF IndInv, WorkerInv

(* A message that may be sent has an argument that fits its opcode.        *)
LEMMA SentLemma ==
  ASSUME NEW r \in Reqs, NEW o \in Opcodes, NEW a, Sent(r, o, a)
  PROVE  /\ Op(r) = "unused" /\ o # "unused"
         /\ o = "INTERRUPT" => a \in Reqs \ {r}
         /\ o = "NOTIFY_REPLY" => a \in Retrieves
         /\ o \in {"INIT", "DESTROY"} => Quiescent
<1>1. o # "unused"
  BY SessionAssumption DEF SessionAssumption, Opcodes
<1>2. QED
  BY <1>1 DEF Sent, Op

LEMMA ReceiveEffect ==
  ASSUME IndInv, NEW w \in Workers, NEW r \in Reqs, NEW o \in Opcodes, NEW a
  PROVE  /\ ReceiveNoMemory(w, r, o, a) => Settled(r)
         /\ ReceiveRefused(w, r, o, a) => Settled(r)
         /\ Receive(w, r, o, a) => Received(w, r)
<1>0. req \in [Reqs -> RequestType] /\ worker \in [Workers -> WorkerType]
  BY DEF IndInv, TypeOK
<1> USE DEF WorkerType
<1> USE <1>0 DEF RequestType, Only, OnlyWorker, Named, Op, Fresh, Unused
<1>1. ASSUME ReceiveNoMemory(w, r, o, a) PROVE Settled(r)
  <2>1. Op(r) = "unused" /\ o # "unused" /\ (o = "INTERRUPT" => a \in Reqs \ {r})
          /\ (o = "NOTIFY_REPLY" => a \in Retrieves)
    BY <1>1, SentLemma DEF ReceiveNoMemory
  <2>2. Only(r) /\ Named(r)
    BY <1>1, <2>1 DEF ReceiveNoMemory
  <2>3. /\ req'[r].refs = 0 /\ req'[r].mem # "live"
        /\ req'[r].step = "over" /\ req'[r].answer # "quiet"
    BY <1>1 DEF ReceiveNoMemory
  <2>4. UNCHANGED <<gotInit, noInterrupt, list, interrupts, worker>>
    BY <1>1, Zenon DEF ReceiveNoMemory
  <2>5. QED
    BY <2>2, <2>3, <2>4, Zenon DEF Settled
<1>2. ASSUME ReceiveRefused(w, r, o, a) PROVE Settled(r)
  <2>0. Refusal(o) # "quiet"
    BY DEF Refusal
  <2>1. Op(r) = "unused" /\ o # "unused" /\ (o = "INTERRUPT" => a \in Reqs \ {r})
          /\ (o = "NOTIFY_REPLY" => a \in Retrieves)
    BY <1>2, SentLemma DEF ReceiveRefused
  <2>2. Only(r) /\ Named(r)
    BY <1>2, <2>1 DEF ReceiveRefused
  <2>3. /\ req'[r].refs = 0 /\ req'[r].mem # "live"
        /\ req'[r].step = "over" /\ req'[r].answer # "quiet"
    BY <1>2, <2>0 DEF ReceiveRefused
  <2>4. UNCHANGED <<gotInit, noInterrupt, list, interrupts, worker>>
    BY <1>2, Zenon DEF ReceiveRefused
  <2>5. QED
    BY <2>2, <2>3, <2>4, Zenon DEF Settled
<1>3. ASSUME Receive(w, r, o, a) PROVE Received(w, r)
  <2>1. /\ noInterrupt => o # "INTERRUPT"
        /\ o = "INIT" => ~gotInit
        /\ o # "INIT" => gotInit
    <3>1. "EIO" # "none" /\ "ENOSYS" # "none"
      OBVIOUS
    <3>2. gotInit # (o \in {"INIT", "CUSE_INIT"}) /\ o # "CUSE_INIT"
            /\ ~(noInterrupt /\ o = "INTERRUPT")
      BY <1>3, <3>1, Zenon DEF Receive, Refusal
    <3>3. gotInit \in BOOLEAN
      BY Zenon DEF IndInv, TypeOK
    <3>4. CASE o = "INIT"
      BY <3>2, <3>3, <3>4
    <3>5. CASE o # "INIT"
      BY <3>2, <3>3, <3>5
    <3>6. QED
      BY <3>2, <3>4, <3>5, Zenon
  <2>2. o = "INIT" => \A v \in Workers : WorkerAt(v) = "idle"
    BY <1>3, SentLemma DEF Receive, Quiescent, Idle, WorkerAt
  <2>3. Named(r) /\ Only(r) /\ req'[r].op = o
    BY <1>3, SentLemma DEF Receive
  <2>4. /\ req'[r].refs = 1 /\ req'[r].mem = "live"
        /\ req'[r].step = "worker" /\ req'[r].answer = "none"
    BY <1>3 DEF Receive
  <2>5. /\ OnlyWorker(w) /\ WorkerAt(w) = "idle"
        /\ worker'[w].msg = r /\ worker'[w].curr = NoArg
        /\ worker'[w].step = IF noInterrupt THEN "dispatch" ELSE "accept"
    BY <1>3 DEF Receive, WorkerAt
  <2>6. UNCHANGED <<gotInit, noInterrupt, list, interrupts>>
    BY <1>3, Zenon DEF Receive
  <2>7. QED
    BY <2>1, <2>2, <2>3, <2>4, <2>5, <2>6, Zenon DEF Received
<1>4. QED
  BY <1>1, <1>2, <1>3

LEMMA InterruptEffect ==
  ASSUME IndInv, NEW w \in Workers
  PROVE  /\ InterruptFinds(w) => \E t \in Reqs : Found(w, t)
         /\ InterruptWaits(w) => \E i \in Reqs : Repeated(w, i) \/ Waiting(w, i)
         /\ InterruptLock(w) => \E t \in Reqs : Locked(w, t)
         /\ InterruptCall(w) => \E t \in Reqs : Called(w, t)
         /\ InterruptUnlock(w) => \E t \in Reqs : Unlocked(w, t)
         /\ InterruptUnref(w) => \E i, t \in Reqs : Unreffed(w, i, t)
<1>0. /\ req \in [Reqs -> RequestType] /\ list \subseteq Reqs
      /\ worker \in [Workers -> WorkerType]
  BY DEF IndInv, TypeOK
<1> USE DEF WorkerType
<1> USE <1>0 DEF RequestType, WorkerAt, Holding, Only, OnlyWorker, SameName, SameRefs, SameMark,
                 SameCall, SameLock, SameEnd, Moves, Leaves, Quiet, Op
<1>1. ASSUME InterruptFinds(w) PROVE \E t \in Reqs : Found(w, t)
  <2>1. worker[w].msg \in Reqs
    BY <1>1, AtWork DEF InterruptFinds
  <2>2. req[worker[w].msg].arg \in Reqs
    BY <1>1 DEF InterruptFinds
  <2>3. Found(w, req[worker[w].msg].arg)
    BY <1>1, <2>1, <2>2 DEF InterruptFinds, Found
  <2>4. QED
    BY <2>2, <2>3
<1>2. ASSUME InterruptWaits(w) PROVE \E i \in Reqs : Repeated(w, i) \/ Waiting(w, i)
  <2>1. worker[w].msg \in Reqs
    BY <1>2, AtWork DEF InterruptWaits
  <2>2. CASE WaitingFor(req[worker[w].msg].arg) # {}
    <3>1. \E k \in 1 .. Len(interrupts) : req[interrupts[k]].arg = req[worker[w].msg].arg
      BY <2>2 DEF WaitingFor
    <3>2. Repeated(w, worker[w].msg)
      BY <1>2, <2>1, <2>2, <3>1 DEF InterruptWaits, Repeated, UsedUp, Destroyed, Idle
    <3>3. QED
      BY <2>1, <3>2
  <2>3. CASE WaitingFor(req[worker[w].msg].arg) = {}
    <3>1. Waiting(w, worker[w].msg)
      BY <1>2, <2>1, <2>3 DEF InterruptWaits, Waiting, Idle
    <3>2. QED
      BY <2>1, <3>1
  <2>4. QED
    BY <2>2, <2>3
<1>3. ASSUME InterruptLock(w) PROVE \E t \in Reqs : Locked(w, t)
  <2>1. worker[w].curr \in Reqs
    BY <1>3, AtWork DEF InterruptLock
  <2>2. Locked(w, worker[w].curr)
    BY <1>3, <2>1 DEF InterruptLock, Locked
  <2>3. QED
    BY <2>1, <2>2
<1>4. ASSUME InterruptCall(w) PROVE \E t \in Reqs : Called(w, t)
  <2>1. worker[w].curr \in Reqs
    BY <1>4, AtWork DEF InterruptCall
  <2>2. Called(w, worker[w].curr)
    BY <1>4, <2>1 DEF InterruptCall, Called
  <2>3. QED
    BY <2>1, <2>2
<1>5. ASSUME InterruptUnlock(w) PROVE \E t \in Reqs : Unlocked(w, t)
  <2>1. worker[w].curr \in Reqs
    BY <1>5, AtWork DEF InterruptUnlock
  <2>2. Unlocked(w, worker[w].curr)
    BY <1>5, <2>1 DEF InterruptUnlock, Unlocked
  <2>3. QED
    BY <2>1, <2>2
<1>6. ASSUME InterruptUnref(w) PROVE \E i, t \in Reqs : Unreffed(w, i, t)
  <2>1. worker[w].curr \in Reqs /\ worker[w].msg \in Reqs /\ worker[w].msg # worker[w].curr
    BY <1>6, AtWork DEF InterruptUnref, IndInv, WorkerInv
  <2> DEFINE i == worker[w].msg
  <2> DEFINE t == worker[w].curr
  <2>4. req' = [req EXCEPT ![t] = Unref(@), ![i] = Destroyed(@)]
    BY <1>6 DEF InterruptUnref
  <2>5. req'[i] = Destroyed(req[i]) /\ req'[t] = Unref(req[t])
          /\ \A q \in Reqs \ {i, t} : req'[q] = req[q]
    BY <2>1, <2>4
  <2>6. UsedUp(i)
    BY <2>1, <2>5 DEF UsedUp, Destroyed
  <2>7. Dropped(t) /\ SameCall(t) /\ SameEnd(t)
    BY <2>1, <2>5 DEF Dropped, Unref
  <2>8. WorkerAt(w) = "unref" /\ Leaves(w) /\ Quiet
    BY <1>6 DEF InterruptUnref, Idle
  <2>9. Unreffed(w, i, t)
    BY <2>1, <2>5, <2>6, <2>7, <2>8, Zenon DEF Unreffed
  <2>10. QED
    BY <2>1, <2>9
<1>7. QED
  BY <1>1, <1>2, <1>3, <1>4, <1>5, <1>6

(* What RemoveAt and Tail do to se->interrupts.                            *)
LEMMA RemovedFrom ==
  ASSUME ListInv, interrupts \in Seq(Reqs), NEW k \in 1 .. Len(interrupts),
         interrupts' = RemoveAt(interrupts, k)
  PROVE  Unqueued(interrupts[k])
<1> DEFINE n == Len(interrupts)
<1> DEFINE front == SubSeq(interrupts, 1, k - 1)
<1> DEFINE back == SubSeq(interrupts, k + 1, n)
<1> DEFINE at(l) == IF l < k THEN l ELSE l + 1
<1>1. interrupts' = front \o back
  BY DEF RemoveAt
<1>2. n \in Nat /\ k \in 1 .. n
  OBVIOUS
<1>3. front \in Seq(Reqs) /\ Len(front) = k - 1 /\ \A l \in 1 .. k - 1 : front[l] = interrupts[l]
  BY <1>2
<1>4. back \in Seq(Reqs) /\ Len(back) = n - k /\ \A l \in 1 .. n - k : back[l] = interrupts[k + l]
  BY <1>2
<1> HIDE DEF front, back
<1>5. Len(interrupts') = n - 1
  BY <1>1, <1>2, <1>3, <1>4
<1>6. ASSUME NEW l \in 1 .. Len(interrupts')
      PROVE  /\ at(l) \in 1 .. n /\ at(l) # k
             /\ interrupts'[l] = interrupts[at(l)]
  <2>1. l \in Nat /\ l >= 1 /\ l <= n - 1
    BY <1>2, <1>5
  <2>2. CASE l < k
    BY <1>1, <1>2, <1>3, <1>4, <2>1, <2>2
  <2>3. CASE l >= k
    <3>1. interrupts'[l] = back[l - (k - 1)]
      BY <1>1, <1>2, <1>3, <1>4, <2>1, <2>3
    <3>2. l - (k - 1) \in 1 .. n - k /\ k + (l - (k - 1)) = l + 1
      BY <1>2, <2>1, <2>3
    <3>3. QED
      BY <1>2, <1>4, <2>1, <2>3, <3>1, <3>2
  <2>4. QED
    BY <1>2, <2>1, <2>2, <2>3
<1>7. \A j, l \in 1 .. Len(interrupts') : at(j) = at(l) => j = l
  BY <1>2, <1>5
<1>8. \A j, l \in 1 .. n : interrupts[j] = interrupts[l] => j = l
  BY DEF ListInv
<1> HIDE DEF at
<1>9. \A l \in 1 .. Len(interrupts') : interrupts'[l] # interrupts[k]
         /\ \E j \in 1 .. n : interrupts'[l] = interrupts[j]
  BY <1>2, <1>6, <1>8
<1>10. \A j, l \in 1 .. Len(interrupts') : interrupts'[j] = interrupts'[l] => j = l
  <2>1. SUFFICES ASSUME NEW j \in 1 .. Len(interrupts'), NEW l \in 1 .. Len(interrupts'),
                        interrupts'[j] = interrupts'[l]
                 PROVE  j = l
    OBVIOUS
  <2>2. interrupts[at(j)] = interrupts[at(l)] /\ at(j) \in 1 .. n /\ at(l) \in 1 .. n
    BY <1>6, <2>1
  <2>3. QED
    BY <1>7, <1>8, <2>2
<1>11. QED
  BY <1>2, <1>9, <1>10 DEF Unqueued

LEMMA FirstRemoved ==
  ASSUME ListInv, interrupts \in Seq(Reqs), interrupts # <<>>,
         interrupts' = Tail(interrupts)
  PROVE  Unqueued(Head(interrupts))
<1>1. /\ Len(interrupts) > 0 /\ Len(interrupts') = Len(interrupts) - 1
      /\ \A l \in 1 .. Len(interrupts') : interrupts'[l] = interrupts[l + 1]
      /\ Head(interrupts) = interrupts[1]
  OBVIOUS
<1>2. \A j, l \in 1 .. Len(interrupts) : interrupts[j] = interrupts[l] => j = l
  BY DEF ListInv
<1>3. QED
  BY <1>1, <1>2 DEF Unqueued

LEMMA AcceptEffect ==
  ASSUME IndInv, NEW w \in Workers, Accept(w)
  PROVE  \E r, i \in Reqs : AcceptedHit(w, r, i) \/ AcceptedOther(w, r, i) \/ AcceptedPlain(w, r)
<1>0. /\ req \in [Reqs -> RequestType] /\ list \subseteq Reqs /\ interrupts \in Seq(Reqs)
      /\ worker \in [Workers -> WorkerType]
  BY DEF IndInv, TypeOK
<1> USE DEF WorkerType
<1> DEFINE r == worker[w].msg
<1>1. /\ r \in Reqs /\ WorkerAt(w) = "accept" /\ Op(r) # "INTERRUPT" /\ worker[w].curr = NoArg
      /\ list' = list \cup {r} /\ UNCHANGED <<gotInit, noInterrupt>>
  BY AtWork DEF Accept, WorkerAt, Op, IndInv, WorkerInv
<1>2. CASE \E k \in WaitingFor(r) :
             /\ req' = [req EXCEPT ![r].interrupted = TRUE, ![interrupts[k]] = Destroyed(@)]
             /\ interrupts' = RemoveAt(interrupts, k)
             /\ worker' = [worker EXCEPT ![w].step = "dispatch"]
  <2>1. PICK k \in WaitingFor(r) :
             /\ req' = [req EXCEPT ![r].interrupted = TRUE, ![interrupts[k]] = Destroyed(@)]
             /\ interrupts' = RemoveAt(interrupts, k)
             /\ worker' = [worker EXCEPT ![w].step = "dispatch"]
    BY <1>2
  <2> DEFINE i == interrupts[k]
  <2>2. k \in 1 .. Len(interrupts) /\ req[i].arg = r
    BY DEF WaitingFor
  <2>3. i \in Reqs /\ Op(i) = "INTERRUPT"
    BY <1>0, <2>2 DEF IndInv, ListInv
  <2>4. i # r
    BY <1>1, <2>3
  <2>5. Unqueued(i)
    BY <1>0, <2>1, <2>2, RemovedFrom DEF IndInv
  <2>6. /\ req'[r] = [req[r] EXCEPT !.interrupted = TRUE] /\ req'[i] = Destroyed(req[i])
        /\ \A q \in Reqs \ {i, r} : req'[q] = req[q]
    BY <1>0, <1>1, <2>1, <2>3, <2>4
  <2>7. UsedUp(i)
    BY <1>0, <2>3, <2>6 DEF UsedUp, Destroyed, SameName, SameMark, SameCall, SameLock, RequestType
  <2>8. /\ SameName(r) /\ SameRefs(r) /\ SameCall(r) /\ SameLock(r) /\ SameEnd(r)
        /\ req'[r].interrupted
    BY <1>0, <1>1, <2>6 DEF SameName, SameRefs, SameCall, SameLock, SameEnd, RequestType
  <2>9. Moves(w, "dispatch", NoArg)
    BY <1>0, <1>1, <2>1 DEF Moves, OnlyWorker
  <2>10. AcceptedHit(w, r, i)
    BY <1>1, <2>2, <2>4, <2>5, <2>6, <2>7, <2>8, <2>9, Zenon DEF AcceptedHit
  <2>11. QED
    BY <1>1, <2>3, <2>10
<1>3. CASE /\ interrupts # <<>> /\ interrupts' = Tail(interrupts)
           /\ worker' = [worker EXCEPT ![w].step = "again", ![w].curr = Head(interrupts)]
           /\ UNCHANGED req
  <2>1. Unqueued(Head(interrupts))
    BY <1>0, <1>3, FirstRemoved DEF IndInv
  <2>2. Head(interrupts) \in Reqs
    BY <1>0, <1>3
  <2>3. Moves(w, "again", Head(interrupts))
    BY <1>0, <1>1, <1>3 DEF Moves, OnlyWorker
  <2>4. AcceptedOther(w, r, Head(interrupts))
    BY <1>1, <1>3, <2>1, <2>3, Zenon DEF AcceptedOther
  <2>5. QED
    BY <1>1, <2>2, <2>4
<1>4. CASE /\ interrupts = <<>> /\ worker' = [worker EXCEPT ![w].step = "dispatch"]
           /\ UNCHANGED <<interrupts, req>>
  <2>1. Len(interrupts') = 0
    BY <1>4
  <2>2. Moves(w, "dispatch", NoArg)
    BY <1>0, <1>1, <1>4 DEF Moves, OnlyWorker
  <2>3. AcceptedPlain(w, r)
    BY <1>1, <1>4, <2>1, <2>2, Zenon DEF AcceptedPlain
  <2>4. QED
    BY <1>1, <2>3
<1>5. QED
  BY <1>2, <1>3, <1>4, Zenon DEF Accept

LEMMA AgainEffect ==
  ASSUME IndInv, NEW w \in Workers, Again(w)
  PROVE  \E i \in Reqs : PutBack(w, i)
<1>0. /\ req \in [Reqs -> RequestType]
      /\ worker \in [Workers -> WorkerType]
  BY DEF IndInv, TypeOK
<1> USE DEF WorkerType
<1> DEFINE i == worker[w].curr
<1>1. i \in Reqs /\ WorkerAt(w) = "again"
  BY DEF Again, WorkerAt, IndInv, WorkerInv
<1>2. /\ req'[i] = [Unref(req[i]) EXCEPT !.answer = "EAGAIN", !.step = "over"] /\ Only(i)
  BY <1>0, <1>1 DEF Again, Only
<1>3. Dropped(i) /\ SameCall(i) /\ req'[i].step = "over" /\ req'[i].answer = "EAGAIN"
  BY <1>0, <1>1, <1>2 DEF Dropped, Unref, SameName, SameMark, SameLock, SameCall, RequestType
<1>4. Moves(w, "dispatch", NoArg) /\ Quiet
  BY <1>0 DEF Again, Moves, OnlyWorker, Quiet
<1>5. PutBack(w, i)
  BY <1>1, <1>2, <1>3, <1>4, Zenon DEF PutBack
<1>6. QED
  BY <1>1, <1>5

(* Every handler leaves the rest of the session alone, up to got_init and  *)
(* no_interrupt.                                                           *)
LEMMA DispatchEffect ==
  ASSUME IndInv, NEW w \in Workers,
         HandToBackend(w) \/ Decline(w) \/ DoStatx(w) \/ DoInit(w) \/ DoDestroy(w) \/ DoNotifyReply(w)
  PROVE  \E r \in Reqs : Dispatched(w, r)
<1>0. /\ req \in [Reqs -> RequestType]
      /\ worker \in [Workers -> WorkerType]
  BY DEF IndInv, TypeOK
<1> USE DEF WorkerType
<1> DEFINE r == worker[w].msg
<1>1. WorkerAt(w) = "dispatch" /\ worker' = [worker EXCEPT ![w] = Idle]
  BY DEF HandToBackend, Decline, DoStatx, DoInit, DoDestroy, DoNotifyReply, Dispatching, WorkerAt
<1>2. r \in Reqs
  BY <1>1, AtWork
<1>3. Leaves(w)
  BY <1>0, <1>1 DEF Leaves, OnlyWorker, Idle
<1>4. UNCHANGED <<list, interrupts>>
  BY DEF HandToBackend, Decline, DoStatx, DoInit, DoDestroy, DoNotifyReply
<1>5. /\ Op(r) # "INIT" => (gotInit' => gotInit) /\ noInterrupt' = noInterrupt
      /\ noInterrupt => noInterrupt'
  <2>1. CASE DoInit(w)
    <3>1. Op(r) = "INIT"
      BY <2>1 DEF DoInit, Dispatching, Op
    <3>2. noInterrupt' = noInterrupt \/ noInterrupt' = TRUE
      BY <2>1, Zenon DEF DoInit
    <3>3. CASE noInterrupt' = noInterrupt
      BY <3>1, <3>3
    <3>4. CASE noInterrupt' = TRUE
      BY <3>1, <3>4
    <3>5. QED
      BY <3>2, <3>3, <3>4
  <2>2. CASE DoDestroy(w)
    BY <2>2, Zenon DEF DoDestroy
  <2>3. CASE HandToBackend(w) \/ Decline(w) \/ DoStatx(w) \/ DoNotifyReply(w)
    <3>1. gotInit' = gotInit /\ noInterrupt' = noInterrupt
      BY <2>3, Zenon DEF HandToBackend, Decline, DoStatx, DoNotifyReply
    <3>2. QED
      BY <3>1, Zenon
  <2>4. QED
    BY <2>1, <2>2, <2>3, Zenon
<1>6. \E s \in {"handling", "freeing", "lost"} : \E ans :
        req' = [req EXCEPT ![r] = [@ EXCEPT !.answer = ans, !.step = s]]
  <2>1. ASSUME NEW s, req' = [req EXCEPT ![r].step = s]
        PROVE  req' = [req EXCEPT ![r] = [@ EXCEPT !.answer = req[r].answer, !.step = s]]
    BY <1>0, <1>2, <2>1 DEF RequestType
  <2>2. CASE req' = [req EXCEPT ![r].step = "handling"]
    BY <2>1, <2>2
  <2>3. CASE req' = [req EXCEPT ![r].step = "lost"]
    BY <2>1, <2>3
  <2>4. CASE \E ans : req' = [req EXCEPT ![r] = Answered(@, ans)]
    BY <2>4 DEF Answered
  <2>5. HandToBackend(w) => req' = [req EXCEPT ![r].step = "handling"]
    BY DEF HandToBackend
  <2>6. DoStatx(w) => req' = [req EXCEPT ![r].step = "lost"]
    BY DEF DoStatx
  <2>7. Decline(w) => \E ans : req' = [req EXCEPT ![r] = Answered(@, ans)]
    BY Zenon DEF Decline
  <2>8. DoInit(w) => \E ans : req' = [req EXCEPT ![r] = Answered(@, ans)]
    BY Zenon DEF DoInit
  <2>9. DoDestroy(w) => \E ans : req' = [req EXCEPT ![r] = Answered(@, ans)]
    BY Zenon DEF DoDestroy
  <2>10. DoNotifyReply(w) => \/ req' = [req EXCEPT ![r].step = "handling"]
                             \/ req' = [req EXCEPT ![r].step = "lost"]
                             \/ \E ans : req' = [req EXCEPT ![r] = Answered(@, ans)]
    BY Zenon DEF DoNotifyReply
  <2>11. QED
    BY <2>2, <2>3, <2>4, <2>5, <2>6, <2>7, <2>8, <2>9, <2>10, Zenon
<1>7. /\ Only(r) /\ SameName(r) /\ SameRefs(r) /\ SameMark(r) /\ SameCall(r) /\ SameLock(r)
      /\ req'[r].step \in {"handling", "freeing", "lost"}
  BY <1>0, <1>2, <1>6 DEF Only, SameName, SameRefs, SameMark, SameCall, SameLock, RequestType
<1>8. Dispatched(w, r)
  BY <1>1, <1>3, <1>4, <1>5, <1>7, Zenon DEF Dispatched
<1>9. QED
  BY <1>2, <1>8

LEMMA BackendEffect ==
  ASSUME IndInv, NEW r \in Reqs
  PROVE  /\ SetFunc(r) => FuncSetting(r)
         /\ SetFuncDone(r) => FuncSet(r)
         /\ Reply(r) => Replied(r)
         /\ FreeReq(r) => Freed(r)
<1>0. req \in [Reqs -> RequestType]
  BY DEF IndInv, TypeOK
<1> USE <1>0 DEF RequestType, Op, Step, Only, SameName, SameRefs, SameMark, SameCall, SameLock
<1>1. ASSUME SetFunc(r) PROVE FuncSetting(r)
  <2>1. /\ Step(r) = "handling" /\ req[r].lock = Nobody
        /\ Only(r) /\ SameName(r) /\ SameRefs(r) /\ SameMark(r)
        /\ req'[r].lock = "backend" /\ req'[r].step = "setting"
        /\ req'[r].answer = req[r].answer
    BY <1>1 DEF SetFunc
  <2>2. UNCHANGED worker /\ Quiet
    BY <1>1, Zenon DEF SetFunc, Quiet
  <2>3. QED
    BY <2>1, <2>2, Zenon DEF FuncSetting
<1>2. ASSUME SetFuncDone(r) PROVE FuncSet(r)
  <2>1. /\ Step(r) = "setting"
        /\ Only(r) /\ SameName(r) /\ SameRefs(r) /\ SameMark(r)
        /\ req'[r].func = req[r].func
        /\ req'[r].lock = Nobody /\ req'[r].step = "handling"
        /\ req'[r].answer = req[r].answer
    BY <1>2 DEF SetFuncDone
  <2>2. req[r].interrupted /\ req[r].func = "set" => req'[r].called
    BY <1>2 DEF SetFuncDone
  <2>3. UNCHANGED worker /\ Quiet
    BY <1>2, Zenon DEF SetFuncDone, Quiet
  <2>4. QED
    BY <2>1, <2>2, <2>3, Zenon DEF FuncSet
<1>3. ASSUME Reply(r) PROVE Replied(r)
  <2>1. /\ Step(r) = "handling"
        /\ Only(r) /\ SameName(r) /\ SameRefs(r) /\ SameMark(r) /\ SameCall(r) /\ SameLock(r)
        /\ req'[r].step = "freeing"
    BY <1>3 DEF Reply, Answered
  <2>2. UNCHANGED worker /\ Quiet
    BY <1>3, Zenon DEF Reply, Quiet
  <2>3. QED
    BY <2>1, <2>2, Zenon DEF Replied
<1>4. ASSUME FreeReq(r) PROVE Freed(r)
  <2>1. /\ Step(r) = "freeing"
        /\ Only(r) /\ Dropped(r)
        /\ req'[r].step = "over" /\ req'[r].answer = req[r].answer
        /\ req'[r].called = req[r].called /\ req'[r].func \in {req[r].func, "unset"}
    <3>1. Step(r) = "freeing"
      BY <1>4, Zenon DEF FreeReq
    <3> DEFINE f == IF noInterrupt THEN req[r].func ELSE "unset"
    <3>2. req' = [req EXCEPT ![r] = [Unref(req[r]) EXCEPT !.func = f, !.step = "over"]]
      BY <1>4 DEF FreeReq
    <3>4. f \in {req[r].func, "unset"}
      OBVIOUS
    <3> HIDE DEF f
    <3>5. QED
      BY <3>1, <3>2, <3>4 DEF Unref, Dropped
  <2>2. /\ list' = IF noInterrupt THEN list ELSE list \ {r}
        /\ UNCHANGED <<gotInit, noInterrupt, interrupts, worker>>
    BY <1>4, Zenon DEF FreeReq
  <2>3. QED
    BY <2>1, <2>2, Zenon DEF Freed
<1>5. QED
  BY <1>1, <1>2, <1>3, <1>4

(* Every step of the session has one of the effects.                       *)
LEMMA NextEffect ==
  ASSUME IndInv, [Next]_vars
  PROVE  Effect
<1>1. CASE \E w \in Workers : Arrive(w)
  BY <1>1, ReceiveEffect, Zenon DEF Arrive, Effect
<1>2. CASE \E w \in Workers : WorkerStep(w)
  <2>1. PICK w \in Workers : WorkerStep(w)
    BY <1>2
  <2>2. CASE \/ InterruptFinds(w) \/ InterruptWaits(w) \/ InterruptLock(w) \/ InterruptCall(w)
             \/ InterruptUnlock(w) \/ InterruptUnref(w)
    BY <2>2, InterruptEffect, Zenon DEF Effect
  <2>3. CASE Accept(w)
    BY <2>3, AcceptEffect, Zenon DEF Effect
  <2>4. CASE Again(w)
    BY <2>4, AgainEffect, Zenon DEF Effect
  <2>5. CASE \/ HandToBackend(w) \/ Decline(w) \/ DoStatx(w) \/ DoInit(w) \/ DoDestroy(w)
             \/ DoNotifyReply(w)
    BY <2>5, DispatchEffect, Zenon DEF Effect
  <2>6. QED
    BY <2>1, <2>2, <2>3, <2>4, <2>5, Zenon DEF WorkerStep
<1>3. CASE \E r \in Reqs : SetFunc(r) \/ BackendFinishes(r)
  BY <1>3, BackendEffect, Zenon DEF BackendFinishes, Effect
<1>4. CASE \E n \in Retrieves : Retrieve(n) \/ RetrieveSend(n)
  BY <1>4, Zenon DEF Retrieve, RetrieveSend, Effect, Elsewhere
<1>5. CASE UNCHANGED vars
  BY <1>5, Zenon DEF vars, Effect, Elsewhere
<1>6. QED
  BY <1>1, <1>2, <1>3, <1>4, <1>5, Zenon DEF Next

(* What each effect does to the parts of the invariant.                    *)
LEMMA WorkerStepInv ==
  ASSUME IndInv, Effect
  PROVE  WorkerInv'
<1>0. WorkerInv /\ ListInv /\ MessageInv /\ 0 \notin Reqs
  BY DEF IndInv, Reqs
<1>1. CASE \E r \in Reqs : Settled(r)
  BY <1>0, <1>1
  DEF Settled, Named, Only, WorkerInv, ListInv, MessageInv, WorkerAt, Holding, Op, Step, NoArg
<1>2. CASE \E r \in Reqs : FuncSetting(r)
  BY <1>0, <1>2
  DEF FuncSetting, Only, SameName, SameRefs, SameMark, Quiet, WorkerInv, ListInv, MessageInv,
      WorkerAt, Holding, Op, Step, NoArg
<1>3. CASE \E r \in Reqs : FuncSet(r)
  BY <1>0, <1>3
  DEF FuncSet, Only, SameName, SameRefs, SameMark, Quiet, WorkerInv, ListInv, MessageInv,
      WorkerAt, Holding, Op, Step, NoArg
<1>4. CASE \E r \in Reqs : Replied(r)
  BY <1>0, <1>4
  DEF Replied, Only, SameName, SameRefs, SameMark, SameCall, SameLock, Quiet, WorkerInv, ListInv,
      MessageInv, WorkerAt, Holding, Op, Step, NoArg
<1>5. CASE \E r \in Reqs : Freed(r)
  BY <1>0, <1>5
  DEF Freed, Only, Dropped, SameName, SameMark, SameLock, WorkerInv, ListInv, MessageInv,
      WorkerAt, Holding, Op, Step, NoArg
<1>6. CASE \E w \in Workers, r \in Reqs : Received(w, r)
  BY <1>0, <1>6
  DEF Received, Named, Only, OnlyWorker, WorkerInv, ListInv, MessageInv, WorkerAt, Holding, Op,
      Step, NoArg
<1>7. CASE \E w \in Workers, r \in Reqs : Found(w, r)
  <2>1. PICK w \in Workers, r \in Reqs : Found(w, r)
    BY <1>7
  <2>2. Op(r) \notin {"INTERRUPT", "unused"}
    BY <1>0, <2>1 DEF ListInv, Found
  <2>3. \A q \in Reqs : SameName(q) /\ SameEnd(q)
    BY <2>1 DEF Found, Only, SameName, SameEnd
  <2>4. worker[w].msg \in Reqs
    BY <1>0, <2>1 DEF Found, WorkerInv, WorkerAt
  <2>5. /\ \A v \in Workers : v # w => worker'[v] = worker[v]
        /\ worker'[w].step = "lock" /\ worker'[w].msg = worker[w].msg /\ worker'[w].curr = r
        /\ WorkerAt(w) = "accept" /\ interrupts' = interrupts
        /\ Op(worker[w].msg) = "INTERRUPT" /\ req[worker[w].msg].arg = r
    BY <2>1 DEF Found, Moves, OnlyWorker, Quiet
  <2>6. QED
    BY <1>0, <2>2, <2>3, <2>4, <2>5
    DEF SameName, SameEnd, WorkerInv, WorkerAt, Holding, Op, Step, NoArg
<1>8. CASE \E w \in Workers, r \in Reqs : Repeated(w, r)
  BY <1>0, <1>8
  DEF Repeated, Only, UsedUp, SameName, SameMark, SameCall, SameLock, Leaves, OnlyWorker, Quiet,
      WorkerInv, ListInv, MessageInv, WorkerAt, Holding, Op, Step, NoArg
<1>9. CASE \E w \in Workers, r \in Reqs : Waiting(w, r)
  BY <1>0, <1>9
  DEF Waiting, Only, SameName, SameRefs, SameMark, SameCall, SameLock, Leaves, OnlyWorker,
      WorkerInv, ListInv, MessageInv, WorkerAt, Holding, Op, Step, NoArg
<1>10. CASE \E w \in Workers, r \in Reqs : Locked(w, r)
  BY <1>0, <1>10
  DEF Locked, Only, SameName, SameRefs, SameCall, SameEnd, Moves, OnlyWorker, Quiet, WorkerInv,
      ListInv, MessageInv, WorkerAt, Holding, Op, Step, NoArg
<1>11. CASE \E w \in Workers, r \in Reqs : Called(w, r)
  BY <1>0, <1>11
  DEF Called, Only, SameName, SameRefs, SameMark, SameLock, SameEnd, Moves, OnlyWorker, Quiet,
      WorkerInv, ListInv, MessageInv, WorkerAt, Holding, Op, Step, NoArg
<1>12. CASE \E w \in Workers, r \in Reqs : Unlocked(w, r)
  BY <1>0, <1>12
  DEF Unlocked, Only, SameName, SameRefs, SameMark, SameCall, SameEnd, Moves, OnlyWorker, Quiet,
      WorkerInv, ListInv, MessageInv, WorkerAt, Holding, Op, Step, NoArg
<1>13. CASE \E w \in Workers, r \in Reqs : AcceptedPlain(w, r)
  BY <1>0, <1>13
  DEF AcceptedPlain, Moves, OnlyWorker, WorkerInv, ListInv, MessageInv, WorkerAt, Holding, Op,
      Step, NoArg
<1>14. CASE \E w \in Workers, r \in Reqs : PutBack(w, r)
  BY <1>0, <1>14
  DEF PutBack, Only, Dropped, SameName, SameMark, SameLock, SameCall, Moves, OnlyWorker, Quiet,
      WorkerInv, ListInv, MessageInv, WorkerAt, Holding, Op, Step, NoArg
<1>15. CASE \E w \in Workers, r \in Reqs : Dispatched(w, r)
  BY <1>0, <1>15
  DEF Dispatched, Only, SameName, SameRefs, SameMark, SameCall, SameLock, Leaves, OnlyWorker,
      WorkerInv, ListInv, MessageInv, WorkerAt, Holding, Op, Step, NoArg
<1>16. CASE \E w \in Workers, r \in Reqs, i \in Reqs : Unreffed(w, i, r)
  BY <1>0, <1>16
  DEF Unreffed, Dropped, SameName, SameMark, SameLock, SameCall, SameEnd, UsedUp, Leaves,
      OnlyWorker, Quiet, WorkerInv, ListInv, MessageInv, WorkerAt, Holding, Op, Step, NoArg
<1>17. CASE \E w \in Workers, r \in Reqs, i \in Reqs : AcceptedHit(w, r, i)
  <2>1. PICK w \in Workers, r \in Reqs, i \in Reqs : AcceptedHit(w, r, i)
    BY <1>17
  <2>2. Step(i) = "pending"
    BY <1>0, <2>1 DEF AcceptedHit, Unqueued, ListInv
  <2>3. \A q \in Reqs : SameName(q) /\ (q # i => SameEnd(q))
    BY <2>1 DEF AcceptedHit, UsedUp, SameName, SameEnd
  <2>4. \A v \in Workers : WorkerAt(v) = "again" => worker[v].curr # i
    BY <1>0, <2>1 DEF AcceptedHit, Unqueued, WorkerInv
  <2>5. \A v \in Workers : WorkerAt(v) # "idle" => worker[v].msg # i
    BY <1>0, <2>2 DEF WorkerInv
  <2>6. QED
    BY <1>0, <2>1, <2>2, <2>3, <2>4, <2>5
    DEF AcceptedHit, Moves, OnlyWorker, Unqueued, SameName, SameEnd, WorkerInv, WorkerAt, Holding,
        Op, Step, NoArg
<1>18. CASE \E w \in Workers, r \in Reqs, i \in Reqs : AcceptedOther(w, r, i)
  BY <1>0, <1>18
  DEF AcceptedOther, Unqueued, Moves, OnlyWorker, WorkerInv, ListInv, MessageInv, WorkerAt,
      Holding, Op, Step, NoArg
<1>19. CASE Elsewhere
  BY <1>0, <1>19 DEF Elsewhere, WorkerInv, ListInv, MessageInv, WorkerAt, Holding, Op, Step, NoArg
<1>20. QED
  BY <1>1, <1>2, <1>3, <1>4, <1>5, <1>6, <1>7, <1>8, <1>9, <1>10, <1>11, <1>12, <1>13, <1>14,
      <1>15, <1>16, <1>17, <1>18, <1>19, Zenon
  DEF Effect

LEMMA ListStep ==
  ASSUME IndInv, Effect
  PROVE  ListInv'
<1>0. WorkerInv /\ ListInv /\ MessageInv /\ interrupts \in Seq(Reqs) /\ list \subseteq Reqs
  BY DEF IndInv, TypeOK
<1>1. CASE \E r \in Reqs : Settled(r)
  BY <1>0, <1>1 DEF Settled, Named, Only, WorkerInv, ListInv, MessageInv, WorkerAt, Op, Step, Owned
<1>2. CASE \E r \in Reqs : FuncSetting(r)
  BY <1>0, <1>2
  DEF FuncSetting, Only, SameName, SameRefs, SameMark, Quiet, WorkerInv, ListInv, MessageInv,
      WorkerAt, Op, Step, Owned
<1>3. CASE \E r \in Reqs : FuncSet(r)
  BY <1>0, <1>3
  DEF FuncSet, Only, SameName, SameRefs, SameMark, Quiet, WorkerInv, ListInv, MessageInv,
      WorkerAt, Op, Step, Owned
<1>4. CASE \E r \in Reqs : Replied(r)
  BY <1>0, <1>4
  DEF Replied, Only, SameName, SameRefs, SameMark, SameCall, SameLock, Quiet, WorkerInv, ListInv,
      MessageInv, WorkerAt, Op, Step, Owned
<1>5. CASE \E r \in Reqs : Freed(r)
  BY <1>0, <1>5
  DEF Freed, Only, Dropped, SameName, SameMark, SameLock, WorkerInv, ListInv, MessageInv,
      WorkerAt, Op, Step, Owned
<1>6. CASE \E w \in Workers, r \in Reqs : Received(w, r)
  BY <1>0, <1>6
  DEF Received, Named, Only, OnlyWorker, WorkerInv, ListInv, MessageInv, WorkerAt, Op, Step, Owned
<1>7. CASE \E w \in Workers, r \in Reqs : Found(w, r)
  BY <1>0, <1>7
  DEF Found, Only, SameName, SameMark, SameCall, SameLock, SameEnd, Moves, OnlyWorker, Quiet,
      WorkerInv, ListInv, MessageInv, WorkerAt, Op, Step, Owned
<1>8. CASE \E w \in Workers, r \in Reqs : Repeated(w, r)
  BY <1>0, <1>8
  DEF Repeated, Only, UsedUp, SameName, SameMark, SameCall, SameLock, Leaves, OnlyWorker, Quiet,
      WorkerInv, ListInv, MessageInv, WorkerAt, Op, Step, Owned
<1>9. CASE \E w \in Workers, r \in Reqs : Waiting(w, r)
  BY <1>0, <1>9
  DEF Waiting, Only, SameName, SameRefs, SameMark, SameCall, SameLock, Leaves, OnlyWorker,
      WorkerInv, ListInv, MessageInv, WorkerAt, Op, Step, Owned
<1>10. CASE \E w \in Workers, r \in Reqs : Locked(w, r)
  BY <1>0, <1>10
  DEF Locked, Only, SameName, SameRefs, SameCall, SameEnd, Moves, OnlyWorker, Quiet, WorkerInv,
      ListInv, MessageInv, WorkerAt, Op, Step, Owned
<1>11. CASE \E w \in Workers, r \in Reqs : Called(w, r)
  BY <1>0, <1>11
  DEF Called, Only, SameName, SameRefs, SameMark, SameLock, SameEnd, Moves, OnlyWorker, Quiet,
      WorkerInv, ListInv, MessageInv, WorkerAt, Op, Step, Owned
<1>12. CASE \E w \in Workers, r \in Reqs : Unlocked(w, r)
  BY <1>0, <1>12
  DEF Unlocked, Only, SameName, SameRefs, SameMark, SameCall, SameEnd, Moves, OnlyWorker, Quiet,
      WorkerInv, ListInv, MessageInv, WorkerAt, Op, Step, Owned
<1>13. CASE \E w \in Workers, r \in Reqs : AcceptedPlain(w, r)
  BY <1>0, <1>13
  DEF AcceptedPlain, Moves, OnlyWorker, WorkerInv, ListInv, MessageInv, WorkerAt, Op, Step, Owned
<1>14. CASE \E w \in Workers, r \in Reqs : PutBack(w, r)
  BY <1>0, <1>14
  DEF PutBack, Only, Dropped, SameName, SameMark, SameLock, SameCall, Moves, OnlyWorker, Quiet,
      WorkerInv, ListInv, MessageInv, WorkerAt, Op, Step, Owned
<1>15. CASE \E w \in Workers, r \in Reqs : Dispatched(w, r)
  BY <1>0, <1>15
  DEF Dispatched, Only, SameName, SameRefs, SameMark, SameCall, SameLock, Leaves, OnlyWorker,
      WorkerInv, ListInv, MessageInv, WorkerAt, Op, Step, Owned
<1>16. CASE \E w \in Workers, r \in Reqs, i \in Reqs : Unreffed(w, i, r)
  BY <1>0, <1>16
  DEF Unreffed, Dropped, SameName, SameMark, SameLock, SameCall, SameEnd, UsedUp, Leaves,
      OnlyWorker, Quiet, WorkerInv, ListInv, MessageInv, WorkerAt, Holding, Op, Step, Owned, NoArg
<1>17. CASE \E w \in Workers, r \in Reqs, i \in Reqs : AcceptedHit(w, r, i)
  <2>1. PICK w \in Workers, r \in Reqs, i \in Reqs : AcceptedHit(w, r, i)
    BY <1>17
  <2>2. Op(i) = "INTERRUPT"
    BY <1>0, <2>1 DEF AcceptedHit, Unqueued, ListInv
  <2>3. \A q \in Reqs : SameName(q) /\ (q # i => SameEnd(q))
    BY <2>1 DEF AcceptedHit, UsedUp, SameName, SameEnd
  <2>4. Step(r) = "worker" /\ Op(r) \notin {"INTERRUPT", "unused"}
    BY <1>0, <2>1 DEF AcceptedHit, WorkerInv, MessageInv
  <2>5. \A q \in list' : (Op(q) \notin {"INTERRUPT", "unused"} /\ (~noInterrupt => Owned(q)))'
    BY <1>0, <2>1, <2>2, <2>3, <2>4 DEF AcceptedHit, SameName, SameEnd, ListInv, Op, Step, Owned
  <2>6. \A k \in 1 .. Len(interrupts') :
          (Op(interrupts[k]) = "INTERRUPT" /\ Step(interrupts[k]) = "pending")'
    BY <1>0, <2>1, <2>3 DEF AcceptedHit, Unqueued, SameName, SameEnd, ListInv, Op, Step
  <2>7. QED
    BY <2>1, <2>5, <2>6 DEF AcceptedHit, Unqueued, ListInv
<1>18. CASE \E w \in Workers, r \in Reqs, i \in Reqs : AcceptedOther(w, r, i)
  <2>1. PICK w \in Workers, r \in Reqs, i \in Reqs : AcceptedOther(w, r, i)
    BY <1>18
  <2>2. Step(r) = "worker" /\ Op(r) \notin {"INTERRUPT", "unused"}
    BY <1>0, <2>1 DEF AcceptedOther, WorkerInv, MessageInv
  <2>3. \A q \in list' : (Op(q) \notin {"INTERRUPT", "unused"} /\ (~noInterrupt => Owned(q)))'
    BY <1>0, <2>1, <2>2 DEF AcceptedOther, ListInv, Op, Step, Owned
  <2>4. \A k \in 1 .. Len(interrupts') :
          (Op(interrupts[k]) = "INTERRUPT" /\ Step(interrupts[k]) = "pending")'
    BY <1>0, <2>1 DEF AcceptedOther, Unqueued, ListInv, Op, Step
  <2>5. QED
    BY <2>1, <2>3, <2>4 DEF AcceptedOther, Unqueued, ListInv
<1>19. CASE Elsewhere
  BY <1>0, <1>19 DEF Elsewhere, WorkerInv, ListInv, MessageInv, WorkerAt, Op, Step, Owned
<1>20. QED
  BY <1>1, <1>2, <1>3, <1>4, <1>5, <1>6, <1>7, <1>8, <1>9, <1>10, <1>11, <1>12, <1>13, <1>14,
      <1>15, <1>16, <1>17, <1>18, <1>19, Zenon
  DEF Effect

LEMMA MessageStep ==
  ASSUME IndInv, Effect
  PROVE  MessageInv'
<1>0. WorkerInv /\ ListInv /\ MessageInv /\ LockInv /\ "backend" \notin Workers /\ Nobody \notin Workers /\ Nobody # "backend"
  BY SessionAssumption DEF SessionAssumption, IndInv, Nobody
<1>1. CASE \E r \in Reqs : Settled(r)
  BY <1>0, <1>1
  DEF Settled, Named, Only, WorkerInv, MessageInv, LockInv, WorkerAt, Holding, Op, Step, NoArg
<1>2. CASE \E r \in Reqs : FuncSetting(r)
  BY <1>0, <1>2
  DEF FuncSetting, Only, SameName, SameRefs, SameMark, Quiet, WorkerInv, MessageInv, LockInv,
      WorkerAt, Holding, Op, Step, NoArg
<1>3. CASE \E r \in Reqs : FuncSet(r)
  BY <1>0, <1>3
  DEF FuncSet, Only, SameName, SameRefs, SameMark, Quiet, WorkerInv, MessageInv, LockInv,
      WorkerAt, Holding, Op, Step, NoArg
<1>4. CASE \E r \in Reqs : Replied(r)
  BY <1>0, <1>4
  DEF Replied, Only, SameName, SameRefs, SameMark, SameCall, SameLock, Quiet, WorkerInv,
      MessageInv, LockInv, WorkerAt, Holding, Op, Step, NoArg
<1>5. CASE \E r \in Reqs : Freed(r)
  BY <1>0, <1>5
  DEF Freed, Only, Dropped, SameName, SameMark, SameLock, WorkerInv, MessageInv, LockInv,
      WorkerAt, Holding, Op, Step, NoArg
<1>6. CASE \E w \in Workers, r \in Reqs : Received(w, r)
  BY <1>0, <1>6
  DEF Received, Named, Only, OnlyWorker, WorkerInv, MessageInv, LockInv, WorkerAt, Holding, Op,
      Step, NoArg
<1>7. CASE \E w \in Workers, r \in Reqs : Found(w, r)
  BY <1>0, <1>7
  DEF Found, Only, SameName, SameMark, SameCall, SameLock, SameEnd, Moves, OnlyWorker, Quiet,
      WorkerInv, MessageInv, LockInv, WorkerAt, Holding, Op, Step, NoArg
<1>8. CASE \E w \in Workers, r \in Reqs : Repeated(w, r)
  BY <1>0, <1>8
  DEF Repeated, Only, UsedUp, SameName, SameMark, SameCall, SameLock, Leaves, OnlyWorker, Quiet,
      WorkerInv, MessageInv, LockInv, WorkerAt, Holding, Op, Step, NoArg
<1>9. CASE \E w \in Workers, r \in Reqs : Waiting(w, r)
  BY <1>0, <1>9
  DEF Waiting, Only, SameName, SameRefs, SameMark, SameCall, SameLock, Leaves, OnlyWorker,
      WorkerInv, MessageInv, LockInv, WorkerAt, Holding, Op, Step, NoArg
<1>10. CASE \E w \in Workers, r \in Reqs : Locked(w, r)
  BY <1>0, <1>10
  DEF Locked, Only, SameName, SameRefs, SameCall, SameEnd, Moves, OnlyWorker, Quiet, WorkerInv,
      MessageInv, LockInv, WorkerAt, Holding, Op, Step, NoArg
<1>11. CASE \E w \in Workers, r \in Reqs : Called(w, r)
  BY <1>0, <1>11
  DEF Called, Only, SameName, SameRefs, SameMark, SameLock, SameEnd, Moves, OnlyWorker, Quiet,
      WorkerInv, MessageInv, LockInv, WorkerAt, Holding, Op, Step, NoArg
<1>12. CASE \E w \in Workers, r \in Reqs : Unlocked(w, r)
  BY <1>0, <1>12
  DEF Unlocked, Only, SameName, SameRefs, SameMark, SameCall, SameEnd, Moves, OnlyWorker, Quiet,
      WorkerInv, MessageInv, LockInv, WorkerAt, Holding, Op, Step, NoArg
<1>13. CASE \E w \in Workers, r \in Reqs : AcceptedPlain(w, r)
  BY <1>0, <1>13
  DEF AcceptedPlain, Moves, OnlyWorker, WorkerInv, MessageInv, LockInv, WorkerAt, Holding, Op,
      Step, NoArg
<1>14. CASE \E w \in Workers, r \in Reqs : PutBack(w, r)
  BY <1>0, <1>14
  DEF PutBack, Only, Dropped, SameName, SameMark, SameLock, SameCall, Moves, OnlyWorker, Quiet,
      WorkerInv, MessageInv, LockInv, WorkerAt, Holding, Op, Step, NoArg
<1>15. CASE \E w \in Workers, r \in Reqs : Dispatched(w, r)
  BY <1>0, <1>15
  DEF Dispatched, Only, SameName, SameRefs, SameMark, SameCall, SameLock, Leaves, OnlyWorker,
      WorkerInv, MessageInv, LockInv, WorkerAt, Holding, Op, Step, NoArg
<1>16. CASE \E w \in Workers, r \in Reqs, i \in Reqs : Unreffed(w, i, r)
  BY <1>0, <1>16
  DEF Unreffed, Dropped, SameName, SameMark, SameLock, SameCall, SameEnd, UsedUp, Leaves,
      OnlyWorker, Quiet, WorkerInv, MessageInv, LockInv, WorkerAt, Holding, Op, Step, NoArg
<1>17. CASE \E w \in Workers, r \in Reqs, i \in Reqs : AcceptedHit(w, r, i)
  BY <1>0, <1>17
  DEF AcceptedHit, SameName, SameRefs, SameCall, SameLock, SameEnd, UsedUp, SameMark, Unqueued,
      Moves, OnlyWorker, WorkerInv, ListInv, MessageInv, WorkerAt, Op, Step
<1>18. CASE \E w \in Workers, r \in Reqs, i \in Reqs : AcceptedOther(w, r, i)
  BY <1>0, <1>18
  DEF AcceptedOther, Unqueued, Moves, OnlyWorker, WorkerInv, MessageInv, LockInv, WorkerAt,
      Holding, Op, Step, NoArg
<1>19. CASE Elsewhere
  BY <1>0, <1>19 DEF Elsewhere, WorkerInv, MessageInv, LockInv, WorkerAt, Holding, Op, Step, NoArg
<1>20. QED
  BY <1>1, <1>2, <1>3, <1>4, <1>5, <1>6, <1>7, <1>8, <1>9, <1>10, <1>11, <1>12, <1>13, <1>14,
      <1>15, <1>16, <1>17, <1>18, <1>19, Zenon
  DEF Effect

LEMMA LockStep ==
  ASSUME IndInv, Effect
  PROVE  LockInv'
<1>0. WorkerInv /\ MessageInv /\ LockInv /\ "backend" \notin Workers /\ Nobody \notin Workers /\ Nobody # "backend"
  BY SessionAssumption DEF SessionAssumption, IndInv, Nobody
<1>1. CASE \E r \in Reqs : Settled(r)
  BY <1>0, <1>1
  DEF Settled, Named, Only, WorkerInv, MessageInv, LockInv, WorkerAt, Holding, Op, Step, NoArg
<1>2. CASE \E r \in Reqs : FuncSetting(r)
  BY <1>0, <1>2
  DEF FuncSetting, Only, SameName, SameRefs, SameMark, Quiet, WorkerInv, MessageInv, LockInv,
      WorkerAt, Holding, Op, Step, NoArg
<1>3. CASE \E r \in Reqs : FuncSet(r)
  BY <1>0, <1>3
  DEF FuncSet, Only, SameName, SameRefs, SameMark, Quiet, WorkerInv, MessageInv, LockInv,
      WorkerAt, Holding, Op, Step, NoArg
<1>4. CASE \E r \in Reqs : Replied(r)
  BY <1>0, <1>4
  DEF Replied, Only, SameName, SameRefs, SameMark, SameCall, SameLock, Quiet, WorkerInv,
      MessageInv, LockInv, WorkerAt, Holding, Op, Step, NoArg
<1>5. CASE \E r \in Reqs : Freed(r)
  BY <1>0, <1>5
  DEF Freed, Only, Dropped, SameName, SameMark, SameLock, WorkerInv, MessageInv, LockInv,
      WorkerAt, Holding, Op, Step, NoArg
<1>6. CASE \E w \in Workers, r \in Reqs : Received(w, r)
  BY <1>0, <1>6
  DEF Received, Named, Only, OnlyWorker, WorkerInv, MessageInv, LockInv, WorkerAt, Holding, Op,
      Step, NoArg
<1>7. CASE \E w \in Workers, r \in Reqs : Found(w, r)
  BY <1>0, <1>7
  DEF Found, Only, SameName, SameMark, SameCall, SameLock, SameEnd, Moves, OnlyWorker, Quiet,
      WorkerInv, MessageInv, LockInv, WorkerAt, Holding, Op, Step, NoArg
<1>8. CASE \E w \in Workers, r \in Reqs : Repeated(w, r)
  BY <1>0, <1>8
  DEF Repeated, Only, UsedUp, SameName, SameMark, SameCall, SameLock, Leaves, OnlyWorker, Quiet,
      WorkerInv, MessageInv, LockInv, WorkerAt, Holding, Op, Step, NoArg
<1>9. CASE \E w \in Workers, r \in Reqs : Waiting(w, r)
  BY <1>0, <1>9
  DEF Waiting, Only, SameName, SameRefs, SameMark, SameCall, SameLock, Leaves, OnlyWorker,
      WorkerInv, MessageInv, LockInv, WorkerAt, Holding, Op, Step, NoArg
<1>10. CASE \E w \in Workers, r \in Reqs : Locked(w, r)
  BY <1>0, <1>10
  DEF Locked, Only, SameName, SameRefs, SameCall, SameEnd, Moves, OnlyWorker, Quiet, WorkerInv,
      MessageInv, LockInv, WorkerAt, Holding, Op, Step, NoArg
<1>11. CASE \E w \in Workers, r \in Reqs : Called(w, r)
  BY <1>0, <1>11
  DEF Called, Only, SameName, SameRefs, SameMark, SameLock, SameEnd, Moves, OnlyWorker, Quiet,
      WorkerInv, MessageInv, LockInv, WorkerAt, Holding, Op, Step, NoArg
<1>12. CASE \E w \in Workers, r \in Reqs : Unlocked(w, r)
  BY <1>0, <1>12
  DEF Unlocked, Only, SameName, SameRefs, SameMark, SameCall, SameEnd, Moves, OnlyWorker, Quiet,
      WorkerInv, MessageInv, LockInv, WorkerAt, Holding, Op, Step, NoArg
<1>13. CASE \E w \in Workers, r \in Reqs : AcceptedPlain(w, r)
  BY <1>0, <1>13
  DEF AcceptedPlain, Moves, OnlyWorker, WorkerInv, MessageInv, LockInv, WorkerAt, Holding, Op,
      Step, NoArg
<1>14. CASE \E w \in Workers, r \in Reqs : PutBack(w, r)
  BY <1>0, <1>14
  DEF PutBack, Only, Dropped, SameName, SameMark, SameLock, SameCall, Moves, OnlyWorker, Quiet,
      WorkerInv, MessageInv, LockInv, WorkerAt, Holding, Op, Step, NoArg
<1>15. CASE \E w \in Workers, r \in Reqs : Dispatched(w, r)
  BY <1>0, <1>15
  DEF Dispatched, Only, SameName, SameRefs, SameMark, SameCall, SameLock, Leaves, OnlyWorker,
      WorkerInv, MessageInv, LockInv, WorkerAt, Holding, Op, Step, NoArg
<1>16. CASE \E w \in Workers, r \in Reqs, i \in Reqs : Unreffed(w, i, r)
  BY <1>0, <1>16
  DEF Unreffed, Dropped, SameName, SameMark, SameLock, SameCall, SameEnd, UsedUp, Leaves,
      OnlyWorker, Quiet, WorkerInv, MessageInv, LockInv, WorkerAt, Holding, Op, Step, NoArg
<1>17. CASE \E w \in Workers, r \in Reqs, i \in Reqs : AcceptedHit(w, r, i)
  BY <1>0, <1>17
  DEF AcceptedHit, SameName, SameRefs, SameCall, SameLock, SameEnd, UsedUp, SameMark, Unqueued,
      Moves, OnlyWorker, WorkerInv, MessageInv, LockInv, WorkerAt, Holding, Op, Step, NoArg
<1>18. CASE \E w \in Workers, r \in Reqs, i \in Reqs : AcceptedOther(w, r, i)
  BY <1>0, <1>18
  DEF AcceptedOther, Unqueued, Moves, OnlyWorker, WorkerInv, MessageInv, LockInv, WorkerAt,
      Holding, Op, Step, NoArg
<1>19. CASE Elsewhere
  BY <1>0, <1>19 DEF Elsewhere, WorkerInv, MessageInv, LockInv, WorkerAt, Holding, Op, Step, NoArg
<1>20. QED
  BY <1>1, <1>2, <1>3, <1>4, <1>5, <1>6, <1>7, <1>8, <1>9, <1>10, <1>11, <1>12, <1>13, <1>14,
      <1>15, <1>16, <1>17, <1>18, <1>19, Zenon
  DEF Effect

LEMMA OffStep ==
  ASSUME IndInv, Effect
  PROVE  OffInv'
<1>0. WorkerInv /\ MessageInv /\ OffInv
  BY DEF IndInv
<1>1. CASE \E r \in Reqs : Settled(r)
  BY <1>0, <1>1 DEF Settled, Named, Only, WorkerInv, MessageInv, OffInv, WorkerAt, Op, Step, NoArg
<1>2. CASE \E r \in Reqs : FuncSetting(r)
  BY <1>0, <1>2
  DEF FuncSetting, Only, SameName, SameRefs, SameMark, Quiet, WorkerInv, MessageInv, OffInv,
      WorkerAt, Op, Step, NoArg
<1>3. CASE \E r \in Reqs : FuncSet(r)
  BY <1>0, <1>3
  DEF FuncSet, Only, SameName, SameRefs, SameMark, Quiet, WorkerInv, MessageInv, OffInv, WorkerAt,
      Op, Step, NoArg
<1>4. CASE \E r \in Reqs : Replied(r)
  BY <1>0, <1>4
  DEF Replied, Only, SameName, SameRefs, SameMark, SameCall, SameLock, Quiet, WorkerInv,
      MessageInv, OffInv, WorkerAt, Op, Step, NoArg
<1>5. CASE \E r \in Reqs : Freed(r)
  BY <1>0, <1>5
  DEF Freed, Only, Dropped, SameName, SameMark, SameLock, WorkerInv, MessageInv, OffInv, WorkerAt,
      Op, Step, NoArg
<1>6. CASE \E w \in Workers, r \in Reqs : Received(w, r)
  BY <1>0, <1>6
  DEF Received, Named, Only, OnlyWorker, WorkerInv, MessageInv, OffInv, WorkerAt, Op, Step, NoArg
<1>7. CASE \E w \in Workers, r \in Reqs : Found(w, r)
  BY <1>0, <1>7
  DEF Found, Only, SameName, SameMark, SameCall, SameLock, SameEnd, Moves, OnlyWorker, Quiet,
      WorkerInv, MessageInv, OffInv, WorkerAt, Op, Step, NoArg
<1>8. CASE \E w \in Workers, r \in Reqs : Repeated(w, r)
  BY <1>0, <1>8
  DEF Repeated, Only, UsedUp, SameName, SameMark, SameCall, SameLock, Leaves, OnlyWorker, Quiet,
      WorkerInv, MessageInv, OffInv, WorkerAt, Op, Step, NoArg
<1>9. CASE \E w \in Workers, r \in Reqs : Waiting(w, r)
  BY <1>0, <1>9
  DEF Waiting, Only, SameName, SameRefs, SameMark, SameCall, SameLock, Leaves, OnlyWorker,
      WorkerInv, MessageInv, OffInv, WorkerAt, Op, Step, NoArg
<1>10. CASE \E w \in Workers, r \in Reqs : Locked(w, r)
  BY <1>0, <1>10
  DEF Locked, Only, SameName, SameRefs, SameCall, SameEnd, Moves, OnlyWorker, Quiet, WorkerInv,
      MessageInv, OffInv, WorkerAt, Op, Step, NoArg
<1>11. CASE \E w \in Workers, r \in Reqs : Called(w, r)
  BY <1>0, <1>11
  DEF Called, Only, SameName, SameRefs, SameMark, SameLock, SameEnd, Moves, OnlyWorker, Quiet,
      WorkerInv, MessageInv, OffInv, WorkerAt, Op, Step, NoArg
<1>12. CASE \E w \in Workers, r \in Reqs : Unlocked(w, r)
  BY <1>0, <1>12
  DEF Unlocked, Only, SameName, SameRefs, SameMark, SameCall, SameEnd, Moves, OnlyWorker, Quiet,
      WorkerInv, MessageInv, OffInv, WorkerAt, Op, Step, NoArg
<1>13. CASE \E w \in Workers, r \in Reqs : AcceptedPlain(w, r)
  BY <1>0, <1>13
  DEF AcceptedPlain, Moves, OnlyWorker, WorkerInv, MessageInv, OffInv, WorkerAt, Op, Step, NoArg
<1>14. CASE \E w \in Workers, r \in Reqs : PutBack(w, r)
  BY <1>0, <1>14
  DEF PutBack, Only, Dropped, SameName, SameMark, SameLock, SameCall, Moves, OnlyWorker, Quiet,
      WorkerInv, MessageInv, OffInv, WorkerAt, Op, Step, NoArg
<1>15. CASE \E w \in Workers, r \in Reqs : Dispatched(w, r)
  BY <1>0, <1>15
  DEF Dispatched, Only, SameName, SameRefs, SameMark, SameCall, SameLock, Leaves, OnlyWorker,
      WorkerInv, MessageInv, OffInv, WorkerAt, Op, Step, NoArg
<1>16. CASE \E w \in Workers, r \in Reqs, i \in Reqs : Unreffed(w, i, r)
  BY <1>0, <1>16
  DEF Unreffed, Dropped, SameName, SameMark, SameLock, SameCall, SameEnd, UsedUp, Leaves,
      OnlyWorker, Quiet, WorkerInv, MessageInv, OffInv, WorkerAt, Op, Step, NoArg
<1>17. CASE \E w \in Workers, r \in Reqs, i \in Reqs : AcceptedHit(w, r, i)
  BY <1>0, <1>17
  DEF AcceptedHit, SameName, SameRefs, SameCall, SameLock, SameEnd, UsedUp, SameMark, Unqueued,
      Moves, OnlyWorker, WorkerInv, MessageInv, OffInv, WorkerAt, Op, Step, NoArg
<1>18. CASE \E w \in Workers, r \in Reqs, i \in Reqs : AcceptedOther(w, r, i)
  BY <1>0, <1>18
  DEF AcceptedOther, Unqueued, Moves, OnlyWorker, WorkerInv, MessageInv, OffInv, WorkerAt, Op,
      Step, NoArg
<1>19. CASE Elsewhere
  BY <1>0, <1>19 DEF Elsewhere, WorkerInv, MessageInv, OffInv, WorkerAt, Op, Step, NoArg
<1>20. QED
  BY <1>1, <1>2, <1>3, <1>4, <1>5, <1>6, <1>7, <1>8, <1>9, <1>10, <1>11, <1>12, <1>13, <1>14,
      <1>15, <1>16, <1>17, <1>18, <1>19, Zenon
  DEF Effect

LEMMA NotLostStep ==
  ASSUME IndInv, Effect
  PROVE  CallbackNotLost'
<1>0. WorkerInv /\ MessageInv /\ LockInv /\ CallbackNotLost /\ "backend" \notin Workers /\ Nobody \notin Workers /\ Nobody # "backend"
  BY SessionAssumption DEF SessionAssumption, IndInv, Nobody
<1>1. CASE \E r \in Reqs : Settled(r)
  BY <1>0, <1>1
  DEF Settled, Named, Only, WorkerInv, MessageInv, LockInv, CallbackNotLost, WorkerAt, Holding,
      Op, Step
<1>2. CASE \E r \in Reqs : FuncSetting(r)
  BY <1>0, <1>2
  DEF FuncSetting, Only, SameName, SameRefs, SameMark, Quiet, WorkerInv, MessageInv, LockInv,
      CallbackNotLost, WorkerAt, Holding, Op, Step
<1>3. CASE \E r \in Reqs : FuncSet(r)
  BY <1>0, <1>3
  DEF FuncSet, Only, SameName, SameRefs, SameMark, Quiet, WorkerInv, MessageInv, LockInv,
      CallbackNotLost, WorkerAt, Holding, Op, Step
<1>4. CASE \E r \in Reqs : Replied(r)
  BY <1>0, <1>4
  DEF Replied, Only, SameName, SameRefs, SameMark, SameCall, SameLock, Quiet, WorkerInv,
      MessageInv, LockInv, CallbackNotLost, WorkerAt, Holding, Op, Step
<1>5. CASE \E r \in Reqs : Freed(r)
  BY <1>0, <1>5
  DEF Freed, Only, Dropped, SameName, SameMark, SameLock, WorkerInv, MessageInv, LockInv,
      CallbackNotLost, WorkerAt, Holding, Op, Step
<1>6. CASE \E w \in Workers, r \in Reqs : Received(w, r)
  BY <1>0, <1>6
  DEF Received, Named, Only, OnlyWorker, WorkerInv, MessageInv, LockInv, CallbackNotLost,
      WorkerAt, Holding, Op, Step
<1>7. CASE \E w \in Workers, r \in Reqs : Found(w, r)
  BY <1>0, <1>7
  DEF Found, Only, SameName, SameMark, SameCall, SameLock, SameEnd, Moves, OnlyWorker, Quiet,
      WorkerInv, MessageInv, LockInv, CallbackNotLost, WorkerAt, Holding, Op, Step
<1>8. CASE \E w \in Workers, r \in Reqs : Repeated(w, r)
  BY <1>0, <1>8
  DEF Repeated, Only, UsedUp, SameName, SameMark, SameCall, SameLock, Leaves, OnlyWorker, Quiet,
      WorkerInv, MessageInv, LockInv, CallbackNotLost, WorkerAt, Holding, Op, Step
<1>9. CASE \E w \in Workers, r \in Reqs : Waiting(w, r)
  BY <1>0, <1>9
  DEF Waiting, Only, SameName, SameRefs, SameMark, SameCall, SameLock, Leaves, OnlyWorker,
      WorkerInv, MessageInv, LockInv, CallbackNotLost, WorkerAt, Holding, Op, Step
<1>10. CASE \E w \in Workers, r \in Reqs : Locked(w, r)
  BY <1>0, <1>10
  DEF Locked, Only, SameName, SameRefs, SameCall, SameEnd, Moves, OnlyWorker, Quiet, WorkerInv,
      MessageInv, LockInv, CallbackNotLost, WorkerAt, Holding, Op, Step
<1>11. CASE \E w \in Workers, r \in Reqs : Called(w, r)
  BY <1>0, <1>11
  DEF Called, Only, SameName, SameRefs, SameMark, SameLock, SameEnd, Moves, OnlyWorker, Quiet,
      WorkerInv, MessageInv, LockInv, CallbackNotLost, WorkerAt, Holding, Op, Step
<1>12. CASE \E w \in Workers, r \in Reqs : Unlocked(w, r)
  BY <1>0, <1>12
  DEF Unlocked, Only, SameName, SameRefs, SameMark, SameCall, SameEnd, Moves, OnlyWorker, Quiet,
      WorkerInv, MessageInv, LockInv, CallbackNotLost, WorkerAt, Holding, Op, Step
<1>13. CASE \E w \in Workers, r \in Reqs : AcceptedPlain(w, r)
  BY <1>0, <1>13
  DEF AcceptedPlain, Moves, OnlyWorker, WorkerInv, MessageInv, LockInv, CallbackNotLost, WorkerAt,
      Holding, Op, Step
<1>14. CASE \E w \in Workers, r \in Reqs : PutBack(w, r)
  BY <1>0, <1>14
  DEF PutBack, Only, Dropped, SameName, SameMark, SameLock, SameCall, Moves, OnlyWorker, Quiet,
      WorkerInv, MessageInv, LockInv, CallbackNotLost, WorkerAt, Holding, Op, Step
<1>15. CASE \E w \in Workers, r \in Reqs : Dispatched(w, r)
  BY <1>0, <1>15
  DEF Dispatched, Only, SameName, SameRefs, SameMark, SameCall, SameLock, Leaves, OnlyWorker,
      WorkerInv, MessageInv, LockInv, CallbackNotLost, WorkerAt, Holding, Op, Step
<1>16. CASE \E w \in Workers, r \in Reqs, i \in Reqs : Unreffed(w, i, r)
  BY <1>0, <1>16
  DEF Unreffed, Dropped, SameName, SameMark, SameLock, SameCall, SameEnd, UsedUp, Leaves,
      OnlyWorker, Quiet, WorkerInv, MessageInv, LockInv, CallbackNotLost, WorkerAt, Holding, Op,
      Step
<1>17. CASE \E w \in Workers, r \in Reqs, i \in Reqs : AcceptedHit(w, r, i)
  BY <1>0, <1>17
  DEF AcceptedHit, SameName, SameRefs, SameCall, SameLock, SameEnd, UsedUp, SameMark, Unqueued,
      Moves, OnlyWorker, WorkerInv, MessageInv, LockInv, CallbackNotLost, WorkerAt, Holding, Op,
      Step
<1>18. CASE \E w \in Workers, r \in Reqs, i \in Reqs : AcceptedOther(w, r, i)
  BY <1>0, <1>18
  DEF AcceptedOther, Unqueued, Moves, OnlyWorker, WorkerInv, MessageInv, LockInv, CallbackNotLost,
      WorkerAt, Holding, Op, Step
<1>19. CASE Elsewhere
  BY <1>0, <1>19
  DEF Elsewhere, WorkerInv, MessageInv, LockInv, CallbackNotLost, WorkerAt, Holding, Op, Step
<1>20. QED
  BY <1>1, <1>2, <1>3, <1>4, <1>5, <1>6, <1>7, <1>8, <1>9, <1>10, <1>11, <1>12, <1>13, <1>14,
      <1>15, <1>16, <1>17, <1>18, <1>19, Zenon
  DEF Effect

LEMMA QuietStep ==
  ASSUME IndInv, Effect
  PROVE  CallbackQuiet'
<1>0. WorkerInv /\ MessageInv /\ LockInv /\ CallbackQuiet /\ "backend" \notin Workers /\ Nobody \notin Workers /\ Nobody # "backend"
  BY SessionAssumption DEF SessionAssumption, IndInv, Nobody
<1>1. CASE \E r \in Reqs : Settled(r)
  BY <1>0, <1>1
  DEF Settled, Named, Only, WorkerInv, MessageInv, LockInv, CallbackQuiet, WorkerAt, Holding, Op,
      Step
<1>2. CASE \E r \in Reqs : FuncSetting(r)
  BY <1>0, <1>2
  DEF FuncSetting, Only, SameName, SameRefs, SameMark, Quiet, WorkerInv, MessageInv, LockInv,
      CallbackQuiet, WorkerAt, Holding, Op, Step
<1>3. CASE \E r \in Reqs : FuncSet(r)
  BY <1>0, <1>3
  DEF FuncSet, Only, SameName, SameRefs, SameMark, Quiet, WorkerInv, MessageInv, LockInv,
      CallbackQuiet, WorkerAt, Holding, Op, Step
<1>4. CASE \E r \in Reqs : Replied(r)
  BY <1>0, <1>4
  DEF Replied, Only, SameName, SameRefs, SameMark, SameCall, SameLock, Quiet, WorkerInv,
      MessageInv, LockInv, CallbackQuiet, WorkerAt, Holding, Op, Step
<1>5. CASE \E r \in Reqs : Freed(r)
  BY <1>0, <1>5
  DEF Freed, Only, Dropped, SameName, SameMark, SameLock, WorkerInv, MessageInv, LockInv,
      CallbackQuiet, WorkerAt, Holding, Op, Step
<1>6. CASE \E w \in Workers, r \in Reqs : Received(w, r)
  BY <1>0, <1>6
  DEF Received, Named, Only, OnlyWorker, WorkerInv, MessageInv, LockInv, CallbackQuiet, WorkerAt,
      Holding, Op, Step
<1>7. CASE \E w \in Workers, r \in Reqs : Found(w, r)
  BY <1>0, <1>7
  DEF Found, Only, SameName, SameMark, SameCall, SameLock, SameEnd, Moves, OnlyWorker, Quiet,
      WorkerInv, MessageInv, LockInv, CallbackQuiet, WorkerAt, Holding, Op, Step
<1>8. CASE \E w \in Workers, r \in Reqs : Repeated(w, r)
  BY <1>0, <1>8
  DEF Repeated, Only, UsedUp, SameName, SameMark, SameCall, SameLock, Leaves, OnlyWorker, Quiet,
      WorkerInv, MessageInv, LockInv, CallbackQuiet, WorkerAt, Holding, Op, Step
<1>9. CASE \E w \in Workers, r \in Reqs : Waiting(w, r)
  BY <1>0, <1>9
  DEF Waiting, Only, SameName, SameRefs, SameMark, SameCall, SameLock, Leaves, OnlyWorker,
      WorkerInv, MessageInv, LockInv, CallbackQuiet, WorkerAt, Holding, Op, Step
<1>10. CASE \E w \in Workers, r \in Reqs : Locked(w, r)
  BY <1>0, <1>10
  DEF Locked, Only, SameName, SameRefs, SameCall, SameEnd, Moves, OnlyWorker, Quiet, WorkerInv,
      MessageInv, LockInv, CallbackQuiet, WorkerAt, Holding, Op, Step
<1>11. CASE \E w \in Workers, r \in Reqs : Called(w, r)
  BY <1>0, <1>11
  DEF Called, Only, SameName, SameRefs, SameMark, SameLock, SameEnd, Moves, OnlyWorker, Quiet,
      WorkerInv, MessageInv, LockInv, CallbackQuiet, WorkerAt, Holding, Op, Step
<1>12. CASE \E w \in Workers, r \in Reqs : Unlocked(w, r)
  BY <1>0, <1>12
  DEF Unlocked, Only, SameName, SameRefs, SameMark, SameCall, SameEnd, Moves, OnlyWorker, Quiet,
      WorkerInv, MessageInv, LockInv, CallbackQuiet, WorkerAt, Holding, Op, Step
<1>13. CASE \E w \in Workers, r \in Reqs : AcceptedPlain(w, r)
  BY <1>0, <1>13
  DEF AcceptedPlain, Moves, OnlyWorker, WorkerInv, MessageInv, LockInv, CallbackQuiet, WorkerAt,
      Holding, Op, Step
<1>14. CASE \E w \in Workers, r \in Reqs : PutBack(w, r)
  BY <1>0, <1>14
  DEF PutBack, Only, Dropped, SameName, SameMark, SameLock, SameCall, Moves, OnlyWorker, Quiet,
      WorkerInv, MessageInv, LockInv, CallbackQuiet, WorkerAt, Holding, Op, Step
<1>15. CASE \E w \in Workers, r \in Reqs : Dispatched(w, r)
  BY <1>0, <1>15
  DEF Dispatched, Only, SameName, SameRefs, SameMark, SameCall, SameLock, Leaves, OnlyWorker,
      WorkerInv, MessageInv, LockInv, CallbackQuiet, WorkerAt, Holding, Op, Step
<1>16. CASE \E w \in Workers, r \in Reqs, i \in Reqs : Unreffed(w, i, r)
  BY <1>0, <1>16
  DEF Unreffed, Dropped, SameName, SameMark, SameLock, SameCall, SameEnd, UsedUp, Leaves,
      OnlyWorker, Quiet, WorkerInv, MessageInv, LockInv, CallbackQuiet, WorkerAt, Holding, Op,
      Step
<1>17. CASE \E w \in Workers, r \in Reqs, i \in Reqs : AcceptedHit(w, r, i)
  BY <1>0, <1>17
  DEF AcceptedHit, SameName, SameRefs, SameCall, SameLock, SameEnd, UsedUp, SameMark, Unqueued,
      Moves, OnlyWorker, WorkerInv, MessageInv, LockInv, CallbackQuiet, WorkerAt, Holding, Op,
      Step
<1>18. CASE \E w \in Workers, r \in Reqs, i \in Reqs : AcceptedOther(w, r, i)
  BY <1>0, <1>18
  DEF AcceptedOther, Unqueued, Moves, OnlyWorker, WorkerInv, MessageInv, LockInv, CallbackQuiet,
      WorkerAt, Holding, Op, Step
<1>19. CASE Elsewhere
  BY <1>0, <1>19
  DEF Elsewhere, WorkerInv, MessageInv, LockInv, CallbackQuiet, WorkerAt, Holding, Op, Step
<1>20. QED
  BY <1>1, <1>2, <1>3, <1>4, <1>5, <1>6, <1>7, <1>8, <1>9, <1>10, <1>11, <1>12, <1>13, <1>14,
      <1>15, <1>16, <1>17, <1>18, <1>19, Zenon
  DEF Effect

LEMMA InterruptStep ==
  ASSUME IndInv, Effect
  PROVE  InterruptNotLost'
<1>0. WorkerInv /\ ListInv /\ MessageInv /\ LockInv /\ InterruptNotLost /\ interrupts \in Seq(Reqs)
  BY DEF IndInv, TypeOK
<1>1. CASE \E r \in Reqs : Settled(r)
  BY <1>0, <1>1
  DEF Settled, Named, Only, WorkerInv, ListInv, MessageInv, LockInv, InterruptNotLost, WorkerAt,
      Holding, Op, Step
<1>2. CASE \E r \in Reqs : FuncSetting(r)
  BY <1>0, <1>2
  DEF FuncSetting, Only, SameName, SameRefs, SameMark, Quiet, WorkerInv, ListInv, MessageInv,
      LockInv, InterruptNotLost, WorkerAt, Holding, Op, Step
<1>3. CASE \E r \in Reqs : FuncSet(r)
  BY <1>0, <1>3
  DEF FuncSet, Only, SameName, SameRefs, SameMark, Quiet, WorkerInv, ListInv, MessageInv, LockInv,
      InterruptNotLost, WorkerAt, Holding, Op, Step
<1>4. CASE \E r \in Reqs : Replied(r)
  BY <1>0, <1>4
  DEF Replied, Only, SameName, SameRefs, SameMark, SameCall, SameLock, Quiet, WorkerInv, ListInv,
      MessageInv, LockInv, InterruptNotLost, WorkerAt, Holding, Op, Step
<1>5. CASE \E r \in Reqs : Freed(r)
  BY <1>0, <1>5
  DEF Freed, Only, Dropped, SameName, SameMark, SameLock, WorkerInv, ListInv, MessageInv, LockInv,
      InterruptNotLost, WorkerAt, Holding, Op, Step
<1>6. CASE \E w \in Workers, r \in Reqs : Received(w, r)
  BY <1>0, <1>6
  DEF Received, Named, Only, OnlyWorker, WorkerInv, ListInv, MessageInv, LockInv,
      InterruptNotLost, WorkerAt, Holding, Op, Step
<1>7. CASE \E w \in Workers, r \in Reqs : Found(w, r)
  BY <1>0, <1>7
  DEF Found, Only, SameName, SameMark, SameCall, SameLock, SameEnd, Moves, OnlyWorker, Quiet,
      WorkerInv, ListInv, MessageInv, LockInv, InterruptNotLost, WorkerAt, Holding, Op, Step
<1>8. CASE \E w \in Workers, r \in Reqs : Repeated(w, r)
  BY <1>0, <1>8
  DEF Repeated, Only, UsedUp, SameName, SameMark, SameCall, SameLock, Leaves, OnlyWorker, Quiet,
      WorkerInv, ListInv, MessageInv, LockInv, InterruptNotLost, WorkerAt, Holding, Op, Step
<1>9. CASE \E w \in Workers, r \in Reqs : Waiting(w, r)
  BY <1>0, <1>9
  DEF Waiting, Only, SameName, SameRefs, SameMark, SameCall, SameLock, Leaves, OnlyWorker,
      WorkerInv, ListInv, MessageInv, LockInv, InterruptNotLost, WorkerAt, Holding, Op, Step
<1>10. CASE \E w \in Workers, r \in Reqs : Locked(w, r)
  BY <1>0, <1>10
  DEF Locked, Only, SameName, SameRefs, SameCall, SameEnd, Moves, OnlyWorker, Quiet, WorkerInv,
      ListInv, MessageInv, LockInv, InterruptNotLost, WorkerAt, Holding, Op, Step
<1>11. CASE \E w \in Workers, r \in Reqs : Called(w, r)
  BY <1>0, <1>11
  DEF Called, Only, SameName, SameRefs, SameMark, SameLock, SameEnd, Moves, OnlyWorker, Quiet,
      WorkerInv, ListInv, MessageInv, LockInv, InterruptNotLost, WorkerAt, Holding, Op, Step
<1>12. CASE \E w \in Workers, r \in Reqs : Unlocked(w, r)
  BY <1>0, <1>12
  DEF Unlocked, Only, SameName, SameRefs, SameMark, SameCall, SameEnd, Moves, OnlyWorker, Quiet,
      WorkerInv, ListInv, MessageInv, LockInv, InterruptNotLost, WorkerAt, Holding, Op, Step
<1>13. CASE \E w \in Workers, r \in Reqs : AcceptedPlain(w, r)
  BY <1>0, <1>13
  DEF AcceptedPlain, Moves, OnlyWorker, WorkerInv, ListInv, MessageInv, LockInv, InterruptNotLost,
      WorkerAt, Holding, Op, Step
<1>14. CASE \E w \in Workers, r \in Reqs : PutBack(w, r)
  BY <1>0, <1>14
  DEF PutBack, Only, Dropped, SameName, SameMark, SameLock, SameCall, Moves, OnlyWorker, Quiet,
      WorkerInv, ListInv, MessageInv, LockInv, InterruptNotLost, WorkerAt, Holding, Op, Step
<1>15. CASE \E w \in Workers, r \in Reqs : Dispatched(w, r)
  BY <1>0, <1>15
  DEF Dispatched, Only, SameName, SameRefs, SameMark, SameCall, SameLock, Leaves, OnlyWorker,
      WorkerInv, ListInv, MessageInv, LockInv, InterruptNotLost, WorkerAt, Holding, Op, Step
<1>16. CASE \E w \in Workers, r \in Reqs, i \in Reqs : Unreffed(w, i, r)
  BY <1>0, <1>16
  DEF Unreffed, Dropped, SameName, SameMark, SameLock, SameCall, SameEnd, UsedUp, Leaves,
      OnlyWorker, Quiet, WorkerInv, ListInv, MessageInv, LockInv, InterruptNotLost, WorkerAt,
      Holding, Op, Step
<1>17. CASE \E w \in Workers, r \in Reqs, i \in Reqs : AcceptedHit(w, r, i)
  BY <1>0, <1>17
  DEF AcceptedHit, SameName, SameRefs, SameCall, SameLock, SameEnd, UsedUp, SameMark, Unqueued,
      Moves, OnlyWorker, WorkerInv, ListInv, MessageInv, LockInv, InterruptNotLost, WorkerAt,
      Holding, Op, Step
<1>18. CASE \E w \in Workers, r \in Reqs, i \in Reqs : AcceptedOther(w, r, i)
  BY <1>0, <1>18
  DEF AcceptedOther, Unqueued, Moves, OnlyWorker, WorkerInv, ListInv, MessageInv, LockInv,
      InterruptNotLost, WorkerAt, Holding, Op, Step
<1>19. CASE Elsewhere
  BY <1>0, <1>19
  DEF Elsewhere, WorkerInv, ListInv, MessageInv, LockInv, InterruptNotLost, WorkerAt, Holding, Op,
      Step
<1>20. QED
  BY <1>1, <1>2, <1>3, <1>4, <1>5, <1>6, <1>7, <1>8, <1>9, <1>10, <1>11, <1>12, <1>13, <1>14,
      <1>15, <1>16, <1>17, <1>18, <1>19, Zenon
  DEF Effect

(* The reference count, with the worker that is putting a request back     *)
(* left out: what it puts back is pending.                                 *)
Count(r) == Cardinality(Interrupting(r))
Kept(r) == Owned(r) \/ Step(r) = "pending"
Counted(r) ==
  /\ req[r].refs = Count(r) + (IF Kept(r) THEN 1 ELSE 0)
  /\ req[r].mem = "live" <=> req[r].refs > 0
Held(w, r) == WorkerAt(w) \in Holding /\ worker[w].curr = r
SameHeld == \A w \in Workers, r \in Reqs : Held(w, r)' <=> Held(w, r)

LEMMA RefsForm ==
  ASSUME WorkerInv
  PROVE  RefsExact <=> \A r \in Reqs : Counted(r)
<1>1. \A r \in Reqs :
        (\E w \in Workers : worker[w].step = "again" /\ worker[w].curr = r) => Step(r) = "pending"
  BY DEF WorkerInv, WorkerAt
<1>2. QED
  BY <1>1 DEF RefsExact, Counted, Kept, Count, Step

LEMMA RefsFormNext ==
  ASSUME WorkerInv', \A r \in Reqs : Counted(r)'
  PROVE  RefsExact'
<1>1. \A r \in Reqs :
        (\E w \in Workers : worker'[w].step = "again" /\ worker'[w].curr = r) => Step(r)' = "pending"
  BY DEF WorkerInv, WorkerAt
<1>2. QED
  BY <1>1 DEF RefsExact, Counted, Kept, Count, Step

(* How many workers interrupt a request: nobody interrupts an INTERRUPT or *)
(* a message that has not come.                                            *)
LEMMA CountFacts ==
  ASSUME IndInv, NEW r \in Reqs
  PROVE  /\ IsFiniteSet(Interrupting(r)) /\ Count(r) \in Nat
         /\ Op(r) \in {"INTERRUPT", "unused"} => Count(r) = 0
<1>1. IsFiniteSet(Interrupting(r))
  <2>1. Interrupting(r) \subseteq Workers
    BY DEF Interrupting
  <2>2. QED
    BY <2>1, SessionAssumption, FS_Subset DEF SessionAssumption
<1>2. Count(r) \in Nat
  BY <1>1, FS_CardinalityType DEF Count
<1>3. ASSUME Op(r) \in {"INTERRUPT", "unused"} PROVE Count(r) = 0
  <2>1. Interrupting(r) = {}
    BY <1>3 DEF Interrupting, IndInv, WorkerInv, WorkerAt, Holding, Op
  <2>2. QED
    BY <2>1, FS_EmptySet, Zenon DEF Count
<1>4. QED
  BY <1>1, <1>2, <1>3

LEMMA SameCount ==
  ASSUME SameHeld, NEW r \in Reqs
  PROVE  Count(r)' = Count(r)
<1>1. Interrupting(r)' = Interrupting(r)
  BY DEF SameHeld, Held, Interrupting, Holding, WorkerAt
<1>2. QED
  BY <1>1, Zenon DEF Count

LEMMA FoundCount ==
  ASSUME IndInv, NEW w \in Workers, NEW t \in Reqs, Found(w, t)
  PROVE  Count(t)' = Count(t) + 1 /\ \A q \in Reqs \ {t} : Count(q)' = Count(q)
<1>1. Interrupting(t)' = Interrupting(t) \cup {w} /\ w \notin Interrupting(t)
  BY DEF Found, Moves, OnlyWorker, Interrupting, WorkerAt
<1>2. Count(t)' = Cardinality(Interrupting(t) \cup {w})
  BY <1>1, Zenon DEF Count
<1>3. Cardinality(Interrupting(t) \cup {w}) = Count(t) + 1
  BY <1>1, CountFacts, FS_AddElement DEF Count
<1>4. ASSUME NEW q \in Reqs \ {t} PROVE Count(q)' = Count(q)
  <2>1. Interrupting(q)' = Interrupting(q)
    BY DEF Found, Moves, OnlyWorker, Interrupting, WorkerAt
  <2>2. QED
    BY <2>1, Zenon DEF Count
<1>5. QED
  BY <1>2, <1>3, <1>4

LEMMA UnreffedCount ==
  ASSUME IndInv, NEW w \in Workers, NEW i \in Reqs, NEW t \in Reqs, Unreffed(w, i, t)
  PROVE  Count(t)' = Count(t) - 1 /\ \A q \in Reqs \ {t} : Count(q)' = Count(q)
<1>1. Interrupting(t)' = Interrupting(t) \ {w} /\ w \in Interrupting(t)
  BY DEF Unreffed, Leaves, OnlyWorker, Interrupting, WorkerAt
<1>2. Count(t)' = Cardinality(Interrupting(t) \ {w})
  BY <1>1, Zenon DEF Count
<1>3. Cardinality(Interrupting(t) \ {w}) = Count(t) - 1
  BY <1>1, CountFacts, FS_RemoveElement DEF Count
<1>4. ASSUME NEW q \in Reqs \ {t} PROVE Count(q)' = Count(q)
  <2>1. Interrupting(q)' = Interrupting(q)
    BY DEF Unreffed, Leaves, OnlyWorker, Interrupting, WorkerAt
  <2>2. QED
    BY <2>1, Zenon DEF Count
<1>5. QED
  BY <1>2, <1>3, <1>4

LEMMA HeldStep ==
  ASSUME IndInv, Effect
  PROVE  \/ SameHeld
         \/ \E w \in Workers, r \in Reqs : Found(w, r)
         \/ \E w \in Workers, r \in Reqs, i \in Reqs : Unreffed(w, i, r)
<1>0. WorkerInv
  BY DEF IndInv
<1>1. CASE \E r \in Reqs : Settled(r)
  BY <1>0, <1>1 DEF Settled, WorkerAt, Holding, Held, SameHeld, WorkerInv
<1>2. CASE \E r \in Reqs : FuncSetting(r)
  BY <1>0, <1>2 DEF FuncSetting, WorkerAt, Holding, Held, SameHeld, WorkerInv
<1>3. CASE \E r \in Reqs : FuncSet(r)
  BY <1>0, <1>3 DEF FuncSet, WorkerAt, Holding, Held, SameHeld, WorkerInv
<1>4. CASE \E r \in Reqs : Replied(r)
  BY <1>0, <1>4 DEF Replied, WorkerAt, Holding, Held, SameHeld, WorkerInv
<1>5. CASE \E r \in Reqs : Freed(r)
  BY <1>0, <1>5 DEF Freed, WorkerAt, Holding, Held, SameHeld, WorkerInv
<1>6. CASE \E w \in Workers, r \in Reqs : Received(w, r)
  BY <1>0, <1>6 DEF Received, OnlyWorker, WorkerAt, Holding, Held, SameHeld, WorkerInv
<1>7. CASE \E w \in Workers, r \in Reqs : Found(w, r)
  BY <1>7
<1>8. CASE \E w \in Workers, r \in Reqs : Repeated(w, r)
  BY <1>0, <1>8 DEF Repeated, Leaves, OnlyWorker, WorkerAt, Holding, Held, SameHeld, WorkerInv
<1>9. CASE \E w \in Workers, r \in Reqs : Waiting(w, r)
  BY <1>0, <1>9 DEF Waiting, Leaves, OnlyWorker, WorkerAt, Holding, Held, SameHeld, WorkerInv
<1>10. CASE \E w \in Workers, r \in Reqs : Locked(w, r)
  BY <1>0, <1>10 DEF Locked, Moves, OnlyWorker, WorkerAt, Holding, Held, SameHeld, WorkerInv
<1>11. CASE \E w \in Workers, r \in Reqs : Called(w, r)
  BY <1>0, <1>11 DEF Called, Moves, OnlyWorker, WorkerAt, Holding, Held, SameHeld, WorkerInv
<1>12. CASE \E w \in Workers, r \in Reqs : Unlocked(w, r)
  BY <1>0, <1>12 DEF Unlocked, Moves, OnlyWorker, WorkerAt, Holding, Held, SameHeld, WorkerInv
<1>13. CASE \E w \in Workers, r \in Reqs : AcceptedPlain(w, r)
  BY <1>0, <1>13 DEF AcceptedPlain, Moves, OnlyWorker, WorkerAt, Holding, Held, SameHeld, WorkerInv
<1>14. CASE \E w \in Workers, r \in Reqs : PutBack(w, r)
  BY <1>0, <1>14 DEF PutBack, Moves, OnlyWorker, WorkerAt, Holding, Held, SameHeld, WorkerInv
<1>15. CASE \E w \in Workers, r \in Reqs : Dispatched(w, r)
  BY <1>0, <1>15 DEF Dispatched, Leaves, OnlyWorker, WorkerAt, Holding, Held, SameHeld, WorkerInv
<1>16. CASE \E w \in Workers, r \in Reqs, i \in Reqs : Unreffed(w, i, r)
  BY <1>16
<1>17. CASE \E w \in Workers, r \in Reqs, i \in Reqs : AcceptedHit(w, r, i)
  BY <1>0, <1>17 DEF AcceptedHit, Moves, OnlyWorker, WorkerAt, Holding, Held, SameHeld, WorkerInv
<1>18. CASE \E w \in Workers, r \in Reqs, i \in Reqs : AcceptedOther(w, r, i)
  BY <1>0, <1>18 DEF AcceptedOther, Moves, OnlyWorker, WorkerAt, Holding, Held, SameHeld, WorkerInv
<1>19. CASE Elsewhere
  BY <1>0, <1>19 DEF Elsewhere, WorkerAt, Holding, Held, SameHeld, WorkerInv
<1>20. QED
  BY <1>1, <1>2, <1>3, <1>4, <1>5, <1>6, <1>7, <1>8, <1>9, <1>10, <1>11, <1>12, <1>13, <1>14,
      <1>15, <1>16, <1>17, <1>18, <1>19, Zenon
  DEF Effect

LEMMA SameCountRefs ==
  ASSUME IndInv, Effect, \A q \in Reqs : Count(q)' = Count(q)
  PROVE  \/ \A q \in Reqs : Counted(q)'
         \/ \E w \in Workers, r \in Reqs : Found(w, r)
         \/ \E w \in Workers, r \in Reqs, i \in Reqs : Unreffed(w, i, r)
<1>0. /\ WorkerInv /\ ListInv /\ MessageInv /\ interrupts \in Seq(Reqs)
      /\ \A q \in Reqs : Counted(q) /\ Count(q) \in Nat /\ Count(q)' = Count(q)
           /\ (Op(q) \in {"INTERRUPT", "unused"} => Count(q) = 0)
  BY RefsForm, CountFacts DEF IndInv, TypeOK
<1>1. CASE \E r \in Reqs : Settled(r)
  BY <1>0, <1>1 DEF Settled, Named, Only, Counted, Kept, Owned, Step, Op, MessageInv
<1>2. CASE \E r \in Reqs : FuncSetting(r)
  BY <1>0, <1>2 DEF FuncSetting, Only, SameRefs, Counted, Kept, Owned, Step, Op
<1>3. CASE \E r \in Reqs : FuncSet(r)
  BY <1>0, <1>3 DEF FuncSet, Only, SameRefs, Counted, Kept, Owned, Step, Op
<1>4. CASE \E r \in Reqs : Replied(r)
  BY <1>0, <1>4 DEF Replied, Only, SameRefs, Counted, Kept, Owned, Step, Op
<1>5. CASE \E r \in Reqs : Freed(r)
  <2>1. PICK r \in Reqs : Freed(r)
    BY <1>5
  <2>2. req[r].refs = Count(r) + 1
    BY <1>0, <2>1 DEF Freed, Counted, Kept, Owned, Step
  <2>4. Counted(r)'
    BY <1>0, <2>1, <2>2 DEF Freed, Dropped, Counted, Kept, Owned, Step
  <2>5. \A q \in Reqs \ {r} : Counted(q)'
    BY <1>0, <2>1 DEF Freed, Only, Counted, Kept, Owned, Step
  <2>6. QED
    BY <2>4, <2>5
<1>6. CASE \E w \in Workers, r \in Reqs : Received(w, r)
  BY <1>0, <1>6 DEF Received, Named, Only, Counted, Kept, Owned, Step, Op, MessageInv
<1>7. CASE \E w \in Workers, r \in Reqs : Found(w, r)
  BY <1>7
<1>8. CASE \E w \in Workers, r \in Reqs : Repeated(w, r)
  <2>1. PICK w \in Workers, r \in Reqs : Repeated(w, r)
    BY <1>8
  <2>2. Count(r) = 0
    BY <1>0, <2>1 DEF Repeated
  <2>4. Counted(r)'
    BY <1>0, <2>1, <2>2 DEF Repeated, UsedUp, Counted, Kept, Owned, Step
  <2>5. \A q \in Reqs \ {r} : Counted(q)'
    BY <1>0, <2>1 DEF Repeated, Only, Counted, Kept, Owned, Step
  <2>6. QED
    BY <2>4, <2>5
<1>9. CASE \E w \in Workers, r \in Reqs : Waiting(w, r)
  BY <1>0, <1>9 DEF Waiting, Only, SameRefs, Counted, Kept, Owned, Step, Op, WorkerInv, WorkerAt
<1>10. CASE \E w \in Workers, r \in Reqs : Locked(w, r)
  BY <1>0, <1>10 DEF Locked, Only, SameRefs, SameEnd, Counted, Kept, Owned, Step, Op
<1>11. CASE \E w \in Workers, r \in Reqs : Called(w, r)
  BY <1>0, <1>11 DEF Called, Only, SameRefs, SameEnd, Counted, Kept, Owned, Step, Op
<1>12. CASE \E w \in Workers, r \in Reqs : Unlocked(w, r)
  BY <1>0, <1>12 DEF Unlocked, Only, SameRefs, SameEnd, Counted, Kept, Owned, Step, Op
<1>13. CASE \E w \in Workers, r \in Reqs : AcceptedPlain(w, r)
  BY <1>0, <1>13 DEF AcceptedPlain, Counted, Kept, Owned, Step, Op
<1>14. CASE \E w \in Workers, r \in Reqs : PutBack(w, r)
  <2>1. PICK w \in Workers, r \in Reqs : PutBack(w, r)
    BY <1>14
  <2>2. Count(r) = 0 /\ req[r].refs = 1
    BY <1>0, <2>1 DEF PutBack, WorkerInv, Counted, Kept
  <2>4. Counted(r)'
    BY <1>0, <2>1, <2>2 DEF PutBack, Dropped, Counted, Kept, Owned, Step
  <2>5. \A q \in Reqs \ {r} : Counted(q)'
    BY <1>0, <2>1 DEF PutBack, Only, Counted, Kept, Owned, Step
  <2>6. QED
    BY <2>4, <2>5
<1>15. CASE \E w \in Workers, r \in Reqs : Dispatched(w, r)
  BY <1>0, <1>15 DEF Dispatched, Only, SameRefs, Counted, Kept, Owned, Step, Op, WorkerInv, WorkerAt
<1>16. CASE \E w \in Workers, r \in Reqs, i \in Reqs : Unreffed(w, i, r)
  BY <1>16
<1>17. CASE \E w \in Workers, r \in Reqs, i \in Reqs : AcceptedHit(w, r, i)
  <2>1. PICK w \in Workers, r \in Reqs, i \in Reqs : AcceptedHit(w, r, i)
    BY <1>17
  <2>2. Count(i) = 0
    BY <1>0, <2>1 DEF AcceptedHit, Unqueued, ListInv
  <2>3. Counted(i)'
    BY <1>0, <2>1, <2>2 DEF AcceptedHit, UsedUp, Counted, Kept, Owned, Step
  <2>4. Counted(r)'
    BY <1>0, <2>1 DEF AcceptedHit, SameRefs, SameEnd, Counted, Kept, Owned, Step
  <2>5. \A q \in Reqs \ {i, r} : Counted(q)'
    BY <1>0, <2>1 DEF AcceptedHit, Counted, Kept, Owned, Step
  <2>6. QED
    BY <2>3, <2>4, <2>5
<1>18. CASE \E w \in Workers, r \in Reqs, i \in Reqs : AcceptedOther(w, r, i)
  BY <1>0, <1>18 DEF AcceptedOther, Unqueued, Counted, Kept, Owned, Step, Op
<1>19. CASE Elsewhere
  BY <1>0, <1>19 DEF Elsewhere, Counted, Kept, Owned, Step, Op
<1>20. QED
  BY <1>1, <1>2, <1>3, <1>4, <1>5, <1>6, <1>7, <1>8, <1>9, <1>10, <1>11, <1>12, <1>13, <1>14,
      <1>15, <1>16, <1>17, <1>18, <1>19, Zenon
  DEF Effect

LEMMA RefsStep ==
  ASSUME IndInv, Effect
  PROVE  RefsExact'
<1>0. /\ WorkerInv /\ ListInv /\ OffInv
      /\ \A q \in Reqs : Counted(q) /\ Count(q) \in Nat
           /\ (Op(q) \in {"INTERRUPT", "unused"} => Count(q) = 0)
  BY RefsForm, CountFacts DEF IndInv
<1>1. SUFFICES \A q \in Reqs : Counted(q)'
  BY WorkerStepInv, RefsFormNext
<1>2. CASE \E w \in Workers, r \in Reqs : Found(w, r)
  <2>1. PICK w \in Workers, r \in Reqs : Found(w, r)
    BY <1>2
  <2>2. Owned(r)
    BY <1>0, <2>1 DEF Found, OffInv, ListInv
  <2>3. Count(r)' = Count(r) + 1 /\ \A q \in Reqs \ {r} : Count(q)' = Count(q)
    BY <2>1, FoundCount
  <2>4. Counted(r)'
    BY <1>0, <2>1, <2>2, <2>3 DEF Found, SameEnd, Counted, Kept, Owned, Step
  <2>5. \A q \in Reqs \ {r} : Counted(q)'
    BY <1>0, <2>1, <2>3 DEF Found, Only, Counted, Kept, Owned, Step
  <2>6. QED
    BY <2>4, <2>5
<1>3. CASE \E w \in Workers, r \in Reqs, i \in Reqs : Unreffed(w, i, r)
  <2>1. PICK w \in Workers, r \in Reqs, i \in Reqs : Unreffed(w, i, r)
    BY <1>3
  <2>2. Count(r)' = Count(r) - 1 /\ \A q \in Reqs \ {r} : Count(q)' = Count(q)
    BY <2>1, UnreffedCount
  <2>3. Counted(r)'
    BY <1>0, <2>1, <2>2 DEF Unreffed, Dropped, SameEnd, Counted, Kept, Owned, Step
  <2>4. Count(i) = 0
    BY <1>0, <2>1 DEF Unreffed, WorkerInv, WorkerAt, Holding
  <2>5. Counted(i)'
    BY <1>0, <2>1, <2>2, <2>4 DEF Unreffed, UsedUp, Counted, Kept, Owned, Step
  <2>6. \A q \in Reqs \ {i, r} : Counted(q)'
    BY <1>0, <2>1, <2>2 DEF Unreffed, Counted, Kept, Owned, Step
  <2>7. QED
    BY <2>3, <2>5, <2>6
<1>4. QED
  BY <1>2, <1>3, HeldStep, SameCount, SameCountRefs


(* The type invariant.  The bound on a reference count comes from RefsExact. *)
LEMMA RefsBound ==
  ASSUME IndInv, Effect, NEW r \in Reqs
  PROVE  req'[r].refs \in 0 .. 1 + Cardinality(Workers)
<1>1. Interrupting(r)' \subseteq Workers
  BY DEF Interrupting
<1>2. /\ Cardinality(Interrupting(r)') \in Nat /\ Cardinality(Workers) \in Nat
      /\ Cardinality(Interrupting(r)') <= Cardinality(Workers)
  BY <1>1, SessionAssumption, FS_Subset, FS_CardinalityType DEF SessionAssumption
<1>3. \E n \in {0, 1} : req'[r].refs = Cardinality(Interrupting(r)') + n
  BY RefsStep DEF RefsExact
<1>4. QED
  BY <1>2, <1>3

LEMMA WorkerTypeStep ==
  ASSUME IndInv, [Next]_vars
  PROVE  worker' \in [Workers -> WorkerType]
<1>0. /\ worker \in [Workers -> WorkerType] /\ list \subseteq Reqs /\ interrupts \in Seq(Reqs)
  BY DEF IndInv, TypeOK
<1>1. ASSUME NEW w \in Workers, NEW x \in WorkerType, worker' = [worker EXCEPT ![w] = x]
      PROVE  worker' \in [Workers -> WorkerType]
  BY <1>0, <1>1
<1>2. ASSUME NEW w \in Workers, Arrive(w)
      PROVE  worker' \in [Workers -> WorkerType]
  BY <1>0, <1>2 DEF Arrive, ReceiveNoMemory, ReceiveRefused, Receive, WorkerType
<1>3. ASSUME NEW w \in Workers, WorkerStep(w)
      PROVE  worker' \in [Workers -> WorkerType]
  <2>1. CASE \/ InterruptWaits(w) \/ InterruptUnref(w) \/ HandToBackend(w) \/ Decline(w)
             \/ DoStatx(w) \/ DoInit(w) \/ DoDestroy(w) \/ DoNotifyReply(w)
    <3>1. worker' = [worker EXCEPT ![w] = Idle]
      BY <2>1, Zenon DEF InterruptWaits, InterruptUnref, HandToBackend, Decline, DoStatx, DoInit,
                         DoDestroy, DoNotifyReply, Dispatching
    <3>2. QED
      BY <1>1, <3>1 DEF Idle, WorkerType
  <2>2. CASE InterruptFinds(w)
    BY <1>0, <2>2 DEF InterruptFinds, WorkerType
  <2>3. CASE InterruptLock(w) \/ InterruptCall(w) \/ InterruptUnlock(w) \/ Again(w)
    <3>1. \E s \in {"call", "unlock", "unref", "dispatch"} :
            \/ worker' = [worker EXCEPT ![w].step = s]
            \/ worker' = [worker EXCEPT ![w].step = s, ![w].curr = NoArg]
      BY <2>3 DEF InterruptLock, InterruptCall, InterruptUnlock, Again
    <3>2. QED
      BY <1>0, <3>1 DEF WorkerType
  <2>4. CASE Accept(w)
    <3>1. \/ worker' = [worker EXCEPT ![w].step = "dispatch"]
          \/ /\ worker' = [worker EXCEPT ![w].step = "again", ![w].curr = Head(interrupts)]
             /\ interrupts # <<>>
      BY <2>4, Zenon DEF Accept
    <3>2. interrupts # <<>> => Head(interrupts) \in Reqs
      BY <1>0
    <3>3. QED
      BY <1>0, <3>1, <3>2 DEF WorkerType
  <2>5. QED
    BY <1>3, <2>1, <2>2, <2>3, <2>4, Zenon DEF WorkerStep
<1>4. ASSUME UNCHANGED worker
      PROVE  worker' \in [Workers -> WorkerType]
  BY <1>0, <1>4
<1>5. QED
  BY <1>2, <1>3, <1>4, Zenon
  DEF Next, SetFunc, BackendFinishes, SetFuncDone, Reply, FreeReq, Retrieve, RetrieveSend, vars

(* A request keeps its type when some of its fields get values of their    *)
(* types.                                                                  *)
RefsType == 0 .. 1 + Cardinality(Workers)
LockType == Workers \cup {Nobody, "backend"}
StepType == {"unused", "worker", "handling", "setting", "freeing", "over", "pending", "lost"}

LEMMA FieldTypes ==
  ASSUME NEW q \in RequestType
  PROVE  /\ \A s \in StepType, a \in Answers : [q EXCEPT !.answer = a, !.step = s] \in RequestType
         /\ \A s \in StepType : [q EXCEPT !.step = s] \in RequestType
         /\ \A n \in RefsType : [q EXCEPT !.refs = n] \in RequestType
         /\ \A m \in {"none", "live", "freed"} : [q EXCEPT !.mem = m] \in RequestType
         /\ \A b \in BOOLEAN : [q EXCEPT !.interrupted = b] \in RequestType
         /\ \A b \in BOOLEAN : [q EXCEPT !.called = b] \in RequestType
         /\ \A l \in LockType : [q EXCEPT !.lock = l] \in RequestType
         /\ \A f \in {"none", "set", "unset"} : [q EXCEPT !.func = f] \in RequestType
         /\ \A o \in Opcodes : [q EXCEPT !.op = o] \in RequestType
         /\ \A a \in Reqs \cup Retrieves \cup {NoArg} : [q EXCEPT !.arg = a] \in RequestType
<1> DEFINE A == Reqs \cup Retrieves \cup {NoArg}
<1> DEFINE O == Opcodes \cup {"unused"}
<1> DEFINE M == {"none", "live", "freed"}
<1> DEFINE F == {"none", "set", "unset"}
<1>1. RequestType = [op : O, arg : A, mem : M, refs : RefsType, interrupted : BOOLEAN, func : F,
                     called : BOOLEAN, lock : LockType, answer : Answers, step : StepType]
  BY Zenon DEF RequestType, RefsType, LockType, StepType
<1> HIDE DEF A, O, M, F
<1>2. \A s \in StepType, a \in Answers : [q EXCEPT !.answer = a, !.step = s] \in RequestType
  BY <1>1
<1>3. \A s \in StepType : [q EXCEPT !.step = s] \in RequestType
  BY <1>1
<1>4. \A n \in RefsType : [q EXCEPT !.refs = n] \in RequestType
  BY <1>1
<1>5. \A m \in M : [q EXCEPT !.mem = m] \in RequestType
  BY <1>1
<1>6. \A b \in BOOLEAN : [q EXCEPT !.interrupted = b] \in RequestType
  BY <1>1
<1>7. \A b \in BOOLEAN : [q EXCEPT !.called = b] \in RequestType
  BY <1>1
<1>8. \A l \in LockType : [q EXCEPT !.lock = l] \in RequestType
  BY <1>1
<1>9. \A f \in F : [q EXCEPT !.func = f] \in RequestType
  BY <1>1
<1>10. \A o \in O : [q EXCEPT !.op = o] \in RequestType
  BY <1>1
<1>11. \A a \in A : [q EXCEPT !.arg = a] \in RequestType
  BY <1>1
<1>12. QED
  BY <1>2, <1>3, <1>4, <1>5, <1>6, <1>7, <1>8, <1>9, <1>10, <1>11, Zenon DEF A, O, M, F

LEMMA RecordTypes ==
  ASSUME NEW q \in RequestType
  PROVE  /\ Destroyed(q) \in RequestType
         /\ q.refs - 1 \in RefsType => Unref(q) \in RequestType
         /\ \A a \in Answers : Answered(q, a) \in RequestType
<1>1. 0 \in RefsType /\ "quiet" \in Answers /\ "over" \in StepType /\ "freeing" \in StepType
  BY SessionAssumption, FS_CardinalityType DEF SessionAssumption, RefsType, Answers, StepType
<1>2. Destroyed(q) \in RequestType
  <2> DEFINE x == [q EXCEPT !.mem = "freed"]
  <2> DEFINE y == [x EXCEPT !.refs = 0]
  <2>1. x \in RequestType
    BY FieldTypes
  <2> HIDE DEF x
  <2>2. y \in RequestType
    BY <1>1, <2>1, FieldTypes
  <2> HIDE DEF y
  <2>3. [y EXCEPT !.answer = "quiet", !.step = "over"] \in RequestType
    BY <1>1, <2>2, FieldTypes
  <2>4. QED
    BY <2>3 DEF Destroyed, x, y
<1>3. ASSUME q.refs - 1 \in RefsType PROVE Unref(q) \in RequestType
  <2> DEFINE x == [q EXCEPT !.refs = q.refs - 1]
  <2>1. x \in RequestType
    BY <1>3, FieldTypes
  <2>2. q.mem \in {"none", "live", "freed"}
    BY DEF RequestType
  <2> HIDE DEF x
  <2>3. [x EXCEPT !.mem = IF q.refs = 1 THEN "freed" ELSE q.mem] \in RequestType
    BY <2>1, <2>2, FieldTypes
  <2>4. QED
    BY <2>3 DEF Unref, x
<1>4. \A a \in Answers : Answered(q, a) \in RequestType
  BY <1>1, FieldTypes DEF Answered
<1>5. QED
  BY <1>2, <1>3, <1>4

LEMMA NewTypes ==
  ASSUME NEW o \in Opcodes, NEW a \in Reqs \cup Retrieves \cup {NoArg}
  PROVE  /\ Unused \in RequestType
         /\ [Unused EXCEPT !.op = o, !.arg = a, !.answer = "device", !.step = "over"] \in RequestType
         /\ Fresh(o, a) \in RequestType
         /\ [Fresh(o, a) EXCEPT !.mem = "freed", !.refs = 0, !.answer = Refusal(o), !.step = "over"]
              \in RequestType
<1>1. {0, 1} \subseteq 0 .. 1 + Cardinality(Workers)
  BY SessionAssumption, FS_CardinalityType DEF SessionAssumption
<1>2. Refusal(o) \in Answers /\ "none" \in Answers /\ "device" \in Answers
  BY DEF Refusal, Answers, Errors
<1>3. Nobody \in Workers \cup {Nobody, "backend"}
  OBVIOUS
<1>4. Unused \in RequestType
  BY <1>1, <1>2, <1>3 DEF Unused, RequestType
<1> DEFINE x == [Unused EXCEPT !.op = o]
<1> DEFINE y == [x EXCEPT !.arg = a]
<1>5. x \in RequestType
  BY <1>4, FieldTypes
<1> HIDE DEF x
<1>6. y \in RequestType
  BY <1>5, FieldTypes
<1> HIDE DEF y
<1>7. [y EXCEPT !.answer = "device", !.step = "over"] \in RequestType
  BY <1>2, <1>6, FieldTypes DEF StepType
<1> DEFINE z == [y EXCEPT !.mem = "live"]
<1> DEFINE u == [z EXCEPT !.refs = 1]
<1>8. z \in RequestType
  BY <1>6, FieldTypes
<1> HIDE DEF z
<1>9. u \in RequestType
  BY <1>1, <1>8, FieldTypes DEF RefsType
<1> HIDE DEF u
<1>10. [u EXCEPT !.step = "worker"] \in RequestType
  BY <1>9, FieldTypes DEF StepType
<1>11. Fresh(o, a) \in RequestType
  BY <1>10 DEF Fresh, x, y, z, u
<1> DEFINE v == [Fresh(o, a) EXCEPT !.mem = "freed"]
<1> DEFINE t == [v EXCEPT !.refs = 0]
<1>12. v \in RequestType
  BY <1>11, FieldTypes
<1> HIDE DEF v
<1>13. t \in RequestType
  BY <1>1, <1>12, FieldTypes DEF RefsType
<1> HIDE DEF t
<1>14. [t EXCEPT !.answer = Refusal(o), !.step = "over"] \in RequestType
  BY <1>2, <1>13, FieldTypes DEF StepType
<1>15. QED
  BY <1>4, <1>7, <1>11, <1>14 DEF x, y, v, t

LEMMA ReqTypeStep ==
  ASSUME IndInv, [Next]_vars
  PROVE  req' \in [Reqs -> RequestType]
<1>0. req \in [Reqs -> RequestType] /\ list \subseteq Reqs /\ interrupts \in Seq(Reqs)
  BY DEF IndInv, TypeOK
<1>1. \A r \in Reqs : req'[r].refs \in RefsType
  BY NextEffect, RefsBound DEF RefsType
<1>2. ASSUME NEW r \in Reqs, NEW q \in RequestType, req' = [req EXCEPT ![r] = q]
      PROVE  req' \in [Reqs -> RequestType]
  BY <1>0, <1>2
<1>3. ASSUME NEW w \in Workers, Arrive(w)
      PROVE  req' \in [Reqs -> RequestType]
  <2>1. PICK r \in Reqs, o \in Opcodes, a \in Reqs \cup Retrieves \cup {NoArg} :
          ReceiveNoMemory(w, r, o, a) \/ ReceiveRefused(w, r, o, a) \/ Receive(w, r, o, a)
    BY <1>3 DEF Arrive
  <2>2. CASE ReceiveNoMemory(w, r, o, a)
    BY <1>2, <2>2, NewTypes, Zenon DEF ReceiveNoMemory
  <2>3. CASE ReceiveRefused(w, r, o, a)
    BY <1>2, <2>3, NewTypes, Zenon DEF ReceiveRefused
  <2>4. CASE Receive(w, r, o, a)
    BY <1>2, <2>4, NewTypes, Zenon DEF Receive
  <2>5. QED
    BY <2>1, <2>2, <2>3, <2>4
<1>4. ASSUME NEW w \in Workers, WorkerStep(w)
      PROVE  req' \in [Reqs -> RequestType]
  <2>0. WorkerAt(w) # "idle"
    BY <1>4 DEF WorkerStep, InterruptFinds, InterruptWaits, InterruptLock, InterruptCall,
                InterruptUnlock, InterruptUnref, Accept, Again, HandToBackend, Decline, DoStatx,
                DoInit, DoDestroy, DoNotifyReply, Dispatching, WorkerAt
  <2> DEFINE i == worker[w].msg
  <2> DEFINE t == worker[w].curr
  <2>1. i \in Reqs /\ req[i] \in RequestType
    BY <1>0, <2>0, AtWork
  <2>2. WorkerAt(w) \in {"lock", "call", "unlock", "unref", "again"} =>
          t \in Reqs /\ req[t] \in RequestType
    BY <1>0 DEF IndInv, WorkerInv, Holding
  <2>3. CASE InterruptFinds(w)
    <3> DEFINE u == req[i].arg
    <3>1. u \in Reqs /\ req' = [req EXCEPT ![u] = [req[u] EXCEPT !.refs = req[u].refs + 1]]
      BY <1>0, <2>3 DEF InterruptFinds
    <3>2. req[u].refs + 1 \in RefsType
      <4>1. req'[u].refs = req[u].refs + 1
        BY <1>0, <3>1 DEF RequestType
      <4>2. QED
        BY <1>1, <3>1, <4>1
    <3>3. [req[u] EXCEPT !.refs = req[u].refs + 1] \in RequestType
      BY <1>0, <3>1, <3>2, FieldTypes
    <3>4. QED
      BY <1>2, <3>1, <3>3, Zenon
  <2>4. CASE InterruptWaits(w)
    <3>1. \/ req' = [req EXCEPT ![i] = Destroyed(req[i])]
          \/ req' = [req EXCEPT ![i] = [req[i] EXCEPT !.step = "pending"]]
      BY <2>4 DEF InterruptWaits
    <3>2. Destroyed(req[i]) \in RequestType /\ [req[i] EXCEPT !.step = "pending"] \in RequestType
      BY <2>1, RecordTypes, FieldTypes DEF StepType
    <3>3. QED
      BY <1>2, <2>1, <3>1, <3>2, Zenon
  <2>5. CASE InterruptLock(w)
    <3>1. t \in Reqs /\ req[t] \in RequestType
      BY <2>2, <2>5 DEF InterruptLock, WorkerAt
    <3> DEFINE x == [req[t] EXCEPT !.lock = w]
    <3>2. x \in RequestType
      BY <3>1, FieldTypes DEF LockType
    <3> HIDE DEF x
    <3>3. [x EXCEPT !.interrupted = TRUE] \in RequestType
      BY <3>2, FieldTypes
    <3>4. req' = [req EXCEPT ![t] = [x EXCEPT !.interrupted = TRUE]]
      BY <1>0, <2>5, <3>1 DEF InterruptLock, x
    <3>5. QED
      BY <1>2, <3>1, <3>3, <3>4, Zenon
  <2>6. CASE InterruptCall(w)
    <3>1. t \in Reqs /\ req[t] \in RequestType
      BY <2>2, <2>6 DEF InterruptCall, WorkerAt
    <3>2. [req[t] EXCEPT !.called = TRUE] \in RequestType
      BY <3>1, FieldTypes
    <3>3. req' = [req EXCEPT ![t] = [req[t] EXCEPT !.called = TRUE]]
      BY <2>6 DEF InterruptCall
    <3>4. QED
      BY <1>2, <3>1, <3>2, <3>3, Zenon
  <2>7. CASE InterruptUnlock(w)
    <3>1. t \in Reqs /\ req[t] \in RequestType
      BY <2>2, <2>7 DEF InterruptUnlock, WorkerAt
    <3>2. [req[t] EXCEPT !.lock = Nobody] \in RequestType
      BY <3>1, FieldTypes DEF LockType
    <3>3. req' = [req EXCEPT ![t] = [req[t] EXCEPT !.lock = Nobody]]
      BY <2>7 DEF InterruptUnlock
    <3>4. QED
      BY <1>2, <3>1, <3>2, <3>3, Zenon
  <2>8. CASE InterruptUnref(w)
    <3>1. t \in Reqs /\ i # t /\ req[t] \in RequestType
      BY <1>0, <2>8 DEF InterruptUnref, WorkerAt, IndInv, WorkerInv, Holding
    <3>2. req' = [req EXCEPT ![t] = Unref(req[t]), ![i] = Destroyed(req[i])]
      BY <2>1, <2>8, <3>1 DEF InterruptUnref
    <3>3. req[t].refs - 1 \in RefsType
      <4>1. req'[t] = Unref(req[t])
        BY <1>0, <2>1, <3>1, <3>2
      <4>2. Unref(req[t]).refs = req[t].refs - 1
        BY <3>1 DEF Unref, RequestType
      <4>3. QED
        BY <1>1, <3>1, <4>1, <4>2
    <3>4. Unref(req[t]) \in RequestType /\ Destroyed(req[i]) \in RequestType
      BY <2>1, <3>1, <3>3, RecordTypes
    <3>5. QED
      BY <1>0, <2>1, <3>1, <3>2, <3>4
  <2>9. CASE Accept(w)
    <3>1. \/ UNCHANGED req
          \/ \E k \in WaitingFor(i) :
               req' = [req EXCEPT ![i].interrupted = TRUE, ![interrupts[k]] = Destroyed(@)]
      BY <2>9, Zenon DEF Accept
    <3>2. ASSUME NEW k \in WaitingFor(i),
                 req' = [req EXCEPT ![i].interrupted = TRUE, ![interrupts[k]] = Destroyed(@)]
          PROVE  req' \in [Reqs -> RequestType]
      <4> DEFINE j == interrupts[k]
      <4> DEFINE x == [req[i] EXCEPT !.interrupted = TRUE]
      <4>1. k \in 1 .. Len(interrupts)
        BY DEF WaitingFor
      <4>2. j \in Reqs /\ Op(j) = "INTERRUPT"
        BY <1>0, <4>1 DEF IndInv, ListInv
      <4>3. j # i
        BY <2>9, <4>2 DEF Accept, Op
      <4>4. x \in RequestType /\ Destroyed(req[j]) \in RequestType
        BY <1>0, <2>1, <4>2, FieldTypes, RecordTypes
      <4>5. req' = [req EXCEPT ![i] = x, ![j] = Destroyed(req[j])]
        BY <3>2, <4>3, <4>2, <2>1, <1>0
      <4> HIDE DEF x
      <4>6. QED
        BY <1>0, <2>1, <4>2, <4>4, <4>5
    <3>3. QED
      BY <1>0, <3>1, <3>2
  <2>10. CASE Again(w)
    <3>1. t \in Reqs /\ req[t] \in RequestType
      BY <2>2, <2>10 DEF Again, WorkerAt
    <3>2. req' = [req EXCEPT ![t] = [Unref(req[t]) EXCEPT !.answer = "EAGAIN", !.step = "over"]]
      BY <2>10 DEF Again
    <3>3. req[t].refs - 1 \in RefsType
      <4>1. req'[t].refs = req[t].refs - 1
        BY <1>0, <3>1, <3>2 DEF Unref, RequestType
      <4>2. QED
        BY <1>1, <3>1, <4>1
    <3>4. Unref(req[t]) \in RequestType
      BY <3>1, <3>3, RecordTypes
    <3>5. [Unref(req[t]) EXCEPT !.answer = "EAGAIN", !.step = "over"] \in RequestType
      BY <3>4, FieldTypes DEF Answers, Errors, StepType
    <3>6. QED
      BY <1>2, <3>1, <3>2, <3>5, Zenon
  <2>11. CASE \/ HandToBackend(w) \/ Decline(w) \/ DoStatx(w) \/ DoInit(w) \/ DoDestroy(w)
              \/ DoNotifyReply(w)
    <3>1. \A o : Declines(o) \subseteq Answers
      BY DEF Declines, ArgErrors, Lacking, Answers, Errors
    <3>2. {"quiet", "EPROTO", "device"} \subseteq Answers
      BY DEF Answers, Errors
    <3>3. \/ \E s \in {"handling", "lost"} : req' = [req EXCEPT ![i] = [req[i] EXCEPT !.step = s]]
          \/ \E a \in Answers : req' = [req EXCEPT ![i] = Answered(req[i], a)]
      BY <2>1, <2>11, <3>1, <3>2
      DEF HandToBackend, Decline, DoStatx, DoInit, DoDestroy, DoNotifyReply
    <3>4. \A s \in {"handling", "lost"} : [req[i] EXCEPT !.step = s] \in RequestType
      BY <2>1, FieldTypes DEF StepType
    <3>5. QED
      BY <1>2, <2>1, <3>3, <3>4, RecordTypes, Zenon
  <2>12. QED
    BY <1>4, <2>3, <2>4, <2>5, <2>6, <2>7, <2>8, <2>9, <2>10, <2>11, Zenon DEF WorkerStep
<1>5. ASSUME NEW r \in Reqs, SetFunc(r) \/ BackendFinishes(r)
      PROVE  req' \in [Reqs -> RequestType]
  <2>0. req[r] \in RequestType
    BY <1>0
  <2>1. CASE SetFunc(r)
    <3> DEFINE f == IF req[r].func = "none" THEN "set" ELSE "unset"
    <3> DEFINE x == [req[r] EXCEPT !.lock = "backend"]
    <3> DEFINE y == [x EXCEPT !.step = "setting"]
    <3>1. x \in RequestType
      BY <2>0, FieldTypes DEF LockType
    <3> HIDE DEF x
    <3>2. y \in RequestType
      BY <3>1, FieldTypes DEF StepType
    <3> HIDE DEF y
    <3>3. [y EXCEPT !.func = f] \in RequestType
      BY <3>2, FieldTypes
    <3>4. req' = [req EXCEPT ![r] = [y EXCEPT !.func = f]]
      BY <2>1 DEF SetFunc, x, y
    <3>5. QED
      BY <1>2, <3>3, <3>4, Zenon
  <2>2. CASE SetFuncDone(r)
    <3> DEFINE c == req[r].called \/ (req[r].interrupted /\ req[r].func = "set")
    <3> DEFINE x == [req[r] EXCEPT !.called = c]
    <3> DEFINE y == [x EXCEPT !.lock = Nobody]
    <3>1. x \in RequestType
      BY <2>0, FieldTypes
    <3> HIDE DEF x
    <3>2. y \in RequestType
      BY <3>1, FieldTypes DEF LockType
    <3> HIDE DEF y
    <3>3. [y EXCEPT !.step = "handling"] \in RequestType
      BY <3>2, FieldTypes DEF StepType
    <3>4. req' = [req EXCEPT ![r] = [y EXCEPT !.step = "handling"]]
      BY <2>2 DEF SetFuncDone, x, y
    <3>5. QED
      BY <1>2, <3>3, <3>4, Zenon
  <2>3. CASE Reply(r)
    <3>1. \E a \in {"quiet", "backend"} : req' = [req EXCEPT ![r] = Answered(req[r], a)]
      BY <2>3 DEF Reply
    <3>2. \A a \in {"quiet", "backend"} : Answered(req[r], a) \in RequestType
      BY <2>0, RecordTypes DEF Answers
    <3>3. QED
      BY <1>2, <3>1, <3>2, Zenon
  <2>4. CASE FreeReq(r)
    <3> DEFINE f == IF noInterrupt THEN req[r].func ELSE "unset"
    <3> DEFINE x == [Unref(req[r]) EXCEPT !.func = f]
    <3>1. req' = [req EXCEPT ![r] = [Unref(req[r]) EXCEPT !.func = f, !.step = "over"]]
      BY <2>4 DEF FreeReq
    <3>2. f \in {"none", "set", "unset"}
      BY <2>0 DEF RequestType
    <3> HIDE DEF f
    <3>3. req[r].refs - 1 \in RefsType
      <4>1. req'[r].refs = req[r].refs - 1
        BY <1>0, <3>1 DEF Unref, RequestType
      <4>2. QED
        BY <1>1, <4>1
    <3>4. Unref(req[r]) \in RequestType
      BY <2>0, <3>3, RecordTypes
    <3>5. x \in RequestType
      BY <3>2, <3>4, FieldTypes
    <3> HIDE DEF x
    <3>6. [x EXCEPT !.step = "over"] \in RequestType
      BY <3>5, FieldTypes DEF StepType
    <3>7. QED
      BY <1>2, <3>1, <3>6, Zenon DEF x
  <2>5. QED
    BY <1>5, <2>1, <2>2, <2>3, <2>4 DEF BackendFinishes
<1>6. ASSUME UNCHANGED req
      PROVE  req' \in [Reqs -> RequestType]
  BY <1>0, <1>6
<1>7. QED
  BY <1>3, <1>4, <1>5, <1>6, Zenon DEF Next, Retrieve, RetrieveSend, vars

LEMMA SessionTypeStep ==
  ASSUME IndInv, [Next]_vars
  PROVE  /\ gotInit' \in BOOLEAN /\ noInterrupt' \in BOOLEAN
         /\ notify' \in [Retrieves -> {"none", "listed", "sent", "replied", "failed"}]
<1>1. gotInit \in BOOLEAN /\ noInterrupt \in BOOLEAN
  BY Zenon DEF IndInv, TypeOK
<1>2. notify \in [Retrieves -> {"none", "listed", "sent", "replied", "failed"}]
  BY DEF IndInv, TypeOK
<1>3. ASSUME NEW w \in Workers, Arrive(w)
      PROVE  UNCHANGED <<gotInit, noInterrupt, notify>>
  BY <1>3 DEF Arrive, ReceiveNoMemory, ReceiveRefused, Receive
<1>4. ASSUME NEW w \in Workers, WorkerStep(w)
      PROVE  \/ UNCHANGED <<gotInit, noInterrupt, notify>>
             \/ DoInit(w) \/ DoDestroy(w) \/ DoNotifyReply(w)
  BY <1>4 DEF WorkerStep, InterruptFinds, InterruptWaits, InterruptLock, InterruptCall,
              InterruptUnlock, InterruptUnref, Accept, Again, HandToBackend, Decline, DoStatx
<1>5. ASSUME NEW r \in Reqs, SetFunc(r) \/ BackendFinishes(r)
      PROVE  UNCHANGED <<gotInit, noInterrupt, notify>>
  BY <1>5 DEF SetFunc, BackendFinishes, SetFuncDone, Reply, FreeReq
<1>6. ASSUME NEW n \in Retrieves, Retrieve(n) \/ RetrieveSend(n)
      PROVE  /\ UNCHANGED <<gotInit, noInterrupt>>
             /\ \E s \in {"listed", "sent", "failed"} : notify' = [notify EXCEPT ![n] = s]
  BY <1>6 DEF Retrieve, RetrieveSend
<1>7. ASSUME NEW w \in Workers, DoInit(w) \/ DoDestroy(w) \/ DoNotifyReply(w)
      PROVE  /\ gotInit' = gotInit \/ gotInit' \in BOOLEAN
             /\ noInterrupt' = noInterrupt \/ noInterrupt' = TRUE
             /\ notify' = notify \/ \E n : notify' = [notify EXCEPT ![n] = "replied"]
  BY <1>7, Zenon DEF DoInit, DoDestroy, DoNotifyReply
<1>8. /\ gotInit' = gotInit \/ gotInit' \in BOOLEAN
      /\ noInterrupt' = noInterrupt \/ noInterrupt' = TRUE
      /\ \/ notify' = notify
         \/ \E n, s : s \in {"listed", "sent", "replied", "failed"} /\ notify' = [notify EXCEPT ![n] = s]
  BY <1>3, <1>4, <1>5, <1>6, <1>7, Zenon DEF Next, vars
<1>9. gotInit' \in BOOLEAN /\ noInterrupt' \in BOOLEAN
  BY <1>1, <1>8, Zenon
<1>10. notify' \in [Retrieves -> {"none", "listed", "sent", "replied", "failed"}]
  BY <1>2, <1>8
<1>11. QED
  BY <1>9, <1>10


LEMMA ListTypeStep ==
  ASSUME IndInv, [Next]_vars
  PROVE  list' \subseteq Reqs /\ interrupts' \in Seq(Reqs)
<1>0. list \subseteq Reqs /\ interrupts \in Seq(Reqs)
  BY DEF IndInv, TypeOK
<1>1. ASSUME NEW w \in Workers, Accept(w)
      PROVE  list' \subseteq Reqs /\ interrupts' \in Seq(Reqs)
  <2>1. worker[w].msg \in Reqs
    BY <1>1, AtWork DEF Accept, WorkerAt
  <2>2. list' = list \cup {worker[w].msg}
    BY <1>1 DEF Accept
  <2>3. \/ \E k \in WaitingFor(worker[w].msg) : interrupts' = RemoveAt(interrupts, k)
        \/ interrupts # <<>> /\ interrupts' = Tail(interrupts)
        \/ UNCHANGED interrupts
    BY <1>1, Zenon DEF Accept
  <2>4. ASSUME NEW k \in WaitingFor(worker[w].msg)
        PROVE  RemoveAt(interrupts, k) \in Seq(Reqs)
    <3>1. k \in 1 .. Len(interrupts)
      BY DEF WaitingFor
    <3>2. /\ SubSeq(interrupts, 1, k - 1) \in Seq(Reqs)
          /\ SubSeq(interrupts, k + 1, Len(interrupts)) \in Seq(Reqs)
      BY <1>0, <3>1
    <3>3. QED
      BY <3>2 DEF RemoveAt
  <2>5. interrupts # <<>> => Tail(interrupts) \in Seq(Reqs)
    BY <1>0
  <2>6. QED
    BY <1>0, <2>1, <2>2, <2>3, <2>4, <2>5
<1>2. ASSUME NEW w \in Workers, InterruptWaits(w)
      PROVE  list' \subseteq Reqs /\ interrupts' \in Seq(Reqs)
  <2>1. worker[w].msg \in Reqs
    BY <1>2, AtWork DEF InterruptWaits, WorkerAt
  <2>2. list' = list /\ interrupts' \in {interrupts, Append(interrupts, worker[w].msg)}
    BY <1>2 DEF InterruptWaits
  <2>3. QED
    BY <1>0, <2>1, <2>2
<1>3. ASSUME NEW r \in Reqs, FreeReq(r)
      PROVE  list' \subseteq Reqs /\ interrupts' \in Seq(Reqs)
  BY <1>0, <1>3 DEF FreeReq
<1>4. ASSUME UNCHANGED <<list, interrupts>>
      PROVE  list' \subseteq Reqs /\ interrupts' \in Seq(Reqs)
  BY <1>0, <1>4
<1>5. ASSUME NEW w \in Workers, WorkerStep(w), ~Accept(w), ~InterruptWaits(w)
      PROVE  UNCHANGED <<list, interrupts>>
  BY <1>5 DEF WorkerStep, InterruptFinds, InterruptLock, InterruptCall, InterruptUnlock,
              InterruptUnref, Again, HandToBackend, Decline, DoStatx, DoInit, DoDestroy, DoNotifyReply
<1>6. ASSUME NEW w \in Workers, Arrive(w)
      PROVE  UNCHANGED <<list, interrupts>>
  BY <1>6 DEF Arrive, ReceiveNoMemory, ReceiveRefused, Receive
<1>7. QED
  BY <1>1, <1>2, <1>3, <1>4, <1>5, <1>6, Zenon
  DEF Next, SetFunc, BackendFinishes, SetFuncDone, Reply, Retrieve, RetrieveSend, vars

-------------------------------------------------------------------------------
LEMMA InitInv ==
  ASSUME Init
  PROVE  IndInv
<1>1. \A r \in Reqs : req[r] = Unused
  BY DEF Init
<1>2. \A w \in Workers : worker[w] = Idle
  BY DEF Init
<1>3. TypeOK
  <2>1. Unused \in RequestType
    <3>1. 0 \in 0 .. 1 + Cardinality(Workers) /\ "none" \in Answers
      BY SessionAssumption, FS_CardinalityType DEF SessionAssumption, Answers
    <3>2. Nobody \in Workers \cup {Nobody, "backend"}
      OBVIOUS
    <3>3. QED
      BY <3>1, <3>2 DEF Unused, RequestType
  <2>2. Idle \in WorkerType
    BY DEF Idle, WorkerType
  <2>3. req \in [Reqs -> RequestType] /\ worker \in [Workers -> WorkerType]
    BY <2>1, <2>2 DEF Init
  <2>4. /\ list \subseteq Reqs /\ interrupts \in Seq(Reqs)
        /\ notify \in [Retrieves -> {"none", "listed", "sent", "replied", "failed"}]
    BY DEF Init
  <2>5. gotInit \in BOOLEAN /\ noInterrupt \in BOOLEAN
    BY Zenon DEF Init
  <2>6. QED
    BY <2>3, <2>4, <2>5, Zenon DEF TypeOK
<1>4. \A r \in Reqs : /\ Op(r) = "unused" /\ Step(r) = "unused" /\ ~req[r].interrupted
                      /\ req[r].lock = Nobody /\ req[r].answer = "none" /\ req[r].refs = 0
                      /\ req[r].mem = "none" /\ req[r].func = "none"
  BY <1>1 DEF Unused, Op, Step
<1>5. \A w \in Workers : WorkerAt(w) = "idle" /\ worker[w].msg = NoArg /\ worker[w].curr = NoArg
  BY <1>2 DEF Idle, WorkerAt
<1>6. list = {} /\ Len(interrupts) = 0
  BY DEF Init
<1>7. WorkerInv /\ LockInv /\ OffInv
  <2>1. ~noInterrupt
    BY DEF Init
  <2>2. QED
    BY <1>5, <2>1 DEF WorkerInv, LockInv, OffInv, Holding
<1>8. ListInv
  BY <1>6 DEF ListInv
<1>9. MessageInv
  BY <1>4 DEF MessageInv, Nobody
<1>10. CallbackNotLost /\ CallbackQuiet /\ InterruptNotLost
  BY <1>4, <1>5 DEF CallbackNotLost, CallbackQuiet, InterruptNotLost, Op, Step, WorkerAt
<1>11. RefsExact
  <2>1. SUFFICES ASSUME NEW r \in Reqs PROVE Counted(r)
    BY <1>7, RefsForm
  <2>2. Interrupting(r) = {}
    BY <1>5 DEF Interrupting, WorkerAt
  <2>3. Count(r) = 0
    BY <2>2, FS_EmptySet, Zenon DEF Count
  <2>4. QED
    BY <1>4, <2>3 DEF Counted, Kept, Owned, Step
<1>12. QED
  BY <1>3, <1>7, <1>8, <1>9, <1>10, <1>11, Zenon DEF IndInv

(* The inductive invariant: what workers and backend do to requests keeps  *)
(* the two lists, the reference counts, the locks and the callbacks in     *)
(* step (fuse_lowlevel.c from fuse_session_process_buf_internal to         *)
(* fuse_free_req).                                                         *)
THEOREM Inductive == Spec => []IndInv
<1>1. Init => IndInv
  BY InitInv
<1>2. IndInv /\ [Next]_vars => IndInv'
  <2>1. SUFFICES ASSUME IndInv, [Next]_vars PROVE IndInv'
    OBVIOUS
  <2>2. Effect
    BY <2>1, NextEffect
  <2>3. TypeOK'
    BY <2>1, WorkerTypeStep, ReqTypeStep, SessionTypeStep, ListTypeStep, Zenon DEF TypeOK
  <2>4. WorkerInv' /\ ListInv' /\ MessageInv' /\ LockInv' /\ OffInv'
    BY <2>1, <2>2, WorkerStepInv, ListStep, MessageStep, LockStep, OffStep, Zenon
  <2>5. RefsExact' /\ CallbackNotLost' /\ CallbackQuiet' /\ InterruptNotLost'
    BY <2>1, <2>2, RefsStep, NotLostStep, QuietStep, InterruptStep, Zenon
  <2>6. QED
    BY <2>3, <2>4, <2>5, Zenon DEF IndInv
<1>3. QED
  BY <1>1, <1>2, PTL DEF Spec

(* Every reachable state is well typed; ref_cnt never passes one for the   *)
(* owner and one per worker (struct fuse_req, struct fuse_session).        *)
THEOREM TypeCorrect == Spec => []TypeOK
<1>1. IndInv => TypeOK
  BY Zenon DEF IndInv
<1>2. QED
  BY <1>1, Inductive, PTL

(* ref_cnt is exactly the owner's reference and one per worker that has    *)
(* dropped se->lock in find_interrupted: no request is freed twice, none   *)
(* leaks (fuse_free_req, destroy_req).                                     *)
THEOREM ReferencesExact == Spec => []RefsExact
<1>1. IndInv => RefsExact
  BY Zenon DEF IndInv
<1>2. QED
  BY <1>1, Inductive, PTL

(* Neither list, nor find_interrupted with se->lock dropped, nor           *)
(* check_interrupt, nor the backend reaches a freed request.               *)
THEOREM FreedNeverUsed == Spec => []NoUseAfterFree
<1>1. IndInv => NoUseAfterFree
  <2>1. SUFFICES ASSUME IndInv PROVE NoUseAfterFree
    OBVIOUS
  <2>2. /\ WorkerInv /\ ListInv /\ list \subseteq Reqs /\ interrupts \in Seq(Reqs)
        /\ \A r \in Reqs : Counted(r) /\ Count(r) \in Nat
    BY <2>1, RefsForm, CountFacts DEF IndInv, TypeOK
  <2>3. \A r \in Reqs : Kept(r) => req[r].mem = "live"
    BY <2>2 DEF Counted
  <2>4. \A r \in Reqs : Count(r) > 0 => req[r].mem = "live"
    BY <2>2 DEF Counted
  <2>5. ~noInterrupt => \A r \in list : req[r].mem = "live"
    BY <2>2, <2>3 DEF ListInv, Kept
  <2>6. ASSUME NEW i \in Range(interrupts)
        PROVE  req[i].mem = "live" /\ req[i].step = "pending"
    <3>1. PICK k \in 1 .. Len(interrupts) : i = interrupts[k]
      BY <2>2 DEF Range
    <3>2. i \in Reqs /\ Step(i) = "pending"
      BY <2>2, <3>1 DEF ListInv
    <3>3. QED
      BY <2>3, <3>2 DEF Kept, Step
  <2>7. ASSUME NEW w \in Workers, worker[w].curr # NoArg
        PROVE  req[worker[w].curr].mem = "live"
    <3>1. worker[w] \in WorkerType
      BY <2>1 DEF IndInv, TypeOK
    <3>2. WorkerAt(w) \in Holding \cup {"again"}
      BY <2>2, <2>7, <3>1 DEF WorkerInv, WorkerAt, WorkerType, Holding
    <3>3. CASE WorkerAt(w) = "again"
      BY <2>2, <2>3, <3>3 DEF WorkerInv, Kept
    <3>4. CASE WorkerAt(w) \in Holding
      <4>1. worker[w].curr \in Reqs
        BY <2>2, <3>4 DEF WorkerInv
      <4>2. w \in Interrupting(worker[w].curr)
        BY <3>4 DEF Interrupting, WorkerAt, Holding
      <4>3. Count(worker[w].curr) # 0
        BY <2>1, <4>1, <4>2, CountFacts, FS_EmptySet DEF Count
      <4>4. QED
        BY <2>2, <2>4, <4>1, <4>3
    <3>5. QED
      BY <3>2, <3>3, <3>4
  <2>8. \A r \in Reqs : Owned(r) => req[r].mem = "live"
    BY <2>3 DEF Kept
  <2>9. QED
    BY <2>5, <2>6, <2>7, <2>8 DEF NoUseAfterFree
<1>2. QED
  BY <1>1, Inductive, PTL

(* Whichever of fuse_req_interrupt_func and FUSE_INTERRUPT comes first,    *)
(* the callback of an interrupted request is called.                       *)
THEOREM CallbackReached == Spec => []CallbackNotLost
<1>1. IndInv => CallbackNotLost
  BY Zenon DEF IndInv
<1>2. QED
  BY <1>1, Inductive, PTL

(* Once fuse_req_interrupt_func(req, NULL) has returned the callback does  *)
(* not run for a request the backend still has.                            *)
THEOREM CallbackWithdrawn == Spec => []CallbackQuiet
<1>1. IndInv => CallbackQuiet
  BY Zenon DEF IndInv
<1>2. QED
  BY <1>1, Inductive, PTL

(* No INTERRUPT disappears: its target is marked, or another one for the   *)
(* same target waits or was put back (find_interrupted, check_interrupt).  *)
THEOREM InterruptKept == Spec => []InterruptNotLost
<1>1. IndInv => InterruptNotLost
  BY Zenon DEF IndInv
<1>2. QED
  BY <1>1, Inductive, PTL

===============================================================================
