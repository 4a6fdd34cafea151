--------------------------- MODULE UkfsBridgeProofs ---------------------------
(* Proofs about UkfsBridge, for any sets of threads and daemons, any       *)
(* number of requests, any backend and any failing allocations.            *)
EXTENDS UkfsBridge, FiniteSetTheorems, TLAPS

(* What the backend's reply functions can store is a reply, and a reply    *)
(* with data carries no error.                                             *)
LEMMA AnswersLemma ==
  ASSUME NEW o, NEW a \in Answers(o)
  PROVE  a \in Replies /\ (a.data # "null" => a.error = "none")
  BY DEF Answers, Payload, EmptyBuf, Err, Replies, Errors, DataKinds

(* What a caller makes of a reply is a result.                             *)
LEMMA KeptLemma ==
  ASSUME NEW o, NEW r \in Replies, NEW x \in Kept(o, r)
  PROVE  x \in Results
<1>1. Decode(o, r) \in Results
  BY DEF Decode, Results, Replies, Errors
<1>2. QED
  BY <1>1 DEF Kept, Results, Errors

(* The initial state satisfies the invariant.                              *)
LEMMA InitInv == Init => IndInv
<1> SUFFICES ASSUME Init PROVE IndInv
  OBVIOUS
<1>1. /\ nextUnique = 1 /\ heap = {} /\ lock = {} /\ count = 0
      /\ pc = [t \in Threads |-> "idle"]
      /\ cur = [t \in Threads |-> NoReq]
      /\ dpc = [d \in Daemons |-> "down"]
      /\ dreq = [d \in Daemons |-> NoReq]
      /\ done = [u \in Uniques |-> 0]
      /\ rstate = [u \in Uniques |-> "none"]
  BY DEF Init
<1>2. queue = <<>> /\ Len(queue) = 0 /\ queue \in Seq(Uniques)
  <2>1. queue = <<>>
    BY DEF Init
  <2>2. QED
    BY <2>1
<1>3. /\ ret = [t \in Threads |-> "none yet"]
      /\ op = [u \in Uniques |-> "nothing"]
      /\ reply = [u \in Uniques |-> Zeroed]
      /\ seen = [a \in Agents |-> <<>>]
  BY DEF Init
<1>4. TypeOK
  <2>1. nextUnique \in 1 .. MaxUnique + 1
    BY <1>1, BoundAssumption DEF BoundAssumption
  <2>2. Zeroed \in Replies
    BY DEF Zeroed, Replies, Errors, DataKinds
  <2>3. <<>> \in Seq(Uniques)
    OBVIOUS
  <2>4. "none yet" \in Results
    BY DEF Results
  <2>5. seen \in [Agents -> Seq(Uniques)]
    BY <1>3, <2>3
  <2>6. QED
    BY <1>1, <1>2, <1>3, <2>1, <2>2, <2>4, <2>5 DEF TypeOK
<1>5. MutexInv
  BY <1>1 DEF MutexInv
<1>6. CountInv
  <2>1. Tickets = {} /\ Pushers = {}
    BY <1>1 DEF Tickets, Pushers
  <2>2. QED
    BY <1>1, <1>2, <2>1, FS_EmptySet DEF CountInv
<1>7. CallerInv
  BY <1>1 DEF CallerInv, NoReq
<1>8. BufferInv /\ NoLeak
  BY <1>1 DEF BufferInv, NoLeak
<1>9. \A u \in Uniques : ~Queued(u) /\ ~Carried(u)
  BY <1>1, <1>2 DEF Queued, Carried
<1>10. FramesOutliveUse /\ SignalledOwned /\ ServedOnce
  BY <1>1, <1>2, <1>9 DEF FramesOutliveUse, SignalledOwned, ServedOnce
<1>11. QED
  BY <1>4, <1>5, <1>6, <1>7, <1>8, <1>10 DEF IndInv

(* The steps of the system, one by one.                                    *)
LEMMA NextCases ==
  ASSUME [Next]_vars
  PROVE  \/ \E t \in Threads :
              \/ NameAllocFails(t) \/ (\E o \in UkfsOpcodes : Begin(t, o))
              \/ PushLock(t) \/ PushInsert(t) \/ PushUp(t) \/ Wake(t)
         \/ \E d \in Daemons :
              \/ PopDown(d) \/ PopLock(d) \/ PopRemove(d) \/ DispatchUnknown(d)
              \/ Dispatch(d) \/ DispatchAllocFails(d) \/ HandlerReturns(d)
         \/ \E u \in Uniques : ReplyFill(u) \/ ReplyDone(u) \/ ReplyUnadapted(u)
         \/ UNCHANGED vars
  BY DEF Next, ThreadStep, DaemonStep, BackendStep, Quiescent

(* Types are kept.  The request a thread links is a request because the    *)
(* thread is in a call (CallerInv).                                        *)
LEMMA TypeStep == IndInv /\ [Next]_vars => TypeOK'
<1> SUFFICES ASSUME IndInv, [Next]_vars PROVE TypeOK'
  OBVIOUS
<1>0. TypeOK /\ CallerInv
  BY DEF IndInv
<1> USE <1>0, BoundAssumption
    DEF BoundAssumption, TypeOK, Uniques, NoReq, Agents, callerVars, queueVars, daemonVars, replyVars
<1>1. ASSUME NEW t \in Threads, NameAllocFails(t) PROVE TypeOK'
  BY <1>1 DEF NameAllocFails, Results, Errors
<1>2. ASSUME NEW t \in Threads, NEW o \in UkfsOpcodes, Begin(t, o) PROVE TypeOK'
  <2>1. nextUnique' \in 1 .. MaxUnique + 1 /\ nextUnique \in Uniques
    BY <1>2 DEF Begin
  <2>2. Zeroed \in Replies
    BY DEF Zeroed, Replies, Errors, DataKinds
  <2>3. heap' \subseteq {"name", "reply"} \X Uniques
    BY <1>2 DEF Begin
  <2>4. QED
    BY <1>2, <2>1, <2>2, <2>3 DEF Begin
<1>3. ASSUME NEW t \in Threads, PushLock(t) PROVE TypeOK'
  BY <1>3 DEF PushLock, Acquire
<1>4. ASSUME NEW t \in Threads, PushInsert(t) PROVE TypeOK'
  <2>1. cur[t] \in Uniques
    BY <1>4 DEF PushInsert, CallerInv
  <2>2. QED
    BY <1>4, <2>1 DEF PushInsert, Release
<1>5. ASSUME NEW t \in Threads, PushUp(t) PROVE TypeOK'
  BY <1>5 DEF PushUp
<1>6. ASSUME NEW t \in Threads, Wake(t) PROVE TypeOK'
  <2>1. cur[t] \in Uniques
    BY <1>6 DEF Wake, CallerInv
  <2>2. PICK r \in Kept(op[cur[t]], reply[cur[t]]) : ret' = [ret EXCEPT ![t] = r]
    BY <1>6 DEF Wake
  <2>3. r \in Results
    BY <2>1, <2>2, KeptLemma
  <2>4. done' \in [Uniques -> Nat]
    BY <1>6, <2>1 DEF Wake
  <2>5. QED
    BY <1>6, <2>2, <2>3, <2>4 DEF Wake
<1>7. ASSUME NEW d \in Daemons, PopDown(d) PROVE TypeOK'
  BY <1>7 DEF PopDown
<1>8. ASSUME NEW d \in Daemons, PopLock(d) PROVE TypeOK'
  BY <1>8 DEF PopLock, Acquire
<1>9. ASSUME NEW d \in Daemons, PopRemove(d) PROVE TypeOK'
  <2>1. seen[d] \in Seq(Uniques) /\ seen[d] # <<>>
    BY <1>9 DEF PopRemove
  <2>2. Head(seen[d]) \in Uniques /\ Tail(seen[d]) \in Seq(Uniques)
    BY <2>1
  <2>3. QED
    BY <1>9, <2>2 DEF PopRemove, Release
<1>10. ASSUME NEW d \in Daemons, DispatchUnknown(d) PROVE TypeOK'
  <2>1. Err("ENOSYS") \in Replies
    BY DEF Err, Replies, Errors, DataKinds
  <2>2. reply' \in [Uniques -> Replies]
    BY <1>10, <2>1 DEF DispatchUnknown
  <2>3. done' = [done EXCEPT ![dreq[d]] = @ + 1]
    BY <1>10 DEF DispatchUnknown
  <2>4. done' \in [Uniques -> Nat]
    <3>1. CASE dreq[d] \in Uniques
      BY <2>3, <3>1
    <3>2. CASE dreq[d] \notin Uniques
      <4>1. done' = done
        BY <2>3, <3>2
      <4>2. QED
        BY <4>1
    <3>3. QED
      BY <3>1, <3>2
  <2>5. QED
    BY <1>10, <2>2, <2>4 DEF DispatchUnknown
<1>11. ASSUME NEW d \in Daemons, Dispatch(d) PROVE TypeOK'
  BY <1>11 DEF Dispatch
<1>12. ASSUME NEW d \in Daemons, DispatchAllocFails(d) PROVE TypeOK'
  BY <1>12 DEF DispatchAllocFails
<1>13. ASSUME NEW d \in Daemons, HandlerReturns(d) PROVE TypeOK'
  BY <1>13 DEF HandlerReturns
<1>14. ASSUME NEW u \in Uniques, ReplyFill(u) PROVE TypeOK'
  <2>1. PICK a \in Answers(op[u]) :
          /\ reply' = [reply EXCEPT ![u] = a]
          /\ heap' = heap \cup {<<"reply", v>> : v \in {w \in {u} : a.data # "null"}}
    BY <1>14 DEF ReplyFill
  <2>2. a \in Replies
    BY AnswersLemma
  <2>3. heap' \subseteq {"name", "reply"} \X Uniques
    BY <2>1
  <2>4. QED
    BY <1>14, <2>1, <2>2, <2>3 DEF ReplyFill
<1>15. ASSUME NEW u \in Uniques, ReplyDone(u) PROVE TypeOK'
  BY <1>15 DEF ReplyDone
<1>16. ASSUME NEW u \in Uniques, ReplyUnadapted(u) PROVE TypeOK'
  BY <1>16 DEF ReplyUnadapted
<1>17. ASSUME UNCHANGED vars PROVE TypeOK'
  BY <1>17 DEF vars
<1>18. QED
  BY <1>1, <1>2, <1>3, <1>4, <1>5, <1>6, <1>7, <1>8, <1>9, <1>10, <1>11, <1>12,
     <1>13, <1>14, <1>15, <1>16, <1>17, NextCases

(* The mutex excludes, and the list does not change under its holder.      *)
LEMMA MutexStep == IndInv /\ [Next]_vars => MutexInv'
<1> SUFFICES ASSUME IndInv, [Next]_vars PROVE MutexInv'
  OBVIOUS
<1>0. TypeOK /\ MutexInv /\ Threads \cap Daemons = {}
  BY ThreadsAssumption DEF IndInv, ThreadsAssumption
<1> USE <1>0 DEF TypeOK, MutexInv, Agents, callerVars, queueVars, daemonVars, replyVars
<1>1. ASSUME NEW t \in Threads, NameAllocFails(t) PROVE MutexInv'
  BY <1>1 DEF NameAllocFails
<1>2. ASSUME NEW t \in Threads, NEW o \in UkfsOpcodes, Begin(t, o) PROVE MutexInv'
  BY <1>2 DEF Begin
<1>3. ASSUME NEW t \in Threads, PushLock(t) PROVE MutexInv'
  BY <1>3 DEF PushLock, Acquire
<1>4. ASSUME NEW t \in Threads, PushInsert(t) PROVE MutexInv'
  <2>1. lock = {t} /\ lock' = {}
    BY <1>4 DEF PushInsert, Release
  <2>2. QED
    BY <1>4, <2>1 DEF PushInsert
<1>5. ASSUME NEW t \in Threads, PushUp(t) PROVE MutexInv'
  BY <1>5 DEF PushUp
<1>6. ASSUME NEW t \in Threads, Wake(t) PROVE MutexInv'
  BY <1>6 DEF Wake
<1>7. ASSUME NEW d \in Daemons, PopDown(d) PROVE MutexInv'
  BY <1>7 DEF PopDown
<1>8. ASSUME NEW d \in Daemons, PopLock(d) PROVE MutexInv'
  BY <1>8 DEF PopLock, Acquire
<1>9. ASSUME NEW d \in Daemons, PopRemove(d) PROVE MutexInv'
  <2>1. lock = {d} /\ lock' = {}
    BY <1>9 DEF PopRemove, Release
  <2>2. QED
    BY <1>9, <2>1 DEF PopRemove
<1>10. ASSUME NEW d \in Daemons, DispatchUnknown(d) PROVE MutexInv'
  BY <1>10 DEF DispatchUnknown
<1>11. ASSUME NEW d \in Daemons, Dispatch(d) PROVE MutexInv'
  BY <1>11 DEF Dispatch
<1>12. ASSUME NEW d \in Daemons, DispatchAllocFails(d) PROVE MutexInv'
  BY <1>12 DEF DispatchAllocFails
<1>13. ASSUME NEW d \in Daemons, HandlerReturns(d) PROVE MutexInv'
  BY <1>13 DEF HandlerReturns
<1>14. ASSUME NEW u \in Uniques, ReplyFill(u) \/ ReplyDone(u) \/ ReplyUnadapted(u)
       PROVE  MutexInv'
  BY <1>14 DEF ReplyFill, ReplyDone, ReplyUnadapted
<1>15. ASSUME UNCHANGED vars PROVE MutexInv'
  BY <1>15 DEF vars
<1>16. QED
  BY <1>1, <1>2, <1>3, <1>4, <1>5, <1>6, <1>7, <1>8, <1>9, <1>10, <1>11, <1>12,
     <1>13, <1>14, <1>15, NextCases

(* Each step that changes one side of the semaphore's equation changes the *)
(* other by as much.                                                       *)
LEMMA CountStep == IndInv /\ [Next]_vars => CountInv'
<1> SUFFICES ASSUME IndInv, [Next]_vars PROVE CountInv'
  OBVIOUS
<1>0. TypeOK /\ MutexInv /\ CountInv /\ CallerInv
  BY DEF IndInv
<1>a. IsFiniteSet(Tickets) /\ IsFiniteSet(Pushers)
  BY ThreadsAssumption, FS_Subset DEF ThreadsAssumption, Tickets, Pushers
<1>b. Cardinality(Tickets) \in Nat /\ Cardinality(Pushers) \in Nat
  BY <1>a, FS_CardinalityType
<1>c. ASSUME UNCHANGED <<queue, count>>, Tickets' = Tickets, Pushers' = Pushers
      PROVE  CountInv'
  BY <1>0, <1>c DEF CountInv
<1> USE <1>0 DEF TypeOK, callerVars, queueVars, daemonVars, replyVars
<1>1. ASSUME NEW t \in Threads, NameAllocFails(t) PROVE CountInv'
  BY <1>1, <1>c DEF NameAllocFails, Tickets, Pushers
<1>2. ASSUME NEW t \in Threads, NEW o \in UkfsOpcodes, Begin(t, o) PROVE CountInv'
  BY <1>2, <1>c DEF Begin, Tickets, Pushers
<1>3. ASSUME NEW t \in Threads, PushLock(t) PROVE CountInv'
  BY <1>3, <1>c DEF PushLock, Tickets, Pushers
<1>4. ASSUME NEW t \in Threads, PushInsert(t) PROVE CountInv'
  <2>1. Tickets' = Tickets /\ count' = count
    BY <1>4 DEF PushInsert, Tickets
  <2>2. Pushers' = Pushers \cup {t} /\ t \notin Pushers
    BY <1>4 DEF PushInsert, Pushers
  <2>3. Cardinality(Pushers') = Cardinality(Pushers) + 1
    BY <1>a, <2>2, FS_AddElement
  <2>4. cur[t] \in Uniques /\ queue' = Append(queue, cur[t])
    BY <1>4 DEF PushInsert, MutexInv, CallerInv
  <2>5. Len(queue') = Len(queue) + 1
    BY <2>4
  <2>6. QED
    BY <1>b, <2>1, <2>3, <2>5 DEF CountInv
<1>5. ASSUME NEW t \in Threads, PushUp(t) PROVE CountInv'
  <2>1. Tickets' = Tickets /\ count' = count + 1 /\ queue' = queue
    BY <1>5 DEF PushUp, Tickets
  <2>2. Pushers' = Pushers \ {t} /\ t \in Pushers
    BY <1>5 DEF PushUp, Pushers
  <2>3. Cardinality(Pushers') = Cardinality(Pushers) - 1
    BY <1>a, <2>2, FS_RemoveElement
  <2>4. QED
    BY <1>b, <2>1, <2>3 DEF CountInv
<1>6. ASSUME NEW t \in Threads, Wake(t) PROVE CountInv'
  BY <1>6, <1>c DEF Wake, Tickets, Pushers
<1>7. ASSUME NEW d \in Daemons, PopDown(d) PROVE CountInv'
  <2>1. Pushers' = Pushers /\ count' = count - 1 /\ queue' = queue
    BY <1>7 DEF PopDown, Pushers
  <2>2. Tickets' = Tickets \cup {d} /\ d \notin Tickets
    BY <1>7 DEF PopDown, Tickets
  <2>3. Cardinality(Tickets') = Cardinality(Tickets) + 1
    BY <1>a, <2>2, FS_AddElement
  <2>4. QED
    BY <1>b, <2>1, <2>3 DEF CountInv
<1>8. ASSUME NEW d \in Daemons, PopLock(d) PROVE CountInv'
  <2>1. Tickets' = Tickets /\ Pushers' = Pushers
    BY <1>8 DEF PopLock, Tickets, Pushers
  <2>2. QED
    BY <1>8, <1>c, <2>1 DEF PopLock
<1>9. ASSUME NEW d \in Daemons, PopRemove(d) PROVE CountInv'
  <2>1. Pushers' = Pushers /\ count' = count
    BY <1>9 DEF PopRemove, Pushers
  <2>2. Tickets' = Tickets \ {d} /\ d \in Tickets
    BY <1>9 DEF PopRemove, Tickets
  <2>3. Cardinality(Tickets') = Cardinality(Tickets) - 1
    BY <1>a, <2>2, FS_RemoveElement
  <2>4. queue # <<>> /\ queue' = Tail(queue)
    BY <1>9 DEF PopRemove, MutexInv
  <2>5. Len(queue') = Len(queue) - 1
    BY <2>4
  <2>6. QED
    BY <1>b, <2>1, <2>3, <2>5 DEF CountInv
<1>10. ASSUME NEW d \in Daemons,
              DispatchUnknown(d) \/ Dispatch(d) \/ DispatchAllocFails(d) \/ HandlerReturns(d)
       PROVE  CountInv'
  BY <1>10, <1>c DEF DispatchUnknown, Dispatch, DispatchAllocFails, HandlerReturns, Tickets, Pushers
<1>11. ASSUME NEW u \in Uniques, ReplyFill(u) \/ ReplyDone(u) \/ ReplyUnadapted(u)
       PROVE  CountInv'
  BY <1>11, <1>c DEF ReplyFill, ReplyDone, ReplyUnadapted, Tickets, Pushers
<1>12. ASSUME UNCHANGED vars PROVE CountInv'
  BY <1>12, <1>c DEF vars, Tickets, Pushers
<1>13. QED
  BY <1>1, <1>2, <1>3, <1>4, <1>5, <1>6, <1>7, <1>8, <1>9, <1>10, <1>11, <1>12,
     NextCases

(* Requests are numbered upwards and leave the stack with their call.      *)
LEMMA CallerStep == IndInv /\ [Next]_vars => CallerInv'
<1> SUFFICES ASSUME IndInv, [Next]_vars PROVE CallerInv'
  OBVIOUS
<1>0. TypeOK /\ CallerInv
  BY DEF IndInv
<1> USE <1>0, BoundAssumption
    DEF BoundAssumption, TypeOK, CallerInv, Uniques, NoReq, callerVars, queueVars, daemonVars, replyVars
<1>1. ASSUME NEW t \in Threads, NameAllocFails(t) PROVE CallerInv'
  BY <1>1 DEF NameAllocFails
<1>2. ASSUME NEW t \in Threads, NEW o \in UkfsOpcodes, Begin(t, o) PROVE CallerInv'
  <2>1. /\ pc' = [pc EXCEPT ![t] = "lock"]
        /\ cur' = [cur EXCEPT ![t] = nextUnique]
        /\ nextUnique' = nextUnique + 1 /\ nextUnique \in Nat \ {0}
    BY <1>2 DEF Begin
  <2>2. QED
    BY <2>1
<1>3. ASSUME NEW t \in Threads, PushLock(t) PROVE CallerInv'
  BY <1>3 DEF PushLock
<1>4. ASSUME NEW t \in Threads, PushInsert(t) PROVE CallerInv'
  BY <1>4 DEF PushInsert
<1>5. ASSUME NEW t \in Threads, PushUp(t) PROVE CallerInv'
  BY <1>5 DEF PushUp
<1>6. ASSUME NEW t \in Threads, Wake(t) PROVE CallerInv'
  <2>1. /\ pc' = [pc EXCEPT ![t] = "idle"]
        /\ cur' = [cur EXCEPT ![t] = NoReq]
        /\ nextUnique' = nextUnique
    BY <1>6 DEF Wake
  <2>2. QED
    BY <2>1
<1>7. ASSUME NEW d \in Daemons,
             \/ PopDown(d) \/ PopLock(d) \/ PopRemove(d) \/ DispatchUnknown(d)
             \/ Dispatch(d) \/ DispatchAllocFails(d) \/ HandlerReturns(d)
      PROVE  CallerInv'
  BY <1>7 DEF PopDown, PopLock, PopRemove, DispatchUnknown, Dispatch, DispatchAllocFails, HandlerReturns
<1>8. ASSUME NEW u \in Uniques, ReplyFill(u) \/ ReplyDone(u) \/ ReplyUnadapted(u)
      PROVE  CallerInv'
  BY <1>8 DEF ReplyFill, ReplyDone, ReplyUnadapted
<1>9. ASSUME UNCHANGED vars PROVE CallerInv'
  BY <1>9 DEF vars
<1>10. QED
  BY <1>1, <1>2, <1>3, <1>4, <1>5, <1>6, <1>7, <1>8, <1>9, NextCases

(* Linking a new element at the tail of a list without duplicates.         *)
LEMMA AppendLemma ==
  ASSUME NEW S, NEW q \in Seq(S), NEW x \in S
  PROVE  /\ \A v : (\E i \in 1 .. Len(Append(q, x)) : Append(q, x)[i] = v)
                   <=> (\E i \in 1 .. Len(q) : q[i] = v) \/ v = x
         /\ (\A i \in 1 .. Len(q) : q[i] # x) /\ (\A i, j \in 1 .. Len(q) : q[i] = q[j] => i = j)
              => \A i, j \in 1 .. Len(Append(q, x)) : Append(q, x)[i] = Append(q, x)[j] => i = j
<1> DEFINE a == Append(q, x)
<1>1. /\ Len(q) \in Nat /\ Len(a) = Len(q) + 1
      /\ \A i \in 1 .. Len(q) : a[i] = q[i]
      /\ a[Len(q) + 1] = x
  OBVIOUS
<1> HIDE DEF a
<1>2. ASSUME NEW v, NEW i \in 1 .. Len(a), a[i] = v
      PROVE  (\E k \in 1 .. Len(q) : q[k] = v) \/ v = x
  <2>1. CASE i \in 1 .. Len(q)
    BY <1>1, <1>2, <2>1
  <2>2. CASE i = Len(q) + 1
    BY <1>1, <1>2, <2>2
  <2>3. QED
    BY <1>1, <2>1, <2>2
<1>3. ASSUME NEW v, NEW k \in 1 .. Len(q), q[k] = v
      PROVE  \E i \in 1 .. Len(a) : a[i] = v
  <2>1. k \in 1 .. Len(a) /\ a[k] = v
    BY <1>1, <1>3
  <2>2. QED
    BY <2>1
<1>4. \E i \in 1 .. Len(a) : a[i] = x
  <2>1. Len(q) + 1 \in 1 .. Len(a)
    BY <1>1
  <2>2. QED
    BY <1>1, <2>1
<1>5. ASSUME \A i \in 1 .. Len(q) : q[i] # x,
             \A i, j \in 1 .. Len(q) : q[i] = q[j] => i = j,
             NEW i \in 1 .. Len(a), NEW j \in 1 .. Len(a), a[i] = a[j]
      PROVE  i = j
  <2>1. i \in 1 .. Len(q) \/ i = Len(q) + 1
    BY <1>1
  <2>2. j \in 1 .. Len(q) \/ j = Len(q) + 1
    BY <1>1
  <2>3. QED
    BY <1>1, <1>5, <2>1, <2>2
<1>6. QED
  BY <1>2, <1>3, <1>4, <1>5 DEF a

(* Unlinking the head of a list without duplicates.                        *)
LEMMA TailLemma ==
  ASSUME NEW S, NEW q \in Seq(S), q # <<>>,
         \A i, j \in 1 .. Len(q) : q[i] = q[j] => i = j
  PROVE  /\ Head(q) \in S
         /\ \E i \in 1 .. Len(q) : q[i] = Head(q)
         /\ \A v : (\E i \in 1 .. Len(Tail(q)) : Tail(q)[i] = v)
                   <=> (\E i \in 1 .. Len(q) : q[i] = v) /\ v # Head(q)
         /\ \A i, j \in 1 .. Len(Tail(q)) : Tail(q)[i] = Tail(q)[j] => i = j
<1> DEFINE b == Tail(q)
           h == Head(q)
<1>1. /\ Len(q) \in Nat /\ Len(q) >= 1 /\ Len(b) = Len(q) - 1
      /\ \A i \in 1 .. Len(b) : b[i] = q[i + 1]
      /\ h = q[1] /\ h \in S
  OBVIOUS
<1> HIDE DEF b, h
<1>2. 1 \in 1 .. Len(q) /\ \A i \in 1 .. Len(b) : i + 1 \in 1 .. Len(q) /\ i + 1 # 1
  BY <1>1
<1>3. ASSUME NEW v, NEW i \in 1 .. Len(b), b[i] = v
      PROVE  (\E k \in 1 .. Len(q) : q[k] = v) /\ v # h
  <2>1. q[i + 1] = v
    BY <1>1, <1>3
  <2>2. v # h
    BY <1>1, <1>2, <2>1
  <2>3. QED
    BY <1>2, <2>1, <2>2
<1>4. ASSUME NEW v, NEW k \in 1 .. Len(q), q[k] = v, v # h
      PROVE  \E i \in 1 .. Len(b) : b[i] = v
  <2>1. k - 1 \in 1 .. Len(b) /\ (k - 1) + 1 = k
    BY <1>1, <1>4
  <2>2. b[k - 1] = v
    BY <1>1, <1>4, <2>1
  <2>3. QED
    BY <2>1, <2>2
<1>5. ASSUME NEW i \in 1 .. Len(b), NEW j \in 1 .. Len(b), b[i] = b[j]
      PROVE  i = j
  <2>1. q[i + 1] = q[j + 1]
    BY <1>1, <1>5
  <2>2. i + 1 = j + 1
    BY <1>2, <2>1
  <2>3. QED
    BY <1>1, <2>2
<1>6. QED
  BY <1>1, <1>2, <1>3, <1>4, <1>5 DEF b, h

(* The conjuncts about where a request is.                                 *)
PlaceInv == FramesOutliveUse /\ SignalledOwned /\ ServedOnce

(* A request moves along its way and leaves no pointer behind: the steps   *)
(* that matter are PushInsert (thread to list), PopRemove (list to daemon),*)
(* Dispatch (daemon to libfuse), ReplyDone and DispatchUnknown (to the     *)
(* semaphore) and Wake, which ends the frame.                              *)
LEMMA PlaceStep == IndInv /\ [Next]_vars => PlaceInv'
<1> SUFFICES ASSUME IndInv, [Next]_vars PROVE PlaceInv'
  OBVIOUS
<1>0. TypeOK /\ MutexInv /\ CallerInv /\ PlaceInv
  BY DEF IndInv, PlaceInv
<1>q. queue \in Seq(Uniques) /\ Len(queue) \in Nat
  BY <1>0 DEF TypeOK
(* A step that moves no request and ends no frame.                         *)
<1>s. ASSUME \A u \in Uniques : Owned(u) => Owned(u)',
             UNCHANGED <<queue, rstate>>,
             \A u \in Uniques : done'[u] = done[u],
             \A d \in Daemons : dpc'[d] = "fill" => dpc[d] = "fill" /\ dreq'[d] = dreq[d]
      PROVE  PlaceInv'
  BY <1>0, <1>s DEF PlaceInv, FramesOutliveUse, SignalledOwned, ServedOnce, Queued, Carried
<1> USE <1>0 DEF TypeOK, callerVars, queueVars, daemonVars, replyVars
<1>1. ASSUME NEW t \in Threads, NameAllocFails(t) PROVE PlaceInv'
  BY <1>1, <1>s DEF NameAllocFails, Owned
<1>2. ASSUME NEW t \in Threads, NEW o \in UkfsOpcodes, Begin(t, o) PROVE PlaceInv'
  <2>1. \A u \in Uniques : Owned(u) => Owned(u)'
    BY <1>2 DEF Begin, Owned
  <2>2. /\ nextUnique \in Uniques /\ ~Owned(nextUnique)
        /\ UNCHANGED <<queue, rstate, dpc, dreq>>
        /\ done' = [done EXCEPT ![nextUnique] = 0]
    BY <1>2 DEF Begin, Owned, CallerInv, Uniques
  <2>3. \A u \in Uniques : done'[u] = done[u]
    BY <2>2 DEF PlaceInv, SignalledOwned
  <2>4. QED
    BY <1>s, <2>1, <2>2, <2>3
<1>3. ASSUME NEW t \in Threads, PushLock(t) PROVE PlaceInv'
  <2>1. \A u \in Uniques : Owned(u) => Owned(u)'
    BY <1>3 DEF PushLock, Owned
  <2>2. QED
    BY <1>3, <1>s, <2>1 DEF PushLock
<1>4. ASSUME NEW t \in Threads, PushInsert(t) PROVE PlaceInv'
  <2> DEFINE u == cur[t]
  <2>1. /\ u \in Uniques /\ u # NoReq
        /\ queue' = Append(queue, u)
        /\ UNCHANGED <<rstate, done, dpc, dreq>>
    BY <1>4 DEF PushInsert, MutexInv, CallerInv
  <2>2. ~Owned(u)
    BY <1>4, <2>1 DEF PushInsert, Owned, CallerInv
  <2>3. ~Queued(u) /\ ~Carried(u) /\ rstate[u] = "none" /\ ~(done[u] > 0)
    BY <2>1, <2>2 DEF PlaceInv, FramesOutliveUse, SignalledOwned
  <2>4. \A v \in Uniques : v = u \/ Owned(v) => Owned(v)'
    BY <1>4 DEF PushInsert, Owned
  <2>5. \A v \in Uniques : Carried(v)' <=> Carried(v)
    BY <2>1 DEF Carried
  <2> HIDE DEF u
  <2>7. \A v \in Uniques : Queued(v)' <=> Queued(v) \/ v = u
    BY <1>q, <2>1, AppendLemma DEF Queued
  <2>8. \A i, j \in 1 .. Len(queue') : queue'[i] = queue'[j] => i = j
    <3>1. /\ \A i, j \in 1 .. Len(queue) : queue[i] = queue[j] => i = j
          /\ \A i \in 1 .. Len(queue) : queue[i] # u
      BY <2>3 DEF PlaceInv, ServedOnce, Queued
    <3>2. QED
      BY <1>q, <2>1, <3>1, AppendLemma
  <2>9. FramesOutliveUse'
    <3>1. FramesOutliveUse
      BY DEF PlaceInv
    <3>2. rstate' = rstate
      BY <2>1
    <3>3. ASSUME NEW v \in Uniques, Queued(v)' \/ Carried(v)' \/ rstate'[v] # "none"
          PROVE  Owned(v)'
      <4>1. v = u \/ Queued(v) \/ Carried(v) \/ rstate[v] # "none"
        BY <2>5, <2>7, <3>2, <3>3
      <4>2. v = u \/ Owned(v)
        BY <3>1, <4>1 DEF FramesOutliveUse
      <4>3. QED
        BY <2>4, <4>2
    <3>4. QED
      BY <3>3 DEF FramesOutliveUse
  <2>10. SignalledOwned'
    BY <2>1, <2>4 DEF PlaceInv, SignalledOwned
  <2>11. ServedOnce'
    BY <2>1, <2>3, <2>5, <2>7, <2>8 DEF PlaceInv, ServedOnce
  <2>12. QED
    BY <2>9, <2>10, <2>11 DEF PlaceInv
<1>5. ASSUME NEW t \in Threads, PushUp(t) PROVE PlaceInv'
  <2>1. \A u \in Uniques : Owned(u) => Owned(u)'
    BY <1>5 DEF PushUp, Owned
  <2>2. QED
    BY <1>5, <1>s, <2>1 DEF PushUp
<1>6. ASSUME NEW t \in Threads, Wake(t) PROVE PlaceInv'
  <2> DEFINE u == cur[t]
  <2>1. /\ u \in Uniques /\ u # NoReq /\ done[u] > 0
        /\ done' = [done EXCEPT ![u] = @ - 1]
        /\ UNCHANGED <<queue, rstate, dpc, dreq>>
    BY <1>6 DEF Wake, CallerInv
  <2>2. done[u] = 1 /\ rstate[u] = "none" /\ ~Queued(u) /\ ~Carried(u)
    BY <2>1 DEF PlaceInv, ServedOnce
  <2>3. \A v \in Uniques : v # u /\ Owned(v) => Owned(v)'
    BY <1>6 DEF Wake, Owned
  <2>4. \A v \in Uniques : (Carried(v)' <=> Carried(v)) /\ (Queued(v)' <=> Queued(v))
    BY <2>1 DEF Carried, Queued
  <2>5. done'[u] = 0 /\ \A v \in Uniques : v # u => done'[v] = done[v]
    BY <2>1, <2>2
  <2> HIDE DEF u
  <2>6. FramesOutliveUse'
    BY <2>1, <2>2, <2>3, <2>4 DEF PlaceInv, FramesOutliveUse
  <2>7. SignalledOwned'
    <3>1. SignalledOwned
      BY DEF PlaceInv
    <3>2. \A v \in Uniques : done'[v] > 0 => v # u /\ done[v] > 0
      BY <2>1, <2>5
    <3>3. QED
      BY <2>3, <3>1, <3>2 DEF SignalledOwned
  <2>8. ServedOnce'
    BY <2>1, <2>4, <2>5 DEF PlaceInv, ServedOnce
  <2>9. QED
    BY <2>6, <2>7, <2>8 DEF PlaceInv
<1>7. ASSUME NEW d \in Daemons, PopDown(d) PROVE PlaceInv'
  BY <1>7, <1>s DEF PopDown, Owned
<1>8. ASSUME NEW d \in Daemons, PopLock(d) PROVE PlaceInv'
  BY <1>8, <1>s DEF PopLock, Owned
<1>9. ASSUME NEW d \in Daemons, PopRemove(d) PROVE PlaceInv'
  <2> DEFINE u == Head(queue)
  <2>1. queue # <<>> /\ queue' = Tail(queue)
    BY <1>9 DEF PopRemove, MutexInv
  <2>2. \A i, j \in 1 .. Len(queue) : queue[i] = queue[j] => i = j
    BY DEF PlaceInv, ServedOnce
  <2>3. /\ dreq' = [dreq EXCEPT ![d] = u]
        /\ dpc' = [dpc EXCEPT ![d] = "fill"] /\ dpc[d] # "fill"
        /\ UNCHANGED <<rstate, done, pc, cur>>
    BY <1>9 DEF PopRemove, MutexInv
  <2>4. u \in Uniques /\ Queued(u)
    BY <1>q, <2>1, <2>2, TailLemma DEF Queued
  <2>6. \A v \in Uniques : Queued(v)' <=> Queued(v) /\ v # u
    BY <1>q, <2>1, <2>2, TailLemma DEF Queued
  <2>7. \A i, j \in 1 .. Len(queue') : queue'[i] = queue'[j] => i = j
    BY <1>q, <2>1, <2>2, TailLemma
  <2> HIDE DEF u
  <2>5. \A v \in Uniques : Carried(v)' <=> Carried(v) \/ v = u
    BY <2>3 DEF Carried
  <2>8. \A v \in Uniques : Owned(v)' <=> Owned(v)
    BY <2>3 DEF Owned
  <2>9. FramesOutliveUse'
    BY <2>3, <2>4, <2>5, <2>6, <2>8 DEF PlaceInv, FramesOutliveUse
  <2>10. SignalledOwned'
    BY <2>3, <2>8 DEF PlaceInv, SignalledOwned
  <2>11. \A c, e \in Daemons :
            dpc'[c] = "fill" /\ dpc'[e] = "fill" /\ dreq'[c] = dreq'[e] => c = e
    <3>1. ~Carried(u)
      BY <2>4 DEF PlaceInv, ServedOnce
    <3>2. QED
      BY <2>3, <2>4, <3>1 DEF PlaceInv, ServedOnce, Carried
  <2>12. ServedOnce'
    BY <2>3, <2>4, <2>5, <2>6, <2>7, <2>11 DEF PlaceInv, ServedOnce
  <2>13. QED
    BY <2>9, <2>10, <2>12 DEF PlaceInv
<1>10. ASSUME NEW d \in Daemons, DispatchUnknown(d) PROVE PlaceInv'
  <2> DEFINE u == dreq[d]
  <2>1. /\ dpc[d] = "fill" /\ dpc' = [dpc EXCEPT ![d] = "down"]
        /\ dreq' = [dreq EXCEPT ![d] = NoReq]
        /\ done' = [done EXCEPT ![u] = @ + 1]
        /\ UNCHANGED <<queue, rstate, pc, cur>>
    BY <1>10 DEF DispatchUnknown
  <2>2. u \in Uniques => Carried(u) /\ rstate[u] = "none" /\ ~Queued(u) /\ ~(done[u] > 0)
    BY <2>1 DEF Carried, PlaceInv, ServedOnce
  <2>3. \A v \in Uniques : Carried(v)' => Carried(v) /\ v # u
    BY <2>1 DEF Carried, PlaceInv, ServedOnce
  <2>4. \A v \in Uniques : (Owned(v)' <=> Owned(v)) /\ (Queued(v)' <=> Queued(v))
    BY <2>1 DEF Owned, Queued
  <2>5. /\ u \in Uniques => done'[u] = 1
        /\ \A v \in Uniques : v # u => done'[v] = done[v]
    BY <2>1, <2>2
  <2>6. FramesOutliveUse'
    BY <2>1, <2>3, <2>4 DEF PlaceInv, FramesOutliveUse
  <2>7. SignalledOwned'
    BY <2>2, <2>4, <2>5 DEF PlaceInv, SignalledOwned, FramesOutliveUse
  <2>8. ServedOnce'
    BY <2>1, <2>2, <2>3, <2>4, <2>5 DEF PlaceInv, ServedOnce
  <2>9. QED
    BY <2>6, <2>7, <2>8 DEF PlaceInv
<1>11. ASSUME NEW d \in Daemons, Dispatch(d) PROVE PlaceInv'
  <2> DEFINE u == dreq[d]
  <2>1. /\ dpc[d] = "fill" /\ dpc' = [dpc EXCEPT ![d] = "inop"]
        /\ rstate' = [rstate EXCEPT ![u] = "held"]
        /\ UNCHANGED <<queue, done, dreq, pc, cur>>
    BY <1>11 DEF Dispatch
  <2>2. u \in Uniques => Carried(u) /\ ~Queued(u) /\ ~(done[u] > 0)
    BY <2>1 DEF Carried, PlaceInv, ServedOnce
  <2>3. \A v \in Uniques : Carried(v)' => Carried(v) /\ v # u
    BY <2>1 DEF Carried, PlaceInv, ServedOnce
  <2>4. \A v \in Uniques : (Owned(v)' <=> Owned(v)) /\ (Queued(v)' <=> Queued(v))
    BY <2>1 DEF Owned, Queued
  <2>5. \A v \in Uniques : v # u => rstate'[v] = rstate[v]
    BY <2>1
  <2>6. FramesOutliveUse'
    BY <2>2, <2>3, <2>4, <2>5 DEF PlaceInv, FramesOutliveUse
  <2>7. SignalledOwned'
    BY <2>1, <2>4 DEF PlaceInv, SignalledOwned
  <2>8. ServedOnce'
    BY <2>1, <2>2, <2>3, <2>4, <2>5 DEF PlaceInv, ServedOnce
  <2>9. QED
    BY <2>6, <2>7, <2>8 DEF PlaceInv
<1>12. ASSUME NEW d \in Daemons, DispatchAllocFails(d) \/ HandlerReturns(d) PROVE PlaceInv'
  <2>1. \A c \in Daemons : dpc'[c] = "fill" => dpc[c] = "fill" /\ dreq'[c] = dreq[c]
    BY <1>12 DEF DispatchAllocFails, HandlerReturns
  <2>2. QED
    BY <1>12, <1>s, <2>1 DEF DispatchAllocFails, HandlerReturns, Owned
<1>13. ASSUME NEW u \in Uniques, ReplyFill(u) PROVE PlaceInv'
  <2>1. /\ rstate[u] = "held" /\ rstate' = [rstate EXCEPT ![u] = "filled"]
        /\ UNCHANGED <<queue, done, dpc, dreq, pc, cur>>
    BY <1>13 DEF ReplyFill
  <2>2. \A v \in Uniques : rstate'[v] = "none" <=> rstate[v] = "none"
    BY <2>1
  <2>3. QED
    BY <2>1, <2>2 DEF PlaceInv, FramesOutliveUse, SignalledOwned, ServedOnce, Queued, Carried, Owned
<1>14. ASSUME NEW u \in Uniques, ReplyDone(u) PROVE PlaceInv'
  <2>1. /\ rstate[u] = "filled" /\ rstate' = [rstate EXCEPT ![u] = "none"]
        /\ done' = [done EXCEPT ![u] = @ + 1]
        /\ UNCHANGED <<queue, dpc, dreq, pc, cur>>
    BY <1>14 DEF ReplyDone
  <2>2. ~(done[u] > 0) /\ ~Queued(u) /\ ~Carried(u) /\ Owned(u)
    BY <2>1 DEF PlaceInv, FramesOutliveUse, ServedOnce
  <2>3. done'[u] = 1 /\ \A v \in Uniques : v # u => done'[v] = done[v]
    BY <2>1, <2>2
  <2>4. rstate'[u] = "none" /\ \A v \in Uniques : v # u => rstate'[v] = rstate[v]
    BY <2>1
  <2>5. \A v \in Uniques :
          /\ Owned(v)' <=> Owned(v)
          /\ Queued(v)' <=> Queued(v)
          /\ Carried(v)' <=> Carried(v)
    BY <2>1 DEF Owned, Queued, Carried
  <2>6. FramesOutliveUse'
    BY <2>4, <2>5 DEF PlaceInv, FramesOutliveUse
  <2>7. SignalledOwned'
    BY <2>2, <2>3, <2>5 DEF PlaceInv, SignalledOwned
  <2>8. ServedOnce'
    BY <2>1, <2>2, <2>3, <2>4, <2>5 DEF PlaceInv, ServedOnce
  <2>9. QED
    BY <2>6, <2>7, <2>8 DEF PlaceInv
<1>15. ASSUME NEW u \in Uniques, ReplyUnadapted(u) PROVE PlaceInv'
  <2>1. /\ rstate' = [rstate EXCEPT ![u] = "none"]
        /\ UNCHANGED <<queue, done, dpc, dreq, pc, cur>>
    BY <1>15 DEF ReplyUnadapted
  <2>2. \A v \in Uniques : rstate'[v] # "none" => rstate[v] # "none"
    BY <2>1
  <2>3. QED
    BY <2>1, <2>2 DEF PlaceInv, FramesOutliveUse, SignalledOwned, ServedOnce, Queued, Carried, Owned
<1>16. ASSUME UNCHANGED vars PROVE PlaceInv'
  BY <1>16, <1>s DEF vars, Owned
<1>17. QED
  BY <1>1, <1>2, <1>3, <1>4, <1>5, <1>6, <1>7, <1>8, <1>9, <1>10, <1>11, <1>12,
     <1>13, <1>14, <1>15, <1>16, NextCases

(* Buffers.  Begin numbers a request nobody has seen, so it finds no buffer *)
(* of it; a buffer is created by the one reply and freed by the caller.    *)
LEMMA HeapStep == IndInv /\ [Next]_vars => BufferInv' /\ NoLeak'
<1> DEFINE HeapInv == BufferInv /\ NoLeak
<1> SUFFICES ASSUME IndInv, [Next]_vars PROVE HeapInv'
  OBVIOUS
<1>0. TypeOK /\ CallerInv /\ PlaceInv /\ BufferInv /\ NoLeak
  BY DEF IndInv, PlaceInv
(* A step that touches no buffer, changes no reply and ends no frame.      *)
<1>s. ASSUME UNCHANGED <<heap, reply, rstate, done, cur>> PROVE HeapInv'
  BY <1>0, <1>s DEF BufferInv, NoLeak
<1> HIDE DEF HeapInv
<1> USE <1>0 DEF TypeOK, callerVars, queueVars, daemonVars, replyVars
<1>1. ASSUME NEW t \in Threads,
             \/ NameAllocFails(t) \/ PushLock(t) \/ PushInsert(t) \/ PushUp(t)
      PROVE  HeapInv'
  BY <1>1, <1>s DEF NameAllocFails, PushLock, PushInsert, PushUp
<1>2. ASSUME NEW t \in Threads, NEW o \in UkfsOpcodes, Begin(t, o) PROVE HeapInv'
  <2> DEFINE u == nextUnique
  <2>1. /\ u \in Uniques /\ u # NoReq /\ rstate' = rstate /\ pc[t] = "idle"
        /\ cur' = [cur EXCEPT ![t] = u]
        /\ reply' = [reply EXCEPT ![u] = Zeroed]
        /\ done' = [done EXCEPT ![u] = 0]
        /\ heap' = heap \cup {<<"name", v>> : v \in IF o = "LOOKUP" THEN {u} ELSE {}}
    BY <1>2 DEF Begin, Uniques, NoReq
  <2>2. cur[t] = NoReq
    BY <2>1 DEF CallerInv
  <2>3. \A s \in Threads : cur[s] # u
    BY <2>1 DEF CallerInv, Uniques
  <2> HIDE DEF u
  <2>4. ~(<<"reply", u>> \in heap)
    BY <2>3 DEF NoLeak
  <2>5. BufferInv'
    <3>1. ASSUME NEW v \in Uniques, <<"reply", v>> \in heap' PROVE <<"reply", v>> \in heap
      BY <2>1, <3>1
    <3>2. \A v \in Uniques : v # u => done'[v] = done[v] /\ reply'[v] = reply[v]
      BY <2>1
    <3>3. QED
      BY <2>1, <2>4, <3>1, <3>2 DEF BufferInv
  <2>6. NoLeak'
    <3>1. ASSUME NEW b \in heap PROVE \E s \in Threads : cur'[s] = b[2]
      <4>1. PICK s \in Threads : cur[s] = b[2]
        BY DEF NoLeak
      <4>2. b[2] # NoReq
        BY DEF Uniques, NoReq
      <4>3. s # t
        BY <2>2, <4>1, <4>2
      <4>4. QED
        BY <2>1, <4>1, <4>3
    <3>2. ASSUME NEW b \in heap', b \notin heap PROVE \E s \in Threads : cur'[s] = b[2]
      <4>1. b = <<"name", u>>
        BY <2>1, <3>2
      <4>2. cur'[t] = u
        BY <2>1
      <4>3. QED
        BY <4>1, <4>2
    <3>3. QED
      BY <3>1, <3>2 DEF NoLeak
  <2>7. QED
    BY <2>5, <2>6 DEF HeapInv
<1>3. ASSUME NEW t \in Threads, Wake(t) PROVE HeapInv'
  <2> DEFINE u == cur[t]
  <2>1. /\ u \in Uniques /\ u # NoReq /\ done[u] > 0
        /\ cur' = [cur EXCEPT ![t] = NoReq]
        /\ reply' = reply /\ rstate' = rstate
        /\ done' = [done EXCEPT ![u] = @ - 1]
        /\ heap' = heap \ Freed(u)
    BY <1>3 DEF Wake, CallerInv
  <2> HIDE DEF u
  <2>2. \A b \in heap' : b \in heap /\ b[2] # u
    <3>1. SUFFICES ASSUME NEW b \in heap, b[2] = u PROVE b \in Freed(u)
      BY <2>1
    <3>2. b = <<"name", u>> \/ b = <<"reply", u>>
      BY <3>1
    <3>3. CASE b = <<"name", u>>
      BY <3>3 DEF Freed
    <3>4. CASE b = <<"reply", u>>
      <4>1. reply[u].error = "none"
        BY <2>1, <3>1, <3>4 DEF BufferInv
      <4>2. QED
        BY <3>4, <4>1 DEF Freed
    <3>5. QED
      BY <3>2, <3>3, <3>4
  <2>3. BufferInv'
    <3>1. ASSUME NEW v \in Uniques, <<"reply", v>> \in heap'
          PROVE  <<"reply", v>> \in heap /\ v # u
      BY <2>2, <3>1
    <3>2. \A v \in Uniques : v # u => done'[v] = done[v]
      BY <2>1
    <3>3. QED
      BY <2>1, <3>1, <3>2 DEF BufferInv
  <2>4. NoLeak'
    <3>1. SUFFICES ASSUME NEW b \in heap' PROVE \E s \in Threads : cur'[s] = b[2]
      BY DEF NoLeak
    <3>2. PICK s \in Threads : cur[s] = b[2]
      BY <2>2 DEF NoLeak
    <3>3. s # t
      BY <2>2, <3>2 DEF u
    <3>4. QED
      BY <2>1, <3>2, <3>3
  <2>5. QED
    BY <2>3, <2>4 DEF HeapInv
<1>4. ASSUME NEW d \in Daemons, DispatchUnknown(d) PROVE HeapInv'
  <2> DEFINE u == dreq[d]
  <2>1. /\ dpc[d] = "fill" /\ UNCHANGED <<heap, rstate, cur>>
        /\ reply' = [reply EXCEPT ![u] = Err("ENOSYS")]
        /\ done' = [done EXCEPT ![u] = @ + 1]
    BY <1>4 DEF DispatchUnknown
  <2>2. u \in Uniques => rstate[u] = "none" /\ ~(done[u] > 0)
    BY <2>1 DEF Carried, PlaceInv, ServedOnce
  <2> HIDE DEF u
  <2>3. u \in Uniques => <<"reply", u>> \notin heap
    BY <2>2 DEF BufferInv
  <2>4. \A v \in Uniques : v # u => done'[v] = done[v] /\ reply'[v] = reply[v]
    BY <2>1
  <2>5. BufferInv'
    BY <2>1, <2>3, <2>4 DEF BufferInv
  <2>6. NoLeak'
    BY <2>1 DEF NoLeak
  <2>7. QED
    BY <2>5, <2>6 DEF HeapInv
<1>5. ASSUME NEW d \in Daemons, Dispatch(d) PROVE HeapInv'
  <2> DEFINE u == dreq[d]
  <2>1. /\ dpc[d] = "fill" /\ UNCHANGED <<heap, reply, done, cur>>
        /\ rstate' = [rstate EXCEPT ![u] = "held"]
    BY <1>5 DEF Dispatch
  <2>2. u \in Uniques => rstate[u] = "none"
    BY <2>1 DEF Carried, PlaceInv, ServedOnce
  <2> HIDE DEF u
  <2>3. \A v \in Uniques : rstate[v] = "filled" => rstate'[v] = "filled"
    BY <2>1, <2>2
  <2>4. BufferInv' /\ NoLeak'
    BY <2>1, <2>3 DEF BufferInv, NoLeak
  <2>5. QED
    BY <2>4 DEF HeapInv
<1>6. ASSUME NEW d \in Daemons,
             \/ PopDown(d) \/ PopLock(d) \/ PopRemove(d)
             \/ DispatchAllocFails(d) \/ HandlerReturns(d)
      PROVE  HeapInv'
  BY <1>6, <1>s DEF PopDown, PopLock, PopRemove, DispatchAllocFails, HandlerReturns
<1>7. ASSUME NEW u \in Uniques, ReplyFill(u) PROVE HeapInv'
  <2>1. PICK a \in Answers(op[u]) :
          /\ reply' = [reply EXCEPT ![u] = a]
          /\ heap' = heap \cup {<<"reply", v>> : v \in {w \in {u} : a.data # "null"}}
    BY <1>7 DEF ReplyFill
  <2>2. /\ rstate[u] = "held" /\ rstate' = [rstate EXCEPT ![u] = "filled"]
        /\ UNCHANGED <<done, cur>>
    BY <1>7 DEF ReplyFill
  <2>3. a.data # "null" => a.error = "none"
    BY AnswersLemma
  <2>4. ~(done[u] > 0)
    BY <2>2 DEF PlaceInv, ServedOnce
  <2>5. <<"reply", u>> \notin heap
    BY <2>2, <2>4 DEF BufferInv
  <2>6. rstate'[u] = "filled" /\ reply'[u] = a
    BY <2>1, <2>2
  <2>7. \A v \in Uniques : v # u => rstate'[v] = rstate[v] /\ reply'[v] = reply[v]
    BY <2>1, <2>2
  <2>8. BufferInv'
    <3>1. ASSUME NEW v \in Uniques, <<"reply", v>> \in heap', v # u
          PROVE  <<"reply", v>> \in heap
      BY <2>1, <3>1
    <3>2. <<"reply", u>> \in heap' => a.data # "null"
      BY <2>1, <2>5
    <3>3. QED
      BY <2>2, <2>3, <2>6, <2>7, <3>1, <3>2 DEF BufferInv
  <2>9. NoLeak'
    <3>1. PICK t \in Threads : cur[t] = u
      BY <2>2 DEF PlaceInv, FramesOutliveUse, Owned
    <3>2. \A b \in heap' : b \in heap \/ b[2] = u
      BY <2>1
    <3>3. QED
      BY <2>2, <3>1, <3>2 DEF NoLeak
  <2>10. QED
    BY <2>8, <2>9 DEF HeapInv
<1>8. ASSUME NEW u \in Uniques, ReplyDone(u) PROVE HeapInv'
  <2>1. /\ rstate[u] = "filled" /\ rstate' = [rstate EXCEPT ![u] = "none"]
        /\ done' = [done EXCEPT ![u] = @ + 1]
        /\ UNCHANGED <<reply, heap, cur>>
    BY <1>8 DEF ReplyDone
  <2>2. done'[u] > 0
    BY <2>1
  <2>3. \A v \in Uniques : v # u => done'[v] = done[v] /\ rstate'[v] = rstate[v]
    BY <2>1
  <2>4. BufferInv'
    BY <2>1, <2>2, <2>3 DEF BufferInv
  <2>5. NoLeak'
    BY <2>1 DEF NoLeak
  <2>6. QED
    BY <2>4, <2>5 DEF HeapInv
<1>9. ASSUME NEW u \in Uniques, ReplyUnadapted(u) PROVE HeapInv'
  <2>1. /\ rstate[u] = "held" /\ rstate' = [rstate EXCEPT ![u] = "none"]
        /\ UNCHANGED <<reply, done, heap, cur>>
    BY <1>9 DEF ReplyUnadapted
  <2>2. \A v \in Uniques : rstate[v] = "filled" => rstate'[v] = "filled"
    BY <2>1
  <2>3. BufferInv' /\ NoLeak'
    BY <2>1, <2>2 DEF BufferInv, NoLeak
  <2>4. QED
    BY <2>3 DEF HeapInv
<1>10. ASSUME UNCHANGED vars PROVE HeapInv'
  BY <1>10, <1>s DEF vars
<1>11. QED
  BY <1>1, <1>2, <1>3, <1>4, <1>5, <1>6, <1>7, <1>8, <1>9, <1>10, NextCases DEF HeapInv

(* The invariant holds in every reachable state: the numbered requests,    *)
(* the mutex, the semaphore's equation, the places a pointer may be and    *)
(* the live buffers support one another through every step.                *)
THEOREM IndInvariant == Spec => []IndInv
<1>1. Init => IndInv
  BY InitInv
<1>2. IndInv /\ [Next]_vars => IndInv'
  <2> SUFFICES ASSUME IndInv, [Next]_vars PROVE IndInv'
    OBVIOUS
  <2>1. TypeOK' /\ MutexInv' /\ CountInv' /\ CallerInv'
    BY TypeStep, MutexStep, CountStep, CallerStep
  <2>2. PlaceInv' /\ BufferInv' /\ NoLeak'
    BY PlaceStep, HeapStep
  <2>3. QED
    BY <2>1, <2>2 DEF IndInv, PlaceInv
<1>3. QED
  BY <1>1, <1>2, PTL DEF Spec

(* Every reachable state is well typed: in particular no semaphore count   *)
(* goes below zero and no freed request is linked.                         *)
THEOREM TypeCorrect == Spec => []TypeOK
<1>1. IndInv => TypeOK
  BY DEF IndInv
<1>2. QED
  BY <1>1, IndInvariant, PTL

(* UK_ASSERT(req) in fuse_ukfs_queue_pop never fails, however many threads *)
(* push and however many daemons pop: a daemon between down and unlink     *)
(* counts for one element of the list.                                     *)
THEOREM PopSafe == Spec => []PopFindsRequest
<1>1. IndInv => PopFindsRequest
  <2> SUFFICES ASSUME IndInv, NEW d \in Daemons, dpc[d] = "remove"
               PROVE  seen[d] # <<>>
    BY DEF PopFindsRequest
  <2>1. d \in Tickets /\ IsFiniteSet(Tickets) /\ IsFiniteSet(Pushers)
    BY ThreadsAssumption, FS_Subset DEF ThreadsAssumption, Tickets, Pushers
  <2>2. Cardinality(Tickets) \in Nat /\ Cardinality(Pushers) \in Nat
    BY <2>1, FS_CardinalityType
  <2>3. Cardinality(Tickets) # 0
    BY <2>1, FS_EmptySet
  <2>4. Len(queue) = count + Cardinality(Tickets) + Cardinality(Pushers) /\ count \in Nat
    BY DEF IndInv, CountInv, TypeOK
  <2>5. Len(queue) # 0
    BY <2>2, <2>3, <2>4
  <2>6. seen[d] = queue
    BY DEF IndInv, MutexInv
  <2>7. QED
    BY <2>5, <2>6
<1>2. QED
  BY <1>1, IndInvariant, PTL

(* No pointer into a stack frame survives the frame: neither the list, nor *)
(* a daemon, nor a struct fuse_req refers to a call that has returned.     *)
THEOREM FrameSafety == Spec => []FramesOutliveUse
<1>1. IndInv => FramesOutliveUse
  BY DEF IndInv
<1>2. QED
  BY <1>1, IndInvariant, PTL

(* Every request is on the list once, with one daemon, in one struct       *)
(* fuse_req or signalled once, and never two of these.                     *)
THEOREM OneService == Spec => []ServedOnce
<1>1. IndInv => ServedOnce
  BY DEF IndInv
<1>2. QED
  BY <1>1, IndInvariant, PTL

(* A call that has returned leaves neither its name nor its reply buffer   *)
(* allocated, whatever failed on the way.                                  *)
THEOREM LeakFree == Spec => []NoLeak
<1>1. IndInv => NoLeak
  BY DEF IndInv
<1>2. QED
  BY <1>1, IndInvariant, PTL

(* The reply is not written once `done` is up: the caller may read it with *)
(* no lock.                                                                *)
THEOREM StableReply == Spec => ReplyStable
<1>1. ASSUME IndInv, [Next]_vars PROVE [\A u \in Uniques : done[u] > 0 => reply'[u] = reply[u]]_vars
  <2>0. TypeOK /\ CallerInv /\ PlaceInv
    BY <1>1 DEF IndInv, PlaceInv
  <2> SUFFICES ASSUME NEW u \in Uniques, done[u] > 0 PROVE reply'[u] = reply[u]
    OBVIOUS
  <2> USE <2>0 DEF TypeOK, callerVars, queueVars, daemonVars, replyVars
  <2>1. Owned(u) /\ ~Carried(u) /\ rstate[u] = "none"
    BY DEF PlaceInv, SignalledOwned, ServedOnce
  <2>2. ASSUME NEW t \in Threads, NEW o \in UkfsOpcodes, Begin(t, o) PROVE reply'[u] = reply[u]
    <3>1. u # nextUnique
      BY <2>1 DEF Owned, CallerInv, Uniques
    <3>2. QED
      BY <2>2, <3>1 DEF Begin
  <2>3. ASSUME NEW d \in Daemons, DispatchUnknown(d) PROVE reply'[u] = reply[u]
    BY <2>1, <2>3 DEF DispatchUnknown, Carried
  <2>4. ASSUME NEW v \in Uniques, ReplyFill(v) PROVE reply'[u] = reply[u]
    BY <2>1, <2>4 DEF ReplyFill
  <2>5. QED
    BY <1>1, <2>2, <2>3, <2>4, NextCases
    DEF NameAllocFails, PushLock, PushInsert, PushUp, Wake, PopDown, PopLock,
        PopRemove, Dispatch, DispatchAllocFails, HandlerReturns, ReplyDone,
        ReplyUnadapted, vars
<1>2. QED
  BY <1>1, IndInvariant, PTL DEF Spec, ReplyStable
-------------------------------------------------------------------------------
(* The refinement.  What the service sees of one thread depends on its     *)
(* request alone, and while that is not answered not on the reply.         *)
SameView(s) ==
  /\ PhaseOf(s)' = PhaseOf(s)
  /\ ServiceAsked'[s] = ServiceAsked[s]
  /\ ServiceAnswer'[s] = ServiceAnswer[s]

LEMMA ViewKept ==
  ASSUME NEW s \in Threads, cur'[s] = cur[s],
         cur[s] # NoReq => /\ done'[cur[s]] = done[cur[s]]
                           /\ op'[cur[s]] = op[cur[s]]
                           /\ done[cur[s]] > 0 => reply'[cur[s]] = reply[cur[s]]
  PROVE  SameView(s)
<1>1. PhaseOf(s)' = PhaseOf(s)
  BY DEF PhaseOf, NoReq
<1>2. ServiceAsked'[s] = ServiceAsked[s]
  BY DEF ServiceAsked, NoReq
<1>3. ServiceAnswer'[s] = ServiceAnswer[s]
  <2>1. CASE PhaseOf(s) = "answered"
    <3>1. cur[s] # NoReq /\ done[cur[s]] > 0
      BY <2>1 DEF PhaseOf
    <3>2. op'[cur'[s]] = op[cur[s]] /\ reply'[cur'[s]] = reply[cur[s]]
      BY <3>1
    <3> QED
      BY <1>1, <2>1, <3>2 DEF ServiceAnswer
  <2>2. CASE PhaseOf(s) # "answered"
    BY <1>1, <2>2 DEF ServiceAnswer
  <2> QED
    BY <2>1, <2>2
<1> QED
  BY <1>1, <1>2, <1>3 DEF SameView

(* A step that shows in no thread is a stutter of the service, and one     *)
(* that shows in one thread changes the service there.                     *)
LEMMA ViewStutter ==
  ASSUME \A s \in Threads : SameView(s)
  PROVE  UNCHANGED <<ServicePhase, ServiceAsked, ServiceAnswer>>
<1>1. ServicePhase' = ServicePhase
  BY DEF SameView, ServicePhase
<1>2. ServiceAsked' = ServiceAsked
  BY DEF SameView, ServiceAsked
<1>3. ServiceAnswer' = ServiceAnswer
  BY DEF SameView, ServiceAnswer
<1> QED
  BY <1>1, <1>2, <1>3

LEMMA ViewOfOne ==
  ASSUME NEW t \in Threads, \A s \in Threads \ {t} : SameView(s)
  PROVE  /\ ServicePhase' = [ServicePhase EXCEPT ![t] = PhaseOf(t)']
         /\ ServiceAsked' = [ServiceAsked EXCEPT ![t] = ServiceAsked'[t]]
         /\ ServiceAnswer' = [ServiceAnswer EXCEPT ![t] = ServiceAnswer'[t]]
<1>1. ServicePhase' = [ServicePhase EXCEPT ![t] = PhaseOf(t)']
  BY DEF SameView, ServicePhase
<1>2. ServiceAsked' = [ServiceAsked EXCEPT ![t] = ServiceAsked'[t]]
  BY DEF SameView, ServiceAsked
<1>3. ServiceAnswer' = [ServiceAnswer EXCEPT ![t] = ServiceAnswer'[t]]
  BY DEF SameView, ServiceAnswer
<1> QED
  BY <1>1, <1>2, <1>3

-------------------------------------------------------------------------------
(* The three kinds of visible step.                                        *)
LEMMA BeginCalls ==
  ASSUME IndInv, NEW t \in Threads, NEW o \in UkfsOpcodes, Begin(t, o)
  PROVE  Service!Call(t, o)
<1>1. /\ TypeOK /\ CallerInv
  BY DEF IndInv
<1> DEFINE u == nextUnique
<1>2. /\ u \in Uniques /\ pc[t] = "idle" /\ cur[t] = NoReq /\ u # NoReq
      /\ cur' = [cur EXCEPT ![t] = u] /\ op' = [op EXCEPT ![u] = o]
      /\ reply' = [reply EXCEPT ![u] = Zeroed] /\ done' = [done EXCEPT ![u] = 0]
      /\ ret' = ret
  BY <1>1 DEF Begin, CallerInv, Uniques, NoReq
<1>3. \A s \in Threads : cur[s] < u
  BY <1>1 DEF CallerInv
<1>4. /\ cur \in [Threads -> Uniques \cup {NoReq}] /\ done \in [Uniques -> Nat]
      /\ op \in [Uniques -> UkfsOpcodes \cup {"nothing"}] /\ reply \in [Uniques -> Replies]
  BY <1>1 DEF TypeOK
<1> HIDE DEF u
<1>5. u \in Nat
  BY <1>2, BoundAssumption DEF Uniques
<1>6. ASSUME NEW s \in Threads \ {t} PROVE SameView(s)
  <2>1. cur'[s] = cur[s]
    BY <1>2, <1>4
  <2>2. cur[s] # u
    BY <1>3, <1>5
  <2>3. cur[s] # NoReq => /\ done'[cur[s]] = done[cur[s]]
                          /\ op'[cur[s]] = op[cur[s]]
                          /\ reply'[cur[s]] = reply[cur[s]]
    BY <1>2, <1>4, <2>2
  <2> QED
    BY <2>1, <2>3, ViewKept
<1>7. cur'[t] = u /\ done'[u] = 0 /\ op'[u] = o
  BY <1>2, <1>4
<1>8. PhaseOf(t)' = "pending" /\ ServiceAsked'[t] = o /\ ServiceAnswer'[t] = "none yet"
  <2>1. PhaseOf(t)' = "pending"
    BY <1>2, <1>7 DEF PhaseOf
  <2>2. ServiceAsked'[t] = o
    BY <1>2, <1>7 DEF ServiceAsked
  <2>3. ServiceAnswer'[t] = "none yet"
    BY <2>1 DEF ServiceAnswer
  <2> QED
    BY <2>1, <2>2, <2>3
<1>9. ServicePhase[t] = "idle" /\ ServiceAnswer[t] = "none yet"
  BY <1>2 DEF ServicePhase, ServiceAnswer, PhaseOf
<1>10. /\ ServicePhase' = [ServicePhase EXCEPT ![t] = "pending"]
       /\ ServiceAsked' = [ServiceAsked EXCEPT ![t] = o]
       /\ ServiceAnswer' = [ServiceAnswer EXCEPT ![t] = "none yet"]
  BY <1>6, <1>8, ViewOfOne
<1>11. ServiceAnswer' = ServiceAnswer
  BY <1>9, <1>10 DEF ServiceAnswer
<1> QED
  BY <1>2, <1>9, <1>10, <1>11 DEF Service!Call

(* A request that is signalled for the first time is answered.             *)
LEMMA SignalAnswers ==
  ASSUME IndInv, AnswerInv, NEW u \in Uniques, Owned(u), done[u] = 0,
         done' = [done EXCEPT ![u] = @ + 1],
         UNCHANGED <<cur, op, ret>>,
         NEW a, reply' = [reply EXCEPT ![u] = a],
         a \in IF op[u] \in DispatchTable THEN Answers(op[u]) ELSE {Err("ENOSYS")}
  PROVE  \E t \in Threads : Service!Answer(t)
<1>1. /\ TypeOK /\ CallerInv
  BY DEF IndInv
<1>2. PICK t \in Threads : cur[t] = u
  BY DEF Owned
<1>3. /\ cur \in [Threads -> Uniques \cup {NoReq}] /\ done \in [Uniques -> Nat]
      /\ reply \in [Uniques -> Replies] /\ u # NoReq
  BY <1>1 DEF TypeOK, Uniques, NoReq
<1>4. done'[u] = 1 /\ reply'[u] = a /\ cur' = cur /\ op' = op /\ ret' = ret
  BY <1>3
<1>5. ASSUME NEW s \in Threads \ {t} PROVE SameView(s)
  <2>1. cur[s] # NoReq => cur[s] # u
    BY <1>1, <1>2, <1>3 DEF CallerInv
  <2>2. cur[s] # NoReq => /\ done'[cur[s]] = done[cur[s]]
                          /\ reply'[cur[s]] = reply[cur[s]]
    BY <1>3, <2>1
  <2> QED
    BY <1>4, <2>2, ViewKept
<1>6. op[u] \in UkfsOpcodes
  BY <1>2, <1>3 DEF AnswerInv
<1>7. /\ ServicePhase[t] = "pending" /\ ServiceAsked[t] = op[u]
  BY <1>2, <1>3 DEF ServicePhase, ServiceAsked, PhaseOf
<1>8. /\ PhaseOf(t)' = "answered" /\ ServiceAsked'[t] = ServiceAsked[t]
      /\ ServiceAnswer'[t] = Decode(op[u], a)
  <2>1. PhaseOf(t)' = "answered"
    BY <1>2, <1>3, <1>4 DEF PhaseOf
  <2>2. ServiceAsked'[t] = ServiceAsked[t]
    BY <1>4 DEF ServiceAsked
  <2>3. ServiceAnswer'[t] = Decode(op[u], a)
    BY <1>2, <1>4, <2>1 DEF ServiceAnswer
  <2> QED
    BY <2>1, <2>2, <2>3
<1>9. Decode(op[u], a) \in ServiceOutcomes[op[u]]
  BY <1>6 DEF ServiceOutcomes
<1>10. /\ ServicePhase' = [ServicePhase EXCEPT ![t] = "answered"]
       /\ ServiceAsked' = [ServiceAsked EXCEPT ![t] = ServiceAsked[t]]
       /\ ServiceAnswer' = [ServiceAnswer EXCEPT ![t] = Decode(op[u], a)]
  BY <1>5, <1>8, ViewOfOne
<1>11. ServiceAsked' = ServiceAsked
  BY <1>10 DEF ServiceAsked
<1>12. Service!Answer(t)
  BY <1>4, <1>7, <1>9, <1>10, <1>11 DEF Service!Answer
<1> QED
  BY <1>12

LEMMA WakeReturns ==
  ASSUME IndInv, AnswerInv, NEW t \in Threads, Wake(t)
  PROVE  Service!Return(t)
<1>1. TypeOK /\ CallerInv /\ ServedOnce
  BY DEF IndInv
<1> DEFINE u == cur[t]
<1>2. /\ pc[t] = "wait" /\ done[u] > 0
      /\ done' = [done EXCEPT ![u] = @ - 1]
      /\ cur' = [cur EXCEPT ![t] = NoReq] /\ op' = op /\ reply' = reply
  BY DEF Wake
<1>3. PICK r \in Kept(op[u], reply[u]) : ret' = [ret EXCEPT ![t] = r]
  BY DEF Wake
<1>4. /\ cur \in [Threads -> Uniques \cup {NoReq}] /\ done \in [Uniques -> Nat]
      /\ u # NoReq /\ u \in Uniques
  BY <1>1, <1>2 DEF TypeOK, CallerInv
<1>5. ASSUME NEW s \in Threads \ {t} PROVE SameView(s)
  <2>1. cur[s] # NoReq => cur[s] # u
    BY <1>1, <1>4 DEF CallerInv
  <2>2. cur'[s] = cur[s]
    BY <1>2, <1>4
  <2>3. cur[s] # NoReq => done'[cur[s]] = done[cur[s]]
    BY <1>2, <1>4, <2>1
  <2> QED
    BY <1>2, <2>2, <2>3, ViewKept
<1>6. op[u] \in UkfsOpcodes
  BY <1>4 DEF AnswerInv
<1>7. /\ ServicePhase[t] = "answered" /\ ServiceAsked[t] = op[u]
      /\ ServiceAnswer[t] = Decode(op[u], reply[u])
  BY <1>2, <1>4 DEF ServicePhase, ServiceAsked, ServiceAnswer, PhaseOf
<1>8. cur'[t] = NoReq
  BY <1>2, <1>4
<1>9. PhaseOf(t)' = "idle" /\ ServiceAsked'[t] = "nothing" /\ ServiceAnswer'[t] = "none yet"
  BY <1>8 DEF PhaseOf, ServiceAsked, ServiceAnswer
<1>10. /\ ServicePhase' = [ServicePhase EXCEPT ![t] = "idle"]
       /\ ServiceAsked' = [ServiceAsked EXCEPT ![t] = "nothing"]
       /\ ServiceAnswer' = [ServiceAnswer EXCEPT ![t] = "none yet"]
  BY <1>5, <1>9, ViewOfOne
<1>11. r \in {ServiceAnswer[t]} \cup ServiceDiscards[ServiceAsked[t]]
  BY <1>6, <1>7 DEF Kept, ServiceDiscards
<1> QED
  BY <1>3, <1>7, <1>10, <1>11 DEF Service!Return, Service!NoAnswer, Service!NoCall

-------------------------------------------------------------------------------
LEMMA InitAnswerInv == Init => AnswerInv
<1> SUFFICES ASSUME Init PROVE AnswerInv
  OBVIOUS
<1>1. /\ cur = [t \in Threads |-> NoReq] /\ dpc = [d \in Daemons |-> "down"]
      /\ rstate = [u \in Uniques |-> "none"]
  BY DEF Init
<1> QED
  BY <1>1 DEF AnswerInv

(* The answer on its way stays one of its opcode's: only the two fills     *)
(* write a reply, and an opcode is set when the request is new.            *)
LEMMA AnswerStep == IndInv /\ AnswerInv /\ [Next]_vars => AnswerInv'
<1> SUFFICES ASSUME IndInv, AnswerInv, [Next]_vars PROVE AnswerInv'
  OBVIOUS
<1>0. TypeOK /\ CallerInv /\ FramesOutliveUse /\ ServedOnce
  BY DEF IndInv
<1>t. /\ cur \in [Threads -> Uniques \cup {NoReq}] /\ dreq \in [Daemons -> Uniques \cup {NoReq}]
      /\ op \in [Uniques -> UkfsOpcodes \cup {"nothing"}] /\ reply \in [Uniques -> Replies]
      /\ rstate \in [Uniques -> {"none", "held", "filled"}] /\ nextUnique \in Nat
      /\ dpc \in [Daemons -> {"down", "lock", "remove", "fill", "inop"}]
  BY <1>0, BoundAssumption DEF TypeOK
<1>1. ASSUME NEW t \in Threads, NEW o \in UkfsOpcodes, Begin(t, o) PROVE AnswerInv'
  <2> DEFINE u == nextUnique
  <2>1. /\ u \in Uniques
        /\ cur' = [cur EXCEPT ![t] = u] /\ op' = [op EXCEPT ![u] = o]
        /\ reply' = [reply EXCEPT ![u] = Zeroed] /\ rstate' = rstate
        /\ dpc' = dpc /\ dreq' = dreq
    BY <1>1 DEF Begin, daemonVars
  <2>2. \A s \in Threads : cur[s] # u
    BY <1>0, <1>t DEF CallerInv
  <2>3. rstate[u] = "none"
    BY <1>0, <2>1, <2>2 DEF FramesOutliveUse, Owned
  <2> HIDE DEF u
  <2> QED
    BY <1>t, <2>1, <2>2, <2>3 DEF AnswerInv
<1>2. ASSUME NEW t \in Threads, Wake(t) PROVE AnswerInv'
  BY <1>2, <1>t DEF Wake, daemonVars, AnswerInv
<1>3. ASSUME NEW d \in Daemons, DispatchUnknown(d) PROVE AnswerInv'
  <2>1. /\ reply' = [reply EXCEPT ![dreq[d]] = Err("ENOSYS")]
        /\ op[dreq[d]] \notin DispatchTable
        /\ cur' = cur /\ op' = op /\ rstate' = rstate
        /\ dpc' = [dpc EXCEPT ![d] = "down"] /\ dreq' = [dreq EXCEPT ![d] = NoReq]
    BY <1>3 DEF DispatchUnknown, callerVars
  <2> QED
    BY <1>t, <2>1 DEF AnswerInv
<1>4. ASSUME NEW d \in Daemons, Dispatch(d) PROVE AnswerInv'
  BY <1>4, <1>t DEF Dispatch, callerVars, AnswerInv
<1>5. ASSUME NEW u \in Uniques, ReplyFill(u) PROVE AnswerInv'
  <2>1. PICK a \in Answers(op[u]) : reply' = [reply EXCEPT ![u] = a]
    BY <1>5 DEF ReplyFill
  <2>2. /\ rstate[u] = "held" /\ rstate' = [rstate EXCEPT ![u] = "filled"]
        /\ cur' = cur /\ op' = op
        /\ dpc' = dpc /\ dreq' = dreq
    BY <1>5 DEF ReplyFill, callerVars, daemonVars
  <2> QED
    BY <1>t, <2>1, <2>2 DEF AnswerInv
<1>6. ASSUME NEW u \in Uniques, ReplyDone(u) \/ ReplyUnadapted(u) PROVE AnswerInv'
  <2>1. /\ rstate' = [rstate EXCEPT ![u] = "none"] /\ cur' = cur /\ op' = op /\ reply' = reply
        /\ dpc' = dpc /\ dreq' = dreq
    BY <1>6 DEF ReplyDone, ReplyUnadapted, callerVars, daemonVars
  <2> QED
    BY <1>t, <2>1 DEF AnswerInv
<1>7. ASSUME cur' = cur, op' = op, reply' = reply, rstate' = rstate,
             \A d \in Daemons : dpc'[d] \in {"fill", "inop"} => dreq'[d] \in Uniques
      PROVE  AnswerInv'
  BY <1>7 DEF AnswerInv
<1>8. ASSUME NEW t \in Threads, NameAllocFails(t) \/ PushLock(t) \/ PushInsert(t) \/ PushUp(t)
      PROVE  AnswerInv'
  BY <1>7, <1>8 DEF NameAllocFails, PushLock, PushInsert, PushUp, daemonVars, replyVars, AnswerInv
<1>9. ASSUME NEW d \in Daemons,
             PopDown(d) \/ PopLock(d) \/ DispatchAllocFails(d) \/ HandlerReturns(d)
      PROVE  AnswerInv'
  <2>1. /\ cur' = cur /\ op' = op /\ reply' = reply /\ rstate' = rstate
        /\ \E p \in {"lock", "remove", "down"} : dpc' = [dpc EXCEPT ![d] = p]
        /\ dreq' = dreq \/ dreq' = [dreq EXCEPT ![d] = NoReq]
    BY <1>9 DEF PopDown, PopLock, DispatchAllocFails, HandlerReturns, callerVars, replyVars
  <2>2. \A e \in Daemons : dpc'[e] \in {"fill", "inop"} => dreq'[e] \in Uniques
    BY <1>t, <2>1 DEF AnswerInv
  <2> QED
    BY <1>7, <2>1, <2>2
<1>10. ASSUME NEW d \in Daemons, PopRemove(d) PROVE AnswerInv'
  <2>1. /\ cur' = cur /\ op' = op /\ reply' = reply /\ rstate' = rstate
        /\ dpc' = [dpc EXCEPT ![d] = "fill"] /\ dreq' = [dreq EXCEPT ![d] = Head(seen[d])]
    BY <1>10 DEF PopRemove, callerVars, replyVars
  <2>2. Head(seen[d]) \in Uniques
    <3>1. seen[d] \in Seq(Uniques) /\ seen[d] # <<>>
      BY <1>0, <1>10 DEF PopRemove, TypeOK, Agents
    <3> QED
      BY <3>1
  <2>3. \A e \in Daemons : dpc'[e] \in {"fill", "inop"} => dreq'[e] \in Uniques
    BY <1>t, <2>1, <2>2 DEF AnswerInv
  <2> QED
    BY <1>7, <2>1, <2>3
<1>11. CASE UNCHANGED vars
  BY <1>7, <1>11 DEF vars, AnswerInv
<1> QED
  BY <1>1, <1>2, <1>3, <1>4, <1>5, <1>6, <1>8, <1>9, <1>10, <1>11, NextCases

(* Every step is a step of the service or a stutter of it.                 *)
LEMMA ServiceStep ==
  ASSUME IndInv, AnswerInv, [Next]_vars
  PROVE  [Service!ServiceNext]_(Service!svars)
<1>0. TypeOK /\ CallerInv /\ FramesOutliveUse /\ ServedOnce
  BY DEF IndInv
<1>t. /\ cur \in [Threads -> Uniques \cup {NoReq}] /\ dreq \in [Daemons -> Uniques \cup {NoReq}]
      /\ done \in [Uniques -> Nat] /\ reply \in [Uniques -> Replies]
  BY <1>0 DEF TypeOK
<1> DEFINE Mapped == [Service!ServiceNext]_(Service!svars)
<1>s. ASSUME \A s \in Threads : SameView(s), ret' = ret PROVE Mapped
  <2>1. UNCHANGED <<ServicePhase, ServiceAsked, ServiceAnswer>>
    BY <1>s, ViewStutter
  <2> QED
    BY <1>s, <2>1 DEF Service!svars
<1>u. ASSUME cur' = cur, op' = op, reply' = reply, done' = done, ret' = ret PROVE Mapped
  <2>1. \A s \in Threads : SameView(s)
    BY <1>u, ViewKept
  <2> QED
    BY <1>u, <2>1, <1>s
<1>1. ASSUME NEW t \in Threads, NameAllocFails(t) PROVE Mapped
  <2>1. \A s \in Threads : SameView(s)
    BY <1>1, ViewKept DEF NameAllocFails, replyVars
  <2>2. UNCHANGED <<ServicePhase, ServiceAsked, ServiceAnswer>>
    BY <2>1, ViewStutter
  <2>3. ServicePhase[t] = "idle"
    BY <1>0, <1>1 DEF NameAllocFails, CallerInv, ServicePhase, PhaseOf
  <2>4. /\ ret' = [ret EXCEPT ![t] = "ENOMEM"]
        /\ "ENOMEM" \in {e \in {"ENOMEM"} : "name" \in FailingAllocs}
    BY <1>1 DEF NameAllocFails
  <2>5. Service!Refuse(t)
    BY <2>2, <2>3, <2>4 DEF Service!Refuse
  <2> QED
    BY <2>5 DEF Service!ServiceNext
<1>2. ASSUME NEW t \in Threads, NEW o \in UkfsOpcodes, Begin(t, o) PROVE Mapped
  BY <1>2, BeginCalls DEF Service!ServiceNext
<1>3. ASSUME NEW t \in Threads, PushLock(t) \/ PushInsert(t) \/ PushUp(t) PROVE Mapped
  BY <1>3, <1>u DEF PushLock, PushInsert, PushUp, replyVars
<1>4. ASSUME NEW t \in Threads, Wake(t) PROVE Mapped
  BY <1>4, WakeReturns DEF Service!ServiceNext
<1>5. ASSUME NEW d \in Daemons,
             \/ PopDown(d) \/ PopLock(d) \/ PopRemove(d) \/ Dispatch(d)
             \/ DispatchAllocFails(d) \/ HandlerReturns(d)
      PROVE  Mapped
  BY <1>5, <1>u DEF PopDown, PopLock, PopRemove, Dispatch, DispatchAllocFails,
                    HandlerReturns, callerVars, replyVars
<1>6. ASSUME NEW d \in Daemons, DispatchUnknown(d) PROVE Mapped
  <2> DEFINE u == dreq[d]
  <2>1. /\ dpc[d] = "fill" /\ op[u] \notin DispatchTable
        /\ reply' = [reply EXCEPT ![u] = Err("ENOSYS")]
        /\ done' = [done EXCEPT ![u] = @ + 1]
        /\ UNCHANGED <<cur, op, ret>>
    BY <1>6 DEF DispatchUnknown, callerVars
  <2>2. u \in Uniques
    BY <2>1 DEF AnswerInv
  <2>3. Carried(u)
    BY <2>1 DEF Carried
  <2>4. Owned(u) /\ done[u] = 0
    BY <1>0, <1>t, <2>2, <2>3 DEF FramesOutliveUse, ServedOnce
  <2> HIDE DEF u
  <2>5. \E t \in Threads : Service!Answer(t)
    BY <2>1, <2>2, <2>4, SignalAnswers
  <2> QED
    BY <2>5 DEF Service!ServiceNext
<1>7. ASSUME NEW u \in Uniques, ReplyFill(u) PROVE Mapped
  <2>1. /\ rstate[u] # "none" /\ cur' = cur /\ op' = op /\ ret' = ret /\ done' = done
    BY <1>7 DEF ReplyFill, callerVars
  <2>2. PICK a : reply' = [reply EXCEPT ![u] = a]
    BY <1>7 DEF ReplyFill
  <2>3. ~(done[u] > 0)
    BY <1>0, <2>1 DEF ServedOnce
  <2>4. \A s \in Threads : cur[s] # NoReq /\ done[cur[s]] > 0 => reply'[cur[s]] = reply[cur[s]]
    BY <1>t, <2>2, <2>3
  <2>5. \A s \in Threads : SameView(s)
    BY <2>1, <2>4, ViewKept
  <2> QED
    BY <2>1, <2>5, <1>s
<1>8. ASSUME NEW u \in Uniques, ReplyDone(u) PROVE Mapped
  <2>1. /\ rstate[u] = "filled" /\ done' = [done EXCEPT ![u] = @ + 1] /\ reply' = reply
        /\ UNCHANGED <<cur, op, ret>>
    BY <1>8 DEF ReplyDone, callerVars
  <2>2. Owned(u) /\ done[u] = 0
    BY <1>0, <1>t, <2>1 DEF FramesOutliveUse, ServedOnce
  <2>3. op[u] \in DispatchTable /\ reply[u] \in Answers(op[u])
    BY <2>1 DEF AnswerInv
  <2>4. reply' = [reply EXCEPT ![u] = reply[u]]
    BY <1>t, <2>1
  <2>5. \E t \in Threads : Service!Answer(t)
    BY <2>1, <2>2, <2>3, <2>4, SignalAnswers
  <2> QED
    BY <2>5 DEF Service!ServiceNext
<1>9. ASSUME NEW u \in Uniques, ReplyUnadapted(u) PROVE Mapped
  BY <1>9, <1>u DEF ReplyUnadapted, callerVars
<1>10. CASE UNCHANGED vars
  BY <1>10, <1>u DEF vars
<1> QED
  BY <1>1, <1>2, <1>3, <1>4, <1>5, <1>6, <1>7, <1>8, <1>9, <1>10, NextCases

LEMMA ServiceStart == Init => Service!ServiceInit
<1> SUFFICES ASSUME Init PROVE Service!ServiceInit
  OBVIOUS
<1>1. cur = [t \in Threads |-> NoReq] /\ ret = [t \in Threads |-> "none yet"]
  BY DEF Init
<1>2. \A t \in Threads : PhaseOf(t) = "idle"
  BY <1>1 DEF PhaseOf
<1> QED
  BY <1>1, <1>2 DEF Service!ServiceInit, Service!NoAnswer, Service!NoCall, ServicePhase,
                    ServiceAsked, ServiceAnswer

(* Behind the queue, the semaphores, the daemons and libfuse a caller sees *)
(* the request service: every call is answered at most once, with an       *)
(* outcome of its opcode, and returns that outcome.                        *)
THEOREM Implementation == Spec => ImplementsService
<1>1. IndInv /\ AnswerInv /\ [Next]_vars => [Service!ServiceNext]_(Service!svars)
  BY ServiceStep
<1>2. Spec => []AnswerInv
  <2>1. IndInv /\ AnswerInv /\ [Next]_vars => AnswerInv'
    BY AnswerStep
  <2> QED
    BY <2>1, InitAnswerInv, IndInvariant, PTL DEF Spec
<1> QED
  BY <1>1, <1>2, ServiceStart, IndInvariant, PTL DEF Spec, ImplementsService, Service!ServiceSpec
===============================================================================
