---------------------------- MODULE UkfsMountProofs ---------------------------
(* Proofs about UkfsMount: repeated mounts on one queue, for any number of *)
(* threads, mounts and calls, with or without -s and failing allocations.  *)
EXTENDS UkfsMount, FiniteSetTheorems, TLAPS

(* At most one linked request per thread: the list is no longer than there *)
(* are threads.                                                            *)
LEMMA ListBounded ==
  ASSUME NEW s \in Seq(Threads), \A i, j \in 1 .. Len(s) : s[i] = s[j] => i = j
  PROVE  Len(s) \in 0 .. Cardinality(Threads)
<1>1. IsFiniteSet(Threads) /\ Cardinality(Threads) \in Nat
  BY MountAssumption, FS_CardinalityType DEF MountAssumption
<1>2. Len(s) \in Nat /\ s \in [1 .. Len(s) -> Threads]
  OBVIOUS
<1>3. IsFiniteSet(1 .. Len(s)) /\ Cardinality(1 .. Len(s)) = Len(s)
  BY <1>2, FS_Interval
<1>4. ~(Cardinality(Threads) < Cardinality(1 .. Len(s)))
  BY <1>1, <1>2, <1>3, FS_PigeonHole
<1>5. QED
  BY <1>1, <1>2, <1>3, <1>4

(* The initial state satisfies the invariant.                              *)
LEMMA InitInv == Init => IndInv
<1> SUFFICES ASSUME Init PROVE IndInv
  OBVIOUS
<1>0. registered \in BOOLEAN /\ ~registered
  BY Zenon DEF Init
<1>1. /\ bpc = "new" /\ session = "none" /\ mounts = 0
      /\ startRc = "not called" /\ dstate = [d \in Daemons |-> "none"]
      /\ serving = [d \in Daemons |-> NoThread] /\ count = 0 /\ waiters = {}
      /\ tpc = [t \in Threads |-> "idle"] /\ calls = 0 /\ dropped = {}
  BY DEF Init
<1>2. queue = <<>> /\ Len(queue) = 0 /\ queue \in Seq(Threads)
  <2>1. queue = <<>>
    BY DEF Init
  <2>2. QED
    BY <2>1
<1>3. Cardinality(Threads) \in Nat
  BY MountAssumption, FS_CardinalityType DEF MountAssumption
<1>4. TypeOK
  <2>1. mounts \in 0 .. MaxMounts /\ calls \in 0 .. MaxCalls /\ count \in 0 .. Cardinality(Threads)
    <3>1. MaxMounts \in Nat /\ MaxCalls \in Nat
      BY MountAssumption DEF MountAssumption
    <3>2. mounts = 0 /\ calls = 0 /\ count = 0
      BY <1>1
    <3>3. QED
      BY <1>3, <3>1, <3>2
  <2>2. /\ dstate \in [Daemons -> {"none", "start", "down", "asleep", "serve", "exited"}]
        /\ serving \in [Daemons -> Threads \cup {NoThread}]
        /\ tpc \in [Threads -> {"idle", "wait"}]
    BY <1>1
  <2>3. QED
    BY <1>0, <1>1, <1>2, <2>1, <2>2, Zenon DEF TypeOK
<1>5. CountMatchesList /\ DroppedWaits
  BY <1>1, <1>2 DEF CountMatchesList, DroppedWaits
<1>6. PlaceInv
  <2>1. Linked = {}
    BY <1>2 DEF Linked
  <2>2. \A d \in Daemons : dstate[d] # "serve"
    BY <1>1
  <2>3. QED
    BY <2>1, <2>2 DEF PlaceInv
<1>7. SessionInv
  BY <1>0, <1>1 DEF SessionInv
<1>8. QED
  BY <1>4, <1>5, <1>6, <1>7 DEF IndInv

(* The steps of the system, one by one.                                    *)
LEMMA NextCases ==
  ASSUME [Next]_vars
  PROVE  \/ SessionNew \/ SessionMount \/ SessionLoop \/ Mount
         \/ \E t \in Threads : Call(t)
         \/ \E d \in Daemons : DaemonBegins(d) \/ DaemonNoBuffer(d) \/ DaemonSleeps(d)
                               \/ DaemonPops(d) \/ DaemonServes(d)
         \/ UNCHANGED vars
  BY DEF Next, DaemonStep, MountNoMemory

(* Initialisation drops exactly the linked threads.                        *)
LEMMA QueueInitLemma ==
  ASSUME TypeOK, QueueInit
  PROVE  /\ queue' = <<>> /\ Len(queue') = 0 /\ queue' \in Seq(Threads)
         /\ count' = 0 /\ waiters' = {}
         /\ dropped' \subseteq Threads /\ dropped \subseteq dropped'
         /\ \A t \in dropped' : t \in dropped \/ \E i \in Linked : queue[i] = t
<1>1. queue' = <<>> /\ count' = 0 /\ waiters' = {} /\ dropped' = dropped \cup ToSet(queue)
  BY DEF QueueInit
<1>2. Len(queue') = 0 /\ queue' \in Seq(Threads)
  BY <1>1
<1>3. queue \in Seq(Threads) /\ dropped \subseteq Threads
  BY DEF TypeOK
<1>4. \A t \in ToSet(queue) : t \in Threads /\ \E i \in Linked : queue[i] = t
  BY <1>3 DEF ToSet, Linked
<1>5. QED
  BY <1>1, <1>2, <1>3, <1>4

(* A waiting caller's request stays in one place, and count and list move  *)
(* together.                                                               *)
LEMMA PlaceStep == IndInv /\ [Next]_vars => (PlaceInv /\ DroppedWaits /\ CountMatchesList)'
<1> DEFINE Good == PlaceInv /\ DroppedWaits /\ CountMatchesList
<1> SUFFICES ASSUME IndInv, [Next]_vars PROVE Good'
  OBVIOUS
<1>0. /\ queue \in Seq(Threads) /\ dropped \subseteq Threads /\ waiters \subseteq Daemons
      /\ dstate \in [Daemons -> {"none", "start", "down", "asleep", "serve", "exited"}]
      /\ serving \in [Daemons -> Threads \cup {NoThread}]
      /\ tpc \in [Threads -> {"idle", "wait"}]
      /\ PlaceInv /\ DroppedWaits /\ CountMatchesList
  BY Zenon DEF IndInv, TypeOK
<1>a. Len(queue) \in Nat
  BY <1>0
<1> USE <1>0, <1>a DEF PlaceInv, DroppedWaits, CountMatchesList, Linked, backendVars, queueVars
<1>1. ASSUME SessionNew \/ SessionMount \/ SessionLoop PROVE Good'
  <2>1. UNCHANGED <<dstate, serving, queue, count, tpc, dropped>>
    BY <1>1 DEF SessionNew, SessionMount, SessionLoop
  <2>2. QED
    BY <2>1
<1>2. CASE Mount
  <2>1. /\ Len(queue') = 0 /\ count' = 0 /\ dropped \subseteq dropped'
        /\ \A t \in dropped' : t \in dropped \/ \E i \in Linked : queue[i] = t
    BY <1>2, QueueInitLemma DEF Mount, IndInv
  <2>2. UNCHANGED <<serving, tpc>> /\ \A d \in Daemons : dstate'[d] = "serve" => dstate[d] = "serve"
    BY <1>2 DEF Mount, DaemonStart
  <2>3. \A d \in Daemons : dstate'[d] = "serve" => serving[d] \in Threads \ dropped'
    BY <2>1, <2>2
  <2>4. QED
    BY <2>1, <2>2, <2>3
<1>3. ASSUME NEW t \in Threads, Call(t) PROVE Good'
  <2>1. /\ tpc[t] = "idle" /\ tpc' = [tpc EXCEPT ![t] = "wait"]
        /\ queue' = Append(queue, t) /\ count' = count + 1
        /\ UNCHANGED <<serving, dropped>>
    BY <1>3 DEF Call
  <2>2. \A d \in Daemons : dstate'[d] = "serve" => dstate[d] = "serve"
    BY <1>3 DEF Call
  <2>3. /\ Len(queue') = Len(queue) + 1 /\ queue'[Len(queue) + 1] = t
        /\ \A i \in 1 .. Len(queue) : queue'[i] = queue[i] /\ queue[i] # t
    BY <2>1
  <2>4. \A d \in Daemons : dstate[d] = "serve" => serving[d] # t
    BY <2>1
  <2>5. t \notin dropped
    BY <2>1
  <2>6. \A i \in 1 .. Len(queue') : i \in 1 .. Len(queue) \/ i = Len(queue) + 1
    BY <2>3
  <2>7. PlaceInv'
    BY <2>1, <2>2, <2>3, <2>4, <2>5, <2>6
  <2>8. QED
    BY <2>1, <2>3, <2>7
<1>4. ASSUME NEW d \in Daemons, DaemonBegins(d) \/ DaemonNoBuffer(d) \/ DaemonSleeps(d)
      PROVE  Good'
  <2>1. /\ UNCHANGED <<serving, queue, count, tpc, dropped>>
        /\ \A e \in Daemons : dstate'[e] = "serve" => dstate[e] = "serve"
    BY <1>4 DEF DaemonBegins, DaemonNoBuffer, DaemonSleeps
  <2>2. QED
    BY <2>1
<1>5. ASSUME NEW d \in Daemons, DaemonPops(d) PROVE Good'
  <2>1. /\ queue # <<>> /\ queue' = Tail(queue) /\ count' = count - 1
        /\ serving' = [serving EXCEPT ![d] = Head(queue)]
        /\ dstate' = [dstate EXCEPT ![d] = "serve"] /\ dstate[d] = "down"
        /\ UNCHANGED <<tpc, dropped>>
    BY <1>5 DEF DaemonPops
  <2>2. /\ Len(queue) > 0 /\ Len(queue') = Len(queue) - 1 /\ Head(queue) = queue[1]
        /\ \A i \in 1 .. Len(queue') : queue'[i] = queue[i + 1] /\ i + 1 \in 1 .. Len(queue)
    BY <2>1
  <2>3. /\ serving'[d] = queue[1] /\ queue[1] \in Threads \ dropped /\ tpc[queue[1]] = "wait"
        /\ 1 \in 1 .. Len(queue)
    BY <2>1, <2>2
  <2>4. \A e \in Daemons : e # d => dstate'[e] = dstate[e] /\ serving'[e] = serving[e]
    BY <2>1
  <2>5. \A i \in 1 .. Len(queue') : queue'[i] # queue[1]
    BY <2>2, <2>3
  <2>6. PlaceInv'
    <3>1. \A i, j \in Linked' : queue'[i] = queue'[j] => i = j
      BY <2>2
    <3>2. \A i \in Linked' : tpc'[queue'[i]] = "wait" /\ queue'[i] \notin dropped'
      BY <2>1, <2>2
    <3>3. ASSUME NEW e \in Daemons, dstate'[e] = "serve"
          PROVE  /\ serving'[e] \in Threads \ dropped' /\ tpc'[serving'[e]] = "wait"
                 /\ \A i \in Linked' : queue'[i] # serving'[e]
                 /\ \A g \in Daemons : dstate'[g] = "serve" /\ serving'[g] = serving'[e] => g = e
      BY <2>1, <2>2, <2>3, <2>4, <2>5, <3>3
    <3>4. QED
      BY <3>1, <3>2, <3>3
  <2>7. QED
    BY <2>1, <2>2, <2>6
<1>6. ASSUME NEW d \in Daemons, DaemonServes(d) PROVE Good'
  <2>1. /\ dstate[d] = "serve" /\ tpc' = [tpc EXCEPT ![serving[d]] = "idle"]
        /\ serving' = [serving EXCEPT ![d] = NoThread]
        /\ dstate' = [dstate EXCEPT ![d] = "down"]
        /\ UNCHANGED <<queue, count, dropped>>
    BY <1>6 DEF DaemonServes
  <2>2. \A t \in Threads : t # serving[d] => tpc'[t] = tpc[t]
    BY <2>1
  <2>3. \A e \in Daemons : dstate'[e] = "serve" =>
          e # d /\ dstate[e] = "serve" /\ serving'[e] = serving[e] /\ serving[e] # serving[d]
    BY <2>1
  <2>4. QED
    BY <2>1, <2>2, <2>3
<1>7. CASE UNCHANGED vars
  BY <1>7 DEF vars
<1>8. QED
  BY <1>1, <1>2, <1>3, <1>4, <1>5, <1>6, <1>7, NextCases

(* Types are kept; the count is bounded because the list is.               *)
LEMMA TypeStep == IndInv /\ [Next]_vars => TypeOK'
<1> SUFFICES ASSUME IndInv, [Next]_vars PROVE TypeOK'
  OBVIOUS
<1>0. TypeOK /\ PlaceInv /\ MaxMounts \in Nat /\ MaxCalls \in Nat
  BY MountAssumption DEF IndInv, MountAssumption
<1>a. CountMatchesList' /\ PlaceInv'
  BY PlaceStep
<1>b. ASSUME queue' \in Seq(Threads) PROVE count' \in 0 .. Cardinality(Threads)
  BY <1>a, <1>b, ListBounded DEF CountMatchesList, PlaceInv, Linked
<1> USE DEF backendVars, queueVars
<1>c. /\ queue \in Seq(Threads) /\ waiters \subseteq Daemons /\ mounts \in 0 .. MaxMounts
      /\ calls \in 0 .. MaxCalls
      /\ dstate \in [Daemons -> {"none", "start", "down", "asleep", "serve", "exited"}]
  BY <1>0 DEF TypeOK
<1>1. ASSUME SessionNew \/ SessionMount \/ SessionLoop PROVE TypeOK'
  BY <1>0, <1>1 DEF SessionNew, SessionMount, SessionLoop, TypeOK
<1>2. CASE Mount
  <2>1. /\ queue' \in Seq(Threads) /\ waiters' = {} /\ dropped' \subseteq Threads
    BY <1>0, <1>2, QueueInitLemma DEF Mount
  <2>2. /\ mounts' \in 0 .. MaxMounts /\ startRc' \in {"not called", "started", "failed"}
        /\ dstate' \in [Daemons -> {"none", "start", "down", "asleep", "serve", "exited"}]
    <3>1. /\ mounts < MaxMounts /\ mounts' = mounts + 1
          /\ \/ startRc' \in {"not called", "failed"} /\ UNCHANGED dstate
             \/ startRc' = "started" /\ dstate' = [dstate EXCEPT ![mounts + 1] = "start"]
      BY <1>2 DEF Mount, DaemonStart
    <3>2. mounts' \in 0 .. MaxMounts
      <4>1. mounts \in 0 .. MaxMounts /\ MaxMounts \in Nat
        BY <1>0, <1>c, Zenon
      <4>2. mounts < MaxMounts /\ mounts' = mounts + 1
        BY <3>1, Zenon
      <4>3. QED
        BY <4>1, <4>2
    <3>3. dstate' \in [Daemons -> {"none", "start", "down", "asleep", "serve", "exited"}]
      BY <1>c, <3>1
    <3>4. QED
      BY <3>1, <3>2, <3>3
  <2>3. QED
    BY <1>0, <1>2, <1>b, <2>1, <2>2 DEF Mount, TypeOK
<1>3. ASSUME NEW t \in Threads, Call(t) PROVE TypeOK'
  <2>1. queue' \in Seq(Threads)
    BY <1>3, <1>c DEF Call
  <2>2. /\ waiters' \subseteq Daemons /\ calls' \in 0 .. MaxCalls
        /\ dstate' \in [Daemons -> {"none", "start", "down", "asleep", "serve", "exited"}]
    <3>1. /\ calls < MaxCalls /\ calls' = calls + 1
          /\ \/ UNCHANGED <<waiters, dstate>>
             \/ \E d \in waiters : /\ waiters' = waiters \ {d}
                                   /\ dstate' = [dstate EXCEPT ![d] = "down"]
      BY <1>3, Zenon DEF Call
    <3>2. QED
      BY <1>c, <1>0, <3>1
  <2>3. QED
    BY <1>0, <1>3, <1>b, <2>1, <2>2 DEF Call, TypeOK
<1>4. ASSUME NEW d \in Daemons, DaemonBegins(d) \/ DaemonNoBuffer(d) \/ DaemonSleeps(d)
      PROVE  TypeOK'
  BY <1>0, <1>4 DEF DaemonBegins, DaemonNoBuffer, DaemonSleeps, TypeOK
<1>5. ASSUME NEW d \in Daemons, DaemonPops(d) PROVE TypeOK'
  <2>1. queue' \in Seq(Threads) /\ Head(queue) \in Threads
    BY <1>5, <1>c DEF DaemonPops
  <2>2. QED
    BY <1>0, <1>5, <1>b, <2>1 DEF DaemonPops, TypeOK
<1>6. ASSUME NEW d \in Daemons, DaemonServes(d) PROVE TypeOK'
  BY <1>0, <1>6 DEF DaemonServes, TypeOK
<1>7. CASE UNCHANGED vars
  BY <1>0, <1>7 DEF vars, TypeOK
<1>8. QED
  BY <1>1, <1>2, <1>3, <1>4, <1>5, <1>6, <1>7, NextCases

(* Daemons run only once a session is registered.                          *)
LEMMA SessionStep == IndInv /\ [Next]_vars => SessionInv'
<1> SUFFICES ASSUME IndInv, [Next]_vars PROVE SessionInv'
  OBVIOUS
<1>0. /\ SessionInv /\ waiters \subseteq Daemons
      /\ dstate \in [Daemons -> {"none", "start", "down", "asleep", "serve", "exited"}]
  BY DEF IndInv, TypeOK
<1> USE <1>0 DEF SessionInv, backendVars, queueVars
<1>1. CASE SessionNew
  BY <1>1 DEF SessionNew
<1>2. CASE SessionMount
  BY <1>2 DEF SessionMount
<1>3. CASE SessionLoop
  BY <1>3 DEF SessionLoop
<1>4. CASE Mount
  BY <1>4 DEF Mount, DaemonStart, QueueInit
<1>5. ASSUME NEW t \in Threads, Call(t) PROVE SessionInv'
  BY <1>5 DEF Call
<1>6. ASSUME NEW d \in Daemons, DaemonBegins(d) \/ DaemonNoBuffer(d) \/ DaemonSleeps(d)
      PROVE  SessionInv'
  BY <1>6 DEF DaemonBegins, DaemonNoBuffer, DaemonSleeps
<1>7. ASSUME NEW d \in Daemons, DaemonPops(d) \/ DaemonServes(d) PROVE SessionInv'
  BY <1>7 DEF DaemonPops, DaemonServes
<1>8. CASE UNCHANGED vars
  BY <1>8 DEF vars
<1>9. QED
  BY <1>1, <1>2, <1>3, <1>4, <1>5, <1>6, <1>7, <1>8, NextCases

-------------------------------------------------------------------------------
(* The invariant holds in every reachable state.                           *)
THEOREM Inductive == Spec => []IndInv
<1>1. IndInv /\ [Next]_vars => IndInv'
  BY TypeStep, PlaceStep, SessionStep DEF IndInv
<1>2. QED
  BY <1>1, InitInv, PTL DEF Spec

(* Every variable keeps its type; in particular the semaphore never counts *)
(* more requests than there are threads, however often it is made anew.    *)
THEOREM TypeCorrect == Spec => []TypeOK
<1>1. IndInv => TypeOK
  BY DEF IndInv
<1>2. QED
  BY <1>1, Inductive, PTL

(* UK_ASSERT(req) in fuse_ukfs_queue_pop holds after any number of mounts. *)
THEOREM PopFindsRequest == Spec => []CountMatchesList
<1>1. IndInv => CountMatchesList
  BY DEF IndInv
<1>2. QED
  BY <1>1, Inductive, PTL

(* With -s every request is handed to a session that has not been          *)
(* destroyed.                                                              *)
THEOREM SessionOutlivesDaemons ==
  ASSUME SingleThread
  PROVE  Spec => []ServesLiveSession
<1>1. IndInv => ServesLiveSession
  BY DEF IndInv, SessionInv, ServesLiveSession
<1>2. QED
  BY <1>1, Inductive, PTL

(* A mount on a queue in use costs its callers: whoever's request it       *)
(* unlinks waits for ever.                                                 *)
THEOREM DroppedNeverReturn == Spec => []DroppedWaits
<1>1. IndInv => DroppedWaits
  BY DEF IndInv
<1>2. QED
  BY <1>1, Inductive, PTL
===============================================================================
