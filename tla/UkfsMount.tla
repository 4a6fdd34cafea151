------------------------------ MODULE UkfsMount -------------------------------
(***************************************************************************)
(* Start-up and mounting: the backend thread creates a session and         *)
(* registers it; mounting a "fuse" file system initialises the one global  *)
(* queue and starts a daemon thread for the registered session; threads    *)
(* then call into the file system.  Every mount runs fuse_ukfs_queue_init  *)
(* on the same queue again.                                                *)
(*                                                                         *)
(* The transport is abstracted to what initialisation can disturb: the     *)
(* list, the semaphore's count and its wait list (UkfsBridge has the rest).*)
(* Steps are those between two points where a thread can block.            *)
(***************************************************************************)
EXTENDS Naturals, Sequences, FiniteSets, SequencesExt

CONSTANTS
  Threads,        \* application threads
  MaxMounts,      \* bound: mounts of a "fuse" file system
  MaxCalls,       \* bound: calls into the file system
  SingleThread,   \* the backend runs with -s (fuse_session_loop)
  WaitForSession, \* mount is called only once a session is registered
  MayFail         \* allocations and thread creation may fail

ASSUME MountAssumption ==
  /\ IsFiniteSet(Threads)
  /\ MaxMounts \in Nat /\ MaxCalls \in Nat
  /\ SingleThread \in BOOLEAN /\ WaitForSession \in BOOLEAN /\ MayFail \in BOOLEAN

Daemons == 1 .. MaxMounts       \* the daemon started by the n-th mount
NoThread == "none"

VARIABLES
  bpc,         \* backend thread: "new", "mount", "loop", "blocked", "gone"
  session,     \* "none", "alive", "destroyed"
  registered,  \* fuse_registered_session is set
  mounts,      \* how many mounts have returned successfully
  startRc,     \* what the last mount got from fuse_daemon_start
  dstate,      \* per daemon: where it is
  serving,     \* per daemon: the thread whose request it serves
  queue,       \* fuse_global_queue.head: threads whose request is linked
  count,       \* fuse_global_queue.count
  waiters,     \* daemons on the semaphore's wait list
  tpc,         \* per thread: "idle" or "wait" (for its `done`)
  calls,       \* calls made
  dropped      \* threads whose request an initialisation unlinked

backendVars == <<bpc, session, registered>>
queueVars == <<queue, count, waiters>>
vars == <<bpc, session, registered, mounts, startRc, dstate, serving, queue, count,
          waiters, tpc, calls, dropped>>

TypeOK ==
  /\ bpc \in {"new", "mount", "loop", "blocked", "gone"}
  /\ session \in {"none", "alive", "destroyed"}
  /\ registered \in BOOLEAN
  /\ mounts \in 0 .. MaxMounts
  /\ startRc \in {"not called", "started", "failed"}
  /\ dstate \in [Daemons -> {"none", "start", "down", "asleep", "serve", "exited"}]
  /\ serving \in [Daemons -> Threads \cup {NoThread}]
  /\ queue \in Seq(Threads)
  /\ count \in 0 .. Cardinality(Threads)
  /\ waiters \subseteq Daemons
  /\ tpc \in [Threads -> {"idle", "wait"}]
  /\ calls \in 0 .. MaxCalls
  /\ dropped \subseteq Threads

Init ==
  /\ bpc = "new" /\ session = "none" /\ registered = FALSE
  /\ mounts = 0 /\ startRc = "not called"
  /\ dstate = [d \in Daemons |-> "none"]
  /\ serving = [d \in Daemons |-> NoThread]
  /\ queue = <<>> /\ count = 0 /\ waiters = {}
  /\ tpc = [t \in Threads |-> "idle"]
  /\ calls = 0
  /\ dropped = {}

-------------------------------------------------------------------------------
(* The backend's main.                                                     *)
SessionNew ==
  /\ bpc = "new"
  /\ \/ session' = "alive" /\ bpc' = "mount"
     \/ MayFail /\ session' = "none" /\ bpc' = "gone"
  /\ UNCHANGED <<registered, mounts, startRc, dstate, serving, queueVars, tpc, calls, dropped>>

SessionMount ==
  /\ bpc = "mount"
  /\ registered' = TRUE
  /\ bpc' = "loop"
  /\ UNCHANGED <<session, mounts, startRc, dstate, serving, queueVars, tpc, calls, dropped>>

SessionLoopReturns ==       \* mutant: the loop returns and main cleans up
  /\ bpc = "loop"
  /\ bpc' = "gone" /\ session' = "destroyed"
  /\ UNCHANGED <<registered, mounts, startRc, dstate, serving, queueVars, tpc, calls, dropped>>

(* With -s the loop blocks for ever; without it the loop fails at once,    *)
(* and main destroys the session that stays registered.                    *)
SessionLoop ==
  /\ bpc = "loop"
  /\ IF SingleThread
     THEN bpc' = "blocked" /\ UNCHANGED session
     ELSE bpc' = "gone" /\ session' = "destroyed"
  /\ UNCHANGED <<registered, mounts, startRc, dstate, serving, queueVars, tpc, calls, dropped>>

-------------------------------------------------------------------------------
(* mount: fusefs_vopen.                                                    *)
QueueInitKeepsCount ==      \* mutant: the semaphore keeps its count
  /\ queue' = <<>> /\ waiters' = {} /\ UNCHANGED count
  /\ dropped' = dropped \cup ToSet(queue)

(* fuse_ukfs_queue_init: list, count and wait list are made anew.  What    *)
(* was linked is out of reach, and so is a daemon that sleeps on the old   *)
(* wait list.                                                              *)
QueueInit ==
  /\ queue' = <<>> /\ count' = 0 /\ waiters' = {}
  /\ dropped' = dropped \cup ToSet(queue)

DaemonStartOnce(d) ==       \* mutant: one daemon is thought to be enough
  /\ startRc' = "started"
  /\ dstate' = IF d = 1 THEN [dstate EXCEPT ![d] = "start"] ELSE dstate

(* fuse_daemon_start creates the thread, or fails.                         *)
DaemonStart(d) ==
  \/ dstate' = [dstate EXCEPT ![d] = "start"] /\ startRc' = "started"
  \/ MayFail /\ startRc' = "failed" /\ UNCHANGED dstate

(* The result of fuse_daemon_start is not looked at.                       *)
Mount ==
  /\ mounts < MaxMounts
  /\ WaitForSession => registered
  /\ QueueInit
  /\ IF registered
     THEN DaemonStart(mounts + 1)
     ELSE startRc' = "not called" /\ UNCHANGED dstate
  /\ mounts' = mounts + 1
  /\ UNCHANGED <<backendVars, serving, tpc, calls>>

(* The root object cannot be allocated: -ENOMEM before anything is done.   *)
MountNoMemory ==
  /\ mounts < MaxMounts
  /\ WaitForSession => registered
  /\ MayFail
  /\ UNCHANGED vars

-------------------------------------------------------------------------------
(* A call into a mounted file system: push, then sleep on `done`.  The up  *)
(* wakes one sleeper of the semaphore's wait list.                         *)
Call(t) ==
  /\ mounts > 0 /\ calls < MaxCalls /\ tpc[t] = "idle"
  /\ tpc' = [tpc EXCEPT ![t] = "wait"]
  /\ queue' = Append(queue, t)
  /\ count' = count + 1
  /\ \/ waiters = {} /\ UNCHANGED <<waiters, dstate>>
     \/ \E d \in waiters :
          /\ waiters' = waiters \ {d}
          /\ dstate' = [dstate EXCEPT ![d] = "down"]
  /\ calls' = calls + 1
  /\ UNCHANGED <<backendVars, mounts, startRc, serving, dropped>>

(* fuse_daemon_thread allocates its message buffer, or returns.            *)
DaemonBegins(d) ==
  /\ dstate[d] = "start"
  /\ dstate' = [dstate EXCEPT ![d] = "down"]
  /\ UNCHANGED <<backendVars, mounts, startRc, serving, queueVars, tpc, calls, dropped>>

DaemonNoBuffer(d) ==
  /\ dstate[d] = "start" /\ MayFail
  /\ dstate' = [dstate EXCEPT ![d] = "exited"]
  /\ UNCHANGED <<backendVars, mounts, startRc, serving, queueVars, tpc, calls, dropped>>

DaemonPopsUncounted(d) ==   \* mutant: the semaphore is not taken
  /\ dstate[d] = "down" /\ queue # <<>>
  /\ queue' = Tail(queue)
  /\ serving' = [serving EXCEPT ![d] = Head(queue)]
  /\ dstate' = [dstate EXCEPT ![d] = "serve"]
  /\ UNCHANGED <<backendVars, mounts, startRc, count, waiters, tpc, calls, dropped>>

(* fuse_ukfs_queue_pop: sleep while the count is 0 ...                     *)
DaemonSleeps(d) ==
  /\ dstate[d] = "down" /\ count = 0
  /\ waiters' = waiters \cup {d}
  /\ dstate' = [dstate EXCEPT ![d] = "asleep"]
  /\ UNCHANGED <<backendVars, mounts, startRc, serving, queue, count, tpc, calls, dropped>>

(* ... take it and unlink the head.                                        *)
DaemonPops(d) ==
  /\ dstate[d] = "down" /\ count > 0
  /\ queue # <<>>                                     \* UK_ASSERT(req)
  /\ count' = count - 1
  /\ queue' = Tail(queue)
  /\ serving' = [serving EXCEPT ![d] = Head(queue)]
  /\ dstate' = [dstate EXCEPT ![d] = "serve"]
  /\ UNCHANGED <<backendVars, mounts, startRc, waiters, tpc, calls, dropped>>

(* The session's handler answers and ups `done`; the caller returns.       *)
DaemonServes(d) ==
  /\ dstate[d] = "serve"
  /\ tpc' = [tpc EXCEPT ![serving[d]] = "idle"]
  /\ serving' = [serving EXCEPT ![d] = NoThread]
  /\ dstate' = [dstate EXCEPT ![d] = "down"]
  /\ UNCHANGED <<backendVars, mounts, startRc, queueVars, calls, dropped>>

DaemonStep(d) ==
  \/ DaemonBegins(d) \/ DaemonNoBuffer(d) \/ DaemonSleeps(d)
  \/ DaemonPops(d) \/ DaemonServes(d)

Next ==
  \/ SessionNew \/ SessionMount \/ SessionLoop
  \/ Mount \/ MountNoMemory
  \/ \E t \in Threads : Call(t)
  \/ \E d \in Daemons : DaemonStep(d)

Spec == Init /\ [][Next]_vars

(* A daemon that can run is scheduled, and the handlers answer.            *)
FairSpec == Spec /\ \A d \in Daemons : WF_vars(DaemonStep(d))

-------------------------------------------------------------------------------
(* The assertion in pop survives any number of mounts: initialisation      *)
(* empties list and count together, and daemons of earlier mounts that are *)
(* not asleep go on with the new ones.                                     *)
CountMatchesList == count = Len(queue)

(* A daemon that hands a request to libfuse hands it to a session that     *)
(* exists.                                                                 *)
ServesLiveSession ==
  \A d \in Daemons : dstate[d] = "serve" => session = "alive"

(* A caller whose request an initialisation unlinked never returns.        *)
DroppedWaits == \A t \in dropped : tpc[t] = "wait"

-------------------------------------------------------------------------------
(* The inductive invariant.  A waiting caller's request is in one place:   *)
(* linked once, with one daemon, or unlinked.                              *)
Linked == 1 .. Len(queue)

PlaceInv ==
  /\ \A i, j \in Linked : queue[i] = queue[j] => i = j
  /\ \A i \in Linked : tpc[queue[i]] = "wait" /\ queue[i] \notin dropped
  /\ \A d \in Daemons : dstate[d] = "serve" =>
       /\ serving[d] \in Threads \ dropped /\ tpc[serving[d]] = "wait"
       /\ \A i \in Linked : queue[i] # serving[d]
       /\ \A e \in Daemons : dstate[e] = "serve" /\ serving[e] = serving[d] => e = d

(* Daemons are started for a registered session only, and with -s a        *)
(* registered session is never destroyed.                                  *)
SessionInv ==
  /\ \A d \in waiters : dstate[d] = "asleep"
  /\ \A d \in Daemons : dstate[d] # "none" => registered
  /\ bpc \in {"mount", "loop", "blocked"} => session = "alive"
  /\ registered => bpc \in {"loop", "blocked", "gone"}
  /\ SingleThread /\ registered => bpc # "gone"

IndInv == TypeOK /\ CountMatchesList /\ PlaceInv /\ DroppedWaits /\ SessionInv

-------------------------------------------------------------------------------
(* The last mount has no daemon: there was no session, its thread could    *)
(* not be created, or it could not allocate its buffer.                    *)
NoDaemon == startRc # "started" \/ dstate[mounts] = "exited"

(* A request that no initialisation unlinks is answered, provided the last *)
(* mount got its daemon: the sleepers a mount cuts off are made up for by  *)
(* the daemon it starts.                                                   *)
LinkedIsServed ==
  \A t \in Threads : tpc[t] = "wait" ~> (tpc[t] = "idle" \/ t \in dropped \/ NoDaemon)

(* fuse_ukfs_queue_init: "Initialize semaphore with count 0 (no pending    *)
(* requests)": there are none when it runs.                                *)
NothingPendingAtInit == dropped = {}
===============================================================================
