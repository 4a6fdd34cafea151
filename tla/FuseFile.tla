------------------------------- MODULE FuseFile -------------------------------
(***************************************************************************)
(* The file objects of the driver (struct fusefs_file): who refers to one, *)
(* when it is freed, and which FUSE file handle its reads carry.  A lookup *)
(* makes a new object; the object is opened at the backend by its first    *)
(* read; reads and queries block on the transport (UkfsBridge) with the    *)
(* object in use, and any other thread may read the same object, close     *)
(* descriptors or unmount meanwhile.  The backend is one that gives each   *)
(* open its own handle.                                                    *)
(*                                                                         *)
(* The virtual file system above the driver (descriptor table, mount       *)
(* table, reference for the duration of a call) is external.               *)
(***************************************************************************)
EXTENDS Naturals, FiniteSets

CONSTANTS
  Threads,    \* application threads
  Fds,        \* descriptors of the descriptor table
  Files,      \* addresses at which the driver allocates file objects
  Outer,      \* the directory of the parent file system that is mounted over
  Nodes,      \* inode numbers below the root that a lookup may find
  Root,       \* FUSE root inode
  Openable,   \* inodes whose OPEN the backend accepts
  MaxOpens    \* bound: how many handles the backend gives out

AllFiles == Files \cup {Outer}
NoFile == "none"                    \* NULL, the address of no object

ASSUME FileAssumption ==
  /\ IsFiniteSet(Threads) /\ IsFiniteSet(Fds) /\ IsFiniteSet(Files)
  /\ Outer \notin Files /\ NoFile \notin AllFiles
  /\ Root \notin Nodes /\ Openable \subseteq Nodes \cup {Root}
  /\ MaxOpens \in Nat

NotOpen == 0                        \* (uint64_t)-1
Handles == 1 .. MaxOpens

VARIABLES
  live,      \* allocated file objects
  refs,      \* reference counts, of the driver's objects and of Outer
  node,      \* ff->nodeid
  fh,        \* ff->fh
  upref,     \* the objects with ff->upref set (to Outer)
  mnt,       \* mount table: the root object, NoFile when not mounted
  fd,        \* descriptor table
  pc, arg,   \* per thread: where it is, and the object of its call
  sent,      \* per thread: inode and handle of its last request
  got,       \* per thread: handle in the reply to its OPEN
  opens      \* backend: the handles it gave out, each with its inode

fileVars == <<live, refs, node, fh, upref>>
tableVars == <<mnt, fd>>
callVars == <<pc, arg, sent, got>>
vars == <<live, refs, node, fh, upref, mnt, fd, pc, arg, sent, got, opens>>

Phases == {"idle", "lookup", "query", "open", "refused", "opened", "send", "read"}
Inos == Nodes \cup {Root}

TypeOK ==
  /\ live \subseteq Files
  /\ refs \in [AllFiles -> Nat]
  /\ node \in [Files -> Inos]
  /\ fh \in [Files -> Handles \cup {NotOpen}]
  /\ upref \subseteq Files
  /\ mnt \in Files \cup {NoFile}
  /\ fd \in [Fds -> AllFiles \cup {NoFile}]
  /\ pc \in [Threads -> Phases]
  /\ arg \in [Threads -> AllFiles \cup {NoFile}]
  /\ sent \in [Threads -> [ino : Inos, fh : Handles \cup {NotOpen}]]
  /\ got \in [Threads -> Handles \cup {NotOpen}]
  /\ opens \subseteq Handles \X Inos

Init ==
  /\ live = {}
  /\ refs = [f \in AllFiles |-> IF f = Outer THEN 1 ELSE 0]
  /\ node = [f \in Files |-> Root]
  /\ fh = [f \in Files |-> NotOpen]
  /\ upref = {}
  /\ mnt = NoFile
  /\ fd = [n \in Fds |-> NoFile]
  /\ pc = [t \in Threads |-> "idle"]
  /\ arg = [t \in Threads |-> NoFile]
  /\ sent = [t \in Threads |-> [ino |-> Root, fh |-> NotOpen]]
  /\ got = [t \in Threads |-> NotOpen]
  /\ opens = {}

-------------------------------------------------------------------------------
(* References.  The last release calls fusefs_release, which releases the  *)
(* mount point above a grafted root and frees the object.                  *)
LastRef(f) == refs[f] = 1 /\ f \in Files

RefsWithout(f) ==
  [g \in AllFiles |->
     IF g = f THEN refs[g] - 1
     ELSE IF g = Outer /\ LastRef(f) /\ f \in upref THEN refs[g] - 1 ELSE refs[g]]

LiveWithout(f) == live \ {g \in {f} : LastRef(f)}
UprefWithout(f) == upref \ {g \in {f} : LastRef(f)}

Acquire(f) == refs' = [refs EXCEPT ![f] = @ + 1]
AcquireNot(f) == UNCHANGED refs             \* mutant: uk_file_acquire is missing

(* fusefs_lookup's and fusefs_graft's own uk_file_acquire.                 *)
AcquireTarget(f) == Acquire(f)

Release(f) ==
  /\ refs' = RefsWithout(f)
  /\ live' = LiveWithout(f)
  /\ upref' = UprefWithout(f)

AllocStale(f, ino) ==       \* mutant: ff->fh is not initialised
  /\ node' = [node EXCEPT ![f] = ino]
  /\ UNCHANGED fh

(* fusefs_file_alloc: the fields of the object at a free address f.        *)
Alloc(f, ino) ==
  /\ node' = [node EXCEPT ![f] = ino]
  /\ fh' = [fh EXCEPT ![f] = NotOpen]

(* fusefs_vopen: the root object, whose reference the mount table keeps.   *)
Vopen(f) ==
  /\ mnt = NoFile
  /\ f \notin live
  /\ Alloc(f, Root)
  /\ live' = live \cup {f}
  /\ refs' = [refs EXCEPT ![f] = 1]
  /\ mnt' = f
  /\ UNCHANGED <<upref, fd, callVars, opens>>

GraftSwapped ==             \* mutant: the reference is stored the wrong way round
  /\ mnt # NoFile /\ mnt \notin upref
  /\ AcquireTarget(mnt)
  /\ upref' = upref \cup {Outer}
  /\ UNCHANGED <<live, node, fh, tableVars, callVars, opens>>

(* fusefs_graft: the root remembers the directory it covers.               *)
Graft ==
  /\ mnt # NoFile
  /\ mnt \notin upref                                  \* UK_ASSERT(!ff->upref)
  /\ AcquireTarget(Outer)
  /\ upref' = upref \cup {mnt}
  /\ UNCHANGED <<live, node, fh, tableVars, callVars, opens>>

(* The mount goes away; descriptors and calls keep the root alive.         *)
Unmount ==
  /\ mnt # NoFile
  /\ Release(mnt)
  /\ mnt' = NoFile
  /\ UNCHANGED <<node, fh, fd, callVars, opens>>

Close(n) ==
  /\ fd[n] # NoFile
  /\ Release(fd[n])
  /\ fd' = [fd EXCEPT ![n] = NoFile]
  /\ UNCHANGED <<node, fh, mnt, callVars, opens>>

-------------------------------------------------------------------------------
(* fusefs_lookup of "" or ".": the directory itself ...                    *)
LookupSelf(n) ==
  /\ mnt # NoFile /\ fd[n] = NoFile
  /\ AcquireTarget(mnt)
  /\ fd' = [fd EXCEPT ![n] = mnt]
  /\ UNCHANGED <<live, node, fh, upref, mnt, callVars, opens>>

(* ... and of "..", from a root (out of the mount) or from any other       *)
(* object (itself).                                                        *)
LookupUp(n, f) ==
  LET target == IF f \in upref THEN Outer ELSE f IN
  /\ f \in live /\ (f = mnt \/ \E k \in Fds : fd[k] = f)
  /\ fd[n] = NoFile
  /\ AcquireTarget(target)
  /\ fd' = [fd EXCEPT ![n] = target]
  /\ UNCHANGED <<live, node, fh, upref, mnt, callVars, opens>>

(* A name in the root directory, by LOOKUP.                                *)
LookupStart(t) ==
  /\ pc[t] = "idle" /\ mnt # NoFile
  /\ Acquire(mnt)
  /\ arg' = [arg EXCEPT ![t] = mnt]
  /\ pc' = [pc EXCEPT ![t] = "lookup"]
  /\ sent' = [sent EXCEPT ![t] = [ino |-> node[mnt], fh |-> NotOpen]]
  /\ UNCHANGED <<live, node, fh, upref, tableVars, got, opens>>

(* The reply holds an entry and a descriptor takes the new object's        *)
(* reference.                                                              *)
LookupFound(t, n, f, ino) ==
  /\ pc[t] = "lookup" /\ fd[n] = NoFile /\ f \notin live
  /\ Alloc(f, ino)
  /\ refs' = [RefsWithout(arg[t]) EXCEPT ![f] = 1]
  /\ live' = LiveWithout(arg[t]) \cup {f}
  /\ upref' = UprefWithout(arg[t])
  /\ fd' = [fd EXCEPT ![n] = f]
  /\ arg' = [arg EXCEPT ![t] = NoFile]
  /\ pc' = [pc EXCEPT ![t] = "idle"]
  /\ UNCHANGED <<mnt, sent, got, opens>>

(* A call returns and gives its reference back.                            *)
Return(t) ==
  /\ Release(arg[t])
  /\ arg' = [arg EXCEPT ![t] = NoFile]
  /\ pc' = [pc EXCEPT ![t] = "idle"]
  /\ UNCHANGED <<node, fh, tableVars, sent, got, opens>>

LookupFails(t) == pc[t] = "lookup" /\ Return(t)

-------------------------------------------------------------------------------
(* A call on a descriptor holds a reference until it returns.              *)
Enter(t, n) ==
  /\ pc[t] = "idle" /\ fd[n] \in Files
  /\ Acquire(fd[n])
  /\ arg' = [arg EXCEPT ![t] = fd[n]]

(* fusefs_getstat and fusefs_listdir: one request for ff->nodeid.          *)
Query(t, n) ==
  /\ Enter(t, n)
  /\ sent' = [sent EXCEPT ![t] = [ino |-> node[fd[n]], fh |-> NotOpen]]
  /\ pc' = [pc EXCEPT ![t] = "query"]
  /\ UNCHANGED <<live, node, fh, upref, tableVars, got, opens>>

QueryDone(t) == pc[t] = "query" /\ Return(t)

(* fusefs_read of an object that is not open: OPEN first.                  *)
ReadUnopened(t, n) ==
  /\ Enter(t, n)
  /\ fh[fd[n]] = NotOpen
  /\ sent' = [sent EXCEPT ![t] = [ino |-> node[fd[n]], fh |-> NotOpen]]
  /\ pc' = [pc EXCEPT ![t] = "open"]
  /\ UNCHANGED <<live, node, fh, upref, tableVars, got, opens>>

ReadOpened(t, n) ==
  /\ Enter(t, n)
  /\ fh[fd[n]] # NotOpen
  /\ pc' = [pc EXCEPT ![t] = "send"]
  /\ UNCHANGED <<live, node, fh, upref, tableVars, sent, got, opens>>

(* The backend accepts with a handle of its own, or refuses.               *)
BackendOpens(t, h) ==
  /\ pc[t] = "open" /\ sent[t].ino \in Openable
  /\ \A o \in opens : o[1] # h
  /\ opens' = opens \cup {<<h, sent[t].ino>>}
  /\ got' = [got EXCEPT ![t] = h]
  /\ pc' = [pc EXCEPT ![t] = "opened"]
  /\ UNCHANGED <<fileVars, tableVars, arg, sent>>

BackendRefuses(t) ==
  /\ pc[t] = "open"
  /\ pc' = [pc EXCEPT ![t] = "refused"]
  /\ UNCHANGED <<fileVars, tableVars, arg, sent, got, opens>>

(* Mutant: fusefs_read ignores the result of fusefs_do_open.               *)
OpenFailedIgnored(t) ==
  /\ pc[t] = "refused"
  /\ pc' = [pc EXCEPT ![t] = "send"]
  /\ UNCHANGED <<fileVars, tableVars, arg, sent, got, opens>>

OpenFailed(t) == pc[t] = "refused" /\ Return(t)

OpenSucceeded(t) ==
  /\ pc[t] = "opened"
  /\ fh' = [fh EXCEPT ![arg[t]] = got[t]]
  /\ pc' = [pc EXCEPT ![t] = "send"]
  /\ UNCHANGED <<live, refs, node, upref, tableVars, arg, sent, got, opens>>

(* The READ carries the handle the object has by then.                     *)
ReadSend(t) ==
  /\ pc[t] = "send"
  /\ sent' = [sent EXCEPT ![t] = [ino |-> node[arg[t]], fh |-> fh[arg[t]]]]
  /\ pc' = [pc EXCEPT ![t] = "read"]
  /\ UNCHANGED <<fileVars, tableVars, arg, got, opens>>

(* A read of no bytes asks for nothing.                                    *)
ReadNothing(t) == pc[t] = "send" /\ Return(t)

ReadDone(t) == pc[t] = "read" /\ Return(t)

Next ==
  \/ \E f \in Files : Vopen(f)
  \/ Graft
  \/ Unmount
  \/ \E n \in Fds : Close(n) \/ LookupSelf(n) \/ (\E f \in Files : LookupUp(n, f))
  \/ \E t \in Threads :
       \/ LookupStart(t) \/ LookupFails(t)
       \/ \E n \in Fds, f \in Files, ino \in Nodes : LookupFound(t, n, f, ino)
       \/ \E n \in Fds : Query(t, n) \/ ReadUnopened(t, n) \/ ReadOpened(t, n)
       \/ QueryDone(t)
       \/ \E h \in Handles : BackendOpens(t, h)
       \/ BackendRefuses(t) \/ OpenFailed(t) \/ OpenSucceeded(t)
       \/ ReadSend(t) \/ ReadNothing(t) \/ ReadDone(t)

Spec == Init /\ [][Next]_vars

-------------------------------------------------------------------------------
(* References to an object: mount table, descriptors, calls.               *)
MountRef(f) == IF mnt = f THEN 1 ELSE 0
FdsOn(f) == {n \in Fds : fd[n] = f}
CallsOn(f) == {t \in Threads : arg[t] = f}
Held(f) == MountRef(f) + Cardinality(FdsOn(f)) + Cardinality(CallsOn(f))

(* Every reference is counted, so an object is freed exactly when the last *)
(* one goes; the parent directory also counts the roots grafted on it.     *)
RefsCounted ==
  /\ \A f \in Files : refs[f] = Held(f) /\ (f \in live <=> refs[f] > 0)
  /\ refs[Outer] = 1 + Held(Outer) + Cardinality(upref)
  /\ upref \subseteq live

(* A call that sleeps on the transport comes back to an object that is     *)
(* still there, whatever was closed or unmounted while it slept.           *)
CallKeepsFile == \A t \in Threads : pc[t] # "idle" => arg[t] \in live

(* A READ names an inode and a handle that go together: the backend gave   *)
(* out that handle for that inode.  hello_ll asserts as much: its read     *)
(* handler relies on the refusal of OPEN for every inode but the file's.   *)
ReadUsesItsHandle ==
  \A t \in Threads : pc[t] = "read" => <<sent[t].fh, sent[t].ino>> \in opens

-------------------------------------------------------------------------------
(* The inductive invariant.  A thread has an object of the driver exactly  *)
(* while it is in a call.                                                  *)
CallInv ==
  \A t \in Threads : arg[t] \in Files \cup {NoFile} /\ (pc[t] = "idle" <=> arg[t] = NoFile)

(* The handle an object carries was given out for the object's inode.      *)
HandleInv ==
  \A f \in live : fh[f] # NotOpen => <<fh[f], node[f]>> \in opens

(* What a reader knows on its way to the READ: the OPEN it waits for names *)
(* its object's inode, which does not change while the call holds it; the  *)
(* handle in the reply is for that inode; and before the READ is sent the  *)
(* object has a handle, this reader's or another one's.                    *)
OpenInv ==
  \A t \in Threads :
    /\ pc[t] \in {"open", "opened"} => sent[t].ino = node[arg[t]]
    /\ pc[t] = "opened" => got[t] # NotOpen /\ <<got[t], node[arg[t]]>> \in opens
    /\ pc[t] = "send" => fh[arg[t]] # NotOpen

IndInv ==
  TypeOK /\ RefsCounted /\ CallInv /\ HandleInv /\ OpenInv /\ ReadUsesItsHandle

-------------------------------------------------------------------------------
(* "For every open call there will be exactly one release call": a handle  *)
(* that no object and no pending reply carries any more, while the file    *)
(* system is mounted, has been released.  The driver sends no RELEASE, so  *)
(* every handle given out is still open at the backend.                    *)
OpenIsReleased ==
  mnt # NoFile =>
    \A o \in opens :
      \/ \E f \in live : fh[f] = o[1]
      \/ \E t \in Threads : pc[t] = "opened" /\ got[t] = o[1]
===============================================================================
