# UKFS-FUSE: models, checks and proofs

UKFS-FUSE lets an unmodified low-level libfuse backend serve a file system to a
Unikraft unikernel.  There is no kernel device: application threads enter the
`ukfs` driver, the driver queues a request, a daemon thread turns it into a FUSE
message and calls libfuse in the same address space, and libfuse's reply functions
write the answer straight into the waiting thread's request.

This directory models that system in TLA+, checks it with TLC and proves its core
with TLAPS.  `PROJECT.json` has the machine-readable inventory: components, runs,
mutants, the map from definitions to source lines, findings, hazards, theorems.

## The system

| part | source | state it keeps | operations |
|---|---|---|---|
| request queue | `libs/ukfusefs/fuse_queue.c`, `include/uk/fuse.h` | one global list, a mutex, a counting semaphore | init, push, pop |
| daemon thread | `libs/ukfusefs/fuse_daemon.c` | message buffer, request in hand | start, pop, translate, dispatch |
| driver: calls | `libs/ukfusefs/ukfs-fuse.c` | the request on each caller's stack, the request counter | lookup, getstat, read, open, listdir |
| driver: file objects | `ukfs-fuse.c` | `struct fusefs_file`: reference count, inode, handle, parent | alloc, graft, lazy open, release |
| driver: mount | `ukfs-fuse.c` | none of its own; resets the queue, starts a daemon | vopen |
| libfuse dispatch, replies | `libs/libfuse/lib/fuse_lowlevel.c` | `struct fuse_req`, session list | process_buf, do_*, reply_* |
| libfuse session | `fuse_lowlevel.c` | the registered session | new, mount, loop, destroy |
| libfuse interrupts | `fuse_lowlevel.c` | list of requests, list of interrupts, reference counts | interrupt, check, free |
| libfuse notifications | `fuse_lowlevel.c` | list of retrievals | notify, retrieve, notify_reply |
| libfuse INIT | `fuse_lowlevel.c`, `include/fuse/fuse_common.h` | `struct fuse_conn_info`: capabilities, wanted flags, sizes, limits | do_init, feature flags, apply_conn_info_opts |
| libfuse data vectors | `lib/buffer.c` | positions in two vectors | copy, advance |
| libfuse options, mains | `lib/fuse_opt.c`, `lib/helper.c`, `apps/*/hello_ll.c` | argument list, options that stay, what is allocated | parse, default subtype, daemonize, main |
| hello_ll backend | `apps/*/hello_ll.c` | none | getattr, lookup, readdir, open, read |
| applications | `apps/*/main.c` | none | start backend, wait, mount, test |

How they interact.  The driver and the daemon share the queue; the daemon, libfuse
and the backend share a pointer into the caller's stack frame, passed to libfuse
disguised as a channel; the caller and the reply function share the `done`
semaphore.  The session is passed from the backend thread to mount through one
global pointer.

What is hard.  The semaphore and the mutex of the queue are not taken together, so
pushes and pops overlap; frames on the stack are kept alive by a semaphore alone;
replies may come later and from another thread; six allocations can fail between a
call and its return, each with its own clean-up; a file object is used by calls that
sleep while other threads close, unmount or open it; every mount initialises the
global queue again; cursors, sizes and offsets are byte counts with padding, a cut
and a 32-bit field; a copy between vectors keeps two positions in step over short and
repeated system calls; a second INIT finds what the first left behind; options are parsed,
written back and parsed again.  `hazards` in `PROJECT.json` lists each at its line with the
properties aimed at it.

## Modules

**`RequestService`** is the abstract specification of the transport: a thread
calls, is answered once with an outcome its opcode allows, and returns it.

**`UkfsBridge`** is the transport.  A request is named by its `unique` number, which
also stands for its address.  Thread steps: `Begin` (build the request),
`PushLock`/`PushInsert`/`PushUp` (push), `Wake` (down on `done` and the rest of the
caller).  Daemon steps: `PopDown`/`PopLock`/`PopRemove` (pop), `DispatchUnknown`,
`Dispatch`, `DispatchAllocFails`, `HandlerReturns`.  Backend steps: `ReplyFill`
(the reply fields), `ReplyDone` (up `done`, free the `struct fuse_req`),
`ReplyUnadapted` (`fuse_reply_iov`, `fuse_reply_data`).  The list operations read the
list when the lock is taken and write it back when it is released, so a missing lock
shows as a lost update.  `ReplyDone` joins the up and the free: after the up nothing
follows the pointer any more (`fuse_chan_put` is an empty function here).  The five callers have the same shape and differ in `Decode` (what
they make of a reply), `Kept` and `Freed`.  The replies of a backend are a parameter
(`ReplyStyles`, `Implemented`), and so are the allocations that fail
(`FailingAllocs`: the name copy, the child object, the reply copy, the
`struct fuse_req`) and whether handlers may reply later (`MayDefer`).  The opcode
`OTHER` stands for a client of the public queue interface with an opcode the
dispatch table lacks.

**`FuseFile`** is the file objects under the descriptor table, the mount table and
calls in progress: counts, graft, lazy open with its race, reuse of addresses, and a
backend that gives every open its own handle.  The virtual file system above is
external: a call on a descriptor holds a reference to the object until it returns.

**`DirStream`** and **`ReadStream`** are the two byte-level algorithms of the driver
together with hello_ll's side: listing a directory through a cursor, and scattering a
read over an I/O vector.  Names are lengths, bytes are positions; offsets, padding,
cut and field width are kept.  `DirStream` fills hello_ll's entry buffer entry by entry
(`DirbufAdd`) before the first call - hello_ll builds the same buffer again for every
READDIR - and `ReadStream` takes one step per round of the two loops of `fusefs_read`
(`AddLength`, `Scatter`), with the READ and its answer (`ReadSent`, `ReadNoMemory`) in between.

**`UkfsMount`** is start-up and mounting: backend main, registered session,
repeated `vopen`, daemons asleep on a semaphore that is initialised again.  Its steps
lie between two blocking points of Unikraft's cooperative scheduler, because the
effects it is about need no finer ones.

**`SessionRequests`** is the rest of a libfuse session: the life of `struct fuse_req`
for a message of any opcode.  Workers receive messages (`Receive*`: allocation, the
refusals of process_buf), list them (`Accept` with `check_interrupt`), and dispatch them
(`HandToBackend`, `Decline`, `DoInit`, `DoDestroy`, `DoStatx`, `DoNotifyReply`).  An
INTERRUPT takes the steps of `find_interrupted` between its locks (`InterruptFinds` to
`InterruptUnref`) or waits in `se->interrupts`.  The backend registers callbacks
(`SetFunc`, `SetFuncDone`), answers (`Reply`, then `FreeReq`) and retrieves (`Retrieve`,
`RetrieveSend`).  A critical section of `se->lock` is one step; `req->lock`, held across
the callback, is explicit.  The handlers appear as the sets they form in the file and as
three tables: `Entries` (which entry of the backend serves an opcode), `Lacking` (the
answer when there is none) and `ArgErrors`.  Assumed of the sender: uniques are
distinct, also from retrieval numbers (`notify_ctr` counts apart from them); INIT and
DESTROY are sent while nothing else is under way.  Assumed of the backend: it answers
once, does not answer a request inside its own interrupt callback (the unlock after
the callback in `fuse_req_interrupt_func` would touch freed memory), and an `op.init`
that turned interrupts off does not turn them on again.

**`BufCopy`** is `fuse_buf_copy` with one step per system call (`WriteCall`, `ReadCall`,
`FillCall`, `DrainCall`, each with the result it returns).  A byte is its position in the
source, so that what arrives can be compared with what should.  `NextPiece` is the caller
that reads one message into several destinations.  The splice path is not compiled, so
`FUSE_BUF_FORCE_SPLICE`, documented to fail then, is ignored.  Sums over a vector are numbers
of bytes: `fuse_buf_size` is the cardinality of `Room`.

**`DataVectors`** names the bytes of a vector of buffers by buffer and offset and puts them in
order, for the properties of `ReadStream` and `BufCopy`.

**`Replies`** is every reply function: the five adapted ones, which store the answer and
wake the caller, and the others, which allocate (`Alloc`), copy (`CopyStep`, an instance of
`BufCopy`), write to the device (`Send`, `SendFails`) and free (`Cleanup`).  It extends
`BufCopy`.  The `EINVAL` of `fuse_reply_ioctl_retry` on 32-bit machines is left out.

**`OptParse`** is `fuse_opt_parse`, one step per argument, with the two tables it is run
with, `fuse_helper_opts` and `conn_info_opt_spec`.  A text is a sequence of tokens in which
commas and backslashes are tokens of their own, because the escapes are about these.
**`BackendMain`** extends it with the two programs that parse a command line:
hello_ll's `main`, and `fuse_main_real`, which this build always refuses.

**`Connection`** is INIT and DESTROY as they change `struct fuse_conn_info`, step by step as
in `_do_init` (`Capable`, `DefaultCaps`, `OpInit`, `Accepts`, `BufferSized`, `OutFlags`,
`Congested`), and the guards of the notifications.  `OpInit` has one case for each way a
backend may state what it wants.  A session is created with `got_init` set, so an INIT is
only taken after a DESTROY.  An INIT after a refused one is taken too: `exited` stops a
receive loop, not `fuse_session_process_buf`.

`MCUkfsBridge`, `MCFuseFile`, `MCUkfsMount` and `MCSessionRequests` add model values,
symmetry and the mixes of traffic for TLC.  `MCDataPaths` checks `DirStream`, `ReadStream`,
`BufCopy` and `Replies`, and `MCStartup` checks `BackendMain` and `Connection`: each
behaviour runs one of the machines while the others rest, so that related questions share
a run.  The modules named `...Proofs` hold the theorems: one each for `UkfsBridge`,
`FuseFile`, `UkfsMount`, `SessionRequests`, `BufCopy` and `Replies`; `DataPathsProofs` for
`DirStream`, `ReadStream` and the machines of `MCDataPaths` together; `StartupProofs` for
`OptParse`, `BackendMain`, `Connection` and the machines of `MCStartup` together.

## Runs

Passing:

| run | question |
|---|---|
| `bridge_faults` | Does the transport keep its invariants, and refine `RequestService`, with everything failing that can? |
| `bridge_live` | Does every call return, and does the transport refine the fair service, when the backend answers through adapted reply functions and `struct fuse_req` can be allocated? |
| `file_sharing` | Are file objects counted, alive under sleeping calls, and read with their own handle, with racing opens, closes and unmounts? |
| `data_paths` | Does a listing give every entry once, in order and whole, across failed calls, and end (`ListedInOrder`, `ListingCompletes`)?  Do reads with vectors of any shape deliver the whole file (`ScatterExact`, `ReadsWholeFile`)?  Does a copy deliver each byte once and in its place, whatever the system calls return, and report how many (`CopiedInOrder`, `PositionsInStep`)?  Does every reply function use up its request once, free its memory and tell the caller of a failure (`ConsumedOnce`, `FailureReported`)? |
| `startup` | Do options that stay come out of both parses as they went in (`OptionsSurvive`)?  Is everything freed on every way out of main (`CleanExit`)?  Does INIT enable what the backend chose and the kernel offers, size the session for what it tells the kernel (`FlagsAsChosen`, `LimitsKept`), and does a notification go only to a kernel that knows it (`NotifiedAsAgreed`), over repeated and refused INITs? |
| `session_requests` | Is every `struct fuse_req` freed once and not used afterwards, is no interrupt lost, and is every message concluded? |
| `mount_again` | Does the queue survive repeated mounts, is the daemon's session alive, and are the requests that stay linked served? |

Disagreements between the code and what the repository says of it:

| run | the repository says | the code does |
|---|---|---|
| `bridge_reply_data` | `fuse_lowlevel.h:572`: `fuse_reply_iov` and `fuse_reply_data` are valid replies to read | both bypass the waiting thread, which never wakes |
| `bridge_negative` | `fuse_lowlevel.h:66`: in lookup, inode 0 is a negative entry | the caller gets a file with inode 0 |
| `file_release` | `fuse_lowlevel.h:664`: one release for every open | RELEASE is never sent |
| `mount_pending` | `fuse_queue.c:16`: no pending requests when the queue is initialised | a second mount initialises it under pending requests |
| `opt_separator` | `fuse_opt.c:388`: a `--` that is the last argument is removed | it stays when options were kept, and the default subtype is then added behind it, where the next parse takes it for a plain argument |

More remarks that need no run.  The size field of a READ has 32 bits
(`ukfs-fuse.c:90`), so a vector of a multiple of 2^32 bytes reads 0 bytes, which
`ukfs-fuse.c:100` takes for the end of the file: the exception `ReadsWholeFile` states.
A failed `fuse_daemon_start` is ignored (`ukfs-fuse.c:328`): the mount succeeds and
its calls sleep for ever, the exception `NoDaemon` of `LinkedIsServed`.  The comment
at `ukfs-fuse.c:268` calls the cursor of a listing an entry index; it is a byte offset.
`_do_statx` is compiled without `HAVE_STATX` and neither answers nor frees its request;
neither does a NOTIFY_REPLY that matches no retrieval: the exceptions of
`EveryMessageConcluded`.  An INIT whose `op.init` sets `no_interrupt`, as hello_ll's
does, is freed while still linked in `se->list`; the list is not walked or extended
while interrupts are off, which is the condition in `NoUseAfterFree`.

Of the replies: `fuse_reply_err` does not check the range of its error, which
`fuse_send_reply_iov_nofree` does; a function with no back-pointer to a caller frees the request and tells nobody.  Of
INIT: `get_max_read` is a stub that returns 0 while a session starts with 131072, so an
INIT is only accepted when `op.init` sets `max_read` to 0, and hello_ll's would be refused;
`_do_init` raises the buffer to the 8192 bytes `fuse_kernel.h:686` requires, then cuts
`se->bufsize` to `max_write` and a header, below them for a small `max_write`: `LimitsKept` ties
the two together and claims no minimum; `fuse_lowlevel_notify_store` alone does not ask for `got_init`
(the exception in `NotifiedAsAgreed`) and `fuse_lowlevel_notify_poll` for no version; `want`, unlike `want_ext`, is not reset, so a backend
that changes it starts from what an earlier INIT left (the model's kernel offers the same
each time, for which `FlagsAsChosen` holds).  Of the options: `atomic_o_trunc` and
`readdirplus=yes` are parsed but never enable anything (`fuse_common.h:738`, `:747`).  Of
main: a failed parse leaks the mount point and the arguments, `fuse_daemonize` its pipe
(the exceptions in `CleanExit`), and `fuse_session_destroy` closes descriptor 0 of a
session that never opened one.

Visible in `DispatchAllocFails`: when `fuse_ll_alloc_req` fails, the
caller of that request sleeps for ever.  `bridge_faults` therefore does not check for
deadlock, and `bridge_live` leaves that allocation out.

### Bounds

`bridge_faults`: two threads, one daemon and three requests let one thread issue a new
request while an earlier one is in any phase, with pushes on both sides of a pop; the
theorems remove these bounds.  `bridge_live` takes two requests over all opcodes, with
OPEN and READDIR not implemented.  `file_sharing`: two addresses, so a freed object's
address is reused while another is in use; two handles, so racing opens get different
ones.  `data_paths`: names of 1, 9 and 16 bytes give entries of 32 and 40 bytes, and the
page of 40 bytes (4096 in the code) both cuts entries and is filled exactly; files of up to
seven bytes are read with up to three buffers of 0 to 3 bytes, and `SizeMod`, the range of
the size field, is 5 instead of 2^32, so that some totals wrap; vectors of one and two
buffers, of every kind and of sizes that end before, on and behind each other, with an
intermediate buffer of 2 bytes (4096 in the code), so that a buffer takes several rounds; a
source is read on while its earlier destinations have fewer than `MaxPieces` = 2 buffers, and
the empty vector is among the sources.
`startup`: every text of up to four tokens, and every sequence of up to three of 14
arguments; kernels on both sides of every version INIT asks for (7.6, 7.13, 7.18, 7.38,
7.44) with six sets of flags; three INITs, so that a refused one can lie between two others.
`session_requests`: two workers and three messages let two INTERRUPTs meet one target in
every order, and let a request follow DESTROY and INIT; `Traffic` says which opcodes occur
together, one of each class of handler; a request registers a callback once and takes it
back once.
`mount_*`: three mounts give two generations of stranded daemons.

### Fairness

`FairSpec` of `UkfsBridge`: weak fairness for each thread inside a call, each daemon
and the backend's answer to each request.  Threads of Unikraft's scheduler that can run
are run in turn; the mutex is held for a bounded number of instructions, so an agent
waiting for it is continuously able to proceed in the end; that the backend answers is
what the libfuse interface asks of it.  Nothing is assumed of a thread between calls.
`UkfsMount` assumes the same of its daemons.  For `ListingCompletes` a reader goes on
calling with a buffer that holds an entry; a call that cannot allocate fails and is repeated.
`SessionRequests` assumes that workers go on inside process_buf, that callbacks return
and that the backend answers; a lock is free in the end because each request takes it a
bounded number of times, so weak fairness is enough.

## Proofs

TLAPS proves the theorems below for every value of the constants that satisfies the
named assumptions; TLC checks the same formulas on the runs' instances and evaluates the
assumptions there.  Each proof has one shape: an inductive invariant, its truth in the
initial state, its preservation by every action (one step per action, one below it per
conjunct the action can disturb), and the properties as consequences.  No property in
the tables is inductive alone, and each section says what had to be added.

### The transport: `UkfsBridgeProofs`

For any finite disjoint sets of threads and daemons, any number of requests, any
backend and any failing allocations (`ThreadsAssumption`, `BoundAssumption`,
`BackendAssumption`):

| theorem | statement |
|---|---|
| `IndInvariant` | `Spec => []IndInv` |
| `TypeCorrect` | `Spec => []TypeOK` |
| `PopSafe` | `Spec => []PopFindsRequest`: the assertion in pop never fails |
| `FrameSafety` | `Spec => []FramesOutliveUse`: no pointer into a dead stack frame |
| `OneService` | `Spec => []ServedOnce` |
| `LeakFree` | `Spec => []NoLeak` |
| `StableReply` | `Spec => ReplyStable`: a signalled reply is not written |
| `Implementation` | `Spec => ImplementsService`: the transport refines `RequestService` |

* `MutexInv`: the lock's holder is the one agent in a critical section and what it
  read is still the list; hence `PushInsert` and `PopRemove` really append and remove.
* `CountInv`: the length of the list is the semaphore's count, plus the daemons between
  down and unlink, plus the threads between link and up.  With a daemon in the former
  set the list is not empty: `PopSafe`.
* `CallerInv`: a thread in a call has a request of its own, numbered below the counter,
  so a new request meets no old pointer, signal or buffer.
* `FramesOutliveUse`, `ServedOnce` and `SignalledOwned` say that a request has one
  position; each step moves it from one position to the next, and only `Wake`, which
  needs `done`, ends the frame.
* `BufferInv` and `NoLeak`: a reply buffer exists only beside a reply without error, so
  the error return, which does not free it, has none to free.
* The refinement maps a call whose request is signalled to "answered", with what the
  caller will decode as its answer; `Begin` is the abstract call or its refusal, `ReplyDone` and
  `DispatchUnknown` the answer, `Wake` the return, and every other step stutters.  It
  needs `AnswerInv` beside `IndInv`: the reply in a request that a backend is answering
  is one its opcode allows, and what a daemon translates is in the dispatch table.

TLC checks `IndInv` in `bridge_faults`.

### File objects: `FuseFileProofs`

For any finite sets of threads, descriptors and addresses and any number of opens
(`FileAssumption`): `Inductive`, `TypeCorrect`, `ReferencesBalance` (`RefsCounted`),
`CallsKeepTheirFile` (`CallKeepsFile`), `ReadsUseTheirHandle` (`ReadUsesItsHandle`).
`RefsCounted` counts the holders of an object with the cardinality of three sets, so the
work is in showing how each action changes them.  `ReadUsesItsHandle` is about a READ that
was sent after two waits; `OpenInv` carries what the reader knows from wait to wait, and
`HandleInv` says that another reader's handle in the same object is for the same inode.

### Mounting: `UkfsMountProofs`

For any finite set of threads and any number of mounts (`MountAssumption`):
`Inductive`, `TypeCorrect`, `PopFindsRequest` (`CountMatchesList`), `DroppedNeverReturn`
(`DroppedWaits`: whoever's request a later mount unlinks waits in every later state) and,
under the further assumption `SingleThread` (the `-s` that the applications pass to the backend),
`SessionOutlivesDaemons` (`ServesLiveSession`).  `PlaceInv` gives a waiting request one
place, which makes a dropped one unreachable; `SessionInv` orders the life of the session
and the start of daemons.

### Requests of a session: `SessionRequestsProofs`

For any finite set of workers, any number of messages and any traffic
(`SessionAssumption`): `Inductive`, `TypeCorrect`, `ReferencesExact` (`RefsExact`),
`FreedNeverUsed` (`NoUseAfterFree`), `CallbackReached` (`CallbackNotLost`),
`CallbackWithdrawn` (`CallbackQuiet`), `InterruptKept` (`InterruptNotLost`).
The invariant adds what each worker may be working on in each step (`WorkerInv`), what
the two lists contain (`ListInv`), what a message can have done by the step it is in
(`MessageInv`), who has `req->lock` and what it leaves (`LockInv`), and that INIT is alone
(`OffInv`), without which switching interrupts off could strand a reference.
`NoUseAfterFree` follows: a reference that is counted keeps the request allocated.

### Data: `DataPathsProofs`, `BufCopyProofs`, `RepliesProofs`

Listing, for directories of any size whose entries fit a reply (`PageAssumption`; without
that the driver decodes a torn entry): `DirInductive`, `ListingInOrder` (`ListedInOrder`).
`LaidOut` says that the entries lie one behind the other, each with the offset of its own
end; `CursorInv` that the cursor is the end of the last entry handed out.  Entries cannot
share a first byte, so the one decoded is the next one.

Reading, for files of any length, vectors of any shape and a size field of any width
(`ReadAssumption`): `ReadInductive`, `ReadsScatter` (`ScatterExact`), `ReaderGetsFile`
(`ReadsWholeFile`).  `ServedInv` says that the reply is the file from the offset on and
empty only at the end or for a wrapped size; `LoopInv` that the buffers before `ind` are
full while the reply lasts, that those from it on are empty, and that a vector with room
has a buffer with room, so that a read that stored nothing had nothing to store.

Copying, for vectors of any shape, an intermediate buffer of any size, any number of pieces
and whatever the system calls return (`BufAssumption`: a source has no more bytes than it
declares, and one in memory has all of them): `CopyInductive`, `CopyDelivers`
(`CopiedInOrder`), `PositionsAgree` (`PositionsInStep`), `CopyTypes`.  Both properties speak of
moments between calls of `fuse_buf_copy_one`; the invariant `CopyInv` carries them through
its system calls:

* `Written` says that the bytes in the destinations are those before the source's position
  moved on by what the running call has written, in the same order, and that they are
  `copied` and that many.  A write adds the same run of bytes on both sides.
* `Pointed` locates the next byte of the destination: the buffers before its position are
  full, the current one is filled up to it, the rest are empty.  So a `write` that appends
  and a `pwrite` at an offset put it in the same place.  This fails once the copy is over (the
  source ended first and the destination was not advanced), for which `Filled` remains.
* `TakenInv` does the same for a source descriptor without `FD_SEEK`: what has been read from
  it is what was copied plus what lies in the intermediate buffer.  A copy to a descriptor
  that fails loses what it had read, so this is not claimed after one; only a copy to
  memory, after which it holds, is continued by another piece.
* `CallInv` says what the functions below know (`moved`, the contents of the intermediate buffer), `CountInv`
  that the positions count what was copied.

The sums in these are cardinalities of sets of places, and a step that moves n bytes adds
n consecutive ones (`AddRun`): the induction over a vector that the sum of its sizes would
need does not arise.

Replies, for any vectors and whatever their copy meets (`RepliesAssumption`, `BufAssumption`):
`RepliesInductive`, `RequestUsedOnce` (`ConsumedOnce`), `FailureReachesCaller`
(`CallerLearns`), `SentInductive`, `FailuresReported` (`FailureReported`), `RepliesTypes`.
`ReplyInv` states what has been done to the request at each place of a reply function.
`SentInv` ties the reply to its copy: only a reply with `mbuf` copies, and it is sent when
the copy has ended without an error, at which `CopyInv` says that the result is the number
of bytes in `mbuf`.  Every step of a reply is one of the copy or leaves it alone, so
`CopyInv` holds here too.

`DataPathsTyped` (`TypeOK` of `MCDataPaths`) joins the four: a machine that rests keeps the
state it was given, and the one that runs keeps its invariant.

### Start: `StartupProofs`

INIT, for any kernels and backends, any limits and any number of INITs (`ConnAssumption`):
`ConnInductive`, `ChoiceReachesKernel` (`FlagsAsChosen`), `SizesAgree` (`LimitsKept`),
`NoticesKnown` (`NotifiedAsAgreed`).  `LeftoverInv` is the part that repeated INITs need:
what an earlier one left in `want` and in libfuse's memory of its own choice is not more
than this backend would choose again; `AgreedInv` ties the version in the session to the
one agreed on.

main, for any command line and any failures (no assumption): `MainInductive`, `ExitsClean`
(`CleanExit`), from what may be allocated at each label (`HeapInv`) and how main got there
(`WayOut`).

`StartupTyped` (`TypeOK` of `MCStartup`), for command lines of any length (`LinesAssumption`)
and everything `ConnAssumption` allows.  Of the parser it says that its cursor stays within
the arguments and the place of the first plain argument within what is kept; `ParseInv` adds
what the labels of the parser know.  Of the connection, that `want` and `want_ext` have only
capabilities libfuse knows or the backend asked for, also over repeated INITs (`Known`).

### Only model-checked

* Liveness and everything with fairness: `EveryCallReturns`, the refinement of the fair
  service, `LinkedIsServed`, `EveryMessageConcluded`, `ListingCompletes`.
* `OptionsSurvive`, the one invariant without a theorem: it compares the result of a parse
  with what a later parse makes of it.  Splitting and escaping a text are folds over its
  tokens, whose value for every text needs induction over data.

## Not modelled

Unpacking the arguments of the handlers.  The requests BATCH_FORGET makes up for a
backend with `forget` alone.  Messages in pipes (`FUSE_BUF_IS_FD`), which the port never
builds, and io_uring.  `allow_root`: `fuse_session_new` ignores its options.  The stubs return constants.  Message bytes are abstracted.  `fuse_session_receive_buf` and the custom I/O
of a session have no caller here; the splice paths are not compiled.  The splice
capabilities are therefore never offered and left out of `Connection`.  `fuse.h` declares the high-level
API, of which only stubs exist.  The test and
benchmark programs are straight-line code.  Unikraft's mutexes, semaphores, threads and
virtual file system are external and modelled from their use.

## Plan

1. done: `RequestService`, `UkfsBridge` with proofs, `FuseFile`, `DirStream`,
   `ReadStream`, `UkfsMount`, `SessionRequests`, `BufCopy`, `Replies`, `OptParse`,
   `BackendMain`, `Connection`.
2. done: proofs of all safety properties but `OptionsSurvive`, and of the refinement of
   `RequestService`.
3. left to TLC: liveness, and `OptionsSurvive`.
