------------------------------ MODULE Connection ------------------------------
(***************************************************************************)
(* What a session agrees on with the kernel in INIT, and which unsolicited *)
(* notifications it may send afterwards.  fuse_session_new starts out      *)
(* connected (got_init is 1), so that an INIT is taken only after a        *)
(* DESTROY, and what earlier INITs left in struct fuse_conn_info is still  *)
(* there.  Flags and capabilities are names without FUSE_ and FUSE_CAP_.   *)
(*                                                                         *)
(* uring.enable and buf_reallocable are never set in this build.           *)
(***************************************************************************)
EXTENDS Integers, FiniteSetsExt

CONSTANTS
  Kernels,     \* what the other side may be: version, flags, readahead
  Backends,    \* operations and what op.init does
  MaxInits,    \* bound: INITs of a behaviour
  NewerMinor   \* minor version of a kernel that starts with 8.x

HeaderSize == 4096        \* FUSE_BUFFER_HEADER_SIZE
PageBytes == 4096         \* getpagesize()
MinReadBuffer == 8192     \* FUSE_MIN_READ_BUFFER
MaxPagesPerReq == 32      \* FUSE_DEFAULT_MAX_PAGES_PER_REQ
U16 == 65536              \* 2^16
PagesOfU32 == 1048576     \* 2^32 bytes in pages

(* Capabilities with a flag of the same meaning in the first word ...      *)
BasicCaps == {"ASYNC_READ", "POSIX_LOCKS", "ATOMIC_O_TRUNC", "EXPORT_SUPPORT", "DONT_MASK",
              "FLOCK_LOCKS"}
CacheCaps == {"AUTO_INVAL_DATA", "READDIRPLUS", "READDIRPLUS_AUTO", "ASYNC_DIO",
              "WRITEBACK_CACHE", "NO_OPEN_SUPPORT", "PARALLEL_DIROPS", "POSIX_ACL",
              "HANDLE_KILLPRIV", "HANDLE_KILLPRIV_V2"}
LateCaps == {"CACHE_SYMLINKS", "NO_OPENDIR_SUPPORT", "EXPLICIT_INVAL_DATA", "SETXATTR_EXT"}

(* ... and in the second word, sent with INIT_EXT only.                    *)
HighCaps == {"DIRECT_IO_ALLOW_MMAP", "PASSTHROUGH", "NO_EXPORT_SUPPORT", "OVER_IO_URING"}
HighFlags == HighCaps \cup {"HAS_EXPIRE_ONLY", "REQUEST_TIMEOUT"}

FlagCaps == BasicCaps \cup CacheCaps \cup LateCaps \cup HighCaps
AllFlags == FlagCaps \cup HighFlags \cup {"MAX_PAGES", "INIT_EXT"}

(* What a handler of op.init may set in struct fuse_conn_info, how it asks *)
(* for capabilities, and those that a conn_info option stands for.         *)
Limits == {"max_read", "max_write", "max_readahead", "max_background", "congestion_threshold",
           "time_gran", "request_timeout"}
Styles == {"assign", "old", "direct", "both", "helpers", "options"}
EnableOptions == {"AUTO_INVAL_DATA", "ASYNC_DIO", "WRITEBACK_CACHE", "ASYNC_READ"}
DisableOptions == EnableOptions \cup {"READDIRPLUS", "READDIRPLUS_AUTO", "POSIX_LOCKS",
                                      "FLOCK_LOCKS"}

ASSUME ConnAssumption ==
  /\ \A k \in Kernels : k.minor \in Nat
  /\ \A b \in Backends :
       /\ b.style \in Styles
       /\ b.style = "options" => b.ask \subseteq EnableOptions /\ b.drop \subseteq DisableOptions
       /\ DOMAIN b.limits \subseteq Limits
       /\ \A f \in DOMAIN b.limits : b.limits[f] \in Nat
  /\ NewerMinor \in Nat /\ MaxInits \in Nat

(* The capabilities, those without a flag of their own included, and those *)
(* that the answer turns into a flag.                                      *)
Caps == FlagCaps \cup {"IOCTL_DIR", "EXPIRE_ONLY"}
ReplyCaps == FlagCaps \ {"NO_OPEN_SUPPORT", "NO_OPENDIR_SUPPORT", "OVER_IO_URING"}

VARIABLES
  kernel, backend,   \* chosen once
  conn,              \* the session's struct fuse_conn_info, and what goes with it
  agreed,            \* minor version agreed on, -1 while there is none
  told,              \* the last successful answer to INIT
  notice,            \* the last notification sent
  inits              \* INITs so far

connVars == <<kernel, backend, conn, agreed, told, notice, inits>>

None == [code |-> "none"]

(* What INIT reads or sets of struct fuse_conn_info, and of the session,   *)
(* where conn_want and conn_want_ext remember what libfuse itself set.     *)
ConnInfo == {"proto_minor", "max_write", "max_read", "max_readahead", "want", "max_background",
             "congestion_threshold", "time_gran", "request_timeout", "capable_ext", "want_ext"}
SessionFields == {"got_init", "exited", "bufsize", "conn_want", "conn_want_ext"}

(* fuse_session_new.                                                       *)
NewSession ==
  [got_init |-> TRUE, proto_minor |-> 31, exited |-> FALSE, bufsize |-> 0,
   capable_ext |-> {}, want |-> {}, want_ext |-> {}, conn_want |-> {}, conn_want_ext |-> {},
   max_read |-> 131072, max_write |-> 131072, max_readahead |-> 0, max_background |-> 0,
   congestion_threshold |-> 0, time_gran |-> 0, request_timeout |-> 0]

ConnFrom(k, b) ==
  /\ kernel = k /\ backend = b
  /\ conn = NewSession
  /\ agreed = conn.proto_minor
  /\ told = None /\ notice = None /\ inits = 0

ConnInit == \E k \in Kernels, b \in Backends : ConnFrom(k, b)

-------------------------------------------------------------------------------
fuse_set_feature_flag(c, S) ==
  LET able == S \cap c.capable_ext IN
  [c EXCEPT !.want_ext = @ \cup able, !.conn_want_ext = @ \cup able,
            !.want = @ \cup able, !.conn_want = @ \cup able]

fuse_unset_feature_flag(c, S) ==
  [c EXCEPT !.want_ext = @ \ S, !.conn_want_ext = @ \ S,
            !.want = @ \ S, !.conn_want = @ \ S]

ConvertNot(c) == c              \* mutant: a want set the old way is dropped

(* All capabilities are below bit 32, so lower_32_bits is the identity on  *)
(* them.  When both fields were changed nothing is converted; the caller   *)
(* ignores that error.                                                     *)
fuse_convert_to_conn_want_ext(c) ==
  IF c.want # c.conn_want /\ c.want_ext # c.want
  THEN IF c.want_ext # c.conn_want_ext THEN c ELSE [c EXCEPT !.want_ext = c.want]
  ELSE [c EXCEPT !.want = c.want_ext]

want_flags_valid(c) == c.want_ext \subseteq c.capable_ext

-------------------------------------------------------------------------------
(* What a handler of op.init may do with limits and capabilities.          *)
SetLimits(c, limits) ==
  [f \in DOMAIN c |-> IF f \in DOMAIN limits THEN limits[f] ELSE c[f]]

fuse_apply_conn_info_opts(c, limits, enable, disable) ==
  fuse_unset_feature_flag(
    fuse_set_feature_flag(SetLimits(c, limits), enable \cap EnableOptions),
    disable \cap DisableOptions)

(* hello_ll_init assigns conn->want; others change it, change want_ext, or *)
(* use the helpers.                                                        *)
OpInit(c) ==
  LET b == backend
      l == SetLimits(c, b.limits)
  IN CASE b.style = "assign" -> [l EXCEPT !.want = b.ask]
       [] b.style = "old" -> [l EXCEPT !.want = (l.want \ b.drop) \cup b.ask]
       [] b.style = "direct" -> [l EXCEPT !.want_ext = (l.want_ext \ b.drop) \cup b.ask]
       [] b.style = "both" -> [l EXCEPT !.want = (l.want \ b.drop) \cup b.ask,
                                        !.want_ext = l.want_ext \cup b.ask]
       [] b.style = "helpers" -> fuse_unset_feature_flag(fuse_set_feature_flag(l, b.ask), b.drop)
       [] b.style = "options" -> fuse_apply_conn_info_opts(c, b.limits, b.ask, b.drop)

InFlags(minor, offer) ==
  IF minor < 6 THEN {} ELSE IF "INIT_EXT" \in offer THEN offer ELSE offer \ HighFlags

Capable(minor, in) ==
  (in \cap FlagCaps)
    \cup (IF minor >= 38 \/ "HAS_EXPIRE_ONLY" \in in THEN {"EXPIRE_ONLY"} ELSE {})
    \cup (IF minor >= 18 THEN {"IOCTL_DIR"} ELSE {})

(* LL_SET_DEFAULT.                                                         *)
DefaultCaps ==
  LET has(ops) == ops \subseteq backend.ops IN
  {"ASYNC_READ", "AUTO_INVAL_DATA", "ASYNC_DIO", "IOCTL_DIR", "ATOMIC_O_TRUNC", "OVER_IO_URING"}
    \cup (IF has({"getlk", "setlk"}) THEN {"POSIX_LOCKS"} ELSE {})
    \cup (IF has({"flock"}) THEN {"FLOCK_LOCKS"} ELSE {})
    \cup (IF has({"readdirplus"}) THEN {"READDIRPLUS"} ELSE {})
    \cup (IF has({"readdirplus", "readdir"}) THEN {"READDIRPLUS_AUTO"} ELSE {})

(* What the kernel can do, before anybody asks for it.                     *)
Fresh(c, in) ==
  [c EXCEPT !.capable_ext = Capable(c.proto_minor, in), !.want_ext = {},
            !.max_readahead = IF c.proto_minor < 6 THEN 0
                              ELSE Min({c.max_readahead, kernel.readahead}),
            !.time_gran = 1]

(* The session after the version is accepted, op.init and the conversion.  *)
Wanted(c, in) ==
  LET d == fuse_set_feature_flag(Fresh(c, in), DefaultCaps)
  IN IF "init" \in backend.ops THEN fuse_convert_to_conn_want_ext(OpInit(d)) ELSE d

(* get_max_read is 0 in this build.                                        *)
Accepts(c) == want_flags_valid(c) /\ c.max_read = 0

(* The write buffer: what is left of the read buffer behind the header.    *)
BufferLeftAlone(c, in) ==       \* mutant: se->bufsize is not adapted
  LET most == PageBytes * MaxPagesPerReq + HeaderSize
      given == IF c.proto_minor >= 6 /\ "MAX_PAGES" \notin in THEN Min({c.bufsize, most})
               ELSE c.bufsize
      room == (IF given < MinReadBuffer THEN MinReadBuffer ELSE given) - HeaderSize
  IN [c EXCEPT !.max_write = Min({c.max_write, room})]

BufferNoMinimum(c, in) ==       \* mutant: FUSE_MIN_READ_BUFFER is not enforced
  LET write == Min({c.max_write, c.bufsize - HeaderSize})
  IN [c EXCEPT !.max_write = write, !.bufsize = write + HeaderSize]

BufferSized(c, in) ==
  LET most == PageBytes * MaxPagesPerReq + HeaderSize
      given == IF c.proto_minor >= 6 /\ "MAX_PAGES" \notin in THEN Min({c.bufsize, most})
               ELSE c.bufsize
      room == (IF given < MinReadBuffer THEN MinReadBuffer ELSE given) - HeaderSize
      write == Min({c.max_write, room})
  IN [c EXCEPT !.max_write = write, !.bufsize = write + HeaderSize]

(* max_pages is 16 bits wide; max_write - 1 wraps for a max_write of 0.    *)
MaxPages(write) == IF write = 0 THEN PagesOfU32 % U16
                   ELSE ((write - 1) \div PageBytes + 1) % U16

(* Background limits, for kernels that know them.                          *)
Congested(c) ==
  IF c.proto_minor < 13 THEN c
  ELSE LET most == Min({c.max_background, U16 - 1})
           asked == Min({c.congestion_threshold, most})
       IN [c EXCEPT !.max_background = most,
                    !.congestion_threshold = IF asked = 0 THEN (most * 3) \div 4 ELSE asked]

(* MAX_PAGES is looked up in the message whatever its version.             *)
OutFlags(c, in) ==
  {"BIG_WRITES"} \cup (kernel.flags \cap {"MAX_PAGES"}) \cup (in \cap {"INIT_EXT"})
    \cup (c.want_ext \cap ReplyCaps)
    \cup (IF c.request_timeout > 0 THEN in \cap {"REQUEST_TIMEOUT"} ELSE {})

(* outarg; the fields that a version does not know are cut off or 0.       *)
InitOut(c, in) ==
  [code |-> "INIT", flags |-> OutFlags(c, in), max_write |-> c.max_write,
   max_pages |-> IF "MAX_PAGES" \in kernel.flags THEN MaxPages(c.max_write) ELSE 0,
   max_readahead |-> c.max_readahead,
   max_background |-> IF c.proto_minor < 13 THEN 0 ELSE c.max_background,
   congestion_threshold |-> IF c.proto_minor < 13 THEN 0 ELSE c.congestion_threshold]

-------------------------------------------------------------------------------
(* INIT of a 7.x kernel.  A refused one has changed the session and marks  *)
(* it exited, which only a receive loop asks for: one that is handed over  *)
(* later is processed all the same.                                        *)
DoInit7 ==
  /\ ~conn.got_init /\ inits < MaxInits
  /\ inits' = inits + 1
  /\ LET in == InFlags(kernel.minor, kernel.flags)
         c == Wanted([conn EXCEPT !.proto_minor = kernel.minor], in)
         d == Congested(BufferSized(c, in))
     IN IF Accepts(c)
        THEN /\ conn' = [d EXCEPT !.got_init = TRUE]
             /\ agreed' = kernel.minor
             /\ told' = InitOut(d, in)
        ELSE /\ conn' = [c EXCEPT !.exited = TRUE]
             /\ UNCHANGED <<agreed, told>>
  /\ UNCHANGED <<kernel, backend, notice>>

(* A version before 7 is refused with EPROTO, a later one told ours and    *)
(* asked to come back; both leave their minor version in the session.      *)
DoInitOther(minor) ==
  /\ ~conn.got_init /\ inits < MaxInits
  /\ inits' = inits + 1
  /\ conn' = [conn EXCEPT !.proto_minor = minor, !.capable_ext = {}, !.want_ext = {}]
  /\ UNCHANGED <<kernel, backend, agreed, told, notice>>

DoDestroy ==
  /\ conn.got_init
  /\ conn' = [conn EXCEPT !.got_init = FALSE]
  /\ agreed' = -1
  /\ UNCHANGED <<kernel, backend, told, notice, inits>>

-------------------------------------------------------------------------------
Notified(code) ==
  /\ notice' = [code |-> code, agreed |-> agreed]
  /\ UNCHANGED <<kernel, backend, conn, agreed, told, inits>>

NotifyUnconnected(code) == Notified(code)      \* mutant: got_init is not asked

send_notify_iov(code) == conn.got_init /\ Notified(code)

(* No version is asked for: the handle comes from a POLL of the kernel.    *)
notify_poll == send_notify_iov("POLL")
notify_inval_inode == conn.proto_minor >= 12 /\ send_notify_iov("INVAL_INODE")
notify_increment_epoch == conn.proto_minor >= 44 /\ send_notify_iov("INC_EPOCH")
notify_inval_entry == conn.proto_minor >= 12 /\ send_notify_iov("INVAL_ENTRY")
notify_expire_entry ==
  /\ "EXPIRE_ONLY" \in conn.capable_ext /\ conn.proto_minor >= 12
  /\ send_notify_iov("EXPIRE_ENTRY")
notify_delete == conn.proto_minor >= 18 /\ send_notify_iov("DELETE")

(* The one notification that does not ask for got_init.                    *)
notify_store == conn.proto_minor >= 15 /\ Notified("STORE")

ConnNext ==
  \/ DoInit7 \/ (\E minor \in {31, NewerMinor} : DoInitOther(minor)) \/ DoDestroy
  \/ notify_poll \/ notify_inval_inode \/ notify_increment_epoch \/ notify_inval_entry
  \/ notify_expire_entry \/ notify_delete \/ notify_store

ConnSpec == ConnInit /\ [][ConnNext]_connVars

-------------------------------------------------------------------------------
ConnTypeOK ==
  /\ kernel \in Kernels /\ backend \in Backends
  /\ DOMAIN conn = ConnInfo \cup SessionFields
  /\ conn.want \cup conn.want_ext \subseteq Caps \cup backend.ask
  /\ conn.max_write \in Nat /\ conn.bufsize \in Nat
  /\ agreed \in Nat \cup {-1}
  /\ inits \in 0 .. MaxInits

(* The defaults of this kernel and backend.                                *)
GivenCaps ==
  DefaultCaps \cap Capable(kernel.minor, InFlags(kernel.minor, kernel.flags))

(* What the backend asked for, by the field it used.                       *)
ChosenCaps ==
  LET able == Capable(kernel.minor, InFlags(kernel.minor, kernel.flags))
      b == backend
  IN IF "init" \notin b.ops THEN GivenCaps
     ELSE CASE b.style = "assign" -> b.ask
            [] b.style \in {"old", "direct"} -> (GivenCaps \ b.drop) \cup b.ask
            [] OTHER -> (GivenCaps \cup (b.ask \cap able)) \ b.drop

(* The answer to INIT enables nothing that this kernel did not offer, with *)
(* the exception of BIG_WRITES, and exactly what the backend chose among   *)
(* that, by whichever of the old and the new field it chose it (changing   *)
(* both is an error) - also when the session has been through other INITs. *)
FlagsAsChosen ==
  told # None =>
    /\ told.flags \subseteq kernel.flags \cup {"BIG_WRITES"}
    /\ backend.style # "both" => told.flags \cap ReplyCaps = ChosenCaps \cap ReplyCaps

(* What the kernel was last told about sizes is what the session is sized  *)
(* for, whatever a later INIT changed before it was refused: a write fits  *)
(* the buffer behind the header, the pages hold a write, and the kernel    *)
(* is congested at most at its background limit.                           *)
LimitsKept ==
  told # None =>
    /\ told.max_write + HeaderSize = conn.bufsize
    /\ told.max_pages # 0 => told.max_pages * PageBytes >= told.max_write
    /\ told.congestion_threshold <= told.max_background
    /\ told.max_background < U16

(* A notification goes only to a kernel that agreed on a version that has  *)
(* it, whatever versions were offered meanwhile; POLL to one of any        *)
(* version, but only while one is agreed on; STORE also while none is.     *)
NotifiedAsAgreed ==
  notice # None =>
    \/ notice.code = "STORE" /\ notice.agreed = -1
    \/ notice.agreed >= CASE notice.code = "POLL" -> 0
                          [] notice.code \in {"INVAL_INODE", "INVAL_ENTRY"} -> 12
                          [] notice.code = "STORE" -> 15
                          [] notice.code = "DELETE" -> 18
                          [] notice.code = "EXPIRE_ENTRY" ->
                               IF "HAS_EXPIRE_ONLY" \in kernel.flags THEN 12 ELSE 38
                          [] notice.code = "INC_EPOCH" -> 44

-------------------------------------------------------------------------------
(* Toward the three: the session's record keeps its shape ...              *)
ShapeInv ==
  /\ DOMAIN conn = ConnInfo \cup SessionFields
  /\ conn.got_init \in BOOLEAN
  /\ \A f \in {"proto_minor", "max_write", "bufsize", "max_background",
                "congestion_threshold"} : conn[f] \in Nat

(* ... the version in it is the agreed one while it is connected ...       *)
AgreedInv ==
  /\ agreed = IF conn.got_init THEN conn.proto_minor ELSE -1
  /\ conn.got_init /\ told # None => agreed = kernel.minor
  /\ conn.got_init /\ "EXPIRE_ONLY" \in conn.capable_ext =>
       "HAS_EXPIRE_ONLY" \in kernel.flags \/ conn.proto_minor >= 38

(* ... the read buffer never outgrows the smallest one, which it replaces  *)
(* (fuse_session_new leaves bufsize 0) ...                                 *)
SizeInv == conn.bufsize <= MinReadBuffer

(* ... and what earlier INITs left behind is not more than what this       *)
(* backend would choose again: the memory of libfuse's own choice has only *)
(* the defaults, and the old field only what was chosen or given.          *)
LeftoverInv ==
  LET given == GivenCaps
      chosen == ChosenCaps
  IN IF "init" \in backend.ops /\ backend.style \in {"helpers", "options"}
     THEN conn.want = conn.conn_want /\ conn.want \subseteq chosen
     ELSE /\ conn.conn_want \subseteq given /\ conn.conn_want_ext \subseteq given
          /\ backend.style \in {"old", "direct"} => conn.want \subseteq given \cup chosen

ConnInv ==
  /\ kernel \in Kernels /\ backend \in Backends
  /\ ShapeInv /\ AgreedInv /\ SizeInv /\ LeftoverInv
  /\ FlagsAsChosen /\ LimitsKept /\ NotifiedAsAgreed
===============================================================================
