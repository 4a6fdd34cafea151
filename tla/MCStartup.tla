------------------------------ MODULE MCStartup -------------------------------
(***************************************************************************)
(* Starting a backend and agreeing on a connection, one of the two in each *)
(* behaviour and the other at rest.                                        *)
(***************************************************************************)
EXTENDS BackendMain, Connection

VARIABLE machine

vars == <<machine, mainVars, connVars>>

(* Command lines: every text of up to four tokens as the options of one    *)
(* -o, and every sequence of up to three of some arguments.                *)
Texts == UNION {[1 .. k -> {"x", ",", "\\", "054"}] : k \in 1 .. 4}
Mountpoint == Arg("text", <<"/mnt">>)
Arguments ==
  {Mountpoint, Separator, DashO}
    \cup {Arg("flag", <<f>>) : f \in {"-h", "-d", "-f", "-s", "-x"}}
    \cup {Arg("o", o) : o \in {<<"fsname=", "x">>, <<"debug", ",", "clone_fd">>, <<"max_threads=", "7">>,
                               <<"max_threads=", "x">>, <<"async_read", ",", "x">>,
                               <<"max_write=", "7", ",", "no_remote_lock">>}}
MCCommandLines ==
  {<<Mountpoint, Arg("o", t)>> : t \in Texts}
    \cup UNION {[1 .. k -> Arguments] : k \in 0 .. 3}
    \cup {<<Arg("flag", <<"-V">>)>>,
          <<Mountpoint, Arg("o", <<"readdirplus=no", ",", "readdirplus=auto", ",", "readdirplus=yes">>)>>,
          <<Mountpoint, DashO, Arg("text", <<"x", ",", ",", "x">>), Separator>>}

(* Kernels from before the flags to the newest, with and without the       *)
(* second word of flags.  Before 7.6 the flags are what the message        *)
(* happens to have in their place.                                         *)
Offers ==
  {AllFlags, AllFlags \ {"INIT_EXT"}, {"MAX_PAGES"}, {},
   {"ASYNC_READ", "READDIRPLUS", "READDIRPLUS_AUTO", "FLOCK_LOCKS", "WRITEBACK_CACHE"},
   {"INIT_EXT", "HAS_EXPIRE_ONLY", "PASSTHROUGH", "POSIX_LOCKS", "AUTO_INVAL_DATA"}}
MCKernels ==
  {[minor |-> m, flags |-> f, readahead |-> 131072] :
     m \in {5, 13, 31, 38, 44}, f \in Offers}

(* hello_ll; a backend without op.init; and handlers of every style, with  *)
(* limits that are kept, cut or zero.                                      *)
Backend(ops, style, ask, drop, limits) ==
  [ops |-> ops, style |-> style, ask |-> ask, drop |-> drop, limits |-> limits]
NoLimits == [max_read |-> 131072]
Unlimited == [max_read |-> 0]
Cut == [max_read |-> 0, max_write |-> 1024, max_background |-> 70000,
        congestion_threshold |-> 80000, request_timeout |-> 30]
Zero == [max_read |-> 0, max_write |-> 0, max_background |-> 12]
MCBackends ==
  {Backend(o, s, a, d, l) :
     o \in {{"init"}, {"init", "getlk", "setlk", "flock", "readdirplus", "readdir"}},
     s \in {"assign", "old", "direct", "both", "helpers", "options"},
     a \in {{}, {"WRITEBACK_CACHE"}}, d \in {{}, {"ASYNC_READ"}}, l \in {Unlimited, Cut}}
    \cup {Backend({"init", "readdir"}, "assign", {}, {}, NoLimits),
          Backend({}, "old", {}, {}, NoLimits), Backend({"init"}, "old", {}, {}, Zero)}

MainRests == MainInit /\ argv = <<Program>> /\ main = "hello_ll"
ConnRests ==
  /\ ConnInit
  /\ kernel = [minor |-> 31, flags |-> {}, readahead |-> 131072]
  /\ backend = Backend({}, "old", {}, {}, NoLimits)

Init ==
  \/ machine = "starting" /\ MainInit /\ ConnRests
  \/ machine = "connecting" /\ MainRests /\ ConnInit

Next ==
  /\ machine' = machine
  /\ \/ machine = "starting" /\ MainNext /\ UNCHANGED connVars
     \/ machine = "connecting" /\ ConnNext /\ UNCHANGED mainVars

Spec == Init /\ [][Next]_vars

TypeOK == MainTypeOK /\ ConnTypeOK
===============================================================================
