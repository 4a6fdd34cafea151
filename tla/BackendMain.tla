----------------------------- MODULE BackendMain ------------------------------
(***************************************************************************)
(* main of a backend: the command line, the session, and the way out.      *)
(* hello_ll's main is a low-level backend; fuse_main_real is the main of a *)
(* high-level one, which this build always refuses.                        *)
(***************************************************************************)
EXTENDS OptParse

VARIABLES
  main,      \* which main runs
  mpc,       \* where it is
  exitcode   \* its result

mainVars == <<parseVars, main, mpc, exitcode>>

Mains == {"hello_ll", "fuse_main_real"}

MainInit ==
  /\ ParseInit
  /\ main \in Mains /\ mpc = "parse" /\ exitcode = 0

-------------------------------------------------------------------------------
Goes(label) == mpc' = label /\ UNCHANGED <<main, exitcode>>
Leaves(code, label) == mpc' = label /\ exitcode' = code /\ UNCHANGED main

(* fuse_parse_cmdline.                                                     *)
MainParses ==
  /\ mpc = "parse" /\ ParseStep
  /\ UNCHANGED <<main, mpc, exitcode>>

(* A failure returns at once.                                              *)
ParseFailed ==
  /\ mpc = "parse" /\ ppc = "failed" /\ stage = "cmdline"
  /\ Leaves(1, "exited")
  /\ UNCHANGED parseVars

ShowsHelp ==
  /\ mpc = "parse" /\ ppc = "parsed" /\ stage = "cmdline"
  /\ fields \cap {"show_help", "show_version"} # {}
  /\ Leaves(0, "out1")
  /\ UNCHANGED parseVars

NoMountpoint ==
  /\ mpc = "parse" /\ ppc = "parsed" /\ stage = "cmdline"
  /\ fields \cap {"show_help", "show_version"} = {} /\ ~mountpoint
  /\ Leaves(IF main = "hello_ll" THEN 1 ELSE 2, "out1")
  /\ UNCHANGED parseVars

Ready ==
  /\ mpc = "parse" /\ mountpoint
  /\ \/ stage = "conn_info" /\ ppc \in {"parsed", "failed"}
     \/ stage = "cmdline" /\ ppc = "parsed" /\ fields \cap {"show_help", "show_version"} = {}

(* A backend may parse the rest for connection options; it goes on with or *)
(* without them.                                                           *)
ParseConnInfo ==
  /\ Ready /\ stage = "cmdline" /\ main = "hello_ll"
  /\ stage' = "conn_info" /\ ppc' = "idle"
  /\ UNCHANGED <<argv, argctr, outargs, copts, nonopt, fields, mountpoint, heap, kept, kept1>>
  /\ UNCHANGED <<main, mpc, exitcode>>

(* _fuse_new_31 is a stub that returns NULL.                               *)
FuseNew ==
  /\ Ready /\ main = "fuse_main_real"
  /\ Leaves(3, "out1")
  /\ UNCHANGED parseVars

SessionNewFails ==
  /\ Ready /\ main = "hello_ll"
  /\ Leaves(1, "out1")
  /\ UNCHANGED parseVars

(* fuse_session_new, and the signal handlers and the mount that cannot     *)
(* fail.                                                                   *)
SessionNew ==
  /\ Ready /\ main = "hello_ll"
  /\ heap' = heap \cup {"session"}
  /\ Goes("mounted")
  /\ UNCHANGED <<argv, ppc, stage, argctr, outargs, copts, nonopt, fields, mountpoint, kept,
                 kept1>>

(* fuse_daemonize: in the background it opens a pipe, then fork fails, and *)
(* hello_ll ignores that.                                                  *)
Daemonize ==
  /\ mpc = "mounted"
  /\ \/ heap' = heap
     \/ "foreground" \notin fields /\ heap' = heap \cup {"waiter"}
  /\ Goes("loop")
  /\ UNCHANGED <<argv, ppc, stage, argctr, outargs, copts, nonopt, fields, mountpoint, kept,
                 kept1>>

(* fuse_session_loop does not return; fuse_session_loop_mt fails at once.  *)
LoopFails ==
  /\ mpc = "loop" /\ "singlethread" \notin fields
  /\ Leaves(1, "out2")
  /\ UNCHANGED parseVars

(* fuse_session_unmount finds no mount point in the session; then          *)
(* fuse_session_destroy.                                                   *)
SessionDestroy ==
  /\ mpc = "out2"
  /\ heap' = heap \ {"session"}
  /\ Goes("out1")
  /\ UNCHANGED <<argv, ppc, stage, argctr, outargs, copts, nonopt, fields, mountpoint, kept,
                 kept1>>

(* free(opts.mountpoint) and fuse_opt_free_args.                           *)
Cleanup1 ==
  /\ mpc = "out1"
  /\ heap' = heap \ {"mountpoint", "args"}
  /\ mpc' = "exited"
  /\ UNCHANGED <<argv, ppc, stage, argctr, outargs, copts, nonopt, fields, mountpoint, kept,
                 kept1, main, exitcode>>

MainNext ==
  \/ MainParses \/ ParseFailed \/ ParseConnInfo \/ ShowsHelp \/ NoMountpoint \/ FuseNew
  \/ SessionNewFails \/ SessionNew \/ Daemonize \/ LoopFails \/ SessionDestroy \/ Cleanup1

MainSpec == MainInit /\ [][MainNext]_mainVars

-------------------------------------------------------------------------------
MainTypeOK ==
  /\ ParseTypeOK
  /\ mpc \in {"parse", "mounted", "loop", "out2", "out1", "exited"}
  /\ exitcode \in 0 .. 3

(* Every way out of main has freed what was allocated on the way in, with  *)
(* two exceptions: a failed fuse_parse_cmdline returns with the mount      *)
(* point and the rewritten arguments, and the pipe of fuse_daemonize stays *)
(* open.  Nobody but a main that failed or was asked for help gets there.  *)
CleanExit ==
  mpc = "exited" =>
    /\ heap \subseteq (IF ppc = "failed" /\ stage = "cmdline" THEN {"mountpoint", "args"}
                       ELSE {"waiter"})
    /\ exitcode = 0 => fields \cap {"show_help", "show_version"} # {}

-------------------------------------------------------------------------------
(* Toward CleanExit: what may be allocated at each place ...               *)
HeapInv ==
  heap \subseteq {"mountpoint", "args"}
    \cup (IF ppc = "parsing" THEN {"outargs", "opts"} ELSE {})
    \cup (IF mpc \in {"mounted", "loop", "out2"} THEN {"session"} ELSE {})
    \cup (IF mpc \in {"loop", "out2", "out1", "exited"} THEN {"waiter"} ELSE {})

(* ... and how main got to where it is.                                    *)
WayOut ==
  /\ mpc # "parse" =>
       /\ ppc \in {"parsed", "failed"}
       /\ ppc = "failed" /\ stage = "cmdline" => mpc = "exited"
  /\ mpc = "out2" => exitcode = 1
  /\ mpc = "out1" /\ exitcode = 0 => fields \cap {"show_help", "show_version"} # {}

MainInv == HeapInv /\ WayOut /\ CleanExit
===============================================================================
