------------------------------- MODULE OptParse -------------------------------
(***************************************************************************)
(* The command line of a backend: fuse_opt_parse, run by fuse_parse_cmdline *)
(* and again by fuse_parse_conn_info_opts on what the first left over, one *)
(* step per argument, any allocation failing.                              *)
(*                                                                         *)
(* The text of an argument is a sequence of tokens: a name, a comma, a     *)
(* backslash, or the digits "054" that after a backslash stand for a       *)
(* comma.  [t |-> "o", s |-> <<>>] is "-o", whose options are the next     *)
(* argument; other arguments are "--", flags, and text.                    *)
(***************************************************************************)
EXTENDS Naturals, Sequences, SequencesExt

CONSTANT CommandLines    \* argument vectors, without the program's name

Arg(t, s) == [t |-> t, s |-> s]
Program == Arg("text", <<"hello">>)
Separator == Arg("--", <<>>)
DashO == Arg("o", <<>>)
Subtype == <<"subtype=", "hello">>

ASSUME LinesAssumption ==
  CommandLines \subseteq Seq([t : {"text", "flag", "o", "--"}, s : Seq(STRING)])

Stages == {"cmdline", "conn_info"}
NULL == <<"NULL">>        \* no string; differs from the empty one

VARIABLES
  argv,       \* args->argv
  ppc,        \* "idle", "parsing", "subtype", "parsed" or "failed"
  stage,      \* which of the two parses
  argctr,     \* next argument
  outargs,    \* ctx->outargs
  copts,      \* ctx->opts
  nonopt,     \* ctx->nonopt
  fields,     \* fields of the two option structures that were set
  mountpoint, \* opts->mountpoint is set
  heap,       \* what is allocated
  kept, kept1 \* ghosts: options kept by this parse and by the first

parseVars == <<argv, ppc, stage, argctr, outargs, copts, nonopt, fields, mountpoint, heap,
               kept, kept1>>

ParseInit ==
  /\ \E line \in CommandLines : argv = <<Program>> \o line
  /\ ppc = "idle" /\ stage = "cmdline" /\ argctr = 1
  /\ outargs = <<>> /\ copts = NULL /\ nonopt = 0
  /\ fields = {} /\ mountpoint = FALSE /\ heap = {} /\ kept = <<>> /\ kept1 = <<>>

-------------------------------------------------------------------------------
TextOf(a) == (CASE a.t = "o" -> <<"-o">> [] a.t = "--" -> <<"--">> [] OTHER -> <<>>) \o a.s

(* process_real_option_group: cut at the commas, undo the escapes; a       *)
(* backslash at the very end stands for itself.                            *)
Split(text) ==
  LET step(a, t) ==
        IF a.esc THEN [a EXCEPT !.esc = FALSE,
                                !.cur = Append(@, IF t = "054" THEN "," ELSE t)]
        ELSE IF t = "," THEN [a EXCEPT !.done = Append(@, a.cur), !.cur = <<>>]
        ELSE IF t = "\\" THEN [a EXCEPT !.esc = TRUE]
        ELSE [a EXCEPT !.cur = Append(@, t)]
      end == FoldLeft(step, [done |-> <<>>, cur |-> <<>>, esc |-> FALSE], text)
  IN Append(end.done, IF end.esc THEN Append(end.cur, "\\") ELSE end.cur)

AddOptPlain(opts, o) ==         \* mutant: fuse_opt_add_opt, without the escapes
  (IF opts \in {NULL, <<>>} THEN <<>> ELSE Append(opts, ",")) \o o

(* add_opt_common with esc.                                                *)
add_opt(opts, o) ==
  (IF opts \in {NULL, <<>>} THEN <<>> ELSE Append(opts, ","))
    \o FlattenSeq([i \in 1 .. Len(o) |->
                     IF o[i] \in {",", "\\"} THEN <<"\\", o[i]>> ELSE <<o[i]>>])

(* The tables: which fields an option sets or clears, whether it stays,    *)
(* and whether its number cannot be read.  An option in no table stays.    *)
Entry(sets, keep) == [sets |-> sets, clears |-> {}, keep |-> keep, bad |-> FALSE]
Number(sets, o) ==
  [Entry(sets, FALSE) EXCEPT !.bad = Len(o) < 2 \/ o[2] \notin {"7", "054"}]

fuse_helper_opts(o) ==
  LET first == IF o = <<>> THEN "" ELSE o[1] IN
  CASE o \in {<<"-h">>, <<"--help">>} -> Entry({"show_help"}, FALSE)
    [] o \in {<<"-V">>, <<"--version">>} -> Entry({"show_version"}, FALSE)
    [] o \in {<<"-d">>, <<"debug">>} -> Entry({"debug", "foreground"}, TRUE)
    [] o = <<"-f">> -> Entry({"foreground"}, FALSE)
    [] o = <<"-s">> -> Entry({"singlethread"}, FALSE)
    [] o = <<"clone_fd">> -> Entry({"clone_fd"}, FALSE)
    [] first \in {"fsname=", "subtype="} -> Entry({"nodefault_subtype"}, TRUE)
    [] first \in {"max_threads=", "max_idle_threads="} -> Number({first}, o)
    [] OTHER -> Entry({}, TRUE)

(* Options that set the field of their own name.                           *)
ConnFlags ==
  {"sync_read", "async_read", "atomic_o_trunc", "no_remote_flock", "no_remote_posix_lock",
   "splice_write", "no_splice_write", "splice_move", "no_splice_move", "splice_read",
   "no_splice_read", "auto_inval_data", "no_auto_inval_data", "async_dio", "no_async_dio",
   "writeback_cache", "no_writeback_cache"}
ConnNumbers == {"max_write=", "max_readahead=", "max_background=", "congestion_threshold=",
                "time_gran="}

conn_info_opt_spec(o) ==
  LET first == IF o = <<>> THEN "" ELSE o[1] IN
  CASE Len(o) = 1 /\ first \in ConnFlags -> Entry({first}, FALSE)
    [] o = <<"no_remote_lock">> -> Entry({"no_remote_posix_lock", "no_remote_flock"}, FALSE)
    [] o = <<"readdirplus=no">> -> Entry({"no_readdirplus"}, FALSE)
    [] o = <<"readdirplus=yes">> ->
         [Entry({"no_readdirplus_auto"}, FALSE) EXCEPT !.clears = {"no_readdirplus"}]
    [] o = <<"readdirplus=auto">> ->
         [Entry({}, FALSE) EXCEPT !.clears = {"no_readdirplus", "no_readdirplus_auto"}]
    [] first \in ConnNumbers -> Number({first}, o)
    [] OTHER -> Entry({}, TRUE)

process_gopt(o) == IF stage = "cmdline" THEN fuse_helper_opts(o) ELSE conn_info_opt_spec(o)

-------------------------------------------------------------------------------
(* The argument at hand.                                                   *)
Parsing == ppc = "parsing" /\ argctr <= Len(argv)
This == argv[argctr]
IsNonopt == nonopt # 0 \/ This.t = "text"
IsGroup == ~IsNonopt /\ This.t = "o"

(* The options of "-o"; next_arg when they are an argument of their own.   *)
Missing == IsGroup /\ This.s = <<>> /\ argctr = Len(argv)
GroupText == IF This.s # <<>> THEN This.s ELSE TextOf(argv[argctr + 1])

(* fuse_opt_add_arg of the program's name.                                 *)
StartParse ==
  /\ ppc = "idle"
  /\ ppc' = "parsing" /\ argctr' = 2
  /\ outargs' = <<argv[1]>> /\ heap' = heap \cup {"outargs"}
  /\ copts' = NULL /\ nonopt' = 0 /\ kept' = <<>>
  /\ UNCHANGED <<argv, stage, fields, mountpoint, kept1>>

(* fuse_helper_opt_proc takes the first for the mount point; without a     *)
(* proc the argument stays.                                                *)
ProcessNonopt ==
  /\ Parsing /\ IsNonopt
  /\ IF stage = "cmdline"
     THEN /\ ~mountpoint
          /\ mountpoint' = TRUE /\ heap' = heap \cup {"mountpoint"}
          /\ UNCHANGED outargs
     ELSE outargs' = Append(outargs, This) /\ UNCHANGED <<mountpoint, heap>>
  /\ argctr' = argctr + 1
  /\ UNCHANGED <<argv, ppc, stage, copts, nonopt, fields, kept, kept1>>

ProcessGroup ==
  /\ Parsing /\ IsGroup /\ ~Missing
  /\ LET os == Split(GroupText)
         stay == SelectSeq(os, LAMBDA o : process_gopt(o).keep)
     IN /\ \A i \in 1 .. Len(os) : ~process_gopt(os[i]).bad
        /\ fields' = FoldLeft(LAMBDA f, o : (f \ process_gopt(o).clears) \cup process_gopt(o).sets,
                             fields, os)
        /\ copts' = FoldLeft(add_opt, copts, stay)
        /\ kept' = kept \o SelectSeq(stay, LAMBDA o : o # <<>>)
        /\ heap' = IF stay = <<>> THEN heap ELSE heap \cup {"opts"}
  /\ argctr' = argctr + (IF This.s # <<>> THEN 1 ELSE 2)
  /\ UNCHANGED <<argv, ppc, stage, outargs, nonopt, mountpoint, kept1>>

ProcessSeparator ==
  /\ Parsing /\ ~IsNonopt /\ This.t = "--"
  /\ outargs' = Append(outargs, This)
  /\ nonopt' = Len(outargs) + 1
  /\ argctr' = argctr + 1
  /\ UNCHANGED <<argv, ppc, stage, copts, fields, mountpoint, heap, kept, kept1>>

ProcessFlag ==
  /\ Parsing /\ ~IsNonopt /\ This.t = "flag"
  /\ LET e == process_gopt(This.s) IN
     /\ fields' = fields \cup e.sets
     /\ outargs' = IF e.keep THEN Append(outargs, This) ELSE outargs
  /\ argctr' = argctr + 1
  /\ UNCHANGED <<argv, ppc, stage, copts, nonopt, mountpoint, heap, kept, kept1>>

(* fuse_opt_insert_arg at 1 and 2.                                         *)
InsertOpts(out) ==
  IF copts = NULL THEN out ELSE <<out[1], DashO, Arg("text", copts)>> \o Tail(out)

(* The removal of a trailing separator.                                    *)
RemoveSeparator(out) ==
  IF nonopt # 0 /\ nonopt = Len(out) /\ Last(out) = Separator THEN Front(out) ELSE out

FinishParse ==
  /\ ppc = "parsing" /\ argctr > Len(argv)
  /\ argv' = RemoveSeparator(InsertOpts(outargs))
  /\ heap' = (heap \ {"outargs", "opts"}) \cup {"args"}
  /\ ppc' = IF stage = "cmdline" /\ "nodefault_subtype" \notin fields THEN "subtype"
            ELSE "parsed"
  /\ kept1' = IF stage = "cmdline" THEN kept ELSE kept1
  /\ outargs' = <<>> /\ copts' = NULL
  /\ UNCHANGED <<stage, argctr, nonopt, fields, mountpoint, kept>>

(* The next step allocates.                                                *)
Allocating ==
  \/ ppc = "idle"
  \/ Parsing /\ (This.t = "flag" /\ ~IsNonopt => process_gopt(This.s).keep)
  \/ ppc = "parsing" /\ argctr > Len(argv) /\ copts # NULL

FailParseKeepsOpts ==           \* mutant: ctx.opts is freed on success only
  /\ Allocating
  /\ ppc' = "failed"
  /\ heap' = heap \ {"outargs"}
  /\ outargs' = <<>> /\ copts' = NULL
  /\ UNCHANGED <<argv, stage, argctr, nonopt, fields, mountpoint, kept, kept1>>

(* An allocation fails, a number cannot be read, the options of "-o" are   *)
(* missing, or there is a second mount point: the arguments stay as they   *)
(* were.                                                                   *)
FailParse ==
  /\ Allocating
  /\ ppc' = "failed"
  /\ heap' = heap \ {"outargs", "opts"}
  /\ outargs' = <<>> /\ copts' = NULL
  /\ UNCHANGED <<argv, stage, argctr, nonopt, fields, mountpoint, kept, kept1>>

(* add_default_subtype, at the end of the arguments that are left.         *)
AddSubtype ==
  /\ ppc = "subtype"
  /\ argv' = Append(argv, Arg("o", Subtype)) /\ ppc' = "parsed"
  /\ UNCHANGED <<stage, argctr, outargs, copts, nonopt, fields, mountpoint, heap, kept, kept1>>

FailSubtype ==
  /\ ppc = "subtype"
  /\ ppc' = "failed"
  /\ UNCHANGED <<argv, stage, argctr, outargs, copts, nonopt, fields, mountpoint, heap, kept,
                 kept1>>

ParseStep ==
  \/ StartParse \/ ProcessNonopt \/ ProcessGroup \/ ProcessSeparator \/ ProcessFlag
  \/ FinishParse \/ FailParse \/ AddSubtype \/ FailSubtype

-------------------------------------------------------------------------------
ParseTypeOK ==
  /\ ppc \in {"idle", "parsing", "subtype", "parsed", "failed"}
  /\ stage \in Stages
  /\ Len(argv) > 0 /\ argctr \in Nat /\ nonopt \in Nat
  /\ ppc = "parsing" =>
       argctr \in 2 .. Len(argv) + 1 /\ (nonopt = 0 \/ nonopt \in 2 .. Len(outargs))
  /\ heap \subseteq {"args", "outargs", "opts", "mountpoint", "session", "waiter"}

(* The options that stay are those that the next parse will see: the same  *)
(* texts in the same order, whatever commas and backslashes are in them    *)
(* (empty ones aside).  What the second parse keeps is what the first kept *)
(* and the second does not know, and the added subtype, unless that comes  *)
(* behind a separator that was left in place.                              *)
OptionsSurvive ==
  ppc = "parsed" =>
    /\ kept # <<>> =>
         argv[2] = DashO /\ SelectSeq(Split(argv[3].s), LAMBDA o : o # <<>>) = kept
    /\ stage = "conn_info" =>
         LET unknown == SelectSeq(kept1, LAMBDA o : conn_info_opt_spec(o).keep)
             named == \E i \in 1 .. Len(kept1) : kept1[i][1] \in {"fsname=", "subtype="}
         IN kept = IF named \/ nonopt # 0 THEN unknown ELSE Append(unknown, Subtype)

(* A separator that is the last argument is removed (opt_parse).           *)
SeparatorRemoved == ppc \in {"subtype", "parsed"} => Separator \notin {Last(argv)}
===============================================================================
