----------------------------- MODULE StartupProofs ----------------------------
(***************************************************************************)
(* Starting a backend and agreeing on a connection.                        *)
(*                                                                         *)
(* A backend's main gives back what it allocated, for every command line.  *)
(* The argument is about the order of the steps, not about the texts.      *)
(*                                                                         *)
(* What INIT agrees on, for every kernel, every backend and any number of  *)
(* INITs.  The assumptions on both are ConnAssumption: version numbers are *)
(* natural numbers, a handler of op.init sets limits and capabilities and  *)
(* nothing else, and an option stands for a capability that has one.       *)
(***************************************************************************)
EXTENDS MCStartup, TLAPS

(* What a step of fuse_opt_parse may do to the heap and to its own place:  *)
(* the mount point and the arguments are the caller's, outargs and opts    *)
(* are gone once it has ended.                                             *)
LEMMA ParseEffect ==
  ASSUME ParseStep
  PROVE  /\ ppc \in {"idle", "parsing", "subtype"}
         /\ heap' \subseteq heap \cup {"mountpoint", "args", "outargs", "opts"}
         /\ \/ ppc' = "parsing"
            \/ ppc = "subtype" /\ heap' = heap
            \/ heap' \subseteq (heap \cup {"args"}) \ {"outargs", "opts"}
<1>1. CASE StartParse
  BY <1>1 DEF StartParse
<1>2. CASE ProcessNonopt
  BY <1>2 DEF ProcessNonopt, Parsing
<1>3. CASE ProcessGroup
  BY <1>3 DEF ProcessGroup, Parsing
<1>4. CASE ProcessSeparator \/ ProcessFlag
  BY <1>4 DEF ProcessSeparator, ProcessFlag, Parsing
<1>5. CASE FinishParse
  BY <1>5 DEF FinishParse
<1>6. CASE FailParse
  BY <1>6 DEF FailParse, Allocating, Parsing
<1>7. CASE AddSubtype \/ FailSubtype
  BY <1>7 DEF AddSubtype, FailSubtype
<1> QED
  BY <1>1, <1>2, <1>3, <1>4, <1>5, <1>6, <1>7 DEF ParseStep

LEMMA InitMainInv == MainInit => MainInv
  BY DEF MainInit, ParseInit, MainInv, HeapInv, WayOut, CleanExit

(* While it parses, main has neither a session nor a pipe.                 *)
LEMMA MainParsesKeeps == MainInv /\ MainParses => MainInv'
<1> SUFFICES ASSUME MainInv, MainParses PROVE MainInv'
  OBVIOUS
<1>1. /\ mpc = "parse" /\ mpc' = "parse"
      /\ ppc \in {"idle", "parsing", "subtype"}
      /\ heap' \subseteq heap \cup {"mountpoint", "args", "outargs", "opts"}
      /\ \/ ppc' = "parsing"
         \/ ppc = "subtype" /\ heap' = heap
         \/ heap' \subseteq (heap \cup {"args"}) \ {"outargs", "opts"}
  BY ParseEffect DEF MainParses
<1>2. HeapInv'
  BY <1>1 DEF MainInv, HeapInv
<1> QED
  BY <1>1, <1>2 DEF MainInv, WayOut, CleanExit

LEMMA MainStep == MainInv /\ MainNext => MainInv'
<1> SUFFICES ASSUME MainInv, MainNext PROVE MainInv'
  OBVIOUS
<1>1. CASE MainParses
  BY <1>1, MainParsesKeeps
<1>2. CASE ParseFailed
  BY <1>2 DEF ParseFailed, Leaves, parseVars, MainInv, HeapInv, WayOut, CleanExit
<1>3. CASE ShowsHelp
  BY <1>3 DEF ShowsHelp, Leaves, parseVars, MainInv, HeapInv, WayOut, CleanExit
<1>4. CASE NoMountpoint
  BY <1>4 DEF NoMountpoint, Leaves, parseVars, MainInv, HeapInv, WayOut, CleanExit
<1>5. CASE ParseConnInfo
  BY <1>5 DEF ParseConnInfo, Ready, MainInv, HeapInv, WayOut, CleanExit
<1>6. CASE FuseNew \/ SessionNewFails
  <2>1. Ready /\ mpc' = "out1" /\ exitcode' \in {1, 3} /\ UNCHANGED parseVars
    BY <1>6 DEF FuseNew, SessionNewFails, Leaves
  <2> QED
    BY <2>1 DEF Ready, parseVars, MainInv, HeapInv, WayOut, CleanExit
<1>7. CASE SessionNew
  BY <1>7 DEF SessionNew, Ready, Goes, MainInv, HeapInv, WayOut, CleanExit
<1>8. CASE Daemonize
  BY <1>8 DEF Daemonize, Goes, MainInv, HeapInv, WayOut, CleanExit
<1>9. CASE LoopFails
  BY <1>9 DEF LoopFails, Leaves, parseVars, MainInv, HeapInv, WayOut, CleanExit
<1>10. CASE SessionDestroy
  BY <1>10 DEF SessionDestroy, Goes, MainInv, HeapInv, WayOut, CleanExit
<1>11. CASE Cleanup1
  BY <1>11 DEF Cleanup1, MainInv, HeapInv, WayOut, CleanExit
<1> QED
  BY <1>1, <1>2, <1>3, <1>4, <1>5, <1>6, <1>7, <1>8, <1>9, <1>10, <1>11 DEF MainNext

LEMMA MainStutters == MainInv /\ UNCHANGED mainVars => MainInv'
  BY DEF mainVars, parseVars, MainInv, HeapInv, WayOut, CleanExit

(* The inductive invariant of a main: what is allocated depends on where   *)
(* it is, and a place other than the parser is only reached in a known     *)
(* way.                                                                    *)
THEOREM MainInductive == MainSpec => []MainInv
  BY InitMainInv, MainStep, MainStutters, PTL DEF MainSpec

(* Every way out of main has freed what was allocated on the way in, with  *)
(* the two exceptions that CleanExit names, and only a main that failed or *)
(* was asked for help gets out.                                            *)
THEOREM ExitsClean == MainSpec => []CleanExit
<1>1. MainInv => CleanExit
  BY DEF MainInv
<1> QED
  BY <1>1, MainInductive, PTL

-------------------------------------------------------------------------------
(* The cursors of the parser stay within the arguments: `-o' takes a       *)
(* second argument only where there is one, and ctx->nonopt is an index of *)
(* the arguments kept, never that of the program's name.                   *)
IsSeq(q) == Len(q) \in Nat /\ \E S : q \in Seq(S)

LEMMA Longer ==
  ASSUME NEW q, IsSeq(q), NEW x
  PROVE  IsSeq(Append(q, x)) /\ Len(Append(q, x)) = Len(q) + 1
<1>1. PICK S : q \in Seq(S)
  BY DEF IsSeq
<1>2. q \in Seq(S \cup {x}) /\ x \in S \cup {x}
  BY <1>1
<1>3. Append(q, x) \in Seq(S \cup {x}) /\ Len(Append(q, x)) = Len(q) + 1
  BY <1>2
<1> QED
  BY <1>3 DEF IsSeq

LEMMA NotShorter ==
  ASSUME NEW q, IsSeq(q), NEW x, NEW r, r \in {q, Append(q, x)}
  PROVE  IsSeq(r) /\ Len(r) >= Len(q) /\ Len(r) \in Nat
<1>1. Len(q) \in Nat
  BY DEF IsSeq
<1>2. CASE r = q
  BY <1>1, <1>2
<1>3. CASE r = Append(q, x)
  <2> DEFINE n == Len(q)
  <2>1. IsSeq(r) /\ Len(r) = n + 1
    BY <1>3, Longer
  <2> HIDE DEF n
  <2>2. n \in Nat
    BY <1>1 DEF n
  <2>3. Len(r) >= n /\ Len(r) \in Nat
    BY <2>1, <2>2
  <2> QED
    BY <2>1, <2>3 DEF n
<1> QED
  BY <1>2, <1>3

LEMMA Shorter ==
  ASSUME NEW q, IsSeq(q), Len(q) > 1
  PROVE  IsSeq(Front(q)) /\ Len(Front(q)) > 0
<1>1. PICK S : q \in Seq(S)
  BY DEF IsSeq
<1>2. Len(q) - 1 \in 1 .. Len(q) /\ Len(q) - 1 > 0
  BY <1>1
<1> DEFINE f == SubSeq(q, 1, Len(q) - 1)
           n == Len(q) - 1
<1>3. f \in Seq(S) /\ Len(f) = n
  BY <1>1, <1>2
<1>4. Front(q) = f
  BY DEF Front
<1>5. n \in Nat /\ n > 0
  BY <1>2
<1> HIDE DEF f, n
<1>6. IsSeq(f) /\ Len(f) > 0
  BY <1>3, <1>5 DEF IsSeq
<1> QED
  BY <1>4, <1>6

LEMMA Inserted ==
  ASSUME NEW q, IsSeq(q), Len(q) > 0, NEW r, r = InsertOpts(q)
  PROVE  IsSeq(r) /\ Len(r) > 0
<1>1. CASE copts = NULL
  BY <1>1 DEF InsertOpts
<1>2. CASE copts # NULL
  <2> DEFINE a == q[1]
             o == Arg("text", copts)
  <2>1. PICK S : q \in Seq(S)
    BY DEF IsSeq
  <2>2. r = <<a, DashO, o>> \o Tail(q)
    BY <1>2 DEF InsertOpts
  <2> HIDE DEF a, o
  <2> DEFINE T == S \cup {a, DashO, o}
  <2>3. Tail(q) \in Seq(T)
    BY <2>1
  <2>4. <<a, DashO, o>> \in Seq(T) /\ Len(<<a, DashO, o>>) = 3
    OBVIOUS
  <2> HIDE DEF T
  <2>5. r \in Seq(T) /\ Len(r) = 3 + Len(Tail(q)) /\ Len(Tail(q)) \in Nat
    BY <2>2, <2>3, <2>4
  <2> QED
    BY <2>5 DEF IsSeq
<1> QED
  BY <1>1, <1>2

ParseInv ==
  /\ ppc \in {"idle", "parsing", "subtype", "parsed", "failed"} /\ stage \in Stages
  /\ IsSeq(argv) /\ Len(argv) > 0 /\ argctr \in Nat /\ nonopt \in Nat
  /\ ppc = "parsing" =>
       /\ argctr \in 2 .. Len(argv) + 1
       /\ IsSeq(outargs) /\ Len(outargs) > 0
       /\ nonopt = 0 \/ nonopt \in 2 .. Len(outargs)

LEMMA InitParseInv == ParseInit => ParseInv
<1> SUFFICES ASSUME ParseInit PROVE ParseInv
  OBVIOUS
<1>1. PICK line \in CommandLines : argv = <<Program>> \o line
  BY DEF ParseInit
<1>2. PICK S : line \in Seq(S)
  BY LinesAssumption
<1> DEFINE T == S \cup {Program}
<1>3. line \in Seq(T) /\ <<Program>> \in Seq(T) /\ Len(<<Program>>) = 1
  BY <1>2
<1> HIDE DEF T
<1>4. argv \in Seq(T) /\ Len(argv) = 1 + Len(line) /\ Len(line) \in Nat
  BY <1>1, <1>3
<1> QED
  BY <1>4 DEF ParseInit, ParseInv, IsSeq, Stages

LEMMA ParseKeeps == ParseInv /\ ParseStep => ParseInv'
<1> SUFFICES ASSUME ParseInv, ParseStep PROVE ParseInv'
  OBVIOUS
<1>0. /\ IsSeq(argv) /\ Len(argv) \in Nat /\ Len(argv) > 0 /\ argctr \in Nat /\ nonopt \in Nat
      /\ stage \in Stages
  BY DEF ParseInv, IsSeq
<1>1. CASE StartParse
  <2>1. /\ ppc' = "parsing" /\ argctr' = 2 /\ outargs' = <<argv[1]>> /\ nonopt' = 0
        /\ argv' = argv /\ stage' = stage
    BY <1>1 DEF StartParse
  <2> DEFINE a == argv[1]
  <2> HIDE DEF a
  <2>2. <<a>> \in Seq({a}) /\ Len(<<a>>) = 1
    OBVIOUS
  <2>3. IsSeq(outargs') /\ Len(outargs') = 1
    BY <2>1, <2>2 DEF IsSeq, a
  <2> QED
    BY <1>0, <2>1, <2>3 DEF ParseInv
<1>2. CASE Parsing
  <2>1. /\ ppc = "parsing" /\ argctr <= Len(argv) /\ argctr \in 2 .. Len(argv) + 1
        /\ IsSeq(outargs) /\ Len(outargs) \in Nat /\ Len(outargs) > 0
        /\ nonopt = 0 \/ nonopt \in 2 .. Len(outargs)
    BY <1>2 DEF Parsing, ParseInv, IsSeq
  <2>2. IsSeq(Append(outargs, This)) /\ Len(Append(outargs, This)) = Len(outargs) + 1
    BY <2>1, Longer
  <2>3. CASE ProcessNonopt
    <3>1. /\ argctr' = argctr + 1 /\ argv' = argv /\ ppc' = ppc /\ stage' = stage
          /\ nonopt' = nonopt /\ outargs' \in {outargs, Append(outargs, This)}
      BY <2>3 DEF ProcessNonopt
    <3>2. IsSeq(outargs') /\ Len(outargs') >= Len(outargs) /\ Len(outargs') \in Nat
      BY <2>1, <3>1, NotShorter
    <3> QED
      BY <1>0, <2>1, <3>1, <3>2 DEF ParseInv
  <2>4. CASE ProcessGroup
    <3>1. /\ argctr' = argctr + (IF This.s # <<>> THEN 1 ELSE 2)
          /\ argv' = argv /\ ppc' = ppc /\ stage' = stage
          /\ nonopt' = nonopt /\ outargs' = outargs
          /\ IsGroup /\ ~Missing
      BY <2>4, Zenon DEF ProcessGroup
    <3>2. This.s = <<>> => argctr # Len(argv)
      BY <3>1, Zenon DEF Missing
    <3>3. argctr' \in 2 .. Len(argv) + 1
      BY <1>0, <2>1, <3>1, <3>2
    <3> QED
      BY <1>0, <2>1, <3>1, <3>3 DEF ParseInv
  <2>5. CASE ProcessSeparator
    <3>1. /\ argctr' = argctr + 1 /\ argv' = argv /\ ppc' = ppc /\ stage' = stage
          /\ nonopt' = Len(outargs) + 1 /\ outargs' = Append(outargs, This)
      BY <2>5 DEF ProcessSeparator
    <3> QED
      BY <1>0, <2>1, <2>2, <3>1 DEF ParseInv
  <2>6. CASE ProcessFlag
    <3>1. /\ argctr' = argctr + 1 /\ argv' = argv /\ ppc' = ppc /\ stage' = stage
          /\ nonopt' = nonopt /\ outargs' \in {outargs, Append(outargs, This)}
      BY <2>6, Zenon DEF ProcessFlag
    <3>2. IsSeq(outargs') /\ Len(outargs') >= Len(outargs) /\ Len(outargs') \in Nat
      BY <2>1, <3>1, NotShorter
    <3> QED
      BY <1>0, <2>1, <3>1, <3>2 DEF ParseInv
  <2>7. CASE FailParse
    BY <1>0, <2>7 DEF FailParse, ParseInv
  <2>8. ~StartParse /\ ~FinishParse /\ ~AddSubtype /\ ~FailSubtype
    BY <1>0, <2>1 DEF StartParse, FinishParse, AddSubtype, FailSubtype
  <2> QED
    BY <2>3, <2>4, <2>5, <2>6, <2>7, <2>8 DEF ParseStep
<1>3. CASE FinishParse
  <2> DEFINE o == InsertOpts(outargs)
  <2>1. /\ ppc = "parsing" /\ argv' = RemoveSeparator(o)
        /\ ppc' \in {"subtype", "parsed"} /\ stage' = stage /\ argctr' = argctr
        /\ nonopt' = nonopt
    BY <1>3 DEF FinishParse
  <2>2. /\ IsSeq(outargs) /\ Len(outargs) > 0 /\ (nonopt = 0 \/ nonopt \in 2 .. Len(outargs))
    BY <2>1 DEF ParseInv
  <2>3. IsSeq(o) /\ Len(o) > 0 /\ Len(o) \in Nat
    BY <2>2, Inserted DEF IsSeq
  <2> HIDE DEF o
  <2>4. IsSeq(argv') /\ Len(argv') > 0
    <3>1. CASE nonopt # 0 /\ nonopt = Len(o) /\ Last(o) = Separator
      <4>1. argv' = Front(o) /\ Len(o) > 1
        BY <2>1, <2>2, <3>1 DEF RemoveSeparator
      <4> QED
        BY <2>3, <4>1, Shorter
    <3>2. CASE ~(nonopt # 0 /\ nonopt = Len(o) /\ Last(o) = Separator)
      <4>1. argv' = o
        BY <2>1, <3>2, Zenon DEF RemoveSeparator
      <4> QED
        BY <2>3, <4>1
    <3> QED
      BY <3>1, <3>2
  <2> QED
    BY <1>0, <2>1, <2>4 DEF ParseInv
<1>4. CASE FailParse
  BY <1>0, <1>4 DEF FailParse, ParseInv
<1>5. CASE AddSubtype
  <2>1. argv' = Append(argv, Arg("o", Subtype)) /\ ppc' = "parsed"
        /\ stage' = stage /\ argctr' = argctr /\ nonopt' = nonopt
    BY <1>5 DEF AddSubtype
  <2>2. IsSeq(argv') /\ Len(argv') = Len(argv) + 1
    BY <1>0, <2>1, Longer
  <2> QED
    BY <1>0, <2>1, <2>2 DEF ParseInv
<1>6. CASE FailSubtype
  BY <1>0, <1>6 DEF FailSubtype, ParseInv
<1>7. \/ StartParse \/ Parsing \/ FinishParse \/ FailParse \/ AddSubtype \/ FailSubtype
  BY DEF ParseStep, ProcessNonopt, ProcessGroup, ProcessSeparator, ProcessFlag
<1> QED
  BY <1>1, <1>2, <1>3, <1>4, <1>5, <1>6, <1>7

LEMMA ParseStutters ==
  ParseInv /\ UNCHANGED <<argv, ppc, stage, argctr, outargs, nonopt>> => ParseInv'
  BY DEF ParseInv

(* The inductive invariant of a main's types.                              *)
MainTypes ==
  /\ MainInv /\ ParseInv
  /\ mpc \in {"parse", "mounted", "loop", "out2", "out1", "exited"} /\ exitcode \in 0 .. 3

LEMMA InitMainTypes == MainInit => MainTypes
  BY InitMainInv, InitParseInv DEF MainInit, MainTypes

LEMMA MainTypesStep == MainTypes /\ [MainNext]_mainVars => MainTypes'
<1> SUFFICES ASSUME MainTypes, [MainNext]_mainVars PROVE MainTypes'
  OBVIOUS
<1>1. MainInv'
  BY MainStep, MainStutters DEF MainTypes
<1>2. /\ ParseInv /\ exitcode \in 0 .. 3
      /\ mpc \in {"parse", "mounted", "loop", "out2", "out1", "exited"}
  BY DEF MainTypes
<1>3. CASE MainParses
  <2>1. ParseInv'
    BY <1>2, <1>3, ParseKeeps DEF MainParses
  <2> QED
    BY <1>1, <1>2, <1>3, <2>1 DEF MainParses, MainTypes
<1>4. CASE ParseConnInfo
  <2>1. ParseInv'
    BY <1>2, <1>4 DEF ParseConnInfo, ParseInv, Stages
  <2> QED
    BY <1>1, <1>2, <1>4, <2>1 DEF ParseConnInfo, MainTypes
<1>5. CASE \/ ParseFailed \/ ShowsHelp \/ NoMountpoint \/ FuseNew \/ SessionNewFails \/ SessionNew
           \/ Daemonize \/ LoopFails \/ SessionDestroy \/ Cleanup1
  <2>1. /\ UNCHANGED <<argv, ppc, stage, argctr, outargs, nonopt>>
        /\ mpc' \in {"parse", "mounted", "loop", "out2", "out1", "exited"}
        /\ exitcode' \in {exitcode, 0, 1, 2, 3}
    BY <1>5 DEF ParseFailed, ShowsHelp, NoMountpoint, FuseNew, SessionNewFails, SessionNew,
                Daemonize, LoopFails, SessionDestroy, Cleanup1, Leaves, Goes, parseVars
  <2>2. ParseInv'
    BY <1>2, <2>1, ParseStutters
  <2> QED
    BY <1>1, <1>2, <2>1, <2>2 DEF MainTypes
<1>6. CASE UNCHANGED mainVars
  <2>1. ParseInv'
    BY <1>2, <1>6, ParseStutters DEF mainVars, parseVars
  <2> QED
    BY <1>1, <1>2, <1>6, <2>1 DEF mainVars, MainTypes
<1> QED
  BY <1>3, <1>4, <1>5, <1>6 DEF MainNext

LEMMA MainTyped == MainTypes => MainTypeOK
<1> SUFFICES ASSUME MainTypes PROVE MainTypeOK
  OBVIOUS
<1>1. heap \subseteq {"args", "outargs", "opts", "mountpoint", "session", "waiter"}
  BY DEF MainTypes, MainInv, HeapInv
<1>2. ParseTypeOK
  BY <1>1 DEF MainTypes, ParseInv, ParseTypeOK
<1> QED
  BY <1>2 DEF MainTypes, MainTypeOK

-------------------------------------------------------------------------------
LEMMA MinOfTwo ==
  ASSUME NEW a \in Nat, NEW b \in Nat
  PROVE  /\ Min({a, b}) \in Nat
         /\ Min({a, b}) = IF a <= b THEN a ELSE b
<1>1. ASSUME NEW S, S = {a, b} PROVE Min(S) \in S /\ \A y \in S : Min(S) <= y
  <2>1. \E x \in S : \A y \in S : x <= y
    BY <1>1
  <2> QED
    BY <2>1 DEF Min
<1> QED
  BY <1>1

-------------------------------------------------------------------------------
Shape == ConnInfo \cup SessionFields

Numbers(c) ==
  /\ c.proto_minor \in Nat /\ c.max_write \in Nat /\ c.bufsize \in Nat
  /\ c.max_background \in Nat /\ c.congestion_threshold \in Nat

(* r is c after a step that is not about the version, the buffer or what   *)
(* the kernel can do.                                                      *)
Keeps(c, r) ==
  /\ DOMAIN r = Shape /\ Numbers(r)
  /\ r.proto_minor = c.proto_minor /\ r.bufsize = c.bufsize
  /\ r.got_init = c.got_init /\ r.capable_ext = c.capable_ext

LEMMA KeepsTrans ==
  ASSUME NEW a, NEW b, NEW c, Keeps(a, b), Keeps(b, c) PROVE Keeps(a, c)
  BY DEF Keeps

(* The helpers change the four sets and nothing else.                      *)
LEMMA SetFeature ==
  ASSUME NEW c, DOMAIN c = Shape, Numbers(c), NEW S, NEW r, r = fuse_set_feature_flag(c, S)
  PROVE  /\ Keeps(c, r)
         /\ r.want_ext = c.want_ext \cup (S \cap c.capable_ext)
         /\ r.conn_want_ext = c.conn_want_ext \cup (S \cap c.capable_ext)
         /\ r.want = c.want \cup (S \cap c.capable_ext)
         /\ r.conn_want = c.conn_want \cup (S \cap c.capable_ext)
<1> DEFINE able == S \cap c.capable_ext
<1> HIDE DEF able
<1>1. r = [c EXCEPT !.want_ext = c.want_ext \cup able,
                    !.conn_want_ext = c.conn_want_ext \cup able,
                    !.want = c.want \cup able, !.conn_want = c.conn_want \cup able]
  BY DEF fuse_set_feature_flag, able
<1>2. Keeps(c, r)
  BY <1>1 DEF Keeps, Numbers, Shape, ConnInfo, SessionFields
<1>3. /\ r.want_ext = c.want_ext \cup able
      /\ r.conn_want_ext = c.conn_want_ext \cup able
      /\ r.want = c.want \cup able
      /\ r.conn_want = c.conn_want \cup able
  BY <1>1 DEF Shape, ConnInfo, SessionFields
<1> QED
  BY <1>2, <1>3 DEF able

LEMMA UnsetFeature ==
  ASSUME NEW c, DOMAIN c = Shape, Numbers(c), NEW S, NEW r, r = fuse_unset_feature_flag(c, S)
  PROVE  /\ Keeps(c, r)
         /\ r.want_ext = c.want_ext \ S
         /\ r.want = c.want \ S /\ r.conn_want = c.conn_want \ S
  BY DEF fuse_unset_feature_flag, Keeps, Numbers, Shape, ConnInfo, SessionFields

LEMMA LimitsSet ==
  ASSUME NEW c, DOMAIN c = Shape, Numbers(c), NEW b \in Backends, NEW r,
         r = SetLimits(c, b.limits)
  PROVE  /\ Keeps(c, r)
         /\ r.want_ext = c.want_ext /\ r.conn_want_ext = c.conn_want_ext
         /\ r.want = c.want /\ r.conn_want = c.conn_want
<1>1. DOMAIN b.limits \subseteq Limits /\ \A f \in DOMAIN b.limits : b.limits[f] \in Nat
  BY ConnAssumption
<1> DEFINE l == b.limits
<1> HIDE DEF l
<1>2. r = [f \in Shape |-> IF f \in DOMAIN l THEN l[f] ELSE c[f]]
  BY DEF SetLimits, l
<1>3. DOMAIN l \subseteq Limits /\ \A f \in DOMAIN l : l[f] \in Nat
  BY <1>1 DEF l
<1> QED
  BY <1>2, <1>3 DEF Keeps, Numbers, Shape, ConnInfo, SessionFields, Limits

-------------------------------------------------------------------------------
(* The conversion touches want and want_ext only.                          *)
LEMMA Converted ==
  ASSUME NEW c, DOMAIN c = Shape, Numbers(c), NEW r, r = fuse_convert_to_conn_want_ext(c)
  PROVE  /\ Keeps(c, r)
         /\ r.conn_want = c.conn_want /\ r.conn_want_ext = c.conn_want_ext
         /\ IF c.want # c.conn_want /\ c.want_ext # c.want
            THEN /\ r.want = c.want
                 /\ r.want_ext = IF c.want_ext # c.conn_want_ext THEN c.want_ext ELSE c.want
            ELSE r.want = c.want_ext /\ r.want_ext = c.want_ext
<1>1. CASE c.want # c.conn_want /\ c.want_ext # c.want /\ c.want_ext # c.conn_want_ext
  <2>1. r = c
    BY <1>1 DEF fuse_convert_to_conn_want_ext
  <2> QED
    BY <1>1, <2>1, Zenon DEF Keeps
<1>2. CASE c.want # c.conn_want /\ c.want_ext # c.want /\ c.want_ext = c.conn_want_ext
  <2>1. r = [c EXCEPT !.want_ext = c.want]
    BY <1>2, Zenon DEF fuse_convert_to_conn_want_ext
  <2>2. /\ Keeps(c, r) /\ r.conn_want = c.conn_want /\ r.conn_want_ext = c.conn_want_ext
        /\ r.want = c.want /\ r.want_ext = c.want
    BY <2>1 DEF Keeps, Numbers, Shape, ConnInfo, SessionFields
  <2> QED
    BY <1>2, <2>2, Zenon
<1>3. CASE ~(c.want # c.conn_want /\ c.want_ext # c.want)
  <2>1. r = [c EXCEPT !.want = c.want_ext]
    BY <1>3, Zenon DEF fuse_convert_to_conn_want_ext
  <2>2. /\ Keeps(c, r) /\ r.conn_want = c.conn_want /\ r.conn_want_ext = c.conn_want_ext
        /\ r.want = c.want_ext /\ r.want_ext = c.want_ext
    BY <2>1 DEF Keeps, Numbers, Shape, ConnInfo, SessionFields
  <2> QED
    BY <1>3, <2>2, Zenon
<1> QED
  BY <1>1, <1>2, <1>3, Zenon

(* What op.init does to the four sets, by the way it asks.                 *)
Asked(c, r) ==
  LET b == backend
      able == b.ask \cap c.capable_ext
  IN /\ b.style \in {"assign", "old", "direct", "both"} =>
          r.conn_want = c.conn_want /\ r.conn_want_ext = c.conn_want_ext
     /\ b.style = "assign" => r.want = b.ask /\ r.want_ext = c.want_ext
     /\ b.style = "old" => r.want = (c.want \ b.drop) \cup b.ask /\ r.want_ext = c.want_ext
     /\ b.style = "direct" => r.want = c.want /\ r.want_ext = (c.want_ext \ b.drop) \cup b.ask
     /\ b.style = "both" =>
          r.want = (c.want \ b.drop) \cup b.ask /\ r.want_ext = c.want_ext \cup b.ask
     /\ b.style \in {"helpers", "options"} =>
          /\ r.want_ext = (c.want_ext \cup able) \ b.drop
          /\ r.want = (c.want \cup able) \ b.drop
          /\ r.conn_want = (c.conn_want \cup able) \ b.drop

LEMMA OpInitEffect ==
  ASSUME backend \in Backends, NEW c, DOMAIN c = Shape, Numbers(c), NEW r, r = OpInit(c)
  PROVE  Keeps(c, r) /\ Asked(c, r)
<1> DEFINE l == SetLimits(c, backend.limits)
<1>1. /\ Keeps(c, l)
      /\ l.want_ext = c.want_ext /\ l.conn_want_ext = c.conn_want_ext
      /\ l.want = c.want /\ l.conn_want = c.conn_want
  BY LimitsSet
<1>2. backend.style \in Styles
  BY ConnAssumption
<1>3. CASE backend.style = "assign"
  <2>1. r = [l EXCEPT !.want = backend.ask]
    BY <1>3 DEF OpInit
  <2> HIDE DEF l
  <2> QED
    BY <1>1, <1>3, <2>1 DEF Asked, Keeps, Numbers, Shape, ConnInfo, SessionFields
<1>4. CASE backend.style = "old"
  <2>1. r = [l EXCEPT !.want = (l.want \ backend.drop) \cup backend.ask]
    BY <1>4 DEF OpInit
  <2> HIDE DEF l
  <2> QED
    BY <1>1, <1>4, <2>1 DEF Asked, Keeps, Numbers, Shape, ConnInfo, SessionFields
<1>5. CASE backend.style = "direct"
  <2>1. r = [l EXCEPT !.want_ext = (l.want_ext \ backend.drop) \cup backend.ask]
    BY <1>5 DEF OpInit
  <2> HIDE DEF l
  <2> QED
    BY <1>1, <1>5, <2>1 DEF Asked, Keeps, Numbers, Shape, ConnInfo, SessionFields
<1>6. CASE backend.style = "both"
  <2>1. r = [l EXCEPT !.want = (l.want \ backend.drop) \cup backend.ask,
                      !.want_ext = l.want_ext \cup backend.ask]
    BY <1>6 DEF OpInit
  <2> HIDE DEF l
  <2> QED
    BY <1>1, <1>6, <2>1 DEF Asked, Keeps, Numbers, Shape, ConnInfo, SessionFields
<1>7. CASE backend.style \in {"helpers", "options"}
  <2> DEFINE s == fuse_set_feature_flag(l, backend.ask)
  <2>1. r = fuse_unset_feature_flag(s, backend.drop)
    <3>1. CASE backend.style = "helpers"
      BY <3>1 DEF OpInit
    <3>2. CASE backend.style = "options"
      <4>1. backend.ask \subseteq EnableOptions /\ backend.drop \subseteq DisableOptions
        BY <3>2, ConnAssumption
      <4>2. /\ backend.ask \cap EnableOptions = backend.ask
            /\ backend.drop \cap DisableOptions = backend.drop
        BY <4>1
      <4>3. r = fuse_apply_conn_info_opts(c, backend.limits, backend.ask, backend.drop)
        BY <3>2 DEF OpInit
      <4> QED
        BY <4>2, <4>3, Zenon DEF fuse_apply_conn_info_opts
    <3> QED
      BY <1>7, <3>1, <3>2
  <2> HIDE DEF l
  <2>2. DOMAIN l = Shape /\ Numbers(l) /\ l.capable_ext = c.capable_ext
    BY <1>1 DEF Keeps
  <2>3. /\ Keeps(l, s)
        /\ s.want_ext = l.want_ext \cup (backend.ask \cap l.capable_ext)
        /\ s.want = l.want \cup (backend.ask \cap l.capable_ext)
        /\ s.conn_want = l.conn_want \cup (backend.ask \cap l.capable_ext)
    BY <2>2, SetFeature
  <2> HIDE DEF s
  <2>4. DOMAIN s = Shape /\ Numbers(s)
    BY <2>3 DEF Keeps
  <2>5. /\ Keeps(s, r)
        /\ r.want_ext = s.want_ext \ backend.drop
        /\ r.want = s.want \ backend.drop /\ r.conn_want = s.conn_want \ backend.drop
    BY <2>1, <2>4, UnsetFeature
  <2>6. Keeps(c, r)
    BY <1>1, <2>3, <2>5, KeepsTrans
  <2>7. Asked(c, r)
    BY <1>1, <1>7, <2>2, <2>3, <2>5 DEF Asked
  <2> QED
    BY <2>6, <2>7
<1> QED
  BY <1>2, <1>3, <1>4, <1>5, <1>6, <1>7 DEF Styles

-------------------------------------------------------------------------------
(* LeftoverInv of any session, and what a kernel of this version can do.   *)
Leftover(c) ==
  IF "init" \in backend.ops /\ backend.style \in {"helpers", "options"}
  THEN c.want = c.conn_want /\ c.want \subseteq ChosenCaps
  ELSE /\ c.conn_want \subseteq GivenCaps /\ c.conn_want_ext \subseteq GivenCaps
       /\ backend.style \in {"old", "direct"} => c.want \subseteq GivenCaps \cup ChosenCaps

InOf == InFlags(kernel.minor, kernel.flags)
Able == Capable(kernel.minor, InOf)

(* The session just before op.init: the defaults are on.                   *)
Before == fuse_set_feature_flag(Fresh([conn EXCEPT !.proto_minor = kernel.minor], InOf),
                                DefaultCaps)

LEMMA BeforeEffect ==
  ASSUME kernel \in Kernels, DOMAIN conn = Shape, Numbers(conn)
  PROVE  /\ DOMAIN Before = Shape /\ Numbers(Before)
         /\ Before.proto_minor = kernel.minor /\ Before.bufsize = conn.bufsize
         /\ Before.got_init = conn.got_init /\ Before.capable_ext = Able
         /\ Before.want_ext = GivenCaps
         /\ Before.conn_want_ext = conn.conn_want_ext \cup GivenCaps
         /\ Before.want = conn.want \cup GivenCaps
         /\ Before.conn_want = conn.conn_want \cup GivenCaps
<1> DEFINE m == kernel.minor
           p == [conn EXCEPT !.proto_minor = m]
           f == Fresh(p, InOf)
<1>1. m \in Nat
  BY ConnAssumption
<1> HIDE DEF m
<1>2. /\ DOMAIN p = Shape /\ Numbers(p) /\ p.proto_minor = m
      /\ p.bufsize = conn.bufsize /\ p.got_init = conn.got_init
      /\ p.want = conn.want /\ p.conn_want = conn.conn_want
      /\ p.conn_want_ext = conn.conn_want_ext
  BY <1>1 DEF Numbers, Shape, ConnInfo, SessionFields
<1> HIDE DEF p
<1>3. /\ DOMAIN f = Shape /\ Numbers(f) /\ f.proto_minor = m
      /\ f.bufsize = conn.bufsize /\ f.got_init = conn.got_init
      /\ f.want = conn.want /\ f.conn_want = conn.conn_want
      /\ f.conn_want_ext = conn.conn_want_ext
      /\ f.want_ext = {} /\ f.capable_ext = Capable(m, InOf)
  <2> DEFINE a == Capable(p.proto_minor, InOf)
             ra == IF p.proto_minor < 6 THEN 0 ELSE Min({p.max_readahead, kernel.readahead})
  <2> HIDE DEF a, ra
  <2>1. f = [p EXCEPT !.capable_ext = a, !.want_ext = {}, !.max_readahead = ra, !.time_gran = 1]
    BY DEF Fresh, a, ra
  <2>2. /\ DOMAIN f = Shape /\ Numbers(f) /\ f.proto_minor = m
        /\ f.bufsize = conn.bufsize /\ f.got_init = conn.got_init
        /\ f.want = conn.want /\ f.conn_want = conn.conn_want
        /\ f.conn_want_ext = conn.conn_want_ext
        /\ f.want_ext = {} /\ f.capable_ext = a
    BY <1>2, <2>1 DEF Numbers, Shape, ConnInfo, SessionFields
  <2>3. a = Capable(m, InOf)
    BY <1>2 DEF a
  <2> QED
    BY <2>2, <2>3, Zenon
<1>4. Capable(m, InOf) = Able
  BY DEF Able, m
<1> HIDE DEF f
<1>5. Before = fuse_set_feature_flag(f, DefaultCaps)
  BY DEF Before, f, p, m
<1>6. /\ Keeps(f, Before)
      /\ Before.want_ext = f.want_ext \cup (DefaultCaps \cap f.capable_ext)
      /\ Before.conn_want_ext = f.conn_want_ext \cup (DefaultCaps \cap f.capable_ext)
      /\ Before.want = f.want \cup (DefaultCaps \cap f.capable_ext)
      /\ Before.conn_want = f.conn_want \cup (DefaultCaps \cap f.capable_ext)
  BY <1>3, <1>5, SetFeature
<1>7. DefaultCaps \cap f.capable_ext = GivenCaps
  BY <1>3, <1>4, Zenon DEF GivenCaps, Able, InOf
<1>8. /\ Before.want_ext = GivenCaps
      /\ Before.conn_want_ext = conn.conn_want_ext \cup GivenCaps
      /\ Before.want = conn.want \cup GivenCaps
      /\ Before.conn_want = conn.conn_want \cup GivenCaps
  <2> DEFINE g == GivenCaps
  <2> HIDE DEF g
  <2>1. DefaultCaps \cap f.capable_ext = g
    BY <1>7 DEF g
  <2>2. Before.want_ext = {} \cup g
    BY <1>3, <1>6, <2>1, Zenon
  <2>3. {} \cup g = g
    OBVIOUS
  <2>4. /\ Before.conn_want_ext = conn.conn_want_ext \cup g
        /\ Before.want = conn.want \cup g
        /\ Before.conn_want = conn.conn_want \cup g
    BY <1>3, <1>6, <2>1, Zenon
  <2> QED
    BY <2>2, <2>3, <2>4, Zenon DEF g
<1>9. kernel.minor = m
  BY DEF m
<1> QED
  BY <1>3, <1>4, <1>6, <1>8, <1>9, Zenon DEF Keeps

(* After the conversion the new field has what the backend chose, by       *)
(* whichever field it chose it, and no more is left over than before.      *)
(* The two fields are compared with what libfuse itself had set: that is   *)
(* why LeftoverInv is needed.                                              *)
LEMMA ChoiceKept ==
  ASSUME kernel \in Kernels, backend \in Backends, "init" \in backend.ops,
         DOMAIN conn = Shape, Numbers(conn), Leftover(conn),
         NEW c, c = OpInit(Before), NEW r, r = fuse_convert_to_conn_want_ext(c)
  PROVE  /\ Keeps(Before, r) /\ Leftover(r)
         /\ backend.style # "both" => r.want_ext = ChosenCaps
<1> DEFINE G == GivenCaps
           X == ChosenCaps
           B == Before
           ask == backend.ask
           drop == backend.drop
<1>1. /\ DOMAIN B = Shape /\ Numbers(B) /\ B.capable_ext = Able
      /\ B.want_ext = G
      /\ B.conn_want_ext = conn.conn_want_ext \cup G
      /\ B.want = conn.want \cup G
      /\ B.conn_want = conn.conn_want \cup G
  BY BeforeEffect
<1>2. Keeps(B, c) /\ Asked(B, c)
  BY <1>1, OpInitEffect
<1>3. DOMAIN c = Shape /\ Numbers(c)
  BY <1>2 DEF Keeps
<1>4. /\ Keeps(c, r)
      /\ r.conn_want = c.conn_want /\ r.conn_want_ext = c.conn_want_ext
      /\ IF c.want # c.conn_want /\ c.want_ext # c.want
         THEN /\ r.want = c.want
              /\ r.want_ext = IF c.want_ext # c.conn_want_ext THEN c.want_ext ELSE c.want
         ELSE r.want = c.want_ext /\ r.want_ext = c.want_ext
  BY <1>3, Converted
<1>5. Keeps(B, r)
  BY <1>2, <1>4, KeepsTrans
<1>6. /\ backend.style = "assign" => X = ask
      /\ backend.style \in {"old", "direct"} => X = (G \ drop) \cup ask
      /\ backend.style \in {"helpers", "options"} => X = (G \cup (ask \cap Able)) \ drop
  BY DEF ChosenCaps, Able, InOf
<1> HIDE DEF G, X, B, ask, drop
<1>7. CASE backend.style \in {"assign", "old", "direct", "both"}
  <2>1. conn.conn_want \subseteq G /\ conn.conn_want_ext \subseteq G
    BY <1>7 DEF Leftover, G
  <2>2. B.conn_want = G /\ B.conn_want_ext = G
    BY <1>1, <2>1
  <2>3. r.conn_want = G /\ r.conn_want_ext = G /\ c.conn_want = G /\ c.conn_want_ext = G
    BY <1>2, <1>4, <1>7, <2>2, Zenon DEF Asked
  <2>4. CASE backend.style = "assign"
    <3>1. c.want = ask /\ c.want_ext = G
      BY <1>1, <1>2, <2>4, Zenon DEF Asked, ask
    <3>2. r.want_ext = X
      BY <1>4, <1>6, <2>3, <2>4, <3>1, Zenon
    <3> QED
      BY <1>5, <2>3, <2>4, <3>2 DEF Leftover, G, X, B
  <2>5. CASE backend.style = "old"
    <3>1. c.want = (B.want \ drop) \cup ask /\ c.want_ext = G
      BY <1>1, <1>2, <2>5, Zenon DEF Asked, ask, drop
    <3>2. conn.want \subseteq G \cup X
      BY <2>5 DEF Leftover, G, X
    <3>3. X = (G \ drop) \cup ask
      BY <1>6, <2>5
    <3>4. (B.want \ drop) \cup ask = X
      BY <1>1, <3>2, <3>3
    <3>5. c.want = X
      BY <3>1, <3>4, Zenon
    <3>6. r.want_ext = X /\ (r.want = X \/ r.want = G)
      BY <1>4, <2>3, <3>1, <3>5, Zenon
    <3>7. r.want \subseteq G \cup X
      BY <3>6
    <3> QED
      BY <1>5, <2>3, <2>5, <3>6, <3>7 DEF Leftover, G, X, B
  <2>6. CASE backend.style = "direct"
    <3>1. c.want = B.want /\ c.want_ext = (B.want_ext \ drop) \cup ask
      BY <1>2, <2>6, Zenon DEF Asked, ask, drop
    <3>2. c.want_ext = X
      BY <1>1, <1>6, <2>6, <3>1, Zenon
    <3>3. conn.want \subseteq G \cup X
      BY <2>6 DEF Leftover, G, X
    <3>4. c.want \subseteq G \cup X /\ (X = G => c.want = G)
      BY <1>1, <3>1, <3>3
    <3>5. r.want_ext = X /\ (r.want = X \/ r.want = c.want)
      BY <1>4, <2>3, <3>2, <3>4, Zenon
    <3>6. r.want \subseteq G \cup X
      BY <3>4, <3>5
    <3> QED
      BY <1>5, <2>3, <2>6, <3>5, <3>6 DEF Leftover, G, X, B
  <2>7. CASE backend.style = "both"
    BY <1>5, <2>3, <2>7 DEF Leftover, G, X, B
  <2> QED
    BY <1>7, <2>4, <2>5, <2>6, <2>7
<1>8. CASE backend.style \in {"helpers", "options"}
  <2>1. conn.want = conn.conn_want /\ conn.want \subseteq X
    BY <1>8 DEF Leftover, X
  <2>2. X = (G \cup (ask \cap Able)) \ drop
    BY <1>6, <1>8
  <2>3. B.want = B.conn_want /\ B.want \subseteq X \cup G
    BY <1>1, <2>1
  <2>4. /\ c.want_ext = (B.want_ext \cup (ask \cap Able)) \ drop
        /\ c.want = (B.want \cup (ask \cap Able)) \ drop
        /\ c.conn_want = (B.conn_want \cup (ask \cap Able)) \ drop
    BY <1>1, <1>2, <1>8, Zenon DEF Asked, ask, drop
  <2>5. c.want_ext = X
    BY <1>1, <2>2, <2>4, Zenon
  <2>6. c.conn_want = c.want
    BY <2>3, <2>4, Zenon
  <2>7. (B.want \cup (ask \cap Able)) \ drop = X
    BY <1>1, <2>1, <2>2
  <2>8. c.want = X
    BY <2>4, <2>7, Zenon
  <2>9. r.want = X /\ r.want_ext = X /\ r.conn_want = X
    BY <1>4, <2>5, <2>6, <2>8, Zenon
  <2> QED
    BY <1>5, <1>8, <2>9 DEF Leftover, G, X, B
<1>9. backend.style \in Styles
  BY ConnAssumption
<1> QED
  BY <1>7, <1>8, <1>9 DEF Styles, G, X, B

(* The same for a backend without op.init, which has the defaults.         *)
LEMMA WantedEffect ==
  ASSUME kernel \in Kernels, backend \in Backends,
         DOMAIN conn = Shape, Numbers(conn), Leftover(conn),
         NEW r, r = Wanted([conn EXCEPT !.proto_minor = kernel.minor], InOf)
  PROVE  /\ DOMAIN r = Shape /\ Numbers(r)
         /\ r.proto_minor = kernel.minor /\ r.bufsize = conn.bufsize
         /\ r.got_init = conn.got_init /\ r.capable_ext = Able
         /\ Leftover(r)
         /\ backend.style # "both" => r.want_ext = ChosenCaps
<1>1. r = IF "init" \in backend.ops THEN fuse_convert_to_conn_want_ext(OpInit(Before)) ELSE Before
  BY DEF Wanted, Before
<1>2. /\ DOMAIN Before = Shape /\ Numbers(Before)
      /\ Before.proto_minor = kernel.minor /\ Before.bufsize = conn.bufsize
      /\ Before.got_init = conn.got_init /\ Before.capable_ext = Able
      /\ Before.want_ext = GivenCaps
      /\ Before.conn_want_ext = conn.conn_want_ext \cup GivenCaps
      /\ Before.want = conn.want \cup GivenCaps
      /\ Before.conn_want = conn.conn_want \cup GivenCaps
  BY BeforeEffect
<1>3. CASE "init" \in backend.ops
  <2>1. /\ Keeps(Before, r) /\ Leftover(r)
        /\ backend.style # "both" => r.want_ext = ChosenCaps
    BY <1>1, <1>3, ChoiceKept
  <2> QED
    BY <1>2, <2>1, Zenon DEF Keeps
<1>4. CASE "init" \notin backend.ops
  <2> DEFINE G == GivenCaps
             X == ChosenCaps
  <2>1. r = Before
    BY <1>1, <1>4
  <2>2. X = G
    BY <1>4 DEF ChosenCaps
  <2>3. /\ conn.conn_want \subseteq G /\ conn.conn_want_ext \subseteq G
        /\ backend.style \in {"old", "direct"} => conn.want \subseteq G \cup X
    BY <1>4 DEF Leftover
  <2> HIDE DEF G, X
  <2>4. /\ r.want_ext = G /\ r.conn_want_ext = conn.conn_want_ext \cup G
        /\ r.want = conn.want \cup G /\ r.conn_want = conn.conn_want \cup G
    BY <1>2, <2>1, Zenon DEF G
  <2>5. /\ r.conn_want \subseteq G /\ r.conn_want_ext \subseteq G
        /\ backend.style \in {"old", "direct"} => r.want \subseteq G \cup X
    BY <2>3, <2>4
  <2>6. Leftover(r)
    BY <1>4, <2>5, Zenon DEF Leftover, G, X
  <2>7. r.want_ext = ChosenCaps
    BY <2>2, <2>4, Zenon DEF X
  <2> QED
    BY <1>2, <2>1, <2>6, <2>7, Zenon
<1> QED
  BY <1>3, <1>4

-------------------------------------------------------------------------------
(* The write buffer.  The session's buffer is at most the smallest one, so *)
(* that a write has at most the bytes between it and the header, which is  *)
(* one page.                                                               *)
LEMMA BufferEffect ==
  ASSUME NEW c, DOMAIN c = Shape, Numbers(c), c.bufsize <= MinReadBuffer,
         NEW in, NEW r, r = BufferSized(c, in)
  PROVE  /\ DOMAIN r = Shape /\ Numbers(r)
         /\ r.max_write <= PageBytes /\ r.bufsize = r.max_write + HeaderSize
         /\ r.proto_minor = c.proto_minor /\ r.capable_ext = c.capable_ext
         /\ r.want = c.want /\ r.want_ext = c.want_ext
         /\ r.conn_want = c.conn_want /\ r.conn_want_ext = c.conn_want_ext
<1> DEFINE most == PageBytes * MaxPagesPerReq + HeaderSize
           given == IF c.proto_minor >= 6 /\ "MAX_PAGES" \notin in THEN Min({c.bufsize, most})
                    ELSE c.bufsize
           room == (IF given < MinReadBuffer THEN MinReadBuffer ELSE given) - HeaderSize
           write == Min({c.max_write, room})
<1>1. most = 135168 /\ c.bufsize \in Nat /\ c.max_write \in Nat
  BY DEF PageBytes, MaxPagesPerReq, HeaderSize, Numbers
<1>2. Min({c.bufsize, most}) = IF c.bufsize <= most THEN c.bufsize ELSE most
  BY <1>1, MinOfTwo
<1> HIDE DEF most
<1>3. given = c.bufsize
  BY <1>1, <1>2 DEF MinReadBuffer
<1> HIDE DEF given
<1>4. room = 4096
  BY <1>1, <1>3 DEF MinReadBuffer, HeaderSize
<1> HIDE DEF room
<1>5. write \in Nat /\ write <= 4096
  BY <1>1, <1>4, MinOfTwo
<1> HIDE DEF write
<1>6. r = [c EXCEPT !.max_write = write, !.bufsize = write + HeaderSize]
  BY DEF BufferSized, write, room, given, most
<1> QED
  BY <1>5, <1>6 DEF Numbers, Shape, ConnInfo, SessionFields, HeaderSize, PageBytes

LEMMA CongestedEffect ==
  ASSUME NEW c, DOMAIN c = Shape, Numbers(c), NEW r, r = Congested(c)
  PROVE  /\ Keeps(c, r) /\ r.max_write = c.max_write
         /\ r.want = c.want /\ r.want_ext = c.want_ext
         /\ r.conn_want = c.conn_want /\ r.conn_want_ext = c.conn_want_ext
         /\ c.proto_minor >= 13 =>
              r.congestion_threshold <= r.max_background /\ r.max_background < U16
<1>1. CASE c.proto_minor < 13
  BY <1>1 DEF Congested, Keeps, Numbers
<1>2. CASE ~(c.proto_minor < 13)
  <2> DEFINE most == Min({c.max_background, U16 - 1})
             asked == Min({c.congestion_threshold, most})
             t == IF asked = 0 THEN (most * 3) \div 4 ELSE asked
  <2>1. most \in Nat /\ most < U16
    BY MinOfTwo DEF U16, Numbers
  <2> HIDE DEF most
  <2>2. asked \in Nat /\ asked <= most
    BY <2>1, MinOfTwo DEF Numbers
  <2> HIDE DEF asked
  <2>3. t \in Nat /\ t <= most
    BY <2>1, <2>2
  <2> HIDE DEF t
  <2>4. r = [c EXCEPT !.max_background = most, !.congestion_threshold = t]
    BY <1>2 DEF Congested, most, asked, t
  <2> QED
    BY <2>1, <2>3, <2>4 DEF Keeps, Numbers, Shape, ConnInfo, SessionFields
<1> QED
  BY <1>1, <1>2

(* The pages of a write of at most one page.                               *)
LEMMA PagesHoldWrite ==
  ASSUME NEW w \in Nat, w <= PageBytes
  PROVE  MaxPages(w) # 0 => MaxPages(w) * PageBytes >= w
<1>1. CASE w = 0
  BY <1>1 DEF MaxPages, PagesOfU32, U16
<1>2. CASE w # 0
  <2>1. (w - 1) \div 4096 = 0
    BY <1>2 DEF PageBytes
  <2>2. MaxPages(w) = 1
    BY <1>2, <2>1 DEF MaxPages, PageBytes, U16
  <2> QED
    BY <2>2 DEF PageBytes
<1> QED
  BY <1>1, <1>2

(* The flags of an answer are the offered ones that are wanted.            *)
LEMMA OutFlagsEffect ==
  ASSUME NEW d, DOMAIN d = Shape, kernel \in Kernels, d.want_ext \subseteq Able
  PROVE  /\ OutFlags(d, InOf) \subseteq kernel.flags \cup {"BIG_WRITES"}
         /\ OutFlags(d, InOf) \cap ReplyCaps = d.want_ext \cap ReplyCaps
<1>1. InOf \subseteq kernel.flags
  BY DEF InOf, InFlags
<1>2. Able \cap ReplyCaps \subseteq InOf
  BY DEF Able, Capable, ReplyCaps, FlagCaps, BasicCaps, CacheCaps, LateCaps, HighCaps
<1>3. {"BIG_WRITES", "MAX_PAGES", "INIT_EXT", "REQUEST_TIMEOUT"} \cap ReplyCaps = {}
  BY DEF ReplyCaps, FlagCaps, BasicCaps, CacheCaps, LateCaps, HighCaps
<1> DEFINE T == IF d.request_timeout > 0 THEN InOf \cap {"REQUEST_TIMEOUT"} ELSE {}
<1>4. T \subseteq InOf /\ T \subseteq {"REQUEST_TIMEOUT"}
  OBVIOUS
<1> HIDE DEF T
<1>5. OutFlags(d, InOf) = {"BIG_WRITES"} \cup (kernel.flags \cap {"MAX_PAGES"})
                            \cup (InOf \cap {"INIT_EXT"})
                            \cup (d.want_ext \cap ReplyCaps) \cup T
  BY DEF OutFlags, T
<1> QED
  BY <1>1, <1>2, <1>3, <1>4, <1>5

-------------------------------------------------------------------------------
LEMMA ShapeOf == ShapeInv => DOMAIN conn = Shape /\ Numbers(conn)
  BY DEF ShapeInv, Shape, Numbers

LEMMA LeftoverOf == LeftoverInv <=> Leftover(conn)
  BY DEF LeftoverInv, Leftover

(* The choice depends on the kernel and the backend alone.                 *)
LEMMA SameChoice ==
  ASSUME UNCHANGED <<kernel, backend>>
  PROVE  GivenCaps' = GivenCaps /\ ChosenCaps' = ChosenCaps
<1>1. kernel' = kernel /\ backend' = backend
  OBVIOUS
<1>2. DefaultCaps' = DefaultCaps
  BY <1>1, Zenon DEF DefaultCaps
<1>3. GivenCaps' = GivenCaps
  BY <1>1, <1>2, Zenon DEF GivenCaps
<1>4. ChosenCaps' = ChosenCaps
  BY <1>1, <1>3, Zenon DEF ChosenCaps
<1> QED
  BY <1>3, <1>4

LEMMA LeftoverNext ==
  ASSUME UNCHANGED <<kernel, backend>>, NEW c, Leftover(c),
         conn'.want = c.want, conn'.conn_want = c.conn_want,
         conn'.conn_want_ext = c.conn_want_ext
  PROVE  LeftoverInv'
<1>1. GivenCaps' = GivenCaps /\ ChosenCaps' = ChosenCaps /\ backend' = backend
  BY SameChoice
<1> QED
  BY <1>1, Zenon DEF LeftoverInv, Leftover

LEMMA InitConnInv == ConnInit => ConnInv
<1> SUFFICES ASSUME ConnInit PROVE ConnInv
  OBVIOUS
<1>1. PICK k \in Kernels, b \in Backends : ConnFrom(k, b)
  BY DEF ConnInit
<1>2. kernel \in Kernels /\ backend \in Backends /\ told = None /\ notice = None
  BY <1>1 DEF ConnFrom
<1>3. conn = NewSession /\ agreed = conn.proto_minor
  BY <1>1 DEF ConnFrom
<1>4. ShapeInv /\ SizeInv
  BY <1>3 DEF ShapeInv, SizeInv, NewSession, ConnInfo, SessionFields, MinReadBuffer
<1>5. AgreedInv
  BY <1>2, <1>3 DEF AgreedInv, NewSession
<1>6. LeftoverInv
  <2>1. conn.want = {} /\ conn.conn_want = {} /\ conn.conn_want_ext = {}
    BY <1>3 DEF NewSession
  <2> QED
    BY <2>1 DEF LeftoverInv
<1> QED
  BY <1>2, <1>4, <1>5, <1>6 DEF ConnInv, FlagsAsChosen, LimitsKept, NotifiedAsAgreed

(* A new answer is all that FlagsAsChosen and LimitsKept are about.        *)
LEMMA SameAnswer ==
  ASSUME FlagsAsChosen, LimitsKept, UNCHANGED <<kernel, backend, told>>,
         conn'.bufsize = conn.bufsize
  PROVE  FlagsAsChosen' /\ LimitsKept'
<1>1. ChosenCaps' = ChosenCaps /\ kernel' = kernel /\ backend' = backend /\ told' = told
  BY SameChoice
<1>2. FlagsAsChosen'
  BY <1>1, Zenon DEF FlagsAsChosen
<1>3. LimitsKept'
  BY <1>1 DEF LimitsKept
<1> QED
  BY <1>2, <1>3

LEMMA SameNotice ==
  ASSUME NotifiedAsAgreed, UNCHANGED <<kernel, notice>> PROVE NotifiedAsAgreed'
  BY Zenon DEF NotifiedAsAgreed

LEMMA DoInit7Keeps == ConnInv /\ DoInit7 => ConnInv'
<1> SUFFICES ASSUME ConnInv, DoInit7 PROVE ConnInv'
  OBVIOUS
<1> DEFINE c == Wanted([conn EXCEPT !.proto_minor = kernel.minor], InOf)
           s == BufferSized(c, InOf)
           d == Congested(s)
<1>1. /\ kernel \in Kernels /\ backend \in Backends /\ Leftover(conn)
      /\ DOMAIN conn = Shape /\ Numbers(conn) /\ conn.bufsize <= MinReadBuffer
  BY ShapeOf, LeftoverOf DEF ConnInv, SizeInv
<1>2. /\ kernel' = kernel /\ backend' = backend /\ notice' = notice
      /\ ~conn.got_init
      /\ \/ /\ Accepts(c) /\ conn' = [d EXCEPT !.got_init = TRUE]
            /\ agreed' = kernel.minor /\ told' = InitOut(d, InOf)
         \/ /\ ~Accepts(c) /\ conn' = [c EXCEPT !.exited = TRUE]
            /\ agreed' = agreed /\ told' = told
  BY DEF DoInit7, InOf
<1>3. /\ DOMAIN c = Shape /\ Numbers(c)
      /\ c.proto_minor = kernel.minor /\ c.bufsize = conn.bufsize
      /\ c.got_init = conn.got_init /\ c.capable_ext = Able
      /\ Leftover(c)
      /\ backend.style # "both" => c.want_ext = ChosenCaps
  BY <1>1, WantedEffect
<1> HIDE DEF c
<1>4. NotifiedAsAgreed'
  BY <1>2, SameNotice DEF ConnInv
<1>5. CASE Accepts(c)
  <2>1. /\ DOMAIN s = Shape /\ Numbers(s)
        /\ s.max_write <= PageBytes /\ s.bufsize = s.max_write + HeaderSize
        /\ s.proto_minor = c.proto_minor /\ s.capable_ext = c.capable_ext
        /\ s.want = c.want /\ s.want_ext = c.want_ext
        /\ s.conn_want = c.conn_want /\ s.conn_want_ext = c.conn_want_ext
    BY <1>1, <1>3, BufferEffect
  <2> HIDE DEF s
  <2>2. /\ Keeps(s, d) /\ d.max_write = s.max_write
        /\ d.want = s.want /\ d.want_ext = s.want_ext
        /\ d.conn_want = s.conn_want /\ d.conn_want_ext = s.conn_want_ext
        /\ s.proto_minor >= 13 =>
             d.congestion_threshold <= d.max_background /\ d.max_background < U16
    BY <2>1, CongestedEffect
  <2> HIDE DEF d
  <2>3. /\ DOMAIN d = Shape /\ Numbers(d) /\ d.proto_minor = kernel.minor
        /\ d.bufsize = d.max_write + HeaderSize /\ d.max_write <= PageBytes
        /\ d.capable_ext = Able
        /\ d.want = c.want /\ d.want_ext = c.want_ext
        /\ d.conn_want = c.conn_want /\ d.conn_want_ext = c.conn_want_ext
        /\ d.proto_minor >= 13 =>
             d.congestion_threshold <= d.max_background /\ d.max_background < U16
    BY <1>3, <2>1, <2>2, Zenon DEF Keeps
  <2>4. /\ conn' = [d EXCEPT !.got_init = TRUE]
        /\ agreed' = kernel.minor /\ told' = InitOut(d, InOf)
    BY <1>2, <1>5
  <2>5. /\ DOMAIN conn' = Shape /\ Numbers(conn') /\ conn'.got_init = TRUE
        /\ conn'.proto_minor = kernel.minor /\ conn'.capable_ext = Able
        /\ conn'.bufsize = d.bufsize
        /\ conn'.want = c.want /\ conn'.conn_want = c.conn_want
        /\ conn'.conn_want_ext = c.conn_want_ext
    BY <2>3, <2>4 DEF Numbers, Shape, ConnInfo, SessionFields
  <2>6. ShapeInv' /\ SizeInv'
    <3>1. ShapeInv'
      BY <2>5 DEF ShapeInv, Shape, Numbers
    <3>2. d.max_write \in Nat /\ d.max_write <= 4096 /\ conn'.bufsize = d.max_write + 4096
      BY <2>3, <2>5 DEF Numbers, HeaderSize, PageBytes
    <3>3. SizeInv'
      BY <3>2 DEF SizeInv, MinReadBuffer
    <3> QED
      BY <3>1, <3>3
  <2>7. AgreedInv'
    <3>1. "EXPIRE_ONLY" \in Able => "HAS_EXPIRE_ONLY" \in kernel.flags \/ kernel.minor >= 38
      BY DEF Able, Capable, InOf, InFlags, FlagCaps, BasicCaps, CacheCaps, LateCaps, HighCaps
    <3> QED
      BY <1>2, <2>4, <2>5, <3>1 DEF AgreedInv
  <2>8. LeftoverInv'
    BY <1>2, <1>3, <2>5, LeftoverNext
  <2>9. FlagsAsChosen'
    <3>1. told'.flags = OutFlags(d, InOf)
      BY <2>4 DEF InitOut
    <3>2. d.want_ext \subseteq Able
      BY <1>3, <1>5, <2>3 DEF Accepts, want_flags_valid
    <3>3. /\ OutFlags(d, InOf) \subseteq kernel.flags \cup {"BIG_WRITES"}
          /\ OutFlags(d, InOf) \cap ReplyCaps = d.want_ext \cap ReplyCaps
      BY <1>1, <2>3, <3>2, OutFlagsEffect
    <3>4. /\ told'.flags \subseteq kernel.flags \cup {"BIG_WRITES"}
          /\ told'.flags \cap ReplyCaps = d.want_ext \cap ReplyCaps
      BY <3>1, <3>3, Zenon
    <3>5. backend.style # "both" => told'.flags \cap ReplyCaps = ChosenCaps \cap ReplyCaps
      BY <1>3, <2>3, <3>4, Zenon
    <3>6. ChosenCaps' = ChosenCaps
      BY <1>2, SameChoice
    <3> QED
      BY <1>2, <3>4, <3>5, <3>6, Zenon DEF FlagsAsChosen
  <2>10. LimitsKept'
    <3>1. /\ told'.max_write = d.max_write
          /\ told'.max_pages = IF "MAX_PAGES" \in kernel.flags THEN MaxPages(d.max_write) ELSE 0
          /\ told'.max_background = IF d.proto_minor < 13 THEN 0 ELSE d.max_background
          /\ told'.congestion_threshold =
               IF d.proto_minor < 13 THEN 0 ELSE d.congestion_threshold
      BY <2>4 DEF InitOut
    <3>2. d.max_write \in Nat /\ d.max_background \in Nat /\ d.congestion_threshold \in Nat
          /\ d.proto_minor \in Nat
      BY <2>3 DEF Numbers
    <3>3. told'.max_write + HeaderSize = conn'.bufsize
      BY <2>3, <2>5, <3>1
    <3>4. told'.max_pages # 0 => told'.max_pages * PageBytes >= told'.max_write
      <4>1. MaxPages(d.max_write) # 0 => MaxPages(d.max_write) * PageBytes >= d.max_write
        BY <2>3, <3>2, PagesHoldWrite
      <4> QED
        BY <3>1, <4>1
    <3>5. /\ told'.congestion_threshold <= told'.max_background
          /\ told'.max_background < U16
      BY <2>3, <3>1, <3>2 DEF U16
    <3> QED
      BY <3>3, <3>4, <3>5 DEF LimitsKept
  <2> QED
    BY <1>1, <1>2, <1>4, <2>6, <2>7, <2>8, <2>9, <2>10 DEF ConnInv
<1>6. CASE ~Accepts(c)
  <2>1. /\ conn' = [c EXCEPT !.exited = TRUE]
        /\ agreed' = agreed /\ told' = told
    BY <1>2, <1>6
  <2>2. /\ DOMAIN conn' = Shape /\ Numbers(conn') /\ conn'.got_init = conn.got_init
        /\ conn'.bufsize = conn.bufsize
        /\ conn'.want = c.want /\ conn'.conn_want = c.conn_want
        /\ conn'.conn_want_ext = c.conn_want_ext
    BY <1>3, <2>1 DEF Numbers, Shape, ConnInfo, SessionFields
  <2>3. ShapeInv' /\ SizeInv'
    BY <1>1, <2>2 DEF ConnInv, ShapeInv, SizeInv, Shape, Numbers
  <2>4. AgreedInv'
    BY <1>2, <2>1, <2>2 DEF ConnInv, AgreedInv
  <2>5. LeftoverInv'
    BY <1>2, <1>3, <2>2, LeftoverNext
  <2>6. FlagsAsChosen' /\ LimitsKept'
    BY <1>2, <2>1, <2>2, SameAnswer DEF ConnInv
  <2> QED
    BY <1>1, <1>2, <1>4, <2>3, <2>4, <2>5, <2>6 DEF ConnInv
<1> QED
  BY <1>5, <1>6

LEMMA DoInitOtherKeeps ==
  ASSUME ConnInv, NEW minor \in Nat, DoInitOther(minor) PROVE ConnInv'
<1>1. /\ kernel \in Kernels /\ backend \in Backends /\ Leftover(conn)
      /\ DOMAIN conn = Shape /\ Numbers(conn)
  BY ShapeOf, LeftoverOf DEF ConnInv
<1>2. /\ conn' = [conn EXCEPT !.proto_minor = minor, !.capable_ext = {}, !.want_ext = {}]
      /\ ~conn.got_init
      /\ UNCHANGED <<kernel, backend, agreed, told, notice>>
  BY DEF DoInitOther
<1>3. /\ DOMAIN conn' = Shape /\ Numbers(conn') /\ conn'.got_init = conn.got_init
      /\ conn'.bufsize = conn.bufsize
      /\ conn'.want = conn.want /\ conn'.conn_want = conn.conn_want
      /\ conn'.conn_want_ext = conn.conn_want_ext
  BY <1>1, <1>2 DEF Numbers, Shape, ConnInfo, SessionFields
<1>4. ShapeInv' /\ SizeInv'
  BY <1>3 DEF ConnInv, ShapeInv, SizeInv, Shape, Numbers
<1>5. AgreedInv'
  BY <1>2, <1>3 DEF ConnInv, AgreedInv
<1>6. LeftoverInv'
  BY <1>1, <1>2, <1>3, LeftoverNext
<1>7. FlagsAsChosen' /\ LimitsKept' /\ NotifiedAsAgreed'
  BY <1>2, <1>3, SameAnswer, SameNotice DEF ConnInv
<1> QED
  BY <1>1, <1>2, <1>4, <1>5, <1>6, <1>7 DEF ConnInv

LEMMA DoDestroyKeeps == ConnInv /\ DoDestroy => ConnInv'
<1> SUFFICES ASSUME ConnInv, DoDestroy PROVE ConnInv'
  OBVIOUS
<1>1. /\ kernel \in Kernels /\ backend \in Backends /\ Leftover(conn)
      /\ DOMAIN conn = Shape /\ Numbers(conn)
  BY ShapeOf, LeftoverOf DEF ConnInv
<1>2. /\ conn' = [conn EXCEPT !.got_init = FALSE] /\ agreed' = -1
      /\ UNCHANGED <<kernel, backend, told, notice>>
  BY DEF DoDestroy
<1>3. /\ DOMAIN conn' = Shape /\ Numbers(conn') /\ conn'.got_init = FALSE
      /\ conn'.bufsize = conn.bufsize
      /\ conn'.want = conn.want /\ conn'.conn_want = conn.conn_want
      /\ conn'.conn_want_ext = conn.conn_want_ext
  BY <1>1, <1>2 DEF Numbers, Shape, ConnInfo, SessionFields
<1>4. ShapeInv' /\ SizeInv'
  BY <1>3 DEF ConnInv, ShapeInv, SizeInv, Shape, Numbers
<1>5. AgreedInv'
  BY <1>2, <1>3 DEF AgreedInv
<1>6. LeftoverInv'
  BY <1>1, <1>2, <1>3, LeftoverNext
<1>7. FlagsAsChosen' /\ LimitsKept' /\ NotifiedAsAgreed'
  BY <1>2, <1>3, SameAnswer, SameNotice DEF ConnInv
<1> QED
  BY <1>1, <1>2, <1>4, <1>5, <1>6, <1>7 DEF ConnInv

(* A notification changes nothing that the other parts are about.          *)
LEMMA NoticeOnly ==
  ASSUME ConnInv, UNCHANGED <<kernel, backend, conn, agreed, told>>, NotifiedAsAgreed'
  PROVE  ConnInv'
<1>1. /\ kernel' = kernel /\ backend' = backend /\ conn' = conn /\ agreed' = agreed
      /\ told' = told
  OBVIOUS
<1>2. ShapeInv' /\ SizeInv' /\ AgreedInv'
  BY <1>1, Zenon DEF ConnInv, ShapeInv, SizeInv, AgreedInv
<1>3. LeftoverInv'
  BY <1>1, LeftoverOf, LeftoverNext DEF ConnInv
<1>4. FlagsAsChosen' /\ LimitsKept'
  BY <1>1, SameAnswer DEF ConnInv
<1> QED
  BY <1>1, <1>2, <1>3, <1>4 DEF ConnInv

(* A notification that asks for got_init carries the agreed version, which *)
(* is the one it has compared with; STORE, which does not ask, carries     *)
(* that or none.                                                           *)
LEMMA NotifyKeeps ==
  ASSUME ConnInv,
         \/ notify_poll \/ notify_inval_inode \/ notify_increment_epoch
         \/ notify_inval_entry \/ notify_expire_entry \/ notify_delete \/ notify_store
  PROVE  ConnInv'
<1>0. /\ kernel.minor \in Nat /\ conn.proto_minor \in Nat /\ conn.got_init \in BOOLEAN
      /\ AgreedInv
  BY ConnAssumption, ShapeOf DEF ConnInv, ShapeInv, Numbers
<1> DEFINE Sent(code) == /\ notice' = [code |-> code, agreed |-> agreed]
                         /\ UNCHANGED <<kernel, backend, conn, agreed, told>>
<1>1. CASE notify_poll
  <2>1. Sent("POLL") /\ agreed >= 0
    BY <1>0, <1>1 DEF notify_poll, send_notify_iov, Notified, AgreedInv
  <2>2. NotifiedAsAgreed'
    BY <2>1 DEF NotifiedAsAgreed
  <2> QED
    BY <2>1, <2>2, NoticeOnly
<1>2. CASE notify_inval_inode
  <2>1. Sent("INVAL_INODE") /\ agreed >= 12
    BY <1>0, <1>2 DEF notify_inval_inode, send_notify_iov, Notified, AgreedInv
  <2>2. NotifiedAsAgreed'
    BY <2>1 DEF NotifiedAsAgreed
  <2> QED
    BY <2>1, <2>2, NoticeOnly
<1>3. CASE notify_increment_epoch
  <2>1. Sent("INC_EPOCH") /\ agreed >= 44
    BY <1>0, <1>3 DEF notify_increment_epoch, send_notify_iov, Notified, AgreedInv
  <2>2. NotifiedAsAgreed'
    BY <2>1 DEF NotifiedAsAgreed
  <2> QED
    BY <2>1, <2>2, NoticeOnly
<1>4. CASE notify_inval_entry
  <2>1. Sent("INVAL_ENTRY") /\ agreed >= 12
    BY <1>0, <1>4 DEF notify_inval_entry, send_notify_iov, Notified, AgreedInv
  <2>2. NotifiedAsAgreed'
    BY <2>1 DEF NotifiedAsAgreed
  <2> QED
    BY <2>1, <2>2, NoticeOnly
<1>5. CASE notify_expire_entry
  <2>1. /\ Sent("EXPIRE_ENTRY") /\ agreed >= 12
        /\ "HAS_EXPIRE_ONLY" \in kernel.flags \/ agreed >= 38
    BY <1>0, <1>5 DEF notify_expire_entry, send_notify_iov, Notified, AgreedInv
  <2>2. NotifiedAsAgreed'
    BY <2>1 DEF NotifiedAsAgreed
  <2> QED
    BY <2>1, <2>2, NoticeOnly
<1>6. CASE notify_delete
  <2>1. Sent("DELETE") /\ agreed >= 18
    BY <1>0, <1>6 DEF notify_delete, send_notify_iov, Notified, AgreedInv
  <2>2. NotifiedAsAgreed'
    BY <2>1 DEF NotifiedAsAgreed
  <2> QED
    BY <2>1, <2>2, NoticeOnly
<1>7. CASE notify_store
  <2>1. Sent("STORE") /\ (agreed = -1 \/ agreed >= 15)
    BY <1>0, <1>7 DEF notify_store, Notified, AgreedInv
  <2>2. NotifiedAsAgreed'
    BY <2>1 DEF NotifiedAsAgreed
  <2> QED
    BY <2>1, <2>2, NoticeOnly
<1> QED
  BY <1>1, <1>2, <1>3, <1>4, <1>5, <1>6, <1>7

-------------------------------------------------------------------------------
LEMMA ConnStep == ConnInv /\ ConnNext => ConnInv'
<1> SUFFICES ASSUME ConnInv, ConnNext PROVE ConnInv'
  OBVIOUS
<1>1. CASE DoInit7
  BY <1>1, DoInit7Keeps
<1>2. ASSUME NEW minor \in {31, NewerMinor}, DoInitOther(minor) PROVE ConnInv'
  <2>1. minor \in Nat
    BY ConnAssumption
  <2> QED
    BY <1>2, <2>1, DoInitOtherKeeps
<1>3. CASE DoDestroy
  BY <1>3, DoDestroyKeeps
<1>4. CASE \/ notify_poll \/ notify_inval_inode \/ notify_increment_epoch
           \/ notify_inval_entry \/ notify_expire_entry \/ notify_delete \/ notify_store
  BY <1>4, NotifyKeeps
<1> QED
  BY <1>1, <1>2, <1>3, <1>4 DEF ConnNext

LEMMA ConnStutters == ConnInv /\ UNCHANGED connVars => ConnInv'
<1> SUFFICES ASSUME ConnInv, UNCHANGED connVars PROVE ConnInv'
  OBVIOUS
<1>1. UNCHANGED <<kernel, backend, conn, agreed, told>> /\ notice' = notice
  BY DEF connVars
<1>2. NotifiedAsAgreed'
  BY <1>1, SameNotice DEF ConnInv
<1> QED
  BY <1>1, <1>2, NoticeOnly

(* The inductive invariant of a session's connection.                      *)
THEOREM ConnInductive == ConnSpec => []ConnInv
  BY InitConnInv, ConnStep, ConnStutters, PTL DEF ConnSpec

(* The answer to INIT enables nothing that the kernel did not offer, and   *)
(* exactly what the backend chose, by whichever field it chose it, also    *)
(* when the session has been through other INITs.                          *)
THEOREM ChoiceReachesKernel == ConnSpec => []FlagsAsChosen
<1>1. ConnInv => FlagsAsChosen
  BY DEF ConnInv
<1> QED
  BY <1>1, ConnInductive, PTL

(* A write that the kernel was told of fits the session's buffer, its      *)
(* pages hold it, and the congestion threshold is within the background    *)
(* limit, also after an INIT that was refused half-way.                    *)
THEOREM SizesAgree == ConnSpec => []LimitsKept
<1>1. ConnInv => LimitsKept
  BY DEF ConnInv
<1> QED
  BY <1>1, ConnInductive, PTL

(* A notification goes only to a kernel that agreed on a version that has  *)
(* it; STORE also goes out while nothing is agreed.                        *)
THEOREM NoticesKnown == ConnSpec => []NotifiedAsAgreed
<1>1. ConnInv => NotifiedAsAgreed
  BY DEF ConnInv
<1> QED
  BY <1>1, ConnInductive, PTL

-------------------------------------------------------------------------------
(* The capabilities asked for are capabilities, or what the backend itself *)
(* put there.                                                              *)
Known(c) == c.want \subseteq Caps \cup backend.ask /\ c.want_ext \subseteq Caps \cup backend.ask

LEMMA WantedKnown ==
  ASSUME kernel \in Kernels, backend \in Backends,
         DOMAIN conn = Shape, Numbers(conn), Known(conn),
         NEW r, r = Wanted([conn EXCEPT !.proto_minor = kernel.minor], InOf)
  PROVE  Known(r)
<1> DEFINE W == Caps \cup backend.ask
           G == GivenCaps
           B == Before
           ask == backend.ask
           drop == backend.drop
<1>1. r = IF "init" \in backend.ops THEN fuse_convert_to_conn_want_ext(OpInit(B)) ELSE B
  BY DEF Wanted, Before
<1>2. DOMAIN B = Shape /\ Numbers(B) /\ B.want_ext = G /\ B.want = conn.want \cup G
  BY BeforeEffect
<1>3. G \subseteq W
  <2>1. G \subseteq DefaultCaps
    BY DEF GivenCaps
  <2>2. DefaultCaps \subseteq Caps
    BY DEF DefaultCaps, Caps, FlagCaps, BasicCaps, CacheCaps, LateCaps, HighCaps
  <2> QED
    BY <2>1, <2>2
<1>4. conn.want \subseteq W /\ ask \subseteq W
  BY DEF Known
<1>5. \A c : Known(c) <=> c.want \subseteq W /\ c.want_ext \subseteq W
  BY Zenon DEF Known
<1>6. B.want \subseteq W /\ B.want_ext \subseteq W
  <2> HIDE DEF W, G, B
  <2> QED
    BY <1>2, <1>3, <1>4
<1>7. CASE "init" \notin backend.ops
  BY <1>1, <1>5, <1>6, <1>7, Zenon
<1>8. CASE "init" \in backend.ops
  <2> DEFINE c == OpInit(B)
  <2>1. Keeps(B, c) /\ Asked(B, c)
    BY <1>2, OpInitEffect
  <2>2. DOMAIN c = Shape /\ Numbers(c)
    BY <2>1 DEF Keeps
  <2>3. r = fuse_convert_to_conn_want_ext(c)
    BY <1>1, <1>8
  <2> HIDE DEF c
  <2>4. \/ r.want = c.want /\ (r.want_ext = c.want_ext \/ r.want_ext = c.want)
        \/ r.want = c.want_ext /\ r.want_ext = c.want_ext
    BY <2>2, <2>3, Converted
  <2>5. backend.style \in Styles
    BY ConnAssumption
  <2>6. /\ c.want \in {ask, B.want, (B.want \ drop) \cup ask,
                       (B.want \cup (ask \cap B.capable_ext)) \ drop}
        /\ c.want_ext \in {B.want_ext, (B.want_ext \ drop) \cup ask, B.want_ext \cup ask,
                           (B.want_ext \cup (ask \cap B.capable_ext)) \ drop}
    BY <2>1, <2>5 DEF Asked, Styles
  <2> HIDE DEF W, G, B, ask, drop
  <2>7. c.want \subseteq W /\ c.want_ext \subseteq W
    BY <1>4, <1>6, <2>6
  <2>8. r.want \subseteq W /\ r.want_ext \subseteq W
    BY <2>4, <2>7, Zenon
  <2> QED
    BY <1>5, <2>8, Zenon DEF W
<1> QED
  BY <1>7, <1>8

(* The inductive invariant of a connection's types.                        *)
ConnTypes == ConnInv /\ Known(conn) /\ inits \in 0 .. MaxInits

LEMMA InitConnTypes == ConnInit => ConnTypes
<1> SUFFICES ASSUME ConnInit PROVE ConnTypes
  OBVIOUS
<1>1. conn = NewSession /\ inits = 0
  BY DEF ConnInit, ConnFrom
<1>2. conn.want = {} /\ conn.want_ext = {}
  BY <1>1 DEF NewSession
<1> QED
  BY <1>1, <1>2, InitConnInv, ConnAssumption DEF ConnTypes, Known

LEMMA KnownNext ==
  ASSUME backend' = backend, NEW c, Known(c), conn'.want = c.want,
         conn'.want_ext = c.want_ext \/ conn'.want_ext = {}
  PROVE  Known(conn)'
  BY DEF Known

LEMMA ConnTypesStep == ConnTypes /\ [ConnNext]_connVars => ConnTypes'
<1> SUFFICES ASSUME ConnTypes, [ConnNext]_connVars PROVE ConnTypes'
  OBVIOUS
<1>1. ConnInv'
  BY ConnStep, ConnStutters DEF ConnTypes
<1>2. /\ ConnInv /\ Known(conn) /\ inits \in 0 .. MaxInits
      /\ kernel \in Kernels /\ backend \in Backends /\ DOMAIN conn = Shape /\ Numbers(conn)
  BY ShapeOf DEF ConnTypes, ConnInv
<1>3. CASE DoInit7
  <2> DEFINE c == Wanted([conn EXCEPT !.proto_minor = kernel.minor], InOf)
             s == BufferSized(c, InOf)
             d == Congested(s)
  <2>1. /\ backend' = backend /\ inits < MaxInits /\ inits' = inits + 1
        /\ conn' = [d EXCEPT !.got_init = TRUE] \/ conn' = [c EXCEPT !.exited = TRUE]
    BY <1>3 DEF DoInit7, InOf
  <2>2. Known(c)
    BY <1>2, WantedKnown
  <2>3. DOMAIN c = Shape /\ Numbers(c) /\ c.bufsize <= MinReadBuffer
    <3>1. Leftover(conn) /\ conn.bufsize <= MinReadBuffer
      BY <1>2, LeftoverOf DEF ConnInv, SizeInv
    <3>2. DOMAIN c = Shape /\ Numbers(c) /\ c.bufsize = conn.bufsize
      BY <1>2, <3>1, WantedEffect
    <3> HIDE DEF c
    <3> QED
      BY <3>1, <3>2
  <2> HIDE DEF c
  <2>4. DOMAIN s = Shape /\ Numbers(s) /\ s.want = c.want /\ s.want_ext = c.want_ext
    BY <2>3, BufferEffect
  <2> HIDE DEF s
  <2>5. DOMAIN d = Shape /\ d.want = c.want /\ d.want_ext = c.want_ext
    <3>1. Keeps(s, d) /\ d.want = s.want /\ d.want_ext = s.want_ext
      BY <2>4, CongestedEffect
    <3> QED
      BY <2>4, <3>1, Zenon DEF Keeps
  <2> HIDE DEF d
  <2>6. conn'.want = c.want /\ conn'.want_ext = c.want_ext
    BY <2>1, <2>3, <2>5 DEF Shape, ConnInfo, SessionFields
  <2>7. Known(conn)'
    BY <2>1, <2>2, <2>6, KnownNext
  <2>8. inits' \in 0 .. MaxInits
    BY <1>2, <2>1, ConnAssumption
  <2> QED
    BY <1>1, <2>7, <2>8 DEF ConnTypes
<1>4. ASSUME NEW minor \in {31, NewerMinor}, DoInitOther(minor) PROVE ConnTypes'
  <2>1. /\ backend' = backend /\ inits < MaxInits /\ inits' = inits + 1
        /\ conn' = [conn EXCEPT !.proto_minor = minor, !.capable_ext = {}, !.want_ext = {}]
    BY <1>4 DEF DoInitOther
  <2>2. conn'.want = conn.want /\ conn'.want_ext = {}
    BY <1>2, <2>1 DEF Shape, ConnInfo, SessionFields
  <2>3. Known(conn)'
    BY <1>2, <2>1, <2>2, KnownNext
  <2>4. inits' \in 0 .. MaxInits
    BY <1>2, <2>1, ConnAssumption
  <2> QED
    BY <1>1, <2>3, <2>4 DEF ConnTypes
<1>5. CASE DoDestroy
  <2>1. backend' = backend /\ inits' = inits /\ conn' = [conn EXCEPT !.got_init = FALSE]
    BY <1>5 DEF DoDestroy
  <2>2. conn'.want = conn.want /\ conn'.want_ext = conn.want_ext
    BY <1>2, <2>1 DEF Shape, ConnInfo, SessionFields
  <2>3. Known(conn)'
    BY <1>2, <2>1, <2>2, KnownNext
  <2> QED
    BY <1>1, <1>2, <2>1, <2>3 DEF ConnTypes
<1>6. CASE \/ notify_poll \/ notify_inval_inode \/ notify_increment_epoch
           \/ notify_inval_entry \/ notify_expire_entry \/ notify_delete \/ notify_store
           \/ UNCHANGED connVars
  <2>1. backend' = backend /\ inits' = inits /\ conn' = conn
    BY <1>6 DEF notify_poll, notify_inval_inode, notify_increment_epoch, notify_inval_entry,
                notify_expire_entry, notify_delete, notify_store, send_notify_iov, Notified,
                connVars
  <2>2. Known(conn)'
    BY <1>2, <2>1, KnownNext
  <2> QED
    BY <1>1, <1>2, <2>1, <2>2 DEF ConnTypes
<1> QED
  BY <1>3, <1>4, <1>5, <1>6 DEF ConnNext

LEMMA ConnTyped == ConnTypes => ConnTypeOK
<1> SUFFICES ASSUME ConnTypes PROVE ConnTypeOK
  OBVIOUS
<1>1. /\ kernel \in Kernels /\ backend \in Backends /\ ShapeInv /\ AgreedInv /\ Known(conn)
      /\ inits \in 0 .. MaxInits
  BY DEF ConnTypes, ConnInv
<1>2. agreed \in Nat \cup {-1}
  BY <1>1 DEF ShapeInv, AgreedInv
<1>3. /\ DOMAIN conn = ConnInfo \cup SessionFields
      /\ conn.max_write \in Nat /\ conn.bufsize \in Nat
  BY <1>1 DEF ShapeInv
<1>4. conn.want \cup conn.want_ext \subseteq Caps \cup backend.ask
  <2> DEFINE W == Caps \cup backend.ask
  <2>1. conn.want \subseteq W /\ conn.want_ext \subseteq W
    BY <1>1, Zenon DEF Known
  <2> HIDE DEF W
  <2>2. conn.want \cup conn.want_ext \subseteq W
    BY <2>1
  <2> QED
    BY <2>2 DEF W
<1> QED
  BY <1>1, <1>2, <1>3, <1>4 DEF ConnTypeOK

(* Both machines keep their types, whatever the command line, the kernel   *)
(* and the backend are: the parser's cursors stay within the arguments, no *)
(* size of the session goes below zero, and nothing is asked for that is   *)
(* neither a capability nor put there by the backend.                      *)
THEOREM StartupTyped == Spec => []TypeOK
<1>1. Init => MainTypes /\ ConnTypes
  <2>1. Init => MainInit /\ ConnInit
    BY DEF Init, MainRests, ConnRests
  <2> QED
    BY <2>1, InitMainTypes, InitConnTypes
<1>2. [Next]_vars => [MainNext]_mainVars /\ [ConnNext]_connVars
  BY DEF Next, vars
<1>3. MainTypes /\ ConnTypes => TypeOK
  BY MainTyped, ConnTyped DEF TypeOK
<1> QED
  BY <1>1, <1>2, <1>3, MainTypesStep, ConnTypesStep, PTL DEF Spec
===============================================================================
