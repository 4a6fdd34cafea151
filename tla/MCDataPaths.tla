----------------------------- MODULE MCDataPaths ------------------------------
(***************************************************************************)
(* The machines that carry data, one of them running in each behaviour     *)
(* and the others at rest.                                                 *)
(***************************************************************************)
EXTENDS DirStream, ReadStream, Replies

Machines == {"listing", "reading", "copying", "replying"}

VARIABLE machine

vars == <<machine, dirVars, readVars, copyVars, replyVars>>

Memory == <<FALSE, FALSE, FALSE>>
Kinds == {Memory} \cup {<<TRUE, s, r>> : s, r \in BOOLEAN}
Buf(k, n, h) == [fd |-> k[1], seek |-> k[2], retry |-> k[3], size |-> n, has |-> h]

(* Sources with and without a hole at their end, empty ones, and ends that *)
(* fall before, on and behind those of the destinations.                   *)
SrcBufs == {Buf(k, n, n) : k \in Kinds, n \in {0, 2, 3}} \cup {Buf(k, 3, 1) : k \in Kinds \ {Memory}}
DstBufs == {Buf(k, n, 0) : k \in Kinds, n \in {0, 1, 3}}
TwoSizes(S, n, m) == {<<b, c>> : b \in {x \in S : x.size \in n}, c \in {x \in S : x.size = m}}
MCSrcVectors == {<<>>} \cup {<<b>> : b \in SrcBufs} \cup TwoSizes(SrcBufs, {0, 3}, 2)
MCDstVectors == {<<b>> : b \in DstBufs} \cup TwoSizes(DstBufs, {1}, 3)

(* At rest.                                                                *)
DirRests == DirInit /\ dir = <<>>
ReadRests == ReadInit /\ flen = 0
CopyRests == CopyFrom(<<Buf(Memory, 2, 2)>>, <<Buf(Memory, 3, 0)>>)
RepliesRest == RepliesInit /\ ~rq.ukfs /\ rq.minor = 31

Init ==
  \/ machine = "listing" /\ DirInit /\ ReadRests /\ CopyRests /\ RepliesRest
  \/ machine = "reading" /\ DirRests /\ ReadInit /\ CopyRests /\ RepliesRest
  \/ machine = "copying" /\ DirRests /\ ReadRests /\ CopyInit /\ RepliesRest
  \/ machine = "replying" /\ DirRests /\ ReadRests /\ ReplyVectors /\ RepliesInit

Next ==
  /\ machine' = machine
  /\ \/ machine = "listing" /\ DirNext /\ UNCHANGED <<readVars, copyVars, replyVars>>
     \/ machine = "reading" /\ ReadNext /\ UNCHANGED <<dirVars, copyVars, replyVars>>
     \/ machine = "copying" /\ CopyNext /\ UNCHANGED <<dirVars, readVars, replyVars>>
     \/ machine = "replying" /\ RepliesNext /\ UNCHANGED <<dirVars, readVars>>

GoodListing ==
  /\ machine = "listing" /\ machine' = machine
  /\ GoodCall
  /\ UNCHANGED <<readVars, copyVars, replyVars>>

Spec == Init /\ [][Next]_vars /\ WF_vars(GoodListing)

TypeOK == DirTypeOK /\ ReadTypeOK /\ CopyTypeOK /\ RepliesTypeOK

(* A reader that goes on listing, sometimes with a buffer large enough,    *)
(* reaches the end of the directory with all of it (fusefs_listdir).       *)
ListingCompletes == machine = "listing" => ListingEnds
===============================================================================
