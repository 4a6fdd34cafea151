------------------------------ MODULE DirStream -------------------------------
(***************************************************************************)
(* Listing a directory: fusefs_listdir turns a cursor into a READDIR, the  *)
(* hello_ll backend answers with the bytes of its entry buffer from that   *)
(* offset on, cut at the requested size, and the driver decodes the first  *)
(* entry of the reply and moves the cursor to the offset stored in it.     *)
(* Byte offsets, alignment and the cut are kept; a name is its length.     *)
(***************************************************************************)
EXTENDS Naturals, Sequences, FiniteSetsExt

CONSTANTS
  NameLens,     \* lengths of the names in a directory
  MaxEntries,   \* bound: entries of a directory
  PageSize,     \* bytes asked for by a READDIR (4096 in the code)
  BufLens,      \* sizes of the caller's buffer
  MaxRewinds    \* bound: how often the reader starts again

Align8(n) == ((n + 7) \div 8) * 8

(* FUSE_NAME_OFFSET is 24.                                                 *)
Entlen(n) == Align8(24 + n)

(* UKFS_DIRENT_RECLEN: header of 19 bytes, name, NUL.                      *)
Reclen(n) == Align8(19 + n + 1)

ASSUME PageAssumption ==
  /\ NameLens \subseteq Nat /\ MaxEntries \in Nat /\ BufLens \subseteq Nat
  /\ PageSize \in Nat /\ MaxRewinds \in Nat
  /\ \A n \in NameLens : Entlen(n) <= PageSize

VARIABLES
  dir,       \* the directory: the lengths of its names, in hello_ll's order
  dirbuf,    \* hello_ll's entry buffer: its entries and its size
  cursor,    \* *curp
  listed,    \* entries handed out since the last rewind
  result,    \* what the last call returned
  rewinds    \* how often the reader has started again

dirVars == <<dir, dirbuf, cursor, listed, result, rewinds>>

Directories == UNION {[1 .. k -> NameLens] : k \in 0 .. MaxEntries}
Dirents == [at : Nat, namelen : NameLens, off : Nat]
Results == {"fresh", "entry", "end", "EINVAL", "ENOMEM", "torn"}

DirInit ==
  /\ dir \in Directories
  /\ dirbuf = [p |-> <<>>, size |-> 0]
  /\ cursor = 0
  /\ listed = <<>>
  /\ result = "fresh"
  /\ rewinds = 0

-------------------------------------------------------------------------------
(* The next entry that hello_ll_readdir adds, and the offset stored in it. *)
NextName == dir[Len(dirbuf.p) + 1]
Dirent(off) == [at |-> dirbuf.size, namelen |-> NextName, off |-> off]

DirbufAddTwice ==               \* mutant: the stored offset is one entry too far
  /\ Len(dirbuf.p) < Len(dir)
  /\ LET size == dirbuf.size + Entlen(NextName) IN
     dirbuf' = [p |-> Append(dirbuf.p, Dirent(size + Entlen(NextName))), size |-> size]
  /\ UNCHANGED <<dir, cursor, listed, result, rewinds>>

(* dirbuf_add appends one padded entry and stores in it the size of the    *)
(* buffer so far.  Every READDIR builds the same buffer; here it is built  *)
(* once.                                                                   *)
DirbufAdd ==
  /\ Len(dirbuf.p) < Len(dir)
  /\ LET size == dirbuf.size + Entlen(NextName) IN
     dirbuf' = [p |-> Append(dirbuf.p, Dirent(size)), size |-> size]
  /\ UNCHANGED <<dir, cursor, listed, result, rewinds>>

Built == Len(dirbuf.p) = Len(dir)

(* reply_buf_limited: how many bytes of the buffer the reply holds.        *)
ReplyLen(off) == IF off < dirbuf.size THEN Min({dirbuf.size - off, PageSize}) ELSE 0

(* The entries whose first byte is the reply's first byte.                 *)
EntriesAt(off) == {k \in 1 .. Len(dirbuf.p) : dirbuf.p[k].at = off}

(* The reply cannot be allocated.                                          *)
ListdirNoMemory ==
  /\ ReplyLen(cursor) > 0
  /\ result' = "ENOMEM"
  /\ UNCHANGED <<dir, dirbuf, cursor, listed, rewinds>>

ListdirEndFails ==              \* mutant: an empty reply is a short one
  /\ ReplyLen(cursor) = 0
  /\ result' = "EINVAL"
  /\ UNCHANGED <<dir, dirbuf, cursor, listed, rewinds>>

(* An empty reply is the end of the directory.                             *)
ListdirEnd ==
  /\ ReplyLen(cursor) = 0
  /\ result' = "end"
  /\ UNCHANGED <<dir, dirbuf, cursor, listed, rewinds>>

ListdirTooSmallMoves(len) ==    \* mutant: the cursor moves before the check
  /\ ReplyLen(cursor) > 0
  /\ \E k \in EntriesAt(cursor) :
       /\ len < Reclen(dirbuf.p[k].namelen)
       /\ cursor' = dirbuf.p[k].off
  /\ result' = "EINVAL"
  /\ UNCHANGED <<dir, dirbuf, listed, rewinds>>

(* The caller's buffer is too small for the entry: the cursor stays.       *)
ListdirTooSmall(len) ==
  /\ ReplyLen(cursor) > 0
  /\ \E k \in EntriesAt(cursor) : len < Reclen(dirbuf.p[k].namelen)
  /\ result' = "EINVAL"
  /\ UNCHANGED <<dir, dirbuf, cursor, listed, rewinds>>

(* The first entry of the reply is decoded; an entry that the reply cuts   *)
(* off would be decoded from bytes beyond it.                              *)
ListdirEntry(len, k) ==
  /\ k \in EntriesAt(cursor) /\ len >= Reclen(dirbuf.p[k].namelen)
  /\ cursor' = dirbuf.p[k].off
  /\ listed' = Append(listed, k)
  /\ result' = IF 24 + dirbuf.p[k].namelen <= ReplyLen(cursor) THEN "entry" ELSE "torn"
  /\ UNCHANGED <<dir, dirbuf, rewinds>>

(* rewinddir, external: the cursor is set to 0.                            *)
Rewinddir ==
  /\ cursor # 0 /\ rewinds < MaxRewinds
  /\ cursor' = 0
  /\ listed' = <<>>
  /\ rewinds' = rewinds + 1
  /\ result' = "fresh"
  /\ UNCHANGED <<dir, dirbuf>>

Listdir(len) ==
  /\ Built
  /\ \/ ListdirEnd
     \/ ListdirNoMemory
     \/ ListdirTooSmall(len)
     \/ \E k \in 1 .. Len(dir) : ListdirEntry(len, k)

DirNext == DirbufAdd \/ (\E len \in BufLens : Listdir(len)) \/ Rewinddir

DirSpec == DirInit /\ [][DirNext]_dirVars

(* Among its calls the reader makes, again and again, one with a buffer    *)
(* large enough for any name and with memory at hand.                      *)
GoodCall ==
  \/ DirbufAdd
  \/ Built /\ ListdirEnd
  \/ Built /\ \E k \in 1 .. Len(dir) : ListdirEntry(Max(BufLens), k)

FairDirSpec == DirSpec /\ WF_dirVars(GoodCall)

-------------------------------------------------------------------------------
DirTypeOK ==
  /\ dir \in Directories
  /\ dirbuf \in [p : Seq(Dirents), size : Nat]
  /\ cursor \in 0 .. dirbuf.size
  /\ listed \in Seq(1 .. MaxEntries)
  /\ result \in Results
  /\ rewinds \in 0 .. MaxRewinds

(* Each call resumes where the last one stopped: whatever failed calls lie *)
(* between, the entries come out in the order of the directory, none twice *)
(* and none left out, none decoded from bytes beyond a reply cut at        *)
(* PageSize, and the listing ends after the last one.                      *)
ListedInOrder ==
  /\ result # "torn"
  /\ listed = [i \in 1 .. Len(listed) |-> i]
  /\ result = "end" => Len(listed) = Len(dir)

(* Toward it: the entries lie one behind the other, each pointing to the   *)
(* end of its own, and the cursor is at the end of the last one handed     *)
(* out.                                                                    *)
LaidOut ==
  LET p == dirbuf.p IN
  /\ Len(p) <= Len(dir)
  /\ \A k \in 1 .. Len(p) :
       /\ p[k].namelen = dir[k]
       /\ p[k].at = IF k = 1 THEN 0 ELSE p[k - 1].off
       /\ p[k].off = p[k].at + Entlen(dir[k])
       /\ \A j \in k + 1 .. Len(p) : p[k].off <= p[j].at
  /\ dirbuf.size = IF p = <<>> THEN 0 ELSE p[Len(p)].off

CursorInv ==
  /\ cursor = IF listed = <<>> THEN 0 ELSE dirbuf.p[Len(listed)].off
  /\ Len(listed) <= Len(dirbuf.p)
  /\ (listed # <<>> \/ result # "fresh") => Built

DirInv == DirTypeOK /\ LaidOut /\ CursorInv /\ ListedInOrder

(* A reader that goes on reaches the end of the directory with all of it.  *)
ListingEnds == <>[](result = "end" /\ Len(listed) = Len(dir))
===============================================================================
