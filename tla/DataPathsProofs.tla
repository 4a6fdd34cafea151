---------------------------- MODULE DataPathsProofs ----------------------------
(***************************************************************************)
(* The byte-level algorithms of the driver: listing a directory through a  *)
(* cursor (DirStream), for directories of any size with any names that fit *)
(* a page, and scattering reads (ReadStream), for files, vectors and size  *)
(* fields of any size.  The last part is about these two machines and      *)
(* those of BufCopy and Replies side by side, as MCDataPaths runs them.    *)
(***************************************************************************)
EXTENDS MCDataPaths, RepliesProofs

(* An entry is not shorter than what it holds.                             *)
LEMMA EntlenHolds ==
  ASSUME NEW n \in Nat
  PROVE  Entlen(n) \in Nat /\ 24 + n <= Entlen(n)
  BY DEF Entlen, Align8

LEMMA MinOfTwo ==
  ASSUME NEW a \in Nat, NEW b \in Nat
  PROVE  Min({a, b}) = IF a <= b THEN a ELSE b
<1>1. ASSUME NEW S, S = {a, b} PROVE Min(S) \in S /\ \A y \in S : Min(S) <= y
  <2>1. \E x \in S : \A y \in S : x <= y
    BY <1>1
  <2> QED
    BY <2>1 DEF Min
<1> QED
  BY <1>1

LEMMA DirectoryShape ==
  ASSUME NEW d \in Directories
  PROVE  d \in Seq(NameLens) /\ Len(d) \in 0 .. MaxEntries
  BY PageAssumption DEF Directories

LEMMA InitDirInv == DirInit => DirInv
<1> SUFFICES ASSUME DirInit PROVE DirInv
  OBVIOUS
<1> USE DEF DirInit
<1>1. dir \in Seq(NameLens) /\ Len(dir) \in 0 .. MaxEntries
  BY DirectoryShape
<1>2. dirbuf.p = <<>> /\ dirbuf.size = 0 /\ <<>> \in Seq(Dirents) /\ Len(dirbuf.p) = 0
  OBVIOUS
<1>3. DirTypeOK
  <2>1. dirbuf \in [p : Seq(Dirents), size : Nat]
    BY <1>2
  <2>2. listed \in Seq(1 .. MaxEntries) /\ cursor \in 0 .. dirbuf.size /\ rewinds \in 0 .. MaxRewinds
    BY <1>2, PageAssumption
  <2> QED
    BY <2>1, <2>2 DEF DirTypeOK, Results
<1>4. LaidOut
  BY <1>1, <1>2 DEF LaidOut
<1>5. CursorInv /\ ListedInOrder
  BY <1>1, <1>2 DEF CursorInv, ListedInOrder
<1> QED
  BY <1>3, <1>4, <1>5 DEF DirInv

(* The buffer grows by an entry that begins where the last one ended.      *)
LEMMA AddStep == DirInv /\ DirbufAdd => DirInv'
<1> SUFFICES ASSUME DirInv, DirbufAdd PROVE DirInv'
  OBVIOUS
<1> DEFINE p == dirbuf.p
           n == Len(p) + 1
           size == dirbuf.size + Entlen(dir[n])
           e == [at |-> dirbuf.size, namelen |-> dir[n], off |-> size]
<1>1. /\ dir \in Seq(NameLens) /\ Len(dir) \in 0 .. MaxEntries
      /\ p \in Seq(Dirents) /\ dirbuf.size \in Nat /\ Len(p) < Len(dir)
      /\ n \in 1 .. Len(dir) /\ NameLens \subseteq Nat
      /\ DirTypeOK /\ LaidOut /\ CursorInv /\ ListedInOrder
  <2>1. dir \in Directories /\ p \in Seq(Dirents) /\ dirbuf.size \in Nat
    BY DEF DirInv, DirTypeOK
  <2>2. dir \in Seq(NameLens) /\ Len(dir) \in 0 .. MaxEntries
    BY <2>1, DirectoryShape
  <2>3. Len(p) < Len(dir) /\ Len(p) \in Nat
    BY <2>1 DEF DirbufAdd
  <2> QED
    BY <2>1, <2>2, <2>3, PageAssumption DEF DirInv
<1>0. dir[n] \in NameLens /\ dir[n] \in Nat
  <2>1. \A i \in 1 .. Len(dir) : dir[i] \in NameLens
    BY <1>1
  <2> HIDE DEF n
  <2> QED
    BY <2>1, <1>1
<1>2. /\ dirbuf' = [p |-> Append(p, e), size |-> size]
      /\ UNCHANGED <<dir, cursor, listed, result, rewinds>>
  BY DEF DirbufAdd, NextName, Dirent
<1>3. Entlen(dir[n]) \in Nat /\ 24 + dir[n] <= Entlen(dir[n])
  BY <1>0, EntlenHolds
<1>4. e \in Dirents /\ size \in Nat /\ size >= dirbuf.size
  BY <1>0, <1>1, <1>3 DEF Dirents
<1>5. listed = <<>> /\ cursor = 0 /\ result = "fresh"
  BY <1>1 DEF CursorInv, Built
<1>6. DirTypeOK'
  <2>1. dirbuf' \in [p : Seq(Dirents), size : Nat] /\ dirbuf'.size = size
    BY <1>1, <1>2, <1>4
  <2>2. cursor' \in 0 .. dirbuf'.size
    BY <2>1, <1>2, <1>4, <1>5
  <2> QED
    BY <2>1, <2>2, <1>1, <1>2 DEF DirTypeOK
<1>7. LaidOut'
  <2>1. dirbuf'.p = Append(p, e) /\ dirbuf'.size = size /\ Len(Append(p, e)) = n
    BY <1>1, <1>2, <1>4
  <2>2. ASSUME NEW k \in 1 .. Len(p)
        PROVE  /\ Append(p, e)[k] = p[k] /\ p[k].off \in Nat /\ p[k].at \in Nat
               /\ p[k].off <= dirbuf.size
               /\ p[k].at = IF k = 1 THEN 0 ELSE p[k - 1].off
    <3>1. p[k] \in Dirents /\ p[Len(p)] \in Dirents
      BY <1>1
    <3>2. k < Len(p) => p[k].off <= p[Len(p)].at
      BY <1>1 DEF LaidOut
    <3>3. p[Len(p)].off = p[Len(p)].at + Entlen(dir[Len(p)]) /\ dirbuf.size = p[Len(p)].off
      BY <1>1 DEF LaidOut
    <3>4. dir[Len(p)] \in NameLens
      BY <1>1
    <3>5. Entlen(dir[Len(p)]) \in Nat
      BY <3>4, <1>1, EntlenHolds
    <3>6. p[k].off <= dirbuf.size
      BY <3>1, <3>2, <3>3, <3>5, <1>1 DEF Dirents
    <3> QED
      BY <3>1, <3>6, <1>1, <1>4 DEF LaidOut, Dirents
  <2>3. Append(p, e)[n] = e
    BY <1>1
  <2>4. e.at = IF n = 1 THEN 0 ELSE p[n - 1].off
    BY <1>1 DEF LaidOut
  <2> HIDE DEF e, size
  <2>5. e.at = dirbuf.size /\ e.namelen = dir[n] /\ e.off = size /\ size = e.at + Entlen(dir[n])
    BY DEF e, size
  <2>6. ASSUME NEW k \in 1 .. n
        PROVE  /\ Append(p, e)[k].namelen = dir[k]
               /\ Append(p, e)[k].at = IF k = 1 THEN 0 ELSE Append(p, e)[k - 1].off
               /\ Append(p, e)[k].off = Append(p, e)[k].at + Entlen(dir[k])
               /\ \A j \in k + 1 .. n : Append(p, e)[k].off <= Append(p, e)[j].at
    <3>1. CASE k = n
      BY <3>1, <1>1, <2>2, <2>3, <2>4, <2>5
    <3>2. CASE k # n
      <4>1. k \in 1 .. Len(p) /\ (k # 1 => k - 1 \in 1 .. Len(p))
        BY <3>2, <1>1
      <4>2. /\ Append(p, e)[k] = p[k] /\ p[k].off <= e.at
            /\ k # 1 => Append(p, e)[k - 1] = p[k - 1]
        BY <4>1, <2>2, <2>5
      <4>3. \A j \in k + 1 .. n : p[k].off <= Append(p, e)[j].at
        <5> SUFFICES ASSUME NEW j \in k + 1 .. n PROVE p[k].off <= Append(p, e)[j].at
          OBVIOUS
        <5>1. CASE j = n
          BY <5>1, <4>2, <2>3
        <5>2. CASE j # n
          <6>1. j \in 1 .. Len(p) /\ j \in k + 1 .. Len(p)
            BY <5>2, <4>1, <1>1
          <6>2. p[k].off <= p[j].at
            BY <6>1, <4>1, <1>1 DEF LaidOut
          <6> QED
            BY <6>1, <6>2, <2>2
        <5> QED
          BY <5>1, <5>2
      <4>4. p[k].namelen = dir[k] /\ p[k].off = p[k].at + Entlen(dir[k])
        BY <4>1, <1>1 DEF LaidOut
      <4>5. p[k].at = IF k = 1 THEN 0 ELSE p[k - 1].off
        BY <4>1, <2>2
      <4> QED
        BY <4>2, <4>3, <4>4, <4>5
    <3> QED
      BY <3>1, <3>2
  <2>7. Append(p, e) # <<>> /\ dir' = dir /\ n \in Nat
    BY <2>1, <1>1, <1>2
  <2> HIDE DEF n, p
  <2> QED
    BY <2>1, <2>3, <2>5, <2>6, <2>7, <1>1 DEF LaidOut
<1>8. CursorInv' /\ ListedInOrder'
  <2>1. Len(dirbuf'.p) = n
    BY <1>1, <1>2, <1>4
  <2>2. Built' \/ (listed' = <<>> /\ result' = "fresh")
    BY <1>2, <1>5
  <2> QED
    BY <2>1, <2>2, <1>1, <1>2, <1>5 DEF CursorInv, ListedInOrder, DirInv
<1> QED
  BY <1>6, <1>7, <1>8 DEF DirInv

(* The entry at the cursor is the one after those handed out.              *)
LEMMA NextEntry ==
  ASSUME DirInv, Built, NEW k \in EntriesAt(cursor)
  PROVE  /\ k = Len(listed) + 1 /\ k \in 1 .. Len(dir) /\ k \in 1 .. Len(dirbuf.p)
         /\ dirbuf.p[k].off \in Nat
         /\ dirbuf.p[k].off <= dirbuf.size
         /\ 24 + dirbuf.p[k].namelen <= dirbuf.size - cursor
         /\ 24 + dirbuf.p[k].namelen <= PageSize
         /\ dirbuf.p[k].namelen \in Nat
<1> DEFINE p == dirbuf.p
           m == Len(listed)
<1>1. /\ dir \in Seq(NameLens) /\ p \in Seq(Dirents) /\ dirbuf.size \in Nat
      /\ Len(p) = Len(dir) /\ Len(p) \in Nat /\ listed \in Seq(1 .. MaxEntries)
      /\ LaidOut /\ CursorInv
  BY DirectoryShape DEF DirInv, DirTypeOK, Built
<1>2. k \in 1 .. Len(p) /\ p[k].at = cursor
  BY DEF EntriesAt
<1>3. m \in 0 .. Len(p) /\ (m = 0 <=> listed = <<>>)
  BY <1>1 DEF CursorInv
<1>4. \A i \in 1 .. Len(p) :
        /\ p[i].at \in Nat /\ p[i].off \in Nat /\ p[i].namelen \in NameLens
        /\ Entlen(p[i].namelen) \in Nat /\ 24 + p[i].namelen <= Entlen(p[i].namelen)
        /\ p[i].off = p[i].at + Entlen(p[i].namelen)
        /\ p[i].at < p[i].off
        /\ p[i].at = IF i = 1 THEN 0 ELSE p[i - 1].off
  <2> SUFFICES ASSUME NEW i \in 1 .. Len(p)
               PROVE  /\ p[i].at \in Nat /\ p[i].off \in Nat /\ p[i].namelen \in NameLens
                      /\ Entlen(p[i].namelen) \in Nat
                      /\ 24 + p[i].namelen <= Entlen(p[i].namelen)
                      /\ p[i].off = p[i].at + Entlen(p[i].namelen)
                      /\ p[i].at < p[i].off
                      /\ p[i].at = IF i = 1 THEN 0 ELSE p[i - 1].off
    OBVIOUS
  <2>1. p[i] \in Dirents
    BY <1>1
  <2>2. p[i].namelen \in NameLens /\ p[i].namelen \in Nat /\ p[i].at \in Nat /\ p[i].off \in Nat
    BY <2>1, PageAssumption DEF Dirents
  <2>3. Entlen(p[i].namelen) \in Nat /\ 24 + p[i].namelen <= Entlen(p[i].namelen)
    BY <2>2, EntlenHolds
  <2>4. p[i].off = p[i].at + Entlen(p[i].namelen)
    BY <1>1 DEF LaidOut
  <2>5. p[i].at = IF i = 1 THEN 0 ELSE p[i - 1].off
    BY <1>1 DEF LaidOut
  <2> QED
    BY <2>2, <2>3, <2>4, <2>5
<1>5. \A i, j \in 1 .. Len(p) : i < j => p[i].off <= p[j].at
  BY <1>1 DEF LaidOut
<1>6. k = m + 1
  <2>1. cursor = IF m = 0 THEN 0 ELSE p[m].off
    BY <1>1, <1>3 DEF CursorInv
  <2> HIDE DEF m, p
  <2>2. CASE k <= m
    <3>1. k \in 1 .. Len(p) /\ m \in 1 .. Len(p) /\ p[k].at = p[m].off
      BY <2>1, <2>2, <1>1, <1>2, <1>3
    <3>2. p[k].at < p[k].off /\ p[m].at < p[m].off /\ p[k].at \in Nat /\ p[k].off \in Nat
          /\ p[m].at \in Nat /\ p[m].off \in Nat
      BY <3>1, <1>4
    <3>3. k < m => p[k].off <= p[m].at
      BY <3>1, <1>5
    <3> QED
      BY <3>1, <3>2, <3>3, <2>2, <1>3
  <2>3. CASE k > m + 1
    <3>1. m + 1 \in 1 .. Len(p) /\ k \in 1 .. Len(p)
      BY <2>3, <1>1, <1>2, <1>3
    <3>2. p[m + 1].off <= p[k].at
      BY <3>1, <2>3, <1>5
    <3>3. p[m + 1].at = cursor
      BY <3>1, <2>1, <1>3, <1>4
    <3> QED
      BY <3>1, <3>2, <3>3, <1>2, <1>4
  <2> QED
    BY <2>2, <2>3, <1>1, <1>2, <1>3
<1>7. p[k].off <= dirbuf.size
  <2>1. dirbuf.size = p[Len(p)].off
    BY <1>1, <1>2 DEF LaidOut
  <2>2. k < Len(p) => p[k].off <= p[Len(p)].at
    BY <1>1, <1>2, <1>5
  <2>3. Len(p) \in 1 .. Len(p) /\ (k < Len(p) \/ k = Len(p))
    BY <1>1, <1>2
  <2>4. p[Len(p)].at < p[Len(p)].off /\ p[Len(p)].at \in Nat /\ p[k].off \in Nat
        /\ p[Len(p)].off \in Nat
    BY <2>3, <1>2, <1>4
  <2> HIDE DEF p
  <2> QED
    BY <2>1, <2>2, <2>3, <2>4
<1>8. Entlen(p[k].namelen) <= PageSize /\ PageSize \in Nat
  BY <1>2, <1>4, PageAssumption
<1>9. p[k].namelen \in Nat
  BY <1>2, <1>4, PageAssumption
<1>10. /\ p[k].at \in Nat /\ p[k].off \in Nat /\ p[k].off = p[k].at + Entlen(p[k].namelen)
       /\ 24 + p[k].namelen <= Entlen(p[k].namelen) /\ Entlen(p[k].namelen) \in Nat
  BY <1>2, <1>4
<1>11. k \in 1 .. Len(dir)
  BY <1>1, <1>2
<1>12. 24 + p[k].namelen <= dirbuf.size - cursor
  BY <1>1, <1>2, <1>7, <1>9, <1>10
<1>13. 24 + p[k].namelen <= PageSize
  BY <1>8, <1>9, <1>10
<1> QED
  BY <1>2, <1>6, <1>7, <1>9, <1>10, <1>11, <1>12, <1>13

LEMMA DirStep == DirInv /\ [DirNext]_dirVars => DirInv'
<1> SUFFICES ASSUME DirInv, [DirNext]_dirVars PROVE DirInv'
  OBVIOUS
<1>1. /\ dirbuf.size \in Nat /\ cursor \in 0 .. dirbuf.size /\ PageSize \in Nat
      /\ listed \in Seq(1 .. MaxEntries) /\ Len(listed) \in Nat /\ MaxEntries \in Nat
  BY PageAssumption DEF DirInv, DirTypeOK
<1>2. ReplyLen(cursor) = IF cursor < dirbuf.size
                         THEN IF dirbuf.size - cursor <= PageSize THEN dirbuf.size - cursor
                              ELSE PageSize
                         ELSE 0
  BY <1>1, MinOfTwo DEF ReplyLen
<1>3. ASSUME UNCHANGED <<dir, dirbuf, cursor, listed, rewinds>>, Built,
             result' \in {"ENOMEM", "EINVAL"}
      PROVE  DirInv'
  BY <1>3 DEF DirInv, DirTypeOK, Results, LaidOut, CursorInv, ListedInOrder, Built
<1>4. CASE DirbufAdd
  BY <1>4, AddStep
<1>5. CASE Built /\ ListdirNoMemory
  BY <1>3, <1>5 DEF ListdirNoMemory
<1>6. ASSUME NEW len \in BufLens, Built, ListdirTooSmall(len) PROVE DirInv'
  BY <1>3, <1>6 DEF ListdirTooSmall
<1>7. CASE Built /\ ListdirEnd
  <2>1. cursor = dirbuf.size
    <3>1. PageSize > 0 \/ dirbuf.size = 0
      <4>1. CASE dirbuf.p = <<>>
        BY <4>1 DEF DirInv, LaidOut
      <4>2. CASE dirbuf.p # <<>>
        <5>1. dirbuf.p \in Seq(Dirents) /\ dirbuf.p[1] \in Dirents
          BY <4>2 DEF DirInv, DirTypeOK
        <5>2. dirbuf.p[1].namelen \in NameLens /\ NameLens \subseteq Nat
          BY <5>1, PageAssumption DEF Dirents
        <5> DEFINE n == dirbuf.p[1].namelen
        <5>3. n \in Nat /\ Entlen(n) <= PageSize
          BY <5>2, PageAssumption
        <5> HIDE DEF n
        <5> QED
          BY <5>3, EntlenHolds, <1>1
      <4> QED
        BY <4>1, <4>2
    <3> QED
      BY <3>1, <1>1, <1>2, <1>7 DEF ListdirEnd
  <2>2. Len(listed) = Len(dir)
    <3> DEFINE p == dirbuf.p
               m == Len(listed)
    <3>1. /\ p \in Seq(Dirents) /\ Len(p) = Len(dir) /\ Len(p) \in Nat /\ LaidOut /\ CursorInv
          /\ dir \in Seq(NameLens)
      BY <1>7, DirectoryShape DEF DirInv, DirTypeOK, Built
    <3>2. m \in 0 .. Len(p) /\ (m = 0 <=> listed = <<>>)
      BY <1>1, <3>1 DEF CursorInv
    <3>3. ASSUME m < Len(p) PROVE FALSE
      <4>1. m + 1 \in 1 .. Len(p) /\ p # <<>> /\ Len(p) \in 1 .. Len(p)
        BY <3>1, <3>2, <3>3
      <4>2. p[m + 1].at = cursor
        BY <4>1, <3>1, <3>2 DEF LaidOut, CursorInv
      <4>3. m + 1 \in EntriesAt(cursor)
        BY <4>1, <4>2 DEF EntriesAt
      <4>4. dirbuf.p[m + 1].namelen \in Nat /\ 24 + dirbuf.p[m + 1].namelen <= dirbuf.size - cursor
        BY <4>3, <1>7, NextEntry
      <4> QED
        BY <4>4, <2>1, <1>1
    <3> QED
      BY <3>1, <3>2, <3>3
  <2> QED
    BY <1>7, <2>2
    DEF ListdirEnd, DirInv, DirTypeOK, Results, LaidOut, CursorInv, ListedInOrder, Built
<1>8. ASSUME NEW len \in BufLens, NEW k \in 1 .. Len(dir), Built, ListdirEntry(len, k)
      PROVE  DirInv'
  <2>1. k \in EntriesAt(cursor) /\ UNCHANGED <<dir, dirbuf, rewinds>>
        /\ cursor' = dirbuf.p[k].off /\ listed' = Append(listed, k)
    BY <1>8 DEF ListdirEntry
  <2>2. /\ k = Len(listed) + 1 /\ k \in 1 .. Len(dirbuf.p)
        /\ dirbuf.p[k].off \in Nat
        /\ dirbuf.p[k].off <= dirbuf.size
        /\ 24 + dirbuf.p[k].namelen <= dirbuf.size - cursor
        /\ 24 + dirbuf.p[k].namelen <= PageSize
        /\ dirbuf.p[k].namelen \in Nat
    BY <1>8, <2>1, NextEntry
  <2>3. 24 + dirbuf.p[k].namelen <= ReplyLen(cursor)
    BY <2>2, <1>1, <1>2
  <2>4. result' = "entry"
    BY <1>8, <2>3 DEF ListdirEntry
  <2>5. k \in 1 .. MaxEntries
    BY DirectoryShape, <1>1 DEF DirInv, DirTypeOK
  <2>6. /\ listed' \in Seq(1 .. MaxEntries) /\ listed' # <<>> /\ Len(listed') = k
        /\ listed' = [i \in 1 .. Len(listed') |-> i]
    <3>1. listed = [i \in 1 .. Len(listed) |-> i]
      BY DEF DirInv, ListedInOrder
    <3>2. listed' \in Seq(1 .. MaxEntries) /\ listed' # <<>> /\ Len(listed') = k
      <4>1. listed' = Append(listed, k) /\ k \in 1 .. MaxEntries /\ k = Len(listed) + 1
        BY <2>1, <2>2, <2>5
      <4> QED
        BY <4>1, <1>1
    <3>3. \A i \in 1 .. k : listed'[i] = i
      <4> SUFFICES ASSUME NEW i \in 1 .. k PROVE listed'[i] = i
        OBVIOUS
      <4>1. CASE i = k
        BY <4>1, <2>1, <2>2, <1>1
      <4>2. CASE i # k
        <5>1. i \in 1 .. Len(listed)
          BY <4>2, <2>2, <1>1
        <5>2. listed[i] = i
          BY <5>1, <3>1
        <5> QED
          BY <5>1, <5>2, <2>1, <1>1
      <4> QED
        BY <4>1, <4>2
    <3>4. listed' = [i \in 1 .. k |-> i]
      BY <3>2, <3>3
    <3> QED
      BY <3>2, <3>4
  <2>7. DirTypeOK'
    BY <2>1, <2>2, <2>4, <2>6, <1>1 DEF DirInv, DirTypeOK, Results
  <2>8. LaidOut' /\ CursorInv'
    BY <2>1, <2>2, <2>6, <1>8 DEF DirInv, LaidOut, CursorInv, Built
  <2>9. ListedInOrder'
    BY <2>4, <2>6 DEF ListedInOrder
  <2> QED
    BY <2>7, <2>8, <2>9 DEF DirInv
<1>9. CASE Rewinddir
  <2>1. /\ cursor' = 0 /\ listed' = <<>> /\ result' = "fresh" /\ rewinds' \in 0 .. MaxRewinds
        /\ UNCHANGED <<dir, dirbuf>>
    BY <1>9, PageAssumption DEF Rewinddir, DirInv, DirTypeOK
  <2>2. DirTypeOK'
    BY <2>1, <1>1 DEF DirInv, DirTypeOK, Results
  <2>3. LaidOut' /\ CursorInv' /\ ListedInOrder'
    BY <2>1 DEF DirInv, DirTypeOK, LaidOut, CursorInv, ListedInOrder
  <2> QED
    BY <2>2, <2>3 DEF DirInv
<1>10. CASE UNCHANGED dirVars
  BY <1>10 DEF dirVars, DirInv, DirTypeOK, LaidOut, CursorInv, ListedInOrder, Built
<1> QED
  BY <1>4, <1>5, <1>6, <1>7, <1>8, <1>9, <1>10 DEF DirNext, Listdir

(* The entry buffer, the cursor and the listing stay in step.              *)
THEOREM DirInductive == DirSpec => []DirInv
  BY InitDirInv, DirStep, PTL DEF DirSpec

(* A listing gives every entry once, in the order of the directory and     *)
(* whole, whatever calls fail between, and ends after the last one         *)
(* (fusefs_listdir, hello_ll_readdir).                                     *)
THEOREM ListingInOrder == DirSpec => []ListedInOrder
<1>1. DirInv => ListedInOrder
  BY DEF DirInv
<1> QED
  BY <1>1, DirInductive, PTL

-------------------------------------------------------------------------------
LEMMA VectorShape ==
  ASSUME NEW v \in Vectors \cup {<<>>}
  PROVE  v \in Seq(Nat) /\ Len(v) \in Nat
<1>1. CASE v = <<>>
  BY <1>1
<1>2. CASE v \in Vectors
  <2>1. PICK k \in 1 .. MaxIov : v \in [1 .. k -> IovLens]
    BY <1>2 DEF Vectors
  <2>2. k \in Nat /\ IovLens \subseteq Nat
    BY ReadAssumption
  <2>3. v \in [1 .. k -> Nat]
    BY <2>1, <2>2
  <2>4. v \in Seq(Nat)
    BY <2>2, <2>3
  <2> QED
    BY <2>4
<1> QED
  BY <1>1, <1>2

(* reply_buf_limited serves the file from the offset on, and nothing only  *)
(* at its end or when nothing is asked for.                                *)
LEMMA ServesContent ==
  ASSUME flen \in Nat, NEW off \in 0 .. flen, NEW size \in Nat, NEW r, r = Serve(off, size)
  PROVE  /\ r \in Seq(1 .. flen)
         /\ \A k \in 1 .. Len(r) : r[k] = off + k
         /\ r = <<>> => off = flen \/ size = 0
<1>1. Content \in Seq(1 .. flen) /\ Len(Content) = flen /\ \A i \in 1 .. flen : Content[i] = i
  BY DEF Content
<1>2. CASE off = flen
  <2>1. r = <<>>
    BY <1>2 DEF Serve
  <2> QED
    BY <1>2, <2>1
<1>3. CASE off < flen
  <2> DEFINE n == IF flen - off < size THEN flen - off ELSE size
  <2>1. n \in Nat /\ off + n <= flen /\ (n = 0 => size = 0)
    BY <1>3
  <2>2. r = SubSeq(Content, off + 1, off + n)
    BY <1>3 DEF Serve
  <2> HIDE DEF n
  <2>3. /\ SubSeq(Content, off + 1, off + n) \in Seq(1 .. flen)
        /\ Len(SubSeq(Content, off + 1, off + n)) = n
        /\ \A k \in 1 .. n : SubSeq(Content, off + 1, off + n)[k] = Content[off + k]
    BY <1>1, <1>3, <2>1
  <2>4. \A k \in 1 .. n : off + k \in 1 .. flen
    BY <2>1
  <2> QED
    BY <1>1, <2>1, <2>2, <2>3, <2>4
<1> QED
  BY <1>2, <1>3

LEMMA PlacesAre ==
  ASSUME NEW b
  PROVE  /\ \A i \in 1 .. Len(b) : \A o \in 1 .. Len(b[i]) : <<i, o>> \in Places(b)
         /\ \A p \in Places(b) : /\ p[1] \in 1 .. Len(b) /\ p[2] \in 1 .. Len(b[p[1]])
                                 /\ p = <<p[1], p[2]>>
  BY DEF Places

(* The bytes in the vector, place by place.                                *)
Covers(b, lo, hi) ==
  /\ \A i \in 1 .. Len(b) : \A o \in 1 .. Len(b[i]) : b[i][o] \in lo .. hi
  /\ \A x \in lo .. hi : \E i \in 1 .. Len(b) : \E o \in 1 .. Len(b[i]) : b[i][o] = x
  /\ \A i \in 1 .. Len(b) : \A o, q \in 1 .. Len(b[i]) : o < q => b[i][o] < b[i][q]
  /\ \A i, j \in 1 .. Len(b) : \A o \in 1 .. Len(b[i]), q \in 1 .. Len(b[j]) :
       i < j => b[i][o] < b[j][q]

LEMMA CoversExact ==
  ASSUME NEW b, NEW lo, NEW hi
  PROVE  HoldInOrder(b, lo, hi) <=> Covers(b, lo, hi)
<1> DEFINE Byte(p) == b[p[1]][p[2]]
           Set == {Byte(p) : p \in Places(b)} = lo .. hi
           Order == \A p, q \in Places(b) : Precedes(p, q) => Byte(p) < Byte(q)
<1>1. ASSUME Set, Order PROVE Covers(b, lo, hi)
  <2>1. ASSUME NEW i \in 1 .. Len(b), NEW o \in 1 .. Len(b[i])
        PROVE  <<i, o>> \in Places(b) /\ Byte(<<i, o>>) = b[i][o]
    BY PlacesAre
  <2>2. \A i \in 1 .. Len(b) : \A o \in 1 .. Len(b[i]) : b[i][o] \in lo .. hi
    BY <1>1, <2>1
  <2>3. \A x \in lo .. hi : \E i \in 1 .. Len(b) : \E o \in 1 .. Len(b[i]) : b[i][o] = x
    <3> SUFFICES ASSUME NEW x \in lo .. hi
                 PROVE  \E i \in 1 .. Len(b) : \E o \in 1 .. Len(b[i]) : b[i][o] = x
      OBVIOUS
    <3>1. PICK p \in Places(b) : x = Byte(p)
      BY <1>1
    <3> QED
      BY <3>1, PlacesAre
  <2>4. \A i \in 1 .. Len(b) : \A o, q \in 1 .. Len(b[i]) : o < q => b[i][o] < b[i][q]
    <3> SUFFICES ASSUME NEW i \in 1 .. Len(b), NEW o \in 1 .. Len(b[i]),
                        NEW q \in 1 .. Len(b[i]), o < q
                 PROVE  b[i][o] < b[i][q]
      OBVIOUS
    <3>1. Precedes(<<i, o>>, <<i, q>>)
      BY DEF Precedes
    <3> QED
      BY <3>1, <1>1, <2>1
  <2>5. ASSUME NEW i \in 1 .. Len(b), NEW j \in 1 .. Len(b),
               NEW o \in 1 .. Len(b[i]), NEW q \in 1 .. Len(b[j]), i < j
        PROVE  b[i][o] < b[j][q]
    <3>1. Precedes(<<i, o>>, <<j, q>>)
      BY <2>5 DEF Precedes
    <3> QED
      BY <3>1, <1>1, <2>1
  <2> QED
    BY <2>2, <2>3, <2>4, <2>5 DEF Covers
<1>2. ASSUME Covers(b, lo, hi) PROVE Set /\ Order
  <2>1. ASSUME NEW p \in Places(b) PROVE Byte(p) \in lo .. hi
    BY <1>2, PlacesAre DEF Covers
  <2>2. ASSUME NEW x \in lo .. hi PROVE \E p \in Places(b) : x = Byte(p)
    <3>1. PICK i \in 1 .. Len(b) : \E o \in 1 .. Len(b[i]) : b[i][o] = x
      BY <1>2 DEF Covers
    <3>2. PICK o \in 1 .. Len(b[i]) : b[i][o] = x
      BY <3>1
    <3>3. <<i, o>> \in Places(b) /\ Byte(<<i, o>>) = x
      BY <3>2, PlacesAre
    <3> QED
      BY <3>3
  <2>3. Set
    BY <2>1, <2>2
  <2>4. ASSUME NEW p \in Places(b), NEW q \in Places(b), Precedes(p, q) PROVE Byte(p) < Byte(q)
    <3>1. /\ p[1] \in 1 .. Len(b) /\ p[2] \in 1 .. Len(b[p[1]])
          /\ q[1] \in 1 .. Len(b) /\ q[2] \in 1 .. Len(b[q[1]])
      BY PlacesAre
    <3>2. CASE p[1] < q[1]
      BY <3>1, <3>2, <1>2 DEF Covers
    <3>3. CASE p[1] = q[1] /\ p[2] < q[2]
      BY <3>1, <3>3, <1>2 DEF Covers
    <3> QED
      BY <3>2, <3>3, <2>4 DEF Precedes
  <2> QED
    BY <2>3, <2>4
<1> QED
  BY <1>1, <1>2 DEF HoldInOrder, ByteAt

(* A round of the scatter loop puts the next n bytes into the next buffer. *)
LEMMA CoversMore ==
  ASSUME NEW b, NEW c, NEW L \in Nat, Len(b) = L, Len(c) = L,
         NEW off \in Nat, NEW st \in Nat, NEW n \in Nat, NEW i0 \in 1 .. L,
         Len(c[i0]) = n, \A k \in 1 .. n : c[i0][k] = off + st + k,
         \A i \in i0 .. L : Len(b[i]) = 0,
         \A i \in 1 .. L : i # i0 => c[i] = b[i],
         Covers(b, off + 1, off + st)
  PROVE  Covers(c, off + 1, off + st + n)
<1>1. \A i \in 1 .. L : \A o \in 1 .. Len(c[i]) : i <= i0
  <2> SUFFICES ASSUME NEW i \in 1 .. L, NEW o \in 1 .. Len(c[i]), i > i0 PROVE FALSE
    OBVIOUS
  <2>1. i \in i0 .. L /\ i # i0
    OBVIOUS
  <2>2. Len(c[i]) = 0
    BY <2>1
  <2> QED
    BY <2>2
<1>2. \A i \in 1 .. L : i < i0 => c[i] = b[i]
  OBVIOUS
<1>3. \A i \in 1 .. L : \A o \in 1 .. Len(b[i]) : b[i][o] \in off + 1 .. off + st
  BY DEF Covers
<1>4. \A i \in 1 .. L : \A o \in 1 .. Len(c[i]) : c[i][o] \in off + 1 .. off + st + n
  <2> SUFFICES ASSUME NEW i \in 1 .. L, NEW o \in 1 .. Len(c[i])
               PROVE  c[i][o] \in off + 1 .. off + st + n
    OBVIOUS
  <2>1. CASE i = i0
    <3>1. o \in 1 .. n /\ c[i][o] = off + st + o
      BY <2>1
    <3> QED
      BY <3>1
  <2>2. CASE i < i0
    <3>1. c[i][o] \in off + 1 .. off + st
      BY <2>2, <1>2, <1>3
    <3>2. \A x \in off + 1 .. off + st : x \in off + 1 .. off + st + n
      OBVIOUS
    <3> QED
      BY <3>1, <3>2
  <2> QED
    BY <2>1, <2>2, <1>1
<1>5. \A x \in off + 1 .. off + st + n :
        \E i \in 1 .. L : \E o \in 1 .. Len(c[i]) : c[i][o] = x
  <2> SUFFICES ASSUME NEW x \in off + 1 .. off + st + n
               PROVE  \E i \in 1 .. L : \E o \in 1 .. Len(c[i]) : c[i][o] = x
    OBVIOUS
  <2>1. CASE x <= off + st
    <3>1. x \in off + 1 .. off + st
      BY <2>1
    <3>2. PICK i \in 1 .. L : \E o \in 1 .. Len(b[i]) : b[i][o] = x
      BY <3>1 DEF Covers
    <3>3. i # i0
      BY <3>2
    <3> QED
      BY <3>2, <3>3
  <2>2. CASE x > off + st
    <3>1. x - (off + st) \in 1 .. n
      BY <2>2
    <3>2. c[i0][x - (off + st)] = off + st + (x - (off + st))
      BY <3>1
    <3>3. off + st + (x - (off + st)) = x
      OBVIOUS
    <3> QED
      BY <3>1, <3>2, <3>3
  <2> QED
    BY <2>1, <2>2
<1>6. ASSUME NEW i \in 1 .. L, NEW o \in 1 .. Len(c[i]), NEW q \in 1 .. Len(c[i]), o < q
      PROVE  c[i][o] < c[i][q]
  <2>1. CASE i = i0
    <3>1. /\ o \in 1 .. n /\ c[i][o] = off + st + o
          /\ q \in 1 .. n /\ c[i][q] = off + st + q
      BY <2>1
    <3> QED
      BY <3>1, <1>6
  <2>2. CASE i < i0
    BY <2>2, <1>2, <1>6 DEF Covers
  <2> QED
    BY <2>1, <2>2, <1>1
<1>7. ASSUME NEW i \in 1 .. L, NEW j \in 1 .. L,
             NEW o \in 1 .. Len(c[i]), NEW q \in 1 .. Len(c[j]), i < j
      PROVE  c[i][o] < c[j][q]
  <2>1. j <= i0
    BY <1>1
  <2>2. i < i0 /\ c[i] = b[i]
    BY <2>1, <1>2, <1>7
  <2>3. CASE j = i0
    <3>1. c[j][q] = off + st + q /\ q \in 1 .. n
      BY <2>3
    <3>4. c[j][q] \in Int /\ c[j][q] > off + st
      BY <3>1
    <3>2. c[i][o] \in off + 1 .. off + st
      BY <2>2, <1>3
    <3>3. c[i][o] \in Int /\ c[i][o] <= off + st
      BY <3>2
    <3>5. \A x, y \in Int : x <= off + st /\ y > off + st => x < y
      OBVIOUS
    <3> QED
      BY <3>3, <3>4, <3>5
  <2>4. CASE j < i0
    BY <2>2, <2>4, <1>2, <1>7 DEF Covers
  <2> QED
    BY <2>1, <2>3, <2>4
<1> QED
  BY <1>4, <1>5, <1>6, <1>7 DEF Covers

LEMMA Replace ==
  ASSUME NEW S, NEW s \in Seq(S), NEW i0 \in 1 .. Len(s), NEW x \in S,
         NEW t, t = [s EXCEPT ![i0] = x]
  PROVE  /\ t \in Seq(S) /\ Len(t) = Len(s) /\ t[i0] = x
         /\ \A i \in 1 .. Len(s) : i # i0 => t[i] = s[i]
  OBVIOUS

LEMMA Identity ==
  ASSUME NEW S, NEW s \in Seq(S), \A i \in 1 .. Len(s) : s[i] = i
  PROVE  s = [i \in 1 .. Len(s) |-> i]
  OBVIOUS

LEMMA Counts ==
  ASSUME NEW S, NEW s \in Seq(S), NEW t \in Seq(S), \A i \in 1 .. Len(s) : s[i] = i,
         NEW n \in Nat, Len(t) = n, \A k \in 1 .. n : t[k] = Len(s) + k
  PROVE  /\ s \o t \in Seq(S) /\ Len(s \o t) = Len(s) + n
         /\ s \o t = [i \in 1 .. Len(s) + n |-> i]
<1>1. /\ s \o t \in Seq(S) /\ Len(s \o t) = Len(s) + n /\ Len(s) \in Nat
      /\ \A i \in 1 .. Len(s) : (s \o t)[i] = s[i]
      /\ \A i \in Len(s) + 1 .. Len(s) + n : (s \o t)[i] = t[i - Len(s)]
  <2>1. /\ s \o t \in Seq(S) /\ Len(s \o t) = Len(s) + Len(t) /\ Len(s) \in Nat
        /\ \A i \in 1 .. Len(s) : (s \o t)[i] = s[i]
        /\ \A i \in Len(s) + 1 .. Len(s) + Len(t) : (s \o t)[i] = t[i - Len(s)]
    OBVIOUS
  <2> QED
    BY <2>1, Zenon
<1>2. \A i \in 1 .. Len(s) + n : (s \o t)[i] = i
  <2> SUFFICES ASSUME NEW i \in 1 .. Len(s) + n PROVE (s \o t)[i] = i
    OBVIOUS
  <2>1. CASE i \in 1 .. Len(s)
    BY <1>1, <2>1
  <2>2. CASE i \in Len(s) + 1 .. Len(s) + n
    <3>1. i - Len(s) \in 1 .. n
      BY <2>2, <1>1
    <3>2. t[i - Len(s)] = Len(s) + (i - Len(s))
      BY <3>1
    <3> QED
      BY <2>2, <3>2, <1>1
  <2> QED
    BY <2>1, <2>2, <1>1
<1>3. s \o t = [i \in 1 .. Len(s \o t) |-> i]
  BY <1>1, <1>2, Identity, Zenon
<1> QED
  BY <1>1, <1>3

LEMMA InitReadInv == ReadInit => ReadInv
<1> SUFFICES ASSUME ReadInit PROVE ReadInv
  OBVIOUS
<1> USE DEF ReadInit
<1>1. ReadTypeOK
  <2>1. flen \in Nat /\ 0 \in 0 .. flen
    BY ReadAssumption
  <2>2. /\ Len(<<>>) = 0 /\ <<>> \in Seq(1 .. flen) /\ <<>> \in Seq(Seq(1 .. flen))
        /\ 1 \in 1 .. 0 + 1 /\ 0 \in 0 .. 0
    OBVIOUS
  <2> QED
    BY <2>1, <2>2 DEF ReadTypeOK
<1>2. Covers(bufs, offset + 1, offset + stored)
  BY DEF Covers
<1>3. HoldInOrder(bufs, offset + 1, offset + stored)
  BY <1>2, CoversExact
<1>4. ScatterExact
  BY <1>3 DEF ScatterExact
<1>5. ServedInv /\ LoopInv /\ ReadsWholeFile
  BY DEF ServedInv, LoopInv, ReadsWholeFile
<1> QED
  BY <1>1, <1>4, <1>5 DEF ReadInv

LEMMA ReadStep == ReadInv /\ [ReadNext]_readVars => ReadInv'
<1> SUFFICES ASSUME ReadInv, [ReadNext]_readVars PROVE ReadInv'
  OBVIOUS
<1>1. /\ flen \in Nat /\ pos \in 0 .. flen /\ offset \in 0 .. flen /\ total \in Nat
      /\ iov \in Seq(Nat) /\ Len(iov) \in Nat /\ ind \in 1 .. Len(iov) + 1
      /\ reply \in Seq(1 .. flen) /\ Len(reply) \in Nat /\ stored \in 0 .. Len(reply)
      /\ bufs \in Seq(Seq(1 .. flen)) /\ got \in Seq(1 .. flen) /\ Len(got) \in Nat
      /\ Len(bufs) = Len(iov) /\ SizeMod \in Nat /\ SizeMod > 0
  <2>1. ReadTypeOK /\ ScatterExact
    BY DEF ReadInv
  <2>2. iov \in Seq(Nat) /\ Len(iov) \in Nat
    BY <2>1, VectorShape DEF ReadTypeOK
  <2> QED
    BY <2>1, <2>2, ReadAssumption DEF ReadTypeOK, ScatterExact
<1> DEFINE Lengths == \A i \in 1 .. Len(iov) : iov[i] \in Nat
<1>12. Lengths
  BY <1>1
<1>2. ASSUME NEW v \in Vectors, ReadBegins(v) PROVE ReadInv'
  <2>1. v \in Seq(Nat) /\ Len(v) \in Nat
    BY VectorShape
  <2>2. /\ rdpc' = "sum" /\ iov' = v /\ offset' = pos /\ ind' = 1 /\ total' = 0 /\ reply' = <<>>
        /\ bufs' = [i \in 1 .. Len(v) |-> <<>>] /\ stored' = 0 /\ ~ended /\ rdpc = "idle"
        /\ flen' = flen /\ pos' = pos /\ got' = got /\ ended' = ended
    BY <1>2 DEF ReadBegins, fileVars
  <2>3. /\ bufs' \in Seq(Seq(1 .. flen)) /\ Len(bufs') = Len(v)
        /\ \A i \in 1 .. Len(v) : bufs'[i] = <<>> /\ Len(bufs'[i]) = 0
    BY <2>1, <2>2
  <2>4. ReadTypeOK'
    BY <1>1, <2>1, <2>2, <2>3 DEF ReadInv, ReadTypeOK
  <2>5. Covers(bufs', offset' + 1, offset' + stored')
    BY <1>1, <2>2, <2>3 DEF Covers
  <2>6. ScatterExact'
    <3>1. HoldInOrder(bufs', offset' + 1, offset' + stored')
      BY <2>5, CoversExact
    <3>2. \A i \in 1 .. Len(v) : v[i] \in Nat
      BY <2>1
    <3> QED
      BY <3>1, <3>2, <2>1, <2>2, <2>3 DEF ScatterExact
  <2>7. ServedInv' /\ LoopInv'
    BY <1>1, <2>1, <2>2, <2>3 DEF ReadInv, ServedInv, LoopInv, ReadsWholeFile
  <2>8. ReadsWholeFile'
    BY <2>2 DEF ReadInv, ReadsWholeFile
  <2> QED
    BY <2>4, <2>6, <2>7, <2>8 DEF ReadInv
<1>3. ASSUME UNCHANGED <<bufs, iov, offset, stored>> PROVE ScatterExact'
  BY <1>3 DEF ReadInv, ScatterExact
<1>4. CASE AddLength
  <2>1. /\ rdpc = "sum" /\ ind \in 1 .. Len(iov) /\ total' = total + iov[ind] /\ ind' = ind + 1
        /\ UNCHANGED <<flen, pos, got, ended, rdpc, iov, offset, reply, bufs, stored>>
    BY <1>1, <1>4 DEF AddLength, fileVars
  <2>2. iov[ind] \in Nat /\ total' \in Nat /\ ind' \in 1 .. Len(iov) + 1
    BY <1>1, <1>12, <2>1
  <2>3. ReadTypeOK' /\ ServedInv'
    BY <2>1, <2>2 DEF ReadInv, ReadTypeOK, ServedInv
  <2>4. total' > 0 => \E i \in 1 .. ind' - 1 : iov'[i] > 0
    <3>1. CASE iov[ind] > 0
      BY <3>1, <2>1, <1>1
    <3>2. CASE iov[ind] = 0
      <4>1. total' > 0 => \E i \in 1 .. ind - 1 : iov[i] > 0
        BY <3>2, <2>1, <1>1 DEF ReadInv, LoopInv
      <4> QED
        BY <4>1, <2>1, <1>1
    <3> QED
      <4>1. iov[ind] > 0 \/ iov[ind] = 0
        BY <2>2
      <4> QED
        BY <3>1, <3>2, <4>1
  <2>5. LoopInv'
    BY <2>1, <2>4 DEF ReadInv, LoopInv
  <2>6. ReadsWholeFile'
    BY <2>1 DEF ReadInv, ReadsWholeFile, ServedInv
  <2> QED
    BY <1>3, <2>1, <2>3, <2>5, <2>6 DEF ReadInv
<1>5. CASE ReadNothing \/ ReadNoMemory
  <2>1. /\ rdpc = "sum" /\ rdpc' = "idle"
        /\ UNCHANGED <<flen, pos, got, ended, iov, offset, ind, total, reply, bufs, stored>>
    BY <1>5 DEF ReadNothing, ReadNoMemory, fileVars
  <2>2. ReadTypeOK' /\ ServedInv' /\ LoopInv' /\ ReadsWholeFile'
    BY <2>1 DEF ReadInv, ReadTypeOK, ServedInv, LoopInv, ReadsWholeFile
  <2> QED
    BY <1>3, <2>1, <2>2 DEF ReadInv
<1>6. CASE ReadSent
  <2>1. /\ rdpc = "sum" /\ ind > Len(iov) /\ total > 0
        /\ reply' = Serve(offset, total % SizeMod) /\ rdpc' = "scatter" /\ ind' = 1
        /\ UNCHANGED <<flen, pos, got, ended, iov, offset, total, bufs, stored>>
    BY <1>6 DEF ReadSent, fileVars
  <2>2. total % SizeMod \in Nat
    BY <1>1
  <2>3. /\ reply' \in Seq(1 .. flen)
        /\ \A k \in 1 .. Len(reply') : reply'[k] = offset + k
        /\ reply' = <<>> => offset = flen \/ total % SizeMod = 0
    <3>1. flen \in Nat /\ offset \in 0 .. flen
      BY <1>1
    <3>2. reply' = Serve(offset, total % SizeMod)
      BY <2>1
    <3> HIDE <1>1, <2>1
    <3> QED
      BY <3>1, <3>2, <2>2, ServesContent
  <2>4. stored = 0 /\ Len(got) = pos /\ ~ended /\ offset = pos
    BY <2>1 DEF ReadInv, LoopInv, ServedInv
  <2>5. ReadTypeOK'
    BY <1>1, <2>1, <2>3, <2>4 DEF ReadInv, ReadTypeOK
  <2>6. ServedInv' /\ ReadsWholeFile'
    BY <2>1, <2>3, <2>4 DEF ReadInv, ServedInv, ReadsWholeFile
  <2>7. \E i \in 1 .. Len(iov) : iov[i] > 0
    BY <1>1, <2>1 DEF ReadInv, LoopInv
  <2>8. \A i \in 1 .. Len(iov) : bufs[i] = <<>>
    BY <2>1 DEF ReadInv, LoopInv
  <2>9. LoopInv'
    BY <1>1, <2>1, <2>4, <2>7, <2>8 DEF LoopInv
  <2> QED
    BY <1>3, <2>1, <2>5, <2>6, <2>9 DEF ReadInv
<1>7. CASE Scatter
  <2> DEFINE n == IF iov[ind] < Len(reply) - stored THEN iov[ind] ELSE Len(reply) - stored
             chunk == SubSeq(reply, stored + 1, stored + n)
  <2>1. /\ rdpc = "scatter" /\ ind \in 1 .. Len(iov) /\ stored < Len(reply) /\ ind' = ind + 1
        /\ bufs' = [bufs EXCEPT ![ind] = chunk] /\ stored' = stored + n /\ got' = got \o chunk
        /\ UNCHANGED <<flen, pos, ended, rdpc, iov, offset, total, reply>>
    BY <1>1, <1>7 DEF Scatter, Fill
  <2>2. iov[ind] \in Nat
    BY <1>12, <2>1
  <2>3. /\ n \in Nat /\ stored + n <= Len(reply) /\ n <= iov[ind]
        /\ stored + n < Len(reply) => n = iov[ind]
        /\ n = 0 => iov[ind] = 0
    <3>1. Len(reply) \in Nat /\ stored \in Nat /\ stored < Len(reply)
      BY <1>1, <2>1
    <3> QED
      BY <3>1, <2>2
  <2> HIDE DEF n
  <2>4. /\ chunk \in Seq(1 .. flen) /\ Len(chunk) = n
        /\ \A k \in 1 .. n : chunk[k] = reply[stored + k]
    <3>1. reply \in Seq(1 .. flen) /\ stored \in Nat
      BY <1>1
    <3> QED
      BY <3>1, <2>3, Slice
  <2> HIDE DEF chunk
  <2>5. \A k \in 1 .. n : chunk[k] = offset + stored + k
    <3> SUFFICES ASSUME NEW k \in 1 .. n PROVE chunk[k] = offset + stored + k
      OBVIOUS
    <3>1. stored + k \in 1 .. Len(reply)
      BY <1>1, <2>3
    <3>2. reply[stored + k] = offset + (stored + k)
      BY <3>1 DEF ReadInv, ServedInv
    <3> QED
      BY <3>2, <2>4, <1>1
  <2>6. \A i \in ind .. Len(bufs) : bufs[i] = <<>>
    BY <1>1, <2>1 DEF ReadInv, LoopInv
  <2>7. Covers(bufs, offset + 1, offset + stored)
    BY CoversExact DEF ReadInv, ScatterExact
  <2>8. /\ bufs' \in Seq(Seq(1 .. flen)) /\ Len(bufs') = Len(bufs)
        /\ bufs'[ind] = chunk /\ \A i \in 1 .. Len(bufs) : i # ind => bufs'[i] = bufs[i]
        /\ Covers(bufs', offset + 1, offset + stored + n)
    <3>1. (1 .. flen) \subseteq Nat /\ offset \in Nat /\ stored \in Nat /\ ind \in 1 .. Len(bufs)
      BY <1>1, <2>1
    <3>2. /\ bufs' \in Seq(Seq(1 .. flen)) /\ Len(bufs') = Len(bufs)
          /\ bufs'[ind] = chunk /\ \A i \in 1 .. Len(bufs) : i # ind => bufs'[i] = bufs[i]
      <4>1. bufs \in Seq(Seq(1 .. flen)) /\ bufs' = [bufs EXCEPT ![ind] = chunk]
        BY <1>1, <2>1
      <4> QED
        BY <4>1, <3>1, <2>4, Replace
    <3>3. /\ Len(bufs) \in Nat /\ \A k \in 1 .. n : bufs'[ind][k] = offset + stored + k
          /\ Len(bufs'[ind]) = n /\ n \in Nat /\ \A i \in ind .. Len(bufs) : Len(bufs[i]) = 0
      BY <1>1, <2>3, <2>4, <2>5, <2>6, <3>2
    <3>4. Covers(bufs', offset + 1, offset + stored + n)
      BY <2>7, <3>1, <3>2, <3>3, CoversMore
    <3> QED
      BY <3>2, <3>4
  <2>9. HoldInOrder(bufs', offset' + 1, offset' + stored')
    <3>1. offset' + stored' = offset + stored + n
      BY <1>1, <2>1, <2>3
    <3> QED
      BY <3>1, <2>1, <2>8, CoversExact
  <2>10. \A i \in 1 .. ind - 1 : Len(bufs[i]) = iov[i]
    BY <2>1 DEF ReadInv, LoopInv
  <2>11. \A i \in 1 .. Len(iov) :
           /\ Len(bufs'[i]) <= iov[i]
           /\ \A j \in 1 .. i - 1 : bufs'[i] # <<>> => Len(bufs'[j]) = iov[j]
    <3> SUFFICES ASSUME NEW i \in 1 .. Len(iov)
                 PROVE  /\ Len(bufs'[i]) <= iov[i]
                        /\ \A j \in 1 .. i - 1 : bufs'[i] # <<>> => Len(bufs'[j]) = iov[j]
      OBVIOUS
    <3>4. /\ i \in 1 .. Len(bufs) /\ ind \in Nat /\ iov[i] \in Nat
          /\ \A j \in 1 .. i - 1 : j \in 1 .. Len(bufs)
      BY <1>1, <1>12, <2>1
    <3>1. CASE i = ind
      <4>1. /\ Len(bufs'[i]) <= iov[i]
            /\ \A j \in 1 .. i - 1 : bufs'[j] = bufs[j] /\ Len(bufs[j]) = iov[j]
        BY <3>1, <3>4, <2>3, <2>4, <2>8, <2>10
      <4> QED
        BY <4>1
    <3>2. CASE i < ind
      <4>1. bufs'[i] = bufs[i] /\ Len(bufs[i]) <= iov[i]
        BY <3>2, <3>4, <2>8 DEF ReadInv, ScatterExact
      <4>2. \A j \in 1 .. i - 1 : j \in 1 .. ind - 1 /\ j # ind
        BY <3>2, <3>4
      <4>3. \A j \in 1 .. i - 1 : bufs'[j] = bufs[j] /\ Len(bufs[j]) = iov[j]
        BY <3>4, <4>2, <2>8, <2>10
      <4> QED
        BY <4>1, <4>3
    <3>3. CASE i > ind
      <4>1. i \in ind .. Len(bufs) /\ i # ind
        BY <3>3, <3>4
      <4>2. bufs'[i] = <<>>
        BY <4>1, <3>4, <2>6, <2>8
      <4> QED
        BY <4>2, <3>4
    <3> QED
      BY <3>1, <3>2, <3>3, <3>4
  <2>12. ScatterExact'
    BY <1>1, <2>1, <2>8, <2>9, <2>11 DEF ScatterExact
  <2>13. /\ got' \in Seq(1 .. flen) /\ Len(got') = Len(got) + n
         /\ got' = [i \in 1 .. Len(got') |-> i] /\ Len(got) = pos + stored /\ offset = pos
    <3>1. /\ got = [i \in 1 .. Len(got) |-> i] /\ Len(got) = pos + stored /\ offset = pos
      BY <2>1 DEF ReadInv, ReadsWholeFile, LoopInv, ServedInv
    <3>2. \A k \in 1 .. n : chunk[k] = Len(got) + k
      <4>1. offset + stored = Len(got)
        BY <3>1, <1>1
      <4> QED
        BY <2>5, <4>1
    <3>3. got \in Seq(1 .. flen) /\ got' = got \o chunk
      BY <1>1, <2>1
    <3>4. /\ got' \in Seq(1 .. flen) /\ Len(got') = Len(got) + n
          /\ got' = [i \in 1 .. Len(got) + n |-> i]
      <4>1. \A i \in 1 .. Len(got) : got[i] = i
        BY <3>1
      <4> QED
        BY <4>1, <3>2, <3>3, <2>3, <2>4, Counts
    <3> QED
      BY <3>1, <3>4
  <2>14. ReadTypeOK'
    BY <1>1, <2>1, <2>3, <2>8, <2>13 DEF ReadInv, ReadTypeOK
  <2>15. ServedInv' /\ ReadsWholeFile'
    BY <2>1, <2>13 DEF ReadInv, ServedInv, ReadsWholeFile
  <2>16. LoopInv'
    <3>1. Len(got') = pos' + stored'
      BY <1>1, <2>1, <2>3, <2>13
    <3>2. \E i \in 1 .. Len(iov') : iov'[i] > 0
      BY <2>1 DEF ReadInv, LoopInv
    <3>3. stored' = 0 => \A i \in 1 .. ind' - 1 : iov'[i] = 0 \/ reply' = <<>>
      <4>1. stored' = 0 => stored = 0 /\ n = 0
        BY <1>1, <2>1, <2>3
      <4>2. stored = 0 => \A i \in 1 .. ind - 1 : iov[i] = 0 \/ reply = <<>>
        BY <2>1 DEF ReadInv, LoopInv
      <4> QED
        BY <4>1, <4>2, <2>1, <2>3, <1>1
    <3>4. \A i \in ind' .. Len(iov') : bufs'[i] = <<>>
      <4>1. \A i \in ind' .. Len(iov') : i \in ind .. Len(bufs) /\ i \in 1 .. Len(bufs) /\ i # ind
        BY <1>1, <2>1
      <4> QED
        BY <4>1, <2>6, <2>8
    <3>5. stored' < Len(reply') => \A i \in 1 .. ind' - 1 : Len(bufs'[i]) = iov'[i]
      <4> SUFFICES ASSUME stored + n < Len(reply), NEW i \in 1 .. ind
                   PROVE  Len(bufs'[i]) = iov[i]
        <5>1. ind' - 1 = ind /\ stored' = stored + n /\ reply' = reply /\ iov' = iov
          BY <1>1, <2>1
        <5> QED
          BY <5>1
      <4>1. i \in 1 .. Len(bufs) /\ (i # ind => i \in 1 .. ind - 1)
        BY <1>1, <2>1
      <4>2. CASE i = ind
        BY <4>2, <2>3, <2>4, <2>8
      <4>3. CASE i # ind
        BY <4>1, <4>3, <2>8, <2>10
      <4> QED
        BY <4>2, <4>3
    <3> QED
      BY <3>1, <3>2, <3>3, <3>4, <3>5, <2>1 DEF LoopInv
  <2> QED
    BY <2>12, <2>14, <2>15, <2>16 DEF ReadInv
<1>8. CASE ReadReturns
  <2>1. /\ rdpc = "scatter" /\ (ind > Len(iov) \/ stored = Len(reply))
        /\ rdpc' = "idle" /\ pos' = pos + stored /\ ended' = (stored = 0)
        /\ UNCHANGED <<flen, got, iov, offset, ind, total, reply, bufs, stored>>
    BY <1>8 DEF ReadReturns
  <2>2. /\ Len(got) = pos + stored /\ offset = pos /\ ~ended
        /\ got = [i \in 1 .. Len(got) |-> i]
    BY <2>1 DEF ReadInv, LoopInv, ServedInv, ReadsWholeFile
  <2>3. pos + stored \in 0 .. flen
    <3>1. CASE stored = 0
      BY <3>1, <1>1
    <3>2. CASE stored > 0
      <4>1. stored \in 1 .. Len(reply)
        BY <3>2, <1>1
      <4>2. reply[stored] = offset + stored /\ reply[stored] \in 1 .. flen
        BY <4>1, <1>1 DEF ReadInv, ServedInv
      <4> QED
        BY <4>2, <2>2, <1>1
    <3> QED
      BY <3>1, <3>2, <1>1
  <2>4. ReadTypeOK'
    BY <1>1, <2>1, <2>3 DEF ReadInv, ReadTypeOK
  <2>5. ServedInv' /\ LoopInv'
    BY <2>1 DEF ReadInv, ServedInv, LoopInv
  <2>6. stored = 0 => pos = flen \/ total % SizeMod = 0
    <3> SUFFICES ASSUME stored = 0 PROVE pos = flen \/ total % SizeMod = 0
      OBVIOUS
    <3>1. reply = <<>>
      <4>1. CASE Len(reply) = 0
        BY <4>1, <1>1
      <4>2. CASE ind > Len(iov)
        <5>1. PICK i \in 1 .. Len(iov) : iov[i] > 0
          BY <2>1 DEF ReadInv, LoopInv
        <5>2. i \in 1 .. ind - 1 /\ iov[i] # 0
          BY <5>1, <4>2, <1>1
        <5> QED
          BY <5>2, <2>1 DEF ReadInv, LoopInv
      <4> QED
        BY <4>1, <4>2, <2>1
    <3> QED
      BY <3>1, <2>1, <2>2 DEF ReadInv, ServedInv
  <2>7. ReadsWholeFile'
    <3>1. got' = [i \in 1 .. Len(got') |-> i]
      BY <2>1, <2>2
    <3>2. Len(got') = pos'
      BY <2>1, <2>2
    <3>3. ended' => pos' = flen' \/ total' % SizeMod = 0
      <4>1. stored = 0 => pos + stored = pos
        BY <1>1
      <4> QED
        BY <2>1, <2>6, <4>1
    <3> QED
      BY <3>1, <3>2, <3>3 DEF ReadsWholeFile
  <2> QED
    BY <1>3, <2>1, <2>4, <2>5, <2>7 DEF ReadInv
<1>9. CASE Seek
  <2>1. /\ rdpc = "idle" /\ pos' = 0 /\ got' = <<>> /\ ended' = FALSE
        /\ UNCHANGED <<flen, rdpc, iov, offset, ind, total, reply, bufs, stored>>
    BY <1>9 DEF Seek
  <2>2. ReadTypeOK'
    <3>1. pos' \in 0 .. flen' /\ got' \in Seq(1 .. flen')
      BY <1>1, <2>1
    <3> QED
      BY <2>1, <3>1 DEF ReadInv, ReadTypeOK
  <2>3. ServedInv' /\ LoopInv' /\ ReadsWholeFile'
    BY <2>1 DEF ReadInv, ServedInv, LoopInv, ReadsWholeFile
  <2> QED
    BY <1>3, <2>1, <2>2, <2>3 DEF ReadInv
<1>10. CASE UNCHANGED readVars
  BY <1>10
  DEF readVars, ReadInv, ReadTypeOK, ServedInv, LoopInv, ScatterExact, ReadsWholeFile
<1> QED
  BY <1>2, <1>4, <1>5, <1>6, <1>7, <1>8, <1>9, <1>10 DEF ReadNext

(* The loops of fusefs_read keep the reply, the vector and what the reader *)
(* has in step.                                                            *)
THEOREM ReadInductive == ReadSpec => []ReadInv
  BY InitReadInv, ReadStep, PTL DEF ReadSpec

(* A read stores the bytes of the file from its offset on, each once and   *)
(* in order, as many as it returns, and overruns no buffer, for vectors of *)
(* any shape (fusefs_read).                                                *)
THEOREM ReadsScatter == ReadSpec => []ScatterExact
<1>1. ReadInv => ScatterExact
  BY DEF ReadInv
<1> QED
  BY <1>1, ReadInductive, PTL

(* Whatever the shapes of its reads, a reader gets the file from its       *)
(* start without gap or repetition, and an empty read with room for data   *)
(* is at its end unless the 32-bit size of the request was 0.              *)
THEOREM ReaderGetsFile == ReadSpec => []ReadsWholeFile
<1>1. ReadInv => ReadsWholeFile
  BY DEF ReadInv
<1> QED
  BY <1>1, ReadInductive, PTL

-------------------------------------------------------------------------------
(* The machines side by side.  Only a running machine changes its state,   *)
(* except that a reply also drives the copy.                               *)
MachinesInv ==
  /\ machine \in Machines
  /\ DirInv /\ ReadInv /\ CopyInv /\ ReplyInv /\ RepliesTypeOK
  /\ machine = "replying" => SentInv

LEMMA RepliesTypedStutter == RepliesTypeOK /\ UNCHANGED replyVars => RepliesTypeOK'
  BY DEF RepliesTypeOK, replyVars

LEMMA InitMachines == Init => MachinesInv
<1> SUFFICES ASSUME Init PROVE MachinesInv
  OBVIOUS
<1>1. machine \in Machines /\ DirInit /\ ReadInit /\ RepliesInit
  BY DEF Init, Machines, DirRests, ReadRests, RepliesRest
<1>2. DirInv /\ ReadInv /\ ReplyInv
  BY <1>1, InitDirInv, InitReadInv, InitReplyInv
<1>3. RepliesTypeOK
  BY <1>1 DEF RepliesInit, RepliesTypeOK
<1>4. CASE machine = "replying"
  BY <1>1, <1>2, <1>3, <1>4, InitSentInv DEF Init, MachinesInv
<1>5. CASE machine = "copying"
  <2>1. CopyInit
    BY <1>5 DEF Init
  <2>2. PICK s \in SrcVectors, d \in DstVectors : CopyFrom(s, d)
    BY <2>1 DEF CopyInit
  <2>3. s \in Seq(Buffer) /\ d \in Seq(Buffer)
    BY BufAssumption
  <2>4. CopyInv
    BY <2>2, <2>3, FromKeeps
  <2> QED
    BY <1>1, <1>2, <1>3, <1>5, <2>4 DEF MachinesInv
<1>6. CASE CopyRests /\ machine # "replying"
  <2>1. <<Buf(Memory, 2, 2)>> \in Seq(Buffer) /\ <<Buf(Memory, 3, 0)>> \in Seq(Buffer)
    BY DEF Buf, Memory, Buffer
  <2>2. CopyInv
    BY <1>6, <2>1, FromKeeps DEF CopyRests
  <2> QED
    BY <1>1, <1>2, <1>3, <1>6, <2>2 DEF MachinesInv
<1> QED
  BY <1>4, <1>5, <1>6 DEF Init

LEMMA MachinesStep == MachinesInv /\ [Next]_vars => MachinesInv'
<1> SUFFICES ASSUME MachinesInv, [Next]_vars PROVE MachinesInv'
  OBVIOUS
<1> USE DEF MachinesInv
<1>1. CASE /\ machine' = machine /\ machine # "replying"
           /\ [DirNext]_dirVars /\ [ReadNext]_readVars /\ (CopyNext \/ UNCHANGED copyVars)
           /\ UNCHANGED replyVars
  <2>1. DirInv' /\ ReadInv'
    BY <1>1, DirStep, ReadStep
  <2>2. CopyInv'
    BY <1>1, CopyNextKeeps, CopyStutters
  <2>3. ReplyInv' /\ RepliesTypeOK'
    BY <1>1, ReplyStutters, RepliesTypedStutter
  <2> QED
    BY <1>1, <2>1, <2>2, <2>3
<1>2. CASE /\ machine' = machine /\ machine = "replying"
           /\ UNCHANGED dirVars /\ UNCHANGED readVars
           /\ RepliesNext \/ UNCHANGED <<replyVars, copyVars>>
  <2>1. DirInv' /\ ReadInv'
    BY <1>2, DirStep, ReadStep
  <2>2. CopyInv' /\ ReplyInv'
    BY <1>2, RepliesKeepCopy, CopyStutters, ReplyNextKeeps, ReplyStutters
  <2>3. SentInv'
    BY <1>2, <2>2, SentNextKeeps, SentStutters
  <2>4. RepliesTypeOK'
    BY <2>2, <2>3 DEF ReplyInv, SentInv, RepliesTypeOK, Untouched, Consumed
  <2> QED
    BY <1>2, <2>1, <2>2, <2>3, <2>4
<1>3. [Next]_vars => \/ machine = "listing" /\ machine' = machine /\ DirNext
                        /\ UNCHANGED <<readVars, copyVars, replyVars>>
                     \/ machine = "reading" /\ machine' = machine /\ ReadNext
                        /\ UNCHANGED <<dirVars, copyVars, replyVars>>
                     \/ machine = "copying" /\ machine' = machine /\ CopyNext
                        /\ UNCHANGED <<dirVars, readVars, replyVars>>
                     \/ machine = "replying" /\ machine' = machine /\ RepliesNext
                        /\ UNCHANGED <<dirVars, readVars>>
                     \/ UNCHANGED vars
  BY DEF Next
<1> QED
  BY <1>1, <1>2, <1>3 DEF vars

(* The machines that carry data keep their types, whatever the directory,  *)
(* the file and the vectors are.                                           *)
THEOREM DataPathsTyped == Spec => []TypeOK
<1>1. MachinesInv => TypeOK
  BY DEF MachinesInv, DirInv, ReadInv, CopyInv, TypeOK
<1> QED
  BY <1>1, InitMachines, MachinesStep, PTL DEF Spec
================================================================================
