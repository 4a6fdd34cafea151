---------------------------- MODULE BufCopyProofs -----------------------------
(***************************************************************************)
(* fuse_buf_copy delivers the source in order and counts it, for vectors   *)
(* of any shape and whatever the system calls return.                      *)
(*                                                                         *)
(* Sums over a vector are cardinalities of sets of places, so that a step  *)
(* that moves n bytes adds a run of n places to each of them.              *)
(***************************************************************************)
EXTENDS BufCopy, FiniteSetTheorems, TLAPS

Run(i, a, n) == {i} \X (a + 1 .. a + n)

LEMMA BufferFacts ==
  ASSUME NEW v \in Seq(Buffer)
  PROVE  /\ Len(v) \in Nat
         /\ \A i \in 1 .. Len(v) : /\ v[i].size \in Nat /\ v[i].has \in Nat
                                   /\ v[i].fd \in BOOLEAN /\ v[i].seek \in BOOLEAN
                                   /\ v[i].retry \in BOOLEAN
<1>1. Len(v) \in Nat /\ \A i \in 1 .. Len(v) : v[i] \in Buffer
  OBVIOUS
<1>2. \A x \in Buffer : /\ x.size \in Nat /\ x.has \in Nat /\ x.fd \in BOOLEAN
                        /\ x.seek \in BOOLEAN /\ x.retry \in BOOLEAN
  BY DEF Buffer
<1> QED
  BY <1>1, <1>2

LEMMA RunCounts ==
  ASSUME NEW i, NEW a \in Nat, NEW n \in Nat
  PROVE  IsFiniteSet(Run(i, a, n)) /\ Cardinality(Run(i, a, n)) = n
<1>1. IsFiniteSet({i}) /\ Cardinality({i}) = 1
  BY FS_Singleton
<1>2. IsFiniteSet(a + 1 .. a + n) /\ Cardinality(a + 1 .. a + n) = n
  <2>1. a + 1 \in Int /\ a + n \in Int
    OBVIOUS
  <2>2. /\ IsFiniteSet(a + 1 .. a + n)
        /\ Cardinality(a + 1 .. a + n) = IF a + 1 > a + n THEN 0 ELSE (a + n) - (a + 1) + 1
    BY <2>1, FS_Interval
  <2> QED
    BY <2>2
<1>3. /\ IsFiniteSet({i} \X (a + 1 .. a + n))
      /\ Cardinality({i} \X (a + 1 .. a + n)) = Cardinality({i}) * Cardinality(a + 1 .. a + n)
  BY <1>1, <1>2, FS_Product
<1> QED
  BY <1>1, <1>2, <1>3 DEF Run

LEMMA AddRun ==
  ASSUME NEW S, IsFiniteSet(S), NEW i, NEW a \in Nat, NEW n \in Nat,
         S \cap Run(i, a, n) = {}, NEW T, T = S \cup Run(i, a, n)
  PROVE  IsFiniteSet(T) /\ Cardinality(T) = Cardinality(S) + n
<1>1. IsFiniteSet(Run(i, a, n)) /\ Cardinality(Run(i, a, n)) = n
  BY RunCounts
<1>2. /\ IsFiniteSet(S \cup Run(i, a, n))
      /\ Cardinality(S \cup Run(i, a, n)) =
           Cardinality(S) + Cardinality(Run(i, a, n)) - Cardinality(S \cap Run(i, a, n))
  BY <1>1, FS_Union
<1>3. Cardinality(S \cap Run(i, a, n)) = 0
  BY FS_EmptySet
<1>4. Cardinality(S) \in Nat
  BY FS_CardinalityType
<1> QED
  BY <1>1, <1>2, <1>3, <1>4

LEMMA UnionFinite ==
  ASSUME NEW n \in Nat, NEW f, \A i \in 1 .. n : IsFiniteSet(f[i])
  PROVE  IsFiniteSet(UNION {f[i] : i \in 1 .. n})
<1> DEFINE T == {f[i] : i \in 1 .. n}
           g == [i \in 1 .. n |-> f[i]]
<1>1. IsFiniteSet(1 .. n)
  BY FS_Interval
<1>2. g \in Surjection(1 .. n, T)
  BY DEF Surjection
<1>3. IsFiniteSet(T)
  <2> HIDE DEF T, g
  <2> QED
    BY <1>1, <1>2, FS_Surjection
<1>4. \A S \in T : IsFiniteSet(S)
  OBVIOUS
<1>5. IsFiniteSet(UNION T)
  <2> HIDE DEF T
  <2> QED
    BY <1>3, <1>4, FS_UNION
<1> QED
  BY <1>5

(* A vector's bytes are finitely many.                                     *)
LEMMA RowsFinite ==
  ASSUME NEW n \in Nat, NEW s, \A i \in 1 .. n : s[i] \in Nat
  PROVE  IsFiniteSet(UNION {{i} \X (1 .. s[i]) : i \in 1 .. n})
<1> DEFINE f == [i \in 1 .. n |-> {i} \X (1 .. s[i])]
<1>1. ASSUME NEW i \in 1 .. n PROVE IsFiniteSet(f[i])
  <2>1. f[i] = Run(i, 0, s[i])
    BY DEF Run
  <2> QED
    BY <2>1, RunCounts
<1>2. {f[i] : i \in 1 .. n} = {{i} \X (1 .. s[i]) : i \in 1 .. n}
  OBVIOUS
<1>3. IsFiniteSet(UNION {f[i] : i \in 1 .. n})
  <2> HIDE DEF f
  <2> QED
    BY <1>1, UnionFinite
<1> QED
  BY <1>2, <1>3

LEMMA RoomFinite ==
  ASSUME NEW v \in Seq(Buffer)
  PROVE  IsFiniteSet(Room(v))
<1> DEFINE n == Len(v)
           s == [i \in 1 .. n |-> v[i].size]
<1>1. n \in Nat /\ \A i \in 1 .. n : s[i] \in Nat
  BY BufferFacts
<1>2. Room(v) = UNION {{i} \X (1 .. s[i]) : i \in 1 .. n}
  BY DEF Room
<1>3. IsFiniteSet(UNION {{i} \X (1 .. s[i]) : i \in 1 .. n})
  <2> HIDE DEF n, s
  <2> QED
    BY <1>1, RowsFinite
<1> QED
  <2> HIDE DEF n, s
  <2> QED
    BY <1>2, <1>3, Zenon

LEMMA PlacesFinite ==
  ASSUME NEW S, NEW b \in Seq(Seq(S))
  PROVE  IsFiniteSet(Places(b)) /\ Stored(b) \in Nat
<1> DEFINE n == Len(b)
           s == [i \in 1 .. n |-> Len(b[i])]
<1>1. n \in Nat /\ \A i \in 1 .. n : s[i] \in Nat
  OBVIOUS
<1>2. Places(b) = UNION {{i} \X (1 .. s[i]) : i \in 1 .. n}
  BY DEF Places
<1>3. IsFiniteSet(UNION {{i} \X (1 .. s[i]) : i \in 1 .. n})
  <2> HIDE DEF n, s
  <2> QED
    BY <1>1, RowsFinite
<1>4. IsFiniteSet(Places(b))
  <2> HIDE DEF n, s
  <2> QED
    BY <1>2, <1>3, Zenon
<1> QED
  BY <1>4, FS_CardinalityType DEF Stored

-------------------------------------------------------------------------------
(* Positions and the bytes before them.                                    *)
LEMMA RoomHas ==
  ASSUME NEW v
  PROVE  /\ \A i \in 1 .. Len(v) : \A o \in 1 .. v[i].size : <<i, o>> \in Room(v)
         /\ \A x \in Room(v) : /\ x[1] \in 1 .. Len(v) /\ x[2] \in 1 .. v[x[1]].size
                               /\ x = <<x[1], x[2]>>
  BY DEF Room

LEMMA BeforeFinite ==
  ASSUME NEW v \in Seq(Buffer), NEW p
  PROVE  IsFiniteSet(Before(v, p)) /\ Cardinality(Before(v, p)) \in Nat
<1>1. Before(v, p) \in SUBSET Room(v)
  BY DEF Before
<1>2. IsFiniteSet(Before(v, p))
  BY <1>1, RoomFinite, FS_Subset
<1> QED
  BY <1>2, FS_CardinalityType

LEMMA BeforeStart ==
  ASSUME NEW v
  PROVE  Before(v, Start0) = {} /\ Cardinality(Before(v, Start0)) = 0
<1>1. Before(v, Start0) = {}
  BY RoomHas DEF Before, Start0
<1> QED
  BY <1>1, FS_EmptySet

LEMMA BeforeAdds ==
  ASSUME NEW v \in Seq(Buffer), NEW p \in [idx : 1 .. Len(v), off : Nat], NEW n \in Nat,
         p.off + n <= v[p.idx].size
  PROVE  /\ Before(v, At(p, n)) = Before(v, p) \cup Run(p.idx, p.off, n)
         /\ Cardinality(Before(v, At(p, n))) = Cardinality(Before(v, p)) + n
         /\ \A x \in Before(v, p) : \A k \in 1 .. n : Precedes(x, <<p.idx, p.off + k>>)
<1> DEFINE i == p.idx
           a == p.off
           z == v[p.idx].size
<1>1. i \in 1 .. Len(v) /\ a \in Nat /\ z \in Nat /\ a + n <= z /\ Len(v) \in Nat
  BY BufferFacts
<1>2. /\ At(p, n).idx = i /\ At(p, n).off = a + n
  BY DEF At
<1>3. ASSUME NEW x \in Room(v)
      PROVE  /\ x = <<x[1], x[2]>> /\ x[1] \in 1 .. Len(v) /\ x[2] \in 1 .. v[x[1]].size
             /\ x \in Before(v, At(p, n)) <=> x[1] < i \/ (x[1] = i /\ x[2] <= a + n)
             /\ x \in Before(v, p) <=> x[1] < i \/ (x[1] = i /\ x[2] <= a)
  BY <1>2, RoomHas DEF Before
<1>4. \A x \in Run(i, a, n) : x \in Room(v) /\ x[1] = i /\ x[2] \in a + 1 .. a + n
  <2> SUFFICES ASSUME NEW o \in a + 1 .. a + n PROVE <<i, o>> \in Room(v)
    BY DEF Run
  <2>1. o \in 1 .. z
    BY <1>1
  <2> QED
    BY <1>1, <2>1, RoomHas
<1>5. \A x \in Room(v) : x[1] = i /\ x[2] \in a + 1 .. a + n => x \in Run(i, a, n)
  BY <1>3 DEF Run
<1> HIDE DEF i, a, z
<1>6. Before(v, At(p, n)) \subseteq Before(v, p) \cup Run(i, a, n)
  <2> SUFFICES ASSUME NEW x \in Before(v, At(p, n)), x \notin Before(v, p)
               PROVE  x \in Run(i, a, n)
    OBVIOUS
  <2>1. x \in Room(v)
    BY DEF Before
  <2>2. x[2] \in Int /\ x[1] = i /\ x[2] <= a + n /\ ~(x[2] <= a)
    BY <1>3, <2>1
  <2> QED
    BY <1>1, <1>5, <2>1, <2>2
<1>7. Before(v, p) \subseteq Before(v, At(p, n))
  <2> SUFFICES ASSUME NEW x \in Before(v, p) PROVE x \in Before(v, At(p, n))
    OBVIOUS
  <2>1. x \in Room(v)
    BY DEF Before
  <2>2. x[2] \in Int
    BY <1>3, <2>1
  <2> QED
    BY <1>1, <1>3, <2>1, <2>2
<1>8. Run(i, a, n) \subseteq Before(v, At(p, n)) /\ Before(v, p) \cap Run(i, a, n) = {}
  <2>1. ASSUME NEW x \in Run(i, a, n) PROVE x \in Before(v, At(p, n)) /\ x \notin Before(v, p)
    <3>1. x \in Room(v) /\ x[1] = i /\ x[2] \in a + 1 .. a + n /\ i \in Int
      BY <1>1, <1>4
    <3> QED
      BY <1>1, <1>3, <3>1
  <2> QED
    BY <2>1
<1>9. Before(v, At(p, n)) = Before(v, p) \cup Run(i, a, n)
  BY <1>6, <1>7, <1>8
<1>10. Cardinality(Before(v, At(p, n))) = Cardinality(Before(v, p)) + n
  <2>1. IsFiniteSet(Before(v, p))
    BY BeforeFinite
  <2>2. Before(v, p) \cap Run(i, a, n) = {} /\ a \in Nat
    BY <1>1, <1>8
  <2> DEFINE B == Before(v, p)
             T == Before(v, At(p, n))
  <2>3. IsFiniteSet(B) /\ B \cap Run(i, a, n) = {} /\ T = B \cup Run(i, a, n)
    BY <1>9, <2>1, <2>2
  <2> HIDE DEF B, T
  <2>4. Cardinality(T) = Cardinality(B) + n
    BY <2>2, <2>3, AddRun
  <2> QED
    BY <2>4 DEF B, T
<1>11. ASSUME NEW x \in Before(v, p), NEW k \in 1 .. n PROVE Precedes(x, <<i, a + k>>)
  <2>1. x \in Room(v)
    BY DEF Before
  <2>2. x[1] \in Int /\ x[2] \in Int /\ (x[1] < i \/ (x[1] = i /\ x[2] <= a))
    BY <1>3, <2>1
  <2> QED
    BY <1>1, <2>2 DEF Precedes
<1> QED
  BY <1>9, <1>10, <1>11 DEF i, a

(* fuse_bufvec_advance goes to the next buffer or past the last without    *)
(* passing a byte.                                                         *)
Advanced(v, p, n, r) ==
  /\ r.pos \in [idx : 1 .. Len(v) + 1, off : Nat] /\ r.more \in BOOLEAN
  /\ r.more <=> r.pos.idx <= Len(v)
  /\ r.more => r.pos.off <= v[r.pos.idx].size
  /\ \/ r.pos = At(p, n) /\ r.more /\ r.pos.idx = p.idx /\ r.pos.off = p.off + n
     \/ /\ p.off + n = v[p.idx].size /\ r.pos.idx = p.idx + 1
        /\ r.more => r.pos.off = 0
  /\ Before(v, r.pos) = Before(v, At(p, n))

LEMMA Advances ==
  ASSUME NEW v \in Seq(Buffer), NEW p \in [idx : 1 .. Len(v), off : Nat], NEW n \in Nat,
         p.off + n <= v[p.idx].size, NEW r, r = fuse_bufvec_advance(v, p, n)
  PROVE  Advanced(v, p, n, r)
<1> USE DEF Advanced
<1>1. /\ p.idx \in 1 .. Len(v) /\ p.off \in Nat /\ Len(v) \in Nat
      /\ \A i \in 1 .. Len(v) : v[i].size \in Nat
      /\ p = [idx |-> p.idx, off |-> p.off]
  BY BufferFacts
<1>2. CASE p.off + n # v[p.idx].size
  <2>1. r = [pos |-> [p EXCEPT !.off = p.off + n], more |-> TRUE]
    BY <1>2 DEF fuse_bufvec_advance
  <2>2. r.pos = At(p, n) /\ r.more = TRUE /\ r.pos.idx = p.idx /\ r.pos.off = p.off + n
    BY <1>1, <2>1 DEF At
  <2>3. r.pos \in [idx : 1 .. Len(v) + 1, off : Nat]
    BY <1>1, <2>2 DEF At
  <2>4. r.more \in BOOLEAN /\ (r.more <=> r.pos.idx <= Len(v))
    <3>1. r.pos.idx <= Len(v)
      BY <1>1, <2>2
    <3> QED
      BY <3>1, <2>2, Zenon
  <2>5. r.pos.off <= v[r.pos.idx].size
    BY <2>2
  <2> QED
    BY <2>2, <2>3, <2>4, <2>5
<1>3. CASE p.off + n = v[p.idx].size
  <2>1. /\ r.pos.idx = p.idx + 1 /\ r.more = (p.idx # Len(v))
        /\ r.pos = [idx |-> p.idx + 1, off |-> IF p.idx = Len(v) THEN p.off + n ELSE 0]
    BY <1>3 DEF fuse_bufvec_advance
  <2> DEFINE o == IF p.idx = Len(v) THEN p.off + n ELSE 0
  <2>9. o \in Nat /\ p.idx + 1 \in 1 .. Len(v) + 1 /\ r.pos = [idx |-> p.idx + 1, off |-> o]
    BY <1>1, <2>1
  <2>3. r.more \in BOOLEAN /\ (r.more <=> r.pos.idx <= Len(v)) /\ (r.more => o = 0)
    <3>1. r.pos.idx <= Len(v) <=> p.idx # Len(v)
      BY <1>1, <2>1
    <3>2. p.idx # Len(v) => o = 0
      OBVIOUS
    <3> HIDE DEF o
    <3> QED
      BY <2>1, <3>1, <3>2, Zenon
  <2>2. r.pos \in [idx : 1 .. Len(v) + 1, off : Nat] /\ (r.more => r.pos.off = 0)
    <3> HIDE DEF o
    <3> QED
      BY <2>9, <2>3
  <2>4. r.more => r.pos.off <= v[r.pos.idx].size
    <3>1. r.more => r.pos.idx \in 1 .. Len(v)
      BY <2>2, <2>3
    <3> QED
      BY <1>1, <2>2, <3>1
  <2>5. ASSUME NEW x \in Room(v)
        PROVE  x \in Before(v, r.pos) <=> x \in Before(v, At(p, n))
    <3>1. x[1] \in 1 .. Len(v) /\ x[2] \in 1 .. v[x[1]].size
      BY RoomHas
    <3>2. x[1] \in Int /\ x[2] \in Int /\ x[2] >= 1 /\ x[1] <= Len(v)
          /\ (x[1] = p.idx => x[2] <= p.off + n)
      BY <1>1, <1>3, <3>1
    <3>3. x \in Before(v, r.pos) <=> x[1] < p.idx + 1
      <4>1. CASE p.idx = Len(v)
        BY <1>1, <2>1, <3>2, <4>1 DEF Before
      <4>2. CASE p.idx # Len(v)
        BY <1>1, <2>1, <3>2, <4>2 DEF Before
      <4> QED
        BY <4>1, <4>2
    <3>4. x \in Before(v, At(p, n)) <=> x[1] <= p.idx
      BY <1>1, <3>2 DEF Before, At
    <3> QED
      BY <1>1, <3>2, <3>3, <3>4
  <2>6. Before(v, r.pos) = Before(v, At(p, n))
    BY <2>5 DEF Before
  <2> QED
    BY <1>3, <2>1, <2>2, <2>3, <2>4, <2>6
<1> QED
  BY <1>2, <1>3
-------------------------------------------------------------------------------
(* The places of a vector that grows at its end.                           *)
LEMMA PlaceOf ==
  ASSUME NEW b
  PROVE  /\ \A i \in 1 .. Len(b) : \A o \in 1 .. Len(b[i]) : <<i, o>> \in Places(b)
         /\ \A p \in Places(b) : /\ p[1] \in 1 .. Len(b) /\ p[2] \in 1 .. Len(b[p[1]])
                                 /\ p = <<p[1], p[2]>>
  BY DEF Places

(* c is b with n more bytes in buffer i, behind which all are empty.       *)
Grown(b, c, i, n) ==
  /\ Len(b) \in Nat /\ Len(c) = Len(b) /\ i \in 1 .. Len(b) /\ n \in Nat
  /\ \A j \in 1 .. Len(b) : Len(b[j]) \in Nat
  /\ \A j \in 1 .. Len(b) : j > i => Len(b[j]) = 0
  /\ \A j \in 1 .. Len(b) : j # i => c[j] = b[j]
  /\ Len(c[i]) = Len(b[i]) + n
  /\ \A o \in 1 .. Len(b[i]) : c[i][o] = b[i][o]

LEMMA GrownPlaces ==
  ASSUME NEW b, NEW c, NEW i, NEW n, Grown(b, c, i, n)
  PROVE  /\ Places(c) = Places(b) \cup Run(i, Len(b[i]), n)
         /\ Places(b) \cap Run(i, Len(b[i]), n) = {}
         /\ \A p \in Places(b) : ByteAt(c, p) = ByteAt(b, p)
         /\ \A p \in Places(b) : \A k \in 1 .. n :
              /\ Precedes(p, <<i, Len(b[i]) + k>>)
              /\ ~Precedes(<<i, Len(b[i]) + k>>, p)
<1> DEFINE a == Len(b[i])
           L == Len(b)
<1>1. /\ L \in Nat /\ Len(c) = L /\ i \in 1 .. L /\ n \in Nat /\ a \in Nat
      /\ \A j \in 1 .. L : Len(b[j]) \in Nat
      /\ \A j \in 1 .. L : j > i => Len(b[j]) = 0
      /\ \A j \in 1 .. L : j # i => c[j] = b[j]
      /\ Len(c[i]) = a + n
      /\ \A o \in 1 .. a : c[i][o] = b[i][o]
  BY DEF Grown
<1>2. \A p \in Places(b) : /\ p[1] \in 1 .. L /\ p[2] \in 1 .. Len(b[p[1]])
                           /\ p = <<p[1], p[2]>>
  BY PlaceOf
<1>3. \A p \in Places(c) : /\ p[1] \in 1 .. L /\ p[2] \in 1 .. Len(c[p[1]])
                           /\ p = <<p[1], p[2]>>
  BY PlaceOf, <1>1
<1>4. \A j \in 1 .. L : \A o \in 1 .. Len(b[j]) : <<j, o>> \in Places(b)
  BY PlaceOf
<1>5. \A j \in 1 .. L : \A o \in 1 .. Len(c[j]) : <<j, o>> \in Places(c)
  BY PlaceOf, <1>1
<1>6. \A x : x \in Run(i, a, n) <=> \E k \in a + 1 .. a + n : x = <<i, k>>
  BY DEF Run
<1> HIDE DEF a, L
<1>7. ASSUME NEW p \in Places(b)
      PROVE  p \in Places(c) /\ p \notin Run(i, a, n)
  <2>1. p[1] \in 1 .. L /\ p[2] \in 1 .. Len(b[p[1]]) /\ p = <<p[1], p[2]>>
    BY <1>2
  <2>2. p[2] \in 1 .. Len(c[p[1]])
    <3>1. CASE p[1] = i
      BY <3>1, <2>1, <1>1 DEF a
    <3>2. CASE p[1] # i
      BY <3>2, <2>1, <1>1
    <3> QED
      BY <3>1, <3>2
  <2>3. <<p[1], p[2]>> \in Places(c)
    BY <2>1, <2>2, <1>5
  <2>4. ASSUME NEW k \in a + 1 .. a + n, p = <<i, k>> PROVE FALSE
    <3>1. p[1] = i /\ p[2] = k
      BY <2>4
    <3> QED
      BY <3>1, <2>1, <1>1 DEF a
  <2> QED
    BY <2>1, <2>3, <2>4, <1>6
<1>8. ASSUME NEW p \in Places(c), p \notin Places(b) PROVE p \in Run(i, a, n)
  <2>1. p[1] \in 1 .. L /\ p[2] \in 1 .. Len(c[p[1]]) /\ p = <<p[1], p[2]>>
    BY <1>3
  <2>2. ~(p[2] \in 1 .. Len(b[p[1]]))
    BY <2>1, <1>4, <1>8
  <2>3. p[1] = i
    BY <2>1, <2>2, <1>1
  <2>4. p[2] \in 1 .. a + n /\ ~(p[2] \in 1 .. a)
    BY <2>1, <2>2, <2>3, <1>1 DEF a
  <2>5. p[2] \in a + 1 .. a + n
    BY <2>4, <1>1
  <2> QED
    BY <2>1, <2>3, <2>5, <1>6
<1>9. ASSUME NEW p \in Run(i, a, n) PROVE p \in Places(c)
  <2>1. PICK k \in a + 1 .. a + n : p = <<i, k>>
    BY <1>6
  <2>2. k \in 1 .. Len(c[i])
    BY <1>1
  <2> QED
    BY <2>1, <2>2, <1>1, <1>5
<1>10. ASSUME NEW p \in Places(b) PROVE ByteAt(c, p) = ByteAt(b, p)
  <2>1. p[1] \in 1 .. L /\ p[2] \in 1 .. Len(b[p[1]])
    BY <1>2
  <2>2. CASE p[1] = i
    BY <2>1, <2>2, <1>1 DEF ByteAt, a
  <2>3. CASE p[1] # i
    BY <2>1, <2>3, <1>1 DEF ByteAt
  <2> QED
    BY <2>2, <2>3
<1>11. ASSUME NEW p \in Places(b), NEW k \in 1 .. n
       PROVE  Precedes(p, <<i, a + k>>) /\ ~Precedes(<<i, a + k>>, p)
  <2>1. p[1] \in 1 .. L /\ p[2] \in 1 .. Len(b[p[1]])
    BY <1>2
  <2>2. p[1] <= i /\ (p[1] = i => p[2] <= a)
    BY <2>1, <1>1 DEF a
  <2> QED
    BY <2>1, <2>2, <1>1 DEF Precedes
<1> QED
  BY <1>7, <1>8, <1>9, <1>10, <1>11 DEF a

LEMMA RunElements ==
  ASSUME NEW j, NEW e \in Nat, NEW n \in Nat
  PROVE  /\ \A x \in Run(j, e, n) : \E k \in 1 .. n : x = <<j, e + k>>
         /\ \A k \in 1 .. n : <<j, e + k>> \in Run(j, e, n)
<1>1. ASSUME NEW x \in Run(j, e, n) PROVE \E k \in 1 .. n : x = <<j, e + k>>
  <2>1. PICK m \in e + 1 .. e + n : x = <<j, m>>
    BY DEF Run
  <2>2. m - e \in 1 .. n /\ m = e + (m - e)
    OBVIOUS
  <2> QED
    BY <2>1, <2>2
<1>2. ASSUME NEW k \in 1 .. n PROVE <<j, e + k>> \in Run(j, e, n)
  BY DEF Run
<1> QED
  BY <1>1, <1>2

(* The bytes added are those after o in the source's buffer s, and come    *)
(* after all of R.                                                         *)
Carries(c, i, a, s, o, n) == \A k \in 1 .. n : c[i][a + k] = <<s, o + k>>
Follows(R, s, o, n) == \A x \in R : \A k \in 1 .. n : Precedes(x, <<s, o + k>>)

LEMMA OrderMore ==
  ASSUME NEW b, NEW c, NEW i, NEW n, Grown(b, c, i, n), NEW R, InOrder(b, R),
         NEW s, NEW o, s \in Nat, o \in Nat,
         Carries(c, i, Len(b[i]), s, o, n), Follows(R, s, o, n)
  PROVE  InOrder(c, R \cup Run(s, o, n))
<1> DEFINE a == Len(b[i])
           T == R \cup Run(s, o, n)
<1>0. \A x \in R : \A k \in 1 .. n : Precedes(x, <<s, o + k>>)
  BY DEF Follows
<1>1. a \in Nat /\ i \in Nat /\ n \in Nat
  BY DEF Grown
<1>2. /\ Places(c) = Places(b) \cup Run(i, a, n)
      /\ \A p \in Places(b) : ByteAt(c, p) = ByteAt(b, p)
      /\ \A p \in Places(b) : \A k \in 1 .. n :
           Precedes(p, <<i, a + k>>) /\ ~Precedes(<<i, a + k>>, p)
  BY GrownPlaces
<1>3. \A k \in 1 .. n : ByteAt(c, <<i, a + k>>) = <<s, o + k>>
  BY DEF ByteAt, Carries
<1> HIDE DEF a
<1>4. /\ \A x \in Run(s, o, n) : \E k \in 1 .. n : x = <<s, o + k>>
      /\ \A k \in 1 .. n : <<s, o + k>> \in Run(s, o, n)
  BY <1>1, RunElements
<1>10. /\ \A x \in Run(i, a, n) : \E k \in 1 .. n : x = <<i, a + k>>
       /\ \A k \in 1 .. n : <<i, a + k>> \in Run(i, a, n)
  BY <1>1, RunElements
<1>5. /\ {ByteAt(b, p) : p \in Places(b)} = R
      /\ \A p, q \in Places(b) : Precedes(p, q) => Precedes(ByteAt(b, p), ByteAt(b, q))
  BY DEF InOrder
<1>6. ASSUME NEW p \in Places(c) PROVE ByteAt(c, p) \in T
  <2>1. CASE p \in Places(b)
    BY <2>1, <1>2, <1>5
  <2>2. CASE p \in Run(i, a, n)
    <3>1. PICK k \in 1 .. n : p = <<i, a + k>>
      BY <2>2, <1>10
    <3>2. <<s, o + k>> \in Run(s, o, n)
      BY <1>4
    <3> QED
      BY <3>1, <3>2, <1>3
  <2> QED
    BY <2>1, <2>2, <1>2
<1>7. ASSUME NEW x \in T PROVE \E p \in Places(c) : x = ByteAt(c, p)
  <2>1. CASE x \in R
    <3>1. PICK p \in Places(b) : x = ByteAt(b, p)
      BY <2>1, <1>5
    <3> QED
      BY <3>1, <1>2
  <2>2. CASE x \in Run(s, o, n)
    <3>1. PICK k \in 1 .. n : x = <<s, o + k>>
      BY <2>2, <1>4
    <3>2. <<i, a + k>> \in Run(i, a, n)
      BY <1>10
    <3> QED
      BY <3>1, <3>2, <1>2, <1>3
  <2> QED
    BY <2>1, <2>2
<1>8. ASSUME NEW p \in Places(c), NEW q \in Places(c), Precedes(p, q)
      PROVE  Precedes(ByteAt(c, p), ByteAt(c, q))
  <2>1. CASE p \in Places(b) /\ q \in Places(b)
    BY <2>1, <1>2, <1>5, <1>8
  <2>2. CASE p \in Places(b) /\ q \in Run(i, a, n)
    <3>1. PICK k \in 1 .. n : q = <<i, a + k>>
      BY <2>2, <1>10
    <3>2. ByteAt(b, p) \in R
      BY <2>2, <1>5
    <3> QED
      BY <3>1, <3>2, <2>2, <1>0, <1>2, <1>3
  <2>3. CASE p \in Run(i, a, n) /\ q \in Places(b)
    <3>1. PICK k \in 1 .. n : p = <<i, a + k>>
      BY <2>3, <1>10
    <3> QED
      BY <3>1, <2>3, <1>2, <1>8
  <2>4. CASE p \in Run(i, a, n) /\ q \in Run(i, a, n)
    <3>1. PICK k \in 1 .. n : p = <<i, a + k>>
      BY <2>4, <1>10
    <3>2. PICK m \in 1 .. n : q = <<i, a + m>>
      BY <2>4, <1>10
    <3>3. k < m
      BY <3>1, <3>2, <1>1, <1>8 DEF Precedes
    <3>4. Precedes(<<s, o + k>>, <<s, o + m>>)
      BY <3>3 DEF Precedes
    <3> QED
      BY <3>1, <3>2, <3>4, <1>3
  <2> QED
    BY <2>1, <2>2, <2>3, <2>4, <1>2
<1>9. {ByteAt(c, p) : p \in Places(c)} = T
  BY <1>6, <1>7
<1> QED
  BY <1>8, <1>9 DEF InOrder

LEMMA StoredMore ==
  ASSUME NEW b, NEW c, NEW i, NEW n, Grown(b, c, i, n), IsFiniteSet(Places(b))
  PROVE  Stored(c) = Stored(b) + n
<1> DEFINE P == Places(b)
           Q == Places(c)
           a == Len(b[i])
<1>1. a \in Nat /\ n \in Nat
  BY DEF Grown
<1>2. P \cap Run(i, a, n) = {} /\ Q = P \cup Run(i, a, n) /\ IsFiniteSet(P)
  BY GrownPlaces
<1> HIDE DEF P, Q, a
<1>3. Cardinality(Q) = Cardinality(P) + n
  BY <1>1, <1>2, AddRun
<1> QED
  BY <1>3 DEF Stored, P, Q
-------------------------------------------------------------------------------
(* Earlier buffers before the present ones.                                *)
LEMMA Joined ==
  ASSUME NEW S, NEW e \in Seq(S), NEW b \in Seq(S)
  PROVE  /\ e \o b \in Seq(S) /\ Len(e) \in Nat /\ Len(b) \in Nat
         /\ Len(e \o b) = Len(e) + Len(b)
         /\ \A i \in 1 .. Len(e) : (e \o b)[i] = e[i]
         /\ \A i \in 1 .. Len(b) : (e \o b)[Len(e) + i] = b[i]
         /\ \A i \in Len(e) + 1 .. Len(e) + Len(b) :
              (e \o b)[i] = b[i - Len(e)] /\ i - Len(e) \in 1 .. Len(b)
  OBVIOUS

LEMMA GrownJoined ==
  ASSUME NEW S, NEW e \in Seq(Seq(S)), NEW b \in Seq(Seq(S)), NEW c \in Seq(Seq(S)),
         NEW i, NEW n, Grown(b, c, i, n)
  PROVE  Grown(e \o b, e \o c, Len(e) + i, n)
<1> DEFINE x == e \o b
           y == e \o c
           m == Len(e)
           L == Len(b)
<1>1. /\ m \in Nat /\ Len(x) = m + L /\ Len(y) = m + L
      /\ \A j \in 1 .. m : x[j] = e[j] /\ y[j] = e[j]
      /\ \A j \in m + 1 .. m + L : x[j] = b[j - m] /\ y[j] = c[j - m] /\ j - m \in 1 .. L
  <2>1. Len(c) = L
    BY DEF Grown
  <2>2. /\ m \in Nat /\ Len(x) = m + L
        /\ \A j \in 1 .. m : x[j] = e[j]
        /\ \A j \in m + 1 .. m + L : x[j] = b[j - m] /\ j - m \in 1 .. L
    BY Joined
  <2>3. /\ Len(y) = m + Len(c)
        /\ \A j \in 1 .. m : y[j] = e[j]
        /\ \A j \in m + 1 .. m + Len(c) : y[j] = c[j - m]
    BY Joined
  <2> HIDE DEF x, y, m, L
  <2> QED
    BY <2>1, <2>2, <2>3
<1>2. \A j \in 1 .. m : Len(e[j]) \in Nat
  OBVIOUS
<1>3. /\ L \in Nat /\ i \in 1 .. L /\ n \in Nat
      /\ \A j \in 1 .. L : Len(b[j]) \in Nat
      /\ \A j \in 1 .. L : j > i => Len(b[j]) = 0
      /\ \A j \in 1 .. L : j # i => c[j] = b[j]
      /\ Len(c[i]) = Len(b[i]) + n
      /\ \A o \in 1 .. Len(b[i]) : c[i][o] = b[i][o]
  BY DEF Grown
<1> HIDE DEF x, y, m, L
<1>4. m + i \in m + 1 .. m + L /\ (m + i) - m = i /\ m + i \in 1 .. m + L
  BY <1>1, <1>3
<1>5. x[m + i] = b[i] /\ y[m + i] = c[i]
  BY <1>1, <1>4
<1>6. ASSUME NEW j \in 1 .. m + L
      PROVE  /\ Len(x[j]) \in Nat
             /\ j > m + i => Len(x[j]) = 0
             /\ j # m + i => y[j] = x[j]
  <2>1. CASE j <= m
    <3>1. j \in 1 .. m /\ ~(j > m + i)
      BY <2>1, <1>1, <1>3
    <3>2. Len(x[j]) \in Nat /\ y[j] = x[j]
      BY <3>1, <1>1, <1>2
    <3> QED
      BY <3>1, <3>2
  <2>2. CASE ~(j <= m)
    <3> DEFINE k == j - m
    <3>1. j \in m + 1 .. m + L /\ (j > m + i => k > i) /\ (j # m + i => k # i)
      BY <2>2, <1>1, <1>3
    <3>2. x[j] = b[k] /\ y[j] = c[k] /\ k \in 1 .. L
      BY <3>1, <1>1
    <3> HIDE DEF k
    <3> QED
      BY <3>1, <3>2, <1>3
  <2> QED
    BY <2>1, <2>2
<1>7. Grown(x, y, m + i, n)
  <2>1. Len(x) = m + L /\ Len(y) = m + L /\ m + L \in Nat
    BY <1>1, <1>3
  <2> QED
    BY <2>1, <1>3, <1>4, <1>5, <1>6 DEF Grown
<1> QED
  BY <1>7 DEF x, y, m

(* Empty buffers behind them change nothing.                               *)
LEMMA OrderEmpties ==
  ASSUME NEW S, NEW e \in Seq(Seq(S)), NEW b \in Seq(Seq(S)),
         \A i \in 1 .. Len(b) : Len(b[i]) = 0, NEW R, InOrder(e, R)
  PROVE  InOrder(e \o b, R)
<1> DEFINE x == e \o b
           m == Len(e)
           L == Len(b)
<1>1. /\ m \in Nat /\ L \in Nat /\ Len(x) = m + L
      /\ \A j \in 1 .. m : x[j] = e[j]
      /\ \A j \in m + 1 .. m + L : x[j] = b[j - m] /\ j - m \in 1 .. L
  BY Joined
<1>2. /\ \A p \in Places(x) : /\ p[1] \in 1 .. m + L /\ p[2] \in 1 .. Len(x[p[1]])
                              /\ p = <<p[1], p[2]>>
      /\ \A i \in 1 .. m + L : \A o \in 1 .. Len(x[i]) : <<i, o>> \in Places(x)
  BY PlaceOf, <1>1
<1>3. /\ \A p \in Places(e) : /\ p[1] \in 1 .. m /\ p[2] \in 1 .. Len(e[p[1]])
                              /\ p = <<p[1], p[2]>>
      /\ \A i \in 1 .. m : \A o \in 1 .. Len(e[i]) : <<i, o>> \in Places(e)
  BY PlaceOf
<1>4. \A i \in 1 .. L : Len(b[i]) = 0
  OBVIOUS
<1> HIDE DEF x, m, L
<1>5. ASSUME NEW p \in Places(x) PROVE p \in Places(e)
  <2>1. p[1] \in 1 .. m + L /\ p[2] \in 1 .. Len(x[p[1]]) /\ p = <<p[1], p[2]>>
    BY <1>2
  <2>2. p[1] \in 1 .. m
    <3>1. ASSUME p[1] \in m + 1 .. m + L PROVE FALSE
      <4>0. x[p[1]] = b[p[1] - m] /\ p[1] - m \in 1 .. L
        BY <3>1, <1>1
      <4>1. Len(x[p[1]]) = 0
        BY <4>0, <1>4
      <4> QED
        BY <4>1, <2>1
    <3> QED
      BY <3>1, <2>1, <1>1
  <2>3. p[2] \in 1 .. Len(e[p[1]])
    BY <2>1, <2>2, <1>1
  <2> QED
    BY <2>1, <2>2, <2>3, <1>3
<1>6. ASSUME NEW p \in Places(e) PROVE p \in Places(x) /\ ByteAt(x, p) = ByteAt(e, p)
  <2>1. p[1] \in 1 .. m /\ p[2] \in 1 .. Len(e[p[1]]) /\ p = <<p[1], p[2]>>
    BY <1>3
  <2>2. x[p[1]] = e[p[1]] /\ p[1] \in 1 .. m + L
    BY <2>1, <1>1
  <2>3. <<p[1], p[2]>> \in Places(x)
    BY <2>1, <2>2, <1>2
  <2> QED
    BY <2>1, <2>2, <2>3 DEF ByteAt
<1>7. Places(x) = Places(e)
  BY <1>5, <1>6
<1>8. {ByteAt(x, p) : p \in Places(x)} = {ByteAt(e, p) : p \in Places(e)}
  BY <1>6, <1>7
<1>9. InOrder(x, R)
  BY <1>6, <1>7, <1>8 DEF InOrder
<1> QED
  BY <1>9 DEF x

LEMMA EmptiesHold ==
  ASSUME NEW b, \A i \in 1 .. Len(b) : Len(b[i]) = 0
  PROVE  Places(b) = {} /\ Stored(b) = 0 /\ InOrder(b, {})
<1>1. Places(b) = {}
  BY PlaceOf
<1>2. Stored(b) = 0
  BY <1>1, FS_EmptySet DEF Stored
<1> QED
  BY <1>1, <1>2 DEF InOrder

LEMMA StoredJoins ==
  ASSUME NEW S, NEW e \in Seq(Seq(S)), NEW b \in Seq(Seq(S))
  PROVE  Stored(e \o b) = Stored(e) + Stored(b)
<1> DEFINE x == e \o b
           m == Len(e)
           L == Len(b)
           f == [p \in Places(b) |-> <<m + p[1], p[2]>>]
           T == {f[p] : p \in Places(b)}
<1>1. /\ m \in Nat /\ L \in Nat /\ Len(x) = m + L
      /\ \A j \in 1 .. m : x[j] = e[j]
      /\ \A j \in m + 1 .. m + L : x[j] = b[j - m] /\ j - m \in 1 .. L
      /\ \A j \in 1 .. L : x[m + j] = b[j]
  BY Joined
<1>2. /\ \A p \in Places(x) : /\ p[1] \in 1 .. m + L /\ p[2] \in 1 .. Len(x[p[1]])
                              /\ p = <<p[1], p[2]>>
      /\ \A i \in 1 .. m + L : \A o \in 1 .. Len(x[i]) : <<i, o>> \in Places(x)
  BY PlaceOf, <1>1
<1>3. /\ \A p \in Places(e) : /\ p[1] \in 1 .. m /\ p[2] \in 1 .. Len(e[p[1]])
                              /\ p = <<p[1], p[2]>>
      /\ \A i \in 1 .. m : \A o \in 1 .. Len(e[i]) : <<i, o>> \in Places(e)
  BY PlaceOf
<1>4. /\ \A p \in Places(b) : /\ p[1] \in 1 .. L /\ p[2] \in 1 .. Len(b[p[1]])
                              /\ p = <<p[1], p[2]>>
      /\ \A i \in 1 .. L : \A o \in 1 .. Len(b[i]) : <<i, o>> \in Places(b)
  BY PlaceOf
<1>5. IsFiniteSet(Places(e)) /\ IsFiniteSet(Places(b)) /\ Stored(e) \in Nat /\ Stored(b) \in Nat
  BY PlacesFinite
<1>6. \A p \in Places(b) : f[p] = <<m + p[1], p[2]>>
  OBVIOUS
<1> HIDE DEF x, m, L
<1>7. f \in Bijection(Places(b), T)
  <2>1. f \in Surjection(Places(b), T)
    BY DEF Surjection
  <2>2. ASSUME NEW p \in Places(b), NEW q \in Places(b), f[p] = f[q] PROVE p = q
    <3>1. p[1] \in Int /\ q[1] \in Int /\ p = <<p[1], p[2]>> /\ q = <<q[1], q[2]>>
      BY <1>4
    <3>2. <<m + p[1], p[2]>> = <<m + q[1], q[2]>>
      BY <2>2, <1>6
    <3>3. m + p[1] = m + q[1] /\ p[2] = q[2]
      BY <3>2
    <3>4. p[1] = q[1]
      BY <3>1, <3>3, <1>1
    <3> QED
      BY <3>1, <3>3, <3>4
  <2>3. f \in Injection(Places(b), T)
    BY <2>2 DEF Injection, IsInjective
  <2> QED
    BY <2>1, <2>3 DEF Bijection
<1>8. T \subseteq Places(x) /\ T \cap Places(e) = {}
  <2> SUFFICES ASSUME NEW p \in Places(b) PROVE f[p] \in Places(x) /\ f[p] \notin Places(e)
    OBVIOUS
  <2>1. p[1] \in 1 .. L /\ p[2] \in 1 .. Len(b[p[1]])
    BY <1>4
  <2>2. m + p[1] \in 1 .. m + L /\ x[m + p[1]] = b[p[1]] /\ ~(m + p[1] \in 1 .. m)
    BY <2>1, <1>1
  <2>3. <<m + p[1], p[2]>> \in Places(x)
    BY <2>1, <2>2, <1>2
  <2>4. <<m + p[1], p[2]>> \notin Places(e)
    <3>1. <<m + p[1], p[2]>>[1] = m + p[1]
      OBVIOUS
    <3> QED
      BY <2>2, <3>1, <1>3
  <2> QED
    BY <2>3, <2>4, <1>6
<1>9. ASSUME NEW p \in Places(e) PROVE p \in Places(x)
  <2>1. p[1] \in 1 .. m /\ p[2] \in 1 .. Len(e[p[1]]) /\ p = <<p[1], p[2]>>
    BY <1>3
  <2>2. x[p[1]] = e[p[1]] /\ p[1] \in 1 .. m + L
    BY <2>1, <1>1
  <2> QED
    BY <2>1, <2>2, <1>2
<1>10. ASSUME NEW p \in Places(x), p \notin Places(e) PROVE p \in T
  <2>1. p[1] \in 1 .. m + L /\ p[2] \in 1 .. Len(x[p[1]]) /\ p = <<p[1], p[2]>>
    BY <1>2
  <2>2. p[1] \in m + 1 .. m + L
    <3>1. ASSUME p[1] \in 1 .. m PROVE FALSE
      BY <3>1, <2>1, <1>1, <1>3, <1>10
    <3> QED
      BY <3>1, <2>1, <1>1
  <2> DEFINE i == p[1] - m
  <2>3. i \in 1 .. L /\ x[p[1]] = b[i] /\ m + i = p[1]
    BY <2>2, <1>1
  <2> HIDE DEF i
  <2>4. <<i, p[2]>> \in Places(b)
    BY <2>1, <2>3, <1>4
  <2>5. f[<<i, p[2]>>] = <<m + i, p[2]>>
    BY <2>4, <1>6
  <2> QED
    BY <2>1, <2>3, <2>4, <2>5
<1> HIDE DEF f, T
<1>11. IsFiniteSet(T) /\ Cardinality(T) = Cardinality(Places(b))
  <2> DEFINE P == Places(b)
  <2>1. ExistsBijection(P, T) /\ IsFiniteSet(P)
    BY <1>5, <1>7 DEF ExistsBijection
  <2> HIDE DEF P
  <2>2. IsFiniteSet(T) /\ Cardinality(T) = Cardinality(P)
    BY <2>1, FS_Bijection
  <2> QED
    BY <2>2 DEF P
<1>12. Places(x) = Places(e) \cup T
  BY <1>8, <1>9, <1>10
<1>13. Cardinality(Places(x)) = Cardinality(Places(e)) + Cardinality(T)
  <2> DEFINE P == Places(e)
             Q == Places(x)
  <2>1. IsFiniteSet(P) /\ IsFiniteSet(T) /\ P \cap T = {} /\ Q = P \cup T
    BY <1>5, <1>8, <1>11, <1>12
  <2> HIDE DEF P, Q
  <2>2. Cardinality(P \cup T) = Cardinality(P) + Cardinality(T) - Cardinality(P \cap T)
    BY <2>1, FS_Union
  <2>3. Cardinality(P \cap T) = 0 /\ Cardinality(P) \in Nat /\ Cardinality(T) \in Nat
    BY <2>1, FS_EmptySet, FS_CardinalityType
  <2> QED
    BY <2>1, <2>2, <2>3 DEF P, Q
<1> QED
  BY <1>5, <1>11, <1>13 DEF Stored, x
-------------------------------------------------------------------------------
Bytewise == Nat \X Nat

LEMMA Within ==
  ASSUME NEW a \in Nat, NEW l \in Nat, NEW r \in Nat, NEW z \in Nat, r <= l, a + l <= z
  PROVE  a + r <= z
  OBVIOUS

LEMMA SmallerRoom ==
  ASSUME NEW a \in Nat, NEW b \in Nat, NEW c \in Nat, NEW d \in Nat, a <= b, c <= d,
         NEW o, o = IF b - a < d - c THEN b - a ELSE d - c
  PROVE  o \in Nat /\ a + o <= b /\ c + o <= d
  OBVIOUS

(* Where a copy stands between two buffers that it has not left.           *)
LEMMA CurrentFacts ==
  ASSUME CopyTypeOK, CountInv, ~AtEnd(src, spos), ~AtEnd(dst, dpos)
  PROVE  /\ spos \in [idx : 1 .. Len(src), off : Nat] /\ spos.idx \in 1 .. Len(src)
         /\ dpos \in [idx : 1 .. Len(dst), off : Nat] /\ dpos.idx \in 1 .. Len(dst)
         /\ spos.off \in Nat /\ dpos.off \in Nat /\ From.size \in Nat /\ To.size \in Nat
         /\ From.has \in Nat /\ taken[spos.idx] \in Nat
         /\ From.fd \in BOOLEAN /\ To.fd \in BOOLEAN
         /\ OneLen \in Nat
         /\ spos.off + OneLen <= From.size /\ dpos.off + OneLen <= To.size
<1>1. /\ Len(src) \in Nat /\ Len(dst) \in Nat
      /\ spos \in [idx : 1 .. Len(src) + 1, off : Nat]
      /\ dpos \in [idx : 1 .. Len(dst) + 1, off : Nat]
      /\ taken \in [1 .. Len(src) -> Nat]
  BY DEF CopyTypeOK
<1>2. /\ spos.idx \in 1 .. Len(src) + 1 /\ ~(spos.idx > Len(src)) /\ spos.off \in Nat
      /\ dpos.idx \in 1 .. Len(dst) + 1 /\ ~(dpos.idx > Len(dst)) /\ dpos.off \in Nat
      /\ spos = [idx |-> spos.idx, off |-> spos.off]
      /\ dpos = [idx |-> dpos.idx, off |-> dpos.off]
  BY <1>1 DEF AtEnd
<1>3. spos.idx \in 1 .. Len(src) /\ dpos.idx \in 1 .. Len(dst)
  BY <1>1, <1>2
<1>4. spos \in [idx : 1 .. Len(src), off : Nat] /\ dpos \in [idx : 1 .. Len(dst), off : Nat]
  BY <1>2, <1>3
<1>5. /\ From.size \in Nat /\ From.has \in Nat /\ From.fd \in BOOLEAN
      /\ To.size \in Nat /\ To.fd \in BOOLEAN
  BY <1>3, BufferFacts DEF From, To, CopyTypeOK
<1>6. spos.off <= From.size /\ dpos.off <= To.size
  BY DEF CountInv
<1>7. OneLen \in Nat /\ spos.off + OneLen <= From.size /\ dpos.off + OneLen <= To.size
  <2>1. OneLen = IF From.size - spos.off < To.size - dpos.off
                 THEN From.size - spos.off ELSE To.size - dpos.off
    BY DEF OneLen
  <2> QED
    BY <1>2, <1>5, <1>6, <2>1, SmallerRoom
<1>8. taken[spos.idx] \in Nat
  BY <1>1, <1>3
<1> QED
  BY <1>2, <1>3, <1>4, <1>5, <1>7, <1>8

LEMMA Lengthened ==
  ASSUME NEW S, NEW a \in Nat, NEW n \in Nat, NEW old \in [1 .. a -> S], NEW bytes \in [1 .. n -> S],
         NEW row, row = [i \in 1 .. a + n |-> IF i <= a THEN old[i] ELSE bytes[i - a]]
  PROVE  /\ row \in Seq(S) /\ Len(row) = a + n
         /\ \A o \in 1 .. a : row[o] = old[o]
         /\ \A j \in 1 .. n : row[a + j] = bytes[j]
<1>1. ASSUME NEW i \in 1 .. a + n PROVE row[i] \in S
  <2>1. CASE i <= a
    <3>1. i \in 1 .. a /\ row[i] = old[i]
      BY <2>1
    <3> QED
      BY <3>1
  <2>2. CASE ~(i <= a)
    <3>1. i - a \in 1 .. n /\ row[i] = bytes[i - a]
      BY <2>2
    <3> QED
      BY <3>1
  <2> QED
    BY <2>1, <2>2
<1>2. row \in [1 .. a + n -> S] /\ a + n \in Nat
  BY <1>1
<1>3. row \in Seq(S) /\ Len(row) = a + n
  <2> DEFINE m == a + n
  <2>1. m \in Nat /\ row \in [1 .. m -> S]
    BY <1>2
  <2> HIDE DEF m
  <2>2. row = [i \in 1 .. m |-> row[i]] /\ \A i \in 1 .. m : row[i] \in S
    BY <2>1
  <2>3. Len(row) = m /\ row \in Seq(S)
    BY <2>1, <2>2
  <2> QED
    BY <2>3 DEF m
<1>4. ASSUME NEW o \in 1 .. a PROVE row[o] = old[o]
  <2>1. o \in 1 .. a + n /\ o <= a
    OBVIOUS
  <2> QED
    BY <2>1
<1>5. ASSUME NEW j \in 1 .. n PROVE row[a + j] = bytes[j]
  <2>1. a + j \in 1 .. a + n /\ ~(a + j <= a) /\ (a + j) - a = j
    OBVIOUS
  <2> QED
    BY <2>1
<1> QED
  BY <1>3, <1>4, <1>5

(* A write, positioned or not, goes behind what the buffer has.            *)
LEMMA PutAppends ==
  ASSUME out \in Seq(Seq(Bytewise)), dpos.idx \in 1 .. Len(out), NEW k \in Nat, dpos.off \in Nat,
         Len(out[dpos.idx]) = dpos.off + k, NEW bytes \in Seq(Bytewise), Put(k, bytes)
  PROVE  /\ out' \in Seq(Seq(Bytewise)) /\ Len(out') = Len(out)
         /\ \A j \in 1 .. Len(out) : j # dpos.idx => out'[j] = out[j]
         /\ Len(out'[dpos.idx]) = Len(out[dpos.idx]) + Len(bytes)
         /\ \A o \in 1 .. Len(out[dpos.idx]) : out'[dpos.idx][o] = out[dpos.idx][o]
         /\ \A j \in 1 .. Len(bytes) : out'[dpos.idx][Len(out[dpos.idx]) + j] = bytes[j]
<1> DEFINE d == dpos.idx
           old == out[d]
           a == Len(old)
           n == Len(bytes)
           at == IF To.fd /\ ~To.seek THEN a ELSE dpos.off + k
           top == IF at + n > a THEN at + n ELSE a
           new == [i \in 1 .. top |-> IF i > at /\ i <= at + n THEN bytes[i - at]
                                      ELSE IF i <= a THEN old[i] ELSE <<0, 0>>]
           row == [i \in 1 .. a + n |-> IF i <= a THEN old[i] ELSE bytes[i - a]]
<1>1. a \in Nat /\ n \in Nat /\ old \in Seq(Bytewise) /\ d \in 1 .. Len(out)
  OBVIOUS
<1>2. at = a
  OBVIOUS
<1>3. out' = [out EXCEPT ![d] = new]
  BY DEF Put
<1> HIDE DEF at
<1>4. top = a + n
  BY <1>1, <1>2
<1> HIDE DEF top
<1>5. new = row
  <2> SUFFICES ASSUME NEW i \in 1 .. a + n
               PROVE  (IF i > a /\ i <= a + n THEN bytes[i - a]
                       ELSE IF i <= a THEN old[i] ELSE <<0, 0>>)
                      = IF i <= a THEN old[i] ELSE bytes[i - a]
    BY <1>2, <1>4
  <2> QED
    BY <1>1
<1>6. out' = [out EXCEPT ![d] = row]
  BY <1>3, <1>5
<1>7. /\ row \in Seq(Bytewise) /\ Len(row) = a + n
      /\ \A o \in 1 .. a : row[o] = old[o]
      /\ \A j \in 1 .. n : row[a + j] = bytes[j]
  <2>1. old \in [1 .. a -> Bytewise] /\ bytes \in [1 .. n -> Bytewise]
    OBVIOUS
  <2>2. row = [i \in 1 .. a + n |-> IF i <= a THEN old[i] ELSE bytes[i - a]]
    OBVIOUS
  <2> HIDE DEF row, a, n, old
  <2> QED
    BY <1>1, <2>1, <2>2, Lengthened
<1> HIDE DEF row, a, n, old, new
<1>10. out' \in Seq(Seq(Bytewise)) /\ Len(out') = Len(out) /\ out'[d] = row
       /\ \A j \in 1 .. Len(out) : j # d => out'[j] = out[j]
  BY <1>1, <1>6, <1>7
<1> QED
  BY <1>7, <1>10 DEF a, n, old

(* What has been written when a further write of n bytes returns.          *)
LEMMA PutWrites ==
  ASSUME CopyTypeOK, CountInv, ~AtEnd(src, spos), ~AtEnd(dst, dpos),
         NEW k \in Nat, NEW n \in Nat, k + n <= OneLen,
         Written(out, k), Filled(out), Pointed(out, k),
         NEW bytes \in Seq(Bytewise), Len(bytes) = n,
         \A j \in 1 .. n : bytes[j] = <<spos.idx, spos.off + k + j>>,
         Put(k, bytes)
  PROVE  Written(out', k + n) /\ Filled(out') /\ Pointed(out', k + n)
<1> DEFINE i == dpos.idx
           a == Len(out[i])
           s == spos.idx
           p == At(spos, k)
<1>1. /\ spos \in [idx : 1 .. Len(src), off : Nat] /\ s \in 1 .. Len(src)
      /\ i \in 1 .. Len(dst) /\ spos.off \in Nat /\ dpos.off \in Nat /\ OneLen \in Nat
      /\ spos.off + OneLen <= From.size /\ dpos.off + OneLen <= To.size
      /\ From.size \in Nat /\ To.size \in Nat
  BY CurrentFacts
<1>2. /\ out \in Seq(Seq(Bytewise)) /\ Len(out) = Len(dst) /\ earlier \in Seq(Seq(Bytewise))
      /\ InOrder(earlier \o out, Before(src, p)) /\ Stored(out) = copied + k
  BY DEF Written, CopyTypeOK, Bytewise
<1>3. /\ \A j \in 1 .. i - 1 : Len(out[j]) = dst[j].size
      /\ a = dpos.off + k /\ a \in Nat
      /\ \A j \in i + 1 .. Len(dst) : out[j] = <<>>
  <2>1. /\ \A j \in 1 .. i - 1 : Len(out[j]) = dst[j].size
        /\ i <= Len(dst) => a = dpos.off + k
        /\ \A j \in i + 1 .. Len(dst) : out[j] = <<>>
    BY DEF Pointed
  <2>2. i <= Len(dst) /\ dpos.off + k \in Nat
    BY <1>1
  <2> QED
    BY <2>1, <2>2
<1>4. /\ out' \in Seq(Seq(Bytewise)) /\ Len(out') = Len(out)
      /\ \A j \in 1 .. Len(out) : j # i => out'[j] = out[j]
      /\ Len(out'[i]) = a + n
      /\ \A o \in 1 .. a : out'[i][o] = out[i][o]
      /\ \A j \in 1 .. n : out'[i][a + j] = bytes[j]
  BY <1>1, <1>2, <1>3, PutAppends
<1>5. Grown(out, out', i, n)
  <2>1. Len(out) \in Nat /\ \A j \in 1 .. Len(out) : Len(out[j]) \in Nat
    BY <1>2
  <2>2. ASSUME NEW j \in 1 .. Len(out), j > i PROVE Len(out[j]) = 0
    <3>1. j \in i + 1 .. Len(dst)
      BY <2>1, <2>2, <1>1, <1>2
    <3>2. out[j] = <<>>
      BY <3>1, <1>3
    <3> QED
      BY <3>2
  <2> HIDE DEF i
  <2> QED
    BY <2>1, <2>2, <1>1, <1>2, <1>4 DEF Grown, a
<1>6. Stored(out') = copied + (k + n)
  <2>1. IsFiniteSet(Places(out))
    BY <1>2, PlacesFinite
  <2>2. Stored(out') = Stored(out) + n
    BY <2>1, <1>5, StoredMore
  <2>3. copied \in Nat
    BY DEF CopyTypeOK
  <2> QED
    BY <2>2, <2>3, <1>2
<1>7. /\ p \in [idx : 1 .. Len(src), off : Nat] /\ p.idx = s /\ p.off = spos.off + k
      /\ At(p, n) = At(spos, k + n) /\ p.off + n <= src[p.idx].size
  <2>1. p = [idx |-> s, off |-> spos.off + k]
    BY DEF At
  <2>2. spos.off + k + n <= src[s].size /\ spos.off + k \in Nat
        /\ (spos.off + k) + n = spos.off + (k + n)
    <3> DEFINE e == spos.off
               z == src[s].size
    <3>1. e \in Nat /\ z \in Nat /\ OneLen \in Nat /\ e + OneLen <= z
      BY <1>1 DEF From
    <3> HIDE DEF e, z
    <3>2. e + k + n <= z /\ e + k \in Nat /\ (e + k) + n = e + (k + n)
      BY <3>1
    <3> QED
      BY <3>2 DEF e, z
  <2> QED
    BY <1>1, <2>1, <2>2 DEF At
<1>8. /\ Before(src, At(spos, k + n)) = Before(src, p) \cup Run(s, spos.off + k, n)
      /\ \A x \in Before(src, p) : \A j \in 1 .. n : Precedes(x, <<s, spos.off + k + j>>)
  <2>1. src \in Seq(Buffer)
    BY DEF CopyTypeOK
  <2>2. /\ Before(src, At(p, n)) = Before(src, p) \cup Run(p.idx, p.off, n)
        /\ \A x \in Before(src, p) : \A j \in 1 .. n : Precedes(x, <<p.idx, p.off + j>>)
    <3> HIDE DEF p
    <3> QED
      BY <2>1, <1>7, BeforeAdds
  <2> HIDE DEF p, s
  <2> QED
    BY <2>2, <1>7
<1>9. InOrder(earlier \o out', Before(src, At(spos, k + n)))
  <2> DEFINE x == earlier \o out
             y == earlier \o out'
             m == Len(earlier) + i
             R == Before(src, p)
             T == Before(src, At(spos, k + n))
             o == spos.off + k
  <2>1. Grown(x, y, m, n)
    BY <1>2, <1>4, <1>5, GrownJoined
  <2>2. InOrder(x, R)
    BY <1>2
  <2>3. s \in Nat /\ o \in Nat /\ T = R \cup Run(s, o, n)
    BY <1>1, <1>8
  <2>4. Follows(R, s, o, n)
    BY <1>8 DEF Follows
  <2>5. x[m] = out[i] /\ y[m] = out'[i]
    <3>1. i \in 1 .. Len(out) /\ i \in 1 .. Len(out')
      BY <1>1, <1>2, <1>4
    <3>2. \A j \in 1 .. Len(out) : (earlier \o out)[Len(earlier) + j] = out[j]
      BY <1>2, Joined
    <3>3. \A j \in 1 .. Len(out') : (earlier \o out')[Len(earlier) + j] = out'[j]
      BY <1>2, <1>4, Joined
    <3> QED
      BY <3>1, <3>2, <3>3
  <2>6. Carries(y, m, Len(x[m]), s, o, n)
    BY <2>5, <1>4 DEF Carries
  <2> HIDE DEF x, y, m, R, T, o, s
  <2>7. InOrder(y, R \cup Run(s, o, n))
    BY <2>1, <2>2, <2>3, <2>4, <2>6, OrderMore, Zenon
  <2> QED
    BY <2>3, <2>7 DEF y, T
<1>10. Written(out', k + n)
  BY <1>2, <1>4, <1>6, <1>9 DEF Written, Bytewise
<1>11. a + n <= dst[i].size /\ a + n = dpos.off + (k + n)
  <2> DEFINE e == dpos.off
             z == dst[i].size
  <2>1. e \in Nat /\ z \in Nat /\ OneLen \in Nat /\ e + OneLen <= z /\ a = e + k
    BY <1>1, <1>3 DEF To
  <2> HIDE DEF e, z, a
  <2>2. a + n <= z /\ a + n = e + (k + n)
    BY <2>1
  <2> QED
    BY <2>2 DEF e, z
<1>12. Pointed(out', k + n)
  <2>0. Len(dst) \in Nat /\ i \in 1 .. Len(dst) /\ Len(out) = Len(dst)
    BY <1>1, <1>2 DEF CopyTypeOK
  <2> HIDE DEF i
  <2>1. ASSUME NEW j \in 1 .. i - 1 PROVE Len(out'[j]) = dst[j].size
    <3>1. j \in 1 .. Len(out) /\ j # i
      BY <2>0
    <3> QED
      BY <3>1, <1>3, <1>4
  <2>2. ASSUME NEW j \in i + 1 .. Len(dst) PROVE out'[j] = <<>>
    <3>1. j \in 1 .. Len(out) /\ j # i
      BY <1>1, <1>2
    <3> QED
      BY <3>1, <1>3, <1>4
  <2> QED
    BY <2>1, <2>2, <1>4, <1>11 DEF Pointed, i
<1>13. Filled(out')
  <2> SUFFICES ASSUME NEW j \in 1 .. Len(dst)
               PROVE  /\ Len(out'[j]) <= dst[j].size
                      /\ \A h \in 1 .. j - 1 : out'[j] # <<>> => Len(out'[h]) = dst[h].size
    BY DEF Filled
  <2>1. CASE j = i
    <3>1. \A h \in 1 .. i - 1 : Len(out'[h]) = dst[h].size
      BY <1>12 DEF Pointed
    <3> QED
      BY <2>1, <3>1, <1>4, <1>11
  <2>2. CASE j # i
    <3>1. j \in 1 .. Len(out) /\ out'[j] = out[j] /\ Len(out[j]) <= dst[j].size
      BY <2>2, <1>2, <1>4 DEF Filled
    <3>2. CASE j > i
      <4>1. out[j] = <<>>
        BY <3>2, <1>1, <1>3
      <4> QED
        BY <3>1, <4>1
    <3>3. CASE j < i
      <4>1. \A h \in 1 .. j - 1 : h \in 1 .. i - 1
        BY <3>3, <1>1
      <4>2. \A h \in 1 .. i - 1 : Len(out'[h]) = dst[h].size
        BY <1>12 DEF Pointed
      <4> QED
        BY <3>1, <4>1, <4>2
    <3> QED
      BY <2>2, <3>2, <3>3, <1>1
  <2> QED
    BY <2>1, <2>2
<1> QED
  BY <1>10, <1>12, <1>13
-------------------------------------------------------------------------------
(* fuse_buf_copy_one has returned r, and what it wrote is written.         *)
LEMMA ReturnedKeeps ==
  ASSUME CopyInv, cpc # "done", ~AtEnd(src, spos), ~AtEnd(dst, dpos),
         NEW r \in Nat, r <= OneLen,
         Written(out', r), Filled(out'), Pointed(out', r),
         Returned(r), UNCHANGED vectors,
         taken' \in [1 .. Len(src) -> Nat], \A i \in 1 .. Len(src) : taken'[i] <= src[i].has,
         \A i \in 1 .. Len(src) : i > spos.idx => taken'[i] = taken[i],
         From.fd /\ (r = OneLen \/ ~To.fd) => taken'[spos.idx] = spos.off + r
  PROVE  CopyInv'
<1> DEFINE S == fuse_bufvec_advance(src, spos, r)
           D == fuse_bufvec_advance(dst, dpos, r)
           on == S.more /\ D.more /\ r = OneLen
           m == Len(src)
           n == Len(dst)
<1>1. /\ spos \in [idx : 1 .. m, off : Nat] /\ spos.idx \in 1 .. m
      /\ dpos \in [idx : 1 .. n, off : Nat] /\ dpos.idx \in 1 .. n
      /\ spos.off \in Nat /\ dpos.off \in Nat /\ From.size \in Nat /\ To.size \in Nat
      /\ OneLen \in Nat
      /\ spos.off + OneLen <= From.size /\ dpos.off + OneLen <= To.size
      /\ To.fd \in BOOLEAN
  BY CurrentFacts DEF CopyInv
<1>2. /\ src \in Seq(Buffer) /\ dst \in Seq(Buffer) /\ m \in Nat /\ n \in Nat
      /\ copied \in Nat /\ src' = src /\ dst' = dst /\ earlier' = earlier
      /\ earlier \in Seq(Seq(Nat \X Nat)) /\ Stored(earlier) \in Nat
  BY PlacesFinite DEF CopyInv, CopyTypeOK, vectors
<1>3. spos.off + r <= src[spos.idx].size /\ dpos.off + r <= dst[dpos.idx].size
  <2>1. spos.off + r <= From.size /\ dpos.off + r <= To.size
    BY <1>1, Within
  <2> QED
    BY <2>1 DEF From, To
<1>4. /\ moved' = 0 /\ tmp' = <<>> /\ drained' = 0
      /\ copied' = copied + r /\ spos' = S.pos
      /\ dpos' = IF S.more THEN D.pos ELSE dpos
      /\ cpc' = IF on THEN "next" ELSE "done"
      /\ res' = IF on THEN res ELSE copied + r
  <2>1. ~(r < 0)
    OBVIOUS
  <2> QED
    BY <2>1, Zenon DEF Returned
<1>5. /\ S.pos \in [idx : 1 .. m + 1, off : Nat] /\ S.more \in BOOLEAN
      /\ S.more <=> S.pos.idx <= m
      /\ S.more => S.pos.off <= src[S.pos.idx].size
      /\ \/ S.pos = At(spos, r) /\ S.more /\ S.pos.idx = spos.idx /\ S.pos.off = spos.off + r
         \/ /\ spos.off + r = src[spos.idx].size /\ S.pos.idx = spos.idx + 1
            /\ S.more => S.pos.off = 0
      /\ Before(src, S.pos) = Before(src, At(spos, r))
  <2>1. S = fuse_bufvec_advance(src, spos, r)
    OBVIOUS
  <2> HIDE DEF S
  <2>2. Advanced(src, spos, r, S)
    BY <1>1, <1>2, <1>3, <2>1, Advances
  <2> QED
    BY <2>2, Zenon DEF Advanced, m, n
<1>6. /\ D.pos \in [idx : 1 .. n + 1, off : Nat] /\ D.more \in BOOLEAN
      /\ D.more <=> D.pos.idx <= n
      /\ D.more => D.pos.off <= dst[D.pos.idx].size
      /\ \/ D.pos = At(dpos, r) /\ D.more /\ D.pos.idx = dpos.idx /\ D.pos.off = dpos.off + r
         \/ /\ dpos.off + r = dst[dpos.idx].size /\ D.pos.idx = dpos.idx + 1
            /\ D.more => D.pos.off = 0
      /\ Before(dst, D.pos) = Before(dst, At(dpos, r))
  <2>1. D = fuse_bufvec_advance(dst, dpos, r)
    OBVIOUS
  <2> HIDE DEF D
  <2>2. Advanced(dst, dpos, r, D)
    BY <1>1, <1>2, <1>3, <2>1, Advances
  <2> QED
    BY <2>2, Zenon DEF Advanced, m, n
<1>7. /\ Cardinality(Before(src, At(spos, r))) = Cardinality(Before(src, spos)) + r
      /\ Cardinality(Before(dst, At(dpos, r))) = Cardinality(Before(dst, dpos)) + r
  BY <1>1, <1>2, <1>3, BeforeAdds
<1>8. /\ Cardinality(Before(src, spos)) = Stored(earlier) + copied
      /\ Cardinality(Before(dst, dpos)) = copied
  BY DEF CopyInv, CountInv
<1> HIDE DEF S, D, m, n
<1>9. /\ Cardinality(Before(src', spos')) = Stored(earlier') + copied'
      /\ ~AtEnd(src', spos') => spos'.off <= src'[spos'.idx].size
      /\ AtEnd(src', spos') <=> ~S.more
  <2>1. Cardinality(Before(src', spos')) = Cardinality(Before(src, spos)) + r
    BY <1>2, <1>4, <1>5, <1>7, Zenon
  <2>2. Cardinality(Before(src', spos')) = Stored(earlier) + (copied + r)
    BY <2>1, <1>2, <1>8
  <2>3. AtEnd(src', spos') <=> ~S.more
    <3>1. S.pos.idx > m <=> ~(S.pos.idx <= m)
      BY <1>2, <1>5
    <3> QED
      BY <3>1, <1>2, <1>4, <1>5, Zenon DEF AtEnd, m
  <2> QED
    BY <2>2, <2>3, <1>2, <1>4, <1>5, Zenon
<1>10. CountInv'
  <2>1. CASE S.more
    <3>1. dpos' = D.pos
      BY <2>1, <1>4, Zenon
    <3>2. Cardinality(Before(dst', dpos')) = copied'
      BY <3>1, <1>2, <1>4, <1>6, <1>7, <1>8, Zenon
    <3>3. copied' \in Nat
      BY <1>2, <1>4
    <3>4. ~AtEnd(dst', dpos') => D.more
      <4>1. ~(D.pos.idx > n) <=> D.pos.idx <= n
        BY <1>2, <1>6
      <4> QED
        BY <4>1, <3>1, <1>2, <1>6, Zenon DEF AtEnd, n
    <3>5. ~AtEnd(dst', dpos') => dpos'.off <= dst'[dpos'.idx].size
      BY <3>1, <3>4, <1>2, <1>6, Zenon
    <3>6. Cardinality(Before(dst', dpos')) <= copied'
      BY <3>2, <3>3
    <3> QED
      BY <3>2, <3>5, <3>6, <1>9, Zenon DEF CountInv, From, To
  <2>2. CASE ~S.more
    <3>1. dpos' = dpos /\ dst' = dst /\ AtEnd(src', spos')
      BY <2>2, <1>2, <1>4, <1>9, Zenon
    <3>2. Cardinality(Before(dst', dpos')) <= copied'
      BY <3>1, <1>2, <1>4, <1>8
    <3>3. dpos'.off <= dst'[dpos'.idx].size
      <4>1. dpos.off <= dst[dpos.idx].size
        BY DEF CopyInv, CountInv, To
      <4> QED
        BY <3>1, <4>1, Zenon
    <3> QED
      BY <3>1, <3>2, <3>3, <1>9, Zenon DEF CountInv, From, To
  <2> QED
    BY <2>1, <2>2
<1>11. dpos' \in [idx : 1 .. n + 1, off : Nat]
  <2>1. dpos \in [idx : 1 .. n + 1, off : Nat]
    BY <1>1, <1>2
  <2> QED
    BY <2>1, <1>4, <1>6, Zenon
<1>12. Written(out, moved + drained)'
  <2>1. moved' + drained' = 0
    BY <1>4
  <2>2. At(spos', 0) = spos'
    BY <1>4, <1>5 DEF At
  <2>3. copied' + 0 = copied + r
    BY <1>2, <1>4
  <2>4. Before(src', At(spos', 0)) = Before(src, At(spos, r))
    BY <2>2, <1>2, <1>4, <1>5, Zenon
  <2> QED
    BY <2>1, <2>3, <2>4, <1>2, Zenon DEF Written
<1>13. Filled(out)'
  BY <1>2, Zenon DEF Filled
<1>14. ASSUME on PROVE Pointed(out, moved + drained)'
  <2>1. dpos' = D.pos /\ D.more /\ moved' + drained' = 0
    BY <1>4, <1>14
  <2>2. /\ \A j \in 1 .. dpos.idx - 1 : Len(out'[j]) = dst[j].size
        /\ Len(out'[dpos.idx]) = dpos.off + r
        /\ \A j \in dpos.idx + 1 .. n : out'[j] = <<>>
    <3>1. dpos.idx <= n
      BY <1>1
    <3> QED
      BY <3>1, Zenon DEF Pointed, n
  <2> DEFINE d == D.pos.idx
             o == D.pos.off
             i == dpos.idx
             e == dpos.off
             GoesTo(k) == /\ \A j \in 1 .. d - 1 : Len(out'[j]) = dst[j].size
                          /\ d <= n => Len(out'[d]) = o + k
                          /\ \A j \in d + 1 .. n : out'[j] = <<>>
  <2>3. i \in 1 .. n /\ e \in Nat /\ n \in Nat
    BY <1>1, <1>2
  <2>4. ASSUME d = i, o = e + r PROVE GoesTo(0)
    <3>1. o + 0 = o
      BY <2>3, <2>4
    <3> QED
      BY <2>2, <2>4, <3>1
  <2>5. ASSUME e + r = dst[i].size, d = i + 1, o = 0 PROVE GoesTo(0)
    <3> HIDE DEF d, o, i, e
    <3>1. \A j \in 1 .. d - 1 : Len(out'[j]) = dst[j].size
      <4> SUFFICES ASSUME NEW j \in 1 .. d - 1 PROVE Len(out'[j]) = dst[j].size
        OBVIOUS
      <4>1. CASE j = i
        BY <4>1, <2>2, <2>5 DEF i, e
      <4>2. CASE j # i
        <5>1. j \in 1 .. i - 1
          BY <4>2, <2>3, <2>5
        <5> QED
          BY <5>1, <2>2 DEF i
      <4> QED
        BY <4>1, <4>2
    <3>2. ASSUME d <= n PROVE Len(out'[d]) = 0 + 0
      <4>1. d \in i + 1 .. n
        BY <3>2, <2>3, <2>5
      <4>2. out'[d] = <<>>
        BY <4>1, <2>2 DEF i
      <4> QED
        BY <4>2
    <3>3. \A j \in d + 1 .. n : out'[j] = <<>>
      <4>1. \A j \in d + 1 .. n : j \in i + 1 .. n
        BY <2>3, <2>5
      <4> QED
        BY <4>1, <2>2 DEF i
    <3> QED
      BY <3>1, <3>2, <3>3, <2>5
  <2>6. GoesTo(0)
    BY <2>1, <2>4, <2>5, <1>6, Zenon
  <2> QED
    BY <2>1, <2>6, <1>2, Zenon DEF Pointed, n
<1>15. cpc' = "next" => on
  BY <1>4
<1>16. ASSUME cpc' = "done" => \A i \in 1 .. Len(dst') : ~dst'[i].fd PROVE TakenInv'
  <2>1. From.fd => taken'[spos.idx] = spos.off + r
    <3>1. CASE on
      BY <3>1
    <3>2. CASE ~on
      <4>1. cpc' = "done"
        BY <3>2, <1>4
      <4>2. ~To.fd
        BY <4>1, <1>1, <1>2, <1>16 DEF To, n
      <4> QED
        BY <4>2
    <3> QED
      BY <3>1, <3>2
  <2>2. \A i \in 1 .. m : src[i].fd /\ i > spos.idx => taken'[i] = 0
    BY DEF CopyInv, TakenInv, m
  <2>3. Len(tmp') = 0 /\ moved' = 0
    BY <1>4
  <2> DEFINE d == S.pos.idx
             o == S.pos.off
  <2>4. d \in Nat /\ o \in Nat /\ spos.idx \in 1 .. m
    <3>1. S.pos \in [idx : 1 .. m + 1, off : Nat]
      BY <1>5
    <3>2. d \in 1 .. m + 1 /\ o \in Nat
      BY <3>1
    <3> HIDE DEF d, o
    <3> QED
      BY <3>2, <1>1, <1>2
  <2>5. ASSUME NEW i \in 1 .. m, src[i].fd
        PROVE  (i = d => taken'[i] = o + 0 + 0) /\ (i > d => taken'[i] = 0)
    <3>1. CASE d = spos.idx /\ o = spos.off + r
      <4>1. i = d => taken'[i] = o
        BY <3>1, <2>1, <2>5 DEF From
      <4>2. i > d => taken'[i] = 0
        BY <3>1, <2>2, <2>5
      <4> HIDE DEF d, o
      <4> QED
        BY <4>1, <4>2, <2>4
    <3>2. CASE d = spos.idx + 1 /\ (S.more => o = 0)
      <4>1. i = d => o = 0
        <5>1. i = d => d <= m
          BY <1>2
        <5> QED
          BY <5>1, <3>2, <1>5, Zenon
      <4>2. i = d \/ i > d => i > spos.idx
        BY <3>2, <2>4
      <4> HIDE DEF d, o
      <4> QED
        BY <4>1, <4>2, <2>2, <2>4, <2>5
    <3> QED
      BY <3>1, <3>2, <1>5, Zenon
  <2>6. /\ Len(src') = m /\ src' = src /\ spos'.idx = d /\ spos'.off = o
    BY <1>2, <1>4 DEF m
  <2> HIDE DEF d, o
  <2> QED
    BY <2>3, <2>5, <2>6 DEF TakenInv
<1>17. cpc' \in {"next", "done"}
  BY <1>4
<1>18. CallInv'
  BY <1>4, <1>17 DEF CallInv
<1>19. copied' \in Nat /\ res' \in -1 .. copied'
       /\ IF cpc' = "done" THEN res' = copied' \/ (res' = -1 /\ copied' = 0) ELSE res' = 0
  <2>1. res = 0
    BY DEF CopyInv
  <2>2. copied' \in Nat
    BY <1>2, <1>4
  <2>3. CASE on
    BY <2>1, <2>2, <2>3, <1>4
  <2>4. CASE ~on
    BY <2>2, <2>4, <1>4
  <2> QED
    BY <2>3, <2>4
<1>20. CopyTypeOK'
  <2>1. out' \in Seq(Seq(Nat \X Nat))
    BY DEF Written
  <2>2. tmp' \in Seq(Nat \X Nat) /\ Len(tmp') <= Bounce /\ drained' \in 0 .. Len(tmp')
        /\ moved' \in Nat
    BY <1>4, BufAssumption
  <2>3. spos' \in [idx : 1 .. m + 1, off : Nat]
    BY <1>4, <1>5, Zenon
  <2> QED
    BY <2>1, <2>2, <2>3, <1>2, <1>11, <1>17, <1>19, Zenon DEF CopyTypeOK, m, n
<1>21. cpc' # "done" => Pointed(out, moved + drained)'
  BY <1>14, <1>15, <1>17
<1> QED
  BY <1>10, <1>12, <1>13, <1>16, <1>18, <1>19, <1>20, <1>21 DEF CopyInv
(* It has failed before it moved a byte.                                   *)
LEMMA FailedKeeps ==
  ASSUME CopyInv, cpc # "done", moved = 0, drained = 0,
         tmp = <<>> \/ (~AtEnd(dst, dpos) /\ To.fd),
         Returned(-1), UNCHANGED vectors, out' = out, taken' = taken
  PROVE  CopyInv'
<1>1. /\ moved' = 0 /\ tmp' = <<>> /\ drained' = 0
      /\ cpc' = "done" /\ res' = IF copied = 0 THEN -1 ELSE copied
      /\ spos' = spos /\ dpos' = dpos /\ copied' = copied
      /\ src' = src /\ dst' = dst /\ earlier' = earlier
  <2>1. -1 < 0
    OBVIOUS
  <2> QED
    BY <2>1 DEF Returned, vectors
<1>2. CountInv'
  BY <1>1, Zenon DEF CopyInv, CountInv, From, To
<1>3. moved' + drained' = moved + drained
  BY <1>1
<1>4. Written(out, moved + drained)' /\ Filled(out)'
  BY <1>1, <1>3, Zenon DEF CopyInv, Written, Filled
<1>5. CallInv'
  BY <1>1 DEF CallInv
<1>6. copied \in Nat
  BY DEF CopyInv, CopyTypeOK
<1>7. res' \in -1 .. copied' /\ (res' = copied' \/ (res' = -1 /\ copied' = 0))
  BY <1>1, <1>6
<1>8. CopyTypeOK'
  <2>1. tmp' \in Seq(Nat \X Nat) /\ Len(tmp') <= Bounce /\ drained' \in 0 .. Len(tmp')
        /\ moved' \in Nat
    BY <1>1, BufAssumption
  <2>2. cpc' \in {"next", "write", "read", "fill", "drain", "done"}
    BY <1>1
  <2> QED
    BY <2>1, <2>2, <1>1, <1>7, Zenon DEF CopyInv, CopyTypeOK
<1>9. ASSUME \A i \in 1 .. Len(dst') : ~dst'[i].fd PROVE TakenInv'
  <2>1. ~AtEnd(dst, dpos) => ~To.fd
    <3>1. ~AtEnd(dst, dpos) => dpos.idx \in 1 .. Len(dst)
      <4>1. dpos.idx \in 1 .. Len(dst) + 1 /\ Len(dst) \in Nat
        BY DEF CopyInv, CopyTypeOK
      <4> QED
        BY <4>1 DEF AtEnd
    <3> QED
      BY <3>1, <1>1, <1>9 DEF To
  <2>2. tmp = <<>> /\ TakenInv
    BY <2>1 DEF CopyInv
  <2> QED
    BY <2>2, <1>1, Zenon DEF TakenInv
<1> QED
  BY <1>1, <1>2, <1>4, <1>5, <1>7, <1>8, <1>9 DEF CopyInv

(* It goes on: the positions stay.                                         *)
LEMMA GoesOn ==
  ASSUME CopyInv, cpc' \in {"write", "read", "fill", "drain"}, cpc # "done",
         UNCHANGED vectors, UNCHANGED positions,
         NEW k, k = moved' + drained', Written(out', k), Filled(out'), Pointed(out', k),
         CallInv', TakenInv',
         taken' \in [1 .. Len(src) -> Nat], \A i \in 1 .. Len(src) : taken'[i] <= src[i].has,
         tmp' \in Seq(Nat \X Nat), Len(tmp') <= Bounce,
         moved' \in Nat, drained' \in 0 .. Len(tmp')
  PROVE  CopyInv'
<1>1. /\ spos' = spos /\ dpos' = dpos /\ copied' = copied /\ res' = res
      /\ src' = src /\ dst' = dst /\ earlier' = earlier /\ cpc' # "done" /\ res = 0
  BY DEF vectors, positions, CopyInv
<1>2. CountInv'
  BY <1>1, Zenon DEF CopyInv, CountInv, From, To
<1>3. Written(out, moved + drained)' /\ Filled(out)' /\ Pointed(out, moved + drained)'
  BY <1>1, Zenon DEF Written, Filled, Pointed
<1>4. CopyTypeOK'
  <2>1. cpc' \in {"next", "write", "read", "fill", "drain", "done"}
    OBVIOUS
  <2>2. out' \in Seq(Seq(Nat \X Nat))
    BY DEF Written
  <2> QED
    BY <2>1, <2>2, <1>1, Zenon DEF CopyInv, CopyTypeOK
<1> QED
  BY <1>1, <1>2, <1>3, <1>4 DEF CopyInv

(* What a source delivers: the bytes behind those moved, whether it reads  *)
(* at a position or on from where it stands.                               *)
LEMMA BytesAre ==
  ASSUME CopyTypeOK, CountInv, ~AtEnd(src, spos), ~AtEnd(dst, dpos),
         NEW k \in Nat, NEW n \in Nat,
         From.fd => taken[spos.idx] = spos.off + k
  PROVE  /\ Bytes(k, n) \in Seq(Bytewise) /\ Len(Bytes(k, n)) = n
         /\ \A j \in 1 .. n : Bytes(k, n)[j] = <<spos.idx, spos.off + k + j>>
         /\ Left(k) = From.has - (spos.off + k)
<1> DEFINE at == IF From.fd /\ ~From.seek THEN taken[spos.idx] ELSE spos.off + k
<1>1. spos.idx \in Nat /\ spos.off \in Nat
  BY CurrentFacts
<1>2. at = spos.off + k
  OBVIOUS
<1>3. Bytes(k, n) = [i \in 1 .. n |-> <<spos.idx, spos.off + k + i>>]
  BY <1>2 DEF Bytes
<1>4. \A i \in 1 .. n : <<spos.idx, spos.off + k + i>> \in Bytewise
  BY <1>1 DEF Bytewise
<1>5. Left(k) = From.has - (spos.off + k)
  BY <1>2 DEF Left
<1> QED
  BY <1>3, <1>4, <1>5

LEMMA Takes ==
  ASSUME CopyTypeOK, CountInv, ~AtEnd(src, spos), ~AtEnd(dst, dpos),
         NEW n \in Nat, taken[spos.idx] + n <= From.has, Take(n)
  PROVE  /\ taken' \in [1 .. Len(src) -> Nat]
         /\ \A i \in 1 .. Len(src) : taken'[i] <= src[i].has
         /\ \A i \in 1 .. Len(src) : i # spos.idx => taken'[i] = taken[i]
         /\ taken'[spos.idx] = taken[spos.idx] + n
<1>1. spos.idx \in 1 .. Len(src) /\ taken[spos.idx] \in Nat
  BY CurrentFacts
<1>2. /\ taken \in [1 .. Len(src) -> Nat] /\ \A i \in 1 .. Len(src) : taken[i] <= src[i].has
  BY DEF CopyTypeOK
<1>3. taken' = [taken EXCEPT ![spos.idx] = taken[spos.idx] + n]
  BY DEF Take
<1>4. taken[spos.idx] + n \in Nat
  BY <1>1
<1>5. /\ taken' \in [1 .. Len(src) -> Nat]
      /\ \A i \in 1 .. Len(src) : i # spos.idx => taken'[i] = taken[i]
      /\ taken'[spos.idx] = taken[spos.idx] + n
  BY <1>1, <1>2, <1>3, <1>4
<1>6. ASSUME NEW i \in 1 .. Len(src) PROVE taken'[i] <= src[i].has
  <2>1. CASE i = spos.idx
    BY <2>1, <1>5 DEF From
  <2>2. CASE i # spos.idx
    BY <2>2, <1>2, <1>5
  <2> QED
    BY <2>1, <2>2
<1> QED
  BY <1>5, <1>6
-------------------------------------------------------------------------------
(* Inside the loop and inside a call.                                      *)
LEMMA GoingFacts ==
  ASSUME CopyInv, cpc # "done", ~AtEnd(src, spos), ~AtEnd(dst, dpos)
  PROVE  /\ CopyTypeOK /\ CountInv /\ CallInv /\ TakenInv
         /\ Written(out, moved + drained) /\ Filled(out) /\ Pointed(out, moved + drained)
         /\ moved \in Nat /\ drained \in Nat /\ Len(tmp) \in Nat /\ drained <= Len(tmp)
         /\ tmp \in Seq(Bytewise) /\ Len(tmp) <= Bounce /\ (tmp = <<>> <=> Len(tmp) = 0)
         /\ taken \in [1 .. Len(src) -> Nat] /\ \A i \in 1 .. Len(src) : taken[i] <= src[i].has
         /\ From.fd => taken[spos.idx] = spos.off + (moved + Len(tmp))
<1>1. /\ CopyTypeOK /\ CountInv /\ CallInv /\ TakenInv
      /\ Written(out, moved + drained) /\ Filled(out) /\ Pointed(out, moved + drained)
  BY DEF CopyInv
<1>2. /\ moved \in Nat /\ drained \in 0 .. Len(tmp) /\ tmp \in Seq(Bytewise)
      /\ Len(tmp) <= Bounce
      /\ taken \in [1 .. Len(src) -> Nat] /\ \A i \in 1 .. Len(src) : taken[i] <= src[i].has
  BY <1>1 DEF CopyTypeOK, Bytewise
<1>3. Len(tmp) \in Nat /\ (tmp = <<>> <=> Len(tmp) = 0)
  BY <1>2
<1>4. spos.idx \in 1 .. Len(src) /\ spos.off \in Nat
  BY <1>1, CurrentFacts
<1>5. From.fd => taken[spos.idx] = spos.off + moved + Len(tmp)
  BY <1>1, <1>4, Zenon DEF TakenInv, From
<1>6. From.fd => taken[spos.idx] = spos.off + (moved + Len(tmp))
  <2>1. spos.off + moved + Len(tmp) = spos.off + (moved + Len(tmp))
    BY <1>2, <1>3, <1>4
  <2> QED
    BY <2>1, <1>5
<1>7. drained \in Nat /\ drained <= Len(tmp)
  BY <1>2, <1>3
<1> QED
  BY <1>1, <1>2, <1>3, <1>6, <1>7

LEMMA NextFacts ==
  ASSUME CopyInv, cpc = "next"
  PROVE  moved = 0 /\ drained = 0 /\ tmp = <<>> /\ Len(tmp) = 0
  BY DEF CopyInv, CallInv

LEMMA CallFacts ==
  ASSUME CopyInv, cpc \in {"write", "read", "fill", "drain"}
  PROVE  /\ cpc # "done" /\ ~AtEnd(src, spos) /\ ~AtEnd(dst, dpos) /\ moved < OneLen
         /\ cpc # "drain" => drained = 0
         /\ cpc \in {"write", "read"} => tmp = <<>>
  BY DEF CopyInv, CallInv

LEMMA EndsKeeps == CopyInv /\ CopyEnds => CopyInv'
<1> SUFFICES ASSUME CopyInv, CopyEnds PROVE CopyInv'
  OBVIOUS
<1>1. /\ cpc = "next" /\ cpc' = "done" /\ res' = copied
      /\ src' = src /\ dst' = dst /\ earlier' = earlier /\ spos' = spos /\ dpos' = dpos
      /\ copied' = copied /\ taken' = taken /\ out' = out
      /\ moved' = moved /\ tmp' = tmp /\ drained' = drained
  BY DEF CopyEnds, vectors
<1>2. moved = 0 /\ drained = 0 /\ tmp = <<>>
  BY <1>1, NextFacts
<1>3. CountInv' /\ Written(out, moved + drained)' /\ Filled(out)' /\ TakenInv'
  <2>1. CountInv /\ Written(out, moved + drained) /\ Filled(out) /\ TakenInv
    BY <1>1 DEF CopyInv
  <2> QED
    BY <2>1, <1>1, Zenon DEF CountInv, Written, Filled, TakenInv, From, To
<1>4. CallInv'
  BY <1>1, <1>2 DEF CallInv
<1>5. copied' \in Nat /\ res' \in -1 .. copied'
  BY <1>1 DEF CopyInv, CopyTypeOK
<1>6. CopyTypeOK'
  <2>1. cpc' \in {"next", "write", "read", "fill", "drain", "done"}
    BY <1>1
  <2> QED
    BY <2>1, <1>1, <1>5, Zenon DEF CopyInv, CopyTypeOK
<1> QED
  BY <1>1, <1>3, <1>4, <1>6 DEF CopyInv

LEMMA NoneKeeps == CopyInv /\ CopyNone => CopyInv'
<1> SUFFICES ASSUME CopyInv, CopyNone PROVE CopyInv'
  OBVIOUS
<1>1. /\ cpc = "next" /\ cpc # "done" /\ ~AtEnd(src, spos) /\ ~AtEnd(dst, dpos) /\ OneLen = 0
      /\ Returned(0) /\ UNCHANGED vectors /\ taken' = taken /\ out' = out
  BY DEF CopyNone
<1>2. moved = 0 /\ drained = 0 /\ Len(tmp) = 0
  BY <1>1, NextFacts
<1>3. moved + drained = 0 /\ moved + Len(tmp) = 0
  BY <1>2
<1>4. /\ Written(out', 0) /\ Filled(out') /\ Pointed(out', 0)
      /\ taken' \in [1 .. Len(src) -> Nat] /\ \A i \in 1 .. Len(src) : taken'[i] <= src[i].has
      /\ From.fd => taken'[spos.idx] = spos.off + 0
      /\ \A i \in 1 .. Len(src) : i > spos.idx => taken'[i] = taken[i]
  BY <1>1, <1>3, GoingFacts
<1>5. 0 \in Nat /\ 0 <= OneLen
  BY <1>1
<1> QED
  BY <1>1, <1>4, <1>5, ReturnedKeeps

LEMMA MemoryKeeps == CopyInv /\ CopyMemory => CopyInv'
<1> SUFFICES ASSUME CopyInv, CopyMemory PROVE CopyInv'
  OBVIOUS
<1>1. /\ cpc = "next" /\ cpc # "done" /\ ~AtEnd(src, spos) /\ ~AtEnd(dst, dpos)
      /\ ~From.fd /\ Put(0, Bytes(0, OneLen))
      /\ Returned(OneLen) /\ UNCHANGED vectors /\ taken' = taken
  BY DEF CopyMemory
<1>2. moved = 0 /\ drained = 0
  BY <1>1, NextFacts
<1>3. moved + drained = 0
  BY <1>2
<1>4. /\ CopyTypeOK /\ CountInv /\ Written(out, 0) /\ Filled(out) /\ Pointed(out, 0)
      /\ taken' \in [1 .. Len(src) -> Nat] /\ \A i \in 1 .. Len(src) : taken'[i] <= src[i].has
      /\ \A i \in 1 .. Len(src) : i > spos.idx => taken'[i] = taken[i]
  BY <1>1, <1>3, GoingFacts
<1>5. OneLen \in Nat /\ 0 \in Nat /\ 0 + OneLen = OneLen /\ 0 + OneLen <= OneLen /\ OneLen <= OneLen
  <2>1. OneLen \in Nat
    BY <1>1, <1>4, CurrentFacts
  <2> QED
    BY <2>1
<1> DEFINE b == Bytes(0, OneLen)
<1>6. /\ b \in Seq(Bytewise) /\ Len(b) = OneLen
      /\ \A j \in 1 .. OneLen : b[j] = <<spos.idx, spos.off + 0 + j>>
  BY <1>1, <1>4, <1>5, BytesAre
<1>7. Put(0, b)
  BY <1>1
<1> HIDE DEF b
<1>8. Written(out', 0 + OneLen) /\ Filled(out') /\ Pointed(out', 0 + OneLen)
  BY <1>1, <1>4, <1>5, <1>6, <1>7, PutWrites
<1>9. Written(out', OneLen) /\ Filled(out') /\ Pointed(out', OneLen)
  BY <1>5, <1>8
<1> QED
  BY <1>1, <1>4, <1>5, <1>9, ReturnedKeeps

LEMMA CallsKeeps == CopyInv /\ CopyCalls => CopyInv'
<1> SUFFICES ASSUME CopyInv, CopyCalls PROVE CopyInv'
  OBVIOUS
<1>1. /\ cpc = "next" /\ cpc # "done" /\ ~AtEnd(src, spos) /\ ~AtEnd(dst, dpos)
      /\ OneLen > 0 /\ (From.fd \/ To.fd)
      /\ cpc' = IF ~From.fd THEN "write" ELSE IF ~To.fd THEN "read" ELSE "fill"
      /\ UNCHANGED vectors /\ UNCHANGED positions
      /\ taken' = taken /\ out' = out /\ moved' = moved /\ tmp' = tmp /\ drained' = drained
  BY DEF CopyCalls
<1>2. moved = 0 /\ drained = 0 /\ tmp = <<>> /\ Len(tmp) = 0
  BY <1>1, NextFacts
<1>3. /\ src' = src /\ dst' = dst /\ spos' = spos /\ dpos' = dpos
  BY <1>1 DEF vectors, positions
<1>4. /\ CopyTypeOK /\ CountInv /\ TakenInv /\ OneLen \in Nat
      /\ Written(out, moved + drained) /\ Filled(out) /\ Pointed(out, moved + drained)
      /\ taken \in [1 .. Len(src) -> Nat] /\ \A i \in 1 .. Len(src) : taken[i] <= src[i].has
      /\ tmp \in Seq(Nat \X Nat) /\ Len(tmp) <= Bounce /\ moved \in Nat /\ drained \in 0 .. Len(tmp)
  BY <1>1, GoingFacts, CurrentFacts DEF CopyTypeOK
<1>5. TakenInv'
  BY <1>1, <1>3, <1>4, Zenon DEF TakenInv
<1>6. /\ From' = From /\ To' = To /\ OneLen' = OneLen /\ ThisLen' = ThisLen
      /\ AtEnd(src, spos)' = AtEnd(src, spos) /\ AtEnd(dst, dpos)' = AtEnd(dst, dpos)
  BY <1>1, <1>3, Zenon DEF From, To, OneLen, ThisLen, AtEnd
<1>7. ThisLen > 0 /\ 0 < OneLen /\ ThisLen \in Nat
  BY <1>1, <1>2, <1>4, BufAssumption DEF ThisLen
<1>8. cpc' \in {"write", "read", "fill"} /\ (cpc' = "write" => ~From.fd)
      /\ (cpc' = "read" => From.fd) /\ (cpc' = "fill" => From.fd /\ To.fd)
  BY <1>1
<1>9. CallInv'
  <2>1. moved' = 0 /\ tmp' = <<>> /\ drained' = 0 /\ Len(tmp') = 0 /\ moved' < OneLen'
        /\ Len(tmp') <= ThisLen' /\ Len(tmp') < ThisLen'
    BY <1>1, <1>2, <1>6, <1>7
  <2> QED
    BY <2>1, <1>1, <1>6, <1>8 DEF CallInv
<1> DEFINE k == moved' + drained'
<1>10. Written(out', k) /\ Filled(out') /\ Pointed(out', k) /\ k = moved' + drained'
  BY <1>1, <1>4
<1> HIDE DEF k
<1>11. /\ cpc' \in {"write", "read", "fill", "drain"}
       /\ taken' \in [1 .. Len(src) -> Nat] /\ \A i \in 1 .. Len(src) : taken'[i] <= src[i].has
       /\ tmp' \in Seq(Nat \X Nat) /\ Len(tmp') <= Bounce
       /\ moved' \in Nat /\ drained' \in 0 .. Len(tmp')
  BY <1>1, <1>4, <1>8
<1> QED
  BY <1>1, <1>5, <1>9, <1>10, <1>11, GoesOn

(* A call that moved nothing more ends fuse_buf_copy_one.                  *)
LEMMA ShortKeeps ==
  ASSUME CopyInv, cpc \in {"write", "read", "fill", "drain"}, drained = 0,
         tmp = <<>> \/ To.fd, NEW n \in Int,
         Returned(IF n < 0 /\ moved = 0 THEN -1 ELSE moved),
         UNCHANGED vectors, out' = out, taken' = taken
  PROVE  CopyInv'
<1>1. cpc # "done" /\ ~AtEnd(src, spos) /\ ~AtEnd(dst, dpos) /\ moved < OneLen
  BY CallFacts
<1>2. CASE n < 0 /\ moved = 0
  <2>1. Returned(-1)
    BY <1>2, Zenon
  <2> QED
    BY <2>1, <1>1, <1>2, FailedKeeps
<1>3. CASE ~(n < 0 /\ moved = 0)
  <2>1. Returned(moved)
    BY <1>3, Zenon
  <2>2. /\ CopyTypeOK /\ CountInv /\ moved \in Nat
        /\ Written(out, moved + drained) /\ Filled(out) /\ Pointed(out, moved + drained)
        /\ taken \in [1 .. Len(src) -> Nat] /\ \A i \in 1 .. Len(src) : taken[i] <= src[i].has
        /\ From.fd => taken[spos.idx] = spos.off + (moved + Len(tmp))
    BY <1>1, GoingFacts
  <2>3. OneLen \in Nat
    BY <1>1, <2>2, CurrentFacts
  <2>4. moved + drained = moved /\ moved <= OneLen /\ moved # OneLen
    BY <1>1, <2>2, <2>3
  <2>5. From.fd /\ (moved = OneLen \/ ~To.fd) => taken'[spos.idx] = spos.off + moved
    <3>1. ASSUME From.fd, moved = OneLen \/ ~To.fd PROVE taken'[spos.idx] = spos.off + moved
      <4>1. tmp = <<>>
        BY <3>1, <2>4
      <4>2. Len(tmp) = 0
        BY <4>1
      <4>3. moved + Len(tmp) = moved
        BY <4>2, <2>2
      <4> QED
        BY <3>1, <4>3, <2>2
    <3> QED
      BY <3>1
  <2>6. /\ Written(out', moved) /\ Filled(out') /\ Pointed(out', moved)
        /\ taken' \in [1 .. Len(src) -> Nat] /\ \A i \in 1 .. Len(src) : taken'[i] <= src[i].has
        /\ \A i \in 1 .. Len(src) : i > spos.idx => taken'[i] = taken[i]
    BY <2>2, <2>4
  <2> QED
    BY <1>1, <2>1, <2>2, <2>4, <2>5, <2>6, ReturnedKeeps
<1> QED
  BY <1>2, <1>3
(* fuse_buf_write and fuse_buf_read move n bytes, and return or go on.     *)
LEMMA MoveKeeps ==
  ASSUME CopyInv, cpc \in {"write", "read"}, NEW n \in Nat, n > 0, n <= OneLen - moved,
         Put(moved, Bytes(moved, n)), UNCHANGED vectors,
         taken' \in [1 .. Len(src) -> Nat], \A i \in 1 .. Len(src) : taken'[i] <= src[i].has,
         \A i \in 1 .. Len(src) : i > spos.idx => taken'[i] = taken[i],
         From.fd => taken'[spos.idx] = spos.off + (moved + n),
         \/ Returned(moved + n)
         \/ moved + n # OneLen /\ moved' = moved + n /\ UNCHANGED <<positions, cpc, tmp, drained>>
  PROVE  CopyInv'
<1>1. /\ cpc # "done" /\ ~AtEnd(src, spos) /\ ~AtEnd(dst, dpos) /\ moved < OneLen
      /\ drained = 0 /\ tmp = <<>>
  BY CallFacts
<1>2. /\ CopyTypeOK /\ CountInv /\ CallInv /\ TakenInv /\ moved \in Nat
      /\ Written(out, moved + drained) /\ Filled(out) /\ Pointed(out, moved + drained)
      /\ From.fd => taken[spos.idx] = spos.off + (moved + Len(tmp))
      /\ tmp \in Seq(Bytewise) /\ Len(tmp) <= Bounce
  BY <1>1, GoingFacts
<1>3. OneLen \in Nat /\ spos.off \in Nat
  BY <1>1, <1>2, CurrentFacts
<1>4. Len(tmp) = 0 /\ moved + Len(tmp) = moved /\ moved + drained = moved
  BY <1>1, <1>2
<1>5. moved + n <= OneLen /\ moved + n \in Nat
  BY <1>2, <1>3
<1> DEFINE b == Bytes(moved, n)
<1>6. /\ b \in Seq(Bytewise) /\ Len(b) = n
      /\ \A j \in 1 .. n : b[j] = <<spos.idx, spos.off + moved + j>>
  BY <1>1, <1>2, <1>4, BytesAre
<1>7. Put(moved, b) /\ Written(out, moved) /\ Pointed(out, moved)
  BY <1>2, <1>4
<1> HIDE DEF b
<1>8. Written(out', moved + n) /\ Filled(out') /\ Pointed(out', moved + n)
  BY <1>1, <1>2, <1>5, <1>6, <1>7, PutWrites
<1>9. CASE Returned(moved + n)
  <2> DEFINE r == moved + n
  <2>1. /\ r \in Nat /\ r <= OneLen /\ Returned(r)
        /\ Written(out', r) /\ Pointed(out', r)
        /\ From.fd /\ (r = OneLen \/ ~To.fd) => taken'[spos.idx] = spos.off + r
    BY <1>5, <1>8, <1>9
  <2> HIDE DEF r
  <2> QED
    BY <1>1, <1>8, <2>1, ReturnedKeeps
<1>10. CASE moved + n # OneLen /\ moved' = moved + n /\ UNCHANGED <<positions, cpc, tmp, drained>>
  <2>1. /\ cpc' = cpc /\ tmp' = <<>> /\ drained' = 0 /\ UNCHANGED positions
        /\ spos' = spos /\ dpos' = dpos /\ src' = src /\ dst' = dst
    BY <1>1, <1>10 DEF positions, vectors
  <2>2. /\ From' = From /\ To' = To /\ OneLen' = OneLen
        /\ AtEnd(src, spos)' = AtEnd(src, spos) /\ AtEnd(dst, dpos)' = AtEnd(dst, dpos)
    BY <2>1, Zenon DEF From, To, OneLen, AtEnd
  <2>3. moved' < OneLen' /\ moved' \in Nat /\ moved' + drained' = moved + n
    BY <1>3, <1>5, <1>10, <2>1, <2>2
  <2>4. (cpc = "write" => ~From.fd) /\ (cpc = "read" => From.fd)
    BY <1>2 DEF CallInv
  <2>5. CallInv'
    BY <2>1, <2>2, <2>3, <2>4, <1>1 DEF CallInv
  <2>6. TakenInv'
    <3>1. Len(tmp') = 0
      BY <2>1
    <3>2. spos.off + moved' + Len(tmp') = spos.off + (moved + n)
      BY <3>1, <2>3, <1>2, <1>3, <1>10
    <3>3. ASSUME NEW i \in 1 .. Len(src), src[i].fd
          PROVE  /\ i = spos.idx => taken'[i] = spos.off + moved' + Len(tmp')
                 /\ i > spos.idx => taken'[i] = 0
      <4>1. i > spos.idx => taken[i] = 0
        BY <3>3, <1>2 DEF TakenInv
      <4> QED
        BY <3>2, <3>3, <4>1 DEF From
    <3> QED
      BY <2>1, <3>3 DEF TakenInv
  <2> DEFINE k == moved' + drained'
  <2>7. k = moved' + drained' /\ Written(out', k) /\ Pointed(out', k)
    BY <2>3, <1>8
  <2> HIDE DEF k
  <2>8. /\ tmp' \in Seq(Nat \X Nat) /\ Len(tmp') <= Bounce /\ drained' \in 0 .. Len(tmp')
        /\ cpc' \in {"write", "read", "fill", "drain"}
    BY <2>1, BufAssumption
  <2> QED
    BY <1>1, <1>8, <2>1, <2>3, <2>5, <2>6, <2>7, <2>8, GoesOn
<1> QED
  BY <1>9, <1>10

LEMMA WriteKeeps == ASSUME CopyInv, NEW n \in Int, WriteCall(n) PROVE CopyInv'
<1>1. cpc = "write" /\ n <= OneLen - moved /\ UNCHANGED vectors /\ taken' = taken
  BY DEF WriteCall
<1>2. /\ cpc # "done" /\ ~AtEnd(src, spos) /\ ~AtEnd(dst, dpos)
      /\ drained = 0 /\ tmp = <<>>
  BY <1>1, CallFacts
<1>3. CASE n <= 0
  <2>1. Returned(IF n < 0 /\ moved = 0 THEN -1 ELSE moved) /\ out' = out
    BY <1>3, Zenon DEF WriteCall
  <2> QED
    BY <2>1, <1>1, <1>2, ShortKeeps
<1>4. CASE ~(n <= 0)
  <2>1. /\ Put(moved, Bytes(moved, n))
        /\ \/ Returned(moved + n)
           \/ moved + n # OneLen /\ moved' = moved + n /\ UNCHANGED <<positions, cpc, tmp, drained>>
    BY <1>4, Zenon DEF WriteCall
  <2>2. ~From.fd
    BY <1>1 DEF CopyInv, CallInv
  <2>3. /\ taken' \in [1 .. Len(src) -> Nat] /\ \A i \in 1 .. Len(src) : taken'[i] <= src[i].has
        /\ \A i \in 1 .. Len(src) : i > spos.idx => taken'[i] = taken[i]
    BY <1>1, <1>2, GoingFacts
  <2>4. n \in Nat /\ n > 0
    BY <1>4
  <2> QED
    BY <1>1, <2>1, <2>2, <2>3, <2>4, MoveKeeps
<1> QED
  BY <1>3, <1>4

LEMMA ReadKeeps == ASSUME CopyInv, NEW n \in Int, ReadCall(n) PROVE CopyInv'
<1>1. cpc = "read" /\ n <= OneLen - moved /\ n <= Left(moved) /\ UNCHANGED vectors
  BY DEF ReadCall
<1>2. /\ cpc # "done" /\ ~AtEnd(src, spos) /\ ~AtEnd(dst, dpos)
      /\ drained = 0 /\ tmp = <<>>
  BY <1>1, CallFacts
<1>3. CASE n <= 0
  <2>1. Returned(IF n < 0 /\ moved = 0 THEN -1 ELSE moved) /\ out' = out /\ taken' = taken
    BY <1>3, Zenon DEF ReadCall
  <2> QED
    BY <2>1, <1>1, <1>2, ShortKeeps
<1>4. CASE ~(n <= 0)
  <2>1. /\ Put(moved, Bytes(moved, n)) /\ Take(n)
        /\ \/ Returned(moved + n)
           \/ moved + n # OneLen /\ moved' = moved + n /\ UNCHANGED <<positions, cpc, tmp, drained>>
    BY <1>4, Zenon DEF ReadCall
  <2>2. n \in Nat /\ n > 0
    BY <1>4
  <2>3. /\ CopyTypeOK /\ CountInv /\ CallInv /\ moved \in Nat
        /\ From.fd => taken[spos.idx] = spos.off + (moved + Len(tmp))
    BY <1>2, GoingFacts
  <2>4. From.fd /\ moved + Len(tmp) = moved
    BY <1>1, <1>2, <2>3 DEF CallInv
  <2>5. taken[spos.idx] = spos.off + moved
    BY <2>3, <2>4
  <2>6. Left(moved) = From.has - (spos.off + moved)
    BY <1>2, <2>2, <2>3, <2>5, BytesAre
  <2>7. spos.off \in Nat /\ From.has \in Nat /\ taken[spos.idx] \in Nat
    BY <1>2, <2>3, CurrentFacts
  <2>8. taken[spos.idx] + n <= From.has /\ taken[spos.idx] + n = spos.off + (moved + n)
    <3> DEFINE e == spos.off
               h == From.has
    <3>1. e \in Nat /\ h \in Nat /\ taken[spos.idx] = e + moved /\ n <= h - (e + moved)
      BY <1>1, <2>5, <2>6, <2>7
    <3> HIDE DEF e, h
    <3>2. taken[spos.idx] + n <= h /\ taken[spos.idx] + n = e + (moved + n)
      BY <3>1, <2>2, <2>3
    <3> QED
      BY <3>2 DEF e, h
  <2>9. /\ taken' \in [1 .. Len(src) -> Nat] /\ \A i \in 1 .. Len(src) : taken'[i] <= src[i].has
        /\ \A i \in 1 .. Len(src) : i # spos.idx => taken'[i] = taken[i]
        /\ taken'[spos.idx] = taken[spos.idx] + n
    BY <1>2, <2>1, <2>2, <2>3, <2>8, Takes
  <2>10. \A i \in 1 .. Len(src) : i > spos.idx => taken'[i] = taken[i]
    <3>1. spos.idx \in 1 .. Len(src)
      BY <1>2, <2>3, CurrentFacts
    <3>2. \A i \in 1 .. Len(src) : i > spos.idx => i # spos.idx
      BY <3>1
    <3> QED
      BY <3>2, <2>9
  <2>11. From.fd => taken'[spos.idx] = spos.off + (moved + n)
    BY <2>8, <2>9
  <2> QED
    BY <1>1, <2>1, <2>2, <2>9, <2>10, <2>11, MoveKeeps
<1> QED
  BY <1>3, <1>4
(* The intermediate buffer.                                                *)
LEMMA ThisLenFacts ==
  ASSUME OneLen \in Nat, moved \in Nat, moved < OneLen
  PROVE  ThisLen \in Nat /\ ThisLen > 0 /\ ThisLen <= Bounce /\ moved + ThisLen <= OneLen
<1> DEFINE l == OneLen
<1>1. l \in Nat /\ moved < l /\ Bounce \in Nat /\ Bounce > 0
      /\ ThisLen = IF Bounce < l - moved THEN Bounce ELSE l - moved
  BY BufAssumption DEF ThisLen
<1> HIDE DEF l
<1>2. ThisLen \in Nat /\ ThisLen > 0 /\ ThisLen <= Bounce /\ moved + ThisLen <= l
  BY <1>1
<1> QED
  BY <1>2 DEF l

LEMMA BounceFacts ==
  ASSUME CopyInv, cpc \in {"fill", "drain"}
  PROVE  /\ cpc # "done" /\ ~AtEnd(src, spos) /\ ~AtEnd(dst, dpos) /\ moved < OneLen
         /\ From.fd /\ To.fd /\ Len(tmp) <= ThisLen
         /\ \A i \in 1 .. Len(tmp) : tmp[i] = <<spos.idx, spos.off + moved + i>>
         /\ cpc = "fill" => drained = 0 /\ Len(tmp) < ThisLen
         /\ cpc = "drain" => drained < Len(tmp)
         /\ ThisLen \in Nat /\ ThisLen > 0 /\ ThisLen <= Bounce /\ moved + ThisLen <= OneLen
         /\ OneLen \in Nat /\ spos.off \in Nat /\ spos.idx \in 1 .. Len(src)
<1>1. /\ cpc # "done" /\ ~AtEnd(src, spos) /\ ~AtEnd(dst, dpos) /\ moved < OneLen
      /\ From.fd /\ To.fd /\ Len(tmp) <= ThisLen
      /\ \A i \in 1 .. Len(tmp) : tmp[i] = <<spos.idx, spos.off + moved + i>>
      /\ cpc = "fill" => drained = 0 /\ Len(tmp) < ThisLen
      /\ cpc = "drain" => drained < Len(tmp)
  BY DEF CopyInv, CallInv
<1>2. CopyTypeOK /\ CountInv /\ moved \in Nat
  BY <1>1, GoingFacts
<1>3. OneLen \in Nat /\ spos.off \in Nat /\ spos.idx \in 1 .. Len(src)
  BY <1>1, <1>2, CurrentFacts
<1>4. ThisLen \in Nat /\ ThisLen > 0 /\ ThisLen <= Bounce /\ moved + ThisLen <= OneLen
  BY <1>1, <1>2, <1>3, ThisLenFacts
<1> QED
  BY <1>1, <1>3, <1>4

(* A step between the two descriptors that does not return.                *)
LEMMA BounceGoesOn ==
  ASSUME CopyInv, cpc \in {"fill", "drain"}, cpc' \in {"fill", "drain"},
         UNCHANGED vectors, UNCHANGED positions,
         NEW k, k = moved' + drained', Written(out', k), Filled(out'), Pointed(out', k),
         moved' \in Nat, moved' < OneLen, tmp' \in Seq(Bytewise), drained' \in Nat,
         moved' = moved \/ tmp' = <<>>, Len(tmp') <= ThisLen,
         \A i \in 1 .. Len(tmp') : tmp'[i] = <<spos.idx, spos.off + moved' + i>>,
         cpc' = "fill" => drained' = 0 /\ (tmp' = <<>> \/ Len(tmp') < ThisLen),
         cpc' = "drain" => moved' = moved /\ drained' < Len(tmp'),
         taken' \in [1 .. Len(src) -> Nat], \A i \in 1 .. Len(src) : taken'[i] <= src[i].has,
         \A i \in 1 .. Len(src) : i # spos.idx => taken'[i] = taken[i],
         taken'[spos.idx] = spos.off + moved' + Len(tmp')
  PROVE  CopyInv'
<1>1. /\ cpc # "done" /\ ~AtEnd(src, spos) /\ ~AtEnd(dst, dpos)
      /\ From.fd /\ To.fd /\ OneLen \in Nat /\ spos.idx \in 1 .. Len(src)
      /\ ThisLen \in Nat /\ ThisLen <= Bounce /\ Bounce \in Nat
  BY BounceFacts, BufAssumption
<1>2. /\ spos' = spos /\ dpos' = dpos /\ src' = src /\ dst' = dst
  BY DEF positions, vectors
<1>3. /\ From' = From /\ To' = To /\ OneLen' = OneLen
      /\ AtEnd(src, spos)' = AtEnd(src, spos) /\ AtEnd(dst, dpos)' = AtEnd(dst, dpos)
  BY <1>2, Zenon DEF From, To, OneLen, AtEnd
<1>4. /\ ThisLen' = IF Bounce < OneLen - moved' THEN Bounce ELSE OneLen - moved'
      /\ ThisLen = IF Bounce < OneLen - moved THEN Bounce ELSE OneLen - moved
  BY <1>3, Zenon DEF ThisLen
<1>5. ThisLen' > 0 /\ ThisLen' \in Int
  <2> DEFINE l == OneLen
             t == ThisLen'
             g == moved'
  <2>1. l \in Nat /\ g \in Nat /\ g < l /\ Bounce > 0 /\ Bounce \in Nat
        /\ t = IF Bounce < l - g THEN Bounce ELSE l - g
    BY <1>1, <1>4, BufAssumption
  <2> HIDE DEF l, t, g
  <2>2. t > 0 /\ t \in Int
    BY <2>1
  <2> QED
    BY <2>2 DEF t
<1>6. moved' = moved => ThisLen' = ThisLen
  BY <1>4, Zenon
<1>7. Len(tmp') \in Nat /\ (tmp' = <<>> => Len(tmp') = 0) /\ ThisLen' \in Int
  BY <1>5
<1>8. Len(tmp') <= ThisLen' /\ (cpc' = "fill" => Len(tmp') < ThisLen')
  <2>1. CASE tmp' = <<>>
    BY <2>1, <1>5, <1>7
  <2>2. CASE tmp' # <<>>
    BY <2>2, <1>6
  <2> QED
    BY <2>1, <2>2
<1>9. CallInv'
  <2>1. cpc' # "drain" => drained' = 0
    OBVIOUS
  <2> QED
    BY <2>1, <1>1, <1>2, <1>3, <1>8 DEF CallInv
<1>10. TakenInv'
  <2>1. ASSUME NEW i \in 1 .. Len(src), src[i].fd
        PROVE  /\ i = spos.idx => taken'[i] = spos.off + moved' + Len(tmp')
               /\ i > spos.idx => taken'[i] = 0
    <3>1. TakenInv
      BY <1>1, GoingFacts
    <3>2. i > spos.idx => taken[i] = 0
      BY <3>1, <2>1 DEF TakenInv
    <3>3. i > spos.idx => i # spos.idx
      BY <1>1
    <3> QED
      BY <3>2, <3>3
  <2> QED
    BY <2>1, <1>2 DEF TakenInv
<1>11. /\ tmp' \in Seq(Nat \X Nat) /\ Len(tmp') <= Bounce /\ drained' \in 0 .. Len(tmp')
       /\ cpc' \in {"write", "read", "fill", "drain"}
  <2>1. Len(tmp') <= Bounce
    BY <1>1, <1>7
  <2>2. drained' \in 0 .. Len(tmp')
    BY <1>7
  <2> QED
    BY <2>1, <2>2 DEF Bytewise
<1> QED
  BY <1>1, <1>9, <1>10, <1>11, GoesOn

LEMMA FillKeeps == ASSUME CopyInv, NEW n \in Int, FillCall(n) PROVE CopyInv'
<1> DEFINE l == Len(tmp)
           k == moved + l
<1>1. /\ cpc = "fill" /\ n <= ThisLen - l /\ n <= Left(k)
      /\ UNCHANGED vectors /\ out' = out
  BY DEF FillCall
<1>2. /\ cpc # "done" /\ ~AtEnd(src, spos) /\ ~AtEnd(dst, dpos) /\ moved < OneLen
      /\ From.fd /\ To.fd /\ l <= ThisLen /\ drained = 0 /\ l < ThisLen
      /\ \A i \in 1 .. l : tmp[i] = <<spos.idx, spos.off + moved + i>>
      /\ ThisLen \in Nat /\ OneLen \in Nat /\ spos.off \in Nat
  BY <1>1, BounceFacts
<1>3. /\ CopyTypeOK /\ CountInv /\ moved \in Nat /\ l \in Nat /\ tmp \in Seq(Bytewise)
      /\ (tmp = <<>> <=> l = 0)
      /\ Written(out, moved + drained) /\ Filled(out) /\ Pointed(out, moved + drained)
      /\ taken \in [1 .. Len(src) -> Nat] /\ \A i \in 1 .. Len(src) : taken[i] <= src[i].has
      /\ taken[spos.idx] = spos.off + (moved + l)
  BY <1>2, GoingFacts
<1>4. CASE n <= 0 /\ tmp = <<>>
  <2>1. Returned(IF n < 0 /\ moved = 0 THEN -1 ELSE moved) /\ taken' = taken
    BY <1>4, Zenon DEF FillCall
  <2> QED
    BY <2>1, <1>1, <1>2, <1>4, ShortKeeps
<1>5. CASE n <= 0 /\ tmp # <<>>
  <2>1. /\ cpc' = "drain" /\ UNCHANGED positions /\ taken' = taken /\ moved' = moved
        /\ tmp' = tmp /\ drained' = drained
    BY <1>5, Zenon DEF FillCall
  <2> DEFINE h == moved' + drained'
  <2>2. h = moved' + drained' /\ Written(out', h) /\ Filled(out') /\ Pointed(out', h)
    BY <1>1, <1>3, <2>1
  <2> HIDE DEF h
  <2>3. drained' < Len(tmp') /\ drained' \in Nat
    BY <1>2, <1>3, <1>5, <2>1
  <2>4. taken'[spos.idx] = spos.off + moved' + Len(tmp')
    BY <1>2, <1>3, <2>1
  <2> QED
    BY <1>1, <1>2, <1>3, <2>1, <2>2, <2>3, <2>4, BounceGoesOn
<1>6. CASE ~(n <= 0)
  <2>1. /\ tmp' = tmp \o Bytes(k, n) /\ Take(n)
        /\ cpc' = IF ~From.retry \/ l + n = ThisLen THEN "drain" ELSE "fill"
        /\ UNCHANGED positions /\ moved' = moved /\ drained' = drained
    BY <1>6, Zenon DEF FillCall
  <2>2. n \in Nat /\ n > 0 /\ k \in Nat
    BY <1>3, <1>6
  <2> DEFINE b == Bytes(k, n)
  <2>3. /\ b \in Seq(Bytewise) /\ Len(b) = n
        /\ \A j \in 1 .. n : b[j] = <<spos.idx, spos.off + k + j>>
        /\ Left(k) = From.has - (spos.off + k)
    BY <1>2, <1>3, <2>2, BytesAre
  <2>4. tmp' = tmp \o b
    BY <2>1
  <2> HIDE DEF b
  <2>5. /\ tmp' \in Seq(Bytewise) /\ Len(tmp') = l + n
        /\ \A i \in 1 .. l : tmp'[i] = tmp[i]
        /\ \A i \in l + 1 .. l + n : tmp'[i] = b[i - l] /\ i - l \in 1 .. n
    <3>0. tmp \in Seq(Bytewise) /\ b \in Seq(Bytewise)
      BY <1>3, <2>3
    <3>1. /\ tmp \o b \in Seq(Bytewise) /\ Len(tmp \o b) = Len(tmp) + Len(b)
          /\ \A i \in 1 .. Len(tmp) : (tmp \o b)[i] = tmp[i]
          /\ \A i \in Len(tmp) + 1 .. Len(tmp) + Len(b) :
               (tmp \o b)[i] = b[i - Len(tmp)] /\ i - Len(tmp) \in 1 .. Len(b)
      BY <3>0, Joined, Zenon
    <3>2. Len(b) = n
      BY <2>3
    <3> QED
      BY <3>1, <3>2, <2>4, Zenon
  <2>6. ASSUME NEW i \in 1 .. Len(tmp') PROVE tmp'[i] = <<spos.idx, spos.off + moved' + i>>
    <3>1. CASE i \in 1 .. l
      BY <3>1, <1>2, <2>1, <2>5
    <3>2. CASE i \in l + 1 .. l + n
      <4>1. tmp'[i] = <<spos.idx, spos.off + k + (i - l)>>
        BY <3>2, <2>3, <2>5
      <4>2. spos.off + k + (i - l) = spos.off + moved + i
        BY <1>2, <1>3
      <4> QED
        BY <4>1, <4>2, <2>1
    <3> QED
      BY <3>1, <3>2, <1>3, <2>2, <2>5
  <2>7. taken[spos.idx] + n <= From.has /\ taken[spos.idx] + n = spos.off + moved' + Len(tmp')
    <3> DEFINE e == spos.off
               h == From.has
    <3>1. h \in Nat
      BY <1>2, <1>3, CurrentFacts
    <3>2. e \in Nat /\ taken[spos.idx] = e + (moved + l) /\ n <= h - (e + k)
      BY <1>1, <1>2, <1>3, <2>3
    <3> HIDE DEF e, h, l
    <3>3. taken[spos.idx] + n <= h /\ taken[spos.idx] + n = e + moved + (l + n)
      BY <3>1, <3>2, <1>3, <2>2
    <3> QED
      BY <3>3, <2>1, <2>5 DEF e, h
  <2>8. /\ taken' \in [1 .. Len(src) -> Nat] /\ \A i \in 1 .. Len(src) : taken'[i] <= src[i].has
        /\ \A i \in 1 .. Len(src) : i # spos.idx => taken'[i] = taken[i]
        /\ taken'[spos.idx] = spos.off + moved' + Len(tmp')
    BY <1>2, <1>3, <2>1, <2>2, <2>7, Takes
  <2>9. Len(tmp') <= ThisLen /\ (cpc' = "fill" => Len(tmp') < ThisLen) /\ Len(tmp') > 0
        /\ cpc' \in {"fill", "drain"}
    <3>1. Len(tmp') <= ThisLen /\ (l + n # ThisLen => Len(tmp') < ThisLen) /\ Len(tmp') > 0
      BY <1>1, <1>2, <1>3, <2>2, <2>5
    <3>2. cpc' \in {"fill", "drain"} /\ (cpc' = "fill" => l + n # ThisLen)
      BY <2>1
    <3> QED
      BY <3>1, <3>2
  <2> DEFINE h == moved' + drained'
  <2>10. h = moved' + drained' /\ Written(out', h) /\ Filled(out') /\ Pointed(out', h)
    BY <1>1, <1>3, <2>1
  <2> HIDE DEF h
  <2>11. drained' = 0 /\ moved' = moved /\ moved' \in Nat /\ moved' < OneLen /\ drained' \in Nat
         /\ drained' < Len(tmp')
    BY <1>2, <1>3, <2>1, <2>9
  <2> QED
    BY <1>1, <2>1, <2>5, <2>6, <2>8, <2>9, <2>10, <2>11, BounceGoesOn
<1> QED
  BY <1>4, <1>5, <1>6
(* The slice of the intermediate buffer that a write takes.                *)
LEMMA Slice ==
  ASSUME NEW S, NEW s \in Seq(S), NEW a \in Nat, NEW n \in Nat, a + n <= Len(s)
  PROVE  /\ SubSeq(s, a + 1, a + n) \in Seq(S) /\ Len(SubSeq(s, a + 1, a + n)) = n
         /\ \A k \in 1 .. n : SubSeq(s, a + 1, a + n)[k] = s[a + k]
  OBVIOUS

(* w bytes of the intermediate buffer are written.                         *)
LEMMA DrainedKeeps ==
  ASSUME CopyInv, cpc = "drain", NEW w \in Nat, w <= Len(tmp), Drained(w),
         Written(out', moved + w), Filled(out'), Pointed(out', moved + w),
         UNCHANGED vectors, taken' = taken
  PROVE  CopyInv'
<1> DEFINE l == Len(tmp)
<1>1. /\ cpc # "done" /\ ~AtEnd(src, spos) /\ ~AtEnd(dst, dpos) /\ moved < OneLen
      /\ From.fd /\ To.fd /\ l <= ThisLen
      /\ ThisLen \in Nat /\ moved + ThisLen <= OneLen /\ OneLen \in Nat /\ spos.off \in Nat
  BY BounceFacts
<1>2. /\ moved \in Nat /\ l \in Nat /\ taken[spos.idx] = spos.off + (moved + l)
      /\ taken \in [1 .. Len(src) -> Nat] /\ \A i \in 1 .. Len(src) : taken[i] <= src[i].has
  BY <1>1, GoingFacts
<1>3. moved + w \in Nat /\ moved + w <= OneLen /\ (moved + w = OneLen => w = l)
  <2> DEFINE o == OneLen
             t == ThisLen
  <2>1. o \in Nat /\ t \in Nat /\ l <= t /\ moved + t <= o /\ w <= l
    BY <1>1
  <2> HIDE DEF o, t, l
  <2>2. moved + w \in Nat /\ moved + w <= o /\ (moved + w = o => w = l)
    BY <1>2, <2>1
  <2> QED
    BY <2>2 DEF o
<1>4. CASE w < ThisLen \/ moved + w = OneLen
  <2> DEFINE r == moved + w
  <2>1. Returned(r)
    BY <1>4, Zenon DEF Drained
  <2>2. /\ r \in Nat /\ r <= OneLen /\ Written(out', r) /\ Pointed(out', r)
    BY <1>3
  <2>3. From.fd /\ (r = OneLen \/ ~To.fd) => taken'[spos.idx] = spos.off + r
    BY <1>1, <1>2, <1>3
  <2>4. /\ taken' \in [1 .. Len(src) -> Nat] /\ \A i \in 1 .. Len(src) : taken'[i] <= src[i].has
        /\ \A i \in 1 .. Len(src) : i > spos.idx => taken'[i] = taken[i]
    BY <1>2
  <2> HIDE DEF r
  <2> QED
    BY <1>1, <2>1, <2>2, <2>3, <2>4, ReturnedKeeps
<1>5. CASE ~(w < ThisLen \/ moved + w = OneLen)
  <2>1. /\ moved' = moved + w /\ tmp' = <<>> /\ drained' = 0 /\ cpc' = "fill"
        /\ UNCHANGED positions
    BY <1>5, Zenon DEF Drained
  <2>2. w = l /\ moved + w < OneLen
    <3> DEFINE o == OneLen
               t == ThisLen
               g == moved + w
    <3>1. o \in Nat /\ t \in Nat /\ l \in Nat /\ g \in Nat
      BY <1>1, <1>2, <1>3
    <3>2. l <= t /\ w <= l /\ ~(w < t) /\ g <= o /\ g # o
      BY <1>1, <1>3, <1>5
    <3> HIDE DEF o, t, l, g
    <3>3. w = l /\ g < o
      BY <3>1, <3>2
    <3> QED
      BY <3>3 DEF o, g
  <2>3. Len(tmp') = 0 /\ tmp' \in Seq(Bytewise)
    BY <2>1
  <2>4. moved' \in Nat /\ moved' < OneLen /\ moved' + drained' = moved + w
    BY <1>3, <2>1, <2>2
  <2>5. taken'[spos.idx] = spos.off + moved' + Len(tmp')
    BY <1>1, <1>2, <2>1, <2>2, <2>3
  <2> DEFINE h == moved' + drained'
  <2>6. h = moved' + drained' /\ Written(out', h) /\ Filled(out') /\ Pointed(out', h)
    BY <2>4
  <2> HIDE DEF h
  <2>7. /\ \A i \in 1 .. Len(tmp') : tmp'[i] = <<spos.idx, spos.off + moved' + i>>
        /\ Len(tmp') <= ThisLen /\ cpc' # "drain" /\ drained' \in Nat
        /\ cpc' \in {"fill", "drain"} /\ cpc \in {"fill", "drain"}
    BY <1>1, <2>1, <2>3
  <2>8. /\ taken' \in [1 .. Len(src) -> Nat] /\ \A i \in 1 .. Len(src) : taken'[i] <= src[i].has
        /\ \A i \in 1 .. Len(src) : i # spos.idx => taken'[i] = taken[i]
    BY <1>2
  <2> QED
    BY <2>1, <2>3, <2>4, <2>5, <2>6, <2>7, <2>8, BounceGoesOn
<1> QED
  BY <1>4, <1>5

LEMMA DrainKeeps == ASSUME CopyInv, NEW n \in Int, DrainCall(n) PROVE CopyInv'
<1> DEFINE l == Len(tmp)
<1>1. /\ cpc = "drain" /\ n <= l - drained /\ UNCHANGED vectors /\ taken' = taken
  BY DEF DrainCall
<1>2. /\ cpc # "done" /\ ~AtEnd(src, spos) /\ ~AtEnd(dst, dpos) /\ moved < OneLen
      /\ From.fd /\ To.fd /\ l <= ThisLen /\ drained < l
      /\ \A i \in 1 .. l : tmp[i] = <<spos.idx, spos.off + moved + i>>
      /\ ThisLen \in Nat /\ moved + ThisLen <= OneLen /\ OneLen \in Nat /\ spos.off \in Nat
  BY <1>1, BounceFacts
<1>3. /\ CopyTypeOK /\ CountInv /\ moved \in Nat /\ l \in Nat /\ drained \in Nat
      /\ tmp \in Seq(Bytewise)
      /\ Written(out, moved + drained) /\ Filled(out) /\ Pointed(out, moved + drained)
      /\ taken \in [1 .. Len(src) -> Nat] /\ \A i \in 1 .. Len(src) : taken[i] <= src[i].has
      /\ taken[spos.idx] = spos.off + (moved + l)
  BY <1>2, GoingFacts
<1>4. CASE n <= 0 /\ drained = 0
  <2>1. Returned(IF n < 0 /\ moved = 0 THEN -1 ELSE moved) /\ out' = out
    BY <1>4, Zenon DEF DrainCall
  <2> QED
    BY <2>1, <1>1, <1>2, <1>4, ShortKeeps
<1>5. CASE n <= 0 /\ drained # 0
  <2>1. Drained(drained) /\ out' = out
    BY <1>5, Zenon DEF DrainCall
  <2>2. drained <= Len(tmp)
    BY <1>2, <1>3
  <2>3. Written(out', moved + drained) /\ Filled(out') /\ Pointed(out', moved + drained)
    BY <1>3, <2>1
  <2> QED
    BY <1>1, <1>3, <2>1, <2>2, <2>3, DrainedKeeps
<1>6. CASE ~(n <= 0)
  <2> DEFINE b == SubSeq(tmp, drained + 1, drained + n)
             k == moved + drained
             w == drained + n
  <2>1. /\ Put(k, b)
        /\ \/ Drained(w)
           \/ w # l /\ drained' = w /\ UNCHANGED <<positions, cpc, moved, tmp>>
    BY <1>6, Zenon DEF DrainCall
  <2>2. n \in Nat /\ n > 0 /\ w \in Nat /\ w <= l /\ k \in Nat /\ k + n = moved + w
        /\ k + n <= OneLen
    <3> DEFINE o == OneLen
               t == ThisLen
    <3>1. o \in Nat /\ t \in Nat /\ l <= t /\ moved + t <= o /\ n <= l - drained
      BY <1>1, <1>2
    <3>2. moved \in Nat /\ l \in Nat /\ drained \in Nat
      BY <1>3
    <3> HIDE DEF o, t, l
    <3>3. n \in Nat /\ n > 0
      BY <1>6
    <3>4. w \in Nat /\ w <= l /\ k \in Nat /\ k + n = moved + w /\ k + n <= o
      BY <3>1, <3>2, <3>3
    <3> QED
      BY <3>3, <3>4 DEF o
  <2>3. /\ b \in Seq(Bytewise) /\ Len(b) = n /\ \A j \in 1 .. n : b[j] = tmp[drained + j]
    BY <1>3, <2>2, Slice
  <2>4. ASSUME NEW j \in 1 .. n PROVE b[j] = <<spos.idx, spos.off + k + j>>
    <3>1. drained + j \in 1 .. l
      BY <1>3, <2>2
    <3>2. tmp[drained + j] = <<spos.idx, spos.off + moved + (drained + j)>>
      BY <3>1, <1>2
    <3>3. spos.off + moved + (drained + j) = spos.off + k + j
      BY <1>2, <1>3, <2>2
    <3> QED
      BY <3>2, <3>3, <2>3
  <2>5. Written(out, k) /\ Pointed(out, k)
    BY <1>3
  <2> HIDE DEF b, k
  <2>6. Written(out', k + n) /\ Filled(out') /\ Pointed(out', k + n)
    BY <1>2, <1>3, <2>1, <2>2, <2>3, <2>4, <2>5, PutWrites
  <2> HIDE DEF w
  <2>7. Written(out', moved + w) /\ Pointed(out', moved + w)
    BY <2>2, <2>6
  <2>8. CASE Drained(w)
    BY <1>1, <2>2, <2>6, <2>7, <2>8, DrainedKeeps
  <2>9. CASE w # l /\ drained' = w /\ UNCHANGED <<positions, cpc, moved, tmp>>
    <3>1. /\ drained' = w /\ UNCHANGED positions /\ cpc' = "drain" /\ moved' = moved /\ tmp' = tmp
      BY <1>1, <2>9
    <3>2. drained' < Len(tmp') /\ drained' \in Nat
      BY <1>3, <2>2, <2>9, <3>1
    <3> DEFINE h == moved' + drained'
    <3>3. h = moved' + drained' /\ Written(out', h) /\ Pointed(out', h)
      BY <2>7, <3>1
    <3> HIDE DEF h
    <3>4. taken'[spos.idx] = spos.off + moved' + Len(tmp')
      BY <1>1, <1>2, <1>3, <3>1
    <3>5. /\ taken' \in [1 .. Len(src) -> Nat] /\ \A i \in 1 .. Len(src) : taken'[i] <= src[i].has
          /\ \A i \in 1 .. Len(src) : i # spos.idx => taken'[i] = taken[i]
      BY <1>1, <1>3
    <3> QED
      BY <1>1, <1>2, <1>3, <2>6, <3>1, <3>2, <3>3, <3>4, <3>5, BounceGoesOn
  <2> QED
    BY <2>1, <2>8, <2>9
<1> QED
  BY <1>4, <1>5, <1>6
-------------------------------------------------------------------------------
(* Another destination for the rest of the source.                         *)
LEMMA PieceKeeps == ASSUME CopyInv, NEW v \in DstVectors, NextPiece(v) PROVE CopyInv'
<1>1. /\ cpc = "done" /\ \A i \in 1 .. Len(dst) : ~dst[i].fd
      /\ dst' = v /\ dpos' = Start0 /\ out' = [i \in 1 .. Len(v) |-> <<>>]
      /\ earlier' = earlier \o out
      /\ copied' = 0 /\ res' = 0 /\ cpc' = "next"
      /\ src' = src /\ spos' = spos /\ taken' = taken
      /\ moved' = moved /\ tmp' = tmp /\ drained' = drained
  BY DEF NextPiece
<1>2. /\ CopyTypeOK /\ CallInv /\ CountInv /\ TakenInv /\ Written(out, moved + drained)
  BY <1>1 DEF CopyInv
<1>3. moved = 0 /\ tmp = <<>> /\ drained = 0 /\ moved + drained = 0
  BY <1>1, <1>2 DEF CallInv
<1>4. /\ v \in Seq(Buffer) /\ Len(v) \in Nat /\ copied \in Nat
      /\ earlier \in Seq(Seq(Bytewise)) /\ out \in Seq(Seq(Bytewise))
  BY <1>2, BufAssumption DEF CopyTypeOK, Bytewise
<1>5. /\ out' \in Seq(Seq(Bytewise)) /\ Len(out') = Len(v)
      /\ \A i \in 1 .. Len(v) : out'[i] = <<>>
  BY <1>1, <1>4
<1>6. \A i \in 1 .. Len(out') : Len(out'[i]) = 0
  BY <1>5
<1>7. earlier' \in Seq(Seq(Bytewise))
  BY <1>1, <1>4, Joined
<1>8. Stored(earlier') = Stored(earlier) + copied /\ Stored(earlier') \in Nat
  <2>1. Stored(earlier \o out) = Stored(earlier) + Stored(out)
    BY <1>4, StoredJoins
  <2>2. Stored(out) = copied + 0
    BY <1>2, <1>3 DEF Written
  <2>3. Stored(earlier') \in Nat
    BY <1>7, PlacesFinite
  <2> QED
    BY <2>1, <2>2, <2>3, <1>1, <1>4
<1>9. CountInv'
  <2>1. Cardinality(Before(src', spos')) = Stored(earlier') + copied'
    <3>1. Cardinality(Before(src, spos)) = Stored(earlier) + copied
      BY <1>2 DEF CountInv
    <3>2. Stored(earlier') + 0 = Stored(earlier) + copied
      BY <1>8
    <3> QED
      BY <3>1, <3>2, <1>1
  <2>2. Cardinality(Before(dst', dpos')) = copied' /\ Cardinality(Before(dst', dpos')) <= copied'
    BY <1>1, BeforeStart
  <2>3. ~AtEnd(dst', dpos') => dpos'.off <= dst'[dpos'.idx].size
    <3>1. dpos'.idx = 1 /\ dpos'.off = 0 /\ (~AtEnd(dst', dpos') => 1 \in 1 .. Len(v))
      BY <1>1, <1>4 DEF Start0, AtEnd
    <3>2. 1 \in 1 .. Len(v) => v[1].size \in Nat
      BY <1>4, BufferFacts
    <3> QED
      BY <3>1, <3>2, <1>1
  <2>4. ~AtEnd(src', spos') => spos'.off <= src'[spos'.idx].size
    BY <1>1, <1>2, Zenon DEF CountInv, From
  <2> QED
    BY <2>1, <2>2, <2>3, <2>4, Zenon DEF CountInv, From, To
<1>10. Written(out, moved + drained)'
  <2>1. Stored(out') = 0
    BY <1>6, EmptiesHold
  <2> DEFINE R == Before(src, At(spos, 0))
  <2>2. InOrder(earlier \o out, R)
    BY <1>2, <1>3 DEF Written
  <2>3. earlier \o out \in Seq(Seq(Bytewise))
    BY <1>4, Joined
  <2> DEFINE e == earlier \o out
             b == out'
  <2> HIDE DEF R
  <2>4. e \in Seq(Seq(Bytewise)) /\ b \in Seq(Seq(Bytewise)) /\ InOrder(e, R)
        /\ \A i \in 1 .. Len(b) : Len(b[i]) = 0
    BY <2>2, <2>3, <1>5, <1>6
  <2> HIDE DEF e, b
  <2>5. InOrder(e \o b, R)
    BY <2>4, OrderEmpties
  <2>6. InOrder(earlier' \o out', Before(src', At(spos', moved' + drained')))
    BY <2>5, <1>1, <1>3 DEF e, b, R
  <2>7. Stored(out') = copied' + (moved' + drained')
    BY <2>1, <1>1, <1>3
  <2> QED
    BY <2>6, <2>7, <1>1, <1>5 DEF Written, Bytewise
<1>11. Filled(out)' /\ Pointed(out, moved + drained)'
  <2>1. ASSUME NEW j \in 1 .. Len(v) PROVE Len(out'[j]) <= v[j].size /\ out'[j] = <<>>
    <3>1. v[j].size \in Nat
      BY <1>4, BufferFacts
    <3>2. Len(out'[j]) = 0 /\ out'[j] = <<>>
      BY <1>5
    <3> QED
      BY <3>1, <3>2
  <2>2. Filled(out)'
    BY <2>1, <1>1 DEF Filled
  <2>3. dpos'.idx = 1 /\ dpos'.off = 0 /\ moved' + drained' = 0
    BY <1>1, <1>3 DEF Start0
  <2>4. dpos'.idx <= Len(v) => Len(out'[dpos'.idx]) = dpos'.off + (moved' + drained')
    <3>1. dpos'.idx <= Len(v) => 1 \in 1 .. Len(out')
      BY <2>3, <1>4, <1>5
    <3> QED
      BY <3>1, <2>3, <1>6
  <2>5. \A j \in 1 .. dpos'.idx - 1 : FALSE
    BY <2>3
  <2>6. \A j \in dpos'.idx + 1 .. Len(v) : j \in 1 .. Len(v)
    BY <2>3, <1>4
  <2> QED
    BY <2>1, <2>2, <2>4, <2>5, <2>6, <1>1 DEF Pointed
<1>12. TakenInv' /\ CallInv'
  BY <1>1, <1>2, <1>3 DEF TakenInv, CallInv
<1>13. CopyTypeOK'
  <2>1. dpos' \in [idx : 1 .. Len(dst') + 1, off : Nat]
    BY <1>1, <1>4 DEF Start0
  <2>2. res' \in -1 .. copied' /\ copied' \in Nat
        /\ cpc' \in {"next", "write", "read", "fill", "drain", "done"}
    BY <1>1
  <2> QED
    BY <2>1, <2>2, <1>1, <1>2, <1>4, <1>5, <1>7, Zenon DEF CopyTypeOK, Bytewise
<1> QED
  BY <1>1, <1>9, <1>10, <1>11, <1>12, <1>13 DEF CopyInv

LEMMA FromKeeps ==
  ASSUME NEW s \in Seq(Buffer), NEW d \in Seq(Buffer), CopyFrom(s, d)
  PROVE  CopyInv
<1>1. /\ src = s /\ dst = d /\ spos = Start0 /\ dpos = Start0
      /\ taken = [i \in 1 .. Len(src) |-> 0] /\ out = [i \in 1 .. Len(dst) |-> <<>>]
      /\ earlier = <<>> /\ cpc = "next" /\ moved = 0 /\ tmp = <<>> /\ drained = 0
      /\ copied = 0 /\ res = 0
  BY DEF CopyFrom
<1>2. /\ src \in Seq(Buffer) /\ dst \in Seq(Buffer) /\ Len(src) \in Nat /\ Len(dst) \in Nat
      /\ \A i \in 1 .. Len(src) : src[i].size \in Nat /\ src[i].has \in Nat
      /\ \A i \in 1 .. Len(dst) : dst[i].size \in Nat
  BY <1>1, BufferFacts
<1>3. /\ out \in Seq(Seq(Bytewise)) /\ Len(out) = Len(dst)
      /\ \A i \in 1 .. Len(dst) : out[i] = <<>> /\ Len(out[i]) = 0
  BY <1>1, <1>2
<1>4. spos.idx = 1 /\ spos.off = 0 /\ dpos.idx = 1 /\ dpos.off = 0 /\ moved + drained = 0
      /\ Len(tmp) = 0
  BY <1>1 DEF Start0
<1>5. CopyTypeOK
  <2>1. spos \in [idx : 1 .. Len(src) + 1, off : Nat] /\ dpos \in [idx : 1 .. Len(dst) + 1, off : Nat]
    BY <1>1, <1>2 DEF Start0
  <2>2. taken \in [1 .. Len(src) -> Nat] /\ \A i \in 1 .. Len(src) : taken[i] <= src[i].has
    BY <1>1, <1>2
  <2>3. earlier \in Seq(Seq(Nat \X Nat)) /\ tmp \in Seq(Nat \X Nat) /\ Len(tmp) <= Bounce
    BY <1>1, <1>4, BufAssumption
  <2>4. /\ cpc \in {"next", "write", "read", "fill", "drain", "done"} /\ moved \in Nat
        /\ drained \in 0 .. Len(tmp) /\ copied \in Nat /\ res \in -1 .. copied
    BY <1>1, <1>4
  <2> QED
    BY <2>1, <2>2, <2>3, <2>4, <1>2, <1>3 DEF CopyTypeOK, Bytewise
<1>6. CallInv /\ TakenInv
  BY <1>1, <1>2, <1>4 DEF CallInv, TakenInv
<1>7. Cardinality(Before(src, spos)) = 0 /\ Cardinality(Before(dst, dpos)) = 0
      /\ Before(src, spos) = {} /\ Stored(earlier) = 0
  <2>1. \A i \in 1 .. Len(earlier) : Len(earlier[i]) = 0
    BY <1>1
  <2> QED
    BY <2>1, <1>1, BeforeStart, EmptiesHold
<1>8. CountInv
  <2>1. ~AtEnd(src, spos) => 1 \in 1 .. Len(src)
    BY <1>2, <1>4 DEF AtEnd
  <2>2. ~AtEnd(dst, dpos) => 1 \in 1 .. Len(dst)
    BY <1>2, <1>4 DEF AtEnd
  <2>3. /\ ~AtEnd(src, spos) => spos.off <= From.size
        /\ ~AtEnd(dst, dpos) => dpos.off <= To.size
    BY <2>1, <2>2, <1>2, <1>4 DEF From, To
  <2> QED
    BY <2>3, <1>1, <1>7 DEF CountInv
<1>9. Written(out, moved + drained)
  <2>1. Stored(out) = 0 /\ InOrder(earlier, {})
    <3>1. Stored(out) = 0
      BY <1>3, EmptiesHold
    <3>2. \A i \in 1 .. Len(earlier) : Len(earlier[i]) = 0
      BY <1>1
    <3> QED
      BY <3>1, <3>2, EmptiesHold
  <2>2. earlier \in Seq(Seq(Bytewise))
    BY <1>1
  <2>3. InOrder(earlier \o out, {})
    BY <2>1, <2>2, <1>3, OrderEmpties
  <2>4. At(spos, moved + drained) = spos
    BY <1>1, <1>4 DEF At, Start0
  <2> QED
    BY <2>1, <2>3, <2>4, <1>1, <1>3, <1>4, <1>7 DEF Written, Bytewise
<1>10. Filled(out) /\ Pointed(out, moved + drained)
  <2>1. Filled(out)
    BY <1>2, <1>3 DEF Filled
  <2>2. dpos.idx <= Len(dst) => Len(out[dpos.idx]) = dpos.off + (moved + drained)
    <3>1. dpos.idx <= Len(dst) => 1 \in 1 .. Len(dst)
      BY <1>2, <1>4
    <3> QED
      BY <3>1, <1>3, <1>4
  <2>3. \A j \in 1 .. dpos.idx - 1 : FALSE
    BY <1>4
  <2>4. \A j \in dpos.idx + 1 .. Len(dst) : j \in 1 .. Len(dst)
    BY <1>2, <1>4
  <2> QED
    BY <2>1, <2>2, <2>3, <2>4, <1>3 DEF Pointed
<1> QED
  BY <1>1, <1>5, <1>6, <1>8, <1>9, <1>10 DEF CopyInv

LEMMA CopyStutters == CopyInv /\ UNCHANGED copyVars => CopyInv'
<1> SUFFICES ASSUME CopyInv, UNCHANGED copyVars PROVE CopyInv'
  OBVIOUS
<1>1. /\ src' = src /\ dst' = dst /\ spos' = spos /\ dpos' = dpos /\ taken' = taken /\ out' = out
      /\ earlier' = earlier /\ cpc' = cpc /\ moved' = moved /\ tmp' = tmp /\ drained' = drained
      /\ copied' = copied /\ res' = res
  BY DEF copyVars
<1>2. CopyTypeOK' /\ CountInv'
  BY <1>1, Zenon DEF CopyInv, CopyTypeOK, CountInv, From, To
<1>3. CallInv'
  BY <1>1, Zenon DEF CopyInv, CallInv, AtEnd, From, To, OneLen, ThisLen
<1>4. Written(out, moved + drained)' /\ Filled(out)'
  BY <1>1, Zenon DEF CopyInv, Written, Filled
<1>5. cpc' # "done" => Pointed(out, moved + drained)'
  BY <1>1, Zenon DEF CopyInv, Pointed
<1>6. (cpc' = "done" => \A i \in 1 .. Len(dst') : ~dst'[i].fd) => TakenInv'
  BY <1>1, Zenon DEF CopyInv, TakenInv
<1>7. IF cpc' = "done" THEN res' = copied' \/ (res' = -1 /\ copied' = 0) ELSE res' = 0
  BY <1>1, Zenon DEF CopyInv
<1> QED
  BY <1>2, <1>3, <1>4, <1>5, <1>6, <1>7, Zenon DEF CopyInv

(* The results of the calls are integers.                                  *)
LEMMA OutcomesAre == ASSUME src \in Seq(Buffer), NEW n \in Outcomes PROVE n \in Int
<1>1. fuse_buf_size(src) \in Nat
  BY RoomFinite, FS_CardinalityType DEF fuse_buf_size
<1> QED
  BY <1>1 DEF Outcomes

LEMMA CopyNextKeeps == CopyInv /\ CopyNext => CopyInv'
<1> SUFFICES ASSUME CopyInv, CopyNext PROVE CopyInv'
  OBVIOUS
<1>1. src \in Seq(Buffer)
  BY DEF CopyInv, CopyTypeOK
<1>2. CASE CopyEnds
  BY <1>2, EndsKeeps
<1>3. CASE CopyNone
  BY <1>3, NoneKeeps
<1>4. CASE CopyMemory
  BY <1>4, MemoryKeeps
<1>5. CASE CopyCalls
  BY <1>5, CallsKeeps
<1>6. ASSUME NEW n \in Outcomes, WriteCall(n) PROVE CopyInv'
  BY <1>1, <1>6, OutcomesAre, WriteKeeps
<1>7. ASSUME NEW n \in Outcomes, ReadCall(n) PROVE CopyInv'
  BY <1>1, <1>7, OutcomesAre, ReadKeeps
<1>8. ASSUME NEW n \in Outcomes, FillCall(n) PROVE CopyInv'
  BY <1>1, <1>8, OutcomesAre, FillKeeps
<1>9. ASSUME NEW n \in Outcomes, DrainCall(n) PROVE CopyInv'
  BY <1>1, <1>9, OutcomesAre, DrainKeeps
<1>10. ASSUME NEW v \in DstVectors, NextPiece(v) PROVE CopyInv'
  BY <1>10, PieceKeeps
<1> QED
  BY <1>2, <1>3, <1>4, <1>5, <1>6, <1>7, <1>8, <1>9, <1>10 DEF CopyNext

(* The invariant of fuse_buf_copy: what its positions, its counters and    *)
(* the descriptors say about the bytes that have arrived, at every system  *)
(* call.                                                                   *)
THEOREM CopyInductive == CopySpec => []CopyInv
<1>1. CopyInit => CopyInv
  <2> SUFFICES ASSUME CopyInit PROVE CopyInv
    OBVIOUS
  <2>1. PICK s \in SrcVectors, d \in DstVectors : CopyFrom(s, d)
    BY DEF CopyInit
  <2>2. s \in Seq(Buffer) /\ d \in Seq(Buffer)
    BY BufAssumption
  <2> QED
    BY <2>1, <2>2, FromKeeps
<1>2. CopyInv /\ [CopyNext]_copyVars => CopyInv'
  BY CopyNextKeeps, CopyStutters
<1> QED
  BY <1>1, <1>2, PTL DEF CopySpec
LEMMA BeforeCloses ==
  ASSUME NEW v \in Seq(Buffer), NEW p, p.idx \in Int, p.off \in Int,
         NEW x \in Before(v, p), NEW y \in Room(v), Precedes(y, x)
  PROVE  y \in Before(v, p)
<1>1. x \in Room(v) /\ (x[1] < p.idx \/ (x[1] = p.idx /\ x[2] <= p.off))
  BY DEF Before
<1>2. \A i \in 1 .. Len(v) : v[i].size \in Nat
  BY BufferFacts
<1>3. x[1] \in Int /\ x[2] \in Int /\ y[1] \in Int /\ y[2] \in Int
  BY <1>1, <1>2, RoomHas
<1>4. y[1] < p.idx \/ (y[1] = p.idx /\ y[2] <= p.off)
  BY <1>1, <1>3 DEF Precedes
<1> QED
  BY <1>4 DEF Before

(* Whatever the descriptors deliver, accept or refuse, fuse_buf_copy puts  *)
(* the source into its destinations from the start, each byte once, in     *)
(* order and without a hole, over all the pieces of a message, overruns no *)
(* destination and returns the number of bytes that arrived.               *)
THEOREM CopyDelivers == CopySpec => []CopiedInOrder
<1>1. CopyInv => CopiedInOrder
  <2> SUFFICES ASSUME CopyInv PROVE CopiedInOrder
    OBVIOUS
  <2> DEFINE all == earlier \o out
             Arrived == {ByteAt(all, p) : p \in Places(all)}
             k == moved + drained
             q == At(spos, k)
  <2>1. /\ CopyTypeOK /\ CallInv /\ Written(out, k) /\ Filled(out)
        /\ (IF cpc = "done" THEN res = copied \/ (res = -1 /\ copied = 0) ELSE res = 0)
    BY DEF CopyInv
  <2>2. /\ src \in Seq(Buffer) /\ copied \in Nat /\ moved \in Nat /\ drained \in Nat
        /\ spos.idx \in Int /\ spos.off \in Int
    BY <2>1 DEF CopyTypeOK
  <2>3. /\ Arrived = Before(src, q) /\ Stored(out) = copied + k
        /\ \A x, y \in Places(all) : Precedes(x, y) => Precedes(ByteAt(all, x), ByteAt(all, y))
    BY <2>1 DEF Written, InOrder
  <2>4. q.idx \in Int /\ q.off \in Int
    BY <2>2 DEF At
  <2> HIDE DEF Arrived, q
  <2>5. Arrived \subseteq Room(src)
    BY <2>3 DEF Before
  <2>6. \A x \in Arrived, y \in Room(src) : Precedes(y, x) => y \in Arrived
    BY <2>2, <2>3, <2>4, BeforeCloses
  <2>7. cpc \in {"next", "done"} => k = 0
    BY <2>1, <2>2 DEF CallInv
  <2>8. cpc = "next" => Stored(out) = copied
    BY <2>2, <2>3, <2>7
  <2>9. cpc = "done" => Stored(out) = IF res < 0 THEN 0 ELSE res
    <3> SUFFICES ASSUME cpc = "done" PROVE Stored(out) = IF res < 0 THEN 0 ELSE res
      OBVIOUS
    <3>1. Stored(out) = copied
      BY <2>2, <2>3, <2>7
    <3>2. res = copied \/ (res = -1 /\ copied = 0)
      BY <2>1
    <3> QED
      BY <3>1, <3>2, <2>2
  <2>10. \A j \in 1 .. Len(dst) :
           /\ Len(out[j]) <= dst[j].size
           /\ \A i \in 1 .. j - 1 : out[j] # <<>> => Len(out[i]) = dst[i].size
    BY <2>1 DEF Filled
  <2> QED
    BY <2>3, <2>5, <2>6, <2>8, <2>9, <2>10, Zenon DEF CopiedInOrder, Arrived
<1> QED
  BY <1>1, CopyInductive, PTL

(* The positions of both vectors agree with the count whenever             *)
(* fuse_buf_copy_one is not running, and the assertions of                 *)
(* fuse_bufvec_advance hold.                                               *)
THEOREM PositionsAgree == CopySpec => []PositionsInStep
<1>1. CopyInv => PositionsInStep
  BY Zenon DEF CopyInv, CountInv, PositionsInStep
<1> QED
  BY <1>1, CopyInductive, PTL

(* The types of the copy's variables, the intermediate buffer's bound and  *)
(* the ends of the source's files included.                                *)
THEOREM CopyTypes == CopySpec => []CopyTypeOK
<1>1. CopyInv => CopyTypeOK
  BY DEF CopyInv
<1> QED
  BY <1>1, CopyInductive, PTL
===============================================================================
