---------------------------- MODULE FuseFileProofs ----------------------------
(* Proofs about FuseFile: the reference counts, the life of the file       *)
(* objects and the handles of the reads, for any number of threads,        *)
(* descriptors, addresses, inodes and handles.                             *)
EXTENDS FuseFile, FiniteSetTheorems, TLAPS

-------------------------------------------------------------------------------
(* How many points of S a function maps to w.                              *)
CountOf(F, S, w) == Cardinality({s \in S : F[s] = w})

(* G differs from F at x only, where it is v.                              *)
ChangedAt(F, G, S, x, v) == \A s \in S : G[s] = IF s = x THEN v ELSE F[s]

Same(a, b) == IF a = b THEN 1 ELSE 0

(* Counting.  Changing a function at one point moves that point from those *)
(* of its old value to those of its new one.                               *)
LEMMA CountUpdate ==
  ASSUME NEW S, IsFiniteSet(S), NEW x \in S, NEW v, NEW w,
         NEW F, NEW G, ChangedAt(F, G, S, x, v)
  PROVE  CountOf(G, S, w)
           = CountOf(F, S, w) - Same(F[x], w) + Same(v, w)
<1> DEFINE A == {s \in S : F[s] = w}
           B == {s \in S : G[s] = w}
<1>1. A \in SUBSET S /\ IsFiniteSet(A) /\ Cardinality(A) \in Nat
  BY FS_Subset, FS_CardinalityType
<1>2. x \in A <=> F[x] = w
  OBVIOUS
<1>3. ASSUME v = w PROVE Cardinality(B) = Cardinality(A \cup {x})
  <2>1. B = A \cup {x}
    BY <1>3 DEF ChangedAt
  <2>2. QED
    BY <2>1, Zenon
<1>4. ASSUME v # w PROVE Cardinality(B) = Cardinality(A \ {x})
  <2>1. B = A \ {x}
    BY <1>4 DEF ChangedAt
  <2>2. QED
    BY <2>1, Zenon
<1>5. /\ Cardinality(A \cup {x}) = IF x \in A THEN Cardinality(A) ELSE Cardinality(A) + 1
      /\ Cardinality(A \ {x}) = IF x \in A THEN Cardinality(A) - 1 ELSE Cardinality(A)
  BY <1>1, FS_AddElement, FS_RemoveElement
<1>6. Cardinality(B) = Cardinality(A) - Same(F[x], w) + Same(v, w)
  <2> HIDE DEF A, B
  <2>1. QED
    BY <1>1, <1>2, <1>3, <1>4, <1>5 DEF Same
<1>7. QED
  BY <1>6, Zenon DEF CountOf

(* The holders of an object are finitely many.                             *)
LEMMA HeldNat ==
  ASSUME TypeOK, NEW g
  PROVE  /\ Cardinality(FdsOn(g)) \in Nat /\ Cardinality(CallsOn(g)) \in Nat
         /\ Held(g) \in Nat
         /\ mnt = g => Held(g) > 0
         /\ \A n \in Fds : fd[n] = g => Held(g) > 0
         /\ \A t \in Threads : arg[t] = g => Held(g) > 0
<1>1. FdsOn(g) \in SUBSET Fds /\ CallsOn(g) \in SUBSET Threads
  BY DEF FdsOn, CallsOn
<1>2. IsFiniteSet(FdsOn(g)) /\ IsFiniteSet(CallsOn(g))
  BY <1>1, FS_Subset, FileAssumption DEF FileAssumption
<1>3. Cardinality(FdsOn(g)) \in Nat /\ Cardinality(CallsOn(g)) \in Nat
  BY <1>2, FS_CardinalityType
<1>4. ASSUME NEW n \in Fds, fd[n] = g PROVE Cardinality(FdsOn(g)) > 0
  <2>1. FdsOn(g) # {}
    BY <1>4 DEF FdsOn
  <2>2. QED
    BY <1>2, <1>3, <2>1, FS_EmptySet
<1>5. ASSUME NEW t \in Threads, arg[t] = g PROVE Cardinality(CallsOn(g)) > 0
  <2>1. CallsOn(g) # {}
    BY <1>5 DEF CallsOn
  <2>2. QED
    BY <1>2, <1>3, <2>1, FS_EmptySet
<1>6. QED
  BY <1>3, <1>4, <1>5 DEF Held, MountRef

(* What each kind of change to the tables does to the number of holders.   *)
LEMMA FdCount ==
  ASSUME TypeOK, NEW n \in Fds, NEW v, NEW g, ChangedAt(fd, fd', Fds, n, v)
  PROVE  Cardinality(FdsOn(g))' = Cardinality(FdsOn(g)) - Same(fd[n], g) + Same(v, g)
<1>1. IsFiniteSet(Fds)
  BY FileAssumption DEF FileAssumption
<1>2. CountOf(fd', Fds, g) = CountOf(fd, Fds, g) - Same(fd[n], g) + Same(v, g)
  BY <1>1, CountUpdate
<1>3. QED
  BY <1>2, Zenon DEF FdsOn, CountOf

LEMMA ArgCount ==
  ASSUME TypeOK, NEW t \in Threads, NEW v, NEW g, ChangedAt(arg, arg', Threads, t, v)
  PROVE  Cardinality(CallsOn(g))' = Cardinality(CallsOn(g)) - Same(arg[t], g) + Same(v, g)
<1>1. IsFiniteSet(Threads)
  BY FileAssumption DEF FileAssumption
<1>2. CountOf(arg', Threads, g) = CountOf(arg, Threads, g) - Same(arg[t], g) + Same(v, g)
  BY <1>1, CountUpdate
<1>3. QED
  BY <1>2, Zenon DEF CallsOn, CountOf

LEMMA FdChange ==
  ASSUME TypeOK, NEW n \in Fds, NEW v, NEW g,
         ChangedAt(fd, fd', Fds, n, v), UNCHANGED <<mnt, arg>>
  PROVE  Held(g)' = Held(g) - Same(fd[n], g) + Same(v, g)
<1>1. CallsOn(g)' = CallsOn(g) /\ MountRef(g)' = MountRef(g) /\ MountRef(g) \in Nat
  BY DEF CallsOn, MountRef
<1>2. Cardinality(FdsOn(g))' = Cardinality(FdsOn(g)) - Same(fd[n], g) + Same(v, g)
  BY FdCount
<1>3. QED
  BY <1>1, <1>2, HeldNat DEF Held, Same

LEMMA ArgChange ==
  ASSUME TypeOK, NEW t \in Threads, NEW v, NEW g,
         ChangedAt(arg, arg', Threads, t, v), UNCHANGED <<mnt, fd>>
  PROVE  Held(g)' = Held(g) - Same(arg[t], g) + Same(v, g)
<1>1. FdsOn(g)' = FdsOn(g) /\ MountRef(g)' = MountRef(g) /\ MountRef(g) \in Nat
  BY DEF FdsOn, MountRef
<1>2. Cardinality(CallsOn(g))' = Cardinality(CallsOn(g)) - Same(arg[t], g) + Same(v, g)
  BY ArgCount
<1>3. QED
  BY <1>1, <1>2, HeldNat DEF Held, Same

LEMMA MountChange ==
  ASSUME TypeOK, NEW g, UNCHANGED <<fd, arg>>
  PROVE  Held(g)' = Held(g) - Same(mnt, g) + Same(mnt', g)
<1>1. FdsOn(g)' = FdsOn(g) /\ CallsOn(g)' = CallsOn(g)
  BY DEF FdsOn, CallsOn
<1>2. QED
  BY <1>1, HeldNat DEF Held, MountRef, Same

(* Whatever the mount table, a descriptor or a call refers to is allocated.*)
LEMMA HeldIsLive ==
  ASSUME TypeOK, RefsCounted
  PROVE  /\ mnt # NoFile => mnt \in live
         /\ \A n \in Fds : fd[n] \in Files => fd[n] \in live
         /\ \A t \in Threads : arg[t] \in Files => arg[t] \in live
  BY HeldNat, FileAssumption DEF TypeOK, RefsCounted, AllFiles, FileAssumption

(* Acquiring keeps the count, of the mount point or of an allocated object.*)
LEMMA AcquireCounted ==
  ASSUME TypeOK, RefsCounted, NEW f \in live \cup {Outer}, Acquire(f), UNCHANGED <<live, upref>>,
         \A g \in AllFiles : Held(g)' = Held(g) + (IF g = f THEN 1 ELSE 0)
  PROVE  RefsCounted'
<1>1. \A g \in AllFiles : Held(g) \in Nat
  BY HeldNat
<1>2. \A g \in AllFiles : refs'[g] = refs[g] + (IF g = f THEN 1 ELSE 0)
  BY DEF Acquire, TypeOK, AllFiles
<1>3. IsFiniteSet(upref) /\ Cardinality(upref) \in Nat
  BY FS_Subset, FS_CardinalityType, FileAssumption DEF TypeOK, FileAssumption
<1>4. Outer \in AllFiles /\ Files \subseteq AllFiles /\ Outer \notin Files
  BY FileAssumption DEF FileAssumption, AllFiles
<1>5. \A g \in Files : refs'[g] = Held(g)' /\ (g \in live' <=> refs'[g] > 0)
  BY <1>1, <1>2, <1>4 DEF RefsCounted
<1>6. refs'[Outer] = 1 + Held(Outer)' + Cardinality(upref')
  <2>1. Cardinality(upref') = Cardinality(upref)
    OBVIOUS
  <2>2. QED
    BY <1>1, <1>2, <1>3, <1>4, <2>1 DEF RefsCounted
<1>7. QED
  BY <1>5, <1>6 DEF RefsCounted

(* Releasing takes one from the count of f; when f goes with it, a root    *)
(* gives back the reference to the mount point above it as well.           *)
LEMMA ReleaseCounts ==
  ASSUME TypeOK, RefsCounted, NEW f \in AllFiles, Held(f) > 0
  PROVE  /\ RefsWithout(f) \in [AllFiles -> Nat]
         /\ \A g \in Files :
              /\ RefsWithout(f)[g] = Held(g) - (IF g = f THEN 1 ELSE 0)
              /\ g \in LiveWithout(f) <=> RefsWithout(f)[g] > 0
         /\ RefsWithout(f)[Outer] = 1 + Held(Outer) - (IF Outer = f THEN 1 ELSE 0)
                                      + Cardinality(UprefWithout(f))
         /\ UprefWithout(f) \subseteq LiveWithout(f)
<1>1. \A g \in AllFiles : Held(g) \in Nat
  BY HeldNat
<1>2. IsFiniteSet(upref) /\ Cardinality(upref) \in Nat
  BY FS_Subset, FS_CardinalityType, FileAssumption DEF TypeOK, FileAssumption
<1>3. /\ refs[Outer] = 1 + Held(Outer) + Cardinality(upref)
      /\ \A g \in Files : refs[g] = Held(g) /\ (g \in live <=> Held(g) > 0)
  BY DEF RefsCounted
<1>4. Outer \in AllFiles /\ Files \subseteq AllFiles /\ Outer \notin Files
  BY FileAssumption DEF FileAssumption, AllFiles
<1>5. CASE LastRef(f)
  <2>1. UprefWithout(f) = upref \ {f} /\ LiveWithout(f) = live \ {f}
    BY <1>5 DEF UprefWithout, LiveWithout
  <2>2. Cardinality(UprefWithout(f)) =
          IF f \in upref THEN Cardinality(upref) - 1 ELSE Cardinality(upref)
    BY <1>2, <2>1, FS_RemoveElement
  <2>3. f \in Files /\ refs[f] = 1
    BY <1>5 DEF LastRef
  <2>4. f \in upref => Cardinality(upref) > 0
    BY <1>2, FS_EmptySet
  <2>5. \A g \in AllFiles : RefsWithout(f)[g] =
          IF g = f THEN refs[g] - 1 ELSE IF g = Outer /\ f \in upref THEN refs[g] - 1 ELSE refs[g]
    BY <1>5 DEF RefsWithout
  <2>6. \A g \in AllFiles : RefsWithout(f)[g] \in Nat
    BY <1>1, <1>2, <1>3, <1>4, <2>3, <2>4, <2>5 DEF AllFiles
  <2>7. RefsWithout(f) \in [AllFiles -> Nat]
    BY <2>6 DEF RefsWithout
  <2>8. QED
    BY <1>1, <1>2, <1>3, <1>4, <2>1, <2>2, <2>3, <2>5, <2>7 DEF RefsCounted
<1>6. CASE ~LastRef(f)
  <2>1. UprefWithout(f) = upref /\ LiveWithout(f) = live
    BY <1>6 DEF UprefWithout, LiveWithout
  <2>2. \A g \in AllFiles : RefsWithout(f)[g] = IF g = f THEN refs[g] - 1 ELSE refs[g]
    BY <1>6 DEF RefsWithout
  <2>3. f \in Files => refs[f] > 1
    BY <1>1, <1>3, <1>4, <1>6 DEF LastRef
  <2>4. \A g \in AllFiles : RefsWithout(f)[g] \in Nat
    BY <1>1, <1>2, <1>3, <1>4, <2>2, <2>3 DEF AllFiles
  <2>5. RefsWithout(f) \in [AllFiles -> Nat]
    BY <2>4 DEF RefsWithout
  <2>6. QED
    BY <1>1, <1>2, <1>3, <1>4, <2>1, <2>2, <2>3, <2>5 DEF RefsCounted
<1>7. QED
  BY <1>5, <1>6

LEMMA ReleaseCounted ==
  ASSUME TypeOK, RefsCounted, NEW f \in AllFiles, Held(f) > 0, Release(f),
         \A g \in AllFiles : Held(g)' = Held(g) - (IF g = f THEN 1 ELSE 0)
  PROVE  RefsCounted'
<1>1. \A g \in AllFiles : Held(g) \in Nat
  BY HeldNat
<1>2. refs' = RefsWithout(f) /\ live' = LiveWithout(f) /\ upref' = UprefWithout(f)
  BY DEF Release
<1>3. \A g \in Files : refs'[g] = Held(g)' /\ (g \in live' <=> refs'[g] > 0)
  BY <1>1, <1>2, ReleaseCounts DEF AllFiles
<1>4. Outer \in AllFiles /\ Held(Outer) \in Nat
  BY <1>1 DEF AllFiles
<1>5. Cardinality(upref') \in Nat
  <2>1. upref' \in SUBSET Files /\ IsFiniteSet(Files)
    BY <1>2, FileAssumption DEF UprefWithout, TypeOK, FileAssumption
  <2>2. QED
    BY <2>1, FS_Subset, FS_CardinalityType
<1>6. refs'[Outer] = 1 + Held(Outer)' + Cardinality(upref')
  BY <1>2, <1>4, <1>5, ReleaseCounts
<1>7. QED
  BY <1>2, <1>3, <1>6, ReleaseCounts DEF RefsCounted

-------------------------------------------------------------------------------
(* The initial state satisfies the invariant.                              *)
LEMMA InitInv == Init => IndInv
<1> SUFFICES ASSUME Init PROVE IndInv
  OBVIOUS
<1>1. TypeOK
  BY DEF Init, TypeOK, AllFiles, Inos, Phases, Handles, NotOpen
<1>2. \A g \in AllFiles : Held(g) = 0
  <2>1. \A g \in AllFiles : FdsOn(g) = {} /\ CallsOn(g) = {} /\ MountRef(g) = 0
    BY FileAssumption DEF Init, FdsOn, CallsOn, MountRef, FileAssumption
  <2>2. Cardinality({}) = 0
    BY FS_EmptySet
  <2>3. ASSUME NEW g \in AllFiles PROVE Held(g) = 0
    <3>1. Cardinality(FdsOn(g)) = 0 /\ Cardinality(CallsOn(g)) = 0
      BY <2>1, <2>2, Zenon
    <3>2. QED
      BY <2>1, <3>1 DEF Held
  <2>4. QED
    BY <2>3
<1>3. RefsCounted
  <2>1. Cardinality(upref) = 0
    BY FS_EmptySet DEF Init
  <2>2. QED
    BY <1>2, <2>1, FileAssumption DEF Init, RefsCounted, AllFiles, FileAssumption
<1>4. CallInv /\ HandleInv /\ OpenInv /\ ReadUsesItsHandle
  BY DEF Init, CallInv, HandleInv, OpenInv, ReadUsesItsHandle
<1>5. QED
  BY <1>1, <1>3, <1>4 DEF IndInv

(* The steps of the system, by what they do to an object's references.     *)
LEMMA NextCases ==
  ASSUME [Next]_vars
  PROVE  \/ \E f \in Files : Vopen(f)
         \/ Graft \/ Unmount
         \/ \E n \in Fds : Close(n) \/ LookupSelf(n) \/ (\E f \in Files : LookupUp(n, f))
         \/ \E t \in Threads :
              \/ LookupStart(t)
              \/ \E n \in Fds, f \in Files, ino \in Nodes : LookupFound(t, n, f, ino)
              \/ \E n \in Fds : Query(t, n) \/ ReadUnopened(t, n) \/ ReadOpened(t, n)
              \/ pc[t] # "idle" /\ Return(t)
              \/ \E h \in Handles : BackendOpens(t, h)
              \/ BackendRefuses(t) \/ OpenSucceeded(t) \/ ReadSend(t)
         \/ UNCHANGED vars
  BY DEF Next, LookupFails, QueryDone, OpenFailed, ReadNothing, ReadDone

(* What the mount table, a descriptor or a call hands over is an object    *)
(* with a holder.                                                          *)
LEMMA Targets ==
  ASSUME TypeOK, RefsCounted, CallInv
  PROVE  /\ mnt # NoFile => mnt \in Files /\ mnt \in live /\ Held(mnt) > 0
         /\ \A n \in Fds : fd[n] # NoFile => fd[n] \in AllFiles /\ Held(fd[n]) > 0
         /\ \A n \in Fds : fd[n] \in Files => fd[n] \in live
         /\ \A t \in Threads : pc[t] # "idle" =>
              arg[t] \in Files /\ arg[t] \in live /\ Held(arg[t]) > 0
  BY HeldNat, HeldIsLive DEF TypeOK, CallInv, AllFiles

(* Types are kept.                                                         *)
LEMMA TypeStep == IndInv /\ [Next]_vars => TypeOK'
<1> SUFFICES ASSUME IndInv, [Next]_vars PROVE TypeOK'
  OBVIOUS
<1>0. TypeOK /\ RefsCounted /\ CallInv
  BY DEF IndInv
<1>r. ASSUME NEW f \in AllFiles, Held(f) > 0
      PROVE  /\ RefsWithout(f) \in [AllFiles -> Nat]
             /\ LiveWithout(f) \subseteq Files /\ UprefWithout(f) \subseteq Files
  BY <1>0, <1>r, ReleaseCounts DEF LiveWithout, UprefWithout, TypeOK
<1> USE <1>0 DEF TypeOK, AllFiles, Inos, Phases, Handles, NotOpen, fileVars, tableVars, callVars
<1>1. ASSUME NEW f \in Files, Vopen(f) PROVE TypeOK'
  BY <1>1 DEF Vopen, Alloc
<1>2. CASE Graft
  BY <1>2 DEF Graft, AcquireTarget, Acquire
<1>3. CASE Unmount
  <2>1. mnt \in AllFiles /\ Held(mnt) > 0
    BY <1>3, Targets DEF Unmount
  <2>2. QED
    BY <1>3, <1>r, <2>1 DEF Unmount, Release
<1>4. ASSUME NEW n \in Fds, Close(n) PROVE TypeOK'
  <2>1. fd[n] \in AllFiles /\ Held(fd[n]) > 0
    BY <1>4, Targets DEF Close
  <2>2. QED
    BY <1>4, <1>r, <2>1 DEF Close, Release
<1>5. ASSUME NEW n \in Fds, LookupSelf(n) PROVE TypeOK'
  BY <1>5 DEF LookupSelf, AcquireTarget, Acquire
<1>6. ASSUME NEW n \in Fds, NEW f \in Files, LookupUp(n, f) PROVE TypeOK'
  BY <1>6 DEF LookupUp, AcquireTarget, Acquire
<1>7. ASSUME NEW t \in Threads, LookupStart(t) PROVE TypeOK'
  BY <1>7 DEF LookupStart, Acquire
<1>8. ASSUME NEW t \in Threads, NEW n \in Fds, NEW f \in Files, NEW ino \in Nodes,
             LookupFound(t, n, f, ino)
      PROVE  TypeOK'
  <2>1. arg[t] \in AllFiles /\ Held(arg[t]) > 0
    BY <1>8, Targets DEF LookupFound
  <2>2. QED
    BY <1>8, <1>r, <2>1 DEF LookupFound, Alloc
<1>9. ASSUME NEW t \in Threads, NEW n \in Fds,
             Query(t, n) \/ ReadUnopened(t, n) \/ ReadOpened(t, n)
      PROVE  TypeOK'
  <2>1. /\ refs' \in [AllFiles -> Nat] /\ arg' \in [Threads -> AllFiles \cup {NoFile}]
        /\ UNCHANGED <<live, node, fh, upref, mnt, fd, got, opens>>
    BY <1>9 DEF Query, ReadUnopened, ReadOpened, Enter, Acquire
  <2>2. pc' \in [Threads -> Phases]
    BY <1>9 DEF Query, ReadUnopened, ReadOpened
  <2>3. sent' \in [Threads -> [ino : Inos, fh : Handles \cup {NotOpen}]]
    BY <1>9 DEF Query, ReadUnopened, ReadOpened, Enter
  <2>4. QED
    BY <2>1, <2>2, <2>3
<1>10. ASSUME NEW t \in Threads, pc[t] # "idle", Return(t) PROVE TypeOK'
  <2>1. arg[t] \in AllFiles /\ Held(arg[t]) > 0
    BY <1>10, Targets
  <2>2. QED
    BY <1>10, <1>r, <2>1 DEF Return, Release
<1>11. ASSUME NEW t \in Threads, NEW h \in Handles, BackendOpens(t, h) PROVE TypeOK'
  BY <1>11 DEF BackendOpens
<1>12. ASSUME NEW t \in Threads, BackendRefuses(t) PROVE TypeOK'
  BY <1>12 DEF BackendRefuses
<1>13. ASSUME NEW t \in Threads, OpenSucceeded(t) PROVE TypeOK'
  BY <1>13 DEF OpenSucceeded
<1>14. ASSUME NEW t \in Threads, ReadSend(t) PROVE TypeOK'
  <2>1. arg[t] \in Files
    BY <1>14, Targets DEF ReadSend
  <2>2. QED
    BY <1>14, <2>1 DEF ReadSend
<1>15. CASE UNCHANGED vars
  BY <1>15 DEF vars
<1>16. QED
  BY <1>1, <1>2, <1>3, <1>4, <1>5, <1>6, <1>7, <1>8, <1>9, <1>10, <1>11, <1>12, <1>13, <1>14,
     <1>15, NextCases

(* Reference counts are kept.  Taking a reference out of a table adds one  *)
(* holder and one count; giving one back takes both away.                  *)
LEMMA RefsStep == IndInv /\ [Next]_vars => RefsCounted'
<1> SUFFICES ASSUME IndInv, [Next]_vars PROVE RefsCounted'
  OBVIOUS
<1>0. TypeOK /\ RefsCounted /\ CallInv
  BY DEF IndInv
<1>a. \A g \in AllFiles : Held(g) \in Nat
  BY <1>0, HeldNat
<1>b. NoFile \notin AllFiles /\ Outer \notin Files /\ AllFiles = Files \cup {Outer}
  BY FileAssumption DEF FileAssumption, AllFiles
<1> USE <1>0, <1>a, <1>b
<1>1. ASSUME NEW f \in Files, Vopen(f) PROVE RefsCounted'
  <2>1. \A g \in AllFiles : Held(g)' = Held(g) + (IF g = f THEN 1 ELSE 0)
    BY <1>1, MountChange DEF Same, Vopen, callVars
  <2>2. /\ refs' = [refs EXCEPT ![f] = 1] /\ live' = live \cup {f}
        /\ UNCHANGED upref /\ refs[f] = 0
    BY <1>1 DEF Vopen, RefsCounted
  <2>3. \A g \in Files : refs'[g] = Held(g)' /\ (g \in live' <=> refs'[g] > 0)
    BY <2>1, <2>2 DEF RefsCounted, TypeOK
  <2>4. refs'[Outer] = 1 + Held(Outer)' + Cardinality(upref')
    BY <2>1, <2>2 DEF RefsCounted, TypeOK
  <2>5. QED
    BY <2>2, <2>3, <2>4 DEF RefsCounted
<1>2. CASE Graft
  <2>1. \A g \in AllFiles : Held(g)' = Held(g)
    BY <1>2, MountChange DEF Same, Graft, tableVars, callVars
  <2>2. /\ refs' = [refs EXCEPT ![Outer] = @ + 1] /\ upref' = upref \cup {mnt}
        /\ UNCHANGED live /\ mnt \notin upref /\ mnt \in live
    BY <1>2, Targets DEF Graft, AcquireTarget, Acquire
  <2>3. IsFiniteSet(upref) /\ Cardinality(upref) \in Nat
    BY FS_Subset, FS_CardinalityType, FileAssumption DEF TypeOK, FileAssumption
  <2>4. Cardinality(upref') = Cardinality(upref) + 1
    BY <2>2, <2>3, FS_AddElement
  <2>5. \A g \in Files : refs'[g] = Held(g)' /\ (g \in live' <=> refs'[g] > 0)
    BY <2>1, <2>2 DEF RefsCounted, TypeOK
  <2>6. refs'[Outer] = 1 + Held(Outer)' + Cardinality(upref')
    BY <2>1, <2>2, <2>3, <2>4 DEF RefsCounted, TypeOK
  <2>7. QED
    BY <2>2, <2>5, <2>6 DEF RefsCounted
<1>3. CASE Unmount
  <2>1. mnt \in AllFiles /\ Held(mnt) > 0 /\ Release(mnt)
    BY <1>3, Targets DEF Unmount
  <2>2. \A g \in AllFiles : Held(g)' = Held(g) - (IF g = mnt THEN 1 ELSE 0)
    BY <1>3, MountChange DEF Same, Unmount, callVars
  <2>3. QED
    BY <2>1, <2>2, ReleaseCounted
<1>4. ASSUME NEW n \in Fds, Close(n) PROVE RefsCounted'
  <2>1. fd[n] \in AllFiles /\ Held(fd[n]) > 0 /\ Release(fd[n])
    BY <1>4, Targets DEF Close
  <2>2. \A g \in AllFiles : Held(g)' = Held(g) - (IF g = fd[n] THEN 1 ELSE 0)
    <3>1. ChangedAt(fd, fd', Fds, n, NoFile) /\ UNCHANGED <<mnt, arg>>
      BY <1>4 DEF Close, callVars, ChangedAt, TypeOK
    <3>2. QED
      BY <3>1, FdChange DEF Same
  <2>3. QED
    BY <2>1, <2>2, ReleaseCounted
<1>5. ASSUME NEW n \in Fds, LookupSelf(n) PROVE RefsCounted'
  <2>1. mnt \in live /\ Acquire(mnt) /\ UNCHANGED <<live, upref>>
    BY <1>5, Targets DEF LookupSelf, AcquireTarget
  <2>2. \A g \in AllFiles : Held(g)' = Held(g) + (IF g = mnt THEN 1 ELSE 0)
    <3>1. ChangedAt(fd, fd', Fds, n, mnt) /\ fd[n] = NoFile /\ UNCHANGED <<mnt, arg>>
      BY <1>5 DEF LookupSelf, callVars, ChangedAt, TypeOK
    <3>2. QED
      BY <3>1, FdChange DEF Same
  <2>3. QED
    BY <2>1, <2>2, AcquireCounted
<1>6. ASSUME NEW n \in Fds, NEW f \in Files, LookupUp(n, f) PROVE RefsCounted'
  <2> DEFINE target == IF f \in upref THEN Outer ELSE f
  <2>1. target \in live \cup {Outer} /\ Acquire(target) /\ UNCHANGED <<live, upref>>
    BY <1>6 DEF LookupUp, AcquireTarget
  <2>2. ChangedAt(fd, fd', Fds, n, target) /\ fd[n] = NoFile /\ UNCHANGED <<mnt, arg>>
    BY <1>6 DEF LookupUp, callVars, ChangedAt, TypeOK
  <2> HIDE DEF target
  <2>3. \A g \in AllFiles : Held(g)' = Held(g) + (IF g = target THEN 1 ELSE 0)
    BY <2>2, FdChange DEF Same
  <2>4. QED
    BY <2>1, <2>3, AcquireCounted
<1>7. ASSUME NEW t \in Threads, LookupStart(t) PROVE RefsCounted'
  <2>1. mnt \in live /\ Acquire(mnt) /\ UNCHANGED <<live, upref>>
    BY <1>7, Targets DEF LookupStart
  <2>2. arg[t] = NoFile
    BY <1>7 DEF LookupStart, CallInv
  <2>3. \A g \in AllFiles : Held(g)' = Held(g) + (IF g = mnt THEN 1 ELSE 0)
    <3>1. ChangedAt(arg, arg', Threads, t, mnt) /\ UNCHANGED <<mnt, fd>>
      BY <1>7 DEF LookupStart, tableVars, ChangedAt, TypeOK
    <3>2. QED
      BY <2>2, <3>1, ArgChange DEF Same
  <2>4. QED
    BY <2>1, <2>3, AcquireCounted
<1>8. ASSUME NEW t \in Threads, NEW n \in Fds, NEW f \in Files, NEW ino \in Nodes,
             LookupFound(t, n, f, ino)
      PROVE  RefsCounted'
  <2>1. arg[t] \in Files /\ arg[t] \in live /\ Held(arg[t]) > 0
    BY <1>8, Targets DEF LookupFound
  <2>2. f \notin live /\ f # arg[t] /\ Held(f) = 0
    BY <1>8, <2>1 DEF LookupFound, RefsCounted
  <2>3. /\ refs' = [RefsWithout(arg[t]) EXCEPT ![f] = 1]
        /\ live' = LiveWithout(arg[t]) \cup {f} /\ upref' = UprefWithout(arg[t])
    BY <1>8 DEF LookupFound
  <2>4. /\ fd[n] = NoFile /\ ChangedAt(fd, fd', Fds, n, f)
        /\ ChangedAt(arg, arg', Threads, t, NoFile) /\ mnt' = mnt
    BY <1>8 DEF LookupFound, ChangedAt, TypeOK
  <2>5. ASSUME NEW g \in AllFiles
        PROVE  Held(g)' = Held(g) - (IF g = arg[t] THEN 1 ELSE 0) + (IF g = f THEN 1 ELSE 0)
    <3>1. Cardinality(FdsOn(g))' = Cardinality(FdsOn(g)) - Same(fd[n], g) + Same(f, g)
      BY <2>4, FdCount
    <3>2. Cardinality(CallsOn(g))' =
            Cardinality(CallsOn(g)) - Same(arg[t], g) + Same(NoFile, g)
      BY <2>4, ArgCount
    <3>3. MountRef(g)' = MountRef(g) /\ MountRef(g) \in Nat
      BY <2>4 DEF MountRef
    <3>4. QED
      BY <2>4, <3>1, <3>2, <3>3, HeldNat DEF Held, Same
  <2>6. /\ \A g \in Files :
             /\ RefsWithout(arg[t])[g] = Held(g) - (IF g = arg[t] THEN 1 ELSE 0)
             /\ g \in LiveWithout(arg[t]) <=> RefsWithout(arg[t])[g] > 0
        /\ RefsWithout(arg[t])[Outer] = 1 + Held(Outer) + Cardinality(UprefWithout(arg[t]))
        /\ UprefWithout(arg[t]) \subseteq LiveWithout(arg[t])
        /\ RefsWithout(arg[t]) \in [AllFiles -> Nat]
    <3>1. Cardinality(UprefWithout(arg[t])) \in Nat
      <4>1. UprefWithout(arg[t]) \in SUBSET Files /\ IsFiniteSet(Files)
        BY FileAssumption DEF UprefWithout, TypeOK, FileAssumption
      <4>2. QED
        BY <4>1, FS_Subset, FS_CardinalityType
    <3>2. arg[t] \in AllFiles /\ Outer # arg[t]
      BY <2>1
    <3>3. RefsWithout(arg[t])[Outer] = 1 + Held(Outer) - (IF Outer = arg[t] THEN 1 ELSE 0)
                                         + Cardinality(UprefWithout(arg[t]))
      BY <2>1, <3>2, ReleaseCounts
    <3>4. RefsWithout(arg[t])[Outer] = 1 + Held(Outer) + Cardinality(UprefWithout(arg[t]))
      BY <3>1, <3>2, <3>3
    <3>5. QED
      BY <2>1, <3>2, <3>4, ReleaseCounts
  <2>7. \A g \in Files : refs'[g] = Held(g)' /\ (g \in live' <=> refs'[g] > 0)
    BY <2>1, <2>2, <2>3, <2>5, <2>6
  <2>8. refs'[Outer] = 1 + Held(Outer)' + Cardinality(upref')
    BY <2>1, <2>2, <2>3, <2>5, <2>6
  <2>9. QED
    BY <2>3, <2>6, <2>7, <2>8 DEF RefsCounted
<1>9. ASSUME NEW t \in Threads, NEW n \in Fds,
             Query(t, n) \/ ReadUnopened(t, n) \/ ReadOpened(t, n)
      PROVE  RefsCounted'
  <2>1. /\ pc[t] = "idle" /\ fd[n] \in Files /\ Acquire(fd[n])
        /\ ChangedAt(arg, arg', Threads, t, fd[n]) /\ UNCHANGED <<live, upref, mnt, fd>>
    BY <1>9 DEF Query, ReadUnopened, ReadOpened, Enter, tableVars, ChangedAt, TypeOK
  <2>2. fd[n] \in live /\ arg[t] = NoFile
    BY <2>1, Targets DEF CallInv
  <2>3. \A g \in AllFiles : Held(g)' = Held(g) + (IF g = fd[n] THEN 1 ELSE 0)
    BY <2>1, <2>2, ArgChange DEF Same
  <2>4. QED
    BY <2>1, <2>2, <2>3, AcquireCounted
<1>10. ASSUME NEW t \in Threads, pc[t] # "idle", Return(t) PROVE RefsCounted'
  <2>1. arg[t] \in AllFiles /\ Held(arg[t]) > 0 /\ Release(arg[t])
    BY <1>10, Targets DEF Return
  <2>2. \A g \in AllFiles : Held(g)' = Held(g) - (IF g = arg[t] THEN 1 ELSE 0)
    <3>1. ChangedAt(arg, arg', Threads, t, NoFile) /\ UNCHANGED <<mnt, fd>>
      BY <1>10 DEF Return, tableVars, ChangedAt, TypeOK
    <3>2. QED
      BY <3>1, ArgChange DEF Same
  <2>3. QED
    BY <2>1, <2>2, ReleaseCounted
<1>11. ASSUME UNCHANGED <<live, refs, upref, mnt, fd, arg>> PROVE RefsCounted'
  <2>1. \A g : Held(g)' = Held(g)
    BY <1>11 DEF Held, MountRef, FdsOn, CallsOn
  <2>2. QED
    BY <1>11, <2>1 DEF RefsCounted
<1>12. ASSUME NEW t \in Threads,
              \/ \E h \in Handles : BackendOpens(t, h)
              \/ BackendRefuses(t) \/ OpenSucceeded(t) \/ ReadSend(t)
       PROVE  RefsCounted'
  BY <1>11, <1>12 DEF BackendOpens, BackendRefuses, OpenSucceeded, ReadSend, fileVars, tableVars
<1>13. CASE UNCHANGED vars
  BY <1>11, <1>13 DEF vars
<1>14. QED
  BY <1>1, <1>2, <1>3, <1>4, <1>5, <1>6, <1>7, <1>8, <1>9, <1>10, <1>12, <1>13, NextCases

(* A call has its object until it returns.                                 *)
LEMMA CallStep == IndInv /\ [Next]_vars => CallInv'
<1> SUFFICES ASSUME IndInv, [Next]_vars PROVE CallInv'
  OBVIOUS
<1>0. TypeOK /\ RefsCounted /\ CallInv
  BY DEF IndInv
<1>a. NoFile \notin Files
  BY FileAssumption DEF FileAssumption, AllFiles
<1> USE <1>0, <1>a DEF CallInv, TypeOK, fileVars, tableVars, callVars
<1>1. ASSUME NEW f \in Files, Vopen(f) PROVE CallInv'
  BY <1>1 DEF Vopen
<1>2. ASSUME Graft \/ Unmount PROVE CallInv'
  BY <1>2 DEF Graft, Unmount
<1>3. ASSUME NEW n \in Fds, Close(n) \/ LookupSelf(n) PROVE CallInv'
  BY <1>3 DEF Close, LookupSelf
<1>4. ASSUME NEW n \in Fds, NEW f \in Files, LookupUp(n, f) PROVE CallInv'
  BY <1>4 DEF LookupUp
<1>5. ASSUME NEW t \in Threads, LookupStart(t) PROVE CallInv'
  BY <1>5 DEF LookupStart
<1>6. ASSUME NEW t \in Threads, NEW n \in Fds, NEW f \in Files, NEW ino \in Nodes,
             LookupFound(t, n, f, ino)
      PROVE  CallInv'
  BY <1>6 DEF LookupFound
<1>7. ASSUME NEW t \in Threads, NEW n \in Fds,
             Query(t, n) \/ ReadUnopened(t, n) \/ ReadOpened(t, n)
      PROVE  CallInv'
  BY <1>7 DEF Query, ReadUnopened, ReadOpened, Enter
<1>8. ASSUME NEW t \in Threads, Return(t) PROVE CallInv'
  BY <1>8 DEF Return
<1>9. ASSUME NEW t \in Threads, NEW h \in Handles, BackendOpens(t, h) PROVE CallInv'
  BY <1>9 DEF BackendOpens
<1>10. ASSUME NEW t \in Threads, BackendRefuses(t) \/ OpenSucceeded(t) \/ ReadSend(t)
       PROVE  CallInv'
  BY <1>10 DEF BackendRefuses, OpenSucceeded, ReadSend
<1>11. CASE UNCHANGED vars
  BY <1>11 DEF vars
<1>12. QED
  BY <1>1, <1>2, <1>3, <1>4, <1>5, <1>6, <1>7, <1>8, <1>9, <1>10, <1>11, NextCases

(* Handles.  A new object is made at an address that no object has, so no  *)
(* call and no handle of another object is disturbed; a reader that comes  *)
(* late finds its own or another reader's handle, for the same inode.      *)
LEMMA HandleStep == IndInv /\ [Next]_vars => (HandleInv /\ OpenInv /\ ReadUsesItsHandle)'
<1> DEFINE Good == HandleInv /\ OpenInv /\ ReadUsesItsHandle
<1> SUFFICES ASSUME IndInv, [Next]_vars PROVE Good'
  OBVIOUS
<1>0. TypeOK /\ RefsCounted /\ CallInv /\ HandleInv /\ OpenInv /\ ReadUsesItsHandle
  BY DEF IndInv
<1>a. \A t \in Threads : pc[t] # "idle" => arg[t] \in Files /\ arg[t] \in live
  BY <1>0, Targets
<1>b. live \subseteq Files /\ \A f : LiveWithout(f) \subseteq live
  BY <1>0 DEF TypeOK, LiveWithout
<1> USE <1>0, <1>a, <1>b
    DEF HandleInv, OpenInv, ReadUsesItsHandle, fileVars, tableVars, callVars
<1>1. ASSUME NEW f \in Files, Vopen(f) PROVE Good'
  <2>1. /\ f \notin live /\ live' = live \cup {f} /\ fh'[f] = NotOpen
        /\ \A g \in live : fh'[g] = fh[g] /\ node'[g] = node[g]
        /\ UNCHANGED <<pc, arg, sent, got, opens>>
    BY <1>1 DEF Vopen, Alloc, TypeOK
  <2>2. QED
    BY <2>1
<1>2. ASSUME Graft \/ Unmount PROVE Good'
  BY <1>2 DEF Graft, Unmount, Release
<1>3. ASSUME NEW n \in Fds, Close(n) \/ LookupSelf(n) PROVE Good'
  BY <1>3 DEF Close, LookupSelf, Release
<1>4. ASSUME NEW n \in Fds, NEW f \in Files, LookupUp(n, f) PROVE Good'
  BY <1>4 DEF LookupUp
<1>5. ASSUME NEW t \in Threads, LookupStart(t) PROVE Good'
  BY <1>5 DEF LookupStart, TypeOK
<1>6. ASSUME NEW t \in Threads, NEW n \in Fds, NEW f \in Files, NEW ino \in Nodes,
             LookupFound(t, n, f, ino)
      PROVE  Good'
  <2>1. /\ f \notin live /\ live' \subseteq live \cup {f} /\ fh'[f] = NotOpen
        /\ \A g \in live : fh'[g] = fh[g] /\ node'[g] = node[g]
        /\ UNCHANGED <<sent, got, opens>>
    BY <1>6 DEF LookupFound, Alloc, TypeOK
  <2>2. /\ pc'[t] = "idle"
        /\ \A u \in Threads : u # t => pc'[u] = pc[u] /\ arg'[u] = arg[u]
    BY <1>6 DEF LookupFound, TypeOK
  <2>3. QED
    BY <2>1, <2>2
<1>7. ASSUME NEW t \in Threads, NEW n \in Fds, Query(t, n) PROVE Good'
  BY <1>7 DEF Query, Enter, TypeOK
<1>8. ASSUME NEW t \in Threads, NEW n \in Fds, ReadUnopened(t, n) PROVE Good'
  BY <1>8 DEF ReadUnopened, Enter, TypeOK
<1>9. ASSUME NEW t \in Threads, NEW n \in Fds, ReadOpened(t, n) PROVE Good'
  BY <1>9 DEF ReadOpened, Enter, TypeOK
<1>10. ASSUME NEW t \in Threads, Return(t) PROVE Good'
  BY <1>10 DEF Return, Release, TypeOK
<1>11. ASSUME NEW t \in Threads, NEW h \in Handles, BackendOpens(t, h) PROVE Good'
  <2>1. h # NotOpen /\ opens \subseteq opens' /\ <<h, sent[t].ino>> \in opens'
    BY <1>11 DEF BackendOpens, Handles, NotOpen
  <2>2. /\ pc'[t] = "opened" /\ got'[t] = h /\ sent[t].ino = node[arg[t]]
        /\ \A u \in Threads : u # t => pc'[u] = pc[u] /\ got'[u] = got[u]
        /\ UNCHANGED <<fileVars, arg, sent>>
    BY <1>11 DEF BackendOpens, TypeOK
  <2>3. QED
    BY <2>1, <2>2
<1>12. ASSUME NEW t \in Threads, BackendRefuses(t) PROVE Good'
  BY <1>12 DEF BackendRefuses, TypeOK
<1>13. ASSUME NEW t \in Threads, OpenSucceeded(t) PROVE Good'
  BY <1>13 DEF OpenSucceeded, TypeOK
<1>14. ASSUME NEW t \in Threads, ReadSend(t) PROVE Good'
  BY <1>14 DEF ReadSend, TypeOK
<1>15. CASE UNCHANGED vars
  BY <1>15 DEF vars
<1>16. QED
  BY <1>1, <1>2, <1>3, <1>4, <1>5, <1>6, <1>7, <1>8, <1>9, <1>10, <1>11, <1>12, <1>13, <1>14,
     <1>15, NextCases

-------------------------------------------------------------------------------
(* The invariant holds in every reachable state.                           *)
THEOREM Inductive == Spec => []IndInv
<1>1. IndInv /\ [Next]_vars => IndInv'
  BY TypeStep, RefsStep, CallStep, HandleStep DEF IndInv
<1>2. QED
  BY <1>1, InitInv, PTL DEF Spec

(* Every variable of the driver's file layer keeps its type.               *)
THEOREM TypeCorrect == Spec => []TypeOK
<1>1. IndInv => TypeOK
  BY DEF IndInv
<1>2. QED
  BY <1>1, Inductive, PTL

(* Acquire and release balance: the count of every object is the number of *)
(* its holders, and it is allocated exactly while it has one.              *)
THEOREM ReferencesBalance == Spec => []RefsCounted
<1>1. IndInv => RefsCounted
  BY DEF IndInv
<1>2. QED
  BY <1>1, Inductive, PTL

(* No call returns to a freed object, whoever closed or unmounted it.      *)
THEOREM CallsKeepTheirFile == Spec => []CallKeepsFile
<1>1. IndInv => CallKeepsFile
  BY Targets DEF IndInv, CallKeepsFile
<1>2. QED
  BY <1>1, Inductive, PTL

(* Concurrent first reads of one object each open it; whichever handle the *)
(* object ends up with, every READ carries one given out for its inode.    *)
THEOREM ReadsUseTheirHandle == Spec => []ReadUsesItsHandle
<1>1. IndInv => ReadUsesItsHandle
  BY DEF IndInv
<1>2. QED
  BY <1>1, Inductive, PTL
===============================================================================
