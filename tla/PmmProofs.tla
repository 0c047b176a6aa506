------------------------------ MODULE PmmProofs ------------------------------
(***************************************************************************)
(* Proofs about Pmm, for every number of pages, every cache capacity, every *)
(* set of owners and every set of sizes.                                   *)
(***************************************************************************)
EXTENDS Pmm, FiniteSetTheorems, SequenceTheorems, TLAPS

\* A run of n pages that ends inside the memory is a set of n pages.
LEMMA RunOfPages ==
  ASSUME NEW s \in Pages, NEW n \in Nat \ {0}, s + n <= TotalPages
  PROVE  /\ Run(s, n) \subseteq Pages
         /\ IsFiniteSet(Run(s, n))
         /\ Cardinality(Run(s, n)) = n
<1>1. s \in Int /\ s + n - 1 \in Int
  BY PmmAssumption, TotalPagesAssumption DEF Pages
<1>2. /\ IsFiniteSet(s .. (s + n - 1))
      /\ Cardinality(s .. (s + n - 1)) = n
  <2>1. /\ IsFiniteSet(s .. (s + n - 1))
        /\ Cardinality(s .. (s + n - 1)) = IF s > s + n - 1 THEN 0 ELSE (s + n - 1) - s + 1
    BY <1>1, FS_Interval, ZenonT(60)
  <2>2. ~(s > s + n - 1) /\ (s + n - 1) - s + 1 = n
    BY <1>1
  <2> QED BY <2>1, <2>2, ZenonT(60)
<1>3. QED
  BY <1>1, <1>2, PmmAssumption, TotalPagesAssumption DEF Run, Pages

LEMMA PagesFinite ==
  /\ IsFiniteSet(Pages)
  /\ Cardinality(Pages) = TotalPages
  BY PmmAssumption, TotalPagesAssumption, FS_Interval DEF Pages

\* uint64_t arithmetic yields a uint64_t, and is exact when nothing wraps.
LEMMA UnsignedArithmetic ==
  ASSUME NEW x \in Int
  PROVE  /\ x % U64 \in 0 .. U64 - 1
         /\ x \in 0 .. U64 - 1 => x % U64 = x
  BY PmmAssumption, TotalPagesAssumption

\* stack_pop leaves the frames below the top.
LEMMA PopProperties ==
  ASSUME NEW S, NEW q \in Seq(S), q # <<>>
  PROVE  /\ SubSeq(q, 1, Len(q) - 1) \in Seq(S)
         /\ Len(SubSeq(q, 1, Len(q) - 1)) = Len(q) - 1
         /\ \A i \in 1 .. Len(q) - 1 : SubSeq(q, 1, Len(q) - 1)[i] = q[i]
<1> DEFINE k == Len(q) - 1
<1>1. k \in Nat /\ k \in 0 .. Len(q)
  BY EmptySeq
<1>2. \A i \in 1 .. k : q[i] \in S
  BY ElementOfSeq
<1>3. SubSeq(q, 1, k) = Restrict(q, 1 .. k)
  BY <1>1, SubSeqRestrict
<1>4. SubSeq(q, 1, k) = [i \in 1 .. k |-> q[i]]
  BY <1>3 DEF Restrict
<1>5. [i \in 1 .. k |-> q[i]] \in Seq(S)
  BY <1>1, <1>2, IsASeq
<1> DEFINE t == [i \in 1 .. k |-> q[i]]
<1>6. DOMAIN t = 1 .. k /\ DOMAIN t = 1 .. Len(t) /\ Len(t) \in Nat
  BY <1>5, LenProperties
<1>7. Len(t) = k
  BY <1>1, <1>6
<1>8. \A i \in 1 .. k : t[i] = q[i]
  OBVIOUS
<1> HIDE DEF t
<1>9. SubSeq(q, 1, k) = t /\ t \in Seq(S)
  BY <1>4, <1>5 DEF t
<1>10. QED
  BY <1>7, <1>8, <1>9

-----------------------------------------------------------------------------
(***************************************************************************)
(* Whatever sizes the callers use: types, and the reserved pages.          *)
(***************************************************************************)

SafeInv == TypeOK /\ ReservedNeverHandedOut

\* What Deliver and MarkRun do with a free run.
LEMMA GrantPreserves ==
  ASSUME SafeInv, NEW o \in Owners, NEW s \in Pages, NEW n \in Nat \ {0},
         s + n <= TotalPages, Run(s, n) \cap Reserved = {},
         Deliver(o, s, n)
  PROVE  /\ live' \in [Owners -> Runs \cup {NULL}]
         /\ \A p \in Owners : LivePages(p)' \cap Reserved = {}
<1>1. n \in 1 .. TotalPages
  BY PmmAssumption, TotalPagesAssumption DEF Pages
<1> DEFINE r == [start |-> s, n |-> n]
<1>2. r \in Runs
  BY <1>1 DEF Runs
<1>3. CASE s = 0
  BY <1>3 DEF SafeInv, TypeOK, ReservedNeverHandedOut, Deliver, LivePages
<1>4. CASE s # 0
  <2>1. live' = [live EXCEPT ![o] = r]
    BY <1>4 DEF Deliver
  <2>2. live' \in [Owners -> Runs \cup {NULL}]
    BY <2>1, <1>2 DEF SafeInv, TypeOK
  <2>3. ASSUME NEW p \in Owners
        PROVE  LivePages(p)' \cap Reserved = {}
    <3>1. CASE p = o
      BY <3>1, <2>1, <1>2, NullIsNoRun, ZenonT(60) DEF LivePages, SafeInv, TypeOK
    <3>2. CASE p # o
      BY <3>2, <2>1 DEF LivePages, SafeInv, TypeOK, ReservedNeverHandedOut
    <3>3. QED
      BY <3>1, <3>2
  <2>4. QED
    BY <2>2, <2>3
<1>5. QED
  BY <1>3, <1>4

LEMMA MarkedGrantPreserves ==
  ASSUME SafeInv, NEW o \in Owners, NEW s \in Pages, NEW n \in AllocSizes,
         s \in FreeStarts(used, n), MarkRun(s, n), Deliver(o, s, n),
         UNCHANGED frames_stack
  PROVE  SafeInv'
<1>1. n \in Nat \ {0} /\ s + n <= TotalPages /\ Run(s, n) \cap used = {}
  BY PmmAssumption, TotalPagesAssumption DEF FreeStarts
<1>2. Run(s, n) \subseteq Pages
  BY <1>1, RunOfPages
<1>3. Run(s, n) \cap Reserved = {}
  BY <1>1 DEF SafeInv, ReservedNeverHandedOut
<1>4. /\ live' \in [Owners -> Runs \cup {NULL}]
      /\ \A p \in Owners : LivePages(p)' \cap Reserved = {}
  BY <1>1, <1>3, GrantPreserves
<1>5. free_pages' \in 0 .. U64 - 1
  <2>1. free_pages - n \in Int
    BY <1>1, PmmAssumption, TotalPagesAssumption DEF SafeInv, TypeOK
  <2>2. QED
    BY <2>1, UnsignedArithmetic DEF MarkRun, Minus
<1>6. used' \subseteq Pages /\ Reserved \subseteq used'
  BY <1>2 DEF MarkRun, SafeInv, TypeOK, ReservedNeverHandedOut
<1>7. QED
  BY <1>4, <1>5, <1>6 DEF SafeInv, TypeOK, ReservedNeverHandedOut

LEMMA CachedPreserves ==
  ASSUME SafeInv, NEW o \in Owners, PmallocCached(o)
  PROVE  SafeInv'
<1> DEFINE top == Len(frames_stack)
<1>1. /\ frames_stack \in Seq(Pages) /\ frames_stack # <<>>
      /\ top \in Nat \ {0} /\ top <= FRAMES_STACK_ENTRIES
      /\ frames_stack[top] \in Pages /\ frames_stack[top] \notin Reserved
  BY DEF PmallocCached, SafeInv, TypeOK, ReservedNeverHandedOut
<1>2. /\ frames_stack' = SubSeq(frames_stack, 1, top - 1)
      /\ Deliver(o, frames_stack[top], 1)
      /\ free_pages' = Minus(free_pages, 1)
      /\ used' = used
  BY DEF PmallocCached
<1>3. /\ frames_stack' \in Seq(Pages) /\ Len(frames_stack') = top - 1
      /\ \A i \in 1 .. top - 1 : frames_stack'[i] = frames_stack[i]
  BY <1>1, <1>2, PopProperties
<1>4. \A i \in DOMAIN frames_stack' : frames_stack'[i] \notin Reserved
  BY <1>1, <1>3 DEF SafeInv, ReservedNeverHandedOut
<1>5. Run(frames_stack[top], 1) = {frames_stack[top]}
  BY <1>1, PmmAssumption, TotalPagesAssumption DEF Run, Pages
<1>6. /\ live' \in [Owners -> Runs \cup {NULL}]
      /\ \A p \in Owners : LivePages(p)' \cap Reserved = {}
  <2>1. 1 \in Nat \ {0} /\ frames_stack[top] + 1 <= TotalPages
    BY <1>1, PmmAssumption, TotalPagesAssumption DEF Pages
  <2>2. Run(frames_stack[top], 1) \cap Reserved = {}
    BY <1>1, <1>5
  <2>3. QED
    BY <1>1, <1>2, <2>1, <2>2, GrantPreserves, ZenonT(60)
<1>7. free_pages' \in 0 .. U64 - 1
  <2>1. free_pages - 1 \in Int
    BY PmmAssumption, TotalPagesAssumption DEF SafeInv, TypeOK
  <2>2. QED
    BY <1>2, <2>1, UnsignedArithmetic DEF Minus
<1>8. QED
  <2>1. Len(frames_stack') <= FRAMES_STACK_ENTRIES
    BY <1>1, <1>3, PmmAssumption, TotalPagesAssumption
  <2>2. QED
    BY <1>2, <1>3, <1>4, <1>6, <1>7, <2>1, ZenonT(60)
    DEF SafeInv, TypeOK, ReservedNeverHandedOut

LEMMA PfreePreserves ==
  ASSUME SafeInv, NEW o \in Owners, NEW n \in FreeSizes, Pfree(o, n)
  PROVE  SafeInv'
<1> DEFINE s == live[o].start
<1> DEFINE m == live[o].n
<1>1. /\ live[o] \in Runs /\ s \in Pages /\ m \in 1 .. TotalPages
      /\ s + m <= TotalPages /\ n \in Nat \ {0} /\ n <= m
  BY PmmAssumption, TotalPagesAssumption DEF Pfree, Pushes, SafeInv, TypeOK, Runs
<1>2. Run(s, n) \subseteq Run(s, m) /\ s \in Run(s, m)
  BY <1>1, PmmAssumption, TotalPagesAssumption DEF Run, Pages
<1>3. LivePages(o) = Run(s, m) /\ Run(s, m) \cap Reserved = {}
  BY <1>1, NullIsNoRun, ZenonT(60) DEF LivePages, SafeInv, ReservedNeverHandedOut
<1>4. used' \subseteq Pages /\ Reserved \subseteq used'
  BY <1>2, <1>3 DEF Pfree, Pushes, SafeInv, TypeOK, ReservedNeverHandedOut
<1>5. /\ frames_stack' \in Seq(Pages)
      /\ Len(frames_stack') <= FRAMES_STACK_ENTRIES
      /\ \A i \in DOMAIN frames_stack' : frames_stack'[i] \notin Reserved
  <2>1. CASE n = 1 /\ Len(frames_stack) < FRAMES_STACK_ENTRIES
    <3>1. frames_stack' = Append(frames_stack, s)
      BY <2>1 DEF Pfree, Pushes
    <3>2. s \notin Reserved
      BY <1>2, <1>3
    <3>3. QED
      BY <1>1, <2>1, <3>1, <3>2, PmmAssumption, TotalPagesAssumption
      DEF SafeInv, TypeOK, ReservedNeverHandedOut
  <2>2. CASE ~ (n = 1 /\ Len(frames_stack) < FRAMES_STACK_ENTRIES)
    BY <2>2 DEF Pfree, Pushes, SafeInv, TypeOK, ReservedNeverHandedOut
  <2>3. QED
    BY <2>1, <2>2
<1>6. free_pages' \in 0 .. U64 - 1
  <2>1. free_pages + n \in Int
    BY <1>1, PmmAssumption, TotalPagesAssumption DEF SafeInv, TypeOK
  <2>2. QED
    BY <2>1, UnsignedArithmetic DEF Pfree, Plus
<1>7. /\ Shrink(live[o], n) \in Runs \cup {NULL}
      /\ Shrink(live[o], n) # NULL =>
           Run(Shrink(live[o], n).start, Shrink(live[o], n).n) \subseteq Run(s, m)
  <2>1. CASE m = n
    BY <2>1 DEF Shrink
  <2>2. CASE m # n
    <3>1. Shrink(live[o], n) = [start |-> s + n, n |-> m - n]
      BY <2>2 DEF Shrink
    <3>2. s + n \in Pages /\ m - n \in 1 .. TotalPages /\ s + n + (m - n) <= TotalPages
      BY <1>1, <2>2, PmmAssumption, TotalPagesAssumption DEF Pages
    <3>3. Shrink(live[o], n) \in Runs
      BY <3>1, <3>2 DEF Runs
    <3>4. Run(s + n, m - n) \subseteq Run(s, m)
      BY <1>1, PmmAssumption, TotalPagesAssumption DEF Run, Pages
    <3>5. QED
      BY <3>1, <3>3, <3>4
  <2>3. QED
    BY <2>1, <2>2
<1>8. live' = [live EXCEPT ![o] = Shrink(live[o], n)]
  BY DEF Pfree
<1>9. live' \in [Owners -> Runs \cup {NULL}]
  BY <1>7, <1>8 DEF SafeInv, TypeOK
<1>10. ASSUME NEW p \in Owners
       PROVE  LivePages(p)' \cap Reserved = {}
  <2>1. CASE p = o
    <3>1. LivePages(p)' \subseteq Run(s, m)
      BY <2>1, <1>7, <1>8, ZenonT(60) DEF LivePages, SafeInv, TypeOK
    <3>2. QED
      BY <3>1, <1>3
  <2>2. CASE p # o
    BY <2>2, <1>8, ZenonT(60) DEF LivePages, SafeInv, TypeOK, ReservedNeverHandedOut
  <2>3. QED
    BY <2>1, <2>2, ZenonT(60)
<1>11. QED
  BY <1>4, <1>5, <1>6, <1>9, <1>10, ZenonT(60) DEF SafeInv, TypeOK, ReservedNeverHandedOut

\* Both forms of pmm_set_region.
LEMMA SetRegionPreserves ==
  ASSUME SafeInv, NEW s \in Pages, NEW n \in 1 .. TotalPages,
         SetRegionUsed(s, n) \/ SetRegionFree(s, n)
  PROVE  SafeInv'
<1>1. n \in Nat \ {0} /\ s + n <= TotalPages
  BY PmmAssumption, TotalPagesAssumption DEF SetRegionUsed, SetRegionFree
<1>2. /\ Run(s, n) \subseteq Pages /\ IsFiniteSet(Run(s, n))
      /\ Cardinality(Run(s, n)) = n
  BY <1>1, RunOfPages
<1>3. /\ Cardinality(Run(s, n) \ used) \in Nat
      /\ Cardinality(Run(s, n) \cap used) \in Nat
  <2>1. IsFiniteSet(Run(s, n) \ used) /\ IsFiniteSet(Run(s, n) \cap used)
    BY <1>2, FS_Difference, FS_Intersection, ZenonT(60)
  <2>2. QED
    BY <2>1, FS_CardinalityType, ZenonT(60)
<1>4. free_pages \in 0 .. U64 - 1
  BY DEF SafeInv, TypeOK
<1>5. free_pages' \in 0 .. U64 - 1
  <2>1. CASE SetRegionUsed(s, n)
    BY <2>1, <1>3, <1>4, PmmAssumption, TotalPagesAssumption DEF SetRegionUsed
  <2>2. CASE SetRegionFree(s, n)
    <3>1. free_pages + Cardinality(Run(s, n) \cap used) \in Int
      BY <1>3, <1>4, PmmAssumption, TotalPagesAssumption
    <3>2. QED
      BY <2>2, <3>1, UnsignedArithmetic, ZenonT(60) DEF SetRegionFree, Plus
  <2>3. QED
    BY <2>1, <2>2, ZenonT(60)
<1>6. used' \subseteq Pages /\ Reserved \subseteq used'
  BY <1>2 DEF SetRegionUsed, SetRegionFree, SafeInv, TypeOK, ReservedNeverHandedOut
<1>7. UNCHANGED <<frames_stack, live>>
  BY DEF SetRegionUsed, SetRegionFree
<1>8. QED
  BY <1>5, <1>6, <1>7 DEF SafeInv, TypeOK, ReservedNeverHandedOut, LivePages

LEMMA SafeInit == Init => SafeInv
<1>1. /\ IsFiniteSet(Pages \ Reserved)
      /\ Cardinality(Pages \ Reserved) <= TotalPages
  BY PagesFinite, FS_Subset
<1>2. Cardinality(Pages \ Reserved) \in Nat
  BY <1>1, FS_CardinalityType
<1>3. QED
  BY <1>1, <1>2, PmmAssumption, TotalPagesAssumption
  DEF Init, SafeInv, TypeOK, ReservedNeverHandedOut, LivePages

LEMMA SafeStep == SafeInv /\ [Next]_vars => SafeInv'
<1> SUFFICES ASSUME SafeInv, [Next]_vars
             PROVE  SafeInv'
  OBVIOUS
<1>1. CASE UNCHANGED vars
  BY <1>1, ZenonT(60) DEF vars, SafeInv, TypeOK, ReservedNeverHandedOut, LivePages
<1>2. ASSUME NEW o \in Owners, PmallocCached(o)
      PROVE  SafeInv'
  BY <1>2, CachedPreserves, ZenonT(60)
<1>3. ASSUME NEW o \in Owners, NEW n \in AllocSizes, PmallocScan(o, n)
      PROVE  SafeInv'
  BY <1>3, MarkedGrantPreserves, ZenonT(60) DEF PmallocScan, find_free_run, FirstFit
<1>4. ASSUME NEW o \in Owners, NEW n \in AllocSizes, NEW a \in AlignPages,
             PmallocAligned(o, n, a)
      PROVE  SafeInv'
  BY <1>4, MarkedGrantPreserves DEF PmallocAligned, FirstAligned, AlignedStarts
<1>5. ASSUME NEW o \in Owners, NEW n \in FreeSizes, Pfree(o, n)
      PROVE  SafeInv'
  BY <1>5, PfreePreserves
<1>6. ASSUME NEW s \in Pages, NEW n \in 1 .. TotalPages,
             SetRegionUsed(s, n) \/ SetRegionFree(s, n)
      PROVE  SafeInv'
  BY <1>6, SetRegionPreserves
<1>7. QED
  BY <1>1, <1>2, <1>3, <1>4, <1>5, <1>6, ZenonT(60)
  DEF Next, PmallocOutOfMemory, PmallocAlignedOutOfMemory

\* The page allocator keeps its types, whatever sizes its callers use.
THEOREM PmmTypeCorrect == Spec => []TypeOK
<1>1. SafeInv => TypeOK
  BY DEF SafeInv
<1>2. QED
  BY <1>1, SafeInit, SafeStep, PTL DEF Spec

\* A page that pmm_init kept back never reaches a caller of pmalloc or
\* pmalloc_aligned nor the frame cache, whatever sizes the callers use.
THEOREM ReservedPagesStayReserved == Spec => []ReservedNeverHandedOut
<1>1. SafeInv => ReservedNeverHandedOut
  BY DEF SafeInv
<1>2. QED
  BY <1>1, SafeInit, SafeStep, PTL DEF Spec

-----------------------------------------------------------------------------
(***************************************************************************)
(* Until pfree puts a frame on the cache (kmalloc, the only caller in the   *)
(* kernel, never frees) the cache is empty and the bitmap alone decides.   *)
(***************************************************************************)

WholeInv ==
  /\ SafeInv
  /\ frames_stack = <<>>
  /\ HeldPagesMarked
  /\ NoPageShared
  /\ CountExact

\* Taking a set of free pages out of the free ones, and putting it back.
LEMMA FreePagesTaken ==
  ASSUME NEW U \in SUBSET Pages, NEW R \in SUBSET Pages
  PROVE  /\ Cardinality(Pages \ U) \in 0 .. TotalPages
         /\ Cardinality(R) \in Nat
         /\ R \cap U = {} =>
              /\ Cardinality(R) \in 0 .. Cardinality(Pages \ U)
              /\ Cardinality(Pages \ (U \cup R)) = Cardinality(Pages \ U) - Cardinality(R)
         /\ R \subseteq U =>
              Cardinality(Pages \ (U \ R)) = Cardinality(Pages \ U) + Cardinality(R)
<1> DEFINE F == Pages \ U
<1>1. IsFiniteSet(F) /\ IsFiniteSet(R) /\ Cardinality(F) <= TotalPages
  BY PagesFinite, FS_Subset
<1>2. Cardinality(F) \in Nat /\ Cardinality(R) \in Nat
  BY <1>1, FS_CardinalityType
<1>3. ASSUME R \cap U = {}
      PROVE  /\ Cardinality(R) <= Cardinality(F)
             /\ Cardinality(Pages \ (U \cup R)) = Cardinality(F) - Cardinality(R)
  <2>1. R \in SUBSET F /\ F \cap R = R /\ Pages \ (U \cup R) = F \ R
    BY <1>3
  <2>2. Cardinality(F \ R) = Cardinality(F) - Cardinality(F \cap R)
    BY <1>1, FS_Difference, ZenonT(60)
  <2>3. Cardinality(R) <= Cardinality(F)
    BY <1>1, <2>1, FS_Subset, ZenonT(60)
  <2>4. QED
    BY <2>1, <2>2, <2>3, ZenonT(60)
<1>4. ASSUME R \subseteq U
      PROVE  Cardinality(Pages \ (U \ R)) = Cardinality(F) + Cardinality(R)
  <2>1. Pages \ (U \ R) = F \cup R /\ F \cap R = {}
    BY <1>4
  <2>2. Cardinality(F \cup R) = Cardinality(F) + Cardinality(R) - Cardinality(F \cap R)
    BY <1>1, FS_Union, ZenonT(60)
  <2>3. Cardinality(F \cap R) = 0
    BY <2>1, FS_EmptySet
  <2>4. Cardinality(Pages \ (U \ R)) = Cardinality(F \cup R)
    BY <2>1, Zenon
  <2> HIDE DEF F
  <2>5. QED
    BY <1>2, <2>2, <2>3, <2>4
<1>5. QED
  BY <1>1, <1>2, <1>3, <1>4, PmmAssumption, TotalPagesAssumption

LEMMA GrantWhole ==
  ASSUME WholeInv, NEW o \in Owners, NEW s \in Pages, NEW n \in AllocSizes,
         live[o] = NULL, s \in FreeStarts(used, n), MarkRun(s, n), Deliver(o, s, n),
         UNCHANGED frames_stack
  PROVE  WholeInv'
<1>1. n \in Nat \ {0} /\ s + n <= TotalPages /\ Run(s, n) \cap used = {}
  BY PmmAssumption, TotalPagesAssumption, ZenonT(60) DEF FreeStarts
<1>2. Run(s, n) \subseteq Pages /\ Cardinality(Run(s, n)) = n
  BY <1>1, RunOfPages, ZenonT(60)
<1>3. SafeInv'
  BY MarkedGrantPreserves, ZenonT(60) DEF WholeInv
<1>4. \A p \in Owners : LivePages(p)' = LivePages(p) \/ (p = o /\ LivePages(p)' = Run(s, n))
  <2>1. live \in [Owners -> Runs \cup {NULL}]
    BY DEF WholeInv, SafeInv, TypeOK
  <2>2. CASE s = 0
    BY <2>2, ZenonT(60) DEF Deliver, LivePages
  <2>3. CASE s # 0
    <3>1. [start |-> s, n |-> n] \in Runs
      BY <1>1, PmmAssumption, TotalPagesAssumption DEF Runs, Pages
    <3>2. live' = [live EXCEPT ![o] = [start |-> s, n |-> n]]
      BY <2>3 DEF Deliver
    <3>3. QED
      BY <2>1, <3>1, <3>2, NullIsNoRun, ZenonT(60) DEF LivePages
  <2>4. QED
    BY <2>2, <2>3
<1>5. \A p \in Owners : LivePages(p) \subseteq used
  BY DEF WholeInv, HeldPagesMarked, AllLivePages
<1>6. used' = used \cup Run(s, n)
  BY ZenonT(60) DEF MarkRun
<1>7. HeldPagesMarked'
  BY <1>4, <1>5, <1>6, ZenonT(60) DEF HeldPagesMarked, AllLivePages
<1>8. NoPageShared'
  BY <1>1, <1>4, <1>5 DEF NoPageShared, WholeInv
<1>9. CountExact'
  <2>1. used \subseteq Pages /\ free_pages = Cardinality(Pages \ used)
    BY ZenonT(60) DEF WholeInv, SafeInv, TypeOK, CountExact
  <2>2. /\ Cardinality(Pages \ used) \in 0 .. TotalPages
        /\ n \in 0 .. Cardinality(Pages \ used)
        /\ Cardinality(Pages \ used') = Cardinality(Pages \ used) - n
    <3>1. Run(s, n) \in SUBSET Pages /\ used \in SUBSET Pages
      BY <1>2, <2>1
    <3>2. /\ Cardinality(Pages \ used) \in 0 .. TotalPages
          /\ Cardinality(Run(s, n)) \in 0 .. Cardinality(Pages \ used)
          /\ Cardinality(Pages \ (used \cup Run(s, n)))
               = Cardinality(Pages \ used) - Cardinality(Run(s, n))
      BY <1>1, <3>1, FreePagesTaken, ZenonT(60)
    <3>3. QED
      BY <1>2, <1>6, <3>2, ZenonT(60)
  <2>3. free_pages - n \in Int /\ free_pages - n \in 0 .. U64 - 1
    BY <2>1, <2>2, PmmAssumption, TotalPagesAssumption
  <2>4. free_pages' = free_pages - n
    BY <2>3, UnsignedArithmetic, ZenonT(60) DEF MarkRun, Minus
  <2>5. QED
    BY <2>1, <2>2, <2>4, ZenonT(60) DEF CountExact
<1>10. frames_stack' = <<>>
  BY ZenonT(60) DEF WholeInv
<1>11. QED
  BY <1>3, <1>7, <1>8, <1>9, <1>10, ZenonT(60) DEF WholeInv

LEMMA PfreeWhole ==
  ASSUME WholeInv, NEW o \in Owners, NEW n \in FreeSizes, Pfree(o, n), ~ Pushes(n)
  PROVE  WholeInv'
<1> DEFINE s == live[o].start
<1> DEFINE m == live[o].n
<1>1. /\ live[o] \in Runs /\ s \in Pages /\ m \in 1 .. TotalPages
      /\ s + m <= TotalPages /\ n \in Nat \ {0} /\ n <= m
  BY PmmAssumption, TotalPagesAssumption, ZenonT(60) DEF Pfree, WholeInv, SafeInv, TypeOK, Runs
<1>2. LivePages(o) = Run(s, m)
  BY <1>1, NullIsNoRun, ZenonT(60) DEF LivePages
<1>3. /\ Run(s, n) \subseteq Run(s, m) /\ Run(s, m) \subseteq Pages
      /\ Cardinality(Run(s, n)) = n
  <2>1. Run(s, n) \subseteq Run(s, m)
    BY <1>1, PmmAssumption, TotalPagesAssumption DEF Run, Pages
  <2>2. s + n <= TotalPages /\ m \in Nat \ {0}
    BY <1>1, PmmAssumption, TotalPagesAssumption DEF Pages
  <2>3. QED
    BY <1>1, <2>1, <2>2, RunOfPages, ZenonT(60)
<1>4. SafeInv'
  BY PfreePreserves DEF WholeInv
<1>5. frames_stack' = <<>>
  BY <1>1 DEF Pfree, WholeInv
<1>6. live' = [live EXCEPT ![o] = Shrink(live[o], n)] /\ used' = used \ Run(s, n)
  BY DEF Pfree
<1>7. LivePages(o)' = Run(s, m) \ Run(s, n)
  <2>1. live \in [Owners -> Runs \cup {NULL}]
    BY DEF WholeInv, SafeInv, TypeOK
  <2>2. CASE m = n
    BY <1>6, <2>1, <2>2, ZenonT(60) DEF LivePages, Shrink
  <2>3. CASE m # n
    <3>1. live'[o] = [start |-> s + n, n |-> m - n]
      BY <1>6, <2>1, <2>3, ZenonT(60) DEF Shrink
    <3>2. s + n \in Pages /\ m - n \in 1 .. TotalPages /\ s + n + (m - n) <= TotalPages
      BY <1>1, <2>3, PmmAssumption, TotalPagesAssumption DEF Pages
    <3>3. live'[o] \in Runs
      BY <3>1, <3>2 DEF Runs
    <3>4. LivePages(o)' = Run(s + n, m - n)
      BY <3>1, <3>3, NullIsNoRun DEF LivePages
    <3>5. Run(s + n, m - n) = Run(s, m) \ Run(s, n)
      BY <1>1, PmmAssumption, TotalPagesAssumption DEF Run, Pages
    <3>6. QED
      BY <3>4, <3>5, ZenonT(60)
  <2>4. QED
    BY <2>2, <2>3, ZenonT(60)
<1>8. \A p \in Owners : p # o => LivePages(p)' = LivePages(p)
  BY <1>6, ZenonT(60) DEF LivePages, WholeInv, SafeInv, TypeOK
<1>9. \A p \in Owners : LivePages(p) \subseteq used
  BY DEF WholeInv, HeldPagesMarked, AllLivePages
<1>10. \A p \in Owners : p # o => LivePages(p) \cap Run(s, m) = {}
  BY <1>2, ZenonT(60) DEF WholeInv, NoPageShared
<1>11. HeldPagesMarked'
  BY <1>2, <1>3, <1>6, <1>7, <1>8, <1>9, <1>10, SMTT(60) DEF HeldPagesMarked, AllLivePages
<1>12. NoPageShared'
  <2>1. \A p \in Owners : LivePages(p)' \subseteq LivePages(p)
    BY <1>2, <1>7, <1>8, ZenonT(60)
  <2>2. QED
    BY <2>1 DEF NoPageShared, WholeInv
<1>13. CountExact'
  <2>1. used \subseteq Pages /\ free_pages = Cardinality(Pages \ used)
    BY ZenonT(60) DEF WholeInv, SafeInv, TypeOK, CountExact
  <2>2. Run(s, n) \subseteq used
    BY <1>2, <1>3, <1>9, ZenonT(60)
  <2>3. /\ Cardinality(Pages \ used) \in 0 .. TotalPages
        /\ Cardinality(Pages \ used') = Cardinality(Pages \ used) + n
    <3>1. Run(s, n) \in SUBSET Pages /\ used \in SUBSET Pages
      BY <1>3, <2>1
    <3>2. /\ Cardinality(Pages \ used) \in 0 .. TotalPages
          /\ Cardinality(Pages \ (used \ Run(s, n)))
               = Cardinality(Pages \ used) + Cardinality(Run(s, n))
      BY <2>2, <3>1, FreePagesTaken, ZenonT(60)
    <3>3. QED
      BY <1>3, <1>6, <3>2, ZenonT(60)
  <2>4. Cardinality(Pages \ used') \in 0 .. TotalPages
    BY <1>4, FreePagesTaken, ZenonT(60) DEF SafeInv, TypeOK
  <2>5. free_pages + n \in Int /\ free_pages + n \in 0 .. U64 - 1
    BY <1>1, <2>1, <2>3, <2>4, PmmAssumption, TotalPagesAssumption
  <2>6. free_pages' = free_pages + n
    BY <2>5, UnsignedArithmetic, ZenonT(60) DEF Pfree, Plus
  <2>7. QED
    BY <2>1, <2>3, <2>6, ZenonT(60) DEF CountExact
<1>14. QED
  BY <1>4, <1>5, <1>11, <1>12, <1>13, ZenonT(60) DEF WholeInv

LEMMA SetRegionWhole ==
  ASSUME WholeInv, NEW s \in Pages, NEW n \in 1 .. TotalPages,
         SetRegionUsed(s, n) \/ SetRegionFree(s, n)
  PROVE  WholeInv'
<1> DEFINE R == Run(s, n)
<1>1. /\ R \subseteq Pages /\ R \cap AllLivePages = {}
      /\ UNCHANGED <<frames_stack, live>>
  <2>1. n \in Nat \ {0} /\ s + n <= TotalPages
    BY PmmAssumption, TotalPagesAssumption DEF SetRegionUsed, SetRegionFree
  <2>2. QED
    BY <2>1, RunOfPages, ZenonT(60) DEF SetRegionUsed, SetRegionFree
<1>2. SafeInv'
  BY SetRegionPreserves, ZenonT(60) DEF WholeInv
<1>3. AllLivePages' = AllLivePages /\ \A p \in Owners : LivePages(p)' = LivePages(p)
  BY <1>1, ZenonT(60) DEF AllLivePages, LivePages
<1>4. HeldPagesMarked'
  BY <1>1, <1>3, ZenonT(60) DEF HeldPagesMarked, WholeInv, SetRegionUsed, SetRegionFree
<1>5. NoPageShared'
  BY <1>3 DEF NoPageShared, WholeInv
<1>6. used \subseteq Pages /\ free_pages = Cardinality(Pages \ used)
  BY DEF WholeInv, SafeInv, TypeOK, CountExact
<1> HIDE DEF R
<1>7. CountExact'
  <2>1. CASE SetRegionUsed(s, n)
    <3> DEFINE T == R \ used
    <3>1. /\ used' = used \cup R
          /\ free_pages' = IF free_pages > Cardinality(T)
                           THEN free_pages - Cardinality(T) ELSE 0
      BY <2>1, ZenonT(60) DEF SetRegionUsed, R
    <3>2. T \subseteq Pages /\ T \cap used = {} /\ used \cup R = used \cup T
      BY <1>1
    <3> HIDE DEF T
    <3>3. /\ Cardinality(T) \in 0 .. Cardinality(Pages \ used)
          /\ Cardinality(Pages \ used) \in 0 .. TotalPages
          /\ Cardinality(Pages \ (used \cup T)) = Cardinality(Pages \ used) - Cardinality(T)
      BY <1>6, <3>2, FreePagesTaken, ZenonT(60)
    <3>4. QED
      BY <1>6, <3>1, <3>2, <3>3, PmmAssumption, TotalPagesAssumption, SMTT(60) DEF CountExact
  <2>2. CASE SetRegionFree(s, n)
    <3> DEFINE T == R \cap used
    <3>1. used' = used \ R /\ free_pages' = Plus(free_pages, Cardinality(T))
      BY <2>2 DEF SetRegionFree, R
    <3>2. T \in SUBSET Pages /\ T \subseteq used /\ used \ R = used \ T
      BY <1>1
    <3> HIDE DEF T
    <3>3. /\ Cardinality(Pages \ used) \in 0 .. TotalPages
          /\ Cardinality(T) \in Nat
          /\ Cardinality(Pages \ (used \ T)) = Cardinality(Pages \ used) + Cardinality(T)
      BY <1>6, <3>2, FreePagesTaken, ZenonT(60)
    <3>4. /\ Cardinality(Pages \ used') \in 0 .. TotalPages
          /\ Cardinality(Pages \ used') = Cardinality(Pages \ (used \ T))
      <4>1. used' \in SUBSET Pages
        BY <1>2, ZenonT(60) DEF SafeInv, TypeOK
      <4>2. used' = used \ T
        BY <3>1, <3>2, ZenonT(60)
      <4>3. QED
        BY <4>1, <4>2, FreePagesTaken, ZenonT(60)
    <3>5. free_pages + Cardinality(T) \in 0 .. U64 - 1
      BY <1>6, <3>3, <3>4, PmmAssumption, TotalPagesAssumption
    <3>6. free_pages' = free_pages + Cardinality(T)
      BY <3>1, <3>5, UnsignedArithmetic DEF Plus
    <3>7. QED
      BY <1>6, <3>3, <3>4, <3>6, ZenonT(60) DEF CountExact
  <2>3. QED
    BY <2>1, <2>2, ZenonT(60)
<1>8. QED
  BY <1>1, <1>2, <1>4, <1>5, <1>7, ZenonT(60) DEF WholeInv

LEMMA WholeInit == Init => WholeInv
<1> SUFFICES ASSUME Init
             PROVE  WholeInv
  OBVIOUS
<1>1. \A o \in Owners : LivePages(o) = {}
  BY DEF Init, LivePages
<1>2. HeldPagesMarked /\ NoPageShared
  BY <1>1, ZenonT(60) DEF HeldPagesMarked, NoPageShared, AllLivePages
<1>3. QED
  BY <1>2, SafeInit DEF Init, WholeInv, CountExact

\* The whole argument: safe always, and exact until a frame is pushed.
PmmInv ==
  /\ SafeInv
  /\ pushed \in {0, 1}
  /\ pushed = 0 => WholeInv

LEMMA PmmStep == PmmInv /\ [Next]_vars => PmmInv'
<1> SUFFICES ASSUME PmmInv, [Next]_vars
             PROVE  PmmInv'
  OBVIOUS
<1>0. SafeInv'
  BY SafeStep, ZenonT(60) DEF PmmInv
<1>1. CASE UNCHANGED vars
  BY <1>0, <1>1, ZenonT(60) DEF vars, PmmInv, WholeInv, LivePages,
     HeldPagesMarked, AllLivePages, NoPageShared, CountExact
<1>2. ASSUME NEW o \in Owners, PmallocCached(o)
      PROVE  PmmInv'
  BY <1>0, <1>2 DEF PmallocCached, PmmInv, WholeInv
<1>3. ASSUME NEW o \in Owners, NEW n \in AllocSizes, PmallocScan(o, n)
      PROVE  PmmInv'
  BY <1>0, <1>3, GrantWhole, ZenonT(60) DEF PmmInv, PmallocScan, find_free_run, FirstFit
<1>4. ASSUME NEW o \in Owners, NEW n \in AllocSizes, NEW a \in AlignPages,
             PmallocAligned(o, n, a)
      PROVE  PmmInv'
  BY <1>0, <1>4, GrantWhole, ZenonT(60) DEF PmmInv, PmallocAligned, FirstAligned, AlignedStarts
<1>5. ASSUME NEW o \in Owners, NEW n \in FreeSizes, Pfree(o, n)
      PROVE  PmmInv'
  <2>1. pushed' = IF Pushes(n) THEN 1 ELSE pushed
    BY <1>5 DEF Pfree
  <2>2. QED
    BY <1>0, <1>5, <2>1, PfreeWhole DEF PmmInv
<1>6. ASSUME NEW s \in Pages, NEW n \in 1 .. TotalPages,
             SetRegionUsed(s, n) \/ SetRegionFree(s, n)
      PROVE  PmmInv'
  <2>1. pushed' = pushed
    BY <1>6 DEF SetRegionUsed, SetRegionFree
  <2>2. QED
    BY <1>0, <1>6, <2>1, SetRegionWhole, ZenonT(60) DEF PmmInv
<1>7. QED
  BY <1>1, <1>2, <1>3, <1>4, <1>5, <1>6, ZenonT(60)
  DEF Next, PmallocOutOfMemory, PmallocAlignedOutOfMemory

LEMMA PmmInvariant == Spec => []PmmInv
<1>1. Init => PmmInv
  BY WholeInit DEF PmmInv, WholeInv, Init
<1>2. QED
  BY <1>1, PmmStep, PTL DEF Spec

\* As long as no frame has been put on the cache, no page is handed out twice.
THEOREM PagesAreExclusive == Spec => []ExclusiveOwnership
<1>1. PmmInv => ExclusiveOwnership
  BY DEF PmmInv, WholeInv, ExclusiveOwnership
<1>2. QED
  BY <1>1, PmmInvariant, PTL

\* As long as no frame has been put on the cache, free_pages counts the 0 bits
\* of the bitmap: it neither drifts nor wraps around.
THEOREM PagesAreCounted == Spec => []FreeCountExact
<1>1. PmmInv => FreeCountExact
  BY DEF PmmInv, WholeInv, FreeCountExact
<1>2. QED
  BY <1>1, PmmInvariant, PTL

=============================================================================
