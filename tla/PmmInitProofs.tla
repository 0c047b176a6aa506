---------------------------- MODULE PmmInitProofs ----------------------------
(***************************************************************************)
(* pmm_init leaves exactly the free pages free, for every memory map, size *)
(* of a page and size of the frame cache.                                  *)
(***************************************************************************)
EXTENDS PmmInit, FiniteSetTheorems, WellFoundedInduction, TLAPS

-----------------------------------------------------------------------------
(* Numbers, pages and counts *)

\* A set of numbers has a least element: the induction behind the two scans
\* pmm_init makes over the memory map.
LEMMA Least ==
  ASSUME NEW S \in SUBSET Nat, S # {}
  PROVE  \E x \in S : \A y \in S : x <= y
<1>1. PICK x \in S : \A y \in S : ~(<<y, x>> \in OpToRel(<, Nat))
  BY NatLessThanWellFounded, WFMin, Zenon
<1>2. ASSUME NEW y \in S
      PROVE  x <= y
  <2>1. ~(y < x)
    BY <1>1, Zenon DEF OpToRel
  <2>2. QED
    BY <2>1
<1>3. QED
  BY <1>2

\* The last entry with a property.
LEMMA Greatest ==
  ASSUME NEW n \in Nat, NEW S \in SUBSET (1 .. n), S # {}
  PROVE  \E x \in S : \A y \in S : y <= x
<1> DEFINE T == {n - x : x \in S}
<1>1. T \in SUBSET Nat
  OBVIOUS
<1>2. T # {}
  BY ZenonT(60)
<1>3. PICK t \in T : \A y \in T : t <= y
  BY <1>1, <1>2, Least, ZenonT(60)
<1>4. PICK x \in S : t = n - x
  BY <1>3
<1>5. ASSUME NEW y \in S
      PROVE  y <= x
  <2>1. n - x <= n - y
    BY <1>3, <1>4, ZenonT(60)
  <2>2. QED
    BY <2>1
<1>6. QED
  BY <1>5

\* Rounding an address down to whole units.
LEMMA Floor ==
  ASSUME NEW a \in Nat, NEW d \in Nat \ {0}
  PROVE  /\ a \div d \in Nat
         /\ \A p \in Int : p < a \div d <=> (p + 1) * d <= a
OBVIOUS

\* Rounding up.
LEMMA Ceiling ==
  ASSUME NEW a \in Nat, NEW d \in Nat \ {0}
  PROVE  /\ Ceil(a, d) \in Nat
         /\ \A p \in Int : p < Ceil(a, d) <=> p * d < a
<1>1. a + d - 1 \in Nat
  OBVIOUS
<1>2. /\ Ceil(a, d) \in Nat
      /\ \A p \in Int : p < Ceil(a, d) <=> (p + 1) * d <= a + d - 1
  BY <1>1, Floor DEF Ceil
<1>3. \A p \in Int : (p + 1) * d = p * d + d /\ p * d \in Int
  OBVIOUS
<1>4. QED
  BY <1>2, <1>3

\* Whole pages end with a page.
LEMMA WholePages ==
  ASSUME NEW a \in Nat, NEW to \in Nat, NEW d \in Nat \ {0}, a % d = 0, to % d = 0
  PROVE  a + to = ((a + to) \div d) * d
<1> DEFINE p == a \div d
           q == to \div d
<1>1. a = d * p + (a % d) /\ p \in Int
  OBVIOUS
<1>2. to = d * q + (to % d) /\ q \in Int
  OBVIOUS
<1> HIDE DEF p, q
<1>3. a = d * p /\ to = d * q
  BY <1>1, <1>2
<1>4. PICK r \in Int : a + to = d * r /\ d * r = r * d
  <2>1. a + to = d * (p + q) /\ p + q \in Int
    BY <1>1, <1>2, <1>3
  <2>2. \A r \in Int : d * r = r * d
    OBVIOUS
  <2>3. QED
    BY <2>1, <2>2, Zenon
<1>5. (d * r) \div d = r
  OBVIOUS
<1>6. QED
  BY <1>4, <1>5, Zenon

\* Pages that become free are counted once.
LEMMA CountDisjoint ==
  ASSUME NEW V, NEW D, IsFiniteSet(V), IsFiniteSet(D), V \cap D = {}
  PROVE  /\ Cardinality(V) \in Nat /\ Cardinality(D) \in Nat
         /\ Cardinality(V \cup D) = Cardinality(V) + Cardinality(D)
<1>1. /\ Cardinality(V) \in Nat /\ Cardinality(D) \in Nat
      /\ Cardinality(V \cup D) = Cardinality(V) + Cardinality(D) - Cardinality(V \cap D)
  BY FS_Union, FS_CardinalityType, ZenonT(60)
<1>2. Cardinality(V \cap D) = 0
  BY FS_EmptySet, Zenon
<1>3. QED
  BY <1>1, <1>2

\* Pages that are marked are no longer counted, if they were.
LEMMA CountDown ==
  ASSUME NEW A, IsFiniteSet(A), NEW U \in SUBSET A, NEW S \in SUBSET A
  PROVE  Cardinality(A \ (U \cup S)) = Cardinality(A \ U) - Cardinality(S \ U)
<1> DEFINE V == A \ (U \cup S)
           D == S \ U
<1>1. IsFiniteSet(V) /\ IsFiniteSet(D)
  BY FS_Subset, Zenon
<1>2. V \cap D = {} /\ A \ U = V \cup D
  OBVIOUS
<1> HIDE DEF V, D
<1>3. /\ Cardinality(V) \in Nat /\ Cardinality(D) \in Nat
      /\ Cardinality(A \ U) = Cardinality(V) + Cardinality(D)
  BY <1>1, <1>2, CountDisjoint, Zenon
<1>4. Cardinality(V) = Cardinality(A \ U) - Cardinality(D)
  BY <1>3
<1>5. QED
  BY <1>4 DEF V, D

-----------------------------------------------------------------------------
(* What its parts leave *)

Entries == [base : Nat, length : Nat, type : {"usable", "reclaimable", "reserved"}]

\* The map m without the first n bytes of its entry c.
Cut(m, c, n) == [m EXCEPT ![c].base = @ + n, ![c].length = @ - n]

\* bitmap_size_bytes and total_pages are no longer changed; all memory, and the
\* range of the kernel, is below total_pages.
Sized ==
  /\ \A k \in DOMAIN map0 :
       map0[k].type # "reserved" => map0[k].base + map0[k].length <= total_pages * PMM_PAGE_SIZE
  /\ KernelEnd <= total_pages * PMM_PAGE_SIZE

\* The map is that of the boot loader, but for the bytes of bitmap and frame cache.
Carved ==
  \E c \in DOMAIN map0 :
    /\ map0[c].type = "usable" /\ map0[c].length >= needed_bytes
    /\ bitmap_phys = map0[c].base
    /\ mmap = Cut(map0, c, needed_bytes)

\* The pages of the entries before entry n.
FreedBefore(n) ==
  UNION {UsableEntryPages(mmap[k]) : k \in {l \in 1 .. n - 1 : mmap[l].type = "usable"}}

AllFreed == FreedBefore(Len(mmap) + 1)

BootInv ==
  /\ map0 \in Maps /\ total_pages \in Nat /\ bitmap_phys \in Nat
  /\ pc \in {"size", "choose", "panic", "fill", "free", "stack", "kernel", "ready"}
  /\ pc \in {"size", "choose", "panic"} => mmap = map0
  /\ pc \in {"size", "choose", "fill"} => i = 1
  /\ pc # "size" => Sized
  /\ PanicMeansNoRegion
  /\ pc \in {"fill", "free", "stack", "kernel", "ready"} => Carved
  /\ pc = "free" => i \in 1 .. Len(mmap) + 1 /\ used = AllPages \ FreedBefore(i)
  /\ pc = "stack" => used = (AllPages \ AllFreed) \cup BitmapPages
  /\ pc = "kernel" => used = (AllPages \ AllFreed) \cup BitmapPages \cup StackPages
  /\ pc = "ready" => used = (AllPages \ AllFreed) \cup BitmapPages \cup StackPages
                                 \cup KernelPages
  /\ pc \in {"free", "stack", "kernel", "ready"} =>
       used \subseteq AllPages /\ free_pages = Cardinality(AllPages \ used)

\* A map of the boot loader, in the form the steps use.
LEMMA MapTypes ==
  ASSUME Constants, NEW m \in Maps
  PROVE  /\ m \in Seq(Entries) /\ Len(m) \in Nat /\ DOMAIN m = 1 .. Len(m)
         /\ \A k \in DOMAIN m : m[k] \in Entries
<1>1. m \in Seq(Entries)
  BY DEF Constants, Limine, Entries
<1>2. QED
  BY <1>1

\* The bytes of bitmap and frame cache.
LEMMA SizesAre ==
  ASSUME Constants, total_pages \in Nat
  PROVE  /\ bitmap_size_bytes \in Nat /\ needed_bytes \in Nat
         /\ needed_bytes = bitmap_size_bytes + FRAMES_STACK_PAGES * PMM_PAGE_SIZE
         /\ FRAMES_STACK_PAGES * PMM_PAGE_SIZE \in Nat
<1>1. bitmap_size_bytes \in Nat
  BY Ceiling DEF Constants, bitmap_size_bytes
<1>2. FRAMES_STACK_PAGES * PMM_PAGE_SIZE \in Nat
  BY DEF Constants
<1>3. QED
  BY <1>1, <1>2 DEF needed_bytes

\* 1) the sorted map has a last entry that is memory; it ends with a page.
LEMMA SizeStep ==
  ASSUME Constants, BootInv, SizeMemory
  PROVE  total_pages' \in Nat /\ Sized'
<1> DEFINE m == map0
           end(k) == m[k].base + m[k].length
           memory == {l \in DOMAIN m : m[l].type # "reserved"}
           ends == {end(k) : k \in memory}
           highest == CHOOSE e \in ends : \A f \in ends : f <= e
<1>1. m \in Maps /\ mmap = m /\ map0' = m /\ total_pages' = highest \div PMM_PAGE_SIZE
  BY DEF BootInv, SizeMemory
<1>2. /\ Len(m) \in Nat /\ DOMAIN m = 1 .. Len(m)
      /\ \A k \in DOMAIN m : m[k].base \in Nat /\ m[k].length \in Nat
  BY <1>1, MapTypes DEF Entries
<1>3. PICK x \in memory : \A y \in memory : y <= x
  <2>1. memory \in SUBSET (1 .. Len(m)) /\ memory # {}
    BY <1>1, <1>2, ZenonT(60) DEF Constants, Limine
  <2>2. QED
    BY <1>2, <2>1, Greatest, ZenonT(60)
<1>4. \A y \in memory : end(y) <= end(x)
  <2>1. ASSUME NEW y \in memory
        PROVE  end(y) <= end(x)
    <3>1. y <= x /\ y \in DOMAIN m /\ x \in DOMAIN m
      BY <1>3
    <3>2. y < x => end(y) <= m[x].base
      BY <1>1, <3>1, Zenon DEF Constants, Limine
    <3>3. QED
      BY <1>2, <3>1, <3>2
  <2>2. QED
    BY <2>1
<1>5. highest \in ends /\ \A f \in ends : f <= highest
  BY <1>3, <1>4, ZenonT(60)
<1>6. highest = end(x)
  BY <1>2, <1>3, <1>4, <1>5
<1>7. PICK k \in memory : end(k) >= KernelEnd
  BY <1>1 DEF Constants, Limine
<1>8. end(x) \in Nat /\ end(x) = (end(x) \div PMM_PAGE_SIZE) * PMM_PAGE_SIZE
  <2>1. /\ m[x].base \in Nat /\ m[x].length \in Nat /\ PMM_PAGE_SIZE \in Nat \ {0}
        /\ m[x].base % PMM_PAGE_SIZE = 0 /\ m[x].length % PMM_PAGE_SIZE = 0
    BY <1>1, <1>2, <1>3, ZenonT(60) DEF Constants, Limine
  <2>2. m[x].base + m[x].length = ((m[x].base + m[x].length) \div PMM_PAGE_SIZE) * PMM_PAGE_SIZE
    BY <2>1, WholePages
  <2>3. QED
    BY <2>1, <2>2
<1>9. total_pages' \in Nat /\ end(x) = total_pages' * PMM_PAGE_SIZE
  <2>1. end(x) \div PMM_PAGE_SIZE \in Nat
    BY <1>8, Floor DEF Constants
  <2>2. QED
    BY <1>1, <1>6, <1>8, <2>1, Zenon
<1>10. KernelEnd <= end(x)
  BY <1>2, <1>4, <1>7 DEF Constants
<1>11. QED
  BY <1>1, <1>4, <1>9, <1>10, Zenon DEF Sized

-----------------------------------------------------------------------------
(* pmm_init: the pages of a range of bytes *)

\* Memory below total_pages * PMM_PAGE_SIZE ends with page total_pages - 1.
LEMMA EndsBelow ==
  ASSUME Constants, total_pages \in Nat, NEW to \in Nat, to <= total_pages * PMM_PAGE_SIZE
  PROVE  to \div PMM_PAGE_SIZE <= total_pages /\ Ceil(to, PMM_PAGE_SIZE) <= total_pages
<1>1. PMM_PAGE_SIZE \in Nat \ {0} /\ total_pages \in Int
  BY DEF Constants
<1>2. /\ to \div PMM_PAGE_SIZE \in Nat
      /\ total_pages < to \div PMM_PAGE_SIZE => (total_pages + 1) * PMM_PAGE_SIZE <= to
  BY <1>1, Floor
<1>3. /\ Ceil(to, PMM_PAGE_SIZE) \in Nat
      /\ total_pages < Ceil(to, PMM_PAGE_SIZE) => total_pages * PMM_PAGE_SIZE < to
  BY <1>1, Ceiling
<1>4. ~(total_pages < to \div PMM_PAGE_SIZE)
  <2>1. total_pages * PMM_PAGE_SIZE < (total_pages + 1) * PMM_PAGE_SIZE
    BY <1>1
  <2>2. QED
    BY <1>1, <1>2, <2>1
<1>5. ~(total_pages < Ceil(to, PMM_PAGE_SIZE))
  BY <1>1, <1>3
<1>6. QED
  BY <1>2, <1>3, <1>4, <1>5

\* So the pages of a range of memory have bits.
LEMMA RangeWithin ==
  ASSUME Constants, total_pages \in Nat, NEW a \in Nat, NEW to \in Nat,
         to <= total_pages * PMM_PAGE_SIZE
  PROVE  /\ PageRange(a \div PMM_PAGE_SIZE, to \div PMM_PAGE_SIZE) \subseteq AllPages
         /\ PageRange(a \div PMM_PAGE_SIZE, Ceil(to, PMM_PAGE_SIZE)) \subseteq AllPages
<1> DEFINE f == a \div PMM_PAGE_SIZE
           g == to \div PMM_PAGE_SIZE
           h == Ceil(to, PMM_PAGE_SIZE)
<1>1. f \in Nat /\ g \in Nat /\ h \in Nat
  BY Floor, Ceiling, ZenonT(60) DEF Constants
<1>2. g <= total_pages /\ h <= total_pages
  BY EndsBelow
<1> HIDE DEF f, g, h
<1>3. f .. g - 1 \subseteq 0 .. total_pages - 1 /\ f .. h - 1 \subseteq 0 .. total_pages - 1
  BY <1>1, <1>2
<1>4. QED
  BY <1>3 DEF PageRange, AllPages, f, g, h

\* The pages that the bytes a, .., to - 1 end, and those they touch.
LEMMA InRange ==
  ASSUME Constants, NEW a \in Nat, NEW to \in Nat, NEW p
  PROVE  /\ p \in PageRange(a \div PMM_PAGE_SIZE, to \div PMM_PAGE_SIZE)
              <=> p \in Int /\ a < (p + 1) * PMM_PAGE_SIZE /\ (p + 1) * PMM_PAGE_SIZE <= to
         /\ p \in PageRange(a \div PMM_PAGE_SIZE, Ceil(to, PMM_PAGE_SIZE))
              <=> p \in Int /\ a < (p + 1) * PMM_PAGE_SIZE /\ p * PMM_PAGE_SIZE < to
<1> DEFINE f == a \div PMM_PAGE_SIZE
           g == to \div PMM_PAGE_SIZE
           h == Ceil(to, PMM_PAGE_SIZE)
           d == PMM_PAGE_SIZE
<1>1. d \in Nat \ {0}
  BY DEF Constants
<1>2. f \in Nat /\ g \in Nat /\ h \in Nat
  BY <1>1, Floor, Ceiling, ZenonT(60)
<1>3. p \in Int => /\ p < f <=> (p + 1) * d <= a
                   /\ p < g <=> (p + 1) * d <= to
                   /\ p < h <=> p * d < to
                   /\ (p + 1) * d \in Int
  <2>1. \A q \in Int : q < f <=> (q + 1) * d <= a
    BY <1>1, Floor
  <2>2. \A q \in Int : q < g <=> (q + 1) * d <= to
    BY <1>1, Floor
  <2>3. \A q \in Int : q < h <=> q * d < to
    BY <1>1, Ceiling, ZenonT(60)
  <2>4. p \in Int => (p + 1) * d \in Int
    BY <1>1
  <2>5. QED
    BY <2>1, <2>2, <2>3, <2>4, Zenon
<1> HIDE DEF f, g, h, d
<1>4. /\ p \in f .. g - 1 <=> p \in Int /\ ~(p < f) /\ p < g
      /\ p \in f .. h - 1 <=> p \in Int /\ ~(p < f) /\ p < h
  BY <1>2
<1>5. /\ p \in f .. g - 1 <=> p \in Int /\ a < (p + 1) * d /\ (p + 1) * d <= to
      /\ p \in f .. h - 1 <=> p \in Int /\ a < (p + 1) * d /\ p * d < to
  <2>1. p \in Int => (~(p < f) <=> a < (p + 1) * d)
    BY <1>3
  <2>2. QED
    BY <1>3, <1>4, <2>1, ZenonT(60)
<1>6. QED
  BY <1>5 DEF PageRange, f, g, h, d

\* The bitmap is finite.
LEMMA PagesFinite ==
  ASSUME total_pages \in Nat
  PROVE  IsFiniteSet(AllPages)
BY FS_Interval DEF AllPages, PageRange

-----------------------------------------------------------------------------
(* pmm_init: the shortened map *)

\* The entries of the map from which region c was taken.
IsCarved(c) ==
  /\ c \in DOMAIN map0 /\ map0[c].type = "usable"
  /\ Len(mmap) \in Nat /\ Len(mmap) = Len(map0)
  /\ DOMAIN map0 = 1 .. Len(mmap) /\ DOMAIN mmap = 1 .. Len(mmap)
  /\ \A k \in DOMAIN map0 :
       /\ map0[k].base \in Nat /\ map0[k].length \in Nat
       /\ mmap[k].base \in Nat /\ mmap[k].length \in Nat
       /\ mmap[k].type = map0[k].type
       /\ k # c => mmap[k] = map0[k]
       /\ mmap[k].base + mmap[k].length = map0[k].base + map0[k].length
       /\ map0[k].base <= mmap[k].base
       /\ \A l \in DOMAIN map0 : k < l => mmap[k].base + mmap[k].length <= mmap[l].base
  /\ bitmap_phys = map0[c].base /\ mmap[c].base = bitmap_phys + needed_bytes
  /\ bitmap_phys + needed_bytes <= map0[c].base + map0[c].length

\* Shortening entry c changes its address and its length.
LEMMA CutEntry ==
  ASSUME NEW m \in Seq(Entries), NEW c \in 1 .. Len(m), NEW n \in Nat
  PROVE  /\ Len(Cut(m, c, n)) = Len(m)
         /\ DOMAIN Cut(m, c, n) = DOMAIN m
         /\ Cut(m, c, n)[c].base = m[c].base + n
         /\ Cut(m, c, n)[c].length = m[c].length - n
         /\ Cut(m, c, n)[c].type = m[c].type
         /\ \A k \in DOMAIN m : k # c => Cut(m, c, n)[k] = m[k]
<1>1. DOMAIN Cut(m, c, n) = DOMAIN m
  BY DEF Cut
<1>2. Len(Cut(m, c, n)) = Len(m)
  BY DEF Cut
<1>3. Cut(m, c, n)[c].base = m[c].base + n
  BY DEF Cut, Entries
<1>4. Cut(m, c, n)[c].length = m[c].length - n
  BY DEF Cut, Entries
<1>5. Cut(m, c, n)[c].type = m[c].type
  BY DEF Cut, Entries
<1>6. \A k \in DOMAIN m : k # c => Cut(m, c, n)[k] = m[k]
  BY DEF Cut
<1>7. QED
  BY <1>1, <1>2, <1>3, <1>4, <1>5, <1>6

\* The shortened map is still sorted and ends where it did.
LEMMA CarvedMap ==
  ASSUME Constants, map0 \in Maps, total_pages \in Nat, Carved
  PROVE  \E c : IsCarved(c)
<1> DEFINE n == needed_bytes
<1>1. n \in Nat
  BY SizesAre
<1>2. PICK c \in DOMAIN map0 : /\ map0[c].type = "usable" /\ map0[c].length >= n
                               /\ bitmap_phys = map0[c].base
                               /\ mmap = Cut(map0, c, n)
  BY DEF Carved
<1>3. /\ map0 \in Seq(Entries) /\ Len(map0) \in Nat /\ DOMAIN map0 = 1 .. Len(map0)
      /\ \A k \in DOMAIN map0 : map0[k] \in Entries
  BY MapTypes
<1> HIDE DEF n
<1>4. /\ Len(mmap) = Len(map0) /\ DOMAIN mmap = DOMAIN map0
      /\ mmap[c].base = map0[c].base + n
      /\ mmap[c].length = map0[c].length - n
      /\ mmap[c].type = map0[c].type
      /\ \A k \in DOMAIN map0 : k # c => mmap[k] = map0[k]
  <2>1. c \in 1 .. Len(map0)
    BY <1>3
  <2>2. QED
    BY <1>1, <1>2, <1>3, <2>1, CutEntry, ZenonT(60)
<1>5. ASSUME NEW k \in DOMAIN map0
      PROVE  /\ map0[k].base \in Nat /\ map0[k].length \in Nat
             /\ mmap[k].base \in Nat /\ mmap[k].length \in Nat
             /\ mmap[k].type = map0[k].type
             /\ mmap[k].base + mmap[k].length = map0[k].base + map0[k].length
             /\ map0[k].base <= mmap[k].base
  <2>1. map0[k].base \in Nat /\ map0[k].length \in Nat
    BY <1>3 DEF Entries
  <2>2. CASE k = c
    <3>1. \A x \in Nat, y \in Nat :
            y >= n => x + n \in Nat /\ y - n \in Nat /\ (x + n) + (y - n) = x + y /\ x <= x + n
      BY <1>1
    <3>2. map0[c].base \in Nat /\ map0[c].length \in Nat /\ map0[c].length >= n
      BY <1>2, <2>1, <2>2, Zenon
    <3> DEFINE x == map0[c].base
               y == map0[c].length
    <3>3. /\ x + n \in Nat /\ y - n \in Nat
          /\ (x + n) + (y - n) = x + y /\ x <= x + n
      BY <3>1, <3>2, Zenon
    <3>4. mmap[c].base = x + n /\ mmap[c].length = y - n /\ mmap[c].type = map0[c].type
      BY <1>4, Zenon
    <3> HIDE DEF x, y
    <3>5. /\ mmap[c].base \in Nat /\ mmap[c].length \in Nat
          /\ mmap[c].base + mmap[c].length = x + y /\ x <= mmap[c].base
      BY <3>3, <3>4, Zenon
    <3>6. QED
      BY <2>1, <2>2, <3>4, <3>5, Zenon DEF x, y
  <2>3. CASE k # c
    BY <1>4, <2>1, <2>3
  <2>4. QED
    BY <2>2, <2>3
<1>6. ASSUME NEW k \in DOMAIN map0, NEW l \in DOMAIN map0, k < l
      PROVE  mmap[k].base + mmap[k].length <= mmap[l].base
  <2>1. map0[k].base + map0[k].length <= map0[l].base
    BY <1>6, ZenonT(60) DEF Constants, Limine
  <2>2. QED
    BY <1>5, <2>1
<1>7. /\ mmap[c].base = bitmap_phys + n
      /\ bitmap_phys + n <= map0[c].base + map0[c].length
  <2>1. map0[c].base \in Nat /\ map0[c].length \in Nat
    BY <1>5
  <2>2. QED
    BY <1>1, <1>2, <1>4, <2>1
<1>8. IsCarved(c)
  BY <1>2, <1>3, <1>4, <1>5, <1>6, <1>7, ZenonT(60) DEF IsCarved, n
<1>9. QED
  BY <1>8

\* The pages of an entry lie in the bitmap, and no other entry has them.
LEMMA EntryPages ==
  ASSUME Constants, total_pages \in Nat, Sized, NEW c, IsCarved(c), NEW k \in DOMAIN map0
  PROVE  /\ map0[k].type = "usable" =>
              /\ UsableEntryPages(mmap[k]) \subseteq AllPages
              /\ UsableEntryPages(map0[k]) \subseteq AllPages
         /\ \A l \in DOMAIN map0 :
              k < l => UsableEntryPages(mmap[k]) \cap UsableEntryPages(mmap[l]) = {}
<1>1. /\ map0[k].base \in Nat /\ map0[k].length \in Nat
      /\ mmap[k].base \in Nat /\ mmap[k].length \in Nat
      /\ mmap[k].base + mmap[k].length = map0[k].base + map0[k].length
  BY DEF IsCarved
<1>2. ASSUME map0[k].type = "usable"
      PROVE  /\ UsableEntryPages(mmap[k]) \subseteq AllPages
             /\ UsableEntryPages(map0[k]) \subseteq AllPages
  <2>1. map0[k].base + map0[k].length <= total_pages * PMM_PAGE_SIZE
    BY <1>2, ZenonT(60) DEF Sized
  <2>2. map0[k].base + map0[k].length \in Nat /\ mmap[k].base + mmap[k].length \in Nat
    BY <1>1
  <2>3. QED
    BY <1>1, <2>1, <2>2, RangeWithin, ZenonT(60) DEF UsableEntryPages
<1>3. ASSUME NEW l \in DOMAIN map0, k < l, NEW p \in UsableEntryPages(mmap[k]),
             p \in UsableEntryPages(mmap[l])
      PROVE  FALSE
  <2>1. mmap[l].base \in Nat /\ mmap[l].length \in Nat
    BY DEF IsCarved
  <2>2. mmap[k].base + mmap[k].length <= mmap[l].base
    BY <1>3, ZenonT(60) DEF IsCarved
  <2>3. mmap[k].base + mmap[k].length \in Nat /\ mmap[l].base + mmap[l].length \in Nat
    BY <1>1, <2>1
  <2>4. p \in Int /\ (p + 1) * PMM_PAGE_SIZE <= mmap[k].base + mmap[k].length
    BY <1>1, <2>3, InRange, Zenon DEF UsableEntryPages
  <2>5. mmap[l].base < (p + 1) * PMM_PAGE_SIZE
    BY <1>3, <2>1, <2>3, InRange, ZenonT(60) DEF UsableEntryPages
  <2>6. (p + 1) * PMM_PAGE_SIZE \in Int
    BY <2>4 DEF Constants
  <2>7. \A x \in Int, y \in Int, z \in Int : ~(z <= x /\ x <= y /\ y < z)
    OBVIOUS
  <2>8. mmap[k].base + mmap[k].length \in Int /\ mmap[l].base \in Int
    BY <2>1, <2>3
  <2>9. QED
    BY <2>2, <2>4, <2>5, <2>6, <2>7, <2>8, ZenonT(60)
<1>4. QED
  BY <1>2, <1>3, ZenonT(60)

\* The pages of the bitmap, the frame cache and the kernel lie in the bitmap.
LEMMA MarkedWithin ==
  ASSUME Constants, total_pages \in Nat, Sized, NEW c, IsCarved(c)
  PROVE  /\ BitmapPages \subseteq AllPages
         /\ StackPages \subseteq AllPages
         /\ KernelPages \subseteq AllPages
<1> DEFINE n == needed_bytes
           s == bitmap_size_bytes
           f == FRAMES_STACK_PAGES * PMM_PAGE_SIZE
           t == total_pages * PMM_PAGE_SIZE
           e == map0[c].base + map0[c].length
<1>1. n \in Nat /\ s \in Nat /\ f \in Nat /\ n = s + f
  BY SizesAre, ZenonT(60)
<1>2. bitmap_phys \in Nat /\ e \in Nat /\ bitmap_phys + n <= e
  BY DEF IsCarved
<1>3. e <= t /\ KernelEnd <= t /\ KernelStart \in Nat /\ KernelEnd \in Nat
  BY DEF IsCarved, Sized, Constants
<1>4. t \in Nat
  BY DEF Constants
<1> HIDE DEF n, s, f, t, e
<1>5. /\ bitmap_phys + s \in Nat /\ bitmap_phys + s + f \in Nat
      /\ bitmap_phys + s <= t /\ bitmap_phys + s + f <= t
  BY <1>1, <1>2, <1>3, <1>4
<1>6. BitmapPages \subseteq AllPages
  BY <1>2, <1>5, RangeWithin, Zenon DEF BitmapPages, s, t
<1>7. StackPages \subseteq AllPages
  BY <1>5, RangeWithin, Zenon DEF StackPages, frames_stack_phys, s, f, t
<1>8. KernelPages \subseteq AllPages
  BY <1>3, RangeWithin, Zenon DEF KernelPages, t
<1>9. QED
  BY <1>6, <1>7, <1>8

\* 7) one more entry: its pages were all marked.
LEMMA FreedNext ==
  ASSUME Constants, total_pages \in Nat, Sized, NEW c, IsCarved(c),
         NEW n \in 1 .. Len(mmap)
  PROVE  /\ FreedBefore(n + 1) =
              IF mmap[n].type = "usable" THEN FreedBefore(n) \cup UsableEntryPages(mmap[n])
              ELSE FreedBefore(n)
         /\ FreedBefore(n) \cap UsableEntryPages(mmap[n]) = {}
<1>1. Len(mmap) \in Nat /\ DOMAIN map0 = 1 .. Len(mmap)
  BY DEF IsCarved
<1>2. /\ 1 .. (n + 1) - 1 = (1 .. n - 1) \cup {n} /\ n \notin 1 .. n - 1
      /\ \A l \in 1 .. n - 1 : l \in 1 .. Len(mmap) /\ l < n
  BY <1>1
<1>3. \A p : p \in FreedBefore(n) <=>
        \E k \in 1 .. n - 1 : mmap[k].type = "usable" /\ p \in UsableEntryPages(mmap[k])
  BY Zenon DEF FreedBefore
<1>4. \A p : p \in FreedBefore(n + 1) <=>
        \E k \in (1 .. n - 1) \cup {n} :
          mmap[k].type = "usable" /\ p \in UsableEntryPages(mmap[k])
  BY <1>2, Zenon DEF FreedBefore
<1>5. ASSUME NEW p \in FreedBefore(n), p \in UsableEntryPages(mmap[n])
      PROVE  FALSE
  <2>1. PICK k \in 1 .. n - 1 : p \in UsableEntryPages(mmap[k])
    BY <1>3
  <2>2. UsableEntryPages(mmap[k]) \cap UsableEntryPages(mmap[n]) = {}
    BY <1>1, <1>2, EntryPages, Zenon
  <2>3. QED
    BY <1>5, <2>1, <2>2, ZenonT(60)
<1>6. mmap[n].type = "usable" =>
        FreedBefore(n + 1) = FreedBefore(n) \cup UsableEntryPages(mmap[n])
  BY <1>3, <1>4, Zenon
<1>7. mmap[n].type # "usable" => FreedBefore(n + 1) = FreedBefore(n)
  BY <1>3, <1>4, ZenonT(60)
<1>8. QED
  BY <1>5, <1>6, <1>7, ZenonT(60)

-----------------------------------------------------------------------------
(* pmm_init: the invariant *)

\* pmm_init starts with the map as it is passed.
LEMMA BootInit ==
  ASSUME Constants, Init
  PROVE  BootInv
BY DEF Init, BootInv, PanicMeansNoRegion

\* The steps that read the map and the sizes leave them.
LEMMA SameMap ==
  ASSUME UNCHANGED <<map0, mmap, total_pages, bitmap_phys>>
  PROVE  /\ (map0 \in Maps)' = (map0 \in Maps)
         /\ (total_pages \in Nat)' = (total_pages \in Nat)
         /\ (bitmap_phys \in Nat)' = (bitmap_phys \in Nat)
         /\ Sized' = Sized /\ Carved' = Carved
         /\ AllPages' = AllPages /\ AllFreed' = AllFreed
         /\ BitmapPages' = BitmapPages /\ StackPages' = StackPages
         /\ KernelPages' = KernelPages
<1>1. /\ (map0 \in Maps)' = (map0 \in Maps) /\ (total_pages \in Nat)' = (total_pages \in Nat)
      /\ (bitmap_phys \in Nat)' = (bitmap_phys \in Nat)
  BY Zenon
<1>2. Sized' = Sized
  BY Zenon DEF Sized
<1>3. bitmap_size_bytes' = bitmap_size_bytes /\ needed_bytes' = needed_bytes
  BY Zenon DEF bitmap_size_bytes, needed_bytes
<1>4. Carved' = Carved
  BY <1>3, Zenon DEF Carved
<1>5. AllFreed' = AllFreed
  BY Zenon DEF AllFreed, FreedBefore
<1>6. /\ AllPages' = AllPages /\ KernelPages' = KernelPages
      /\ BitmapPages' = BitmapPages /\ StackPages' = StackPages
  BY <1>3, ZenonT(60) DEF AllPages, BitmapPages, StackPages, KernelPages,
     frames_stack_phys
<1>7. QED
  BY <1>1, <1>2, <1>4, <1>5, <1>6, ZenonT(60)

\* 4) the entry found is large enough.
LEMMA ChooseStep ==
  ASSUME Constants, BootInv, ChooseRegion
  PROVE  Carved' /\ bitmap_phys' \in Nat
<1>1. map0 \in Maps /\ mmap = map0 /\ map0' = map0 /\ total_pages' = total_pages
  BY DEF BootInv, ChooseRegion
<1>2. PICK k \in DOMAIN map0 : /\ map0[k].type = "usable" /\ map0[k].length >= needed_bytes
                               /\ bitmap_phys' = map0[k].base
                               /\ mmap' = Cut(map0, k, needed_bytes)
  BY <1>1, Zenon DEF ChooseRegion, Fits, Cut
<1>3. needed_bytes' = needed_bytes
  BY <1>1, Zenon DEF needed_bytes, bitmap_size_bytes
<1>4. Carved'
  BY <1>1, <1>2, <1>3, ZenonT(60) DEF Carved
<1>5. map0[k].base \in Nat
  BY <1>1, MapTypes DEF Entries
<1>6. QED
  BY <1>2, <1>4, <1>5

\* The first entry that is large enough would not be at address 0.
LEMMA PanicStep ==
  ASSUME Constants, BootInv, Panic
  PROVE  PanicMeansNoRegion'
<1>1. map0 \in Maps /\ mmap = map0 /\ UNCHANGED <<map0, mmap, total_pages>>
  BY DEF BootInv, Panic
<1>2. Len(map0) \in Nat /\ DOMAIN map0 = 1 .. Len(map0) /\ \A k \in DOMAIN map0 : map0[k].base \in Nat
  BY <1>1, MapTypes DEF Entries
<1> DEFINE S == {k \in 1 .. Len(map0) : Fits(k)}
<1>3. ASSUME S # {}
      PROVE  FALSE
  <2>1. S \in SUBSET Nat
    BY <1>2
  <2>2. PICK x \in S : \A y \in S : x <= y
    BY <1>3, <2>1, Least, Zenon
  <2>3. \A l \in 1 .. x - 1 : ~ Fits(l)
    <3>1. \A l \in 1 .. x - 1 : l \in 1 .. Len(map0) /\ ~(x <= l)
      BY <1>2, <2>2
    <3>2. QED
      BY <2>2, <3>1, ZenonT(60)
  <2>4. mmap[x].base = 0
    BY <1>1, <1>2, <2>2, <2>3, ZenonT(60) DEF Panic
  <2>5. map0[x].base > 0
    BY <1>1, <1>2, <2>2, ZenonT(60) DEF Fits, Constants, Limine
  <2>6. QED
    BY <1>1, <1>2, <2>2, <2>4, <2>5
<1>4. \A k \in DOMAIN map0 : ~ Fits(k)
  BY <1>2, <1>3, Zenon
<1>5. \A k : Fits(k)' = Fits(k)
  BY <1>1, Zenon DEF Fits, needed_bytes, bitmap_size_bytes
<1>6. QED
  BY <1>1, <1>4, <1>5, ZenonT(60) DEF PanicMeansNoRegion

\* 6) every page is marked, none is counted.
LEMMA FillStep ==
  ASSUME Constants, BootInv, FillBitmap
  PROVE  /\ i' \in 1 .. Len(mmap') + 1 /\ used' = AllPages' \ FreedBefore(i)'
         /\ used' \subseteq AllPages' /\ free_pages' = Cardinality(AllPages' \ used')
<1>1. /\ Carved /\ i = 1 /\ i' = i /\ used' = AllPages /\ free_pages' = 0
      /\ UNCHANGED <<map0, mmap, total_pages, bitmap_phys>> /\ map0 \in Maps /\ total_pages \in Nat
  BY DEF BootInv, FillBitmap
<1>2. PICK c : IsCarved(c)
  BY <1>1, CarvedMap, ZenonT(60)
<1>3. Len(mmap) \in Nat
  BY <1>2 DEF IsCarved
<1>4. AllPages' = AllPages
  BY <1>1, SameMap
<1>5. FreedBefore(i)' = {}
  BY <1>1 DEF FreedBefore
<1>6. Cardinality({}) = 0
  BY FS_EmptySet
<1>7. QED
  BY <1>1, <1>3, <1>4, <1>5, <1>6

\* 7) the pages of one entry are freed and counted.
LEMMA FreeStep ==
  ASSUME Constants, BootInv, FreeEntry
  PROVE  /\ i' \in 1 .. Len(mmap') + 1 /\ used' = AllPages' \ FreedBefore(i)'
         /\ used' \subseteq AllPages' /\ free_pages' = Cardinality(AllPages' \ used')
<1> DEFINE A == AllPages
           E == UsableEntryPages(mmap[i])
<1>1. /\ Carved /\ Sized /\ map0 \in Maps /\ total_pages \in Nat
      /\ i \in 1 .. Len(mmap) + 1 /\ i <= Len(mmap) /\ i' = i + 1
      /\ used = A \ FreedBefore(i) /\ free_pages = Cardinality(A \ used)
      /\ UNCHANGED <<map0, mmap, total_pages, bitmap_phys>>
  BY DEF BootInv, FreeEntry
<1>2. PICK c : IsCarved(c)
  BY <1>1, CarvedMap, ZenonT(60)
<1>3. Len(mmap) \in Nat /\ DOMAIN map0 = 1 .. Len(mmap) /\ DOMAIN mmap = 1 .. Len(mmap)
  BY <1>2 DEF IsCarved
<1>4. i \in 1 .. Len(mmap) /\ i' \in 1 .. Len(mmap') + 1
  BY <1>1, <1>3
<1>5. A' = A
  BY <1>1, SameMap
<1>6. FreedBefore(i)' = FreedBefore(i + 1)
  BY <1>1, Zenon DEF FreedBefore
<1>7. CASE mmap[i].type = "usable"
  <2>1. used' = used \ E /\ free_pages' = free_pages + Cardinality(E)
    BY <1>7 DEF FreeEntry
  <2>2. FreedBefore(i + 1) = FreedBefore(i) \cup E /\ FreedBefore(i) \cap E = {}
    BY <1>1, <1>2, <1>4, <1>7, FreedNext, ZenonT(60)
  <2>3. E \subseteq A
    <3>1. map0[i].type = "usable"
      BY <1>2, <1>3, <1>4, <1>7 DEF IsCarved
    <3>2. QED
      BY <1>1, <1>2, <1>3, <1>4, <3>1, EntryPages, ZenonT(60)
  <2>4. used \in SUBSET A /\ E \in SUBSET A /\ E \subseteq used
    BY <1>1, <2>2, <2>3, ZenonT(60)
  <2>5. Cardinality(A \ (used \ E)) = Cardinality(A \ used) + Cardinality(E)
    <3>1. A \ (used \ E) = (A \ used) \cup E /\ (A \ used) \cap E = {} /\ A \ used \subseteq A
      BY <2>4, Zenon
    <3>2. IsFiniteSet(A \ used) /\ IsFiniteSet(E)
      BY <1>1, <2>4, <3>1, PagesFinite, FS_Subset, ZenonT(60)
    <3>3. QED
      BY <3>1, <3>2, CountDisjoint, ZenonT(60)
  <2>6. used' = A \ FreedBefore(i + 1)
    BY <1>1, <2>1, <2>2, ZenonT(60)
  <2>7. free_pages' = Cardinality(A \ used')
    BY <1>1, <2>1, <2>5, ZenonT(60)
  <2>8. QED
    BY <1>4, <1>5, <1>6, <2>6, <2>7, ZenonT(60)
<1>8. CASE mmap[i].type # "usable"
  <2>1. used' = used /\ free_pages' = free_pages
    BY <1>8 DEF FreeEntry
  <2>2. FreedBefore(i + 1) = FreedBefore(i)
    BY <1>1, <1>2, <1>4, <1>8, FreedNext, ZenonT(60)
  <2>3. QED
    BY <1>1, <1>4, <1>5, <1>6, <2>1, <2>2, ZenonT(60)
<1>9. QED
  BY <1>7, <1>8, ZenonT(60)

\* 8), 9) pages that are not marked yet are discounted.
LEMMA ReserveStep ==
  ASSUME total_pages \in Nat, used \subseteq AllPages,
         free_pages = Cardinality(AllPages \ used),
         NEW S \in SUBSET AllPages, Reserve(S)
  PROVE  /\ used' = used \cup S /\ used' \subseteq AllPages'
         /\ free_pages' = Cardinality(AllPages' \ used')
         /\ UNCHANGED <<map0, mmap, total_pages, bitmap_phys, i>>
<1>1. /\ used' = used \cup S /\ free_pages' = free_pages - Cardinality(S \ used)
      /\ UNCHANGED <<map0, mmap, total_pages, bitmap_phys, i>>
  BY DEF Reserve
<1>2. AllPages' = AllPages
  BY <1>1, SameMap
<1>3. Cardinality(AllPages \ (used \cup S)) =
        Cardinality(AllPages \ used) - Cardinality(S \ used)
  BY PagesFinite, CountDown, ZenonT(60)
<1>4. QED
  BY <1>1, <1>2, <1>3, ZenonT(60)

\* 8), 9) the three ranges, one after the other.
LEMMA MarkStep ==
  ASSUME Constants, BootInv, ReserveBitmap \/ ReserveStack \/ ReserveKernel
  PROVE  BootInv'
<1> DEFINE A == AllPages
           F == A \ AllFreed
           B == BitmapPages
           T == StackPages
           K == KernelPages
<1>1. /\ pc \in {"free", "stack", "kernel"} /\ Carved /\ Sized /\ map0 \in Maps
      /\ total_pages \in Nat /\ bitmap_phys \in Nat
      /\ used \subseteq A /\ free_pages = Cardinality(A \ used)
  BY Zenon DEF BootInv, ReserveBitmap, ReserveStack, ReserveKernel
<1>2. PICK c : IsCarved(c)
  BY <1>1, CarvedMap
<1>3. B \in SUBSET A /\ T \in SUBSET A /\ K \in SUBSET A
  BY <1>1, <1>2, MarkedWithin, ZenonT(60)
<1>4. \/ pc = "free" /\ i > Len(mmap) /\ Reserve(B) /\ pc' = "stack"
      \/ pc = "stack" /\ Reserve(T) /\ pc' = "kernel"
      \/ pc = "kernel" /\ Reserve(K) /\ pc' = "ready"
  BY Zenon DEF ReserveBitmap, ReserveStack, ReserveKernel
<1>5. PICK S \in {B, T, K} :
        /\ Reserve(S)
        /\ \/ pc = "free" /\ S = B /\ i > Len(mmap) /\ pc' = "stack"
           \/ pc = "stack" /\ S = T /\ pc' = "kernel"
           \/ pc = "kernel" /\ S = K /\ pc' = "ready"
  BY <1>4, Zenon
<1>6. /\ used' = used \cup S /\ used' \subseteq A' /\ free_pages' = Cardinality(A' \ used')
      /\ UNCHANGED <<map0, mmap, total_pages, bitmap_phys, i>>
  <2>1. S \in SUBSET A
    BY <1>3
  <2>2. QED
    BY <1>1, <1>5, <2>1, ReserveStep, ZenonT(60)
<1>7. /\ (map0 \in Maps /\ total_pages \in Nat /\ bitmap_phys \in Nat /\ Sized /\ Carved)'
      /\ A' = A /\ AllFreed' = AllFreed /\ B' = B /\ T' = T /\ K' = K
  BY <1>1, <1>6, SameMap, ZenonT(60)
<1>8. pc = "free" => used = F
  <2>1. ASSUME pc = "free"
        PROVE  used = F
    <3>1. i \in 1 .. Len(mmap) + 1 /\ used = A \ FreedBefore(i)
      BY <2>1 DEF BootInv
    <3>2. Len(mmap) \in Nat
      BY <1>2 DEF IsCarved
    <3>3. i > Len(mmap)
      BY <1>5, <2>1
    <3>4. i = Len(mmap) + 1
      BY <3>1, <3>2, <3>3
    <3>5. QED
      BY <3>1, <3>4, ZenonT(60) DEF AllFreed
  <2>2. QED
    BY <2>1
<1>9. pc = "stack" => used = F \cup B
  BY Zenon DEF BootInv
<1>10. pc = "kernel" => used = F \cup B \cup T
  BY ZenonT(60) DEF BootInv
<1>11. /\ pc' = "stack" => used' = F \cup B
       /\ pc' = "kernel" => used' = F \cup B \cup T
       /\ pc' = "ready" => used' = F \cup B \cup T \cup K
  <2> HIDE DEF A, F, B, T, K
  <2>1. QED
    BY <1>5, <1>6, <1>8, <1>9, <1>10
<1>12. pc' \in {"stack", "kernel", "ready"}
  BY <1>5
<1> HIDE DEF A, B, T, K
<1>13. F' = F
  BY <1>7, Zenon
<1>14. QED
  BY <1>6, <1>7, <1>11, <1>12 DEF BootInv, PanicMeansNoRegion, A, B, T, K

\* Every step of pmm_init keeps the invariant.
LEMMA BootStep ==
  ASSUME Constants, BootInv, [Next]_vars
  PROVE  BootInv'
<1>1. CASE SizeMemory
  <2>1. total_pages' \in Nat /\ Sized'
    BY <1>1, SizeStep
  <2>2. /\ pc = "size" /\ pc' = "choose"
        /\ UNCHANGED <<map0, mmap, bitmap_phys, used, free_pages, i>>
    BY <1>1, ZenonT(60) DEF SizeMemory
  <2>3. QED
    BY <2>1, <2>2 DEF BootInv, PanicMeansNoRegion
<1>2. CASE ChooseRegion
  <2>1. Carved' /\ bitmap_phys' \in Nat
    BY <1>2, ChooseStep
  <2>2. /\ pc = "choose" /\ pc' = "fill"
        /\ UNCHANGED <<map0, total_pages, used, free_pages, i>>
    BY <1>2 DEF ChooseRegion
  <2>3. Sized' = Sized
    BY <2>2, ZenonT(60) DEF Sized
  <2>4. QED
    BY <2>1, <2>2, <2>3 DEF BootInv, PanicMeansNoRegion
<1>3. CASE Panic
  <2>1. PanicMeansNoRegion'
    BY <1>3, PanicStep
  <2>2. /\ pc = "choose" /\ pc' = "panic"
        /\ UNCHANGED <<map0, mmap, total_pages, bitmap_phys, used, free_pages, i>>
    BY <1>3 DEF Panic
  <2>3. Sized' = Sized
    BY <2>2, ZenonT(60) DEF Sized
  <2>4. QED
    BY <2>1, <2>2, <2>3 DEF BootInv
<1>4. CASE FillBitmap \/ FreeEntry
  <2>1. /\ i' \in 1 .. Len(mmap') + 1 /\ used' = AllPages' \ FreedBefore(i)'
        /\ used' \subseteq AllPages' /\ free_pages' = Cardinality(AllPages' \ used')
    BY <1>4, FillStep, FreeStep, ZenonT(60)
  <2>2. /\ pc \in {"fill", "free"} /\ pc' = "free"
        /\ UNCHANGED <<map0, mmap, total_pages, bitmap_phys>>
    BY <1>4 DEF FillBitmap, FreeEntry
  <2>3. Sized' /\ Carved' /\ (map0 \in Maps /\ total_pages \in Nat /\ bitmap_phys \in Nat)'
    <3>1. Sized /\ Carved /\ map0 \in Maps /\ total_pages \in Nat /\ bitmap_phys \in Nat
      BY <2>2 DEF BootInv
    <3>2. QED
      BY <2>2, <3>1, SameMap, ZenonT(60)
  <2>4. QED
    BY <2>1, <2>2, <2>3 DEF BootInv, PanicMeansNoRegion
<1>5. CASE ReserveBitmap \/ ReserveStack \/ ReserveKernel
  BY <1>5, MarkStep, Zenon
<1>6. CASE UNCHANGED vars
  <2>1. UNCHANGED <<map0, mmap, total_pages, bitmap_phys, used, free_pages, i, pc>>
    BY <1>6 DEF vars
  <2>2. /\ Sized' = Sized /\ Carved' = Carved
        /\ AllPages' = AllPages /\ AllFreed' = AllFreed
        /\ BitmapPages' = BitmapPages /\ StackPages' = StackPages
        /\ KernelPages' = KernelPages
    BY <2>1, SameMap, Zenon
  <2>3. /\ FreedBefore(i)' = FreedBefore(i)
        /\ PanicMeansNoRegion' = PanicMeansNoRegion
    BY <2>1, Zenon DEF FreedBefore, PanicMeansNoRegion, Fits, needed_bytes,
       bitmap_size_bytes
  <2>4. QED
    BY <2>1, <2>2, <2>3, ZenonT(60) DEF BootInv
<1>7. QED
  BY <1>1, <1>2, <1>3, <1>4, <1>5, <1>6, ZenonT(60) DEF Next, Done

\* The pages the invariant leaves free are those FreePagesExact tells.
LEMMA BootExact ==
  ASSUME Constants, BootInv
  PROVE  FreePagesExact
<1> SUFFICES ASSUME pc = "ready"
             PROVE  FreePagesExact
  BY DEF FreePagesExact
<1> DEFINE A == AllPages
           B == BitmapPages
           T == StackPages
           K == KernelPages
           n == needed_bytes
           s == bitmap_size_bytes
           d == PMM_PAGE_SIZE
           free == A \ used
           touched == Overlapping(bitmap_phys, bitmap_phys + s)
           metadata == Overlapping(bitmap_phys, bitmap_phys + n)
<1>1. /\ Carved /\ Sized /\ map0 \in Maps /\ total_pages \in Nat /\ bitmap_phys \in Nat
      /\ used = (A \ AllFreed) \cup B \cup T \cup K /\ free_pages = Cardinality(free)
  BY DEF BootInv
<1>2. PICK c : IsCarved(c)
  BY <1>1, CarvedMap
<1>3. n \in Nat /\ s \in Nat /\ n = s + FRAMES_STACK_PAGES * d /\ FRAMES_STACK_PAGES * d \in Nat
  BY <1>1, SizesAre
<1>4. bitmap_phys + s \in Nat /\ bitmap_phys + n \in Nat /\ bitmap_phys + s <= bitmap_phys + n
  BY <1>1, <1>3
<1>5. \A p \in A : p \in Int /\ p * d \in Int /\ (p + 1) * d \in Int /\ p * d < (p + 1) * d
  BY <1>1 DEF AllPages, PageRange, Constants
<1>6. \A p : p \in AllFreed <=>
        \E k \in DOMAIN map0 : map0[k].type = "usable" /\ p \in UsableEntryPages(mmap[k])
  <2>1. DOMAIN map0 = 1 .. (Len(mmap) + 1) - 1 /\ \A k \in DOMAIN map0 : mmap[k].type = map0[k].type
    BY <1>2 DEF IsCarved
  <2>2. QED
    BY <2>1, ZenonT(60) DEF AllFreed, FreedBefore
<1>7. \A p : p \in FirmwareUsable <=>
        \E k \in DOMAIN map0 : map0[k].type = "usable" /\ p \in UsableEntryPages(map0[k])
  BY Zenon DEF FirmwareUsable
<1>8. ASSUME NEW k \in DOMAIN map0, NEW p
      PROVE  /\ p \in UsableEntryPages(mmap[k]) <=>
                  /\ p \in Int /\ mmap[k].base < (p + 1) * d
                  /\ (p + 1) * d <= map0[k].base + map0[k].length
             /\ p \in UsableEntryPages(map0[k]) <=>
                  /\ p \in Int /\ map0[k].base < (p + 1) * d
                  /\ (p + 1) * d <= map0[k].base + map0[k].length
             /\ map0[k].base \in Nat /\ mmap[k].base \in Nat /\ map0[k].base <= mmap[k].base
             /\ k # c => mmap[k] = map0[k]
  <2>1. /\ map0[k].base \in Nat /\ map0[k].length \in Nat
        /\ mmap[k].base \in Nat /\ mmap[k].length \in Nat
        /\ mmap[k].base + mmap[k].length = map0[k].base + map0[k].length
        /\ map0[k].base <= mmap[k].base
        /\ k # c => mmap[k] = map0[k]
    BY <1>2, ZenonT(60) DEF IsCarved
  <2>2. map0[k].base + map0[k].length \in Nat
    BY <2>1
  <2>3. p \in UsableEntryPages(mmap[k]) <=>
          /\ p \in Int /\ mmap[k].base < (p + 1) * d
          /\ (p + 1) * d <= mmap[k].base + mmap[k].length
    <3>1. mmap[k].base \in Nat /\ mmap[k].base + mmap[k].length \in Nat
      BY <2>1
    <3>2. QED
      BY <3>1, InRange, ZenonT(60) DEF UsableEntryPages
  <2>4. p \in UsableEntryPages(map0[k]) <=>
          /\ p \in Int /\ map0[k].base < (p + 1) * d
          /\ (p + 1) * d <= map0[k].base + map0[k].length
    BY <2>1, <2>2, InRange, ZenonT(60) DEF UsableEntryPages
  <2>5. QED
    BY <2>1, <2>3, <2>4, ZenonT(60)
<1>9. free \subseteq FirmwareUsable
  <2>1. ASSUME NEW p \in free
        PROVE  p \in FirmwareUsable
    <3>1. p \in A /\ p \in AllFreed
      BY <1>1, <2>1
    <3>2. PICK k \in DOMAIN map0 : map0[k].type = "usable" /\ p \in UsableEntryPages(mmap[k])
      BY <1>6, <3>1, ZenonT(60)
    <3>3. mmap[k].base < (p + 1) * d => map0[k].base < (p + 1) * d
      BY <1>5, <1>8, <3>1
    <3>4. p \in UsableEntryPages(map0[k])
      BY <1>8, <3>2, <3>3, ZenonT(60)
    <3>5. QED
      BY <1>7, <3>2, <3>4, Zenon
  <2>2. QED
    BY <2>1
<1>10. \A p : p \in B <=> p \in Int /\ bitmap_phys < (p + 1) * d /\ p * d < bitmap_phys + s
  BY <1>1, <1>4, InRange, ZenonT(60) DEF BitmapPages
<1>11. \A p : p \in T <=> /\ p \in Int /\ bitmap_phys + s < (p + 1) * d
                          /\ (p + 1) * d <= bitmap_phys + s + FRAMES_STACK_PAGES * d
  <2>1. bitmap_phys + s + FRAMES_STACK_PAGES * d \in Nat
    BY <1>3, <1>4
  <2>2. QED
    BY <1>4, <2>1, InRange, ZenonT(60) DEF StackPages, frames_stack_phys
<1>12. touched \subseteq B
  <2>1. ASSUME NEW p \in touched
        PROVE  p \in B
    <3>1. p \in A /\ p * d < bitmap_phys + s /\ (p + 1) * d > bitmap_phys
      BY DEF Overlapping
    <3>2. bitmap_phys < (p + 1) * d
      BY <1>1, <1>5, <3>1
    <3>3. QED
      BY <1>5, <1>10, <3>1, <3>2, ZenonT(60)
  <2>2. QED
    BY <2>1
<1>13. ASSUME NEW p \in A, p \in B \cup T
       PROVE  p \in metadata
  <2>1. p * d \in Int /\ (p + 1) * d \in Int /\ p * d < (p + 1) * d
    BY <1>5, ZenonT(60)
  <2> DEFINE x == p * d
             y == (p + 1) * d
             f == FRAMES_STACK_PAGES * d
  <2>5. p \in B => bitmap_phys < y /\ x < bitmap_phys + s
    BY <1>10, Zenon
  <2>6. p \in T => bitmap_phys + s < y /\ y <= bitmap_phys + s + f
    BY <1>11, Zenon
  <2>7. x \in Int /\ y \in Int /\ x < y /\ bitmap_phys \in Nat /\ n \in Nat /\ s \in Nat
        /\ f \in Nat /\ n = s + f
    BY <1>1, <1>3, <2>1, Zenon
  <2> HIDE DEF x, y, f, n, s, B, T
  <2>2. p \in B => x < bitmap_phys + n /\ y > bitmap_phys
    BY <2>5, <2>7
  <2>3. p \in T => x < bitmap_phys + n /\ y > bitmap_phys
    BY <2>6, <2>7
  <2> USE DEF x, y, f, n, s, B, T
  <2>4. QED
    BY <1>13, <2>2, <2>3, ZenonT(60) DEF Overlapping
<1>14. ASSUME NEW p \in FirmwareUsable, p \notin K, p \notin metadata
       PROVE  p \in free
  <2>1. PICK k \in DOMAIN map0 : map0[k].type = "usable" /\ p \in UsableEntryPages(map0[k])
    BY <1>7
  <2>2. p \in A
    BY <1>1, <1>2, <2>1, EntryPages, ZenonT(60)
  <2>3. p \notin B /\ p \notin T
    BY <1>13, <1>14, <2>2, ZenonT(60)
  <2>4. p \in UsableEntryPages(mmap[k])
    <3>1. CASE k # c
      BY <1>8, <2>1, <3>1, ZenonT(60)
    <3>2. CASE k = c
      <4>1. map0[c].base = bitmap_phys /\ mmap[c].base = bitmap_phys + n
        BY <1>2 DEF IsCarved
      <4>2. bitmap_phys < (p + 1) * d
        BY <1>8, <2>1, <3>2, <4>1, ZenonT(60)
      <4>3. ~(p * d < bitmap_phys + n)
        <5>1. (p + 1) * d > bitmap_phys
          BY <1>1, <1>5, <2>2, <4>2, ZenonT(60)
        <5>2. QED
          BY <1>14, <2>2, <5>1, ZenonT(60) DEF Overlapping
      <4>4. mmap[c].base < (p + 1) * d
        <5>1. \A x \in Int, y \in Int, z \in Int : ~(x < z) /\ x < y => z < y
          OBVIOUS
        <5>2. bitmap_phys + n \in Int
          BY <1>4
        <5>3. QED
          BY <1>5, <2>2, <4>1, <4>3, <5>1, <5>2, ZenonT(60)
      <4>5. QED
        BY <1>8, <2>1, <3>2, <4>4, ZenonT(60)
    <3>3. QED
      BY <3>1, <3>2
  <2>5. p \in AllFreed
    BY <1>6, <2>1, <2>4, ZenonT(60)
  <2>6. QED
    BY <1>1, <1>14, <2>2, <2>3, <2>5, ZenonT(60)
<1>15. free \subseteq FirmwareUsable \ (K \cup touched)
  <2>1. free \cap B = {} /\ free \cap K = {}
    BY <1>1, ZenonT(60)
  <2>2. QED
    BY <1>9, <1>12, <2>1, ZenonT(60)
<1>16. free_pages = Cardinality(free)
  BY <1>1, ZenonT(60)
<1>17. FirmwareUsable \ (K \cup metadata) \subseteq free
  BY <1>14, Zenon
<1>18. QED
  BY <1>15, <1>16, <1>17, ZenonT(60) DEF FreePagesExact

\* pmm_init: for every page size, bitmap layout and memory map that keeps Limine's
\* rules, a page is free on return only if it is usable and holds no byte of the
\* bitmap or the kernel, every other usable page outside of the frame cache is free,
\* and free_pages is their number.
THEOREM BootLeavesExactlyTheFreePages == Spec => []FreePagesExact
<1>1. Init => BootInv
  BY InitAssumption, BootInit
<1>2. BootInv /\ [Next]_vars => BootInv'
  BY InitAssumption, BootStep
<1>3. BootInv => FreePagesExact
  BY InitAssumption, BootExact
<1>4. QED
  BY <1>1, <1>2, <1>3, PTL DEF Spec

\* pmm_init panics only if no usable entry holds bitmap and frame cache.
THEOREM BootPanicsOnlyWithoutRegion == Spec => []PanicMeansNoRegion
<1>1. Init => BootInv
  BY InitAssumption, BootInit, ZenonT(60)
<1>2. BootInv /\ [Next]_vars => BootInv'
  BY InitAssumption, BootStep, ZenonT(60)
<1>3. BootInv => PanicMeansNoRegion
  BY DEF BootInv
<1>4. QED
  BY <1>1, <1>2, <1>3, PTL DEF Spec

=============================================================================
