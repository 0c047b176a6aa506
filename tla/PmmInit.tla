------------------------------ MODULE PmmInit --------------------------------
(***************************************************************************)
(* pmm_init of kernel/src/pmm.c: sizing the bitmap, carving bitmap and     *)
(* frame cache out of a usable region of the Limine memory map, and        *)
(* filling the bitmap.  One action per numbered part of the function; the  *)
(* pages of the memory map are freed one entry at a time.  Addresses and   *)
(* sizes are in bytes.                                                     *)
(***************************************************************************)
EXTENDS Integers, Sequences, FiniteSets

CONSTANTS PMM_PAGE_SIZE,
          PMM_BITS_PER_BYTE,
          FRAMES_STACK_PAGES,   \* frames_stack_pages
          KernelStart, KernelEnd, \* kernel_start, kernel_end
          Maps                  \* the memory maps Limine may pass

\* Limine: entries are whole pages, do not overlap, and page 0 is not usable;
\* the machine has memory behind the range reserved for the kernel.
Limine ==
  \A m \in Maps :
    /\ m \in Seq([base : Nat, length : Nat, type : {"usable", "reclaimable", "reserved"}])
    /\ \A k \in DOMAIN m : /\ m[k].base % PMM_PAGE_SIZE = 0
                           /\ m[k].length % PMM_PAGE_SIZE = 0
                           /\ m[k].type = "usable" => m[k].base > 0
                           /\ \A l \in DOMAIN m :
                                k < l => m[k].base + m[k].length <= m[l].base
    /\ \E k \in DOMAIN m : /\ m[k].type # "reserved"
                           /\ m[k].base + m[k].length >= KernelEnd

\* What pmm_init counts on.
Constants ==
  /\ PMM_PAGE_SIZE \in Nat \ {0} /\ PMM_BITS_PER_BYTE \in Nat \ {0}
  /\ FRAMES_STACK_PAGES \in Nat \ {0}
  /\ KernelStart \in Nat /\ KernelEnd \in Nat
  /\ Limine

ASSUME InitAssumption == Constants

VARIABLES map0,         \* the map as Limine passed it
          mmap,         \* the map, whose chosen entry pmm_init shortens
          total_pages,
          bitmap_phys,
          used,         \* the 1 bits of the bitmap
          free_pages,
          i, pc

vars == <<map0, mmap, total_pages, bitmap_phys, used, free_pages, i, pc>>

Ceil(a, d) == (a + d - 1) \div d

\* The pages first, .., end - 1.
PageRange(first, end) == first .. end - 1

AllPages == PageRange(0, total_pages)

bitmap_size_bytes == Ceil(total_pages, PMM_BITS_PER_BYTE)

needed_bytes == bitmap_size_bytes + FRAMES_STACK_PAGES * PMM_PAGE_SIZE

frames_stack_phys == bitmap_phys + bitmap_size_bytes

Init ==
  /\ map0 \in Maps
  /\ mmap = map0
  /\ total_pages = 0 /\ bitmap_phys = 0 /\ used = {} /\ free_pages = 0
  /\ i = 1
  /\ pc = "size"

\* 1) the end of the highest usable or reclaimable entry.
SizeMemory ==
  /\ pc = "size"
  /\ LET ends == {mmap[k].base + mmap[k].length :
                    k \in {l \in DOMAIN mmap : mmap[l].type # "reserved"}}
         highest == CHOOSE e \in ends : \A f \in ends : f <= e
     IN  total_pages' = highest \div PMM_PAGE_SIZE
  /\ pc' = "choose"
  /\ UNCHANGED <<map0, mmap, bitmap_phys, used, free_pages, i>>

\* 4) the first usable entry that is large enough loses its first bytes.
Fits(k) == mmap[k].type = "usable" /\ mmap[k].length >= needed_bytes

ChooseRegion ==
  /\ pc = "choose"
  /\ \E k \in DOMAIN mmap :
       /\ Fits(k) /\ \A l \in 1 .. k - 1 : ~ Fits(l)
       /\ mmap[k].base # 0
       /\ bitmap_phys' = mmap[k].base
       /\ mmap' = [mmap EXCEPT ![k].base = @ + needed_bytes,
                               ![k].length = @ - needed_bytes]
  /\ pc' = "fill"
  /\ UNCHANGED <<map0, total_pages, used, free_pages, i>>

\* Wrong on purpose: gives up after the first entry.
PanicAfterFirst ==
  /\ pc = "choose"
  /\ ~ Fits(1)
  /\ pc' = "panic"
  /\ UNCHANGED <<map0, mmap, total_pages, bitmap_phys, used, free_pages, i>>

\* No entry, or one whose address is 0: panic.
Panic ==
  /\ pc = "choose"
  /\ \A k \in DOMAIN mmap : Fits(k) /\ (\A l \in 1 .. k - 1 : ~ Fits(l)) => mmap[k].base = 0
  /\ pc' = "panic"
  /\ UNCHANGED <<map0, mmap, total_pages, bitmap_phys, used, free_pages, i>>

\* 6) every bit is set.
FillBitmap ==
  /\ pc = "fill"
  /\ used' = AllPages
  /\ free_pages' = 0
  /\ pc' = "free"
  /\ UNCHANGED <<map0, mmap, total_pages, bitmap_phys, i>>

\* 7) the pages of entry i.
UsableEntryPages(e) ==
  PageRange(e.base \div PMM_PAGE_SIZE, (e.base + e.length) \div PMM_PAGE_SIZE)

FreeEntry ==
  /\ pc = "free" /\ i <= Len(mmap)
  /\ IF mmap[i].type = "usable"
     THEN /\ used' = used \ UsableEntryPages(mmap[i])
          /\ free_pages' = free_pages + Cardinality(UsableEntryPages(mmap[i]))
     ELSE UNCHANGED <<used, free_pages>>
  /\ i' = i + 1
  /\ UNCHANGED <<map0, mmap, total_pages, bitmap_phys, pc>>

\* Wrong on purpose: the bit is not tested before the page is discounted.
ReserveUntested(S) ==
  /\ used' = used \cup S
  /\ free_pages' = free_pages - Cardinality(S)
  /\ UNCHANGED <<map0, mmap, total_pages, bitmap_phys, i>>

\* A page whose bit is 0 is marked and no longer counted.
Reserve(S) ==
  /\ used' = used \cup S
  /\ free_pages' = free_pages - Cardinality(S \ used)
  /\ UNCHANGED <<map0, mmap, total_pages, bitmap_phys, i>>

\* 8) the pages of the bitmap, its end rounded up ...
BitmapPages ==
  PageRange(bitmap_phys \div PMM_PAGE_SIZE,
            Ceil(bitmap_phys + bitmap_size_bytes, PMM_PAGE_SIZE))

ReserveBitmap ==
  /\ pc = "free" /\ i > Len(mmap)
  /\ Reserve(BitmapPages)
  /\ pc' = "stack"

\* ... and those of the frame cache, its end rounded down.
StackPages ==
  PageRange(frames_stack_phys \div PMM_PAGE_SIZE,
            (frames_stack_phys + FRAMES_STACK_PAGES * PMM_PAGE_SIZE) \div PMM_PAGE_SIZE)

ReserveStack ==
  /\ pc = "stack"
  /\ Reserve(StackPages)
  /\ pc' = "kernel"

\* 9) the range assumed to hold the kernel.
KernelPages ==
  PageRange(KernelStart \div PMM_PAGE_SIZE, Ceil(KernelEnd, PMM_PAGE_SIZE))

ReserveKernel ==
  /\ pc = "kernel"
  /\ Reserve(KernelPages)
  /\ pc' = "ready"

\* pmm_init has returned, or panic has halted the machine.
Done == pc \in {"ready", "panic"} /\ UNCHANGED vars

Next == \/ SizeMemory \/ ChooseRegion \/ Panic \/ FillBitmap \/ FreeEntry
        \/ ReserveBitmap \/ ReserveStack \/ ReserveKernel \/ Done

Spec == Init /\ [][Next]_vars

-----------------------------------------------------------------------------

\* The pages that overlap the bytes from..to-1.
Overlapping(from, to) ==
  {p \in AllPages : p * PMM_PAGE_SIZE < to /\ (p + 1) * PMM_PAGE_SIZE > from}

FirmwareUsable ==
  UNION {UsableEntryPages(map0[k]) : k \in {l \in DOMAIN map0 : map0[l].type = "usable"}}

\* When pmm_init returns, a page is free only if Limine called it usable and it
\* holds neither a byte of the bitmap nor a byte of the kernel range; every usable
\* page outside of those and of the frame cache is free, although the region
\* starts at an unaligned address; and free_pages counts the free pages, although
\* several parts of pmm_init mark overlapping ranges.
FreePagesExact ==
  pc = "ready" =>
    LET bitmap == Overlapping(bitmap_phys, bitmap_phys + bitmap_size_bytes)
        metadata == Overlapping(bitmap_phys, bitmap_phys + needed_bytes)
        free == AllPages \ used
    IN  /\ free \subseteq FirmwareUsable \ (KernelPages \cup bitmap)
        /\ FirmwareUsable \ (KernelPages \cup metadata) \subseteq free
        /\ free_pages = Cardinality(free)

\* "cannot find contiguous area for bitmap+stack" is only said when it is so.
PanicMeansNoRegion == pc = "panic" => \A k \in DOMAIN map0 : ~ Fits(k)

\* "Marca o próprio bitmap e stack como usados": every page that holds a byte
\* of the bitmap or of the frame cache is marked.
MetadataReserved ==
  pc = "ready" =>
    Overlapping(bitmap_phys, bitmap_phys + needed_bytes) \subseteq used

=============================================================================
