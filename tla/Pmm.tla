--------------------------------- MODULE Pmm ---------------------------------
(***************************************************************************)
(* The physical memory manager of kernel/src/pmm.c once pmm_init is done.  *)
(*                                                                         *)
(* The bitmap is the set `used` of pages whose bit is 1.  Every operation  *)
(* holds pmm_lock from its first access to the state to its last, and no   *)
(* interrupt handler calls one, so an operation is one action.  A pointer  *)
(* a caller keeps is an owner `o`; live[o] is the run of pages it got.     *)
(* Callers are disciplined: they free only pages they were given, and      *)
(* pmm_set_region is applied to pages that nobody holds.                   *)
(***************************************************************************)
EXTENDS PageRuns, Sequences, FiniteSets

CONSTANTS Reserved,              \* pages whose bit is 1 when pmm_init returns
          FRAMES_STACK_ENTRIES,  \* capacity of pmm.frames_stack
          U64,                   \* number of values of a uint64_t
          Owners,                \* pointers the callers can keep
          AllocSizes,            \* page counts passed to the allocation calls
          FreeSizes,             \* page counts passed to pfree
          AlignPages,            \* alignments passed to pmalloc_aligned, in pages
          NULL

ASSUME PmmAssumption ==
  /\ Reserved \subseteq Pages
  /\ FRAMES_STACK_ENTRIES \in Nat
  /\ U64 \in Nat /\ TotalPages < U64
  /\ AllocSizes \subseteq Nat \ {0}
  /\ FreeSizes \subseteq Nat \ {0}
  /\ AlignPages \subseteq Nat \ {0}

Runs == {r \in [start : Pages, n : 1 .. TotalPages] : r.start + r.n <= TotalPages}

ASSUME NullIsNoRun == NULL \notin Runs

VARIABLES used, frames_stack, free_pages, live,
          pushed      \* history: 1 once pfree has put a frame on the cache

vars == <<used, frames_stack, free_pages, live, pushed>>

LivePages(o) == IF live[o] = NULL THEN {} ELSE Run(live[o].start, live[o].n)

AllLivePages == UNION {LivePages(o) : o \in Owners}

\* uint64_t subtraction and addition.
Minus(a, b) == (a - b) % U64
Plus(a, b) == (a + b) % U64

Init ==
  /\ used = Reserved
  /\ frames_stack = <<>>
  /\ free_pages = Cardinality(Pages \ Reserved)
  /\ live = [o \in Owners |-> NULL]
  /\ pushed = 0

-----------------------------------------------------------------------------

\* Wrong on purpose: the last page of the run is not looked at.
find_free_run_short(n, s) == FirstFit(used, n - 1, s)

\* find_free_run(n) returns s (module PmmScan has its loops).
find_free_run(n, s) == FirstFit(used, n, s)

\* Page 0 is at address 0: its caller reads the address as NULL and drops it.
Deliver(o, s, n) ==
  live' = IF s = 0 THEN live ELSE [live EXCEPT ![o] = [start |-> s, n |-> n]]

\* Wrong on purpose: the last bit is left 0; one page is counted, not n.
MarkRunShort(s, n) ==
  /\ used' = used \cup Run(s, n - 1)
  /\ free_pages' = Minus(free_pages, n)

MarkRunCountOne(s, n) ==
  /\ used' = used \cup Run(s, n)
  /\ free_pages' = Minus(free_pages, 1)

\* The bits of the run are set and the counter decremented.
MarkRun(s, n) ==
  /\ used' = used \cup Run(s, n)
  /\ free_pages' = Minus(free_pages, n)

\* pmalloc(1) with a frame in the cache: stack_pop; the bitmap is not touched.
PmallocCached(o) ==
  /\ live[o] = NULL
  /\ frames_stack # <<>>
  /\ LET top == Len(frames_stack)
     IN  /\ frames_stack' = SubSeq(frames_stack, 1, top - 1)
         /\ Deliver(o, frames_stack[top], 1)
  /\ free_pages' = Minus(free_pages, 1)
  /\ UNCHANGED <<used, pushed>>

\* pmalloc(n) through the bitmap.
PmallocScan(o, n) ==
  /\ live[o] = NULL
  /\ ~ (n = 1 /\ frames_stack # <<>>)
  /\ \E s \in Pages : find_free_run(n, s) /\ MarkRun(s, n) /\ Deliver(o, s, n)
  /\ UNCHANGED <<frames_stack, pushed>>

\* pmalloc(n) when no run of n pages is free: NULL, nothing changes.
PmallocOutOfMemory(n) ==
  /\ ~ (n = 1 /\ frames_stack # <<>>)
  /\ FreeStarts(used, n) = {}
  /\ UNCHANGED vars

\* pmalloc_aligned never looks at the cache of frames.
PmallocAligned(o, n, a) ==
  /\ live[o] = NULL
  /\ \E s \in Pages : FirstAligned(used, n, a, s) /\ MarkRun(s, n) /\ Deliver(o, s, n)
  /\ UNCHANGED <<frames_stack, pushed>>

\* pmalloc_aligned when no aligned run of n pages is free.
PmallocAlignedOutOfMemory(n, a) ==
  /\ AlignedStarts(used, n, a) = {}
  /\ UNCHANGED vars

\* What is left of a run when its first n pages are given back.
Shrink(r, n) == IF r.n = n THEN NULL ELSE [start |-> r.start + n, n |-> r.n - n]

\* Wrong on purpose: pushes on a full cache.
PushesAlways(n) == n = 1

\* A single page also goes on the cache, while there is room.
Pushes(n) == n = 1 /\ Len(frames_stack) < FRAMES_STACK_ENTRIES

\* pfree of the first n pages an owner holds; bits that are already 0 only
\* cause a warning.
Pfree(o, n) ==
  /\ live[o] # NULL
  /\ n <= live[o].n
  /\ used' = used \ Run(live[o].start, n)
  /\ frames_stack' = IF Pushes(n) THEN Append(frames_stack, live[o].start)
                     ELSE frames_stack
  /\ pushed' = IF Pushes(n) THEN 1 ELSE pushed
  /\ free_pages' = Plus(free_pages, n)
  /\ live' = [live EXCEPT ![o] = Shrink(live[o], n)]

\* pmm_set_region(.., true): each page whose bit changes decrements a counter
\* that stops at 0.
SetRegionUsed(s, n) ==
  /\ s + n <= TotalPages
  /\ Run(s, n) \cap AllLivePages = {}
  /\ LET changed == Cardinality(Run(s, n) \ used)
     IN  free_pages' = IF free_pages > changed THEN free_pages - changed ELSE 0
  /\ used' = used \cup Run(s, n)
  /\ UNCHANGED <<frames_stack, live, pushed>>

\* pmm_set_region(.., false).
SetRegionFree(s, n) ==
  /\ s + n <= TotalPages
  /\ Run(s, n) \cap (AllLivePages \cup Reserved) = {}
  /\ free_pages' = Plus(free_pages, Cardinality(Run(s, n) \cap used))
  /\ used' = used \ Run(s, n)
  /\ UNCHANGED <<frames_stack, live, pushed>>

Next ==
  \/ \E o \in Owners :
       \/ 1 \in AllocSizes /\ PmallocCached(o)
       \/ \E n \in AllocSizes : PmallocScan(o, n)
       \/ \E n \in AllocSizes, a \in AlignPages : PmallocAligned(o, n, a)
       \/ \E n \in FreeSizes : Pfree(o, n)
  \/ \E n \in AllocSizes : PmallocOutOfMemory(n)
  \/ \E n \in AllocSizes, a \in AlignPages : PmallocAlignedOutOfMemory(n, a)
  \/ \E s \in Pages, n \in 1 .. TotalPages :
       SetRegionUsed(s, n) \/ SetRegionFree(s, n)

Spec == Init /\ [][Next]_vars

-----------------------------------------------------------------------------
(***************************************************************************)
(* Properties.                                                             *)
(***************************************************************************)

\* The state has the shape of pmm_manager_t: page numbers below total_pages on
\* a cache that never outgrows its FRAMES_STACK_ENTRIES slots.
TypeOK ==
  /\ used \subseteq Pages
  /\ frames_stack \in Seq(Pages)
  /\ Len(frames_stack) <= FRAMES_STACK_ENTRIES
  /\ free_pages \in 0 .. U64 - 1
  /\ live \in [Owners -> Runs \cup {NULL}]

\* The pages that pmm_init keeps back (the bitmap itself, the frame cache, the
\* kernel, everything the firmware did not call usable) are never handed out:
\* no owner holds one, none waits on the cache and each bit stays 1, whatever
\* sizes the callers use.
ReservedNeverHandedOut ==
  /\ Reserved \subseteq used
  /\ \A o \in Owners : LivePages(o) \cap Reserved = {}
  /\ \A i \in DOMAIN frames_stack : frames_stack[i] \notin Reserved

NoPageShared ==
  \A o, p \in Owners : o # p => LivePages(o) \cap LivePages(p) = {}

CountExact == free_pages = Cardinality(Pages \ used)

HeldPagesMarked == AllLivePages \subseteq used

\* Until a frame is put on the cache, no page belongs to two pointers that
\* pmalloc or pmalloc_aligned returned.
ExclusiveOwnership == pushed = 0 => NoPageShared

\* Until then free_pages, which pmm_get_free reports, counts exactly the 0 bits.
FreeCountExact == pushed = 0 => CountExact

\* "Stack de frames livres": a frame on the cache is a frame nobody holds.
CachedFramesAreFree ==
  \A i \in DOMAIN frames_stack : frames_stack[i] \notin AllLivePages

=============================================================================
