------------------------------- MODULE Kmalloc -------------------------------
(***************************************************************************)
(* The kernel heap, kernel/src/kmalloc.c.                                  *)
(*                                                                         *)
(* A block is known by the address of its header; `blocks` are the headers *)
(* in force (one that was swallowed by a neighbour is not), size and next  *)
(* are the header's fields and `used` the blocks whose used field is 1.    *)
(* The loops run one iteration per step.  Everything is done under         *)
(* kmalloc_lock except add_pool, which kmalloc calls after unlocking: it   *)
(* reads free_list in one step and writes it in another.  The kernel of    *)
(* today runs one thread; the lock is there for more.                      *)
(*                                                                         *)
(* Callers free what they hold, and write inside their blocks only, so the *)
(* magic checks pass.                                                      *)
(***************************************************************************)
EXTENDS Integers, Sequences, FiniteSets

CONSTANTS Threads,
          Pools,              \* addresses that pmalloc returns, then NULL
          POOL_COUNT,         \* pools kmalloc_init asks for
          PoolBytes,          \* KMALLOC_POOL_PAGES * PMM_PAGE_SIZE
          BLOCK_HEADER_SIZE, KMALLOC_ALIGN, KMALLOC_MIN_SIZE,
          SizeMod,            \* number of values of a size_t
          Requests,           \* sizes passed to kmalloc and krealloc
          Arrays              \* pairs passed to kcalloc

NULL == 0

ASSUME KmallocAssumption ==
  /\ Threads # {} /\ NULL \notin Threads
  /\ BLOCK_HEADER_SIZE \in Nat \ {0} /\ KMALLOC_ALIGN \in Nat \ {0}
  /\ KMALLOC_MIN_SIZE \in Nat \ {0}
  /\ PoolBytes \in Nat /\ PoolBytes > BLOCK_HEADER_SIZE
  /\ SizeMod \in Nat \ {0}
  /\ POOL_COUNT \in Nat
  /\ Requests \subseteq Nat /\ Arrays \subseteq Nat \X Nat
  /\ Pools \in Seq(Nat \ {0})
  /\ \A i, j \in 1 .. Len(Pools) : i < j => Pools[i] + PoolBytes <= Pools[j]

VARIABLES blocks, size, next, used,   \* the headers
          free_list,
          npools,                     \* pools taken from pmalloc
          lock,                       \* the thread inside, or NULL
          pc,
          req, want,                  \* size asked for, and rounded
          prev, curr, blk,            \* locals of kmalloc, kfree, add_pool
          old                         \* ptr of krealloc

headers == <<blocks, size, next, used, free_list>>
locals == <<req, want, prev, curr, blk, old>>
vars == <<headers, npools, lock, pc, locals>>

Init ==
  /\ blocks = {} /\ used = {}
  /\ size = <<>> /\ next = <<>>
  /\ free_list = NULL
  /\ npools = 0
  /\ lock = NULL
  /\ pc = [t \in Threads |-> "idle"]
  /\ req = [t \in Threads |-> 0] /\ want = [t \in Threads |-> 0]
  /\ prev = [t \in Threads |-> NULL] /\ curr = [t \in Threads |-> NULL]
  /\ blk = [t \in Threads |-> NULL] /\ old = [t \in Threads |-> NULL]

-----------------------------------------------------------------------------

\* f with the value v at x, which may be outside its domain.
Put(f, x, v) == [y \in DOMAIN f \cup {x} |-> IF y = x THEN v ELSE f[y]]

\* The blocks whose pointers are the callers': in use, and not being freed.
Held == used \ {IF pc[t] = "flock" THEN blk[t] ELSE old[t] : t \in Threads}

\* The address behind a block.
End(b) == b + BLOCK_HEADER_SIZE + size[b]

Goto(t, l) == pc' = [pc EXCEPT ![t] = l]

\* The header that add_pool writes, linked in front of the free list.
NewPool(p) ==
  /\ blocks' = blocks \cup {p}
  /\ size' = Put(size, p, PoolBytes - BLOCK_HEADER_SIZE)
  /\ next' = Put(next, p, free_list)
  /\ npools' = npools + 1
  /\ UNCHANGED used

\* One add_pool of kmalloc_init, before anything else runs.
KmallocInit ==
  /\ npools < POOL_COUNT /\ npools < Len(Pools)
  /\ NewPool(Pools[npools + 1])
  /\ free_list' = Pools[npools + 1]
  /\ UNCHANGED <<lock, pc, locals>>

Booted == npools >= POOL_COUNT \/ npools = Len(Pools)

\* Rounding of kmalloc, in size_t arithmetic.
RoundUp(n) ==
  LET r == (((n + KMALLOC_ALIGN - 1) % SizeMod) \div KMALLOC_ALIGN) * KMALLOC_ALIGN
  IN  IF r < KMALLOC_MIN_SIZE THEN KMALLOC_MIN_SIZE ELSE r

\* kmalloc(n), called on behalf of a caller that wants n0 bytes.
CallKmalloc(t, n0, n) ==
  /\ Booted /\ pc[t] = "idle"
  /\ n # 0
  /\ req' = [req EXCEPT ![t] = n0]
  /\ want' = [want EXCEPT ![t] = RoundUp(n)]
  /\ Goto(t, "lock")
  /\ UNCHANGED <<headers, npools, lock, prev, curr, blk>>

StartKmalloc(t, n) ==
  /\ CallKmalloc(t, n, n)
  /\ UNCHANGED old

\* kcalloc multiplies in size_t; clearing the block changes no header.
StartKcalloc(t, a) ==
  /\ CallKmalloc(t, a[1] * a[2], (a[1] * a[2]) % SizeMod)
  /\ UNCHANGED old

\* krealloc of a block that is too small: kmalloc, copy, kfree(ptr).
StartKrealloc(t, b, n) ==
  /\ b \in Held /\ size[b] < n
  /\ CallKmalloc(t, n, n)
  /\ old' = [old EXCEPT ![t] = b]

\* krealloc of a block that is large enough returns the same pointer.
KreallocInPlace(t, b, n) ==
  /\ Booted /\ pc[t] = "idle"
  /\ b \in Held /\ n # 0 /\ size[b] >= n
  /\ UNCHANGED vars

Lock(t) ==
  /\ pc[t] = "lock" /\ lock = NULL
  /\ lock' = t
  /\ prev' = [prev EXCEPT ![t] = NULL]
  /\ curr' = [curr EXCEPT ![t] = free_list]
  /\ Goto(t, "scan")
  /\ UNCHANGED <<headers, npools, req, want, blk, old>>

\* Wrong on purpose: first block rather than first fit.
SuitsAnySize(t) == curr[t] \notin used

Suits(t) == curr[t] \notin used /\ size[curr[t]] >= want[t]

Advance(t) ==
  /\ prev' = [prev EXCEPT ![t] = curr[t]]
  /\ curr' = [curr EXCEPT ![t] = next[curr[t]]]
  /\ UNCHANGED <<headers, npools, lock, pc, req, want, blk, old>>

ScanOn(t) ==
  /\ pc[t] = "scan" /\ curr[t] # NULL
  /\ ~ Suits(t)
  /\ Advance(t)

\* split_block keeps the block whole when the rest would be too small.
Splits(t) == size[curr[t]] >= want[t] + BLOCK_HEADER_SIZE + KMALLOC_MIN_SIZE

\* Wrong on purpose: the header of the rest is counted as payload.
RestWithHeader(t) == size[curr[t]] - want[t]

\* The payload of the block that split_block cuts off.
Rest(t) == size[curr[t]] - want[t] - BLOCK_HEADER_SIZE

\* Wrong on purpose: prev is forgotten.
UnlinkHead(t, nx, to) == next' = nx /\ free_list' = to

\* What prev (or free_list) is made to point to.
Unlink(t, nx, to) ==
  IF prev[t] # NULL
  THEN next' = Put(nx, prev[t], to) /\ UNCHANGED free_list
  ELSE next' = nx /\ free_list' = to

\* The cursor of a loop that has ended is dead.
Forget(t) ==
  /\ prev' = [prev EXCEPT ![t] = NULL]
  /\ curr' = [curr EXCEPT ![t] = NULL]

\* The pointer goes to the caller; krealloc goes on to free the old block.
Deliver(t) ==
  /\ lock' = NULL
  /\ Forget(t)
  /\ req' = [req EXCEPT ![t] = 0]
  /\ want' = [want EXCEPT ![t] = 0]
  /\ old' = [old EXCEPT ![t] = NULL]
  /\ blk' = [blk EXCEPT ![t] = old[t]]
  /\ Goto(t, IF old[t] = NULL THEN "idle" ELSE "flock")
  /\ UNCHANGED npools

TakeSplit(t) ==
  /\ pc[t] = "scan" /\ curr[t] # NULL /\ Suits(t) /\ Splits(t)
  /\ LET c == curr[t]
         n == c + BLOCK_HEADER_SIZE + want[t]
     IN  /\ blocks' = blocks \cup {n}
         /\ size' = Put([size EXCEPT ![c] = want[t]], n, Rest(t))
         /\ Unlink(t, Put([next EXCEPT ![c] = n], n, next[c]), n)
         /\ used' = used \cup {c}
  /\ Deliver(t)

TakeWhole(t) ==
  /\ pc[t] = "scan" /\ curr[t] # NULL /\ Suits(t) /\ ~ Splits(t)
  /\ Unlink(t, next, next[curr[t]])
  /\ used' = used \cup {curr[t]}
  /\ UNCHANGED <<blocks, size>>
  /\ Deliver(t)

\* Nothing found: unlock, then add_pool.
ScanFails(t) ==
  /\ pc[t] = "scan" /\ curr[t] = NULL
  /\ lock' = NULL
  /\ Forget(t)
  /\ Goto(t, "grow")
  /\ UNCHANGED <<headers, npools, req, want, blk, old>>

\* add_pool without a pool returns all the same, and kmalloc calls itself.
GrowFails(t) ==
  /\ pc[t] = "grow" /\ npools = Len(Pools)
  /\ Goto(t, "lock")
  /\ UNCHANGED <<headers, npools, lock, locals>>

Grow(t) ==
  /\ pc[t] = "grow" /\ npools < Len(Pools)
  /\ NewPool(Pools[npools + 1])
  /\ blk' = [blk EXCEPT ![t] = Pools[npools + 1]]
  /\ Goto(t, "publish")
  /\ UNCHANGED <<free_list, lock, req, want, prev, curr, old>>

\* Wrong on purpose: the new pool is never linked.
PublishNothing(t) ==
  /\ pc[t] = "publish"
  /\ blk' = [blk EXCEPT ![t] = NULL]
  /\ Goto(t, "lock")
  /\ UNCHANGED <<headers, npools, lock, req, want, prev, curr, old>>

Publish(t) ==
  /\ pc[t] = "publish"
  /\ free_list' = blk[t]
  /\ blk' = [blk EXCEPT ![t] = NULL]
  /\ Goto(t, "lock")
  /\ UNCHANGED <<blocks, size, next, used, npools, lock, req, want, prev, curr, old>>

\* kfree(ptr), also krealloc(ptr, 0).
StartKfree(t, b) ==
  /\ Booted /\ pc[t] = "idle"
  /\ b \in Held
  /\ blk' = [blk EXCEPT ![t] = b]
  /\ Goto(t, "flock")
  /\ UNCHANGED <<headers, npools, lock, req, want, prev, curr, old>>

\* The block is marked free and the search for its place begins.
FreeLock(t) ==
  /\ pc[t] = "flock" /\ lock = NULL
  /\ blk[t] \in used
  /\ lock' = t
  /\ used' = used \ {blk[t]}
  /\ prev' = [prev EXCEPT ![t] = NULL]
  /\ curr' = [curr EXCEPT ![t] = free_list]
  /\ Goto(t, "fscan")
  /\ UNCHANGED <<blocks, size, next, free_list, npools, req, want, blk, old>>

\* kfree of a block that is not in use warns about the double free.
DoubleFree(t, b) ==
  /\ Booted /\ pc[t] = "idle" /\ lock = NULL
  /\ b \in blocks \ used
  /\ UNCHANGED vars

Before(t) == curr[t] # NULL /\ curr[t] < blk[t]

FreeScanOn(t) ==
  /\ pc[t] = "fscan" /\ Before(t)
  /\ Advance(t)

\* Wrong on purpose: the header between the two payloads is forgotten.
MergedPayloads(m, n) == m + n

\* The size of a block of size m that swallows the next, of size n.
Merged(m, n) == m + BLOCK_HEADER_SIZE + n

\* The block goes between prev and curr and is merged with curr, then with
\* prev, where they touch.
Insert(t) ==
  /\ pc[t] = "fscan" /\ ~ Before(t)
  /\ LET b == blk[t]
         c == curr[t]
         p == prev[t]
         withNext == c # NULL /\ End(b) = c
         withPrev == p # NULL /\ End(p) = b
         bsize == IF withNext THEN Merged(size[b], size[c]) ELSE size[b]
         bnext == IF withNext THEN next[c] ELSE c
         gone == (IF withNext THEN {c} ELSE {}) \cup (IF withPrev THEN {b} ELSE {})
     IN  /\ blocks' = blocks \ gone
         /\ size' = [x \in blocks' |->
                       IF withPrev /\ x = p THEN Merged(size[p], bsize)
                       ELSE IF x = b THEN bsize ELSE size[x]]
         /\ next' = [x \in blocks' |->
                       IF x = p THEN (IF withPrev THEN bnext ELSE b)
                       ELSE IF x = b THEN bnext ELSE next[x]]
         /\ free_list' = IF p = NULL THEN b ELSE free_list
  /\ lock' = NULL
  /\ Forget(t)
  /\ blk' = [blk EXCEPT ![t] = NULL]
  /\ Goto(t, "idle")
  /\ UNCHANGED <<used, npools, req, want, old>>

Calls(t) ==
  \/ \E n \in Requests : StartKmalloc(t, n)
  \/ \E a \in Arrays : StartKcalloc(t, a)
  \/ \E b \in blocks : \/ StartKfree(t, b)
                       \/ DoubleFree(t, b)
                       \/ \E n \in Requests : \/ StartKrealloc(t, b, n)
                                              \/ KreallocInPlace(t, b, n)

Works(t) ==
  \/ Lock(t) \/ ScanOn(t) \/ TakeSplit(t) \/ TakeWhole(t) \/ ScanFails(t)
  \/ GrowFails(t) \/ Grow(t) \/ Publish(t)
  \/ FreeLock(t) \/ FreeScanOn(t) \/ Insert(t)

Next == KmallocInit \/ \E t \in Threads : Calls(t) \/ Works(t)

Spec == Init /\ [][Next]_vars

\* A thread that is inside a call keeps executing.
FairSpec == Spec /\ WF_vars(KmallocInit) /\ \A t \in Threads : WF_vars(Works(t))

-----------------------------------------------------------------------------

TypeOK ==
  /\ blocks \subseteq Nat \ {NULL}
  /\ size \in [blocks -> Nat]
  /\ next \in [blocks -> Nat]
  /\ used \subseteq blocks
  /\ free_list \in Nat
  /\ npools \in 0 .. Len(Pools)
  /\ lock \in Threads \cup {NULL}
  /\ pc \in [Threads -> {"idle", "lock", "scan", "grow", "publish", "flock", "fscan"}]
  /\ req \in [Threads -> Nat] /\ want \in [Threads -> Nat]
  /\ prev \in [Threads -> Nat] /\ curr \in [Threads -> Nat]
  /\ blk \in [Threads -> Nat] /\ old \in [Threads -> Nat]

\* No two blocks overlap, header included: split_block and the two merges of
\* kfree compute addresses and sizes that agree.
BlocksDisjoint ==
  \A a, b \in blocks : a < b => End(a) <= b

\* No byte is lost: each byte of each pool taken from pmalloc belongs to some
\* block, whatever was split and merged.
NoByteLost ==
  \A i \in 1 .. npools : \A x \in Pools[i] .. Pools[i] + PoolBytes - 1 :
    \E b \in blocks : b <= x /\ x < End(b)

\* The block a thread has taken out of, or not yet put into, the free list.
InHand == {blk[t] : t \in {u \in Threads : pc[u] \in {"publish", "fscan"}}}

\* Outside of kmalloc and kfree the free list holds free blocks only: a block
\* given to a caller has been removed from it.
FreeListSound ==
  lock = NULL =>
    /\ free_list \in (blocks \ used) \cup {NULL}
    /\ \A b \in blocks \ used : next[b] \in (blocks \ used) \cup {NULL}

\* Every free block can be found by following the free list from its head, so
\* that kmalloc can hand it out again.
FreeListComplete ==
  lock = NULL =>
    \A S \in SUBSET blocks :
      ( /\ free_list \in S \cup {NULL}
        /\ \A b \in S : next[b] \in S \cup {NULL} )
      => (blocks \ used) \ InHand \subseteq S

\* A caller can use all the bytes it asked for: the block that is cut off for a
\* rounded request is as large as the request itself.  And the block->size bytes
\* that krealloc copies, a size that it reads after kmalloc has returned, fit in
\* the new block.
RequestsCovered ==
  [][/\ \A b \in used' \ used : \E t \in Threads : b = curr[t] /\ size'[b] >= req[t]
     /\ \A t \in Threads : pc[t] = "scan" /\ pc'[t] = "flock" =>
          size'[blk'[t]] <= size'[curr[t]] /\ blk'[t] \in used']_vars

\* A kmalloc that a fresh pool can satisfy returns while pmalloc has pools, and
\* every kfree returns: the loops over the free list come to an end.
ReturnsWhilePoolsLast ==
  \A t \in Threads :
    /\ (pc[t] = "lock" /\ want[t] <= PoolBytes - BLOCK_HEADER_SIZE
          /\ npools < Len(Pools)) ~> (pc[t] \in {"idle", "flock"})
    /\ (pc[t] = "flock") ~> (pc[t] = "idle")

\* kmalloc gives an answer also when there is no memory left (NULL, which its
\* callers test for).
KmallocAnswers ==
  \A t \in Threads : pc[t] = "lock" ~> pc[t] \in {"idle", "flock"}

\* The abstract allocator: the payloads of the blocks in use.
Abstract == INSTANCE Heap WITH
  Memory <- UNION {Pools[i] .. Pools[i] + PoolBytes - 1 : i \in 1 .. Len(Pools)},
  regions <- {[start |-> b + BLOCK_HEADER_SIZE, length |-> size[b]] : b \in used}

\* Seen from the callers, the block lists implement an allocator: each step
\* hands out one region of pool memory that overlaps no other, takes one back,
\* or leaves every region where and as long as it was.
ImplementsHeap == Abstract!Spec

=============================================================================
