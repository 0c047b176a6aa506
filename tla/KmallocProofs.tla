---------------------------- MODULE KmallocProofs ----------------------------
(***************************************************************************)
(* Proofs about the kernel heap, for any pools, sizes and threads, provided *)
(* that one thread only uses the heap or that it never has to grow (see    *)
(* Guarded): add_pool changes the list without the lock.  The free list is *)
(* sound and complete and blocks do not overlap; then, what callers rely   *)
(* on: no byte of a pool is lost, the headers implement the allocator of   *)
(* module Heap, and a block is as large as the request.                    *)
(***************************************************************************)
EXTENDS Kmalloc, TLAPS

\* Either there is a single thread or kmalloc_init takes all the pools.
Guarded == (\A s, t \in Threads : s = t) \/ POOL_COUNT >= Len(Pools)

-----------------------------------------------------------------------------
(***************************************************************************)
(* Linked lists.  Chain(L, h, nx) says that the list that starts at h and  *)
(* follows nx goes through the nodes L, once each, and ends.               *)
(***************************************************************************)

Closed(S, h, nx) ==
  /\ h \in S \cup {NULL}
  /\ \A a \in S : nx[a] \in S \cup {NULL}

Chain(L, h, nx) ==
  /\ NULL \notin L
  /\ Closed(L, h, nx)
  /\ \A a \in L : nx[a] = h => h = NULL
  /\ \A a, b \in L : nx[a] = nx[b] /\ nx[a] # NULL => a = b
  /\ \A S \in SUBSET L : Closed(S, h, nx) => S = L

\* c is the node (or the end) that p, or the head, links to.
Cursor(L, h, nx, p, c) ==
  IF p = NULL THEN c = h ELSE p \in L /\ nx[p] = c

\* The list k, mx differs from h, nx in what the link at p is: it is v.
Relinked(L, h, nx, p, k, mx, v) ==
  /\ \A a \in L : a # p => mx[a] = nx[a]
  /\ IF p = NULL THEN k = v ELSE k = h /\ mx[p] = v

\* No node of a chain links to itself.
LEMMA NoSelfLink ==
  ASSUME NEW L, NEW h, NEW nx, Chain(L, h, nx), NEW a \in L
  PROVE  nx[a] # a
<1> SUFFICES ASSUME nx[a] = a
             PROVE  FALSE
  OBVIOUS
<1>1. h # a
  BY DEF Chain
<1>2. \A b \in L \ {a} : nx[b] # a
  BY DEF Chain
<1>3. Closed(L \ {a}, h, nx)
  BY <1>1, <1>2 DEF Chain, Closed
<1>4. L \ {a} = L
  BY <1>3 DEF Chain
<1>5. QED
  BY <1>4

\* A node put in front.
LEMMA ChainPush ==
  ASSUME NEW L, NEW h, NEW nx, Chain(L, h, nx),
         NEW b, b \notin L, b # NULL,
         NEW mx, mx[b] = h, \A a \in L : mx[a] = nx[a]
  PROVE  Chain(L \cup {b}, b, mx)
<1> DEFINE M == L \cup {b}
<1>1. NULL \notin M /\ Closed(M, b, mx)
  BY DEF Chain, Closed
<1>2. \A a \in M : mx[a] # b
  BY DEF Chain, Closed
<1>3. \A a, c \in M : mx[a] = mx[c] /\ mx[a] # NULL => a = c
  BY DEF Chain, Closed
<1>4. ASSUME NEW S \in SUBSET M, Closed(S, b, mx)
      PROVE  S = M
  <2>1. b \in S
    BY <1>4 DEF Closed
  <2>2. Closed(S \ {b}, h, nx)
    <3>1. h \in (S \ {b}) \cup {NULL}
      BY <1>4, <2>1 DEF Closed, Chain
    <3>2. ASSUME NEW a \in S \ {b}
          PROVE  nx[a] \in (S \ {b}) \cup {NULL}
      <4>1. a \in L /\ mx[a] = nx[a]
        BY <1>4, <3>2
      <4>2. mx[a] \in S \cup {NULL}
        BY <1>4, <3>2 DEF Closed
      <4>3. QED
        BY <4>1, <4>2, <1>2
    <3>3. QED
      BY <3>1, <3>2 DEF Closed
  <2>3. S \ {b} = L
    BY <1>4, <2>2 DEF Chain
  <2>4. QED
    BY <2>1, <2>3
<1>5. QED
  BY <1>1, <1>2, <1>3, <1>4 DEF Chain

\* The node at a cursor taken out.
LEMMA ChainRemove ==
  ASSUME NEW L, NEW h, NEW nx, Chain(L, h, nx),
         NEW p, NEW c \in L, Cursor(L, h, nx, p, c),
         NEW k, NEW mx, Relinked(L \ {c}, h, nx, p, k, mx, nx[c])
  PROVE  Chain(L \ {c}, k, mx)
<1> DEFINE M == L \ {c}
<1>1. nx[c] # c
  BY NoSelfLink
<1>2. p # c /\ c # NULL
  BY <1>1 DEF Cursor, Chain
<1>3. \A a \in M : a # p => mx[a] = nx[a] /\ nx[a] # c
  BY DEF Relinked, Cursor, Chain
<1>4. nx[c] \in M \cup {NULL}
  BY <1>1 DEF Chain, Closed
<1>5. Closed(M, k, mx)
  BY <1>2, <1>3, <1>4 DEF Chain, Closed, Relinked, Cursor
<1>6. \A a \in M : mx[a] = k => k = NULL
  BY <1>2, <1>3 DEF Chain, Relinked, Cursor
<1>7. \A a, b \in M : mx[a] = mx[b] /\ mx[a] # NULL => a = b
  BY <1>2, <1>3 DEF Chain, Relinked, Cursor
<1>8. ASSUME NEW S \in SUBSET M, Closed(S, k, mx)
      PROVE  S = M
  <2>1. CASE p = NULL \/ p \in S
    <3>1. Closed(S \cup {c}, h, nx)
      <4>1. h \in S \cup {c} \cup {NULL}
        BY <1>8, <1>2, <2>1 DEF Closed, Relinked, Cursor
      <4>2. nx[c] \in S \cup {NULL}
        BY <1>8, <1>2, <2>1 DEF Closed, Relinked
      <4>3. ASSUME NEW a \in S
            PROVE  nx[a] \in S \cup {c} \cup {NULL}
        <5>1. CASE a = p
          BY <5>1, <1>8, <4>3 DEF Cursor, Chain
        <5>2. CASE a # p
          BY <5>2, <1>8, <1>3, <4>3 DEF Closed
        <5>3. QED
          BY <5>1, <5>2
      <4>4. QED
        BY <4>1, <4>2, <4>3 DEF Closed
    <3>2. S \cup {c} = L
      BY <1>8, <3>1 DEF Chain
    <3>3. QED
      BY <1>8, <3>2
  <2>2. CASE p # NULL /\ p \notin S
    <3>1. Closed(S, h, nx)
      BY <1>8, <1>3, <2>2 DEF Closed, Relinked
    <3>2. S = L
      BY <1>8, <3>1 DEF Chain
    <3>3. QED
      BY <2>2, <3>2 DEF Cursor
  <2>3. QED
    BY <2>1, <2>2
<1>9. QED
  BY <1>5, <1>6, <1>7, <1>8 DEF Chain

\* The node at a cursor replaced by a new one.
LEMMA ChainReplace ==
  ASSUME NEW L, NEW h, NEW nx, Chain(L, h, nx),
         NEW p, NEW c \in L, Cursor(L, h, nx, p, c),
         NEW n, n \notin L, n # NULL,
         NEW k, NEW mx, Relinked(L \ {c}, h, nx, p, k, mx, n), mx[n] = nx[c]
  PROVE  Chain((L \ {c}) \cup {n}, k, mx)
<1> DEFINE M == (L \ {c}) \cup {n}
<1>1. nx[c] # c
  BY NoSelfLink
<1>2. p # c /\ c # NULL /\ p # n
  BY <1>1 DEF Cursor, Chain
<1>3. \A a \in L \ {c} : a # p => mx[a] = nx[a] /\ nx[a] # c
  BY DEF Relinked, Cursor, Chain
<1>4. nx[c] \in (L \ {c}) \cup {NULL} /\ nx[c] # n
  BY <1>1 DEF Chain, Closed
<1>5. \A a \in L \ {c} : nx[a] # n
  BY DEF Chain, Closed
<1>6. NULL \notin M
  BY DEF Chain
<1>7. Closed(M, k, mx)
  BY <1>2, <1>3, <1>4 DEF Chain, Closed, Relinked, Cursor
<1>8. \A a \in M : mx[a] = k => k = NULL
  BY <1>2, <1>3, <1>4, <1>5 DEF Chain, Closed, Relinked, Cursor
<1>9. \A a, b \in M : mx[a] = mx[b] /\ mx[a] # NULL => a = b
  BY <1>2, <1>3, <1>4, <1>5 DEF Chain, Relinked, Cursor
<1>10. ASSUME NEW S \in SUBSET M, Closed(S, k, mx)
       PROVE  S = M
  <2>1. CASE n \in S
    <3> DEFINE T == (S \ {n}) \cup {c}
    <3>1. h \in T \cup {NULL}
      BY <1>10, <1>2 DEF Closed, Relinked, Cursor, Chain
    <3>2. nx[c] \in T \cup {NULL}
      BY <1>10, <1>4, <2>1 DEF Closed
    <3>3. ASSUME NEW a \in S \ {n}
          PROVE  nx[a] \in T \cup {NULL}
      <4>1. CASE a = p
        BY <4>1, <1>10, <3>3 DEF Cursor, Chain
      <4>2. CASE a # p
        BY <4>2, <1>10, <1>3, <1>5, <3>3 DEF Closed
      <4>3. QED
        BY <4>1, <4>2
    <3>4. Closed(T, h, nx)
      BY <3>1, <3>2, <3>3, ZenonT(60) DEF Closed
    <3>5. T \in SUBSET L
      BY <1>10
    <3>6. T = L
      BY <3>4, <3>5 DEF Chain
    <3>7. QED
      BY <1>10, <2>1, <3>6
  <2>2. CASE n \notin S
    <3>1. p # NULL /\ p \notin S /\ k = h
      BY <1>10, <2>2 DEF Closed, Relinked
    <3>2. Closed(S, h, nx)
      BY <1>10, <1>3, <2>2, <3>1 DEF Closed
    <3>3. S = L
      BY <1>10, <2>2, <3>2, ZenonT(60) DEF Chain
    <3>4. QED
      BY <3>1, <3>3 DEF Cursor
  <2>3. QED
    BY <2>1, <2>2
<1>11. QED
  BY <1>6, <1>7, <1>8, <1>9, <1>10 DEF Chain

\* A node put in at a cursor, which may be the end of the list.
LEMMA ChainInsert ==
  ASSUME NEW L, NEW h, NEW nx, Chain(L, h, nx),
         NEW p, NEW c \in L \cup {NULL}, Cursor(L, h, nx, p, c),
         NEW b, b \notin L, b # NULL,
         NEW k, NEW mx, Relinked(L, h, nx, p, k, mx, b), mx[b] = c
  PROVE  Chain(L \cup {b}, k, mx)
<1> DEFINE M == L \cup {b}
<1>1. p # b
  BY DEF Cursor
<1>2. \A a \in L : a # p => mx[a] = nx[a]
  BY DEF Relinked
<1>3. \A a \in L : nx[a] # b
  BY DEF Chain, Closed
<1>4. h # b
  BY DEF Chain, Closed
<1>5. \A a \in L : a # p => nx[a] # c \/ c = NULL
  BY DEF Chain, Cursor
<1>6. Closed(M, k, mx) /\ NULL \notin M
  BY <1>1, <1>2 DEF Chain, Closed, Relinked, Cursor
<1>7. \A a \in M : mx[a] = k => k = NULL
  BY <1>1, <1>2, <1>3, <1>4, <1>5 DEF Chain, Closed, Relinked, Cursor
<1>8. \A a, d \in M : mx[a] = mx[d] /\ mx[a] # NULL => a = d
  BY <1>1, <1>2, <1>3, <1>5 DEF Chain, Relinked, Cursor
<1>9. ASSUME NEW S \in SUBSET M, Closed(S, k, mx)
      PROVE  S = M
  <2> DEFINE T == S \ {b}
  <2>1. b \in S => c \in T \cup {NULL}
    BY <1>9 DEF Closed
  <2>2. h \in T \cup {NULL}
    BY <1>9, <1>4, <2>1, ZenonT(60) DEF Closed, Relinked, Cursor
  <2>3. \A a \in T : a # p => nx[a] \in T \cup {NULL}
    BY <1>9, <1>2, <1>3 DEF Closed
  <2>4. p \in T => nx[p] \in T \cup {NULL}
    BY <1>9, <2>1 DEF Closed, Relinked, Cursor, Chain
  <2>5. Closed(T, h, nx)
    BY <2>2, <2>3, <2>4, ZenonT(60) DEF Closed
  <2>6. T \in SUBSET L
    BY <1>9
  <2>7. T = L
    BY <2>5, <2>6 DEF Chain
  <2>8. b \in S
    BY <1>9, <2>7 DEF Closed, Relinked, Cursor
  <2>9. QED
    BY <2>7, <2>8, ZenonT(60)
<1>10. QED
  BY <1>6, <1>7, <1>8, <1>9, ZenonT(60) DEF Chain

-----------------------------------------------------------------------------
Handling == {"publish", "fscan"}
Scanning == {"scan", "fscan"}
Hot == {"scan", "fscan", "publish"}

\* The blocks that the free list should hold.
Listed == {b \in blocks \ used : \A t \in Threads : pc[t] \in Handling => b # blk[t]}

\* The lock is held by the thread in a loop over the list and nobody else, and
\* a thread in add_pool after boot is the only one.
LockInv ==
  /\ \A t \in Threads : pc[t] \in Scanning => lock = t
  /\ \A t \in Threads : pc[t] # "idle" => Booted
  /\ \A s, t \in Threads : pc[s] = "publish" => s = t

\* Blocks lie below the pools that pmalloc has yet to return.
BelowNewPools ==
  \A b \in blocks : \A i \in 1 .. Len(Pools) : i > npools => End(b) <= Pools[i]

\* The free list goes through exactly these blocks.
LinkInv == Chain(Listed, free_list, next)

\* What the locals of the loops point to.
CursorInv ==
  \A t \in Threads :
    /\ pc[t] \in Scanning =>
         /\ curr[t] \in Listed \cup {NULL}
         /\ Cursor(Listed, free_list, next, prev[t], curr[t])
    /\ pc[t] \in Handling => blk[t] \in blocks \ used
    /\ pc[t] = "publish" => next[blk[t]] = free_list

Inv == TypeOK /\ LockInv /\ BelowNewPools /\ BlocksDisjoint /\ LinkInv /\ CursorInv

\* The bytes that belong to some block.
Covered == {x \in Nat : \E b \in blocks : b <= x /\ x < End(b)}

-----------------------------------------------------------------------------

\* Rounding stays in the naturals.
LEMMA RoundUpNat ==
  ASSUME NEW n \in Nat
  PROVE  RoundUp(n) \in Nat
<1>1. (n + KMALLOC_ALIGN - 1) % SizeMod \in Nat
  BY KmallocAssumption
<1>2. ((n + KMALLOC_ALIGN - 1) % SizeMod) \div KMALLOC_ALIGN \in Nat
  BY <1>1, KmallocAssumption
<1>3. QED
  BY <1>2, KmallocAssumption DEF RoundUp

\* A field written.
LEMMA PutType ==
  ASSUME NEW A, NEW f \in [A -> Nat], NEW x, NEW v \in Nat
  PROVE  /\ Put(f, x, v) \in [A \cup {x} -> Nat]
         /\ Put(f, x, v)[x] = v
         /\ \A y \in A : y # x => Put(f, x, v)[y] = f[y]
  BY DEF Put

LEMMA EndNat ==
  ASSUME TypeOK
  PROVE  \A b \in blocks : b \in Nat /\ size[b] \in Nat /\ End(b) \in Nat /\ b < End(b)
<1>1. BLOCK_HEADER_SIZE \in Nat \ {0}
  BY KmallocAssumption
<1>2. \A b \in blocks : b \in Nat /\ size[b] \in Nat
  BY DEF TypeOK
<1>3. QED
  BY <1>1, <1>2 DEF End

\* The list keeps its blocks when the headers do and the thread that moves has
\* no block in hand before and after, or the same one.
LEMMA ListedSame ==
  ASSUME TypeOK, NEW t \in Threads, NEW l,
         blocks' = blocks, used' = used,
         pc' = [pc EXCEPT ![t] = l],
         \A s \in Threads \ {t} : blk'[s] = blk[s],
         l \in Handling <=> pc[t] \in Handling,
         l \in Handling => blk'[t] = blk[t]
  PROVE  Listed' = Listed
<1>1. \A s \in Threads : pc'[s] \in Handling <=> pc[s] \in Handling
  BY ZenonT(60) DEF TypeOK
<1>2. \A s \in Threads : pc[s] \in Handling => blk'[s] = blk[s]
  OBVIOUS
<1>3. \A b \in blocks \ used :
        (\A s \in Threads : pc'[s] \in Handling => b # blk'[s])
        <=> (\A s \in Threads : pc[s] \in Handling => b # blk[s])
  BY <1>1, <1>2, ZenonT(60)
<1>4. QED
  BY <1>3 DEF Listed

\* A step of a thread that writes no header keeps the invariant when its cursor
\* is right.
LEMMA QuietStep ==
  ASSUME Inv, TypeOK', LockInv', NEW t \in Threads, NEW l,
         UNCHANGED <<headers, npools>>,
         pc' = [pc EXCEPT ![t] = l],
         \A s \in Threads \ {t} : curr'[s] = curr[s] /\ prev'[s] = prev[s] /\ blk'[s] = blk[s],
         l # "publish",
         l \in Handling <=> pc[t] \in Handling,
         l \in Handling => blk'[t] = blk[t],
         l \in Scanning => /\ curr'[t] \in Listed \cup {NULL}
                           /\ Cursor(Listed, free_list, next, prev'[t], curr'[t])
  PROVE  Inv'
<1>1. Listed' = Listed
  BY ListedSame, ZenonT(60) DEF Inv, headers
<1>2. BelowNewPools' /\ BlocksDisjoint'
  BY ZenonT(60) DEF Inv, headers, BelowNewPools, BlocksDisjoint, End
<1>3. LinkInv'
  BY <1>1 DEF Inv, headers, LinkInv
<1>4. \A s \in Threads : s # t => pc'[s] = pc[s]
  BY ZenonT(60) DEF Inv, TypeOK
<1>5. pc'[t] = l
  BY ZenonT(60) DEF Inv, TypeOK
<1>6. CursorInv'
  BY <1>1, <1>4, <1>5 DEF Inv, headers, CursorInv
<1>7. QED
  BY <1>2, <1>3, <1>6 DEF Inv

\* The calls: the thread leaves "idle" for the lock.
LEMMA CallPreserves ==
  ASSUME Inv, NEW t \in Threads, NEW n0 \in Nat, NEW n \in Nat,
         CallKmalloc(t, n0, n), old' \in [Threads -> Nat]
  PROVE  Inv'
<1> USE DEF Inv
<1>1. TypeOK'
  BY RoundUpNat, ZenonT(60) DEF CallKmalloc, TypeOK, headers, Goto
<1>2. LockInv'
  BY ZenonT(60) DEF CallKmalloc, TypeOK, headers, Goto, LockInv, Booted, Scanning
<1>3. QED
  BY <1>1, <1>2, QuietStep, ZenonT(60) DEF CallKmalloc, Goto, Handling, Scanning, TypeOK

LEMMA StartKfreePreserves ==
  ASSUME Inv, NEW t \in Threads, NEW b \in blocks, StartKfree(t, b)
  PROVE  Inv'
<1> USE DEF Inv
<1>1. TypeOK'
  BY ZenonT(60) DEF StartKfree, TypeOK, headers, Goto
<1>2. LockInv'
  BY ZenonT(60) DEF StartKfree, TypeOK, headers, Goto, LockInv, Booted, Scanning
<1>3. QED
  BY <1>1, <1>2, QuietStep, ZenonT(60) DEF StartKfree, Goto, Handling, Scanning, TypeOK

LEMMA LockPreserves ==
  ASSUME Inv, NEW t \in Threads, Lock(t)
  PROVE  Inv'
<1> USE DEF Inv
<1>1. TypeOK'
  BY ZenonT(60) DEF Lock, TypeOK, headers, Goto, NULL
<1>2. \A s \in Threads : pc[s] \notin Scanning /\ (s # t => pc'[s] = pc[s])
  BY KmallocAssumption DEF Lock, Goto, TypeOK, LockInv
<1>3. pc'[t] = "scan" /\ pc[t] = "lock" /\ lock' = t
  BY ZenonT(60) DEF Lock, Goto, TypeOK
<1>4. LockInv'
  <2>1. \A s \in Threads : pc'[s] \in Scanning => lock' = s
    BY <1>2, <1>3, ZenonT(60)
  <2>2. \A s \in Threads : pc'[s] # "idle" => Booted'
    BY <1>2, <1>3 DEF Lock, Booted, LockInv
  <2>3. \A s, u \in Threads : pc'[s] = "publish" => s = u
    BY <1>2, <1>3, ZenonT(60) DEF LockInv
  <2>4. QED
    BY <2>1, <2>2, <2>3, ZenonT(60) DEF LockInv
<1>5. free_list \in Listed \cup {NULL} /\ curr'[t] = free_list /\ prev'[t] = NULL
  BY SMTT(60) DEF Lock, LinkInv, Chain, Closed, TypeOK
<1>6. QED
  BY <1>1, <1>3, <1>4, <1>5, QuietStep, ZenonT(60) DEF Lock, Goto, Handling, Scanning, TypeOK, Cursor

LEMMA AdvancePreserves ==
  ASSUME Inv, NEW t \in Threads, pc[t] \in Scanning, curr[t] # NULL, Advance(t)
  PROVE  Inv'
<1> USE DEF Inv
<1>1. curr[t] \in Listed /\ curr[t] \in blocks
  BY ZenonT(60) DEF CursorInv, Listed
<1>2. next[curr[t]] \in Listed \cup {NULL}
  BY <1>1 DEF LinkInv, Chain, Closed
<1>3. TypeOK'
  BY <1>1, ZenonT(60) DEF Advance, TypeOK, headers
<1>4. LockInv'
  BY DEF Advance, headers, LockInv, Booted
<1>5. pc' = [pc EXCEPT ![t] = pc[t]]
  BY DEF Advance, TypeOK
<1>6. prev'[t] = curr[t] /\ curr'[t] = next[curr[t]]
  BY DEF Advance, TypeOK
<1>7. QED
  BY <1>1, <1>2, <1>3, <1>4, <1>5, <1>6, QuietStep, ZenonT(60)
     DEF Advance, Handling, Scanning, TypeOK, Cursor

LEMMA ScanFailsPreserves ==
  ASSUME Inv, NEW t \in Threads, ScanFails(t)
  PROVE  Inv'
<1> USE DEF Inv
<1>1. TypeOK'
  BY ZenonT(60) DEF ScanFails, Forget, TypeOK, headers, Goto, NULL
<1>2. LockInv'
  BY DEF ScanFails, TypeOK, headers, Goto, LockInv, Booted, Scanning
<1>3. QED
  BY <1>1, <1>2, QuietStep, ZenonT(60) DEF ScanFails, Forget, Goto, Handling, Scanning, TypeOK

LEMMA GrowFailsPreserves ==
  ASSUME Inv, NEW t \in Threads, GrowFails(t)
  PROVE  Inv'
<1> USE DEF Inv
<1>1. TypeOK'
  BY ZenonT(60) DEF GrowFails, TypeOK, headers, locals, Goto
<1>2. LockInv'
  BY ZenonT(60) DEF GrowFails, TypeOK, headers, locals, Goto, LockInv, Booted, Scanning
<1>3. QED
  BY <1>1, <1>2, QuietStep, ZenonT(60) DEF GrowFails, locals, Goto, Handling, Scanning, TypeOK

\* While a thread is in a loop over the list or in add_pool, no other is.
LEMMA AloneInside ==
  ASSUME Inv, NEW t \in Threads, pc[t] \in Hot
  PROVE  \A s \in Threads : s # t => pc[s] \notin Hot
  BY DEF Inv, LockInv, Hot, Scanning

\* With one thread inside, the free list lacks at most the block in its hand.
LEMMA ListedInside ==
  ASSUME Inv, NEW t \in Threads, pc[t] \in Hot
  PROVE  /\ pc[t] = "scan" => Listed = blocks \ used
         /\ pc[t] \in Handling => Listed = (blocks \ used) \ {blk[t]}
<1>1. \A s \in Threads : s # t => pc[s] \notin Handling
  BY AloneInside DEF Hot, Handling
<1>2. QED
  BY <1>1 DEF Listed, Handling

\* Unlocking leaves nobody inside.
LEMMA LeaveStep ==
  ASSUME Inv, NEW t \in Threads, pc[t] \in Scanning,
         NEW l \in {"idle", "flock"}, pc' = [pc EXCEPT ![t] = l],
         npools' = npools
  PROVE  LockInv' /\ CursorInv' /\ Listed' = blocks' \ used'
<1>1. \A s \in Threads : pc'[s] \notin Hot
  BY AloneInside, ZenonT(60) DEF Inv, TypeOK, Hot, Scanning
<1>2. Booted
  BY DEF Inv, LockInv, Scanning
<1>3. LockInv'
  BY <1>1, <1>2 DEF LockInv, Booted, Hot, Scanning
<1>4. CursorInv'
  BY <1>1 DEF CursorInv, Hot, Scanning, Handling
<1>5. Listed' = blocks' \ used'
  BY <1>1, ZenonT(60) DEF Listed, Hot, Handling
<1>6. QED
  BY <1>3, <1>4, <1>5

\* What Unlink does to the list.
LEMMA UnlinkRelinks ==
  ASSUME NEW t \in Threads, NEW nx, NEW to, NEW L,
         Unlink(t, nx, to), L \subseteq DOMAIN nx, prev[t] \in L \cup {NULL},
         NULL \notin L,
         \A a \in L : nx[a] = next[a]
  PROVE  Relinked(L, free_list, next, prev[t], free_list', next', to)
  BY ZenonT(60) DEF Unlink, Relinked, Put

LEMMA UnlinkType ==
  ASSUME TypeOK, NEW t \in Threads, NEW A, NEW nx \in [A -> Nat], NEW to \in Nat,
         Unlink(t, nx, to), prev[t] \in A \cup {NULL}
  PROVE  next' \in [A -> Nat] /\ free_list' \in Nat
<1>1. CASE prev[t] # NULL
  <2>1. next' \in [A \cup {prev[t]} -> Nat]
    BY <1>1 DEF Unlink, Put
  <2>2. A \cup {prev[t]} = A
    BY <1>1
  <2>3. QED
    BY <1>1, <2>1, <2>2, ZenonT(60) DEF Unlink, TypeOK
<1>2. CASE prev[t] = NULL
  BY <1>2 DEF Unlink
<1>3. QED
  BY <1>1, <1>2, ZenonT(60)

LEMMA TakeWholePreserves ==
  ASSUME Inv, NEW t \in Threads, TakeWhole(t)
  PROVE  Inv'
<1> DEFINE c == curr[t]
           p == prev[t]
           l == IF old[t] = NULL THEN "idle" ELSE "flock"
<1>0. pc[t] = "scan" /\ c # NULL /\ c \in Listed /\ Cursor(Listed, free_list, next, p, c)
  BY ZenonT(60) DEF TakeWhole, Inv, CursorInv, Scanning
<1>1. Listed = blocks \ used /\ Chain(Listed, free_list, next) /\ NULL \notin Listed
  BY <1>0, ListedInside DEF Hot, Inv, LinkInv, Chain
<1>2. p \in (Listed \ {c}) \cup {NULL}
  BY <1>0, <1>1, NoSelfLink, SMTT(60) DEF Cursor
<1>3. LockInv' /\ CursorInv' /\ Listed' = blocks' \ used'
  BY <1>0, LeaveStep, ZenonT(60) DEF TakeWhole, Deliver, Goto, Scanning
<1>4. Listed' = Listed \ {c}
  BY <1>1, <1>3, ZenonT(60) DEF TakeWhole
<1>5. next[c] \in Nat /\ c \in blocks
  BY <1>0, <1>1, ZenonT(60) DEF Inv, TypeOK
<1>6. Relinked(Listed \ {c}, free_list, next, p, free_list', next', next[c])
  BY <1>1, <1>2, UnlinkRelinks, ZenonT(60) DEF TakeWhole, Inv, TypeOK
<1>7. LinkInv'
  BY <1>0, <1>1, <1>4, <1>6, ChainRemove, ZenonT(60) DEF LinkInv
<1>8. next' \in [blocks' -> Nat] /\ free_list' \in Nat
  <2>1. blocks' = blocks /\ next \in [blocks -> Nat] /\ TypeOK
    BY ZenonT(60) DEF TakeWhole, Inv, TypeOK
  <2>2. prev[t] \in blocks \cup {NULL} /\ Unlink(t, next, next[c])
    BY <1>1, <1>2 DEF TakeWhole
  <2>3. QED
    BY <1>5, <2>1, <2>2, UnlinkType
<1>9. TypeOK'
  BY <1>5, <1>8, ZenonT(60) DEF TakeWhole, Deliver, Forget, Goto, Inv, TypeOK, NULL
<1>10. BelowNewPools' /\ BlocksDisjoint'
  BY ZenonT(60) DEF TakeWhole, Deliver, Inv, BelowNewPools, BlocksDisjoint, End
<1>11. QED
  BY <1>3, <1>7, <1>9, <1>10, ZenonT(60) DEF Inv

LEMMA TakeSplitPreserves ==
  ASSUME Inv, NEW t \in Threads, TakeSplit(t)
  PROVE  /\ Inv'
         /\ Covered' = Covered
         /\ curr[t] \in blocks \ used /\ used' = used \cup {curr[t]}
         /\ size'[curr[t]] = want[t] /\ \A b \in used : size'[b] = size[b]
<1> DEFINE p == prev[t]
<1>a. PICK c : c = curr[t]
  OBVIOUS
<1>b. PICK n : n = c + BLOCK_HEADER_SIZE + want[t]
  BY ZenonT(60)
<1> DEFINE nx == Put([next EXCEPT ![c] = n], n, next[c])
<1>0. pc[t] = "scan" /\ c # NULL /\ c \in Listed /\ Cursor(Listed, free_list, next, p, c)
  BY <1>a, ZenonT(60) DEF TakeSplit, Inv, CursorInv, Scanning
<1>1. Listed = blocks \ used /\ Chain(Listed, free_list, next) /\ NULL \notin Listed
  BY <1>0, ListedInside, ZenonT(60) DEF Hot, Inv, LinkInv, Chain
<1>2. p \in (Listed \ {c}) \cup {NULL}
  BY <1>0, <1>1, NoSelfLink, ZenonT(60) DEF Cursor
<1>3. LockInv' /\ CursorInv' /\ Listed' = blocks' \ used'
  BY <1>0, LeaveStep, ZenonT(60) DEF TakeSplit, Deliver, Goto, Scanning
<1>4. /\ c \in blocks /\ c \in Nat /\ size[c] \in Nat /\ next[c] \in Nat
      /\ want[t] \in Nat /\ n \in Nat
      /\ BLOCK_HEADER_SIZE \in Nat \ {0} /\ KMALLOC_MIN_SIZE \in Nat \ {0}
  <2>1. c \in blocks /\ want[t] \in Nat
    BY <1>0, <1>1, ZenonT(60) DEF Inv, TypeOK
  <2>2. c \in Nat /\ size[c] \in Nat /\ next[c] \in Nat
    BY <2>1, ZenonT(60) DEF Inv, TypeOK
  <2>3. QED
    BY <1>b, <2>1, <2>2, KmallocAssumption
<1>5. c < n /\ n < End(c)
  BY <1>a, <1>b, <1>4 DEF TakeSplit, Splits, End
<1>6. n \notin blocks /\ n # NULL
  <2>1. n \in blocks => End(c) <= n
    BY <1>4, <1>5, ZenonT(60) DEF Inv, BlocksDisjoint
  <2>2. End(c) \in Nat
    BY <1>4, EndNat, ZenonT(60) DEF Inv
  <2>3. QED
    BY <1>4, <1>5, <2>1, <2>2 DEF NULL
<1>7. /\ blocks' = blocks \cup {n}
      /\ size' = Put([size EXCEPT ![c] = want[t]], n, size[c] - want[t] - BLOCK_HEADER_SIZE)
      /\ Unlink(t, nx, n)
      /\ used' = used \cup {c}
  BY <1>a, <1>b DEF TakeSplit, Rest
<1>8. Listed' = (Listed \ {c}) \cup {n}
  BY <1>1, <1>3, <1>4, <1>5, <1>6, <1>7, ZenonT(60) DEF Inv, TypeOK
<1>9. DOMAIN nx = blocks \cup {n} /\ nx[n] = next[c] /\ \A a \in Listed \ {c} : nx[a] = next[a]
  BY <1>1, <1>4, <1>6 DEF Put, Inv, TypeOK
<1> HIDE DEF nx
<1>10. Relinked(Listed \ {c}, free_list, next, p, free_list', next', n)
  BY <1>1, <1>2, <1>7, <1>9, UnlinkRelinks, ZenonT(60)
<1>11. next'[n] = next[c]
  BY <1>1, <1>2, <1>6, <1>7, <1>9, ZenonT(60) DEF Unlink, Put
<1>12. LinkInv'
  BY <1>0, <1>1, <1>6, <1>8, <1>10, <1>11, ChainReplace, ZenonT(60) DEF LinkInv
<1>13. /\ size' \in [blocks' -> Nat]
       /\ size'[c] = want[t] /\ size'[n] = size[c] - want[t] - BLOCK_HEADER_SIZE
       /\ \A b \in blocks \ {c} : size'[b] = size[b]
  <2>1. [size EXCEPT ![c] = want[t]] \in [blocks -> Nat]
    BY <1>4, ZenonT(60) DEF Inv, TypeOK
  <2>2. size[c] - want[t] - BLOCK_HEADER_SIZE \in Nat
    BY <1>a, <1>4 DEF TakeSplit, Splits
  <2>3. \A b \in blocks : [size EXCEPT ![c] = want[t]][b] = IF b = c THEN want[t] ELSE size[b]
    BY ZenonT(60) DEF Inv, TypeOK
  <2> DEFINE f == [size EXCEPT ![c] = want[t]]
             v == size[c] - want[t] - BLOCK_HEADER_SIZE
  <2> HIDE DEF f, v
  <2>4. f \in [blocks -> Nat] /\ v \in Nat /\ size' = Put(f, n, v)
    BY <1>7, <2>1, <2>2, ZenonT(60) DEF f, v
  <2>5. size' \in [blocks' -> Nat] /\ size'[n] = v /\ \A b \in blocks : b # n => size'[b] = f[b]
    BY <1>7, <2>4 DEF Put
  <2>6. QED
    BY <1>4, <1>6, <2>3, <2>5, ZenonT(60) DEF f, v
<1>14. nx \in [blocks' -> Nat]
  <2>1. [next EXCEPT ![c] = n] \in [blocks -> Nat]
    BY <1>4 DEF Inv, TypeOK
  <2>2. QED
    BY <1>4, <1>7, <2>1, PutType, ZenonT(60) DEF nx
<1>15. next' \in [blocks' -> Nat] /\ free_list' \in Nat
  <2>1. prev[t] \in blocks' \cup {NULL}
    BY <1>1, <1>2, <1>7, ZenonT(60)
  <2>2. QED
    BY <1>4, <1>7, <1>14, <2>1, UnlinkType, ZenonT(60) DEF Inv
<1>16. TypeOK'
  BY <1>4, <1>6, <1>7, <1>13, <1>15, ZenonT(60) DEF TakeSplit, Deliver, Forget, Goto, Inv, TypeOK, NULL
<1>17. /\ End(c)' = n /\ End(n)' = End(c)
       /\ \A b \in blocks \ {c} : End(b)' = End(b) /\ End(b) \in Nat
       /\ End(c) \in Nat
  <2>1. End(c)' = n /\ End(n)' = End(c)
    BY <1>4, <1>b, <1>13 DEF End
  <2>2. \A b \in blocks \ {c} : End(b)' = End(b)
    BY <1>13 DEF End
  <2>3. QED
    BY <1>4, <2>1, <2>2, EndNat DEF Inv
<1>18. BlocksDisjoint'
  <2> SUFFICES ASSUME NEW a \in blocks', NEW b \in blocks', a < b
               PROVE  End(a)' <= b
    BY DEF BlocksDisjoint
  <2>0. /\ \A x, y \in blocks : x < y => End(x) <= y
        /\ \A x \in blocks : x \in Nat /\ End(x) \in Nat /\ x < End(x)
    BY EndNat, ZenonT(60) DEF Inv, BlocksDisjoint
  <2>1. CASE a = c
    BY <1>4, <1>5, <1>7, <1>17, <2>0, <2>1
  <2>2. CASE a = n
    BY <1>4, <1>5, <1>7, <1>17, <2>0, <2>2
  <2>3. CASE a \in blocks \ {c} /\ b \in blocks
    BY <1>17, <2>0, <2>3, ZenonT(60)
  <2>4. CASE a \in blocks \ {c} /\ b = n
    BY <1>4, <1>5, <1>17, <2>0, <2>4
  <2>5. QED
    BY <1>7, <2>1, <2>2, <2>3, <2>4
<1>19. BelowNewPools'
  <2>1. npools' = npools
    BY DEF TakeSplit, Deliver
  <2>2. \A i \in 1 .. Len(Pools) : Pools[i] \in Nat
    BY KmallocAssumption
  <2>3. \A b \in blocks : \A i \in 1 .. Len(Pools) : i > npools => End(b) <= Pools[i]
    BY ZenonT(60) DEF Inv, BelowNewPools
  <2>4. \A b \in blocks' : \E a \in blocks : End(b)' <= End(a) /\ End(b)' \in Nat /\ End(a) \in Nat
    BY <1>4, <1>5, <1>7, <1>17
  <2>5. QED
    BY <2>1, <2>2, <2>3, <2>4 DEF BelowNewPools
<1>20. Covered' = Covered
  <2>1. \A b \in blocks : b \in Nat /\ End(b) \in Nat
    BY EndNat, ZenonT(60) DEF Inv
  <2>2. ASSUME NEW x \in Nat
        PROVE  (\E b \in blocks' : b <= x /\ x < End(b)') <=> (\E b \in blocks : b <= x /\ x < End(b))
    <3>1. ASSUME NEW b \in blocks', b <= x, x < End(b)'
          PROVE  \E d \in blocks : d <= x /\ x < End(d)
      BY <1>4, <1>5, <1>7, <1>17, <2>1, <3>1
    <3>2. ASSUME NEW b \in blocks, b <= x, x < End(b)
          PROVE  \E d \in blocks' : d <= x /\ x < End(d)'
      BY <1>4, <1>5, <1>7, <1>17, <2>1, <3>2, SMTT(60)
    <3>3. QED
      BY <3>1, <3>2, ZenonT(60)
  <2>3. QED
    BY <2>2 DEF Covered
<1>21. curr[t] \in blocks \ used /\ used' = used \cup {curr[t]}
  BY <1>a, <1>0, <1>1, <1>7, ZenonT(60)
<1>22. size'[curr[t]] = want[t] /\ \A b \in used : size'[b] = size[b]
  BY <1>a, <1>13, <1>21, ZenonT(60) DEF Inv, TypeOK
<1>23. QED
  BY <1>3, <1>12, <1>16, <1>18, <1>19, <1>20, <1>21, <1>22, ZenonT(60) DEF Inv

\* What add_pool does to the headers.
LEMMA NewPoolPreserves ==
  ASSUME Inv, npools < Len(Pools), NEW p, p = Pools[npools + 1], NewPool(p)
  PROVE  /\ p \in Nat \ {NULL} /\ p \notin blocks
         /\ blocks' \subseteq Nat \ {NULL} /\ used' \subseteq blocks'
         /\ size' \in [blocks' -> Nat] /\ next' \in [blocks' -> Nat]
         /\ npools' \in 0 .. Len(Pools)
         /\ next'[p] = free_list /\ \A b \in blocks : next'[b] = next[b]
         /\ BelowNewPools' /\ BlocksDisjoint'
         /\ Covered' = Covered \cup {x \in Nat : p <= x /\ x < p + PoolBytes}
         /\ \A b \in blocks : size'[b] = size[b]
<1>1. /\ npools + 1 \in 1 .. Len(Pools) /\ npools \in Nat /\ npools' = npools + 1
      /\ Len(Pools) \in Nat
  <2>1. Len(Pools) \in Nat
    BY KmallocAssumption
  <2>2. npools \in 0 .. Len(Pools) /\ npools' = npools + 1
    BY ZenonT(60) DEF Inv, TypeOK, NewPool
  <2>3. QED
    BY <2>1, <2>2
<1>2. p \in Nat \ {NULL}
  BY <1>1, KmallocAssumption DEF NULL
<1>3. \A b \in blocks : b \in Nat /\ End(b) \in Nat /\ b < End(b) /\ End(b) <= p
  BY <1>1, EndNat DEF Inv, BelowNewPools
<1>4. p \notin blocks
  BY <1>2, <1>3
<1>5. PoolBytes - BLOCK_HEADER_SIZE \in Nat /\ BLOCK_HEADER_SIZE \in Nat /\ PoolBytes \in Nat
  BY KmallocAssumption
<1>6. /\ blocks' = blocks \cup {p} /\ used' = used
      /\ size' = Put(size, p, PoolBytes - BLOCK_HEADER_SIZE)
      /\ next' = Put(next, p, free_list)
  BY ZenonT(60) DEF NewPool
<1>7. /\ size \in [blocks -> Nat] /\ next \in [blocks -> Nat] /\ free_list \in Nat
      /\ blocks \subseteq Nat \ {NULL} /\ used \subseteq blocks
  BY ZenonT(60) DEF Inv, TypeOK
<1>8. /\ size' \in [blocks' -> Nat] /\ size'[p] = PoolBytes - BLOCK_HEADER_SIZE
      /\ \A b \in blocks : size'[b] = size[b]
  BY <1>4, <1>5, <1>6, <1>7, ZenonT(60) DEF Put
<1>9. /\ next' \in [blocks' -> Nat] /\ next'[p] = free_list
      /\ \A b \in blocks : next'[b] = next[b]
  BY <1>4, <1>6, <1>7, ZenonT(60) DEF Put
<1>10. End(p)' = p + PoolBytes /\ \A b \in blocks : End(b)' = End(b)
  BY <1>2, <1>5, <1>8 DEF End
<1>11. BlocksDisjoint'
  <2> SUFFICES ASSUME NEW a \in blocks', NEW b \in blocks', a < b
               PROVE  End(a)' <= b
    BY DEF BlocksDisjoint
  <2>1. CASE a = p
    BY <1>2, <1>3, <1>6, <2>1
  <2>2. CASE a \in blocks /\ b = p
    BY <1>3, <1>10, <2>2, ZenonT(60)
  <2>3. CASE a \in blocks /\ b \in blocks
    BY <1>10, <2>3, ZenonT(60) DEF Inv, BlocksDisjoint
  <2>4. QED
    BY <1>6, <2>1, <2>2, <2>3, ZenonT(60)
<1>12. BelowNewPools'
  <2> SUFFICES ASSUME NEW b \in blocks', NEW i \in 1 .. Len(Pools), i > npools'
               PROVE  End(b)' <= Pools[i]
    BY ZenonT(60) DEF BelowNewPools
  <2>1. p + PoolBytes <= Pools[i] /\ Pools[i] \in Nat
    BY <1>1, KmallocAssumption
  <2>2. CASE b = p
    BY <1>10, <2>1, <2>2, ZenonT(60)
  <2>3. CASE b \in blocks
    BY <1>2, <1>3, <1>5, <1>10, <2>1, <2>3
  <2>4. QED
    BY <1>6, <2>2, <2>3, ZenonT(60)
<1>13. Covered' = Covered \cup {x \in Nat : p <= x /\ x < p + PoolBytes}
  BY <1>6, <1>10, ZenonT(60) DEF Covered
<1>14. QED
  <2>1. blocks' \subseteq Nat \ {NULL} /\ used' \subseteq blocks'
    BY <1>2, <1>6, <1>7, ZenonT(60)
  <2>2. npools' \in 0 .. Len(Pools)
    BY <1>1
  <2>3. QED
    BY <1>2, <1>4, <1>8, <1>9, <1>11, <1>12, <1>13, <2>1, <2>2, ZenonT(60)

LEMMA KmallocInitPreserves ==
  ASSUME Inv, KmallocInit
  PROVE  Inv'
<1>1. PICK p : p = Pools[npools + 1]
  BY ZenonT(60)
<1>2. npools < Len(Pools) /\ NewPool(p) /\ free_list' = p /\ npools' = npools + 1
  BY <1>1, ZenonT(60) DEF KmallocInit, NewPool
<1>3. /\ p \in Nat \ {NULL} /\ p \notin blocks
      /\ blocks' \subseteq Nat \ {NULL} /\ used' \subseteq blocks'
      /\ size' \in [blocks' -> Nat] /\ next' \in [blocks' -> Nat]
      /\ npools' \in 0 .. Len(Pools)
      /\ next'[p] = free_list /\ \A b \in blocks : next'[b] = next[b]
      /\ BelowNewPools' /\ BlocksDisjoint'
  BY <1>1, <1>2, NewPoolPreserves
<1>4. TypeOK'
  BY <1>2, <1>3, ZenonT(60) DEF KmallocInit, locals, Inv, TypeOK
<1>5. \A t \in Threads : pc[t] = "idle" /\ pc'[t] = "idle"
  BY <1>2, KmallocAssumption DEF KmallocInit, Inv, TypeOK, LockInv, Booted
<1>6. LockInv' /\ CursorInv'
  BY <1>5 DEF LockInv, CursorInv, Scanning, Handling
<1>7. Listed = blocks \ used /\ Listed' = blocks' \ used'
  BY <1>5, ZenonT(60) DEF Listed, Handling
<1>8. Listed' = Listed \cup {p} /\ p \notin Listed /\ Listed \subseteq blocks
  BY <1>2, <1>3, <1>7, SMTT(60) DEF NewPool, Inv, TypeOK
<1>9. LinkInv'
  BY <1>2, <1>3, <1>8, ChainPush, ZenonT(60) DEF LinkInv, Inv
<1>10. QED
  BY <1>3, <1>4, <1>6, <1>9 DEF Inv

LEMMA GrowPreserves ==
  ASSUME Inv, Guarded, NEW t \in Threads, Grow(t)
  PROVE  Inv'
<1>1. PICK p : p = Pools[npools + 1]
  BY ZenonT(60)
<1>2. /\ npools < Len(Pools) /\ NewPool(p) /\ npools' = npools + 1
      /\ free_list' = free_list /\ pc[t] = "grow"
  BY <1>1, ZenonT(60) DEF Grow, NewPool
<1>3. /\ p \in Nat \ {NULL} /\ p \notin blocks
      /\ blocks' \subseteq Nat \ {NULL} /\ used' \subseteq blocks'
      /\ size' \in [blocks' -> Nat] /\ next' \in [blocks' -> Nat]
      /\ npools' \in 0 .. Len(Pools)
      /\ next'[p] = free_list /\ \A b \in blocks : next'[b] = next[b]
      /\ BelowNewPools' /\ BlocksDisjoint'
  BY <1>1, <1>2, NewPoolPreserves, SMTT(60)
<1>4. TypeOK'
  BY <1>1, <1>2, <1>3, ZenonT(60) DEF Grow, Goto, Inv, TypeOK
<1>5. \A s \in Threads : s = t
  <2>1. Len(Pools) \in Nat /\ POOL_COUNT \in Nat
    BY KmallocAssumption
  <2>2. npools \in 0 .. Len(Pools) /\ Booted
    BY <1>2, ZenonT(60) DEF Inv, TypeOK, LockInv
  <2>3. ~ (POOL_COUNT >= Len(Pools))
    BY <1>2, <2>1, <2>2 DEF Booted
  <2>4. QED
    BY <2>3, ZenonT(60) DEF Guarded
<1>6. pc'[t] = "publish" /\ blk'[t] = p
  BY <1>1, ZenonT(60) DEF Grow, Goto, Inv, TypeOK
<1>7. Booted'
  <2>1. Booted /\ npools \in 0 .. Len(Pools)
    BY <1>2, ZenonT(60) DEF Inv, LockInv, TypeOK
  <2>2. POOL_COUNT \in Nat /\ Len(Pools) \in Nat
    BY KmallocAssumption
  <2> QED BY <1>2, <2>1, <2>2 DEF Booted
<1>8. LockInv'
  BY <1>5, <1>6, <1>7 DEF LockInv, Scanning
<1>9. Listed = blocks \ used /\ Listed' = (blocks' \ used') \ {p}
  BY <1>2, <1>5, <1>6, ZenonT(60) DEF Listed, Handling
<1>10. Listed' = Listed /\ Listed \subseteq blocks
  BY <1>2, <1>3, <1>9, ZenonT(60) DEF NewPool
<1>11. CursorInv'
  BY <1>2, <1>3, <1>5, <1>6, ZenonT(60) DEF CursorInv, Scanning, Handling, NewPool, Inv, TypeOK
<1>12. Chain(Listed, free_list, next')
  BY <1>3, <1>10 DEF Inv, LinkInv, Chain, Closed
<1>13. LinkInv'
  BY <1>2, <1>10, <1>12, ZenonT(60) DEF LinkInv
<1>14. QED
  BY <1>3, <1>4, <1>8, <1>11, <1>13, ZenonT(60) DEF Inv

LEMMA PublishPreserves ==
  ASSUME Inv, NEW t \in Threads, Publish(t)
  PROVE  Inv'
<1>1. PICK b : b = blk[t]
  BY ZenonT(60)
<1>2. \A s \in Threads : s = t
  BY ZenonT(60) DEF Publish, Inv, LockInv
<1>3. pc[t] = "publish" /\ b \in blocks \ used /\ next[b] = free_list
  BY <1>1, ZenonT(60) DEF Publish, Inv, CursorInv, Handling
<1>4. pc'[t] = "lock"
  BY DEF Publish, Goto, Inv, TypeOK
<1>5. TypeOK'
  BY <1>3, ZenonT(60) DEF Publish, Goto, Inv, TypeOK, NULL
<1>6. LockInv'
  BY <1>2, <1>3, <1>4, ZenonT(60) DEF LockInv, Scanning, Publish, Booted, Inv
<1>7. CursorInv'
  BY <1>2, <1>4, ZenonT(60) DEF CursorInv, Scanning, Handling
<1>8. Listed = (blocks \ used) \ {b} /\ Listed' = blocks' \ used'
  BY <1>1, <1>2, <1>3, <1>4, ZenonT(60) DEF Listed, Handling
<1>9. Listed' = Listed \cup {b} /\ b \notin Listed /\ b # NULL
  BY <1>3, <1>8, ZenonT(60) DEF Publish, Inv, TypeOK
<1>10. next' = next /\ free_list' = b
  BY <1>1, ZenonT(60) DEF Publish
<1>11. LinkInv'
  BY <1>3, <1>9, <1>10, ChainPush, ZenonT(60) DEF LinkInv, Inv
<1>12. BelowNewPools' /\ BlocksDisjoint'
  BY DEF Publish, Inv, BelowNewPools, BlocksDisjoint, End
<1>13. QED
  BY <1>5, <1>6, <1>7, <1>11, <1>12, ZenonT(60) DEF Inv

LEMMA FreeLockPreserves ==
  ASSUME Inv, NEW t \in Threads, FreeLock(t)
  PROVE  Inv'
<1>1. \A s \in Threads : pc[s] \notin Hot
  BY KmallocAssumption, ZenonT(60) DEF FreeLock, Inv, LockInv, Hot, Scanning
<1>2. \A s \in Threads : s # t => pc'[s] = pc[s]
  BY ZenonT(60) DEF FreeLock, Goto, Inv, TypeOK
<1>3. /\ pc'[t] = "fscan" /\ lock' = t /\ blk' = blk
      /\ curr'[t] = free_list /\ prev'[t] = NULL
  BY DEF FreeLock, Goto, Inv, TypeOK
<1>4. TypeOK'
  BY ZenonT(60) DEF FreeLock, Goto, Inv, TypeOK, NULL
<1>5. LockInv'
  <2>1. \A s \in Threads : pc'[s] \in Scanning => lock' = s
    BY <1>1, <1>2, <1>3, ZenonT(60) DEF Hot, Scanning
  <2>2. Booted' /\ \A s \in Threads : pc'[s] # "publish"
    BY <1>1, <1>2, <1>3, ZenonT(60) DEF Hot, FreeLock, Inv, LockInv, Booted
  <2>3. QED
    BY <2>1, <2>2, ZenonT(60) DEF LockInv
<1>6. Listed = blocks \ used /\ Listed' = (blocks' \ used') \ {blk[t]}
  BY <1>1, <1>2, <1>3, ZenonT(60) DEF Listed, Handling, Hot
<1>7. Listed' = Listed
  BY <1>6, ZenonT(60) DEF FreeLock, Inv, TypeOK
<1>8. LinkInv'
  BY <1>7, ZenonT(60) DEF FreeLock, LinkInv, Inv
<1>9. CursorInv'
  <2>1. \A s \in Threads : s # t => pc'[s] \notin Hot
    BY <1>1, <1>2, ZenonT(60)
  <2>2. curr'[t] \in Listed' \cup {NULL} /\ Cursor(Listed', free_list', next', prev'[t], curr'[t])
    BY <1>3, <1>7, <1>8, ZenonT(60) DEF FreeLock, LinkInv, Chain, Closed, Cursor
  <2>3. blk'[t] \in blocks' \ used'
    BY <1>3, ZenonT(60) DEF FreeLock, Inv, TypeOK
  <2>4. QED
    BY <1>3, <2>1, <2>2, <2>3, ZenonT(60) DEF CursorInv, Hot, Scanning, Handling
<1>10. BelowNewPools' /\ BlocksDisjoint'
  BY ZenonT(60) DEF FreeLock, Inv, BelowNewPools, BlocksDisjoint, End
<1>11. QED
  BY <1>4, <1>5, <1>8, <1>9, <1>10, ZenonT(60) DEF Inv

\* kfree's insertion, the two merges included.
LEMMA InsertPreserves ==
  ASSUME Inv, NEW t \in Threads, Insert(t)
  PROVE  /\ Inv'
         /\ Covered' = Covered
         /\ \A d \in used : size'[d] = size[d]
<1>a. PICK b, c, p : b = blk[t] /\ c = curr[t] /\ p = prev[t]
  BY SMTT(60)
<1> DEFINE withNext == c # NULL /\ End(b) = c
           withPrev == p # NULL /\ End(p) = b
           bsize == IF withNext THEN size[b] + BLOCK_HEADER_SIZE + size[c] ELSE size[b]
           bnext == IF withNext THEN next[c] ELSE c
           gone == (IF withNext THEN {c} ELSE {}) \cup (IF withPrev THEN {b} ELSE {})
<1>1. /\ blocks' = blocks \ gone
      /\ size' = [x \in blocks' |->
                    IF withPrev /\ x = p THEN size[p] + BLOCK_HEADER_SIZE + bsize
                    ELSE IF x = b THEN bsize ELSE size[x]]
      /\ next' = [x \in blocks' |->
                    IF x = p THEN (IF withPrev THEN bnext ELSE b)
                    ELSE IF x = b THEN bnext ELSE next[x]]
      /\ free_list' = IF p = NULL THEN b ELSE free_list
      /\ used' = used /\ npools' = npools
  BY <1>a, ZenonT(60) DEF Insert, Merged
<1>2. /\ pc[t] = "fscan" /\ b \in blocks \ used
      /\ c \in Listed \cup {NULL} /\ Cursor(Listed, free_list, next, p, c)
  BY <1>a, ZenonT(60) DEF Insert, Inv, CursorInv, Scanning, Handling
<1>3. /\ Listed = (blocks \ used) \ {b} /\ Chain(Listed, free_list, next)
      /\ NULL \notin Listed /\ b # NULL
  BY <1>a, <1>2, ListedInside, ZenonT(60) DEF Hot, Handling, Inv, LinkInv, Chain, TypeOK
<1>4. LockInv' /\ CursorInv' /\ Listed' = blocks' \ used'
  BY <1>2, LeaveStep, ZenonT(60) DEF Insert, Goto, Scanning
<1>5. p \in Listed \cup {NULL} /\ p # b /\ c # b
  BY <1>2, <1>3, ZenonT(60) DEF Cursor
<1>6. c # NULL => c # p
  BY <1>2, <1>3, NoSelfLink, ZenonT(60) DEF Cursor
<1>7. /\ size \in [blocks -> Nat] /\ next \in [blocks -> Nat] /\ free_list \in Nat
      /\ blocks \subseteq Nat \ {NULL} /\ used \subseteq blocks
      /\ BLOCK_HEADER_SIZE \in Nat \ {0} /\ NULL \in Nat
  BY KmallocAssumption, ZenonT(60) DEF Inv, TypeOK, NULL
<1>8. /\ b \in Nat /\ c \in Nat /\ p \in Nat /\ size[b] \in Nat
      /\ c # NULL => size[c] \in Nat /\ next[c] \in Nat
      /\ p # NULL => p \in blocks /\ size[p] \in Nat
  BY <1>2, <1>3, <1>5, <1>7, ZenonT(60)
<1>9. bsize \in Nat /\ bnext \in Nat
  BY <1>7, <1>8
<1>10. size' \in [blocks' -> Nat] /\ next' \in [blocks' -> Nat]
  BY <1>1, <1>7, <1>8, <1>9
<1>11. used' \subseteq blocks'
  BY <1>1, <1>2, <1>3, <1>7
<1>12. TypeOK'
  BY <1>1, <1>7, <1>8, <1>10, <1>11, ZenonT(60) DEF Insert, Forget, Goto, Inv, TypeOK
<1>13. LinkInv'
  <2>1. CASE withNext /\ withPrev
    <3>1. Listed' = Listed \ {c}
      BY <1>1, <1>2, <1>3, <1>4, <1>5, <2>1
    <3>2. Relinked(Listed \ {c}, free_list, next, p, free_list', next', next[c])
      BY <1>1, <1>2, <1>3, <1>5, <1>6, <2>1, ZenonT(60) DEF Relinked
    <3>3. QED
      BY <1>2, <1>3, <2>1, <3>1, <3>2, ChainRemove, ZenonT(60) DEF LinkInv
  <2>2. CASE withNext /\ ~ withPrev
    <3>1. Listed' = (Listed \ {c}) \cup {b}
      BY <1>1, <1>2, <1>3, <1>4, <1>5, <2>2, ZenonT(60)
    <3>2. Relinked(Listed \ {c}, free_list, next, p, free_list', next', b)
      BY <1>1, <1>2, <1>3, <1>5, <1>6, <2>2, ZenonT(60) DEF Relinked
    <3>3. next'[b] = next[c]
      BY <1>1, <1>2, <1>5, <2>2, ZenonT(60)
    <3>4. QED
      BY <1>2, <1>3, <2>2, <3>1, <3>2, <3>3, ChainReplace, ZenonT(60) DEF LinkInv
  <2>3. CASE ~ withNext /\ withPrev
    <3>1. Listed' = Listed
      BY <1>1, <1>2, <1>3, <1>4, <1>5, <2>3, ZenonT(60)
    <3>2. free_list' = free_list /\ \A a \in Listed : next'[a] = next[a]
      BY <1>1, <1>2, <1>3, <1>5, <2>3, ZenonT(60) DEF Cursor
    <3>3. QED
      BY <1>3, <3>1, <3>2, SMTT(60) DEF LinkInv, Chain, Closed
  <2>4. CASE ~ withNext /\ ~ withPrev
    <3>1. Listed' = Listed \cup {b}
      BY <1>1, <1>2, <1>3, <1>4, <1>5, <2>4, ZenonT(60)
    <3>2. Relinked(Listed, free_list, next, p, free_list', next', b)
      BY <1>1, <1>2, <1>3, <1>5, <2>4, ZenonT(60) DEF Relinked
    <3>3. next'[b] = c
      BY <1>1, <1>2, <1>5, <2>4, ZenonT(60)
    <3>4. QED
      BY <1>2, <1>3, <3>1, <3>2, <3>3, ChainInsert, ZenonT(60) DEF LinkInv
  <2>5. QED
    BY <2>1, <2>2, <2>3, <2>4
<1>14. c # NULL => c \in blocks
  BY <1>2, <1>3, ZenonT(60)
<1> DEFINE reach == IF withNext THEN End(c) ELSE End(b)
<1>15. End(b) = b + BLOCK_HEADER_SIZE + size[b] /\ b + BLOCK_HEADER_SIZE + bsize = reach
  BY <1>7, <1>8, SMTT(60) DEF End
<1>16. \A x \in blocks' : x \in blocks /\
         End(x)' = IF x = b \/ (withPrev /\ x = p) THEN reach ELSE End(x)
  <2> SUFFICES ASSUME NEW x \in blocks'
               PROVE  x \in blocks /\
                      End(x)' = IF x = b \/ (withPrev /\ x = p) THEN reach ELSE End(x)
    BY ZenonT(60)
  <2>1. x \in blocks /\ End(x)' = x + BLOCK_HEADER_SIZE + size'[x]
    BY <1>1, ZenonT(60) DEF End
  <2>2. CASE withPrev /\ x = p
    <3>1. size'[x] = size[p] + BLOCK_HEADER_SIZE + bsize
      BY <1>1, <2>2, ZenonT(60)
    <3>2. b = p + BLOCK_HEADER_SIZE + size[p]
      BY <2>2, ZenonT(60) DEF End
    <3> HIDE DEF bsize, reach
    <3>3. QED
      BY <1>7, <1>8, <1>9, <1>15, <2>1, <2>2, <3>1, <3>2, SMTT(60)
  <2>3. CASE x = b
    <3>1. size'[x] = bsize
      BY <1>1, <1>5, <2>3, ZenonT(60)
    <3> HIDE DEF bsize, reach
    <3>2. QED
      BY <1>15, <2>1, <2>3, <3>1, ZenonT(60)
  <2>4. CASE x # b /\ ~ (withPrev /\ x = p)
    BY <1>1, <2>1, <2>4, ZenonT(60) DEF End
  <2>5. QED
    BY <2>2, <2>3, <2>4, ZenonT(60)
<1>17. /\ \A x \in blocks : x \in Nat /\ End(x) \in Nat /\ x < End(x)
       /\ \A x, y \in blocks : x < y => End(x) <= y
  BY EndNat, ZenonT(60) DEF Inv, BlocksDisjoint
<1>18. ASSUME NEW d \in blocks', b < d
       PROVE  reach <= d
  <2>1. d \in blocks /\ End(b) <= d
    BY <1>1, <1>2, <1>17, <1>18, ZenonT(60)
  <2>2. CASE withNext
    <3>1. d # c /\ c <= d /\ c \in blocks /\ d \in Nat
      BY <1>1, <1>14, <1>17, <2>1, <2>2, ZenonT(60)
    <3>2. c < d
      BY <1>8, <3>1
    <3>3. QED
      BY <1>17, <2>1, <2>2, <3>1, <3>2, ZenonT(60)
  <2>3. CASE ~ withNext
    BY <2>1, <2>3, ZenonT(60)
  <2>4. QED
    BY <2>2, <2>3, ZenonT(60)
<1>19. BlocksDisjoint'
  <2> SUFFICES ASSUME NEW a \in blocks', NEW d \in blocks', a < d
               PROVE  End(a)' <= d
    BY DEF BlocksDisjoint
  <2> HIDE DEF reach
  <2>1. CASE a = b
    BY <1>16, <1>18, <2>1, ZenonT(60)
  <2>2. CASE withPrev /\ a = p
    <3>1. b <= d /\ d # b /\ d \in Nat
      BY <1>1, <1>16, <1>17, <2>2, ZenonT(60)
    <3>2. b < d
      BY <1>8, <3>1
    <3>3. QED
      BY <1>16, <1>18, <2>2, <3>2, ZenonT(60)
  <2>3. CASE a # b /\ ~ (withPrev /\ a = p)
    BY <1>16, <1>17, <2>3, ZenonT(60)
  <2>4. QED
    BY <2>1, <2>2, <2>3
<1>20. BelowNewPools'
  <2>1. \A x \in blocks' : \E y \in blocks : End(x)' = End(y)
    BY <1>2, <1>14, <1>16, ZenonT(60)
  <2>2. QED
    BY <1>1, <2>1, ZenonT(60) DEF BelowNewPools, Inv
<1>21. Covered' = Covered
  <2>1. End(b) <= reach /\ reach \in Nat
    BY <1>2, <1>14, <1>17
  <2>2. ASSUME NEW x \in Nat
        PROVE  (\E d \in blocks' : d <= x /\ x < End(d)') <=> (\E d \in blocks : d <= x /\ x < End(d))
    <3>1. ASSUME NEW d \in blocks', d <= x, x < End(d)'
          PROVE  \E e \in blocks : e <= x /\ x < End(e)
      <4>1. CASE d = b \/ (withPrev /\ d = p)
        <5>1. x < reach /\ d \in blocks
          BY <1>16, <3>1, <4>1, ZenonT(60)
        <5>2. CASE x < b
          BY <1>2, <1>5, <1>8, <1>17, <3>1, <4>1, <5>1, <5>2
        <5>3. CASE b <= x /\ x < End(b)
          BY <1>2, <5>3
        <5>4. CASE End(b) <= x
          <6>1. End(b) \in Nat
            BY <1>2, <1>17
          <6>2. withNext
            BY <5>1, <5>4, <6>1
          <6>3. c \in blocks /\ c <= x /\ x < End(c)
            BY <1>14, <5>1, <5>4, <6>2, ZenonT(60)
          <6>4. QED
            BY <6>3, ZenonT(60)
        <5>5. QED
          BY <1>2, <1>17, <5>2, <5>3, <5>4
      <4>2. CASE ~ (d = b \/ (withPrev /\ d = p))
        BY <1>16, <3>1, <4>2, ZenonT(60)
      <4>3. QED
        BY <4>1, <4>2, ZenonT(60)
    <3>2. ASSUME NEW d \in blocks, d <= x, x < End(d)
          PROVE  \E e \in blocks' : e <= x /\ x < End(e)'
      <4>0. /\ ~ withPrev => b \in blocks' /\ End(b)' = reach
            /\ withPrev => p \in blocks' /\ End(p)' = reach /\ p <= b
        <5>1. p # NULL => p \in blocks'
          BY <1>1, <1>5, <1>6, <1>8, ZenonT(60)
        <5>2. ~ withPrev => b \in blocks'
          BY <1>1, <1>2, <1>5, ZenonT(60)
        <5> HIDE DEF reach
        <5>3. QED
          BY <1>2, <1>8, <1>16, <1>17, <5>1, <5>2, SMTT(60)
      <4>1. CASE d = b \/ (withNext /\ d = c) \/ (withPrev /\ d = p)
        <5>1. (x >= b \/ (withPrev /\ x >= p)) /\ x < reach
          BY <1>2, <1>8, <1>14, <1>17, <2>1, <3>2, <4>1, SMTT(60)
        <5> HIDE DEF reach
        <5>2. QED
          BY <1>8, <2>1, <4>0, <5>1, SMTT(60)
      <4>2. CASE ~ (d = b \/ (withNext /\ d = c) \/ (withPrev /\ d = p))
        <5>1. d \in blocks'
          BY <1>1, <4>2, ZenonT(60)
        <5>2. QED
          BY <1>16, <3>2, <4>2, <5>1, ZenonT(60)
      <4>3. QED
        BY <4>1, <4>2, ZenonT(60)
    <3>3. QED
      BY <3>1, <3>2, ZenonT(60)
  <2>3. QED
    BY <2>2, ZenonT(60) DEF Covered
<1>22. \A d \in used : size'[d] = size[d]
  BY <1>1, <1>2, <1>3, <1>5, <1>11
<1>23. QED
  BY <1>4, <1>12, <1>13, <1>19, <1>20, <1>21, <1>22, ZenonT(60) DEF Inv

LEMMA InvInit == Init => Inv
<1> SUFFICES ASSUME Init
             PROVE  Inv
  BY ZenonT(60)
<1>1. TypeOK
  BY KmallocAssumption DEF Init, TypeOK, NULL
<1>2. LockInv /\ CursorInv
  BY DEF Init, LockInv, CursorInv, Scanning, Handling
<1>3. BelowNewPools /\ BlocksDisjoint
  BY DEF Init, BelowNewPools, BlocksDisjoint
<1>4. Listed = {}
  BY ZenonT(60) DEF Init, Listed
<1>5. LinkInv
  BY <1>4 DEF Init, LinkInv, Chain, Closed
<1>6. QED
  BY <1>1, <1>2, <1>3, <1>5 DEF Inv

\* Each step of Next keeps the invariant.
LEMMA InvStep ==
  ASSUME Guarded, Inv, [Next]_vars
  PROVE  Inv'
<1>1. CASE UNCHANGED vars
  <2>1. TypeOK'
    BY <1>1, ZenonT(60) DEF vars, headers, locals, Inv, TypeOK
  <2>2. LockInv'
    BY <1>1 DEF vars, Inv, LockInv, Booted
  <2>3. BelowNewPools' /\ BlocksDisjoint'
    BY <1>1, ZenonT(60) DEF vars, headers, Inv, BelowNewPools, BlocksDisjoint, End
  <2>4. Listed' = Listed
    BY <1>1, ZenonT(60) DEF vars, headers, locals, Listed
  <2>5. LinkInv' /\ CursorInv'
    BY <1>1, <2>4 DEF vars, headers, locals, Inv, LinkInv, CursorInv
  <2>6. QED
    BY <2>1, <2>2, <2>3, <2>5, ZenonT(60) DEF Inv
<1>2. CASE KmallocInit
  BY <1>2, KmallocInitPreserves, ZenonT(60)
<1>3. ASSUME NEW t \in Threads, Calls(t)
      PROVE  Inv'
  <2>0. old \in [Threads -> Nat]
    BY ZenonT(60) DEF Inv, TypeOK
  <2>1. ASSUME NEW n \in Requests, StartKmalloc(t, n)
        PROVE  Inv'
    BY <2>0, <2>1, CallPreserves, KmallocAssumption, ZenonT(60) DEF StartKmalloc
  <2>2. ASSUME NEW a \in Arrays, StartKcalloc(t, a)
        PROVE  Inv'
    <3>1. a[1] * a[2] \in Nat /\ (a[1] * a[2]) % SizeMod \in Nat
      BY <2>2, KmallocAssumption
    <3>2. QED
      BY <2>0, <2>2, <3>1, CallPreserves, ZenonT(60) DEF StartKcalloc
  <2>3. ASSUME NEW b \in blocks, StartKfree(t, b)
        PROVE  Inv'
    BY <2>3, StartKfreePreserves
  <2>4. ASSUME NEW b \in blocks, DoubleFree(t, b)
        PROVE  Inv'
    BY <2>4, <1>1, ZenonT(60) DEF DoubleFree
  <2>5. ASSUME NEW b \in blocks, NEW n \in Requests, StartKrealloc(t, b, n)
        PROVE  Inv'
    <3>1. old' \in [Threads -> Nat]
      BY <2>5 DEF StartKrealloc, Inv, TypeOK
    <3>2. QED
      BY <2>5, <3>1, CallPreserves, KmallocAssumption, ZenonT(60) DEF StartKrealloc
  <2>6. ASSUME NEW b \in blocks, NEW n \in Requests, KreallocInPlace(t, b, n)
        PROVE  Inv'
    BY <2>6, <1>1, ZenonT(60) DEF KreallocInPlace
  <2>7. QED
    BY <1>3, <2>1, <2>2, <2>3, <2>4, <2>5, <2>6, ZenonT(60) DEF Calls
<1>4. ASSUME NEW t \in Threads, Works(t)
      PROVE  Inv'
  <2>1. CASE Lock(t)
    BY <2>1, LockPreserves, ZenonT(60)
  <2>2. CASE ScanOn(t)
    BY <2>2, AdvancePreserves, ZenonT(60) DEF ScanOn, Scanning
  <2>3. CASE TakeSplit(t)
    BY <2>3, TakeSplitPreserves
  <2>4. CASE TakeWhole(t)
    BY <2>4, TakeWholePreserves
  <2>5. CASE ScanFails(t)
    BY <2>5, ScanFailsPreserves
  <2>6. CASE GrowFails(t)
    BY <2>6, GrowFailsPreserves
  <2>7. CASE Grow(t)
    BY <2>7, GrowPreserves
  <2>8. CASE Publish(t)
    BY <2>8, PublishPreserves
  <2>9. CASE FreeLock(t)
    BY <2>9, FreeLockPreserves, ZenonT(60)
  <2>10. CASE FreeScanOn(t)
    BY <2>10, AdvancePreserves, ZenonT(60) DEF FreeScanOn, Before, Scanning
  <2>11. CASE Insert(t)
    BY <2>11, InsertPreserves
  <2>12. QED
    BY <1>4, <2>1, <2>2, <2>3, <2>4, <2>5, <2>6, <2>7, <2>8, <2>9, <2>10, <2>11, ZenonT(60) DEF Works
<1>5. QED
  BY <1>1, <1>2, <1>3, <1>4, ZenonT(60) DEF Next

\* The invariant, of every behaviour of a heap used by one thread or fixed.
LEMMA HeapInvariant ==
  ASSUME Guarded
  PROVE  Spec => []Inv
  BY InvInit, InvStep, PTL DEF Spec

\* Variables stay in their types: no address computed by split_block or kfree
\* leaves the headers in force.
THEOREM KmallocTypeCorrect ==
  ASSUME Guarded
  PROVE  Spec => []TypeOK
<1>1. Inv => TypeOK
  BY DEF Inv
<1>2. QED
  BY <1>1, HeapInvariant, PTL

\* No two blocks of the heap overlap, whatever is allocated, split, reallocated,
\* freed and merged.
THEOREM BlocksNeverOverlap ==
  ASSUME Guarded
  PROVE  Spec => []BlocksDisjoint
<1>1. Inv => BlocksDisjoint
  BY DEF Inv
<1>2. QED
  BY <1>1, HeapInvariant, PTL

\* Outside of the lock the free list contains no block that is in use.
THEOREM FreeListIsSound ==
  ASSUME Guarded
  PROVE  Spec => []FreeListSound
<1>1. Inv => FreeListSound
  <2> SUFFICES ASSUME Inv, lock = NULL
               PROVE  /\ free_list \in (blocks \ used) \cup {NULL}
                      /\ \A b \in blocks \ used : next[b] \in (blocks \ used) \cup {NULL}
    BY ZenonT(60) DEF FreeListSound
  <2>1. Closed(Listed, free_list, next) /\ Listed \subseteq blocks \ used
    BY ZenonT(60) DEF Inv, LinkInv, Chain, Listed
  <2>2. ASSUME NEW b \in blocks \ used, b \notin Listed
        PROVE  next[b] = free_list
    <3>1. PICK t \in Threads : pc[t] \in Handling /\ b = blk[t]
      BY <2>2, ZenonT(60) DEF Listed
    <3>2. pc[t] # "fscan"
      BY <3>1, KmallocAssumption DEF Inv, LockInv, Scanning
    <3>3. QED
      BY <3>1, <3>2, ZenonT(60) DEF Inv, CursorInv, Handling
  <2>3. QED
    BY <2>1, <2>2, ZenonT(60) DEF Closed
<1>2. QED
  BY <1>1, HeapInvariant, PTL

\* No free block is lost: outside of the lock each one can be reached from the
\* head of the list, except the pool that add_pool is about to link.
THEOREM FreeListIsComplete ==
  ASSUME Guarded
  PROVE  Spec => []FreeListComplete
<1>1. Inv => FreeListComplete
  <2> SUFFICES ASSUME Inv, NEW S \in SUBSET blocks,
                      free_list \in S \cup {NULL},
                      \A b \in S : next[b] \in S \cup {NULL}
               PROVE  (blocks \ used) \ InHand \subseteq S
    BY ZenonT(60) DEF FreeListComplete
  <2>1. (blocks \ used) \ InHand \subseteq Listed
    BY ZenonT(60) DEF Listed, InHand, Handling
  <2>2. Chain(Listed, free_list, next)
    BY ZenonT(60) DEF Inv, LinkInv
  <2>3. Closed(S \cap Listed, free_list, next)
    BY <2>2, ZenonT(60) DEF Chain, Closed
  <2>4. S \cap Listed = Listed
    BY <2>2, <2>3 DEF Chain
  <2>5. QED
    BY <2>1, <2>4, ZenonT(60)
<1>2. QED
  BY <1>1, HeapInvariant, PTL

-----------------------------------------------------------------------------
(* What the callers may rely on *)

\* The bytes of the pools taken from pmalloc.
Pooled == {x \in Nat : \E i \in 1 .. npools : Pools[i] <= x /\ x < Pools[i] + PoolBytes}

\* The threads between the call of kmalloc and its return.
Allocating == {"lock", "scan", "grow", "publish"}

\* The block that a thread has been given to free, or will free.
Claim(t) == IF pc[t] = "flock" THEN blk[t] ELSE old[t]

\* What a thread knows of its call: the rounded size is that of a block, the
\* block of krealloc is in use and too small, and so is in use the one to free.
CallOK(t) ==
  /\ pc[t] \in Allocating => want[t] >= KMALLOC_MIN_SIZE
  /\ old[t] # NULL => pc[t] \in Allocating /\ old[t] \in used /\ size[old[t]] < req[t]
  /\ pc[t] = "flock" => blk[t] \in used

\* No two threads are going to free the same block.
ClaimsApart ==
  \A s, t \in Threads : Claim(s) = Claim(t) /\ Claim(s) # NULL => s = t

CallInv == (\A t \in Threads : CallOK(t)) /\ ClaimsApart

\* Blocks cover exactly the pools.
CoverInv == Covered = Pooled

HeapInv == Inv /\ CoverInv /\ CallInv

\* No size passed to the heap wraps around when it is rounded.
NoOverflow ==
  /\ \A n \in Requests : n + KMALLOC_ALIGN <= SizeMod
  /\ \A a \in Arrays : a[1] * a[2] + KMALLOC_ALIGN <= SizeMod

\* Rounding has not made a request smaller.
RequestInv == \A t \in Threads : pc[t] \in Allocating => want[t] >= req[t]

-----------------------------------------------------------------------------
(***************************************************************************)
(* The bytes of the pools.                                                 *)
(***************************************************************************)

\* The steps that write the headers' sizes are the split, the merge and add_pool.
LEMMA SizesStep ==
  ASSUME [Next]_vars
  PROVE  \/ UNCHANGED <<blocks, size, npools>>
         \/ \E t \in Threads : (TakeSplit(t) \/ Insert(t)) /\ UNCHANGED npools
         \/ npools < Len(Pools) /\ NewPool(Pools[npools + 1])
<1>1. CASE UNCHANGED vars
  BY <1>1 DEF vars, headers
<1>2. CASE KmallocInit
  BY <1>2 DEF KmallocInit
<1>3. ASSUME NEW t \in Threads, Calls(t)
      PROVE  UNCHANGED <<blocks, size, npools>>
  BY <1>3, ZenonT(60) DEF Calls, StartKmalloc, StartKcalloc, StartKrealloc, StartKfree, DoubleFree,
              KreallocInPlace, CallKmalloc, vars, headers
<1>4. ASSUME NEW t \in Threads,
             Lock(t) \/ ScanOn(t) \/ TakeWhole(t) \/ ScanFails(t) \/ GrowFails(t) \/ Publish(t)
               \/ FreeLock(t) \/ FreeScanOn(t)
      PROVE  UNCHANGED <<blocks, size, npools>>
  BY <1>4, ZenonT(60) DEF Lock, ScanOn, TakeWhole, ScanFails, GrowFails, Publish, FreeLock, FreeScanOn,
              Advance, Deliver, headers
<1>5. ASSUME NEW t \in Threads, TakeSplit(t) \/ Insert(t)
      PROVE  UNCHANGED npools
  BY <1>5 DEF TakeSplit, Insert, Deliver
<1>6. ASSUME NEW t \in Threads, Grow(t)
      PROVE  npools < Len(Pools) /\ NewPool(Pools[npools + 1])
  BY <1>6 DEF Grow
<1>7. QED
  BY <1>1, <1>2, <1>3, <1>4, <1>5, <1>6 DEF Next, Works

LEMMA CoverStep ==
  ASSUME Inv, CoverInv, [Next]_vars
  PROVE  CoverInv'
<1>1. CASE UNCHANGED <<blocks, size, npools>>
  BY <1>1 DEF CoverInv, Covered, Pooled, End
<1>2. ASSUME NEW t \in Threads, TakeSplit(t) \/ Insert(t), UNCHANGED npools
      PROVE  CoverInv'
  <2>1. Covered' = Covered
    BY <1>2, TakeSplitPreserves, InsertPreserves
  <2>2. Pooled' = Pooled
    BY <1>2 DEF Pooled
  <2>3. QED
    BY <2>1, <2>2 DEF CoverInv
<1>3. CASE npools < Len(Pools) /\ NewPool(Pools[npools + 1])
  <2> DEFINE p == Pools[npools + 1]
  <2>1. Covered' = Covered \cup {x \in Nat : p <= x /\ x < p + PoolBytes}
    BY <1>3, NewPoolPreserves
  <2>2. npools \in Nat /\ npools' = npools + 1
    BY <1>3, KmallocAssumption DEF NewPool, Inv, TypeOK
  <2>3. \A i : i \in 1 .. npools' <=> i \in 1 .. npools \/ i = npools + 1
    BY <2>2
  <2>4. Pooled' = Pooled \cup {x \in Nat : p <= x /\ x < p + PoolBytes}
    BY <2>3 DEF Pooled
  <2>5. QED
    BY <2>1, <2>4 DEF CoverInv
<1>4. QED
  BY <1>1, <1>2, <1>3, SizesStep

-----------------------------------------------------------------------------
(***************************************************************************)
(* What the threads know of their calls.                                   *)
(***************************************************************************)

\* A rounded size is at least the smallest payload.
LEMMA RoundUpMin ==
  ASSUME NEW n \in Nat
  PROVE  RoundUp(n) \in Nat /\ RoundUp(n) >= KMALLOC_MIN_SIZE
<1>1. RoundUp(n) \in Nat
  BY RoundUpNat
<1> DEFINE r == (((n + KMALLOC_ALIGN - 1) % SizeMod) \div KMALLOC_ALIGN) * KMALLOC_ALIGN
<1>2. RoundUp(n) = IF r < KMALLOC_MIN_SIZE THEN KMALLOC_MIN_SIZE ELSE r
  BY DEF RoundUp
<1> HIDE DEF r
<1>3. QED
  BY <1>1, <1>2, KmallocAssumption

\* One thread moves, no other thread's block changes size or is freed, and the
\* mover claims at most what it claimed or a block that nobody does.
LEMMA CallInvStep ==
  ASSUME TypeOK, CallInv, NEW t \in Threads,
         \A s \in Threads \ {t} :
            /\ pc'[s] = pc[s] /\ blk'[s] = blk[s] /\ old'[s] = old[s]
            /\ req'[s] = req[s] /\ want'[s] = want[s],
         \A b \in used : size'[b] = size[b],
         \A b \in used : b # Claim(t) => b \in used',
         CallOK(t)',
         Claim(t)' \in {NULL, Claim(t)} \cup Held
  PROVE  CallInv'
<1>1. \A s \in Threads \ {t} : Claim(s)' = Claim(s)
  BY DEF Claim
<1>2. \A s \in Threads \ {t} : Claim(s) # NULL => Claim(s) # Claim(t)
  BY DEF CallInv, ClaimsApart
<1>3. \A s \in Threads : Claim(s) # NULL => Claim(s) \in used
  BY ZenonT(60) DEF CallInv, CallOK, Claim
<1>4. ASSUME NEW s \in Threads \ {t}
      PROVE  CallOK(s)'
  <2>1. CallOK(s)
    BY DEF CallInv
  <2>2. pc[s] = "flock" => old[s] = NULL /\ blk[s] # NULL
    BY <2>1, ZenonT(60) DEF CallOK, Allocating, TypeOK
  <2>3. old[s] # NULL => old[s] \in used' /\ size'[old[s]] = size[old[s]]
    <3>1. old[s] # NULL => Claim(s) = old[s]
      BY <2>2 DEF Claim
    <3>2. QED
      BY <1>2, <1>3, <3>1, ZenonT(60)
  <2>4. pc[s] = "flock" => blk[s] \in used'
    <3>1. pc[s] = "flock" => Claim(s) = blk[s] /\ blk[s] # NULL
      BY <2>2 DEF Claim
    <3>2. QED
      BY <1>2, <1>3, <3>1
  <2>5. QED
    BY <2>1, <2>3, <2>4, ZenonT(60) DEF CallOK
<1>5. \A s \in Threads : Claim(s) \notin Held
  BY DEF Claim, Held
<1>6. ClaimsApart'
  <2> SUFFICES ASSUME NEW r \in Threads, NEW s \in Threads,
                      Claim(r)' = Claim(s)', Claim(r)' # NULL
               PROVE  r = s
    BY DEF ClaimsApart
  <2>1. CASE r # t /\ s # t
    BY <1>1, <2>1 DEF CallInv, ClaimsApart
  <2>2. CASE r = t /\ s # t
    BY <1>1, <1>2, <1>5, <2>2
  <2>3. CASE r # t /\ s = t
    BY <1>1, <1>2, <1>5, <2>3
  <2>4. QED
    BY <2>1, <2>2, <2>3
<1>7. QED
  BY <1>4, <1>6 DEF CallInv

\* A thread that is not inside kmalloc has no block of krealloc.
LEMMA NoOldBlock ==
  ASSUME CallInv, NEW t \in Threads, pc[t] \notin Allocating
  PROVE  old[t] = NULL /\ (pc[t] # "flock" => Claim(t) = NULL)
  BY DEF CallInv, CallOK, Claim

LEMMA CallInvSame ==
  ASSUME CallInv, UNCHANGED <<pc, locals, used>>, \A b \in used : size'[b] = size[b]
  PROVE  CallInv'
<1>1. \A t \in Threads : CallOK(t)'
  BY DEF CallInv, CallOK, locals
<1>2. ClaimsApart'
  BY DEF CallInv, ClaimsApart, Claim, locals
<1>3. QED
  BY <1>1, <1>2 DEF CallInv

\* A call of kmalloc, for a caller that keeps no block or the one of krealloc.
LEMMA CallKmallocKeeps ==
  ASSUME TypeOK, CallInv, NEW t \in Threads, NEW n0 \in Nat, NEW n \in Nat, CallKmalloc(t, n0, n),
         \/ old' = old
         \/ \E b \in Held : size[b] < n0 /\ old' = [old EXCEPT ![t] = b]
  PROVE  CallInv'
<1>1. /\ pc[t] = "idle" /\ pc'[t] = "lock" /\ req'[t] = n0 /\ want'[t] = RoundUp(n)
      /\ UNCHANGED <<blocks, size, used, blk>>
      /\ \A s \in Threads \ {t} : pc'[s] = pc[s] /\ req'[s] = req[s] /\ want'[s] = want[s]
  BY DEF CallKmalloc, Goto, TypeOK, headers
<1>2. old[t] = NULL /\ Claim(t) = NULL
  BY <1>1, NoOldBlock DEF Allocating
<1>3. \A s \in Threads \ {t} : old'[s] = old[s]
  BY ZenonT(60) DEF TypeOK
<1>4. old'[t] = NULL \/ (old'[t] \in Held /\ size[old'[t]] < n0)
  BY <1>2, ZenonT(60) DEF TypeOK
<1>5. Held \subseteq used
  BY DEF Held
<1>6. CallOK(t)'
  BY <1>1, <1>4, <1>5, RoundUpMin DEF CallOK, Allocating
<1>7. Claim(t)' \in {NULL, Claim(t)} \cup Held
  BY <1>1, <1>4 DEF Claim
<1>8. QED
  BY <1>1, <1>3, <1>6, <1>7, CallInvStep

\* A step inside kmalloc that keeps the call and the blocks in use.
LEMMA InsideKeeps ==
  ASSUME TypeOK, CallInv, NEW t \in Threads, NEW l \in Allocating, Goto(t, l),
         pc[t] \in Allocating,
         UNCHANGED <<used, old, req, want>>, \A s \in Threads \ {t} : blk'[s] = blk[s],
         \A b \in used : size'[b] = size[b]
  PROVE  CallInv'
<1>1. pc'[t] = l /\ \A s \in Threads \ {t} : pc'[s] = pc[s]
  BY DEF Goto, TypeOK
<1>2. Claim(t)' = Claim(t)
  BY <1>1 DEF Claim, Allocating
<1>3. CallOK(t)
  BY DEF CallInv
<1>4. CallOK(t)'
  BY <1>1, <1>3 DEF CallOK, Allocating
<1>5. QED
  BY <1>1, <1>2, <1>4, CallInvStep

\* kmalloc returns, and krealloc goes on to free its block.
LEMMA DeliverKeeps ==
  ASSUME TypeOK, CallInv, NEW t \in Threads, pc[t] = "scan", Deliver(t),
         used \subseteq used', \A b \in used : size'[b] = size[b]
  PROVE  CallInv'
<1>1. /\ old'[t] = NULL /\ blk'[t] = old[t]
      /\ pc'[t] = IF old[t] = NULL THEN "idle" ELSE "flock"
      /\ \A s \in Threads \ {t} :
           /\ pc'[s] = pc[s] /\ blk'[s] = blk[s] /\ old'[s] = old[s]
           /\ req'[s] = req[s] /\ want'[s] = want[s]
  BY DEF Deliver, Goto, TypeOK
<1>2. Claim(t)' \in {NULL, Claim(t)}
  BY <1>1 DEF Claim
<1>3. CallOK(t)
  BY ZenonT(60) DEF CallInv
<1>4. CallOK(t)'
  BY <1>1, <1>3, ZenonT(60) DEF CallOK, Allocating
<1>5. QED
  BY <1>1, <1>2, <1>4, CallInvStep, ZenonT(60)

\* The steps of kfree.
LEMMA StartKfreeKeeps ==
  ASSUME TypeOK, CallInv, NEW t \in Threads, NEW b, StartKfree(t, b)
  PROVE  CallInv'
<1>1. /\ pc[t] = "idle" /\ b \in Held /\ pc'[t] = "flock" /\ blk'[t] = b
      /\ UNCHANGED <<size, used, old, req, want>>
      /\ \A s \in Threads \ {t} : pc'[s] = pc[s] /\ blk'[s] = blk[s]
  BY DEF StartKfree, Goto, TypeOK, headers
<1>2. old[t] = NULL
  BY <1>1, NoOldBlock DEF Allocating
<1>3. b \in used
  BY <1>1, ZenonT(60) DEF Held
<1>4. CallOK(t)' /\ Claim(t)' = b
  BY <1>1, <1>2, <1>3, ZenonT(60) DEF CallOK, Allocating, Claim
<1>5. QED
  BY <1>1, <1>4, CallInvStep

LEMMA FreeLockKeeps ==
  ASSUME TypeOK, CallInv, NEW t \in Threads, FreeLock(t)
  PROVE  CallInv'
<1>1. /\ pc[t] = "flock" /\ pc'[t] = "fscan" /\ used' = used \ {blk[t]}
      /\ UNCHANGED <<size, blk, old, req, want>>
      /\ \A s \in Threads \ {t} : pc'[s] = pc[s]
  BY DEF FreeLock, Goto, TypeOK
<1>2. old[t] = NULL /\ Claim(t) = blk[t]
  BY <1>1, NoOldBlock DEF Allocating, Claim
<1>3. CallOK(t)' /\ Claim(t)' = NULL
  BY <1>1, <1>2, ZenonT(60) DEF CallOK, Allocating, Claim
<1>4. QED
  BY <1>1, <1>2, <1>3, CallInvStep, ZenonT(60)

LEMMA InsertKeeps ==
  ASSUME Inv, CallInv, NEW t \in Threads, Insert(t)
  PROVE  CallInv'
<1>1. /\ pc[t] = "fscan" /\ pc'[t] = "idle"
      /\ UNCHANGED <<used, old, req, want>>
      /\ \A s \in Threads \ {t} : pc'[s] = pc[s] /\ blk'[s] = blk[s]
  BY DEF Insert, Goto, Inv, TypeOK
<1>2. \A b \in used : size'[b] = size[b]
  BY InsertPreserves
<1>3. old[t] = NULL
  BY <1>1, NoOldBlock DEF Allocating
<1>4. CallOK(t)' /\ Claim(t)' = NULL
  BY <1>1, <1>3 DEF CallOK, Allocating, Claim
<1>5. TypeOK
  BY DEF Inv
<1>6. QED
  BY <1>1, <1>2, <1>4, <1>5, CallInvStep, ZenonT(60)

LEMMA CallStep ==
  ASSUME Inv, CallInv, [Next]_vars
  PROVE  CallInv'
<1>0. TypeOK /\ used \subseteq blocks
  BY ZenonT(60) DEF Inv, TypeOK
<1>1. CASE UNCHANGED vars
  BY <1>1, CallInvSame DEF vars, headers
<1>2. CASE KmallocInit
  <2>1. \A b \in used : size'[b] = size[b]
    BY <1>0, <1>2, NewPoolPreserves DEF KmallocInit
  <2>2. QED
    BY <1>2, <2>1, CallInvSame DEF KmallocInit, NewPool
<1>3. ASSUME NEW t \in Threads, Calls(t)
      PROVE  CallInv'
  <2>1. ASSUME NEW n \in Requests, StartKmalloc(t, n)
        PROVE  CallInv'
    BY <1>0, <2>1, CallKmallocKeeps, KmallocAssumption DEF StartKmalloc
  <2>2. ASSUME NEW a \in Arrays, StartKcalloc(t, a)
        PROVE  CallInv'
    <3>1. a[1] * a[2] \in Nat /\ (a[1] * a[2]) % SizeMod \in Nat
      BY <2>2, KmallocAssumption
    <3>2. QED
      BY <1>0, <2>2, <3>1, CallKmallocKeeps DEF StartKcalloc
  <2>3. ASSUME NEW b \in blocks, StartKfree(t, b)
        PROVE  CallInv'
    BY <1>0, <2>3, StartKfreeKeeps
  <2>4. ASSUME NEW b \in blocks, NEW n \in Requests, StartKrealloc(t, b, n)
        PROVE  CallInv'
    BY <1>0, <2>4, CallKmallocKeeps, KmallocAssumption, ZenonT(60) DEF StartKrealloc
  <2>5. ASSUME NEW b \in blocks, NEW n \in Requests, KreallocInPlace(t, b, n)
        PROVE  CallInv'
    BY <1>1, <2>5 DEF KreallocInPlace
  <2>6. ASSUME NEW b \in blocks, DoubleFree(t, b)
        PROVE  CallInv'
    BY <1>1, <2>6 DEF DoubleFree
  <2>7. QED
    BY <1>3, <2>1, <2>2, <2>3, <2>4, <2>5, <2>6, ZenonT(60) DEF Calls
<1>4. ASSUME NEW t \in Threads, Works(t)
      PROVE  CallInv'
  <2>1. CASE Lock(t) \/ ScanFails(t) \/ GrowFails(t) \/ Publish(t)
    <3>1. pc[t] \in Allocating /\ \E l \in Allocating : Goto(t, l)
      BY <2>1, ZenonT(60) DEF Lock, ScanFails, GrowFails, Publish, Allocating
    <3>2. UNCHANGED <<used, size, old, req, want>> /\ \A s \in Threads \ {t} : blk'[s] = blk[s]
      BY <1>0, <2>1, ZenonT(60) DEF Lock, ScanFails, GrowFails, Publish, headers, locals, TypeOK
    <3>3. QED
      BY <1>0, <3>1, <3>2, InsideKeeps, ZenonT(60)
  <2>2. CASE Grow(t)
    <3>1. pc[t] \in Allocating /\ "publish" \in Allocating /\ Goto(t, "publish")
      BY <2>2, ZenonT(60) DEF Grow, Allocating
    <3>2. UNCHANGED <<used, old, req, want>> /\ \A s \in Threads \ {t} : blk'[s] = blk[s]
      BY <1>0, <2>2, ZenonT(60) DEF Grow, NewPool, TypeOK
    <3>3. \A b \in used : size'[b] = size[b]
      BY <1>0, <2>2, NewPoolPreserves DEF Grow
    <3>4. QED
      BY <1>0, <3>1, <3>2, <3>3, InsideKeeps, ZenonT(60)
  <2>3. CASE ScanOn(t) \/ FreeScanOn(t)
    <3>1. UNCHANGED <<pc, used, size, old, req, want, blk>>
      BY <2>3 DEF ScanOn, FreeScanOn, Advance, headers
    <3>2. \A s \in Threads : CallOK(s)'
      BY <3>1, ZenonT(60) DEF CallInv, CallOK
    <3>3. ClaimsApart'
      BY <3>1, SMTT(60) DEF CallInv, ClaimsApart, Claim
    <3>4. QED
      BY <3>2, <3>3, ZenonT(60) DEF CallInv
  <2>4. CASE TakeSplit(t)
    <3>1. used \subseteq used' /\ \A b \in used : size'[b] = size[b]
      BY <2>4, TakeSplitPreserves, ZenonT(60)
    <3>2. QED
      BY <1>0, <2>4, <3>1, DeliverKeeps, ZenonT(60) DEF TakeSplit
  <2>5. CASE TakeWhole(t)
    BY <1>0, <2>5, DeliverKeeps DEF TakeWhole
  <2>6. CASE FreeLock(t)
    BY <1>0, <2>6, FreeLockKeeps
  <2>7. CASE Insert(t)
    BY <2>7, InsertKeeps
  <2>8. QED
    BY <1>4, <2>1, <2>2, <2>3, <2>4, <2>5, <2>6, <2>7, ZenonT(60) DEF Works
<1>5. QED
  BY <1>1, <1>2, <1>3, <1>4, ZenonT(60) DEF Next

\* The invariant of the heap and of its callers.
LEMMA HeapInvHolds ==
  ASSUME Guarded
  PROVE  Spec => []HeapInv
<1>1. Init => HeapInv
  <2> SUFFICES ASSUME Init
               PROVE  HeapInv
    OBVIOUS
  <2>1. CoverInv
    BY DEF Init, CoverInv, Covered, Pooled
  <2>2. CallInv
    BY DEF Init, CallInv, CallOK, ClaimsApart, Claim, Allocating
  <2>3. QED
    BY <2>1, <2>2, InvInit DEF HeapInv
<1>2. HeapInv /\ [Next]_vars => HeapInv'
  BY InvStep, CoverStep, CallStep DEF HeapInv
<1>3. QED
  BY <1>1, <1>2, PTL DEF Spec

\* Splitting, merging and adding pools lose no byte of the pools: a byte that
\* pmalloc gave to the heap belongs to a block for ever, so that it can be handed
\* out again.
THEOREM NoByteIsLost ==
  ASSUME Guarded
  PROVE  Spec => []NoByteLost
<1>1. HeapInv => NoByteLost
  <2> SUFFICES ASSUME HeapInv, NEW i \in 1 .. npools, NEW x \in Pools[i] .. Pools[i] + PoolBytes - 1
               PROVE  \E b \in blocks : b <= x /\ x < End(b)
    BY DEF NoByteLost
  <2>1. i \in 1 .. Len(Pools)
    BY KmallocAssumption DEF HeapInv, Inv, TypeOK
  <2>2. Pools[i] \in Nat /\ PoolBytes \in Nat
    BY <2>1, KmallocAssumption
  <2>3. x \in Pooled
    BY <2>2 DEF Pooled
  <2>4. QED
    BY <2>3 DEF HeapInv, CoverInv, Covered
<1>2. QED
  BY <1>1, HeapInvHolds, PTL

-----------------------------------------------------------------------------
(***************************************************************************)
(* The refinement of Heap.                                                 *)
(***************************************************************************)

\* The region of a block of a given size.
Region(b, n) == [start |-> b + BLOCK_HEADER_SIZE, length |-> n]

Regions == {Region(b, size[b]) : b \in used}

LEMMA RegionFields ==
  ASSUME NEW b, NEW n
  PROVE  Region(b, n).start = b + BLOCK_HEADER_SIZE /\ Region(b, n).length = n
  BY DEF Region

\* Regions of different blocks are different.
LEMMA RegionsDiffer ==
  ASSUME NEW b \in Nat, NEW c \in Nat, b # c, NEW m, NEW n
  PROVE  Region(b, m) # Region(c, n)
<1>1. b + BLOCK_HEADER_SIZE # c + BLOCK_HEADER_SIZE
  BY KmallocAssumption
<1>2. QED
  BY <1>1, RegionFields

\* A step that changes no block in use changes no region.
LEMMA RegionsSame ==
  ASSUME used' = used, \A b \in used : size'[b] = size[b]
  PROVE  Regions' = Regions
  BY ZenonT(60) DEF Regions

\* A step that gives a free block, or its front part, to a caller.
LEMMA AllocateStep ==
  ASSUME HeapInv, NEW c \in blocks \ used, used' = used \cup {c},
         \A b \in used : size'[b] = size[b],
         size'[c] \in Nat, size'[c] > 0, size'[c] <= size[c]
  PROVE  Abstract!Allocate
<1>1. /\ \A b \in blocks : b \in Nat /\ size[b] \in Nat /\ End(b) \in Nat /\ b < End(b)
      /\ used \subseteq blocks /\ BLOCK_HEADER_SIZE \in Nat
      /\ \A a, b \in blocks : a < b => End(a) <= b
  BY EndNat, KmallocAssumption, ZenonT(60) DEF HeapInv, Inv, TypeOK, BlocksDisjoint
<1> DEFINE r == Region(c, size'[c])
<1>2. Regions' = Regions \cup {r}
  BY DEF Regions
<1>3. r \notin Regions
  BY <1>1, RegionsDiffer DEF Regions
<1>4. r.start = c + BLOCK_HEADER_SIZE /\ r.length = size'[c]
  BY RegionFields
<1> HIDE DEF r
<1>5. \A x \in Abstract!Bytes(r) : x \in Nat /\ c + BLOCK_HEADER_SIZE <= x /\ x < End(c)
  BY <1>1, <1>4 DEF Abstract!Bytes, End
<1>6. ASSUME NEW x \in Abstract!Bytes(r)
      PROVE  x \in UNION {Pools[i] .. Pools[i] + PoolBytes - 1 : i \in 1 .. Len(Pools)}
  <2>1. x \in Nat /\ c <= x /\ x < End(c)
    BY <1>1, <1>5
  <2>2. x \in Pooled
    BY <2>1 DEF Covered, HeapInv, CoverInv
  <2>3. PICK i \in 1 .. npools : Pools[i] <= x /\ x < Pools[i] + PoolBytes
    BY <2>2, ZenonT(60) DEF Pooled
  <2>4. i \in 1 .. Len(Pools)
    BY KmallocAssumption DEF HeapInv, Inv, TypeOK
  <2>5. Pools[i] \in Nat /\ PoolBytes \in Nat
    BY <2>4, KmallocAssumption
  <2>6. x \in Pools[i] .. Pools[i] + PoolBytes - 1
    BY <2>1, <2>3, <2>5
  <2>7. QED
    BY <2>4, <2>6
<1>7. ASSUME NEW q \in Regions
      PROVE  Abstract!Bytes(q) \cap Abstract!Bytes(r) = {}
  <2>1. PICK b \in used : q = Region(b, size[b])
    BY DEF Regions
  <2>2. q.start = b + BLOCK_HEADER_SIZE /\ q.length = size[b]
    BY <2>1, RegionFields
  <2>3. b \in blocks /\ b # c
    BY <1>1
  <2>4. End(b) <= c \/ End(c) <= b
    BY <1>1, <2>3
  <2>5. \A x \in Abstract!Bytes(q) : x \in Nat /\ b + BLOCK_HEADER_SIZE <= x /\ x < End(b)
    BY <1>1, <2>2, <2>3 DEF Abstract!Bytes, End
  <2>6. QED
    BY <1>1, <1>5, <2>3, <2>4, <2>5
<1>8. QED
  <2>1. r \in Regions' \ Regions /\ r.length > 0
    BY <1>2, <1>3, <1>4, ZenonT(60)
  <2>2. /\ Regions = {[start |-> b + BLOCK_HEADER_SIZE, length |-> size[b]] : b \in used}
        /\ Regions' = {[start |-> b + BLOCK_HEADER_SIZE, length |-> size'[b]] : b \in used'}
    BY DEF Regions, Region
  <2> HIDE DEF Regions
  <2>3. QED
    BY <1>2, <1>6, <1>7, <2>1, <2>2, ZenonT(60) DEF Abstract!Allocate

\* kfree takes one region back.
LEMMA ReleaseStep ==
  ASSUME HeapInv, NEW c \in used, used' = used \ {c}, size' = size
  PROVE  Abstract!Release
<1>1. \A b \in used : b \in Nat
  BY DEF HeapInv, Inv, TypeOK
<1> DEFINE r == Region(c, size[c])
<1>2. r \in Regions
  BY DEF Regions
<1>3. \A b \in used \ {c} : Region(b, size[b]) # r
  BY <1>1, RegionsDiffer
<1>4. Regions' = Regions \ {r}
  BY <1>3 DEF Regions
<1>5. /\ Regions = {[start |-> b + BLOCK_HEADER_SIZE, length |-> size[b]] : b \in used}
      /\ Regions' = {[start |-> b + BLOCK_HEADER_SIZE, length |-> size'[b]] : b \in used'}
  BY ZenonT(60) DEF Regions, Region
<1> HIDE DEF r, Regions
<1>6. QED
  BY <1>2, <1>4, <1>5, ZenonT(60) DEF Abstract!Release

\* Every step of the heap is a step of the abstract allocator, or leaves the
\* regions alone.
LEMMA HeapStep ==
  ASSUME HeapInv, [Next]_vars
  PROVE  Abstract!Allocate \/ Abstract!Release \/ Regions' = Regions
<1>0. Inv /\ used \subseteq blocks /\ KMALLOC_MIN_SIZE \in Nat \ {0}
  BY KmallocAssumption, ZenonT(60) DEF HeapInv, Inv, TypeOK
<1>a. ASSUME NEW t \in Threads, pc[t] = "scan", curr[t] # NULL, Suits(t)
      PROVE  /\ curr[t] \in blocks \ used /\ size[curr[t]] \in Nat /\ want[t] \in Nat
             /\ want[t] > 0 /\ want[t] <= size[curr[t]]
  <2>1. curr[t] \in blocks \ used
    BY <1>a, ZenonT(60) DEF HeapInv, Inv, CursorInv, Scanning, Listed
  <2>2. size[curr[t]] \in Nat /\ want[t] \in Nat
    BY <2>1 DEF HeapInv, Inv, TypeOK
  <2>3. want[t] >= KMALLOC_MIN_SIZE
    BY <1>a DEF HeapInv, CallInv, CallOK, Allocating
  <2>4. QED
    BY <1>0, <1>a, <2>1, <2>2, <2>3 DEF Suits
<1>1. CASE UNCHANGED vars
  BY <1>1, RegionsSame DEF vars, headers
<1>2. CASE npools < Len(Pools) /\ NewPool(Pools[npools + 1])
  <2>1. used' = used /\ \A b \in used : size'[b] = size[b]
    BY <1>0, <1>2, NewPoolPreserves DEF NewPool
  <2>2. QED
    BY <2>1, RegionsSame, ZenonT(60)
<1>3. ASSUME NEW t \in Threads, Calls(t)
      PROVE  Regions' = Regions
  <2>1. UNCHANGED <<used, size>>
    BY <1>3 DEF Calls, StartKmalloc, StartKcalloc, StartKrealloc, StartKfree, DoubleFree,
                KreallocInPlace, CallKmalloc, vars, headers
  <2>2. QED
    BY <2>1, RegionsSame, ZenonT(60)
<1>4. ASSUME NEW t \in Threads,
             Lock(t) \/ ScanOn(t) \/ ScanFails(t) \/ GrowFails(t) \/ Publish(t) \/ FreeScanOn(t)
      PROVE  Regions' = Regions
  <2>1. UNCHANGED <<used, size>>
    BY <1>4, ZenonT(60) DEF Lock, ScanOn, ScanFails, GrowFails, Publish, FreeScanOn, Advance, headers
  <2>2. QED
    BY <2>1, RegionsSame, ZenonT(60)
<1>5. ASSUME NEW t \in Threads, TakeSplit(t)
      PROVE  Abstract!Allocate
  <2>1. /\ curr[t] \in blocks \ used /\ used' = used \cup {curr[t]}
        /\ size'[curr[t]] = want[t] /\ \A b \in used : size'[b] = size[b]
    BY <1>0, <1>5, TakeSplitPreserves, ZenonT(60)
  <2>2. want[t] \in Nat /\ want[t] > 0 /\ want[t] <= size[curr[t]]
    BY <1>5, <1>a, ZenonT(60) DEF TakeSplit
  <2>3. QED
    BY <2>1, <2>2, AllocateStep, ZenonT(60)
<1>6. ASSUME NEW t \in Threads, TakeWhole(t)
      PROVE  Abstract!Allocate
  <2>1. used' = used \cup {curr[t]} /\ size' = size
    BY <1>6, ZenonT(60) DEF TakeWhole
  <2>2. /\ curr[t] \in blocks \ used /\ size[curr[t]] \in Nat /\ want[t] \in Nat
        /\ want[t] > 0 /\ want[t] <= size[curr[t]]
    BY <1>6, <1>a, ZenonT(60) DEF TakeWhole
  <2>3. size[curr[t]] > 0
    BY <2>2, SMTT(60)
  <2>4. QED
    BY <2>1, <2>2, <2>3, AllocateStep, SMTT(60)
<1>7. ASSUME NEW t \in Threads, FreeLock(t)
      PROVE  Abstract!Release
  BY <1>7, ReleaseStep, ZenonT(60) DEF FreeLock
<1>8. ASSUME NEW t \in Threads, Insert(t)
      PROVE  Regions' = Regions
  <2>1. used' = used
    BY <1>8, ZenonT(60) DEF Insert
  <2>2. \A b \in used : size'[b] = size[b]
    BY <1>0, <1>8, InsertPreserves, ZenonT(60)
  <2>3. QED
    BY <2>1, <2>2, RegionsSame, ZenonT(60)
<1>9. QED
  BY <1>1, <1>2, <1>3, <1>4, <1>5, <1>6, <1>7, <1>8, ZenonT(60) DEF Next, Works, KmallocInit, Grow

\* The block lists of kmalloc.c implement an allocator: kmalloc hands out one
\* region of pool memory that overlaps no other, kfree takes one back, and no
\* split, merge or new pool moves or resizes a region in a caller's hands.
THEOREM KmallocIsAHeap ==
  ASSUME Guarded
  PROVE  Spec => ImplementsHeap
<1>1. /\ Regions = {[start |-> b + BLOCK_HEADER_SIZE, length |-> size[b]] : b \in used}
      /\ Regions' = {[start |-> b + BLOCK_HEADER_SIZE, length |-> size'[b]] : b \in used'}
  BY ZenonT(60) DEF Regions, Region
<1>2. Init => Abstract!Init
  BY ZenonT(60) DEF Init, Abstract!Init
<1>3. HeapInv /\ [Next]_vars =>
        [Abstract!Next]_{[start |-> b + BLOCK_HEADER_SIZE, length |-> size[b]] : b \in used}
  BY <1>1, HeapStep DEF Abstract!Next
<1>4. QED
  BY <1>2, <1>3, HeapInvHolds, PTL DEF Spec, ImplementsHeap, Abstract!Spec

-----------------------------------------------------------------------------
(***************************************************************************)
(* The requests.                                                           *)
(***************************************************************************)

\* Without overflow, rounding makes no request smaller.
LEMMA RoundUpCovers ==
  ASSUME NEW n \in Nat, n + KMALLOC_ALIGN <= SizeMod
  PROVE  RoundUp(n) >= n /\ n % SizeMod = n
<1>0. KMALLOC_ALIGN \in Nat \ {0} /\ SizeMod \in Nat \ {0} /\ KMALLOC_MIN_SIZE \in Nat
  BY KmallocAssumption
<1>1. PICK m \in Nat : m = n + KMALLOC_ALIGN - 1
  BY <1>0
<1>2. m < SizeMod
  BY <1>0, <1>1
<1>3. m % SizeMod = m
  BY <1>0, <1>2
<1>4. PICK q \in Nat : q = m \div KMALLOC_ALIGN
  BY <1>0
<1>5. m % KMALLOC_ALIGN \in 0 .. KMALLOC_ALIGN - 1
  BY <1>0
<1>6. m = KMALLOC_ALIGN * (m \div KMALLOC_ALIGN) + (m % KMALLOC_ALIGN)
  BY <1>0
<1>7. PICK k \in Nat : k = q * KMALLOC_ALIGN
  BY <1>0
<1>8. k = KMALLOC_ALIGN * q
  BY <1>0, <1>7
<1>9. k >= n
  BY <1>0, <1>1, <1>4, <1>5, <1>6, <1>8
<1>10. RoundUp(n) = IF k < KMALLOC_MIN_SIZE THEN KMALLOC_MIN_SIZE ELSE k
  BY <1>1, <1>3, <1>4, <1>7, ZenonT(60) DEF RoundUp
<1>11. QED
  BY <1>0, <1>9, <1>10

LEMMA RequestStep ==
  ASSUME NoOverflow, TypeOK, RequestInv, [Next]_vars
  PROVE  RequestInv'
<1>1. CASE UNCHANGED <<pc, req, want>>
  BY <1>1 DEF RequestInv
<1>2. ASSUME NEW t \in Threads, NEW n \in Nat, NEW n0 \in Nat, n0 = n,
             n + KMALLOC_ALIGN <= SizeMod, CallKmalloc(t, n0, n)
      PROVE  RequestInv'
  <2>1. want' = [want EXCEPT ![t] = RoundUp(n)] /\ req' = [req EXCEPT ![t] = n]
    BY <1>2 DEF CallKmalloc
  <2>2. RoundUp(n) >= n
    BY <1>2, RoundUpCovers, ZenonT(60)
  <2>3. \A s \in Threads \ {t} : pc'[s] = pc[s]
    BY <1>2 DEF CallKmalloc, Goto, TypeOK
  <2>4. QED
    BY <2>1, <2>2, <2>3, ZenonT(60) DEF RequestInv, TypeOK
<1>3. ASSUME NEW t \in Threads, Calls(t)
      PROVE  RequestInv'
  <2>1. ASSUME NEW n \in Requests, StartKmalloc(t, n)
        PROVE  RequestInv'
    BY <1>2, <2>1, KmallocAssumption DEF StartKmalloc, NoOverflow
  <2>2. ASSUME NEW a \in Arrays, StartKcalloc(t, a)
        PROVE  RequestInv'
    <3>1. PICK n \in Nat : n = a[1] * a[2]
      BY <2>2, KmallocAssumption
    <3>2. n + KMALLOC_ALIGN <= SizeMod
      BY <3>1 DEF NoOverflow
    <3>3. n % SizeMod = n
      BY <3>2, RoundUpCovers
    <3>4. CallKmalloc(t, n, n)
      BY <2>2, <3>1, <3>3, ZenonT(60) DEF StartKcalloc
    <3>5. QED
      BY <1>2, <3>2, <3>4, ZenonT(60)
  <2>3. ASSUME NEW b \in blocks, NEW n \in Requests, StartKrealloc(t, b, n)
        PROVE  RequestInv'
    BY <1>2, <2>3, KmallocAssumption, ZenonT(60) DEF StartKrealloc, NoOverflow
  <2>4. ASSUME NEW b \in blocks, StartKfree(t, b)
        PROVE  RequestInv'
    BY <2>4, ZenonT(60) DEF StartKfree, Goto, TypeOK, RequestInv, Allocating
  <2>5. ASSUME NEW b \in blocks, DoubleFree(t, b) \/ \E n \in Requests : KreallocInPlace(t, b, n)
        PROVE  RequestInv'
    BY <1>1, <2>5, ZenonT(60) DEF DoubleFree, KreallocInPlace, vars, locals
  <2>6. QED
    BY <1>3, <2>1, <2>2, <2>3, <2>4, <2>5, ZenonT(60) DEF Calls
<1>4. ASSUME NEW t \in Threads, TakeSplit(t) \/ TakeWhole(t)
      PROVE  RequestInv'
  <2>1. Deliver(t)
    BY <1>4, ZenonT(60) DEF TakeSplit, TakeWhole
  <2>2. QED
    BY <2>1, ZenonT(60) DEF Deliver, Goto, TypeOK, RequestInv, Allocating
<1>5. ASSUME NEW t \in Threads,
             Lock(t) \/ ScanOn(t) \/ ScanFails(t) \/ GrowFails(t) \/ Grow(t) \/ Publish(t)
      PROVE  RequestInv'
  <2>1. pc[t] \in Allocating /\ UNCHANGED <<req, want>> /\ \A s \in Threads \ {t} : pc'[s] = pc[s]
    BY <1>5, ZenonT(60) DEF Lock, ScanOn, ScanFails, GrowFails, Grow, Publish, Advance, Goto, TypeOK,
                locals, Allocating
  <2>2. QED
    BY <2>1, ZenonT(60) DEF RequestInv
<1>6. ASSUME NEW t \in Threads, FreeLock(t) \/ FreeScanOn(t) \/ Insert(t)
      PROVE  RequestInv'
  <2>1. UNCHANGED <<req, want>> /\ pc'[t] \notin Allocating
          /\ \A s \in Threads \ {t} : pc'[s] = pc[s]
    BY <1>6, ZenonT(60) DEF FreeLock, FreeScanOn, Insert, Advance, Goto, TypeOK, Allocating
  <2>2. QED
    BY <2>1 DEF RequestInv
<1>7. QED
  BY <1>1, <1>3, <1>4, <1>5, <1>6, ZenonT(60) DEF Next, Works, KmallocInit, vars, locals

\* A delivered block is as large as the request, and larger than krealloc's.
LEMMA DeliveredCovers ==
  ASSUME HeapInv, RequestInv, NEW t \in Threads, TakeSplit(t) \/ TakeWhole(t)
  PROVE  /\ used' = used \cup {curr[t]}
         /\ size'[curr[t]] >= req[t]
         /\ pc'[t] = "flock" => size'[blk'[t]] <= size'[curr[t]] /\ blk'[t] \in used'
<1>1. /\ used' = used \cup {curr[t]} /\ \A b \in used : size'[b] = size[b]
      /\ pc[t] = "scan" /\ curr[t] # NULL /\ Suits(t) /\ Deliver(t)
  BY TakeSplitPreserves, ZenonT(60) DEF HeapInv, TakeSplit, TakeWhole
<1>2. curr[t] \in blocks /\ size[curr[t]] \in Nat /\ want[t] \in Nat /\ req[t] \in Nat
  <2>1. curr[t] \in blocks
    BY <1>1, ZenonT(60) DEF HeapInv, Inv, CursorInv, Scanning, Listed
  <2>2. QED
    BY <2>1, SMTT(60) DEF HeapInv, Inv, TypeOK
<1>3. size'[curr[t]] \in Nat /\ size'[curr[t]] >= want[t]
  <2>1. CASE TakeSplit(t)
    <3>1. size'[curr[t]] = want[t]
      BY <2>1, TakeSplitPreserves, ZenonT(60) DEF HeapInv
    <3>2. QED
      BY <1>2, <3>1
  <2>2. CASE TakeWhole(t)
    BY <1>1, <1>2, <2>2, ZenonT(60) DEF TakeWhole, Suits
  <2>3. QED
    BY <2>1, <2>2, ZenonT(60)
<1>4. want[t] >= req[t]
  BY <1>1, ZenonT(60) DEF RequestInv, Allocating
<1>5. size'[curr[t]] >= req[t]
  BY <1>2, <1>3, <1>4, SMTT(60)
<1>6. ASSUME pc'[t] = "flock"
      PROVE  size'[blk'[t]] <= size'[curr[t]] /\ blk'[t] \in used'
  <2>1. blk'[t] = old[t] /\ old[t] # NULL
    BY <1>1, <1>6, ZenonT(60) DEF Deliver, Goto, HeapInv, Inv, TypeOK
  <2>2. old[t] \in used /\ size[old[t]] < req[t]
    BY <2>1, ZenonT(60) DEF HeapInv, CallInv, CallOK
  <2>3. size[old[t]] \in Nat
    BY <2>2, ZenonT(60) DEF HeapInv, Inv, TypeOK
  <2>4. QED
    BY <1>1, <1>2, <1>3, <1>5, <2>1, <2>2, <2>3, SMTT(60)
<1>7. QED
  BY <1>1, <1>5, <1>6

\* Only the steps that deliver a block mark one as used or end a search.
LEMMA OnlyDelivered ==
  ASSUME TypeOK, [Next]_vars
  PROVE  /\ used' \subseteq used \/ \E t \in Threads : TakeSplit(t) \/ TakeWhole(t)
         /\ \A t \in Threads : pc[t] = "scan" /\ pc'[t] = "flock" => TakeSplit(t) \/ TakeWhole(t)
<1> DEFINE Quiet == used' \subseteq used /\ \A t \in Threads : ~ (pc[t] = "scan" /\ pc'[t] = "flock")
<1>1. CASE UNCHANGED vars \/ KmallocInit
  <2>1. used' = used /\ pc' = pc
    BY <1>1, ZenonT(60) DEF vars, headers, KmallocInit, NewPool
  <2>2. QED
    BY <2>1, ZenonT(60)
<1>2. ASSUME NEW t \in Threads, Calls(t)
      PROVE  Quiet
  <2>1. used' = used
    BY <1>2, ZenonT(60) DEF Calls, StartKmalloc, StartKcalloc, StartKrealloc, StartKfree, DoubleFree,
                KreallocInPlace, CallKmalloc, vars, headers
  <2>2. pc[t] = "idle" /\ \A s \in Threads \ {t} : pc'[s] = pc[s]
    BY <1>2, ZenonT(60) DEF Calls, StartKmalloc, StartKcalloc, StartKrealloc, StartKfree, DoubleFree,
                KreallocInPlace, CallKmalloc, Goto, TypeOK, vars
  <2>3. QED
    BY <2>1, <2>2, ZenonT(60)
<1>3. ASSUME NEW t \in Threads,
             Lock(t) \/ ScanOn(t) \/ ScanFails(t) \/ GrowFails(t) \/ Grow(t) \/ Publish(t)
               \/ FreeLock(t) \/ FreeScanOn(t) \/ Insert(t)
      PROVE  Quiet
  <2>1. used' \subseteq used
    BY <1>3, ZenonT(60) DEF Lock, ScanOn, ScanFails, GrowFails, Grow, NewPool, Publish, FreeLock, FreeScanOn,
                Insert, Advance, headers
  <2>2. pc'[t] # "flock" /\ \A s \in Threads \ {t} : pc'[s] = pc[s]
    BY <1>3, ZenonT(60) DEF Lock, ScanOn, ScanFails, GrowFails, Grow, Publish, FreeLock, FreeScanOn,
                Insert, Advance, Goto, TypeOK
  <2>3. QED
    BY <2>1, <2>2
<1>4. ASSUME NEW t \in Threads, TakeSplit(t) \/ TakeWhole(t)
      PROVE  \A s \in Threads \ {t} : pc'[s] = pc[s]
  BY <1>4, ZenonT(60) DEF TakeSplit, TakeWhole, Deliver, Goto, TypeOK
<1>5. QED
  BY <1>1, <1>2, <1>3, <1>4, ZenonT(60) DEF Next, Works

\* A caller can use all the bytes it asked for, and what krealloc copies fits in
\* the new block, as long as no request is so large that rounding it overflows a
\* size_t (kmalloc.c does not check that).
THEOREM RequestsAreCovered ==
  ASSUME Guarded, NoOverflow
  PROVE  Spec => RequestsCovered
<1>1. Init => RequestInv
  BY DEF Init, RequestInv, Allocating
<1>2. HeapInv => TypeOK
  BY DEF HeapInv, Inv
<1>3. HeapInv /\ RequestInv /\ [Next]_vars => RequestInv'
  BY <1>2, RequestStep, ZenonT(60)
<1> DEFINE Covers ==
      /\ \A b \in used' \ used : \E t \in Threads : b = curr[t] /\ size'[b] >= req[t]
      /\ \A t \in Threads : pc[t] = "scan" /\ pc'[t] = "flock" =>
           size'[blk'[t]] <= size'[curr[t]] /\ blk'[t] \in used'
<1>4. HeapInv /\ RequestInv /\ [Next]_vars => Covers
  <2> SUFFICES ASSUME HeapInv, RequestInv, [Next]_vars
               PROVE  Covers
    BY ZenonT(60)
  <2>1. ASSUME NEW b \in used' \ used
        PROVE  \E t \in Threads : b = curr[t] /\ size'[b] >= req[t]
    <3>1. PICK t \in Threads : TakeSplit(t) \/ TakeWhole(t)
      BY <1>2, <2>1, OnlyDelivered, ZenonT(60)
    <3>2. QED
      BY <2>1, <3>1, DeliveredCovers
  <2>2. ASSUME NEW t \in Threads, pc[t] = "scan", pc'[t] = "flock"
        PROVE  size'[blk'[t]] <= size'[curr[t]] /\ blk'[t] \in used'
    BY <1>2, <2>2, OnlyDelivered, DeliveredCovers
  <2>3. QED
    BY <2>1, <2>2, ZenonT(60)
<1> HIDE DEF Covers
<1>5. Spec => [][Covers]_vars
  BY <1>1, <1>3, <1>4, HeapInvHolds, PTL DEF Spec
<1>6. QED
  BY <1>5 DEF RequestsCovered, Covers

=============================================================================
