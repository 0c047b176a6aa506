----------------------------- MODULE Fat32Proofs -----------------------------
(***************************************************************************)
(* The FAT32 driver keeps a well-formed volume well formed, wherever its   *)
(* calls stop or fail: proofs for every size of disk and directory, every  *)
(* number of open files and every set of paths.                            *)
(***************************************************************************)
EXTENDS Fat32Ls, WellFoundedInduction, TLAPS

Modes == {"r", "w", "a"}

FileRecords == [mode : Modes, first : Entries \cup {FREE}, curr : Entries \cup {FREE, EOC},
                offset : Nat, size : Nat, pos : Nat]

ReadCalls == [op : {"read", "seek"}, loop : {"read"}, h : Handles, left : Int]

WriteCalls == [op : {"write"}, loop : {"write"}, h : Handles, left : Int,
               then : {"own", "link"}, from : Int, new : Entries \cup {FREE}]

TypeOK ==
  /\ fat \in [Entries -> Entries \cup {FREE, EOC}]
  /\ dirent \in [Places -> Dirents \cup {EMPTY, DELETED, UNNAMED}]
  /\ open_files \in [Handles -> FileRecords \cup {UNUSED}]

\* The locals of open and mkdir.  Nothing is said of the directory they found.
Creating ==
  /\ DOMAIN call = {"op", "then", "parent", "name", "mode", "from", "new"}
  /\ call.op \in {"open", "mkdir"} /\ call.then \in {"slot", "clear"}
  /\ call.name \in Names /\ call.mode \in Modes /\ call.from \in Int

\* The locals of write, whose file is open.
Writing == call \in WriteCalls /\ open_files[call.h] # UNUSED

\* The locals of the call in progress, by what it does next.
CallOK ==
  /\ pc \in {"idle", "list", "read", "alloc", "clear", "slot", "write", "advance",
             "own", "link", "undo"}
  /\ pc = "read" => call \in ReadCalls /\ open_files[call.h] # UNUSED
  /\ pc \in {"clear", "slot"} => Creating
  /\ pc \in {"write", "advance", "own", "link"} => Writing
  /\ pc \in {"alloc", "undo"} => Creating \/ Writing
  /\ pc \in {"clear", "slot", "own", "link", "undo"} => call.new \in Entries

\* The root is whole and no write left the cluster of its file.
Calm == mishaps \cap {"loop", "overrun"} = {}

Referenced(c) == \/ \E e \in Entries : fat[e] = c
                 \/ \E p \in Files : dirent[p].first = c

Held(c) == \E h \in Handles : /\ open_files[h] # UNUSED
                              /\ open_files[h].first = c \/ open_files[h].curr = c

Named(c) == Referenced(c) \/ Held(c)

Holding == pc \in {"clear", "slot", "own", "link", "undo"}

\* Each cluster has one reference at most, the root none.
Unique ==
  /\ \A a, b \in Entries : fat[a] = fat[b] /\ fat[a] \in Entries => a = b
  /\ \A p, q \in Files : dirent[p].first = dirent[q].first /\ dirent[p].first \in Entries => p = q
  /\ \A a \in Entries, p \in Files : fat[a] \in Entries => fat[a] # dirent[p].first
  /\ ~ Referenced(Root)

\* What is named is taken, but for one cluster after a write that was done and
\* reported as failed; the root is taken.
Marked ==
  /\ fat[Root] # FREE
  /\ Sound \/ pc = "undo" => \A c \in Entries : Named(c) => fat[c] # FREE
  /\ ~ Sound => /\ pc \in {"idle", "list", "undo"}
                /\ \A c, d \in Entries : Named(c) /\ Named(d) /\ fat[c] = FREE /\ fat[d] = FREE => c = d

\* The cluster that a call has taken is the end of a chain of its own.
Alone == Holding => /\ call.new # Root
                    /\ fat[call.new] = EOC
                    /\ Sound => ~ Named(call.new)

\* The cluster behind which a file grows is the last of its chain, unless the
\* FAT could not be read.
Growing ==
  /\ pc \in {"advance", "link"} \/ (pc = "alloc" /\ call.then = "link") => File.curr \in Entries
  /\ Faultless /\ (pc = "link" \/ (pc = "alloc" /\ call.then = "link")) => fat[File.curr] = EOC

IInv ==
  /\ TypeOK
  /\ CallOK
  /\ Unique
  /\ Marked
  /\ Alone
  /\ Growing

-----------------------------------------------------------------------------
(* Operators *)

\* The constants, in the form the steps use.
LEMMA Constants ==
  /\ LastCluster \in Nat /\ LastEntry \in Nat /\ Slots \in Nat \ {0} /\ B \in Nat \ {0}
  /\ Root \in Entries /\ FREE \notin Entries /\ EOC \notin Entries /\ FREE # EOC
  /\ Entries \in SUBSET Nat /\ Clusters \in SUBSET Entries
  BY Fat32Assumption DEF Root, FREE, EOC, Entries, Clusters

\* The scan of allocate_cluster finds an entry that is free.
LEMMA FirstFree ==
  ASSUME NEW n, NEW c \in First(FreeFrom(n))
  PROVE  c \in Entries /\ fat[c] = FREE
  BY DEF First, FreeFrom

\* The entries of a directory are entries of the disk.
LEMMA IndicesArePlaces ==
  ASSUME NEW d, NEW i \in Indices(d)
  PROVE  At(d, i) \in Places /\ i \in Nat
<1>1. i \in Nat /\ i >= 1 /\ Nth(d, (i - 1) \div Slots) \in Clusters
  <2>1. i \in 1 .. Slots * (LastEntry - 1) /\ Slots * (LastEntry - 1) \in Int
    BY Constants DEF Indices
  <2>2. \A k \in 0 .. (i - 1) \div Slots : Nth(d, k) \in Clusters
    BY DEF Indices
  <2>3. (i - 1) \div Slots \in 0 .. (i - 1) \div Slots
    BY <2>1, Constants
  <2>4. QED
    BY <2>1, <2>2, <2>3
<1>2. ((i - 1) % Slots) + 1 \in 1 .. Slots
  BY <1>1, Constants
<1>3. QED
  BY <1>1, <1>2 DEF At, Places

\* What fat32_find finds is the entry of a file or directory.
LEMMA LookupFindsFile ==
  ASSUME TypeOK, NEW d, NEW name, NEW e \in Lookup(d, name)
  PROVE  e \in Dirents /\ \E p \in Files : dirent[p] = e
<1>1. PICK i \in Found(d, name) : e = dirent[At(d, i)]
  BY DEF Lookup, First
<1>2. At(d, i) \in Places /\ e.kind \in {"file", "dir"}
  BY <1>1, IndicesArePlaces, ZenonT(60) DEF Found
<1>3. e \in Dirents
  BY <1>1, <1>2 DEF TypeOK, EMPTY, DELETED, UNNAMED
<1>4. QED
  BY <1>1, <1>2, <1>3 DEF Files

-----------------------------------------------------------------------------
(* Chains *)

LEMMA Least ==
  ASSUME NEW S \in SUBSET Nat, S # {}
  PROVE  \E x \in S : \A y \in S : x <= y
<1>1. PICK x \in S : \A y \in S : ~(<<y, x>> \in OpToRel(<, Nat))
  BY NatLessThanWellFounded, WFMin, ZenonT(60)
<1>2. ASSUME NEW y \in S
      PROVE  x <= y
  <2>1. ~(y < x)
    BY <1>1, ZenonT(60) DEF OpToRel
  <2>2. QED
    BY <2>1
<1>3. QED
  BY <1>2

\* A walk of n links.
Walk(f, c, n, s) == s = [k \in 0 .. n |-> IF k = 0 THEN c ELSE Follow(f, s[k - 1])]

LEMMA WalkExists ==
  ASSUME NEW f, NEW c, NEW n \in Nat
  PROVE  \E s : Walk(f, c, n, s)
<1> DEFINE S == {m \in Nat : ~ \E s : Walk(f, c, m, s)}
<1>1. ASSUME S # {}
      PROVE  FALSE
  <2>1. PICK m \in S : \A y \in S : m <= y
    BY <1>1, Least, ZenonT(60)
  <2>2. m # 0
    <3>1. Walk(f, c, 0, [k \in 0 .. 0 |-> c])
      BY DEF Walk
    <3>2. QED
      BY <2>1, <3>1
  <2>3. m - 1 \in Nat /\ ~(m <= m - 1)
    BY <2>1, <2>2
  <2>4. PICK s : Walk(f, c, m - 1, s)
    BY <2>1, <2>3, ZenonT(60)
  <2> DEFINE t == [k \in 0 .. m |-> IF k = 0 THEN c ELSE Follow(f, s[k - 1])]
  <2>5. \A k \in 0 .. m - 1 : t[k] = s[k]
    <3>1. \A k \in 0 .. m - 1 : k \in 0 .. m
      BY <2>1
    <3>2. s = [k \in 0 .. m - 1 |-> IF k = 0 THEN c ELSE Follow(f, s[k - 1])]
      BY <2>4, ZenonT(60) DEF Walk
    <3>3. ASSUME NEW k \in 0 .. m - 1
          PROVE  t[k] = s[k]
      <4>1. t[k] = IF k = 0 THEN c ELSE Follow(f, s[k - 1])
        BY <3>1, <3>3, ZenonT(60)
      <4>2. s[k] = IF k = 0 THEN c ELSE Follow(f, s[k - 1])
        BY <3>2, <3>3, ZenonT(60)
      <4>3. QED
        BY <4>1, <4>2, ZenonT(60)
    <3>4. QED
      BY <3>3, ZenonT(60)
  <2>6. \A k \in 0 .. m : k # 0 => k - 1 \in 0 .. m - 1
    BY <2>1
  <2>7. t = [k \in 0 .. m |-> IF k = 0 THEN c ELSE Follow(f, t[k - 1])]
    BY <2>5, <2>6, ZenonT(60)
  <2>8. Walk(f, c, m, t)
    BY <2>7, ZenonT(60) DEF Walk
  <2>9. QED
    BY <2>1, <2>8
<1>2. QED
  BY <1>1

LEMMA WalkUnique ==
  ASSUME NEW f, NEW c, NEW n \in Nat, NEW s, NEW t,
         Walk(f, c, n + 1, s), Walk(f, c, n, t)
  PROVE  s[n] = t[n]
<1> DEFINE S == {j \in 0 .. n : s[j] # t[j]}
<1>1. ASSUME S # {}
      PROVE  FALSE
  <2>1. PICK j \in S : \A y \in S : j <= y
    <3>1. S \in SUBSET Nat
      OBVIOUS
    <3>2. QED
      BY <1>1, <3>1, Least, ZenonT(60)
  <2>2. j \in 0 .. n + 1 /\ j \in 0 .. n
    BY <2>1
  <2>3. /\ s[j] = IF j = 0 THEN c ELSE Follow(f, s[j - 1])
        /\ t[j] = IF j = 0 THEN c ELSE Follow(f, t[j - 1])
    BY <2>2 DEF Walk
  <2>4. j # 0
    BY <2>1, <2>3
  <2>5. j - 1 \in 0 .. n /\ ~(j <= j - 1)
    BY <2>2, <2>4
  <2>6. s[j - 1] = t[j - 1]
    BY <2>1, <2>5
  <2>7. QED
    BY <2>1, <2>3, <2>4, <2>6, ZenonT(60)
<1>2. n \in 0 .. n
  OBVIOUS
<1>3. QED
  BY <1>1, <1>2, ZenonT(60)

LEMMA NthUnfolds ==
  ASSUME NEW f, NEW c
  PROVE  /\ NthIn(f, c, 0) = c
         /\ \A n \in Nat : NthIn(f, c, n + 1) = Follow(f, NthIn(f, c, n))
<1> DEFINE w(n) == CHOOSE s : s = [k \in 0 .. n |-> IF k = 0 THEN c ELSE Follow(f, s[k - 1])]
<1>1. \A n : NthIn(f, c, n) = w(n)[n]
  BY ZenonT(60) DEF NthIn
<1>2. \A n \in Nat : Walk(f, c, n, w(n))
  <2>1. ASSUME NEW n \in Nat
        PROVE  Walk(f, c, n, w(n))
    <3>1. \E s : s = [k \in 0 .. n |-> IF k = 0 THEN c ELSE Follow(f, s[k - 1])]
      <4>1. PICK s : Walk(f, c, n, s)
        BY WalkExists
      <4>2. s = [k \in 0 .. n |-> IF k = 0 THEN c ELSE Follow(f, s[k - 1])]
        BY <4>1, ZenonT(60) DEF Walk
      <4>3. QED
        BY <4>2
    <3>2. w(n) = [k \in 0 .. n |-> IF k = 0 THEN c ELSE Follow(f, w(n)[k - 1])]
      BY <3>1, ZenonT(60)
    <3>3. QED
      BY <3>2, ZenonT(60) DEF Walk
  <2>2. QED
    BY <2>1, ZenonT(60)
<1> HIDE DEF w
<1>3. w(0)[0] = c
  <2>1. 0 \in Nat /\ 0 \in 0 .. 0
    OBVIOUS
  <2>2. QED
    BY <1>2, <2>1 DEF Walk
<1>4. ASSUME NEW n \in Nat
      PROVE  w(n + 1)[n + 1] = Follow(f, w(n)[n])
  <2>1. n + 1 \in Nat /\ n + 1 \in 0 .. n + 1 /\ n + 1 # 0 /\ (n + 1) - 1 = n
    OBVIOUS
  <2>2. w(n + 1)[n + 1] = Follow(f, w(n + 1)[n])
    <3>1. PICK s : s = w(n + 1) /\ Walk(f, c, n + 1, s)
      BY <1>2, <2>1, ZenonT(60)
    <3>2. s[n + 1] = Follow(f, s[n])
      <4>1. s[n + 1] = IF n + 1 = 0 THEN c ELSE Follow(f, s[(n + 1) - 1])
        BY <2>1, <3>1, ZenonT(60) DEF Walk
      <4>2. QED
        BY <2>1, <4>1, ZenonT(60)
    <3>3. QED
      BY <3>1, <3>2
  <2>3. w(n + 1)[n] = w(n)[n]
    <3>1. Walk(f, c, n + 1, w(n + 1)) /\ Walk(f, c, n, w(n))
      BY <1>2, <2>1, ZenonT(60)
    <3>2. PICK s, t : s = w(n + 1) /\ t = w(n)
      BY ZenonT(60)
    <3>3. Walk(f, c, n + 1, s) /\ Walk(f, c, n, t)
      BY <3>1, <3>2, ZenonT(60)
    <3>4. s[n] = t[n]
      BY <3>3, WalkUnique
    <3>5. QED
      BY <3>2, <3>4, ZenonT(60)
  <2>4. QED
    BY <2>2, <2>3
<1>5. QED
  BY <1>1, <1>3, <1>4

LEMMA NthZero ==
  ASSUME NEW f, NEW c
  PROVE  NthIn(f, c, 0) = c
  BY NthUnfolds, ZenonT(60)

LEMMA NthNext ==
  ASSUME NEW f, NEW c, NEW n \in Nat
  PROVE  NthIn(f, c, n + 1) = Follow(f, NthIn(f, c, n))
  BY NthUnfolds, ZenonT(60)

\* A chain that only grows at its end keeps the clusters it has.
LEMMA NthStays ==
  ASSUME NEW f, NEW g, \A a \in Entries : f[a] \in Entries => g[a] = f[a],
         EOC \notin Entries, NEW c, NEW n \in Nat, NthIn(f, c, n) \in Entries
  PROVE  NthIn(g, c, n) = NthIn(f, c, n)
<1> DEFINE S == {m \in Nat : NthIn(f, c, m) \in Entries /\ NthIn(g, c, m) # NthIn(f, c, m)}
<1>1. ASSUME S # {}
      PROVE  FALSE
  <2>1. PICK m \in S : \A y \in S : m <= y
    BY <1>1, Least, ZenonT(60)
  <2>2. m # 0
    <3>1. NthIn(f, c, 0) = c /\ NthIn(g, c, 0) = c
      BY NthZero, ZenonT(60)
    <3>2. QED
      BY <2>1, <3>1, ZenonT(60)
  <2>3. m - 1 \in Nat /\ ~(m <= m - 1) /\ m = (m - 1) + 1
    BY <2>1, <2>2
  <2>4. /\ NthIn(f, c, m) = Follow(f, NthIn(f, c, m - 1))
        /\ NthIn(g, c, m) = Follow(g, NthIn(g, c, m - 1))
    <3>1. /\ NthIn(f, c, (m - 1) + 1) = Follow(f, NthIn(f, c, m - 1))
          /\ NthIn(g, c, (m - 1) + 1) = Follow(g, NthIn(g, c, m - 1))
      BY <2>3, NthNext
    <3>2. QED
      BY <2>3, <3>1, ZenonT(60)
  <2>5. NthIn(f, c, m - 1) \in Entries
    BY <2>1, <2>4, ZenonT(60) DEF Follow
  <2>6. NthIn(g, c, m - 1) = NthIn(f, c, m - 1)
    BY <2>1, <2>3, <2>5
  <2>7. QED
    BY <2>1, <2>4, <2>5, <2>6, ZenonT(60) DEF Follow
<1>2. QED
  BY <1>1, ZenonT(60)

-----------------------------------------------------------------------------
(* What has gone wrong *)

\* A fault that the device reports as it was damages nothing.
LEMMA FaultIsCalm ==
  ASSUME Fault
  PROVE  (Calm' <=> Calm) /\ (Sound' <=> Sound) /\ ~ Faultless'
  BY DEF Fault, Calm, Sound, Faultless

LEMMA TornFaultIsCalm ==
  ASSUME TornFault
  PROVE  (Calm' <=> Calm) /\ ~ Sound' /\ ~ Faultless'
  BY DEF TornFault, Calm, Sound, Faultless

LEMMA MishapIsCalm ==
  ASSUME NEW m \in {"full", "lost"}, Mishap(m)
  PROVE  (Calm' <=> Calm) /\ (Sound' <=> Sound) /\ (Faultless' <=> Faultless)
  BY DEF Mishap, Calm, Sound, Faultless

LEMMA NoMishap ==
  ASSUME UNCHANGED history
  PROVE  (Calm' <=> Calm) /\ (Sound' <=> Sound) /\ (Faultless' <=> Faultless)
  BY DEF history, Calm, Sound, Faultless

\* A write outside of the file's cluster is on record.
LEMMA OverrunIsNotCalm ==
  ASSUME Mishap("overrun")
  PROVE  ~ Calm' /\ ~ Sound'
  BY DEF Mishap, Calm, Sound

-----------------------------------------------------------------------------
(* The initial states *)

LEMMA InitIInv == Init /\ Calm => IInv
<1> SUFFICES ASSUME Init, Calm
             PROVE  IInv
  OBVIOUS
<1>1. PICK d \in Disks : /\ fat = d.fat /\ dirent = d.dirent
                         /\ mishaps = d.damage
  BY DEF Init
<1>2. TypeOK
  BY <1>1, Fat32Assumption DEF Init, TypeOK
<1>3. CallOK
  BY DEF Init, CallOK
<1>4. Unique /\ Marked /\ Alone /\ Growing
  <2>1. d.damage = {}
    BY <1>1, Fat32Assumption DEF Calm
  <2>2. WellFormed(fat, dirent)
    BY <1>1, <2>1, DisksAssumption
  <2>3. \A c \in Entries : Referenced(c) => c # Root /\ fat[c] # FREE
    BY <2>2 DEF WellFormed, Referenced, Files
  <2>4. Unique
    BY <2>2, <2>3, Constants DEF WellFormed, Unique, Files
  <2>5. \A c : ~ Held(c)
    BY DEF Init, Held
  <2>6. Sound
    BY <1>1, <2>1 DEF Sound
  <2>7. Marked
    BY <2>2, <2>3, <2>5, <2>6 DEF WellFormed, Marked, Named
  <2>8. QED
    BY <2>4, <2>7 DEF Init, Alone, Growing, Holding
<1>5. QED
  BY <1>2, <1>3, <1>4 DEF IInv

-----------------------------------------------------------------------------
(* Steps that leave the disk and the open files alone *)

LEMMA SameNames ==
  ASSUME UNCHANGED <<fat, dirent, open_files>>
  PROVE  /\ Unique' <=> Unique
         /\ \A c : Named(c)' <=> Named(c)
         /\ TypeOK' <=> TypeOK
  BY DEF Unique, Named, Referenced, Held, Files, TypeOK

\* Then a sound disk stays as it is.
LEMMA QuietStep ==
  ASSUME IInv, UNCHANGED <<fat, dirent, open_files>>,
         Sound' <=> Sound, CallOK', Alone', Growing',
         Sound \/ (pc' \in {"idle", "list"} /\ pc # "undo")
  PROVE  IInv'
<1>1. TypeOK'
  BY SameNames DEF IInv
<1>2. Unique' /\ Marked'
  BY SameNames DEF IInv, Marked
<1>3. QED
  BY <1>1, <1>2 DEF IInv

\* After a write that was done and reported as failed, the call gives up.
LEMMA StillSound ==
  ASSUME IInv, pc \notin {"idle", "list", "undo"}
  PROVE  Sound
  BY DEF IInv, Marked

LEMMA StartReadStep ==
  ASSUME IInv, Sound, NEW h \in Handles, NEW n \in Lengths, StartRead(h, n)
  PROVE  IInv'
<1>1. UNCHANGED <<fat, dirent, open_files>> /\ UNCHANGED history /\ pc = "idle" /\ pc' = "read"
  BY DEF StartRead, disk
<1>2. open_files[h] \in FileRecords /\ open_files[h] # UNUSED
  BY DEF StartRead, IInv, TypeOK
<1>3. Lesser(n, open_files[h].size - open_files[h].pos) \in Int
  BY <1>2, Fat32Assumption DEF FileRecords, Lesser
<1>4. call' \in ReadCalls /\ call'.h = h
  BY <1>3 DEF StartRead, ReadCalls
<1>5. CallOK'
  BY <1>1, <1>2, <1>4 DEF CallOK
<1>6. Alone' /\ Growing'
  BY <1>1 DEF Alone, Growing, Holding
<1>7. QED
  BY <1>1, <1>5, <1>6, NoMishap, QuietStep, ZenonT(60)

LEMMA StartWriteStep ==
  ASSUME IInv, Sound, NEW h \in Handles, NEW n \in Lengths, StartWrite(h, n)
  PROVE  IInv'
<1>1. UNCHANGED <<fat, dirent, open_files>> /\ UNCHANGED history /\ pc = "idle" /\ pc' = "write"
  BY DEF StartWrite, disk
<1>2. call' \in WriteCalls /\ call'.h = h
  BY Fat32Assumption DEF StartWrite, WriteCalls
<1>3. CallOK'
  BY <1>1, <1>2 DEF CallOK, Writing, StartWrite
<1>4. Alone' /\ Growing'
  BY <1>1 DEF Alone, Growing, Holding
<1>5. QED
  BY <1>1, <1>3, <1>4, NoMishap, QuietStep

LEMMA CreateStep ==
  ASSUME IInv, Sound, NEW op \in {"open", "mkdir"}, NEW path \in Paths, NEW mode \in Modes,
         Create(op, path, mode)
  PROVE  IInv'
<1>1. UNCHANGED <<fat, dirent, open_files>> /\ pc = "idle" /\ pc' = "alloc"
  BY DEF Create, disk
<1>2. PICK d \in Parents(path) :
        /\ IF Found(d, path[Len(path)]) = {} THEN UNCHANGED history ELSE Fault
        /\ call' = [op |-> op, then |-> IF op = "open" THEN "slot" ELSE "clear",
                    parent |-> d, name |-> path[Len(path)], mode |-> mode,
                    from |-> 2, new |-> FREE]
  BY DEF Create
<1>3. path[Len(path)] \in Names
  <2>1. path \in Seq(STRING) /\ path # <<>>
    BY Fat32Assumption
  <2>2. Len(path) \in DOMAIN path
    BY <2>1
  <2>3. QED
    BY <2>2 DEF Names
<1>4. Sound' <=> Sound
  BY <1>2, FaultIsCalm, NoMishap, ZenonT(60)
<1>5. Creating' /\ call'.then # "link"
  BY <1>2, <1>3 DEF Creating
<1>6. CallOK'
  BY <1>1, <1>5, ZenonT(60) DEF CallOK
<1>7. Alone' /\ Growing'
  BY <1>1, <1>5 DEF Alone, Growing, Holding
<1>8. QED
  BY <1>1, <1>4, <1>6, <1>7, QuietStep, ZenonT(60)

\* The scan goes on behind an entry that it could not read.
LEMMA ScanFaultStep ==
  ASSUME IInv, ScanFault
  PROVE  IInv'
<1>1. UNCHANGED <<fat, dirent, open_files>> /\ pc = "alloc" /\ pc' = "alloc" /\ Fault
  BY DEF ScanFault, disk
<1>2. PICK n \in Int : call' = [call EXCEPT !.from = n]
  BY FirstFree, Constants DEF ScanFault
<1>3. (Creating => Creating') /\ (Writing => Writing') /\ (Creating \/ Writing => call'.then = call.then)
      /\ (Writing => call'.h = call.h)
  BY <1>1, <1>2, ZenonT(60) DEF Creating, Writing, WriteCalls
<1>4. CallOK'
  BY <1>1, <1>3 DEF IInv, CallOK
<1>5. Alone' /\ Growing'
  <2>1. Alone'
    BY <1>1, ZenonT(60) DEF Alone, Holding
  <2>2. call.then = "link" => Writing /\ File' = File
    BY <1>1, <1>3 DEF IInv, CallOK, Creating, File
  <2>3. ~ Faultless'
    BY <1>1, FaultIsCalm, ZenonT(60)
  <2>4. Growing'
    BY <1>1, <1>3, <2>2, <2>3, ZenonT(60) DEF Growing, IInv, CallOK
  <2>5. QED
    BY <2>1, <2>4
<1>6. QED
  BY <1>1, <1>4, <1>5, FaultIsCalm, StillSound, QuietStep, ZenonT(60)

\* A call returns without more ado.
LEMMA ReturnStep ==
  ASSUME IInv, UNCHANGED <<fat, dirent, open_files>>, Return, pc # "undo",
         Sound' <=> Sound
  PROVE  IInv'
<1>1. pc' = "idle"
  BY DEF Return
<1>2. CallOK'
  BY <1>1 DEF CallOK
<1>3. Alone' /\ Growing'
  BY <1>1 DEF Alone, Growing, Holding
<1>4. QED
  BY <1>1, <1>2, <1>3, QuietStep

LEMMA DiskFullStep ==
  ASSUME IInv, DiskFull
  PROVE  IInv'
<1>1. UNCHANGED <<fat, dirent, open_files>> /\ pc = "alloc" /\ Return /\ Mishap("full")
  BY DEF DiskFull, disk
<1>2. QED
  BY <1>1, MishapIsCalm, ReturnStep

LEMMA ReadFailsStep ==
  ASSUME IInv, ReadFails
  PROVE  IInv'
<1>1. UNCHANGED <<fat, dirent, open_files>> /\ pc = "read" /\ Return /\ Fault
  BY DEF ReadFails, disk
<1>2. QED
  BY <1>1, FaultIsCalm, ReturnStep

LEMMA WriteFailsStep ==
  ASSUME IInv, WriteFails
  PROVE  IInv'
<1>1. UNCHANGED <<fat, dirent, open_files>> /\ pc = "write" /\ Return
  BY DEF WriteFails, disk
<1>2. Sound' <=> Sound
  BY FaultIsCalm, NoMishap, ZenonT(60) DEF WriteFails
<1>3. QED
  BY <1>1, <1>2, ReturnStep, ZenonT(60)

\* A full directory: the cluster that was taken is given back next.
LEMMA DirectoryFullStep ==
  ASSUME IInv, DirectoryFull
  PROVE  IInv'
<1>1. /\ UNCHANGED <<fat, dirent, open_files>> /\ UNCHANGED history
      /\ pc = "slot" /\ pc' = "undo" /\ call' = call
  BY ZenonT(60) DEF DirectoryFull, disk, Goto
<1>2. CallOK'
  BY <1>1, ZenonT(60) DEF IInv, CallOK, Creating
<1>3. Alone'
  BY <1>1, SameNames, NoMishap, ZenonT(60) DEF IInv, Alone, Holding
<1>4. Growing'
  BY <1>1 DEF Growing
<1>5. QED
  BY <1>1, <1>2, <1>3, <1>4, NoMishap, StillSound, QuietStep, ZenonT(60)

\* A write that needs a cluster.
LEMMA WriteAllocates ==
  ASSUME NEW c \in WriteCalls, NEW t \in {"own", "link"}
  PROVE  LET d == [c EXCEPT !.then = t, !.from = 2]
         IN  d \in WriteCalls /\ d.h = c.h /\ d.then = t
<1> DEFINE e == [c EXCEPT !.then = t]
           d == [c EXCEPT !.then = t, !.from = 2]
<1>1. d = [e EXCEPT !.from = 2]
  OBVIOUS
<1>2. e \in WriteCalls
  BY DEF WriteCalls
<1> HIDE DEF e
<1>3. [e EXCEPT !.from = 2] \in WriteCalls
  BY <1>2 DEF WriteCalls
<1>4. d.h = c.h /\ d.then = t
  BY DEF WriteCalls
<1>5. QED
  BY <1>1, <1>3, <1>4

LEMMA WriteFirstStep ==
  ASSUME IInv, WriteFirst
  PROVE  IInv'
<1>1. /\ UNCHANGED <<fat, dirent, open_files>> /\ UNCHANGED history
      /\ pc = "write" /\ pc' = "alloc"
      /\ call' = [call EXCEPT !.then = "own", !.from = 2]
  BY SMTT(60) DEF WriteFirst, disk
<1>2. Writing' /\ call'.then = "own"
  BY <1>1, WriteAllocates, ZenonT(60) DEF IInv, CallOK, Writing
<1>3. CallOK'
  BY <1>1, <1>2 DEF CallOK
<1>4. Alone' /\ Growing'
  BY <1>1, <1>2 DEF Alone, Growing, Holding
<1>5. QED
  BY <1>1, <1>3, <1>4, NoMishap, StillSound, QuietStep

LEMMA ExtendStep ==
  ASSUME IInv, Extend
  PROVE  IInv'
<1>1. /\ UNCHANGED <<fat, dirent, open_files>>
      /\ pc = "advance" /\ pc' = "alloc"
      /\ call' = [call EXCEPT !.then = "link", !.from = 2]
      /\ IF fat[File.curr] = EOC THEN UNCHANGED history ELSE Fault
  BY SMTT(60) DEF Extend, disk
<1>2. Writing' /\ call'.h = call.h
  BY <1>1, WriteAllocates, ZenonT(60) DEF IInv, CallOK, Writing
<1>3. CallOK'
  BY <1>1, <1>2, ZenonT(60) DEF CallOK
<1>4. (Sound' <=> Sound) /\ (Faultless' => fat[File.curr] = EOC)
  BY <1>1, FaultIsCalm, NoMishap, ZenonT(60)
<1>5. File' = File
  BY <1>1, <1>2 DEF File
<1>6. Alone'
  BY <1>1 DEF Alone, Holding
<1>7. Growing'
  BY <1>1, <1>4, <1>5 DEF IInv, Growing
<1>8. QED
  BY <1>1, <1>3, <1>4, <1>6, <1>7, StillSound, QuietStep, ZenonT(60)

\* A listing reads and changes nothing.
LEMMA ListingStep ==
  ASSUME IInv, Ls("flat") \/ Ls("recursive") \/ ListEntry \/ ListReturns \/ LsReturns
  PROVE  IInv'
<1>1. /\ UNCHANGED history \/ Fault
      /\ pc \in {"idle", "list"} /\ pc' \in {"idle", "list"}
  BY ZenonT(60) DEF Ls, ListEntry, ListReturns, LsReturns, Return, disk
<1>2. Sound' <=> Sound
  BY <1>1, FaultIsCalm, NoMishap, ZenonT(60)
<1>3. CallOK' /\ Alone' /\ Growing'
  BY <1>1, SMTT(60) DEF CallOK, Alone, Growing, Holding
<1>4. UNCHANGED <<fat, dirent, open_files>>
  BY ZenonT(60) DEF Ls, ListEntry, ListReturns, LsReturns, Return, disk
<1>5. QED
  BY <1>1, <1>2, <1>3, <1>4, QuietStep, ZenonT(60)

-----------------------------------------------------------------------------
(* Steps that change the open files only *)

LEMMA FilesStep ==
  ASSUME IInv, UNCHANGED <<fat, dirent>>,
         open_files' \in [Handles -> FileRecords \cup {UNUSED}],
         Sound' <=> Sound, Sound,
         \A c \in Entries : Held(c)' => fat[c] # FREE,
         CallOK', Alone', Growing'
  PROVE  IInv'
<1>1. TypeOK'
  BY ZenonT(60) DEF IInv, TypeOK
<1>2. \A c : Referenced(c)' <=> Referenced(c)
  BY ZenonT(60) DEF Referenced, Files
<1>3. Unique'
  BY <1>2, ZenonT(60) DEF IInv, Unique, Files
<1>4. Marked'
  BY <1>2 DEF IInv, Marked, Named
<1>5. QED
  BY <1>1, <1>3, <1>4, ZenonT(60) DEF IInv

\* The elements of open_files.
LEMMA FileTypes ==
  ASSUME IInv, NEW h \in Handles, open_files[h] # UNUSED
  PROVE  open_files[h] \in FileRecords
  BY DEF IInv, TypeOK

LEMMA TakeHandleFiles ==
  ASSUME IInv, NEW first \in Entries \cup {FREE}, NEW size \in Nat, NEW mode \in Modes,
         TakeHandle(first, size, mode)
  PROVE  /\ open_files' \in [Handles -> FileRecords \cup {UNUSED}]
         /\ \A c : Held(c)' => Held(c) \/ c = first
<1> DEFINE file == [mode |-> mode, first |-> first, curr |-> first, offset |-> 0,
                    size |-> IF mode = "w" THEN 0 ELSE size,
                    pos |-> IF mode = "a" THEN size ELSE 0]
<1>1. file \in FileRecords /\ file.first = first /\ file.curr = first
  BY DEF FileRecords
<1> HIDE DEF file
<1>2. PICK M : open_files' = [h \in Handles |-> IF h \in M THEN file ELSE open_files[h]]
  BY ZenonT(60) DEF TakeHandle, file
<1>3. open_files' \in [Handles -> FileRecords \cup {UNUSED}]
  BY <1>1, <1>2 DEF IInv, TypeOK
<1>4. \A h \in Handles : open_files'[h] = file \/ open_files'[h] = open_files[h]
  BY <1>2, ZenonT(60)
<1>5. QED
  BY <1>1, <1>3, <1>4 DEF Held

LEMMA OpenExistingStep ==
  ASSUME IInv, Sound, NEW path \in Paths, NEW mode \in Modes, OpenExisting(path, mode)
  PROVE  IInv'
<1>1. UNCHANGED <<fat, dirent, pc, call>> /\ UNCHANGED history /\ pc = "idle"
  BY DEF OpenExisting, disk
<1>2. PICK d \in Parents(path) :
        \E e \in Lookup(d, path[Len(path)]) : TakeHandle(e.first, e.size, mode)
  BY DEF OpenExisting
<1>3. PICK e \in Lookup(d, path[Len(path)]) : TakeHandle(e.first, e.size, mode)
  BY <1>2
<1>4. PICK p \in Files : dirent[p] = e /\ e \in Dirents
  BY LookupFindsFile DEF IInv
<1>5. e.first \in Entries \cup {FREE} /\ e.size \in Nat
  BY <1>4 DEF Dirents
<1>6. /\ open_files' \in [Handles -> FileRecords \cup {UNUSED}]
      /\ \A c : Held(c)' => Held(c) \/ c = e.first
  BY <1>3, <1>5, TakeHandleFiles, ZenonT(60)
<1>7. \A c : Held(c)' => Named(c)
  BY <1>4, <1>6 DEF Named, Referenced
<1>8. CallOK' /\ Alone' /\ Growing'
  BY <1>1 DEF CallOK, Alone, Growing, Holding
<1>9. \A c \in Entries : Held(c)' => fat[c] # FREE
  BY <1>7, ZenonT(60) DEF IInv, Marked
<1>10. QED
  BY <1>1, <1>6, <1>8, <1>9, NoMishap, FilesStep, ZenonT(60)

LEMMA CloseStep ==
  ASSUME IInv, Sound, NEW h \in Handles, Close(h)
  PROVE  IInv'
<1>1. /\ UNCHANGED <<fat, dirent, pc, call>> /\ pc = "idle"
      /\ open_files' = [open_files EXCEPT ![h] = UNUSED]
      /\ Mishap("lost") \/ UNCHANGED history
  BY DEF Close, disk
<1>2. Sound' <=> Sound
  BY <1>1, MishapIsCalm, NoMishap, ZenonT(60)
<1>3. /\ open_files' \in [Handles -> FileRecords \cup {UNUSED}]
      /\ \A c : Held(c)' => Held(c)
  BY <1>1, ZenonT(60) DEF IInv, TypeOK, Held
<1>4. CallOK' /\ Alone' /\ Growing'
  BY <1>1 DEF CallOK, Alone, Growing, Holding
<1>5. \A c \in Entries : Held(c)' => fat[c] # FREE
  BY <1>3, ZenonT(60) DEF IInv, Marked, Named
<1>6. QED
  BY <1>1, <1>2, <1>3, <1>4, <1>5, FilesStep

LEMMA SeekStep ==
  ASSUME IInv, Sound, NEW h \in Handles, NEW n \in Lengths, Seek(h, n)
  PROVE  IInv'
<1> DEFINE f == [open_files[h] EXCEPT !.curr = open_files[h].first, !.offset = 0, !.pos = 0]
<1>1. UNCHANGED <<fat, dirent>> /\ UNCHANGED history /\ pc = "idle" /\ open_files[h] # UNUSED
      /\ open_files' = [open_files EXCEPT ![h] = f]
  BY DEF Seek, disk
<1>2. open_files[h] \in FileRecords
  BY <1>1, FileTypes
<1>3. f \in FileRecords /\ f.first = open_files[h].first /\ f.curr = open_files[h].first
      /\ f.size = open_files[h].size
  BY <1>2, ZenonT(60) DEF FileRecords
<1>4. \/ pc' = "idle"
      \/ /\ pc' = "read"
         /\ call' = [op |-> "seek", loop |-> "read", h |-> h, left |-> Lesser(n, f.size)]
  BY <1>1 DEF Seek
<1> HIDE DEF f
<1>5. Lesser(n, f.size) \in Int
  BY <1>3, Fat32Assumption DEF FileRecords, Lesser
<1>6. /\ open_files' \in [Handles -> FileRecords \cup {UNUSED}]
      /\ open_files'[h] # UNUSED
      /\ \A c : Held(c)' => Held(c)
  <2>1. f # UNUSED
    BY <1>3 DEF FileRecords, UNUSED, Modes
  <2>2. QED
    BY <1>1, <1>3, <2>1 DEF IInv, TypeOK, Held
<1>7. pc' = "read" => call' \in ReadCalls /\ call'.h = h
  BY <1>4, <1>5 DEF ReadCalls
<1>8. CallOK' /\ Alone' /\ Growing'
  BY <1>4, <1>6, <1>7, ZenonT(60) DEF CallOK, Alone, Growing, Holding
<1>9. \A c \in Entries : Held(c)' => fat[c] # FREE
  BY <1>6 DEF IInv, Marked, Named
<1>10. QED
  BY <1>1, <1>6, <1>8, <1>9, NoMishap, FilesStep

\* The loops of read and write go on with the same file, or return.
LEMMA LoopGoesOn ==
  ASSUME NEW left \in Int, Loop(left), open_files'[call.h] # UNUSED
  PROVE  /\ call \in ReadCalls => \/ pc' = "idle"
                                  \/ /\ pc' = "read" /\ call' \in ReadCalls
                                     /\ open_files'[call'.h] # UNUSED
         /\ call \in WriteCalls => \/ pc' = "idle"
                                   \/ pc' = "write" /\ Writing'
<1>1. CASE left = 0
  BY <1>1, ZenonT(60) DEF Loop, Return
<1>2. CASE left # 0
  <2>1. call' = [call EXCEPT !.left = left] /\ pc' = call.loop
    BY <1>2 DEF Loop
  <2>2. call \in ReadCalls => call' \in ReadCalls /\ call'.h = call.h /\ pc' = "read"
    BY <2>1 DEF ReadCalls
  <2>3. call \in WriteCalls => call' \in WriteCalls /\ call'.h = call.h /\ pc' = "write"
    BY <2>1, ZenonT(60) DEF WriteCalls
  <2>4. QED
    BY <2>2, <2>3 DEF Writing
<1>3. QED
  BY <1>1, <1>2

\* The file of the call in progress is replaced.
LEMMA UpdatedFiles ==
  ASSUME IInv, call.h \in Handles, NEW file \in FileRecords, Update(file)
  PROVE  /\ open_files' \in [Handles -> FileRecords \cup {UNUSED}]
         /\ open_files'[call.h] # UNUSED
         /\ \A c : Held(c)' => Held(c) \/ c = file.first \/ c = file.curr
<1>1. file # UNUSED
  BY DEF FileRecords, UNUSED, Modes
<1>2. QED
  BY <1>1 DEF Update, IInv, TypeOK, Held

LEMMA HeldFile ==
  ASSUME call.h \in Handles, File # UNUSED
  PROVE  Held(File.first) /\ Held(File.curr)
  BY DEF Held, File

LEMMA ReadSectorStep ==
  ASSUME IInv, ReadSector
  PROVE  IInv'
<1>1. UNCHANGED <<fat, dirent>> /\ pc = "read"
  BY DEF ReadSector, disk
<1>2. call \in ReadCalls /\ call.h \in Handles /\ File # UNUSED /\ call.left \in Int
  BY <1>1 DEF IInv, CallOK, ReadCalls, File
<1>3. File \in FileRecords
  BY <1>2, FileTypes DEF File
<1> DEFINE leaves == File.offset + 1 >= B
           moved(next) == [File EXCEPT !.pos = @ + 1,
                                       !.offset = IF leaves THEN 0 ELSE @ + 1,
                                       !.curr = IF leaves THEN next ELSE @]
<1>4. PICK next \in {fat32_next_cluster(File.curr), EOC} :
        /\ Update(moved(next))
        /\ Return \/ Loop(call.left - 1)
        /\ UNCHANGED history \/ Fault
  <2>1. PICK next \in {fat32_next_cluster(File.curr), EOC} :
          /\ Update(moved(next))
          /\ IF leaves /\ next = EOC /\ call.op = "read" THEN Return ELSE Loop(call.left - 1)
          /\ IF next = fat32_next_cluster(File.curr) THEN UNCHANGED history ELSE Fault
    BY ZenonT(60) DEF ReadSector
  <2>2. QED
    BY <2>1, ZenonT(60)
<1>5. next \in Entries \cup {FREE, EOC} /\ (next \in Entries => Referenced(next))
  BY Constants, ZenonT(60) DEF fat32_next_cluster, Follow, IInv, TypeOK, Referenced
<1>6. moved(next) \in FileRecords /\ moved(next).first = File.first
      /\ moved(next).curr \in {File.curr, next}
  <2>1. File.pos + 1 \in Nat /\ (IF leaves THEN 0 ELSE File.offset + 1) \in Nat
        /\ (IF leaves THEN next ELSE File.curr) \in Entries \cup {FREE, EOC}
    BY <1>3, <1>5 DEF FileRecords
  <2>2. QED
    BY <1>3, <2>1, ZenonT(60) DEF FileRecords
<1> HIDE DEF moved
<1>7. /\ open_files' \in [Handles -> FileRecords \cup {UNUSED}]
      /\ open_files'[call.h] # UNUSED
      /\ \A c : Held(c)' => Held(c) \/ c = next
  BY <1>2, <1>4, <1>6, UpdatedFiles, HeldFile, ZenonT(60)
<1>8. pc' = "idle" \/ (pc' = "read" /\ call' \in ReadCalls /\ open_files'[call'.h] # UNUSED)
  <2>1. call.left - 1 \in Int
    BY <1>2, SMTT(60)
  <2>2. QED
    BY <1>2, <1>4, <1>7, <2>1, LoopGoesOn, ZenonT(60) DEF Return
<1>9. CallOK' /\ Alone' /\ Growing'
  BY <1>8, ZenonT(60) DEF CallOK, Alone, Growing, Holding
<1>10. Sound' <=> Sound
  BY <1>4, FaultIsCalm, NoMishap
<1>11. Sound
  BY <1>1, StillSound, ZenonT(60)
<1>12. \A c \in Entries : Held(c)' => fat[c] # FREE
  BY <1>5, <1>7, <1>11, ZenonT(60) DEF IInv, Marked, Named
<1>13. QED
  BY <1>1, <1>7, <1>9, <1>10, <1>11, <1>12, FilesStep, ZenonT(60)

LEMMA OwnClusterStep ==
  ASSUME IInv, OwnCluster
  PROVE  IInv'
<1> DEFINE file == [File EXCEPT !.first = call.new, !.curr = call.new, !.offset = 0]
<1>1. /\ UNCHANGED <<fat, dirent>> /\ UNCHANGED history
      /\ pc = "own" /\ pc' = "write" /\ call' = call
      /\ Update(file)
  BY DEF OwnCluster, disk, Goto
<1>2. Writing /\ call \in WriteCalls /\ call.h \in Handles /\ File # UNUSED /\ call.new \in Entries
  BY <1>1 DEF IInv, CallOK, Writing, WriteCalls, File
<1>3. File \in FileRecords
  BY <1>2, FileTypes DEF File
<1>4. file \in FileRecords /\ file.first = call.new /\ file.curr = call.new
  BY <1>2, <1>3, ZenonT(60) DEF FileRecords
<1> HIDE DEF file
<1>5. /\ open_files' \in [Handles -> FileRecords \cup {UNUSED}]
      /\ open_files'[call.h] # UNUSED
      /\ \A c : Held(c)' => Held(c) \/ c = call.new
  BY <1>1, <1>2, <1>4, UpdatedFiles
<1>6. CallOK' /\ Alone' /\ Growing'
  BY <1>1, <1>2, <1>5 DEF CallOK, Alone, Growing, Holding, Writing
<1>7. Sound
  BY <1>1, StillSound, ZenonT(60)
<1>8. \A c \in Entries : Held(c)' => fat[c] # FREE
  BY <1>1, <1>5, <1>7, Constants, ZenonT(60) DEF IInv, Marked, Named, Alone, Holding
<1>9. QED
  BY <1>1, <1>5, <1>6, <1>7, <1>8, NoMishap, FilesStep

LEMMA AdvanceStep ==
  ASSUME IInv, Advance
  PROVE  IInv'
<1> DEFINE file == [File EXCEPT !.curr = fat[File.curr], !.offset = 0]
<1>1. /\ UNCHANGED <<fat, dirent>> /\ UNCHANGED history
      /\ pc = "advance" /\ Update(file) /\ Loop(call.left)
  BY DEF Advance, disk
<1>2. call \in WriteCalls /\ call.h \in Handles /\ File # UNUSED /\ call.left \in Int
  BY <1>1 DEF IInv, CallOK, Writing, WriteCalls, File
<1>3. File \in FileRecords
  BY <1>2, FileTypes DEF File
<1>4. File.curr \in Entries
  BY <1>1, ZenonT(60) DEF IInv, Growing
<1>5. fat[File.curr] \in Entries \cup {FREE, EOC} /\ Referenced(fat[File.curr])
  BY <1>4 DEF IInv, TypeOK, Referenced
<1>6. file \in FileRecords /\ file.first = File.first /\ file.curr = fat[File.curr]
  BY <1>3, <1>5, ZenonT(60) DEF FileRecords
<1> HIDE DEF file
<1>7. /\ open_files' \in [Handles -> FileRecords \cup {UNUSED}]
      /\ open_files'[call.h] # UNUSED
      /\ \A c : Held(c)' => Held(c) \/ c = fat[File.curr]
  BY <1>1, <1>2, <1>6, UpdatedFiles, HeldFile
<1>8. pc' = "idle" \/ (pc' = "write" /\ Writing')
  BY <1>1, <1>2, <1>7, LoopGoesOn
<1>9. CallOK' /\ Alone' /\ Growing'
  BY <1>8, ZenonT(60) DEF CallOK, Alone, Growing, Holding
<1>10. Sound
  BY <1>1, StillSound, ZenonT(60)
<1>11. \A c \in Entries : Held(c)' => fat[c] # FREE
  BY <1>5, <1>7, <1>10 DEF IInv, Marked, Named
<1>12. QED
  BY <1>1, <1>7, <1>9, <1>10, <1>11, NoMishap, FilesStep, ZenonT(60)

\* A write that stays in the cluster of its file.
LEMMA WriteSectorStep ==
  ASSUME IInv, WriteSector, Calm'
  PROVE  IInv'
<1> DEFINE file == [File EXCEPT !.pos = @ + 1, !.offset = @ + 1,
                                !.size = IF File.pos + 1 > @ THEN File.pos + 1 ELSE @]
<1>1. /\ UNCHANGED fat /\ pc = "write" /\ Target \in Clusters
      /\ Update(file)
      /\ IF File.offset + 1 >= B
         THEN pc' = "advance" /\ call' = [call EXCEPT !.left = @ - 1]
         ELSE Loop(call.left - 1)
      /\ IF Target = File.curr THEN UNCHANGED <<dirent, history>> ELSE Mishap("overrun")
  BY DEF WriteSector
<1>2. Target = File.curr /\ UNCHANGED dirent /\ UNCHANGED history
  BY <1>1, OverrunIsNotCalm
<1>3. call \in WriteCalls /\ call.h \in Handles /\ File # UNUSED /\ call.left - 1 \in Int
  BY <1>1 DEF IInv, CallOK, Writing, WriteCalls, File
<1>4. File \in FileRecords
  BY <1>3, FileTypes DEF File
<1>5. file \in FileRecords /\ file.first = File.first /\ file.curr = File.curr
  <2>1. File.pos + 1 \in Nat /\ File.offset + 1 \in Nat
        /\ (IF File.pos + 1 > File.size THEN File.pos + 1 ELSE File.size) \in Nat
    BY <1>4 DEF FileRecords
  <2>2. QED
    BY <1>4, <2>1, ZenonT(60) DEF FileRecords
<1> HIDE DEF file
<1>6. /\ open_files' \in [Handles -> FileRecords \cup {UNUSED}]
      /\ open_files'[call.h] # UNUSED
      /\ open_files'[call.h].curr = File.curr
      /\ \A c : Held(c)' => Held(c)
  <2>1. open_files'[call.h] = file
    BY <1>1, <1>3 DEF Update, IInv, TypeOK
  <2>2. QED
    BY <1>1, <1>3, <1>5, <2>1, UpdatedFiles, HeldFile
<1>7. CASE File.offset + 1 >= B
  <2>1. pc' = "advance" /\ call' = [call EXCEPT !.left = call.left - 1]
    BY <1>1, <1>7
  <2>2. call' \in WriteCalls /\ call'.h = call.h
    BY <1>3, <2>1 DEF WriteCalls
  <2>3. CallOK' /\ Alone'
    BY <1>6, <2>1, <2>2 DEF CallOK, Alone, Holding, Writing
  <2>4. Growing'
    BY <1>1, <1>2, <1>6, <2>1, <2>2, Constants, ZenonT(60) DEF Growing, File
  <2>5. QED
    BY <2>3, <2>4, <1>1, <1>2, <1>6, StillSound, NoMishap, FilesStep, ZenonT(60) DEF IInv, Marked, Named
<1>8. CASE ~ (File.offset + 1 >= B)
  <2>1. pc' = "idle" \/ (pc' = "write" /\ Writing')
    BY <1>1, <1>3, <1>6, <1>8, LoopGoesOn, ZenonT(60)
  <2>2. CallOK' /\ Alone' /\ Growing'
    BY <2>1, ZenonT(60) DEF CallOK, Alone, Growing, Holding
  <2>3. QED
    BY <2>2, <1>1, <1>2, <1>6, StillSound, NoMishap, FilesStep, ZenonT(60) DEF IInv, Marked, Named
<1>9. QED
  BY <1>7, <1>8

\* After a restart no file is open and no call in progress.
LEMMA RestartStep ==
  ASSUME IInv, Restart
  PROVE  IInv'
<1>1. /\ UNCHANGED <<fat, dirent>> /\ pc' = "idle"
      /\ open_files' = [h \in Handles |-> UNUSED]
      /\ UNCHANGED history \/ Mishap("lost")
  BY DEF Restart, Return, disk
<1>2. Sound' <=> Sound
  BY <1>1, MishapIsCalm, NoMishap, ZenonT(60)
<1>3. \A c : (Referenced(c)' <=> Referenced(c)) /\ ~ Held(c)'
  BY <1>1 DEF Referenced, Files, Held
<1>4. TypeOK'
  BY <1>1, ZenonT(60) DEF IInv, TypeOK
<1>5. CallOK' /\ Alone' /\ Growing'
  BY <1>1, ZenonT(60) DEF CallOK, Alone, Growing, Holding
<1>6. Unique'
  BY <1>1, <1>3, ZenonT(60) DEF IInv, Unique, Files
<1>7. Marked'
  BY <1>1, <1>2, <1>3, ZenonT(60) DEF IInv, Marked, Named
<1>8. QED
  BY <1>4, <1>5, <1>6, <1>7 DEF IInv

-----------------------------------------------------------------------------
(* Steps that write the FAT *)

\* Marking a free entry, or freeing the end of a chain, changes no reference.
LEMMA EndWritten ==
  ASSUME IInv, NEW c \in Entries, fat[c] \in {FREE, EOC}, NEW v \in {FREE, EOC},
         fat' = [fat EXCEPT ![c] = v], UNCHANGED <<dirent, open_files>>
  PROVE  /\ TypeOK' /\ Unique'
         /\ \A d \in Entries : Named(d)' <=> Named(d)
         /\ \A d \in Entries : d # c => fat'[d] = fat[d]
         /\ fat'[c] = v
<1>1. /\ \A d \in Entries : d # c => fat'[d] = fat[d]
      /\ fat'[c] = v
      /\ fat' \in [Entries -> Entries \cup {FREE, EOC}]
  BY DEF IInv, TypeOK
<1>2. TypeOK'
  BY <1>1, ZenonT(60) DEF IInv, TypeOK
<1>3. v \notin Entries /\ fat[c] \notin Entries
  BY Constants, ZenonT(60)
<1>4. \A d \in Entries : Referenced(d)' <=> Referenced(d)
  BY <1>1, <1>3, ZenonT(60) DEF Referenced, Files
<1>5. Unique'
  <2>1. ~ Referenced(Root)'
    BY <1>4, Constants, ZenonT(60) DEF IInv, Unique
  <2>2. \A a \in Entries : fat'[a] \in Entries => fat'[a] = fat[a]
    BY <1>1, <1>3, ZenonT(60)
  <2>3. \A a, b \in Entries : fat'[a] = fat'[b] /\ fat'[a] \in Entries => a = b
    BY <2>2, ZenonT(60) DEF IInv, Unique
  <2>4. QED
    BY <2>1, <2>2, <2>3, SMTT(60) DEF IInv, Unique, Files
<1>6. \A d : Held(d)' <=> Held(d)
  BY DEF Held
<1>7. QED
  BY <1>1, <1>2, <1>4, <1>5, <1>6, ZenonT(60) DEF Named

LEMMA AllocateStep ==
  ASSUME IInv, Allocate
  PROVE  IInv'
<1>1. PICK c \in Entries :
        /\ pc = "alloc" /\ fat[c] = FREE /\ UNCHANGED <<dirent, open_files>>
        /\ \/ /\ fat' = [fat EXCEPT ![c] = EOC] /\ UNCHANGED history
              /\ pc' = call.then /\ call' = [call EXCEPT !.new = c]
           \/ UNCHANGED fat /\ Return /\ Fault
           \/ fat' = [fat EXCEPT ![c] = EOC] /\ Return /\ TornFault
  BY FirstFree DEF Allocate, WriteFat
<1>2. Sound /\ ~ Named(c) /\ c # Root
  BY <1>1, StillSound DEF IInv, Marked
<1>3. ASSUME fat' = [fat EXCEPT ![c] = EOC]
      PROVE  /\ TypeOK' /\ Unique' /\ fat'[c] = EOC /\ fat'[Root] # FREE
             /\ \A d \in Entries : Named(d)' => fat'[d] # FREE
             /\ ~ Named(c)'
  <2>1. /\ TypeOK' /\ Unique'
        /\ \A d \in Entries : Named(d)' <=> Named(d)
        /\ \A d \in Entries : d # c => fat'[d] = fat[d]
        /\ fat'[c] = EOC
    BY <1>1, <1>3, EndWritten, ZenonT(60)
  <2>2. QED
    BY <1>1, <1>2, <2>1, Constants DEF IInv, Marked
<1>4. CASE /\ fat' = [fat EXCEPT ![c] = EOC] /\ UNCHANGED history
           /\ pc' = call.then /\ call' = [call EXCEPT !.new = c]
  <2>1. Sound'
    BY <1>2, <1>4, NoMishap
  <2>2. Marked'
    BY <1>3, <1>4, <2>1 DEF Marked
  <2>3. CASE Creating
    <3>1. Creating' /\ call'.new = c /\ pc' \in {"slot", "clear"}
      BY <1>4, <2>3 DEF Creating
    <3>2. CallOK'
      BY <1>1, <3>1 DEF CallOK
    <3>3. Alone' /\ Growing'
      BY <1>2, <1>3, <1>4, <3>1 DEF Alone, Growing
    <3>4. QED
      BY <1>3, <1>4, <2>2, <3>2, <3>3 DEF IInv
  <2>4. CASE Writing
    <3>1. Writing' /\ call'.new = c /\ call'.h = call.h /\ call'.then = call.then
          /\ pc' = call.then /\ call.then \in {"own", "link"}
      BY <1>1, <1>4, <2>4 DEF Writing, WriteCalls
    <3>2. CallOK'
      BY <1>1, <3>1 DEF CallOK
    <3>3. Alone'
      BY <1>2, <1>3, <1>4, <3>1 DEF Alone
    <3>4. Growing'
      <4>1. File' = File
        BY <1>1, <3>1 DEF File
      <4>2. call.then = "link" => File.curr \in Entries /\ (Faultless => fat[File.curr] = EOC)
        BY <1>1 DEF IInv, Growing
      <4>3. \A d \in Entries : fat[d] = EOC => fat'[d] = EOC
        BY <1>1, <1>4, EndWritten
      <4>4. QED
        BY <1>4, <3>1, <4>1, <4>2, <4>3, NoMishap, ZenonT(60) DEF Growing
    <3>5. QED
      BY <1>3, <1>4, <2>2, <3>2, <3>3, <3>4 DEF IInv
  <2>5. QED
    BY <1>1, <2>3, <2>4 DEF IInv, CallOK
<1>5. CASE UNCHANGED fat /\ Return /\ Fault
  BY <1>1, <1>5, FaultIsCalm, ReturnStep, ZenonT(60)
<1>6. CASE fat' = [fat EXCEPT ![c] = EOC] /\ Return /\ TornFault
  <2>1. pc' = "idle"
    BY <1>6 DEF Return
  <2>2. Marked'
    BY <1>3, <1>6, <2>1, ZenonT(60) DEF Marked
  <2>3. CallOK' /\ Alone' /\ Growing'
    BY <2>1, ZenonT(60) DEF CallOK, Alone, Growing, Holding
  <2>4. QED
    BY <1>3, <1>6, <2>2, <2>3, ZenonT(60) DEF IInv
<1>7. QED
  BY <1>1, <1>4, <1>5, <1>6

\* Giving back the cluster of a call: at most that one may still be named.
LEMMA UndoStep ==
  ASSUME IInv, Undo
  PROVE  IInv'
<1>1. /\ pc = "undo" /\ pc' = "idle" /\ UNCHANGED <<dirent, open_files>>
      /\ fat' = [fat EXCEPT ![call.new] = FREE] \/ UNCHANGED fat
      /\ UNCHANGED history \/ Fault \/ TornFault
  BY ZenonT(60) DEF Undo, WriteFat, Return
<1>2. /\ call.new \in Entries /\ call.new # Root /\ fat[call.new] = EOC
      /\ Sound => ~ Named(call.new)
      /\ \A d \in Entries : Named(d) => fat[d] # FREE
  BY <1>1, ZenonT(60) DEF IInv, CallOK, Alone, Holding, Marked
<1>3. /\ TypeOK' /\ Unique'
      /\ \A d \in Entries : Named(d)' <=> Named(d)
      /\ \A d \in Entries : d # call.new => fat'[d] = fat[d]
  <2>1. CASE fat' = [fat EXCEPT ![call.new] = FREE]
    BY <1>1, <1>2, <2>1, EndWritten, ZenonT(60)
  <2>2. CASE UNCHANGED fat
    BY <1>1, <2>2, SameNames DEF IInv
  <2>3. QED
    BY <1>1, <2>1, <2>2
<1>4. Sound' => Sound
  BY <1>1, FaultIsCalm, TornFaultIsCalm, NoMishap
<1>5. \A d \in Entries : Named(d)' /\ fat'[d] = FREE => d = call.new
  BY <1>2, <1>3
<1>6. fat'[Root] # FREE
  BY <1>2, <1>3, Constants, ZenonT(60) DEF IInv, Marked
<1>7. Marked'
  BY <1>1, <1>2, <1>3, <1>4, <1>5, <1>6, ZenonT(60) DEF Marked
<1>8. CallOK' /\ Alone' /\ Growing'
  BY <1>1, ZenonT(60) DEF CallOK, Alone, Growing, Holding
<1>9. QED
  BY <1>3, <1>7, <1>8 DEF IInv

\* A reference to the cluster of a call is the only one it has.
LEMMA LinkWritten ==
  ASSUME IInv, Sound, pc = "link", UNCHANGED dirent,
         fat' = [fat EXCEPT ![File.curr] = call.new]
  PROVE  /\ fat' \in [Entries -> Entries \cup {FREE, EOC}] /\ Unique'
         /\ \A d \in Entries : Referenced(d)' => Referenced(d) \/ d = call.new
         /\ \A d \in Entries : fat'[d] = FREE => fat[d] = FREE
         /\ fat'[call.new] = EOC
<1>1. /\ call.new \in Entries /\ call.new # Root /\ fat[call.new] = EOC /\ ~ Named(call.new)
      /\ File.curr \in Entries
  BY DEF IInv, CallOK, Alone, Holding, Growing
<1>2. call.h \in Handles /\ File # UNUSED
  BY ZenonT(60) DEF IInv, CallOK, Writing, WriteCalls, File
<1>3. File.curr # call.new
  BY <1>1, <1>2, HeldFile, ZenonT(60) DEF Named
<1>4. PICK n \in Entries, k \in Entries : n = call.new /\ k = File.curr
  BY <1>1, ZenonT(60)
<1>5. fat' = [fat EXCEPT ![k] = n] /\ n # Root /\ fat[n] = EOC /\ ~ Referenced(n) /\ k # n
  BY <1>1, <1>3, <1>4 DEF Named
<1>6. /\ fat' \in [Entries -> Entries \cup {FREE, EOC}]
      /\ \A d \in Entries : d # k => fat'[d] = fat[d]
      /\ fat'[k] = n
  BY <1>5, ZenonT(60) DEF IInv, TypeOK
<1>7. \A d : Referenced(d)' => Referenced(d) \/ d = n
  BY <1>6 DEF Referenced, Files
<1>8. Unique'
  <2>1. ~ Referenced(Root)'
    BY <1>5, <1>7, ZenonT(60) DEF IInv, Unique
  <2>2. \A a, b \in Entries : fat'[a] = fat'[b] /\ fat'[a] \in Entries => a = b
    BY <1>5, <1>6, ZenonT(60) DEF IInv, Unique, Referenced
  <2>3. \A a \in Entries, p \in Files : fat'[a] \in Entries => fat'[a] # dirent[p].first
    BY <1>5, <1>6 DEF IInv, Unique, Referenced
  <2>4. QED
    BY <2>1, <2>2, <2>3 DEF IInv, Unique, Files
<1>9. QED
  BY <1>4, <1>5, <1>6, <1>7, <1>8, Constants, ZenonT(60)

LEMMA LinkStep ==
  ASSUME IInv, Link
  PROVE  IInv'
<1> DEFINE file == [File EXCEPT !.curr = call.new, !.offset = 0]
<1>1. /\ pc = "link" /\ UNCHANGED dirent
      /\ \/ /\ fat' = [fat EXCEPT ![File.curr] = call.new]
            /\ Loop(call.left) /\ Update(file) /\ UNCHANGED history
         \/ UNCHANGED fat /\ Goto("undo") /\ UNCHANGED open_files /\ Fault
         \/ /\ fat' = [fat EXCEPT ![File.curr] = call.new]
            /\ Goto("undo") /\ UNCHANGED open_files /\ TornFault
  BY DEF Link, WriteFat
<1>2. Sound
  BY <1>1, StillSound, ZenonT(60)
<1>3. /\ call \in WriteCalls /\ call.h \in Handles /\ File # UNUSED /\ call.left \in Int
      /\ Writing /\ call.new \in Entries /\ call.new # Root /\ ~ Named(call.new)
      /\ fat[call.new] = EOC
  BY <1>1, <1>2 DEF IInv, CallOK, Writing, WriteCalls, File, Alone, Holding
<1>4. ASSUME fat' = [fat EXCEPT ![File.curr] = call.new]
      PROVE  /\ fat' \in [Entries -> Entries \cup {FREE, EOC}] /\ Unique'
             /\ \A d \in Entries : Referenced(d)' => Referenced(d) \/ d = call.new
             /\ \A d \in Entries : fat'[d] = FREE => fat[d] = FREE
             /\ fat'[call.new] = EOC
  BY <1>1, <1>2, <1>4, LinkWritten, ZenonT(60)
<1>5. ASSUME fat' = [fat EXCEPT ![File.curr] = call.new],
             \A d : Held(d)' => Held(d) \/ d = call.new
      PROVE  fat'[Root] # FREE /\ \A d \in Entries : Named(d)' => fat'[d] # FREE
  BY <1>2, <1>3, <1>4, <1>5, Constants, ZenonT(60) DEF IInv, Marked, Named
<1>6. CASE /\ fat' = [fat EXCEPT ![File.curr] = call.new]
           /\ Loop(call.left) /\ Update(file) /\ UNCHANGED history
  <2>1. File \in FileRecords
    BY <1>3, FileTypes DEF File
  <2>2. file \in FileRecords /\ file.first = File.first /\ file.curr = call.new
    BY <1>3, <2>1, ZenonT(60) DEF FileRecords
  <2> HIDE DEF file
  <2>3. /\ open_files' \in [Handles -> FileRecords \cup {UNUSED}]
        /\ open_files'[call.h] # UNUSED
        /\ \A c : Held(c)' => Held(c) \/ c = call.new
    BY <1>3, <1>6, <2>2, UpdatedFiles, HeldFile, ZenonT(60)
  <2>4. pc' = "idle" \/ (pc' = "write" /\ Writing')
    BY <1>3, <1>6, <2>3, LoopGoesOn, ZenonT(60)
  <2>5. CallOK' /\ Alone' /\ Growing'
    BY <2>4, ZenonT(60) DEF CallOK, Alone, Growing, Holding
  <2>6. TypeOK'
    BY <1>1, <1>4, <1>6, <2>3, ZenonT(60) DEF IInv, TypeOK
  <2>7. Sound'
    BY <1>2, <1>6, NoMishap, ZenonT(60)
  <2>8. Marked'
    BY <1>5, <1>6, <2>3, <2>7 DEF Marked
  <2>9. QED
    BY <1>4, <1>6, <2>5, <2>6, <2>8, ZenonT(60) DEF IInv
<1>7. CASE UNCHANGED fat /\ Goto("undo") /\ UNCHANGED open_files /\ Fault
  <2>1. pc' = "undo" /\ call' = call
    BY <1>7, ZenonT(60) DEF Goto
  <2>2. CallOK'
    BY <1>3, <1>7, <2>1 DEF CallOK, Writing
  <2>3. \A d : Named(d)' <=> Named(d)
    BY <1>1, <1>7, SameNames, ZenonT(60)
  <2>4. Alone' /\ Growing'
    BY <1>3, <1>7, <2>1, <2>3, ZenonT(60) DEF Alone, Growing
  <2>5. QED
    BY <1>1, <1>2, <1>7, <2>2, <2>4, FaultIsCalm, QuietStep, ZenonT(60)
<1>8. CASE /\ fat' = [fat EXCEPT ![File.curr] = call.new]
           /\ Goto("undo") /\ UNCHANGED open_files /\ TornFault
  <2>1. pc' = "undo" /\ call' = call /\ ~ Sound'
    BY <1>8, TornFaultIsCalm, ZenonT(60) DEF Goto
  <2>2. CallOK'
    BY <1>3, <1>8, <2>1, ZenonT(60) DEF CallOK, Writing
  <2>3. Alone' /\ Growing'
    BY <1>3, <1>4, <1>8, <2>1, ZenonT(60) DEF Alone, Growing
  <2>4. \A d : Held(d)' <=> Held(d)
    BY <1>8, ZenonT(60) DEF Held
  <2>5. Marked'
    BY <1>5, <1>8, <2>1, <2>4 DEF Marked
  <2>6. TypeOK'
    BY <1>1, <1>4, <1>8 DEF IInv, TypeOK
  <2>7. QED
    BY <1>4, <1>8, <2>2, <2>3, <2>5, <2>6, ZenonT(60) DEF IInv
<1>9. QED
  BY <1>1, <1>6, <1>7, <1>8, ZenonT(60)

-----------------------------------------------------------------------------
(* Steps that write directories *)

\* The cluster of a new directory is cleared.
LEMMA ClearDirectoryStep ==
  ASSUME IInv, ClearDirectory
  PROVE  IInv'
<1>1. /\ UNCHANGED <<fat, open_files>> /\ pc = "clear" /\ call' = call
      /\ \/ /\ dirent' = [p \in Places |->
                 IF p[1] # call.new THEN dirent[p] ELSE IF p[2] <= 2 THEN UNNAMED ELSE EMPTY]
            /\ pc' = "slot" /\ UNCHANGED history
         \/ UNCHANGED dirent /\ pc' = "undo" /\ (UNCHANGED history \/ Fault)
  BY DEF ClearDirectory, Goto
<1>2. Sound /\ (Sound' <=> Sound)
  BY <1>1, StillSound, FaultIsCalm, NoMishap, ZenonT(60)
<1>3. /\ Creating /\ call.new \in Entries /\ call.new # Root /\ ~ Named(call.new)
      /\ fat[call.new] = EOC
  BY <1>1, <1>2, ZenonT(60) DEF IInv, CallOK, Alone, Holding
<1>4. CallOK'
  BY <1>1, <1>3 DEF CallOK, Creating
<1>5. Growing'
  BY <1>1, ZenonT(60) DEF Growing
<1>6. /\ dirent' \in [Places -> Dirents \cup {EMPTY, DELETED, UNNAMED}]
      /\ \A p \in Places : dirent'[p] = dirent[p] \/ dirent'[p] \in {EMPTY, UNNAMED}
  BY <1>1, ZenonT(60) DEF IInv, TypeOK
<1>7. \A p \in Files' : p \in Files /\ dirent'[p] = dirent[p]
  BY <1>6 DEF Files, EMPTY, UNNAMED
<1>8. \A d : Named(d)' => Named(d)
  BY <1>1, <1>7, ZenonT(60) DEF Named, Referenced, Held
<1>9. TypeOK'
  BY <1>1, <1>6, ZenonT(60) DEF IInv, TypeOK
<1>10. Unique'
  BY <1>1, <1>7, <1>8 DEF IInv, Unique, Referenced
<1>11. Marked'
  BY <1>1, <1>2, <1>8, ZenonT(60) DEF IInv, Marked
<1>12. Alone'
  BY <1>1, <1>3, <1>8, ZenonT(60) DEF Alone
<1>13. QED
  BY <1>4, <1>5, <1>9, <1>10, <1>11, <1>12, ZenonT(60) DEF IInv

\* The new entry is the only reference to the cluster of its call.
LEMMA EntryWritten ==
  ASSUME IInv, Sound, pc = "slot", UNCHANGED fat, NEW q,
         dirent' = [dirent EXCEPT ![q] = NewEntry]
  PROVE  /\ dirent' \in [Places -> Dirents \cup {EMPTY, DELETED, UNNAMED}] /\ Unique'
         /\ \A d : Referenced(d)' => Referenced(d) \/ d = call.new
<1>1. Creating /\ call.new \in Entries /\ call.new # Root /\ ~ Referenced(call.new)
  BY DEF IInv, CallOK, Alone, Holding, Named
<1>2. PICK n \in Entries : n = call.new
  BY <1>1, ZenonT(60)
<1>3. NewEntry \in Dirents /\ NewEntry.first = n
  BY <1>1, <1>2 DEF NewEntry, Dirents, Creating
<1>4. /\ dirent' \in [Places -> Dirents \cup {EMPTY, DELETED, UNNAMED}]
      /\ \A p \in Places : p # q => dirent'[p] = dirent[p]
      /\ q \in Places => dirent'[q] = NewEntry
  BY <1>3, ZenonT(60) DEF IInv, TypeOK
<1>5. \A p \in Files' : \/ p \in Files /\ p # q /\ dirent'[p].first = dirent[p].first
                        \/ p = q /\ dirent'[p].first = n
  BY <1>3, <1>4 DEF Files
<1>6. \A d : Referenced(d)' => Referenced(d) \/ d = n
  BY <1>5 DEF Referenced
<1>7. Unique'
  <2>1. ~ Referenced(Root)'
    BY <1>1, <1>2, <1>6, ZenonT(60) DEF IInv, Unique
  <2>2. \A p \in Files : dirent[p].first # n
    BY <1>1, <1>2, ZenonT(60) DEF Referenced
  <2>3. \A a \in Entries : fat[a] # n
    BY <1>1, <1>2, ZenonT(60) DEF Referenced
  <2>4. \A p, r \in Files' : dirent'[p].first = dirent'[r].first /\ dirent'[p].first \in Entries => p = r
    BY <1>5, <2>2, SMTT(60) DEF IInv, Unique
  <2>5. \A a \in Entries, p \in Files' : fat[a] \in Entries => fat[a] # dirent'[p].first
    BY <1>5, <2>3 DEF IInv, Unique
  <2>6. QED
    BY <2>1, <2>4, <2>5, ZenonT(60) DEF IInv, Unique
<1>8. QED
  BY <1>2, <1>4, <1>6, <1>7, ZenonT(60)

LEMMA WriteEntryStep ==
  ASSUME IInv, WriteEntry
  PROVE  IInv'
<1>1. PICK q :
      /\ pc = "slot" /\ UNCHANGED fat
      /\ \/ /\ dirent' = [dirent EXCEPT ![q] = NewEntry]
            /\ IF call.op = "open" THEN TakeHandle(call.new, 0, call.mode)
               ELSE UNCHANGED open_files
            /\ Return /\ UNCHANGED history
         \/ Goto("undo") /\ Fault /\ UNCHANGED <<dirent, open_files>>
         \/ /\ dirent' = [dirent EXCEPT ![q] = NewEntry]
            /\ Goto("undo") /\ TornFault /\ UNCHANGED open_files
  BY DEF WriteEntry
<1>2. Sound
  BY <1>1, StillSound, ZenonT(60)
<1>3. /\ Creating /\ call.new \in Entries /\ call.new # Root /\ ~ Named(call.new)
      /\ fat[call.new] = EOC
  BY <1>1, <1>2 DEF IInv, CallOK, Alone, Holding
<1>4. ASSUME dirent' = [dirent EXCEPT ![q] = NewEntry]
      PROVE  /\ dirent' \in [Places -> Dirents \cup {EMPTY, DELETED, UNNAMED}] /\ Unique'
             /\ \A d : Referenced(d)' => Referenced(d) \/ d = call.new
  BY <1>1, <1>2, <1>4, EntryWritten, ZenonT(60)
<1>5. ASSUME dirent' = [dirent EXCEPT ![q] = NewEntry],
             \A d : Held(d)' => Held(d) \/ d = call.new
      PROVE  fat'[Root] # FREE /\ \A d \in Entries : Named(d)' => fat'[d] # FREE
  BY <1>1, <1>2, <1>3, <1>4, <1>5, Constants DEF IInv, Marked, Named
<1>6. CASE /\ dirent' = [dirent EXCEPT ![q] = NewEntry]
           /\ IF call.op = "open" THEN TakeHandle(call.new, 0, call.mode)
              ELSE UNCHANGED open_files
           /\ Return /\ UNCHANGED history
  <2>1. /\ open_files' \in [Handles -> FileRecords \cup {UNUSED}]
        /\ \A d : Held(d)' => Held(d) \/ d = call.new
    <3>1. CASE call.op = "open"
      BY <1>3, <1>6, <3>1, TakeHandleFiles, ZenonT(60) DEF Creating
    <3>2. CASE call.op # "open"
      BY <1>6, <3>2 DEF IInv, TypeOK, Held
    <3>3. QED
      BY <3>1, <3>2, ZenonT(60)
  <2>2. pc' = "idle"
    BY <1>6, ZenonT(60) DEF Return
  <2>3. CallOK' /\ Alone' /\ Growing'
    BY <2>2 DEF CallOK, Alone, Growing, Holding
  <2>4. Sound'
    BY <1>2, <1>6, NoMishap, ZenonT(60)
  <2>5. Marked'
    BY <1>5, <1>6, <2>1, <2>4, ZenonT(60) DEF Marked
  <2>6. TypeOK'
    BY <1>1, <1>4, <1>6, <2>1, ZenonT(60) DEF IInv, TypeOK
  <2>7. QED
    BY <1>4, <1>6, <2>3, <2>5, <2>6, ZenonT(60) DEF IInv
<1>7. CASE Goto("undo") /\ Fault /\ UNCHANGED <<dirent, open_files>>
  <2>1. pc' = "undo" /\ call' = call
    BY <1>7, ZenonT(60) DEF Goto
  <2>2. CallOK'
    BY <1>3, <2>1, ZenonT(60) DEF CallOK, Creating
  <2>3. \A d : Named(d)' <=> Named(d)
    BY <1>1, <1>7, SameNames, ZenonT(60)
  <2>4. Alone' /\ Growing'
    BY <1>1, <1>3, <2>1, <2>3, ZenonT(60) DEF Alone, Growing
  <2>5. QED
    BY <1>1, <1>2, <1>7, <2>2, <2>4, FaultIsCalm, QuietStep, ZenonT(60)
<1>8. CASE /\ dirent' = [dirent EXCEPT ![q] = NewEntry]
           /\ Goto("undo") /\ TornFault /\ UNCHANGED open_files
  <2>1. pc' = "undo" /\ call' = call /\ ~ Sound'
    BY <1>8, TornFaultIsCalm, ZenonT(60) DEF Goto
  <2>2. CallOK'
    BY <1>3, <2>1, ZenonT(60) DEF CallOK, Creating
  <2>3. Alone' /\ Growing'
    BY <1>1, <1>3, <2>1, ZenonT(60) DEF Alone, Growing
  <2>4. \A d : Held(d)' <=> Held(d)
    BY <1>8, ZenonT(60) DEF Held
  <2>5. Marked'
    BY <1>5, <1>8, <2>1, <2>4, ZenonT(60) DEF Marked
  <2>6. TypeOK'
    BY <1>1, <1>4, <1>8, ZenonT(60) DEF IInv, TypeOK
  <2>7. QED
    BY <1>4, <1>8, <2>2, <2>3, <2>5, <2>6, ZenonT(60) DEF IInv
<1>9. QED
  BY <1>1, <1>6, <1>7, <1>8, ZenonT(60)

-----------------------------------------------------------------------------
(* All steps *)

\* What has gone wrong stays on record, and the root is damaged before or never.
LEMMA OnRecord ==
  ASSUME [LsNext]_vars
  PROVE  /\ mishaps \subseteq mishaps'
         /\ "loop" \in mishaps' => "loop" \in mishaps
         /\ "torn" \in mishaps' => "torn" \in mishaps \/ "fault" \in mishaps'
<1> DEFINE Kept == /\ mishaps \subseteq mishaps'
                   /\ "loop" \in mishaps' => "loop" \in mishaps
                   /\ "torn" \in mishaps' => "torn" \in mishaps \/ "fault" \in mishaps'
<1> SUFFICES Kept
  OBVIOUS
<1>1. Fault \/ TornFault => Kept
  BY DEF Fault, TornFault
<1>2. /\ Mishap("full") \/ Mishap("lost") \/ Mishap("overrun") => Kept
      /\ UNCHANGED history => Kept
  BY SMTT(60) DEF Mishap, history
<1> HIDE DEF Kept
<1>3. CASE Call
  BY <1>1, <1>2, <1>3, ZenonT(60) DEF Call, OpenExisting, Create, Close, StartRead, StartWrite, Seek
<1>4. CASE ScanFault \/ DiskFull \/ ClearDirectory \/ WriteEntry \/ DirectoryFull
  BY <1>1, <1>2, <1>4 DEF ScanFault, DiskFull, ClearDirectory, WriteEntry, DirectoryFull
<1>5. CASE Allocate \/ Undo \/ Link
  BY <1>1, <1>2, <1>5 DEF Allocate, Undo, Link, WriteFat
<1>6. CASE ReadSector \/ ReadFails \/ WriteFails
  BY <1>1, <1>2, <1>6 DEF ReadSector, ReadFails, WriteFails
<1>7. CASE WriteFirst \/ OwnCluster \/ WriteSector \/ Advance \/ Extend
  BY <1>1, <1>2, <1>7, ZenonT(60) DEF WriteFirst, OwnCluster, WriteSector, Advance, Extend
<1>8. CASE Restart
  BY <1>1, <1>2, <1>8, SMTT(60) DEF Restart
<1>9. CASE Ls("flat") \/ Ls("recursive") \/ ListEntry \/ ListReturns \/ LsReturns
  BY <1>1, <1>2, <1>9, ZenonT(60) DEF Ls, ListEntry, ListReturns, LsReturns
<1>10. CASE UNCHANGED vars
  BY <1>1, <1>2, <1>10, ZenonT(60) DEF vars
<1>11. QED
  BY <1>3, <1>4, <1>5, <1>6, <1>7, <1>8, <1>9, <1>10, ZenonT(60) DEF LsNext, Next, Steps

LEMMA CalmBefore ==
  ASSUME [LsNext]_vars, Calm'
  PROVE  Calm
  BY OnRecord DEF Calm

LEMMA NextIInv ==
  ASSUME IInv, [LsNext]_vars, Calm'
  PROVE  IInv'
<1>1. ASSUME Sound, Call
      PROVE  IInv'
  <2>1. CASE \E p \in Paths, m \in Modes : OpenExisting(p, m)
    BY <1>1, <2>1, OpenExistingStep
  <2>2. CASE \E op \in {"open", "mkdir"}, p \in Paths, m \in Modes : Create(op, p, m)
    BY <1>1, <2>2, CreateStep
  <2>3. CASE \E h \in Handles : Close(h)
    BY <1>1, <2>3, CloseStep
  <2>4. CASE \E h \in Handles, n \in Lengths : StartRead(h, n)
    BY <1>1, <2>4, StartReadStep
  <2>5. CASE \E h \in Handles, n \in Lengths : StartWrite(h, n)
    BY <1>1, <2>5, StartWriteStep
  <2>6. CASE \E h \in Handles, n \in Lengths : Seek(h, n)
    BY <1>1, <2>6, SeekStep, ZenonT(60)
  <2>7. QED
    BY <1>1, <2>1, <2>2, <2>3, <2>4, <2>5, <2>6, ZenonT(60) DEF Call, Modes
<1>2. CASE Steps
  BY <1>2, ScanFaultStep, AllocateStep, DiskFullStep, UndoStep, ClearDirectoryStep,
     WriteEntryStep, DirectoryFullStep, ReadSectorStep, ReadFailsStep, WriteFirstStep,
     OwnClusterStep, WriteSectorStep, WriteFailsStep, AdvanceStep, ExtendStep, LinkStep, ZenonT(60)
     DEF Steps
<1>3. CASE Restart
  BY <1>3, RestartStep
<1>4. CASE Ls("flat") \/ Ls("recursive") \/ ListEntry \/ ListReturns \/ LsReturns
  BY <1>4, ListingStep, ZenonT(60)
<1>5. CASE UNCHANGED vars
  <2>1. UNCHANGED <<fat, dirent, open_files, pc, call>> /\ UNCHANGED history
    BY <1>5, ZenonT(60) DEF vars, disk
  <2>2. CallOK' /\ Growing'
    BY <2>1, NoMishap DEF IInv, CallOK, Creating, Writing, Growing, File
  <2>3. TypeOK' /\ Unique' /\ \A c : Named(c)' <=> Named(c)
    BY <2>1, SameNames, ZenonT(60) DEF IInv
  <2>4. Marked' /\ Alone'
    BY <2>1, <2>3, NoMishap DEF IInv, Marked, Alone, Holding
  <2>5. QED
    BY <2>2, <2>3, <2>4, ZenonT(60) DEF IInv
<1>6. QED
  BY <1>1, <1>2, <1>3, <1>4, <1>5, ZenonT(60) DEF LsNext, Next

\* The invariant holds as long as nothing has gone wrong that it does not allow
\* for.
LEMMA IInvHolds == LsSpec => [](Calm => IInv)
<1>1. Init => (Calm => IInv)
  BY InitIInv
<1>2. (Calm => IInv) /\ [LsNext]_vars => (Calm => IInv)'
  BY CalmBefore, NextIInv
<1>3. QED
  BY <1>1, <1>2, PTL DEF LsSpec

-----------------------------------------------------------------------------
(* What follows from it *)

\* No cluster ever belongs to two chains: the theorem for NoCrossLink, for every
\* disk, every set of paths and every sequence of calls, faults and restarts.
THEOREM ClustersNeverShared == LsSpec => []NoCrossLink
<1>1. ASSUME Calm => IInv
      PROVE  NoCrossLink
  <2> SUFFICES ASSUME Calm
               PROVE  /\ \A c \in Entries : \A x, y \in Refs(c) : x = y
                      /\ Refs(Root) = {}
                      /\ Sound => \A c \in Taken : Refs(c) = {}
    BY DEF NoCrossLink, Calm
  <2>1. IInv
    BY <1>1, ZenonT(60)
  <2>2. ASSUME NEW c \in Entries, NEW x \in Refs(c), NEW y \in Refs(c)
        PROVE  x = y
    BY <2>1, <2>2, ZenonT(60) DEF Refs, IInv, Unique
  <2>3. \A c : ~ Referenced(c) => Refs(c) = {}
    BY DEF Refs, Referenced
  <2>4. QED
    BY <2>1, <2>2, <2>3, ZenonT(60) DEF IInv, Unique, Alone, Holding, Named, Taken
<1>2. QED
  BY <1>1, IInvHolds, PTL

\* Nothing that is named is free: the theorem for NoDangling.  A cluster is
\* marked before anything refers to it and freed only when nothing does.
THEOREM NamedClustersAreTaken == LsSpec => []NoDangling
<1>1. ASSUME Calm => IInv
      PROVE  NoDangling
  <2> DEFINE named == {fat[e] : e \in Entries} \cup {dirent[p].first : p \in Files} \cup Taken
                        \cup {open_files[h].curr : h \in {i \in Handles : open_files[i] # UNUSED}}
             dangling == {c \in named \cap Entries : fat[c] = FREE}
  <2> SUFFICES ASSUME Calm
               PROVE  (Sound => dangling = {}) /\ \A c, d \in dangling : c = d
    BY DEF NoDangling, Calm
  <2>1. IInv
    BY <1>1, ZenonT(60)
  <2>2. \A c \in dangling : c \in Entries /\ Named(c) /\ fat[c] = FREE
    BY <2>1, Constants, ZenonT(60) DEF Named, Referenced, Held, Taken, IInv, Alone, Holding
  <2> HIDE DEF dangling
  <2>3. QED
    BY <2>1, <2>2, ZenonT(60) DEF IInv, Marked
<1>2. QED
  BY <1>1, IInvHolds, PTL

\* Three steps write the FAT.
LEMMA FatWriters ==
  ASSUME [LsNext]_vars, fat' # fat
  PROVE  Allocate \/ Undo \/ Link
<1>1. ~ Call
  BY ZenonT(60) DEF Call, OpenExisting, Create, Close, StartRead, StartWrite, Seek, disk
<1>2. ~ (ScanFault \/ DiskFull \/ ClearDirectory \/ WriteEntry \/ DirectoryFull)
  BY DEF ScanFault, DiskFull, ClearDirectory, WriteEntry, DirectoryFull, disk
<1>3. ~ (ReadSector \/ ReadFails \/ WriteFails)
  BY DEF ReadSector, ReadFails, WriteFails, disk
<1>4. ~ (WriteFirst \/ OwnCluster \/ WriteSector \/ Advance \/ Extend)
  BY DEF WriteFirst, OwnCluster, WriteSector, Advance, Extend, disk
<1>5. ~ (Restart \/ Ls("flat") \/ Ls("recursive") \/ ListEntry \/ ListReturns \/ LsReturns)
  BY ZenonT(60) DEF Restart, Ls, ListEntry, ListReturns, LsReturns, disk
<1>6. QED
  BY <1>1, <1>2, <1>3, <1>4, <1>5, ZenonT(60) DEF LsNext, Next, Steps, vars, disk

\* u has every link of t.
Grows(t, u) == \A c \in Entries : t[c] \in Entries => u[c] = t[c]

\* As long as every sector can be read a chain only grows at its end.
LEMMA LinksStay ==
  ASSUME IInv, [LsNext]_vars, Faultless', Sound
  PROVE  Grows(fat, fat')
<1> SUFFICES ASSUME fat' # fat
             PROVE  Grows(fat, fat')
  BY ZenonT(60) DEF Grows
<1>1. CASE Allocate
  <2>1. PICK c \in Entries : fat[c] = FREE /\ fat' = [fat EXCEPT ![c] = EOC]
    BY <1>1, FirstFree, ZenonT(60) DEF Allocate, WriteFat
  <2>2. QED
    BY <2>1, Constants, ZenonT(60) DEF IInv, TypeOK, Grows
<1>2. CASE Undo
  <2>1. fat[call.new] = EOC /\ fat' = [fat EXCEPT ![call.new] = FREE]
    BY <1>2, ZenonT(60) DEF Undo, WriteFat, IInv, Alone, Holding
  <2>2. QED
    BY <2>1, Constants, ZenonT(60) DEF IInv, TypeOK, Grows
<1>3. CASE Link
  <2>1. pc = "link" /\ fat' = [fat EXCEPT ![File.curr] = call.new]
        /\ (UNCHANGED history \/ TornFault)
    BY <1>3 DEF Link, WriteFat
  <2>2. Faultless
    BY <2>1, TornFaultIsCalm, NoMishap, ZenonT(60)
  <2>3. fat[File.curr] = EOC
    BY <2>1, <2>2 DEF IInv, Growing
  <2>4. QED
    BY <2>1, <2>3, Constants, ZenonT(60) DEF IInv, TypeOK, Grows
<1>4. QED
  BY <1>1, <1>2, <1>3, FatWriters, ZenonT(60)

\* As long as every sector can be read a chain only grows at its end: the theorem
\* for LinksStable.
THEOREM ChainsOnlyGrow == LsSpec => LinksStable
<1>1. ASSUME Calm => IInv, [LsNext]_vars
      PROVE  Faultless' /\ Sound => Grows(fat, fat')
  <2>1. Sound => Calm
    BY DEF Sound, Calm
  <2>2. QED
    BY <1>1, <2>1, LinksStay, ZenonT(60)
<1>2. LsSpec => [][Faultless' /\ Sound => Grows(fat, fat')]_vars
  BY <1>1, IInvHolds, PTL DEF LsSpec
<1>3. QED
  BY <1>2, ZenonT(60) DEF LinksStable, Grows

-----------------------------------------------------------------------------
(* Where an open file is in its chain *)

\* A chain that begins at c has a cluster for each of so many sectors.
Whole(t, c, size) == \A n \in Nat : n < size => NthIn(t, c, n \div B) \in Entries

\* Reading: the cursor is where file_pos says, until the end of the file.
ReadAt(t, f) ==
  /\ Whole(t, f.first, f.size)
  /\ f.pos < f.size => f.curr = NthIn(t, f.first, f.pos \div B) /\ f.offset = f.pos % B

\* Writing: likewise, in a cluster of the chain; or the file has none yet.
WriteAt(t, f) ==
  \/ f.first = FREE /\ f.curr = FREE /\ f.pos = 0 /\ f.offset = 0
  \/ f.curr \in Entries /\ f.curr = NthIn(t, f.first, f.pos \div B) /\ f.offset = f.pos % B

\* At the end of a cluster the cursor is one cluster behind.
AtEnd(t, f) ==
  /\ f.curr \in Entries /\ f.pos % B = 0
  /\ \E k \in Nat : f.curr = NthIn(t, f.first, k) /\ f.pos \div B = k + 1

\* The sector behind sector p.
LEMMA NextSector ==
  ASSUME NEW p \in Nat
  PROVE  /\ p \div B \in Nat /\ p % B \in Nat
         /\ (p % B) + 1 >= B => (p + 1) \div B = p \div B + 1 /\ (p + 1) % B = 0
         /\ (p % B) + 1 < B => (p + 1) \div B = p \div B /\ (p + 1) % B = (p % B) + 1
<1> DEFINE q == p \div B
           r == p % B
<1>1. B \in Nat \ {0}
  BY Constants
<1>2. q \in Nat /\ r \in 0 .. B - 1 /\ p = B * q + r
  BY <1>1
<1> HIDE DEF q, r
<1>3. CASE r + 1 >= B
  <2>1. p + 1 = B * (q + 1) /\ q + 1 \in Nat
    BY <1>1, <1>2, <1>3
  <2>2. \A k \in Nat : (B * k) \div B = k /\ (B * k) % B = 0
    BY <1>1
  <2>3. (p + 1) \div B = q + 1 /\ (p + 1) % B = 0
    BY <2>1, <2>2, ZenonT(60)
  <2>4. ~ (r + 1 < B) /\ r \in Nat
    BY <1>1, <1>2, <1>3
  <2>5. QED
    BY <1>2, <2>3, <2>4, ZenonT(60) DEF q, r
<1>4. CASE r + 1 < B
  <2>1. p + 1 = B * q + (r + 1) /\ r + 1 \in 0 .. B - 1
    BY <1>1, <1>2, <1>4
  <2>2. \A k \in Nat, s \in 0 .. B - 1 : (B * k + s) \div B = k /\ (B * k + s) % B = s
    BY <1>1
  <2>3. (p + 1) \div B = q /\ (p + 1) % B = r + 1
    BY <1>2, <2>1, <2>2, ZenonT(60)
  <2>4. ~ (r + 1 >= B) /\ r \in Nat
    BY <1>1, <1>2, <1>4
  <2>5. QED
    BY <1>2, <2>3, <2>4, ZenonT(60) DEF q, r
<1>5. r + 1 >= B \/ r + 1 < B
  BY <1>1, <1>2
<1>6. QED
  BY <1>3, <1>4, <1>5

LEMMA NthGrows ==
  ASSUME NEW t, NEW u, Grows(t, u)
  PROVE  \A c : \A n \in Nat : NthIn(t, c, n) \in Entries => NthIn(u, c, n) = NthIn(t, c, n)
<1>1. ASSUME NEW c, NEW n \in Nat, NthIn(t, c, n) \in Entries
      PROVE  NthIn(u, c, n) = NthIn(t, c, n)
  <2>1. EOC \notin Entries /\ \A a \in Entries : t[a] \in Entries => u[a] = t[a]
    BY Constants, ZenonT(60) DEF Grows
  <2>2. QED
    BY <1>1, <2>1, NthStays
<1>2. QED
  BY <1>1

LEMMA WholeGrows ==
  ASSUME NEW t, NEW u, Grows(t, u), NEW c, NEW size, Whole(t, c, size)
  PROVE  Whole(u, c, size)
<1>1. \A n \in Nat : n \div B \in Nat
  BY NextSector, ZenonT(60)
<1>2. \A n \in Nat : NthIn(t, c, n) \in Entries => NthIn(u, c, n) = NthIn(t, c, n)
  BY NthGrows
<1>3. QED
  BY <1>1, <1>2, ZenonT(60) DEF Whole

LEMMA ReadAtGrows ==
  ASSUME NEW t, NEW u, Grows(t, u), NEW f \in FileRecords, ReadAt(t, f)
  PROVE  ReadAt(u, f)
<1>1. Whole(u, f.first, f.size)
  BY WholeGrows, ZenonT(60) DEF ReadAt
<1>2. f.pos \in Nat /\ f.pos \div B \in Nat
  BY NextSector DEF FileRecords
<1>3. f.pos < f.size => NthIn(t, f.first, f.pos \div B) \in Entries
  BY <1>2, ZenonT(60) DEF ReadAt, Whole
<1>4. \A n \in Nat : NthIn(t, f.first, n) \in Entries => NthIn(u, f.first, n) = NthIn(t, f.first, n)
  BY NthGrows
<1>5. QED
  BY <1>1, <1>2, <1>3, <1>4, ZenonT(60) DEF ReadAt

LEMMA WriteAtGrows ==
  ASSUME NEW t, NEW u, Grows(t, u), NEW f \in FileRecords, WriteAt(t, f)
  PROVE  WriteAt(u, f)
<1>1. f.pos \in Nat /\ f.pos \div B \in Nat
  BY NextSector DEF FileRecords
<1>2. \A n \in Nat : NthIn(t, f.first, n) \in Entries => NthIn(u, f.first, n) = NthIn(t, f.first, n)
  BY NthGrows
<1>3. QED
  BY <1>1, <1>2, ZenonT(60) DEF WriteAt

LEMMA AtEndGrows ==
  ASSUME NEW t, NEW u, Grows(t, u), NEW f \in FileRecords, AtEnd(t, f)
  PROVE  AtEnd(u, f)
  BY NthGrows DEF AtEnd

\* A file begins where its chain does.
LEMMA AtStart ==
  ASSUME NEW t, NEW f, f.curr = f.first, f.offset = 0, f.pos = 0
  PROVE  /\ Whole(t, f.first, f.size) => ReadAt(t, f)
         /\ f.first \in Entries \cup {FREE} => WriteAt(t, f)
<1>1. 0 \div B = 0 /\ 0 % B = 0
  BY Constants
<1>2. NthIn(t, f.first, 0) = f.first
  BY NthZero, ZenonT(60)
<1>3. QED
  BY <1>1, <1>2, ZenonT(60) DEF ReadAt, WriteAt

\* Reading a sector.
LEMMA ReadMoves ==
  ASSUME NEW t, NEW f \in FileRecords, ReadAt(t, f), f.pos < f.size,
         NEW g, g.first = f.first, g.size = f.size, g.pos = f.pos + 1,
         g.offset = IF f.offset + 1 >= B THEN 0 ELSE f.offset + 1,
         g.curr = IF f.offset + 1 >= B THEN Follow(t, f.curr) ELSE f.curr
  PROVE  ReadAt(t, g)
<1>1. PICK p \in Nat : p = f.pos /\ f.offset = p % B /\ f.curr = NthIn(t, f.first, p \div B)
  BY DEF FileRecords, ReadAt
<1>2. p \div B \in Nat /\ p % B \in Nat /\ ((p % B) + 1 >= B \/ (p % B) + 1 < B)
      /\ ~ ((p % B) + 1 >= B /\ (p % B) + 1 < B)
  <2>1. p \div B \in Nat /\ p % B \in Nat
    BY NextSector, ZenonT(60)
  <2>2. QED
    BY <2>1, Constants
<1>3. CASE (p % B) + 1 >= B
  <2>1. (p + 1) \div B = p \div B + 1 /\ (p + 1) % B = 0
    BY <1>3, NextSector, ZenonT(60)
  <2>2. NthIn(t, f.first, p \div B + 1) = Follow(t, f.curr)
    <3>1. PICK k \in Nat : k = p \div B
      BY <1>2, ZenonT(60)
    <3>2. NthIn(t, f.first, k + 1) = Follow(t, NthIn(t, f.first, k))
      BY NthNext, ZenonT(60)
    <3>3. QED
      BY <1>1, <3>1, <3>2, ZenonT(60)
  <2>3. QED
    BY <1>1, <1>3, <2>1, <2>2, ZenonT(60) DEF ReadAt
<1>4. CASE (p % B) + 1 < B
  <2>1. (p + 1) \div B = p \div B /\ (p + 1) % B = (p % B) + 1
    BY <1>4, NextSector, ZenonT(60)
  <2>2. QED
    BY <1>1, <1>2, <1>4, <2>1, ZenonT(60) DEF ReadAt
<1>5. QED
  BY <1>2, <1>3, <1>4

\* Writing a sector inside of a cluster, and its last one.
LEMMA WriteMoves ==
  ASSUME NEW t, NEW f \in FileRecords, WriteAt(t, f), f.curr # FREE,
         NEW g, g.first = f.first, g.curr = f.curr, g.pos = f.pos + 1, g.offset = f.offset + 1
  PROVE  IF f.offset + 1 >= B THEN AtEnd(t, g) ELSE WriteAt(t, g)
<1>1. PICK p \in Nat : /\ p = f.pos /\ f.offset = p % B /\ f.curr = NthIn(t, f.first, p \div B)
                       /\ f.curr \in Entries
  BY DEF FileRecords, WriteAt
<1>2. p \div B \in Nat /\ p % B \in Nat /\ ((p % B) + 1 >= B \/ (p % B) + 1 < B)
      /\ ~ ((p % B) + 1 >= B /\ (p % B) + 1 < B)
  <2>1. p \div B \in Nat /\ p % B \in Nat
    BY NextSector, ZenonT(60)
  <2>2. QED
    BY <2>1, Constants
<1>3. CASE (p % B) + 1 >= B
  <2>1. (p + 1) \div B = p \div B + 1 /\ (p + 1) % B = 0
    BY <1>3, NextSector, ZenonT(60)
  <2>2. QED
    BY <1>1, <1>2, <1>3, <2>1, ZenonT(60) DEF AtEnd
<1>4. CASE (p % B) + 1 < B
  <2>1. (p + 1) \div B = p \div B /\ (p + 1) % B = (p % B) + 1
    BY <1>4, NextSector, ZenonT(60)
  <2>2. QED
    BY <1>1, <1>2, <1>4, <2>1, ZenonT(60) DEF WriteAt
<1>5. QED
  BY <1>2, <1>3, <1>4

\* Moving on to the next cluster.
LEMMA MoveOn ==
  ASSUME NEW t, NEW f, AtEnd(t, f), t[f.curr] \in Entries,
         NEW g, g.first = f.first, g.curr = t[f.curr], g.pos = f.pos, g.offset = 0
  PROVE  WriteAt(t, g)
<1>1. PICK k \in Nat : /\ f.curr = NthIn(t, f.first, k) /\ f.pos \div B = k + 1
                       /\ f.curr \in Entries /\ f.pos % B = 0
  BY ZenonT(60) DEF AtEnd
<1>2. NthIn(t, f.first, k + 1) = t[f.curr]
  BY <1>1, NthNext, ZenonT(60) DEF Follow
<1>3. QED
  BY <1>1, <1>2, ZenonT(60) DEF WriteAt

-----------------------------------------------------------------------------
(* The places of the open files *)

\* A write has filled a cluster and not moved on yet.
Behind == pc \in {"advance", "link"} \/ (pc = "alloc" /\ call.then = "link")

Lagging(h) == Behind /\ call.h = h

Placed(h) ==
  open_files[h] # UNUSED =>
    /\ open_files[h].mode = "r" => ReadAt(fat, open_files[h])
    /\ open_files[h].mode = "w" => IF Lagging(h) THEN AtEnd(fat, open_files[h])
                                   ELSE WriteAt(fat, open_files[h])

\* A file gets a first cluster only when it has none.
Owning == pc = "own" \/ (pc = "alloc" /\ call.then = "own") => File.curr = FREE

\* What is written is open for writing.
Modal == Behind \/ pc \in {"write", "own"} \/ (pc = "alloc" /\ call.then = "own") => File.mode # "r"

\* What is read is in the file.
Reading ==
  pc = "read" => /\ File.mode = "r" /\ call.left > 0
                 /\ File.pos + call.left <= File.size

Cursors == (\A h \in Handles : Placed(h)) /\ Owning /\ Modal /\ Reading

\* Every file on the disk is as long as its entry says.
LongFiles == \A p \in Files : Whole(fat, dirent[p].first, dirent[p].size)

\* Nothing has gone wrong that would move a file from its place.
Tidy == mishaps \cap {"fault", "full", "overrun", "loop"} = {}

\* Nothing goes wrong in a step, and chains only grow.
Steady == IInv /\ Cursors /\ Sound /\ Faultless' /\ Grows(fat, fat')

LEMMA KeepsPlace ==
  ASSUME IInv, Grows(fat, fat'), NEW h \in Handles, Placed(h), open_files'[h] = open_files[h],
         Lagging(h)' <=> Lagging(h)
  PROVE  Placed(h)'
<1> SUFFICES ASSUME open_files[h] # UNUSED
             PROVE  Placed(h)'
  BY ZenonT(60) DEF Placed
<1>1. PICK f \in FileRecords : f = open_files[h]
  BY FileTypes, ZenonT(60)
<1>2. ReadAt(fat, f) => ReadAt(fat', f)
  BY ReadAtGrows, ZenonT(60)
<1>3. WriteAt(fat, f) => WriteAt(fat', f)
  BY WriteAtGrows, ZenonT(60)
<1>4. AtEnd(fat, f) => AtEnd(fat', f)
  BY AtEndGrows, ZenonT(60)
<1>5. QED
  BY <1>1, <1>2, <1>3, <1>4, ZenonT(60) DEF Placed

\* A step that leaves the open files alone.
LEMMA QuietCursors ==
  ASSUME Steady, UNCHANGED open_files,
         \A h \in Handles : Lagging(h)' <=> Lagging(h), Owning', Modal', Reading'
  PROVE  Cursors'
<1>1. \A h \in Handles : Placed(h)'
  BY KeepsPlace, ZenonT(60) DEF Steady, Cursors
<1>2. QED
  BY <1>1, ZenonT(60) DEF Cursors

\* Where a call is in none of its writes.
LEMMA NotWriting ==
  ASSUME pc \notin {"advance", "link", "own", "alloc", "write"}
  PROVE  Owning /\ Modal /\ \A h : ~ Lagging(h)
  BY ZenonT(60) DEF Owning, Modal, Behind, Lagging

LEMMA NotWritingNext ==
  ASSUME pc' \notin {"advance", "link", "own", "alloc", "write"}
  PROVE  Owning' /\ Modal' /\ \A h : ~ Lagging(h)'
  BY ZenonT(60) DEF Owning, Modal, Behind, Lagging

LEMMA PassingCursors ==
  ASSUME Steady, UNCHANGED open_files,
         pc \notin {"advance", "link", "own", "alloc"},
         pc' \notin {"advance", "link", "own", "alloc", "write", "read"}
  PROVE  Cursors'
<1>1. \A h : ~ Lagging(h)
  BY ZenonT(60) DEF Behind, Lagging
<1>2. Reading'
  BY ZenonT(60) DEF Reading
<1>3. QED
  BY <1>1, <1>2, NotWritingNext, QuietCursors, ZenonT(60)

LEMMA StartReadCursors ==
  ASSUME Steady, NEW h \in Handles, NEW n \in Lengths, StartRead(h, n)
  PROVE  Cursors'
<1>1. UNCHANGED open_files /\ pc = "idle" /\ pc' = "read"
  BY DEF StartRead
<1>2. PICK f \in FileRecords : f = open_files[h]
  BY FileTypes, ZenonT(60) DEF StartRead, Steady
<1>3. f.mode = "r" /\ f.pos < f.size /\ call'.h = h /\ call'.left = Lesser(n, f.size - f.pos)
  BY <1>2 DEF StartRead
<1>4. call'.left > 0 /\ f.pos + call'.left <= f.size
  BY <1>2, <1>3, Fat32Assumption DEF FileRecords, Lesser
<1>5. Reading'
  BY <1>1, <1>2, <1>3, <1>4, ZenonT(60) DEF Reading, File
<1>6. pc \notin {"advance", "link", "own", "alloc", "write"}
      /\ pc' \notin {"advance", "link", "own", "alloc", "write"}
  BY <1>1
<1>7. QED
  BY <1>1, <1>5, <1>6, NotWriting, NotWritingNext, QuietCursors, ZenonT(60)

LEMMA StartWriteCursors ==
  ASSUME Steady, NEW h \in Handles, NEW n \in Lengths, StartWrite(h, n)
  PROVE  Cursors'
<1>1. UNCHANGED open_files /\ pc = "idle" /\ pc' = "write" /\ open_files[h].mode # "r" /\ call'.h = h
  BY DEF StartWrite
<1>2. Owning' /\ Modal' /\ Reading' /\ \A g : ~ Lagging(g)' /\ ~ Lagging(g)
  BY <1>1, ZenonT(60) DEF Owning, Modal, Reading, Behind, Lagging, File
<1>3. QED
  BY <1>1, <1>2, QuietCursors, ZenonT(60)

LEMMA CreateCursors ==
  ASSUME Steady, NEW op \in {"open", "mkdir"}, NEW path \in Paths, NEW mode \in Modes,
         Create(op, path, mode)
  PROVE  Cursors'
<1>1. UNCHANGED open_files /\ pc = "idle" /\ pc' = "alloc" /\ call'.then \notin {"link", "own"}
  BY DEF Create
<1>2. Owning' /\ Modal' /\ Reading' /\ \A g : ~ Lagging(g)' /\ ~ Lagging(g)
  BY <1>1, ZenonT(60) DEF Owning, Modal, Reading, Behind, Lagging
<1>3. QED
  BY <1>1, <1>2, QuietCursors, ZenonT(60)

LEMMA AllocateCursors ==
  ASSUME Steady, Allocate
  PROVE  Cursors'
<1>1. PICK c : /\ UNCHANGED open_files /\ pc = "alloc"
               /\ pc' = call.then /\ call' = [call EXCEPT !.new = c]
  BY FaultIsCalm, TornFaultIsCalm, ZenonT(60) DEF Steady, Allocate, WriteFat
<1>2. Creating \/ Writing
  BY <1>1, ZenonT(60) DEF Steady, IInv, CallOK
<1>3. CASE Creating
  <2>1. pc' \in {"slot", "clear"} /\ call.then \notin {"link", "own"}
    BY <1>1, <1>3 DEF Creating
  <2>2. Owning' /\ Modal' /\ Reading' /\ \A g : ~ Lagging(g)' /\ ~ Lagging(g)
    BY <1>1, <2>1, ZenonT(60) DEF Owning, Modal, Reading, Behind, Lagging
  <2>3. QED
    BY <1>1, <2>2, QuietCursors, ZenonT(60)
<1>4. CASE Writing
  <2>1. call'.h = call.h /\ call.then \in {"own", "link"} /\ call'.then = call.then
    BY <1>1, <1>4 DEF Writing, WriteCalls
  <2>2. File' = File
    BY <1>1, <2>1 DEF File
  <2>3. Behind' <=> Behind
    BY <1>1, <2>1 DEF Behind
  <2>4. Owning' /\ Modal' /\ Reading'
    BY <1>1, <2>1, <2>2, <2>3 DEF Owning, Modal, Reading, Steady, Cursors
  <2>5. \A h \in Handles : Lagging(h)' <=> Lagging(h)
    BY <2>1, <2>3, ZenonT(60) DEF Lagging
  <2>6. QED
    BY <1>1, <2>4, <2>5, QuietCursors, ZenonT(60)
<1>5. QED
  BY <1>2, <1>3, <1>4

LEMMA WriteFirstCursors ==
  ASSUME Steady, WriteFirst
  PROVE  Cursors'
<1>1. /\ UNCHANGED open_files /\ pc = "write" /\ pc' = "alloc" /\ File.curr = FREE
      /\ call' = [call EXCEPT !.then = "own", !.from = 2]
  BY DEF WriteFirst
<1>2. call'.h = call.h /\ call'.then = "own"
  BY <1>1, WriteAllocates, ZenonT(60) DEF Steady, IInv, CallOK, Writing
<1>3. File' = File
  BY <1>1, <1>2, ZenonT(60) DEF File
<1>4. Owning' /\ Modal' /\ Reading' /\ \A g : ~ Lagging(g)' /\ ~ Lagging(g)
  BY <1>1, <1>2, <1>3, ZenonT(60) DEF Owning, Modal, Reading, Behind, Lagging, Steady, Cursors
<1>5. QED
  BY <1>1, <1>4, QuietCursors, ZenonT(60)

LEMMA ExtendCursors ==
  ASSUME Steady, Extend
  PROVE  Cursors'
<1>1. /\ UNCHANGED open_files /\ pc = "advance" /\ pc' = "alloc"
      /\ call' = [call EXCEPT !.then = "link", !.from = 2]
  BY DEF Extend
<1>2. call'.h = call.h /\ call'.then = "link"
  BY <1>1, WriteAllocates, ZenonT(60) DEF Steady, IInv, CallOK, Writing
<1>3. File' = File
  BY <1>1, <1>2, ZenonT(60) DEF File
<1>4. Owning' /\ Modal' /\ Reading' /\ \A g : Lagging(g)' <=> Lagging(g)
  BY <1>1, <1>2, <1>3, ZenonT(60) DEF Owning, Modal, Reading, Behind, Lagging, Steady, Cursors
<1>5. QED
  BY <1>1, <1>4, QuietCursors, ZenonT(60)

\* A file that is opened begins at the start of its chain.
LEMMA TakenPlaces ==
  ASSUME Steady, UNCHANGED fat, NEW first \in Entries \cup {FREE}, NEW size \in Nat, NEW mode \in Modes,
         TakeHandle(first, size, mode), Whole(fat, first, size),
         \A h : ~ Lagging(h) /\ ~ Lagging(h)'
  PROVE  \A h \in Handles : Placed(h)'
<1> DEFINE file == [mode |-> mode, first |-> first, curr |-> first, offset |-> 0,
                    size |-> IF mode = "w" THEN 0 ELSE size,
                    pos |-> IF mode = "a" THEN size ELSE 0]
<1>1. PICK f : f = file
  BY ZenonT(60)
<1>2. /\ f.mode = mode /\ f.first = first /\ f.curr = first /\ f.offset = 0
      /\ mode # "a" => f.pos = 0
      /\ mode = "r" => f.size = size
  BY <1>1
<1>3. PICK M : open_files' = [h \in Handles |-> IF h \in M THEN file ELSE open_files[h]]
  BY ZenonT(60) DEF TakeHandle
<1>4. \A h \in Handles : open_files'[h] = f \/ open_files'[h] = open_files[h]
  BY <1>1, <1>3, ZenonT(60)
<1> HIDE DEF file
<1>5. f.mode = "r" => ReadAt(fat, f)
  BY <1>2, AtStart, ZenonT(60)
<1>6. f.mode = "w" => WriteAt(fat, f)
  BY <1>2, AtStart, ZenonT(60)
<1>7. ASSUME NEW h \in Handles
      PROVE  Placed(h)'
  <2>1. CASE open_files'[h] = f
    BY <1>5, <1>6, <2>1, ZenonT(60) DEF Placed
  <2>2. CASE open_files'[h] = open_files[h]
    BY <2>2, KeepsPlace, ZenonT(60) DEF Steady, Cursors
  <2>3. QED
    BY <1>4, <2>1, <2>2, ZenonT(60)
<1>8. QED
  BY <1>7

LEMMA OpenExistingCursors ==
  ASSUME Steady, LongFiles, NEW path \in Paths, NEW mode \in Modes, OpenExisting(path, mode)
  PROVE  Cursors'
<1>1. UNCHANGED <<fat, pc, call>> /\ pc = "idle" /\ pc' = "idle"
  BY DEF OpenExisting, disk
<1>2. PICK d \in Parents(path) :
        \E e \in Lookup(d, path[Len(path)]) : TakeHandle(e.first, e.size, mode)
  BY DEF OpenExisting
<1>3. PICK e \in Lookup(d, path[Len(path)]) : TakeHandle(e.first, e.size, mode)
  BY <1>2
<1>4. PICK p \in Files : dirent[p] = e /\ e \in Dirents
  BY LookupFindsFile DEF Steady, IInv
<1>5. e.first \in Entries \cup {FREE} /\ e.size \in Nat /\ Whole(fat, e.first, e.size)
  BY <1>4, ZenonT(60) DEF Dirents, LongFiles
<1>6. /\ pc \notin {"advance", "link", "own", "alloc", "write"}
      /\ pc' \notin {"advance", "link", "own", "alloc", "write", "read"}
  BY <1>1
<1>7. Owning' /\ Modal' /\ Reading' /\ \A h : ~ Lagging(h) /\ ~ Lagging(h)'
  BY <1>6, NotWriting, NotWritingNext, ZenonT(60) DEF Reading
<1>8. \A h \in Handles : Placed(h)'
  BY <1>1, <1>3, <1>5, <1>7, TakenPlaces, ZenonT(60)
<1>9. QED
  BY <1>7, <1>8, ZenonT(60) DEF Cursors

LEMMA WriteEntryCursors ==
  ASSUME Steady, WriteEntry
  PROVE  Cursors'
<1>1. /\ UNCHANGED fat /\ pc = "slot" /\ pc' = "idle"
      /\ IF call.op = "open" THEN TakeHandle(call.new, 0, call.mode) ELSE UNCHANGED open_files
  BY FaultIsCalm, TornFaultIsCalm, ZenonT(60) DEF Steady, WriteEntry, Return
<1>2. /\ pc \notin {"advance", "link", "own", "alloc", "write"}
      /\ pc' \notin {"advance", "link", "own", "alloc", "write", "read"}
  BY <1>1
<1>3. CASE call.op = "open"
  <2>1. call.new \in Entries \cup {FREE} /\ call.mode \in Modes /\ 0 \in Nat
    BY <1>1 DEF Steady, IInv, CallOK, Creating
  <2>2. Whole(fat, call.new, 0)
    <3>1. \A n \in Nat : ~ (n < 0)
      OBVIOUS
    <3>2. QED
      BY <3>1, ZenonT(60) DEF Whole
  <2>3. Owning' /\ Modal' /\ Reading' /\ \A h : ~ Lagging(h) /\ ~ Lagging(h)'
    BY <1>2, NotWriting, NotWritingNext, ZenonT(60) DEF Reading
  <2>4. \A h \in Handles : Placed(h)'
    BY <1>1, <1>3, <2>1, <2>2, <2>3, TakenPlaces, ZenonT(60)
  <2>5. QED
    BY <2>3, <2>4, ZenonT(60) DEF Cursors
<1>4. CASE call.op # "open"
  BY <1>1, <1>2, <1>4, PassingCursors, ZenonT(60)
<1>5. QED
  BY <1>3, <1>4

LEMMA CloseCursors ==
  ASSUME Steady, NEW h \in Handles, Close(h)
  PROVE  Cursors'
<1>1. /\ pc = "idle" /\ pc' = "idle"
      /\ open_files' = [open_files EXCEPT ![h] = UNUSED]
  BY DEF Close
<1>2. /\ pc \notin {"advance", "link", "own", "alloc", "write"}
      /\ pc' \notin {"advance", "link", "own", "alloc", "write", "read"}
  BY <1>1
<1>3. Owning' /\ Modal' /\ Reading' /\ \A g : ~ Lagging(g) /\ ~ Lagging(g)'
  BY <1>2, NotWriting, NotWritingNext, ZenonT(60) DEF Reading
<1>4. \A g \in Handles : open_files'[g] = UNUSED \/ open_files'[g] = open_files[g]
  BY <1>1, ZenonT(60) DEF Steady, IInv, TypeOK
<1>5. ASSUME NEW g \in Handles
      PROVE  Placed(g)'
  <2>1. CASE open_files'[g] = UNUSED
    BY <2>1, ZenonT(60) DEF Placed
  <2>2. CASE open_files'[g] = open_files[g]
    BY <1>3, <2>2, KeepsPlace, ZenonT(60) DEF Steady, Cursors
  <2>3. QED
    BY <1>4, <2>1, <2>2, ZenonT(60)
<1>6. QED
  BY <1>3, <1>5, ZenonT(60) DEF Cursors

LEMMA SeekCursors ==
  ASSUME Steady, NEW h \in Handles, NEW n \in Lengths, Seek(h, n)
  PROVE  Cursors'
<1>1. PICK e \in FileRecords : e = open_files[h]
  BY FileTypes, ZenonT(60) DEF Seek, Steady
<1> DEFINE file == [e EXCEPT !.curr = e.first, !.offset = 0, !.pos = 0]
<1>2. PICK f : f = file
  BY ZenonT(60)
<1>3. /\ f.mode = e.mode /\ f.first = e.first /\ f.curr = e.first /\ f.offset = 0
      /\ f.pos = 0 /\ f.size = e.size
  BY <1>2, ZenonT(60) DEF FileRecords
<1>4. /\ UNCHANGED fat /\ pc = "idle" /\ open_files' = [open_files EXCEPT ![h] = f]
      /\ IF f.mode # "r" \/ n = 0 \/ f.size = 0 THEN UNCHANGED <<pc, call>>
         ELSE /\ pc' = "read"
              /\ call' = [op |-> "seek", loop |-> "read", h |-> h, left |-> Lesser(n, f.size)]
  BY <1>1, <1>2, ZenonT(60) DEF Seek, disk
<1> HIDE DEF file
<1>5. /\ pc \notin {"advance", "link", "own", "alloc", "write"}
      /\ pc' \notin {"advance", "link", "own", "alloc", "write"}
  BY <1>4
<1>6. Owning' /\ Modal' /\ \A g : ~ Lagging(g) /\ ~ Lagging(g)'
  BY <1>5, NotWriting, NotWritingNext, ZenonT(60)
<1>7. /\ open_files'[h] = f
      /\ \A g \in Handles : g # h => open_files'[g] = open_files[g]
  BY <1>4, ZenonT(60) DEF Steady, IInv, TypeOK
<1>8. Placed(h)'
  <2>1. f.mode = "r" => Whole(fat, f.first, f.size)
    BY <1>1, <1>3, ZenonT(60) DEF Steady, Cursors, Placed, ReadAt, Seek
  <2>2. f.first \in Entries \cup {FREE}
    BY <1>3 DEF FileRecords
  <2>3. (f.mode = "r" => ReadAt(fat, f)) /\ WriteAt(fat, f)
    BY <1>3, <2>1, <2>2, AtStart, ZenonT(60)
  <2>4. QED
    BY <1>4, <1>6, <1>7, <2>3, ZenonT(60) DEF Placed
<1>9. \A g \in Handles : g # h => Placed(g)'
  BY <1>6, <1>7, KeepsPlace, ZenonT(60) DEF Steady, Cursors
<1>10. Reading'
  <2>1. CASE pc' = "read"
    <3>1. f.mode = "r" /\ f.size # 0 /\ call'.h = h /\ call'.left = Lesser(n, f.size)
      BY <1>4, <2>1
    <3>2. call'.left > 0 /\ f.pos + call'.left <= f.size
      BY <1>3, <3>1, Fat32Assumption DEF FileRecords, Lesser
    <3>3. QED
      BY <1>7, <3>1, <3>2, ZenonT(60) DEF Reading, File
  <2>2. CASE pc' # "read"
    BY <2>2, ZenonT(60) DEF Reading
  <2>3. QED
    BY <2>1, <2>2
<1>11. QED
  BY <1>6, <1>8, <1>9, <1>10, ZenonT(60) DEF Cursors

\* A step that replaces the file of its call.
LEMMA UpdatedCursors ==
  ASSUME Steady, NEW h \in Handles, call.h = h, NEW g, Update(g), Placed(h)',
         call'.h = h \/ ~ Behind', Owning', Modal', Reading'
  PROVE  Cursors'
<1>1. \A i \in Handles : i # h => open_files'[i] = open_files[i]
  BY ZenonT(60) DEF Update, Steady, IInv, TypeOK
<1>2. \A i \in Handles : i # h => (Lagging(i)' <=> Lagging(i))
  BY ZenonT(60) DEF Lagging
<1>3. \A i \in Handles : i # h => Placed(i)'
  BY <1>1, <1>2, KeepsPlace, ZenonT(60) DEF Steady, Cursors
<1>4. QED
  BY <1>3, ZenonT(60) DEF Cursors

LEMMA ReadSectorCursors ==
  ASSUME Steady, ReadSector
  PROVE  Cursors'
<1>1. pc = "read" /\ UNCHANGED fat
  BY DEF ReadSector, disk
<1>2. call \in ReadCalls /\ call.h \in Handles /\ File # UNUSED /\ call.left \in Int
  BY <1>1 DEF Steady, IInv, CallOK, ReadCalls, File
<1>3. PICK f \in FileRecords : f = File
  BY <1>2, FileTypes, ZenonT(60) DEF File, Steady
<1> DEFINE leaves == f.offset + 1 >= B
           moved == [f EXCEPT !.pos = @ + 1,
                              !.offset = IF leaves THEN 0 ELSE @ + 1,
                              !.curr = IF leaves THEN Follow(fat, f.curr) ELSE @]
<1>4. PICK g : g = moved
  BY ZenonT(60)
<1>5. /\ g.first = f.first /\ g.size = f.size /\ g.mode = f.mode /\ g.pos = f.pos + 1
      /\ g.offset = IF leaves THEN 0 ELSE f.offset + 1
      /\ g.curr = IF leaves THEN Follow(fat, f.curr) ELSE f.curr
  BY <1>4, ZenonT(60) DEF FileRecords
<1>6. Update(g) /\ (Return \/ Loop(call.left - 1))
  <2>1. PICK next :
          /\ Update([File EXCEPT !.pos = @ + 1,
                                 !.offset = IF File.offset + 1 >= B THEN 0 ELSE @ + 1,
                                 !.curr = IF File.offset + 1 >= B THEN next ELSE @])
          /\ IF File.offset + 1 >= B /\ next = EOC /\ call.op = "read" THEN Return
             ELSE Loop(call.left - 1)
          /\ IF next = fat32_next_cluster(File.curr) THEN UNCHANGED history ELSE Fault
    BY ZenonT(60) DEF ReadSector
  <2>2. next = Follow(fat, f.curr)
    BY <1>3, <2>1, FaultIsCalm, ZenonT(60) DEF fat32_next_cluster, Steady
  <2>3. QED
    BY <1>3, <1>4, <2>1, <2>2, ZenonT(60)
<1> HIDE DEF moved
<1>7. /\ f.mode = "r" /\ call.left > 0 /\ f.pos + call.left <= f.size
      /\ f.pos < f.size
  <2>1. f.mode = "r" /\ call.left > 0 /\ f.pos + call.left <= f.size
    BY <1>1, <1>3, ZenonT(60) DEF Steady, Cursors, Reading
  <2>2. QED
    BY <1>2, <2>1 DEF FileRecords
<1>8. ReadAt(fat, f)
  BY <1>2, <1>3, <1>7, ZenonT(60) DEF Steady, Cursors, Placed, File
<1>9. ReadAt(fat, g)
  BY <1>5, <1>7, <1>8, ReadMoves, ZenonT(60)
<1>10. PICK h \in Handles : h = call.h /\ open_files'[h] = g
  BY <1>2, <1>6, ZenonT(60) DEF Update, Steady, IInv, TypeOK
<1>11. Placed(h)'
  BY <1>1, <1>5, <1>7, <1>9, <1>10, ZenonT(60) DEF Placed
<1>12. \/ pc' = "idle"
       \/ pc' = "read" /\ call'.h = call.h /\ call'.left = call.left - 1 /\ call'.left # 0
  BY <1>2, <1>6 DEF Return, Loop, ReadCalls
<1>13. Reading'
  <2>1. CASE pc' = "read"
    <3>1. call'.h = call.h /\ call'.left = call.left - 1 /\ call'.left # 0
      BY <1>12, <2>1
    <3>2. call'.left > 0 /\ g.pos + call'.left <= g.size
      BY <1>2, <1>5, <1>7, <3>1 DEF FileRecords
    <3>3. QED
      BY <1>5, <1>7, <1>10, <3>1, <3>2, ZenonT(60) DEF Reading, File
  <2>2. CASE pc' # "read"
    BY <2>2, ZenonT(60) DEF Reading
  <2>3. QED
    BY <2>1, <2>2
<1>14. pc' \notin {"advance", "link", "own", "alloc", "write"}
  BY <1>12
<1>15. Owning' /\ Modal' /\ ~ Behind'
  BY <1>14, NotWritingNext, ZenonT(60) DEF Behind
<1>16. QED
  BY <1>6, <1>10, <1>11, <1>13, <1>15, UpdatedCursors, ZenonT(60)

LEMMA OwnClusterCursors ==
  ASSUME Steady, OwnCluster
  PROVE  Cursors'
<1>1. pc = "own" /\ pc' = "write" /\ call' = call /\ UNCHANGED fat
  BY DEF OwnCluster, disk, Goto
<1>2. call.h \in Handles /\ File # UNUSED /\ call.new \in Entries
  BY <1>1 DEF Steady, IInv, CallOK, Writing, WriteCalls, File
<1>3. PICK f \in FileRecords : f = File
  BY <1>2, FileTypes, ZenonT(60) DEF File, Steady
<1>4. PICK g : g = [f EXCEPT !.first = call.new, !.curr = call.new, !.offset = 0]
  BY ZenonT(60)
<1>5. /\ g.first = call.new /\ g.curr = call.new /\ g.offset = 0
      /\ g.mode = f.mode /\ g.pos = f.pos
  BY <1>4, ZenonT(60) DEF FileRecords
<1>6. Update(g)
  BY <1>3, <1>4, ZenonT(60) DEF OwnCluster
<1>7. f.curr = FREE /\ f.mode # "r"
  BY <1>1, <1>3, ZenonT(60) DEF Steady, Cursors, Owning, Modal
<1>8. f.mode = "w" => f.pos = 0
  <2>1. ~ Lagging(call.h)
    BY <1>1, ZenonT(60) DEF Lagging, Behind
  <2>2. f.mode = "w" => WriteAt(fat, f)
    BY <1>2, <1>3, <2>1, ZenonT(60) DEF Steady, Cursors, Placed, File
  <2>3. QED
    BY <1>7, <2>2, Constants, ZenonT(60) DEF WriteAt
<1>9. f.mode = "w" => WriteAt(fat, g)
  BY <1>2, <1>5, <1>8, AtStart, ZenonT(60)
<1>10. PICK h \in Handles : h = call.h /\ open_files'[h] = g
  BY <1>2, <1>6, ZenonT(60) DEF Update, Steady, IInv, TypeOK
<1>11. ~ Behind'
  BY <1>1, ZenonT(60) DEF Behind
<1>12. Placed(h)'
  BY <1>1, <1>5, <1>7, <1>9, <1>10, <1>11, ZenonT(60) DEF Placed, Lagging
<1>13. Owning' /\ Modal' /\ Reading'
  BY <1>1, <1>5, <1>7, <1>10, ZenonT(60) DEF Owning, Modal, Reading, File
<1>14. QED
  BY <1>6, <1>10, <1>11, <1>12, <1>13, UpdatedCursors, ZenonT(60)

\* What a write leaves behind when it goes on or returns.
LEMMA WrittenCursors ==
  ASSUME Steady, call \in WriteCalls, NEW left, Loop(left), NEW g, Update(g), g.mode # "r",
         g.mode = "w" => WriteAt(fat', g)
  PROVE  Cursors'
<1>1. PICK h \in Handles : h = call.h
  BY ZenonT(60) DEF WriteCalls
<1>2. pc' = "idle" \/ (pc' = "write" /\ call'.h = call.h)
  BY DEF Loop, Return, WriteCalls
<1>3. open_files'[h] = g
  BY <1>1, ZenonT(60) DEF Update, Steady, IInv, TypeOK
<1>4. ~ Behind' /\ pc' \notin {"own", "alloc", "read"}
  BY <1>2 DEF Behind
<1>5. Placed(h)'
  BY <1>3, <1>4, ZenonT(60) DEF Placed, Lagging
<1>6. Owning' /\ Modal' /\ Reading'
  BY <1>1, <1>2, <1>3, <1>4, ZenonT(60) DEF Owning, Modal, Reading, File
<1>7. QED
  BY <1>1, <1>4, <1>5, <1>6, UpdatedCursors, ZenonT(60)

\* The file of a write, as it is.
LEMMA WrittenFile ==
  ASSUME Steady, pc \in {"write", "advance", "link"}
  PROVE  /\ call \in WriteCalls /\ call.h \in Handles /\ File # UNUSED /\ File \in FileRecords
         /\ File.mode # "r"
         /\ pc = "write" /\ File.mode = "w" => WriteAt(fat, File)
         /\ pc # "write" /\ File.mode = "w" => AtEnd(fat, File)
<1>1. call \in WriteCalls /\ call.h \in Handles /\ File # UNUSED
  BY DEF Steady, IInv, CallOK, Writing, WriteCalls, File
<1>2. File \in FileRecords
  BY <1>1, FileTypes, ZenonT(60) DEF File, Steady
<1>3. (pc = "write" => ~ Lagging(call.h)) /\ (pc # "write" => Lagging(call.h) /\ Behind)
  BY ZenonT(60) DEF Lagging, Behind
<1>4. Placed(call.h) /\ Modal
  BY <1>1, ZenonT(60) DEF Steady, Cursors
<1>5. QED
  BY <1>1, <1>2, <1>3, <1>4, ZenonT(60) DEF Placed, Modal, File

LEMMA WriteSectorCursors ==
  ASSUME Steady, WriteSector
  PROVE  Cursors'
<1>1. pc = "write" /\ UNCHANGED fat /\ File.curr # FREE
  BY DEF WriteSector
<1>2. PICK f \in FileRecords : f = File
  BY <1>1, WrittenFile, ZenonT(60)
<1>3. PICK g : g = [f EXCEPT !.pos = @ + 1, !.offset = @ + 1,
                             !.size = IF f.pos + 1 > @ THEN f.pos + 1 ELSE @]
  BY ZenonT(60)
<1>4. /\ g.first = f.first /\ g.curr = f.curr /\ g.mode = f.mode
      /\ g.pos = f.pos + 1 /\ g.offset = f.offset + 1
  BY <1>3, ZenonT(60) DEF FileRecords
<1>5. /\ Update(g)
      /\ IF f.offset + 1 >= B
         THEN pc' = "advance" /\ call' = [call EXCEPT !.left = @ - 1]
         ELSE Loop(call.left - 1)
  BY <1>2, <1>3, ZenonT(60) DEF WriteSector
<1>6. f.mode = "w" => IF f.offset + 1 >= B THEN AtEnd(fat, g) ELSE WriteAt(fat, g)
  BY <1>1, <1>2, <1>4, WrittenFile, WriteMoves, ZenonT(60)
<1>7. call \in WriteCalls /\ call.h \in Handles /\ g.mode # "r"
  BY <1>1, <1>2, <1>4, WrittenFile, ZenonT(60)
<1>8. CASE f.offset + 1 >= B
  <2>1. pc' = "advance" /\ call'.h = call.h
    BY <1>5, <1>7, <1>8 DEF WriteCalls
  <2>2. PICK h \in Handles : h = call.h /\ open_files'[h] = g
    BY <1>5, <1>7, ZenonT(60) DEF Update, Steady, IInv, TypeOK
  <2>3. Behind' /\ pc' \notin {"own", "alloc", "read", "write"}
    BY <2>1 DEF Behind
  <2>4. Placed(h)'
    BY <1>1, <1>4, <1>6, <1>7, <1>8, <2>1, <2>2, <2>3, ZenonT(60) DEF Placed, Lagging
  <2>5. Owning' /\ Modal' /\ Reading'
    BY <1>7, <2>1, <2>2, <2>3, ZenonT(60) DEF Owning, Modal, Reading, File
  <2>6. QED
    BY <1>5, <2>1, <2>2, <2>4, <2>5, UpdatedCursors, ZenonT(60)
<1>9. CASE ~ (f.offset + 1 >= B)
  BY <1>1, <1>4, <1>5, <1>6, <1>7, <1>9, WrittenCursors, ZenonT(60)
<1>10. QED
  BY <1>8, <1>9

LEMMA AdvanceCursors ==
  ASSUME Steady, Advance
  PROVE  Cursors'
<1>1. pc = "advance" /\ UNCHANGED fat /\ fat[File.curr] # EOC /\ Loop(call.left)
  BY DEF Advance, disk
<1>2. PICK f \in FileRecords : f = File
  BY <1>1, WrittenFile, ZenonT(60)
<1>3. PICK g : g = [f EXCEPT !.curr = fat[f.curr], !.offset = 0]
  BY ZenonT(60)
<1>4. /\ g.first = f.first /\ g.curr = fat[f.curr] /\ g.mode = f.mode
      /\ g.pos = f.pos /\ g.offset = 0
  BY <1>3, ZenonT(60) DEF FileRecords
<1>5. Update(g)
  BY <1>2, <1>3, ZenonT(60) DEF Advance
<1>6. fat[f.curr] \in Entries
  <2>1. f.curr \in Entries
    BY <1>1, <1>2, ZenonT(60) DEF Steady, IInv, Growing
  <2>2. fat[f.curr] \in Entries \cup {FREE, EOC}
    BY <2>1, ZenonT(60) DEF Steady, IInv, TypeOK
  <2>3. fat[f.curr] # FREE
    <3>1. Held(f.curr)
      BY <1>1, <1>2, WrittenFile, HeldFile, ZenonT(60)
    <3>2. QED
      BY <2>1, <3>1, ZenonT(60) DEF Steady, IInv, Marked, Named
  <2>4. QED
    BY <1>1, <1>2, <2>2, <2>3, ZenonT(60)
<1>7. f.mode = "w" => WriteAt(fat, g)
  BY <1>1, <1>2, <1>4, <1>6, WrittenFile, MoveOn, ZenonT(60)
<1>8. QED
  BY <1>1, <1>2, <1>4, <1>5, <1>7, WrittenFile, WrittenCursors, ZenonT(60)

LEMMA LinkCursors ==
  ASSUME Steady, Link
  PROVE  Cursors'
<1>1. /\ pc = "link" /\ fat' = [fat EXCEPT ![File.curr] = call.new] /\ Loop(call.left)
      /\ Update([File EXCEPT !.curr = call.new, !.offset = 0])
  BY FaultIsCalm, TornFaultIsCalm DEF Steady, Link, WriteFat
<1>2. PICK f \in FileRecords : f = File
  BY <1>1, WrittenFile, ZenonT(60)
<1>3. PICK g : g = [f EXCEPT !.curr = call.new, !.offset = 0]
  BY ZenonT(60)
<1>4. /\ g.first = f.first /\ g.curr = call.new /\ g.mode = f.mode
      /\ g.pos = f.pos /\ g.offset = 0
  BY <1>3, ZenonT(60) DEF FileRecords
<1>5. Update(g)
  BY <1>1, <1>2, <1>3, ZenonT(60)
<1>6. f.curr \in Entries /\ call.new \in Entries
  BY <1>1, <1>2, ZenonT(60) DEF Steady, IInv, Growing, CallOK
<1>7. fat'[f.curr] = call.new
  BY <1>1, <1>2, <1>6, ZenonT(60) DEF Steady, IInv, TypeOK
<1>8. f.mode = "w" => AtEnd(fat', f)
  BY <1>1, <1>2, WrittenFile, AtEndGrows, ZenonT(60) DEF Steady
<1>9. f.mode = "w" => WriteAt(fat', g)
  BY <1>4, <1>6, <1>7, <1>8, MoveOn, ZenonT(60)
<1>10. QED
  BY <1>1, <1>2, <1>4, <1>5, <1>9, WrittenFile, WrittenCursors, ZenonT(60)

LEMMA RestartCursors ==
  ASSUME Restart
  PROVE  Cursors'
<1>1. pc' = "idle" /\ \A h \in Handles : open_files'[h] = UNUSED
  BY ZenonT(60) DEF Restart, Return
<1>2. \A h \in Handles : Placed(h)'
  BY <1>1, ZenonT(60) DEF Placed
<1>3. pc' \notin {"advance", "link", "own", "alloc", "write", "read"}
  BY <1>1
<1>4. QED
  BY <1>2, <1>3, NotWritingNext, ZenonT(60) DEF Cursors, Reading

-----------------------------------------------------------------------------
(* All steps, again *)

\* New entries are of size 0, others stay as they are or are overwritten.
LEMMA SizesStay ==
  ASSUME IInv, [LsNext]_vars, Calm', NEW p \in Files'
  PROVE  (p \in Files /\ dirent'[p] = dirent[p]) \/ dirent'[p].size = 0
<1> DEFINE Old == p \in Files /\ dirent'[p] = dirent[p]
<1>1. UNCHANGED dirent => Old
  BY ZenonT(60) DEF Files
<1>2. CASE ClearDirectory
  <2>1. \A q \in Places : dirent'[q] = dirent[q] \/ dirent'[q] \in {EMPTY, UNNAMED}
    BY <1>2, ZenonT(60) DEF ClearDirectory
  <2>2. QED
    BY <2>1 DEF Files, EMPTY, UNNAMED
<1>3. CASE WriteEntry
  <2>1. UNCHANGED dirent \/ \E q : dirent' = [dirent EXCEPT ![q] = NewEntry]
    BY <1>3, ZenonT(60) DEF WriteEntry
  <2>2. NewEntry.size = 0
    BY DEF NewEntry
  <2>3. ASSUME NEW q, dirent' = [dirent EXCEPT ![q] = NewEntry]
        PROVE  Old \/ dirent'[p].size = 0
    BY <2>2, <2>3, ZenonT(60) DEF Files, IInv, TypeOK
  <2>4. QED
    BY <1>1, <2>1, <2>3, ZenonT(60)
<1>4. CASE WriteSector
  BY <1>1, <1>4, OverrunIsNotCalm, ZenonT(60) DEF WriteSector
<1>5. CASE Call
  BY <1>1, <1>5, ZenonT(60) DEF Call, OpenExisting, Create, Close, StartRead, StartWrite, Seek, disk
<1>6. CASE Allocate \/ Undo \/ Link
  BY <1>1, <1>6, ZenonT(60) DEF Allocate, Undo, Link, WriteFat
<1>7. CASE ScanFault \/ DiskFull \/ DirectoryFull \/ ReadSector \/ ReadFails \/ WriteFails
  BY <1>1, <1>7, ZenonT(60) DEF ScanFault, DiskFull, DirectoryFull, ReadSector, ReadFails, WriteFails, disk
<1>8. CASE WriteFirst \/ OwnCluster \/ Advance \/ Extend
  BY <1>1, <1>8, ZenonT(60) DEF WriteFirst, OwnCluster, Advance, Extend, disk
<1>9. CASE Restart \/ Ls("flat") \/ Ls("recursive") \/ ListEntry \/ ListReturns \/ LsReturns
  BY <1>1, <1>9, ZenonT(60) DEF Restart, Ls, ListEntry, ListReturns, LsReturns, disk
<1>10. CASE UNCHANGED vars
  BY <1>1, <1>10, ZenonT(60) DEF vars, disk
<1>11. QED
  BY <1>2, <1>3, <1>4, <1>5, <1>6, <1>7, <1>8, <1>9, <1>10, ZenonT(60) DEF LsNext, Next, Steps

LEMMA LongFilesStep ==
  ASSUME Steady, LongFiles, [LsNext]_vars, Calm'
  PROVE  LongFiles'
<1>1. ASSUME NEW p \in Files'
      PROVE  Whole(fat', dirent'[p].first, dirent'[p].size)
  <2>1. CASE p \in Files /\ dirent'[p] = dirent[p]
    BY <2>1, WholeGrows, ZenonT(60) DEF LongFiles, Steady
  <2>2. CASE dirent'[p].size = 0
    <3>1. \A n \in Nat : ~ (n < 0)
      OBVIOUS
    <3>2. QED
      BY <2>2, <3>1, ZenonT(60) DEF Whole
  <2>3. QED
    BY <2>1, <2>2, SizesStay, ZenonT(60) DEF Steady
<1>2. QED
  BY <1>1, ZenonT(60) DEF LongFiles

LEMMA CursorsStep ==
  ASSUME Steady, LongFiles, [LsNext]_vars, "full" \notin mishaps'
  PROVE  Cursors'
<1>1. CASE Call
  <2>1. CASE \E p \in Paths, m \in Modes : OpenExisting(p, m)
    BY <2>1, OpenExistingCursors, ZenonT(60)
  <2>2. CASE \E op \in {"open", "mkdir"}, p \in Paths, m \in Modes : Create(op, p, m)
    BY <2>2, CreateCursors, ZenonT(60)
  <2>3. CASE \E h \in Handles : Close(h)
    BY <2>3, CloseCursors, ZenonT(60)
  <2>4. CASE \E h \in Handles, n \in Lengths : StartRead(h, n)
    BY <2>4, StartReadCursors, ZenonT(60)
  <2>5. CASE \E h \in Handles, n \in Lengths : StartWrite(h, n)
    BY <2>5, StartWriteCursors, ZenonT(60)
  <2>6. CASE \E h \in Handles, n \in Lengths : Seek(h, n)
    BY <2>6, SeekCursors, ZenonT(60)
  <2>7. QED
    BY <1>1, <2>1, <2>2, <2>3, <2>4, <2>5, <2>6, ZenonT(60) DEF Call, Modes
<1>2. CASE Undo \/ ClearDirectory \/ DirectoryFull \/ WriteFails
  <2>1. /\ UNCHANGED open_files /\ pc \in {"undo", "clear", "slot", "write"}
        /\ pc' \in {"idle", "slot", "undo"}
    BY <1>2, ZenonT(60) DEF Undo, WriteFat, ClearDirectory, DirectoryFull, WriteFails, Goto, Return
  <2>2. /\ pc \notin {"advance", "link", "own", "alloc"}
        /\ pc' \notin {"advance", "link", "own", "alloc", "write", "read"}
    BY <2>1
  <2>3. QED
    BY <2>1, <2>2, PassingCursors, ZenonT(60)
<1>3. ~ (ScanFault \/ DiskFull \/ ReadFails)
  BY FaultIsCalm DEF ScanFault, DiskFull, ReadFails, Mishap, Steady
<1>4. CASE Ls("flat") \/ Ls("recursive") \/ ListEntry \/ ListReturns \/ LsReturns
  <2>1. UNCHANGED open_files /\ pc \in {"idle", "list"} /\ pc' \in {"idle", "list"}
    BY <1>4, ZenonT(60) DEF Ls, ListEntry, ListReturns, LsReturns, Return
  <2>2. /\ pc \notin {"advance", "link", "own", "alloc"}
        /\ pc' \notin {"advance", "link", "own", "alloc", "write", "read"}
    BY <2>1
  <2>3. QED
    BY <2>1, <2>2, PassingCursors, ZenonT(60)
<1>5. CASE UNCHANGED vars
  <2>1. UNCHANGED <<open_files, pc, call>>
    BY <1>5, ZenonT(60) DEF vars
  <2>2. Owning' /\ Modal' /\ Reading' /\ \A h : Lagging(h)' <=> Lagging(h)
    BY <2>1, ZenonT(60) DEF Steady, Cursors, Owning, Modal, Reading, Lagging, Behind, File
  <2>3. QED
    BY <2>1, <2>2, QuietCursors, ZenonT(60)
<1>6. CASE Allocate \/ WriteEntry \/ ReadSector \/ WriteFirst \/ OwnCluster \/ WriteSector
           \/ Advance \/ Extend \/ Link \/ Restart
  BY <1>6, AllocateCursors, WriteEntryCursors, ReadSectorCursors, WriteFirstCursors,
     OwnClusterCursors, WriteSectorCursors, AdvanceCursors, ExtendCursors, LinkCursors,
     RestartCursors, ZenonT(60)
<1>7. QED
  BY <1>1, <1>2, <1>3, <1>4, <1>5, <1>6, ZenonT(60) DEF LsNext, Next, Steps

\* On a damaged disk nothing is opened.
Unopened ==
  "loop" \in mishaps => pc \in {"idle", "list"} /\ \A h \in Handles : open_files[h] = UNUSED

LEMMA UnopenedStep ==
  ASSUME Unopened, [LsNext]_vars
  PROVE  Unopened'
<1> SUFFICES ASSUME "loop" \in mishaps'
             PROVE  pc' \in {"idle", "list"} /\ \A h \in Handles : open_files'[h] = UNUSED
  BY ZenonT(60) DEF Unopened
<1>1. /\ "loop" \in mishaps /\ pc \in {"idle", "list"}
      /\ \A h \in Handles : open_files[h] = UNUSED
  BY OnRecord, ZenonT(60) DEF Unopened
<1>2. ~ Sound
  BY <1>1 DEF Sound
<1>3. ~ (ScanFault \/ Allocate \/ DiskFull \/ Undo \/ ClearDirectory \/ WriteEntry \/ DirectoryFull)
  BY <1>1 DEF ScanFault, Allocate, DiskFull, Undo, ClearDirectory, WriteEntry, DirectoryFull
<1>4. ~ (ReadSector \/ ReadFails \/ WriteFirst \/ OwnCluster \/ WriteSector \/ WriteFails)
  BY <1>1 DEF ReadSector, ReadFails, WriteFirst, OwnCluster, WriteSector, WriteFails
<1>5. ~ (Advance \/ Extend \/ Link)
  BY <1>1 DEF Advance, Extend, Link
<1>6. CASE Restart
  BY <1>6, ZenonT(60) DEF Restart, Return
<1>7. CASE Ls("flat") \/ Ls("recursive") \/ ListEntry \/ ListReturns \/ LsReturns
  BY <1>1, <1>7, ZenonT(60) DEF Ls, ListEntry, ListReturns, LsReturns, Return
<1>8. CASE UNCHANGED vars
  BY <1>1, <1>8, ZenonT(60) DEF vars
<1>9. QED
  BY <1>2, <1>3, <1>4, <1>5, <1>6, <1>7, <1>8, ZenonT(60) DEF LsNext, Next, Steps

\* A write that was done and reported as failed is a fault.
Reported == "torn" \in mishaps => "fault" \in mishaps

CursorInv == Unopened /\ Reported /\ (Tidy => LongFiles /\ Cursors)

LEMMA InitCursorInv == Init => CursorInv
<1> SUFFICES ASSUME Init
             PROVE  CursorInv
  OBVIOUS
<1>1. pc = "idle" /\ \A h \in Handles : open_files[h] = UNUSED
  BY ZenonT(60) DEF Init
<1>2. Unopened
  BY <1>1, ZenonT(60) DEF Unopened
<1>3. Cursors
  <2>1. pc \notin {"advance", "link", "own", "alloc", "write", "read"}
    BY <1>1
  <2>2. QED
    BY <1>1, <2>1, NotWriting, ZenonT(60) DEF Cursors, Placed, Reading
<1>4. ASSUME Tidy
      PROVE  LongFiles
  <2>1. PICK d \in Disks : fat = d.fat /\ dirent = d.dirent /\ mishaps = d.damage
    BY DEF Init
  <2>2. d.damage = {} /\ d.dirent \in [Places -> Dirents \cup {EMPTY, DELETED, UNNAMED}]
    BY <1>4, <2>1, Fat32Assumption DEF Tidy
  <2>3. LongEnough(fat, dirent)
    BY <2>1, <2>2, DisksAssumption, ZenonT(60)
  <2>4. ASSUME NEW p \in Files
        PROVE  Whole(fat, dirent[p].first, dirent[p].size)
    <3>1. PICK size \in Nat : size = dirent[p].size
      BY <2>1, <2>2 DEF Files, Dirents, EMPTY, DELETED, UNNAMED
    <3>2. \A n \in Nat : n < size => n \in 0 .. size - 1
      OBVIOUS
    <3>3. QED
      BY <2>3, <3>1, <3>2, ZenonT(60) DEF LongEnough, Whole, Files
  <2>5. QED
    BY <2>4, ZenonT(60) DEF LongFiles
<1>5. Reported
  BY Fat32Assumption DEF Init, Reported
<1>6. QED
  BY <1>2, <1>3, <1>4, <1>5 DEF CursorInv

LEMMA NextCursorInv ==
  ASSUME Calm => IInv, CursorInv, [LsNext]_vars
  PROVE  CursorInv'
<1>1. Unopened'
  BY UnopenedStep, ZenonT(60) DEF CursorInv
<1>2. ASSUME Tidy'
      PROVE  LongFiles' /\ Cursors'
  <2>1. Tidy /\ Calm /\ Sound /\ Faultless' /\ Calm' /\ "full" \notin mishaps'
    <3>1. Tidy
      BY <1>2, OnRecord DEF Tidy
    <3>2. "torn" \notin mishaps
      BY <3>1 DEF Tidy, CursorInv, Reported
    <3>3. QED
      BY <1>2, <3>1, <3>2 DEF Tidy, Calm, Sound, Faultless
  <2>2. Steady
    BY <2>1, LinksStay, ZenonT(60) DEF Steady, CursorInv
  <2>3. QED
    BY <2>1, <2>2, LongFilesStep, CursorsStep, ZenonT(60) DEF CursorInv
<1>3. Reported'
  BY OnRecord DEF CursorInv, Reported
<1>4. QED
  BY <1>1, <1>2, <1>3 DEF CursorInv

LEMMA CursorInvHolds == LsSpec => []CursorInv
<1>1. Init => CursorInv
  BY InitCursorInv
<1>2. (Calm => IInv) /\ CursorInv /\ [LsNext]_vars => CursorInv'
  BY NextCursorInv
<1>3. QED
  BY <1>1, <1>2, IInvHolds, PTL DEF LsSpec

\* The cursor of an open file is where file_pos says: the theorem for
\* CursorAgrees.
THEOREM FilesKeepTheirPlace == LsSpec => []CursorAgrees
<1>1. ASSUME Calm => IInv, CursorInv
      PROVE  CursorAgrees
  <2> SUFFICES ASSUME InPlace, pc \in {"idle", "read", "write"}, NEW h \in Handles,
                      open_files[h] # UNUSED, open_files[h].mode # "a",
                      open_files[h].mode = "r" => open_files[h].pos < open_files[h].size
               PROVE  /\ open_files[h].curr = Nth(open_files[h].first, open_files[h].pos \div B)
                      /\ open_files[h].offset = open_files[h].pos % B
                      /\ pc = "read" /\ call.h = h => open_files[h].curr \in Entries
    BY ZenonT(60) DEF CursorAgrees
  <2>1. "loop" \notin mishaps
    BY <1>1, ZenonT(60) DEF CursorInv, Unopened
  <2>2. Tidy /\ Calm
    BY <2>1 DEF InPlace, Tidy, Calm
  <2>3. IInv /\ Cursors
    BY <1>1, <2>2, ZenonT(60) DEF CursorInv
  <2>4. PICK f \in FileRecords : f = open_files[h]
    BY <2>3, FileTypes, ZenonT(60)
  <2>5. CASE f.mode = "w"
    <3>1. WriteAt(fat, f) /\ ~ Lagging(h)
      BY <2>3, <2>4, <2>5, ZenonT(60) DEF Cursors, Placed, Lagging, Behind
    <3>2. f.curr = Nth(f.first, f.pos \div B) /\ f.offset = f.pos % B
      <4>1. 0 \div B = 0 /\ 0 % B = 0 /\ NthIn(fat, f.first, 0) = f.first
        BY NthZero, Constants
      <4>2. QED
        BY <3>1, <4>1, ZenonT(60) DEF WriteAt, Nth
    <3>3. pc = "read" /\ call.h = h => FALSE
      BY <2>3, <2>4, <2>5 DEF Cursors, Reading, File
    <3>4. QED
      BY <2>4, <3>2, <3>3, ZenonT(60)
  <2>6. CASE f.mode = "r"
    <3>1. ReadAt(fat, f) /\ f.pos < f.size
      BY <2>3, <2>4, <2>6, ZenonT(60) DEF Cursors, Placed
    <3>2. NthIn(fat, f.first, f.pos \div B) \in Entries
      BY <3>1, ZenonT(60) DEF ReadAt, Whole, FileRecords
    <3>3. QED
      BY <2>4, <3>1, <3>2, ZenonT(60) DEF ReadAt, Nth
  <2>7. QED
    BY <2>4, <2>5, <2>6 DEF FileRecords, Modes
<1>2. QED
  BY <1>1, IInvHolds, CursorInvHolds, PTL

=============================================================================
