-------------------------------- MODULE Fat32 --------------------------------
(***************************************************************************)
(* The FAT32 driver, kernel/src/fat32.c, and the seek of fat32_vfs.c.      *)
(*                                                                         *)
(* On disk: the first FAT and the directory entries.  In memory: the table *)
(* of open files.  A call runs as a sequence of steps, one per sector it   *)
(* writes, so that the machine can stop between any two of them; a step    *)
(* that uses the disk may also fail.  What data clusters hold is left out, *)
(* a sector is one unit of file data and B of them are a cluster.          *)
(*                                                                         *)
(* A path is a sequence of 8.3 names.  Entries behind LastCluster are      *)
(* those that fill the last sector of the FAT: allocate_cluster scans to   *)
(* 0x0FFFFFF0 and takes them too, but the disk ends before their sectors.  *)
(* What the scan would find behind the FAT is left out.  Callers open no   *)
(* directory for writing.                                                  *)
(***************************************************************************)
EXTENDS Integers, Sequences, FiniteSets

CONSTANTS LastCluster,      \* last cluster the volume has
          LastEntry,        \* last entry of the FAT
          Slots,            \* directory entries of a cluster
          B,                \* sectors_per_cluster
          MAX_OPEN_FILES,
          Paths,            \* arguments of fat32_open and fat32_mkdir
          Lengths,          \* arguments of read, write and seek
          MaxPos,           \* bound: no write begins behind it
          Disks             \* the volumes found at boot: [fat, dirent], how
                            \* often they fail (a bound) and what ails them

FREE == 0                   \* FAT32_FREE_CLUSTER, and "no cluster"
EOC == -1                   \* FAT32_EOC_MIN and up, and 0xFFFFFFFF
Root == 2                   \* bpb.root_cluster

Clusters == 2 .. LastCluster
Entries == 2 .. LastEntry
Places == Clusters \X (1 .. Slots)   \* of directory entries
Handles == 1 .. MAX_OPEN_FILES
Names == UNION {{p[i] : i \in DOMAIN p} : p \in Paths}

\* First byte 0x00; first byte 0xE5; one that no path names: a part of a long
\* name, or "." and ".." as mkdir writes them.
EMPTY == [kind |-> "empty"]
DELETED == [kind |-> "deleted"]
UNNAMED == [kind |-> "unnamed"]

Dirents == [kind : {"file", "dir"}, name : Names, first : Entries \cup {FREE}, size : Nat]

ASSUME Fat32Assumption ==
  /\ LastCluster \in Nat /\ LastCluster >= Root
  /\ LastEntry \in Nat /\ LastEntry >= LastCluster
  /\ Slots \in Nat /\ Slots > 2
  /\ B \in Nat \ {0}
  /\ MAX_OPEN_FILES \in Nat
  /\ \A p \in Paths : p \in Seq(STRING) /\ p # <<>>
  /\ Lengths \subseteq Nat \ {0}
  /\ Disks \subseteq [fat : [Entries -> Entries \cup {FREE, EOC}],
                      dirent : [Places -> Dirents \cup {EMPTY, DELETED, UNNAMED}],
                      faults : Nat,
                      damage : SUBSET {"loop"}]

\* Every cluster has one reference at most, the root none, and what is referred
\* to is marked as taken.
WellFormed(f, d) ==
  LET files == {p \in Places : d[p].kind \in {"file", "dir"}}
  IN  /\ \A a, b \in Entries : f[a] = f[b] /\ f[a] \in Entries => a = b
      /\ \A p, q \in files : d[p].first = d[q].first /\ d[p].first \in Entries => p = q
      /\ \A a \in Entries, p \in files : f[a] \in Entries => f[a] # d[p].first
      /\ \A c \in Entries :
           c \in {f[a] : a \in Entries} \cup {d[p].first : p \in files} => c # Root /\ f[c] # FREE
      /\ f[Root] # FREE

\* What follows c by the links of f; EOC once the chain has ended.
Follow(f, c) == IF c \in Entries THEN f[c] ELSE EOC

\* The n-th cluster of the chain that begins at c.
NthIn(f, c, n) ==
  LET s[k \in 0 .. n] == IF k = 0 THEN c ELSE Follow(f, s[k - 1])
  IN  s[n]

\* A file has a cluster for each of its sectors.
LongEnough(f, d) ==
  \A p \in Places : d[p].kind \in {"file", "dir"} =>
    \A n \in 0 .. d[p].size - 1 : NthIn(f, d[p].first, n \div B) \in Entries

\* A volume that is not said to be damaged is well formed.
ASSUME DisksAssumption ==
  \A d \in Disks : d.damage = {} => WellFormed(d.fat, d.dirent) /\ LongEnough(d.fat, d.dirent)

VARIABLES fat, dirent,      \* on disk
          open_files,       \* UNUSED or a fat32_file_t
          pc,
          call,             \* locals of the call in progress
          faults,           \* times the disk will yet fail
          mishaps           \* history: what has gone wrong

disk == <<fat, dirent>>
history == <<faults, mishaps>>
vars == <<disk, open_files, pc, call, history>>

UNUSED == [mode |-> "unused"]
NoCall == [op |-> "none"]

Init ==
  /\ \E d \in Disks :
       /\ fat = d.fat /\ dirent = d.dirent
       /\ faults = d.faults /\ mishaps = d.damage
  /\ open_files = [h \in Handles |-> UNUSED]
  /\ pc = "idle"
  /\ call = NoCall

-----------------------------------------------------------------------------
(* Reading the disk *)

\* What follows c in its chain; EOC once that has ended.
fat32_next_cluster(c) == Follow(fat, c)

Nth(c, n) == NthIn(fat, c, n)

Chain(c) == {Nth(c, n) : n \in 0 .. LastEntry - 2} \cap Entries

\* The places of the entries of files and directories.
Files == {p \in Places : dirent[p].kind \in {"file", "dir"}}

\* Directory entries in the order in which the driver reads them.
At(d, i) == <<Nth(d, (i - 1) \div Slots), ((i - 1) % Slots) + 1>>

\* A directory is read as long as its chain stays on the disk.
Indices(d) ==
  LET read == {n \in 0 .. LastEntry - 2 : \A k \in 0 .. n : Nth(d, k) \in Clusters}
  IN  {i \in 1 .. Slots * (LastEntry - 1) : (i - 1) \div Slots \in read}

\* The least of some numbers (one, or none).
First(S) == {i \in S : \A j \in S : i <= j}

Lesser(m, n) == IF m < n THEN m ELSE n

\* Wrong on purpose: stops at a deleted entry.
FoundBeforeDeleted(d, name) ==
  {i \in Indices(d) :
     /\ dirent[At(d, i)].kind \in {"file", "dir"} /\ dirent[At(d, i)].name = name
     /\ \A j \in 1 .. i - 1 : dirent[At(d, j)] \notin {EMPTY, DELETED}}

\* fat32_find stops at the first entry that was never used.
Found(d, name) ==
  {i \in Indices(d) :
     /\ dirent[At(d, i)].kind \in {"file", "dir"} /\ dirent[At(d, i)].name = name
     /\ \A j \in 1 .. i - 1 : dirent[At(d, j)] # EMPTY}

\* fat32_find: the entry with that name (one, or none).
Lookup(d, name) == {dirent[At(d, i)] : i \in First(Found(d, name))}

\* find_free_dirent_slot
FreeSlots(d) == {i \in Indices(d) : dirent[At(d, i)] \in {EMPTY, DELETED}}

\* fat32_resolve: the directories a path may end in (one, or none).
Parents(path) ==
  LET f[n \in 0 .. Len(path) - 1] ==
        IF n = 0 THEN {Root}
        ELSE {e.first : e \in {x \in UNION {Lookup(d, path[n]) : d \in f[n - 1]} : x.kind = "dir"}}
  IN  f[Len(path) - 1]

-----------------------------------------------------------------------------
(* Steps that may fail *)

Fault ==
  /\ faults > 0
  /\ faults' = faults - 1
  /\ mishaps' = mishaps \cup {"fault"}

\* The device reports as failed what it has done.
TornFault ==
  /\ faults > 0
  /\ faults' = faults - 1
  /\ mishaps' = mishaps \cup {"fault", "torn"}

Mishap(m) == mishaps' = mishaps \cup {m} /\ UNCHANGED faults

Return == pc' = "idle" /\ call' = NoCall

Goto(l) == pc' = l /\ UNCHANGED call

\* write_fat_entry.  A write that fails may have reached the disk.
WriteFat(c, v, Ok, Failed) ==
  /\ UNCHANGED dirent
  /\ \/ fat' = [fat EXCEPT ![c] = v] /\ Ok /\ UNCHANGED history
     \/ UNCHANGED fat /\ Failed /\ Fault
     \/ fat' = [fat EXCEPT ![c] = v] /\ Failed
        /\ TornFault

\* Wrong on purpose: the end of a chain is taken for a free cluster.
FreeFromEnds(n) == {c \in Entries : c >= n /\ fat[c] \in {FREE, EOC}}

FreeFrom(n) == {c \in Entries : c >= n /\ fat[c] = FREE}

\* The scan of allocate_cluster takes an entry that it cannot read for a bad one.
ScanFault ==
  /\ pc = "alloc"
  /\ \E c \in First(FreeFrom(call.from)) : call' = [call EXCEPT !.from = c + 1]
  /\ Fault
  /\ UNCHANGED <<disk, open_files, pc>>

\* Wrong on purpose: the cluster is not marked.
AllocateUnmarked ==
  /\ pc = "alloc"
  /\ \E c \in First(FreeFrom(call.from)) : pc' = call.then /\ call' = [call EXCEPT !.new = c]
  /\ UNCHANGED <<disk, open_files, history>>

\* allocate_cluster up to the end mark; call.then says what its caller does next.
Allocate ==
  /\ pc = "alloc"
  /\ \E c \in First(FreeFrom(call.from)) :
       WriteFat(c, EOC, pc' = call.then /\ call' = [call EXCEPT !.new = c], Return)
  /\ UNCHANGED open_files

DiskFull ==
  /\ pc = "alloc" /\ FreeFrom(call.from) = {}
  /\ Return
  /\ Mishap("full")
  /\ UNCHANGED <<disk, open_files>>

\* Every error path gives the new cluster back, and ignores whether that fails.
Undo ==
  /\ pc = "undo"
  /\ WriteFat(call.new, FREE, Return, Return)
  /\ UNCHANGED open_files

-----------------------------------------------------------------------------
(* fat32_open, fat32_close, fat32_mkdir *)

\* The first unused element of open_files, if there is one.
TakeHandle(first, size, mode) ==
  LET free == {h \in Handles : open_files[h] = UNUSED}
      file == [mode |-> mode, first |-> first, curr |-> first, offset |-> 0,
               size |-> IF mode = "w" THEN 0 ELSE size,
               pos |-> IF mode = "a" THEN size ELSE 0]
  IN  open_files' = [h \in Handles |-> IF h \in First(free) THEN file ELSE open_files[h]]

OpenExisting(path, mode) ==
  /\ pc = "idle"
  /\ \E d \in Parents(path) :
       \E e \in Lookup(d, path[Len(path)]) :
         /\ e.kind = "dir" => mode = "r"
         /\ TakeHandle(e.first, e.size, mode)
  /\ UNCHANGED <<disk, pc, call, history>>

\* The file is created, or the directory made, when fat32_find does not find the
\* name, also because it could not read a sector.
Create(op, path, mode) ==
  /\ pc = "idle"
  /\ \E d \in Parents(path) :
       /\ IF Found(d, path[Len(path)]) = {} THEN UNCHANGED history ELSE Fault
       /\ call' = [op |-> op, then |-> IF op = "open" THEN "slot" ELSE "clear",
                   parent |-> d, name |-> path[Len(path)], mode |-> mode,
                   from |-> 2, new |-> FREE]
  /\ pc' = "alloc"
  /\ UNCHANGED <<disk, open_files>>

\* fat32_mkdir clears the cluster and writes "." and ".."; nothing refers to the
\* cluster yet.
ClearDirectory ==
  /\ pc = "clear"
  /\ \/ /\ call.new \in Clusters
        /\ dirent' = [p \in Places |->
             IF p[1] # call.new THEN dirent[p] ELSE IF p[2] <= 2 THEN UNNAMED ELSE EMPTY]
        /\ Goto("slot")
        /\ UNCHANGED history
     \/ /\ call.new \notin Clusters      \* no such sector
        /\ Goto("undo")
        /\ UNCHANGED <<dirent, history>>
     \/ Goto("undo") /\ Fault /\ UNCHANGED dirent
  /\ UNCHANGED <<fat, open_files>>

NewEntry == [kind |-> IF call.op = "mkdir" THEN "dir" ELSE "file",
             name |-> call.name, first |-> call.new, size |-> 0]

\* find_free_dirent_slot, then the sector is written with the new entry.
WriteEntry ==
  /\ pc = "slot"
  /\ \E i \in First(FreeSlots(call.parent)) :
       LET written == [dirent EXCEPT ![At(call.parent, i)] = NewEntry]
       IN  \/ /\ dirent' = written
              /\ IF call.op = "open" THEN TakeHandle(call.new, 0, call.mode)
                 ELSE UNCHANGED open_files
              /\ Return
              /\ UNCHANGED history
           \/ Goto("undo") /\ Fault /\ UNCHANGED <<dirent, open_files>>
           \/ /\ dirent' = written
              /\ Goto("undo")
              /\ TornFault
              /\ UNCHANGED open_files
  /\ UNCHANGED fat

\* Wrong on purpose: tries again, or forgets the new cluster.
DirectoryFullRetries ==
  /\ pc = "slot" /\ FreeSlots(call.parent) = {}
  /\ UNCHANGED vars

DirectoryFullForgets ==
  /\ pc = "slot" /\ FreeSlots(call.parent) = {}
  /\ Return
  /\ UNCHANGED <<disk, open_files, history>>

\* Directories do not grow.
DirectoryFull ==
  /\ pc = "slot" /\ FreeSlots(call.parent) = {}
  /\ Goto("undo")
  /\ UNCHANGED <<disk, open_files, history>>

\* Files whose cluster no directory entry names: only the open file knows it.
Orphans == {h \in Handles :
              /\ open_files[h] # UNUSED
              /\ open_files[h].first \notin {dirent[p].first : p \in Files} \cup {FREE}}

Close(h) ==
  /\ pc = "idle" /\ open_files[h] # UNUSED
  /\ open_files' = [open_files EXCEPT ![h] = UNUSED]
  /\ IF h \in Orphans THEN Mishap("lost") ELSE UNCHANGED history
  /\ UNCHANGED <<disk, pc, call>>

-----------------------------------------------------------------------------
(* fat32_read, fat32_write, fat32_vfs_seek *)

File == open_files[call.h]

Update(file) == open_files' = [open_files EXCEPT ![call.h] = file]

\* The loop goes on while there is something left.
Loop(left) ==
  IF left = 0 THEN Return
  ELSE call' = [call EXCEPT !.left = left] /\ pc' = call.loop

StartRead(h, n) ==
  /\ pc = "idle" /\ open_files[h] # UNUSED
  /\ LET f == open_files[h]
     IN  /\ f.mode = "r" /\ f.pos < f.size
         /\ call' = [op |-> "read", loop |-> "read", h |-> h,
                     left |-> Lesser(n, f.size - f.pos)]
  /\ pc' = "read"
  /\ UNCHANGED <<disk, open_files, history>>

\* Back to the first cluster, then forward by reading; a file that is open for
\* writing cannot be read and stays at the beginning.
Seek(h, n) ==
  /\ pc = "idle" /\ open_files[h] # UNUSED
  /\ LET f == [open_files[h] EXCEPT !.curr = open_files[h].first, !.offset = 0, !.pos = 0]
     IN  /\ open_files' = [open_files EXCEPT ![h] = f]
         /\ IF f.mode # "r" \/ n = 0 \/ f.size = 0 THEN UNCHANGED <<pc, call>>
            ELSE /\ pc' = "read"
                 /\ call' = [op |-> "seek", loop |-> "read", h |-> h,
                             left |-> Lesser(n, f.size)]
  /\ UNCHANGED <<disk, history>>

\* One sector.  At the end of a cluster the file moves on to the next, to EOC
\* also if the FAT cannot be read; fat32_read returns then, the loop of seek
\* calls it again.
ReadSector ==
  /\ pc = "read"
  /\ \E next \in {fat32_next_cluster(File.curr), EOC} :
       LET leaves == File.offset + 1 >= B
           moved == [File EXCEPT !.pos = @ + 1,
                                 !.offset = IF leaves THEN 0 ELSE @ + 1,
                                 !.curr = IF leaves THEN next ELSE @]
       IN  /\ leaves \/ next = fat32_next_cluster(File.curr)
           /\ Update(moved)
           /\ IF leaves /\ next = EOC /\ call.op = "read" THEN Return
              ELSE Loop(call.left - 1)
           /\ IF next = fat32_next_cluster(File.curr) THEN UNCHANGED history ELSE Fault
  /\ UNCHANGED disk

ReadFails ==
  /\ pc = "read"
  /\ Return
  /\ Fault
  /\ UNCHANGED <<disk, open_files>>

StartWrite(h, n) ==
  /\ pc = "idle" /\ open_files[h] # UNUSED
  /\ open_files[h].mode # "r" /\ open_files[h].pos < MaxPos
  /\ call' = [op |-> "write", loop |-> "write", h |-> h, left |-> n,
              then |-> "link", from |-> 2, new |-> FREE]
  /\ pc' = "write"
  /\ UNCHANGED <<disk, open_files, history>>

\* A file without a cluster gets one, which its directory entry is never told.
WriteFirst ==
  /\ pc = "write" /\ File.curr = FREE
  /\ pc' = "alloc"
  /\ call' = [call EXCEPT !.then = "own", !.from = 2]
  /\ UNCHANGED <<disk, open_files, history>>

OwnCluster ==
  /\ pc = "own"
  /\ Update([File EXCEPT !.first = call.new, !.curr = call.new, !.offset = 0])
  /\ Goto("write")
  /\ UNCHANGED <<disk, history>>

\* The cluster whose sector is written: behind curr when offset is not in it.
Target == File.curr + (File.offset \div B)

\* One sector is written.  Outside of curr it may hit a directory.
WriteSector ==
  /\ pc = "write" /\ File.curr # FREE
  /\ Target \in Clusters
  /\ Update([File EXCEPT !.pos = @ + 1, !.offset = @ + 1,
                         !.size = IF File.pos + 1 > @ THEN File.pos + 1 ELSE @])
  /\ IF File.offset + 1 >= B
     THEN pc' = "advance" /\ call' = [call EXCEPT !.left = @ - 1]
     ELSE Loop(call.left - 1)
  /\ IF Target = File.curr THEN UNCHANGED <<dirent, history>>
     ELSE /\ dirent' = [p \in Places |-> IF p[1] = Target THEN EMPTY ELSE dirent[p]]
          /\ Mishap("overrun")
  /\ UNCHANGED fat

\* The disk refuses the sector or does not have it.
WriteFails ==
  /\ pc = "write" /\ File.curr # FREE
  /\ Return
  /\ IF Target \in Clusters THEN Fault ELSE UNCHANGED history
  /\ UNCHANGED <<disk, open_files>>

\* Wrong on purpose: curr_offset is not reset, or clusters are taken in order.
AdvanceKeepsOffset ==
  /\ pc = "advance" /\ fat[File.curr] # EOC
  /\ Update([File EXCEPT !.curr = fat[File.curr]])
  /\ Loop(call.left)
  /\ UNCHANGED <<disk, history>>

AdvanceInOrder ==
  /\ pc = "advance" /\ fat[File.curr] # EOC
  /\ Update([File EXCEPT !.curr = @ + 1, !.offset = 0])
  /\ Loop(call.left)
  /\ UNCHANGED <<disk, history>>

\* At the end of a cluster the file moves on to the next one at once.
Advance ==
  /\ pc = "advance" /\ fat[File.curr] # EOC
  /\ Update([File EXCEPT !.curr = fat[File.curr], !.offset = 0])
  /\ Loop(call.left)
  /\ UNCHANGED <<disk, history>>

\* Wrong on purpose: a new cluster is linked also if there is a next one.
ExtendAlways ==
  /\ pc = "advance"
  /\ pc' = "alloc"
  /\ call' = [call EXCEPT !.then = "link", !.from = 2]
  /\ UNCHANGED <<disk, open_files, history>>

\* There is none, or the FAT could not be read: a new one.
Extend ==
  /\ pc = "advance"
  /\ pc' = "alloc"
  /\ call' = [call EXCEPT !.then = "link", !.from = 2]
  /\ IF fat[File.curr] = EOC THEN UNCHANGED history ELSE Fault
  /\ UNCHANGED <<disk, open_files>>

\* The second write of allocate_cluster.
Link ==
  /\ pc = "link"
  /\ WriteFat(File.curr, call.new,
              Loop(call.left) /\ Update([File EXCEPT !.curr = call.new, !.offset = 0]),
              Goto("undo") /\ UNCHANGED open_files)

-----------------------------------------------------------------------------

\* The machine stops and starts again: only the disk survives.
Restart ==
  /\ open_files' = [h \in Handles |-> UNUSED]
  /\ Return
  /\ IF pc = "idle" /\ Orphans = {} THEN UNCHANGED history ELSE Mishap("lost")
  /\ UNCHANGED disk

\* The directories of the disk form a tree, the device did not apply a write that
\* it reported as failed, and no write left the cluster of its file.  Bound: no
\* call that writes begins otherwise.
Sound == mishaps \cap {"loop", "torn", "overrun"} = {}

\* No sector could not be read or written.
Faultless == "fault" \notin mishaps

Call ==
  \/ \E p \in Paths, m \in {"r", "w", "a"} :
       OpenExisting(p, m) \/ (m # "r" /\ Create("open", p, m))
  \/ \E p \in Paths : Create("mkdir", p, "r")
  \/ \E h \in Handles :
       Close(h) \/ \E n \in Lengths : StartRead(h, n) \/ StartWrite(h, n) \/ Seek(h, n)

Steps ==
  \/ ScanFault \/ Allocate \/ DiskFull \/ Undo
  \/ ClearDirectory \/ WriteEntry \/ DirectoryFull
  \/ ReadSector \/ ReadFails
  \/ WriteFirst \/ OwnCluster \/ WriteSector \/ WriteFails \/ Advance \/ Extend \/ Link

Next == (Sound /\ Call) \/ Steps \/ Restart

Spec == Init /\ [][Next]_vars /\ WF_vars(Steps)

-----------------------------------------------------------------------------

\* The links and entries that lead to a cluster.
Refs(c) == {e \in Entries : fat[e] = c} \cup {p \in Files : dirent[p].first = c}

\* The cluster that a call in progress has taken and not given away.
Taken == IF pc \in {"slot", "clear", "link", "own", "undo"} THEN {call.new} ELSE {}

\* No cluster belongs to two chains, and none that a call has taken belongs to
\* any: whatever order the writes of open, mkdir and write come in, wherever
\* they stop or fail, no file can overwrite another.  So chains end, and with
\* them the loops of the driver.  After a write that was reported as failed but
\* done, the cluster that is given back may still be in one chain, never in two.
NoCrossLink ==
  mishaps \cap {"loop", "overrun"} = {} =>
    /\ \A c \in Entries : \A x, y \in Refs(c) : x = y
    /\ Refs(Root) = {}
    /\ Sound => \A c \in Taken : Refs(c) = {}

\* What a link, an entry, an open file or a call in progress names is marked as
\* taken in the FAT: a cluster is marked before anything refers to it, and given
\* back only when nothing does.  A write that was reported as failed but done
\* leaves one exception at most, the cluster that its call has given back.
NoDangling ==
  mishaps \cap {"loop", "overrun"} = {} =>
    LET named == {fat[e] : e \in Entries} \cup {dirent[p].first : p \in Files} \cup Taken
                   \cup {open_files[h].curr : h \in {i \in Handles : open_files[i] # UNUSED}}
        dangling == {c \in named \cap Entries : fat[c] = FREE}
    IN  /\ Sound => dangling = {}
        /\ \A c, d \in dangling : c = d

\* As long as every sector can be read, a directory has one entry per name.
NamesUnique ==
  Faultless /\ Sound =>
    \A d \in {Root} \cup {dirent[p].first : p \in {q \in Files : dirent[q].kind = "dir"}} :
      \A i, j \in Indices(d) :
        At(d, i) \in Files /\ At(d, j) \in Files
          /\ dirent[At(d, i)].name = dirent[At(d, j)].name => i = j

\* As long as every sector can be read, a chain only grows at its end.
LinksStable ==
  [][Faultless' /\ Sound =>
       \A c \in Entries : fat[c] \in Entries => fat'[c] = fat[c]]_vars

\* Nothing has made an open file lose its place.
InPlace == mishaps \cap {"fault", "full", "overrun"} = {}

\* curr_cluster and curr_offset are where file_pos says, in the chain of the
\* file, as long as there is something to read there.  (The mode "a" sets
\* file_pos to the end of the file and the cursor to its beginning.)
CursorAgrees ==
  InPlace /\ pc \in {"idle", "read", "write"} =>
    \A h \in Handles :
      LET f == open_files[h]
      IN  f # UNUSED /\ f.mode # "a" /\ (f.mode = "r" => f.pos < f.size) =>
            /\ f.curr = Nth(f.first, f.pos \div B)
            /\ f.offset = f.pos % B
            /\ pc = "read" /\ call.h = h => f.curr \in Entries

\* Data is written to the chain of the file that is written.
WritesStayInChain ==
  [][\A h \in Handles :
       InPlace /\ pc = "write" /\ call.h = h
         /\ open_files'[h] # UNUSED /\ open_files'[h].pos > open_files[h].pos
         => Target \in Chain(open_files[h].first)]_vars

\* Between two calls every cluster that is taken belongs to the root, to a file
\* or directory, or to an open file that had no cluster and got one: the error
\* paths give back what they took, and clusters are lost only by a fault, by a
\* crash, or by closing such a file.
NoLeak ==
  pc = "idle" /\ mishaps \subseteq {"full"} =>
    \A c \in Entries : fat[c] # FREE =>
      \E r \in {Root} \cup {dirent[p].first : p \in Files}
                \cup {open_files[h].first : h \in Orphans} : c \in Chain(r)

\* Every call returns.
CallsReturn == pc # "idle" ~> pc = "idle"

=============================================================================
