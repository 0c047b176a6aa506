------------------------------ MODULE VfsProofs ------------------------------
(***************************************************************************)
(* Proofs about the virtual file system, for any number of mounts, files   *)
(* and elements of the driver's table, and for any paths.                  *)
(***************************************************************************)
EXTENDS Vfs, SequenceTheorems, TLAPS

Flags == SUBSET {"read", "write"}

OpenFile == [state : {"open"}, mount : MountIds, fat_file : 0 .. MAX_OPEN_FILES,
             flags : Flags, pos : Nat]

FatFile == [mode : {"r", "w"}, pos : Nat, size : Nat]

OpenCall == [op : {"open", "opendir"}, f : FileIds, mount : MountIds, flags : Flags,
             slot : 0 .. MAX_OPEN_FILES]

Opening == {"open", "opendir", "handle"}

\* The addresses of the mounts.
Mounted == {mounts[i].id : i \in DOMAIN mounts}

TypeInv ==
  /\ mounts \in Seq(Range(mounts))
  /\ Mounted \subseteq MountIds
  /\ files \in [FileIds -> OpenFile \cup {CLOSED}]
  /\ open_files \in [Handles -> FatFile \cup {UNUSED}]
  /\ stale \subseteq MountIds
  /\ pc \in {"idle", "mount"} \cup Opening
  /\ pc = "mount" => call.id \in MountIds
  /\ pc \in Opening => call \in OpenCall

\* What the call in progress has taken and nobody else knows of.
CallsBlocks ==
  IF pc = "mount" THEN {<<"mount", call.id>>}
  ELSE IF pc \in Opening THEN {<<"file", call.f>>}
  ELSE {}

CallsSlots == IF pc = "handle" THEN {call.slot} \ {0} ELSE {}

BlocksInv ==
  /\ heap = ({"mount", "path"} \X Mounted) \cup ({"file", "handle"} \X OpenFiles)
              \cup CallsBlocks
  /\ pc = "mount" => call.id \notin Mounted
  /\ pc \in Opening => call.f \notin OpenFiles

\* The list holds no address and no path twice.
MountsInv ==
  /\ \A i, j \in DOMAIN mounts : mounts[i].id = mounts[j].id => i = j
  /\ \A i, j \in DOMAIN mounts : mounts[i].path = mounts[j].path => i = j
  /\ pc = "mount" => \A i \in DOMAIN mounts : mounts[i].path # call.path

\* Every used element of the driver's table is some open file's or the call's.
SlotsInv ==
  /\ \A h \in Handles : open_files[h] # UNUSED =>
       h \in CallsSlots \/ \E f \in OpenFiles : files[f].fat_file = h
  /\ \A f \in OpenFiles : files[f].fat_file # 0 =>
       open_files[files[f].fat_file] # UNUSED /\ files[f].fat_file \notin CallsSlots
  /\ \A f, g \in OpenFiles :
       files[f].fat_file # 0 /\ files[f].fat_file = files[g].fat_file => f = g

\* The element a call has taken is used and at the beginning.  A directory has no
\* element, and no flags that would let it be read or written.
CallInv ==
  /\ pc = "opendir" => call.flags = {}
  /\ pc \in {"open", "opendir"} => call.slot = 0
  /\ pc = "handle" => /\ call.flags # {} => call.slot # 0
                      /\ call.slot # 0 => /\ open_files[call.slot] # UNUSED
                                          /\ open_files[call.slot].pos = 0
  /\ \A f \in OpenFiles : files[f].flags # {} => files[f].fat_file # 0

\* / is bound to the mount at /mnt whenever there is one, and never to another.
BoundToMnt ==
  /\ \A i \in DOMAIN mounts : mounts[i].path = MNT <=> mounts[i].id = root_bind
  /\ root_bind # NULL => root_bind \in Mounted

IInv == TypeInv /\ BlocksInv /\ MountsInv /\ SlotsInv /\ CallInv /\ BoundToMnt /\ PosAgrees

-----------------------------------------------------------------------------
(* Mounts *)

\* The list with a mount in front.
LEMMA PushedMount ==
  ASSUME NEW s, s \in Seq(Range(s)), NEW m
  PROVE  LET t == <<m>> \o s
         IN  /\ t \in Seq(Range(t))
             /\ DOMAIN t = 1 .. Len(s) + 1
             /\ t[1] = m
             /\ \A i \in DOMAIN t : i # 1 => i - 1 \in DOMAIN s /\ t[i] = s[i - 1]
             /\ \A i \in DOMAIN s : i + 1 \in DOMAIN t
<1> DEFINE S == Range(s) \cup {m}
           t == <<m>> \o s
<1>1. s \in Seq(S)
  BY SeqMonotonic
<1>2. <<m>> \in Seq(S) /\ Len(<<m>>) = 1 /\ <<m>>[1] = m
  OBVIOUS
<1>3. /\ t \in Seq(S)
      /\ Len(t) = 1 + Len(s)
      /\ \A i \in 1 .. 1 + Len(s) : t[i] = IF i <= 1 THEN <<m>>[i] ELSE s[i - 1]
  BY <1>1, <1>2, ConcatProperties
<1>4. Len(s) \in Nat /\ DOMAIN s = 1 .. Len(s) /\ DOMAIN t = 1 .. Len(t)
  BY <1>1, <1>3, LenProperties
<1>5. t \in Seq(Range(t))
  BY <1>3, SeqOfRange, ZenonT(60)
<1>6. QED
  BY <1>2, <1>3, <1>4, <1>5

\* The list without its element k.
LEMMA RemovedMount ==
  ASSUME NEW s, s \in Seq(Range(s)), NEW k \in DOMAIN s
  PROVE  LET t == RemoveAt(s, k)
         IN  /\ t \in Seq(Range(t))
             /\ \A i \in DOMAIN t :
                  LET j == IF i < k THEN i ELSE i + 1 IN j \in DOMAIN s /\ j # k /\ t[i] = s[j]
             /\ \A j \in DOMAIN s : j # k => \E i \in DOMAIN t : t[i] = s[j]
<1> DEFINE t == RemoveAt(s, k)
           a == SubSeq(s, 1, k - 1)
           b == SubSeq(s, k + 1, Len(s))
<1>1. Len(s) \in Nat /\ DOMAIN s = 1 .. Len(s) /\ k \in 1 .. Len(s)
      /\ \A i \in 1 .. Len(s) : s[i] \in Range(s)
  BY LenProperties, ElementOfSeq
<1>2. /\ a \in Seq(Range(s))
      /\ Len(a) = k - 1
      /\ \A i \in 1 .. k - 1 : a[i] = s[i]
  <2>1. /\ a \in Seq(Range(s))
        /\ Len(a) = IF 1 <= k - 1 THEN k - 1 - 1 + 1 ELSE 0
        /\ \A i \in 1 .. k - 1 - 1 + 1 : a[i] = s[1 + i - 1]
    BY <1>1, SubSeqProperties
  <2>2. QED
    BY <1>1, <2>1
<1>3. /\ b \in Seq(Range(s))
      /\ Len(b) = Len(s) - k
      /\ \A i \in 1 .. Len(s) - k : b[i] = s[k + i]
  <2>1. /\ b \in Seq(Range(s))
        /\ Len(b) = IF k + 1 <= Len(s) THEN Len(s) - (k + 1) + 1 ELSE 0
        /\ \A i \in 1 .. Len(s) - (k + 1) + 1 : b[i] = s[k + 1 + i - 1]
    BY <1>1, SubSeqProperties
  <2>2. QED
    BY <1>1, <2>1, SMTT(60)
<1>4. t = a \o b
  BY DEF RemoveAt
<1>5. /\ t \in Seq(Range(s))
      /\ Len(t) = Len(s) - 1
      /\ \A i \in 1 .. Len(s) - 1 : t[i] = IF i < k THEN s[i] ELSE s[i + 1]
  <2>1. /\ a \o b \in Seq(Range(s))
        /\ Len(a \o b) = Len(a) + Len(b)
        /\ \A i \in 1 .. Len(a) + Len(b) : (a \o b)[i] = IF i <= Len(a) THEN a[i] ELSE b[i - Len(a)]
    BY <1>2, <1>3, ConcatProperties, ZenonT(60)
  <2> HIDE DEF a, b, t
  <2>2. /\ t \in Seq(Range(s))
        /\ Len(t) = Len(a) + Len(b)
        /\ \A i \in 1 .. Len(a) + Len(b) : t[i] = IF i <= Len(a) THEN a[i] ELSE b[i - Len(a)]
    BY <1>4, <2>1, Zenon
  <2>3. t \in Seq(Range(s)) /\ Len(t) = Len(s) - 1
    BY <1>1, <1>2, <1>3, <2>2
  <2>4. ASSUME NEW i \in 1 .. Len(s) - 1
        PROVE  t[i] = IF i < k THEN s[i] ELSE s[i + 1]
    <3>1. t[i] = IF i <= k - 1 THEN a[i] ELSE b[i - (k - 1)]
      BY <1>1, <1>2, <1>3, <2>2, SMTT(60)
    <3>2. CASE i < k
      BY <1>1, <1>2, <3>1, <3>2
    <3>3. CASE i >= k
      <4>1. i - (k - 1) \in 1 .. Len(s) - k /\ k + (i - (k - 1)) = i + 1
        BY <1>1, <3>3
      <4>2. b[i - (k - 1)] = s[i + 1]
        BY <1>3, <4>1, ZenonT(60)
      <4>3. QED
        BY <1>1, <3>1, <3>3, <4>2
    <3>4. QED
      BY <1>1, <3>2, <3>3
  <2>5. QED
    BY <2>3, <2>4, ZenonT(60)
<1>6. t \in Seq(Range(t)) /\ DOMAIN t = 1 .. Len(s) - 1
  BY <1>5, SeqOfRange, LenProperties
<1> HIDE DEF t
<1>7. \A i \in DOMAIN t :
        LET j == IF i < k THEN i ELSE i + 1 IN j \in DOMAIN s /\ j # k /\ t[i] = s[j]
  BY <1>1, <1>5, <1>6
<1>8. ASSUME NEW j \in DOMAIN s, j # k
      PROVE  \E i \in DOMAIN t : t[i] = s[j]
  <2>1. CASE j < k
    BY <1>1, <1>5, <1>6, <2>1
  <2>2. CASE j > k
    <3>1. j - 1 \in DOMAIN t /\ t[j - 1] = s[j]
      BY <1>1, <1>5, <1>6, <2>2
    <3>2. QED
      BY <3>1
  <2>3. QED
    BY <1>1, <1>8, <2>1, <2>2
<1>9. QED
  BY <1>6, <1>7, <1>8 DEF t

-----------------------------------------------------------------------------
(* Every step keeps the invariant *)

LEMMA InitIInv == Init => IInv
<1> SUFFICES ASSUME Init
             PROVE  IInv
  OBVIOUS
<1>1. OpenFiles = {} /\ Mounted = {} /\ DOMAIN mounts = {}
  BY DEF Init, OpenFiles, Mounted
<1>2. mounts \in Seq(Range(mounts))
  BY EmptySeq DEF Init
<1>3. TypeInv
  BY <1>1, <1>2 DEF Init, TypeInv, Opening
<1>4. BlocksInv
  BY <1>1 DEF Init, BlocksInv, CallsBlocks, Opening
<1>5. QED
  BY <1>1, <1>3, <1>4 DEF Init, IInv, MountsInv, SlotsInv, CallInv, BoundToMnt, PosAgrees, Opening

LEMMA MountStep ==
  ASSUME IInv, NEW p, NEW id \in MountIds, Mount(p, id)
  PROVE  IInv'
<1> USE DEF IInv, Mount
<1>1. Mounted' = Mounted /\ OpenFiles' = OpenFiles /\ CallsSlots' = CallsSlots
  BY DEF Mounted, OpenFiles, CallsSlots
<1>2. pc' = "mount" /\ call'.id = id /\ call'.path = Norm(p)
  OBVIOUS
<1>3. TypeInv'
  BY <1>1, <1>2 DEF TypeInv, Opening
<1>4. id \notin Mounted
  BY DEF BlocksInv
<1>5. BlocksInv'
  BY <1>1, <1>2, <1>4 DEF BlocksInv, CallsBlocks, Opening
<1>6. MountsInv'
  BY <1>2, ZenonT(60) DEF MountsInv, Range
<1>7. SlotsInv'
  BY <1>1, ZenonT(60) DEF SlotsInv
<1>8. CallInv' /\ BoundToMnt' /\ PosAgrees'
  BY <1>1, <1>2 DEF CallInv, BoundToMnt, PosAgrees, Opening, Fat
<1>9. QED
  BY <1>3, <1>5, <1>6, <1>7, <1>8

LEMMA MountFailsStep ==
  ASSUME IInv, MountFails
  PROVE  IInv'
<1> USE DEF IInv, MountFails, Return
<1>1. Mounted' = Mounted /\ OpenFiles' = OpenFiles /\ CallsSlots' = CallsSlots
  BY DEF Mounted, OpenFiles, CallsSlots
<1>2. TypeInv'
  BY <1>1 DEF TypeInv, Opening
<1>3. BlocksInv'
  BY <1>1 DEF BlocksInv, CallsBlocks, Opening
<1>4. MountsInv' /\ SlotsInv'
  BY <1>1 DEF MountsInv, SlotsInv
<1>5. CallInv' /\ BoundToMnt' /\ PosAgrees'
  BY <1>1 DEF CallInv, BoundToMnt, PosAgrees, Opening, Fat
<1>6. QED
  BY <1>2, <1>3, <1>4, <1>5

LEMMA MountDoneStep ==
  ASSUME IInv, MountDone
  PROVE  IInv'
<1> USE DEF IInv, MountDone, Return, Allocate
<1> DEFINE m == [id |-> call.id, path |-> call.path]
<1>1. OpenFiles' = OpenFiles /\ CallsSlots' = CallsSlots
  BY DEF OpenFiles, CallsSlots
<1>2. mounts' = <<m>> \o mounts /\ mounts \in Seq(Range(mounts)) /\ call.id \in MountIds
  BY DEF TypeInv
<1>3. /\ mounts' \in Seq(Range(mounts'))
      /\ DOMAIN mounts' = 1 .. Len(mounts) + 1 /\ Len(mounts) \in Nat
      /\ mounts'[1].id = call.id /\ mounts'[1].path = call.path
      /\ \A i \in DOMAIN mounts' : i # 1 => i - 1 \in DOMAIN mounts /\ mounts'[i] = mounts[i - 1]
      /\ \A i \in DOMAIN mounts : i + 1 \in DOMAIN mounts' /\ i \in Nat \ {0}
  BY <1>2, PushedMount, LenProperties
<1>4. \A i \in DOMAIN mounts : i + 1 # 1 /\ (i + 1) - 1 = i /\ mounts'[i + 1] = mounts[i]
  BY <1>3
<1>5. 1 \in DOMAIN mounts' /\ DOMAIN mounts' \subseteq Nat
  BY <1>3
<1>6. Mounted' = Mounted \cup {call.id}
  <2>1. Mounted' \subseteq Mounted \cup {call.id}
    BY <1>3 DEF Mounted
  <2>2. Mounted \subseteq Mounted'
    BY <1>3, <1>4 DEF Mounted
  <2>3. call.id \in Mounted'
    BY <1>3, <1>5, ZenonT(60) DEF Mounted
  <2>4. QED
    BY <2>1, <2>2, <2>3
<1>7. TypeInv'
  BY <1>1, <1>2, <1>3, <1>6, ZenonT(60) DEF TypeInv, Opening
<1>8. BlocksInv'
  BY <1>1, <1>6 DEF BlocksInv, CallsBlocks, Opening
<1>9. MountsInv'
  <2>1. ASSUME NEW i \in DOMAIN mounts', NEW j \in DOMAIN mounts', i # j
        PROVE  mounts'[i].id # mounts'[j].id /\ mounts'[i].path # mounts'[j].path
    <3>1. CASE i = 1
      BY <1>3, <2>1, <3>1 DEF BlocksInv, MountsInv, Mounted
    <3>2. CASE j = 1
      BY <1>3, <2>1, <3>2 DEF BlocksInv, MountsInv, Mounted
    <3>3. CASE i # 1 /\ j # 1
      <4>1. i - 1 # j - 1
        BY <1>5, <2>1
      <4>2. QED
        BY <1>3, <3>3, <4>1 DEF MountsInv
    <3>4. QED
      BY <3>1, <3>2, <3>3
  <2>2. QED
    BY <2>1, ZenonT(60) DEF MountsInv
<1>10. BoundToMnt'
  <2>1. CASE call.path = MNT
    <3>1. root_bind' = call.id
      BY <2>1
    <3>2. ASSUME NEW i \in DOMAIN mounts'
          PROVE  mounts'[i].path = MNT <=> mounts'[i].id = root_bind'
      <4>1. CASE i = 1
        BY <1>3, <2>1, <3>1, <4>1, ZenonT(60)
      <4>2. CASE i # 1
        BY <1>3, <2>1, <3>1, <4>2 DEF MountsInv, BlocksInv, Mounted
      <4>3. QED
        BY <4>1, <4>2
    <3>3. QED
      BY <1>6, <3>1, <3>2 DEF BoundToMnt
  <2>2. CASE call.path # MNT
    <3>1. root_bind' = root_bind
      BY <2>2
    <3>2. root_bind # call.id
      BY <1>2, VfsAssumption, ZenonT(60) DEF BoundToMnt, BlocksInv
    <3>3. ASSUME NEW i \in DOMAIN mounts'
          PROVE  mounts'[i].path = MNT <=> mounts'[i].id = root_bind'
      <4>1. CASE i = 1
        BY <1>3, <2>2, <3>1, <3>2, <4>1, ZenonT(60)
      <4>2. CASE i # 1
        BY <1>3, <3>1, <4>2 DEF BoundToMnt
      <4>3. QED
        BY <4>1, <4>2
    <3>4. QED
      BY <1>6, <3>1, <3>3 DEF BoundToMnt
  <2>3. QED
    BY <2>1, <2>2
<1>11. SlotsInv' /\ CallInv' /\ PosAgrees'
  BY <1>1, ZenonT(60) DEF SlotsInv, CallInv, PosAgrees, Opening, Fat
<1>12. QED
  BY <1>7, <1>8, <1>9, <1>10, <1>11

LEMMA UmountStep ==
  ASSUME IInv, NEW p, Umount(p)
  PROVE  IInv'
<1> USE DEF IInv, Umount
<1>1. OpenFiles' = OpenFiles /\ CallsSlots' = CallsSlots /\ CallsBlocks' = {}
  BY DEF OpenFiles, CallsSlots, CallsBlocks, Opening
<1>2. PICK k \in DOMAIN mounts :
        /\ mounts' = RemoveAt(mounts, k)
        /\ root_bind' = Unbind(mounts[k])
        /\ heap' = heap \ {<<"mount", mounts[k].id>>, <<"path", mounts[k].id>>}
        /\ stale' = stale \cup ({mounts[k].id} \cap {files[f].mount : f \in OpenFiles})
  BY ZenonT(60)
<1>3. /\ mounts' \in Seq(Range(mounts'))
      /\ \A i \in DOMAIN mounts' :
           LET j == IF i < k THEN i ELSE i + 1
           IN  j \in DOMAIN mounts /\ j # k /\ mounts'[i] = mounts[j]
      /\ \A j \in DOMAIN mounts : j # k => \E i \in DOMAIN mounts' : mounts'[i] = mounts[j]
  BY <1>2, RemovedMount DEF TypeInv
<1>4. DOMAIN mounts' \subseteq Nat /\ k \in Nat
  BY <1>3, LenProperties DEF TypeInv
<1>5. Mounted' = Mounted \ {mounts[k].id}
  <2>1. Mounted' \subseteq Mounted
    BY <1>3 DEF Mounted
  <2>2. mounts[k].id \notin Mounted'
    BY <1>2, <1>3 DEF Mounted, MountsInv
  <2>3. Mounted \ {mounts[k].id} \subseteq Mounted'
    BY <1>3 DEF Mounted
  <2>4. QED
    BY <2>1, <2>2, <2>3, ZenonT(60)
<1>6. mounts[k].id \in Mounted
  BY ZenonT(60) DEF Mounted
<1>7. TypeInv'
  BY <1>1, <1>2, <1>3, <1>5, <1>6, ZenonT(60) DEF TypeInv, Opening
<1>8. BlocksInv'
  BY <1>1, <1>2, <1>5 DEF BlocksInv, CallsBlocks, Opening
<1>9. MountsInv'
  <2>1. ASSUME NEW i \in DOMAIN mounts', NEW j \in DOMAIN mounts', i # j
        PROVE  mounts'[i].id # mounts'[j].id /\ mounts'[i].path # mounts'[j].path
    <3> DEFINE a == IF i < k THEN i ELSE i + 1
               b == IF j < k THEN j ELSE j + 1
    <3>1. a # b
      BY <1>4, <2>1
    <3>2. /\ a \in DOMAIN mounts /\ mounts'[i] = mounts[a]
          /\ b \in DOMAIN mounts /\ mounts'[j] = mounts[b]
      BY <1>3
    <3> HIDE DEF a, b
    <3>3. QED
      BY <3>1, <3>2, ZenonT(60) DEF MountsInv
  <2>2. QED
    BY <2>1, ZenonT(60) DEF MountsInv
<1>10. BoundToMnt'
  <2>1. ASSUME NEW i \in DOMAIN mounts'
        PROVE  mounts'[i].path = MNT <=> mounts'[i].id = root_bind'
    <3>1. PICK j \in DOMAIN mounts : j # k /\ mounts'[i] = mounts[j]
      BY <1>3, ZenonT(60)
    <3>2. mounts[j].id # mounts[k].id /\ mounts[j].path # mounts[k].path /\ mounts[j].id # NULL
      BY <3>1, VfsAssumption DEF MountsInv, TypeInv, Mounted
    <3>3. QED
      BY <1>2, <3>1, <3>2, ZenonT(60) DEF Unbind, BoundToMnt
  <2>2. root_bind' # NULL => root_bind' \in Mounted'
    BY <1>2, <1>5, ZenonT(60) DEF Unbind, BoundToMnt
  <2>3. QED
    BY <2>1, <2>2, ZenonT(60) DEF BoundToMnt
<1>11. SlotsInv' /\ CallInv' /\ PosAgrees'
  BY <1>1 DEF SlotsInv, CallInv, PosAgrees, Opening, Fat
<1>12. QED
  BY <1>7, <1>8, <1>9, <1>10, <1>11, ZenonT(60)

LEMMA OpenStep ==
  ASSUME IInv, NEW m \in Range(mounts), NEW f \in FileIds, Open(f, m)
  PROVE  IInv'
<1> USE DEF IInv, Open, Allocate
<1>1. PICK o \in OpenCalls :
        /\ call' = [op |-> o[1], f |-> f, mount |-> m.id, flags |-> o[2], slot |-> 0]
        /\ pc' = o[1]
  BY ZenonT(60)
<1>2. /\ o[1] \in {"open", "opendir"} /\ o[2] \in Flags
      /\ o[1] = "opendir" => o[2] = {}
  BY DEF OpenCalls, OpenFlags, Flags
<1>3. m.id \in MountIds
  BY DEF TypeInv, Mounted, Range
<1>4. call' \in OpenCall /\ call'.f = f /\ call'.slot = 0 /\ call'.flags = o[2]
  BY <1>1, <1>2, <1>3, VfsAssumption DEF OpenCall
<1>5. Mounted' = Mounted /\ OpenFiles' = OpenFiles /\ CallsSlots = {} /\ CallsSlots' = {}
  BY <1>1, <1>2 DEF Mounted, OpenFiles, CallsSlots
<1>6. stale' \subseteq stale
  BY ZenonT(60)
<1>7. TypeInv'
  BY <1>1, <1>2, <1>4, <1>5, <1>6, ZenonT(60) DEF TypeInv, Opening
<1>8. BlocksInv'
  BY <1>1, <1>2, <1>4, <1>5, ZenonT(60) DEF BlocksInv, CallsBlocks, Opening
<1>9. MountsInv' /\ SlotsInv'
  BY <1>1, <1>2, <1>5 DEF MountsInv, SlotsInv
<1>10. CallInv' /\ BoundToMnt' /\ PosAgrees'
  BY <1>1, <1>2, <1>4, <1>5 DEF CallInv, BoundToMnt, PosAgrees, Fat
<1>11. QED
  BY <1>7, <1>8, <1>9, <1>10, ZenonT(60)

LEMMA DriverOpensStep ==
  ASSUME IInv, DriverOpens
  PROVE  IInv'
<1> USE DEF IInv, DriverOpens
<1> DEFINE mode == IF "write" \in call.flags THEN "w" ELSE "r"
<1>1. PICK h \in Handles, s \in Sizes :
        /\ open_files[h] = UNUSED
        /\ open_files' = [open_files EXCEPT ![h] =
             [mode |-> mode, pos |-> 0, size |-> IF mode = "w" THEN 0 ELSE s]]
        /\ call' = [call EXCEPT !.slot = h]
  BY ZenonT(60) DEF FirstUnused
<1>2. h # 0
  BY VfsAssumption DEF Handles
<1> DEFINE fat == [mode |-> mode, pos |-> 0, size |-> IF mode = "w" THEN 0 ELSE s]
<1>3. fat \in FatFile /\ fat # UNUSED /\ fat.pos = 0
  BY VfsAssumption DEF FatFile, UNUSED
<1>4. open_files' = [open_files EXCEPT ![h] = fat]
  BY <1>1, ZenonT(60)
<1> HIDE DEF fat
<1>5. open_files \in [Handles -> FatFile \cup {UNUSED}] /\ call \in OpenCall /\ pc' = "handle"
  BY DEF TypeInv, Opening
<1>6. /\ call' \in OpenCall /\ call'.slot = h /\ call'.f = call.f /\ call'.flags = call.flags
      /\ call'.slot # 0
  BY <1>1, <1>2, <1>5, VfsAssumption DEF OpenCall, Handles
<1>7. /\ Mounted' = Mounted /\ OpenFiles' = OpenFiles
      /\ CallsSlots = {} /\ CallsSlots' = {h} /\ CallsBlocks' = CallsBlocks
  BY <1>2, <1>6 DEF Mounted, OpenFiles, CallsSlots, CallsBlocks, Opening
<1>8. TypeInv'
  BY <1>3, <1>4, <1>5, <1>6, <1>7 DEF TypeInv, Opening
<1>9. BlocksInv' /\ MountsInv' /\ BoundToMnt'
  BY <1>6, <1>7 DEF BlocksInv, MountsInv, BoundToMnt, Opening
<1>10. \A f \in OpenFiles : files[f].fat_file # 0 =>
         files[f].fat_file # h /\ files[f].fat_file \in Handles
  <2>1. \A f \in OpenFiles : files[f] \in OpenFile
    BY DEF TypeInv, OpenFiles
  <2>2. QED
    BY <1>1, <2>1, VfsAssumption DEF SlotsInv, OpenFile, Handles
<1>11. /\ open_files'[h] = fat
       /\ \A i \in Handles : i # h => open_files'[i] = open_files[i]
  BY <1>1, <1>4, <1>5, ZenonT(60)
<1>12. SlotsInv'
  BY <1>3, <1>7, <1>10, <1>11 DEF SlotsInv
<1>13. CallInv'
  BY <1>3, <1>6, <1>7, <1>11, ZenonT(60) DEF CallInv
<1>14. PosAgrees'
  BY <1>7, <1>10, <1>11 DEF PosAgrees, Fat
<1>15. QED
  BY <1>8, <1>9, <1>12, <1>13, <1>14

LEMMA DriverOpensDirStep ==
  ASSUME IInv, DriverOpensDir
  PROVE  IInv'
<1> USE DEF IInv, DriverOpensDir
<1>1. call.slot = 0 /\ call.flags = {}
  BY ZenonT(60) DEF CallInv
<1>2. /\ Mounted' = Mounted /\ OpenFiles' = OpenFiles
      /\ CallsSlots = {} /\ CallsSlots' = {} /\ CallsBlocks' = CallsBlocks
  BY <1>1, ZenonT(60) DEF Mounted, OpenFiles, CallsSlots, CallsBlocks, Opening
<1>3. TypeInv' /\ BlocksInv' /\ MountsInv' /\ SlotsInv'
  BY <1>2, ZenonT(60) DEF TypeInv, BlocksInv, MountsInv, SlotsInv, Opening
<1>4. CallInv' /\ BoundToMnt' /\ PosAgrees'
  BY <1>1, <1>2, ZenonT(60) DEF CallInv, BoundToMnt, PosAgrees, Fat
<1>5. QED
  BY <1>3, <1>4, ZenonT(60)

LEMMA DriverRefusesStep ==
  ASSUME IInv, DriverRefuses
  PROVE  IInv'
<1> USE DEF IInv, DriverRefuses, Return
<1>1. Mounted' = Mounted /\ OpenFiles' = OpenFiles /\ CallsSlots = {} /\ CallsSlots' = {}
  BY ZenonT(60) DEF Mounted, OpenFiles, CallsSlots
<1>2. TypeInv'
  BY <1>1 DEF TypeInv, Opening
<1>3. BlocksInv'
  BY <1>1 DEF BlocksInv, CallsBlocks, Opening
<1>4. MountsInv' /\ SlotsInv'
  BY <1>1, ZenonT(60) DEF MountsInv, SlotsInv
<1>5. CallInv' /\ BoundToMnt' /\ PosAgrees'
  BY <1>1, ZenonT(60) DEF CallInv, BoundToMnt, PosAgrees, Fat
<1>6. QED
  BY <1>2, <1>3, <1>4, <1>5, ZenonT(60)

LEMMA HandleDoneStep ==
  ASSUME IInv, HandleDone
  PROVE  IInv'
<1> USE DEF IInv, HandleDone, Return, Allocate
<1> DEFINE file == [state |-> "open", mount |-> call.mount, fat_file |-> call.slot,
                    flags |-> call.flags, pos |-> 0]
<1>1. call \in OpenCall /\ files \in [FileIds -> OpenFile \cup {CLOSED}]
  BY ZenonT(60) DEF TypeInv, Opening
<1>2. call.f \in FileIds /\ call.f \notin OpenFiles
  BY <1>1, ZenonT(60) DEF OpenCall, BlocksInv, Opening
<1>3. /\ file \in OpenFile /\ file # CLOSED
      /\ file.fat_file = call.slot /\ file.flags = call.flags /\ file.pos = 0
  BY <1>1, ZenonT(60) DEF OpenCall, OpenFile, CLOSED
<1>4. files' = [files EXCEPT ![call.f] = file]
  BY ZenonT(60)
<1> HIDE DEF file
<1>5. /\ files' \in [FileIds -> OpenFile \cup {CLOSED}]
      /\ files'[call.f] = file
      /\ \A f \in FileIds : f # call.f => files'[f] = files[f]
  BY <1>1, <1>2, <1>3, <1>4
<1>6. OpenFiles' = OpenFiles \cup {call.f}
  BY <1>2, <1>3, <1>5 DEF OpenFiles
<1>7. \A f \in OpenFiles : files'[f] = files[f]
  BY <1>2, <1>5, ZenonT(60) DEF OpenFiles
<1>8. Mounted' = Mounted /\ CallsSlots = {call.slot} \ {0} /\ CallsSlots' = {}
  BY ZenonT(60) DEF Mounted, CallsSlots
<1>9. TypeInv'
  BY <1>5, <1>8, ZenonT(60) DEF TypeInv, Opening
<1>10. BlocksInv'
  BY <1>6, <1>8 DEF BlocksInv, CallsBlocks, Opening
<1>11. MountsInv' /\ BoundToMnt'
  BY <1>8, ZenonT(60) DEF MountsInv, BoundToMnt
<1>12. SlotsInv'
  BY <1>2, <1>3, <1>5, <1>6, <1>7, <1>8, SMTT(60) DEF SlotsInv, CallInv
<1>13. CallInv'
  BY <1>2, <1>3, <1>5, <1>6, <1>7, SMTT(60) DEF CallInv
<1>14. PosAgrees'
  BY <1>2, <1>3, <1>5, <1>6, <1>7, SMTT(60) DEF PosAgrees, CallInv, Fat
<1>15. QED
  BY <1>9, <1>10, <1>11, <1>12, <1>13, <1>14, ZenonT(60)

LEMMA HandleFailsStep ==
  ASSUME IInv, HandleFails
  PROVE  IInv'
<1> USE DEF IInv, HandleFails, Return
<1>1. /\ open_files' \in [Handles -> FatFile \cup {UNUSED}]
      /\ \A h \in Handles : open_files'[h] = IF h = call.slot THEN UNUSED ELSE open_files[h]
  BY DEF TypeInv
<1>2. /\ Mounted' = Mounted /\ OpenFiles' = OpenFiles
      /\ CallsSlots = {call.slot} \ {0} /\ CallsSlots' = {}
  BY ZenonT(60) DEF Mounted, OpenFiles, CallsSlots
<1>3. \A f \in OpenFiles : files[f].fat_file # 0 =>
        files[f].fat_file # call.slot /\ files[f].fat_file \in Handles
  <2>1. \A f \in OpenFiles : files[f] \in OpenFile
    BY ZenonT(60) DEF TypeInv, OpenFiles
  <2>2. QED
    BY <1>2, <2>1, VfsAssumption DEF SlotsInv, OpenFile, Handles
<1>4. TypeInv'
  BY <1>1, <1>2, ZenonT(60) DEF TypeInv, Opening
<1>5. BlocksInv'
  BY <1>2 DEF BlocksInv, CallsBlocks, Opening
<1>6. MountsInv' /\ BoundToMnt'
  BY <1>2, ZenonT(60) DEF MountsInv, BoundToMnt
<1>7. SlotsInv'
  BY <1>1, <1>2, <1>3 DEF SlotsInv
<1>8. CallInv' /\ PosAgrees'
  BY <1>1, <1>2, <1>3, ZenonT(60) DEF CallInv, PosAgrees, Fat
<1>9. QED
  BY <1>4, <1>5, <1>6, <1>7, <1>8, ZenonT(60)

LEMMA CloseStep ==
  ASSUME IInv, NEW f \in FileIds, Close(f)
  PROVE  IInv'
<1> USE DEF IInv, Close, Usable
<1>1. /\ open_files' \in [Handles -> FatFile \cup {UNUSED}]
      /\ \A h \in Handles : open_files'[h] = IF h = files[f].fat_file THEN UNUSED
                                             ELSE open_files[h]
  BY ZenonT(60) DEF TypeInv
<1>2. /\ files' \in [FileIds -> OpenFile \cup {CLOSED}]
      /\ files'[f] = CLOSED
      /\ \A g \in FileIds : g # f => files'[g] = files[g]
  BY ZenonT(60) DEF TypeInv
<1>3. f \in OpenFiles /\ OpenFiles' = OpenFiles \ {f}
  BY <1>2, ZenonT(60) DEF OpenFiles
<1>4. \A g \in OpenFiles' : g \in OpenFiles /\ g # f /\ files'[g] = files[g]
  BY <1>2, <1>3, ZenonT(60) DEF OpenFiles
<1>5. \A g \in OpenFiles' : files[g].fat_file # 0 =>
        files[g].fat_file # files[f].fat_file /\ files[g].fat_file \in Handles
  <2>1. \A g \in OpenFiles : files[g] \in OpenFile
    BY ZenonT(60) DEF TypeInv, OpenFiles
  <2>2. QED
    BY <1>3, <1>4, <2>1, VfsAssumption DEF SlotsInv, OpenFile, Handles
<1>6. Mounted' = Mounted /\ CallsSlots = {} /\ CallsSlots' = {}
  BY ZenonT(60) DEF Mounted, CallsSlots
<1>7. TypeInv'
  BY <1>1, <1>2, <1>6, ZenonT(60) DEF TypeInv, Opening
<1>8. BlocksInv'
  BY <1>3, <1>6, SMTT(60) DEF BlocksInv, CallsBlocks, Opening
<1>9. MountsInv' /\ BoundToMnt'
  BY <1>6, ZenonT(60) DEF MountsInv, BoundToMnt
<1>10. SlotsInv'
  BY <1>1, <1>3, <1>4, <1>5, <1>6, SMTT(60) DEF SlotsInv
<1>11. CallInv' /\ PosAgrees'
  BY <1>1, <1>4, <1>5 DEF CallInv, PosAgrees, Fat
<1>12. QED
  BY <1>7, <1>8, <1>9, <1>10, <1>11, ZenonT(60)

\* Whatever becomes of one file, no other file has its element of the table.
LEMMA UpdateStep ==
  ASSUME IInv, NEW f \in FileIds, Usable(f), files[f].fat_file # 0,
         NEW fat \in FatFile, Update(f, fat, fat.pos)
  PROVE  IInv'
<1> USE DEF IInv, Update, Usable
<1> DEFINE k == files[f].fat_file
<1>1. f \in OpenFiles /\ files[f] \in OpenFile /\ k \in Handles /\ fat.pos \in Nat
  BY VfsAssumption DEF TypeInv, OpenFiles, OpenFile, Handles, FatFile
<1>2. fat # UNUSED
  BY DEF FatFile, UNUSED
<1>3. /\ open_files' \in [Handles -> FatFile \cup {UNUSED}]
      /\ open_files'[k] = fat
      /\ \A h \in Handles : h # k => open_files'[h] = open_files[h]
  BY <1>1 DEF TypeInv
<1>4. files' = [files EXCEPT ![f] = [files[f] EXCEPT !.pos = fat.pos]]
  OBVIOUS
<1> DEFINE file == [files[f] EXCEPT !.pos = fat.pos]
<1>5. /\ file \in OpenFile /\ file # CLOSED
      /\ file.fat_file = k /\ file.pos = fat.pos /\ file.flags = files[f].flags
  BY <1>1 DEF OpenFile, CLOSED
<1> HIDE DEF file
<1>6. /\ files' \in [FileIds -> OpenFile \cup {CLOSED}]
      /\ files'[f] = file
      /\ \A g \in FileIds : g # f => files'[g] = files[g]
  BY <1>4, <1>5, ZenonT(60) DEF TypeInv, file
<1>7. OpenFiles' = OpenFiles
  BY <1>1, <1>5, <1>6 DEF OpenFiles
<1>8. \A g \in OpenFiles : /\ files'[g].fat_file = files[g].fat_file
                           /\ files'[g].flags = files[g].flags
  BY <1>5, <1>6, ZenonT(60) DEF OpenFiles
<1>9. \A g \in OpenFiles : g # f /\ files[g].fat_file # 0 =>
        files[g].fat_file # k /\ files[g].fat_file \in Handles
  <2>1. \A g \in OpenFiles : files[g] \in OpenFile
    BY DEF TypeInv, OpenFiles
  <2>2. QED
    BY <1>1, <2>1, VfsAssumption DEF SlotsInv, OpenFile, Handles
<1> HIDE DEF k
<1>10. Mounted' = Mounted /\ CallsSlots = {} /\ CallsSlots' = {} /\ CallsBlocks' = CallsBlocks
  BY ZenonT(60) DEF Mounted, CallsSlots, CallsBlocks, Opening
<1>11. TypeInv'
  BY <1>3, <1>6, <1>10, ZenonT(60) DEF TypeInv, Opening
<1>12. BlocksInv' /\ MountsInv' /\ BoundToMnt'
  BY <1>7, <1>10, ZenonT(60) DEF BlocksInv, MountsInv, BoundToMnt, Opening
<1>13. SlotsInv'
  <2>1. ASSUME NEW h \in Handles, open_files'[h] # UNUSED
        PROVE  \E g \in OpenFiles' : files'[g].fat_file = h
    BY <1>1, <1>3, <1>7, <1>8, <1>10, <2>1 DEF SlotsInv, k
  <2>2. ASSUME NEW g \in OpenFiles', files'[g].fat_file # 0
        PROVE  open_files'[files'[g].fat_file] # UNUSED
    BY <1>1, <1>2, <1>3, <1>7, <1>8, <1>9, <2>2 DEF SlotsInv, k
  <2>3. QED
    BY <1>7, <1>8, <1>10, <2>1, <2>2 DEF SlotsInv
<1>14. CallInv'
  BY <1>7, <1>8, ZenonT(60) DEF CallInv
<1>15. PosAgrees'
  <2>1. ASSUME NEW g \in OpenFiles', files'[g].fat_file # 0
        PROVE  files'[g].pos = open_files'[files'[g].fat_file].pos
    <3>1. CASE g = f
      BY <1>3, <1>5, <1>6, <3>1, ZenonT(60)
    <3>2. CASE g # f
      BY <1>3, <1>6, <1>7, <1>9, <2>1, <3>2 DEF PosAgrees, Fat, OpenFiles
    <3>3. QED
      BY <3>1, <3>2, ZenonT(60)
  <2>2. QED
    BY <2>1, ZenonT(60) DEF PosAgrees, Fat
<1>16. QED
  BY <1>11, <1>12, <1>13, <1>14, <1>15, ZenonT(60)

LEMMA ReadWriteSeekStep ==
  ASSUME IInv, NEW f \in FileIds, NEW n \in Lengths, Read(f, n) \/ Write(f, n) \/ Seek(f, n)
  PROVE  IInv'
<1>1. Usable(f) /\ f \in OpenFiles /\ n \in Nat
  BY VfsAssumption, ZenonT(60) DEF Read, Write, Seek, Usable, OpenFiles
<1>2. files[f].fat_file # 0
  BY <1>1, ZenonT(60) DEF Read, Write, Seek, IInv, CallInv
<1>3. Fat(f) \in FatFile
  <2>1. files[f] \in OpenFile
    BY <1>1, ZenonT(60) DEF IInv, TypeInv, OpenFiles
  <2>2. files[f].fat_file \in Handles
    BY <1>2, <2>1, VfsAssumption DEF OpenFile, Handles
  <2>3. QED
    BY <1>1, <1>2, <2>2 DEF IInv, TypeInv, SlotsInv, Fat
<1>4. files[f].pos = Fat(f).pos
  BY <1>1, <1>2 DEF IInv, PosAgrees
<1>5. Fat(f).pos \in Nat /\ Fat(f).size \in Nat
  BY <1>3, ZenonT(60) DEF FatFile
<1>6. CASE Read(f, n)
  <2>1. PICK ret \in 1 .. n :
          Update(f, [Fat(f) EXCEPT !.pos = Fat(f).pos + ret], Fat(f).pos + ret)
    BY <1>4, <1>6, ZenonT(60) DEF Read
  <2> DEFINE fat == [Fat(f) EXCEPT !.pos = Fat(f).pos + ret]
  <2>2. Fat(f).pos + ret \in Nat
    BY <1>1, <1>5
  <2>3. fat \in FatFile /\ fat.pos = Fat(f).pos + ret
    BY <1>3, <2>2 DEF FatFile
  <2>4. Update(f, fat, fat.pos)
    BY <2>1, <2>3, ZenonT(60)
  <2> HIDE DEF fat
  <2>5. QED
    BY <1>1, <1>2, <2>3, <2>4, UpdateStep, ZenonT(60)
<1>7. CASE Write(f, n)
  <2>1. PICK ret \in 1 .. n :
          LET pos == Fat(f).pos + ret
          IN  Update(f, [Fat(f) EXCEPT !.pos = pos,
                                       !.size = IF pos > Fat(f).size THEN pos ELSE Fat(f).size],
                     pos)
    BY <1>4, <1>7, ZenonT(60) DEF Write
  <2> DEFINE pos == Fat(f).pos + ret
             size == IF pos > Fat(f).size THEN pos ELSE Fat(f).size
             fat == [Fat(f) EXCEPT !.pos = pos, !.size = size]
  <2>2. pos \in Nat /\ size \in Nat
    BY <1>1, <1>5
  <2>3. Update(f, fat, pos)
    BY <2>1
  <2> HIDE DEF pos, size
  <2>4. fat \in FatFile /\ fat.pos = pos
    BY <1>3, <2>2, ZenonT(60) DEF FatFile
  <2>5. Update(f, fat, fat.pos)
    BY <2>3, <2>4, ZenonT(60)
  <2> HIDE DEF fat
  <2>6. QED
    BY <1>1, <1>2, <2>4, <2>5, UpdateStep, ZenonT(60)
<1>8. CASE Seek(f, n)
  <2>1. PICK reached \in 0 .. n : Update(f, [Fat(f) EXCEPT !.pos = reached], reached)
    BY <1>8 DEF Seek, SeekPos
  <2> DEFINE fat == [Fat(f) EXCEPT !.pos = reached]
  <2>2. fat \in FatFile /\ fat.pos = reached
    BY <1>1, <1>3 DEF FatFile
  <2>3. Update(f, fat, fat.pos)
    BY <2>1, <2>2, ZenonT(60)
  <2> HIDE DEF fat
  <2>4. QED
    BY <1>1, <1>2, <2>2, <2>3, UpdateStep
<1>9. QED
  BY <1>6, <1>7, <1>8, SMTT(60)

LEMMA NextIInv == IInv /\ [Next]_vars => IInv'
<1> SUFFICES ASSUME IInv, [Next]_vars
             PROVE  IInv'
  OBVIOUS
<1>1. CASE \E p \in MountPaths : Umount(p) \/ \E id \in MountIds : Mount(p, id)
  BY <1>1, UmountStep, MountStep
<1>2. CASE MountDone \/ MountFails
  BY <1>2, MountDoneStep, MountFailsStep
<1>3. CASE \E m \in Range(mounts), f \in FileIds : Open(f, m)
  BY <1>3, OpenStep, ZenonT(60)
<1>4. CASE DriverOpens \/ DriverOpensDir \/ DriverRefuses
  BY <1>4, DriverOpensStep, DriverOpensDirStep, DriverRefusesStep, ZenonT(60)
<1>5. CASE HandleDone \/ HandleFails
  BY <1>5, HandleDoneStep, HandleFailsStep
<1>6. CASE \E f \in FileIds : Close(f)
  BY <1>6, CloseStep
<1>7. CASE \E f \in FileIds, n \in Lengths : Read(f, n) \/ Write(f, n) \/ Seek(f, n)
  BY <1>7, ReadWriteSeekStep, ZenonT(60)
<1>8. CASE UNCHANGED vars
  <2>1. Mounted' = Mounted /\ OpenFiles' = OpenFiles
    BY <1>8, ZenonT(60) DEF vars, Mounted, OpenFiles
  <2>2. CallsBlocks' = CallsBlocks /\ CallsSlots' = CallsSlots
    BY <1>8, ZenonT(60) DEF vars, CallsBlocks, CallsSlots
  <2>3. TypeInv'
    BY <1>8, <2>1, ZenonT(60) DEF vars, IInv, TypeInv
  <2>4. BlocksInv'
    BY <1>8, <2>1, <2>2, ZenonT(60) DEF vars, IInv, BlocksInv
  <2>5. MountsInv' /\ BoundToMnt'
    BY <1>8, <2>1, ZenonT(60) DEF vars, IInv, MountsInv, BoundToMnt
  <2>6. SlotsInv' /\ CallInv'
    BY <1>8, <2>1, <2>2, ZenonT(60) DEF vars, IInv, SlotsInv, CallInv
  <2>7. PosAgrees'
    BY <1>8, <2>1 DEF vars, IInv, PosAgrees, Fat
  <2>8. QED
    BY <2>3, <2>4, <2>5, <2>6, <2>7, ZenonT(60) DEF IInv
<1>9. QED
  BY <1>1, <1>2, <1>3, <1>4, <1>5, <1>6, <1>7, <1>8, ZenonT(60) DEF Next

LEMMA IInvHolds == Spec => []IInv
  BY InitIInv, NextIInv, PTL DEF Spec

\* vfs_mount, vfs_umount, vfs_open, vfs_opendir, vfs_close and their error paths
\* give back every block and every element of open_files that they took and do
\* not hand to the caller, and nothing that is in use, with any number of mounts,
\* files and elements, and also when a mount goes while files are open on it.
THEOREM ResourcesAreOwned == Spec => []ResourcesOwned
<1>1. IInv => ResourcesOwned
  <2> SUFFICES ASSUME IInv, pc = "idle"
               PROVE  ResourcesOwned
    BY DEF ResourcesOwned
  <2>1. CallsBlocks = {} /\ CallsSlots = {}
    BY DEF CallsBlocks, CallsSlots, Opening
  <2>2. Mounted = {m.id : m \in Range(mounts)}
    BY DEF Mounted, Range
  <2>3. \A f \in OpenFiles : files[f].fat_file \in Handles \cup {0}
    <3>1. \A f \in OpenFiles : files[f] \in OpenFile
      BY DEF IInv, TypeInv, OpenFiles
    <3>2. \A f \in OpenFiles : files[f].fat_file \in 0 .. MAX_OPEN_FILES
      BY <3>1 DEF OpenFile
    <3>3. 0 .. MAX_OPEN_FILES = Handles \cup {0}
      BY VfsAssumption DEF Handles
    <3>4. QED
      BY <3>2, <3>3, ZenonT(60)
  <2>4. {h \in Handles : open_files[h] # UNUSED} = {files[f].fat_file : f \in OpenFiles} \ {0}
    BY <2>1, <2>3, VfsAssumption DEF IInv, SlotsInv, Handles
  <2>5. QED
    BY <2>1, <2>2, <2>4, ZenonT(60) DEF IInv, BlocksInv, SlotsInv, ResourcesOwned
<1>2. QED
  BY <1>1, IInvHolds, PTL

\* The position that vfs_read, vfs_write and vfs_seek keep for the caller is the
\* driver's position of the same file, whatever other files do.
THEOREM PositionsAgree == Spec => []PosAgrees
<1>1. IInv => PosAgrees
  BY DEF IInv
<1>2. QED
  BY <1>1, IInvHolds, PTL

\* root_bind is the mount at /mnt whenever there is one, and NULL otherwise,
\* after any sequence of vfs_mount and vfs_umount: translate_path never follows
\* it to a mount that is gone.
THEOREM RootIsBoundToMnt == Spec => []BoundToMnt
<1>1. IInv => BoundToMnt
  BY DEF IInv
<1>2. QED
  BY <1>1, IInvHolds, PTL

=============================================================================
