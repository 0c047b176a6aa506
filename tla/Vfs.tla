--------------------------------- MODULE Vfs ---------------------------------
(***************************************************************************)
(* The virtual file system, kernel/src/vfs.c, over its one driver, the     *)
(* adapter kernel/src/fat32_vfs.c.                                         *)
(*                                                                         *)
(* State: the list of mounts, the bind of / to /mnt, the vfs_file_t that   *)
(* callers hold, the driver's table of open files and the blocks that the  *)
(* layer has on the heap.  A call is one step per allocation or call of    *)
(* the driver that can fail; a call that returns before the first of them  *)
(* changes nothing and is left out.  What the driver finds on the disk is  *)
(* a choice.                                                               *)
(*                                                                         *)
(* Paths and what the driver makes of them are those of Fat32Names.        *)
(*                                                                         *)
(* vfs_umount frees a mount that files may still be open on.  They go on   *)
(* reading it as long as its block holds what it held, and whatever is     *)
(* allocated next may take its place.  Bound: callers use no file after    *)
(* that.                                                                   *)
(***************************************************************************)
EXTENDS Fat32Names, FiniteSets

CONSTANTS SIZE,             \* size of real_path, norm_path and fat_path
          Paths,            \* arguments that are paths
          MountPaths,       \* arguments of vfs_mount and vfs_umount
          MountIds, FileIds,\* addresses of struct vfs_mount and of vfs_file_t
          MAX_OPEN_FILES,
          Sizes,            \* sizes of the files on the disk
          Lengths,          \* arguments of read, write and seek
          MaxPos            \* bound: no write begins behind it

NULL == "null"

ASSUME VfsAssumption ==
  /\ SIZE \in Nat /\ SIZE > 3
  /\ MAX_OPEN_FILES \in Nat
  /\ NULL \notin MountIds
  /\ Sizes \subseteq Nat /\ Lengths \subseteq Nat \ {0}
  /\ \A p \in Paths \cup MountPaths : Len(p) > 0 /\ p[1] = "/"

VARIABLES mounts,           \* newest first: [id, path]
          root_bind,        \* a mount or NULL
          files,            \* CLOSED or a vfs_file_t
          open_files,       \* of the driver: UNUSED or [mode, pos, size]
          heap,             \* blocks of this layer
          stale,            \* freed mounts that still hold what they held
          pc, call

vars == <<mounts, root_bind, files, open_files, heap, stale, pc, call>>

CLOSED == [state |-> "closed"]
UNUSED == [mode |-> "unused"]
NoCall == [op |-> "none"]
MNT == <<"/", "mnt">>
OpenFlags == {{"read"}, {"write"}, {"read", "write"}}
Handles == 1 .. MAX_OPEN_FILES

Init ==
  /\ mounts = <<>> /\ root_bind = NULL
  /\ files = [f \in FileIds |-> CLOSED]
  /\ open_files = [h \in Handles |-> UNUSED]
  /\ heap = {} /\ stale = {}
  /\ pc = "idle" /\ call = NoCall

-----------------------------------------------------------------------------
(* Paths *)

\* One slash for several, none at the end, characters that print.
normalize_path(path) ==
  LET put(out, c) == IF c = "ctl" \/ (c = "/" /\ out # <<>> /\ Last(out) = "/")
                     THEN out ELSE Append(out, c)
      out == FoldLeft(put, <<>>, path)
  IN  IF Len(out) > 1 /\ Last(out) = "/" THEN Front(out) ELSE out

\* A path in a buffer: the rest is cut off.
Copied(path) == Terminated(strncpy(Uninitialized(SIZE), 0, path, SIZE - 1), SIZE)

\* Wrong on purpose: forgets the NUL.
TooLongByOne(path) == root_bind # NULL /\ Len(path) > 1 /\ Len(MNT) + Len(path) > SIZE

TooLong(path) == root_bind # NULL /\ Len(path) > 1 /\ Len(MNT) + Len(path) >= SIZE

\* real_path before it is normalized.
RealPath(path) ==
  IF root_bind = NULL THEN Copied(path)
  ELSE IF Len(path) = 1 THEN Copied(MNT)
  ELSE strcat(strcpy(Uninitialized(SIZE), MNT), path)

translate_path(path) == normalize_path(Str(RealPath(path)))

\* Wrong on purpose: "/mnt" is taken for a prefix of "/mntx".
MatchesAnyPrefix(m, real) == IsPrefix(m.path, real)

Matches(m, real) ==
  /\ IsPrefix(m.path, real)
  /\ Len(real) = Len(m.path) \/ real[Len(m.path) + 1] = "/"

\* The mount with the longest match (one, or none).
find_mount_for_real_path(real) ==
  {m \in Range(mounts) :
     /\ Matches(m, real)
     /\ \A o \in Range(mounts) : Matches(o, real) => Len(o.path) <= Len(m.path)}

\* What the driver of mount m is given for the path.
RelPath(m, real) ==
  LET rel == SubSeq(real, Len(m.path) + 1, Len(real))
  IN  IF rel # <<>> /\ Head(rel) = "/" THEN Tail(rel) ELSE rel

\* fat_path, in which the adapter puts the slash back that fat32_resolve expects.
FatPath(rel) ==
  IF rel = <<>> THEN strcpy(Uninitialized(SIZE), <<"/">>)
  ELSE Terminated(strncpy(Stored(Uninitialized(SIZE), 0, <<"/">>), 1, rel, SIZE - 2), SIZE)

\* The mounts that a call with this path reaches.
Reached(path) ==
  IF TooLong(path) THEN {} ELSE find_mount_for_real_path(translate_path(path))

-----------------------------------------------------------------------------
(* vfs_mount, vfs_umount *)

Return == pc' = "idle" /\ call' = NoCall

OpenFiles == {f \in FileIds : files[f] # CLOSED}

Norm(path) == normalize_path(Str(Copied(path)))

\* An allocation may take the place of a freed mount.
Allocate(block) ==
  /\ heap' = heap \cup {block}
  /\ \E taken \in {{}} \cup {{id} : id \in {i \in stale : <<"mount", i>> \notin heap}} :
       stale' = stale \ taken

Mount(path, id) ==
  /\ pc = "idle"
  /\ \A m \in Range(mounts) : m.path # Norm(path)
  /\ <<"mount", id>> \notin heap
  /\ heap' = heap \cup {<<"mount", id>>}
  /\ pc' = "mount" /\ call' = [op |-> "mount", id |-> id, path |-> Norm(path)]
  /\ UNCHANGED <<mounts, root_bind, files, open_files, stale>>

MountDone ==
  /\ pc = "mount"
  /\ Allocate(<<"path", call.id>>)
  /\ mounts' = <<[id |-> call.id, path |-> call.path]>> \o mounts
  /\ root_bind' = IF call.path = MNT THEN call.id ELSE root_bind
  /\ Return
  /\ UNCHANGED <<files, open_files>>

\* There is no memory for the path.
MountFails ==
  /\ pc = "mount"
  /\ heap' = heap \ {<<"mount", call.id>>}
  /\ Return
  /\ UNCHANGED <<mounts, root_bind, files, open_files, stale>>

\* The bind after mount m is gone.
Unbind(m) == IF m.id = root_bind THEN NULL ELSE root_bind

\* The files that are open on the mount are not looked at.
Umount(path) ==
  /\ pc = "idle"
  /\ \E i \in DOMAIN mounts :
       /\ mounts[i].path = Norm(path)
       /\ mounts' = RemoveAt(mounts, i)
       /\ root_bind' = Unbind(mounts[i])
       /\ heap' = heap \ {<<"mount", mounts[i].id>>, <<"path", mounts[i].id>>}
       /\ stale' = stale \cup ({mounts[i].id} \cap {files[f].mount : f \in OpenFiles})
  /\ UNCHANGED <<files, open_files, pc, call>>

-----------------------------------------------------------------------------
(* vfs_open, vfs_opendir and what they call *)

\* vfs_opendir passes no flags.
OpenCalls == ({"open"} \X OpenFlags) \cup {<<"opendir", {}>>}

\* A path that reaches mount m is opened.  The vfs_file_t is allocated, then the
\* driver is called.
Open(f, m) ==
  /\ pc = "idle"
  /\ <<"file", f>> \notin heap
  /\ ~ \A p \in Paths : m \notin Reached(p)
  /\ Allocate(<<"file", f>>)
  /\ \E o \in OpenCalls :
       /\ call' = [op |-> o[1], f |-> f, mount |-> m.id, flags |-> o[2], slot |-> 0]
       /\ pc' = o[1]
  /\ UNCHANGED <<mounts, root_bind, files, open_files>>

\* Element h is the first of open_files that is not used.
FirstUnused(h) ==
  open_files[h] = UNUSED /\ \A i \in 1 .. h - 1 : open_files[i] # UNUSED

\* fat32_open: the mode is "w" if the flags have VFS_WRITE, else "r".
DriverOpens ==
  /\ pc = "open"
  /\ LET mode == IF "write" \in call.flags THEN "w" ELSE "r"
     IN  \E h \in Handles, s \in Sizes :
           /\ FirstUnused(h)
           /\ open_files' = [open_files EXCEPT ![h] =
                [mode |-> mode, pos |-> 0, size |-> IF mode = "w" THEN 0 ELSE s]]
           /\ call' = [call EXCEPT !.slot = h]
  /\ pc' = "handle"
  /\ UNCHANGED <<mounts, root_bind, files, heap, stale>>

\* fat32_vfs_opendir finds the directory; it takes no element of open_files.
DriverOpensDir ==
  /\ pc = "opendir"
  /\ pc' = "handle"
  /\ UNCHANGED <<mounts, root_bind, files, open_files, heap, stale, call>>

\* There is no such file or directory, or open_files is full.
DriverRefuses ==
  /\ pc \in {"open", "opendir"}
  /\ heap' = heap \ {<<"file", call.f>>}
  /\ Return
  /\ UNCHANGED <<mounts, root_bind, files, open_files, stale>>

\* fat32_vfs_handle_t is allocated and the call succeeds.
HandleDone ==
  /\ pc = "handle"
  /\ Allocate(<<"handle", call.f>>)
  /\ files' = [files EXCEPT ![call.f] =
       [state |-> "open", mount |-> call.mount, fat_file |-> call.slot,
        flags |-> call.flags, pos |-> 0]]
  /\ Return
  /\ UNCHANGED <<mounts, root_bind, open_files>>

\* Wrong on purpose: the driver's file stays open.
HandleFailsLeaks ==
  /\ pc = "handle"
  /\ heap' = heap \ {<<"file", call.f>>}
  /\ Return
  /\ UNCHANGED <<mounts, root_bind, files, open_files, stale>>

\* There is no memory for it: fat32_close, and vfs_open frees the vfs_file_t.
HandleFails ==
  /\ pc = "handle"
  /\ open_files' = [h \in Handles |-> IF h = call.slot THEN UNUSED ELSE open_files[h]]
  /\ heap' = heap \ {<<"file", call.f>>}
  /\ Return
  /\ UNCHANGED <<mounts, root_bind, files, stale>>

-----------------------------------------------------------------------------
(* Operations on files *)

\* All mounts have the operations of the one driver: a file finds them also in a
\* mount that was freed, or that has been made in its place.
Usable(f) ==
  /\ pc = "idle" /\ files[f] # CLOSED
  /\ files[f].mount \in {m.id : m \in Range(mounts)} \cup stale

\* vfs_close, and vfs_closedir for directories.
Close(f) ==
  /\ Usable(f)
  /\ open_files' = [h \in Handles |-> IF h = files[f].fat_file THEN UNUSED
                                      ELSE open_files[h]]
  /\ files' = [files EXCEPT ![f] = CLOSED]
  /\ heap' = heap \ {<<"file", f>>, <<"handle", f>>}
  /\ UNCHANGED <<mounts, root_bind, stale, pc, call>>

\* The driver's file, for a vfs_file_t that is not a directory.
Fat(f) == open_files[files[f].fat_file]

Update(f, fat, pos) ==
  /\ open_files' = [open_files EXCEPT ![files[f].fat_file] = fat]
  /\ files' = [files EXCEPT ![f].pos = pos]
  /\ UNCHANGED <<mounts, root_bind, heap, stale, pc, call>>

\* Up to n bytes: the disk may fail after any of them.  A file that is open for
\* writing cannot be read, whatever its flags.
Read(f, n) ==
  /\ Usable(f) /\ "read" \in files[f].flags
  /\ Fat(f).mode = "r"
  /\ \E ret \in 1 .. n :
       /\ Fat(f).pos + ret <= Fat(f).size
       /\ Update(f, [Fat(f) EXCEPT !.pos = @ + ret], files[f].pos + ret)

Write(f, n) ==
  /\ Usable(f) /\ "write" \in files[f].flags
  /\ Fat(f).pos < MaxPos
  /\ \E ret \in 1 .. n :
       LET pos == Fat(f).pos + ret
       IN  Update(f, [Fat(f) EXCEPT !.pos = pos, !.size = IF pos > @ THEN pos ELSE @],
                  files[f].pos + ret)

\* Wrong on purpose: the position is the one asked for.
SeekTo(f, n, reached) == n

\* vfs_seek asks the driver where it is.
SeekPos(f, n, reached) == reached

\* SEEK_SET: back to the beginning and forward by reading, as far as that goes.
Seek(f, n) ==
  /\ Usable(f) /\ files[f].fat_file # 0
  /\ \E reached \in 0 .. n :
       /\ reached <= Fat(f).size
       /\ Fat(f).mode # "r" => reached = 0
       /\ Update(f, [Fat(f) EXCEPT !.pos = reached], SeekPos(f, n, reached))

Next ==
  \/ \E p \in MountPaths : Umount(p) \/ \E id \in MountIds : Mount(p, id)
  \/ MountDone \/ MountFails
  \/ \E m \in Range(mounts), f \in FileIds : Open(f, m)
  \/ DriverOpens \/ DriverOpensDir \/ DriverRefuses \/ HandleDone \/ HandleFails
  \/ \E f \in FileIds : Close(f)
  \/ \E f \in FileIds, n \in Lengths : Read(f, n) \/ Write(f, n) \/ Seek(f, n)

Spec == Init /\ [][Next]_vars

-----------------------------------------------------------------------------

\* The names of a path.
Words(path) ==
  LET put(ws, c) == IF c = "/" THEN Append(ws, <<>>)
                    ELSE IF c = "ctl" THEN ws
                    ELSE [ws EXCEPT ![Len(ws)] = Append(@, c)]
  IN  SelectSeq(FoldLeft(put, <<<<>>>>, path), LAMBDA w : w # <<>>)

\* Name by name: what a caller means by a path, with / standing for /mnt.
Meant(path) ==
  IF \E m \in Range(mounts) : m.path = MNT THEN Words(MNT) \o Words(path) ELSE Words(path)

\* Which paths are reached how does not depend on the files that are open: it is
\* looked at in the states without any.
Fitting == IF OpenFiles = {} THEN {p \in Paths : ~TooLong(p) /\ Len(p) < SIZE} ELSE {}

\* Whatever is mounted and unmounted in whatever order, a path that fits goes to
\* the mount whose names are the longest prefix of its own, those of /mnt before
\* them if something is mounted there; and the driver looks up the names that are
\* left, one after the other, however the path is written.  (A mount at / serves
\* only the path /.)
RoutedToItsMount ==
  \A p \in Fitting :
    LET meant == Meant(p)
        real == translate_path(p)
        reached == find_mount_for_real_path(real)
        serving == {m \in Range(mounts) : /\ IsPrefix(Words(m.path), meant)
                                          /\ m.path = <<"/">> => meant = <<>>}
    IN  /\ Cardinality(reached) = (IF serving = {} THEN 0 ELSE 1)
        /\ reached \subseteq serving
        /\ \A m \in reached :
             LET names == SubSeq(meant, Len(Words(m.path)) + 1, Len(meant))
             IN  /\ \A o \in serving : Len(Words(o.path)) <= Len(Words(m.path))
                 /\ Lookups(Str(FatPath(RelPath(m, real)))) = [i \in DOMAIN names |-> to_8_3(names[i])]

\* No path is copied behind the end of a buffer, although strncpy writes one byte
\* more than its limit, and the listing's name[13] holds what it shows.
BuffersHold ==
  \A p \in Paths :
    OpenFiles = {} /\ ~TooLong(p) =>
      LET real == translate_path(p)
      IN  /\ Len(RealPath(p)) = SIZE
          /\ \A m \in Reached(p) :
               LET fat_path == FatPath(RelPath(m, real))
               IN  /\ Len(fat_path) = SIZE
                   /\ \A n \in Range(Lookups(Str(fat_path))) :
                        Len(fat32_name_to_string(n)) <= NAME + 1 + EXT

\* The name that the listing shows for a file leads back to the file, however the
\* name was written when the file was created.
NamesLeadBack ==
  \A p \in Fitting : \A m \in Reached(p) :
    \A n \in Range(Lookups(Str(FatPath(RelPath(m, translate_path(p)))))) :
      to_8_3(fat32_name_to_string(n)) = n

\* Between calls the heap holds the blocks of the mounts and the open files and
\* no other, and every element of the driver's table that is used belongs to
\* exactly one open file: every error path gives back what it took, nothing that
\* is in use is given back, and files can be closed after their mount is gone.
ResourcesOwned ==
  pc = "idle" =>
    /\ heap = ({"mount", "path"} \X {m.id : m \in Range(mounts)})
                \cup ({"file", "handle"} \X OpenFiles)
    /\ {h \in Handles : open_files[h] # UNUSED} = {files[f].fat_file : f \in OpenFiles} \ {0}
    /\ \A f, g \in OpenFiles :
         files[f].fat_file # 0 /\ files[f].fat_file = files[g].fat_file => f = g

\* The position that the VFS keeps is the one of the driver, also after reads
\* that end early and seeks that stop short.
PosAgrees ==
  \A f \in OpenFiles : files[f].fat_file # 0 => files[f].pos = Fat(f).pos

=============================================================================
