------------------------------- MODULE Fat32Ls -------------------------------
(***************************************************************************)
(* The listing of a volume, kernel/src/fat32_ls.c, beside the driver.      *)
(*                                                                         *)
(* A listing reads directories entry by entry, in the order of At, and     *)
(* fat32_ls_recursive goes down into each directory before the next entry. *)
(* Its frames are the elements of call.stack: the directory and the entry  *)
(* that comes next.  call.listed is what it has shown; file_count and      *)
(* dir_count are the lengths of its parts.  The entries of a cluster are   *)
(* read at once.  How names are shown is left out (see Fat32Names).        *)
(*                                                                         *)
(* Bound: no file is open while a volume is listed, as in kmain.           *)
(***************************************************************************)
EXTENDS Fat32

CONSTANT DEPTH              \* the depth that is still listed, 10

ASSUME Fat32LsAssumption == DEPTH \in Nat

Frame(d) == [dir |-> d, next |-> 1]

\* fat32_ls shows the root only, whatever its path; fat32_ls_recursive begins
\* there.
Ls(op) ==
  /\ pc = "idle" /\ \A h \in Handles : open_files[h] = UNUSED
  /\ pc' = "list"
  /\ call' = [op |-> op, stack |-> <<Frame(Root)>>, listed |-> <<>>]
  /\ UNCHANGED <<disk, open_files, history>>

Top == call.stack[Len(call.stack)]

Below == SubSeq(call.stack, 1, Len(call.stack) - 1)

\* Wrong on purpose: a deleted entry ends the directory.
SkippedUnlessDeleted(i) ==
  i >= Top.next /\ \A j \in Top.next .. i - 1 : dirent[At(Top.dir, j)] = UNNAMED

\* What comes before entry i is skipped: deleted entries, long names, labels, "."
\* and "..".
Skipped(i) ==
  i >= Top.next /\ \A j \in Top.next .. i - 1 : dirent[At(Top.dir, j)] \in {DELETED, UNNAMED}

\* The next entry to show (one, or none): a first byte of 0 ends the directory.
NextShown == {i \in Indices(Top.dir) : At(Top.dir, i) \in Files /\ Skipped(i)}

\* The frame of root has depth 0; a call below DEPTH returns at once.
GoesDown(e) == call.op = "recursive" /\ e.kind = "dir" /\ Len(call.stack) <= DEPTH

ListEntry ==
  /\ pc = "list" /\ call.stack # <<>>
  /\ \E i \in NextShown :
       LET e == dirent[At(Top.dir, i)]
           later == Append(Below, [Top EXCEPT !.next = i + 1])
       IN  call' = [call EXCEPT !.listed = Append(@, At(Top.dir, i)),
                                !.stack = IF GoesDown(e) THEN Append(later, Frame(e.first))
                                          ELSE later]
  /\ UNCHANGED <<disk, open_files, pc, history>>

\* At the end of a directory, or where a cluster or its successor cannot be read.
ListReturns ==
  /\ pc = "list" /\ call.stack # <<>>
  /\ \/ NextShown = {} /\ UNCHANGED history
     \/ (\E i \in Indices(Top.dir) : i % Slots = 1 /\ Skipped(i)) /\ Fault
  /\ call' = [call EXCEPT !.stack = Below]
  /\ UNCHANGED <<disk, open_files, pc>>

\* The counts are shown.
LsReturns ==
  /\ pc = "list" /\ call.stack = <<>>
  /\ Return
  /\ UNCHANGED <<disk, open_files, history>>

LsSteps == Steps \/ ListEntry \/ ListReturns \/ LsReturns

LsNext == Next \/ Ls("flat") \/ Ls("recursive") \/ ListEntry \/ ListReturns \/ LsReturns

LsSpec == Init /\ [][LsNext]_vars /\ WF_vars(LsSteps)

-----------------------------------------------------------------------------

\* Whatever open and mkdir have written, in whatever order, before whatever
\* crash, a listing that meets no fault shows every file and directory once:
\* they leave no gap at which it would stop, and no entry that it would not
\* reach.
ListsEverything ==
  [][pc = "list" /\ pc' = "idle" /\ call.op = "recursive" /\ call.stack = <<>>
       /\ mishaps \subseteq {"full", "lost"} =>
         /\ {call.listed[i] : i \in DOMAIN call.listed} = Files
         /\ Len(call.listed) = Cardinality(Files)]_vars

=============================================================================
