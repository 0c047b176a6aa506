--------------------------- MODULE PmmAlignedScan ----------------------------
(***************************************************************************)
(* The scan of pmalloc_aligned in kernel/src/pmm.c, one step per iteration *)
(* of its loops, beside the scan of find_free_run: a behaviour is one call *)
(* of one of the two on some bitmap.                                       *)
(***************************************************************************)
EXTENDS PmmScan

CONSTANT Alignments     \* values of alignment / PMM_PAGE_SIZE

ASSUME AlignedScanAssumption == Alignments \subseteq Nat

VARIABLES align_pages, i, j

aligned_vars == <<align_pages, i, j>>
all_vars == <<vars, aligned_vars>>
loop_vars == <<w, bit_index, b, run>>   \* find_free_run's own

AlignedInit ==
  /\ bitmap \in SUBSET Bits
  /\ pages \in Requests
  /\ w = 0 /\ bit_index = 0 /\ b = 0 /\ run = 0
  /\ pc = "scan"
  /\ result = NOT_FOUND

AllInit ==
  /\ Init \/ AlignedInit
  /\ align_pages \in Alignments
  /\ pc = "word" => align_pages = 1
  /\ i = 0 /\ j = 0

AlignedReturn(r) ==
  /\ result' = r
  /\ pc' = "returned"
  /\ UNCHANGED <<bitmap, pages, loop_vars, align_pages, i, j>>

\* No page asked for, or no room left behind i.
NoRoom ==
  /\ pc = "scan"
  /\ pages = 0 \/ i + pages > TotalPages
  /\ AlignedReturn(NOT_FOUND)

TryStart ==
  /\ pc = "scan"
  /\ pages # 0 /\ i + pages <= TotalPages
  /\ j' = 0
  /\ pc' = "check"
  /\ UNCHANGED <<bitmap, pages, loop_vars, align_pages, i, result>>

PageFree ==
  /\ pc = "check" /\ j < pages
  /\ i + j \notin bitmap
  /\ j' = j + 1
  /\ UNCHANGED <<bitmap, pages, loop_vars, align_pages, i, pc, result>>

\* Wrong on purpose: moves to i + 1.
PageUsedNextPage ==
  /\ pc = "check" /\ j < pages
  /\ i + j \in bitmap
  /\ align_pages # 0
  /\ i' = i + 1
  /\ pc' = "scan"
  /\ UNCHANGED <<bitmap, pages, loop_vars, align_pages, j, result>>

\* i = ((i / align_pages) + 1) * align_pages
PageUsed ==
  /\ pc = "check" /\ j < pages
  /\ i + j \in bitmap
  /\ align_pages # 0
  /\ i' = ((i \div align_pages) + 1) * align_pages
  /\ pc' = "scan"
  /\ UNCHANGED <<bitmap, pages, loop_vars, align_pages, j, result>>

\* An alignment of 0 passes alignment % PMM_PAGE_SIZE != 0 and raises a divide
\* error here: exception_handler halts the machine.
DivideError ==
  /\ pc = "check" /\ j < pages
  /\ i + j \in bitmap
  /\ align_pages = 0
  /\ pc' = "halted"
  /\ UNCHANGED <<bitmap, pages, loop_vars, align_pages, i, j, result>>

AllFree ==
  /\ pc = "check" /\ j = pages
  /\ AlignedReturn(i)

AlignedStep ==
  NoRoom \/ TryStart \/ PageFree \/ PageUsed \/ DivideError \/ AllFree

\* The call has returned, or the machine has stopped.
AlignedDone == pc \in {"returned", "halted"} /\ UNCHANGED all_vars

AllNext ==
  \/ Next /\ UNCHANGED aligned_vars
  \/ AlignedStep
  \/ AlignedDone

AllSpec ==
  /\ AllInit /\ [][AllNext]_all_vars
  /\ WF_all_vars(Step /\ UNCHANGED aligned_vars) /\ WF_all_vars(AlignedStep)

-----------------------------------------------------------------------------

\* For an alignment that is not 0, pmalloc_aligned returns the lowest aligned
\* start of a free run, and NULL only if there is none: jumping from a used page
\* to the next multiple of the alignment loses no run.
ReturnsFirstAligned ==
  pc = "returned" /\ pages # 0 /\ align_pages # 0 =>
    IF result = NOT_FOUND
    THEN AlignedStarts(UsedBits, pages, align_pages) = {}
    ELSE FirstAligned(UsedBits, pages, align_pages, result)

\* Both scans end whatever the bitmap holds, by returning unless pmalloc_aligned
\* was called with an alignment of 0.
Terminates == <>(pc \in {"done", "returned"} \/ (align_pages = 0 /\ pc = "halted"))

=============================================================================
