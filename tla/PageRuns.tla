------------------------------ MODULE PageRuns -------------------------------
(***************************************************************************)
(* Runs of physical pages, and what it means for a scan of the bitmap of   *)
(* kernel/src/pmm.c to stop at the first fitting one.  U is the set of     *)
(* pages whose bit is 1.                                                   *)
(***************************************************************************)
EXTENDS Integers

CONSTANT TotalPages     \* pmm.total_pages

ASSUME TotalPagesAssumption == TotalPages \in Nat

Pages == 0 .. TotalPages - 1

\* A run of n pages from page s on.
Run(s, n) == s .. s + n - 1

\* The starts of the runs of n pages that are free.
FreeStarts(U, n) == {s \in Pages : s + n <= TotalPages /\ Run(s, n) \cap U = {}}

\* s is the lowest of them.
FirstFit(U, n, s) == s \in FreeStarts(U, n) /\ \A t \in FreeStarts(U, n) : s <= t

\* The free starts at multiples of a pages, and the lowest of them.
AlignedStarts(U, n, a) == {s \in FreeStarts(U, n) : s % a = 0}

FirstAligned(U, n, a, s) ==
  s \in AlignedStarts(U, n, a) /\ \A t \in AlignedStarts(U, n, a) : s <= t

=============================================================================
