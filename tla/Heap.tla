-------------------------------- MODULE Heap --------------------------------
(***************************************************************************)
(* What an allocator promises its callers: the regions it has handed out   *)
(* lie in its memory and are disjoint, and a region stays as it is until   *)
(* its owner gives it back.                                                *)
(***************************************************************************)
EXTENDS Integers

CONSTANT Memory         \* the addresses the allocator manages

VARIABLE regions        \* the regions in the callers' hands

Bytes(r) == r.start .. r.start + r.length - 1

Init == regions = {}

Allocate ==
  \E r \in regions' \ regions :
    /\ r.length > 0
    /\ Bytes(r) \subseteq Memory
    /\ \A q \in regions : Bytes(q) \cap Bytes(r) = {}
    /\ regions' = regions \cup {r}

Release == \E r \in regions : regions' = regions \ {r}

Next == Allocate \/ Release

Spec == Init /\ [][Next]_regions

=============================================================================
