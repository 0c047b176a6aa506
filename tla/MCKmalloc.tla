------------------------------ MODULE MCKmalloc ------------------------------
(***************************************************************************)
(* Pools of 80 bytes hold two smallest blocks each, and the second lies   *)
(* right behind the first; a pool of 120 bytes is alone.  Header and       *)
(* alignment are the code's.                                               *)
(***************************************************************************)
EXTENDS Kmalloc

OnePool == <<128>>
AdjacentPools == <<128, 208>>
NoArrays == {}
SmallArrays == {<<3, 10>>, <<0, 8>>}

=============================================================================
