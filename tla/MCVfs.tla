-------------------------------- MODULE MCVfs --------------------------------
(***************************************************************************)
(* Mounts at /, /mnt and /mnt/x, written with superfluous slashes too;     *)
(* every path of up to three characters, such as /xx, which is not below   *)
(* /x, with dots, blanks and unprintable characters, and a few longer      *)
(* ones; buffers and names so short that some do not fit.                  *)
(***************************************************************************)
EXTENDS Vfs, TLC

SmallMountPaths ==
  {<<"/">>, <<"/", "mnt">>, <<"/", "mnt", "/", "x">>, <<"/", "/", "mnt", "/">>}

Chars == {"/", "mnt", "x", "ctl", ".", " "}

SmallPaths ==
  {<<"/">> \o p : p \in UNION {[1 .. n -> Chars] : n \in 0 .. 2}}
    \cup {<<"/", "mnt", "/", "x">>, <<"/", "x", "/", "mnt">>, <<"/", "mnt", "/", "x", "/", "x">>,
           <<"/", "x", "/", "x", "/", "x", "/">>, <<"/", "x", ".", "x">>,
           <<"/", "x", ".", ".", "x">>, <<"/", "x", "x", "x">>, <<"/", ".", "x", ".", "x">>}

\* The addresses are interchangeable.
Symmetry == Permutations(MountIds) \cup Permutations(FileIds)

=============================================================================
