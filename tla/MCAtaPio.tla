------------------------------ MODULE MCAtaPio ------------------------------
(***************************************************************************)
(* A drive of nine sectors, two places for drives, and a drive at the      *)
(* second or at none. Register values of one bit stand for the eight and   *)
(* four bits of the real ones, so that an address still spreads over all   *)
(* four registers. The addresses are the last two sectors, with counts     *)
(* that go behind the end; the count that its register shows as 0 is       *)
(* allowed, one more is not.                                               *)
(***************************************************************************)
EXTENDS AtaPio

SmallAttached == {{}, {2}}

SmallBuffers == {<<100, 101>>}

=============================================================================
