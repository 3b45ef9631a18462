---------------------------- MODULE MCForgeServer ----------------------------
(***************************************************************************)
(* ForgeServer for TLC.  The members of Calls are alike and the runs       *)
(* without temporal properties identify states that differ in their names  *)
(* only; instance ids are not symmetric in a run that has EmptyId.         *)
(***************************************************************************)
EXTENDS ForgeServer, TLC

CONSTANTS c1, c2, i1, i2, m1, m2

CallSymmetry == Permutations(Calls)

CallAndIdSymmetry == Permutations(Calls) \cup Permutations(InstIds)
=============================================================================
