---------------------------- MODULE MCWorkspace ----------------------------
(***************************************************************************)
(* A pool of two interchangeable slots.  A workspace has room for a flight  *)
(* of three bytes, a loan for two or for four: flights overflow, roll back  *)
(* and follow one another, in a workspace and in a transport's store.       *)
(***************************************************************************)
EXTENDS Workspace, TLC

MCLoans == {2, 4}

MCSymmetry == Permutations(Slots)
=============================================================================
