----------------------------- MODULE MCRequests -----------------------------
(***************************************************************************)
(* All histories of up to MaxItems items with two call ids, which are      *)
(* interchangeable.                                                        *)
(***************************************************************************)
EXTENDS Requests, TLC

IdSymmetry == Permutations(Ids)
=============================================================================
