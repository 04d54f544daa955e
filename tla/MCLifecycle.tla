---------------------------- MODULE MCLifecycle ----------------------------
(***************************************************************************)
(* Two requests, which may be of one key or of two, over a clock that      *)
(* passes one period, with one crash anywhere.                             *)
(***************************************************************************)
EXTENDS Lifecycle

CONSTANTS r1, r2, k1, k2

MCRequests == {r1, r2}
MCKeys     == {k1, k2}
MCJitters  == {0, 1}
=============================================================================
