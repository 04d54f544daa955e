------------------------------ MODULE MCStores ------------------------------
(***************************************************************************)
(* One session key, as keys do not meet in the session map; two callers    *)
(* for the lists of two keys, which may be the same.                       *)
(***************************************************************************)
EXTENDS Stores

CONSTANTS k1, k2, c1, c2

MCSessionKeys == {k1}
MCModelKeys   == {k1, k2}
MCCallers     == {c1, c2}
=============================================================================
