------------------------------- MODULE MCSram -------------------------------
(***************************************************************************)
(* A small cache for TLC.  The tags but 0, which the zeroed lines hold,    *)
(* are model values that only equality tells apart.                        *)
(***************************************************************************)
EXTENDS SramCache, TLC

CONSTANTS t1, t2

Symmetry == Permutations({t1, t2})
=============================================================================
