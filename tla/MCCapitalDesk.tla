--------------------------- MODULE MCCapitalDesk ---------------------------
(* A small desk for TLC: an opening plan may name one venue or both.         *)
EXTENDS CapitalDesk, TLC

CONSTANTS r1, r2, v1, v2, k1, k2

SmallPlans == {{v1}, {v1, v2}}
Symmetry == Permutations(Request) \cup Permutations(Key)
=============================================================================
