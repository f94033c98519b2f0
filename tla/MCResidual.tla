----------------------------- MODULE MCResidual -----------------------------
(* One collector process, two price levels, two opportunities, which are   *)
(* alike to everything that is checked.                                    *)
EXTENDS Residual, TLC

CONSTANTS w1, c1, c2

Opportunities == Permutations({c1, c2})
=============================================================================
