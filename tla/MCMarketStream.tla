--------------------------- MODULE MCMarketStream ---------------------------
(* One venue for TLC, its sequence policy chosen freely: venues share only   *)
(* the loop, and a venue that is lost again while it is asked for already    *)
(* meets every interleaving the loop has.                                    *)
EXTENDS MarketStream

CONSTANT v1
=============================================================================
