----------------------------- MODULE MCCollector -----------------------------
(* A small instance of Collector: two workers, a manual refresh, an admin.   *)
EXTENDS Collector

CONSTANTS w1, w2, v1, a1, r1
=============================================================================
