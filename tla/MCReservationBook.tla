-------------------------- MODULE MCReservationBook --------------------------
(* A small instance of ReservationBook: two venues, two fills.               *)
EXTENDS ReservationBook, TLC

CONSTANTS v1, v2, h1, h2

MCOpening == v1 :> [irt |-> 2, usdt |-> 1] @@ v2 :> [irt |-> 1, usdt |-> 2]

Symmetry == Permutations({h1, h2})
=============================================================================
