----------------------------- MODULE MCPaperDesk -----------------------------
(* Small instances of PaperDesk for TLC: two lifecycles that trade between  *)
(* the same two venues in opposite directions, so that each fill changes    *)
(* what the other can afford.  A LEG_RISK outcome moves the buy leg only.   *)
EXTENDS PaperDesk, TLC

CONSTANTS l1, l2, v1, v2, w1, w2, a1, a2

MCOpening ==
  v1 :> [irt |-> 4, usdt |-> 1] @@ v2 :> [irt |-> 1, usdt |-> 2]

MCLegs == [l \in Lifecycle |-> {v1, v2}]

BuyVenue(l) == IF l = l1 THEN v1 ELSE v2

Buy == [irt |-> -2, usdt |-> 1]
Sell == [irt |-> 3, usdt |-> -1]
Nothing == [irt |-> 0, usdt |-> 0]

MCDelta ==
  [o \in Outcome |-> [l \in Lifecycle |-> [v \in Venue |->
     CASE v = BuyVenue(l) -> Buy
       [] v # BuyVenue(l) /\ o = "FILLED" -> Sell
       [] v # BuyVenue(l) /\ o = "LEG_RISK" -> Nothing]]]

Symmetry == Permutations({w1, w2}) \cup Permutations({a1, a2})
=============================================================================
