------------------------------- MODULE Escrow -------------------------------
(* What the reservation book promises the routes of one cycle: capacity is   *)
(* free or locked by exactly one hold, locking takes it out of the free pool *)
(* and whatever a hold does later never takes free capacity from the others. *)
EXTENDS Integers

CONSTANTS
  Venue,    \* venues with a purse
  HoldId,   \* who may lock capacity
  NoHold    \* what an id that holds nothing has in escrow

Asset == {"irt", "usdt"}
Purses == [Venue -> [Asset -> Nat]]

VARIABLES free, escrow

Init ==
  /\ free \in Purses
  /\ escrow = [h \in HoldId |-> NoHold]

Plus(one, two) == [v \in Venue |-> [x \in Asset |-> one[v][x] + two[v][x]]]
AtMost(one, two) == \A v \in Venue, x \in Asset : one[v][x] <= two[v][x]

\* Everything a fill needs leaves the free pool at once.
Lock(h) ==
  /\ escrow[h] = NoHold
  /\ free' \in Purses /\ AtMost(free', free)
  /\ escrow' = [escrow EXCEPT ![h] =
       [v \in Venue |-> [x \in Asset |-> free[v][x] - free'[v][x]]]]

\* A dropped hold comes back whole.
Unlock(h) ==
  /\ escrow[h] # NoHold
  /\ free' = Plus(free, escrow[h])
  /\ escrow' = [escrow EXCEPT ![h] = NoHold]

\* A settled hold pays out of its own escrow only.
Settle(h) ==
  /\ escrow[h] # NoHold
  /\ free' \in Purses /\ AtMost(free, free')
  /\ escrow' = [escrow EXCEPT ![h] = NoHold]

Next == \E h \in HoldId : Lock(h) \/ Unlock(h) \/ Settle(h)

Spec == Init /\ [][Next]_<<free, escrow>>
=============================================================================
