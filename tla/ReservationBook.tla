--------------------------- MODULE ReservationBook ---------------------------
(***************************************************************************)
(* The in-memory reservation book of one paper cycle (reservations.ts):    *)
(* balances, what is reserved of them, and the holds keyed by lifecycle.   *)
(*                                                                         *)
(* A hold names the buy venue's toman and the sell venue's tether, as the  *)
(* engine reserves them.  A commit names the same two venues and debits at *)
(* most what was held; what a fill credits is another amount.  The engine  *)
(* reserves and commits one fill at a time; the model lets the fills of a  *)
(* cycle overlap, as the module itself allows.                             *)
(***************************************************************************)
EXTENDS Integers, Functions

CONSTANTS
  Venue,       \* venues with a virtual balance
  HoldId,      \* lifecycle ids, the keys of the holds
  Amount,      \* amounts a leg may need or move
  Opening,     \* the balances the book is created over
  MaxBalance,  \* bound on the balance a commit may credit
  NoHold       \* what an id without a hold maps to

Asset == {"irt", "usdt"}
Purses == [Venue -> [Asset -> Nat]]
Fill == [buy : Venue, sell : Venue, irt : Amount, usdt : Amount]

ASSUME AmountAssumption == Amount \subseteq Nat /\ MaxBalance \in Nat
ASSUME OpeningAssumption == Opening \in Purses
ASSUME NoHoldAssumption == NoHold \notin Fill /\ NoHold \notin Purses

VARIABLES balances, reserved, holds

vars == <<balances, reserved, holds>>

Clamp(n) == IF n >= 0 THEN n ELSE 0
Held == {h \in HoldId : holds[h] # NoHold}

\* Mutation: the legs' signed deltas are held, and a debit is negative.
SignedNeed(fill) ==
  [v \in Venue |-> [x \in Asset |->
     CASE x = "irt" -> IF v = fill.buy THEN -fill.irt ELSE 0
       [] x = "usdt" -> IF v = fill.sell THEN -fill.usdt ELSE 0]]

\* What a fill needs of every venue; its legs are merged when they meet.
Need(fill) ==
  [v \in Venue |-> [x \in Asset |->
     CASE x = "irt" -> IF v = fill.buy THEN fill.irt ELSE 0
       [] x = "usdt" -> IF v = fill.sell THEN fill.usdt ELSE 0]]

\* createReservationBook
Init ==
  /\ balances = Opening
  /\ reserved = [v \in Venue |-> [x \in Asset |-> 0]]
  /\ holds = [h \in HoldId |-> NoHold]

\* Mutation: routes are sized against the whole balance, holds included.
WholeBalance(v, x) == balances[v][x]

\* availableFor
Available(v, x) == balances[v][x] - reserved[v][x]

\* reserveAtomic: every entry is checked before any is applied; a second hold
\* of one id is refused.
Reserve(h) ==
  /\ h \notin Held
  /\ \E fill \in Fill :
       /\ \A v \in Venue, x \in Asset : Need(fill)[v][x] <= Available(v, x)
       /\ reserved' =
            [v \in Venue |-> [x \in Asset |-> reserved[v][x] + Need(fill)[v][x]]]
       /\ holds' = [holds EXCEPT ![h] = fill]
  /\ UNCHANGED balances

\* Mutation: the hold is dropped before its second leg is given back.
GiveBackHalf(h) ==
  /\ reserved' = [reserved EXCEPT ![holds[h].buy].irt = Clamp(@ - holds[h].irt)]
  /\ holds' = [holds EXCEPT ![h] = NoHold]

\* releaseHold
GiveBack(h) ==
  /\ reserved' =
       [v \in Venue |-> [x \in Asset |-> Clamp(reserved[v][x] - Need(holds[h])[v][x])]]
  /\ holds' = [holds EXCEPT ![h] = NoHold]

\* The engine drops a hold whose commit was refused.
Release(h) ==
  /\ h \in Held
  /\ GiveBack(h)
  /\ UNCHANGED balances

Plus(purse, irt, usdt) == [irt |-> purse.irt + irt, usdt |-> purse.usdt + usdt]
Solvent(purse) == purse.irt >= 0 /\ purse.usdt >= 0

\* Mutation: a commit may debit what the balance allows, whatever was held.
DebitAnything(h, irt, usdt) == TRUE

\* What moves is never more than what was held.
Covered(h, irt, usdt) == irt <= holds[h].irt /\ usdt <= holds[h].usdt

\* commitHold: the legs are applied one after the other to a copy, each checked
\* against zero; only then is the hold given back and the copy written.
Commit(h) ==
  /\ h \in Held
  /\ \E irt, usdt, paid, got \in Amount :
       LET buy == holds[h].buy
           sell == holds[h].sell
           bought == [balances EXCEPT ![buy] = Plus(@, -irt, got)]
           sold == [bought EXCEPT ![sell] = Plus(@, paid, -usdt)]
       IN /\ Covered(h, irt, usdt)
          /\ Solvent(bought[buy]) /\ Solvent(sold[sell])
          /\ sold[buy].usdt <= MaxBalance /\ sold[sell].irt <= MaxBalance
          /\ balances' = sold
  /\ GiveBack(h)

Next == \E h \in HoldId : Reserve(h) \/ Release(h) \/ Commit(h)

Spec == Init /\ [][Next]_vars

-----------------------------------------------------------------------------
(* Properties.                                                             *)

\* Types: no balance and no reservation is ever negative.
TypeOK ==
  /\ balances \in Purses
  /\ reserved \in Purses
  /\ holds \in [HoldId -> Fill \cup {NoHold}]

\* Two routes never hold the same toman: what is reserved of a venue, by all
\* holds and through every commit, is never more than the venue owns.
NeverOvercommitted ==
  \A v \in Venue, x \in Asset : reserved[v][x] <= balances[v][x]

\* No capacity is stranded: the reservations of a venue are exactly what its
\* live holds need, so the clamp of releaseHold never hides a lost amount.
HoldsAddUp ==
  \A v \in Venue, x \in Asset :
     reserved[v][x] = SumFunction([h \in Held |-> Need(holds[h])[v][x]])

\* The book implements the escrow: what reserveAtomic promises the routes of
\* a cycle, with the free pool being what availableBalances answers.
Promise ==
  INSTANCE Escrow WITH
    free <- [v \in Venue |-> [x \in Asset |-> Available(v, x)]],
    escrow <- [h \in HoldId |-> IF h \in Held THEN Need(holds[h]) ELSE NoHold]

ImplementsEscrow == Promise!Spec
=============================================================================
