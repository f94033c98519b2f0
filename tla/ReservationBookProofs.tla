------------------------ MODULE ReservationBookProofs ------------------------
(***************************************************************************)
(* Proofs about the reservation book.  The invariant IInv is inductive:    *)
(* releaseHold clamps at zero, so giving a hold back never leaves more     *)
(* reserved than before, and a commit debits at most what its own hold     *)
(* frees.  That the clamp never bites is a sum over the holds (HoldsAddUp),*)
(* and with it the book implements the escrow, step by step.               *)
(***************************************************************************)
EXTENDS ReservationBook, FiniteSums

IInv == TypeOK /\ NeverOvercommitted

\* What a fill needs is an amount of every asset on every venue: zero but for
\* the toman of its buy venue and the tether of its sell venue.
LEMMA NeedTyped ==
  ASSUME NEW fill \in Fill
  PROVE  /\ Need(fill) \in Purses
         /\ \A v \in Venue :
              /\ Need(fill)[v]["irt"] = (IF v = fill.buy THEN fill.irt ELSE 0)
              /\ Need(fill)[v]["usdt"] = (IF v = fill.sell THEN fill.usdt ELSE 0)
  <1>1. fill.irt \in Nat /\ fill.usdt \in Nat
    BY AmountAssumption DEF Fill
  <1>2. \A v \in Venue :
          /\ Need(fill)[v]["irt"] = (IF v = fill.buy THEN fill.irt ELSE 0)
          /\ Need(fill)[v]["usdt"] = (IF v = fill.sell THEN fill.usdt ELSE 0)
    BY DEF Need, Asset
  <1>3. Need(fill) \in Purses
    BY <1>1 DEF Need, Purses, Asset
  <1> QED BY <1>2, <1>3

\* A hold that is held is a fill.
LEMMA HeldIsFill ==
  ASSUME TypeOK, NEW h \in HoldId, h \in Held
  PROVE  holds[h] \in Fill
  BY DEF TypeOK, Held

\* Giving a hold back keeps the types, and every reservation shrinks by what
\* the hold needs, or to zero.
LEMMA GiveBackTyped ==
  ASSUME TypeOK, NEW h \in HoldId, h \in Held, GiveBack(h)
  PROVE  /\ reserved' \in Purses
         /\ holds' \in [HoldId -> Fill \cup {NoHold}]
         /\ \A v \in Venue, x \in Asset :
              \/ reserved'[v][x] = 0
              \/ reserved'[v][x] = reserved[v][x] - Need(holds[h])[v][x]
  <1>1. Need(holds[h]) \in Purses
    BY HeldIsFill, NeedTyped
  <1>2. \A v \in Venue, x \in Asset :
          reserved'[v][x] = Clamp(reserved[v][x] - Need(holds[h])[v][x])
    BY DEF GiveBack
  <1>3. \A v \in Venue, x \in Asset :
          reserved[v][x] \in Nat /\ Need(holds[h])[v][x] \in Nat
    BY <1>1 DEF TypeOK, Purses
  <1>4. \A v \in Venue, x \in Asset :
          /\ reserved'[v][x] \in Nat
          /\ \/ reserved'[v][x] = 0
             \/ reserved'[v][x] = reserved[v][x] - Need(holds[h])[v][x]
    BY <1>2, <1>3 DEF Clamp
  <1>5. reserved' = [v \in Venue |-> [x \in Asset |-> reserved'[v][x]]]
    BY <1>2 DEF GiveBack
  <1>6. reserved' \in Purses
    BY <1>4, <1>5 DEF Purses
  <1>7. holds' \in [HoldId -> Fill \cup {NoHold}]
    BY DEF GiveBack, TypeOK
  <1> QED BY <1>4, <1>6, <1>7

\* The two legs of a commit, merged or not, leave every balance at or above
\* zero and take at most what the hold needs.
LEMMA CommitTyped ==
  ASSUME IInv, NEW h \in HoldId, Commit(h)
  PROVE  /\ balances' \in Purses
         /\ \A v \in Venue, x \in Asset :
              balances'[v][x] >= balances[v][x] - Need(holds[h])[v][x]
  <1> DEFINE fill == holds[h]
             bought(irt, got) == [balances EXCEPT ![fill.buy] = Plus(@, -irt, got)]
             sold(irt, usdt, paid, got) ==
               [bought(irt, got) EXCEPT ![fill.sell] = Plus(@, paid, -usdt)]
  <1>0. fill \in Fill
    BY HeldIsFill DEF Commit, IInv
  <1>1. PICK irt \in Amount, usdt \in Amount, paid \in Amount, got \in Amount :
          /\ irt <= fill.irt /\ usdt <= fill.usdt
          /\ Solvent(bought(irt, got)[fill.buy])
          /\ Solvent(sold(irt, usdt, paid, got)[fill.sell])
          /\ balances' = sold(irt, usdt, paid, got)
    BY DEF Commit, Covered
  <1> DEFINE B == bought(irt, got)
  <1>2. /\ fill.buy \in Venue /\ fill.sell \in Venue
        /\ fill.irt \in Nat /\ fill.usdt \in Nat
    BY <1>0, AmountAssumption DEF Fill
  <1>3. irt \in Nat /\ usdt \in Nat /\ paid \in Nat /\ got \in Nat
    BY AmountAssumption
  <1>4. balances \in [Venue -> [Asset -> Nat]]
    BY DEF IInv, TypeOK, Purses
  <1>5. \A v \in Venue : balances[v]["irt"] \in Nat /\ balances[v]["usdt"] \in Nat
    BY <1>4 DEF Asset
  <1>6. /\ B[fill.buy] = [irt |-> balances[fill.buy].irt - irt,
                          usdt |-> balances[fill.buy].usdt + got]
        /\ \A v \in Venue \ {fill.buy} : B[v] = balances[v]
    BY <1>2, <1>3, <1>4, <1>5 DEF Plus
  <1>7. /\ balances'[fill.sell] = [irt |-> B[fill.sell].irt + paid,
                                   usdt |-> B[fill.sell].usdt - usdt]
        /\ \A v \in Venue \ {fill.sell} : balances'[v] = B[v]
    BY <1>1, <1>2, <1>3, <1>4 DEF Plus
  <1> HIDE DEF B
  <1>positive. /\ balances'[fill.sell]["irt"] >= 0 /\ balances'[fill.sell]["usdt"] >= 0
        /\ B[fill.buy]["irt"] >= 0 /\ B[fill.buy]["usdt"] >= 0
    BY <1>1 DEF Solvent, B
  <1>8. \A v \in Venue :
          /\ B[v]["irt"] \in Nat /\ B[v]["usdt"] \in Nat
          /\ B[v]["irt"] >= balances[v]["irt"] - (IF v = fill.buy THEN fill.irt ELSE 0)
          /\ B[v]["usdt"] >= balances[v]["usdt"]
    BY <1>1, <1>2, <1>3, <1>5, <1>6, <1>positive
  <1>usdt. usdt <= fill.usdt
    BY <1>1
  <1>9. \A v \in Venue :
          /\ balances'[v]["irt"] \in Nat /\ balances'[v]["usdt"] \in Nat
          /\ balances'[v]["irt"] >= B[v]["irt"]
          /\ balances'[v]["usdt"] >= B[v]["usdt"] - (IF v = fill.sell THEN fill.usdt ELSE 0)
    <2>1. /\ balances'[fill.sell]["irt"] = B[fill.sell]["irt"] + paid
          /\ balances'[fill.sell]["usdt"] = B[fill.sell]["usdt"] - usdt
      BY <1>7
    <2>2. \A v \in Venue \ {fill.sell} : balances'[v] = B[v]
      BY <1>7
    <2> HIDE DEF fill
    <2> QED BY <1>2, <1>3, <1>8, <1>positive, <1>usdt, <2>1, <2>2
  <1>10. \A v \in Venue, x \in Asset :
           balances'[v][x] >= balances[v][x] - Need(fill)[v][x]
    BY <1>0, <1>2, <1>5, <1>8, <1>9, NeedTyped DEF Asset
  <1>11. balances' \in Purses
    <2>1. \A v \in Venue : balances'[v] \in [Asset -> Nat]
      <3> SUFFICES ASSUME NEW v \in Venue PROVE balances'[v] \in [Asset -> Nat]
        OBVIOUS
      <3>1. balances'[v] = [x \in Asset |-> balances'[v][x]]
        <4>1. B[v] = [x \in Asset |-> B[v][x]]
          BY <1>2, <1>4, <1>6 DEF Asset
        <4>2. CASE v = fill.sell
          BY <1>7, <4>2 DEF Asset
        <4>3. CASE v # fill.sell
          BY <1>7, <4>1, <4>3
        <4> QED BY <4>2, <4>3
      <3> QED BY <1>9, <3>1 DEF Asset
    <2>2. balances' = [v \in Venue |-> balances'[v]]
      BY <1>1, <1>4
    <2> QED BY <2>1, <2>2 DEF Purses
  <1> QED BY <1>10, <1>11

LEMMA IInvInit == Init => IInv
  <1> SUFFICES ASSUME Init PROVE IInv
    OBVIOUS
  <1>1. TypeOK
    BY OpeningAssumption DEF Init, TypeOK, Purses
  <1>2. NeverOvercommitted
    BY OpeningAssumption DEF Init, NeverOvercommitted, Purses
  <1> QED BY <1>1, <1>2 DEF IInv

LEMMA IInvNext == IInv /\ [Next]_vars => IInv'
  <1> SUFFICES ASSUME IInv, [Next]_vars PROVE IInv'
    OBVIOUS
  <1> USE DEF IInv
  <1>0. \A v \in Venue, x \in Asset :
          balances[v][x] \in Nat /\ reserved[v][x] \in Nat
    BY DEF TypeOK, Purses
  <1>1. ASSUME NEW h \in HoldId, Reserve(h) PROVE IInv'
    <2>1. PICK fill \in Fill :
            /\ \A v \in Venue, x \in Asset : Need(fill)[v][x] <= Available(v, x)
            /\ reserved' =
                 [v \in Venue |-> [x \in Asset |-> reserved[v][x] + Need(fill)[v][x]]]
            /\ holds' = [holds EXCEPT ![h] = fill]
      BY <1>1 DEF Reserve
    <2>2. \A v \in Venue, x \in Asset : Need(fill)[v][x] \in Nat
      BY NeedTyped DEF Purses
    <2>3. \A v \in Venue, x \in Asset : reserved'[v][x] = reserved[v][x] + Need(fill)[v][x]
      BY <2>1
    <2>4. reserved' \in Purses
      BY <1>0, <2>1, <2>2 DEF Purses
    <2>5. balances' = balances
      BY <1>1 DEF Reserve
    <2>6. \A v \in Venue, x \in Asset : reserved'[v][x] <= balances'[v][x]
      BY <1>0, <2>1, <2>2, <2>3, <2>5 DEF Available
    <2> QED BY <2>1, <2>4, <2>5, <2>6 DEF TypeOK, NeverOvercommitted
  <1>2. ASSUME NEW h \in HoldId, Release(h) PROVE IInv'
    <2>1. /\ reserved' \in Purses
          /\ holds' \in [HoldId -> Fill \cup {NoHold}]
          /\ \A v \in Venue, x \in Asset :
               \/ reserved'[v][x] = 0
               \/ reserved'[v][x] = reserved[v][x] - Need(holds[h])[v][x]
      BY <1>2, GiveBackTyped DEF Release
    <2>2. \A v \in Venue, x \in Asset : Need(holds[h])[v][x] \in Nat
      BY <1>2, HeldIsFill, NeedTyped DEF Purses, Release
    <2>3. balances' = balances
      BY <1>2 DEF Release
    <2>4. NeverOvercommitted'
      BY <1>0, <2>1, <2>2, <2>3 DEF NeverOvercommitted
    <2> QED BY <2>1, <2>3, <2>4 DEF TypeOK
  <1>3. ASSUME NEW h \in HoldId, Commit(h) PROVE IInv'
    <2>1. /\ reserved' \in Purses
          /\ holds' \in [HoldId -> Fill \cup {NoHold}]
          /\ \A v \in Venue, x \in Asset :
               \/ reserved'[v][x] = 0
               \/ reserved'[v][x] = reserved[v][x] - Need(holds[h])[v][x]
      BY <1>3, GiveBackTyped DEF Commit
    <2>2. /\ balances' \in Purses
          /\ \A v \in Venue, x \in Asset :
               balances'[v][x] >= balances[v][x] - Need(holds[h])[v][x]
      BY <1>3, CommitTyped
    <2>3. \A v \in Venue, x \in Asset : Need(holds[h])[v][x] \in Nat
      BY <1>3, HeldIsFill, NeedTyped DEF Purses, Commit
    <2>4. \A v \in Venue, x \in Asset : balances'[v][x] \in Nat
      BY <2>2 DEF Purses
    <2>5. NeverOvercommitted'
      BY <1>0, <2>1, <2>2, <2>3, <2>4 DEF NeverOvercommitted
    <2> QED BY <2>1, <2>2, <2>5 DEF TypeOK
  <1>4. CASE UNCHANGED vars
    BY <1>4 DEF vars, TypeOK, NeverOvercommitted
  <1> QED BY <1>1, <1>2, <1>3, <1>4 DEF Next

\* Two routes of one cycle never hold the same toman, for any number of
\* venues, fills and amounts.
THEOREM NeverOvercommits == Spec => []NeverOvercommitted
  <1>1. IInv => NeverOvercommitted
    BY DEF IInv
  <1> QED BY IInvInit, IInvNext, <1>1, PTL DEF Spec

\* Holds and balances keep their types: no hold is given back below zero.
THEOREM BookTypeCorrect == Spec => []TypeOK
  <1>1. IInv => TypeOK
    BY DEF IInv
  <1> QED BY IInvInit, IInvNext, <1>1, PTL DEF Spec

-----------------------------------------------------------------------------
(* What is reserved is what the holds need.                                *)

Needs(v, x) == [h \in Held |-> Need(holds[h])[v][x]]

\* Finitely many holds, and they add up.
AddedUp == IsFiniteSet(Held) /\ HoldsAddUp

\* What the holds need is a natural number each, and the sum over a finite
\* set of them is at least any one.
LEMMA NeedsTyped ==
  ASSUME TypeOK, NEW v \in Venue, NEW x \in Asset
  PROVE  \A h \in Held : Needs(v, x)[h] = Need(holds[h])[v][x] /\ Needs(v, x)[h] \in Nat
  <1> SUFFICES ASSUME NEW h \in Held PROVE Need(holds[h])[v][x] \in Nat
    BY DEF Needs
  <1>1. holds[h] \in Fill
    BY HeldIsFill DEF Held
  <1> QED BY <1>1, NeedTyped DEF Purses

LEMMA ReservedSum ==
  ASSUME HoldsAddUp, NEW v \in Venue, NEW x \in Asset
  PROVE  reserved[v][x] = SumFunctionOnSet(Needs(v, x), Held)
  BY DEF HoldsAddUp, Needs, SumFunction

\* The clamp of releaseHold never bites: a hold's need is part of the sum.
LEMMA ClampNeverBites ==
  ASSUME TypeOK, AddedUp, NEW h \in HoldId, h \in Held, GiveBack(h)
  PROVE  \A v \in Venue, x \in Asset :
           /\ reserved[v][x] >= Need(holds[h])[v][x]
           /\ reserved'[v][x] = reserved[v][x] - Need(holds[h])[v][x]
  <1> SUFFICES ASSUME NEW v \in Venue, NEW x \in Asset
               PROVE  /\ reserved[v][x] >= Need(holds[h])[v][x]
                      /\ reserved'[v][x] = reserved[v][x] - Need(holds[h])[v][x]
    OBVIOUS
  <1>1. \A k \in Held : Needs(v, x)[k] = Need(holds[k])[v][x] /\ Needs(v, x)[k] \in Nat
    BY NeedsTyped
  <1>2. reserved[v][x] = SumFunctionOnSet(Needs(v, x), Held) /\ IsFiniteSet(Held)
    BY ReservedSum DEF AddedUp
  <1>3. Needs(v, x)[h] <= SumFunctionOnSet(Needs(v, x), Held)
    BY <1>1, <1>2, SumBounds
  <1>4. reserved'[v][x] = Clamp(reserved[v][x] - Need(holds[h])[v][x])
    BY DEF GiveBack
  <1>5. reserved[v][x] \in Nat
    BY DEF TypeOK, Purses
  <1> QED BY <1>1, <1>2, <1>3, <1>4, <1>5 DEF Clamp

\* A hold that joins adds its need to the sum.
LEMMA ReserveAddsUp ==
  ASSUME TypeOK, TypeOK', AddedUp, NEW h \in HoldId, Reserve(h)
  PROVE  AddedUp'
  <1>1. PICK fill \in Fill :
          /\ reserved' =
               [v \in Venue |-> [x \in Asset |-> reserved[v][x] + Need(fill)[v][x]]]
          /\ holds' = [holds EXCEPT ![h] = fill]
    BY DEF Reserve
  <1>2. h \notin Held /\ Held' = Held \cup {h} /\ IsFiniteSet(Held)
    BY <1>1, NoHoldAssumption DEF Reserve, Held, TypeOK, AddedUp
  <1>3. IsFiniteSet(Held')
    BY <1>2, FS_AddElement
  <1>4. ASSUME NEW v \in Venue, NEW x \in Asset
        PROVE  reserved'[v][x] = SumFunctionOnSet(Needs(v, x)', Held')
    <2>1. /\ \A k \in Held : Needs(v, x)[k] = Need(holds[k])[v][x]
          /\ \A k \in Held' : Needs(v, x)'[k] = Need(holds'[k])[v][x]
                              /\ Needs(v, x)'[k] \in Int
      <3>1. \A k \in Held' : Needs(v, x)'[k] = Need(holds'[k])[v][x]
        BY DEF Needs
      <3>2. \A k \in Held' : holds'[k] \in Fill
        BY DEF Held, TypeOK
      <3>3. \A k \in Held' : Need(holds'[k])[v][x] \in Int
        BY <3>2, NeedTyped DEF Purses
      <3>4. \A k \in Held : Needs(v, x)[k] = Need(holds[k])[v][x]
        BY DEF Needs
      <3> QED BY <3>1, <3>3, <3>4
    <2>2. \A k \in Held : holds'[k] = holds[k]
      BY <1>1, <1>2 DEF TypeOK
    <2>3. holds'[h] = fill
      BY <1>1 DEF TypeOK
    <2>4. SumFunctionOnSet(Needs(v, x)', Held') =
            Need(fill)[v][x] + SumFunctionOnSet(Needs(v, x)', Held)
      BY <1>2, <2>1, <2>3, SumAdd
    <2>5. SumFunctionOnSet(Needs(v, x)', Held) = SumFunctionOnSet(Needs(v, x), Held)
      BY <1>2, <2>1, <2>2, SumSame
    <2>6. reserved[v][x] = SumFunctionOnSet(Needs(v, x), Held) /\ reserved[v][x] \in Nat
      BY ReservedSum DEF AddedUp, TypeOK, Purses
    <2>7. reserved'[v][x] = reserved[v][x] + Need(fill)[v][x] /\ Need(fill)[v][x] \in Nat
      BY <1>1, NeedTyped DEF Purses
    <2> QED BY <2>4, <2>5, <2>6, <2>7
  <1> QED BY <1>3, <1>4 DEF AddedUp, HoldsAddUp, Needs, SumFunction

\* A hold that is given back takes its need out of the sum.
LEMMA GiveBackAddsUp ==
  ASSUME TypeOK, TypeOK', AddedUp, NEW h \in HoldId, h \in Held, GiveBack(h)
  PROVE  AddedUp'
  <1>1. Held' = Held \ {h} /\ IsFiniteSet(Held) /\ \A k \in Held' : holds'[k] = holds[k]
    BY DEF GiveBack, Held, TypeOK, AddedUp
  <1>2. IsFiniteSet(Held')
    BY <1>1, FS_RemoveElement
  <1>3. ASSUME NEW v \in Venue, NEW x \in Asset
        PROVE  reserved'[v][x] = SumFunctionOnSet(Needs(v, x)', Held')
    <2>1. \A k \in Held : Needs(v, x)[k] = Need(holds[k])[v][x] /\ Needs(v, x)[k] \in Nat
      BY NeedsTyped
    <2>2. \A k \in Held' : Needs(v, x)'[k] = Needs(v, x)[k]
      BY <1>1 DEF Needs
    <2>3. SumFunctionOnSet(Needs(v, x), Held) =
            Need(holds[h])[v][x] + SumFunctionOnSet(Needs(v, x), Held \ {h})
      BY <1>1, <2>1, SumRemove
    <2>4. SumFunctionOnSet(Needs(v, x)', Held') = SumFunctionOnSet(Needs(v, x), Held')
      BY <1>2, <2>2, SumSame
    <2>5. SumFunctionOnSet(Needs(v, x), Held') \in Nat
      BY <1>1, <1>2, <2>1, SumTyped
    <2>6. reserved[v][x] = SumFunctionOnSet(Needs(v, x), Held)
      BY ReservedSum DEF AddedUp
    <2>7. reserved'[v][x] = reserved[v][x] - Need(holds[h])[v][x]
      BY ClampNeverBites
    <2> QED BY <1>1, <2>1, <2>3, <2>4, <2>5, <2>6, <2>7
  <1> QED BY <1>2, <1>3 DEF AddedUp, HoldsAddUp, Needs, SumFunction

LEMMA AddedUpInit == Init => AddedUp
  <1> SUFFICES ASSUME Init PROVE AddedUp
    OBVIOUS
  <1>1. Held = {}
    BY DEF Init, Held
  <1>2. ASSUME NEW v \in Venue, NEW x \in Asset
        PROVE  reserved[v][x] = SumFunctionOnSet(Needs(v, x), Held)
    BY <1>1, SumEmpty DEF Init
  <1> QED BY <1>1, <1>2, FS_EmptySet DEF AddedUp, HoldsAddUp, Needs, SumFunction

LEMMA AddedUpNext == IInv /\ AddedUp /\ [Next]_vars => AddedUp'
  <1> SUFFICES ASSUME IInv, AddedUp, [Next]_vars PROVE AddedUp'
    OBVIOUS
  <1>0. TypeOK /\ TypeOK'
    BY IInvNext DEF IInv
  <1>1. ASSUME NEW h \in HoldId, Reserve(h) PROVE AddedUp'
    BY <1>0, <1>1, ReserveAddsUp
  <1>2. ASSUME NEW h \in HoldId, Release(h) \/ Commit(h) PROVE AddedUp'
    BY <1>0, <1>2, GiveBackAddsUp DEF Release, Commit
  <1>3. CASE UNCHANGED vars
    <2>1. Held' = Held /\ reserved' = reserved /\ holds' = holds
      BY <1>3 DEF vars, Held
    <2> QED BY <2>1 DEF AddedUp, HoldsAddUp
  <1> QED BY <1>1, <1>2, <1>3 DEF Next

LEMMA AlwaysAddedUp == Spec => [](IInv /\ AddedUp)
  BY IInvInit, IInvNext, AddedUpInit, AddedUpNext, PTL DEF Spec

\* No capacity is stranded and none is freed twice: whatever the routes of a
\* cycle reserve, commit and drop, what is reserved of a venue is exactly the
\* sum of what its live holds need.
THEOREM ReservationsAddUp == Spec => []HoldsAddUp
  <1>1. IInv /\ AddedUp => HoldsAddUp
    BY DEF AddedUp
  <1> QED BY <1>1, AlwaysAddedUp, PTL

-----------------------------------------------------------------------------
(* The escrow.                                                             *)

FreePool == [v \in Venue |-> [x \in Asset |-> Available(v, x)]]
InEscrow == [h \in HoldId |-> IF h \in Held THEN Need(holds[h]) ELSE NoHold]

\* The free pool is what the balances have over the reservations.
LEMMA FreePoolTyped == IInv => FreePool \in Promise!Purses
  <1> SUFFICES ASSUME IInv PROVE FreePool \in Promise!Purses
    OBVIOUS
  <1>1. \A v \in Venue, x \in Asset :
          /\ balances[v][x] \in Nat /\ reserved[v][x] \in Nat
          /\ reserved[v][x] <= balances[v][x]
    BY DEF IInv, TypeOK, NeverOvercommitted, Purses
  <1>2. \A v \in Venue, x \in Asset : Available(v, x) \in Nat
    BY <1>1 DEF Available
  <1>3. FreePool \in [Venue -> [Asset -> Nat]]
    BY <1>2 DEF FreePool
  <1> QED BY <1>3 DEF Promise!Purses, Promise!Asset, Asset

\* What an id has in escrow is the need of its hold, which is not NoHold.
LEMMA EscrowOfHold ==
  ASSUME TypeOK, NEW h \in HoldId
  PROVE  /\ h \in Held => InEscrow[h] = Need(holds[h]) /\ InEscrow[h] # NoHold
         /\ h \notin Held => InEscrow[h] = NoHold
  BY HeldIsFill, NeedTyped, NoHoldAssumption DEF InEscrow

\* A reservation locks what its fill needs.
LEMMA ReserveLocks ==
  ASSUME IInv, IInv', NEW h \in HoldId, Reserve(h)
  PROVE  Promise!Lock(h)
  <1>1. PICK fill \in Fill :
          /\ reserved' =
               [v \in Venue |-> [x \in Asset |-> reserved[v][x] + Need(fill)[v][x]]]
          /\ holds' = [holds EXCEPT ![h] = fill]
    BY DEF Reserve
  <1>2. /\ balances' = balances /\ h \notin Held /\ Held' = Held \cup {h}
        /\ holds'[h] = fill /\ \A k \in HoldId \ {h} : holds'[k] = holds[k]
    BY <1>1, NoHoldAssumption DEF Reserve, Held, IInv, TypeOK
  <1>3. \A v \in Venue, x \in Asset :
          /\ balances[v][x] \in Nat /\ reserved[v][x] \in Nat /\ Need(fill)[v][x] \in Nat
          /\ reserved'[v][x] = reserved[v][x] + Need(fill)[v][x]
    BY <1>1, NeedTyped DEF IInv, TypeOK, Purses
  <1>4. \A v \in Venue, x \in Asset : FreePool[v][x] - FreePool'[v][x] = Need(fill)[v][x]
    BY <1>2, <1>3 DEF FreePool, Available
  <1>5. \A v \in Venue, x \in Asset : FreePool'[v][x] <= FreePool[v][x]
    BY <1>2, <1>3 DEF FreePool, Available
  <1>6. FreePool' \in Promise!Purses
    <2>1. (IInv => FreePool \in Promise!Purses)'
      BY FreePoolTyped, PTL
    <2> QED BY <2>1
  <1>7. InEscrow' = [InEscrow EXCEPT ![h] = Need(fill)]
    BY <1>2 DEF InEscrow
  <1>8. Need(fill) = [v \in Venue |-> [x \in Asset |-> FreePool[v][x] - FreePool'[v][x]]]
    <2>1. Need(fill) = [v \in Venue |-> [x \in Asset |-> Need(fill)[v][x]]]
      BY NeedTyped DEF Purses
    <2> QED BY <1>4, <2>1
  <1>9. InEscrow[h] = NoHold
    BY <1>2, EscrowOfHold DEF IInv
  <1> QED BY <1>5, <1>6, <1>7, <1>8, <1>9
          DEF Promise!Lock, Promise!AtMost, Promise!Asset, Asset, FreePool, InEscrow

\* Dropping a hold unlocks it: all of it comes back.
LEMMA ReleaseUnlocks ==
  ASSUME IInv, AddedUp, NEW h \in HoldId, Release(h)
  PROVE  Promise!Unlock(h)
  <1>1. h \in Held /\ GiveBack(h) /\ balances' = balances
    BY DEF Release
  <1>2. \A v \in Venue, x \in Asset :
          reserved'[v][x] = reserved[v][x] - Need(holds[h])[v][x]
    BY <1>1, ClampNeverBites DEF IInv
  <1>3. \A v \in Venue, x \in Asset :
          /\ balances[v][x] \in Nat /\ reserved[v][x] \in Nat
          /\ Need(holds[h])[v][x] \in Nat
    BY <1>1, HeldIsFill, NeedTyped DEF IInv, TypeOK, Purses
  <1>4. \A v \in Venue, x \in Asset :
          FreePool'[v][x] = FreePool[v][x] + Need(holds[h])[v][x]
    BY <1>1, <1>2, <1>3 DEF FreePool, Available
  <1>5. InEscrow[h] = Need(holds[h]) /\ InEscrow[h] # NoHold
    BY <1>1, EscrowOfHold DEF IInv
  <1>6. InEscrow' = [InEscrow EXCEPT ![h] = NoHold]
    BY <1>1 DEF InEscrow, GiveBack, Held, IInv, TypeOK
  <1>7. FreePool' = [v \in Venue |-> [x \in Asset |-> FreePool[v][x] + InEscrow[h][v][x]]]
    BY <1>4, <1>5 DEF FreePool
  <1> QED BY <1>5, <1>6, <1>7
          DEF Promise!Unlock, Promise!Plus, Promise!Asset, Asset, FreePool, InEscrow

\* Committing a hold settles it: nobody else's free capacity shrinks.
LEMMA CommitSettles ==
  ASSUME IInv, IInv', AddedUp, NEW h \in HoldId, Commit(h)
  PROVE  Promise!Settle(h)
  <1>1. h \in Held /\ GiveBack(h)
    BY DEF Commit
  <1>2. \A v \in Venue, x \in Asset :
          reserved'[v][x] = reserved[v][x] - Need(holds[h])[v][x]
    BY <1>1, ClampNeverBites DEF IInv
  <1>3. \A v \in Venue, x \in Asset :
          balances'[v][x] >= balances[v][x] - Need(holds[h])[v][x]
    BY CommitTyped
  <1>4. \A v \in Venue, x \in Asset :
          /\ balances[v][x] \in Nat /\ reserved[v][x] \in Nat /\ balances'[v][x] \in Nat
          /\ Need(holds[h])[v][x] \in Nat
    BY <1>1, HeldIsFill, NeedTyped DEF IInv, TypeOK, Purses
  <1>5. \A v \in Venue, x \in Asset : FreePool[v][x] <= FreePool'[v][x]
    BY <1>2, <1>3, <1>4 DEF FreePool, Available
  <1>6. FreePool' \in Promise!Purses
    <2>1. (IInv => FreePool \in Promise!Purses)'
      BY FreePoolTyped, PTL
    <2> QED BY <2>1
  <1>7. InEscrow[h] # NoHold
    BY <1>1, EscrowOfHold DEF IInv
  <1>8. InEscrow' = [InEscrow EXCEPT ![h] = NoHold]
    BY <1>1 DEF InEscrow, GiveBack, Held, IInv, TypeOK
  <1> QED BY <1>5, <1>6, <1>7, <1>8
          DEF Promise!Settle, Promise!AtMost, Promise!Asset, Asset, FreePool, InEscrow

LEMMA EscrowInit == Init => Promise!Init
  <1> SUFFICES ASSUME Init PROVE Promise!Init
    OBVIOUS
  <1>1. FreePool \in Promise!Purses
    BY IInvInit, FreePoolTyped
  <1>2. InEscrow = [h \in HoldId |-> NoHold]
    BY DEF Init, InEscrow, Held
  <1> QED BY <1>1, <1>2 DEF Promise!Init, FreePool, InEscrow

LEMMA EscrowStep ==
  IInv /\ IInv' /\ AddedUp /\ [Next]_vars => [Promise!Next]_<<FreePool, InEscrow>>
  <1> SUFFICES ASSUME IInv, IInv', AddedUp, [Next]_vars
               PROVE  [Promise!Next]_<<FreePool, InEscrow>>
    OBVIOUS
  <1>1. ASSUME NEW h \in HoldId, Reserve(h) PROVE Promise!Next
    BY <1>1, ReserveLocks DEF Promise!Next
  <1>2. ASSUME NEW h \in HoldId, Release(h) PROVE Promise!Next
    BY <1>2, ReleaseUnlocks DEF Promise!Next
  <1>3. ASSUME NEW h \in HoldId, Commit(h) PROVE Promise!Next
    BY <1>3, CommitSettles DEF Promise!Next
  <1>4. CASE UNCHANGED vars
    BY <1>4 DEF vars, FreePool, InEscrow, Available, Held
  <1> QED BY <1>1, <1>2, <1>3, <1>4 DEF Next

\* The reservation book implements the escrow, for any number of venues,
\* holds and amounts: reserveAtomic locks, releaseHold unlocks all of it and
\* commitHold pays out of its own hold only.
THEOREM BookImplementsEscrow == Spec => ImplementsEscrow
  <1>1. Init => Promise!Init
    BY EscrowInit
  <1>2. IInv /\ IInv' /\ AddedUp /\ [Next]_vars => [Promise!Next]_<<FreePool, InEscrow>>
    BY EscrowStep
  <1> QED BY <1>1, <1>2, AlwaysAddedUp, PTL
          DEF Spec, ImplementsEscrow, Promise!Spec, FreePool, InEscrow
=============================================================================
