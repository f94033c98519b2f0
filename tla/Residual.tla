------------------------------ MODULE Residual ------------------------------
(***************************************************************************)
(* The residual liquidity of a paper session.  A simulated fill takes      *)
(* depth that stays on the real book, so the desk remembers per price      *)
(* level what it has taken (shadow_paper_residual_liquidity) and prices    *)
(* the next fills on what is left.  A cycle reconciles the rows with the   *)
(* book it detected (planRefillActions, reconcileSessionResidualWith-      *)
(* Snapshots), seeds the engine's in-memory book, decides fills on the     *)
(* arrival book (ResidualLiquidityBook, consumeLevelsFromWalk), and        *)
(* settles each fill with its consumption in one transaction               *)
(* (commitPaperCycle, persistResidualConsumption).                         *)
(*                                                                         *)
(* Abstractions.  One side of one venue's book, its levels numbered from   *)
(* the best price; amounts are small numbers, 0 a level the book does not  *)
(* show (an unreachable venue shows none).  Sizing and the other leg       *)
(* choose any quantity.  A settlement that the session's status or its     *)
(* balances refuse is one that aborts; what it does to them is PaperDesk.  *)
(* The event log repeats the rows; generations and hashes decide nothing;  *)
(* the time-to-live release is off in the code (null).  Two raw prices     *)
(* that round to one level are not modelled.                               *)
(***************************************************************************)
EXTENDS Integers, Sequences, FiniteSets, Functions

CONSTANTS
  Worker,          \* processes that run paper cycles
  Depth,           \* number of price levels
  Lifecycle,       \* the opportunities a session may fill
  MaxRaw,          \* bound on a level's displayed amount
  AbsentLimit,     \* absentSnapshotsToRelease
  MaxCycles,       \* bound on the cycles
  MaxFaults,       \* bound on crashes and failed settlements
  SwallowedFaults  \* the reconcile may fail, and be only logged

Level == 1 .. Depth
Amount == 0 .. MaxRaw
Book == [Level -> Amount]
Nothing == [l \in Level |-> 0]

ASSUME ResidualBounds ==
  /\ Depth \in Nat /\ MaxRaw \in Nat /\ AbsentLimit \in Nat \ {0}
  /\ MaxCycles \in Nat /\ MaxFaults \in Nat /\ SwallowedFaults \in BOOLEAN

VARIABLES
  rows,     \* the persisted row of each level
  settled,  \* what each settled lifecycle took; the fills of the ledger
  pc,
  mem,      \* a cycle's books, refill plan, working book and decisions
  shown,    \* ghost: the amount last seen at a level by a committed step
  missing,  \* ghost: committed reconciles in a row that did not see it
  cycles, faults

vars == <<rows, settled, pc, mem, shown, missing, cycles, faults>>

NoAction == [kind |-> "none", amount |-> 0]
Blank == [snap |-> Nothing, late |-> Nothing,
          plan |-> [l \in Level |-> NoAction],
          taken |-> Nothing, known |-> {}, todo |-> <<>>]

Init ==
  /\ rows = [l \in Level |-> [state |-> "NONE", out |-> 0, consumed |-> 0,
                              released |-> 0, lastRaw |-> 0, absent |-> 0]]
  /\ settled = << >>
  /\ pc = [w \in Worker |-> "idle"]
  /\ mem = [w \in Worker |-> Blank]
  /\ shown = Nothing
  /\ missing = Nothing
  /\ cycles = 0 /\ faults = 0

Goto(w, label) == pc' = [pc EXCEPT ![w] = label]
Continue(w, label, record) == Goto(w, label) /\ mem' = [mem EXCEPT ![w] = record]
\* The cycle is over, whatever it had decided.
Finish(w) == Continue(w, "idle", Blank)

Smaller(a, b) == IF a < b THEN a ELSE b
\* loadSessionResidualOutstanding: the rows that are ACTIVE.
Outstanding(l) == IF rows[l].state = "ACTIVE" THEN rows[l].out ELSE 0

-----------------------------------------------------------------------------
(* The refill model.                                                       *)

\* Mutation: one absence more is waited for.
RefillActionLate(l, raw) ==
  CASE Outstanding(l) = 0 -> NoAction
    [] Outstanding(l) > 0 /\ raw = 0 ->
         IF rows[l].absent + 1 > AbsentLimit
         THEN [kind |-> "absent", amount |-> Outstanding(l)]
         ELSE [kind |-> "bump", amount |-> rows[l].absent + 1]
    [] Outstanding(l) > 0 /\ raw > rows[l].lastRaw ->
         [kind |-> "delta", amount |-> Smaller(raw - rows[l].lastRaw, Outstanding(l))]
    [] OTHER -> NoAction

\* planRefillActions for a level with something outstanding.
RefillAction(l, raw) ==
  CASE Outstanding(l) = 0 -> NoAction
    [] Outstanding(l) > 0 /\ raw = 0 ->
         IF rows[l].absent + 1 >= AbsentLimit
         THEN [kind |-> "absent", amount |-> Outstanding(l)]
         ELSE [kind |-> "bump", amount |-> rows[l].absent + 1]
    [] Outstanding(l) > 0 /\ raw > rows[l].lastRaw ->
         [kind |-> "delta", amount |-> Smaller(raw - rows[l].lastRaw, Outstanding(l))]
    [] OTHER -> NoAction

\* Mutation: a refresh that keeps the amount first seen.
RefreshedOnce(row, raw) ==
  IF row.state # "NONE" /\ raw > 0 THEN [row EXCEPT !.absent = 0] ELSE row

\* Every row whose level the book shows is brought up to it.
Refreshed(row, raw) ==
  IF row.state # "NONE" /\ raw > 0
  THEN [row EXCEPT !.lastRaw = raw, !.absent = 0]
  ELSE row

\* persistResidualRelease.
Released(row, action) ==
  LET amount == Smaller(row.out, action.amount) IN
  CASE action.kind = "none" -> row
    [] action.kind = "bump" -> [row EXCEPT !.absent = action.amount]
    [] action.kind = "delta" /\ amount = 0 -> row
    [] action.kind = "delta" /\ amount > 0 ->
         [row EXCEPT !.out = @ - amount, !.released = @ + amount, !.state = "ACTIVE"]
    [] action.kind = "absent" ->
         [row EXCEPT !.out = @ - amount, !.released = @ + amount, !.absent = 0,
                     !.state = IF row.out = amount THEN "CLEARED" ELSE "ACTIVE"]

-----------------------------------------------------------------------------
(* A cycle.                                                                *)

\* A cycle starts with the book it detected and plans the refill.  The ids
\* already filled were read before; a read that fails counts as none.
Observe(w) ==
  /\ pc[w] = "idle" /\ cycles < MaxCycles
  /\ \E snap \in Book, known \in {DOMAIN settled, {}} :
       Continue(w, "reconcile",
                [Blank EXCEPT !.snap = snap, !.known = known,
                              !.plan = [l \in Level |-> RefillAction(l, snap[l])]])
  /\ cycles' = cycles + 1
  /\ UNCHANGED <<rows, settled, shown, missing, faults>>

\* The detected book and the plan are used no more.
Planless(w) == [Blank EXCEPT !.known = mem[w].known]

\* One transaction refreshes the rows and applies the plan.  When it fails
\* the cycle goes on with a working book that remembers nothing.
Reconcile(w) ==
  /\ pc[w] = "reconcile"
  /\ \E fails \in (IF SwallowedFaults THEN BOOLEAN ELSE {FALSE}) :
       IF fails
       THEN Continue(w, "arrive", Planless(w)) /\ UNCHANGED <<rows, shown, missing>>
       ELSE /\ Continue(w, "seed", Planless(w))
            /\ rows' = [l \in Level |-> Released(Refreshed(rows[l], mem[w].snap[l]),
                                                 mem[w].plan[l])]
            /\ shown' = [l \in Level |-> IF mem[w].snap[l] > 0 THEN mem[w].snap[l]
                                         ELSE shown[l]]
            /\ missing' = [l \in Level |-> IF mem[w].snap[l] > 0 THEN 0
                                           ELSE missing[l] + 1]
  /\ UNCHANGED <<settled, cycles, faults>>

\* The rows are read again, to seed the engine's working book.
Seed(w) ==
  /\ pc[w] = "seed"
  /\ \E fails \in (IF SwallowedFaults THEN BOOLEAN ELSE {FALSE}) :
       Continue(w, "arrive",
                [mem[w] EXCEPT !.taken = IF fails THEN Nothing
                                         ELSE [l \in Level |-> Outstanding(l)]])
  /\ UNCHANGED <<rows, settled, shown, missing, cycles, faults>>

\* The arrival book; the detected one stands in for a venue without one.
Arrive(w) ==
  /\ pc[w] = "arrive"
  /\ \E late \in Book : Continue(w, "decide", [mem[w] EXCEPT !.late = late])
  /\ UNCHANGED <<rows, settled, shown, missing, cycles, faults>>

\* Mutation: the raw book is walked.
EffectiveRaw(w) == mem[w].late

\* applyResidualToSnapshot: what is left of the arrival book.
Effective(w) ==
  [l \in Level |-> IF mem[w].late[l] > mem[w].taken[l]
                   THEN mem[w].late[l] - mem[w].taken[l] ELSE 0]

\* consumeLevelsFromWalk: quantity q taken from the best level on.
Takes(book, q) ==
  [l \in Level |->
     LET rest == q - SumFunctionOnSet(book, 1 .. (l - 1)) IN
     IF rest > 0 THEN Smaller(book[l], rest) ELSE 0]

\* An opportunity is filled; later ones see what it took.
Decide(w, c) ==
  /\ pc[w] = "decide"
  /\ c \notin mem[w].known
  /\ \A i \in DOMAIN mem[w].todo : mem[w].todo[i].id # c
  /\ \E q \in 1 .. SumFunction(Effective(w)) :
       LET takes == Takes(Effective(w), q) IN
       mem' = [mem EXCEPT
                 ![w].taken = [l \in Level |-> @[l] + takes[l]],
                 ![w].todo = Append(@, [id |-> c, takes |-> takes])]
  /\ UNCHANGED <<rows, settled, pc, shown, missing, cycles, faults>>

\* Every opportunity of the cycle has been decided.
Record(w) ==
  /\ pc[w] = "decide"
  /\ Goto(w, "record")
  /\ UNCHANGED <<rows, settled, mem, shown, missing, cycles, faults>>

-----------------------------------------------------------------------------
(* Settlement.                                                             *)

\* persistResidualConsumption for one level of a fill.
Consumed(row, take, raw) ==
  IF take = 0 THEN row
  ELSE [row EXCEPT !.out = @ + take, !.consumed = @ + take, !.lastRaw = raw,
                   !.absent = 0, !.state = "ACTIVE"]

\* Mutation: a lifecycle on the ledger is consumed for once more.
FillUnkeyed(w) ==
  LET fill == Head(mem[w].todo) IN
  /\ settled' = [c \in DOMAIN settled \cup {fill.id} |->
                    IF c = fill.id THEN fill.takes ELSE settled[c]]
  /\ rows' = [l \in Level |-> Consumed(rows[l], fill.takes[l], mem[w].late[l])]
  /\ shown' = [l \in Level |-> IF fill.takes[l] > 0 THEN mem[w].late[l] ELSE shown[l]]
  /\ missing' = [l \in Level |-> IF fill.takes[l] > 0 THEN 0 ELSE missing[l]]

\* The transaction of the next fill: its ledger row and its consumption.
Fill(w) ==
  LET fill == Head(mem[w].todo) IN
  /\ fill.id \notin DOMAIN settled
  /\ settled' = [c \in DOMAIN settled \cup {fill.id} |->
                    IF c = fill.id THEN fill.takes ELSE settled[c]]
  /\ rows' = [l \in Level |-> Consumed(rows[l], fill.takes[l], mem[w].late[l])]
  /\ shown' = [l \in Level |-> IF fill.takes[l] > 0 THEN mem[w].late[l] ELSE shown[l]]
  /\ missing' = [l \in Level |-> IF fill.takes[l] > 0 THEN 0 ELSE missing[l]]

Settle(w) ==
  /\ pc[w] = "record" /\ mem[w].todo # <<>>
  /\ Fill(w)
  /\ mem' = [mem EXCEPT ![w].todo = Tail(@)]
  /\ UNCHANGED <<pc, cycles, faults>>

\* The ledger's unique key rolls a second fill of a lifecycle back.
Duplicate(w) ==
  /\ pc[w] = "record" /\ mem[w].todo # <<>>
  /\ Head(mem[w].todo).id \in DOMAIN settled
  /\ mem' = [mem EXCEPT ![w].todo = Tail(@)]
  /\ UNCHANGED <<rows, settled, pc, shown, missing, cycles, faults>>

\* A settlement whose answer is lost after it committed ends the cycle.
SettleUnheard(w) ==
  /\ pc[w] = "record" /\ mem[w].todo # <<>> /\ faults < MaxFaults
  /\ Fill(w)
  /\ Finish(w)
  /\ faults' = faults + 1
  /\ UNCHANGED cycles

\* A settlement that aborts, or a crash anywhere, ends it as well.
Stop(w) ==
  /\ pc[w] # "idle" /\ faults < MaxFaults
  /\ Finish(w)
  /\ faults' = faults + 1
  /\ UNCHANGED <<rows, settled, shown, missing, cycles>>

Done(w) ==
  /\ pc[w] = "record" /\ mem[w].todo = <<>>
  /\ Finish(w)
  /\ UNCHANGED <<rows, settled, shown, missing, cycles, faults>>

Next ==
  \E w \in Worker :
    \/ Observe(w) \/ Reconcile(w) \/ Seed(w) \/ Arrive(w)
    \/ \E c \in Lifecycle : Decide(w, c)
    \/ Record(w) \/ Settle(w) \/ Duplicate(w) \/ SettleUnheard(w)
    \/ Stop(w) \/ Done(w)

Spec == Init /\ [][Next]_vars

-----------------------------------------------------------------------------
(* Properties.                                                             *)

Action == [kind : {"none", "bump", "absent", "delta"}, amount : Nat]

\* The rows are what the schema holds, and a cleared row holds nothing.
TypeOK ==
  /\ rows \in [Level -> [state : {"NONE", "ACTIVE", "CLEARED"}, out : Nat,
                         consumed : Nat, released : Nat, lastRaw : Amount,
                         absent : 0 .. AbsentLimit - 1]]
  /\ \A l \in Level : rows[l].state # "ACTIVE" => rows[l].out = 0
  /\ DOMAIN settled \subseteq Lifecycle /\ settled \in [DOMAIN settled -> Book]
  /\ pc \in [Worker -> {"idle", "reconcile", "seed", "arrive", "decide", "record"}]
  /\ mem \in [Worker -> [snap : Book, late : Book, plan : [Level -> Action],
                        taken : [Level -> Nat], known : SUBSET Lifecycle,
                        todo : Seq([id : Lifecycle, takes : Book])]]
  /\ shown \in Book /\ missing \in [Level -> 0 .. MaxCycles]
  /\ cycles \in 0 .. MaxCycles /\ faults \in 0 .. MaxFaults

\* What is recorded as taken from a level is what the fills on the ledger
\* took, once each, through duplicates, lost answers and crashes; what is
\* outstanding is that less what was released.
TakenOnce ==
  \A l \in Level :
    /\ rows[l].consumed = SumFunction([c \in DOMAIN settled |-> settled[c][l]])
    /\ rows[l].out = rows[l].consumed - rows[l].released

\* A settled fill never leaves more taken from a level than the book it was
\* priced on displayed there, over every fill of every cycle.
NeverOverfilled ==
  [][\A l \in Level : rows'[l].out > rows[l].out => rows'[l].out <= shown'[l]]_vars

\* Taken depth comes back only as far as the level now displays more than a
\* committed step last saw there, or when it was missing AbsentLimit times in
\* a row: a new snapshot of an unchanged book releases nothing.
ReleasesEarned ==
  [][\A l \in Level :
       rows'[l].out < rows[l].out =>
         \/ rows[l].out - rows'[l].out <= shown'[l] - shown[l]
         \/ missing'[l] >= AbsentLimit]_vars
=============================================================================
