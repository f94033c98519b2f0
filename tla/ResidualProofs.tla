--------------------------- MODULE ResidualProofs ---------------------------
(***************************************************************************)
(* Proofs about the residual liquidity of a session.  Types, and that a    *)
(* level's consumption is the sum over the ledger, hold for any number of  *)
(* cycles side by side.  That depth is never overfilled, and comes back    *)
(* only when earned, needs cycles one at a time: a cycle's plan and its    *)
(* working book are then as fresh when they are used as when they were     *)
(* read.                                                                   *)
(***************************************************************************)
EXTENDS Residual, FiniteSums

\* Cycles run one at a time: the worker is whoever holds the cycle lock.
OneWorker == \A v, w \in Worker : v = w

\* The cycles whose refill plan is not applied yet.
Planning == {w \in Worker : pc[w] = "reconcile"}

Row == [state : {"NONE", "ACTIVE", "CLEARED"}, out : Nat, consumed : Nat,
        released : Nat, lastRaw : Amount, absent : 0 .. AbsentLimit - 1]
Fills == [id : Lifecycle, takes : Book]
Memory == [snap : Book, late : Book, plan : [Level -> Action],
           taken : [Level -> Nat], known : SUBSET Lifecycle, todo : Seq(Fills)]

\* A row that the schema admits and that holds nothing unless it is active.
Sound(row) == row \in Row /\ (row.state # "ACTIVE" => row.out = 0)

\* An action of a refill plan, of which a bump stays below the limit.
Bounded(action) == action \in Action /\ (action.kind = "bump" => action.amount < AbsentLimit)

\* The memory of a cycle, with a plan that is bounded.
Kept(record) == record \in Memory /\ \A l \in Level : Bounded(record.plan[l])

Label == {"idle", "reconcile", "seed", "arrive", "decide", "record"}

\* TypeOK with bounded plans; every reconcile that can add an absence has a
\* cycle of its own.
TypeInv ==
  /\ rows \in [Level -> Row] /\ \A l \in Level : Sound(rows[l])
  /\ DOMAIN settled \subseteq Lifecycle /\ settled \in [DOMAIN settled -> Book]
  /\ pc \in [Worker -> Label]
  /\ mem \in [Worker -> Memory] /\ \A w \in Worker : Kept(mem[w])
  /\ shown \in Book /\ missing \in [Level -> 0 .. MaxCycles]
  /\ cycles \in 0 .. MaxCycles /\ faults \in 0 .. MaxFaults
  /\ IsFiniteSet(Planning)
  /\ \A l \in Level : missing[l] + Cardinality(Planning) <= cycles

\* Many lifecycles, but finitely many settled.
LedgerInv == IsFiniteSet(DOMAIN settled) /\ TakenOnce

\* A row remembers what a committed step last saw of its level, and has been
\* absent no longer than the level was missing.
Remembered ==
  \A l \in Level : rows[l].state # "NONE" =>
    rows[l].lastRaw = shown[l] /\ rows[l].absent <= missing[l]

\* Alone, a cycle applies the plan the rows still ask for.
PlanCurrent ==
  \A w \in Worker : pc[w] = "reconcile" =>
    \A l \in Level : mem[w].plan[l] = RefillAction(l, mem[w].snap[l])

\* reach[i] is what the cycle had taken from level l once its i-th pending
\* fill was decided: at least what is outstanding and the fills up to it, and
\* within the arrival book if that fill takes from the level.
Reaches(out, record, l, reach) ==
  /\ reach[0] = out /\ reach[0] <= record.taken[l]
  /\ \A i \in 1 .. Len(record.todo) :
       /\ reach[i - 1] + record.todo[i].takes[l] <= reach[i]
       /\ reach[i] <= record.taken[l]
       /\ record.todo[i].takes[l] > 0 => reach[i] <= record.late[l]

\* The working book of a cycle covers a level.
Covers(out, record, l) ==
  \E reach \in [0 .. Len(record.todo) -> Nat] : Reaches(out, record, l, reach)

\* Alone, a cycle's working book covers the rows and its pending fills.
BookCurrent ==
  \A w \in Worker :
    /\ pc[w] \in {"seed", "arrive"} => mem[w].todo = <<>>
    /\ pc[w] \in {"arrive", "decide", "record"} =>
         \A l \in Level : Covers(rows[l].out, mem[w], l)

-----------------------------------------------------------------------------
(* Types, for any number of workers.                                       *)

LEMMA TypeInvImplies == TypeInv => TypeOK
  BY DEF TypeInv, TypeOK, Sound, Row, Memory, Fills, Label

LEMMA BookTyped == Nothing \in Book /\ \A b \in Book : b \in [Level -> Nat]
  BY ResidualBounds DEF Nothing, Book, Amount

LEMMA BlankTyped == Blank \in Memory /\ \A l \in Level : Bounded(Blank.plan[l])
  <1>1. NoAction \in Action
    BY DEF NoAction, Action
  <1>2. [l \in Level |-> NoAction] \in [Level -> Action]
    BY <1>1
  <1>3. Nothing \in [Level -> Nat]
    BY BookTyped
  <1>4. << >> \in Seq(Fills)
    OBVIOUS
  <1>5. Blank \in Memory
    BY <1>2, <1>3, <1>4, BookTyped DEF Blank, Memory
  <1> QED BY <1>1, <1>5 DEF Bounded, Blank, NoAction

LEMMA RefillTyped ==
  ASSUME NEW l \in Level, Sound(rows[l]), NEW raw \in Amount
  PROVE  Bounded(RefillAction(l, raw))
  BY ResidualBounds DEF Sound, Row, Bounded, RefillAction, Outstanding, NoAction, Action, Smaller, Amount

LEMMA RowFields ==
  ASSUME NEW row \in Row
  PROVE  /\ row.state \in {"NONE", "ACTIVE", "CLEARED"} /\ row.out \in Nat
         /\ row.consumed \in Nat /\ row.released \in Nat
         /\ row.lastRaw \in Amount /\ row.absent \in 0 .. AbsentLimit - 1
  BY DEF Row

LEMMA RefreshRow ==
  ASSUME NEW row, Sound(row), NEW raw \in Amount
  PROVE  LET new == Refreshed(row, raw) IN
         /\ Sound(new)
         /\ new.state = row.state /\ new.out = row.out
         /\ new.consumed = row.consumed /\ new.released = row.released
         /\ new.lastRaw = IF row.state # "NONE" /\ raw > 0 THEN raw ELSE row.lastRaw
         /\ new.absent = IF row.state # "NONE" /\ raw > 0 THEN 0 ELSE row.absent
  <1> DEFINE new == Refreshed(row, raw)
  <1>1. CASE row.state # "NONE" /\ raw > 0
    <2>1. new = [row EXCEPT !.lastRaw = raw, !.absent = 0]
      BY <1>1 DEF Refreshed
    <2>2. row \in Row /\ 0 \in 0 .. AbsentLimit - 1
      BY ResidualBounds DEF Sound
    <2> HIDE DEF new
    <2>3. /\ new \in Row /\ new.state = row.state /\ new.out = row.out
          /\ new.consumed = row.consumed /\ new.released = row.released
          /\ new.lastRaw = raw /\ new.absent = 0
      BY <2>1, <2>2 DEF Row
    <2> QED BY <1>1, <2>3 DEF Sound, new
  <1>2. CASE ~(row.state # "NONE" /\ raw > 0)
    BY <1>2 DEF Refreshed
  <1> QED BY <1>1, <1>2

\* A release changes what is outstanding by what is released, and leaves what
\* was consumed alone.
LEMMA ReleaseRow ==
  ASSUME NEW row, Sound(row), NEW action, Bounded(action)
  PROVE  LET new == Released(row, action) IN
         /\ Sound(new)
         /\ new.consumed = row.consumed
         /\ new.out + new.released = row.out + row.released
         /\ new.out <= row.out /\ row.out - new.out <= action.amount
         /\ action.kind \in {"none", "bump"} => new.out = row.out
         /\ new.lastRaw = row.lastRaw
         /\ action.kind = "bump" => new.absent = action.amount
         /\ action.kind = "absent" => new.absent = 0
         /\ action.kind \in {"none", "delta"} => new.absent = row.absent
         /\ action.kind \in {"none", "bump"} => new.state = row.state
  <1> DEFINE amount == Smaller(row.out, action.amount)
             new == Released(row, action)
  <1>0. /\ action.kind \in {"none", "bump", "absent", "delta"} /\ action.amount \in Nat
        /\ action.kind = "bump" => action.amount \in 0 .. AbsentLimit - 1
    BY ResidualBounds DEF Bounded, Action
  <1>1. /\ amount \in Nat /\ row.out - amount \in Nat /\ row.released + amount \in Nat
        /\ amount <= action.amount
    BY <1>0, RowFields DEF Smaller, Sound
  <1>2. row \in Row /\ (row.state # "ACTIVE" => row.out = 0)
    BY DEF Sound
  <1>3. CASE action.kind = "none" \/ (action.kind = "delta" /\ amount = 0)
    <2>1. new = row
      BY <1>3 DEF Released
    <2> HIDE DEF new, amount
    <2> QED BY <1>0, <1>1, <1>2, <1>3, <2>1, RowFields DEF Sound, new
  <1>4. CASE action.kind = "bump"
    <2>1. new = [row EXCEPT !.absent = action.amount]
      BY <1>4 DEF Released
    <2> HIDE DEF new, amount
    <2>2. /\ new \in Row /\ new.state = row.state /\ new.out = row.out
          /\ new.consumed = row.consumed /\ new.released = row.released
          /\ new.lastRaw = row.lastRaw /\ new.absent = action.amount
      BY <1>0, <1>2, <1>4, <2>1 DEF Row
    <2> QED BY <1>0, <1>2, <1>4, <2>2, RowFields DEF Sound, new
  <1>5. CASE action.kind = "delta" /\ amount # 0
    <2>1. amount > 0
      BY <1>1, <1>5
    <2>2. new = [row EXCEPT !.out = row.out - amount, !.released = row.released + amount,
                            !.state = "ACTIVE"]
      BY <1>5, <2>1 DEF Released
    <2> HIDE DEF new, amount
    <2>3. /\ new \in Row /\ new.state = "ACTIVE" /\ new.out = row.out - amount
          /\ new.consumed = row.consumed /\ new.released = row.released + amount
          /\ new.lastRaw = row.lastRaw /\ new.absent = row.absent
      BY <1>1, <1>2, <2>2 DEF Row
    <2> QED BY <1>0, <1>1, <1>2, <1>5, <2>3, RowFields DEF Sound, new
  <1>6. CASE action.kind = "absent"
    <2> DEFINE state == IF row.out = amount THEN "CLEARED" ELSE "ACTIVE"
    <2>1. new = [row EXCEPT !.out = row.out - amount, !.released = row.released + amount,
                            !.absent = 0, !.state = state]
      BY <1>6 DEF Released
    <2>2. state \in {"ACTIVE", "CLEARED"} /\ (state # "ACTIVE" => row.out - amount = 0)
      BY <1>1, <1>2, RowFields
    <2>3. 0 \in 0 .. AbsentLimit - 1
      BY ResidualBounds
    <2> HIDE DEF new, state, amount
    <2>4. /\ new \in Row /\ new.state = state /\ new.out = row.out - amount
          /\ new.consumed = row.consumed /\ new.released = row.released + amount
          /\ new.lastRaw = row.lastRaw /\ new.absent = 0
      BY <1>1, <1>2, <2>1, <2>2, <2>3 DEF Row
    <2> QED BY <1>0, <1>1, <1>2, <1>6, <2>2, <2>4, RowFields DEF Sound, new
  <1> QED BY <1>0, <1>3, <1>4, <1>5, <1>6

LEMMA ConsumeRow ==
  ASSUME NEW row, Sound(row), NEW take \in Amount, NEW raw \in Amount
  PROVE  LET new == Consumed(row, take, raw) IN
         /\ Sound(new)
         /\ new.consumed = row.consumed + take
         /\ new.out = row.out + take
         /\ new.released = row.released
         /\ take = 0 => new = row
         /\ take # 0 => new.state = "ACTIVE" /\ new.lastRaw = raw /\ new.absent = 0
  <1> DEFINE new == Consumed(row, take, raw)
  <1>0. row \in Row /\ (row.state # "ACTIVE" => row.out = 0)
    BY DEF Sound
  <1>1. CASE take = 0
    <2>1. new = row
      BY <1>1 DEF Consumed
    <2> HIDE DEF new
    <2> QED BY <1>0, <1>1, <2>1, RowFields DEF Sound, new
  <1>2. CASE take # 0
    <2>1. new = [row EXCEPT !.out = row.out + take, !.consumed = row.consumed + take,
                            !.lastRaw = raw, !.absent = 0, !.state = "ACTIVE"]
      BY <1>2 DEF Consumed
    <2>2. row.out + take \in Nat /\ row.consumed + take \in Nat
      BY <1>0, RowFields, ResidualBounds DEF Amount
    <2>3. 0 \in 0 .. AbsentLimit - 1
      BY ResidualBounds
    <2> HIDE DEF new
    <2>4. /\ new \in Row /\ new.state = "ACTIVE" /\ new.out = row.out + take
          /\ new.consumed = row.consumed + take /\ new.released = row.released
          /\ new.lastRaw = raw /\ new.absent = 0
      BY <1>0, <2>1, <2>2, <2>3 DEF Row
    <2> QED BY <1>0, <1>2, <2>4 DEF Sound, new
  <1> QED BY <1>1, <1>2

\* What is left of the arrival book is a book.
LEMMA EffectiveTyped ==
  ASSUME NEW w, mem[w].late \in Book, mem[w].taken \in [Level -> Nat]
  PROVE  Effective(w) \in Book
  BY ResidualBounds DEF Effective, Book, Amount

\* A walk takes from a level at most what the book shows there.
LEMMA TakesTyped ==
  ASSUME NEW book \in Book, NEW q \in Int
  PROVE  /\ Takes(book, q) \in Book
         /\ \A l \in Level : Takes(book, q)[l] <= book[l]
  <1>1. ASSUME NEW l \in Level
        PROVE  SumFunctionOnSet(book, 1 .. (l - 1)) \in Nat
    <2>1. IsFiniteSet(1 .. (l - 1))
      BY FS_Interval DEF Level
    <2>2. \A x \in 1 .. (l - 1) : book[x] \in Nat
      BY BookTyped, ResidualBounds DEF Level, Book
    <2> QED BY <2>1, <2>2, SumTyped
  <1>2. \A l \in Level : SumFunctionOnSet(book, 1 .. (l - 1)) \in Nat
    BY <1>1
  <1>3. \A l \in Level : book[l] \in Amount
    BY DEF Book
  <1>4. ASSUME NEW l \in Level
        PROVE  Takes(book, q)[l] \in Amount /\ Takes(book, q)[l] <= book[l]
    <2> DEFINE rest == q - SumFunctionOnSet(book, 1 .. (l - 1))
    <2>1. Takes(book, q)[l] = IF rest > 0 THEN Smaller(book[l], rest) ELSE 0
      BY DEF Takes
    <2>2. rest \in Int
      BY <1>2
    <2> HIDE DEF rest
    <2> QED BY <1>3, <2>1, <2>2, ResidualBounds DEF Smaller, Amount
  <1> QED BY <1>4 DEF Takes, Book

\* A cycle that continues moves itself only.
LEMMA ContinueTyped ==
  ASSUME pc \in [Worker -> Label], mem \in [Worker -> Memory],
         \A v \in Worker : Kept(mem[v]),
         NEW w \in Worker, NEW label \in Label, NEW record, Kept(record),
         Continue(w, label, record)
  PROVE  /\ pc' \in [Worker -> Label] /\ mem' \in [Worker -> Memory]
         /\ \A v \in Worker : Kept(mem'[v])
         /\ pc'[w] = label /\ mem'[w] = record
         /\ \A v \in Worker \ {w} : pc'[v] = pc[v] /\ mem'[v] = mem[v]
         /\ Planning' = IF label = "reconcile" THEN Planning \cup {w} ELSE Planning \ {w}
  <1>1. pc' = [pc EXCEPT ![w] = label] /\ mem' = [mem EXCEPT ![w] = record]
    BY DEF Continue, Goto
  <1>2. record \in Memory
    BY DEF Kept
  <1>3. /\ pc'[w] = label /\ mem'[w] = record
        /\ \A v \in Worker \ {w} : pc'[v] = pc[v] /\ mem'[v] = mem[v]
    BY <1>1
  <1>4. pc' \in [Worker -> Label] /\ mem' \in [Worker -> Memory]
    BY <1>1, <1>2
  <1>5. \A v \in Worker : Kept(mem'[v])
    BY <1>3
  <1>6. Planning' = {v \in Worker : pc'[v] = "reconcile"}
    BY DEF Planning
  <1>7. Planning' = IF label = "reconcile" THEN Planning \cup {w} ELSE Planning \ {w}
    BY <1>3, <1>6 DEF Planning
  <1> QED BY <1>3, <1>4, <1>5, <1>7

\* Fewer plans are pending, no level is missing for longer.
LEMMA FewerPlanning ==
  ASSUME TypeInv, Planning' \subseteq Planning, cycles' = cycles,
         missing' \in [Level -> Nat], \A l \in Level : missing'[l] <= missing[l]
  PROVE  /\ IsFiniteSet(Planning')
         /\ \A l \in Level : missing'[l] + Cardinality(Planning') <= cycles'
         /\ missing' \in [Level -> 0 .. MaxCycles]
  <1>1. /\ IsFiniteSet(Planning) /\ cycles \in 0 .. MaxCycles
        /\ missing \in [Level -> 0 .. MaxCycles]
        /\ \A l \in Level : missing[l] + Cardinality(Planning) <= cycles
    BY DEF TypeInv
  <1>2. IsFiniteSet(Planning') /\ Cardinality(Planning') <= Cardinality(Planning)
    BY <1>1, FS_Subset
  <1>3. Cardinality(Planning') \in Nat /\ Cardinality(Planning) \in Nat
    BY <1>1, <1>2, FS_CardinalityType
  <1> HIDE DEF Planning
  <1>4. \A l \in Level : missing'[l] + Cardinality(Planning') <= cycles'
    BY <1>1, <1>2, <1>3, ResidualBounds
  <1>5. \A l \in Level : missing'[l] \in 0 .. MaxCycles
    BY <1>1, ResidualBounds
  <1> QED BY <1>2, <1>4, <1>5

\* Steps that change a cycle's memory, and nothing that is shared.
LEMMA PrivateTyped ==
  ASSUME TypeInv, NEW w \in Worker, NEW label \in Label \ {"reconcile"}, NEW record,
         Kept(record), Continue(w, label, record),
         UNCHANGED <<rows, settled, shown, missing, cycles>>, faults' \in 0 .. MaxFaults
  PROVE  TypeInv'
  <1>1. /\ pc' \in [Worker -> Label] /\ mem' \in [Worker -> Memory]
        /\ \A v \in Worker : Kept(mem'[v])
        /\ Planning' = Planning \ {w}
    BY ContinueTyped DEF TypeInv
  <1>2. missing' \in [Level -> Nat] /\ \A l \in Level : missing'[l] <= missing[l]
    BY ResidualBounds DEF TypeInv
  <1>3. /\ IsFiniteSet(Planning')
        /\ \A l \in Level : missing'[l] + Cardinality(Planning') <= cycles'
        /\ missing' \in [Level -> 0 .. MaxCycles]
    BY <1>1, <1>2, FewerPlanning
  <1>4. /\ rows' \in [Level -> Row] /\ \A l \in Level : Sound(rows'[l])
        /\ DOMAIN settled' \subseteq Lifecycle /\ settled' \in [DOMAIN settled' -> Book]
        /\ shown' \in Book /\ cycles' \in 0 .. MaxCycles
    BY DEF TypeInv
  <1> QED BY <1>1, <1>3, <1>4 DEF TypeInv

LEMMA BlankKept == Kept(Blank)
  BY BlankTyped DEF Kept

LEMMA KeptFields ==
  ASSUME TypeInv, NEW w \in Worker
  PROVE  /\ mem[w] \in Memory /\ Kept(mem[w])
         /\ mem[w].snap \in Book /\ mem[w].late \in Book
         /\ mem[w].plan \in [Level -> Action] /\ \A l \in Level : Bounded(mem[w].plan[l])
         /\ mem[w].taken \in [Level -> Nat]
         /\ mem[w].known \subseteq Lifecycle /\ mem[w].todo \in Seq(Fills)
  BY DEF TypeInv, Memory, Kept

LEMMA ObserveTyped ==
  ASSUME TypeInv, NEW w \in Worker, Observe(w)
  PROVE  TypeInv'
  <1>1. PICK snap \in Book, known \in {DOMAIN settled, {}} :
          Continue(w, "reconcile",
                   [Blank EXCEPT !.snap = snap, !.known = known,
                                 !.plan = [l \in Level |-> RefillAction(l, snap[l])]])
    BY DEF Observe
  <1> DEFINE plan == [l \in Level |-> RefillAction(l, snap[l])]
             record == [Blank EXCEPT !.snap = snap, !.known = known, !.plan = plan]
  <1>2. \A l \in Level : Bounded(plan[l])
    BY RefillTyped DEF TypeInv, Book
  <1>3. plan \in [Level -> Action]
    BY <1>2 DEF Bounded
  <1>4. known \subseteq Lifecycle
    BY DEF TypeInv
  <1> HIDE DEF plan
  <1>5. record \in Memory /\ record.plan = plan
    BY <1>3, <1>4, BlankTyped DEF Memory
  <1>6. Kept(record)
    BY <1>2, <1>5 DEF Kept
  <1>7. Continue(w, "reconcile", record)
    BY <1>1 DEF plan
  <1> HIDE DEF record
  <1>8. /\ pc' \in [Worker -> Label] /\ mem' \in [Worker -> Memory]
        /\ \A v \in Worker : Kept(mem'[v])
        /\ Planning' = Planning \cup {w}
    BY <1>6, <1>7, ContinueTyped DEF TypeInv, Label
  <1>9. /\ pc[w] = "idle" /\ cycles < MaxCycles /\ cycles' = cycles + 1
        /\ UNCHANGED <<rows, settled, shown, missing, faults>>
    BY DEF Observe
  <1>10. w \notin Planning /\ IsFiniteSet(Planning)
    BY <1>9 DEF Planning, TypeInv
  <1>11. IsFiniteSet(Planning') /\ Cardinality(Planning') = Cardinality(Planning) + 1
    BY <1>8, <1>10, FS_AddElement
  <1>12. Cardinality(Planning) \in Nat
    BY <1>10, FS_CardinalityType
  <1> HIDE DEF Planning
  <1>13. \A l \in Level : missing'[l] + Cardinality(Planning') <= cycles'
    BY <1>9, <1>11, <1>12, ResidualBounds DEF TypeInv
  <1>14. cycles' \in 0 .. MaxCycles
    BY <1>9, ResidualBounds DEF TypeInv
  <1> QED BY <1>8, <1>9, <1>11, <1>13, <1>14 DEF TypeInv

\* What a cycle remembers once its plan is applied.
LEMMA PlanlessKept ==
  ASSUME TypeInv, NEW w \in Worker
  PROVE  Kept(Planless(w)) /\ Planless(w).todo = << >> /\ Planless(w).taken = Nothing
  <1>1. mem[w].known \subseteq Lifecycle
    BY KeptFields
  <1>2. /\ Planless(w) \in Memory /\ Planless(w).plan = Blank.plan
        /\ Planless(w).todo = Blank.todo /\ Planless(w).taken = Blank.taken
    BY <1>1, BlankTyped DEF Memory, Planless
  <1>3. Blank.todo = << >> /\ Blank.taken = Nothing
    BY DEF Blank
  <1> QED BY <1>2, <1>3, BlankTyped DEF Kept

\* The rows, and what was seen, after a reconcile that commits.
Reconciled(w) ==
  /\ Continue(w, "seed", Planless(w))
  /\ rows' = [l \in Level |-> Released(Refreshed(rows[l], mem[w].snap[l]), mem[w].plan[l])]
  /\ shown' = [l \in Level |-> IF mem[w].snap[l] > 0 THEN mem[w].snap[l] ELSE shown[l]]
  /\ missing' = [l \in Level |-> IF mem[w].snap[l] > 0 THEN 0 ELSE missing[l] + 1]

LEMMA ReconcileCases ==
  ASSUME NEW w, Reconcile(w)
  PROVE  \/ Continue(w, "arrive", Planless(w)) /\ SwallowedFaults
            /\ UNCHANGED <<rows, shown, missing>>
         \/ Reconciled(w)
  BY DEF Reconcile, Reconciled

LEMMA ReconcileTyped ==
  ASSUME TypeInv, NEW w \in Worker, Reconcile(w)
  PROVE  TypeInv'
  <1>1. pc[w] = "reconcile" /\ UNCHANGED <<settled, cycles, faults>>
    BY DEF Reconcile
  <1>2. CASE Continue(w, "arrive", Planless(w)) /\ UNCHANGED <<rows, shown, missing>>
    <2>1. faults' \in 0 .. MaxFaults
      BY <1>1 DEF TypeInv
    <2> QED BY <1>1, <1>2, <2>1, PlanlessKept, PrivateTyped DEF Label
  <1>3. CASE Reconciled(w)
    <2>1. /\ pc' \in [Worker -> Label] /\ mem' \in [Worker -> Memory]
          /\ \A v \in Worker : Kept(mem'[v])
          /\ Planning' = Planning \ {w}
      BY <1>3, PlanlessKept, ContinueTyped DEF TypeInv, Label, Reconciled
    <2>2. w \in Planning /\ IsFiniteSet(Planning)
      BY <1>1 DEF Planning, TypeInv
    <2>3. IsFiniteSet(Planning') /\ Cardinality(Planning') = Cardinality(Planning) - 1
      BY <2>1, <2>2, FS_RemoveElement
    <2>4. Cardinality(Planning) \in Nat /\ Cardinality(Planning') \in Nat
      BY <2>2, <2>3, FS_CardinalityType
    <2>5. \A l \in Level : Sound(rows'[l])
      <3>1. ASSUME NEW l \in Level
            PROVE  Sound(Released(Refreshed(rows[l], mem[w].snap[l]), mem[w].plan[l]))
        <4>1. Sound(rows[l]) /\ mem[w].snap[l] \in Amount /\ Bounded(mem[w].plan[l])
          BY KeptFields DEF TypeInv, Book
        <4>2. Sound(Refreshed(rows[l], mem[w].snap[l]))
          BY <4>1, RefreshRow
        <4> QED BY <4>1, <4>2, ReleaseRow
      <3> QED BY <1>3, <3>1 DEF Reconciled
    <2>6. rows' \in [Level -> Row]
      BY <1>3, <2>5 DEF Reconciled, Sound
    <2>7. shown' \in Book
      <3>1. mem[w].snap \in Book /\ shown \in Book
        BY KeptFields DEF TypeInv
      <3> QED BY <1>3, <3>1 DEF Reconciled, Book
    <2> HIDE DEF Planning
    <2>8. \A l \in Level : missing'[l] \in Nat /\ missing'[l] + Cardinality(Planning') <= cycles'
      <3>1. ASSUME NEW l \in Level
            PROVE  missing'[l] \in Nat /\ missing'[l] + Cardinality(Planning') <= cycles'
        <4>1. missing'[l] = IF mem[w].snap[l] > 0 THEN 0 ELSE missing[l] + 1
          BY <1>3 DEF Reconciled
        <4>2. missing[l] \in Nat /\ missing[l] + Cardinality(Planning) <= cycles
          BY ResidualBounds DEF TypeInv
        <4>3. cycles \in Nat
          BY ResidualBounds DEF TypeInv
        <4> QED BY <1>1, <2>3, <2>4, <4>1, <4>2, <4>3
      <3> QED BY <3>1
    <2>9. missing' \in [Level -> 0 .. MaxCycles]
      <3>1. cycles' \in 0 .. MaxCycles
        BY <1>1 DEF TypeInv
      <3>2. \A l \in Level : missing'[l] \in 0 .. MaxCycles
        BY <2>4, <2>8, <3>1, ResidualBounds
      <3> QED BY <1>3, <3>2 DEF Reconciled
    <2> QED BY <1>1, <2>1, <2>3, <2>5, <2>6, <2>7, <2>8, <2>9 DEF TypeInv
  <1> QED BY <1>2, <1>3, ReconcileCases

LEMMA SeedTyped ==
  ASSUME TypeInv, NEW w \in Worker, Seed(w)
  PROVE  TypeInv'
  <1>1. PICK fails \in BOOLEAN :
          Continue(w, "arrive",
                   [mem[w] EXCEPT !.taken = IF fails THEN Nothing
                                            ELSE [l \in Level |-> Outstanding(l)]])
    BY DEF Seed
  <1> DEFINE taken == IF fails THEN Nothing ELSE [l \in Level |-> Outstanding(l)]
             record == [mem[w] EXCEPT !.taken = taken]
  <1>2. taken \in [Level -> Nat]
    BY BookTyped DEF TypeInv, Outstanding, Row
  <1> HIDE DEF taken
  <1>3. record \in Memory /\ record.plan = mem[w].plan
    BY <1>2, KeptFields DEF Memory
  <1>4. Kept(record)
    BY <1>3, KeptFields DEF Kept
  <1>5. Continue(w, "arrive", record)
    BY <1>1 DEF taken
  <1>6. UNCHANGED <<rows, settled, shown, missing, cycles>> /\ faults' \in 0 .. MaxFaults
    BY DEF Seed, TypeInv
  <1> QED BY <1>4, <1>5, <1>6, PrivateTyped DEF Label

LEMMA ArriveTyped ==
  ASSUME TypeInv, NEW w \in Worker, Arrive(w)
  PROVE  TypeInv'
  <1>1. PICK late \in Book : Continue(w, "decide", [mem[w] EXCEPT !.late = late])
    BY DEF Arrive
  <1> DEFINE record == [mem[w] EXCEPT !.late = late]
  <1>2. record \in Memory /\ record.plan = mem[w].plan
    BY KeptFields DEF Memory
  <1>3. Kept(record)
    BY <1>2, KeptFields DEF Kept
  <1>4. UNCHANGED <<rows, settled, shown, missing, cycles>> /\ faults' \in 0 .. MaxFaults
    BY DEF Arrive, TypeInv
  <1> QED BY <1>1, <1>3, <1>4, PrivateTyped DEF Label

\* A decision takes a book's worth, within what is left of the arrival book.
LEMMA DecideShape ==
  ASSUME TypeInv, NEW w \in Worker, NEW c \in Lifecycle, Decide(w, c)
  PROVE  \E takes \in Book :
           /\ Continue(w, "decide",
                       [mem[w] EXCEPT !.taken = [l \in Level |-> mem[w].taken[l] + takes[l]],
                                      !.todo = Append(mem[w].todo, [id |-> c, takes |-> takes])])
           /\ \A l \in Level : takes[l] <= Effective(w)[l]
  <1>1. PICK q \in 1 .. SumFunction(Effective(w)) :
          mem' = [mem EXCEPT
                    ![w].taken = [l \in Level |-> @[l] + Takes(Effective(w), q)[l]],
                    ![w].todo = Append(@, [id |-> c, takes |-> Takes(Effective(w), q)])]
    BY DEF Decide
  <1> DEFINE takes == Takes(Effective(w), q)
  <1>2. Effective(w) \in Book
    BY KeptFields, EffectiveTyped
  <1>3. takes \in Book /\ \A l \in Level : takes[l] <= Effective(w)[l]
    BY <1>2, TakesTyped
  <1> HIDE DEF takes
  <1>4. mem' = [mem EXCEPT
                  ![w].taken = [l \in Level |-> @[l] + takes[l]],
                  ![w].todo = Append(@, [id |-> c, takes |-> takes])]
    BY <1>1 DEF takes
  <1>5. mem' = [mem EXCEPT
                  ![w] = [mem[w] EXCEPT !.taken = [l \in Level |-> mem[w].taken[l] + takes[l]],
                                        !.todo = Append(mem[w].todo, [id |-> c, takes |-> takes])]]
    BY <1>4 DEF TypeInv, Memory
  <1>6. pc' = [pc EXCEPT ![w] = "decide"]
    BY DEF Decide, TypeInv
  <1> QED BY <1>3, <1>5, <1>6 DEF Continue, Goto

LEMMA DecideTyped ==
  ASSUME TypeInv, NEW w \in Worker, NEW c \in Lifecycle, Decide(w, c)
  PROVE  TypeInv'
  <1>1. PICK takes \in Book :
          Continue(w, "decide",
                   [mem[w] EXCEPT !.taken = [l \in Level |-> mem[w].taken[l] + takes[l]],
                                  !.todo = Append(mem[w].todo, [id |-> c, takes |-> takes])])
    BY DecideShape
  <1> DEFINE taken == [l \in Level |-> mem[w].taken[l] + takes[l]]
             todo == Append(mem[w].todo, [id |-> c, takes |-> takes])
             record == [mem[w] EXCEPT !.taken = taken, !.todo = todo]
  <1>2. taken \in [Level -> Nat]
    <2>1. \A l \in Level : mem[w].taken[l] \in Nat /\ takes[l] \in Nat
      BY KeptFields, BookTyped
    <2> QED BY <2>1
  <1>3. todo \in Seq(Fills)
    <2>1. [id |-> c, takes |-> takes] \in Fills /\ mem[w].todo \in Seq(Fills)
      BY KeptFields DEF Fills
    <2> QED BY <2>1
  <1> HIDE DEF taken, todo
  <1>4. record \in Memory /\ record.plan = mem[w].plan
    BY <1>2, <1>3, KeptFields DEF Memory
  <1>5. Kept(record)
    BY <1>4, KeptFields DEF Kept
  <1>6. Continue(w, "decide", record)
    BY <1>1 DEF taken, todo
  <1>7. UNCHANGED <<rows, settled, shown, missing, cycles>> /\ faults' \in 0 .. MaxFaults
    BY DEF Decide, TypeInv
  <1> QED BY <1>5, <1>6, <1>7, PrivateTyped DEF Label

LEMMA RecordShape ==
  ASSUME TypeInv, NEW w \in Worker, Record(w)
  PROVE  Continue(w, "record", mem[w])
  BY DEF TypeInv, Record, Continue

LEMMA RecordTyped ==
  ASSUME TypeInv, NEW w \in Worker, Record(w)
  PROVE  TypeInv'
  <1>1. UNCHANGED <<rows, settled, shown, missing, cycles>> /\ faults' \in 0 .. MaxFaults
    BY DEF Record, TypeInv
  <1> QED BY <1>1, RecordShape, KeptFields, PrivateTyped DEF Label

\* The next pending fill is done with.
Dropped(w) == [mem[w] EXCEPT !.todo = Tail(mem[w].todo)]

LEMMA DroppedKept ==
  ASSUME TypeInv, NEW w \in Worker, mem[w].todo # << >>
  PROVE  /\ Kept(Dropped(w)) /\ Dropped(w).todo = Tail(mem[w].todo)
         /\ Dropped(w).taken = mem[w].taken /\ Dropped(w).late = mem[w].late
         /\ Head(mem[w].todo) \in Fills
  <1>1. mem[w].todo \in Seq(Fills)
    BY KeptFields
  <1>2. Tail(mem[w].todo) \in Seq(Fills) /\ Head(mem[w].todo) \in Fills
    BY <1>1
  <1>3. /\ Dropped(w) \in Memory /\ Dropped(w).plan = mem[w].plan
        /\ Dropped(w).todo = Tail(mem[w].todo)
        /\ Dropped(w).taken = mem[w].taken /\ Dropped(w).late = mem[w].late
    BY <1>2, KeptFields DEF Memory, Dropped
  <1> QED BY <1>2, <1>3, KeptFields DEF Kept

LEMMA SettleShape ==
  ASSUME TypeInv, NEW w \in Worker, Settle(w)
  PROVE  Continue(w, "record", Dropped(w))
  BY DEF TypeInv, Settle, Continue, Goto, Dropped

LEMMA DuplicateShape ==
  ASSUME TypeInv, NEW w \in Worker, Duplicate(w)
  PROVE  Continue(w, "record", Dropped(w))
  BY DEF TypeInv, Duplicate, Continue, Goto, Dropped

LEMMA DuplicateTyped ==
  ASSUME TypeInv, NEW w \in Worker, Duplicate(w)
  PROVE  TypeInv'
  <1>1. UNCHANGED <<rows, settled, shown, missing, cycles>> /\ faults' \in 0 .. MaxFaults
        /\ mem[w].todo # << >>
    BY DEF Duplicate, TypeInv
  <1> QED BY <1>1, DuplicateShape, DroppedKept, PrivateTyped DEF Label

LEMMA FinishTyped ==
  ASSUME TypeInv, NEW w \in Worker, Stop(w) \/ Done(w)
  PROVE  TypeInv'
  <1>1. UNCHANGED <<rows, settled, shown, missing, cycles>> /\ faults' \in 0 .. MaxFaults
    BY ResidualBounds DEF Stop, Done, TypeInv
  <1>2. Continue(w, "idle", Blank)
    BY DEF Stop, Done, Finish
  <1> QED BY <1>1, <1>2, BlankKept, PrivateTyped DEF Label

\* A settled fill: one more lifecycle on the ledger, and its takes on the rows.
LEMMA FillEffect ==
  ASSUME TypeInv, NEW w \in Worker, mem[w].todo # << >>, Fill(w)
  PROVE  LET fill == Head(mem[w].todo) IN
         /\ fill.id \in Lifecycle /\ fill.takes \in Book
         /\ fill.id \notin DOMAIN settled
         /\ DOMAIN settled' = DOMAIN settled \cup {fill.id}
         /\ settled'[fill.id] = fill.takes
         /\ \A c \in DOMAIN settled : settled'[c] = settled[c]
         /\ settled' \in [DOMAIN settled' -> Book]
         /\ rows' \in [Level -> Row]
         /\ \A l \in Level :
              /\ Sound(rows[l]) /\ fill.takes[l] \in Amount /\ mem[w].late[l] \in Amount
              /\ rows'[l] = Consumed(rows[l], fill.takes[l], mem[w].late[l])
              /\ Sound(rows'[l])
         /\ shown' \in Book
         /\ missing' \in [Level -> Nat] /\ \A l \in Level : missing'[l] <= missing[l]
  <1> DEFINE fill == Head(mem[w].todo)
  <1>1. fill.id \in Lifecycle /\ fill.takes \in Book
    BY DroppedKept DEF Fills
  <1> HIDE DEF fill
  <1>2. /\ fill.id \notin DOMAIN settled
        /\ settled' = [c \in DOMAIN settled \cup {fill.id} |->
                         IF c = fill.id THEN fill.takes ELSE settled[c]]
    BY DEF Fill, fill
  <1>3. /\ DOMAIN settled' = DOMAIN settled \cup {fill.id}
        /\ settled'[fill.id] = fill.takes
        /\ \A c \in DOMAIN settled : settled'[c] = settled[c]
        /\ settled' = [c \in DOMAIN settled' |-> settled'[c]]
    BY <1>2
  <1>4. settled' \in [DOMAIN settled' -> Book]
    BY <1>1, <1>3 DEF TypeInv
  <1>5. \A l \in Level : /\ Sound(rows[l]) /\ fill.takes[l] \in Amount /\ mem[w].late[l] \in Amount
    BY <1>1, KeptFields DEF TypeInv, Book
  <1>6. rows' = [l \in Level |-> Consumed(rows[l], fill.takes[l], mem[w].late[l])]
    BY DEF Fill, fill
  <1>7. \A l \in Level : Sound(rows'[l])
    BY <1>5, <1>6, ConsumeRow
  <1>8. rows' \in [Level -> Row]
    BY <1>6, <1>7 DEF Sound
  <1>9. shown' \in Book
    <2>1. shown' = [l \in Level |-> IF fill.takes[l] > 0 THEN mem[w].late[l] ELSE shown[l]]
      BY DEF Fill, fill
    <2> QED BY <1>5, <2>1 DEF TypeInv, Book
  <1>10. missing' \in [Level -> Nat] /\ \A l \in Level : missing'[l] <= missing[l]
    <2>1. missing' = [l \in Level |-> IF fill.takes[l] > 0 THEN 0 ELSE missing[l]]
      BY DEF Fill, fill
    <2>2. \A l \in Level : missing[l] \in Nat
      BY ResidualBounds DEF TypeInv
    <2> QED BY <2>1, <2>2
  <1> QED BY <1>1, <1>2, <1>3, <1>4, <1>5, <1>6, <1>7, <1>8, <1>9, <1>10 DEF fill

LEMMA SettledTyped ==
  ASSUME TypeInv, NEW w \in Worker, Settle(w) \/ SettleUnheard(w)
  PROVE  TypeInv'
  <1>1. mem[w].todo # << >> /\ Fill(w) /\ cycles' = cycles /\ faults' \in 0 .. MaxFaults
    BY ResidualBounds DEF Settle, SettleUnheard, TypeInv
  <1>2. \E label \in {"record", "idle"} : \E record \in {Dropped(w), Blank} :
          Continue(w, label, record)
    BY SettleShape DEF SettleUnheard, Finish
  <1>3. /\ pc' \in [Worker -> Label] /\ mem' \in [Worker -> Memory]
        /\ \A v \in Worker : Kept(mem'[v])
        /\ Planning' = Planning \ {w}
    BY <1>1, <1>2, DroppedKept, BlankKept, ContinueTyped DEF TypeInv, Label
  <1>4. /\ DOMAIN settled' \subseteq Lifecycle /\ settled' \in [DOMAIN settled' -> Book]
        /\ rows' \in [Level -> Row] /\ \A l \in Level : Sound(rows'[l])
        /\ shown' \in Book
        /\ missing' \in [Level -> Nat] /\ \A l \in Level : missing'[l] <= missing[l]
    BY <1>1, FillEffect DEF TypeInv
  <1>5. /\ IsFiniteSet(Planning')
        /\ \A l \in Level : missing'[l] + Cardinality(Planning') <= cycles'
        /\ missing' \in [Level -> 0 .. MaxCycles]
    BY <1>1, <1>3, <1>4, FewerPlanning
  <1> QED BY <1>1, <1>3, <1>4, <1>5 DEF TypeInv

LEMMA InitTyped == Init => TypeInv
  <1> SUFFICES ASSUME Init PROVE TypeInv
    OBVIOUS
  <1>1. rows \in [Level -> Row] /\ \A l \in Level : Sound(rows[l])
    BY ResidualBounds DEF Init, Row, Sound, Amount
  <1>2. DOMAIN settled = {} /\ settled \in [DOMAIN settled -> Book]
    BY DEF Init
  <1>3. pc \in [Worker -> Label] /\ mem \in [Worker -> Memory]
        /\ \A w \in Worker : Kept(mem[w])
    BY BlankTyped, BlankKept DEF Init, Label
  <1>4. shown \in Book /\ missing \in [Level -> 0 .. MaxCycles]
    BY BookTyped, ResidualBounds DEF Init, Nothing
  <1>5. Planning = {}
    BY DEF Init, Planning
  <1>6. IsFiniteSet(Planning) /\ Cardinality(Planning) = 0
    BY <1>5, FS_EmptySet
  <1>7. cycles = 0 /\ faults = 0 /\ missing = [l \in Level |-> 0]
    BY DEF Init, Nothing
  <1> HIDE DEF Planning
  <1>8. \A l \in Level : missing[l] + Cardinality(Planning) <= cycles
    BY <1>6, <1>7
  <1> QED BY <1>1, <1>2, <1>3, <1>4, <1>6, <1>7, <1>8, ResidualBounds DEF TypeInv

LEMMA NextTyped ==
  ASSUME TypeInv, [Next]_vars
  PROVE  TypeInv'
  <1>1. CASE UNCHANGED vars
    BY <1>1 DEF TypeInv, Planning, vars
  <1>2. CASE Next
    BY <1>2, ObserveTyped, ReconcileTyped, SeedTyped, ArriveTyped, DecideTyped, RecordTyped,
       SettledTyped, DuplicateTyped, FinishTyped DEF Next
  <1> QED BY <1>1, <1>2

\* The rows, the books and the plans of every cycle keep their types, a row
\* that is not active holds nothing, and no level is missing for more cycles
\* than there were.
THEOREM TypeCorrect == Spec => []TypeOK
  <1>1. Init => TypeInv
    BY InitTyped
  <1>2. TypeInv /\ [Next]_vars => TypeInv'
    BY NextTyped
  <1> QED BY <1>1, <1>2, TypeInvImplies, PTL DEF Spec

-----------------------------------------------------------------------------
(* The ledger accounts for what is taken.                                  *)

\* What each settled lifecycle took from a level.
TakenAt(l) == [c \in DOMAIN settled |-> settled[c][l]]

LEMMA LedgerStep ==
  ASSUME IsFiniteSet(DOMAIN settled'),
         \A l \in Level :
           /\ rows'[l].consumed = SumFunctionOnSet(TakenAt(l)', DOMAIN settled')
           /\ rows'[l].out = rows'[l].consumed - rows'[l].released
  PROVE  LedgerInv'
  BY DEF LedgerInv, TakenOnce, TakenAt, SumFunction

\* A fill adds what it takes to the sum over the ledger and to the rows.
LEMMA FillOnLedger ==
  ASSUME TypeInv, LedgerInv, NEW w \in Worker, mem[w].todo # << >>, Fill(w)
  PROVE  LedgerInv'
  <1> DEFINE fill == Head(mem[w].todo)
  <1>1. /\ fill.takes \in Book /\ fill.id \notin DOMAIN settled
        /\ DOMAIN settled' = DOMAIN settled \cup {fill.id}
        /\ settled'[fill.id] = fill.takes
        /\ \A c \in DOMAIN settled : settled'[c] = settled[c]
        /\ settled' \in [DOMAIN settled' -> Book]
        /\ \A l \in Level :
             /\ Sound(rows[l]) /\ fill.takes[l] \in Amount /\ mem[w].late[l] \in Amount
             /\ rows'[l] = Consumed(rows[l], fill.takes[l], mem[w].late[l])
             /\ Sound(rows'[l])
    BY FillEffect
  <1> HIDE DEF fill
  <1>2. IsFiniteSet(DOMAIN settled) /\ IsFiniteSet(DOMAIN settled')
    BY <1>1, FS_AddElement DEF LedgerInv
  <1>3. ASSUME NEW l \in Level
        PROVE  SumFunctionOnSet(TakenAt(l)', DOMAIN settled')
                 = fill.takes[l] + SumFunctionOnSet(TakenAt(l), DOMAIN settled)
    <2>1. \A c \in DOMAIN settled \cup {fill.id} : TakenAt(l)'[c] = settled'[c][l]
      BY <1>1 DEF TakenAt
    <2>2. \A c \in DOMAIN settled \cup {fill.id} : TakenAt(l)'[c] \in Int
      <3>1. \A c \in DOMAIN settled' : settled'[c] \in Book
        BY <1>1
      <3>2. \A b \in Book : b[l] \in Int
        BY BookTyped
      <3> QED BY <1>1, <2>1, <3>1, <3>2
    <2>3. SumFunctionOnSet(TakenAt(l)', DOMAIN settled')
            = TakenAt(l)'[fill.id] + SumFunctionOnSet(TakenAt(l)', DOMAIN settled)
      BY <1>1, <1>2, <2>2, SumAdd
    <2>4. SumFunctionOnSet(TakenAt(l)', DOMAIN settled) = SumFunctionOnSet(TakenAt(l), DOMAIN settled)
      <3>1. \A c \in DOMAIN settled : TakenAt(l)'[c] = TakenAt(l)[c]
        BY <1>1, <2>1 DEF TakenAt
      <3> QED BY <1>2, <3>1, SumSame
    <2> QED BY <1>1, <2>1, <2>3, <2>4
  <1>4. ASSUME NEW l \in Level
        PROVE  /\ rows'[l].consumed = SumFunctionOnSet(TakenAt(l)', DOMAIN settled')
               /\ rows'[l].out = rows'[l].consumed - rows'[l].released
    <2>1. /\ rows'[l].consumed = rows[l].consumed + fill.takes[l]
          /\ rows'[l].out = rows[l].out + fill.takes[l]
          /\ rows'[l].released = rows[l].released
      BY <1>1, ConsumeRow
    <2>2. rows[l].consumed = SumFunctionOnSet(TakenAt(l), DOMAIN settled)
      BY DEF LedgerInv, TakenOnce, TakenAt, SumFunction
    <2>3. /\ rows[l].out \in Nat /\ rows[l].consumed \in Nat /\ rows[l].released \in Nat
          /\ fill.takes[l] \in Nat
      BY <1>1, RowFields, ResidualBounds DEF Sound, Amount
    <2>4. rows[l].out = rows[l].consumed - rows[l].released
      BY DEF LedgerInv, TakenOnce
    <2>5. rows'[l].out = rows'[l].consumed - rows'[l].released
      BY <2>1, <2>3, <2>4
    <2> QED BY <1>3, <2>1, <2>2, <2>3, <2>5
  <1> QED BY <1>1, <1>2, <1>4, LedgerStep

\* Releases leave what was consumed alone.
LEMMA ReleaseOnLedger ==
  ASSUME TypeInv, LedgerInv, NEW w \in Worker, Reconciled(w), settled' = settled
  PROVE  LedgerInv'
  <1>1. ASSUME NEW l \in Level
        PROVE  /\ Sound(rows[l]) /\ Sound(rows'[l])
               /\ rows'[l].consumed = rows[l].consumed
               /\ rows'[l].out + rows'[l].released = rows[l].out + rows[l].released
    <2>1. Sound(rows[l]) /\ mem[w].snap[l] \in Amount /\ Bounded(mem[w].plan[l])
      BY KeptFields DEF TypeInv, Book
    <2> DEFINE fresh == Refreshed(rows[l], mem[w].snap[l])
    <2>2. /\ Sound(fresh) /\ fresh.out = rows[l].out
          /\ fresh.consumed = rows[l].consumed /\ fresh.released = rows[l].released
      BY <2>1, RefreshRow
    <2>3. rows'[l] = Released(fresh, mem[w].plan[l])
      BY DEF Reconciled
    <2> HIDE DEF fresh
    <2> QED BY <2>1, <2>2, <2>3, ReleaseRow
  <1>2. ASSUME NEW l \in Level
        PROVE  rows'[l].consumed = SumFunctionOnSet(TakenAt(l)', DOMAIN settled')
    BY <1>1 DEF LedgerInv, TakenOnce, TakenAt, SumFunction
  <1>3. IsFiniteSet(DOMAIN settled')
    BY DEF LedgerInv
  <1>4. ASSUME NEW l \in Level
        PROVE  rows'[l].out = rows'[l].consumed - rows'[l].released
    <2>1. rows[l] \in Row /\ rows'[l] \in Row
      BY <1>1 DEF Sound
    <2>2. rows[l].out = rows[l].consumed - rows[l].released
      BY DEF LedgerInv, TakenOnce
    <2> QED BY <1>1, <2>1, <2>2, RowFields
  <1> QED BY <1>1, <1>2, <1>3, <1>4, LedgerStep

LEMMA InitLedger == Init => LedgerInv
  <1> SUFFICES ASSUME Init PROVE LedgerInv
    OBVIOUS
  <1>1. DOMAIN settled = {}
    BY DEF Init
  <1>2. \A l \in Level : SumFunctionOnSet(TakenAt(l), DOMAIN settled) = 0
    BY <1>1, SumEmpty
  <1>3. \A l \in Level : rows[l].out = 0 /\ rows[l].consumed = 0 /\ rows[l].released = 0
    BY DEF Init
  <1> QED BY <1>1, <1>2, <1>3, FS_EmptySet DEF LedgerInv, TakenOnce, TakenAt, SumFunction

LEMMA NextLedger ==
  ASSUME TypeInv, LedgerInv, [Next]_vars
  PROVE  LedgerInv'
  <1>1. CASE UNCHANGED <<rows, settled>>
    BY <1>1 DEF LedgerInv, TakenOnce
  <1>2. ASSUME NEW w \in Worker, Reconcile(w)
        PROVE  LedgerInv'
    <2>1. settled' = settled
      BY <1>2 DEF Reconcile
    <2> QED BY <1>1, <1>2, <2>1, ReconcileCases, ReleaseOnLedger
  <1>3. ASSUME NEW w \in Worker, Settle(w) \/ SettleUnheard(w)
        PROVE  LedgerInv'
    <2>1. mem[w].todo # << >> /\ Fill(w)
      BY <1>3 DEF Settle, SettleUnheard
    <2> QED BY <2>1, FillOnLedger
  <1>4. CASE Next
    <2>1. ASSUME NEW w \in Worker,
                 \/ Observe(w) \/ Seed(w) \/ Arrive(w) \/ Record(w) \/ Duplicate(w)
                 \/ Stop(w) \/ Done(w) \/ \E c \in Lifecycle : Decide(w, c)
          PROVE  UNCHANGED <<rows, settled>>
      BY <2>1 DEF Observe, Seed, Arrive, Record, Duplicate, Stop, Done, Decide
    <2> QED BY <1>1, <1>2, <1>3, <1>4, <2>1 DEF Next
  <1>5. CASE UNCHANGED vars
    BY <1>1, <1>5 DEF vars
  <1> QED BY <1>4, <1>5

\* However many cycles run side by side, crash, or settle what another has
\* settled, the rows say what the fills on the ledger took, once each.
THEOREM ConsumptionMatchesLedger == Spec => []TakenOnce
  <1>1. Init => TypeInv /\ LedgerInv
    BY InitTyped, InitLedger
  <1>2. TypeInv /\ LedgerInv /\ [Next]_vars => (TypeInv /\ LedgerInv)'
    BY NextTyped, NextLedger
  <1>3. LedgerInv => TakenOnce
    BY DEF LedgerInv
  <1> QED BY <1>1, <1>2, <1>3, PTL DEF Spec

-----------------------------------------------------------------------------
(* One cycle at a time: depth comes back only when it was earned.          *)

SoloInv == Remembered /\ PlanCurrent

\* What a refill plan may hold for a level.
LEMMA RefillCases ==
  ASSUME NEW l \in Level, Sound(rows[l]), NEW raw \in Amount
  PROVE  LET action == RefillAction(l, raw) IN
         \/ action.kind = "none"
         \/ /\ action.kind = "bump" /\ raw = 0 /\ rows[l].state = "ACTIVE"
            /\ action.amount = rows[l].absent + 1
         \/ /\ action.kind = "absent" /\ raw = 0 /\ rows[l].state = "ACTIVE"
            /\ rows[l].absent + 1 >= AbsentLimit
         \/ /\ action.kind = "delta" /\ raw > 0 /\ rows[l].state = "ACTIVE"
            /\ action.amount <= raw - rows[l].lastRaw
  BY ResidualBounds
     DEF Sound, Row, RefillAction, Outstanding, NoAction, Smaller, Amount

\* A reconcile, level by level.
LEMMA ReconcileLevel ==
  ASSUME TypeInv, SoloInv, NEW w \in Worker, pc[w] = "reconcile", Reconciled(w),
         NEW l \in Level
  PROVE  /\ rows'[l].state # "NONE" =>
              rows'[l].lastRaw = shown'[l] /\ rows'[l].absent <= missing'[l]
         /\ rows'[l].out < rows[l].out =>
              \/ rows[l].out - rows'[l].out <= shown'[l] - shown[l]
              \/ missing'[l] >= AbsentLimit
         /\ rows'[l].out <= rows[l].out
  <1> DEFINE row == rows[l]
             raw == mem[w].snap[l]
             action == mem[w].plan[l]
             fresh == Refreshed(row, raw)
             new == rows'[l]
  <1>1. Sound(row) /\ raw \in Amount /\ Bounded(action) /\ action = RefillAction(l, raw)
    BY KeptFields DEF TypeInv, Book, SoloInv, PlanCurrent
  <1>2. /\ Sound(fresh) /\ fresh.state = row.state /\ fresh.out = row.out
        /\ fresh.lastRaw = (IF row.state # "NONE" /\ raw > 0 THEN raw ELSE row.lastRaw)
        /\ fresh.absent = (IF row.state # "NONE" /\ raw > 0 THEN 0 ELSE row.absent)
    BY <1>1, RefreshRow
  <1>3. /\ new = Released(fresh, action)
        /\ shown'[l] = (IF raw > 0 THEN raw ELSE shown[l])
        /\ missing'[l] = (IF raw > 0 THEN 0 ELSE missing[l] + 1)
    BY DEF Reconciled
  <1>4. row.state # "NONE" => row.lastRaw = shown[l] /\ row.absent <= missing[l]
    BY DEF SoloInv, Remembered
  <1>5. \/ action.kind = "none"
        \/ /\ action.kind = "bump" /\ raw = 0 /\ row.state = "ACTIVE"
           /\ action.amount = row.absent + 1
        \/ /\ action.kind = "absent" /\ raw = 0 /\ row.state = "ACTIVE"
           /\ row.absent + 1 >= AbsentLimit
        \/ /\ action.kind = "delta" /\ raw > 0 /\ row.state = "ACTIVE"
           /\ action.amount <= raw - row.lastRaw
    BY <1>1, RefillCases
  <1>6. /\ raw \in Nat /\ missing[l] \in Nat /\ shown[l] \in Nat /\ AbsentLimit \in Nat
        /\ row.absent \in Nat /\ row.lastRaw \in Nat /\ row.out \in Nat
        /\ row.state \in {"NONE", "ACTIVE", "CLEARED"}
    BY <1>1, RowFields, ResidualBounds DEF TypeInv, Book, Amount, Sound
  <1> HIDE DEF row, raw, action, fresh, new
  <1>7. /\ new.out <= fresh.out /\ fresh.out - new.out <= action.amount
        /\ action.kind \in {"none", "bump"} => new.out = fresh.out /\ new.state = fresh.state
        /\ new.lastRaw = fresh.lastRaw
        /\ action.kind = "bump" => new.absent = action.amount
        /\ action.kind = "absent" => new.absent = 0
        /\ action.kind \in {"none", "delta"} => new.absent = fresh.absent
        /\ new.out \in Nat
    <2>1. /\ Sound(new) /\ new.out <= fresh.out /\ fresh.out - new.out <= action.amount
          /\ action.kind \in {"none", "bump"} => new.out = fresh.out /\ new.state = fresh.state
          /\ new.lastRaw = fresh.lastRaw
          /\ action.kind = "bump" => new.absent = action.amount
          /\ action.kind = "absent" => new.absent = 0
          /\ action.kind \in {"none", "delta"} => new.absent = fresh.absent
      BY <1>1, <1>2, <1>3, ReleaseRow
    <2> QED BY <2>1, RowFields DEF Sound
  <1>8. new.state # "NONE" => new.lastRaw = shown'[l] /\ new.absent <= missing'[l]
    BY <1>2, <1>3, <1>4, <1>5, <1>6, <1>7
  <1>9. new.out < row.out =>
          \/ row.out - new.out <= shown'[l] - shown[l]
          \/ missing'[l] >= AbsentLimit
    <2>1. CASE action.kind \in {"none", "bump"}
      BY <1>2, <1>6, <1>7, <2>1
    <2>2. CASE action.kind = "absent"
      BY <1>3, <1>4, <1>5, <1>6, <2>2
    <2>3. CASE action.kind = "delta"
      <3>1. row.out - new.out <= action.amount /\ action.amount <= raw - row.lastRaw
            /\ raw > 0 /\ row.lastRaw = shown[l]
        BY <1>2, <1>4, <1>5, <1>7, <2>3
      <3>2. action.amount \in Nat
        BY <1>1 DEF Bounded, Action
      <3> QED BY <1>3, <1>6, <1>7, <3>1, <3>2
    <2> QED BY <1>5, <2>1, <2>2, <2>3
  <1>10. new.out <= row.out
    BY <1>2, <1>7
  <1> QED BY <1>8, <1>9, <1>10 DEF new, row

\* A settled fill, level by level.
LEMMA FillLevel ==
  ASSUME TypeInv, Remembered, NEW w \in Worker, mem[w].todo # << >>, Fill(w), NEW l \in Level
  PROVE  /\ rows'[l].state # "NONE" =>
              rows'[l].lastRaw = shown'[l] /\ rows'[l].absent <= missing'[l]
         /\ rows'[l].out >= rows[l].out
  <1> DEFINE fill == Head(mem[w].todo)
  <1>1. /\ Sound(rows[l]) /\ fill.takes[l] \in Amount /\ mem[w].late[l] \in Amount
        /\ rows'[l] = Consumed(rows[l], fill.takes[l], mem[w].late[l])
    BY FillEffect
  <1>2. /\ shown'[l] = (IF fill.takes[l] > 0 THEN mem[w].late[l] ELSE shown[l])
        /\ missing'[l] = (IF fill.takes[l] > 0 THEN 0 ELSE missing[l])
    BY DEF Fill
  <1> HIDE DEF fill
  <1>3. /\ rows'[l].out = rows[l].out + fill.takes[l]
        /\ fill.takes[l] = 0 => rows'[l] = rows[l]
        /\ fill.takes[l] # 0 => rows'[l].lastRaw = mem[w].late[l] /\ rows'[l].absent = 0
    BY <1>1, ConsumeRow
  <1>4. fill.takes[l] \in Nat /\ rows[l].out \in Nat
    BY <1>1, RowFields, ResidualBounds DEF Amount, Sound
  <1> QED BY <1>2, <1>3, <1>4 DEF Remembered

LEMMA InitSolo == Init => SoloInv
  BY DEF Init, SoloInv, Remembered, PlanCurrent

\* The plan of a cycle that has just started.
LEMMA ObservePlan ==
  ASSUME TypeInv, NEW w \in Worker, Worker = {w}, Observe(w)
  PROVE  PlanCurrent'
  <1>1. PICK snap \in Book, known \in {DOMAIN settled, {}} :
          Continue(w, "reconcile",
                   [Blank EXCEPT !.snap = snap, !.known = known,
                                 !.plan = [l \in Level |-> RefillAction(l, snap[l])]])
    BY DEF Observe
  <1> DEFINE plan == [l \in Level |-> RefillAction(l, snap[l])]
             record == [Blank EXCEPT !.snap = snap, !.known = known, !.plan = plan]
  <1>2. mem'[w] = record
    BY <1>1 DEF Continue, TypeInv
  <1>3. rows' = rows
    BY DEF Observe
  <1>4. \A l \in Level : plan[l] = RefillAction(l, snap[l])
    OBVIOUS
  <1> HIDE DEF plan
  <1>5. record.plan = plan /\ record.snap = snap
    BY DEF Blank
  <1>6. \A l \in Level : mem'[w].plan[l] = RefillAction(l, mem'[w].snap[l])
    BY <1>2, <1>4, <1>5
  <1> QED BY <1>3, <1>6 DEF PlanCurrent, RefillAction, Outstanding

\* Every other step leaves its cycle in another place.
LEMMA ElsewhereLabel ==
  ASSUME TypeInv, NEW w \in Worker,
         \/ Reconcile(w) \/ Seed(w) \/ Arrive(w) \/ Record(w) \/ Settle(w) \/ Duplicate(w)
         \/ SettleUnheard(w) \/ Stop(w) \/ Done(w) \/ \E c \in Lifecycle : Decide(w, c)
  PROVE  pc'[w] # "reconcile"
  BY DEF TypeInv, Reconcile, Seed, Arrive, Record, Settle, Duplicate, SettleUnheard, Stop,
         Done, Decide, Continue, Goto, Finish

LEMMA NextSolo ==
  ASSUME OneWorker, TypeInv, SoloInv, [Next]_vars
  PROVE  SoloInv'
  <1>1. CASE UNCHANGED vars
    BY <1>1 DEF SoloInv, Remembered, PlanCurrent, RefillAction, Outstanding, vars
  <1>2. CASE Next
    <2>1. PICK w \in Worker :
            \/ Observe(w) \/ Reconcile(w) \/ Seed(w) \/ Arrive(w)
            \/ \E c \in Lifecycle : Decide(w, c)
            \/ Record(w) \/ Settle(w) \/ Duplicate(w) \/ SettleUnheard(w)
            \/ Stop(w) \/ Done(w)
      BY <1>2 DEF Next
    <2>2. Worker = {w}
      BY DEF OneWorker
    <2>3. PlanCurrent'
      <3>1. CASE Observe(w)
        BY <2>2, <3>1, ObservePlan
      <3>2. CASE ~Observe(w)
        <4>1. pc'[w] # "reconcile"
          BY <2>1, <3>2, ElsewhereLabel
        <4> QED BY <2>2, <4>1 DEF PlanCurrent
      <3> QED BY <3>1, <3>2
    <2>4. Remembered'
      <3>1. CASE UNCHANGED <<rows, shown, missing>>
        BY <3>1 DEF SoloInv, Remembered
      <3>2. CASE Reconcile(w)
        <4>1. pc[w] = "reconcile"
          BY <3>2 DEF Reconcile
        <4>2. CASE Reconciled(w)
          BY <4>1, <4>2, ReconcileLevel DEF Remembered
        <4> QED BY <3>1, <3>2, <4>2, ReconcileCases
      <3>3. CASE Settle(w) \/ SettleUnheard(w)
        <4>1. mem[w].todo # << >> /\ Fill(w) /\ Remembered
          BY <3>3 DEF Settle, SettleUnheard, SoloInv
        <4> QED BY <4>1, FillLevel DEF Remembered
      <3>4. CASE \/ Observe(w) \/ Seed(w) \/ Arrive(w) \/ Record(w) \/ Duplicate(w)
                 \/ Stop(w) \/ Done(w) \/ \E c \in Lifecycle : Decide(w, c)
        BY <3>1, <3>4 DEF Observe, Seed, Arrive, Record, Duplicate, Stop, Done, Decide
      <3> QED BY <2>1, <3>2, <3>3, <3>4
    <2> QED BY <2>3, <2>4 DEF SoloInv
  <1> QED BY <1>1, <1>2

\* Whatever a step changes, it takes nothing back that was not earned.
LEMMA StepEarned ==
  ASSUME OneWorker, TypeInv, SoloInv, Next
  PROVE  \A l \in Level :
           rows'[l].out < rows[l].out =>
             \/ rows[l].out - rows'[l].out <= shown'[l] - shown[l]
             \/ missing'[l] >= AbsentLimit
  <1>0. ASSUME NEW l \in Level
        PROVE  rows[l].out \in Nat
    BY RowFields DEF TypeInv
  <1>1. PICK w \in Worker :
          \/ Observe(w) \/ Reconcile(w) \/ Seed(w) \/ Arrive(w)
          \/ \E c \in Lifecycle : Decide(w, c)
          \/ Record(w) \/ Settle(w) \/ Duplicate(w) \/ SettleUnheard(w)
          \/ Stop(w) \/ Done(w)
    BY DEF Next
  <1>2. CASE rows' = rows
    BY <1>0, <1>2
  <1>3. CASE Reconcile(w)
    <2>1. pc[w] = "reconcile"
      BY <1>3 DEF Reconcile
    <2> QED BY <1>2, <1>3, <2>1, ReconcileCases, ReconcileLevel
  <1>4. CASE Settle(w) \/ SettleUnheard(w)
    <2>1. mem[w].todo # << >> /\ Fill(w) /\ Remembered
      BY <1>4 DEF Settle, SettleUnheard, SoloInv
    <2>2. \A l \in Level : rows'[l].out >= rows[l].out /\ rows'[l] \in Row
      BY <2>1, FillLevel, FillEffect DEF Sound
    <2> QED BY <1>0, <2>2, RowFields
  <1>5. CASE \/ Observe(w) \/ Seed(w) \/ Arrive(w) \/ Record(w) \/ Duplicate(w)
             \/ Stop(w) \/ Done(w) \/ \E c \in Lifecycle : Decide(w, c)
    BY <1>2, <1>5 DEF Observe, Seed, Arrive, Record, Duplicate, Stop, Done, Decide
  <1> QED BY <1>1, <1>3, <1>4, <1>5

\* With one process running cycles, taken depth comes back only as far as the
\* level displays more than before, or after the level was missing often
\* enough: also when a reconcile fails and is only logged.
THEOREM ReleasesAreEarned == OneWorker => (Spec => ReleasesEarned)
  <1> SUFFICES ASSUME OneWorker PROVE Spec => ReleasesEarned
    OBVIOUS
  <1>1. Init => TypeInv /\ SoloInv
    BY InitTyped, InitSolo
  <1>2. TypeInv /\ SoloInv /\ [Next]_vars => (TypeInv /\ SoloInv)'
    BY NextTyped, NextSolo
  <1>3. TypeInv /\ SoloInv /\ [Next]_vars =>
          [\A l \in Level :
             rows'[l].out < rows[l].out =>
               \/ rows[l].out - rows'[l].out <= shown'[l] - shown[l]
               \/ missing'[l] >= AbsentLimit]_vars
    BY StepEarned
  <1> QED BY <1>1, <1>2, <1>3, PTL DEF Spec, ReleasesEarned

-----------------------------------------------------------------------------
(* One cycle at a time: depth is never overfilled.                         *)

\* The steps by which a cycle's working book comes to cover its decisions.
LEMMA SeededBook ==
  ASSUME TypeInv, NEW w \in Worker, Seed(w), ~SwallowedFaults, mem[w].todo = << >>
  PROVE  /\ mem'[w].todo = << >> /\ pc'[w] = "arrive"
         /\ \A l \in Level : mem'[w].taken[l] = rows'[l].out
  <1>1. Continue(w, "arrive", [mem[w] EXCEPT !.taken = [l \in Level |-> Outstanding(l)]])
    BY DEF Seed
  <1> DEFINE taken == [l \in Level |-> Outstanding(l)]
             record == [mem[w] EXCEPT !.taken = taken]
  <1>2. mem'[w] = record /\ pc'[w] = "arrive"
    BY <1>1 DEF Continue, Goto, TypeInv
  <1>3. \A l \in Level : taken[l] = rows[l].out
    BY DEF TypeInv, Outstanding, Sound
  <1> HIDE DEF taken
  <1>4. record.taken = taken /\ record.todo = mem[w].todo
    BY KeptFields DEF Memory
  <1>5. rows' = rows
    BY DEF Seed
  <1> QED BY <1>2, <1>3, <1>4, <1>5

\* With nothing pending, the book covers the rows if it shows them taken.
LEMMA NothingPending ==
  ASSUME NEW out \in Nat, NEW record, NEW l, record.todo = << >>, out <= record.taken[l]
  PROVE  Covers(out, record, l)
  <1> DEFINE reach == [i \in 0 .. Len(record.todo) |-> out]
  <1>1. reach \in [0 .. Len(record.todo) -> Nat] /\ Len(record.todo) = 0
    OBVIOUS
  <1>2. reach[0] = out
    BY <1>1
  <1>3. Reaches(out, record, l, reach)
    BY <1>1, <1>2 DEF Reaches
  <1> QED BY <1>1, <1>3 DEF Covers

\* A decision is one more pending fill, that reaches all that is now taken.
LEMMA DecidedReach ==
  ASSUME NEW out \in Nat, NEW old \in Memory, NEW new, NEW l \in Level,
         NEW takes \in Book, NEW c \in Lifecycle, Covers(out, old, l),
         takes[l] > 0 => old.taken[l] + takes[l] <= old.late[l],
         new.todo = Append(old.todo, [id |-> c, takes |-> takes]),
         new.taken[l] = old.taken[l] + takes[l], new.late = old.late
  PROVE  Covers(out, new, l)
  <1> DEFINE n == Len(old.todo)
  <1>0. PICK reach \in [0 .. n -> Nat] : Reaches(out, old, l, reach)
    BY DEF Covers
  <1> DEFINE next == [i \in 0 .. n + 1 |-> IF i <= n THEN reach[i] ELSE new.taken[l]]
  <1>1. /\ old.todo \in Seq(Fills) /\ n \in Nat
        /\ old.taken[l] \in Nat /\ old.late[l] \in Nat /\ takes[l] \in Nat
    BY BookTyped DEF Memory
  <1>2. /\ Len(new.todo) = n + 1
        /\ \A i \in 1 .. n : new.todo[i] = old.todo[i]
        /\ new.todo[n + 1] = [id |-> c, takes |-> takes]
    BY <1>1
  <1>3. \A i \in 1 .. n :
          /\ reach[i - 1] + old.todo[i].takes[l] <= reach[i]
          /\ reach[i] <= old.taken[l]
          /\ old.todo[i].takes[l] > 0 => reach[i] <= old.late[l]
    BY <1>0 DEF Reaches
  <1>4. reach[0] = out /\ reach[0] <= old.taken[l]
    BY <1>0 DEF Reaches
  <1> HIDE DEF n
  <1>5. \A i \in 0 .. n : reach[i] \in Nat /\ reach[i] <= old.taken[l]
    <2>1. \A i \in 0 .. n : i = 0 \/ i \in 1 .. n
      BY <1>1
    <2> QED BY <1>3, <1>4, <2>1
  <1>6. next \in [0 .. n + 1 -> Nat]
    BY <1>1, <1>5
  <1>7. next[0] = out /\ next[0] <= new.taken[l]
    BY <1>1, <1>4
  <1>8. ASSUME NEW i \in 1 .. n + 1
        PROVE  /\ next[i - 1] + new.todo[i].takes[l] <= next[i]
               /\ next[i] <= new.taken[l]
               /\ new.todo[i].takes[l] > 0 => next[i] <= new.late[l]
    <2>1. CASE i \in 1 .. n
      <3>1. next[i] = reach[i] /\ next[i - 1] = reach[i - 1]
        BY <1>1, <2>1
      <3>2. reach[i] \in Nat /\ reach[i] <= old.taken[l]
        BY <1>5, <2>1
      <3>3. new.todo[i] = old.todo[i]
        BY <1>2, <2>1
      <3>4. reach[i] <= new.taken[l]
        BY <1>1, <3>2
      <3> HIDE DEF next
      <3> QED BY <1>3, <2>1, <3>1, <3>3, <3>4
    <2>2. CASE i = n + 1
      <3>1. next[n + 1] = old.taken[l] + takes[l] /\ next[(n + 1) - 1] = reach[n]
        BY <1>1
      <3>2. new.todo[n + 1].takes[l] = takes[l]
        BY <1>2
      <3>3. n \in 0 .. n
        BY <1>1
      <3>4. reach[n] \in Nat /\ reach[n] <= old.taken[l]
        BY <1>5, <3>3
      <3>5. reach[n] + takes[l] <= old.taken[l] + takes[l]
        BY <1>1, <3>4
      <3>6. new.taken[l] <= new.taken[l]
        BY <1>1
      <3> HIDE DEF next
      <3> QED BY <2>2, <3>1, <3>2, <3>5, <3>6
    <2> HIDE DEF next
    <2>3. i \in 1 .. n \/ i = n + 1
      BY <1>1
    <2> QED BY <2>1, <2>2, <2>3
  <1> HIDE DEF next
  <1>9. Reaches(out, new, l, next)
    BY <1>2, <1>7, <1>8 DEF Reaches
  <1> QED BY <1>2, <1>6, <1>9 DEF Covers

\* A fill that is done with leaves the others where they were.
LEMMA DroppedReach ==
  ASSUME NEW before \in Nat, NEW after \in Nat, NEW old \in Memory, NEW new, NEW l \in Level,
         old.todo # << >>, Covers(before, old, l),
         new.todo = Tail(old.todo), new.taken = old.taken, new.late = old.late,
         after <= before + Head(old.todo).takes[l]
  PROVE  Covers(after, new, l)
  <1> DEFINE n == Len(old.todo)
  <1>0. PICK reach \in [0 .. n -> Nat] : Reaches(before, old, l, reach)
    BY DEF Covers
  <1> DEFINE next == [i \in 0 .. n - 1 |-> IF i = 0 THEN after ELSE reach[i + 1]]
  <1>1. old.todo \in Seq(Fills) /\ n \in Nat \ {0} /\ old.taken[l] \in Nat /\ old.late[l] \in Nat
    BY BookTyped DEF Memory
  <1>2. /\ Len(new.todo) = n - 1
        /\ \A i \in 1 .. n - 1 : new.todo[i] = old.todo[i + 1]
        /\ Head(old.todo) = old.todo[1]
    BY <1>1
  <1>3. \A i \in 1 .. n :
          /\ reach[i - 1] + old.todo[i].takes[l] <= reach[i]
          /\ reach[i] <= old.taken[l]
          /\ old.todo[i].takes[l] > 0 => reach[i] <= old.late[l]
    BY <1>0 DEF Reaches
  <1>4. reach[0] = before /\ \A i \in 0 .. n : reach[i] \in Nat
    BY <1>0 DEF Reaches
  <1>5. \A i \in 1 .. n : old.todo[i].takes[l] \in Nat
    <2>1. \A i \in 1 .. n : old.todo[i] \in Fills
      BY <1>1
    <2> QED BY <2>1, BookTyped DEF Fills
  <1> HIDE DEF n
  <1>6. next \in [0 .. n - 1 -> Nat]
    BY <1>1, <1>4
  <1>7. 1 \in 1 .. n /\ 1 \in 0 .. n /\ 1 - 1 = 0
    BY <1>1
  <1>8. after <= reach[1] /\ reach[1] <= old.taken[l]
    <2>1. reach[0] + old.todo[1].takes[l] <= reach[1] /\ reach[1] <= old.taken[l]
      BY <1>3, <1>7
    <2> QED BY <1>2, <1>4, <1>5, <1>7, <2>1
  <1>9. next[0] = after /\ next[0] <= new.taken[l]
    BY <1>1, <1>4, <1>7, <1>8
  <1>10. ASSUME NEW i \in 1 .. n - 1
         PROVE  /\ next[i - 1] + new.todo[i].takes[l] <= next[i]
                /\ next[i] <= new.taken[l]
                /\ new.todo[i].takes[l] > 0 => next[i] <= new.late[l]
    <2>1. i + 1 \in 1 .. n /\ i + 1 \in 0 .. n /\ i \in 0 .. n /\ (i + 1) - 1 = i
      BY <1>1
    <2>2. /\ reach[i] + old.todo[i + 1].takes[l] <= reach[i + 1]
          /\ reach[i + 1] <= old.taken[l]
          /\ old.todo[i + 1].takes[l] > 0 => reach[i + 1] <= old.late[l]
      BY <1>3, <2>1
    <2>3. next[i] = reach[i + 1]
      BY <1>1
    <2>4. next[i - 1] <= reach[i] /\ next[i - 1] \in Nat
      <3>1. CASE i = 1
        BY <1>1, <1>8, <3>1
      <3>2. CASE i # 1
        BY <1>1, <1>4, <2>1, <3>2
      <3> QED BY <3>1, <3>2
    <2>5. old.todo[i + 1].takes[l] \in Nat /\ reach[i] \in Nat /\ reach[i + 1] \in Nat
      BY <1>4, <1>5, <2>1
    <2>6. new.todo[i] = old.todo[i + 1]
      BY <1>2
    <2> HIDE DEF next
    <2>7. next[i - 1] + old.todo[i + 1].takes[l] <= reach[i + 1]
      BY <2>2, <2>4, <2>5
    <2> QED BY <2>2, <2>3, <2>6, <2>7
  <1> HIDE DEF next
  <1>11. Reaches(after, new, l, next)
    BY <1>2, <1>9, <1>10 DEF Reaches
  <1> QED BY <1>2, <1>6, <1>11 DEF Covers

\* BookCurrent for one cycle.
BookOf(w) ==
  /\ pc[w] \in {"seed", "arrive"} => mem[w].todo = << >>
  /\ pc[w] \in {"arrive", "decide", "record"} =>
       \A l \in Level : Covers(rows[l].out, mem[w], l)

LEMMA SeedBook ==
  ASSUME TypeInv, ~SwallowedFaults, NEW w \in Worker, BookOf(w), Seed(w)
  PROVE  BookOf(w)'
  <1>1. mem[w].todo = << >>
    BY DEF Seed, BookOf
  <1>2. /\ mem'[w].todo = << >> /\ pc'[w] = "arrive"
        /\ \A l \in Level : mem'[w].taken[l] = rows'[l].out
    BY <1>1, SeededBook
  <1>3. \A l \in Level : rows'[l].out \in Nat
    BY RowFields DEF Seed, TypeInv
  <1>4. \A l \in Level : rows'[l].out <= mem'[w].taken[l]
    BY <1>2, <1>3
  <1>5. \A l \in Level : Covers(rows'[l].out, mem'[w], l)
    BY <1>2, <1>3, <1>4, NothingPending
  <1> QED BY <1>2, <1>5 DEF BookOf

LEMMA ArriveBook ==
  ASSUME TypeInv, NEW w \in Worker, BookOf(w), Arrive(w)
  PROVE  BookOf(w)'
  <1>1. PICK late \in Book : Continue(w, "decide", [mem[w] EXCEPT !.late = late])
    BY DEF Arrive
  <1>2. mem'[w] = [mem[w] EXCEPT !.late = late] /\ pc'[w] = "decide"
    BY <1>1 DEF Continue, Goto, TypeInv
  <1>3. mem'[w].todo = mem[w].todo /\ mem'[w].taken = mem[w].taken /\ rows' = rows
    BY <1>2, KeptFields DEF Memory, Arrive
  <1>4. mem[w].todo = << >> /\ \A l \in Level : Covers(rows[l].out, mem[w], l)
    BY DEF Arrive, BookOf
  <1>5. ASSUME NEW l \in Level
        PROVE  Covers(rows'[l].out, mem'[w], l)
    <2>1. PICK reach : Reaches(rows[l].out, mem[w], l, reach)
      BY <1>4 DEF Covers
    <2>2. rows[l].out <= mem[w].taken[l] /\ rows[l].out \in Nat
      BY <2>1, RowFields DEF Reaches, TypeInv
    <2> QED BY <1>3, <1>4, <2>2, NothingPending
  <1> QED BY <1>2, <1>5 DEF BookOf

LEMMA DecideBook ==
  ASSUME TypeInv, NEW w \in Worker, NEW c \in Lifecycle, BookOf(w), Decide(w, c)
  PROVE  BookOf(w)'
  <1>1. PICK takes \in Book :
          /\ Continue(w, "decide",
                      [mem[w] EXCEPT !.taken = [l \in Level |-> mem[w].taken[l] + takes[l]],
                                     !.todo = Append(mem[w].todo, [id |-> c, takes |-> takes])])
          /\ \A l \in Level : takes[l] <= Effective(w)[l]
    BY DecideShape
  <1> DEFINE taken == [l \in Level |-> mem[w].taken[l] + takes[l]]
             todo == Append(mem[w].todo, [id |-> c, takes |-> takes])
             record == [mem[w] EXCEPT !.taken = taken, !.todo = todo]
  <1>2. mem'[w] = record /\ pc'[w] = "decide"
    BY <1>1 DEF Continue, Goto, TypeInv
  <1>3. \A l \in Level : taken[l] = mem[w].taken[l] + takes[l]
    OBVIOUS
  <1> HIDE DEF taken, todo
  <1>4. record.taken = taken /\ record.todo = todo /\ record.late = mem[w].late
    BY KeptFields DEF Memory
  <1>5. ASSUME NEW l \in Level
        PROVE  takes[l] > 0 => mem[w].taken[l] + takes[l] <= mem[w].late[l]
    <2>1. takes[l] <= Effective(w)[l]
      BY <1>1
    <2>2. mem[w].late[l] \in Nat /\ mem[w].taken[l] \in Nat /\ takes[l] \in Nat
      BY KeptFields, BookTyped
    <2> QED BY <2>1, <2>2 DEF Effective
  <1>6. rows' = rows /\ \A l \in Level : rows[l].out \in Nat /\ Covers(rows[l].out, mem[w], l)
    BY RowFields DEF Decide, BookOf, TypeInv
  <1>7. \A l \in Level : /\ mem'[w].todo = Append(mem[w].todo, [id |-> c, takes |-> takes])
                         /\ mem'[w].taken[l] = mem[w].taken[l] + takes[l]
                         /\ mem'[w].late = mem[w].late
    BY <1>2, <1>3, <1>4 DEF todo
  <1>8. mem[w] \in Memory
    BY KeptFields
  <1>9. ASSUME NEW l \in Level
        PROVE  Covers(rows'[l].out, mem'[w], l)
    BY <1>5, <1>6, <1>7, <1>8, DecidedReach
  <1> QED BY <1>2, <1>9 DEF BookOf

LEMMA DroppedBook ==
  ASSUME TypeInv, NEW w \in Worker, BookOf(w), Settle(w) \/ Duplicate(w)
  PROVE  BookOf(w)'
  <1>1. mem[w].todo # << >> /\ pc[w] = "record" /\ Continue(w, "record", Dropped(w))
    BY SettleShape, DuplicateShape DEF Settle, Duplicate
  <1>2. mem'[w] = Dropped(w) /\ pc'[w] = "record"
    BY <1>1 DEF Continue, Goto, TypeInv
  <1>3. /\ mem'[w].todo = Tail(mem[w].todo) /\ mem'[w].taken = mem[w].taken
        /\ mem'[w].late = mem[w].late /\ Head(mem[w].todo) \in Fills
    BY <1>1, <1>2, DroppedKept
  <1>4. ASSUME NEW l \in Level
        PROVE  /\ rows[l].out \in Nat /\ rows'[l].out \in Nat
               /\ rows'[l].out <= rows[l].out + Head(mem[w].todo).takes[l]
    <2>1. rows[l].out \in Nat /\ Head(mem[w].todo).takes[l] \in Nat
      <3>1. Head(mem[w].todo).takes \in Book
        BY <1>3 DEF Fills
      <3> QED BY <3>1, RowFields, BookTyped DEF TypeInv
    <2>2. CASE Duplicate(w)
      BY <2>1, <2>2 DEF Duplicate
    <2>3. CASE Settle(w)
      <3>1. Fill(w)
        BY <2>3 DEF Settle
      <3>2. /\ Sound(rows[l]) /\ Head(mem[w].todo).takes[l] \in Amount
            /\ mem[w].late[l] \in Amount
            /\ rows'[l] = Consumed(rows[l], Head(mem[w].todo).takes[l], mem[w].late[l])
        BY <1>1, <3>1, FillEffect
      <3>3. rows'[l].out = rows[l].out + Head(mem[w].todo).takes[l]
        BY <3>2, ConsumeRow
      <3> QED BY <2>1, <3>3
    <2> QED BY <2>2, <2>3
  <1>5. \A l \in Level : Covers(rows[l].out, mem[w], l)
    BY <1>1 DEF BookOf
  <1>6. mem[w] \in Memory
    BY KeptFields
  <1>7. ASSUME NEW l \in Level
        PROVE  Covers(rows'[l].out, mem'[w], l)
    BY <1>1, <1>3, <1>4, <1>5, <1>6, DroppedReach
  <1> QED BY <1>2, <1>7 DEF BookOf

LEMMA OtherBook ==
  ASSUME TypeInv, ~SwallowedFaults, NEW w \in Worker, BookOf(w),
         \/ Observe(w) \/ Reconcile(w) \/ Record(w)
         \/ SettleUnheard(w) \/ Stop(w) \/ Done(w)
  PROVE  BookOf(w)'
  <1>1. CASE Observe(w)
    <2>1. pc'[w] = "reconcile"
      BY <1>1 DEF Observe, Continue, Goto, TypeInv
    <2> QED BY <2>1 DEF BookOf
  <1>2. CASE Reconcile(w)
    <2>1. Continue(w, "seed", Planless(w))
      BY <1>2, ReconcileCases DEF Reconciled
    <2>2. mem'[w] = Planless(w) /\ pc'[w] = "seed"
      BY <2>1 DEF Continue, Goto, TypeInv
    <2> QED BY <2>2, PlanlessKept DEF BookOf
  <1>3. CASE Record(w)
    <2>1. pc[w] = "decide" /\ mem' = mem /\ rows' = rows /\ pc'[w] = "record"
      BY <1>3 DEF Record, Goto, TypeInv
    <2> QED BY <2>1 DEF BookOf
  <1>4. CASE SettleUnheard(w) \/ Stop(w) \/ Done(w)
    <2>1. pc'[w] = "idle"
      BY <1>4 DEF SettleUnheard, Stop, Done, Finish, Continue, Goto, TypeInv
    <2> QED BY <2>1 DEF BookOf
  <1> QED BY <1>1, <1>2, <1>3, <1>4

LEMMA NextBook ==
  ASSUME OneWorker, ~SwallowedFaults, TypeInv, BookCurrent, [Next]_vars
  PROVE  BookCurrent'
  <1>1. CASE UNCHANGED vars
    BY <1>1 DEF BookCurrent, vars
  <1>2. ASSUME NEW w \in Worker,
               \/ Observe(w) \/ Reconcile(w) \/ Seed(w) \/ Arrive(w)
               \/ \E c \in Lifecycle : Decide(w, c)
               \/ Record(w) \/ Settle(w) \/ Duplicate(w) \/ SettleUnheard(w)
               \/ Stop(w) \/ Done(w)
        PROVE  BookCurrent'
    <2>1. Worker = {w}
      BY DEF OneWorker
    <2>2. BookOf(w)
      BY DEF BookCurrent, BookOf
    <2>3. BookOf(w)'
      BY <1>2, <2>2, SeedBook, ArriveBook, DecideBook, DroppedBook, OtherBook
    <2> QED BY <2>1, <2>3 DEF BookCurrent, BookOf
  <1> QED BY <1>1, <1>2 DEF Next

LEMMA InitBook == Init => BookCurrent
  BY DEF Init, BookCurrent

\* What a settled fill takes is there.
LEMMA FillCovered ==
  ASSUME TypeInv, NEW w \in Worker, pc[w] = "record", BookCurrent,
         mem[w].todo # << >>, Fill(w), NEW l \in Level, rows'[l].out > rows[l].out
  PROVE  rows'[l].out <= shown'[l]
  <1> DEFINE fill == Head(mem[w].todo)
  <1>1. /\ Sound(rows[l]) /\ fill.takes[l] \in Amount /\ mem[w].late[l] \in Amount
        /\ rows'[l] = Consumed(rows[l], fill.takes[l], mem[w].late[l])
    BY FillEffect
  <1>2. shown'[l] = (IF fill.takes[l] > 0 THEN mem[w].late[l] ELSE shown[l])
    BY DEF Fill
  <1>3. rows'[l].out = rows[l].out + fill.takes[l] /\ rows[l].out \in Nat /\ fill.takes[l] \in Nat
    BY <1>1, ConsumeRow, RowFields, ResidualBounds DEF Sound, Amount
  <1>4. PICK reach \in [0 .. Len(mem[w].todo) -> Nat] : Reaches(rows[l].out, mem[w], l, reach)
    BY DEF BookCurrent, Covers
  <1>5. mem[w].todo \in Seq(Fills) /\ fill = mem[w].todo[1] /\ 1 \in 1 .. Len(mem[w].todo)
    BY KeptFields
  <1> HIDE DEF fill
  <1>6. /\ reach[1 - 1] + fill.takes[l] <= reach[1]
        /\ fill.takes[l] > 0 => reach[1] <= mem[w].late[l]
        /\ reach[0] = rows[l].out
    BY <1>4, <1>5 DEF Reaches
  <1>7. fill.takes[l] > 0
    BY <1>3
  <1>8. reach[1] \in Nat /\ mem[w].late[l] \in Nat /\ 1 - 1 = 0
    BY <1>1, <1>5, ResidualBounds DEF Amount
  <1>9. rows[l].out + fill.takes[l] <= mem[w].late[l]
    BY <1>3, <1>6, <1>7, <1>8
  <1> QED BY <1>2, <1>3, <1>7, <1>9

LEMMA StepWithin ==
  ASSUME OneWorker, ~SwallowedFaults, TypeInv, SoloInv, BookCurrent, Next
  PROVE  \A l \in Level : rows'[l].out > rows[l].out => rows'[l].out <= shown'[l]
  <1>0. ASSUME NEW l \in Level
        PROVE  rows[l].out \in Nat
    BY RowFields DEF TypeInv
  <1>1. PICK w \in Worker :
          \/ Observe(w) \/ Reconcile(w) \/ Seed(w) \/ Arrive(w)
          \/ \E c \in Lifecycle : Decide(w, c)
          \/ Record(w) \/ Settle(w) \/ Duplicate(w) \/ SettleUnheard(w)
          \/ Stop(w) \/ Done(w)
    BY DEF Next
  <1>2. CASE rows' = rows
    BY <1>0, <1>2
  <1>3. CASE Reconcile(w)
    <2>1. pc[w] = "reconcile" /\ Reconciled(w)
      BY <1>3, ReconcileCases DEF Reconcile
    <2>2. \A l \in Level : rows'[l].out <= rows[l].out
      BY <2>1, ReconcileLevel
    <2>3. \A l \in Level : rows'[l].out \in Nat
      <3>1. TypeInv'
        BY <1>3, ReconcileTyped
      <3>2. \A l \in Level : rows'[l] \in Row
        BY <3>1 DEF TypeInv
      <3> QED BY <3>2, RowFields
    <2> QED BY <1>0, <2>2, <2>3
  <1>4. CASE Settle(w) \/ SettleUnheard(w)
    <2>1. mem[w].todo # << >> /\ Fill(w) /\ pc[w] = "record"
      BY <1>4 DEF Settle, SettleUnheard
    <2> QED BY <2>1, FillCovered
  <1>5. CASE \/ Observe(w) \/ Seed(w) \/ Arrive(w) \/ Record(w) \/ Duplicate(w)
             \/ Stop(w) \/ Done(w) \/ \E c \in Lifecycle : Decide(w, c)
    BY <1>2, <1>5 DEF Observe, Seed, Arrive, Record, Duplicate, Stop, Done, Decide
  <1> QED BY <1>1, <1>3, <1>4, <1>5

\* With one process running cycles, and no reconcile or seed that fails and
\* is only logged, a settled fill leaves no more taken from a level than the
\* arrival book displayed there, over every fill of every cycle.
THEOREM DepthNeverOverfilled == OneWorker /\ ~SwallowedFaults => (Spec => NeverOverfilled)
  <1> SUFFICES ASSUME OneWorker, ~SwallowedFaults PROVE Spec => NeverOverfilled
    OBVIOUS
  <1>1. Init => TypeInv /\ SoloInv /\ BookCurrent
    BY InitTyped, InitSolo, InitBook
  <1>2. TypeInv /\ SoloInv /\ BookCurrent /\ [Next]_vars => (TypeInv /\ SoloInv /\ BookCurrent)'
    BY NextTyped, NextSolo, NextBook
  <1>3. TypeInv /\ SoloInv /\ BookCurrent /\ [Next]_vars =>
          [\A l \in Level : rows'[l].out > rows[l].out => rows'[l].out <= shown'[l]]_vars
    BY StepWithin
  <1> QED BY <1>1, <1>2, <1>3, PTL DEF Spec, NeverOverfilled
=============================================================================
