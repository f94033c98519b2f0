--------------------------- MODULE PaperDeskProofs ---------------------------
(***************************************************************************)
(* Proofs about PaperDesk, for every value of its constants: its types;    *)
(* then that cycles exclude one another on either database, and what the   *)
(* one serial queue of PGlite adds; then the virtual book, which never     *)
(* goes negative and, when no read of a cycle fails, matches the ledger;   *)
(* last the counters, which may lag behind the ledger and never lead.      *)
(***************************************************************************)
EXTENDS PaperDesk, FiniteSetTheorems, TLAPS

\* Adding two books gives a book.
LEMMA PlusType ==
  ASSUME NEW book \in Book, NEW delta \in Book
  PROVE  Plus(book, delta) \in Book
BY DEF Plus, Book, Purse

\* What an outcome of a lifecycle moves is a book.
LEMMA DeltaType ==
  ASSUME NEW o \in Outcome, NEW l \in Lifecycle
  PROVE  Delta[o][l] \in Book
BY DeltaAssumption

LEMMA EmptyBookType == EmptyBook \in Book
BY DEF EmptyBook, Book, Purse

\* Where a worker or an admin can be.
WorkerPc ==
  {"idle", "blind", "gate", "stop", "observe", "stopLate", "load", "fills", "tx", "bump"}
AdminPc == {"idle", "decide", "write", "book"}

\* A process past its first step works on a session, and a fill in flight
\* has an offer.
Placed ==
  /\ \A w \in Worker :
        /\ pc[w] \in WorkerPc
        /\ pc[w] \notin {"idle", "blind", "gate"} => sess[w] \in Session
        /\ pc[w] = "tx" => offer[w] \in Lifecycle \X Outcome
  /\ \A a \in Admin :
        /\ pc[a] \in AdminPc
        /\ pc[a] # "idle" => sess[a] \in Session

Typed == TypeOK /\ Placed

LEMMA TypedInit == Init => Typed
BY ProcAssumption, BoundAssumption, EmptyBookType
   DEF Init, Typed, TypeOK, Placed, Proc, WorkerPc, AdminPc, Session, Outcome, Status,
       NoSession

\* Ending a cycle, when the rest of the step keeps the database typed.
LEMMA FinishTyped ==
  ASSUME Typed, NEW w \in Worker, Finish(w),
         status' \in [Session -> Status \cup {"NONE"}],
         trades' \in [Session -> Nat],
         UNCHANGED <<rows, balances, posted, settled, closed, ended, goal, crashes>>
  PROVE  Typed'
<1>1. TypeOK'
  BY EmptyBookType DEF Finish, Goto, Typed, TypeOK, Proc
<1>2. Placed'
  BY ProcAssumption DEF Finish, Goto, Typed, TypeOK, Placed, Proc, WorkerPc, AdminPc
<1>3. QED
  BY <1>1, <1>2 DEF Typed

LEMMA TypedStep == Typed /\ [Next]_vars => Typed'
<1> SUFFICES ASSUME Typed, [Next]_vars PROVE Typed'
  OBVIOUS
<1> USE ProcAssumption, BoundAssumption DEF Proc
<1>1. CASE UNCHANGED vars
  BY <1>1 DEF vars, db, mind, Typed, TypeOK, Placed, Outcome
<1>2. ASSUME NEW w \in Worker, Begin(w) PROVE Typed'
  BY <1>2 DEF Begin, Goto, db, mind, Typed, TypeOK, Placed, WorkerPc, AdminPc
<1>3. ASSUME NEW w \in Worker, Blind(w) \/ GateClosed(w) PROVE Typed'
  <2>1. Finish(w) /\ UNCHANGED <<rows, balances, posted, settled, closed, ended, goal, crashes>>
    BY <1>3 DEF Blind, GateClosed, db
  <2>2. status' \in [Session -> Status \cup {"NONE"}] /\ trades' \in [Session -> Nat]
    BY <1>3 DEF Blind, GateClosed, db, Typed, TypeOK, Status
  <2>3. QED
    BY <2>1, <2>2, FinishTyped
<1>4. ASSUME NEW w \in Worker, GateOpen(w) PROVE Typed'
  BY <1>4 DEF GateOpen, Goto, db, mind, Typed, TypeOK, Placed, WorkerPc, AdminPc
<1>5. ASSUME NEW w \in Worker, StopElapsed(w) PROVE Typed'
  <2>1. Finish(w) /\ UNCHANGED <<rows, balances, posted, settled, closed, ended, goal, crashes>>
    BY <1>5 DEF StopElapsed
  <2>2. status' \in [Session -> Status \cup {"NONE"}] /\ trades' \in [Session -> Nat]
    BY <1>5 DEF StopElapsed, Typed, TypeOK, Status
  <2>3. QED
    BY <2>1, <2>2, FinishTyped
<1>6. ASSUME NEW w \in Worker, StopFails(w) PROVE Typed'
  BY <1>6 DEF StopFails, Goto, db, mind, Typed, TypeOK, Placed, WorkerPc, AdminPc
<1>7. ASSUME NEW w \in Worker, RecheckFails(w) PROVE Typed'
  <2>1. Finish(w) /\ UNCHANGED <<rows, balances, posted, settled, closed, ended, goal, crashes>>
    BY <1>7 DEF RecheckFails, db
  <2>2. status' \in [Session -> Status \cup {"NONE"}] /\ trades' \in [Session -> Nat]
    BY <1>7 DEF RecheckFails, db, Typed, TypeOK, Status
  <2>3. QED
    BY <2>1, <2>2, FinishTyped
<1>8. ASSUME NEW w \in Worker, Recheck(w) PROVE Typed'
  BY <1>8 DEF Recheck, Goto, db, mind, Typed, TypeOK, Placed, WorkerPc, AdminPc
<1>9. ASSUME NEW w \in Worker, Load(w) PROVE Typed'
  BY <1>9 DEF Load, SettledSet, Goto, db, mind, Typed, TypeOK, Placed, WorkerPc, AdminPc
<1>10. ASSUME NEW w \in Worker, StartFill(w) PROVE Typed'
  BY <1>10, PlusType, DeltaType
     DEF StartFill, Goto, db, mind, Typed, TypeOK, Placed, WorkerPc, AdminPc
<1>11. ASSUME NEW w \in Worker, FillRefused(w) PROVE Typed'
  <2>1. Finish(w) /\ UNCHANGED <<rows, balances, posted, settled, closed, ended, goal, crashes>>
    BY <1>11 DEF FillRefused, db
  <2>2. status' \in [Session -> Status \cup {"NONE"}] /\ trades' \in [Session -> Nat]
    BY <1>11 DEF FillRefused, db, Typed, TypeOK, Status
  <2>3. QED
    BY <2>1, <2>2, FinishTyped
<1>12. ASSUME NEW w \in Worker, InsertFill(w) PROVE Typed'
  <2> DEFINE s == sess[w]
             l == offer[w][1]
             o == offer[w][2]
  <2>1. s \in Session /\ l \in Lifecycle /\ o \in Outcome
    BY <1>12 DEF InsertFill, Typed, Placed
  <2>2. settled' \in [Session -> [Lifecycle -> Outcome \cup {"none"}]]
    BY <1>12, <2>1 DEF InsertFill, Typed, TypeOK
  <2>3. posted' \in [Session -> Book]
    BY <1>12, <2>1, PlusType, DeltaType DEF InsertFill, Typed, TypeOK
  <2>4. balances' \in [Session -> Book]
    BY <1>12, <2>1 DEF InsertFill, Typed, TypeOK, Book
  <2>5. status' \in [Session -> Status \cup {"NONE"}] /\ filled' \in [Worker -> Nat]
    BY <1>12, <2>1 DEF InsertFill, Typed, TypeOK, Status
  <2>6. QED
    BY <1>12, <2>1, <2>2, <2>3, <2>4, <2>5
       DEF InsertFill, NextFill, Goto, Typed, TypeOK, Placed, WorkerPc, AdminPc
<1>13. ASSUME NEW w \in Worker, DuplicateFill(w) PROVE Typed'
  BY <1>13 DEF DuplicateFill, NextFill, Goto, db, mind, Typed, TypeOK, Placed, WorkerPc,
               AdminPc
<1>14. ASSUME NEW w \in Worker, EndFills(w) PROVE Typed'
  BY <1>14 DEF EndFills, Goto, db, mind, Typed, TypeOK, Placed, WorkerPc, AdminPc
<1>15. ASSUME NEW w \in Worker, BumpCounters(w) PROVE Typed'
  <2>1. Finish(w) /\ UNCHANGED <<rows, balances, posted, settled, closed, ended, goal, crashes>>
    BY <1>15 DEF BumpCounters
  <2>2. sess[w] \in Session /\ filled[w] \in Nat /\ trades \in [Session -> Nat]
    BY <1>15 DEF BumpCounters, Typed, TypeOK, Placed
  <2>3. trades' = [trades EXCEPT ![sess[w]] = @ + filled[w]] /\ status' = status
    BY <1>15 DEF BumpCounters
  <2>4. trades' \in [Session -> Nat]
    BY <2>2, <2>3
  <2>5. status' \in [Session -> Status \cup {"NONE"}]
    BY <2>3 DEF Typed, TypeOK
  <2>6. QED
    BY <2>1, <2>4, <2>5, FinishTyped
<1>16. ASSUME NEW w \in Worker, CycleThrows(w) PROVE Typed'
  <2>1. Finish(w) /\ UNCHANGED <<rows, balances, posted, settled, closed, ended, goal, crashes>>
    BY <1>16 DEF CycleThrows, db
  <2>2. status' \in [Session -> Status \cup {"NONE"}] /\ trades' \in [Session -> Nat]
    BY <1>16 DEF CycleThrows, db, Typed, TypeOK, Status
  <2>3. QED
    BY <2>1, <2>2, FinishTyped
<1>17. ASSUME NEW a \in Admin, Request(a) PROVE Typed'
  BY <1>17 DEF Request, Exists, Goto, db, mind, Typed, TypeOK, Placed, WorkerPc, AdminPc
<1>18. ASSUME NEW a \in Admin, LegRiskConflict(a) PROVE Typed'
  BY <1>18 DEF LegRiskConflict, Done, Goto, db, mind, Typed, TypeOK, Placed, WorkerPc, AdminPc
<1>19. ASSUME NEW a \in Admin, Decide(a) PROVE Typed'
  BY <1>19 DEF Decide, Enter, Goto, db, mind, Typed, TypeOK, Placed, WorkerPc, AdminPc
<1>20. ASSUME NEW a \in Admin, WriteStatus(a) PROVE Typed'
  BY <1>20 DEF WriteStatus, Leave, Done, Goto, mind, Typed, TypeOK, Placed, WorkerPc,
               AdminPc, Status
<1>21. ASSUME NEW a \in Admin, Create(a) PROVE Typed'
  BY <1>21 DEF Create, Enter, Goto, mind, Typed, TypeOK, Placed, WorkerPc, AdminPc, Status
<1>22. ASSUME NEW a \in Admin, InsertBalance(a) PROVE Typed'
  BY <1>22, OpeningAssumption
     DEF InsertBalance, mind, Typed, TypeOK, Placed, WorkerPc, AdminPc, Book
<1>23. ASSUME NEW a \in Admin, Created(a) PROVE Typed'
  BY <1>23 DEF Created, Leave, Done, Goto, db, mind, Typed, TypeOK, Placed, WorkerPc, AdminPc
<1>24. ASSUME NEW a \in Admin, Reconcile(a) PROVE Typed'
  BY <1>24 DEF Reconcile, Exists, Unresolved, mind, Typed, TypeOK, Placed, WorkerPc, AdminPc
<1>25. CASE Elapse
  BY <1>25 DEF Elapse, Exists, db, mind, Typed, TypeOK, Placed, WorkerPc, AdminPc
<1>26. ASSUME NEW p \in Proc, Crash(p) PROVE Typed'
  BY <1>26, EmptyBookType
     DEF Crash, Crashed, db, Typed, TypeOK, Placed, WorkerPc, AdminPc
<1>27. QED
  BY <1>1, <1>2, <1>3, <1>4, <1>5, <1>6, <1>7, <1>8, <1>9, <1>10, <1>11, <1>12, <1>13,
     <1>14, <1>15, <1>16, <1>17, <1>18, <1>19, <1>20, <1>21, <1>22, <1>23, <1>24, <1>25,
     <1>26
     DEF Next, Cycle, Gate, Arrive, Commit, AdminStep

\* Every behaviour of the desk keeps every variable in its type.
THEOREM TypeCorrect == Spec => []TypeOK
<1>1. Spec => []Typed
  BY TypedInit, TypedStep, PTL DEF Spec
<1>2. Typed => TypeOK
  BY DEF Typed
<1>3. QED
  BY <1>1, <1>2, PTL

-----------------------------------------------------------------------------
(* Mutual exclusion.                                                       *)

\* A worker anywhere in a cycle holds the lock.
Held == \A w \in Worker : pc[w] # "idle" => lock = w

LEMMA HeldInit == Init => Held
BY DEF Init, Held, Proc

\* Whoever ends a cycle had the lock to himself.
LEMMA FinishHeld ==
  ASSUME Typed, Held, NEW w \in Worker, pc[w] # "idle", Finish(w)
  PROVE  Held'
<1>1. \A u \in Worker : pc'[u] # "idle" => u # w /\ pc[u] # "idle"
  BY DEF Finish, Goto, Typed, TypeOK, Proc
<1>2. QED
  BY <1>1 DEF Held

\* A step that leaves the lock alone and moves a worker already in its cycle.
LEMMA MoveHeld ==
  ASSUME Held, lock' = lock, NEW w \in Worker, pc[w] # "idle",
         \A u \in Worker \ {w} : pc'[u] = pc[u]
  PROVE  Held'
BY DEF Held

\* An admin's step: no worker moves, and a worker's lock is not taken away.
LEMMA AdminHeld ==
  ASSUME Held, \A u \in Worker : pc'[u] = pc[u],
         \A u \in Worker : lock = u => lock' = u
  PROVE  Held'
BY DEF Held

LEMMA HeldStep == Typed /\ Held /\ [Next]_vars => Held'
<1> SUFFICES ASSUME Typed, Held, [Next]_vars PROVE Held'
  OBVIOUS
<1>0. pc = [p \in Proc |-> pc[p]] /\ Worker \subseteq Proc /\ Admin \subseteq Proc
  BY DEF Typed, TypeOK, Proc
<1>1. CASE UNCHANGED vars
  BY <1>1 DEF vars, db, mind, Held
<1>2. ASSUME NEW w \in Worker, Begin(w) PROVE Held'
  BY <1>0, <1>2, ProcAssumption DEF Begin, Goto, Held
<1>3. ASSUME NEW w \in Worker,
             Blind(w) \/ GateClosed(w) \/ StopElapsed(w) \/ RecheckFails(w) \/ FillRefused(w)
               \/ BumpCounters(w) \/ CycleThrows(w)
      PROVE  Held'
  <2>1. pc[w] # "idle" /\ Finish(w)
    BY <1>3 DEF Blind, GateClosed, StopElapsed, RecheckFails, FillRefused, BumpCounters, CycleThrows
  <2>2. QED
    BY <2>1, FinishHeld
<1>4. ASSUME NEW w \in Worker,
             GateOpen(w) \/ StopFails(w) \/ Recheck(w) \/ Load(w) \/ StartFill(w)
               \/ InsertFill(w) \/ DuplicateFill(w) \/ EndFills(w)
      PROVE  Held'
  <2>1. pc[w] # "idle" /\ lock' = lock
    BY <1>4 DEF GateOpen, StopFails, Recheck, Load, StartFill, InsertFill, DuplicateFill,
                EndFills
  <2>3. \A u \in Worker \ {w} : pc'[u] = pc[u]
    BY <1>0, <1>4 DEF GateOpen, StopFails, Recheck, Load, StartFill, InsertFill,
                      DuplicateFill, EndFills, NextFill, Goto
  <2>4. QED
    BY <2>1, <2>3, MoveHeld
<1>5. ASSUME NEW a \in Admin, AdminStep(a) PROVE Held'
  <2>2. \A u \in Worker : pc'[u] = pc[u]
    BY <1>0, <1>5, ProcAssumption
       DEF AdminStep, Request, LegRiskConflict, Decide, WriteStatus, Create, InsertBalance,
           Created, Reconcile, Done, Goto
  <2>3. lock' = lock \/ Enter(a) \/ Leave(a)
    BY <1>5 DEF AdminStep, Request, LegRiskConflict, Decide, WriteStatus, Create,
                InsertBalance, Created, Reconcile
  <2>4. \A u \in Worker : lock = u => lock' = u
    BY <1>0, <2>3, ProcAssumption, EngineAssumption DEF Enter, MayEnter, Leave
  <2>5. QED
    BY <2>2, <2>4, AdminHeld
<1>6. CASE Elapse
  BY <1>6 DEF Elapse, Held
<1>7. ASSUME NEW p \in Proc, Crash(p) PROVE Held'
  <2>1. \A u \in Worker : pc'[u] # "idle" => u \notin Crashed(p) /\ pc[u] # "idle"
    BY <1>0, <1>7 DEF Crash
  <2>2. lock' = IF lock \in Crashed(p) THEN Free ELSE lock
    BY <1>7 DEF Crash
  <2>3. QED
    BY <2>1, <2>2 DEF Held
<1>8. QED
  BY <1>1, <1>2, <1>3, <1>4, <1>5, <1>6, <1>7 DEF Next, Cycle, Gate, Arrive, Commit

LEMMA AlwaysHeld == Spec => [](Typed /\ Held)
BY TypedInit, TypedStep, HeldInit, HeldStep, PTL DEF Spec

\* On either database, with any number of collectors and any crashes, two
\* paper cycles never overlap: neither withShadowLock nor the collectors'
\* loss of the lock lets a second cycle start while one is unfinished.
THEOREM CyclesExclude == Spec => []OneCycleAtATime
<1>1. Typed /\ Held => OneCycleAtATime
  BY DEF Held, OneCycleAtATime
<1>2. QED
  BY <1>1, AlwaysHeld, PTL

-----------------------------------------------------------------------------
(* PGlite: the serial queue also keeps the admins out of a cycle.            *)

\* An admin about to write a status holds the queue, and RUNNING is written
\* only while the exposure it asked for is still closed.
Decided ==
  \A a \in Admin :
     pc[a] = "write" => lock = a /\ (goal[a] = "RUNNING" => Unresolved(sess[a]) = {})

\* A fill's transaction runs in a RUNNING session.
FillsRunning == \A w \in Worker : pc[w] = "tx" => status[sess[w]] = "RUNNING"

QueueSafe == Decided /\ FillsRunning /\ LegRiskHalts

Base == Typed /\ Held

LEMMA QueueInit == Init => QueueSafe
BY ProcAssumption DEF Init, QueueSafe, Decided, FillsRunning, LegRiskHalts, Proc

\* A step that touches neither ledger, statuses nor closures, and brings no
\* process to a write or to a transaction.
LEMMA QuietQueue ==
  ASSUME QueueSafe, UNCHANGED <<status, settled, closed>>,
         \A a \in Admin : pc'[a] = "write" =>
            pc[a] = "write" /\ sess'[a] = sess[a] /\ goal'[a] = goal[a] /\ lock' = lock,
         \A w \in Worker : pc'[w] = "tx" => pc[w] = "tx" /\ sess'[w] = sess[w]
  PROVE  QueueSafe'
BY DEF QueueSafe, Decided, FillsRunning, LegRiskHalts, Unresolved

LEMMA QueueStep ==
  ASSUME Engine = "pglite"
  PROVE  Base /\ QueueSafe /\ [Next]_vars => QueueSafe'
<1> SUFFICES ASSUME Base, QueueSafe, [Next]_vars PROVE QueueSafe'
  OBVIOUS
<1>0. /\ pc = [p \in Proc |-> pc[p]] /\ sess = [p \in Proc |-> sess[p]]
      /\ goal = [a \in Admin |-> goal[a]]
      /\ Worker \subseteq Proc /\ Admin \subseteq Proc
      /\ \A w \in Worker, a \in Admin : w # a
  BY ProcAssumption DEF Base, Typed, TypeOK, Proc
<1>1. \A w \in Worker, a \in Admin : pc[w] # "idle" => pc[a] # "write"
  BY <1>0 DEF Base, Held, QueueSafe, Decided
<1>2. \A w \in Worker, u \in Worker : pc[w] # "idle" /\ pc[u] # "idle" => w = u
  BY DEF Base, Held
<1>3. CASE UNCHANGED vars
  BY <1>3, QuietQueue DEF vars, db, mind
<1>4. ASSUME NEW w \in Worker, Begin(w) PROVE QueueSafe'
  <2>1. lock = Free /\ Free \notin Admin
    BY <1>4, ProcAssumption DEF Begin, Proc
  <2>2. \A a \in Admin : pc'[a] # "write"
    BY <1>0, <1>4, <2>1 DEF Begin, Goto, QueueSafe, Decided
  <2>3. QED
    BY <1>0, <1>4, <2>2, QuietQueue DEF Begin, Goto, db
<1>5. ASSUME NEW w \in Worker,
             Blind(w) \/ GateClosed(w) \/ GateOpen(w) \/ StopFails(w) \/ RecheckFails(w) \/ Recheck(w)
               \/ Load(w) \/ FillRefused(w) \/ DuplicateFill(w) \/ EndFills(w)
               \/ BumpCounters(w) \/ CycleThrows(w)
      PROVE  QueueSafe'
  <2>1. pc[w] # "idle" /\ UNCHANGED <<status, settled, closed>>
    BY <1>5 DEF Blind, GateClosed, GateOpen, StopFails, RecheckFails, Recheck, Load, FillRefused,
                DuplicateFill, EndFills, BumpCounters, CycleThrows, db
  <2>2. pc'[w] # "tx" /\ \A p \in Proc \ {w} : pc'[p] = pc[p] /\ sess'[p] = sess[p]
    BY <1>0, <1>5 DEF Blind, GateClosed, GateOpen, StopFails, RecheckFails, Recheck, Load,
                      FillRefused, DuplicateFill, NextFill, EndFills, BumpCounters,
                      CycleThrows, Finish, Goto
  <2>3. \A a \in Admin : pc'[a] # "write"
    BY <1>0, <1>1, <2>1, <2>2
  <2>4. \A u \in Worker : pc'[u] = "tx" => pc[u] = "tx" /\ sess'[u] = sess[u]
    BY <1>0, <2>2
  <2>5. QED
    BY <2>1, <2>3, <2>4, QuietQueue
<1>6. ASSUME NEW w \in Worker, StopElapsed(w) PROVE QueueSafe'
  <2>1. \A u \in Worker : pc'[u] # "tx"
    BY <1>0, <1>2, <1>6 DEF StopElapsed, Finish, Goto
  <2>2. \A a \in Admin : pc'[a] # "write"
    BY <1>0, <1>1, <1>6 DEF StopElapsed, Finish, Goto
  <2>3. LegRiskHalts'
    BY <1>6 DEF StopElapsed, QueueSafe, LegRiskHalts, Unresolved, Base, Typed, TypeOK
  <2>4. QED
    BY <2>1, <2>2, <2>3 DEF QueueSafe, Decided, FillsRunning
<1>7. ASSUME NEW w \in Worker, StartFill(w) PROVE QueueSafe'
  <2>1. \A a \in Admin : pc'[a] # "write"
    BY <1>0, <1>1, <1>7 DEF StartFill, Goto
  <2>2. FillsRunning'
    BY <1>0, <1>2, <1>7 DEF StartFill, Goto, db, FillsRunning, QueueSafe
  <2>3. LegRiskHalts'
    BY <1>7 DEF StartFill, db, QueueSafe, LegRiskHalts, Unresolved
  <2>4. QED
    BY <2>1, <2>2, <2>3 DEF QueueSafe, Decided
<1>8. ASSUME NEW w \in Worker, InsertFill(w) PROVE QueueSafe'
  <2>1. \A a \in Admin : pc'[a] # "write"
    BY <1>0, <1>1, <1>8 DEF InsertFill, NextFill, Goto
  <2>2. \A u \in Worker : pc'[u] # "tx"
    BY <1>0, <1>2, <1>8 DEF InsertFill, NextFill, Goto
  <2>3. sess[w] \in Session /\ offer[w][1] \in Lifecycle /\ offer[w][2] \in Outcome
    BY <1>8 DEF InsertFill, Base, Typed, Placed
  <2>4. LegRiskHalts'
    <3> SUFFICES ASSUME NEW s \in Session, status'[s] = "RUNNING"
                 PROVE  Unresolved(s)' = {}
      BY DEF LegRiskHalts
    <3>1. s # sess[w] \/ offer[w][2] = "FILLED"
      BY <1>8, <2>3 DEF InsertFill, Outcome, Base, Typed, TypeOK
    <3>2. status[s] = "RUNNING"
      BY <1>8, <2>3 DEF InsertFill, Base, Typed, TypeOK
    <3>3. Unresolved(s) = {}
      BY <3>2 DEF QueueSafe, LegRiskHalts
    <3>4. \A l \in Lifecycle : settled'[s][l] = "LEG_RISK" => settled[s][l] = "LEG_RISK"
      BY <1>8, <2>3, <3>1 DEF InsertFill, Base, Typed, TypeOK
    <3>5. closed' = closed
      BY <1>8 DEF InsertFill
    <3>6. QED
      BY <3>3, <3>4, <3>5 DEF Unresolved
  <2>5. QED
    BY <2>1, <2>2, <2>4 DEF QueueSafe, Decided, FillsRunning
<1>9. ASSUME NEW a \in Admin,
             Request(a) \/ LegRiskConflict(a) \/ InsertBalance(a) \/ Created(a)
      PROVE  QueueSafe'
  <2>1. UNCHANGED <<status, settled, closed>> /\ (lock' = lock \/ Leave(a))
    BY <1>9 DEF Request, LegRiskConflict, InsertBalance, Created, db
  <2>2. /\ pc'[a] # "write" /\ pc[a] # "write"
        /\ \A p \in Proc \ {a} : pc'[p] = pc[p] /\ sess'[p] = sess[p]
        /\ \A b \in Admin \ {a} : goal'[b] = goal[b]
    BY <1>0, <1>9 DEF Request, LegRiskConflict, InsertBalance, Created, Done, Goto
  <2>3. \A b \in Admin : pc'[b] = "write" => lock' = lock
    BY <1>0, <2>1, <2>2 DEF Leave, QueueSafe, Decided
  <2>4. QED
    BY <1>0, <2>1, <2>2, <2>3, QuietQueue
<1>10. ASSUME NEW a \in Admin, Decide(a) PROVE QueueSafe'
  <2>1. lock = Free /\ lock' = a /\ Free \notin Proc
    BY <1>10, ProcAssumption DEF Decide, Enter, MayEnter
  <2>2. \A b \in Admin : pc[b] # "write"
    BY <1>0, <2>1 DEF QueueSafe, Decided
  <2>3. Decided'
    BY <1>0, <1>10, <2>1, <2>2 DEF Decide, Goto, db, Decided, Unresolved
  <2>4. FillsRunning' /\ LegRiskHalts'
    BY <1>0, <1>10
       DEF Decide, Goto, db, QueueSafe, FillsRunning, LegRiskHalts, Unresolved
  <2>5. QED
    BY <2>3, <2>4 DEF QueueSafe
<1>11. ASSUME NEW a \in Admin, WriteStatus(a) PROVE QueueSafe'
  <2>1. lock = a /\ (goal[a] = "RUNNING" => Unresolved(sess[a]) = {})
    BY <1>11 DEF WriteStatus, QueueSafe, Decided
  <2>2. \A b \in Admin : pc'[b] # "write"
    BY <1>0, <1>11, <2>1 DEF WriteStatus, Done, Goto, QueueSafe, Decided
  <2>3. \A w \in Worker : pc'[w] # "tx"
    BY <1>0, <1>1, <1>11 DEF WriteStatus, Done, Goto
  <2>4. LegRiskHalts'
    BY <1>11, <2>1 DEF WriteStatus, QueueSafe, LegRiskHalts, Unresolved, Base, Typed, TypeOK
  <2>5. QED
    BY <2>2, <2>3, <2>4 DEF QueueSafe, Decided, FillsRunning
<1>12. ASSUME NEW a \in Admin, Create(a) PROVE QueueSafe'
  <2>1. lock = Free /\ Free \notin Proc
    BY <1>12, ProcAssumption DEF Create, Enter, MayEnter
  <2>2. \A p \in Admin : pc'[p] # "write"
    BY <1>0, <1>12, <2>1 DEF Create, Goto, QueueSafe, Decided
  <2>3. \A w \in Worker : pc[w] = "idle" /\ pc'[w] = "idle"
    BY <1>0, <1>12, <2>1 DEF Create, Goto, Base, Held
  <2>4. LegRiskHalts'
    BY <1>12 DEF Create, QueueSafe, LegRiskHalts, Unresolved, Base, Typed, TypeOK
  <2>5. QED
    BY <2>2, <2>3, <2>4 DEF QueueSafe, Decided, FillsRunning
<1>13. ASSUME NEW a \in Admin, Reconcile(a) PROVE QueueSafe'
  <2>1. \A s \in Session : Unresolved(s)' \subseteq Unresolved(s)
    BY <1>13 DEF Reconcile, Unresolved, Base, Typed, TypeOK
  <2>2. \A b \in Admin : pc[b] = "write" => sess[b] \in Session
    BY DEF Base, Typed, Placed
  <2>3. UNCHANGED <<status, pc, sess, goal, lock>>
    BY <1>13 DEF Reconcile
  <2>4. QED
    BY <2>1, <2>2, <2>3 DEF QueueSafe, Decided, FillsRunning, LegRiskHalts
<1>14. CASE Elapse
  BY <1>14, QuietQueue DEF Elapse, db
<1>15. ASSUME NEW p \in Proc, Crash(p) PROVE QueueSafe'
  <2>1. \A q \in Proc : pc'[q] = "idle"
    BY <1>15 DEF Crash, Crashed
  <2>2. QED
    BY <1>0, <1>15, <2>1, QuietQueue DEF Crash, db
<1>16. QED
  BY <1>3, <1>4, <1>5, <1>6, <1>7, <1>8, <1>9, <1>10, <1>11, <1>12, <1>13, <1>14, <1>15
     DEF Next, Cycle, Gate, Arrive, Commit, AdminStep

LEMMA AlwaysQueueSafe ==
  ASSUME Engine = "pglite"
  PROVE  Spec => [](Base /\ QueueSafe)
<1>1. Init => Base /\ QueueSafe
  BY TypedInit, HeldInit, QueueInit DEF Base
<1>2. Base /\ QueueSafe /\ [Next]_vars => (Base /\ QueueSafe)'
  BY TypedStep, HeldStep, QueueStep DEF Base
<1>3. QED
  BY <1>1, <1>2, PTL DEF Spec

\* On PGlite a session with unresolved leg exposure is never RUNNING: the one
\* serial queue makes setPaperSessionStatus atomic against the LEG_RISK fill.
THEOREM LegRiskIsHalted == Engine = "pglite" => (Spec => []LegRiskHalts)
<1> SUFFICES ASSUME Engine = "pglite" PROVE Spec => []LegRiskHalts
  OBVIOUS
<1>1. Base /\ QueueSafe => LegRiskHalts
  BY DEF QueueSafe
<1>2. QED
  BY <1>1, AlwaysQueueSafe, PTL

\* On PGlite nothing settles in a session that is not RUNNING: the status the
\* fill's transaction read is still the status when its ledger row lands.
THEOREM SettlesRunning == Engine = "pglite" => (Spec => SettlesOnlyWhileRunning)
<1> SUFFICES ASSUME Engine = "pglite" PROVE Spec => SettlesOnlyWhileRunning
  OBVIOUS
<1>1. ASSUME Base, QueueSafe, [Next]_vars, NEW s \in Session, settled'[s] # settled[s]
      PROVE  status[s] = "RUNNING"
  <2>1. PICK w \in Worker : InsertFill(w)
    BY <1>1 DEF Next, Cycle, Gate, Arrive, Commit, AdminStep, vars, db, Begin, Blind, GateClosed,
                GateOpen, StopElapsed, StopFails, RecheckFails, Recheck, Load, StartFill,
                FillRefused, DuplicateFill, EndFills, BumpCounters, CycleThrows, Request,
                LegRiskConflict, Decide, WriteStatus, Create, InsertBalance, Created,
                Reconcile, Elapse, Crash
  <2>2. sess[w] = s
    BY <1>1, <2>1 DEF InsertFill, Base, Typed, TypeOK, Placed
  <2>3. QED
    BY <1>1, <2>1, <2>2 DEF InsertFill, QueueSafe, FillsRunning
<1>2. Base /\ QueueSafe /\ [Next]_vars =>
        [\A s \in Session : settled'[s] # settled[s] => status[s] = "RUNNING"]_vars
  BY <1>1
<1>3. QED
  BY <1>2, AlwaysQueueSafe, PTL DEF Spec, SettlesOnlyWhileRunning

-----------------------------------------------------------------------------
(* The virtual book.                                                       *)

\* What the fill in flight is about to write on its venues is not negative.
Affordable ==
  \A w \in Worker : pc[w] = "tx" =>
     \A v \in Legs[offer[w][1]], x \in Asset : work[w][v][x] >= 0

Solvent == NonNegativeBook /\ Affordable

LEMMA SolventInit == Init => Solvent
BY DEF Init, Solvent, NonNegativeBook, Affordable, EmptyBook, Proc

\* A step that writes no balance and brings no worker to a transaction.
LEMMA QuietSolvent ==
  ASSUME Solvent, balances' = balances,
         \A w \in Worker : pc'[w] = "tx" =>
            pc[w] = "tx" /\ offer'[w] = offer[w] /\ work'[w] = work[w]
  PROVE  Solvent'
BY DEF Solvent, NonNegativeBook, Affordable

LEMMA SolventStep == Typed /\ Solvent /\ [Next]_vars => Solvent'
<1> SUFFICES ASSUME Typed, Solvent, [Next]_vars PROVE Solvent'
  OBVIOUS
<1>0. /\ pc = [p \in Proc |-> pc[p]]
      /\ offer = [w \in Worker |-> offer[w]] /\ work = [w \in Worker |-> work[w]]
      /\ Worker \subseteq Proc /\ Admin \subseteq Proc
      /\ \A w \in Worker, a \in Admin : w # a
  BY ProcAssumption DEF Typed, TypeOK, Proc
<1>1. CASE UNCHANGED vars
  BY <1>1, QuietSolvent DEF vars, db, mind
<1>2. ASSUME NEW w \in Worker,
             Begin(w) \/ Blind(w) \/ GateClosed(w) \/ GateOpen(w) \/ StopElapsed(w) \/ StopFails(w)
               \/ RecheckFails(w) \/ Recheck(w) \/ Load(w) \/ FillRefused(w)
               \/ DuplicateFill(w) \/ EndFills(w) \/ BumpCounters(w) \/ CycleThrows(w)
      PROVE  Solvent'
  <2>1. balances' = balances
    BY <1>2 DEF Begin, Blind, GateClosed, GateOpen, StopElapsed, StopFails, RecheckFails, Recheck,
                Load, FillRefused, DuplicateFill, EndFills, BumpCounters, CycleThrows, db
  <2>2. /\ pc'[w] # "tx"
        /\ \A u \in Worker \ {w} :
              pc'[u] = pc[u] /\ offer'[u] = offer[u] /\ work'[u] = work[u]
    BY <1>0, <1>2 DEF Begin, Blind, GateClosed, GateOpen, StopElapsed, StopFails, RecheckFails,
                Recheck, Load, FillRefused, DuplicateFill, NextFill, EndFills, BumpCounters,
                CycleThrows, Finish, Goto, mind
  <2>3. QED
    BY <2>1, <2>2, QuietSolvent
<1>3. ASSUME NEW w \in Worker, StartFill(w) PROVE Solvent'
  <2>1. PICK l \in Lifecycle, o \in Outcome :
          /\ Affords(w, o, l)
          /\ work' = [work EXCEPT ![w] = Plus(@, Delta[o][l])]
          /\ offer' = [offer EXCEPT ![w] = <<l, o>>]
    BY <1>3 DEF StartFill
  <2>2. offer'[w][1] = l /\ work'[w] = Plus(work[w], Delta[o][l]) /\ Legs[l] \subseteq Venue
    BY <1>0, <2>1, DeltaAssumption
  <2>3. \A v \in Legs[l], x \in Asset : work'[w][v][x] >= 0
    BY <2>1, <2>2 DEF Affords, Plus
  <2>4. \A u \in Worker \ {w} :
           pc'[u] = pc[u] /\ offer'[u] = offer[u] /\ work'[u] = work[u]
    BY <1>0, <1>3, <2>1 DEF StartFill, Goto
  <2>5. balances' = balances
    BY <1>3 DEF StartFill, db
  <2>6. QED
    BY <2>2, <2>3, <2>4, <2>5 DEF Solvent, NonNegativeBook, Affordable
<1>4. ASSUME NEW w \in Worker, InsertFill(w) PROVE Solvent'
  <2>1. \A u \in Worker : pc'[u] = "tx" => pc[u] = "tx"
    BY <1>0, <1>4 DEF InsertFill, NextFill, Goto
  <2>2. UNCHANGED <<offer, work>>
    BY <1>4 DEF InsertFill
  <2>3. sess[w] \in Session /\ pc[w] = "tx"
    BY <1>4 DEF InsertFill, Typed, Placed
  <2>4. NonNegativeBook'
    <3> SUFFICES ASSUME NEW s \in Session, NEW v \in Venue, NEW x \in Asset
                 PROVE  balances'[s][v][x] >= 0
      BY DEF NonNegativeBook
    <3>1. balances'[s][v] = IF s = sess[w] /\ v \in Legs[offer[w][1]] THEN work[w][v]
                                                                     ELSE balances[s][v]
      BY <1>4, <2>3 DEF InsertFill, Typed, TypeOK
    <3>2. QED
      BY <2>3, <3>1 DEF Solvent, NonNegativeBook, Affordable
  <2>5. QED
    BY <2>1, <2>2, <2>4 DEF Solvent, Affordable
<1>5. ASSUME NEW a \in Admin, AdminStep(a), ~ InsertBalance(a) PROVE Solvent'
  <2>1. UNCHANGED <<balances, offer, work>>
    BY <1>5 DEF AdminStep, Request, LegRiskConflict, Decide, WriteStatus, Create, Created,
                Reconcile, db, mind
  <2>2. \A u \in Worker : pc'[u] = pc[u]
    BY <1>0, <1>5 DEF AdminStep, Request, LegRiskConflict, Decide, WriteStatus, Create,
                      Created, Reconcile, Done, Goto
  <2>3. QED
    BY <2>1, <2>2, QuietSolvent
<1>6. ASSUME NEW a \in Admin, InsertBalance(a) PROVE Solvent'
  <2>1. UNCHANGED <<pc, offer, work>>
    BY <1>6 DEF InsertBalance, mind
  <2>2. PICK v \in Venue : balances' = [balances EXCEPT ![sess[a]][v] = Opening[v]]
    BY <1>6 DEF InsertBalance
  <2>3. NonNegativeBook'
    BY <2>2, OpeningAssumption DEF Solvent, NonNegativeBook, Typed, TypeOK, Book
  <2>4. QED
    BY <2>1, <2>3 DEF Solvent, Affordable
<1>7. CASE Elapse
  BY <1>7, QuietSolvent DEF Elapse, db, mind
<1>8. ASSUME NEW p \in Proc, Crash(p) PROVE Solvent'
  <2>1. balances' = balances
    BY <1>8 DEF Crash, db
  <2>2. \A u \in Worker : pc'[u] = "tx" =>
           pc[u] = "tx" /\ offer'[u] = offer[u] /\ work'[u] = work[u]
    BY <1>0, <1>8 DEF Crash
  <2>3. QED
    BY <2>1, <2>2, QuietSolvent
<1>9. QED
  BY <1>1, <1>2, <1>3, <1>4, <1>5, <1>6, <1>7, <1>8
     DEF Next, Cycle, Gate, Arrive, Commit

\* No venue balance ever goes negative, although a fill overwrites balances
\* with absolute values computed long before: failed reads, crashes, and
\* balance rows inserted while a cycle runs included.
THEOREM BookStaysNonNegative == Spec => []NonNegativeBook
<1>1. Spec => [](Typed /\ Solvent)
  BY TypedInit, TypedStep, SolventInit, SolventStep, PTL DEF Spec
<1>2. Typed /\ Solvent => NonNegativeBook
  BY DEF Solvent
<1>3. QED
  BY <1>1, <1>2, PTL

-----------------------------------------------------------------------------
(* The book against the ledger.                                            *)

\* A cycle whose reads do not fail works on a mirror of its session: it knows
\* every settled lifecycle, and its book is the stored one plus the fill in
\* flight.
MirrorsOf(w) ==
  LET s == sess[w]
      l == offer[w][1]
      o == offer[w][2]
  IN /\ pc[w] \in {"fills", "tx"} => SettledSet(s) \subseteq known[w] /\ loaded[w] \subseteq rows[s]
     /\ pc[w] = "fills" => \A v \in loaded[w], x \in Asset : work[w][v][x] = balances[s][v][x]
     /\ pc[w] = "tx" =>
          /\ settled[s][l] = "none" /\ l \in known[w] /\ Legs[l] \subseteq loaded[w]
          /\ \A v \in loaded[w], x \in Asset :
                work[w][v][x] = balances[s][v][x] + Delta[o][l][v][x]

Mirror == BookMatchesLedger /\ \A w \in Worker : MirrorsOf(w)

LEMMA MirrorInit == Init => Mirror
BY DEF Init, Mirror, MirrorsOf, BookMatchesLedger, Proc

\* A step that leaves book, ledger and the cycles' memory alone.
LEMMA QuietMirror ==
  ASSUME Mirror, UNCHANGED <<rows, balances, posted, settled>>,
         \A w \in Worker : pc'[w] \in {"fills", "tx"} =>
            /\ pc[w] = pc'[w] /\ sess'[w] = sess[w] /\ known'[w] = known[w]
            /\ loaded'[w] = loaded[w] /\ work'[w] = work[w] /\ offer'[w] = offer[w]
  PROVE  Mirror'
<1>1. \A s \in Session : SettledSet(s)' = SettledSet(s)
  BY DEF SettledSet
<1>2. \A w \in Worker : MirrorsOf(w)'
  BY DEF Mirror, MirrorsOf, SettledSet
<1>3. QED
  BY <1>2 DEF Mirror, BookMatchesLedger

LEMMA MirrorStep ==
  ASSUME DbFaults = FALSE
  PROVE  Base /\ Mirror /\ [Next]_vars => Mirror'
<1> SUFFICES ASSUME Base, Mirror, [Next]_vars PROVE Mirror'
  OBVIOUS
<1>0. /\ pc = [p \in Proc |-> pc[p]] /\ sess = [p \in Proc |-> sess[p]]
      /\ known = [w \in Worker |-> known[w]] /\ loaded = [w \in Worker |-> loaded[w]]
      /\ offer = [w \in Worker |-> offer[w]] /\ work = [w \in Worker |-> work[w]]
      /\ Worker \subseteq Proc /\ Admin \subseteq Proc
      /\ \A w \in Worker, a \in Admin : w # a
  BY ProcAssumption DEF Base, Typed, TypeOK, Proc
<1>1. \A w \in Worker, u \in Worker : pc[w] # "idle" /\ pc[u] # "idle" => w = u
  BY DEF Base, Held
<1>2. CASE UNCHANGED vars
  BY <1>2, QuietMirror DEF vars, db, mind
<1>3. ASSUME NEW w \in Worker,
             Begin(w) \/ Blind(w) \/ GateClosed(w) \/ GateOpen(w) \/ StopElapsed(w) \/ StopFails(w)
               \/ RecheckFails(w) \/ Recheck(w) \/ FillRefused(w) \/ EndFills(w)
               \/ BumpCounters(w) \/ CycleThrows(w)
      PROVE  Mirror'
  <2>1. UNCHANGED <<rows, balances, posted, settled>>
    BY <1>3 DEF Begin, Blind, GateClosed, GateOpen, StopElapsed, StopFails, RecheckFails, Recheck,
                FillRefused, EndFills, BumpCounters, CycleThrows, db
  <2>2. /\ pc'[w] \notin {"fills", "tx"}
        /\ \A u \in Worker \ {w} :
              /\ pc[u] = pc'[u] /\ sess'[u] = sess[u] /\ known'[u] = known[u]
              /\ loaded'[u] = loaded[u] /\ work'[u] = work[u] /\ offer'[u] = offer[u]
    BY <1>0, <1>3 DEF Begin, Blind, GateClosed, GateOpen, StopElapsed, StopFails, RecheckFails,
                Recheck, FillRefused, EndFills, BumpCounters, CycleThrows, Finish, Goto, mind
  <2>3. QED
    BY <2>1, <2>2, QuietMirror
<1>4. ASSUME NEW w \in Worker, Load(w) PROVE Mirror'
  <2>1. /\ known'[w] = SettledSet(sess[w]) /\ loaded'[w] = rows[sess[w]]
        /\ work'[w] = balances[sess[w]]
    BY <1>0, <1>4 DEF Load
  <2>2. pc'[w] = "fills" /\ \A u \in Worker \ {w} : pc'[u] = "idle"
    BY <1>0, <1>1, <1>4 DEF Load, Goto
  <2>3. UNCHANGED <<rows, balances, posted, settled, sess>>
    BY <1>4 DEF Load, db
  <2>4. \A u \in Worker : MirrorsOf(u)'
    BY <2>1, <2>2, <2>3 DEF MirrorsOf, SettledSet
  <2>5. QED
    BY <2>3, <2>4 DEF Mirror, BookMatchesLedger
<1>5. ASSUME NEW w \in Worker, StartFill(w) PROVE Mirror'
  <2>1. PICK l \in Lifecycle \ known[w], o \in Outcome :
          /\ Affords(w, o, l)
          /\ known' = [known EXCEPT ![w] = @ \cup {l}]
          /\ work' = [work EXCEPT ![w] = Plus(@, Delta[o][l])]
          /\ offer' = [offer EXCEPT ![w] = <<l, o>>]
    BY <1>5 DEF StartFill
  <2>2. /\ UNCHANGED <<rows, balances, posted, settled, sess, loaded>>
        /\ pc'[w] = "tx" /\ pc[w] = "fills"
        /\ \A u \in Worker \ {w} : pc'[u] = "idle"
    BY <1>0, <1>1, <1>5 DEF StartFill, Goto, db
  <2>3. /\ offer'[w][1] = l /\ offer'[w][2] = o /\ known'[w] = known[w] \cup {l}
        /\ work'[w] = Plus(work[w], Delta[o][l])
    BY <1>0, <2>1
  <2>4. /\ SettledSet(sess[w]) \subseteq known[w] /\ loaded[w] \subseteq rows[sess[w]]
        /\ \A v \in loaded[w], x \in Asset : work[w][v][x] = balances[sess[w]][v][x]
    BY <2>2 DEF Mirror, MirrorsOf
  <2>5. settled[sess[w]][l] = "none"
    BY <2>1, <2>4 DEF SettledSet
  <2>6. loaded[w] \subseteq Venue /\ Legs[l] \subseteq loaded[w]
    BY <2>1 DEF Base, Typed, TypeOK, Affords
  <2>7. \A v \in loaded[w], x \in Asset :
           work'[w][v][x] = balances[sess[w]][v][x] + Delta[o][l][v][x]
    BY <2>3, <2>4, <2>6 DEF Plus
  <2>8. MirrorsOf(w)'
    BY <2>2, <2>3, <2>4, <2>5, <2>6, <2>7 DEF MirrorsOf, SettledSet
  <2>9. \A u \in Worker \ {w} : MirrorsOf(u)'
    BY <2>2 DEF MirrorsOf
  <2>10. QED
    BY <2>2, <2>8, <2>9 DEF Mirror, BookMatchesLedger
<1>6. ASSUME NEW w \in Worker, InsertFill(w) PROVE Mirror'
  <2> DEFINE s == sess[w]
             l == offer[w][1]
             o == offer[w][2]
  <2>1. /\ pc[w] = "tx" /\ settled' = [settled EXCEPT ![s][l] = o]
        /\ posted' = [posted EXCEPT ![s] = Plus(@, Delta[o][l])]
        /\ balances' = [balances EXCEPT ![s] =
             [v \in Venue |-> IF v \in Legs[l] THEN work[w][v] ELSE balances[s][v]]]
        /\ UNCHANGED <<rows, sess, known, loaded, work, offer>>
    BY <1>6 DEF InsertFill
  <2>2. s \in Session /\ l \in Lifecycle /\ o \in Outcome
    BY <2>1 DEF Base, Typed, Placed
  <2>3. /\ SettledSet(s) \subseteq known[w] /\ loaded[w] \subseteq rows[s] /\ rows[s] \subseteq Venue
        /\ l \in known[w] /\ Legs[l] \subseteq loaded[w]
        /\ \A v \in loaded[w], x \in Asset :
              work[w][v][x] = balances[s][v][x] + Delta[o][l][v][x]
    BY <2>1, <2>2 DEF Mirror, MirrorsOf, Base, Typed, TypeOK
  <2>4. pc'[w] \in {"fills", "bump"} /\ \A u \in Worker \ {w} : pc'[u] = "idle"
    BY <1>0, <1>1, <1>6, <2>1 DEF InsertFill, NextFill, Goto
  <2>5. \A v \in Venue \ Legs[l], x \in Asset : Delta[o][l][v][x] = 0
    BY <2>2, DeltaAssumption
  <2>6. work[w] \in Book /\ balances[s] \in Book /\ posted[s] \in Book /\ Delta[o][l] \in Book
    BY <2>2, DeltaAssumption DEF Base, Typed, TypeOK
  <2>7. \A v \in Venue : balances'[s][v] = IF v \in Legs[l] THEN work[w][v] ELSE balances[s][v]
    BY <2>1, <2>2 DEF Base, Typed, TypeOK
  <2>8. \A v \in Venue, x \in Asset :
           posted'[s][v][x] = posted[s][v][x] + Delta[o][l][v][x]
    BY <2>1, <2>2 DEF Base, Typed, TypeOK, Plus
  <2>9. \A v \in loaded[w], x \in Asset : balances'[s][v][x] = work[w][v][x]
    <3>1. loaded[w] \subseteq Venue
      BY <2>3
    <3>2. \A v \in loaded[w] \ Legs[l], x \in Asset : balances[s][v][x] \in Int
      BY <2>6, <3>1 DEF Book, Purse
    <3>3. QED
      BY <2>3, <2>5, <2>7, <3>1, <3>2
  <2>10. \A k \in Lifecycle : settled'[s][k] # "none" => k \in known[w]
    BY <2>1, <2>2, <2>3 DEF SettledSet, Base, Typed, TypeOK
  <2>11. \A u \in Worker : MirrorsOf(u)'
    <3>1. sess'[w] = sess[w] /\ known'[w] = known[w] /\ loaded'[w] = loaded[w]
          /\ work'[w] = work[w] /\ rows' = rows
      BY <2>1
    <3>2. loaded[w] \subseteq rows[sess[w]] /\ pc'[w] # "tx"
      BY <2>3, <2>4
    <3>3. \A v \in loaded[w], x \in Asset : work[w][v][x] = balances'[sess[w]][v][x]
      BY <2>9
    <3>4. \A k \in Lifecycle : settled'[sess[w]][k] # "none" => k \in known[w]
      BY <2>10
    <3>5. MirrorsOf(w)'
      BY <3>1, <3>2, <3>3, <3>4 DEF MirrorsOf, SettledSet
    <3>6. ASSUME NEW u \in Worker \ {w} PROVE MirrorsOf(u)'
      BY <2>4 DEF MirrorsOf
    <3>7. QED
      BY <3>5, <3>6
  <2>12. \A v \in rows[s] : balances'[s][v] = posted'[s][v]
    <3> SUFFICES ASSUME NEW v \in rows[s] PROVE balances'[s][v] = posted'[s][v]
      OBVIOUS
    <3>1. balances[s][v] = posted[s][v] /\ v \in Venue
      BY <2>2, <2>3 DEF Mirror, BookMatchesLedger
    <3>2. balances'[s][v] \in Purse /\ posted'[s][v] \in Purse
      BY <2>2, <2>6, <2>7, <3>1, TypedStep DEF Base, Typed, TypeOK, Book
    <3>3. \A x \in Asset : balances'[s][v][x] = posted'[s][v][x]
      <4>1. CASE v \in Legs[l]
        BY <2>3, <2>7, <2>8, <3>1, <4>1
      <4>2. CASE v \notin Legs[l]
        <5>1. \A x \in Asset : posted[s][v][x] \in Int
          BY <2>6, <3>1 DEF Book, Purse
        <5>2. QED
          BY <2>5, <2>7, <2>8, <3>1, <4>2, <5>1
      <4>3. QED
        BY <4>1, <4>2
    <3>4. QED
      BY <3>2, <3>3 DEF Purse
  <2>13. \A t \in Session \ {s} : balances'[t] = balances[t] /\ posted'[t] = posted[t]
    BY <2>1, <2>2 DEF Base, Typed, TypeOK
  <2>14. BookMatchesLedger'
    <3>1. ASSUME NEW t \in Session, NEW v \in rows'[t]
          PROVE  balances'[t][v] = posted'[t][v]
      <4>1. rows' = rows
        BY <2>1
      <4>2. CASE t = s
        BY <2>12, <4>1, <4>2
      <4>3. CASE t # s
        BY <2>13, <4>1, <4>3 DEF Mirror, BookMatchesLedger
      <4>4. QED
        BY <4>2, <4>3
    <3>2. QED
      BY <3>1 DEF BookMatchesLedger
  <2>15. QED
    BY <2>11, <2>14 DEF Mirror
<1>7. ASSUME NEW w \in Worker, DuplicateFill(w) PROVE Mirror'
  BY <1>7 DEF DuplicateFill, Mirror, MirrorsOf
<1>8. ASSUME NEW a \in Admin, AdminStep(a), ~ InsertBalance(a) PROVE Mirror'
  <2>1. UNCHANGED <<rows, balances, posted, settled, known, loaded, work, offer>>
    BY <1>8 DEF AdminStep, Request, LegRiskConflict, Decide, WriteStatus, Create, Created,
                Reconcile, db, mind
  <2>2. \A u \in Worker : pc'[u] = pc[u] /\ sess'[u] = sess[u]
    BY <1>0, <1>8 DEF AdminStep, Request, LegRiskConflict, Decide, WriteStatus, Create,
                      Created, Reconcile, Done, Goto
  <2>3. QED
    BY <2>1, <2>2, QuietMirror
<1>9. ASSUME NEW a \in Admin, InsertBalance(a) PROVE Mirror'
  <2>1. PICK v \in Venue \ rows[sess[a]] :
          /\ rows' = [rows EXCEPT ![sess[a]] = @ \cup {v}]
          /\ balances' = [balances EXCEPT ![sess[a]][v] = Opening[v]]
          /\ posted' = [posted EXCEPT ![sess[a]][v] = Opening[v]]
    BY <1>9 DEF InsertBalance
  <2>2. UNCHANGED <<settled, pc, sess, known, loaded, work, offer>>
    BY <1>9 DEF InsertBalance, mind
  <2>3. \A s \in Session :
           /\ rows[s] \subseteq rows'[s]
           /\ \A u \in rows[s] : balances'[s][u] = balances[s][u]
    BY <2>1 DEF Base, Typed, TypeOK, Book
  <2>4. \A w \in Worker : pc[w] \in {"fills", "tx"} => sess[w] \in Session
    BY DEF Base, Typed, Placed
  <2>5. \A w \in Worker : MirrorsOf(w)'
    BY <2>2, <2>3, <2>4 DEF Mirror, MirrorsOf, SettledSet
  <2>6. BookMatchesLedger'
    BY <2>1, OpeningAssumption DEF Mirror, BookMatchesLedger, Base, Typed, TypeOK, Book
  <2>7. QED
    BY <2>5, <2>6 DEF Mirror
<1>10. CASE Elapse
  BY <1>10, QuietMirror DEF Elapse, db, mind
<1>11. ASSUME NEW p \in Proc, Crash(p) PROVE Mirror'
  <2>1. UNCHANGED <<rows, balances, posted, settled>>
    BY <1>11 DEF Crash, db
  <2>2. \A u \in Worker : pc'[u] # "idle" =>
           /\ pc[u] = pc'[u] /\ sess'[u] = sess[u] /\ known'[u] = known[u]
           /\ loaded'[u] = loaded[u] /\ work'[u] = work[u] /\ offer'[u] = offer[u]
    BY <1>0, <1>11 DEF Crash
  <2>3. QED
    BY <2>1, <2>2, QuietMirror
<1>12. QED
  BY <1>2, <1>3, <1>4, <1>5, <1>6, <1>7, <1>8, <1>9, <1>10, <1>11
     DEF Next, Cycle, Gate, Arrive, Commit

\* When no read of a cycle fails, every balance row always equals its opening
\* plus the settled ledger rows: crashes between fills, refused fills,
\* concurrent admins and collectors, and balance rows that appear while a
\* cycle runs never make the absolute balances of a fill lose another one.
THEOREM BookFollowsLedger == DbFaults = FALSE => (Spec => []BookMatchesLedger)
<1> SUFFICES ASSUME DbFaults = FALSE PROVE Spec => []BookMatchesLedger
  OBVIOUS
<1>1. Init => Base /\ Mirror
  BY TypedInit, HeldInit, MirrorInit DEF Base
<1>2. Base /\ Mirror /\ [Next]_vars => (Base /\ Mirror)'
  BY TypedStep, HeldStep, MirrorStep DEF Base
<1>3. Mirror => BookMatchesLedger
  BY DEF Mirror
<1>4. QED
  BY <1>1, <1>2, <1>3, PTL DEF Spec

-----------------------------------------------------------------------------
(* The counters.                                                           *)

\* The cycle that will bump the counter has settled what it counted, and no
\* other cycle has: what is on the counter and what is on its way to it are
\* fills of the ledger.
Fills(ledger) == {l \in Lifecycle : ledger[l] = "FILLED"}
Counting == {"fills", "tx", "bump"}

Counted ==
  /\ \A s \in Session :
       IsFiniteSet(Fills(settled[s])) /\ trades[s] <= Cardinality(Fills(settled[s]))
  /\ \A w \in Worker :
       IF pc[w] \in Counting
       THEN trades[sess[w]] + filled[w] <= Cardinality(Fills(settled[sess[w]]))
       ELSE filled[w] = 0

LEMMA CountedInit == Init => Counted
<1> SUFFICES ASSUME Init PROVE Counted
  OBVIOUS
<1>1. \A s \in Session : Fills(settled[s]) = {} /\ trades[s] = 0
  BY DEF Init, Fills
<1>2. \A w \in Worker : pc[w] \notin Counting /\ filled[w] = 0
  BY DEF Init, Proc, Counting
<1>3. QED
  BY <1>1, <1>2, FS_EmptySet DEF Counted

\* A step that touches neither ledger nor counter, and brings no process to
\* a place where fills are counted.
LEMMA QuietCounted ==
  ASSUME Counted, UNCHANGED <<settled, trades>>,
         \A w \in Worker :
            \/ pc'[w] \notin Counting /\ filled'[w] = 0
            \/ pc[w] \in Counting /\ sess'[w] = sess[w] /\ filled'[w] = filled[w]
                 /\ pc'[w] \in Counting
  PROVE  Counted'
<1>1. \A s \in Session : Fills(settled'[s]) = Fills(settled[s])
  BY DEF Fills
<1>2. QED
  BY <1>1 DEF Counted

LEMMA CountedStep == Base /\ Counted /\ [Next]_vars => Counted'
<1> SUFFICES ASSUME Base, Counted, [Next]_vars PROVE Counted'
  OBVIOUS
<1>0. /\ pc = [p \in Proc |-> pc[p]] /\ sess = [p \in Proc |-> sess[p]]
      /\ filled = [w \in Worker |-> filled[w]]
      /\ Worker \subseteq Proc /\ Admin \subseteq Proc
      /\ \A w \in Worker, a \in Admin : w # a
  BY ProcAssumption DEF Base, Typed, TypeOK, Proc
<1>1. \A w \in Worker, u \in Worker : pc[w] # "idle" /\ pc[u] # "idle" => w = u
  BY DEF Base, Held
<1>2. \A w \in Worker : pc[w] \in Counting \/ filled[w] = 0
  BY DEF Counted
<1>3. CASE UNCHANGED vars
  BY <1>2, <1>3, QuietCounted DEF vars, db, mind
<1>4. ASSUME NEW w \in Worker,
             Begin(w) \/ Blind(w) \/ GateClosed(w) \/ GateOpen(w) \/ StopElapsed(w) \/ StopFails(w)
               \/ RecheckFails(w) \/ Recheck(w) \/ FillRefused(w) \/ CycleThrows(w)
      PROVE  Counted'
  <2>1. UNCHANGED <<settled, trades>>
    BY <1>4 DEF Begin, Blind, GateClosed, GateOpen, StopElapsed, StopFails, RecheckFails, Recheck,
                FillRefused, CycleThrows, db
  <2>2. /\ pc'[w] \notin Counting /\ filled'[w] = 0
        /\ \A u \in Worker \ {w} :
              pc'[u] = pc[u] /\ sess'[u] = sess[u] /\ filled'[u] = filled[u]
    BY <1>0, <1>2, <1>4 DEF Begin, Blind, GateClosed, GateOpen, StopElapsed, StopFails,
                RecheckFails, Recheck, FillRefused, CycleThrows, Finish, Goto, mind, Counting
  <2>3. QED
    BY <1>2, <2>1, <2>2, QuietCounted
<1>5. ASSUME NEW w \in Worker, Load(w) PROVE Counted'
  <2>1. \A s \in Session : Fills(settled'[s]) = Fills(settled[s])
    BY <1>5 DEF Load, db, Fills
  <2>2. UNCHANGED <<trades, sess, filled>> /\ filled[w] = 0
    BY <1>2, <1>5 DEF Load, db, Counting
  <2>3. sess[w] \in Session /\ trades[sess[w]] \in Nat
    BY <1>5 DEF Load, Base, Typed, TypeOK, Placed
  <2>4. pc'[w] \in Counting /\ \A u \in Worker \ {w} : pc'[u] = pc[u] /\ pc[u] = "idle"
    BY <1>0, <1>1, <1>5 DEF Load, Goto, Counting
  <2>5. QED
    BY <1>2, <2>1, <2>2, <2>3, <2>4 DEF Counted, Counting
<1>6. ASSUME NEW w \in Worker, StartFill(w) \/ DuplicateFill(w) \/ EndFills(w)
      PROVE  Counted'
  <2>1. UNCHANGED <<settled, trades, sess, filled>>
    BY <1>6 DEF StartFill, DuplicateFill, EndFills, db, mind
  <2>2. pc[w] \in Counting /\ pc'[w] \in Counting /\ \A u \in Worker \ {w} : pc'[u] = pc[u]
    BY <1>0, <1>6 DEF StartFill, DuplicateFill, EndFills, NextFill, Goto, Counting
  <2>3. QED
    BY <1>2, <2>1, <2>2, QuietCounted
<1>7. ASSUME NEW w \in Worker, InsertFill(w) PROVE Counted'
  <2> DEFINE s == sess[w]
             l == offer[w][1]
             o == offer[w][2]
  <2>1. /\ pc[w] = "tx" /\ settled[s][l] = "none"
        /\ settled' = [settled EXCEPT ![s][l] = o]
        /\ filled' = [filled EXCEPT ![w] = @ + (IF o = "FILLED" THEN 1 ELSE 0)]
        /\ UNCHANGED <<trades, sess>>
    BY <1>7 DEF InsertFill
  <2>2. s \in Session /\ l \in Lifecycle /\ o \in Outcome
    BY <2>1 DEF Base, Typed, Placed
  <2>3. pc'[w] \in Counting /\ \A u \in Worker \ {w} : pc'[u] = "idle" /\ pc[u] = "idle"
    BY <1>0, <1>1, <1>7, <2>1 DEF InsertFill, NextFill, Goto, Counting
  <2>4. filled'[w] = filled[w] + (IF o = "FILLED" THEN 1 ELSE 0)
        /\ \A u \in Worker \ {w} : filled'[u] = 0
    <3>1. \A u \in Worker \ {w} : filled[u] = 0
      BY <1>2, <2>3 DEF Counting
    <3>2. QED
      BY <1>0, <2>1, <3>1
  <2>5. \A t \in Session : t # s => Fills(settled'[t]) = Fills(settled[t])
    BY <2>1, <2>2 DEF Fills, Base, Typed, TypeOK
  <2>6. Fills(settled'[s]) = IF o = "FILLED" THEN Fills(settled[s]) \cup {l} ELSE Fills(settled[s])
    <3>1. \A k \in Lifecycle : settled'[s][k] = IF k = l THEN o ELSE settled[s][k]
      BY <2>1, <2>2 DEF Base, Typed, TypeOK
    <3>2. QED
      BY <2>1, <2>2, <3>1 DEF Fills
  <2>7. IsFiniteSet(Fills(settled[s])) /\ l \notin Fills(settled[s])
    BY <2>1, <2>2 DEF Counted, Fills
  <2>8. /\ IsFiniteSet(Fills(settled'[s]))
        /\ Cardinality(Fills(settled'[s])) =
             Cardinality(Fills(settled[s])) + (IF o = "FILLED" THEN 1 ELSE 0)
        /\ Cardinality(Fills(settled[s])) \in Nat
    <3>1. Cardinality(Fills(settled[s])) \in Nat
      BY <2>7, FS_CardinalityType
    <3>2. CASE o = "FILLED"
      <4>1. Fills(settled'[s]) = Fills(settled[s]) \cup {l}
        BY <2>6, <3>2
      <4>2. /\ IsFiniteSet(Fills(settled[s]) \cup {l})
            /\ Cardinality(Fills(settled[s]) \cup {l}) = Cardinality(Fills(settled[s])) + 1
        BY <2>7, FS_AddElement
      <4>3. QED
        BY <3>1, <3>2, <4>1, <4>2
    <3>3. CASE o # "FILLED"
      BY <2>6, <2>7, <3>1, <3>3
    <3>4. QED
      BY <3>2, <3>3
  <2>9. trades[s] \in Nat /\ filled[w] \in Nat
    BY <2>2 DEF Base, Typed, TypeOK
  <2>10. trades[s] + filled[w] <= Cardinality(Fills(settled[s]))
    BY <2>1 DEF Counted, Counting
  <2> HIDE DEF s, l, o
  <2>11. /\ trades[s] <= Cardinality(Fills(settled'[s]))
         /\ trades[s] + filled'[w] <= Cardinality(Fills(settled'[s]))
    BY <2>4, <2>8, <2>9, <2>10
  <2>12. \A t \in Session :
            IsFiniteSet(Fills(settled'[t])) /\ trades'[t] <= Cardinality(Fills(settled'[t]))
    BY <2>1, <2>5, <2>8, <2>11 DEF Counted
  <2>13. trades'[sess'[w]] + filled'[w] <= Cardinality(Fills(settled'[sess'[w]]))
    BY <2>1, <2>11 DEF s
  <2>14. \A u \in Worker \ {w} : pc'[u] \notin Counting /\ filled'[u] = 0
    BY <2>3, <2>4 DEF Counting
  <2>15. QED
    BY <2>3, <2>12, <2>13, <2>14 DEF Counted, Fills
<1>8. ASSUME NEW w \in Worker, BumpCounters(w) PROVE Counted'
  <2>1. \A s \in Session : Fills(settled'[s]) = Fills(settled[s])
    BY <1>8 DEF BumpCounters, Fills
  <2>2. pc[w] = "bump" /\ sess[w] \in Session
    BY <1>8 DEF BumpCounters, Base, Typed, Placed
  <2>3. \A s \in Session : trades'[s] = IF s = sess[w] THEN trades[s] + filled[w] ELSE trades[s]
    BY <1>8 DEF BumpCounters, Base, Typed, TypeOK
  <2>4. \A s \in Session : IsFiniteSet(Fills(settled[s])) /\ trades'[s] <= Cardinality(Fills(settled[s]))
    BY <2>2, <2>3 DEF Counted, Counting
  <2>5. \A u \in Worker : pc'[u] = "idle" /\ filled'[u] = 0
    BY <1>0, <1>1, <1>2, <1>8, <2>2 DEF BumpCounters, Finish, Goto, Counting
  <2>6. QED
    BY <2>1, <2>4, <2>5 DEF Counted, Counting
<1>9. ASSUME NEW a \in Admin, AdminStep(a) PROVE Counted'
  <2>1. UNCHANGED <<settled, trades, filled>>
    BY <1>9 DEF AdminStep, Request, LegRiskConflict, Decide, WriteStatus, Create,
                InsertBalance, Created, Reconcile, db, mind
  <2>2. \A u \in Worker : pc'[u] = pc[u] /\ sess'[u] = sess[u]
    BY <1>0, <1>9 DEF AdminStep, Request, LegRiskConflict, Decide, WriteStatus, Create,
                      InsertBalance, Created, Reconcile, Done, Goto
  <2>3. QED
    BY <1>2, <2>1, <2>2, QuietCounted
<1>10. CASE Elapse
  BY <1>2, <1>10, QuietCounted DEF Elapse, db, mind
<1>11. ASSUME NEW p \in Proc, Crash(p) PROVE Counted'
  <2>1. UNCHANGED <<settled, trades>>
    BY <1>11 DEF Crash, db
  <2>2. \A u \in Worker :
           \/ pc'[u] = "idle" /\ filled'[u] = 0
           \/ pc'[u] = pc[u] /\ sess'[u] = sess[u] /\ filled'[u] = filled[u]
    BY <1>0, <1>11 DEF Crash
  <2>3. QED
    BY <1>2, <2>1, <2>2, QuietCounted DEF Counting
<1>12. QED
  BY <1>3, <1>4, <1>5, <1>6, <1>7, <1>8, <1>9, <1>10, <1>11
     DEF Next, Cycle, Gate, Arrive, Commit

\* A session's tradesExecuted never runs ahead of the FILLED rows of its
\* ledger, for any number of collectors and lifecycles: not when a duplicate
\* is refused, a cycle throws, or a crash loses what a cycle had counted.
THEOREM CountersTrailLedger == Spec => []CountersNeverOvercount
<1>1. Spec => [](Base /\ Counted)
  <2>1. Init => Base /\ Counted
    BY TypedInit, HeldInit, CountedInit DEF Base
  <2>2. Base /\ Counted /\ [Next]_vars => (Base /\ Counted)'
    BY TypedStep, HeldStep, CountedStep DEF Base
  <2>3. QED
    BY <2>1, <2>2, PTL DEF Spec
<1>2. Counted => CountersNeverOvercount
  BY DEF Counted, CountersNeverOvercount, Fills
<1>3. QED
  BY <1>1, <1>2, PTL
=============================================================================
