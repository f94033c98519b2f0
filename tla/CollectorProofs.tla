--------------------------- MODULE CollectorProofs ---------------------------
(***************************************************************************)
(* Theorems about Collector, for every number of workers, viewers, admins, *)
(* routes, runs, sessions and crashes, and for both databases.             *)
(***************************************************************************)
EXTENDS Collector, FiniteSetTheorems, TLAPS

InCycle == {"ensure", "insert", "run", "load", "read", "commit", "rest", "away"}
Recording == {"load", "read", "commit"}

\* A process in its cycle holds the lock, and past beginCollectionRun it has a
\* session and a run of that session which nobody else finishes.
Placed ==
  \A p \in Cycler :
    /\ pc[p] \in InCycle => lock = p
    /\ pc[p] \in Recording \cup {"run"} => mem[p].sess \in Session
    /\ pc[p] \in Recording =>
         /\ mem[p].run \in Run
         /\ run[mem[p].run] = [sess |-> mem[p].sess, status |-> "running"]

\* The newest session's number, as latestSessionRow finds it, is in range.
LEMMA LatestInRange == Latest \in 0 .. MaxSessions
<1>1. IsFiniteSet(Session) /\ Cardinality(Session) = MaxSessions
  BY FS_Interval, CollectorBounds DEF Session
<1>2. Sessions \subseteq Session
  BY DEF Sessions
<1>3. Cardinality(Sessions) \in Nat /\ Cardinality(Sessions) <= MaxSessions
  BY <1>1, <1>2, FS_Subset, FS_CardinalityType
<1> QED
  BY <1>3, CollectorBounds DEF Latest

\* Types hold initially.
LEMMA InitTypes == Init => TypeOK
  BY CollectorBounds DEF Init, TypeOK, Blank, NoAsk, Row, Cycler, Proc, lease, book

\* The lease's operations keep the types.
LEMMA LeaseTypes ==
  ASSUME TypeOK, NEW w \in Worker, LeaseStep(w) PROVE TypeOK'
<1> USE CollectorBounds DEF TypeOK, Cycler, Proc, lease, book, Enter, Leave, Goto
<1>1. CASE Boot(w)
  BY <1>1 DEF Boot
<1>2. CASE ClaimRead(w)
  BY <1>2 DEF ClaimRead
<1>3. CASE ClaimWrite(w)
  BY <1>3 DEF ClaimWrite
<1>4. CASE Stop(w)
  BY <1>4 DEF Stop, Beat
<1>5. CASE Release(w)
  BY <1>5 DEF Release
<1> QED
  BY <1>1, <1>2, <1>3, <1>4, <1>5 DEF LeaseStep

\* Ending a cycle keeps the types of lock, program counter and memory.
LEMMA FinishTypes ==
  ASSUME TypeOK, NEW p \in Cycler, Finish(p)
  PROVE /\ mem' \in [Cycler -> [sess : 0 .. MaxSessions, run : 0 .. MaxRuns,
                                prev : SUBSET Lifecycle, seen : Row]]
        /\ lock' \in Proc \cup {Free}
        /\ pc' \in [Proc -> {"off", "claim", "claimWrite", "loop", "stopping", "idle",
                             "ensure", "insert", "run", "load", "read", "commit",
                             "rest", "away", "write"}]
<1>1. Blank \in [sess : 0 .. MaxSessions, run : 0 .. MaxRuns,
                 prev : SUBSET Lifecycle, seen : Row]
  BY CollectorBounds DEF Blank, Row
<1> QED
  BY <1>1 DEF Finish, TypeOK, Leave, Goto, Home, Proc

\* Counting one more cycle keeps the status and the types of a session row.
LEMMA CountedType ==
  ASSUME NEW row \in Row, NEW result \in Result
  PROVE  /\ Counted(row, result) \in Row
         /\ Counted(row, result).status = row.status
         /\ Counted(row, result).ok = row.ok + (IF result = "success" THEN 1 ELSE 0)
         /\ Counted(row, result).bad = row.bad + (IF result = "success" THEN 0 ELSE 1)
<1> DEFINE ok == row.ok + (IF result = "success" THEN 1 ELSE 0)
           bad == row.bad + (IF result = "success" THEN 0 ELSE 1)
<1>1. ok \in Nat /\ bad \in Nat
  BY DEF Row
<1>2. Counted(row, result) = [row EXCEPT !.ok = ok, !.bad = bad]
  BY DEF Counted
<1> HIDE DEF ok, bad
<1>3. /\ [row EXCEPT !.ok = ok, !.bad = bad] \in Row
      /\ [row EXCEPT !.ok = ok, !.bad = bad].status = row.status
      /\ [row EXCEPT !.ok = ok, !.bad = bad].ok = ok
      /\ [row EXCEPT !.ok = ok, !.bad = bad].bad = bad
  BY <1>1 DEF Row
<1> QED
  BY <1>2, <1>3 DEF ok, bad

\* What the transaction writes is well typed.
LEMMA WriteTypes ==
  ASSUME TypeOK, NEW p \in Cycler, pc[p] = "commit", mem[p].run \in Run,
         NEW result \in Result, WriteCycle(p, result)
  PROVE obs' \in [Session -> Row] /\ active' \subseteq Lifecycle /\ ended' \subseteq Lifecycle
<1> DEFINE row == Counted(mem[p].seen, result)
<1>1. row \in Row
  <2>1. mem[p].seen \in Row
    BY DEF TypeOK
  <2> QED
    BY <2>1, CountedType
<1>2. StatusAfter(mem[p].sess, row) \in {"NONE", "RUNNING", "DEGRADED", "PAUSED", "COMPLETED"}
  BY <1>1 DEF StatusAfter, Row
<1>3. [row EXCEPT !.status = StatusAfter(mem[p].sess, row)] \in Row
  BY <1>1, <1>2 DEF Row
<1>4. obs' \in [Session -> Row]
  BY <1>3 DEF WriteCycle, TypeOK
<1>5. PICK draft \in SUBSET Route :
        /\ active' = (active \cup mem[p].prev \cup Opened(mem[p], draft)) \ Closed(mem[p], draft)
        /\ ended' = ended \cup Closed(mem[p], draft)
  BY DEF WriteCycle
<1>6. Closed(mem[p], draft) \subseteq Lifecycle /\ mem[p].prev \subseteq Lifecycle
  BY DEF Closed, TypeOK
<1>7. Opened(mem[p], draft) \subseteq Lifecycle
  BY DEF Opened, Lifecycle
<1> QED
  BY <1>4, <1>5, <1>6, <1>7 DEF TypeOK

\* A heartbeat keeps the types of the lease.
LEMMA BeatTypes ==
  ASSUME TypeOK, NEW p \in Cycler, NEW extend \in BOOLEAN, Beat(p, extend)
  PROVE  owner' \in Worker \cup Gone \cup {"nobody"} /\ left' \in 0 .. LeaseLen
  BY CollectorBounds DEF Beat, TypeOK

\* Each step of a cycle keeps the types.
LEMMA CycleTypes ==
  ASSUME TypeOK, Placed, NEW p \in Cycler, Begin(p) \/ CycleStep(p) PROVE TypeOK'
<1> USE CollectorBounds DEF Cycler, Proc, lease, book
<1>1. CASE Begin(p)
  BY <1>1 DEF Begin, TypeOK, Goto
<1>2. CASE EnsureRead(p)
  BY <1>2, LatestInRange DEF EnsureRead, TypeOK, Goto
<1>3. CASE EnsureInsert(p)
  <2>1. Latest + 1 \in Session
    BY <1>3, LatestInRange DEF EnsureInsert, Session
  <2>2. obs' \in [Session -> Row]
    BY <1>3, <2>1 DEF EnsureInsert, NewSession, TypeOK, Row
  <2>3. mem' \in [Cycler -> [sess : 0 .. MaxSessions, run : 0 .. MaxRuns,
                             prev : SUBSET Lifecycle, seen : Row]]
    <3>1. Latest + 1 \in 0 .. MaxSessions /\ mem' = [mem EXCEPT ![p].sess = Latest + 1]
      BY <1>3, <2>1 DEF EnsureInsert, Session
    <3> HIDE DEF Cycler
    <3> QED
      BY <3>1 DEF TypeOK
  <2> QED
    BY <1>3, <2>2, <2>3 DEF EnsureInsert, TypeOK, Goto
<1>4. CASE BeginRun(p)
  <2>1. owner' \in Worker \cup Gone \cup {"nobody"} /\ left' \in 0 .. LeaseLen
    BY <1>4, BeatTypes DEF BeginRun
  <2>2. PICK forced \in BOOLEAN :
          IF ~ forced /\ taken # 0
          THEN Goto(p, "away") /\ UNCHANGED <<run, taken, mem>>
          ELSE \E r \in Unused :
               /\ \A q \in Unused : r <= q
               /\ run' = [run EXCEPT ![r] = [sess |-> mem[p].sess, status |-> "running"]]
               /\ taken' = IF forced THEN taken ELSE r
               /\ mem' = [mem EXCEPT ![p].run = r]
               /\ Goto(p, "load")
    BY <1>4 DEF BeginRun
  <2>3. CASE UNCHANGED <<run, taken, mem>> /\ Goto(p, "away")
    BY <1>4, <2>1, <2>3 DEF BeginRun, TypeOK, Goto
  <2>4. ASSUME NEW r \in Unused,
               run' = [run EXCEPT ![r] = [sess |-> mem[p].sess, status |-> "running"]],
               taken' = IF forced THEN taken ELSE r,
               mem' = [mem EXCEPT ![p].run = r],
               Goto(p, "load")
        PROVE  TypeOK'
    <3>1. r \in Run /\ r \in 0 .. MaxRuns
      BY DEF Unused, Run
    <3>2. mem' \in [Cycler -> [sess : 0 .. MaxSessions, run : 0 .. MaxRuns,
                               prev : SUBSET Lifecycle, seen : Row]]
      BY <2>4, <3>1 DEF TypeOK
    <3>3. /\ run' \in [Run -> [sess : 0 .. MaxSessions,
                               status : Result \cup {"none", "running", "aborted"}]]
          /\ taken' \in 0 .. MaxRuns
      BY <2>4, <3>1 DEF TypeOK
    <3>4. pc' \in [Proc -> {"off", "claim", "claimWrite", "loop", "stopping", "idle",
                           "ensure", "insert", "run", "load", "read", "commit",
                           "rest", "away", "write"}]
      BY <2>4 DEF TypeOK, Goto
    <3> QED
      BY <1>4, <2>1, <3>2, <3>3, <3>4 DEF BeginRun, TypeOK
  <2> QED
    BY <2>2, <2>3, <2>4
<1>5. CASE Load(p)
  BY <1>5 DEF Load, TypeOK, Goto
<1>6. CASE TxRead(p)
  <2>1. mem[p].sess \in Session
    BY <1>6 DEF TxRead, Placed, Recording
  <2>2. obs[mem[p].sess] \in Row
    BY <2>1 DEF TypeOK
  <2> QED
    BY <1>6, <2>2 DEF TxRead, TypeOK, Goto
<1>7. CASE Commit(p)
  <2>1. PICK result \in Result : WriteCycle(p, result) /\ MarkRun(p, result)
    BY <1>7 DEF Commit
  <2>2. mem[p].run \in Run /\ pc[p] = "commit"
    BY <1>7 DEF Commit, Placed, Recording
  <2>3. obs' \in [Session -> Row] /\ active' \subseteq Lifecycle /\ ended' \subseteq Lifecycle
    BY <2>1, <2>2, WriteTypes
  <2>4. Blank \in [sess : 0 .. MaxSessions, run : 0 .. MaxRuns,
                   prev : SUBSET Lifecycle, seen : Row]
    BY DEF Blank, Row
  <2> QED
    BY <1>7, <2>1, <2>2, <2>3, <2>4 DEF Commit, MarkRun, TypeOK, Goto
<1>8. CASE CommitUnheard(p)
  <2>1. PICK result \in Result : WriteCycle(p, result) /\ MarkRun(p, result)
    BY <1>8 DEF CommitUnheard
  <2>2. mem[p].run \in Run /\ pc[p] = "commit" /\ Finish(p)
    BY <1>8 DEF CommitUnheard, Placed, Recording
  <2>3. obs' \in [Session -> Row] /\ active' \subseteq Lifecycle /\ ended' \subseteq Lifecycle
    BY <2>1, <2>2, WriteTypes
  <2> QED
    BY <1>8, <2>1, <2>2, <2>3, FinishTypes DEF CommitUnheard, MarkRun, TypeOK
<1>9. CASE Rollback(p)
  <2>1. run' \in [Run -> [sess : 0 .. MaxSessions,
                         status : Result \cup {"none", "running", "aborted"}]]
    BY <1>9 DEF Rollback, MarkRun, TypeOK
  <2>2. Finish(p)
    BY <1>9 DEF Rollback
  <2> QED
    BY <1>9, <2>1, <2>2, FinishTypes DEF Rollback, TypeOK
<1>10. CASE Return(p)
  <2>1. owner' \in Worker \cup Gone \cup {"nobody"} /\ left' \in 0 .. LeaseLen
    BY <1>10, BeatTypes DEF Return
  <2>2. Finish(p)
    BY <1>10 DEF Return
  <2> QED
    BY <1>10, <2>1, <2>2, FinishTypes DEF Return, TypeOK
<1>11. CASE CycleThrows(p)
  BY <1>11, FinishTypes DEF CycleThrows, TypeOK
<1> QED
  BY <1>1, <1>2, <1>3, <1>4, <1>5, <1>6, <1>7, <1>8, <1>9, <1>10, <1>11 DEF CycleStep

\* So do the admin's requests ...
LEMMA AdminTypes ==
  ASSUME TypeOK, NEW a \in Admin, Ask(a) \/ Answer(a) PROVE TypeOK'
<1> USE CollectorBounds DEF Proc, lease, book
<1>1. CASE Ask(a)
  <2>1. Latest # 0 => obs[Latest].status \in {"NONE", "RUNNING", "DEGRADED", "PAUSED", "COMPLETED"}
    BY LatestInRange DEF TypeOK, Row, Session
  <2> QED
    BY <1>1, <2>1, LatestInRange DEF Ask, TypeOK, Goto
<1>2. CASE Answer(a)
  <2>1. \A s \in 0 .. MaxSessions,
          st \in {"NONE", "RUNNING", "DEGRADED", "PAUSED", "COMPLETED"} :
            [obs EXCEPT ![s].status = st] \in [Session -> Row]
    <3> TAKE s \in 0 .. MaxSessions,
             st \in {"NONE", "RUNNING", "DEGRADED", "PAUSED", "COMPLETED"}
    <3>1. \A t \in Session : obs[t] \in Row /\ [obs[t] EXCEPT !.status = st] \in Row
      BY DEF TypeOK, Row
    <3> QED
      BY <3>1 DEF TypeOK
  <2>2. ask[a].sess \in 0 .. MaxSessions
    BY DEF TypeOK
  <2>3. Latest < MaxSessions => Latest + 1 \in 0 .. MaxSessions
    BY LatestInRange
  <2>4. obs' \in [Session -> Row]
    <3>1. CASE obs' = [obs EXCEPT ![ask[a].sess].status =
                 IF ask[a].action = "pause" THEN "PAUSED" ELSE "COMPLETED"]
      BY <2>1, <2>2, <3>1
    <3>2. CASE obs' = [obs EXCEPT ![ask[a].sess].status = "RUNNING"]
      BY <2>1, <2>2, <3>2
    <3>3. CASE IF Latest < MaxSessions THEN NewSession ELSE UNCHANGED obs
      <4>1. CASE Latest < MaxSessions /\ NewSession
        BY <2>1, <2>3, <4>1 DEF NewSession
      <4> QED
        BY <3>3, <4>1 DEF TypeOK
    <3> QED
      BY <1>2, <3>1, <3>2, <3>3 DEF Answer
  <2> QED
    BY <1>2, <2>4 DEF Answer, TypeOK, Goto, NoAsk
<1> QED
  BY <1>1, <1>2

\* ... the clock and the crashes.
LEMMA WorldTypes ==
  ASSUME TypeOK, Tick \/ TargetReached \/ \E p \in Proc : Crash(p) PROVE TypeOK'
<1> USE CollectorBounds DEF Proc, Cycler, lease, book
<1>1. CASE Tick
  BY <1>1 DEF Tick, TypeOK
<1>2. CASE TargetReached
  BY <1>2, LatestInRange DEF TargetReached, TypeOK, Session
<1>3. ASSUME NEW p \in Proc, Crash(p) PROVE TypeOK'
  <2>1. Blank \in [sess : 0 .. MaxSessions, run : 0 .. MaxRuns,
                   prev : SUBSET Lifecycle, seen : Row]
    BY DEF Blank, Row
  <2>2. mem' \in [Cycler -> [sess : 0 .. MaxSessions, run : 0 .. MaxRuns,
                             prev : SUBSET Lifecycle, seen : Row]]
    BY <1>3, <2>1 DEF Crash, TypeOK
  <2>3. lock' \in Proc \cup {Free} /\ owner' \in Worker \cup Gone \cup {"nobody"}
    BY <1>3 DEF Crash, TypeOK
  <2>4. pc' \in [Proc -> {"off", "claim", "claimWrite", "loop", "stopping", "idle",
                         "ensure", "insert", "run", "load", "read", "commit",
                         "rest", "away", "write"}]
    BY <1>3 DEF Crash, TypeOK, AtRest
  <2>5. /\ ask' \in [Admin -> [action : {"none", "start", "pause", "resume", "complete"},
                         sess : 0 .. MaxSessions,
                         status : {"NONE", "RUNNING", "DEGRADED", "PAUSED", "COMPLETED"}]]
        /\ crashes' \in 0 .. MaxCrashes
    BY <1>3 DEF Crash, TypeOK, NoAsk
  <2> QED
    BY <1>3, <2>2, <2>3, <2>4, <2>5 DEF Crash, TypeOK
<1> QED
  BY <1>1, <1>2, <1>3

LEMMA TypeStep == TypeOK /\ Placed /\ [Next]_vars => TypeOK'
<1> SUFFICES ASSUME TypeOK, Placed, [Next]_vars PROVE TypeOK'
  OBVIOUS
<1>1. CASE UNCHANGED vars
  BY <1>1 DEF vars, lease, book, TypeOK
<1> QED
  BY <1>1, LeaseTypes, CycleTypes, AdminTypes, WorldTypes DEF Next

-----------------------------------------------------------------------------
(* One cycle at a time.                                                    *)

LEMMA PlacedInit == Init => Placed
  BY ProcAssumption DEF Init, Placed, InCycle, Recording, Proc, Cycler

\* While one process is in its cycle no other is.
LEMMA Alone ==
  ASSUME Placed, NEW p \in Cycler, pc[p] \in InCycle
  PROVE  \A q \in Cycler \ {p} : pc[q] \notin InCycle
  BY DEF Placed

\* Steps that leave memory and runs alone, and do not take the lock away from
\* a process in its cycle, keep Placed.
LEMMA PlacedElsewhere ==
  ASSUME Placed, UNCHANGED <<mem, run>>,
         \A p \in Cycler : pc'[p] \in InCycle => pc'[p] = pc[p] /\ lock' = lock
  PROVE  Placed'
<1> SUFFICES ASSUME NEW p \in Cycler
             PROVE  /\ pc'[p] \in InCycle => lock' = p
                    /\ pc'[p] \in Recording \cup {"run"} => mem'[p].sess \in Session
                    /\ pc'[p] \in Recording =>
                         /\ mem'[p].run \in Run
                         /\ run'[mem'[p].run] = [sess |-> mem'[p].sess, status |-> "running"]
  BY DEF Placed
<1>1. Recording \cup {"run"} \subseteq InCycle
  BY DEF Recording, InCycle
<1> QED
  BY <1>1 DEF Placed

LEMMA PlacedLease ==
  ASSUME TypeOK, Placed, NEW w \in Worker, LeaseStep(w) PROVE Placed'
<1> USE ProcAssumption DEF Cycler, Proc, TypeOK, InCycle, Goto
<1>1. UNCHANGED <<mem, run>>
  BY DEF LeaseStep, Boot, ClaimRead, ClaimWrite, Stop, Release
<1>2. \A p \in Cycler : pc'[p] \in InCycle => pc'[p] = pc[p]
  BY DEF LeaseStep, Boot, ClaimRead, ClaimWrite, Stop, Release
<1>3. \A p \in Cycler : pc[p] \in InCycle => lock = p /\ lock # Free
  BY DEF Placed
<1>4. pc[w] \notin InCycle
  BY DEF LeaseStep, Boot, ClaimRead, ClaimWrite, Stop, Release
<1>5. \A p \in Cycler : pc[p] \in InCycle => lock' = lock
  BY <1>3, <1>4
     DEF LeaseStep, Boot, ClaimRead, ClaimWrite, Stop, Release, Enter, Leave, MayEnter
<1> QED
  BY <1>1, <1>2, <1>5, PlacedElsewhere

\* Ending the cycle of the one process that was in it.
LEMMA PlacedFinish ==
  ASSUME TypeOK, Placed, NEW p \in Cycler, pc[p] \in InCycle, Finish(p)
  PROVE  Placed'
<1>1. pc'[p] \notin InCycle
  BY DEF Finish, Goto, Home, TypeOK, InCycle, Proc
<1>2. \A q \in Cycler \ {p} : pc'[q] = pc[q]
  BY DEF Finish, Goto, TypeOK, Proc
<1>3. \A q \in Cycler : pc'[q] \notin InCycle
  BY <1>1, <1>2, Alone
<1> QED
  BY <1>3 DEF Placed, Recording, InCycle

LEMMA PlacedCycle ==
  ASSUME TypeOK, Placed, NEW p \in Cycler, Begin(p) \/ CycleStep(p) PROVE Placed'
<1> USE ProcAssumption DEF Cycler, Proc
<1>1. CASE Begin(p)
  <2>1. \A q \in Cycler : pc[q] \notin InCycle
    BY <1>1 DEF Begin, Placed
  <2>2. \A q \in Cycler : pc'[q] = (IF q = p THEN "ensure" ELSE pc[q])
    BY <1>1 DEF Begin, Goto, TypeOK
  <2> QED
    BY <1>1, <2>1, <2>2 DEF Begin, Placed, Recording, InCycle
<1>2. ASSUME CycleStep(p) PROVE pc[p] \in InCycle
  BY <1>2 DEF CycleStep, EnsureRead, EnsureInsert, BeginRun, Load, TxRead, Commit,
              CommitUnheard, Rollback, Return, CycleThrows, InCycle
<1>3. CASE Finish(p) /\ CycleStep(p)
  BY <1>2, <1>3, PlacedFinish
<1>4. ASSUME CycleStep(p), NEW label, Goto(p, label), UNCHANGED lock, label \in InCycle,
             label \in Recording \cup {"run"} => mem'[p].sess \in Session,
             label \in Recording =>
                /\ mem'[p].run \in Run
                /\ run'[mem'[p].run] = [sess |-> mem'[p].sess, status |-> "running"]
      PROVE  Placed'
  <2>1. \A q \in Cycler : pc'[q] = (IF q = p THEN label ELSE pc[q])
    BY <1>4 DEF Goto, TypeOK
  <2>2. \A q \in Cycler \ {p} : pc'[q] \notin InCycle
    BY <1>2, <1>4, <2>1, Alone
  <2>3. lock' = p
    BY <1>2, <1>4 DEF Placed
  <2>4. Recording \cup {"run"} \subseteq InCycle
    BY DEF Recording, InCycle
  <2> QED
    BY <1>4, <2>1, <2>2, <2>3, <2>4 DEF Placed
<1>5. CASE EnsureRead(p)
  <2>1. Latest # 0 => Latest \in Session
    BY LatestInRange, CollectorBounds DEF Session
  <2>2. mem'[p].sess = Latest
    BY <1>5 DEF EnsureRead, TypeOK
  <2>3. PICK label \in {"insert", "away", "run"} :
          Goto(p, label) /\ (label = "run" => Latest # 0)
    BY <1>5 DEF EnsureRead
  <2> QED
    BY <1>4, <1>5, <2>1, <2>2, <2>3 DEF EnsureRead, CycleStep, InCycle, Recording
<1>6. CASE EnsureInsert(p)
  <2>1. Latest + 1 \in Session /\ mem' = [mem EXCEPT ![p].sess = Latest + 1]
    BY <1>6, LatestInRange, CollectorBounds DEF EnsureInsert, Session
  <2>2. mem'[p].sess = Latest + 1
    <3> HIDE DEF Cycler
    <3> QED
      BY <2>1 DEF TypeOK
  <2> QED
    BY <1>4, <1>6, <2>1, <2>2 DEF EnsureInsert, CycleStep, InCycle, Recording
<1>7. CASE BeginRun(p)
  <2>1. CASE Goto(p, "away")
    BY <1>4, <1>7, <2>1 DEF BeginRun, CycleStep, InCycle, Recording
  <2>2. ASSUME NEW r \in Unused,
               run' = [run EXCEPT ![r] = [sess |-> mem[p].sess, status |-> "running"]],
               mem' = [mem EXCEPT ![p].run = r],
               Goto(p, "load")
        PROVE  Placed'
    <3>1. r \in Run /\ mem'[p].run = r /\ mem'[p].sess = mem[p].sess
      BY <2>2 DEF Unused, TypeOK
    <3>2. run'[r] = [sess |-> mem[p].sess, status |-> "running"]
      BY <2>2, <3>1 DEF TypeOK
    <3>3. mem[p].sess \in Session
      BY <1>7 DEF BeginRun, Placed
    <3> QED
      BY <1>4, <1>7, <2>2, <3>1, <3>2, <3>3 DEF BeginRun, CycleStep, InCycle, Recording
  <2> QED
    BY <1>7, <2>1, <2>2 DEF BeginRun
<1>8. CASE Load(p)
  <2>1. mem'[p].sess = mem[p].sess /\ mem'[p].run = mem[p].run
    BY <1>8 DEF Load, TypeOK
  <2>2. pc[p] \in Recording
    BY <1>8 DEF Load, Recording
  <2> QED
    BY <1>4, <1>8, <2>1, <2>2 DEF Load, CycleStep, InCycle, Recording, Placed
<1>9. CASE TxRead(p)
  <2>1. mem'[p].sess = mem[p].sess /\ mem'[p].run = mem[p].run
    BY <1>9 DEF TxRead, TypeOK
  <2>2. pc[p] \in Recording
    BY <1>9 DEF TxRead, Recording
  <2> QED
    BY <1>4, <1>9, <2>1, <2>2 DEF TxRead, CycleStep, InCycle, Recording, Placed
<1>10. CASE Commit(p)
  BY <1>4, <1>10 DEF Commit, CycleStep, InCycle, Recording
<1> QED
  BY <1>1, <1>3, <1>5, <1>6, <1>7, <1>8, <1>9, <1>10
     DEF CycleStep, CommitUnheard, Rollback, Return, CycleThrows

LEMMA PlacedStep == TypeOK /\ Placed /\ [Next]_vars => Placed'
<1> SUFFICES ASSUME TypeOK, Placed, [Next]_vars PROVE Placed'
  OBVIOUS
<1> USE ProcAssumption DEF Cycler, Proc
<1>1. CASE UNCHANGED vars
  BY <1>1 DEF vars, Placed
<1>2. ASSUME NEW a \in Admin, Ask(a) \/ Answer(a) PROVE Placed'
  <2>1. UNCHANGED <<mem, run, lock>> /\ \A p \in Cycler : pc'[p] = pc[p]
    BY <1>2 DEF Ask, Answer, Goto, TypeOK
  <2> QED
    BY <2>1, PlacedElsewhere
<1>3. CASE Tick \/ TargetReached
  BY <1>3, PlacedElsewhere DEF Tick, TargetReached
<1>4. ASSUME NEW p \in Proc, Crash(p) PROVE Placed'
  <2>1. \A q \in Cycler : \/ pc'[q] = pc[q] /\ mem'[q] = mem[q] /\ q \notin Crashed(p)
                          \/ pc'[q] \notin InCycle
    BY <1>4 DEF Crash, AtRest, InCycle
  <2>2. \A q \in Cycler : pc[q] \in InCycle /\ q \notin Crashed(p) => lock' = q
    BY <1>4 DEF Crash, Placed
  <2>3. Recording \cup {"run"} \subseteq InCycle /\ UNCHANGED run
    BY <1>4 DEF Recording, InCycle, Crash
  <2> QED
    BY <2>1, <2>2, <2>3 DEF Placed
<1> QED
  BY <1>1, <1>2, <1>3, <1>4, PlacedLease, PlacedCycle DEF Next

\* The collector's tables and memories keep their types, whatever crashes.
THEOREM CollectorTypeCorrect == Spec => []TypeOK
<1>1. Init => TypeOK /\ Placed
  BY InitTypes, PlacedInit
<1>2. TypeOK /\ Placed /\ [Next]_vars => (TypeOK /\ Placed)'
  BY TypeStep, PlacedStep
<1> QED
  BY <1>1, <1>2, PTL DEF Spec

\* The run of a cycle that records.
LEMMA OwnRun ==
  ASSUME Placed, NEW p \in Cycler, pc[p] \in Recording
  PROVE  /\ mem[p].run \in Run /\ mem[p].sess \in Session
         /\ run[mem[p].run].status = "running" /\ run[mem[p].run].sess = mem[p].sess
<1>1. run[mem[p].run] = [sess |-> mem[p].sess, status |-> "running"]
  BY DEF Placed
<1> DEFINE open == run[mem[p].run]
<1>2. open = [sess |-> mem[p].sess, status |-> "running"]
  BY <1>1
<1> HIDE DEF open
<1>3. open.status = "running" /\ open.sess = mem[p].sess
  BY <1>2
<1> QED
  BY <1>3 DEF Placed, open

-----------------------------------------------------------------------------
(* Lifecycles.                                                             *)

\* What loadLifecyclesForMerge answers: what is open, or nothing when it fails.
Truthful(prev) == prev = active \/ (ReadFaults /\ prev = {})

\* What a cycle merges against is still the answer when it commits, and every
\* lifecycle was opened by a run that has been completed.
Fresh ==
  /\ \A p \in Cycler : pc[p] \in {"read", "commit"} => Truthful(mem[p].prev)
  /\ \A x \in active \cup ended : run[x[2]].status \in Result

LifecycleInv == (ReadFaults \/ OneLifecyclePerRoute) /\ ClosedStaysClosed /\ Fresh

LEMMA LifecycleInit == Init => LifecycleInv
  BY ProcAssumption
     DEF Init, book, LifecycleInv, OneLifecyclePerRoute, ClosedStaysClosed, Fresh, Cycler, Proc

\* Runs that are not yet completed may change, and processes may leave the
\* transaction, without disturbing the lifecycles.
LEMMA LifecycleElsewhere ==
  ASSUME LifecycleInv, UNCHANGED book,
         \A p \in Cycler : pc'[p] \in {"read", "commit"} =>
            \/ pc[p] \in {"read", "commit"} /\ mem'[p].prev = mem[p].prev
            \/ Truthful(mem'[p].prev),
         \A x \in active \cup ended : run'[x[2]] = run[x[2]]
  PROVE  LifecycleInv'
  BY DEF LifecycleInv, OneLifecyclePerRoute, ClosedStaysClosed, Fresh, Truthful, book

\* The transaction opens and closes; afterwards no cycle is under way.
LEMMA LifecycleWrite ==
  ASSUME TypeOK, Placed, LifecycleInv, NEW p \in Cycler, pc[p] = "commit",
         NEW result \in Result, WriteCycle(p, result), MarkRun(p, result),
         \A q \in Cycler : pc'[q] \notin {"read", "commit"}
  PROVE  LifecycleInv'
<1> DEFINE m == mem[p]
<1>1. m.run \in Run /\ run[m.run].status = "running"
  BY OwnRun DEF Recording
<1>2. Truthful(m.prev) /\ m.prev \subseteq active
  BY DEF LifecycleInv, Fresh, Truthful
<1>3. PICK draft \in SUBSET Route :
        /\ active' = (active \cup m.prev \cup Opened(m, draft)) \ Closed(m, draft)
        /\ ended' = ended \cup Closed(m, draft)
  BY DEF WriteCycle
<1>4. \A y \in Opened(m, draft) : y[1] \in draft /\ y[2] = m.run /\ \A x \in m.prev : x[1] # y[1]
  BY DEF Opened
<1>5. \A x, y \in Opened(m, draft) : x[1] = y[1] => x = y
  BY DEF Opened
<1>6. Opened(m, draft) \cap (active \cup ended) = {}
  BY <1>1, <1>4 DEF LifecycleInv, Fresh, Result
<1>7. ReadFaults \/ OneLifecyclePerRoute'
  <2> SUFFICES ASSUME ~ ReadFaults PROVE OneLifecyclePerRoute'
    OBVIOUS
  <2>1. m.prev = active
    BY <1>2 DEF Truthful
  <2>2. active' = {x \in active : x[1] \in draft} \cup Opened(m, draft)
    BY <1>3, <1>6, <2>1 DEF Closed
  <2> QED
    BY <1>4, <1>5, <2>1, <2>2 DEF LifecycleInv, OneLifecyclePerRoute
<1>8. ClosedStaysClosed'
  BY <1>2, <1>3, <1>6 DEF LifecycleInv, ClosedStaysClosed
<1>9. run'[m.run].status = result /\ \A r \in Run \ {m.run} : run'[r] = run[r]
  BY <1>1 DEF MarkRun, TypeOK
<1>10. \A x \in active \cup ended : x[2] \in Run /\ x[2] # m.run
  BY <1>1 DEF TypeOK, Lifecycle, LifecycleInv, Fresh, Result
<1>11. active' \cup ended' \subseteq active \cup ended \cup Opened(m, draft)
  BY <1>2, <1>3 DEF Closed
<1>12. \A x \in active' \cup ended' : run'[x[2]].status \in Result
  BY <1>4, <1>9, <1>10, <1>11 DEF LifecycleInv, Fresh
<1> QED
  BY <1>7, <1>8, <1>12 DEF LifecycleInv, Fresh

LEMMA LifecycleCycle ==
  ASSUME TypeOK, Placed, LifecycleInv, NEW p \in Cycler, Begin(p) \/ CycleStep(p)
  PROVE  LifecycleInv'
<1> USE DEF Cycler, Proc
<1>1. \A q \in Cycler \ {p} : mem'[q] = mem[q] /\ pc'[q] = pc[q]
  BY DEF Begin, CycleStep, EnsureRead, EnsureInsert, BeginRun, Load, TxRead, Commit,
         CommitUnheard, Rollback, Return, CycleThrows, Finish, Goto, TypeOK
<1>2. CASE Begin(p) \/ EnsureRead(p) \/ EnsureInsert(p) \/ Return(p) \/ CycleThrows(p)
  <2>1. pc'[p] \notin {"read", "commit"} /\ UNCHANGED <<book, run>>
    BY <1>2 DEF Begin, EnsureRead, EnsureInsert, Return, CycleThrows, Finish, Goto, Home, TypeOK
  <2> QED
    BY <1>1, <2>1, LifecycleElsewhere
<1>3. CASE BeginRun(p)
  <2>1. pc'[p] \notin {"read", "commit"} /\ UNCHANGED book
    BY <1>3 DEF BeginRun, Goto, TypeOK
  <2>2. run' = run \/ \E r \in Unused : run' = [run EXCEPT ![r] = [sess |-> mem[p].sess, status |-> "running"]]
    BY <1>3 DEF BeginRun
  <2>3. \A x \in active \cup ended : run'[x[2]] = run[x[2]]
    BY <2>2 DEF Unused, LifecycleInv, Fresh, Result, TypeOK, Lifecycle
  <2> QED
    BY <1>1, <2>1, <2>3, LifecycleElsewhere
<1>4. CASE Load(p)
  <2>1. Truthful(mem'[p].prev) /\ UNCHANGED <<book, run>>
    BY <1>4 DEF Load, Truthful, TypeOK
  <2> QED
    BY <1>1, <2>1, LifecycleElsewhere
<1>5. CASE TxRead(p)
  <2>1. pc[p] = "read" /\ mem'[p].prev = mem[p].prev /\ UNCHANGED <<book, run>>
    BY <1>5 DEF TxRead, TypeOK
  <2> QED
    BY <1>1, <2>1, LifecycleElsewhere
<1>6. CASE Rollback(p)
  <2>1. pc'[p] \notin {"read", "commit"} /\ UNCHANGED book
    BY <1>6 DEF Rollback, Finish, Goto, Home, TypeOK
  <2>2. mem[p].run \in Run /\ run[mem[p].run].status = "running"
    BY <1>6, OwnRun DEF Rollback, Recording
  <2>3. \A x \in active \cup ended : run'[x[2]] = run[x[2]]
    BY <1>6, <2>2 DEF Rollback, MarkRun, LifecycleInv, Fresh, Result, TypeOK, Lifecycle
  <2> QED
    BY <1>1, <2>1, <2>3, LifecycleElsewhere
<1>7. CASE Commit(p) \/ CommitUnheard(p)
  <2>1. pc[p] = "commit" /\ pc'[p] \notin {"read", "commit"}
    BY <1>7 DEF Commit, CommitUnheard, Finish, Goto, Home, TypeOK
  <2>2. \A q \in Cycler : pc'[q] \notin {"read", "commit"}
    BY <1>1, <2>1, Alone DEF InCycle
  <2>3. PICK result \in Result : WriteCycle(p, result) /\ MarkRun(p, result)
    BY <1>7 DEF Commit, CommitUnheard
  <2> QED
    BY <2>1, <2>2, <2>3, LifecycleWrite
<1> QED
  BY <1>2, <1>3, <1>4, <1>5, <1>6, <1>7 DEF CycleStep

LEMMA LifecycleStep == TypeOK /\ Placed /\ LifecycleInv /\ [Next]_vars => LifecycleInv'
<1> SUFFICES ASSUME TypeOK, Placed, LifecycleInv, [Next]_vars PROVE LifecycleInv'
  OBVIOUS
<1> USE DEF Cycler, Proc
<1>1. CASE UNCHANGED vars
  BY <1>1, LifecycleElsewhere DEF vars
<1>2. ASSUME NEW w \in Worker, LeaseStep(w) PROVE LifecycleInv'
  <2>1. UNCHANGED <<mem, run, book>>
    BY <1>2 DEF LeaseStep, Boot, ClaimRead, ClaimWrite, Stop, Release
  <2>2. \A p \in Cycler : pc'[p] = pc[p] \/ pc'[p] \notin {"read", "commit"}
    BY <1>2 DEF LeaseStep, Boot, ClaimRead, ClaimWrite, Stop, Release, Goto, TypeOK
  <2> QED
    BY <2>1, <2>2, LifecycleElsewhere
<1>3. ASSUME NEW a \in Admin, Ask(a) \/ Answer(a) PROVE LifecycleInv'
  <2>1. UNCHANGED <<mem, run, book>>
    BY <1>3 DEF Ask, Answer
  <2>2. \A p \in Cycler : pc'[p] = pc[p] \/ pc'[p] \notin {"read", "commit"}
    BY <1>3 DEF Ask, Answer, Goto, TypeOK
  <2> QED
    BY <2>1, <2>2, LifecycleElsewhere
<1>4. CASE Tick \/ TargetReached
  BY <1>4, LifecycleElsewhere DEF Tick, TargetReached
<1>5. ASSUME NEW p \in Proc, Crash(p) PROVE LifecycleInv'
  <2>1. \A q \in Cycler : \/ pc'[q] = pc[q] /\ mem'[q] = mem[q]
                          \/ pc'[q] \notin {"read", "commit"}
    BY <1>5 DEF Crash, AtRest
  <2> QED
    BY <1>5, <2>1, LifecycleElsewhere DEF Crash
<1> QED
  BY <1>1, <1>2, <1>3, <1>4, <1>5, LifecycleCycle DEF Next

LEMMA AlwaysLifecycleInv == Spec => []LifecycleInv
<1>1. Init => TypeOK /\ Placed /\ LifecycleInv
  BY InitTypes, PlacedInit, LifecycleInit
<1>2. TypeOK /\ Placed /\ LifecycleInv /\ [Next]_vars => (TypeOK /\ Placed /\ LifecycleInv)'
  BY TypeStep, PlacedStep, LifecycleStep
<1> QED
  BY <1>1, <1>2, PTL DEF Spec

\* A closed lifecycle never comes back, for any number of collectors and
\* refreshes: not even when the read before the merge fails, since the ids a
\* cycle opens carry its own run.
THEOREM ClosedLifecyclesStay == Spec => []ClosedStaysClosed
<1>1. LifecycleInv => ClosedStaysClosed
  BY DEF LifecycleInv
<1> QED
  BY <1>1, AlwaysLifecycleInv, PTL

\* While the read before the merge tells the truth, a route never has two
\* open lifecycles.
THEOREM LifecyclesSound == ~ ReadFaults => (Spec => []OneLifecyclePerRoute)
<1> SUFFICES ASSUME ~ ReadFaults PROVE Spec => []OneLifecyclePerRoute
  OBVIOUS
<1>1. LifecycleInv => OneLifecyclePerRoute
  BY DEF LifecycleInv
<1> QED
  BY <1>1, AlwaysLifecycleInv, PTL

-----------------------------------------------------------------------------
(* The counters of a session.                                              *)

\* What the transaction has read of the counters is still in the row: only a
\* cycle writes them, and there is one cycle.
CountersSeen ==
  \A p \in Cycler : pc[p] = "commit" =>
     /\ mem[p].seen.ok = obs[mem[p].sess].ok
     /\ mem[p].seen.bad = obs[mem[p].sess].bad

CountersInv == CountersMatchRuns /\ CountersSeen

LEMMA CommittedFinite ==
  ASSUME NEW s, NEW result PROVE IsFiniteSet(Committed(s, result))
<1>1. IsFiniteSet(Run)
  BY FS_Interval, CollectorBounds DEF Run
<1> QED
  BY <1>1, FS_Subset DEF Committed

LEMMA CountersInit == Init => CountersInv
<1> SUFFICES ASSUME Init PROVE CountersInv
  OBVIOUS
<1>1. \A s \in Session : Committed(s, "success") = {} /\ Committed(s, "short") = {}
  BY DEF Init, Committed
<1>2. \A s \in Session : obs[s].ok = 0 /\ obs[s].bad = 0
  BY DEF Init
<1>3. CountersMatchRuns
  BY <1>1, <1>2, FS_EmptySet DEF CountersMatchRuns
<1> QED
  BY <1>3, ProcAssumption DEF Init, CountersInv, CountersSeen, Cycler, Proc

\* Steps that move no counter, and no run to or from a result, keep the
\* counters right.
LEMMA CountersElsewhere ==
  ASSUME TypeOK, CountersInv,
         \A s \in Session : obs'[s].ok = obs[s].ok /\ obs'[s].bad = obs[s].bad,
         \A r \in Run : run'[r] = run[r] \/ (run[r].status \notin Result /\ run'[r].status \notin Result),
         \A p \in Cycler : pc'[p] = "commit" =>
            /\ mem'[p].sess \in Session
            /\ \/ pc[p] = "commit" /\ mem'[p] = mem[p]
               \/ mem'[p].seen = obs[mem'[p].sess]
  PROVE  CountersInv'
<1>1. \A s \in Session, result \in Result : Committed(s, result)' = Committed(s, result)
  <2> SUFFICES ASSUME NEW s \in Session, NEW result \in Result, NEW r \in Run
               PROVE  run'[r] = [sess |-> s, status |-> result]
                        <=> run[r] = [sess |-> s, status |-> result]
    BY DEF Committed
  <2> DEFINE done == [sess |-> s, status |-> result]
  <2>1. done.status \in Result
    OBVIOUS
  <2> HIDE DEF done
  <2>2. run'[r] = done <=> run[r] = done
    BY <2>1
  <2> QED
    BY <2>2 DEF done
<1>2. CountersMatchRuns'
  BY <1>1 DEF CountersInv, CountersMatchRuns, Result
<1> QED
  BY <1>2 DEF CountersInv, CountersSeen

\* The transaction adds one to the counter of the result it gives its run.
LEMMA CountersWrite ==
  ASSUME TypeOK, Placed, CountersInv, NEW p \in Cycler, pc[p] = "commit",
         NEW result \in Result, WriteCycle(p, result), MarkRun(p, result),
         \A q \in Cycler : pc'[q] # "commit"
  PROVE  CountersInv'
<1> DEFINE row == Counted(mem[p].seen, result)
<1>0. PICK sess \in Session, mine \in Run : sess = mem[p].sess /\ mine = mem[p].run
  BY OwnRun DEF Recording
<1> DEFINE done == [sess |-> sess, status |-> result]
<1>1. run[mine].status = "running" /\ run[mine].sess = sess
  BY <1>0, OwnRun DEF Recording
<1>2. /\ row.ok = obs[sess].ok + (IF result = "success" THEN 1 ELSE 0)
      /\ row.bad = obs[sess].bad + (IF result = "success" THEN 0 ELSE 1)
      /\ row \in Row
  <2>1. mem[p].seen \in Row /\ mem[p].seen.ok = obs[sess].ok /\ mem[p].seen.bad = obs[sess].bad
    BY <1>0 DEF TypeOK, CountersInv, CountersSeen
  <2> QED
    BY <2>1, CountedType
<1>3. \A s \in Session :
        /\ obs'[s].ok = IF s = sess THEN row.ok ELSE obs[s].ok
        /\ obs'[s].bad = IF s = sess THEN row.bad ELSE obs[s].bad
  <2>1. obs' = [obs EXCEPT ![sess] = [row EXCEPT !.status = StatusAfter(sess, row)]]
    BY <1>0 DEF WriteCycle
  <2> HIDE DEF row
  <2>2. /\ [row EXCEPT !.status = StatusAfter(sess, row)].ok = row.ok
        /\ [row EXCEPT !.status = StatusAfter(sess, row)].bad = row.bad
    BY <1>2 DEF Row
  <2> QED
    BY <1>1, <2>1, <2>2 DEF TypeOK
<1>4. run'[mine] = done /\ \A r \in Run \ {mine} : run'[r] = run[r]
  <2>1. run[mine] \in [sess : 0 .. MaxSessions, status : Result \cup {"none", "running", "aborted"}]
    BY <1>1 DEF TypeOK
  <2>2. [run[mine] EXCEPT !.status = result] = done
    BY <1>1, <2>1
  <2> QED
    BY <1>0, <1>1, <2>2 DEF MarkRun, TypeOK
<1>5. mine \notin Committed(sess, result)
  BY <1>1 DEF Committed, Result
<1>6. Committed(sess, result)' = Committed(sess, result) \cup {mine}
  <2> HIDE DEF done
  <2>1. \A r \in Run : run'[r] = done <=> run[r] = done \/ r = mine
    BY <1>4
  <2> QED
    BY <2>1 DEF Committed, done
<1>7. \A s \in Session, any \in Result :
        (s # sess \/ any # result) => Committed(s, any)' = Committed(s, any)
  <2> SUFFICES ASSUME NEW s \in Session, NEW any \in Result, s # sess \/ any # result,
                      NEW r \in Run
               PROVE  run'[r] = [sess |-> s, status |-> any]
                        <=> run[r] = [sess |-> s, status |-> any]
    BY DEF Committed
  <2> DEFINE other == [sess |-> s, status |-> any]
  <2>1. other # done /\ other.status # "running"
    BY DEF Result
  <2>2. CASE r = mine
    BY <1>1, <1>4, <2>1, <2>2
  <2>3. CASE r # mine
    BY <1>4, <2>3
  <2> QED
    BY <2>2, <2>3
<1>8. Cardinality(Committed(sess, result)') = Cardinality(Committed(sess, result)) + 1
  BY <1>5, <1>6, CommittedFinite, FS_AddElement
<1>9. CountersMatchRuns'
  <2> SUFFICES ASSUME NEW s \in Session
               PROVE  /\ obs'[s].ok = Cardinality(Committed(s, "success")')
                      /\ obs'[s].bad = Cardinality(Committed(s, "short")')
    BY DEF CountersMatchRuns
  <2>1. /\ obs[s].ok = Cardinality(Committed(s, "success"))
        /\ obs[s].bad = Cardinality(Committed(s, "short"))
        /\ obs[s].ok \in Nat /\ obs[s].bad \in Nat
    BY DEF CountersInv, CountersMatchRuns, TypeOK, Row
  <2> HIDE DEF row, done
  <2>2. CASE s # sess
    BY <1>3, <1>7, <2>1, <2>2 DEF Result
  <2>3. CASE s = sess /\ result = "success"
    BY <1>2, <1>3, <1>7, <1>8, <2>1, <2>3 DEF Result
  <2>4. CASE s = sess /\ result = "short"
    BY <1>2, <1>3, <1>7, <1>8, <2>1, <2>4 DEF Result
  <2> QED
    BY <2>2, <2>3, <2>4 DEF Result
<1> QED
  BY <1>9 DEF CountersInv, CountersSeen

\* Writing a status leaves the counters alone.
SetStatus(s, st) == obs' = [obs EXCEPT ![s].status = st]
LEMMA StatusOnly ==
  ASSUME TypeOK, NEW s, NEW st, SetStatus(s, st)
  PROVE  \A t \in Session :
           /\ obs'[t].ok = obs[t].ok /\ obs'[t].bad = obs[t].bad
           /\ obs'[t].status = IF t = s THEN st ELSE obs[t].status
<1> SUFFICES ASSUME NEW t \in Session
             PROVE  /\ obs'[t].ok = obs[t].ok /\ obs'[t].bad = obs[t].bad
                    /\ obs'[t].status = IF t = s THEN st ELSE obs[t].status
  OBVIOUS
<1>1. obs[t] \in Row /\ obs'[t] = IF t = s THEN [obs[t] EXCEPT !.status = st] ELSE obs[t]
  BY DEF TypeOK, SetStatus
<1> DEFINE before == obs[t]
<1> HIDE DEF before
<1>2. before \in Row /\ obs'[t] = IF t = s THEN [before EXCEPT !.status = st] ELSE before
  BY <1>1 DEF before
<1> QED
  BY <1>2 DEF Row, before

LEMMA CountersCycle ==
  ASSUME TypeOK, Placed, CountersInv, NEW p \in Cycler, Begin(p) \/ CycleStep(p)
  PROVE  CountersInv'
<1> USE DEF Cycler, Proc
<1>1. \A q \in Cycler \ {p} : mem'[q] = mem[q] /\ pc'[q] = pc[q]
  BY DEF Begin, CycleStep, EnsureRead, EnsureInsert, BeginRun, Load, TxRead, Commit,
         CommitUnheard, Rollback, Return, CycleThrows, Finish, Goto, TypeOK
<1>2. \A q \in Cycler : pc[q] = "commit" => mem[q].sess \in Session
  BY DEF Placed, Recording
<1>3. CASE Begin(p) \/ EnsureRead(p) \/ Load(p) \/ Return(p) \/ CycleThrows(p)
  <2>1. pc'[p] # "commit" /\ UNCHANGED <<obs, run>>
    BY <1>3 DEF Begin, EnsureRead, Load, Return, CycleThrows, Finish, Goto, Home, TypeOK
  <2> QED
    BY <1>1, <1>2, <2>1, CountersElsewhere
<1>4. CASE EnsureInsert(p)
  <2>1. pc'[p] # "commit" /\ UNCHANGED run
    BY <1>4 DEF EnsureInsert, Goto, TypeOK
  <2>2. \A s \in Session : obs'[s].ok = obs[s].ok /\ obs'[s].bad = obs[s].bad
    <3>1. SetStatus(Latest + 1, "RUNNING")
      BY <1>4 DEF EnsureInsert, NewSession, SetStatus
    <3> QED
      BY <3>1, StatusOnly
  <2> QED
    BY <1>1, <1>2, <2>1, <2>2, CountersElsewhere
<1>5. CASE BeginRun(p)
  <2>1. pc'[p] # "commit" /\ UNCHANGED obs
    BY <1>5 DEF BeginRun, Goto, TypeOK
  <2>2. run' = run \/ \E r \in Unused : run' = [run EXCEPT ![r] = [sess |-> mem[p].sess, status |-> "running"]]
    BY <1>5 DEF BeginRun
  <2>3. \A r \in Run : run'[r] = run[r] \/ (run[r].status \notin Result /\ run'[r].status \notin Result)
    BY <2>2 DEF Unused, Result, TypeOK
  <2> QED
    BY <1>1, <1>2, <2>1, <2>3, CountersElsewhere
<1>6. CASE TxRead(p)
  <2>1. mem[p].sess \in Session
    BY <1>6, OwnRun DEF TxRead, Recording
  <2>2. mem'[p].sess = mem[p].sess /\ mem'[p].seen = obs[mem[p].sess] /\ UNCHANGED <<obs, run>>
    BY <1>6 DEF TxRead, TypeOK
  <2> QED
    BY <1>1, <1>2, <2>1, <2>2, CountersElsewhere
<1>7. CASE Rollback(p)
  <2>1. pc'[p] # "commit" /\ UNCHANGED obs
    BY <1>7 DEF Rollback, Finish, Goto, Home, TypeOK
  <2>2. mem[p].run \in Run /\ run[mem[p].run].status = "running"
    BY <1>7, OwnRun DEF Rollback, Recording
  <2>3. \A r \in Run : run'[r] = run[r] \/ (run[r].status \notin Result /\ run'[r].status \notin Result)
    <3>1. CASE UNCHANGED run
      BY <3>1
    <3>2. CASE MarkRun(p, "aborted")
      BY <2>2, <3>2 DEF MarkRun, Result, TypeOK
    <3> QED
      BY <1>7, <3>1, <3>2 DEF Rollback
  <2> QED
    BY <1>1, <1>2, <2>1, <2>3, CountersElsewhere
<1>8. CASE Commit(p) \/ CommitUnheard(p)
  <2>1. pc[p] = "commit" /\ pc'[p] # "commit"
    BY <1>8 DEF Commit, CommitUnheard, Finish, Goto, Home, TypeOK
  <2>2. \A q \in Cycler : pc'[q] # "commit"
    BY <1>1, <2>1, Alone DEF InCycle
  <2>3. PICK result \in Result : WriteCycle(p, result) /\ MarkRun(p, result)
    BY <1>8 DEF Commit, CommitUnheard
  <2> QED
    BY <2>1, <2>2, <2>3, CountersWrite
<1> QED
  BY <1>3, <1>4, <1>5, <1>6, <1>7, <1>8 DEF CycleStep

LEMMA CountersStep ==
  TypeOK /\ Placed /\ CountersInv /\ [Next]_vars => CountersInv'
<1> SUFFICES ASSUME TypeOK, Placed, CountersInv, [Next]_vars PROVE CountersInv'
  OBVIOUS
<1> USE DEF Cycler, Proc
<1>0. \A q \in Cycler : pc[q] = "commit" => mem[q].sess \in Session
  BY DEF Placed, Recording
<1>1. CASE UNCHANGED vars
  BY <1>0, <1>1, CountersElsewhere DEF vars
<1>2. ASSUME NEW w \in Worker, LeaseStep(w) PROVE CountersInv'
  <2>1. UNCHANGED <<mem, run, obs>>
    BY <1>2 DEF LeaseStep, Boot, ClaimRead, ClaimWrite, Stop, Release
  <2>2. \A p \in Cycler : pc'[p] = pc[p] \/ pc'[p] # "commit"
    BY <1>2 DEF LeaseStep, Boot, ClaimRead, ClaimWrite, Stop, Release, Goto, TypeOK
  <2> QED
    BY <1>0, <2>1, <2>2, CountersElsewhere
<1>3. ASSUME NEW a \in Admin, Ask(a) \/ Answer(a) PROVE CountersInv'
  <2>1. UNCHANGED <<mem, run>>
    BY <1>3 DEF Ask, Answer
  <2>2. \A p \in Cycler : pc'[p] = pc[p] \/ pc'[p] # "commit"
    BY <1>3 DEF Ask, Answer, Goto, TypeOK
  <2>3. obs' = obs \/ \E s, st : SetStatus(s, st)
    BY <1>3 DEF Ask, Answer, NewSession, SetStatus
  <2>4. \A s \in Session : obs'[s].ok = obs[s].ok /\ obs'[s].bad = obs[s].bad
    BY <2>3, StatusOnly
  <2> QED
    BY <1>0, <2>1, <2>2, <2>4, CountersElsewhere
<1>4. CASE Tick \/ TargetReached
  BY <1>0, <1>4, CountersElsewhere DEF Tick, TargetReached
<1>5. ASSUME NEW p \in Proc, Crash(p) PROVE CountersInv'
  <2>1. \A q \in Cycler : \/ pc'[q] = pc[q] /\ mem'[q] = mem[q]
                          \/ pc'[q] # "commit"
    BY <1>5 DEF Crash, AtRest
  <2>2. UNCHANGED <<obs, run>>
    BY <1>5 DEF Crash
  <2> QED
    BY <1>0, <2>1, <2>2, CountersElsewhere
<1> QED
  BY <1>1, <1>2, <1>3, <1>4, <1>5, CountersCycle DEF Next

\* A session's counters equal its committed runs, through retries, rollbacks,
\* lost answers and crashes, on both databases.
THEOREM CountersEarned == Spec => []CountersMatchRuns
<1>1. Init => TypeOK /\ Placed /\ CountersInv
  BY InitTypes, PlacedInit, CountersInit
<1>2. TypeOK /\ Placed /\ CountersInv /\ [Next]_vars => (TypeOK /\ Placed /\ CountersInv)'
  BY TypeStep, PlacedStep, CountersStep
<1>3. CountersInv => CountersMatchRuns
  BY DEF CountersInv
<1> QED
  BY <1>1, <1>2, <1>3, PTL DEF Spec

-----------------------------------------------------------------------------
(* A pause holds on PGlite.                                                *)

Status == {"RUNNING", "DEGRADED", "PAUSED", "COMPLETED"}

\* Sessions are numbered without a gap, what a cycle or a request refers to
\* exists, and on PGlite the status the transaction has read is still there.
KnownTo(p) ==
  /\ pc[p] \in Recording \cup {"run"} => mem[p].sess \in Sessions
  /\ pc[p] = "commit" =>
       /\ mem[p].seen.status \in Status
       /\ engine = "pglite" => mem[p].seen.status = obs[mem[p].sess].status
Numbered == \E n \in 0 .. MaxSessions : Sessions = 1 .. n
Asked(a) ==
  pc[a] = "write" /\ (ask[a].action \in {"pause", "complete"} \/ ask[a].status = "PAUSED")
    => ask[a].sess \in Sessions
SessionsInv ==
  /\ Numbered
  /\ \A p \in Cycler : KnownTo(p)
  /\ \A a \in Admin : Asked(a)

LEMMA SessionsInit == Init => SessionsInv
<1> SUFFICES ASSUME Init PROVE SessionsInv
  OBVIOUS
<1>1. Sessions = {}
  BY DEF Init, Sessions
<1>2. Numbered
  BY <1>1, CollectorBounds DEF Numbered
<1> QED
  BY <1>2, ProcAssumption DEF Init, SessionsInv, KnownTo, Asked, Recording, Cycler, Proc

\* The newest session exists and the next number is unused.
LEMMA LatestKnown ==
  ASSUME TypeOK, SessionsInv
  PROVE  /\ Sessions = 1 .. Latest
         /\ Latest # 0 => Latest \in Session /\ obs[Latest].status \in Status
         /\ \A s \in Session : s \notin Sessions => obs[s].status = "NONE"
<1>1. PICK n \in 0 .. MaxSessions : Sessions = 1 .. n
  BY DEF SessionsInv, Numbered
<1>2. Latest = n
  BY <1>1, FS_Interval, CollectorBounds DEF Latest
<1>3. Sessions = 1 .. Latest
  BY <1>1, <1>2
<1>4. Latest # 0 => Latest \in Sessions
  BY <1>3, LatestInRange
<1>5. \A s \in Sessions : s \in Session /\ obs[s].status \in Status
  BY DEF Sessions, TypeOK, Row, Status
<1> QED
  BY <1>3, <1>4, <1>5 DEF Sessions

\* Steps that leave the sessions alone, and give no process anything new to
\* refer to.
LEMMA SessionsElsewhere ==
  ASSUME SessionsInv, UNCHANGED <<obs, engine>>,
         \A p \in Cycler : KnownTo(p)' \/ (pc'[p] = pc[p] /\ mem'[p] = mem[p])
                             \/ pc'[p] \notin Recording \cup {"run"},
         \A a \in Admin : pc'[a] # "write" \/ Asked(a)' \/ (pc'[a] = pc[a] /\ ask'[a] = ask[a])
  PROVE  SessionsInv'
<1>1. Sessions' = Sessions
  BY DEF Sessions
<1>2. Numbered'
  BY <1>1 DEF SessionsInv, Numbered
<1>3. \A p \in Cycler : KnownTo(p)'
  BY <1>1 DEF SessionsInv, KnownTo, Recording
<1>4. \A a \in Admin : Asked(a)'
  BY <1>1 DEF SessionsInv, Asked
<1> QED
  BY <1>2, <1>3, <1>4 DEF SessionsInv

\* Writing a status to a session that exists, or to the next number.
LEMMA SessionsWrite ==
  ASSUME TypeOK, SessionsInv, NEW s \in Session, s \in Sessions \/ s = Latest + 1,
         NEW st \in Status,
         \A t \in Session : obs'[t].status = IF t = s THEN st ELSE obs[t].status
  PROVE  Numbered' /\ Sessions \subseteq Sessions' /\ s \in Sessions'
<1>1. Sessions' = Sessions \cup {s}
  BY DEF Sessions, Status
<1>2. Sessions = 1 .. Latest /\ Latest \in 0 .. MaxSessions
  BY LatestKnown, LatestInRange
<1>3. CASE s \in Sessions
  BY <1>1, <1>2, <1>3 DEF Numbered
<1>4. CASE s = Latest + 1
  <2>1. Sessions' = 1 .. (Latest + 1)
    BY <1>1, <1>2, <1>4
  <2>2. Latest + 1 \in 0 .. MaxSessions
    BY <1>2, <1>4, CollectorBounds DEF Session
  <2> QED
    BY <1>1, <2>1, <2>2 DEF Numbered
<1> QED
  BY <1>1, <1>3, <1>4

PausedKept ==
  \A s \in Session :
    engine = "pglite" /\ obs[s].status = "PAUSED" /\ obs'[s].status # "PAUSED"
      => \E a \in Admin : pc[a] = "write" /\ pc'[a] = "idle"

\* A cycle that reads a PAUSED status writes it back.
LEMMA PauseWrite ==
  ASSUME TypeOK, Placed, SessionsInv, NEW p \in Cycler, pc[p] = "commit",
         NEW result \in Result, WriteCycle(p, result),
         UNCHANGED <<engine, ask>>, \A a \in Admin : pc'[a] = pc[a],
         \A q \in Cycler : pc'[q] \notin Recording \cup {"run"}
  PROVE  SessionsInv' /\ PausedKept
<1> DEFINE row == Counted(mem[p].seen, result)
<1>0. PICK sess \in Session : sess = mem[p].sess
  BY OwnRun DEF Recording
<1> DEFINE st == StatusAfter(sess, row)
<1>1. KnownTo(p)
  BY DEF SessionsInv
<1>2. row \in Row /\ row.status = mem[p].seen.status /\ row.status \in Status
  <2>1. mem[p].seen \in Row
    BY DEF TypeOK
  <2> QED
    BY <1>1, <2>1, CountedType DEF KnownTo
<1>3. st \in Status /\ (row.status = "PAUSED" => st = "PAUSED")
  BY <1>2 DEF StatusAfter, Status
<1>4. \A t \in Session : obs'[t].status = IF t = sess THEN st ELSE obs[t].status
  <2>1. obs' = [obs EXCEPT ![sess] = [row EXCEPT !.status = st]]
    BY <1>0 DEF WriteCycle
  <2> HIDE DEF row, st
  <2>2. [row EXCEPT !.status = st].status = st
    BY <1>2 DEF Row
  <2> QED
    BY <2>1, <2>2 DEF TypeOK
<1> HIDE DEF st, row
<1>5. sess \in Sessions /\ (engine = "pglite" => row.status = obs[sess].status)
  BY <1>0, <1>1, <1>2 DEF KnownTo, Recording
<1>6. Numbered' /\ Sessions \subseteq Sessions'
  BY <1>3, <1>4, <1>5, SessionsWrite
<1>7. \A q \in Cycler : KnownTo(q)'
  BY DEF KnownTo, Recording
<1>8. \A a \in Admin : Asked(a)'
  BY <1>6 DEF SessionsInv, Asked
<1>9. PausedKept
  BY <1>3, <1>4, <1>5 DEF PausedKept
<1> QED
  BY <1>6, <1>7, <1>8, <1>9 DEF SessionsInv

LEMMA PauseCycle ==
  ASSUME TypeOK, Placed, SessionsInv, NEW p \in Cycler, Begin(p) \/ CycleStep(p)
  PROVE  SessionsInv' /\ PausedKept
<1> USE ProcAssumption DEF Cycler, Proc
<1>1. \A q \in Cycler \ {p} : mem'[q] = mem[q] /\ pc'[q] = pc[q]
  BY DEF Begin, CycleStep, EnsureRead, EnsureInsert, BeginRun, Load, TxRead, Commit,
         CommitUnheard, Rollback, Return, CycleThrows, Finish, Goto, TypeOK
<1>2. UNCHANGED <<engine, ask>> /\ \A a \in Admin : pc'[a] = pc[a]
  BY DEF Begin, CycleStep, EnsureRead, EnsureInsert, BeginRun, Load, TxRead, Commit,
         CommitUnheard, Rollback, Return, CycleThrows, Finish, Goto, TypeOK
<1>3. UNCHANGED obs => PausedKept
  BY DEF PausedKept
<1>4. CASE Begin(p) \/ Rollback(p) \/ Return(p) \/ CycleThrows(p)
  <2>1. pc'[p] \notin Recording \cup {"run"} /\ UNCHANGED obs
    BY <1>4 DEF Begin, Rollback, Return, CycleThrows, Finish, Goto, Home, TypeOK, Recording
  <2> QED
    BY <1>1, <1>2, <1>3, <2>1, SessionsElsewhere
<1>5. CASE EnsureRead(p)
  <2>0. PICK label \in {"insert", "away", "run"} :
          Goto(p, label) /\ (label = "run" => Latest # 0)
    BY <1>5 DEF EnsureRead
  <2>1. /\ UNCHANGED obs /\ mem'[p].sess = Latest
        /\ pc'[p] \in {"insert", "away"} \/ (pc'[p] = "run" /\ Latest # 0)
    <3>1. UNCHANGED obs /\ mem' = [mem EXCEPT ![p].sess = Latest]
      BY <1>5 DEF EnsureRead
    <3> HIDE DEF Cycler
    <3>2. mem'[p].sess = Latest
      BY <3>1 DEF TypeOK
    <3>3. p \in Proc
      BY DEF Cycler
    <3> HIDE DEF Proc
    <3>4. pc'[p] = label
      BY <2>0, <3>3 DEF Goto, TypeOK
    <3> QED
      BY <2>0, <3>1, <3>2, <3>4
  <2>2. Latest # 0 => Latest \in Sessions
    BY LatestKnown, LatestInRange
  <2>3. Sessions' = Sessions
    BY <2>1 DEF Sessions
  <2>4. KnownTo(p)'
    BY <2>1, <2>2, <2>3 DEF KnownTo, Recording
  <2> QED
    BY <1>1, <1>2, <1>3, <2>1, <2>4, SessionsElsewhere
<1>6. CASE EnsureInsert(p)
  <2>1. PICK s \in Session : s = Latest + 1
    BY <1>6, LatestInRange, CollectorBounds DEF EnsureInsert, Session
  <2>2. \A t \in Session : obs'[t].status = IF t = s THEN "RUNNING" ELSE obs[t].status
    <3>1. SetStatus(s, "RUNNING")
      BY <1>6, <2>1 DEF EnsureInsert, NewSession, SetStatus
    <3> QED
      BY <3>1, StatusOnly
  <2>3. Numbered' /\ Sessions \subseteq Sessions' /\ s \in Sessions'
    BY <2>1, <2>2, SessionsWrite DEF Status
  <2>4. mem' = [mem EXCEPT ![p].sess = s] /\ pc' = [pc EXCEPT ![p] = "run"] /\ pc[p] = "insert"
    BY <1>6, <2>1 DEF EnsureInsert, Goto
  <2>5. mem'[p].sess = s /\ pc'[p] = "run"
    <3> HIDE DEF Cycler
    <3>1. p \in Proc
      BY DEF Cycler
    <3> HIDE DEF Proc
    <3> QED
      BY <2>4, <3>1 DEF TypeOK
  <2>6. KnownTo(p)'
    BY <2>3, <2>5 DEF KnownTo, Recording
  <2>7. \A q \in Cycler \ {p} : pc[q] \notin InCycle
    BY <2>4, Alone DEF InCycle
  <2>8. \A q \in Cycler \ {p} : KnownTo(q)'
    BY <1>1, <2>7 DEF KnownTo, Recording, InCycle
  <2>9. \A a \in Admin : Asked(a)'
    BY <1>2, <2>3 DEF SessionsInv, Asked
  <2>10. s \notin Sessions
    BY <2>1, LatestKnown, LatestInRange
  <2>11. PausedKept
    BY <2>2, <2>10, LatestKnown DEF PausedKept
  <2> QED
    BY <2>3, <2>6, <2>8, <2>9, <2>11 DEF SessionsInv
<1>7. CASE BeginRun(p) \/ Load(p) \/ TxRead(p)
  <2>1. UNCHANGED obs /\ pc[p] \in {"run", "load", "read"}
    BY <1>7 DEF BeginRun, Load, TxRead
  <2>2. mem'[p].sess = mem[p].sess
    <3>1. CASE BeginRun(p)
      <4>1. mem' = mem \/ \E r \in Unused : mem' = [mem EXCEPT ![p].run = r]
        BY <3>1 DEF BeginRun
      <4> QED
        BY <4>1 DEF TypeOK
    <3>2. CASE Load(p)
      BY <3>2 DEF Load, TypeOK
    <3>3. CASE TxRead(p)
      BY <3>3 DEF TxRead, TypeOK
    <3> QED
      BY <1>7, <3>1, <3>2, <3>3
  <2>3. mem[p].sess \in Sessions /\ Sessions' = Sessions
    BY <2>1 DEF SessionsInv, KnownTo, Recording, Sessions
  <2>4. mem[p].sess \in Session /\ obs[mem[p].sess].status \in Status
    BY <2>3 DEF Sessions, TypeOK, Row, Status
  <2>5. pc'[p] = "commit" => mem'[p].seen = obs[mem[p].sess]
    <3>1. CASE BeginRun(p)
      BY <3>1 DEF BeginRun, TypeOK, Goto
    <3>2. CASE Load(p)
      BY <3>2 DEF Load, TypeOK, Goto
    <3>3. CASE TxRead(p)
      BY <3>3 DEF TxRead, TypeOK
    <3> QED
      BY <1>7, <3>1, <3>2, <3>3
  <2>6. KnownTo(p)'
    BY <2>1, <2>2, <2>3, <2>4, <2>5 DEF KnownTo
  <2> QED
    BY <1>1, <1>2, <1>3, <2>1, <2>6, SessionsElsewhere
<1>8. CASE Commit(p) \/ CommitUnheard(p)
  <2>1. pc[p] = "commit" /\ pc'[p] \notin Recording \cup {"run"}
    BY <1>8 DEF Commit, CommitUnheard, Finish, Goto, Home, TypeOK, Recording
  <2>2. \A q \in Cycler : pc'[q] \notin Recording \cup {"run"}
    BY <1>1, <2>1, Alone DEF InCycle, Recording
  <2>3. PICK result \in Result : WriteCycle(p, result)
    BY <1>8 DEF Commit, CommitUnheard
  <2> QED
    BY <1>2, <2>1, <2>2, <2>3, PauseWrite
<1> QED
  BY <1>4, <1>5, <1>6, <1>7, <1>8 DEF CycleStep

\* What a request finds exists; what it writes is an admin's doing.
LEMMA PauseAdmin ==
  ASSUME TypeOK, Placed, SessionsInv, NEW a \in Admin, Ask(a) \/ Answer(a)
  PROVE  SessionsInv' /\ PausedKept
<1> USE ProcAssumption DEF Cycler, Proc
<1>1. /\ UNCHANGED <<engine, mem>>
      /\ \A q \in Proc \ {a} : pc'[q] = pc[q]
      /\ \A q \in Admin \ {a} : ask'[q] = ask[q]
  BY DEF Ask, Answer, Goto, TypeOK
<1>2. CASE Ask(a)
  <2>1. PICK action \in {"start", "pause", "resume", "complete"} :
          LET st == IF Latest = 0 THEN "NONE" ELSE obs[Latest].status IN
            /\ CASE action = "pause" -> st \notin {"NONE", "PAUSED"}
                 [] action = "complete" -> st # "NONE"
                 [] action = "resume" -> st \in {"NONE", "PAUSED"}
                 [] action = "start" -> st \in {"NONE", "PAUSED", "COMPLETED"}
            /\ ask' = [ask EXCEPT ![a] = [action |-> action, sess |-> Latest, status |-> st]]
    BY <1>2 DEF Ask
  <2>2. ask'[a].action \in {"pause", "complete"} \/ ask'[a].status = "PAUSED" => Latest # 0
    BY <2>1 DEF TypeOK
  <2>3. ask'[a].sess = Latest
    BY <2>1 DEF TypeOK
  <2>4. UNCHANGED obs /\ Sessions' = Sessions
    BY <1>2 DEF Ask, Sessions
  <2>5. Asked(a)'
    BY <2>2, <2>3, <2>4, LatestKnown, LatestInRange DEF Asked
  <2> QED
    BY <1>1, <2>4, <2>5, SessionsElsewhere DEF PausedKept
<1>3. CASE Answer(a)
  <2>1. PausedKept
    BY <1>3 DEF PausedKept, Answer, Goto, TypeOK
  <2>2. engine = "pglite" => \A q \in Cycler : pc[q] \notin InCycle
    BY <1>3 DEF Answer, MayEnter, Placed
  <2>3. ~ (pc'[a] = "write")
    BY <1>3 DEF Answer, Goto, TypeOK
  <2>4. CASE UNCHANGED obs
    BY <1>1, <2>1, <2>3, <2>4, SessionsElsewhere
  <2>5. ASSUME NEW s \in Session, s \in Sessions \/ s = Latest + 1, NEW st \in Status, SetStatus(s, st)
        PROVE  SessionsInv'
    <3>1. Numbered' /\ Sessions \subseteq Sessions'
      <4>1. \A t \in Session : obs'[t].status = IF t = s THEN st ELSE obs[t].status
        BY <2>5, StatusOnly DEF Status
      <4> QED
        BY <2>5, <4>1, SessionsWrite
    <3>2. \A q \in Cycler : KnownTo(q)'
      BY <1>1, <2>2, <3>1 DEF SessionsInv, KnownTo, Recording, InCycle
    <3>3. \A b \in Admin : Asked(b)'
      BY <1>1, <2>3, <3>1 DEF SessionsInv, Asked
    <3> QED
      BY <3>1, <3>2, <3>3 DEF SessionsInv
  <2>6. CASE Latest < MaxSessions /\ NewSession
    <3>1. Latest + 1 \in Session
      BY <2>6, LatestInRange, CollectorBounds DEF Session
    <3> QED
      BY <2>1, <2>5, <2>6, <3>1 DEF NewSession, Status, SetStatus
  <2>7. CASE ask[a].action \in {"pause", "complete"} \/ ask[a].status = "PAUSED"
    <3>1. ask[a].sess \in Sessions /\ ask[a].sess \in Session
      BY <1>3, <2>7 DEF Answer, SessionsInv, Asked, Sessions
    <3>2. \/ UNCHANGED obs
          \/ Latest < MaxSessions /\ NewSession
          \/ \E st \in Status : SetStatus(ask[a].sess, st)
      BY <1>3 DEF Answer, Status, SetStatus
    <3> QED
      BY <2>1, <2>4, <2>5, <2>6, <3>1, <3>2
  <2> QED
    BY <1>3, <2>1, <2>4, <2>6, <2>7 DEF Answer
<1> QED
  BY <1>2, <1>3

LEMMA PauseStep ==
  TypeOK /\ Placed /\ SessionsInv /\ [Next]_vars => SessionsInv' /\ PausedKept
<1> SUFFICES ASSUME TypeOK, Placed, SessionsInv, [Next]_vars
             PROVE  SessionsInv' /\ PausedKept
  OBVIOUS
<1> USE ProcAssumption DEF Cycler, Proc
<1>1. CASE UNCHANGED vars
  BY <1>1, SessionsElsewhere DEF vars, PausedKept
<1>2. ASSUME NEW w \in Worker, LeaseStep(w) PROVE SessionsInv' /\ PausedKept
  <2>1. UNCHANGED <<mem, obs, engine, ask>>
    BY <1>2 DEF LeaseStep, Boot, ClaimRead, ClaimWrite, Stop, Release
  <2>2. \A p \in Proc : pc'[p] = pc[p] \/ pc'[p] \in {"claim", "claimWrite", "loop", "stopping", "off"}
    BY <1>2 DEF LeaseStep, Boot, ClaimRead, ClaimWrite, Stop, Release, Goto, TypeOK
  <2> QED
    BY <2>1, <2>2, SessionsElsewhere DEF PausedKept, Recording
<1>3. CASE Tick \/ TargetReached
  BY <1>3, SessionsElsewhere DEF Tick, TargetReached, PausedKept
<1>4. ASSUME NEW p \in Proc, Crash(p) PROVE SessionsInv' /\ PausedKept
  <2>1. UNCHANGED <<obs, engine>>
    BY <1>4 DEF Crash
  <2>2. \A q \in Cycler : (pc'[q] = pc[q] /\ mem'[q] = mem[q]) \/ pc'[q] \in {"off", "idle"}
    BY <1>4 DEF Crash, AtRest
  <2>3. \A a \in Admin : (pc'[a] = pc[a] /\ ask'[a] = ask[a]) \/ pc'[a] \in {"off", "idle"}
    BY <1>4 DEF Crash, AtRest
  <2> QED
    BY <2>1, <2>2, <2>3, SessionsElsewhere DEF PausedKept, Recording
<1> QED
  BY <1>1, <1>2, <1>3, <1>4, PauseCycle, PauseAdmin DEF Next

\* On PGlite only an admin's request takes a session out of PAUSED.
THEOREM PauseIsKept == Spec => PauseHolds
<1>1. Init => TypeOK /\ Placed /\ SessionsInv
  BY InitTypes, PlacedInit, SessionsInit
<1>2. TypeOK /\ Placed /\ SessionsInv /\ [Next]_vars =>
        /\ (TypeOK /\ Placed /\ SessionsInv)'
        /\ [\A s \in Session :
              engine = "pglite" /\ obs[s].status = "PAUSED" /\ obs'[s].status # "PAUSED"
                => \E a \in Admin : pc[a] = "write" /\ pc'[a] = "idle"]_vars
  BY TypeStep, PlacedStep, PauseStep DEF PausedKept
<1> QED
  BY <1>1, <1>2, PTL DEF Spec, PauseHolds
=============================================================================
