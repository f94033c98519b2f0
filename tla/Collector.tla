------------------------------ MODULE Collector ------------------------------
(***************************************************************************)
(* The collector: background workers that claim a lease and run collection *)
(* cycles, manual refreshes that run the same cycle for a viewer, the      *)
(* observation session they record into, the runs, the opportunity         *)
(* lifecycles, and the admin who starts, pauses and completes the          *)
(* observation.                                                            *)
(*                                                                         *)
(* On PGlite there is one process and one serial queue: `lock` is its head *)
(* and a whole cycle holds it.  On PostgreSQL `lock` is the advisory lock, *)
(* `serial` is a no-op and every statement may interleave.                 *)
(*                                                                         *)
(* Abstractions.  Time is the interval bucket: Tick starts the next one    *)
(* and takes one unit off the lease.  A worker may always stall, since     *)
(* nothing forces it to move before a Tick.  Prices, snapshots, health     *)
(* events, route metrics, caches and the retention sweep are left out; the *)
(* paper cycle inside is PaperDesk.  An opportunity is its route; its id   *)
(* is the route with the run that opened it.  No session is NOT_STARTED,   *)
(* since no code inserts one.                                              *)
(***************************************************************************)
EXTENDS Integers, FiniteSets

CONSTANTS
  Worker,       \* background collectors: they own the heartbeat row
  Viewer,       \* processes serving a manual refresh
  Admin,        \* observation requests in flight
  Route,        \* ordered pairs of sources
  LeaseLen,     \* the lease, in buckets
  MaxRuns,      \* bound on the collection runs
  MaxSessions,  \* bound on the observation sessions
  MaxCrashes,   \* bound on process crashes
  TxFaults,     \* may a statement or a transaction fail
  ReadFaults    \* may loadLifecyclesForMerge fail and answer with nothing

Cycler == Worker \cup Viewer
Proc == Cycler \cup Admin
Run == 1 .. MaxRuns
Session == 1 .. MaxSessions
Free == "free"
\* A holder of the lease that crashed, on this host or on another one.
Gone == {"goneHere", "goneElsewhere"}
\* How a run ended: "short" is partial or failed, which count alike.
Result == {"success", "short"}
Lifecycle == Route \X Run

ASSUME ProcAssumption ==
  /\ Worker \cap Viewer = {} /\ Cycler \cap Admin = {}
  /\ Proc \cap (Gone \cup {Free, "nobody"}) = {}
ASSUME CollectorBounds ==
  /\ LeaseLen \in Nat \ {0} /\ MaxRuns \in Nat
  /\ MaxSessions \in Nat /\ MaxCrashes \in Nat
  /\ TxFaults \in BOOLEAN /\ ReadFaults \in BOOLEAN

VARIABLES
  engine,   \* which database DATABASE_URL names; never changes
  owner,    \* shadow_worker_heartbeat.worker_id
  left,     \* buckets until lease_expires_at; 0 when expired or null
  obs,      \* shadow_observation_sessions: status and cycle counters
  due,      \* sessions whose target duration has elapsed
  run,      \* shadow_collection_runs: session and status
  taken,    \* the run holding the current bucket's idempotency key, or 0
  active,   \* lifecycles with is_active
  ended,    \* lifecycles closed, ended_at set
  lock, pc,
  mem,      \* what a cycle has read
  ask,      \* what an admin request has read
  crashes

lease == <<owner, left>>
book == <<active, ended>>
vars == <<engine, lease, obs, due, run, taken, book, lock, pc, mem, ask, crashes>>

Blank == [sess |-> 0, run |-> 0, prev |-> {},
          seen |-> [status |-> "NONE", ok |-> 0, bad |-> 0]]
NoAsk == [action |-> "none", sess |-> 0, status |-> "NONE"]

Sessions == {s \in Session : obs[s].status # "NONE"}
\* latestSessionRow, 0 when there is none.
Latest == Cardinality(Sessions)
Unused == {r \in Run : run[r].status = "none"}
Committed(s, result) == {r \in Run : run[r] = [sess |-> s, status |-> result]}

Looping(w) == pc[w] \notin {"off", "claim", "claimWrite"}

Init ==
  /\ engine \in {"pglite", "postgres"}
  /\ owner = "nobody" /\ left = 0
  /\ obs = [s \in Session |-> [status |-> "NONE", ok |-> 0, bad |-> 0]]
  /\ due = {}
  /\ run = [r \in Run |-> [sess |-> 0, status |-> "none"]]
  /\ taken = 0
  /\ active = {} /\ ended = {}
  /\ lock = Free
  /\ pc = [p \in Proc |-> IF p \in Worker THEN "off" ELSE "idle"]
  /\ mem = [p \in Cycler |-> Blank]
  /\ ask = [a \in Admin |-> NoAsk]
  /\ crashes = 0

Goto(p, label) == pc' = [pc EXCEPT ![p] = label]
Home(p) == IF p \in Worker THEN "loop" ELSE "idle"

\* Mutation: the repository function is not wrapped in `serial`.
EnterAnytime == TRUE

\* A serial section waits for the PGlite queue; on PostgreSQL it never waits.
MayEnter == engine = "postgres" \/ lock = Free
Enter(p) == MayEnter /\ lock' = IF engine = "pglite" THEN p ELSE lock
Leave(p) == lock' = IF lock = p THEN Free ELSE lock

-----------------------------------------------------------------------------
(* The lease.                                                              *)

\* A process starts and waits for the lease.  PGlite has one collector.
Boot(w) ==
  /\ pc[w] = "off"
  /\ engine = "pglite" => \A v \in Worker : pc[v] = "off"
  /\ Goto(w, "claim")
  /\ UNCHANGED <<engine, lease, obs, due, run, taken, book, lock, mem, ask, crashes>>

\* Mutation: a lease whose row is not null counts as held, expired or not.
HeldForever(w) == owner \notin {w, "nobody", "goneHere"}

\* Another worker's unexpired lease, unless its process died on this host.
HeldAgainst(w) == left > 0 /\ owner # w /\ owner # "goneHere"

\* claimWorkerLease: the SELECT.  A refused worker sleeps and asks again.
ClaimRead(w) ==
  /\ pc[w] = "claim"
  /\ ~ HeldAgainst(w)
  /\ Enter(w)
  /\ Goto(w, "claimWrite")
  /\ UNCHANGED <<engine, lease, obs, due, run, taken, book, mem, ask, crashes>>

\* ... and the upsert.
ClaimWrite(w) ==
  /\ pc[w] = "claimWrite"
  /\ owner' = w /\ left' = LeaseLen
  /\ Leave(w)
  /\ Goto(w, "loop")
  /\ UNCHANGED <<engine, obs, due, run, taken, book, mem, ask, crashes>>

\* Mutation: the lease is extended from its old expiry instead of from now.
BeatAddsUp(p, extend) ==
  /\ owner' = IF p \in Worker THEN p ELSE owner
  /\ left' = IF p \in Worker /\ extend THEN left + LeaseLen ELSE left

\* touchHeartbeat writes its worker id whoever holds the lease.  A manual
\* refresh does not touch the row.
Beat(p, extend) ==
  /\ owner' = IF p \in Worker THEN p ELSE owner
  /\ left' = IF p \in Worker /\ extend THEN LeaseLen ELSE left

\* stop(): the loop ends, and the heartbeat says "stopped" ...
Stop(w) ==
  /\ pc[w] = "loop"
  /\ MayEnter
  /\ Beat(w, FALSE)
  /\ Goto(w, "stopping")
  /\ UNCHANGED <<engine, obs, due, run, taken, book, lock, mem, ask, crashes>>

\* ... then releaseWorkerLease clears the lease if the row still names it; a
\* failure is swallowed.  The process is gone either way.
Release(w) ==
  /\ pc[w] = "stopping"
  /\ MayEnter
  /\ IF owner # w THEN UNCHANGED lease
     ELSE \/ owner' = "nobody" /\ left' = 0
          \/ TxFaults /\ owner' \in Gone /\ UNCHANGED left
  /\ Goto(w, "off")
  /\ UNCHANGED <<engine, obs, due, run, taken, book, lock, mem, ask, crashes>>

-----------------------------------------------------------------------------
(* The collection cycle.                                                   *)

\* Mutation: a cycle starts without the lock.
BeginUnlocked(p) ==
  /\ pc[p] = Home(p)
  /\ lock' = p
  /\ Goto(p, "ensure")
  /\ UNCHANGED <<engine, lease, obs, due, run, taken, book, mem, ask, crashes>>

\* withShadowLock: a cycle is queued on PGlite and refused on PostgreSQL
\* while another one runs.
Begin(p) ==
  /\ pc[p] = Home(p)
  /\ lock = Free
  /\ Unused # {}
  /\ lock' = p
  /\ Goto(p, "ensure")
  /\ UNCHANGED <<engine, lease, obs, due, run, taken, book, mem, ask, crashes>>

\* ensureObservationSession finds the newest session; PAUSED ends the cycle.
EnsureRead(p) ==
  /\ pc[p] = "ensure"
  /\ mem' = [mem EXCEPT ![p].sess = Latest]
  /\ Goto(p, CASE Latest = 0 -> "insert"
               [] Latest # 0 /\ obs[Latest].status = "PAUSED" -> "away"
               [] OTHER -> "run")
  /\ UNCHANGED <<engine, lease, obs, due, run, taken, book, lock, ask, crashes>>

NewSession == obs' = [obs EXCEPT ![Latest + 1].status = "RUNNING"]

\* There was none: it is created.
EnsureInsert(p) ==
  /\ pc[p] = "insert"
  /\ Latest < MaxSessions
  /\ NewSession
  /\ mem' = [mem EXCEPT ![p].sess = Latest + 1]
  /\ Goto(p, "run")
  /\ UNCHANGED <<engine, lease, due, run, taken, book, lock, ask, crashes>>

\* beginCollectionRun: the unique key admits one regular run per bucket; an
\* event or a recovery cycle of a worker has a key of its own.  The heartbeat
\* "collecting" just before it extends the lease.
BeginRun(p) ==
  /\ pc[p] = "run"
  /\ Beat(p, TRUE)
  /\ \E forced \in IF p \in Worker THEN BOOLEAN ELSE {FALSE} :
       IF ~ forced /\ taken # 0
       THEN Goto(p, "away") /\ UNCHANGED <<run, taken, mem>>
       ELSE \E r \in Unused :
            /\ \A q \in Unused : r <= q
            /\ run' = [run EXCEPT ![r] = [sess |-> mem[p].sess, status |-> "running"]]
            /\ taken' = IF forced THEN taken ELSE r
            /\ mem' = [mem EXCEPT ![p].run = r]
            /\ Goto(p, "load")
  /\ UNCHANGED <<engine, obs, due, book, lock, ask, crashes>>

\* The market is collected, then loadLifecyclesForMerge reads what is open.
\* What was found is revealed when it is written.
Load(p) ==
  /\ pc[p] = "load"
  /\ \E prev \in {active} \cup (IF ReadFaults THEN {{}} ELSE {}) :
        mem' = [mem EXCEPT ![p].prev = prev]
  /\ Goto(p, "read")
  /\ UNCHANGED <<engine, lease, obs, due, run, taken, book, lock, ask, crashes>>

\* completeCollectionRun, one transaction: what it reads of the session ...
TxRead(p) ==
  /\ pc[p] = "read"
  /\ mem' = [mem EXCEPT ![p].seen = obs[mem[p].sess]]
  /\ Goto(p, "commit")
  /\ UNCHANGED <<engine, lease, obs, due, run, taken, book, lock, ask, crashes>>

\* Mutation: a route that comes back takes its closed lifecycle up again.
OpenedAgain(m, draft) ==
  {x \in ended : x[1] \in draft}
    \cup {<<r, m.run>> : r \in {r \in draft : \A x \in m.prev \cup ended : x[1] # r}}

\* mergeWithTransitions: routes without an open lifecycle get one, ...
Opened(m, draft) == {<<r, m.run>> : r \in {r \in draft : \A x \in m.prev : x[1] # r}}
\* ... routes that disappeared lose theirs, the others keep theirs.
Closed(m, draft) == {x \in m.prev : x[1] \notin draft}

Counted(row, result) ==
  [row EXCEPT !.ok = @ + (IF result = "success" THEN 1 ELSE 0),
              !.bad = @ + (IF result = "success" THEN 0 ELSE 1)]

\* The status the transaction writes, from the row it has read.
StatusAfter(s, row) ==
  LET live == IF row.status \in {"RUNNING", "DEGRADED"}
              THEN IF row.bad > row.ok THEN "DEGRADED" ELSE "RUNNING"
              ELSE row.status
  IN IF live # "PAUSED" /\ s \in due THEN "COMPLETED" ELSE live

\* ... and everything it writes: lifecycles, counters and status.
WriteCycle(p, result) ==
  LET m == mem[p]
      row == Counted(m.seen, result)
  IN /\ \E draft \in SUBSET Route :
          /\ active' = (active \cup m.prev \cup Opened(m, draft)) \ Closed(m, draft)
          /\ ended' = ended \cup Closed(m, draft)
     /\ obs' = [obs EXCEPT ![m.sess] = [row EXCEPT !.status = StatusAfter(m.sess, row)]]

MarkRun(p, mark) == run' = [run EXCEPT ![mem[p].run].status = mark]

\* The run and the rest commit; metrics and the paper cycle follow.
Commit(p) ==
  /\ pc[p] = "commit"
  /\ \E result \in Result : WriteCycle(p, result) /\ MarkRun(p, result)
  /\ mem' = [mem EXCEPT ![p] = Blank]
  /\ Goto(p, "rest")
  /\ UNCHANGED <<engine, lease, due, taken, lock, ask, crashes>>

\* The cycle is over: what it held in memory goes, and the lock is free.
Finish(p) ==
  /\ mem' = [mem EXCEPT ![p] = Blank]
  /\ Leave(p)
  /\ Goto(p, Home(p))

\* Mutation: the error path marks the run failed whatever its status is.
CommitClobbered(p) ==
  /\ TxFaults
  /\ pc[p] = "commit"
  /\ \E result \in Result : WriteCycle(p, result) /\ MarkRun(p, "aborted")
  /\ Finish(p)
  /\ UNCHANGED <<engine, lease, due, taken, ask, crashes>>

\* The transaction committed and the answer was lost: the error path finds
\* the run no longer "running" and leaves it.
CommitUnheard(p) ==
  /\ TxFaults
  /\ pc[p] = "commit"
  /\ \E result \in Result : WriteCycle(p, result) /\ MarkRun(p, result)
  /\ Finish(p)
  /\ UNCHANGED <<engine, lease, due, taken, ask, crashes>>

\* The transaction rolled back: a run still "running" is marked failed, here
\* "aborted", unless that fails too.
Rollback(p) ==
  /\ TxFaults
  /\ pc[p] \in {"read", "commit"}
  /\ \/ MarkRun(p, "aborted")
     \/ UNCHANGED run
  /\ Finish(p)
  /\ UNCHANGED <<engine, lease, obs, due, taken, book, ask, crashes>>

\* The closing heartbeat: "idle" extends the lease, "paused" and "duplicate"
\* do not.
Return(p) ==
  /\ pc[p] \in {"rest", "away"}
  /\ Beat(p, pc[p] = "rest")
  /\ Finish(p)
  /\ UNCHANGED <<engine, obs, due, run, taken, book, ask, crashes>>

\* Any other statement fails: the error reaches the loop, which goes on.
CycleThrows(p) ==
  /\ TxFaults
  /\ pc[p] \in {"ensure", "insert", "run", "load", "rest", "away"}
  /\ Finish(p)
  /\ UNCHANGED <<engine, lease, obs, due, run, taken, book, ask, crashes>>

CycleStep(p) ==
  EnsureRead(p) \/ EnsureInsert(p) \/ BeginRun(p) \/ Load(p)
    \/ TxRead(p) \/ Commit(p) \/ CommitUnheard(p) \/ Rollback(p) \/ Return(p)
    \/ CycleThrows(p)

-----------------------------------------------------------------------------
(* The admin: setObservationStatus reads the newest session in one serial  *)
(* section and writes in another.  A request that changes nothing has no   *)
(* step.                                                                   *)

Ask(a) ==
  /\ pc[a] = "idle"
  /\ MayEnter
  /\ \E action \in {"start", "pause", "resume", "complete"} :
       LET st == IF Latest = 0 THEN "NONE" ELSE obs[Latest].status IN
       /\ CASE action = "pause" -> st \notin {"NONE", "PAUSED"}
            [] action = "complete" -> st # "NONE"
            [] action = "resume" -> st \in {"NONE", "PAUSED"}
            [] action = "start" -> st \in {"NONE", "PAUSED", "COMPLETED"}
       /\ ask' = [ask EXCEPT ![a] = [action |-> action, sess |-> Latest, status |-> st]]
  /\ Goto(a, "write")
  /\ UNCHANGED <<engine, lease, obs, due, run, taken, book, lock, mem, crashes>>

Answer(a) ==
  /\ pc[a] = "write"
  /\ MayEnter
  /\ LET q == ask[a] IN
       \/ /\ q.action \in {"pause", "complete"}
          /\ obs' = [obs EXCEPT ![q.sess].status =
               IF q.action = "pause" THEN "PAUSED" ELSE "COMPLETED"]
       \/ /\ q.action \in {"start", "resume"} /\ q.status = "PAUSED"
          /\ obs' = [obs EXCEPT ![q.sess].status = "RUNNING"]
       \/ /\ q.action \in {"start", "resume"} /\ q.status \in {"NONE", "COMPLETED"}
          /\ IF Latest < MaxSessions THEN NewSession ELSE UNCHANGED obs
  /\ ask' = [ask EXCEPT ![a] = NoAsk]
  /\ Goto(a, "idle")
  /\ UNCHANGED <<engine, lease, due, run, taken, book, lock, mem, crashes>>

-----------------------------------------------------------------------------
(* The environment.                                                        *)

\* The next bucket begins.
Tick ==
  /\ left' = IF left > 0 THEN left - 1 ELSE 0
  /\ taken' = 0
  /\ UNCHANGED <<engine, owner, obs, due, run, book, lock, pc, mem, ask, crashes>>

\* The newest session reaches its target duration.
TargetReached ==
  /\ Latest # 0 /\ Latest \notin due
  /\ due' = due \cup {Latest}
  /\ UNCHANGED <<engine, lease, obs, run, taken, book, lock, pc, mem, ask, crashes>>

\* On PGlite everything lives in one process.
Crashed(p) == IF engine = "pglite" THEN Proc ELSE {p}
AtRest(p) == IF p \in Worker THEN "off" ELSE "idle"

Crash(p) ==
  /\ crashes < MaxCrashes
  /\ pc[p] # AtRest(p)
  /\ crashes' = crashes + 1
  /\ pc' = [q \in Proc |-> IF q \in Crashed(p) THEN AtRest(q) ELSE pc[q]]
  /\ mem' = [q \in Cycler |-> IF q \in Crashed(p) THEN Blank ELSE mem[q]]
  /\ ask' = [q \in Admin |-> IF q \in Crashed(p) THEN NoAsk ELSE ask[q]]
  /\ lock' = IF lock \in Crashed(p) THEN Free ELSE lock
  /\ IF owner \in Crashed(p) THEN owner' \in Gone ELSE UNCHANGED owner
  /\ UNCHANGED <<engine, left, obs, due, run, taken, book>>

LeaseStep(w) == Boot(w) \/ ClaimRead(w) \/ ClaimWrite(w) \/ Stop(w) \/ Release(w)

Next ==
  \/ \E w \in Worker : LeaseStep(w)
  \/ \E p \in Cycler : Begin(p) \/ CycleStep(p)
  \/ \E a \in Admin : Ask(a) \/ Answer(a)
  \/ Tick \/ TargetReached
  \/ \E p \in Proc : Crash(p)

Spec == Init /\ [][Next]_vars

\* Time passes; a cycle, a claim and a request that began are running code.
\* The waiting worker asks for ever and the PGlite queue is a FIFO, so its
\* SELECT is not overtaken for ever (SF).
FairSpec ==
  /\ Spec
  /\ WF_vars(Tick)
  /\ \A w \in Worker : SF_vars(ClaimRead(w)) /\ WF_vars(ClaimWrite(w))
  /\ \A p \in Cycler : WF_vars(CycleStep(p))
  /\ \A a \in Admin : SF_vars(Answer(a))

-----------------------------------------------------------------------------
(* Properties.                                                             *)

Row == [status : {"NONE", "RUNNING", "DEGRADED", "PAUSED", "COMPLETED"},
        ok : Nat, bad : Nat]

\* Types of the tables, of the lock and of what each process remembers.
TypeOK ==
  /\ engine \in {"pglite", "postgres"}
  /\ owner \in Worker \cup Gone \cup {"nobody"} /\ left \in 0 .. LeaseLen
  /\ obs \in [Session -> Row] /\ due \subseteq Session
  /\ run \in [Run -> [sess : 0 .. MaxSessions,
                      status : Result \cup {"none", "running", "aborted"}]]
  /\ taken \in 0 .. MaxRuns
  /\ active \subseteq Lifecycle /\ ended \subseteq Lifecycle
  /\ lock \in Proc \cup {Free}
  /\ pc \in [Proc -> {"off", "claim", "claimWrite", "loop", "stopping", "idle",
                      "ensure", "insert", "run", "load", "read", "commit",
                      "rest", "away", "write"}]
  /\ mem \in [Cycler -> [sess : 0 .. MaxSessions, run : 0 .. MaxRuns,
                         prev : SUBSET Lifecycle, seen : Row]]
  /\ ask \in [Admin -> [action : {"none", "start", "pause", "resume", "complete"},
                         sess : 0 .. MaxSessions,
                         status : {"NONE", "RUNNING", "DEGRADED", "PAUSED", "COMPLETED"}]]
  /\ crashes \in 0 .. MaxCrashes

\* One persistent opportunity stays one lifecycle: whoever holds the lease,
\* whatever crashes or rolls back, a route never has two open rows
\* (lifecycle.ts, mergeWithTransitions).
OneLifecyclePerRoute == \A x, y \in active : x[1] = y[1] => x = y

\* A closed lifecycle stays closed: no cycle writes back an opportunity that
\* a cycle it did not see has ended.
ClosedStaysClosed == active \cap ended = {}

\* The coverage an observation shows is earned: its counters equal the runs
\* of that session whose transaction committed, through retries, rollbacks,
\* lost answers and crashes (completeCollectionRun).
CountersMatchRuns ==
  \A s \in Session :
     /\ obs[s].ok = Cardinality(Committed(s, "success"))
     /\ obs[s].bad = Cardinality(Committed(s, "short"))

\* On PGlite a paused observation stays paused until an admin acts: no cycle,
\* also none that began before the pause, takes it back.
PauseHolds ==
  [][\A s \in Session :
        engine = "pglite" /\ obs[s].status = "PAUSED" /\ obs'[s].status # "PAUSED"
          => \E a \in Admin : pc[a] = "write" /\ pc'[a] = "idle"]_vars

\* The desk does not fall silent: while a worker waits for the lease, some
\* worker comes to run the loop, whoever crashed holding the lease
\* (acquireLeaseWithRetry).
SomeoneCollects ==
  \A w \in Worker : pc[w] = "claim" ~> (pc[w] = "off" \/ \E v \in Worker : Looping(v))
=============================================================================
