------------------------------ MODULE PaperDesk ------------------------------
(***************************************************************************)
(* The paper trading desk: sessions, their virtual book, the immutable     *)
(* ledger, the paper cycle the collector runs, and the admin's lifecycle   *)
(* operations, all of them over one shared database.                       *)
(*                                                                         *)
(* A worker runs paper cycles (runPaperCycle and commitPaperCycle); an     *)
(* admin is one request in flight in the paper route.  Every step is one   *)
(* statement or one transaction, so the interleavings are those of the     *)
(* database.  On PGlite a whole cycle, and a whole serial section of an    *)
(* admin, hold the one serial queue.  On PostgreSQL `serial` is a no-op:   *)
(* cycles exclude one another through the advisory lock and nothing        *)
(* excludes an admin.                                                      *)
(*                                                                         *)
(* Abstractions.  The engine's decision list is a function of what Load    *)
(* read, so it is revealed one fill at a time (StartFill) instead of being *)
(* computed at once.  A fill moves fixed amounts per lifecycle.  Candidate *)
(* state rows, detail rows and summaries are read by no guard here and are *)
(* left out, as is the experiment gate.                                    *)
(***************************************************************************)
EXTENDS Integers, FiniteSets

CONSTANTS
  Lifecycle,    \* opportunity lifecycles a session may settle
  Venue,        \* exchanges holding a virtual balance
  Worker,       \* processes running the collector
  Admin,        \* admin requests in flight
  MaxSessions,  \* bound on the sessions ever created
  Engine,       \* "pglite" or "postgres"
  DbFaults,     \* may a database statement of a cycle fail
  MaxCrashes,   \* bound on process crashes
  Opening,      \* Opening[v][x]: the opening balance of asset x on venue v
  Legs,         \* Legs[l]: the buy and the sell venue of l
  Delta         \* Delta[o][l][v][x]: what outcome o of l moves

Session == 1 .. MaxSessions
Asset == {"irt", "usdt"}
Proc == Worker \cup Admin
Free == "free"
NoSession == 0
Outcome == {"FILLED", "LEG_RISK"}
Status == {"NOT_STARTED", "RUNNING", "PAUSED", "STOPPED"}
Purse == [Asset -> Int]
Book == [Venue -> Purse]
EmptyBook == [v \in Venue |-> [x \in Asset |-> 0]]

ASSUME EngineAssumption == Engine \in {"pglite", "postgres"}
ASSUME ProcAssumption == Worker \cap Admin = {} /\ Free \notin Proc
ASSUME BoundAssumption ==
  MaxSessions \in Nat /\ MaxCrashes \in Nat /\ DbFaults \in BOOLEAN
\* An opening balance is clamped at zero before it is written.
ASSUME OpeningAssumption ==
  /\ Opening \in Book
  /\ \A v \in Venue, x \in Asset : Opening[v][x] >= 0
\* A fill moves balances on its own two venues only.
ASSUME DeltaAssumption ==
  /\ Legs \in [Lifecycle -> SUBSET Venue]
  /\ Delta \in [Outcome -> [Lifecycle -> Book]]
  /\ \A o \in Outcome, l \in Lifecycle : \A v \in Venue \ Legs[l], x \in Asset :
        Delta[o][l][v][x] = 0

VARIABLES
  status,    \* shadow_paper_sessions.status; "NONE" before the row exists
  rows,      \* venues whose balance row has been inserted
  balances,  \* shadow_paper_balances
  posted,    \* opening rows plus what the settled ledger rows add up to
  settled,   \* the FILLED or LEG_RISK ledger row per session and lifecycle
  closed,    \* shadow_paper_leg_risk_closures
  trades,    \* shadow_paper_sessions.trades_executed
  ended,     \* sessions whose endsAt has passed
  lock,      \* holder of the serial queue, or of the advisory lock
  pc, sess, goal,               \* where a process is, on which session
  known, loaded, work,          \* what a cycle read: settled ids, book
  offer, filled,                \* the fill in flight; fills done so far
  crashes

db == <<status, rows, balances, posted, settled, closed, trades>>
mind == <<known, loaded, work, offer, filled>>
vars == <<db, ended, lock, pc, sess, goal, mind, crashes>>

Exists == {s \in Session : status[s] # "NONE"}
NotStopped == {s \in Exists : status[s] # "STOPPED"}

\* getActivePaperSession: the newest session that is not stopped.
IsActive(s) == s \in NotStopped /\ \A t \in NotStopped : t <= s

\* listUnresolvedLegRiskRows
Unresolved(s) == {l \in Lifecycle : settled[s][l] = "LEG_RISK"} \ closed[s]

\* Mutation: the idempotency memory forgets LEG_RISK rows.
FilledOnly(s) == {l \in Lifecycle : settled[s][l] = "FILLED"}

\* loadFilledLifecycleIds
SettledSet(s) == {l \in Lifecycle : settled[s][l] # "none"}

Plus(book, delta) == [v \in Venue |-> [x \in Asset |-> book[v][x] + delta[v][x]]]

-----------------------------------------------------------------------------
(* Initially the database is empty and every process is idle.              *)

Init ==
  /\ status = [s \in Session |-> "NONE"]
  /\ rows = [s \in Session |-> {}]
  /\ balances = [s \in Session |-> EmptyBook]
  /\ posted = [s \in Session |-> EmptyBook]
  /\ settled = [s \in Session |-> [l \in Lifecycle |-> "none"]]
  /\ closed = [s \in Session |-> {}]
  /\ trades = [s \in Session |-> 0]
  /\ ended = {}
  /\ lock = Free
  /\ pc = [p \in Proc |-> "idle"]
  /\ sess = [p \in Proc |-> NoSession]
  /\ goal = [a \in Admin |-> "STOPPED"]
  /\ known = [w \in Worker |-> {}]
  /\ loaded = [w \in Worker |-> {}]
  /\ work = [w \in Worker |-> EmptyBook]
  /\ offer = [w \in Worker |-> <<>>]
  /\ filled = [w \in Worker |-> 0]
  /\ crashes = 0

-----------------------------------------------------------------------------
(* The paper cycle.                                                        *)

Goto(p, label) == pc' = [pc EXCEPT ![p] = label]

\* The cycle returns, or throws into runPaperExecutionIsolated: either way
\* what it held in memory is gone and the lock is released.
Finish(w) ==
  /\ Goto(w, "idle")
  /\ sess' = [sess EXCEPT ![w] = NoSession]
  /\ known' = [known EXCEPT ![w] = {}]
  /\ loaded' = [loaded EXCEPT ![w] = {}]
  /\ work' = [work EXCEPT ![w] = EmptyBook]
  /\ offer' = [offer EXCEPT ![w] = <<>>]
  /\ filled' = [filled EXCEPT ![w] = 0]
  /\ lock' = Free

\* Mutation: a collector does not wait for the other one's cycle.
BeginUnlocked(w) ==
  /\ pc[w] = "idle"
  /\ lock' = w
  /\ Goto(w, "gate")
  /\ UNCHANGED <<db, ended, sess, goal, mind, crashes>>

\* withShadowLock: the advisory lock, or the serial queue on PGlite.  The cycle
\* reaches the desk, or it is "blind": an admin has the observation session
\* PAUSED, or the market part of the cycle throws or fails.
Begin(w) ==
  /\ pc[w] = "idle"
  /\ lock = Free
  /\ lock' = w
  /\ \E label \in {"gate", "blind"} : Goto(w, label)
  /\ UNCHANGED <<db, ended, sess, goal, mind, crashes>>

\* A blind cycle returns without a look at the desk.
Blind(w) ==
  /\ pc[w] = "blind"
  /\ Finish(w)
  /\ UNCHANGED <<db, ended, goal, crashes>>

\* There is no session, or it is not RUNNING; a failed read answers "no session".
GateClosed(w) ==
  /\ pc[w] = "gate"
  /\ DbFaults \/ ~ \E s \in Session : IsActive(s) /\ status[s] = "RUNNING"
  /\ Finish(w)
  /\ UNCHANGED <<db, ended, goal, crashes>>

\* The newest live session runs: past its endsAt it is stopped, otherwise the
\* cycle goes on to the delayed observations.
GateOpen(w) ==
  /\ pc[w] = "gate"
  /\ \E s \in Session :
        /\ IsActive(s) /\ status[s] = "RUNNING"
        /\ sess' = [sess EXCEPT ![w] = s]
        /\ Goto(w, IF s \in ended THEN "stop" ELSE "observe")
  /\ UNCHANGED <<db, ended, lock, goal, mind, crashes>>

\* Mutation: the cycle returns without stopping the elapsed session.
StopForgotten(w) ==
  /\ pc[w] \in {"stop", "stopLate"}
  /\ Finish(w)
  /\ UNCHANGED <<db, ended, goal, crashes>>

\* setPaperSessionStatus(id, "STOPPED") of an elapsed session.
StopElapsed(w) ==
  /\ pc[w] \in {"stop", "stopLate"}
  /\ status' = [status EXCEPT ![sess[w]] = "STOPPED"]
  /\ Finish(w)
  /\ UNCHANGED <<rows, balances, posted, settled, closed, trades, ended, goal, crashes>>

\* At the gate a failed stop is swallowed and the cycle goes on.
StopFails(w) ==
  /\ DbFaults
  /\ pc[w] = "stop"
  /\ Goto(w, "observe")
  /\ UNCHANGED <<db, ended, lock, sess, goal, mind, crashes>>

\* The observations took seconds: the session must still be the active one,
\* RUNNING and before its endsAt.
RecheckFails(w) ==
  /\ pc[w] = "observe"
  /\ DbFaults \/ ~ (IsActive(sess[w]) /\ status[sess[w]] = "RUNNING")
  /\ Finish(w)
  /\ UNCHANGED <<db, ended, goal, crashes>>

Recheck(w) ==
  /\ pc[w] = "observe"
  /\ IsActive(sess[w]) /\ status[sess[w]] = "RUNNING"
  /\ Goto(w, IF sess[w] \in ended THEN "stopLate" ELSE "load")
  /\ UNCHANGED <<db, ended, lock, sess, goal, mind, crashes>>

\* loadPaperBalances and loadFilledLifecycleIds: a failed read is swallowed
\* and answers with nothing.
Load(w) ==
  LET s == sess[w] IN
  /\ pc[w] = "load"
  /\ \E ids \in {SettledSet(s)} \cup (IF DbFaults THEN {{}} ELSE {}) :
        known' = [known EXCEPT ![w] = ids]
  /\ \E vs \in {rows[s]} \cup (IF DbFaults THEN {{}} ELSE {}) :
        loaded' = [loaded EXCEPT ![w] = vs]
  /\ work' = [work EXCEPT ![w] = balances[s]]
  /\ Goto(w, "fills")
  /\ UNCHANGED <<db, ended, lock, sess, goal, offer, filled, crashes>>

\* Mutation: the engine does not look at the balances.
AffordsAnything(w, o, l) == Legs[l] \subseteq loaded[w]

\* The engine executes l only when both venues have a balance record and the
\* reservation book can settle both legs without going negative.
Affords(w, o, l) ==
  /\ Legs[l] \subseteq loaded[w]
  /\ \A v \in Legs[l], x \in Asset : work[w][v][x] + Delta[o][l][v][x] >= 0

\* The next EXECUTE decision reaches commitPaperCycle, whose transaction
\* begins by reading the session's status.
StartFill(w) ==
  /\ pc[w] = "fills"
  /\ \E l \in Lifecycle \ known[w], o \in Outcome :
        /\ Affords(w, o, l)
        /\ known' = [known EXCEPT ![w] = @ \cup {l}]
        /\ work' = [work EXCEPT ![w] = Plus(@, Delta[o][l])]
        /\ offer' = [offer EXCEPT ![w] = <<l, o>>]
  /\ status[sess[w]] = "RUNNING"
  /\ Goto(w, "tx")
  /\ UNCHANGED <<db, ended, lock, sess, goal, loaded, filled, crashes>>

\* The transaction finds the session no longer RUNNING and throws: earlier
\* fills of the cycle stay committed, the counters are never bumped.
FillRefused(w) ==
  /\ pc[w] = "fills"
  /\ status[sess[w]] # "RUNNING"
  /\ \E l \in Lifecycle \ known[w], o \in Outcome : Affords(w, o, l)
  /\ Finish(w)
  /\ UNCHANGED <<db, ended, goal, crashes>>

\* LEG_RISK is the last decision of a cycle.
NextFill(w, o) == Goto(w, IF o = "LEG_RISK" THEN "bump" ELSE "fills")

\* The rest of the transaction: the ledger row under its unique key, PAUSED
\* for a LEG_RISK outcome, and the absolute balances of the two venues.
InsertFill(w) ==
  /\ pc[w] = "tx"
  /\ LET s == sess[w]
         l == offer[w][1]
         o == offer[w][2]
     IN /\ settled[s][l] = "none"
        /\ settled' = [settled EXCEPT ![s][l] = o]
        /\ posted' = [posted EXCEPT ![s] = Plus(@, Delta[o][l])]
        /\ status' = IF o = "LEG_RISK" THEN [status EXCEPT ![s] = "PAUSED"] ELSE status
        /\ balances' = [balances EXCEPT ![s] =
             [v \in Venue |-> IF v \in Legs[l] THEN work[w][v] ELSE balances[s][v]]]
        /\ filled' = [filled EXCEPT ![w] = @ + (IF o = "FILLED" THEN 1 ELSE 0)]
        /\ NextFill(w, o)
  /\ UNCHANGED <<rows, closed, trades, ended, lock, sess, goal, known, loaded,
                 work, offer, crashes>>

\* Mutation: a refused duplicate is counted as a fill.
DuplicateCounted(w) ==
  /\ pc[w] = "tx"
  /\ settled[sess[w]][offer[w][1]] # "none"
  /\ filled' = [filled EXCEPT ![w] = @ + 1]
  /\ NextFill(w, offer[w][2])
  /\ UNCHANGED <<db, ended, lock, sess, goal, known, loaded, work, offer, crashes>>

\* The unique key refuses the row: the transaction is rolled back, the
\* duplicate is counted and the loop goes on to the next fill.
DuplicateFill(w) ==
  /\ pc[w] = "tx"
  /\ settled[sess[w]][offer[w][1]] # "none"
  /\ NextFill(w, offer[w][2])
  /\ UNCHANGED <<db, ended, lock, sess, goal, mind, crashes>>

\* No decision is left: the cycle summary and the session's lastCycleAt.
EndFills(w) ==
  /\ pc[w] = "fills"
  /\ Goto(w, "bump")
  /\ UNCHANGED <<db, ended, lock, sess, goal, mind, crashes>>

\* bumpSessionCounters; the read and the write are one step, since only the
\* holder of the lock writes the counters.
BumpCounters(w) ==
  /\ pc[w] = "bump"
  /\ trades' = [trades EXCEPT ![sess[w]] = @ + filled[w]]
  /\ Finish(w)
  /\ UNCHANGED <<status, rows, balances, posted, settled, closed, ended, goal, crashes>>

\* A statement of the cycle fails.  The error reaches the isolating wrapper,
\* whichever statement it was; in the counters it is swallowed.
CycleThrows(w) ==
  /\ DbFaults
  /\ pc[w] \in {"stopLate", "load", "fills", "tx", "bump"}
  /\ Finish(w)
  /\ UNCHANGED <<db, ended, goal, crashes>>

Gate(w) == Blind(w) \/ GateClosed(w) \/ GateOpen(w) \/ StopElapsed(w) \/ StopFails(w)
Arrive(w) == RecheckFails(w) \/ Recheck(w) \/ Load(w)
Commit(w) ==
  StartFill(w) \/ FillRefused(w) \/ InsertFill(w) \/ DuplicateFill(w)
    \/ EndFills(w) \/ BumpCounters(w) \/ CycleThrows(w)
Cycle(w) == Begin(w) \/ Gate(w) \/ Arrive(w) \/ Commit(w)

-----------------------------------------------------------------------------
(* The admin's operations.                                                 *)

\* Mutation: the repository function is not wrapped in `serial`.
EnterAnytime == TRUE

\* A serial section waits for the PGlite queue; on PostgreSQL it never waits.
MayEnter == Engine = "postgres" \/ lock = Free
Enter(a) == MayEnter /\ lock' = IF Engine = "pglite" THEN a ELSE lock
Leave(a) == lock' = IF lock = a THEN Free ELSE lock
Done(a) == Goto(a, "idle") /\ sess' = [sess EXCEPT ![a] = NoSession]

\* Mutation: the action's name is stored instead of the status it stands for.
RequestUnmapped(a) ==
  /\ pc[a] = "idle"
  /\ MayEnter
  /\ \E s \in Exists, action \in {"start", "resume", "pause", "stop"} :
        /\ sess' = [sess EXCEPT ![a] = s]
        /\ goal' = [goal EXCEPT ![a] = action]
  /\ Goto(a, "decide")
  /\ UNCHANGED <<db, ended, lock, mind, crashes>>

\* The route reads its target and answers 409 when the action does not apply;
\* only requests that go on are modelled.
Request(a) ==
  /\ pc[a] = "idle"
  /\ MayEnter
  /\ \E s \in Exists, action \in {"start", "resume", "pause", "stop"} :
        /\ status[s] # "STOPPED"
        /\ action = "resume" => status[s] = "PAUSED"
        /\ action = "pause" => status[s] = "RUNNING"
        /\ sess' = [sess EXCEPT ![a] = s]
        /\ goal' = [goal EXCEPT ![a] =
             CASE action \in {"start", "resume"} -> "RUNNING"
               [] action = "pause" -> "PAUSED"
               [] action = "stop" -> "STOPPED"]
  /\ Goto(a, "decide")
  /\ UNCHANGED <<db, ended, lock, mind, crashes>>

\* setPaperSessionStatus refuses RUNNING while leg exposure is unresolved.
LegRiskConflict(a) ==
  /\ pc[a] = "decide"
  /\ MayEnter
  /\ goal[a] = "RUNNING" /\ Unresolved(sess[a]) # {}
  /\ Done(a)
  /\ UNCHANGED <<db, ended, lock, goal, mind, crashes>>

\* Mutation: RUNNING is written without asking for unresolved leg exposure.
DecideUnchecked(a) ==
  /\ pc[a] = "decide"
  /\ Enter(a)
  /\ Goto(a, "write")
  /\ UNCHANGED <<db, ended, sess, goal, mind, crashes>>

Decide(a) ==
  /\ pc[a] = "decide"
  /\ goal[a] = "RUNNING" => Unresolved(sess[a]) = {}
  /\ Enter(a)
  /\ Goto(a, "write")
  /\ UNCHANGED <<db, ended, sess, goal, mind, crashes>>

\* The unconditional UPDATE at the end of setPaperSessionStatus.
WriteStatus(a) ==
  /\ pc[a] = "write"
  /\ status' = [status EXCEPT ![sess[a]] = goal[a]]
  /\ Leave(a)
  /\ Done(a)
  /\ UNCHANGED <<rows, balances, posted, settled, closed, trades, ended, goal, mind, crashes>>

\* createPaperSession: the session row first, NOT_STARTED, ...
Create(a) ==
  /\ pc[a] = "idle"
  /\ Enter(a)
  /\ \E s \in Session :
        /\ s \notin Exists /\ \A t \in Session : t < s => t \in Exists
        /\ status' = [status EXCEPT ![s] = "NOT_STARTED"]
        /\ sess' = [sess EXCEPT ![a] = s]
  /\ Goto(a, "book")
  /\ UNCHANGED <<rows, balances, posted, settled, closed, trades, ended, goal, mind, crashes>>

\* ... then one balance row per venue.
InsertBalance(a) ==
  /\ pc[a] = "book"
  /\ \E v \in Venue \ rows[sess[a]] :
        /\ rows' = [rows EXCEPT ![sess[a]] = @ \cup {v}]
        /\ balances' = [balances EXCEPT ![sess[a]][v] = Opening[v]]
        /\ posted' = [posted EXCEPT ![sess[a]][v] = Opening[v]]
  /\ UNCHANGED <<status, settled, closed, trades, ended, lock, pc, sess, goal, mind, crashes>>

Created(a) ==
  /\ pc[a] = "book"
  /\ rows[sess[a]] = Venue
  /\ Leave(a)
  /\ Done(a)
  /\ UNCHANGED <<db, ended, goal, mind, crashes>>

\* reconcilePaperLegRisk: the audited closure; the ledger row and the
\* balances stay as they are.
Reconcile(a) ==
  /\ pc[a] = "idle"
  /\ MayEnter
  /\ \E s \in Exists : \E l \in Unresolved(s) :
        closed' = [closed EXCEPT ![s] = @ \cup {l}]
  /\ UNCHANGED <<status, rows, balances, posted, settled, trades, ended, lock,
                 pc, sess, goal, mind, crashes>>

AdminStep(a) ==
  Request(a) \/ LegRiskConflict(a) \/ Decide(a) \/ WriteStatus(a)
    \/ Create(a) \/ InsertBalance(a) \/ Created(a) \/ Reconcile(a)

-----------------------------------------------------------------------------
(* The environment.                                                        *)

\* A session's endsAt passes.
Elapse ==
  /\ \E s \in Exists \ ended : ended' = ended \cup {s}
  /\ UNCHANGED <<db, lock, pc, sess, goal, mind, crashes>>

\* A crash loses what the process held in memory and its lock or queue slot.
\* On PGlite the database lives in the one process, so everything goes.
Crashed(p) == IF Engine = "pglite" THEN Proc ELSE {p}

Crash(p) ==
  /\ crashes < MaxCrashes
  /\ crashes' = crashes + 1
  /\ pc[p] # "idle"
  /\ pc' = [q \in Proc |-> IF q \in Crashed(p) THEN "idle" ELSE pc[q]]
  /\ sess' = [q \in Proc |-> IF q \in Crashed(p) THEN NoSession ELSE sess[q]]
  /\ known' = [w \in Worker |-> IF w \in Crashed(p) THEN {} ELSE known[w]]
  /\ loaded' = [w \in Worker |-> IF w \in Crashed(p) THEN {} ELSE loaded[w]]
  /\ work' = [w \in Worker |-> IF w \in Crashed(p) THEN EmptyBook ELSE work[w]]
  /\ offer' = [w \in Worker |-> IF w \in Crashed(p) THEN <<>> ELSE offer[w]]
  /\ filled' = [w \in Worker |-> IF w \in Crashed(p) THEN 0 ELSE filled[w]]
  /\ lock' = IF lock \in Crashed(p) THEN Free ELSE lock
  /\ UNCHANGED <<db, ended, goal>>

Next ==
  \/ \E w \in Worker : Cycle(w)
  \/ \E a \in Admin : AdminStep(a)
  \/ Elapse
  \/ \E p \in Proc : Crash(p)

Spec == Init /\ [][Next]_vars

\* The scheduler keeps asking for a cycle, and the serial queue is a FIFO: the
\* cycle gets its turn however often admins take theirs (SF), but nothing
\* says that it is not blind.  A cycle that started goes on, and so does a
\* request being handled; nothing makes an admin act.  The read at the gate
\* and the statement that stops an elapsed session are assumed not to fail
\* for ever.
Fairness ==
  /\ SF_vars(\E w \in Worker : StopElapsed(w))
  /\ SF_vars(\E w \in Worker : GateOpen(w))
  /\ SF_vars(\E w \in Worker : Begin(w))
  /\ WF_vars(\E w \in Worker : Cycle(w))
  /\ \A a \in Admin :
       WF_vars(LegRiskConflict(a) \/ Decide(a) \/ WriteStatus(a)
                 \/ InsertBalance(a) \/ Created(a))

FairSpec == Spec /\ Fairness

-----------------------------------------------------------------------------
(* Properties.                                                             *)

\* Every variable stays in its type: the one type invariant of the module.
TypeOK ==
  /\ status \in [Session -> Status \cup {"NONE"}]
  /\ rows \in [Session -> SUBSET Venue]
  /\ balances \in [Session -> Book]
  /\ posted \in [Session -> Book]
  /\ settled \in [Session -> [Lifecycle -> Outcome \cup {"none"}]]
  /\ closed \in [Session -> SUBSET Lifecycle]
  /\ trades \in [Session -> Nat]
  /\ ended \in SUBSET Session
  /\ lock \in Proc \cup {Free}
  /\ pc \in [Proc -> {"idle", "blind", "gate", "stop", "observe", "stopLate", "load",
                      "fills", "tx", "bump", "decide", "write", "book"}]
  /\ sess \in [Proc -> Session \cup {NoSession}]
  /\ goal \in [Admin -> {"RUNNING", "PAUSED", "STOPPED"}]
  /\ known \in [Worker -> SUBSET Lifecycle]
  /\ loaded \in [Worker -> SUBSET Venue]
  /\ work \in [Worker -> Book]
  /\ offer \in [Worker -> (Lifecycle \X Outcome) \cup {<<>>}]
  /\ filled \in [Worker -> Nat]
  /\ crashes \in 0 .. MaxCrashes

\* The virtual book always equals its opening plus every settled ledger row,
\* although each fill writes absolute balances computed from a book read long
\* before: crashes between fills, refused fills and admin requests included.
BookMatchesLedger ==
  \A s \in Session : \A v \in rows[s] : balances[s][v] = posted[s][v]

\* No venue balance ever goes negative.
NonNegativeBook ==
  \A s \in Session, v \in Venue, x \in Asset : balances[s][v][x] >= 0

\* Two paper cycles are never past the lock at once, on any session.
OneCycleAtATime ==
  \A w1, w2 \in Worker : pc[w1] # "idle" /\ pc[w2] # "idle" => w1 = w2

\* A session with unresolved leg exposure is not RUNNING: the LEG_RISK fill
\* pauses it and every way back to RUNNING asks for the closure first.
LegRiskHalts ==
  \A s \in Session : status[s] = "RUNNING" => Unresolved(s) = {}

\* A ledger row is settled only at a moment the session is RUNNING.
SettlesOnlyWhileRunning ==
  [][\A s \in Session : settled'[s] # settled[s] => status[s] = "RUNNING"]_vars

\* The reporting counter tradesExecuted may lag behind the ledger after a crash
\* or a refused cycle, but it never runs ahead of it, duplicates included.
CountersNeverOvercount ==
  \A s \in Session :
     trades[s] =< Cardinality({l \in Lifecycle : settled[s][l] = "FILLED"})

\* A RUNNING session past its endsAt does not stay the running session: a
\* later cycle stops it, or an admin has paused it or opened a newer one.
\* Only blind cycles put that off, each until the next: as long as cycles go
\* on being blind, because an admin leaves the observation session PAUSED or
\* no market cycle succeeds, the session stays RUNNING.
ElapsedSessionStops ==
  \A s \in Session :
     (s \in ended /\ status[s] = "RUNNING" /\ IsActive(s))
        ~> \/ ~ (status[s] = "RUNNING" /\ IsActive(s))
           \/ \E w \in Worker : pc[w] = "blind"
=============================================================================
