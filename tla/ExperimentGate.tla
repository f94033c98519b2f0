---------------------------- MODULE ExperimentGate ----------------------------
(***************************************************************************)
(* The dated paper experiment: the startup bootstrap that creates it once, *)
(* and the gate of the paper cycle that closes it when its endsAt passes.  *)
(*                                                                         *)
(* A container reconciles the release (runReleaseBootstrap), boots the     *)
(* experiment (runPaperExperimentBootstrap) and only then runs cycles; a   *)
(* new one may boot while the old one still runs.  Every action is one     *)
(* database statement, or one transaction but for the fills' (its read and *)
(* its writes are apart).  The book, what a fill moves and the window      *)
(* between an admin's check and his write are PaperDesk's.  Of the         *)
(* release, its evidence rows and its capital plan are left out: what they *)
(* decide is whether it goes on.                                           *)
(***************************************************************************)
EXTENDS Integers, FiniteSets

CONSTANTS
  Container,    \* application containers sharing the database
  MaxSessions,  \* bound on the sessions ever created
  DbFaults,     \* may a database statement fail
  MaxCrashes    \* bound on container crashes

Session == 1 .. MaxSessions
NoSession == 0
Cycling == {"blind", "gate", "close", "stop", "observe", "arrive", "fills", "settle"}
Preparing == {"prepare", "create", "start", "insert"}
Booting == {"expire", "bootClose", "bootStop", "lookup", "mark"} \cup Preparing
Releasing == {"release", "relPlan", "relCreate", "relStart", "relMark"}

ASSUME BoundAssumption ==
  MaxSessions \in Nat /\ MaxCrashes \in Nat /\ DbFaults \in BOOLEAN

VARIABLES
  status,   \* shadow_paper_sessions.status; "NONE" before the row exists
  taken,    \* history: STOPPED sessions an admin or a release stopped
  applied,  \* the shadow_release_bootstrap row of the release key
  run,      \* shadow_paper_experiments.status of the one run key
  bound,    \* its session
  elapsed,  \* has its endsAt passed
  marker,   \* the shadow_release_bootstrap row of the run key
  pc, sess, \* where a container is, on which session
  late,     \* had the experiment of sess ended when the cycle last looked
  raced,    \* history: have two bootstraps been preparing the run at once
  crashes

db == <<status, taken, applied, run, bound, marker>>
vars == <<db, elapsed, pc, sess, late, raced, crashes>>

Exists == {s \in Session : status[s] # "NONE"}
NotStopped == {s \in Exists : status[s] # "STOPPED"}

\* getActivePaperSession: the newest session that is not stopped.
IsActive(s) == s \in NotStopped /\ \A t \in NotStopped : t <= s

\* An ACTIVE experiment that experimentIsOpen refuses.
Expired == run = "ACTIVE" /\ elapsed

\* The database may hold a session from before the experiment's release.
Init ==
  /\ status \in {[s \in Session |-> IF s = 1 THEN old ELSE "NONE"] :
                   old \in {"NONE", "NOT_STARTED", "RUNNING", "PAUSED"}}
  /\ taken = {}
  /\ applied \in BOOLEAN
  /\ run = "none" /\ bound = NoSession
  /\ elapsed = FALSE
  /\ marker = FALSE
  /\ pc = [c \in Container |-> "down"]
  /\ sess = [c \in Container |-> NoSession]
  /\ late = [c \in Container |-> FALSE]
  /\ raced = FALSE
  /\ crashes = 0

Goto(c, label) == pc' = [pc EXCEPT ![c] = label]
Move(c, from, to) == pc[c] = from /\ Goto(c, to)

\* The bootstrap or the cycle is over, and what it knew is gone.
Finish(c) ==
  /\ Goto(c, "collect")
  /\ sess' = [sess EXCEPT ![c] = NoSession]
  /\ late' = [late EXCEPT ![c] = FALSE]

\* getActivePaperSession and the write of STOPPED.
StopActive == status' = [s \in Session |-> IF IsActive(s) THEN "STOPPED" ELSE status[s]]

\* createPaperSession.
NewSession(c) ==
  \E s \in Session \ Exists :
     /\ \A t \in Session : t < s => t \in Exists
     /\ status' = [status EXCEPT ![s] = "NOT_STARTED"]
     /\ sess' = [sess EXCEPT ![c] = s]

-----------------------------------------------------------------------------
(* runReleaseBootstrap.                                                    *)

Boot(c) ==
  /\ Move(c, "down", "release")
  /\ UNCHANGED <<db, elapsed, sess, late, raced, crashes>>

\* Whatever the outcome, the experiment's bootstrap comes next.
Reconciled(c) == Goto(c, "expire") /\ sess' = [sess EXCEPT ![c] = NoSession]

ReleaseLookup(c) ==
  /\ Move(c, "release", IF applied THEN "expire" ELSE "relPlan")
  /\ UNCHANGED <<db, elapsed, sess, late, raced, crashes>>

\* No valuation price: deferred to the next start.
ReleaseDefers(c) ==
  /\ pc[c] = "relPlan"
  /\ Reconciled(c)
  /\ UNCHANGED <<db, elapsed, late, raced, crashes>>

\* The previous session is stopped, whoever opened it and for what.
ReleaseStops(c) ==
  /\ Move(c, "relPlan", "relCreate")
  /\ StopActive
  /\ taken' = taken \cup {s \in Session : IsActive(s)}
  /\ UNCHANGED <<applied, run, bound, marker, elapsed, sess, late,
                 raced, crashes>>

\* A failed read answers "none".
ReleaseKeeps(c) ==
  /\ DbFaults
  /\ Move(c, "relPlan", "relCreate")
  /\ UNCHANGED <<db, elapsed, sess, late, raced, crashes>>

ReleaseCreates(c) ==
  /\ Move(c, "relCreate", "relStart")
  /\ NewSession(c)
  /\ UNCHANGED <<taken, applied, run, bound, marker, elapsed, late,
                 raced, crashes>>

ReleaseStarts(c) ==
  /\ Move(c, "relStart", "relMark")
  /\ status' = [status EXCEPT ![sess[c]] = "RUNNING"]
  /\ taken' = taken \ {sess[c]}
  /\ UNCHANGED <<applied, run, bound, marker, elapsed, sess,
                 late, raced, crashes>>

\* markApplied, which a rival's marker does not hinder.
ReleaseMarks(c) ==
  /\ pc[c] = "relMark"
  /\ applied' = TRUE
  /\ Reconciled(c)
  /\ UNCHANGED <<status, taken, run, bound, marker, elapsed, late,
                 raced, crashes>>

\* A failed statement leaves the release to the next start; so does, here, a
\* session beyond MaxSessions.
ReleaseThrows(c) ==
  /\ pc[c] \in Releasing
  /\ DbFaults \/ Exists = Session
  /\ Reconciled(c)
  /\ UNCHANGED <<db, elapsed, late, raced, crashes>>

Release(c) ==
  \/ ReleaseLookup(c) \/ ReleaseDefers(c) \/ ReleaseStops(c) \/ ReleaseKeeps(c)
  \/ ReleaseCreates(c) \/ ReleaseStarts(c) \/ ReleaseMarks(c) \/ ReleaseThrows(c)

-----------------------------------------------------------------------------
(* runPaperExperimentBootstrap.                                            *)

\* An expired run is completed first, its own session stopped after it.
BootExpire(c) ==
  /\ Move(c, "expire", IF Expired THEN "bootClose" ELSE "lookup")
  /\ sess' = [sess EXCEPT ![c] = IF Expired THEN bound ELSE NoSession]
  /\ UNCHANGED <<db, elapsed, late, raced, crashes>>

\* Mutation: the row gets the status createActiveExperiment gives a rival.
Supersede == run' = IF run = "ACTIVE" THEN "SUPERSEDED" ELSE run

\* completeExperiment touches an ACTIVE row only.
Complete == run' = IF run = "ACTIVE" THEN "COMPLETED" ELSE run

BootClose(c) ==
  /\ Move(c, "bootClose", "bootStop")
  /\ Complete
  /\ UNCHANGED <<taken, applied, status, bound, marker, elapsed,
                 sess, late, raced, crashes>>

BootStop(c) ==
  /\ pc[c] = "bootStop"
  /\ status' = [status EXCEPT ![sess[c]] = "STOPPED"]
  /\ Finish(c)
  /\ UNCHANGED <<taken, applied, run, bound, marker, elapsed, raced,
                 crashes>>

\* Mutation: the marker alone tells whether the run was created.
MarkerOnly == marker

\* markerExists or getExperimentByRunKey.
AlreadyApplied == marker \/ run # "none"

\* A run known by its key but not by its marker gets the marker.
Known(c) ==
  /\ pc[c] = "lookup"
  /\ AlreadyApplied
  /\ marker' = TRUE
  /\ Finish(c)
  /\ UNCHANGED <<taken, applied, status, run, bound, elapsed, raced,
                 crashes>>

Unknown(c) ==
  /\ Move(c, "lookup", "prepare")
  /\ ~ AlreadyApplied
  /\ raced' = (raced \/ \E d \in Container \ {c} : pc[d] \in Preparing)
  /\ UNCHANGED <<db, elapsed, sess, late, crashes>>

\* No valuation price, an early fee expiry, an invalid allocation.
GiveUp(c) ==
  /\ pc[c] = "prepare"
  /\ Finish(c)
  /\ UNCHANGED <<db, elapsed, raced, crashes>>

\* The previous session is stopped; a failed read answers "none".
StopPrevious(c) ==
  /\ Move(c, "prepare", "create")
  /\ StopActive
  /\ UNCHANGED <<taken, applied, run, bound, marker, elapsed, sess,
                 late, raced, crashes>>

KeepPrevious(c) ==
  /\ DbFaults
  /\ Move(c, "prepare", "create")
  /\ UNCHANGED <<db, elapsed, sess, late, raced, crashes>>

CreateSession(c) ==
  /\ Move(c, "create", "start")
  /\ NewSession(c)
  /\ UNCHANGED <<taken, applied, run, bound, marker, elapsed, late,
                 raced, crashes>>

StartSession(c) ==
  /\ Move(c, "start", "insert")
  /\ status' = [status EXCEPT ![sess[c]] = "RUNNING"]
  /\ taken' = taken \ {sess[c]}
  /\ UNCHANGED <<applied, run, bound, marker, elapsed, late,
                 sess, raced, crashes>>

\* createActiveExperiment: one transaction under the unique run key.
InsertRun(c) ==
  /\ Move(c, "insert", "mark")
  /\ run = "none"
  /\ run' = "ACTIVE" /\ bound' = sess[c]
  /\ UNCHANGED <<taken, applied, status, marker, elapsed, sess,
                 late, raced, crashes>>

\* The key is taken: rolled back, and reported as already applied.
InsertRefused(c) ==
  /\ pc[c] = "insert"
  /\ run # "none"
  /\ Finish(c)
  /\ UNCHANGED <<db, elapsed, raced, crashes>>

WriteMarker(c) ==
  /\ pc[c] = "mark"
  /\ marker' = TRUE
  /\ Finish(c)
  /\ UNCHANGED <<taken, applied, status, run, bound, elapsed, raced,
                 crashes>>

\* A failed statement ends the bootstrap; the collector starts regardless.
BootThrows(c) ==
  /\ DbFaults
  /\ pc[c] \in Booting
  /\ Finish(c)
  /\ UNCHANGED <<db, elapsed, raced, crashes>>

Bootstrap(c) ==
  \/ Boot(c) \/ BootExpire(c) \/ BootClose(c) \/ BootStop(c)
  \/ Known(c) \/ Unknown(c) \/ GiveUp(c) \/ StopPrevious(c) \/ KeepPrevious(c)
  \/ CreateSession(c) \/ StartSession(c)
  \/ InsertRun(c) \/ InsertRefused(c) \/ WriteMarker(c) \/ BootThrows(c)

-----------------------------------------------------------------------------
(* The experiment gate of the paper cycle.                                 *)

\* withShadowLock: cycles exclude one another.
Unlocked == \A d \in Container : pc[d] \notin Cycling

\* The cycle does not come to the experiment: an admin has the observation
\* session PAUSED, or the market part throws or fails.
BeginBlind(c) ==
  /\ Move(c, "collect", "blind")
  /\ Unlocked
  /\ UNCHANGED <<db, elapsed, sess, late, raced, crashes>>

Blind(c) ==
  /\ pc[c] = "blind"
  /\ Finish(c)
  /\ UNCHANGED <<db, elapsed, raced, crashes>>

\* The cycle finds a running session.
Begin(c) ==
  /\ Move(c, "collect", "gate")
  /\ Unlocked
  /\ \E s \in Session :
        /\ IsActive(s) /\ status[s] = "RUNNING"
        /\ sess' = [sess EXCEPT ![c] = s]
  /\ UNCHANGED <<db, elapsed, late, raced, crashes>>

\* Mutation: the gate never closes an experiment.
GateIgnored(c) ==
  /\ Move(c, "gate", "observe")
  /\ UNCHANGED <<db, elapsed, sess, late, raced, crashes>>

Gate(c) ==
  /\ Move(c, "gate", IF Expired THEN "close" ELSE "observe")
  /\ UNCHANGED <<db, elapsed, sess, late, raced, crashes>>

Close(c) ==
  /\ Move(c, "close", "stop")
  /\ Complete
  /\ UNCHANGED <<taken, applied, status, bound, marker, elapsed,
                 sess, late, raced, crashes>>

\* The session the cycle runs on is stopped, the experiment's own or not.
StopClosed(c) ==
  /\ pc[c] = "stop"
  /\ status' = [status EXCEPT ![sess[c]] = "STOPPED"]
  /\ Finish(c)
  /\ UNCHANGED <<taken, applied, run, bound, marker, elapsed, raced,
                 crashes>>

\* Whatever fails in the gate is swallowed and the cycle goes on.
GateThrows(c) ==
  /\ DbFaults
  /\ pc[c] \in {"gate", "close", "stop"}
  /\ Goto(c, "observe")
  /\ UNCHANGED <<db, elapsed, sess, late, raced, crashes>>

\* After the delayed observations the session must still be the running one.
Recheck(c) ==
  /\ pc[c] = "observe"
  /\ IsActive(sess[c]) /\ status[sess[c]] = "RUNNING"
  /\ Goto(c, "arrive")
  /\ UNCHANGED <<db, elapsed, sess, late, raced, crashes>>

RecheckFails(c) ==
  /\ pc[c] = "observe"
  /\ DbFaults \/ ~ (IsActive(sess[c]) /\ status[sess[c]] = "RUNNING")
  /\ Finish(c)
  /\ UNCHANGED <<db, elapsed, raced, crashes>>

\* Mutation: the experiment is not looked at again after the observations.
ArriveUnchecked(c) ==
  /\ Move(c, "arrive", "fills")
  /\ late' = [late EXCEPT ![c] = sess[c] = bound /\ elapsed]
  /\ UNCHANGED <<db, elapsed, sess, raced, crashes>>

\* The second look at the experiment lets the cycle through to the engine.
Arrive(c) ==
  /\ ~ Expired
  /\ Move(c, "arrive", "fills")
  /\ late' = [late EXCEPT ![c] = sess[c] = bound /\ elapsed]
  /\ UNCHANGED <<db, elapsed, sess, raced, crashes>>

\* It refuses an expired experiment; a failed read throws out of the cycle.
ArriveRefused(c) ==
  /\ pc[c] = "arrive"
  /\ Expired \/ DbFaults
  /\ Finish(c)
  /\ UNCHANGED <<db, elapsed, raced, crashes>>

\* The engine and commitPaperCycle end with both legs of each fill done, with
\* nothing filled, or with a fill refused or rolled back.
Fills(c) ==
  /\ pc[c] \in {"fills", "settle"}
  /\ Finish(c)
  /\ UNCHANGED <<db, elapsed, raced, crashes>>

\* The transaction of a LEG_RISK fill finds the session RUNNING ...
LegRisk(c) ==
  /\ Move(c, "fills", "settle")
  /\ status[sess[c]] = "RUNNING"
  /\ UNCHANGED <<db, elapsed, sess, late, raced, crashes>>

\* ... and PAUSES it, whatever has become of it meanwhile.
LegRiskPauses(c) ==
  /\ pc[c] = "settle"
  /\ status' = [status EXCEPT ![sess[c]] = "PAUSED"]
  /\ Finish(c)
  /\ taken' = taken \ {sess[c]}
  /\ UNCHANGED <<applied, run, bound, marker, elapsed, raced,
                 crashes>>

Cycle(c) ==
  \/ BeginBlind(c) \/ Blind(c) \/ Begin(c)
  \/ Gate(c) \/ Close(c) \/ StopClosed(c) \/ GateThrows(c)
  \/ Recheck(c) \/ RecheckFails(c) \/ Arrive(c) \/ ArriveRefused(c)
  \/ Fills(c) \/ LegRisk(c) \/ LegRiskPauses(c)

-----------------------------------------------------------------------------
(* The environment.                                                        *)

\* The admin's stop, a single unconditional update.
AdminStop(s) ==
  /\ s \in NotStopped
  /\ status' = [status EXCEPT ![s] = "STOPPED"]
  /\ taken' = taken \cup {s}
  /\ UNCHANGED <<applied, run, bound, marker, elapsed, pc, sess,
                 late, raced, crashes>>

\* The admin's pause, and his start or resume.
AdminPause(s) ==
  /\ status[s] = "RUNNING"
  /\ status' = [status EXCEPT ![s] = "PAUSED"]
  /\ UNCHANGED <<taken, applied, run, bound, marker, elapsed, pc, sess,
                 late, raced, crashes>>

AdminRun(s) ==
  /\ status[s] \in {"NOT_STARTED", "PAUSED"}
  /\ status' = [status EXCEPT ![s] = "RUNNING"]
  /\ UNCHANGED <<taken, applied, run, bound, marker, elapsed, pc, sess,
                 late, raced, crashes>>

\* The experiment's endsAt passes; it is written once and never moved.
Elapse ==
  /\ run # "none" /\ ~ elapsed
  /\ elapsed' = TRUE
  /\ UNCHANGED <<db, pc, sess, late, raced, crashes>>

Crash(c) ==
  /\ pc[c] # "down"
  /\ crashes < MaxCrashes
  /\ crashes' = crashes + 1
  /\ Goto(c, "down")
  /\ sess' = [sess EXCEPT ![c] = NoSession]
  /\ late' = [late EXCEPT ![c] = FALSE]
  /\ UNCHANGED <<db, elapsed, raced>>

Next ==
  \/ \E c \in Container : Release(c) \/ Bootstrap(c) \/ Cycle(c) \/ Crash(c)
  \/ \E s \in Session : AdminStop(s) \/ AdminPause(s) \/ AdminRun(s)
  \/ Elapse

Spec == Init /\ [][Next]_vars

\* A container boots, goes on booting and goes on cycling, but nothing says
\* that its cycles are not blind; the gate's read and completeExperiment are
\* assumed not to fail for ever in every container.
Fairness ==
  /\ \A c \in Container : WF_vars(Release(c) \/ Bootstrap(c) \/ Cycle(c))
  /\ SF_vars(\E c \in Container : Gate(c))
  /\ SF_vars(\E c \in Container : Close(c))

FairSpec == Spec /\ Fairness

-----------------------------------------------------------------------------
(* Properties.                                                             *)

\* Every variable stays in its type.
TypeOK ==
  /\ status \in [Session -> {"NONE", "NOT_STARTED", "RUNNING", "PAUSED", "STOPPED"}]
  /\ taken \in SUBSET Session
  /\ applied \in BOOLEAN
  /\ run \in {"none", "ACTIVE", "COMPLETED"}
  /\ bound \in Session \cup {NoSession}
  /\ elapsed \in BOOLEAN /\ marker \in BOOLEAN
  /\ pc \in [Container -> {"down", "collect"} \cup Releasing \cup Booting \cup Cycling]
  /\ sess \in [Container -> Session \cup {NoSession}]
  /\ late \in [Container -> BOOLEAN] /\ raced \in BOOLEAN
  /\ crashes \in 0 .. MaxCrashes

\* Until its endsAt an ACTIVE experiment keeps the session it was bound to,
\* whatever step a bootstrap or a cycle crashed or failed at and however often
\* it is repeated: the session is RUNNING, or a LEG_RISK fill or an admin has
\* PAUSED it.  It is STOPPED only by an admin, by a bootstrap that was
\* preparing the same run at the same time, or by a release that had been left
\* to this start, and never left behind before its start.
OpenRunKeepsItsSession ==
  (run = "ACTIVE" /\ ~ elapsed) =>
     (status[bound] \in {"RUNNING", "PAUSED"} \/ bound \in taken \/ raced)

\* While the experiment is still ACTIVE no cycle that looked at it after its
\* endsAt reaches the engine, not even one whose gate failed and was swallowed.
ActiveRunShutsTheDoor ==
  \A c \in Container : pc[c] = "fills" /\ late[c] => run = "COMPLETED"

\* After endsAt no new trade is opened on the experiment's session.
NoLateFills == \A c \in Container : ~ (pc[c] = "fills" /\ late[c])

\* An expired experiment is completed for as long as the desk has a RUNNING
\* session, the experiment's own or one that took its place.  Only blind
\* cycles put that off, each until the next: as long as cycles go on being
\* blind, because an admin leaves the observation session PAUSED or no market
\* cycle succeeds, the experiment stays ACTIVE past its endsAt.
ExpiredRunCompletes ==
  Expired ~> \/ run = "COMPLETED"
             \/ ~ \E s \in Session : IsActive(s) /\ status[s] = "RUNNING"
             \/ \E c \in Container : pc[c] = "blind"
=============================================================================
