------------------------- MODULE ExperimentGateProofs -------------------------
(***************************************************************************)
(* Proofs about the experiment gate, for any number of containers, crashes *)
(* and faults.  Door is inductive together with the types and the fact     *)
(* that an endsAt passes only for a run that exists: a cycle reaches the   *)
(* engine late only past an experiment that is no longer ACTIVE, and a     *)
(* COMPLETED one is never made ACTIVE again.                               *)
(***************************************************************************)
EXTENDS ExperimentGate, TLAPS

Door ==
  /\ TypeOK
  /\ elapsed => run # "none"
  /\ ActiveRunShutsTheDoor

LEMMA DoorInit == Init => Door
  <1> SUFFICES ASSUME Init PROVE Door
    OBVIOUS
  <1>1. status \in [Session -> {"NONE", "NOT_STARTED", "RUNNING", "PAUSED", "STOPPED"}]
    BY DEF Init
  <1>2. crashes \in 0 .. MaxCrashes
    BY BoundAssumption DEF Init
  <1> QED BY <1>1, <1>2 DEF Init, Door, TypeOK, ActiveRunShutsTheDoor

Label == {"down", "collect"} \cup Releasing \cup Booting \cup Cycling
Statuses == {"NONE", "NOT_STARTED", "RUNNING", "PAUSED", "STOPPED"}

\* What every step does to the experiment: none, ACTIVE, COMPLETED, in this
\* order, and its clock runs only once it exists.
Onward ==
  /\ run' \in {"none", "ACTIVE", "COMPLETED"}
  /\ bound' \in Session \cup {NoSession}
  /\ elapsed' \in BOOLEAN
  /\ elapsed' => run' # "none"
  /\ run = "COMPLETED" => run' = "COMPLETED"

\* The rest of the types after a step.
RestTyped ==
  /\ status' \in [Session -> Statuses]
  /\ taken' \in SUBSET Session
  /\ applied' \in BOOLEAN
  /\ marker' \in BOOLEAN /\ raced' \in BOOLEAN
  /\ sess' \in [Container -> Session \cup {NoSession}]
  /\ crashes' \in 0 .. MaxCrashes

\* A step of one container that does not take it into the engine keeps the door.
LEMMA QuietStep ==
  ASSUME Door, Onward, RestTyped,
         NEW c \in Container, NEW l \in Label, l # "fills", Goto(c, l),
         late' = late \/ late' = [late EXCEPT ![c] = FALSE]
  PROVE  Door'
  <1>1. TypeOK'
    BY DEF Door, TypeOK, Goto, Onward, RestTyped, Label, Statuses
  <1>2. ActiveRunShutsTheDoor'
    BY DEF Door, TypeOK, ActiveRunShutsTheDoor, Goto, Onward
  <1> QED BY <1>1, <1>2 DEF Door, Onward

\* completeExperiment.
LEMMA CompleteOnward ==
  ASSUME Door, Complete, UNCHANGED <<bound, elapsed>>
  PROVE  Onward
  BY DEF Door, TypeOK, Complete, Onward

LEMMA IdleOnward ==
  ASSUME Door, UNCHANGED <<run, bound, elapsed>>
  PROVE  Onward
  BY DEF Door, TypeOK, Onward

LEMMA ReleaseKeepsDoor ==
  ASSUME Door, NEW c \in Container, Release(c)
  PROVE  Door'
  <1> USE DEF Label, Releasing, Booting
  <1>1. CASE ReleaseLookup(c)
    <2>1. RestTyped
      BY <1>1 DEF ReleaseLookup, Move, db, Door, TypeOK, RestTyped, Statuses
    <2>2. CASE applied
      BY <1>1, <2>1, <2>2, IdleOnward, QuietStep DEF ReleaseLookup, Move, db
    <2>3. CASE ~ applied
      BY <1>1, <2>1, <2>3, IdleOnward, QuietStep DEF ReleaseLookup, Move, db
    <2> QED BY <2>2, <2>3
  <1>2. CASE ReleaseDefers(c) \/ ReleaseThrows(c)
    <2>1. RestTyped
      BY <1>2 DEF ReleaseDefers, ReleaseThrows, Reconciled, db, Door, TypeOK, RestTyped,
         Statuses
    <2> QED
      BY <1>2, <2>1, IdleOnward, QuietStep DEF ReleaseDefers, ReleaseThrows, Reconciled, db
  <1>3. CASE ReleaseStops(c)
    <2>1. RestTyped
      BY <1>3 DEF ReleaseStops, StopActive, Move, Door, TypeOK, RestTyped, Statuses
    <2> QED BY <1>3, <2>1, IdleOnward, QuietStep DEF ReleaseStops, Move
  <1>4. CASE ReleaseKeeps(c)
    BY <1>4, IdleOnward, QuietStep DEF ReleaseKeeps, Move, db, Door, TypeOK, RestTyped,
       Statuses
  <1>5. CASE ReleaseCreates(c)
    <2>1. RestTyped
      BY <1>5 DEF ReleaseCreates, NewSession, Move, Door, TypeOK, RestTyped, Statuses
    <2> QED BY <1>5, <2>1, IdleOnward, QuietStep DEF ReleaseCreates, Move
  <1>6. CASE ReleaseStarts(c)
    <2>1. RestTyped
      BY <1>6 DEF ReleaseStarts, Move, Door, TypeOK, RestTyped, Statuses
    <2> QED BY <1>6, <2>1, IdleOnward, QuietStep DEF ReleaseStarts, Move
  <1>7. CASE ReleaseMarks(c)
    <2>1. RestTyped
      BY <1>7 DEF ReleaseMarks, Reconciled, Door, TypeOK, RestTyped, Statuses
    <2> QED BY <1>7, <2>1, IdleOnward, QuietStep DEF ReleaseMarks, Reconciled
  <1> QED BY <1>1, <1>2, <1>3, <1>4, <1>5, <1>6, <1>7 DEF Release

LEMMA BootstrapKeepsDoor ==
  ASSUME Door, NEW c \in Container, Bootstrap(c)
  PROVE  Door'
  <1> USE DEF Label, Releasing, Booting, Preparing, Cycling
  <1>1. CASE Boot(c)
    BY <1>1, IdleOnward, QuietStep DEF Boot, Move, db, Door, TypeOK, RestTyped, Statuses
  <1>2. CASE BootExpire(c)
    <2>1. RestTyped
      BY <1>2 DEF BootExpire, Move, db, Door, TypeOK, RestTyped, Statuses
    <2>2. CASE Expired
      BY <1>2, <2>1, <2>2, IdleOnward, QuietStep DEF BootExpire, Move, db
    <2>3. CASE ~ Expired
      BY <1>2, <2>1, <2>3, IdleOnward, QuietStep DEF BootExpire, Move, db
    <2> QED BY <2>2, <2>3
  <1>3. CASE BootClose(c)
    BY <1>3, CompleteOnward, QuietStep DEF BootClose, Move, Door, TypeOK, RestTyped, Statuses
  <1>4. CASE BootStop(c)
    BY <1>4, IdleOnward, QuietStep DEF BootStop, Finish, Door, TypeOK, RestTyped, Statuses
  <1>5. CASE Known(c)
    BY <1>5, IdleOnward, QuietStep DEF Known, Finish, Door, TypeOK, RestTyped, Statuses
  <1>6. CASE Unknown(c)
    <2>1. RestTyped
      BY <1>6 DEF Unknown, Move, db, Door, TypeOK, RestTyped, Statuses
    <2> QED BY <1>6, <2>1, IdleOnward, QuietStep DEF Unknown, Move, db
  <1>7. CASE GiveUp(c)
    BY <1>7, IdleOnward, QuietStep DEF GiveUp, Finish, db, Door, TypeOK, RestTyped, Statuses
  <1>8. CASE StopPrevious(c)
    BY <1>8, IdleOnward, QuietStep DEF StopPrevious, StopActive, Move, Door, TypeOK, RestTyped, Statuses
  <1>9. CASE KeepPrevious(c)
    BY <1>9, IdleOnward, QuietStep DEF KeepPrevious, Move, db, Door, TypeOK, RestTyped, Statuses
  <1>10. CASE CreateSession(c)
    <2>1. RestTyped
      BY <1>10 DEF CreateSession, NewSession, Move, Door, TypeOK, RestTyped, Statuses
    <2> QED BY <1>10, <2>1, IdleOnward, QuietStep DEF CreateSession, Move
  <1>11. CASE StartSession(c)
    BY <1>11, IdleOnward, QuietStep DEF StartSession, Move, Door, TypeOK, RestTyped, Statuses
  <1>12. CASE InsertRun(c)
    <2>1. Onward
      BY <1>12 DEF InsertRun, Move, Door, TypeOK, Onward
    <2> QED BY <1>12, <2>1, QuietStep DEF InsertRun, Move, Door, TypeOK, RestTyped, Statuses
  <1>13. CASE InsertRefused(c)
    BY <1>13, IdleOnward, QuietStep DEF InsertRefused, Finish, db, Door, TypeOK, RestTyped, Statuses
  <1>14. CASE WriteMarker(c)
    BY <1>14, IdleOnward, QuietStep DEF WriteMarker, Finish, Door, TypeOK, RestTyped, Statuses
  <1>15. CASE BootThrows(c)
    BY <1>15, IdleOnward, QuietStep DEF BootThrows, Finish, db, Door, TypeOK, RestTyped, Statuses
  <1> QED
    BY <1>1, <1>2, <1>3, <1>4, <1>5, <1>6, <1>7, <1>8, <1>9, <1>10, <1>11,
       <1>12, <1>13, <1>14, <1>15 DEF Bootstrap

LEMMA CycleKeepsDoor ==
  ASSUME Door, NEW c \in Container, Cycle(c)
  PROVE  Door'
  <1> USE DEF Label, Cycling
  <1>11. CASE BeginBlind(c) \/ LegRisk(c)
    BY <1>11, IdleOnward, QuietStep DEF BeginBlind, LegRisk, Move, db, Door, TypeOK,
       RestTyped, Statuses
  <1>12. CASE Blind(c)
    BY <1>12, IdleOnward, QuietStep DEF Blind, Finish, db, Door, TypeOK, RestTyped, Statuses
  <1>13. CASE LegRiskPauses(c)
    BY <1>13, IdleOnward, QuietStep DEF LegRiskPauses, Finish, Door, TypeOK, RestTyped,
       Statuses
  <1>1. CASE Begin(c)
    <2>1. RestTyped
      BY <1>1 DEF Begin, Move, db, Door, TypeOK, RestTyped, Statuses
    <2> QED BY <1>1, <2>1, IdleOnward, QuietStep DEF Begin, Move, db
  <1>2. CASE Gate(c)
    <2>1. RestTyped
      BY <1>2 DEF Gate, Move, db, Door, TypeOK, RestTyped, Statuses
    <2>2. CASE Expired
      BY <1>2, <2>1, <2>2, IdleOnward, QuietStep DEF Gate, Move, db
    <2>3. CASE ~ Expired
      BY <1>2, <2>1, <2>3, IdleOnward, QuietStep DEF Gate, Move, db
    <2> QED BY <2>2, <2>3
  <1>3. CASE Close(c)
    BY <1>3, CompleteOnward, QuietStep DEF Close, Move, Door, TypeOK, RestTyped, Statuses
  <1>4. CASE StopClosed(c)
    BY <1>4, IdleOnward, QuietStep DEF StopClosed, Finish, Door, TypeOK, RestTyped, Statuses
  <1>5. CASE GateThrows(c)
    BY <1>5, IdleOnward, QuietStep DEF GateThrows, db, Door, TypeOK, RestTyped, Statuses
  <1>6. CASE Recheck(c)
    BY <1>6, IdleOnward, QuietStep DEF Recheck, db, Door, TypeOK, RestTyped, Statuses
  <1>7. CASE RecheckFails(c)
    BY <1>7, IdleOnward, QuietStep DEF RecheckFails, Finish, db, Door, TypeOK, RestTyped, Statuses
  <1>8. CASE Arrive(c)
    \* The only way into the engine: an elapsed run that is not Expired exists
    \* and is not ACTIVE, so it is COMPLETED.
    <2>1. TypeOK'
      BY <1>8 DEF Arrive, Move, Goto, db, Door, TypeOK
    <2>2. elapsed => run = "COMPLETED"
      BY <1>8 DEF Arrive, Expired, Door, TypeOK
    <2>3. ActiveRunShutsTheDoor'
      BY <1>8, <2>2 DEF Arrive, Move, Goto, db, Door, TypeOK, ActiveRunShutsTheDoor
    <2> QED BY <1>8, <2>1, <2>3 DEF Arrive, db, Door
  <1>9. CASE ArriveRefused(c)
    BY <1>9, IdleOnward, QuietStep DEF ArriveRefused, Finish, db, Door, TypeOK, RestTyped, Statuses
  <1>10. CASE Fills(c)
    BY <1>10, IdleOnward, QuietStep DEF Fills, Finish, db, Door, TypeOK, RestTyped, Statuses
  <1> QED
    BY <1>1, <1>2, <1>3, <1>4, <1>5, <1>6, <1>7, <1>8, <1>9, <1>10, <1>11, <1>12,
       <1>13 DEF Cycle

LEMMA DoorNext == Door /\ [Next]_vars => Door'
  <1> SUFFICES ASSUME Door, [Next]_vars PROVE Door'
    OBVIOUS
  <1>1. ASSUME NEW c \in Container, Crash(c) PROVE Door'
    <2>1. crashes' \in 0 .. MaxCrashes
      BY <1>1, BoundAssumption DEF Crash, Door, TypeOK
    <2>2. RestTyped
      BY <1>1, <2>1 DEF Crash, db, Door, TypeOK, RestTyped, Statuses
    <2>3. Onward
      BY <1>1, IdleOnward DEF Crash, db
    <2> QED BY <1>1, <2>2, <2>3, QuietStep DEF Crash, Label
  <1>2. ASSUME NEW s \in Session, AdminStop(s) \/ AdminPause(s) \/ AdminRun(s)
        PROVE  Door'
    BY <1>2 DEF AdminStop, AdminPause, AdminRun, Door, TypeOK, ActiveRunShutsTheDoor
  <1>3. CASE Elapse
    BY <1>3 DEF Elapse, db, Door, TypeOK, ActiveRunShutsTheDoor
  <1>4. CASE UNCHANGED vars
    BY <1>4 DEF vars, db, Door, TypeOK, ActiveRunShutsTheDoor
  <1> QED
    BY <1>1, <1>2, <1>3, <1>4, ReleaseKeepsDoor, BootstrapKeepsDoor,
       CycleKeepsDoor DEF Next

\* A cycle that looks at a still ACTIVE experiment after its endsAt never
\* reaches the engine, whatever fails or crashes and wherever.
THEOREM DoorStaysShut == Spec => []ActiveRunShutsTheDoor
  <1>1. Door => ActiveRunShutsTheDoor
    BY DEF Door
  <1> QED BY DoorInit, DoorNext, <1>1, PTL DEF Spec

\* Every variable of the gate stays in its type.
THEOREM GateTypeCorrect == Spec => []TypeOK
  <1>1. Door => TypeOK
    BY DEF Door
  <1> QED BY DoorInit, DoorNext, <1>1, PTL DEF Spec

-----------------------------------------------------------------------------
(* The experiment's session.  Bond is inductive with the types: a session  *)
(* is stopped only for a run that has ended, by an admin, by a release     *)
(* that earlier starts had left undone, or by a bootstrap that saw no run; *)
(* such a bootstrap and the one that wrote the run prepared it at the same *)
(* time.  A LEG_RISK fill and an admin's pause leave it PAUSED.            *)

Standing(s) == status[s] \in {"RUNNING", "PAUSED"} \/ s \in taken \/ raced

Bond ==
  /\ run = "ACTIVE" => bound \in Session
  /\ OpenRunKeepsItsSession
  /\ \A c \in Container :
       /\ pc[c] \in {"start", "insert"} => sess[c] \in Session
       /\ pc[c] = "insert" /\ run = "none" => Standing(sess[c])
       /\ pc[c] \in Preparing /\ run # "none" => raced
       /\ pc[c] \in {"close", "stop", "bootClose", "bootStop"} => run # "none" /\ elapsed
       /\ \A d \in Container \ {c} : pc[c] \in Preparing /\ pc[d] \in Preparing => raced

\* A step that stops no session, starts no preparation and closes nothing.
LEMMA BondCalm ==
  ASSUME TypeOK, Bond, NEW c \in Container, NEW l,
         l \notin Preparing \cup {"close", "stop", "bootClose", "bootStop"},
         Goto(c, l), UNCHANGED <<status, taken, run, bound, elapsed, raced>>,
         \A d \in Container \ {c} : sess'[d] = sess[d]
  PROVE  Bond'
  <1>1. \A d \in Container : pc'[d] = IF d = c THEN l ELSE pc[d]
    BY DEF Goto, TypeOK
  <1>2. {"start", "insert"} \subseteq Preparing
    BY DEF Preparing
  <1> QED
    BY <1>1, <1>2 DEF Bond, OpenRunKeepsItsSession, Standing

LEMMA BondRelease ==
  ASSUME TypeOK, Bond, NEW c \in Container, Release(c)
  PROVE  Bond'
  <1> USE DEF Preparing
  <1>1. CASE ReleaseStops(c)
    <2>1. \A d \in Container : pc'[d] = IF d = c THEN "relCreate" ELSE pc[d]
      BY <1>1 DEF ReleaseStops, Move, Goto, TypeOK
    <2>2. \A s \in Session : Standing(s) => Standing(s)'
      BY <1>1 DEF ReleaseStops, StopActive, Standing, TypeOK
    <2>3. UNCHANGED <<run, bound, elapsed, raced, sess>>
      BY <1>1 DEF ReleaseStops
    <2> QED BY <2>1, <2>2, <2>3 DEF Bond, OpenRunKeepsItsSession, Standing
  <1>2. CASE ReleaseCreates(c)
    <2>1. PICK s \in Session \ Exists :
            /\ status' = [status EXCEPT ![s] = "NOT_STARTED"]
            /\ sess' = [sess EXCEPT ![c] = s]
      BY <1>2 DEF ReleaseCreates, NewSession
    <2>2. \A t \in Session : Standing(t) => Standing(t)'
      BY <1>2, <2>1 DEF ReleaseCreates, Exists, Standing, TypeOK
    <2>3. \A d \in Container : pc'[d] = IF d = c THEN "relStart" ELSE pc[d]
      BY <1>2 DEF ReleaseCreates, Move, Goto, TypeOK
    <2>4. \A d \in Container : sess'[d] = IF d = c THEN s ELSE sess[d]
      BY <2>1 DEF TypeOK
    <2>5. UNCHANGED <<taken, run, bound, elapsed, raced>>
      BY <1>2 DEF ReleaseCreates
    <2> QED BY <2>2, <2>3, <2>4, <2>5 DEF Bond, OpenRunKeepsItsSession, Standing
  <1>3. CASE ReleaseStarts(c)
    <2>1. \A d \in Container : pc'[d] = IF d = c THEN "relMark" ELSE pc[d]
      BY <1>3 DEF ReleaseStarts, Move, Goto, TypeOK
    <2>2. \A t \in Session : Standing(t) => Standing(t)'
      BY <1>3 DEF ReleaseStarts, Standing, TypeOK
    <2>3. UNCHANGED <<run, bound, elapsed, raced, sess>>
      BY <1>3 DEF ReleaseStarts
    <2> QED BY <2>1, <2>2, <2>3 DEF Bond, OpenRunKeepsItsSession, Standing
  <1>4. CASE ReleaseLookup(c)
    <2>1. CASE applied
      BY <1>4, <2>1, BondCalm DEF ReleaseLookup, Move, db
    <2>2. CASE ~ applied
      BY <1>4, <2>2, BondCalm DEF ReleaseLookup, Move, db
    <2> QED BY <2>1, <2>2
  <1>5. CASE ReleaseKeeps(c)
    BY <1>5, BondCalm DEF ReleaseKeeps, Move, db
  <1>6. CASE ReleaseDefers(c) \/ ReleaseMarks(c) \/ ReleaseThrows(c)
    BY <1>6, BondCalm DEF ReleaseDefers, ReleaseMarks, ReleaseThrows, Reconciled, db, TypeOK
  <1> QED BY <1>1, <1>2, <1>3, <1>4, <1>5, <1>6 DEF Release

LEMMA BondBootstrap ==
  ASSUME TypeOK, Bond, NEW c \in Container, Bootstrap(c)
  PROVE  Bond'
  <1> USE DEF Preparing
  <1>1. CASE BootExpire(c)
    <2>1. CASE Expired
      BY <1>1, <2>1 DEF BootExpire, Expired, Move, Goto, db, TypeOK, Bond,
         OpenRunKeepsItsSession, Standing
    <2>2. CASE ~ Expired
      BY <1>1, <2>2, BondCalm DEF BootExpire, Move, db, TypeOK
    <2> QED BY <2>1, <2>2
  <1>2. CASE BootClose(c)
    BY <1>2 DEF BootClose, Complete, Move, Goto, TypeOK, Bond, OpenRunKeepsItsSession,
       Standing
  <1>3. CASE BootStop(c)
    BY <1>3 DEF BootStop, Finish, Goto, TypeOK, Bond, OpenRunKeepsItsSession, Standing
  <1>4. CASE Unknown(c)
    BY <1>4 DEF Unknown, AlreadyApplied, Move, Goto, db, TypeOK, Bond,
       OpenRunKeepsItsSession, Standing
  <1>5. CASE StopPrevious(c)
    BY <1>5 DEF StopPrevious, StopActive, Move, Goto, TypeOK, Bond, OpenRunKeepsItsSession, Standing
  <1>6. CASE KeepPrevious(c)
    BY <1>6 DEF KeepPrevious, Move, Goto, db, TypeOK, Bond, OpenRunKeepsItsSession, Standing
  <1>7. CASE CreateSession(c)
    <2>1. PICK s \in Session \ Exists :
            /\ status' = [status EXCEPT ![s] = "NOT_STARTED"]
            /\ sess' = [sess EXCEPT ![c] = s]
      BY <1>7 DEF CreateSession, NewSession
    <2>2. status[s] = "NONE"
      BY <2>1 DEF Exists
    <2>3. \A t \in Session : Standing(t) => Standing(t)'
      BY <1>7, <2>1, <2>2 DEF CreateSession, Standing, TypeOK
    <2>4. \A d \in Container : pc'[d] = IF d = c THEN "start" ELSE pc[d]
      BY <1>7 DEF CreateSession, Move, Goto, TypeOK
    <2>5. \A d \in Container : sess'[d] = IF d = c THEN s ELSE sess[d]
      BY <2>1 DEF TypeOK
    <2>6. pc[c] \in Preparing /\ UNCHANGED <<taken, run, bound, elapsed, raced>>
      BY <1>7 DEF CreateSession, Move
    <2> QED BY <2>1, <2>3, <2>4, <2>5, <2>6 DEF Bond, OpenRunKeepsItsSession, Standing
  <1>8. CASE StartSession(c)
    <2>1. \A d \in Container : pc'[d] = IF d = c THEN "insert" ELSE pc[d]
      BY <1>8 DEF StartSession, Move, Goto, TypeOK
    <2>2. sess[c] \in Session /\ pc[c] = "start"
      BY <1>8 DEF StartSession, Move, Bond
    <2>3. status'[sess[c]] = "RUNNING"
      BY <1>8, <2>2 DEF StartSession, TypeOK
    <2>4. \A t \in Session : Standing(t) => Standing(t)'
      BY <1>8 DEF StartSession, Standing, TypeOK
    <2>5. UNCHANGED <<run, bound, elapsed, raced, sess>>
      BY <1>8 DEF StartSession
    <2> QED BY <2>1, <2>2, <2>3, <2>4, <2>5 DEF Bond, OpenRunKeepsItsSession, Standing
  <1>9. CASE InsertRun(c)
    BY <1>9 DEF InsertRun, Move, Goto, TypeOK, Bond, OpenRunKeepsItsSession, Standing
  <1>10. CASE Boot(c)
    BY <1>10, BondCalm DEF Boot, Move, db
  <1>11. CASE Known(c) \/ GiveUp(c) \/ InsertRefused(c) \/ WriteMarker(c) \/ BootThrows(c)
    BY <1>11, BondCalm DEF Known, GiveUp, InsertRefused, WriteMarker, BootThrows, Finish,
       db, TypeOK
  <1> QED
    BY <1>1, <1>2, <1>3, <1>4, <1>5, <1>6, <1>7, <1>8, <1>9, <1>10, <1>11 DEF Bootstrap

LEMMA BondCycle ==
  ASSUME TypeOK, Bond, NEW c \in Container, Cycle(c)
  PROVE  Bond'
  <1> USE DEF Preparing
  <1>1. CASE Gate(c)
    <2>1. CASE Expired
      BY <1>1, <2>1 DEF Gate, Expired, Move, Goto, db, TypeOK, Bond,
         OpenRunKeepsItsSession, Standing
    <2>2. CASE ~ Expired
      BY <1>1, <2>2, BondCalm DEF Gate, Move, db
    <2> QED BY <2>1, <2>2
  <1>2. CASE Close(c)
    BY <1>2 DEF Close, Complete, Move, Goto, TypeOK, Bond, OpenRunKeepsItsSession, Standing
  <1>3. CASE StopClosed(c)
    BY <1>3 DEF StopClosed, Finish, Goto, TypeOK, Bond, OpenRunKeepsItsSession, Standing
  <1>4. CASE Begin(c)
    BY <1>4, BondCalm DEF Begin, Move, db, TypeOK
  <1>7. CASE BeginBlind(c) \/ LegRisk(c)
    BY <1>7, BondCalm DEF BeginBlind, LegRisk, Move, db
  <1>8. CASE LegRiskPauses(c)
    <2>1. \A t \in Session : Standing(t) => Standing(t)'
      BY <1>8 DEF LegRiskPauses, Standing, TypeOK
    <2>2. \A d \in Container : pc'[d] = IF d = c THEN "collect" ELSE pc[d]
      BY <1>8 DEF LegRiskPauses, Finish, Goto, TypeOK
    <2>3. \A d \in Container \ {c} : sess'[d] = sess[d]
      BY <1>8 DEF LegRiskPauses, Finish, TypeOK
    <2>4. UNCHANGED <<run, bound, elapsed, raced>>
      BY <1>8 DEF LegRiskPauses
    <2> QED BY <2>1, <2>2, <2>3, <2>4 DEF Bond, OpenRunKeepsItsSession, Standing
  <1>5. CASE GateThrows(c) \/ Recheck(c) \/ Arrive(c)
    BY <1>5, BondCalm DEF GateThrows, Recheck, Arrive, Move, db
  <1>6. CASE Blind(c) \/ RecheckFails(c) \/ ArriveRefused(c) \/ Fills(c)
    BY <1>6, BondCalm DEF Blind, RecheckFails, ArriveRefused, Fills, Finish, db, TypeOK
  <1> QED BY <1>1, <1>2, <1>3, <1>4, <1>5, <1>6, <1>7, <1>8 DEF Cycle

LEMMA BondNext == TypeOK /\ Bond /\ [Next]_vars => Bond'
  <1> SUFFICES ASSUME TypeOK, Bond, [Next]_vars PROVE Bond'
    OBVIOUS
  <1>1. ASSUME NEW c \in Container, Crash(c) PROVE Bond'
    BY <1>1, BondCalm DEF Crash, db, Preparing, TypeOK
  <1>2. ASSUME NEW s \in Session, AdminStop(s) \/ AdminPause(s) \/ AdminRun(s)
        PROVE  Bond'
    <2>1. \A t \in Session : Standing(t) => Standing(t)'
      BY <1>2 DEF AdminStop, AdminPause, AdminRun, Standing, TypeOK
    <2>2. UNCHANGED <<run, bound, elapsed, raced, pc, sess>>
      BY <1>2 DEF AdminStop, AdminPause, AdminRun
    <2> QED BY <2>1, <2>2 DEF Bond, OpenRunKeepsItsSession, Standing
  <1>3. CASE Elapse
    BY <1>3 DEF Elapse, db, Bond, OpenRunKeepsItsSession, Standing
  <1>4. CASE UNCHANGED vars
    BY <1>4 DEF vars, db, Bond, OpenRunKeepsItsSession, Standing
  <1> QED BY <1>1, <1>2, <1>3, <1>4, BondRelease, BondBootstrap, BondCycle DEF Next

\* Until its endsAt the session of an ACTIVE experiment is RUNNING, or PAUSED
\* by a LEG_RISK fill or an admin, for any number of containers, crashes and
\* failing statements: only an admin, a rival bootstrap of the same run or a
\* release still to be applied stops it (runPaperExperimentBootstrap,
\* runReleaseBootstrap, commitPaperCycle).
THEOREM OpenRunIsKept == Spec => []OpenRunKeepsItsSession
  <1>1. Init => Bond
    BY DEF Init, Bond, OpenRunKeepsItsSession, Preparing
  <1>2. Bond => OpenRunKeepsItsSession
    BY DEF Bond
  <1> QED BY GateTypeCorrect, BondNext, <1>1, <1>2, PTL DEF Spec
=============================================================================
