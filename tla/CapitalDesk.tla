----------------------------- MODULE CapitalDesk -----------------------------
(***************************************************************************)
(* The two operator commands that rewrite a paper desk's capital:          *)
(* applying an allocation proposal to the session's virtual balances       *)
(* (applyProposal), and replacing the active session by a new one at       *)
(* another capital (replaceActivePaperSessionCapital), while sessions are  *)
(* created, started, paused and stopped by other requests.                 *)
(*                                                                         *)
(* The database is PGlite: a repository function is one section of the     *)
(* serial queue (`lock`), and all requests are served by one process.      *)
(* Neither function is a transaction: each write stands by itself.  (On    *)
(* PostgreSQL the queue is a no-op and the functions interleave.)          *)
(*                                                                         *)
(* Abstractions.  A balance is named by what last allocated it: `Opening`  *)
(* or a proposal; fills move it in PaperDesk.  The evidence fingerprints   *)
(* are one `world` that may change.  A preview token is a hash of its      *)
(* binding, so it is the pair of the session it was taken on and the plan; *)
(* its expiry only refuses.  A function's reads are one step.  The capital *)
(* plan row, the audit log, the order-cap policy written after a           *)
(* replacement, names, notes and the LEG_RISK check of a start (PaperDesk) *)
(* are left out.                                                           *)
(***************************************************************************)
EXTENDS Integers, Sequences, FiniteSets

CONSTANTS
  Request,       \* admin requests in flight
  Venue,
  Key,           \* idempotency keys
  Plan,          \* the sets of venues an allocation may name
  MaxSessions,   \* bound on the paper sessions
  MaxProposals,  \* bound on the stored proposals
  MaxMoves,      \* bound on changes of the evidence
  MaxFaults,     \* bound on failed statements and crashes
  MaxRequests    \* bound on the requests sent

Session == 1 .. MaxSessions
Proposal == 1 .. MaxProposals
Free == "free"
Opening == 0
NoRow == MaxProposals + 1
NoToken == [bound |-> {}, plan |-> {}]
Token == [bound : SUBSET Session, plan : Plan \cup {{}}]
LiveStatus == {"NOT_STARTED", "RUNNING", "PAUSED"}

ASSUME RequestAssumption == Free \notin Request
ASSUME PlanAssumption == Plan \subseteq SUBSET Venue \ {{}}
ASSUME CapitalBounds ==
  /\ MaxSessions \in Nat /\ MaxProposals \in Nat
  /\ MaxMoves \in Nat /\ MaxFaults \in Nat /\ MaxRequests \in Nat

VARIABLES
  sessions,   \* shadow_paper_sessions: status, opening book, tokens in its note
  book,       \* shadow_paper_balances: what last allocated each venue
  proposals,  \* shadow_allocation_proposals, in order
  decisions,  \* shadow_allocation_decisions, in order
  world,      \* the evidence fingerprints, as a version
  lock, pc,
  mem,        \* what a request has read
  torn,       \* venues an interrupted request left without an explanation
  faults,
  sent        \* requests sent so far

vars == <<sessions, book, proposals, decisions, world, lock, pc, mem, torn, faults,
          sent>>

Blank == [sess |-> 0, proposal |-> 0, key |-> "none", world |-> 0, todo |-> {},
          token |-> NoToken, next |-> "NONE"]

Existing == {s \in Session : sessions[s].status # "NONE"}
Live == {s \in Session : sessions[s].status \in LiveStatus}
Newest == Cardinality(Existing)
\* getActivePaperSession: the newest session that is not stopped, if any.
Active == {s \in Live : \A t \in Live : t <= s}

KeyUsed(k) == \E i \in DOMAIN decisions : decisions[i].key = k
Applied(p) ==
  \E i \in DOMAIN decisions : decisions[i].proposal = p /\ decisions[i].decision = "APPLIED"

Init ==
  /\ sessions = [s \in Session |-> [status |-> "NONE", opening |-> {}, tags |-> {}]]
  /\ book = [s \in Session |-> [v \in Venue |-> NoRow]]
  /\ proposals = <<>> /\ decisions = <<>>
  /\ world = 0
  /\ lock = Free
  /\ pc = [r \in Request |-> "idle"]
  /\ mem = [r \in Request |-> Blank]
  /\ torn = [s \in Session |-> {}]
  /\ faults = 0 /\ sent = 0

Enter(r) == lock = Free /\ lock' = r
Leave(r) == lock' = IF lock = r THEN Free ELSE lock

Goto(r, label) == pc' = [pc EXCEPT ![r] = label]
\* The request is answered.
Answer(r) == Goto(r, "idle") /\ mem' = [mem EXCEPT ![r] = Blank]
\* An idle client sends its next request.
Sent(r) == pc[r] = "idle" /\ sent < MaxRequests /\ sent' = sent + 1
\* A request goes on with what it has remembered.
Continue(r, label, record) == Goto(r, label) /\ mem' = [mem EXCEPT ![r] = record]

-----------------------------------------------------------------------------
(* Proposals and their application.                                        *)

\* propose_allocation, recordProposal: an applicable plan, or a preview
\* shaped by a limit nobody approved.  It names the venues executable now.
Propose(r) ==
  /\ Sent(r)
  /\ Len(proposals) < MaxProposals
  /\ \E rows \in Plan, status \in {"PROPOSED", "PREVIEW"} :
       proposals' = Append(proposals, [rows |-> rows, status |-> status, world |-> world])
  /\ UNCHANGED <<sessions, book, decisions, world, lock, pc, mem, torn, faults>>

\* apply_allocation: the route reads the active session and the fingerprints.
\* Which proposal and key it was sent is revealed when they are looked up.
ApplyAsk(r) ==
  /\ Sent(r)
  /\ \E s \in Active :
       Continue(r, "apply", [Blank EXCEPT !.sess = s, !.world = world])
  /\ UNCHANGED <<sessions, book, proposals, decisions, world, lock, torn, faults>>

Decision(r, p, k, decision) ==
  decisions' = Append(decisions, [proposal |-> p, sess |-> mem[r].sess, key |-> k,
                                  decision |-> decision])

\* Mutation: only the idempotency key is looked up.
SettledByKey(p, k) == KeyUsed(k)

\* An outcome is already on record, for the key or for the proposal.
Settled(p, k) ==
  KeyUsed(k) \/ (proposals[p].status = "PROPOSED" /\ Applied(p))

\* Only the first outcome is answered.
ApplyReplay(r) ==
  /\ pc[r] = "apply" /\ lock = Free
  /\ \E p \in DOMAIN proposals, k \in Key : Settled(p, k)
  /\ Answer(r)
  /\ UNCHANGED <<sessions, book, proposals, decisions, world, lock, torn, faults, sent>>

\* A preview or a plan whose evidence has moved is refused, on record.
ApplyRefused(r) ==
  /\ pc[r] = "apply" /\ lock = Free
  /\ \E p \in DOMAIN proposals, k \in Key :
       /\ ~ Settled(p, k)
       /\ \/ proposals[p].status # "PROPOSED" /\ Decision(r, p, k, "FAILED")
          \/ /\ proposals[p].status = "PROPOSED" /\ proposals[p].world # mem[r].world
             /\ Decision(r, p, k, "REJECTED_STALE")
  /\ Answer(r)
  /\ UNCHANGED <<sessions, book, proposals, world, lock, torn, faults, sent>>

\* Otherwise the balances are read, and written one venue after the other ...
ApplyStart(r) ==
  /\ pc[r] = "apply"
  /\ \E p \in DOMAIN proposals, k \in Key :
       /\ ~ Settled(p, k)
       /\ proposals[p].status = "PROPOSED" /\ proposals[p].world = mem[r].world
       /\ Continue(r, "write", [mem[r] EXCEPT !.proposal = p, !.key = k,
                                              !.todo = proposals[p].rows])
  /\ Enter(r)
  /\ UNCHANGED <<sessions, book, proposals, decisions, world, torn, faults, sent>>

\* Mutation: a venue that has no balance row yet is not inserted.
ApplyWriteUpdates(r) ==
  /\ pc[r] = "write"
  /\ \E v \in mem[r].todo :
       /\ book' = [book EXCEPT ![mem[r].sess][v] = IF @ = NoRow THEN NoRow ELSE mem[r].proposal]
       /\ Continue(r, IF mem[r].todo = {v} THEN "decide" ELSE "write",
                   [mem[r] EXCEPT !.todo = @ \ {v}])
  /\ UNCHANGED <<sessions, proposals, decisions, world, lock, torn, faults, sent>>

ApplyWrite(r) ==
  /\ pc[r] = "write"
  /\ \E v \in mem[r].todo :
       /\ book' = [book EXCEPT ![mem[r].sess][v] = mem[r].proposal]
       /\ Continue(r, IF mem[r].todo = {v} THEN "decide" ELSE "write",
                   [mem[r] EXCEPT !.todo = @ \ {v}])
  /\ UNCHANGED <<sessions, proposals, decisions, world, lock, torn, faults, sent>>

\* ... and the decision comes last.
ApplyDecide(r) ==
  /\ pc[r] = "decide"
  /\ ~ KeyUsed(mem[r].key)
  /\ Decision(r, mem[r].proposal, mem[r].key, "APPLIED")
  /\ torn' = [torn EXCEPT ![mem[r].sess] = @ \ proposals[mem[r].proposal].rows]
  /\ Leave(r)
  /\ Answer(r)
  /\ UNCHANGED <<sessions, book, proposals, world, faults, sent>>

-----------------------------------------------------------------------------
(* Sessions: create, replace, and the status a request asks for.           *)

\* The next session with its status, opening book and the token in its note.
NewSession(status, venues, tags) ==
  sessions' = [sessions EXCEPT ![Newest + 1] =
                 [status |-> status, opening |-> venues, tags |-> tags]]

\* createPaperSession: the session, then its balances.
Create(r) ==
  /\ Sent(r)
  /\ Newest < MaxSessions
  /\ \E plan \in Plan :
       /\ NewSession("NOT_STARTED", plan, {})
       /\ Continue(r, "book", [Blank EXCEPT !.sess = Newest + 1, !.todo = plan])
  /\ Enter(r)
  /\ UNCHANGED <<book, proposals, decisions, world, torn, faults>>

\* session-capital, apply: the request's token was taken on the session that
\* is active now.
ReplaceAsk(r) ==
  /\ Sent(r)
  /\ \E plan \in Plan :
       Continue(r, "replace", [Blank EXCEPT !.token = [bound |-> Active, plan |-> plan]])
  /\ UNCHANGED <<sessions, book, proposals, decisions, world, lock, torn, faults>>

\* The sole live session runs at this plan and its note names the token (a
\* session the token archived names it too).
AlreadyReplaced(token) ==
  \E s \in Live : /\ Live = {s} /\ sessions[s].status = "RUNNING"
                  /\ sessions[s].opening = token.plan /\ token \in sessions[s].tags

\* Mutation: the live sessions are listed before the serial section.
ReplaceReadEarly(r) ==
  /\ pc[r] = "replace"
  /\ ~ AlreadyReplaced(mem[r].token)
  /\ Newest < MaxSessions
  /\ Continue(r, "archive", [mem[r] EXCEPT !.todo = Live])
  /\ UNCHANGED <<sessions, book, proposals, decisions, world, lock, torn, faults, sent>>

\* replaceActivePaperSessionCapital: every live session is listed ...
ReplaceRead(r) ==
  /\ pc[r] = "replace"
  /\ ~ AlreadyReplaced(mem[r].token)
  /\ Newest < MaxSessions
  /\ Continue(r, "archive", [mem[r] EXCEPT !.todo = Live])
  /\ Enter(r)
  /\ UNCHANGED <<sessions, book, proposals, decisions, world, torn, faults, sent>>

ReplaceReused(r) ==
  /\ pc[r] = "replace" /\ lock = Free
  /\ AlreadyReplaced(mem[r].token)
  /\ Answer(r)
  /\ UNCHANGED <<sessions, book, proposals, decisions, world, lock, torn, faults, sent>>

\* Mutation: the archived session gets a status no reader knows.
ArchivedAs == "ARCHIVED"

ArchiveStatus == "STOPPED"

\* ... archived, one statement each ...
Archive(r) ==
  /\ pc[r] = "archive"
  /\ \E s \in mem[r].todo :
       /\ sessions' = [sessions EXCEPT ![s].status = ArchiveStatus,
                                     ![s].tags = @ \cup {mem[r].token}]
       /\ Continue(r, "archive", [mem[r] EXCEPT !.todo = @ \ {s}])
  /\ UNCHANGED <<book, proposals, decisions, world, lock, torn, faults, sent>>

\* ... and one RUNNING session is opened ...
ReplaceOpen(r) ==
  /\ pc[r] = "archive" /\ mem[r].todo = {}
  /\ Newest < MaxSessions
  /\ NewSession("RUNNING", mem[r].token.plan, {mem[r].token})
  /\ Continue(r, "book", [mem[r] EXCEPT !.sess = Newest + 1, !.todo = mem[r].token.plan])
  /\ UNCHANGED <<book, proposals, decisions, world, lock, torn, faults, sent>>

\* ... with its balances.  Both commands end here.
InsertRow(r) ==
  /\ pc[r] = "book"
  /\ \E v \in mem[r].todo :
       /\ book' = [book EXCEPT ![mem[r].sess][v] = Opening]
       /\ IF mem[r].todo = {v}
          THEN Answer(r) /\ Leave(r)
          ELSE Continue(r, "book", [mem[r] EXCEPT !.todo = @ \ {v}]) /\ UNCHANGED lock
  /\ UNCHANGED <<sessions, proposals, decisions, world, torn, faults, sent>>

\* start, pause, resume, stop: the route reads the session and judges it ...
StatusAsk(r) ==
  /\ Sent(r)
  /\ \E s \in Existing, next \in {"RUNNING", "PAUSED", "STOPPED"} :
       /\ sessions[s].status # "STOPPED"
       /\ next = "PAUSED" => sessions[s].status = "RUNNING"
       /\ Continue(r, "status", [Blank EXCEPT !.sess = s, !.next = next])
  /\ UNCHANGED <<sessions, book, proposals, decisions, world, lock, torn, faults>>

\* ... and setPaperSessionStatus writes whatever the session is by then.
StatusWrite(r) ==
  /\ pc[r] = "status" /\ lock = Free
  /\ sessions' = [sessions EXCEPT ![mem[r].sess].status = mem[r].next]
  /\ Answer(r)
  /\ UNCHANGED <<book, proposals, decisions, world, lock, torn, faults, sent>>

-----------------------------------------------------------------------------
(* Faults.                                                                 *)

\* What r has written, or not yet written, that no decision explains.
Unexplained(r) ==
  CASE pc[r] \in {"write", "decide"} -> proposals[mem[r].proposal].rows \ mem[r].todo
    [] pc[r] = "book" -> mem[r].todo
    [] OTHER -> {}

Tear(dead) ==
  torn' = [s \in Session |->
             torn[s] \cup UNION {Unexplained(r) : r \in {r \in dead : mem[r].sess = s}}]

Fault == faults < MaxFaults /\ faults' = faults + 1

\* A statement fails: the error leaves the section and what was written stays.
Throw(r) ==
  /\ Fault
  /\ pc[r] \in {"write", "decide", "archive", "book"}
  /\ Tear({r})
  /\ Leave(r)
  /\ Answer(r)
  /\ UNCHANGED <<sessions, book, proposals, decisions, world, sent>>

\* The process dies with every request in it.
Crash ==
  /\ Fault
  /\ Tear(Request)
  /\ pc' = [q \in Request |-> "idle"]
  /\ mem' = [q \in Request |-> Blank]
  /\ lock' = Free
  /\ UNCHANGED <<sessions, book, proposals, decisions, world, sent>>

\* Venues, account evidence or policies change.
WorldMoves ==
  /\ world < MaxMoves
  /\ world' = world + 1
  /\ UNCHANGED <<sessions, book, proposals, decisions, lock, pc, mem, torn, faults, sent>>

Allocation(r) ==
  \/ Propose(r) \/ ApplyAsk(r) \/ ApplyReplay(r) \/ ApplyRefused(r)
  \/ ApplyStart(r) \/ ApplyWrite(r) \/ ApplyDecide(r)
Capital(r) ==
  \/ Create(r) \/ ReplaceAsk(r) \/ ReplaceRead(r) \/ ReplaceReused(r)
  \/ Archive(r) \/ ReplaceOpen(r) \/ InsertRow(r)
  \/ StatusAsk(r) \/ StatusWrite(r)

Next ==
  \/ \E r \in Request : Allocation(r) \/ Capital(r) \/ Throw(r)
  \/ Crash \/ WorldMoves

Spec == Init /\ [][Next]_vars

-----------------------------------------------------------------------------
(* Properties.                                                             *)

\* Types of the tables, of the lock and of what each request remembers.
TypeOK ==
  /\ sessions \in [Session -> [status : LiveStatus \cup {"NONE", "STOPPED"},
                               opening : SUBSET Venue, tags : SUBSET Token]]
  /\ book \in [Session -> [Venue -> 0 .. NoRow]]
  /\ proposals \in Seq([rows : SUBSET Venue, status : {"PROPOSED", "PREVIEW"}, world : Nat])
  /\ Len(proposals) <= MaxProposals
  /\ decisions \in Seq([proposal : Proposal, sess : Session, key : Key,
                        decision : {"APPLIED", "REJECTED_STALE", "FAILED"}])
  /\ world \in 0 .. MaxMoves
  /\ lock \in Request \cup {Free}
  /\ pc \in [Request -> {"idle", "apply", "write", "decide", "replace", "archive",
                         "book", "status"}]
  /\ mem \in [Request -> [sess : 0 .. MaxSessions, proposal : 0 .. MaxProposals,
                          key : Key \cup {"none"}, world : 0 .. MaxMoves,
                          todo : SUBSET (Venue \cup Session), token : Token,
                          next : LiveStatus \cup {"NONE", "STOPPED"}]]
  /\ torn \in [Session -> SUBSET Venue]
  /\ faults \in 0 .. MaxFaults /\ sent \in 0 .. MaxRequests

\* A proposal is applied at most once, whatever keys are presented, however
\* requests queue, crash and retry (applyProposal).
AppliedOnce ==
  \A i, j \in DOMAIN decisions :
    /\ decisions[i].decision = "APPLIED" /\ decisions[j].decision = "APPLIED"
    /\ decisions[i].proposal = decisions[j].proposal
    => i = j

\* The decisions that last allocated venue v of session s.
Allocators(s, v) ==
  {i \in DOMAIN decisions :
     /\ decisions[i].decision = "APPLIED" /\ decisions[i].sess = s
     /\ v \in proposals[decisions[i].proposal].rows}
Explained(s, v) ==
  IF Allocators(s, v) # {}
  THEN decisions[CHOOSE i \in Allocators(s, v) : \A j \in Allocators(s, v) : j <= i].proposal
  ELSE IF v \in sessions[s].opening THEN Opening ELSE NoRow

\* The append-only log explains the book: between sections every balance is
\* the one the last applied proposal that names its venue gave it, or the
\* opening one, unless an interrupted request left it torn; and the retry of
\* an interrupted apply mends it.
LogExplainsBook ==
  lock = Free =>
    \A s \in Session, v \in Venue : v \notin torn[s] => book[s][v] = Explained(s, v)

\* "Open exactly one": when a replacement opens its session no other session
\* is live, whoever created, started or replaced sessions while it waited
\* (replaceActivePaperSessionCapital).
ReplacementStandsAlone ==
  [][\A r \in Request :
       pc[r] = "archive" /\ pc'[r] = "book"
         => Live' = {mem'[r].sess}]_vars
=============================================================================
