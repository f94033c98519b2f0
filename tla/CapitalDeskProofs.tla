-------------------------- MODULE CapitalDeskProofs --------------------------
(***************************************************************************)
(* For any requests, venues, keys, plans and bounds: an allocation         *)
(* proposal is applied at most once, a replacement opens its session only  *)
(* when no other session is live, and the log explains every balance that  *)
(* no interruption left torn, through every interleaving of the operator's *)
(* commands, failed statements and crashes.                                *)
(*                                                                         *)
(* All rest on the serial queue: a request past the first read of its     *)
(* section holds the lock, so what it has read there (that the proposal    *)
(* was never applied, which sessions are live) is still so when it writes. *)
(***************************************************************************)
EXTENDS CapitalDesk, FiniteSetTheorems, WellFoundedInduction, TLAPS

Status == LiveStatus \cup {"NONE", "STOPPED"}
Label == {"idle", "apply", "write", "decide", "replace", "archive", "book", "status"}
Sectioned == {"write", "decide", "archive", "book"}
Row == [status : Status, opening : SUBSET Venue, tags : SUBSET Token]
Mem == [sess : 0 .. MaxSessions, proposal : 0 .. MaxProposals, key : Key \cup {"none"},
        world : 0 .. MaxMoves, todo : SUBSET (Venue \cup Session), token : Token,
        next : Status]
Stored == [rows : SUBSET Venue, status : {"PROPOSED", "PREVIEW"}, world : Nat]
Logged == [proposal : Proposal, sess : Session, key : Key,
           decision : {"APPLIED", "REJECTED_STALE", "FAILED"}]

\* A request in its section holds the lock, and has something to decide on.
Placed ==
  \A r \in Request :
    /\ pc[r] \in Sectioned => lock = r
    /\ pc[r] \in {"apply", "write", "decide"} => mem[r].sess \in Session
    /\ pc[r] \in {"write", "decide"} =>
         mem[r].proposal \in DOMAIN proposals /\ mem[r].key \in Key
    /\ pc[r] = "book" => mem[r].todo \subseteq Venue

\* A request that goes on has the types it had.
LEMMA ContinueTypes ==
  ASSUME TypeOK, NEW r \in Request, NEW label \in Label, NEW record \in Mem,
         Continue(r, label, record)
  PROVE  /\ pc' \in [Request -> Label] /\ mem' \in [Request -> Mem]
         /\ pc'[r] = label /\ mem'[r] = record
         /\ \A q \in Request \ {r} : pc'[q] = pc[q] /\ mem'[q] = mem[q]
<1>1. pc \in [Request -> Label] /\ mem \in [Request -> Mem]
  BY DEF TypeOK, Label, Mem, Status
<1> QED BY <1>1 DEF Continue, Goto

LEMMA BlankType == Blank \in Mem
<1>1. 0 \in 0 .. MaxSessions /\ 0 \in 0 .. MaxProposals /\ 0 \in 0 .. MaxMoves
  BY CapitalBounds
<1>2. NoToken \in Token
  BY DEF NoToken, Token
<1> QED BY <1>1, <1>2 DEF Blank, Mem, Status

\* So has one that is answered.
LEMMA AnswerTypes ==
  ASSUME TypeOK, NEW r \in Request, Answer(r)
  PROVE  /\ pc' \in [Request -> Label] /\ mem' \in [Request -> Mem]
         /\ pc'[r] = "idle"
         /\ \A q \in Request \ {r} : pc'[q] = pc[q] /\ mem'[q] = mem[q]
BY BlankType, ContinueTypes DEF Answer, Continue, Label

\* A new session keeps the types of the table.
LEMMA NewSessionTypes ==
  ASSUME TypeOK, NEW status \in Status, NEW venues \in SUBSET Venue,
         NEW tags \in SUBSET Token, NewSession(status, venues, tags)
  PROVE  sessions' \in [Session -> Row]
<1>1. sessions \in [Session -> Row]
  BY DEF TypeOK, Row, Status
<1>2. [status |-> status, opening |-> venues, tags |-> tags] \in Row
  BY DEF Row
<1> QED BY <1>1, <1>2 DEF NewSession

\* The number of sessions, as a number.
LEMMA NewestType == Newest \in 0 .. MaxSessions
<1>1. IsFiniteSet(Session) /\ Cardinality(Session) = MaxSessions
  BY FS_Interval, CapitalBounds DEF Session
<1>2. Existing \subseteq Session
  BY DEF Existing
<1>3. Cardinality(Existing) \in Nat /\ Cardinality(Existing) <= MaxSessions
  BY <1>1, <1>2, FS_Subset, FS_CardinalityType
<1> QED BY <1>3, CapitalBounds DEF Newest

\* A stored proposal, by its number.
LEMMA ProposalTypes ==
  ASSUME TypeOK, NEW p \in DOMAIN proposals
  PROVE  p \in Proposal /\ p \in 0 .. MaxProposals /\ proposals[p] \in Stored
<1>1. proposals \in Seq(Stored) /\ Len(proposals) \in Nat /\ Len(proposals) <= MaxProposals
  BY DEF TypeOK, Stored
<1>2. DOMAIN proposals = 1 .. Len(proposals)
  BY <1>1
<1>3. proposals[p] \in Stored
  BY <1>1
<1> QED BY <1>1, <1>2, <1>3, CapitalBounds DEF Proposal

\* Types and Placed, over the commands on proposals.
LEMMA AllocationTypes ==
  ASSUME TypeOK, Placed, NEW r \in Request, Allocation(r)
  PROVE  TypeOK' /\ Placed'
<1>0. /\ proposals \in Seq(Stored) /\ decisions \in Seq(Logged)
      /\ mem \in [Request -> Mem] /\ mem[r] \in Mem /\ pc \in [Request -> Label]
      /\ Len(proposals) \in Nat
  BY DEF TypeOK, Stored, Logged, Mem, Label, Status
<1>1. CASE Propose(r)
  <2>1. PICK rows \in Plan, status \in {"PROPOSED", "PREVIEW"} :
          proposals' = Append(proposals, [rows |-> rows, status |-> status, world |-> world])
    BY <1>1 DEF Propose
  <2>2. [rows |-> rows, status |-> status, world |-> world] \in Stored
    BY PlanAssumption, CapitalBounds DEF Stored, TypeOK
  <2>3. /\ proposals' \in Seq(Stored) /\ Len(proposals') = Len(proposals) + 1
        /\ DOMAIN proposals \subseteq DOMAIN proposals'
    BY <1>0, <2>1, <2>2
  <2>4. Len(proposals') <= MaxProposals
    BY <1>0, <1>1, <2>3, CapitalBounds DEF Propose
  <2>5. sent' \in 0 .. MaxRequests
    BY <1>1, CapitalBounds DEF Propose, Sent, TypeOK
  <2> QED BY <1>1, <2>3, <2>4, <2>5 DEF Propose, TypeOK, Placed, Stored
<1>2. CASE ApplyAsk(r)
  <2>1. PICK s \in Active :
          Continue(r, "apply", [Blank EXCEPT !.sess = s, !.world = world])
    BY <1>2 DEF ApplyAsk
  <2>2. s \in Session
    BY DEF Active, Live
  <2>3. [Blank EXCEPT !.sess = s, !.world = world] \in Mem
    <3>1. s \in 0 .. MaxSessions /\ world \in 0 .. MaxMoves
      BY <2>2, CapitalBounds DEF Session, TypeOK
    <3> QED BY <3>1, BlankType DEF Mem
  <2>4. [Blank EXCEPT !.sess = s, !.world = world].sess = s
    BY DEF Blank
  <2>5. /\ pc' \in [Request -> Label] /\ mem' \in [Request -> Mem]
        /\ pc'[r] = "apply" /\ mem'[r].sess = s
        /\ \A q \in Request \ {r} : pc'[q] = pc[q] /\ mem'[q] = mem[q]
    BY <2>1, <2>3, <2>4, ContinueTypes DEF Label
  <2>6. sent' \in 0 .. MaxRequests
    BY <1>2, CapitalBounds DEF ApplyAsk, Sent, TypeOK
  <2>7. TypeOK'
    BY <1>2, <2>5, <2>6 DEF ApplyAsk, TypeOK, Label, Mem, Status
  <2> QED BY <1>2, <2>2, <2>5, <2>7 DEF ApplyAsk, Placed, Sectioned
<1>3. CASE ApplyReplay(r)
  <2>1. /\ pc' \in [Request -> Label] /\ mem' \in [Request -> Mem]
        /\ pc'[r] = "idle"
        /\ \A q \in Request \ {r} : pc'[q] = pc[q] /\ mem'[q] = mem[q]
    BY <1>3, AnswerTypes DEF ApplyReplay
  <2>2. TypeOK'
    BY <1>3, <2>1 DEF ApplyReplay, TypeOK, Label, Mem, Status
  <2> QED BY <1>3, <2>1, <2>2 DEF ApplyReplay, Placed, Sectioned
<1>4. CASE ApplyRefused(r)
  <2>1. /\ pc' \in [Request -> Label] /\ mem' \in [Request -> Mem]
        /\ pc'[r] = "idle"
        /\ \A q \in Request \ {r} : pc'[q] = pc[q] /\ mem'[q] = mem[q]
    BY <1>4, AnswerTypes DEF ApplyRefused
  <2>2. PICK p \in DOMAIN proposals, k \in Key, decision \in {"FAILED", "REJECTED_STALE"} :
          Decision(r, p, k, decision)
    BY <1>4 DEF ApplyRefused
  <2>3. [proposal |-> p, sess |-> mem[r].sess, key |-> k, decision |-> decision] \in Logged
    BY <1>4, ProposalTypes DEF ApplyRefused, Placed, Logged
  <2>4. decisions' \in Seq(Logged)
    BY <1>0, <2>2, <2>3 DEF Decision
  <2>5. TypeOK'
    BY <1>4, <2>1, <2>4 DEF ApplyRefused, TypeOK, Label, Mem, Status, Logged
  <2> QED BY <1>4, <2>1, <2>5 DEF ApplyRefused, Placed, Sectioned
<1>5. CASE ApplyStart(r)
  <2>1. PICK p \in DOMAIN proposals, k \in Key :
          Continue(r, "write", [mem[r] EXCEPT !.proposal = p, !.key = k,
                                              !.todo = proposals[p].rows])
    BY <1>5 DEF ApplyStart
  <2> DEFINE record == [mem[r] EXCEPT !.proposal = p, !.key = k, !.todo = proposals[p].rows]
  <2>2. p \in 0 .. MaxProposals /\ proposals[p].rows \subseteq Venue
    BY ProposalTypes DEF Stored
  <2>3. record \in Mem /\ record.proposal = p /\ record.key = k /\ record.sess = mem[r].sess
    BY <1>0, <2>2 DEF Mem
  <2> HIDE DEF record
  <2>4. /\ pc' \in [Request -> Label] /\ mem' \in [Request -> Mem]
        /\ pc'[r] = "write" /\ mem'[r] = record
        /\ \A q \in Request \ {r} : pc'[q] = pc[q] /\ mem'[q] = mem[q]
    BY <2>1, <2>3, ContinueTypes DEF Label, record
  <2>5. TypeOK'
    BY <1>5, <2>4 DEF ApplyStart, Enter, TypeOK, Label, Mem, Status
  <2>6. mem[r].sess \in Session
    BY <1>5 DEF ApplyStart, Placed
  <2>7. lock = Free /\ lock' = r /\ proposals' = proposals
    BY <1>5 DEF ApplyStart, Enter
  <2>8. \A q \in Request \ {r} : pc'[q] \notin Sectioned
    BY <2>4, <2>7, RequestAssumption DEF Placed
  <2> QED BY <2>3, <2>4, <2>5, <2>6, <2>7, <2>8 DEF Placed, Sectioned
<1>6. CASE ApplyWrite(r)
  <2>1. PICK v \in mem[r].todo :
          /\ book' = [book EXCEPT ![mem[r].sess][v] = mem[r].proposal]
          /\ Continue(r, IF mem[r].todo = {v} THEN "decide" ELSE "write",
                      [mem[r] EXCEPT !.todo = @ \ {v}])
    BY <1>6 DEF ApplyWrite
  <2> DEFINE record == [mem[r] EXCEPT !.todo = @ \ {v}]
             label == IF mem[r].todo = {v} THEN "decide" ELSE "write"
  <2>2. /\ record \in Mem /\ record.proposal = mem[r].proposal
        /\ record.key = mem[r].key /\ record.sess = mem[r].sess
    BY <1>0 DEF Mem
  <2>3. label \in {"decide", "write"} /\ label \in Label
    BY DEF Label
  <2> HIDE DEF record, label
  <2>4. /\ pc' \in [Request -> Label] /\ mem' \in [Request -> Mem]
        /\ pc'[r] = label /\ mem'[r] = record
        /\ \A q \in Request \ {r} : pc'[q] = pc[q] /\ mem'[q] = mem[q]
    BY <2>1, <2>2, <2>3, ContinueTypes DEF record, label
  <2>5. mem[r].proposal \in 0 .. NoRow
    BY <1>0, CapitalBounds DEF Mem, NoRow
  <2>6. book' \in [Session -> [Venue -> 0 .. NoRow]]
    BY <2>1, <2>5 DEF TypeOK
  <2>7. TypeOK'
    BY <1>6, <2>4, <2>6 DEF ApplyWrite, TypeOK, Label, Mem, Status
  <2>8. /\ pc[r] = "write" /\ lock' = lock /\ proposals' = proposals
    BY <1>6 DEF ApplyWrite
  <2> QED BY <2>2, <2>3, <2>4, <2>7, <2>8 DEF Placed, Sectioned
<1>7. CASE ApplyDecide(r)
  <2>1. /\ pc' \in [Request -> Label] /\ mem' \in [Request -> Mem]
        /\ pc'[r] = "idle"
        /\ \A q \in Request \ {r} : pc'[q] = pc[q] /\ mem'[q] = mem[q]
    BY <1>7, AnswerTypes DEF ApplyDecide
  <2>2. /\ pc[r] = "decide" /\ Decision(r, mem[r].proposal, mem[r].key, "APPLIED")
        /\ proposals' = proposals
    BY <1>7 DEF ApplyDecide
  <2>3. [proposal |-> mem[r].proposal, sess |-> mem[r].sess, key |-> mem[r].key,
         decision |-> "APPLIED"] \in Logged
    BY <1>0, <2>2 DEF Placed, Logged, Proposal, TypeOK
  <2>4. decisions' \in Seq(Logged)
    BY <1>0, <2>2, <2>3 DEF Decision
  <2>5. torn' \in [Session -> SUBSET Venue]
    BY <1>7 DEF ApplyDecide, TypeOK
  <2>6. lock = r /\ lock' = Free
    BY <1>7, <2>2 DEF ApplyDecide, Leave, Placed, Sectioned
  <2>7. TypeOK'
    BY <1>7, <2>1, <2>4, <2>5, <2>6 DEF ApplyDecide, TypeOK, Label, Mem, Status, Logged
  <2>8. \A q \in Request \ {r} : pc[q] \notin Sectioned
    BY <2>6 DEF Placed
  <2> QED BY <2>1, <2>2, <2>7, <2>8 DEF Placed, Sectioned
<1> QED
  BY <1>1, <1>2, <1>3, <1>4, <1>5, <1>6, <1>7 DEF Allocation

\* Types and Placed, over the commands on sessions.
LEMMA CapitalTypes ==
  ASSUME TypeOK, Placed, NEW r \in Request, Capital(r)
  PROVE  TypeOK' /\ Placed'
<1>0. /\ sessions \in [Session -> Row]
      /\ mem \in [Request -> Mem] /\ mem[r] \in Mem /\ pc \in [Request -> Label]
      /\ Newest \in 0 .. MaxSessions /\ MaxSessions \in Nat
      /\ Blank \in Mem
  BY NewestType, BlankType, CapitalBounds DEF TypeOK, Row, Mem, Label, Status
<1>1. CASE Create(r)
  <2>1. PICK plan \in Plan :
          /\ NewSession("NOT_STARTED", plan, {})
          /\ Continue(r, "book", [Blank EXCEPT !.sess = Newest + 1, !.todo = plan])
    BY <1>1 DEF Create
  <2>2. Newest + 1 \in 0 .. MaxSessions /\ plan \subseteq Venue
    BY <1>0, <1>1, PlanAssumption DEF Create
  <2>3. [Blank EXCEPT !.sess = Newest + 1, !.todo = plan] \in Mem
    BY <1>0, <2>2 DEF Mem
  <2>4. /\ pc' \in [Request -> Label] /\ mem' \in [Request -> Mem]
        /\ pc'[r] = "book" /\ mem'[r].todo \subseteq Venue
        /\ \A q \in Request \ {r} : pc'[q] = pc[q] /\ mem'[q] = mem[q]
    <3>1. [Blank EXCEPT !.sess = Newest + 1, !.todo = plan].todo = plan
      BY <1>0 DEF Mem
    <3> QED BY <2>1, <2>2, <2>3, <3>1, ContinueTypes DEF Label
  <2>5. sessions' \in [Session -> Row]
    BY <2>1, <2>2, NewSessionTypes DEF Status, LiveStatus
  <2>6. sent' \in 0 .. MaxRequests /\ lock = Free /\ lock' = r
    BY <1>1, CapitalBounds DEF Create, Sent, Enter, TypeOK
  <2>7. TypeOK'
    BY <1>1, <2>4, <2>5, <2>6 DEF Create, TypeOK, Row, Label, Mem, Status
  <2>8. \A q \in Request \ {r} : pc'[q] \notin Sectioned
    BY <2>4, <2>6, RequestAssumption DEF Placed
  <2> QED BY <1>1, <2>4, <2>6, <2>7, <2>8 DEF Create, Placed, Sectioned
<1>2. CASE ReplaceAsk(r)
  <2>1. PICK plan \in Plan :
          Continue(r, "replace", [Blank EXCEPT !.token = [bound |-> Active, plan |-> plan]])
    BY <1>2 DEF ReplaceAsk
  <2>2. [bound |-> Active, plan |-> plan] \in Token
    BY DEF Token, Active, Live
  <2>3. [Blank EXCEPT !.token = [bound |-> Active, plan |-> plan]] \in Mem
    BY <1>0, <2>2 DEF Mem
  <2>4. /\ pc' \in [Request -> Label] /\ mem' \in [Request -> Mem]
        /\ pc'[r] = "replace"
        /\ \A q \in Request \ {r} : pc'[q] = pc[q] /\ mem'[q] = mem[q]
    BY <2>1, <2>3, ContinueTypes DEF Label
  <2>5. sent' \in 0 .. MaxRequests
    BY <1>2, CapitalBounds DEF ReplaceAsk, Sent, TypeOK
  <2>6. TypeOK'
    BY <1>2, <2>4, <2>5 DEF ReplaceAsk, TypeOK, Label, Mem, Status
  <2> QED BY <1>2, <2>4, <2>6 DEF ReplaceAsk, Placed, Sectioned
<1>3. CASE ReplaceRead(r)
  <2>1. Continue(r, "archive", [mem[r] EXCEPT !.todo = Live]) /\ lock = Free /\ lock' = r
    BY <1>3 DEF ReplaceRead, Enter
  <2>2. [mem[r] EXCEPT !.todo = Live] \in Mem
    BY <1>0 DEF Mem, Live
  <2>3. /\ pc' \in [Request -> Label] /\ mem' \in [Request -> Mem]
        /\ pc'[r] = "archive"
        /\ \A q \in Request \ {r} : pc'[q] = pc[q] /\ mem'[q] = mem[q]
    BY <2>1, <2>2, ContinueTypes DEF Label
  <2>4. TypeOK'
    BY <1>3, <2>1, <2>3 DEF ReplaceRead, TypeOK, Label, Mem, Status
  <2>5. \A q \in Request \ {r} : pc'[q] \notin Sectioned
    BY <2>1, <2>3, RequestAssumption DEF Placed
  <2> QED BY <1>3, <2>1, <2>3, <2>4, <2>5 DEF ReplaceRead, Placed, Sectioned
<1>4. CASE ReplaceReused(r)
  <2>1. /\ pc' \in [Request -> Label] /\ mem' \in [Request -> Mem]
        /\ pc'[r] = "idle"
        /\ \A q \in Request \ {r} : pc'[q] = pc[q] /\ mem'[q] = mem[q]
    BY <1>4, AnswerTypes DEF ReplaceReused
  <2>2. TypeOK'
    BY <1>4, <2>1 DEF ReplaceReused, TypeOK, Label, Mem, Status
  <2> QED BY <1>4, <2>1, <2>2 DEF ReplaceReused, Placed, Sectioned
<1>5. CASE Archive(r)
  <2>1. PICK s \in mem[r].todo :
          /\ sessions' = [sessions EXCEPT ![s].status = ArchiveStatus,
                                         ![s].tags = @ \cup {mem[r].token}]
          /\ Continue(r, "archive", [mem[r] EXCEPT !.todo = @ \ {s}])
    BY <1>5 DEF Archive
  <2>2. [mem[r] EXCEPT !.todo = @ \ {s}] \in Mem
    BY <1>0 DEF Mem
  <2>3. /\ pc' \in [Request -> Label] /\ mem' \in [Request -> Mem]
        /\ pc'[r] = "archive"
        /\ \A q \in Request \ {r} : pc'[q] = pc[q] /\ mem'[q] = mem[q]
    BY <2>1, <2>2, ContinueTypes DEF Label
  <2>4. mem[r].token \in Token
    BY <1>0 DEF Mem
  <2>5. sessions' \in [Session -> Row]
    BY <1>0, <2>1, <2>4 DEF Row, Status, ArchiveStatus
  <2>6. TypeOK'
    BY <1>5, <2>3, <2>5 DEF Archive, TypeOK, Row, Label, Mem, Status
  <2> QED BY <1>5, <2>3, <2>6 DEF Archive, Placed, Sectioned
<1>6. CASE ReplaceOpen(r)
  <2> DEFINE record == [mem[r] EXCEPT !.sess = Newest + 1, !.todo = mem[r].token.plan]
  <2>1. /\ pc[r] = "archive" /\ Newest < MaxSessions
        /\ NewSession("RUNNING", mem[r].token.plan, {mem[r].token})
        /\ Continue(r, "book", record)
    BY <1>6 DEF ReplaceOpen
  <2>2. mem[r].token \in Token /\ mem[r].token.plan \subseteq Venue
    BY <1>0, PlanAssumption DEF Mem, Token
  <2>3. record \in Mem /\ record.todo \subseteq Venue
    <3>1. Newest + 1 \in 0 .. MaxSessions
      BY <1>0, <2>1
    <3> QED BY <1>0, <2>2, <3>1 DEF Mem
  <2> HIDE DEF record
  <2>4. /\ pc' \in [Request -> Label] /\ mem' \in [Request -> Mem]
        /\ pc'[r] = "book" /\ mem'[r].todo \subseteq Venue
        /\ \A q \in Request \ {r} : pc'[q] = pc[q] /\ mem'[q] = mem[q]
    BY <2>1, <2>3, ContinueTypes DEF Label
  <2>5. sessions' \in [Session -> Row]
    BY <2>1, <2>2, NewSessionTypes DEF Status, LiveStatus
  <2>6. TypeOK'
    BY <1>6, <2>4, <2>5 DEF ReplaceOpen, TypeOK, Row, Label, Mem, Status
  <2> QED BY <1>6, <2>1, <2>4, <2>6 DEF ReplaceOpen, Placed, Sectioned
<1>7. CASE InsertRow(r)
  <2>1. PICK v \in mem[r].todo :
          /\ book' = [book EXCEPT ![mem[r].sess][v] = Opening]
          /\ \/ Answer(r) /\ Leave(r)
             \/ Continue(r, "book", [mem[r] EXCEPT !.todo = @ \ {v}]) /\ lock' = lock
    BY <1>7 DEF InsertRow
  <2>2. [mem[r] EXCEPT !.todo = @ \ {v}] \in Mem
    BY <1>0 DEF Mem
  <2>3. pc[r] = "book" /\ lock = r
    BY <1>7 DEF InsertRow, Placed, Sectioned
  <2>4. /\ pc' \in [Request -> Label] /\ mem' \in [Request -> Mem]
        /\ \/ pc'[r] = "idle" /\ lock' = Free
           \/ pc'[r] = "book" /\ lock' = r /\ mem'[r].todo \subseteq Venue
        /\ \A q \in Request \ {r} : pc'[q] = pc[q] /\ mem'[q] = mem[q]
    <3>1. [mem[r] EXCEPT !.todo = @ \ {v}].todo \subseteq Venue
      BY <1>0, <2>3 DEF Mem, Placed
    <3> QED BY <2>1, <2>2, <2>3, <3>1, AnswerTypes, ContinueTypes DEF Label, Leave
  <2>5. Opening \in 0 .. NoRow
    BY CapitalBounds DEF Opening, NoRow
  <2>6. book' \in [Session -> [Venue -> 0 .. NoRow]]
    BY <2>1, <2>5 DEF TypeOK
  <2>7. TypeOK'
    BY <1>7, <2>4, <2>6 DEF InsertRow, TypeOK, Label, Mem, Status
  <2>8. \A q \in Request \ {r} : pc'[q] \notin Sectioned
    BY <2>3, <2>4 DEF Placed
  <2> QED BY <1>7, <2>4, <2>7, <2>8 DEF InsertRow, Placed, Sectioned
<1>8. CASE StatusAsk(r)
  <2>1. PICK s \in Existing, next \in {"RUNNING", "PAUSED", "STOPPED"} :
          Continue(r, "status", [Blank EXCEPT !.sess = s, !.next = next])
    BY <1>8 DEF StatusAsk
  <2>2. s \in 0 .. MaxSessions /\ next \in Status
    BY <1>0 DEF Existing, Session, Status, LiveStatus
  <2>3. [Blank EXCEPT !.sess = s, !.next = next] \in Mem
    BY <1>0, <2>2 DEF Mem
  <2>4. /\ pc' \in [Request -> Label] /\ mem' \in [Request -> Mem]
        /\ pc'[r] = "status"
        /\ \A q \in Request \ {r} : pc'[q] = pc[q] /\ mem'[q] = mem[q]
    BY <2>1, <2>3, ContinueTypes DEF Label
  <2>5. sent' \in 0 .. MaxRequests
    BY <1>8, CapitalBounds DEF StatusAsk, Sent, TypeOK
  <2>6. TypeOK'
    BY <1>8, <2>4, <2>5 DEF StatusAsk, TypeOK, Label, Mem, Status
  <2> QED BY <1>8, <2>4, <2>6 DEF StatusAsk, Placed, Sectioned
<1>9. CASE StatusWrite(r)
  <2>1. /\ pc' \in [Request -> Label] /\ mem' \in [Request -> Mem]
        /\ pc'[r] = "idle"
        /\ \A q \in Request \ {r} : pc'[q] = pc[q] /\ mem'[q] = mem[q]
    BY <1>9, AnswerTypes DEF StatusWrite
  <2>2. mem[r].next \in Status
    BY <1>0 DEF Mem
  <2>3. sessions' \in [Session -> Row]
    BY <1>0, <1>9, <2>2 DEF StatusWrite, Row
  <2>4. TypeOK'
    BY <1>9, <2>1, <2>3 DEF StatusWrite, TypeOK, Row, Label, Mem, Status
  <2> QED BY <1>9, <2>1, <2>4 DEF StatusWrite, Placed, Sectioned
<1> QED
  BY <1>1, <1>2, <1>3, <1>4, <1>5, <1>6, <1>7, <1>8, <1>9 DEF Capital

\* Types and Placed, when a statement fails or the process dies.
LEMMA FaultTypes ==
  ASSUME TypeOK, Placed
  PROVE  /\ \A r \in Request : Throw(r) => TypeOK' /\ Placed'
         /\ Crash => TypeOK' /\ Placed'
<1>0. mem \in [Request -> Mem] /\ pc \in [Request -> Label]
  BY DEF TypeOK, Mem, Label, Status
<1>1. ASSUME NEW r \in Request PROVE Unexplained(r) \subseteq Venue
  <2>1. CASE pc[r] \in {"write", "decide"}
    <3>1. proposals[mem[r].proposal].rows \subseteq Venue
      BY <2>1, ProposalTypes DEF Placed, Stored
    <3> QED BY <2>1, <3>1 DEF Unexplained
  <2>2. CASE pc[r] = "book"
    BY <2>2 DEF Unexplained, Placed
  <2> QED BY <2>1, <2>2 DEF Unexplained
<1>2. ASSUME NEW dead \in SUBSET Request, Tear(dead) PROVE torn' \in [Session -> SUBSET Venue]
  BY <1>1, <1>2 DEF Tear, TypeOK
<1>3. ASSUME Fault PROVE faults' \in 0 .. MaxFaults
  BY <1>3, CapitalBounds DEF Fault, TypeOK
<1>4. ASSUME NEW r \in Request, Throw(r) PROVE TypeOK' /\ Placed'
  <2>1. /\ pc' \in [Request -> Label] /\ mem' \in [Request -> Mem]
        /\ pc'[r] = "idle"
        /\ \A q \in Request \ {r} : pc'[q] = pc[q] /\ mem'[q] = mem[q]
    BY <1>4, AnswerTypes DEF Throw
  <2>2. torn' \in [Session -> SUBSET Venue] /\ faults' \in 0 .. MaxFaults
    BY <1>2, <1>3, <1>4 DEF Throw
  <2>3. lock = r /\ lock' = Free
    BY <1>4 DEF Throw, Leave, Placed, Sectioned
  <2>4. TypeOK'
    BY <1>4, <2>1, <2>2, <2>3 DEF Throw, TypeOK, Label, Mem, Status
  <2>5. \A q \in Request \ {r} : pc[q] \notin Sectioned
    BY <2>3 DEF Placed
  <2> QED BY <1>4, <2>1, <2>4, <2>5 DEF Throw, Placed, Sectioned
<1>5. ASSUME Crash PROVE TypeOK' /\ Placed'
  <2>1. /\ pc' \in [Request -> Label] /\ mem' \in [Request -> Mem]
        /\ \A q \in Request : pc'[q] = "idle"
    BY <1>5, BlankType DEF Crash, Label
  <2>2. torn' \in [Session -> SUBSET Venue] /\ faults' \in 0 .. MaxFaults
    BY <1>2, <1>3, <1>5 DEF Crash
  <2>3. TypeOK'
    BY <1>5, <2>1, <2>2 DEF Crash, TypeOK, Label, Mem, Status
  <2> QED BY <2>1, <2>3 DEF Placed, Sectioned
<1> QED BY <1>4, <1>5

\* Types and Placed hold in every reachable state.
LEMMA TypedAndPlaced == Spec => [](TypeOK /\ Placed)
<1>1. Init => TypeOK /\ Placed
  <2> SUFFICES ASSUME Init PROVE TypeOK /\ Placed
    OBVIOUS
  <2>1. /\ mem \in [Request -> Mem] /\ pc = [r \in Request |-> "idle"]
        /\ proposals = <<>> /\ decisions = <<>>
    BY BlankType DEF Init
  <2>2. /\ 0 \in 0 .. MaxMoves /\ 0 \in 0 .. MaxFaults /\ 0 \in 0 .. MaxRequests
        /\ NoRow \in 0 .. NoRow /\ 0 <= MaxProposals
    BY CapitalBounds DEF NoRow
  <2>3. TypeOK
    BY <2>1, <2>2 DEF Init, TypeOK, Mem, Status
  <2> QED BY <2>1, <2>3 DEF Placed, Sectioned
<1>2. TypeOK /\ Placed /\ [Next]_vars => (TypeOK /\ Placed)'
  <2> SUFFICES ASSUME TypeOK, Placed, [Next]_vars PROVE TypeOK' /\ Placed'
    OBVIOUS
  <2>1. CASE WorldMoves
    <3>1. world' \in 0 .. MaxMoves
      BY <2>1, CapitalBounds DEF WorldMoves, TypeOK
    <3> QED BY <2>1, <3>1 DEF WorldMoves, TypeOK, Placed
  <2>2. CASE UNCHANGED vars
    BY <2>2 DEF vars, TypeOK, Placed
  <2> QED
    BY <2>1, <2>2, AllocationTypes, CapitalTypes, FaultTypes DEF Next
<1> QED BY <1>1, <1>2, PTL DEF Spec

\* Types of the tables, the lock and the requests, in every reachable state.
THEOREM CapitalTypeCorrect == Spec => []TypeOK
BY TypedAndPlaced, PTL

-----------------------------------------------------------------------------
(* A proposal is applied once.                                             *)

\* What a request is applying has not been applied.
FirstTime ==
  \A r \in Request :
    pc[r] \in {"write", "decide"} => ~ Applied(mem[r].proposal)

\* An entry at the end of the log, the rest of which stands.
LEMMA LogAppended ==
  ASSUME TypeOK, NEW entry \in Logged, decisions' = Append(decisions, entry)
  PROVE  /\ DOMAIN decisions' = DOMAIN decisions \cup {Len(decisions) + 1}
         /\ Len(decisions) + 1 \notin DOMAIN decisions
         /\ \A i \in DOMAIN decisions : decisions'[i] = decisions[i]
         /\ decisions'[Len(decisions) + 1] = entry
<1>1. decisions \in Seq(Logged) /\ Len(decisions) \in Nat
  BY DEF TypeOK, Logged
<1>2. DOMAIN decisions = 1 .. Len(decisions)
  BY <1>1
<1>3. DOMAIN decisions' = 1 .. Len(decisions) + 1
  BY <1>1
<1> QED BY <1>1, <1>2, <1>3

\* A step that appends nothing applied leaves both facts, if it takes no
\* request into the writing of a proposal.
LEMMA NothingApplied ==
  ASSUME AppliedOnce, FirstTime,
         decisions' = decisions,
         \A q \in Request : pc'[q] \in {"write", "decide"} =>
           pc[q] \in {"write", "decide"} /\ mem'[q].proposal = mem[q].proposal
  PROVE  AppliedOnce' /\ FirstTime'
BY DEF AppliedOnce, FirstTime, Applied

\* AppliedOnce: under any keys, queueing, failed statements, crashes and
\* retries, the log holds at most one applied decision of a proposal.
THEOREM ProposalsAppliedOnce == Spec => []AppliedOnce
<1>1. Init => AppliedOnce /\ FirstTime
  BY DEF Init, AppliedOnce, FirstTime
<1>2. TypeOK /\ Placed /\ AppliedOnce /\ FirstTime /\ [Next]_vars
        => AppliedOnce' /\ FirstTime'
  <2> SUFFICES ASSUME TypeOK, Placed, AppliedOnce, FirstTime, [Next]_vars
               PROVE  AppliedOnce' /\ FirstTime'
    OBVIOUS
  <2>0. mem \in [Request -> Mem] /\ pc \in [Request -> Label]
    BY DEF TypeOK, Mem, Label, Status
  <2>1. ASSUME NEW r \in Request, ApplyRefused(r) PROVE AppliedOnce' /\ FirstTime'
    <3>1. PICK p \in DOMAIN proposals, k \in Key, decision \in {"FAILED", "REJECTED_STALE"} :
            Decision(r, p, k, decision)
      BY <2>1 DEF ApplyRefused
    <3> DEFINE entry == [proposal |-> p, sess |-> mem[r].sess, key |-> k,
                         decision |-> decision]
    <3>2. entry \in Logged /\ entry.decision # "APPLIED"
      BY <2>1, ProposalTypes DEF ApplyRefused, Placed, Logged
    <3>3. decisions' = Append(decisions, entry)
      BY <3>1 DEF Decision
    <3> HIDE DEF entry
    <3>4. /\ DOMAIN decisions' = DOMAIN decisions \cup {Len(decisions) + 1}
          /\ \A i \in DOMAIN decisions : decisions'[i] = decisions[i]
          /\ decisions'[Len(decisions) + 1] = entry
      BY <3>2, <3>3, LogAppended
    <3>5. AppliedOnce' /\ \A x : Applied(x)' => Applied(x)
      BY <3>2, <3>4, <2>1 DEF AppliedOnce, Applied
    <3>6. \A q \in Request : pc'[q] \in {"write", "decide"} => pc'[q] = pc[q] /\ mem'[q] = mem[q]
      BY <2>1, AnswerTypes DEF ApplyRefused
    <3> QED BY <3>5, <3>6 DEF FirstTime
  <2>2. ASSUME NEW r \in Request, ApplyStart(r) PROVE AppliedOnce' /\ FirstTime'
    <3>1. PICK p \in DOMAIN proposals, k \in Key :
            /\ ~ Settled(p, k) /\ proposals[p].status = "PROPOSED"
            /\ Continue(r, "write", [mem[r] EXCEPT !.proposal = p, !.key = k,
                                                  !.todo = proposals[p].rows])
      BY <2>2 DEF ApplyStart
    <3>2. ~ Applied(p)
      BY <3>1 DEF Settled
    <3>3. /\ mem'[r].proposal = p
          /\ \A q \in Request \ {r} : pc'[q] = pc[q] /\ mem'[q] = mem[q]
      BY <2>0, <3>1 DEF Continue, Goto, Mem
    <3>4. decisions' = decisions
      BY <2>2 DEF ApplyStart
    <3> QED BY <3>2, <3>3, <3>4 DEF AppliedOnce, FirstTime, Applied
  <2>3. ASSUME NEW r \in Request, ApplyDecide(r) PROVE AppliedOnce' /\ FirstTime'
    <3> DEFINE entry == [proposal |-> mem[r].proposal, sess |-> mem[r].sess,
                         key |-> mem[r].key, decision |-> "APPLIED"]
    <3>1. pc[r] = "decide" /\ decisions' = Append(decisions, entry)
      BY <2>3 DEF ApplyDecide, Decision
    <3>2. entry \in Logged /\ entry.proposal = mem[r].proposal
      BY <3>1, ProposalTypes DEF Placed, Logged
    <3> HIDE DEF entry
    <3>3. /\ DOMAIN decisions' = DOMAIN decisions \cup {Len(decisions) + 1}
          /\ \A i \in DOMAIN decisions : decisions'[i] = decisions[i]
          /\ decisions'[Len(decisions) + 1] = entry
      BY <3>1, <3>2, LogAppended
    <3>4. ~ Applied(mem[r].proposal)
      BY <3>1 DEF FirstTime
    <3>5. AppliedOnce'
      BY <3>2, <3>3, <3>4 DEF AppliedOnce, Applied
    <3>6. \A q \in Request : pc'[q] \notin {"write", "decide"}
      <4>1. lock = r
        BY <3>1 DEF Placed, Sectioned
      <4>2. pc'[r] = "idle" /\ \A q \in Request \ {r} : pc'[q] = pc[q]
        BY <2>3, AnswerTypes DEF ApplyDecide
      <4> QED BY <4>1, <4>2 DEF Placed, Sectioned
    <3> QED BY <3>5, <3>6 DEF FirstTime
  <2>4. ASSUME NEW r \in Request, ApplyWrite(r) PROVE AppliedOnce' /\ FirstTime'
    <3>1. PICK v \in mem[r].todo :
            Continue(r, IF mem[r].todo = {v} THEN "decide" ELSE "write",
                     [mem[r] EXCEPT !.todo = @ \ {v}])
      BY <2>4 DEF ApplyWrite
    <3>2. /\ mem'[r].proposal = mem[r].proposal /\ pc[r] = "write"
          /\ \A q \in Request \ {r} : pc'[q] = pc[q] /\ mem'[q] = mem[q]
      BY <2>0, <2>4, <3>1 DEF ApplyWrite, Continue, Goto, Mem
    <3>3. decisions' = decisions
      BY <2>4 DEF ApplyWrite
    <3> QED BY <3>2, <3>3, NothingApplied
  <2>5. ASSUME NEW r \in Request,
               Propose(r) \/ ApplyAsk(r) \/ ApplyReplay(r) \/ Capital(r) \/ Throw(r)
        PROVE  AppliedOnce' /\ FirstTime'
    <3>1. decisions' = decisions
      BY <2>5 DEF Propose, ApplyAsk, ApplyReplay, Capital, Create, ReplaceAsk, ReplaceRead,
         ReplaceReused, Archive, ReplaceOpen, InsertRow, StatusAsk, StatusWrite, Throw
    <3>2. \/ pc' = pc /\ mem' = mem
          \/ \E label \in Label \ {"write", "decide"} : \E record : Continue(r, label, record)
      BY <2>5 DEF Propose, ApplyAsk, ApplyReplay, Capital, Create, ReplaceAsk, ReplaceRead,
         ReplaceReused, Archive, ReplaceOpen, InsertRow, StatusAsk, StatusWrite, Throw,
         Answer, Continue, Label
    <3>3. \A q \in Request : pc'[q] \in {"write", "decide"} =>
            pc[q] \in {"write", "decide"} /\ mem'[q].proposal = mem[q].proposal
      BY <2>0, <3>2 DEF Continue, Goto
    <3> QED BY <3>1, <3>3, NothingApplied
  <2>6. CASE Crash \/ WorldMoves \/ UNCHANGED vars
    <3>1. decisions' = decisions
      BY <2>6 DEF Crash, WorldMoves, vars
    <3>2. (pc' = pc /\ mem' = mem) \/ \A q \in Request : pc'[q] = "idle"
      BY <2>6 DEF Crash, WorldMoves, vars
    <3> QED BY <3>1, <3>2, NothingApplied
  <2> QED
    BY <2>1, <2>2, <2>3, <2>4, <2>5, <2>6 DEF Next, Allocation
<1> QED BY <1>1, <1>2, TypedAndPlaced, PTL DEF Spec

-----------------------------------------------------------------------------
(* A replacement stands alone.                                             *)

\* A replacement still knows of every live session.
Listed ==
  \A r \in Request : pc[r] = "archive" => Live \subseteq mem[r].todo

\* ReplacementStandsAlone: whatever sessions were created, started, paused
\* or replaced while it waited, a replacement opens the only live session.
THEOREM ReplacementsStandAlone == Spec => ReplacementStandsAlone
<1>1. Init => Listed
  BY DEF Init, Listed
<1>2. TypeOK /\ Placed /\ Listed /\ [Next]_vars => Listed'
  <2> SUFFICES ASSUME TypeOK, Placed, Listed, [Next]_vars PROVE Listed'
    OBVIOUS
  <2>0. mem \in [Request -> Mem] /\ pc \in [Request -> Label] /\ sessions \in [Session -> Row]
    BY DEF TypeOK, Mem, Label, Status, Row
  <2>1. ASSUME NEW r \in Request, Archive(r) PROVE Listed'
    <3>1. PICK s \in mem[r].todo :
            /\ sessions' = [sessions EXCEPT ![s].status = ArchiveStatus,
                                           ![s].tags = @ \cup {mem[r].token}]
            /\ Continue(r, "archive", [mem[r] EXCEPT !.todo = @ \ {s}])
      BY <2>1 DEF Archive
    <3>2. mem'[r].todo = mem[r].todo \ {s} /\ pc[r] = "archive"
      BY <2>0, <2>1, <3>1 DEF Archive, Continue, Goto, Mem
    <3>3. Live' \subseteq Live \ {s}
      BY <2>0, <3>1 DEF Live, LiveStatus, ArchiveStatus, Row
    <3>4. \A q \in Request \ {r} : pc'[q] # "archive"
      BY <2>0, <3>1, <3>2 DEF Placed, Sectioned, Continue, Goto
    <3> QED BY <3>2, <3>3, <3>4 DEF Listed
  <2>2. ASSUME NEW r \in Request, ReplaceRead(r) PROVE Listed'
    <3>1. /\ mem'[r].todo = Live /\ lock = Free /\ sessions' = sessions
          /\ \A q \in Request \ {r} : pc'[q] = pc[q]
      BY <2>0, <2>2 DEF ReplaceRead, Enter, Continue, Goto, Mem
    <3>2. \A q \in Request \ {r} : pc[q] # "archive"
      BY <3>1, RequestAssumption DEF Placed, Sectioned
    <3> QED BY <3>1, <3>2 DEF Listed, Live
  <2>3. ASSUME NEW r \in Request, Create(r) \/ ReplaceOpen(r) \/ StatusWrite(r)
        PROVE  Listed'
    <3>1. \A q \in Request \ {r} : pc[q] # "archive"
      BY <2>3, RequestAssumption DEF Create, ReplaceOpen, StatusWrite, Enter, Placed, Sectioned
    <3>2. pc'[r] # "archive" /\ \A q \in Request \ {r} : pc'[q] = pc[q]
      BY <2>0, <2>3 DEF Create, ReplaceOpen, StatusWrite, Answer, Continue, Goto
    <3> QED BY <3>1, <3>2 DEF Listed
  <2>4. ASSUME NEW r \in Request,
               \/ Allocation(r) \/ Throw(r) \/ ReplaceAsk(r) \/ ReplaceReused(r)
               \/ InsertRow(r) \/ StatusAsk(r)
        PROVE  Listed'
    <3>1. sessions' = sessions
      BY <2>4 DEF Allocation, Propose, ApplyAsk, ApplyReplay, ApplyRefused, ApplyStart,
         ApplyWrite, ApplyDecide, Throw, ReplaceAsk, ReplaceReused, InsertRow, StatusAsk
    <3>2. \/ pc' = pc /\ mem' = mem
          \/ \E label \in Label \ {"archive"} : \E record : Continue(r, label, record)
      BY <2>4 DEF Allocation, Propose, ApplyAsk, ApplyReplay, ApplyRefused, ApplyStart,
         ApplyWrite, ApplyDecide, Throw, ReplaceAsk, ReplaceReused, InsertRow, StatusAsk,
         Answer, Continue, Label
    <3>3. \A q \in Request : pc'[q] = "archive" => pc[q] = "archive" /\ mem'[q] = mem[q]
      BY <2>0, <3>2 DEF Continue, Goto
    <3> QED BY <3>1, <3>3 DEF Listed, Live
  <2>5. CASE Crash \/ WorldMoves \/ UNCHANGED vars
    BY <2>5 DEF Crash, WorldMoves, vars, Listed, Live
  <2> QED
    BY <2>1, <2>2, <2>3, <2>4, <2>5 DEF Next, Capital
<1>3. TypeOK /\ Placed /\ Listed /\ [Next]_vars
        => [\A r \in Request : pc[r] = "archive" /\ pc'[r] = "book"
              => Live' = {mem'[r].sess}]_vars
  <2> SUFFICES ASSUME TypeOK, Placed, Listed, Next,
                      NEW r \in Request, pc[r] = "archive", pc'[r] = "book"
               PROVE  Live' = {mem'[r].sess}
    BY DEF vars
  <2>0. mem \in [Request -> Mem] /\ pc \in [Request -> Label] /\ sessions \in [Session -> Row]
    BY DEF TypeOK, Mem, Label, Status, Row
  <2>1. ReplaceOpen(r)
    <3>1. ASSUME NEW q \in Request, Allocation(q) \/ Capital(q) \/ Throw(q)
          PROVE  ReplaceOpen(r)
      <4>1. pc'[q] # pc[q] => \A u \in Request \ {q} : pc'[u] = pc[u]
        BY <2>0, <3>1 DEF Allocation, Propose, ApplyAsk, ApplyReplay, ApplyRefused,
           ApplyStart, ApplyWrite, ApplyDecide, Throw, Capital, Create, ReplaceAsk,
           ReplaceRead, ReplaceReused, Archive, ReplaceOpen, InsertRow, StatusAsk,
           StatusWrite, Answer, Continue, Goto
      <4>2. q = r
        BY <2>0, <3>1 DEF Allocation, Propose, ApplyAsk, ApplyReplay, ApplyRefused,
           ApplyStart, ApplyWrite, ApplyDecide, Throw, Capital, Create, ReplaceAsk,
           ReplaceRead, ReplaceReused, Archive, ReplaceOpen, InsertRow, StatusAsk,
           StatusWrite, Answer, Continue, Goto
      <4> QED
        BY <2>0, <3>1, <4>2 DEF Allocation, Propose, Sent, ApplyAsk, ApplyReplay,
           ApplyRefused, ApplyStart, ApplyWrite, ApplyDecide, Throw, Capital, Create,
           ReplaceAsk, ReplaceRead, ReplaceReused, Archive, InsertRow, StatusAsk,
           StatusWrite, Answer, Continue, Goto
    <3>2. ~ Crash /\ ~ WorldMoves
      BY DEF Crash, WorldMoves
    <3> QED BY <3>1, <3>2 DEF Next
  <2>2. /\ mem[r].todo = {} /\ Newest < MaxSessions
        /\ sessions' = [sessions EXCEPT ![Newest + 1] =
             [status |-> "RUNNING", opening |-> mem[r].token.plan, tags |-> {mem[r].token}]]
        /\ mem'[r] = [mem[r] EXCEPT !.sess = Newest + 1, !.todo = mem[r].token.plan]
    BY <2>0, <2>1 DEF ReplaceOpen, NewSession, Continue
  <2>3. Newest + 1 \in Session
    BY <2>2, NewestType, CapitalBounds DEF Session
  <2>4. Live = {}
    BY <2>2 DEF Listed
  <2>5. mem'[r].sess = Newest + 1
    BY <2>0, <2>2 DEF Mem
  <2>6. \A s \in Session : sessions'[s].status \in LiveStatus <=> s = Newest + 1
    BY <2>0, <2>2, <2>3, <2>4 DEF Live, LiveStatus
  <2> QED BY <2>3, <2>5, <2>6 DEF Live
<1> QED
  BY <1>1, <1>2, <1>3, TypedAndPlaced, PTL DEF Spec, ReplacementStandsAlone

-----------------------------------------------------------------------------
(* The log explains the book.                                              *)

\* Sessions are numbered in the order they were created.
Numbered == Existing = 1 .. Newest

\* What the log names is in the other tables.
Recorded ==
  \A i \in DOMAIN decisions :
    decisions[i].proposal \in DOMAIN proposals /\ decisions[i].sess \in Existing

\* A request works on sessions that exist, and asks for a status they may take.
Aimed ==
  \A r \in Request :
    /\ pc[r] \in {"apply", "write", "decide", "book", "status"} => mem[r].sess \in Existing
    /\ pc[r] = "status" => mem[r].next # "NONE"
    /\ pc[r] = "archive" => mem[r].todo \subseteq Existing

\* An application has written the venues it no longer has to, and nothing is
\* decided on a session whose opening balances are still being inserted.
Midway ==
  \A r \in Request :
    /\ pc[r] \in {"write", "decide"} =>
         /\ mem[r].todo \subseteq proposals[mem[r].proposal].rows
         /\ \A v \in proposals[mem[r].proposal].rows \ mem[r].todo :
              book[mem[r].sess][v] = mem[r].proposal
    /\ pc[r] = "decide" => mem[r].todo = {}
    /\ pc[r] = "book" =>
         /\ mem[r].todo \subseteq sessions[mem[r].sess].opening
         /\ \A i \in DOMAIN decisions : decisions[i].sess # mem[r].sess

\* A session that was never created has no balances.
Unborn == \A s \in Session \ Existing, v \in Venue : book[s][v] = NoRow

\* A balance the log does not explain is torn, or being written.
Mirrored ==
  \A s \in Session, v \in Venue :
    \/ book[s][v] = Explained(s, v)
    \/ v \in torn[s]
    \/ \E r \in Request : mem[r].sess = s /\ v \in Unexplained(r)

BookInv == Numbered /\ Recorded /\ Aimed /\ Midway /\ Unborn /\ Mirrored

\* The largest member of a set of numbers.
Last(A) == CHOOSE i \in A : \A j \in A : j <= i

LEMMA LastIs ==
  ASSUME NEW A \in SUBSET Nat, NEW m \in A, \A j \in A : j <= m
  PROVE  Last(A) = m
<1>1. Last(A) \in A /\ \A j \in A : j <= Last(A)
  BY Zenon DEF Last
<1>2. Last(A) <= m /\ m <= Last(A)
  BY <1>1
<1>3. Last(A) \in Nat /\ m \in Nat
  BY <1>1
<1> QED BY <1>2, <1>3

\* A set of numbers up to n that has a member has a largest one: the one
\* farthest from zero is the closest to n.
LEMMA LastIn ==
  ASSUME NEW n \in Nat, NEW A \in SUBSET (1 .. n), A # {}
  PROVE  Last(A) \in A
<1> DEFINE Gaps == {n - i : i \in A}
<1>1. Gaps \subseteq Nat /\ Gaps # {}
  <2>1. \A i \in A : n - i \in Nat
    <3> SUFFICES ASSUME NEW i \in A PROVE n - i \in Nat
      OBVIOUS
    <3>1. i \in 1 .. n
      OBVIOUS
    <3> QED BY <3>1
  <2> QED BY <2>1
<1>2. PICK g \in Gaps : \A h \in Gaps : ~ (<<h, g>> \in OpToRel(<, Nat))
  <2> HIDE DEF Gaps
  <2> QED BY <1>1, NatLessThanWellFounded, WFMin, Zenon
<1>3. \A h \in Gaps : ~ (h < g)
  BY <1>1, <1>2 DEF OpToRel
<1>4. PICK i \in A : g = n - i
  OBVIOUS
<1>5. \A j \in A : j <= i
  <2> SUFFICES ASSUME NEW j \in A PROVE j <= i
    OBVIOUS
  <2>1. ~ (n - j < n - i)
    BY <1>3, <1>4
  <2> QED BY <2>1
<1>6. Last(A) = i
  BY <1>5, LastIs
<1> QED BY <1>6

\* What explains a balance.
LEMMA ExplainedBy ==
  ASSUME NEW s, NEW v
  PROVE  Explained(s, v) =
           IF Allocators(s, v) # {} THEN decisions[Last(Allocators(s, v))].proposal
           ELSE IF v \in sessions[s].opening THEN Opening ELSE NoRow
BY DEF Explained, Last

\* The explanation stands while the decisions it is drawn from do.
LEMMA ExplainedStays ==
  ASSUME TypeOK, NEW s, NEW v,
         Allocators(s, v)' = Allocators(s, v),
         \A i \in DOMAIN decisions : decisions'[i] = decisions[i],
         Allocators(s, v) = {} => sessions'[s].opening = sessions[s].opening
  PROVE  Explained(s, v)' = Explained(s, v)
<1> DEFINE A == Allocators(s, v)
<1>1. DOMAIN decisions = 1 .. Len(decisions) /\ Len(decisions) \in Nat
  BY DEF TypeOK
<1>2. A # {} => Last(A) \in DOMAIN decisions
  BY <1>1, LastIn DEF Allocators
<1>3. Explained(s, v)' =
        IF A # {} THEN decisions'[Last(A)].proposal
        ELSE IF v \in sessions'[s].opening THEN Opening ELSE NoRow
  BY DEF Explained, Last
<1> QED BY <1>2, <1>3, ExplainedBy

\* The sessions that exist, and what they opened with, are as they were.
Still ==
  /\ Existing' = Existing
  /\ \A s \in Session : sessions'[s].opening = sessions[s].opening

\* A created session has the next number, and the others are as they were.
LEMMA SessionOpened ==
  ASSUME TypeOK, Numbered, Newest < MaxSessions,
         NEW status \in LiveStatus, NEW venues \in SUBSET Venue, NEW tags,
         NewSession(status, venues, tags)
  PROVE  /\ Newest + 1 \in Session \ Existing
         /\ Existing' = Existing \cup {Newest + 1}
         /\ sessions'[Newest + 1].opening = venues
         /\ \A s \in Session \ {Newest + 1} : sessions'[s] = sessions[s]
         /\ Numbered'
<1>1. Newest \in Nat /\ Newest + 1 \in Session
  BY NewestType, CapitalBounds DEF Session
<1>2. Newest + 1 \notin Existing
  BY <1>1 DEF Numbered
<1>3. /\ sessions'[Newest + 1] = [status |-> status, opening |-> venues, tags |-> tags]
      /\ \A s \in Session \ {Newest + 1} : sessions'[s] = sessions[s]
  BY <1>1 DEF NewSession, TypeOK
<1>4. Existing' = Existing \cup {Newest + 1}
  BY <1>1, <1>3 DEF Existing, LiveStatus
<1>5. IsFiniteSet(Existing)
  BY <1>1, FS_Interval DEF Numbered
<1>6. Newest' = Newest + 1
  BY <1>2, <1>4, <1>5, FS_AddElement DEF Newest
<1>7. Existing' = 1 .. Newest'
  BY <1>1, <1>4, <1>6 DEF Numbered
<1> QED BY <1>1, <1>2, <1>3, <1>4, <1>7 DEF Numbered

\* No other step creates a session or changes what one opened with.
LEMMA StillTables ==
  ASSUME TypeOK, Placed, Aimed, NEW r \in Request,
         Archive(r) \/ StatusWrite(r) \/ sessions' = sessions
  PROVE  Still
<1>0. sessions \in [Session -> Row] /\ mem \in [Request -> Mem]
  BY DEF TypeOK, Row, Mem, Status
<1>1. CASE Archive(r)
  <2>1. PICK s \in mem[r].todo :
          sessions' = [sessions EXCEPT ![s].status = ArchiveStatus,
                                       ![s].tags = @ \cup {mem[r].token}]
    BY <1>1 DEF Archive
  <2>2. s \in Existing
    BY <1>1 DEF Archive, Aimed
  <2>3. \A t \in Session :
          /\ sessions'[t].opening = sessions[t].opening
          /\ sessions'[t].status = IF t = s THEN "STOPPED" ELSE sessions[t].status
    BY <1>0, <2>1 DEF Row, ArchiveStatus
  <2> QED BY <2>2, <2>3 DEF Still, Existing
<1>2. CASE StatusWrite(r)
  <2>1. /\ mem[r].sess \in Existing /\ mem[r].next # "NONE"
        /\ sessions' = [sessions EXCEPT ![mem[r].sess].status = mem[r].next]
    BY <1>2 DEF StatusWrite, Aimed
  <2>2. \A t \in Session :
          /\ sessions'[t].opening = sessions[t].opening
          /\ sessions'[t].status = IF t = mem[r].sess THEN mem[r].next ELSE sessions[t].status
    BY <1>0, <2>1 DEF Row
  <2> QED BY <2>1, <2>2 DEF Still, Existing
<1>3. CASE sessions' = sessions
  BY <1>3 DEF Still, Existing
<1> QED BY <1>1, <1>2, <1>3

\* The others remember what they did.
Others(r) == \A q \in Request \ {r} : pc'[q] = pc[q] /\ mem'[q] = mem[q]

\* What is not being written needs no explanation.
LEMMA Explains ==
  ASSUME NEW r, pc[r] \notin {"write", "decide", "book"}
  PROVE  Unexplained(r) = {}
BY DEF Unexplained

\* Only the request in the section writes balances.
LEMMA OneWriter ==
  ASSUME Placed, NEW r \in Request, lock = r \/ lock = Free
  PROVE  \A q \in Request \ {r} : pc[q] \notin Sectioned /\ Unexplained(q) = {}
BY RequestAssumption DEF Placed, Sectioned, Unexplained

\* A step of a request that writes no balance and no decision, outside the
\* sections that write balances.
LEMMA QuietStep ==
  ASSUME TypeOK, Placed, BookInv, NEW r \in Request, Others(r), Still,
         book' = book, torn' = torn, decisions' = decisions, proposals' = proposals,
         pc[r] \notin {"write", "decide", "book"},
         pc'[r] \notin {"write", "decide", "book"},
         pc'[r] \in {"apply", "status"} => mem'[r].sess \in Existing,
         pc'[r] = "status" => mem'[r].next # "NONE",
         pc'[r] = "archive" => mem'[r].todo \subseteq Existing
  PROVE  BookInv'
<1>1. Numbered' /\ Recorded' /\ Unborn'
  BY DEF BookInv, Numbered, Recorded, Unborn, Still, Newest
<1>2. Aimed'
  BY DEF BookInv, Aimed, Still, Others
<1>3. Midway'
  <2> SUFFICES ASSUME NEW q \in Request, q # r, pc[q] \in {"write", "decide", "book"}
               PROVE  /\ pc[q] \in {"write", "decide"} =>
                           /\ mem[q].todo \subseteq proposals[mem[q].proposal].rows
                           /\ \A v \in proposals[mem[q].proposal].rows \ mem[q].todo :
                                book[mem[q].sess][v] = mem[q].proposal
                      /\ pc[q] = "decide" => mem[q].todo = {}
                      /\ pc[q] = "book" =>
                           /\ mem[q].todo \subseteq sessions'[mem[q].sess].opening
                           /\ \A i \in DOMAIN decisions : decisions[i].sess # mem[q].sess
    BY DEF Midway, Others
  <2>1. mem[q].sess \in Session
    BY DEF BookInv, Aimed, Existing
  <2> QED BY <2>1 DEF BookInv, Midway, Still
<1>4. Mirrored'
  <2> SUFFICES ASSUME NEW s \in Session, NEW v \in Venue
               PROVE  \/ book[s][v] = Explained(s, v)'
                      \/ v \in torn[s]
                      \/ \E q \in Request : mem'[q].sess = s /\ v \in Unexplained(q)'
    BY DEF Mirrored
  <2>1. Explained(s, v)' = Explained(s, v)
    <3>1. Allocators(s, v)' = Allocators(s, v)
      BY DEF Allocators
    <3> QED BY <3>1, ExplainedStays DEF Still
  <2>2. \A q \in Request : v \in Unexplained(q) => q # r
    BY DEF Unexplained
  <2>3. \A q \in Request \ {r} : mem'[q] = mem[q] /\ Unexplained(q)' = Unexplained(q)
    BY DEF Others, Unexplained
  <2> QED BY <2>1, <2>2, <2>3 DEF BookInv, Mirrored
<1> QED BY <1>1, <1>2, <1>3, <1>4 DEF BookInv

\* What a request that waits, asks or archives remembers.
LEMMA QuietCommands ==
  ASSUME TypeOK, Placed, BookInv, NEW r \in Request,
         \/ ApplyAsk(r) \/ ApplyReplay(r) \/ ReplaceAsk(r) \/ ReplaceRead(r)
         \/ ReplaceReused(r) \/ Archive(r) \/ StatusAsk(r) \/ StatusWrite(r)
  PROVE  BookInv'
<1>0. mem \in [Request -> Mem] /\ pc \in [Request -> Label] /\ Blank \in Mem
  BY BlankType DEF TypeOK, Mem, Label, Status
<1>1. /\ book' = book /\ torn' = torn /\ decisions' = decisions /\ proposals' = proposals
      /\ pc[r] \notin {"write", "decide", "book"}
  BY DEF ApplyAsk, ApplyReplay, ReplaceAsk, ReplaceRead, ReplaceReused, Archive, StatusAsk,
     StatusWrite, Sent
<1>2. Still
  <2>1. Archive(r) \/ StatusWrite(r) \/ sessions' = sessions
    BY DEF ApplyAsk, ApplyReplay, ReplaceAsk, ReplaceRead, ReplaceReused, StatusAsk
  <2> QED BY <2>1, StillTables DEF BookInv
<1>3. Others(r)
  BY <1>0 DEF ApplyAsk, ApplyReplay, ReplaceAsk, ReplaceRead, ReplaceReused, Archive,
     StatusAsk, StatusWrite, Answer, Continue, Goto, Others
<1>4. /\ pc'[r] \notin {"write", "decide", "book"}
      /\ pc'[r] \in {"apply", "status"} => mem'[r].sess \in Existing
      /\ pc'[r] = "status" => mem'[r].next # "NONE"
      /\ pc'[r] = "archive" => mem'[r].todo \subseteq Existing
  <2>1. CASE ApplyAsk(r)
    <3>1. PICK s \in Active :
            Continue(r, "apply", [Blank EXCEPT !.sess = s, !.world = world])
      BY <2>1 DEF ApplyAsk
    <3>2. s \in Existing
      BY DEF Active, Live, Existing, LiveStatus
    <3>3. pc'[r] = "apply" /\ mem'[r].sess = s
      BY <1>0, <3>1 DEF Continue, Goto, Mem
    <3> QED BY <3>2, <3>3
  <2>2. CASE ApplyReplay(r) \/ ReplaceReused(r) \/ StatusWrite(r)
    BY <1>0, <2>2 DEF ApplyReplay, ReplaceReused, StatusWrite, Answer, Goto
  <2>3. CASE ReplaceAsk(r)
    BY <1>0, <2>3 DEF ReplaceAsk, Continue, Goto
  <2>4. CASE ReplaceRead(r)
    <3>1. pc'[r] = "archive" /\ mem'[r].todo = Live
      BY <1>0, <2>4 DEF ReplaceRead, Continue, Goto, Mem
    <3>2. Live \subseteq Existing
      BY DEF Live, Existing, LiveStatus
    <3> QED BY <3>1, <3>2
  <2>5. CASE Archive(r)
    <3>1. PICK s \in mem[r].todo : Continue(r, "archive", [mem[r] EXCEPT !.todo = @ \ {s}])
      BY <2>5 DEF Archive
    <3>2. pc'[r] = "archive" /\ mem'[r].todo \subseteq mem[r].todo
      BY <1>0, <3>1 DEF Continue, Goto, Mem
    <3>3. mem[r].todo \subseteq Existing
      BY <2>5 DEF Archive, BookInv, Aimed
    <3> QED BY <3>2, <3>3
  <2>6. CASE StatusAsk(r)
    <3>1. PICK s \in Existing, next \in {"RUNNING", "PAUSED", "STOPPED"} :
            Continue(r, "status", [Blank EXCEPT !.sess = s, !.next = next])
      BY <2>6 DEF StatusAsk
    <3>2. pc'[r] = "status" /\ mem'[r].sess = s /\ mem'[r].next = next
      BY <1>0, <3>1 DEF Continue, Goto, Mem
    <3> QED BY <3>2
  <2> QED BY <2>1, <2>2, <2>3, <2>4, <2>5, <2>6
<1> QED BY <1>1, <1>2, <1>3, <1>4, QuietStep

\* A proposal is stored at the end of its table.
LEMMA ProposeKeeps ==
  ASSUME TypeOK, Placed, BookInv, NEW r \in Request, Propose(r)
  PROVE  BookInv'
<1>1. PICK rows \in Plan, status \in {"PROPOSED", "PREVIEW"} :
        proposals' = Append(proposals, [rows |-> rows, status |-> status, world |-> world])
  BY DEF Propose
<1>2. /\ sessions' = sessions /\ book' = book /\ decisions' = decisions /\ pc' = pc
      /\ mem' = mem /\ torn' = torn
  BY DEF Propose
<1>3. /\ DOMAIN proposals \subseteq DOMAIN proposals'
      /\ \A p \in DOMAIN proposals : proposals'[p] = proposals[p]
  <2>1. proposals \in Seq(Stored) /\ Len(proposals) \in Nat
    BY DEF TypeOK, Stored
  <2> DEFINE entry == [rows |-> rows, status |-> status, world |-> world]
  <2> HIDE DEF entry
  <2>2. proposals' = Append(proposals, entry)
    BY <1>1 DEF entry
  <2>3. /\ DOMAIN proposals = 1 .. Len(proposals)
        /\ DOMAIN proposals' = 1 .. Len(proposals) + 1
        /\ \A p \in 1 .. Len(proposals) : proposals'[p] = proposals[p]
    BY <2>1, <2>2
  <2> QED BY <2>1, <2>3
<1>4. Numbered' /\ Recorded' /\ Aimed' /\ Unborn'
  BY <1>2, <1>3 DEF BookInv, Numbered, Recorded, Aimed, Unborn, Existing, Newest
<1>5. Midway'
  BY <1>2, <1>3 DEF BookInv, Midway, Placed
<1>6. Mirrored'
  <2> SUFFICES ASSUME NEW s \in Session, NEW v \in Venue
               PROVE  \/ book[s][v] = Explained(s, v)'
                      \/ v \in torn[s]
                      \/ \E q \in Request : mem[q].sess = s /\ v \in Unexplained(q)'
    BY <1>2 DEF Mirrored
  <2>1. Explained(s, v)' = Explained(s, v)
    <3>1. Allocators(s, v)' = Allocators(s, v)
      BY <1>2, <1>3 DEF Allocators, BookInv, Recorded
    <3> QED BY <1>2, <3>1, ExplainedStays
  <2>2. \A q \in Request : Unexplained(q)' = Unexplained(q)
    BY <1>2, <1>3 DEF Unexplained, Placed
  <2> QED BY <2>1, <2>2 DEF BookInv, Mirrored
<1> QED BY <1>4, <1>5, <1>6 DEF BookInv

\* A refusal is on record and allocates nothing.
LEMMA RefusalKeeps ==
  ASSUME TypeOK, Placed, BookInv, NEW r \in Request, ApplyRefused(r)
  PROVE  BookInv'
<1>1. PICK p \in DOMAIN proposals, k \in Key, decision \in {"FAILED", "REJECTED_STALE"} :
        Decision(r, p, k, decision)
  BY DEF ApplyRefused
<1> DEFINE entry == [proposal |-> p, sess |-> mem[r].sess, key |-> k, decision |-> decision]
<1>2. /\ entry \in Logged /\ entry.decision # "APPLIED"
      /\ entry.proposal = p /\ entry.sess = mem[r].sess
  BY ProposalTypes DEF ApplyRefused, Placed, Logged
<1>3. decisions' = Append(decisions, entry)
  BY <1>1 DEF Decision
<1> HIDE DEF entry
<1>4. /\ DOMAIN decisions' = DOMAIN decisions \cup {Len(decisions) + 1}
      /\ \A i \in DOMAIN decisions : decisions'[i] = decisions[i]
      /\ decisions'[Len(decisions) + 1] = entry
  BY <1>2, <1>3, LogAppended
<1>5. /\ sessions' = sessions /\ book' = book /\ proposals' = proposals /\ torn' = torn
      /\ lock = Free /\ pc[r] = "apply" /\ pc'[r] = "idle"
      /\ \A q \in Request \ {r} : pc'[q] = pc[q] /\ mem'[q] = mem[q]
  BY AnswerTypes DEF ApplyRefused
<1>6. \A q \in Request : pc[q] \notin Sectioned /\ pc'[q] \notin Sectioned
  BY <1>5, RequestAssumption DEF Placed, Sectioned
<1>7. mem[r].sess \in Existing
  BY <1>5 DEF BookInv, Aimed
<1>8. Numbered' /\ Recorded' /\ Unborn'
  BY <1>2, <1>4, <1>5, <1>7 DEF BookInv, Numbered, Recorded, Unborn, Existing, Newest
<1>9. Aimed' /\ Midway'
  BY <1>5, <1>6 DEF BookInv, Aimed, Midway, Existing, Sectioned
<1>10. Mirrored'
  <2> SUFFICES ASSUME NEW s \in Session, NEW v \in Venue
               PROVE  book[s][v] = Explained(s, v)' \/ v \in torn[s]
    BY <1>5 DEF Mirrored
  <2>1. Explained(s, v)' = Explained(s, v)
    <3>1. Allocators(s, v)' = Allocators(s, v)
      BY <1>2, <1>4, <1>5 DEF Allocators
    <3> QED BY <1>4, <1>5, <3>1, ExplainedStays
  <2>2. \A q \in Request : Unexplained(q) = {}
    BY <1>6 DEF Unexplained, Sectioned
  <2> QED BY <2>1, <2>2 DEF BookInv, Mirrored
<1> QED BY <1>8, <1>9, <1>10 DEF BookInv

\* An application enters its section with everything left to write.
LEMMA StartKeeps ==
  ASSUME TypeOK, Placed, BookInv, NEW r \in Request, ApplyStart(r)
  PROVE  BookInv'
<1>0. mem \in [Request -> Mem] /\ pc \in [Request -> Label]
  BY DEF TypeOK, Mem, Label, Status
<1>1. PICK p \in DOMAIN proposals, k \in Key :
        Continue(r, "write", [mem[r] EXCEPT !.proposal = p, !.key = k,
                                            !.todo = proposals[p].rows])
  BY DEF ApplyStart
<1>2. /\ mem'[r].proposal = p /\ mem'[r].sess = mem[r].sess /\ mem'[r].todo = proposals[p].rows
      /\ pc'[r] = "write" /\ Others(r)
  BY <1>0, <1>1 DEF Continue, Goto, Mem, Others
<1>3. /\ sessions' = sessions /\ book' = book /\ decisions' = decisions
      /\ proposals' = proposals /\ torn' = torn /\ pc[r] = "apply" /\ lock = Free
  BY DEF ApplyStart, Enter
<1>4. \A q \in Request \ {r} : pc[q] \notin Sectioned /\ Unexplained(q) = {}
  BY <1>3, OneWriter
<1>5. Numbered' /\ Recorded' /\ Unborn'
  BY <1>3 DEF BookInv, Numbered, Recorded, Unborn, Existing, Newest
<1>6. Aimed' /\ Midway'
  BY <1>2, <1>3, <1>4 DEF BookInv, Aimed, Midway, Existing, Others, Sectioned
<1>7. Mirrored'
  <2> SUFFICES ASSUME NEW s \in Session, NEW v \in Venue
               PROVE  book[s][v] = Explained(s, v)' \/ v \in torn[s]
    BY <1>3 DEF Mirrored
  <2>1. Explained(s, v)' = Explained(s, v)
    <3>1. Allocators(s, v)' = Allocators(s, v)
      BY <1>3 DEF Allocators
    <3> QED BY <1>3, <3>1, ExplainedStays
  <2>2. \A q \in Request : Unexplained(q) = {}
    BY <1>3, <1>4 DEF Unexplained
  <2> QED BY <2>1, <2>2 DEF BookInv, Mirrored
<1> QED BY <1>5, <1>6, <1>7 DEF BookInv

\* One more venue is written.
LEMMA WriteKeeps ==
  ASSUME TypeOK, Placed, BookInv, NEW r \in Request, ApplyWrite(r)
  PROVE  BookInv'
<1>0. mem \in [Request -> Mem] /\ pc \in [Request -> Label]
      /\ book \in [Session -> [Venue -> 0 .. NoRow]]
  BY DEF TypeOK, Mem, Label, Status
<1> DEFINE p == mem[r].proposal
           t == mem[r].sess
<1>1. PICK v \in mem[r].todo :
        /\ book' = [book EXCEPT ![t][v] = p]
        /\ Continue(r, IF mem[r].todo = {v} THEN "decide" ELSE "write",
                    [mem[r] EXCEPT !.todo = @ \ {v}])
  BY DEF ApplyWrite
<1>2. /\ mem'[r].proposal = p /\ mem'[r].sess = t /\ mem'[r].todo = mem[r].todo \ {v}
      /\ pc'[r] = IF mem[r].todo = {v} THEN "decide" ELSE "write"
      /\ Others(r)
  BY <1>0, <1>1 DEF Continue, Goto, Mem, Others
<1>3. /\ sessions' = sessions /\ decisions' = decisions
      /\ proposals' = proposals /\ torn' = torn /\ pc[r] = "write" /\ lock = r
  BY DEF ApplyWrite, Placed, Sectioned
<1>4. \A q \in Request \ {r} : pc[q] \notin Sectioned /\ Unexplained(q) = {}
  BY <1>3, OneWriter
<1>5. /\ t \in Session /\ t \in Existing /\ mem[r].todo \subseteq proposals[p].rows
      /\ \A u \in proposals[p].rows \ mem[r].todo : book[t][u] = p
      /\ p \in DOMAIN proposals
  BY <1>3 DEF BookInv, Aimed, Midway, Placed
<1>6. v \in Venue /\ proposals[p].rows \subseteq Venue
  BY <1>5, ProposalTypes DEF Stored
<1> HIDE DEF p, t
<1>7. /\ book'[t][v] = p
      /\ \A s \in Session, u \in Venue : s # t \/ u # v => book'[s][u] = book[s][u]
  BY <1>0, <1>1, <1>5, <1>6
<1>8. Numbered' /\ Recorded'
  BY <1>3 DEF BookInv, Numbered, Recorded, Existing, Newest
<1>9. Unborn'
  BY <1>3, <1>5, <1>7 DEF BookInv, Unborn, Existing
<1>10. Aimed'
  BY <1>2, <1>3, <1>5 DEF BookInv, Aimed, Existing, Others
<1>11. Midway'
  <2>1. \A u \in proposals[p].rows \ mem'[r].todo : book'[t][u] = p
    BY <1>2, <1>5, <1>6, <1>7
  <2>2. mem'[r].todo \subseteq proposals[p].rows /\ (pc'[r] = "decide" => mem'[r].todo = {})
    BY <1>2, <1>5
  <2>3. pc'[r] \in {"write", "decide"}
    BY <1>2
  <2>4. \A q \in Request \ {r} : pc'[q] \notin Sectioned
    BY <1>2, <1>4 DEF Others
  <2> QED BY <1>2, <1>3, <2>1, <2>2, <2>3, <2>4 DEF Midway, Sectioned
<1>12. Mirrored'
  <2> SUFFICES ASSUME NEW s \in Session, NEW u \in Venue
               PROVE  \/ book'[s][u] = Explained(s, u)'
                      \/ u \in torn[s]
                      \/ mem'[r].sess = s /\ u \in Unexplained(r)'
    BY <1>3 DEF Mirrored
  <2>1. Explained(s, u)' = Explained(s, u)
    <3>1. Allocators(s, u)' = Allocators(s, u)
      BY <1>3 DEF Allocators
    <3> QED BY <1>3, <3>1, ExplainedStays
  <2>2. Unexplained(r) = proposals[p].rows \ mem[r].todo
    BY <1>3 DEF Unexplained, p
  <2>3. Unexplained(r)' = proposals[p].rows \ mem'[r].todo
    BY <1>2, <1>3 DEF Unexplained
  <2>4. CASE s = t /\ u = v
    BY <1>2, <1>5, <2>3, <2>4
  <2>5. CASE ~ (s = t /\ u = v)
    <3>1. \/ book[s][u] = Explained(s, u) \/ u \in torn[s]
          \/ t = s /\ u \in Unexplained(r)
      BY <1>4 DEF BookInv, Mirrored, t
    <3> QED BY <1>2, <1>7, <2>1, <2>2, <2>3, <2>5, <3>1
  <2> QED BY <2>4, <2>5
<1> QED BY <1>8, <1>9, <1>10, <1>11, <1>12 DEF BookInv

\* The decision explains what was written.
LEMMA DecideKeeps ==
  ASSUME TypeOK, Placed, BookInv, NEW r \in Request, ApplyDecide(r)
  PROVE  BookInv'
<1> DEFINE p == mem[r].proposal
           t == mem[r].sess
           entry == [proposal |-> p, sess |-> t, key |-> mem[r].key, decision |-> "APPLIED"]
<1>1. pc[r] = "decide" /\ decisions' = Append(decisions, entry)
  BY DEF ApplyDecide, Decision
<1>2. /\ entry \in Logged /\ entry.proposal = p /\ entry.sess = t
      /\ entry.decision = "APPLIED"
  BY <1>1, ProposalTypes DEF Placed, Logged
<1>3. /\ t \in Session /\ t \in Existing /\ p \in DOMAIN proposals
      /\ \A u \in proposals[p].rows : book[t][u] = p
  BY <1>1 DEF BookInv, Aimed, Midway, Placed
<1>4. torn' = [torn EXCEPT ![t] = @ \ proposals[p].rows]
  BY DEF ApplyDecide
<1> HIDE DEF entry
<1>5. /\ DOMAIN decisions' = DOMAIN decisions \cup {Len(decisions) + 1}
      /\ Len(decisions) + 1 \notin DOMAIN decisions
      /\ \A i \in DOMAIN decisions : decisions'[i] = decisions[i]
      /\ decisions'[Len(decisions) + 1] = entry
  BY <1>1, <1>2, LogAppended
<1>6. /\ sessions' = sessions /\ book' = book /\ proposals' = proposals
      /\ lock = r /\ pc'[r] = "idle" /\ Others(r)
  BY <1>1, AnswerTypes DEF ApplyDecide, Others, Placed, Sectioned
<1>7. \A q \in Request \ {r} : pc[q] \notin Sectioned /\ Unexplained(q) = {}
  BY <1>6, OneWriter
<1>8. Unexplained(r) = proposals[p].rows
  BY <1>1 DEF Unexplained, BookInv, Midway
<1> HIDE DEF p, t
<1>9. Numbered' /\ Recorded' /\ Unborn'
  BY <1>2, <1>3, <1>5, <1>6 DEF BookInv, Numbered, Recorded, Unborn, Existing, Newest
<1>10. Aimed' /\ Midway'
  BY <1>6, <1>7 DEF BookInv, Aimed, Midway, Existing, Others, Sectioned
<1>11. Mirrored'
  <2> SUFFICES ASSUME NEW s \in Session, NEW v \in Venue
               PROVE  book[s][v] = Explained(s, v)' \/ v \in torn'[s]
    BY <1>6 DEF Mirrored
  <2>0. torn \in [Session -> SUBSET Venue]
    BY DEF TypeOK
  <2>1. CASE s = t /\ v \in proposals[p].rows
    <3> DEFINE last == Len(decisions) + 1
               A == Allocators(s, v)'
    <3>1. DOMAIN decisions' = 1 .. last /\ last \in Nat
      <4>1. Len(decisions) \in Nat /\ DOMAIN decisions = 1 .. Len(decisions)
        BY DEF TypeOK
      <4> QED BY <1>5, <4>1
    <3>2. last \in A
      BY <1>2, <1>5, <1>6, <2>1 DEF Allocators
    <3>3. A \subseteq 1 .. last
      BY <3>1 DEF Allocators
    <3>4. Last(A) = last
      <4> HIDE DEF A, last
      <4>1. A \in SUBSET Nat /\ \A j \in A : j <= last
        BY <3>1, <3>3
      <4> QED BY <3>2, <4>1, LastIs
    <3>5. Explained(s, v)' = decisions'[Last(A)].proposal
      <4>1. Allocators(s, v)' # {}
        BY <3>2
      <4> QED BY <4>1 DEF Explained, Last
    <3> QED BY <1>2, <1>3, <1>5, <2>1, <3>4, <3>5
  <2>2. CASE ~ (s = t /\ v \in proposals[p].rows)
    <3>1. Allocators(s, v)' = Allocators(s, v)
      BY <1>2, <1>5, <1>6, <2>2 DEF Allocators
    <3>2. Explained(s, v)' = Explained(s, v)
      BY <1>5, <1>6, <3>1, ExplainedStays
    <3>3. book[s][v] = Explained(s, v) \/ v \in torn[s]
      BY <1>7, <1>8, <2>2 DEF BookInv, Mirrored, t
    <3>4. v \in torn[s] => v \in torn'[s]
      BY <1>4, <2>0, <2>2
    <3> QED BY <3>2, <3>3, <3>4
  <2> QED BY <2>1, <2>2
<1> QED BY <1>9, <1>10, <1>11 DEF BookInv

\* A session opens: its balances are all still to be inserted, and the log
\* says nothing of it.
LEMMA OpenKeeps ==
  ASSUME TypeOK, Placed, BookInv, NEW r \in Request, Others(r),
         lock = r \/ lock = Free, Newest < MaxSessions,
         NEW status \in LiveStatus, NEW venues \in SUBSET Venue, NEW tags,
         NewSession(status, venues, tags),
         book' = book, torn' = torn, decisions' = decisions, proposals' = proposals,
         pc[r] \notin {"write", "decide", "book"},
         pc'[r] = "book", mem'[r].sess = Newest + 1, mem'[r].todo = venues
  PROVE  BookInv'
<1> DEFINE new == Newest + 1
<1>1. /\ new \in Session \ Existing
      /\ Existing' = Existing \cup {new}
      /\ sessions'[new].opening = venues
      /\ \A s \in Session \ {new} : sessions'[s] = sessions[s]
      /\ Numbered'
  BY SessionOpened DEF BookInv
<1>2. mem'[r].sess = new
  OBVIOUS
<1> HIDE DEF new
<1>3. \A i \in DOMAIN decisions : decisions[i].sess # new
  BY <1>1 DEF BookInv, Recorded
<1>4. \A q \in Request \ {r} : pc[q] \notin Sectioned /\ Unexplained(q) = {}
  BY OneWriter
<1>5. Recorded' /\ Unborn'
  BY <1>1 DEF BookInv, Recorded, Unborn
<1>6. Aimed'
  BY <1>1, <1>2 DEF BookInv, Aimed, Others
<1>7. Midway'
  BY <1>1, <1>2, <1>3, <1>4 DEF Midway, Others, Sectioned
<1>8. Mirrored'
  <2> SUFFICES ASSUME NEW s \in Session, NEW v \in Venue
               PROVE  \/ book[s][v] = Explained(s, v)' \/ v \in torn[s]
                      \/ mem'[r].sess = s /\ v \in Unexplained(r)'
    BY DEF Mirrored
  <2>1. Allocators(s, v)' = Allocators(s, v)
    BY DEF Allocators
  <2>2. CASE s = new
    <3>1. Allocators(s, v)' = {}
      BY <1>3, <2>1, <2>2 DEF Allocators
    <3>2. Explained(s, v)' = IF v \in venues THEN Opening ELSE NoRow
      BY <1>1, <2>2, <3>1 DEF Explained
    <3>3. book[s][v] = NoRow
      BY <1>1, <2>2 DEF BookInv, Unborn
    <3>4. Unexplained(r)' = venues
      BY DEF Unexplained
    <3> QED BY <1>2, <2>2, <3>2, <3>3, <3>4
  <2>3. CASE s # new
    <3>1. Explained(s, v)' = Explained(s, v)
      BY <1>1, <2>1, <2>3, ExplainedStays
    <3>2. Unexplained(r) = {}
      BY DEF Unexplained
    <3> QED BY <1>4, <3>1, <3>2 DEF BookInv, Mirrored
  <2> QED BY <2>2, <2>3
<1> QED BY <1>1, <1>5, <1>6, <1>7, <1>8 DEF BookInv

\* Both commands that open a session.
LEMMA OpeningsKeep ==
  ASSUME TypeOK, Placed, BookInv, NEW r \in Request, Create(r) \/ ReplaceOpen(r)
  PROVE  BookInv'
<1>0. mem \in [Request -> Mem] /\ pc \in [Request -> Label] /\ Blank \in Mem
  BY BlankType DEF TypeOK, Mem, Label, Status
<1>1. CASE Create(r)
  <2>1. PICK plan \in Plan :
          /\ NewSession("NOT_STARTED", plan, {})
          /\ Continue(r, "book", [Blank EXCEPT !.sess = Newest + 1, !.todo = plan])
    BY <1>1 DEF Create
  <2>2. /\ pc'[r] = "book" /\ mem'[r].sess = Newest + 1 /\ mem'[r].todo = plan /\ Others(r)
    BY <1>0, <2>1 DEF Continue, Goto, Mem, Others
  <2>3. /\ plan \in SUBSET Venue /\ "NOT_STARTED" \in LiveStatus
    BY PlanAssumption DEF LiveStatus
  <2>4. /\ book' = book /\ torn' = torn /\ decisions' = decisions /\ proposals' = proposals
        /\ lock = Free /\ Newest < MaxSessions /\ pc[r] = "idle"
    BY <1>1 DEF Create, Enter, Sent
  <2> QED BY <2>1, <2>2, <2>3, <2>4, OpenKeeps
<1>2. CASE ReplaceOpen(r)
  <2> DEFINE plan == mem[r].token.plan
  <2>1. /\ NewSession("RUNNING", plan, {mem[r].token})
        /\ Continue(r, "book", [mem[r] EXCEPT !.sess = Newest + 1, !.todo = plan])
    BY <1>2 DEF ReplaceOpen
  <2>2. /\ pc'[r] = "book" /\ mem'[r].sess = Newest + 1 /\ mem'[r].todo = plan /\ Others(r)
    BY <1>0, <2>1 DEF Continue, Goto, Mem, Others
  <2>3. /\ plan \in SUBSET Venue /\ "RUNNING" \in LiveStatus
    BY <1>0, PlanAssumption DEF LiveStatus, Mem, Token
  <2>4. /\ book' = book /\ torn' = torn /\ decisions' = decisions /\ proposals' = proposals
        /\ lock = r /\ Newest < MaxSessions /\ pc[r] = "archive"
    BY <1>2 DEF ReplaceOpen, Placed, Sectioned
  <2> HIDE DEF plan
  <2> QED BY <2>1, <2>2, <2>3, <2>4, OpenKeeps
<1> QED BY <1>1, <1>2

\* An opening balance is inserted.
LEMMA InsertKeeps ==
  ASSUME TypeOK, Placed, BookInv, NEW r \in Request, InsertRow(r)
  PROVE  BookInv'
<1>0. mem \in [Request -> Mem] /\ pc \in [Request -> Label]
      /\ book \in [Session -> [Venue -> 0 .. NoRow]]
  BY DEF TypeOK, Mem, Label, Status
<1> DEFINE t == mem[r].sess
<1>1. PICK v \in mem[r].todo :
        /\ book' = [book EXCEPT ![t][v] = Opening]
        /\ \/ mem[r].todo = {v} /\ Answer(r)
           \/ Continue(r, "book", [mem[r] EXCEPT !.todo = @ \ {v}])
  BY DEF InsertRow
<1>2. /\ \/ pc'[r] = "idle" /\ mem[r].todo = {v}
         \/ pc'[r] = "book" /\ mem'[r].sess = t /\ mem'[r].todo = mem[r].todo \ {v}
      /\ Others(r)
  BY <1>0, <1>1 DEF Answer, Continue, Goto, Mem, Others
<1>3. /\ sessions' = sessions /\ decisions' = decisions
      /\ proposals' = proposals /\ torn' = torn /\ pc[r] = "book" /\ lock = r
  BY DEF InsertRow, Placed, Sectioned
<1>4. \A q \in Request \ {r} : pc[q] \notin Sectioned /\ Unexplained(q) = {}
  BY <1>3, OneWriter
<1>5. /\ t \in Session /\ t \in Existing /\ mem[r].todo \subseteq Venue
      /\ mem[r].todo \subseteq sessions[t].opening
      /\ \A i \in DOMAIN decisions : decisions[i].sess # t
  BY <1>3 DEF BookInv, Aimed, Midway, Placed, Existing
<1>6. Unexplained(r) = mem[r].todo
  BY <1>3 DEF Unexplained
<1> HIDE DEF t
<1>7. /\ v \in Venue /\ book'[t][v] = Opening
      /\ \A s \in Session, u \in Venue : s # t \/ u # v => book'[s][u] = book[s][u]
  BY <1>0, <1>1, <1>5
<1>8. Numbered' /\ Recorded'
  BY <1>3 DEF BookInv, Numbered, Recorded, Existing, Newest
<1>9. Unborn'
  BY <1>3, <1>5, <1>7 DEF BookInv, Unborn, Existing
<1>10. Aimed'
  BY <1>2, <1>3, <1>5 DEF BookInv, Aimed, Existing, Others
<1>11. Midway'
  <2>1. \A q \in Request \ {r} : pc'[q] \notin Sectioned
    BY <1>2, <1>4 DEF Others
  <2> QED BY <1>2, <1>3, <1>5, <2>1 DEF Midway, Sectioned
<1>12. Mirrored'
  <2> SUFFICES ASSUME NEW s \in Session, NEW u \in Venue
               PROVE  \/ book'[s][u] = Explained(s, u)'
                      \/ u \in torn[s]
                      \/ mem'[r].sess = s /\ u \in Unexplained(r)'
    BY <1>3 DEF Mirrored
  <2>1. Explained(s, u)' = Explained(s, u)
    <3>1. Allocators(s, u)' = Allocators(s, u)
      BY <1>3 DEF Allocators
    <3> QED BY <1>3, <3>1, ExplainedStays
  <2>2. CASE s = t /\ u = v
    <3>1. Allocators(s, u) = {} /\ u \in sessions[s].opening
      BY <1>5, <2>2 DEF Allocators
    <3>2. Explained(s, u) = Opening
      BY <3>1 DEF Explained
    <3> QED BY <1>7, <2>1, <2>2, <3>2
  <2>3. CASE ~ (s = t /\ u = v)
    <3>1. \/ book[s][u] = Explained(s, u) \/ u \in torn[s]
          \/ t = s /\ u \in mem[r].todo
      BY <1>4, <1>6 DEF BookInv, Mirrored, t
    <3>2. pc'[r] = "book" => Unexplained(r)' = mem'[r].todo
      BY DEF Unexplained
    <3>3. t = s /\ u \in mem[r].todo => mem'[r].sess = s /\ u \in Unexplained(r)'
      BY <1>2, <2>3, <3>2
    <3> QED BY <1>7, <2>1, <2>3, <3>1, <3>3
  <2> QED BY <2>2, <2>3
<1> QED BY <1>8, <1>9, <1>10, <1>11, <1>12 DEF BookInv

\* What dies in a section leaves its venues torn, and nothing else unexplained.
LEMMA TearKeeps ==
  ASSUME TypeOK, Placed, BookInv, NEW dead \in SUBSET Request, Tear(dead),
         \A q \in dead : pc'[q] = "idle",
         \A q \in Request \ dead :
           pc'[q] = pc[q] /\ mem'[q] = mem[q] /\ pc[q] \notin Sectioned,
         sessions' = sessions, book' = book, decisions' = decisions, proposals' = proposals
  PROVE  BookInv'
<1>1. Numbered' /\ Recorded' /\ Unborn'
  BY DEF BookInv, Numbered, Recorded, Unborn, Existing, Newest
<1>2. Aimed' /\ Midway'
  BY DEF BookInv, Aimed, Midway, Existing, Sectioned
<1>3. Mirrored'
  <2> SUFFICES ASSUME NEW s \in Session, NEW v \in Venue
               PROVE  book[s][v] = Explained(s, v)' \/ v \in torn'[s]
    BY DEF Mirrored
  <2>1. Explained(s, v)' = Explained(s, v)
    <3>1. Allocators(s, v)' = Allocators(s, v)
      BY DEF Allocators
    <3> QED BY <3>1, ExplainedStays
  <2>2. torn'[s] = torn[s] \cup UNION {Unexplained(q) : q \in {q \in dead : mem[q].sess = s}}
    BY DEF Tear
  <2>3. \A q \in Request \ dead : Unexplained(q) = {}
    BY DEF Unexplained, Sectioned
  <2>4. ASSUME NEW q \in Request, mem[q].sess = s, v \in Unexplained(q) PROVE v \in torn'[s]
    BY <2>2, <2>3, <2>4
  <2> QED BY <2>1, <2>2, <2>4 DEF BookInv, Mirrored
<1> QED BY <1>1, <1>2, <1>3 DEF BookInv

\* BookInv holds in every reachable state.
LEMMA BookExplained == Spec => []BookInv
<1>1. Init => BookInv
  <2> SUFFICES ASSUME Init PROVE BookInv
    OBVIOUS
  <2>1. Existing = {} /\ Newest = 0
    <3>1. Existing = {}
      BY DEF Init, Existing
    <3> QED BY <3>1, FS_EmptySet DEF Newest
  <2>2. \A s \in Session, v \in Venue : book[s][v] = NoRow /\ Explained(s, v) = NoRow
    BY DEF Init, Explained, Allocators
  <2>3. Numbered
    BY <2>1 DEF Numbered
  <2> QED BY <2>2, <2>3 DEF Init, BookInv, Recorded, Aimed, Midway, Unborn, Mirrored
<1>2. TypeOK /\ Placed /\ BookInv /\ [Next]_vars => BookInv'
  <2> SUFFICES ASSUME TypeOK, Placed, BookInv, [Next]_vars PROVE BookInv'
    OBVIOUS
  <2>0. mem \in [Request -> Mem] /\ pc \in [Request -> Label]
    BY DEF TypeOK, Mem, Label, Status
  <2>1. ASSUME NEW r \in Request, Throw(r) PROVE BookInv'
    <3>1. Tear({r}) /\ lock = r
      BY <2>1 DEF Throw, Placed, Sectioned
    <3>2. pc'[r] = "idle" /\ \A q \in Request \ {r} : pc'[q] = pc[q] /\ mem'[q] = mem[q]
      BY <2>1, AnswerTypes DEF Throw
    <3>3. \A q \in Request \ {r} : pc[q] \notin Sectioned
      BY <3>1, OneWriter
    <3>4. sessions' = sessions /\ book' = book /\ decisions' = decisions /\ proposals' = proposals
      BY <2>1 DEF Throw
    <3> QED BY <3>1, <3>2, <3>3, <3>4, TearKeeps
  <2>2. CASE Crash
    <3>1. Tear(Request) /\ \A q \in Request : pc'[q] = "idle"
      BY <2>2 DEF Crash
    <3>2. sessions' = sessions /\ book' = book /\ decisions' = decisions /\ proposals' = proposals
      BY <2>2 DEF Crash
    <3> QED BY <3>1, <3>2, TearKeeps
  <2>3. CASE WorldMoves \/ UNCHANGED vars
    <3>1. /\ sessions' = sessions /\ book' = book /\ decisions' = decisions
          /\ proposals' = proposals /\ pc' = pc /\ mem' = mem /\ torn' = torn
      BY <2>3 DEF WorldMoves, vars
    <3>2. Numbered' /\ Recorded' /\ Aimed' /\ Midway' /\ Unborn'
      BY <3>1 DEF BookInv, Numbered, Recorded, Aimed, Midway, Unborn, Existing, Newest
    <3>3. \A s, v : Explained(s, v)' = Explained(s, v)
      BY <3>1 DEF Explained, Allocators
    <3>4. \A r : Unexplained(r)' = Unexplained(r)
      BY <3>1 DEF Unexplained
    <3> QED BY <3>1, <3>2, <3>3, <3>4 DEF BookInv, Mirrored
  <2> QED
    BY <2>1, <2>2, <2>3, ProposeKeeps, QuietCommands, RefusalKeeps, StartKeeps, WriteKeeps,
       DecideKeeps, OpeningsKeep, InsertKeeps DEF Next, Allocation, Capital
<1> QED BY <1>1, <1>2, TypedAndPlaced, PTL DEF Spec

\* LogExplainsBook: between sections the append-only log explains every
\* balance that no interrupted request left torn, for any requests, venues,
\* plans and sessions, through failed statements, crashes and retries.
THEOREM LogIsTheBook == Spec => []LogExplainsBook
<1>1. Placed /\ BookInv => LogExplainsBook
  <2> SUFFICES ASSUME Placed, BookInv, lock = Free,
                      NEW s \in Session, NEW v \in Venue, v \notin torn[s]
               PROVE  book[s][v] = Explained(s, v)
    BY DEF LogExplainsBook
  <2>1. \A r \in Request : Unexplained(r) = {}
    BY RequestAssumption DEF Placed, Sectioned, Unexplained
  <2> QED BY <2>1 DEF BookInv, Mirrored
<1> QED BY <1>1, BookExplained, TypedAndPlaced, PTL
=============================================================================
