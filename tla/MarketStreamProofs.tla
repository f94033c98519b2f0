-------------------------- MODULE MarketStreamProofs --------------------------
(***************************************************************************)
(* For any venues, pairing window and bounds: the stream fabric offers no  *)
(* book of an ended socket session and no cycle is served a mixed one, the *)
(* next book is ordered after the newest the fabric accepted, and the loop *)
(* never sleeps for the poll interval over a venue that was lost, unless   *)
(* the cycle that was to ask for it was refused.                           *)
(*                                                                         *)
(* Types come first.  Each safety property is then inductive together with *)
(* one fact it leans on: that the assembler's halves belong to the current *)
(* socket session, that a pair is labelled by the local clock, and that a  *)
(* venue is owed an ask only while the recovery flag is up.                *)
(***************************************************************************)
EXTENDS MarketStream, TLAPS

Books == [version : Version \cup {None}, label : Time, sides : SUBSET Side]

Fabric == [sync : BOOLEAN, version : Version \cup {None},
           label : Time \cup {None}, sides : SUBSET Side]
Newest == [version : Version \cup {None}, label : Time \cup {None}]
Debt == {"no", "owed", "dropped"}

\* What the fabric accepts is of its types.
LEMMA IngestTypes ==
  ASSUME TypeOK, NEW v \in Venue, NEW book \in Books, Ingest(v, book)
  PROVE  /\ fabric' \in [Venue -> Fabric]
         /\ newest' \in [Venue -> Newest]
         /\ owed' \in [Venue -> Debt]
<1>1. CASE OutOfOrder(v, book)
  BY <1>1 DEF Ingest, TypeOK, Fabric, Newest, Debt
<1>2. CASE ~ OutOfOrder(v, book)
  <2>1. /\ newest[v].version \in Version \cup {None}
        /\ newest[v].label \in Time \cup {None}
        /\ fabric[v].version \in Version \cup {None}
    BY DEF TypeOK
  <2>2. /\ book.version \in Version \cup {None} /\ book.label \in Time
        /\ book.sides \in SUBSET Side
    BY DEF Books
  <2>3. /\ Larger(newest[v].version, book.version) \in Version \cup {None}
        /\ Larger(newest[v].label, book.label) \in Time \cup {None}
    BY <2>1, <2>2 DEF Larger
  <2>4. fabric' \in [Venue -> Fabric]
    <3> DEFINE row == [sync |-> TRUE, label |-> book.label, sides |-> book.sides,
                       version |-> IF book.version = None THEN fabric[v].version
                                   ELSE book.version]
    <3>1. row \in Fabric
      BY <2>1, <2>2 DEF Fabric
    <3>2. fabric' = [fabric EXCEPT ![v] = row]
      BY <1>2 DEF Ingest
    <3>3. fabric \in [Venue -> Fabric]
      BY DEF TypeOK, Fabric
    <3> HIDE DEF row
    <3> QED BY <3>1, <3>2, <3>3
  <2>5. newest' \in [Venue -> Newest]
    <3> DEFINE row == [version |-> Larger(newest[v].version, book.version),
                       label |-> Larger(newest[v].label, book.label)]
    <3>1. row \in Newest
      BY <2>3 DEF Newest
    <3>2. newest' = [newest EXCEPT ![v] = row]
      BY <1>2 DEF Ingest
    <3>3. newest \in [Venue -> Newest]
      BY DEF TypeOK, Newest
    <3> HIDE DEF row
    <3> QED BY <3>1, <3>2, <3>3
  <2>6. owed' \in [Venue -> Debt]
    BY <1>2 DEF Ingest, TypeOK, Debt
  <2> QED BY <2>4, <2>5, <2>6
<1> QED BY <1>1, <1>2

\* The pair of SidesPaired that `side` completes.
Paired(v, side) ==
  LET halves == Arrived(v, side) IN
    /\ NoSide \notin {halves.bid, halves.ask}
    /\ InWindow(halves.bid, halves.ask)
    /\ IngestStreamed(v, Book(number[v] + 1, Larger(halves.bid.at, halves.ask.at),
                              {halves.bid, halves.ask}))

LoopType ==
  [phase : {"top", "collect", "arrive", "asleep"},
   driven : {"regular", "recovery", "event"},
   booted : BOOLEAN, event : BOOLEAN, recovery : BOOLEAN,
   due : BOOLEAN, spaced : BOOLEAN, timer : {"regular", "recovery", "event"}]

\* The loop's own functions keep its type.
LEMMA LoopTypes ==
  ASSUME NEW l \in LoopType
  PROVE  /\ Woken(l) \in LoopType
         /\ OnDecision(l) \in LoopType
         /\ OnRecovery(l) \in LoopType
         /\ Begun(l) \in LoopType
         /\ Rested(l) \in LoopType
<1>1. Woken(l) \in LoopType
  BY DEF LoopType, Woken
<1>2. OnDecision(l) \in LoopType
  BY DEF LoopType, Woken, OnDecision
<1>3. OnRecovery(l) \in LoopType
  BY DEF LoopType, Woken, OnRecovery
<1>4. Driven(l) \in {"regular", "recovery", "event"}
  BY DEF Driven
<1>5. Begun(l) \in LoopType
  BY <1>4 DEF LoopType, Begun
<1>6. Timer(l) \in {"regular", "recovery", "event"}
  BY DEF Timer
<1>7. Rested(l) \in LoopType
  BY <1>6 DEF LoopType, Rested
<1> QED BY <1>1, <1>2, <1>3, <1>5, <1>7

\* Forgetting a venue's book touches nothing but whether it has one.
LEMMA ClearedFabric ==
  ASSUME fabric \in [Venue -> Fabric], NEW v \in Venue, Cleared(v)
  PROVE  /\ fabric' \in [Venue -> Fabric]
         /\ \A u \in Venue \ {v} : fabric'[u] = fabric[u]
         /\ fabric'[v].sync = FALSE /\ fabric'[v].sides = {}
         /\ fabric'[v].version = fabric[v].version
         /\ fabric'[v].label = fabric[v].label
<1> DEFINE row == [sync |-> FALSE, version |-> fabric[v].version,
                   label |-> fabric[v].label, sides |-> {}]
<1>1. fabric[v] \in Fabric
  OBVIOUS
<1>2. row \in Fabric
  BY <1>1 DEF Fabric
<1>3. fabric' = [fabric EXCEPT ![v] = row]
  BY DEF Cleared
<1>4. /\ row.sync = FALSE /\ row.sides = {}
      /\ row.version = fabric[v].version /\ row.label = fabric[v].label
  OBVIOUS
<1> HIDE DEF row
<1> QED BY <1>2, <1>3, <1>4

\* Losing a stream keeps the types of what it touches.
LEMMA LostTypes ==
  ASSUME TypeOK, NEW v \in Venue, Lost(v)
  PROVE  /\ fabric' \in [Venue -> Fabric]
         /\ loop' \in LoopType
         /\ owed' \in [Venue -> Debt]
         /\ newest' = newest
<1>1. loop \in LoopType
  BY DEF TypeOK, LoopType
<1>2. loop' \in LoopType
  BY <1>1, LoopTypes DEF Lost
<1>3. loop.booted \in BOOLEAN
  BY <1>1 DEF LoopType
<1>4. owed' \in [Venue -> Debt]
  BY <1>3 DEF Lost, TypeOK, Debt
<1>5. fabric' \in [Venue -> Fabric]
  <2>1. fabric \in [Venue -> Fabric]
    BY DEF TypeOK, Fabric
  <2> QED BY <2>1, ClearedFabric DEF Lost
<1> QED BY <1>2, <1>4, <1>5 DEF Lost

\* What the assembler holds once one more side has come.
LEMMA ArrivedType ==
  ASSUME TypeOK, NEW v \in Venue, NEW side \in {"bid", "ask"}
  PROVE  Arrived(v, side) \in [bid : Side, ask : Side]
<1> DEFINE new == [at |-> now, session |-> session[v]]
<1>1. new \in Side
  BY DEF TypeOK, Side
<1>2. half[v] \in [bid : Side, ask : Side]
  BY DEF TypeOK
<1> HIDE DEF new
<1>3. CASE side = "bid"
  BY <1>1, <1>2, <1>3 DEF Arrived, new
<1>4. CASE side = "ask"
  BY <1>1, <1>2, <1>4 DEF Arrived, new
<1> QED BY <1>3, <1>4

\* A collection keeps the types of what it touches.
LEMMA CollectTypes ==
  ASSUME TypeOK, NEW stale \in SUBSET Venue, Collect(stale)
  PROVE  /\ ask' \in [Venue -> Time \cup {None}]
         /\ cached' \in [Venue -> SUBSET Side]
         /\ owed' \in [Venue -> Debt]
<1>1. /\ now \in Time
      /\ cached \in [Venue -> SUBSET Side]
      /\ owed \in [Venue -> Debt]
      /\ \A v \in Venue : fabric[v].sides \in SUBSET Side
  BY DEF TypeOK, Debt
<1>2. ask' \in [Venue -> Time \cup {None}]
  BY <1>1 DEF Collect
<1>3. cached' \in [Venue -> SUBSET Side]
  BY <1>1 DEF Collect
<1>4. owed' \in [Venue -> Debt]
  BY <1>1 DEF Collect, Debt
<1> QED BY <1>2, <1>3, <1>4

\* Types of every reachable state.
THEOREM StreamTypeCorrect == Spec => []TypeOK
<1>1. Init => TypeOK
  <2> SUFFICES ASSUME Init PROVE TypeOK
    OBVIOUS
  <2>1. 0 \in Time /\ 0 \in Session /\ 0 \in Version
    BY StreamBounds DEF Time, Session, Version
  <2>2. NoSide \in Side
    BY DEF Side
  <2> QED BY <2>1, <2>2 DEF Init, TypeOK
<1>2. TypeOK /\ [Next]_vars => TypeOK'
  <2> SUFFICES ASSUME TypeOK, [Next]_vars PROVE TypeOK'
    OBVIOUS
  <2>0. /\ loop \in LoopType
        /\ fabric \in [Venue -> Fabric]
        /\ newest \in [Venue -> Newest]
        /\ NoSide \in Side
        /\ \A v \in Venue : [at |-> now, session |-> session[v]] \in Side
    BY DEF TypeOK, LoopType, Fabric, Newest, Side
  <2>1. ASSUME NEW v \in Venue, Connect(v) PROVE TypeOK'
    BY <2>1 DEF Connect, TypeOK
  <2>2. ASSUME NEW v \in Venue, Open(v) PROVE TypeOK'
    BY <2>2 DEF Open, TypeOK
  <2>3. ASSUME NEW v \in Venue, Close(v) PROVE TypeOK'
    <3>1. /\ fabric' \in [Venue -> Fabric] /\ loop' \in LoopType
          /\ owed' \in [Venue -> Debt] /\ newest' = newest
      BY <2>3, LostTypes DEF Close
    <3>2. session' \in [Venue -> Session]
      BY <2>3, StreamBounds DEF Close, TypeOK, Session
    <3>3. half' \in [Venue -> [bid : Side, ask : Side]]
      BY <2>3, <2>0 DEF Close, Unpaired, TypeOK
    <3>4. link' \in [Venue -> {"waiting", "connecting", "up"}]
      BY <2>3 DEF Close, TypeOK
    <3> QED BY <2>3, <3>1, <3>2, <3>3, <3>4 DEF Close, TypeOK, Fabric, LoopType, Debt
  <2>4. ASSUME NEW v \in Venue, Publication(v) PROVE TypeOK'
    <3>1. PICK label \in Time, version \in Version :
            IngestStreamed(v, Book(IF kind[v] = "version" THEN version ELSE None, label,
                                   {[at |-> now, session |-> session[v]]}))
      BY <2>4 DEF Publication
    <3> DEFINE book == Book(IF kind[v] = "version" THEN version ELSE None, label,
                            {[at |-> now, session |-> session[v]]})
    <3>2. book \in Books
      BY <2>0 DEF Books, Book
    <3> HIDE DEF book
    <3>3. Ingest(v, book) /\ loop' \in LoopType
      BY <3>1, <2>0, LoopTypes DEF IngestStreamed, book
    <3>4. /\ fabric' \in [Venue -> Fabric] /\ newest' \in [Venue -> Newest]
          /\ owed' \in [Venue -> Debt]
      BY <3>2, <3>3, IngestTypes
    <3> QED BY <2>4, <3>3, <3>4 DEF Publication, TypeOK, Fabric, Newest, LoopType, Debt
  <2>5. ASSUME NEW v \in Venue, SideWaits(v) PROVE TypeOK'
    <3>1. PICK side \in {"bid", "ask"} : half' = [half EXCEPT ![v] = Arrived(v, side)]
      BY <2>5 DEF SideWaits
    <3>2. Arrived(v, side) \in [bid : Side, ask : Side]
      BY ArrivedType
    <3>3. half' \in [Venue -> [bid : Side, ask : Side]]
      BY <3>1, <3>2 DEF TypeOK
    <3> QED BY <2>5, <3>3 DEF SideWaits, TypeOK
  <2>6. ASSUME NEW v \in Venue, SidesApart(v) PROVE TypeOK'
    <3>1. /\ fabric' \in [Venue -> Fabric] /\ loop' \in LoopType
          /\ owed' \in [Venue -> Debt] /\ newest' = newest
      BY <2>6, LostTypes DEF SidesApart
    <3>2. half' \in [Venue -> [bid : Side, ask : Side]]
      BY <2>6, <2>0 DEF SidesApart, TypeOK
    <3> QED BY <2>6, <3>1, <3>2 DEF SidesApart, TypeOK, Fabric, LoopType, Debt
  <2>7. ASSUME NEW v \in Venue, SidesPaired(v) PROVE TypeOK'
    <3>1. PICK side \in {"bid", "ask"} : Paired(v, side)
      BY <2>7 DEF SidesPaired, Paired
    <3> DEFINE book == Book(number[v] + 1,
              Larger(Arrived(v, side).bid.at, Arrived(v, side).ask.at),
              {Arrived(v, side).bid, Arrived(v, side).ask})
    <3>2. Arrived(v, side) \in [bid : Side, ask : Side]
      BY ArrivedType
    <3>3. /\ Arrived(v, side).bid \in Side /\ Arrived(v, side).ask \in Side
          /\ Arrived(v, side).bid.at \in Time /\ Arrived(v, side).ask.at \in Time
      BY <3>1, <3>2 DEF Side, Paired
    <3>4. number' \in [Venue -> Version] /\ number[v] + 1 \in Version
      BY <2>7, StreamBounds DEF SidesPaired, TypeOK, Version
    <3>5. Larger(Arrived(v, side).bid.at, Arrived(v, side).ask.at) \in Time
      BY <3>3 DEF Larger
    <3>6. book \in Books
      BY <3>3, <3>4, <3>5 DEF Books, Book
    <3> HIDE DEF book
    <3>7. Ingest(v, book) /\ loop' \in LoopType
      BY <3>1, <2>0, LoopTypes DEF IngestStreamed, Paired, book
    <3>8. /\ fabric' \in [Venue -> Fabric] /\ newest' \in [Venue -> Newest]
          /\ owed' \in [Venue -> Debt]
      BY <3>6, <3>7, IngestTypes
    <3>9. half' \in [Venue -> [bid : Side, ask : Side]]
      BY <2>7, <2>0 DEF SidesPaired, TypeOK
    <3> QED
      BY <2>7, <3>4, <3>7, <3>8, <3>9 DEF SidesPaired, TypeOK, Fabric, Newest, LoopType, Debt
  <2>8. ASSUME NEW v \in Venue, RestBook(v) PROVE TypeOK'
    <3>1. PICK label \in RestLabels(v) : Ingest(v, Book(None, label, {}))
      BY <2>8 DEF RestBook
    <3>2. label \in Time
      BY <2>8, <3>1 DEF RestBook, RestLabels, TypeOK
    <3>3. Book(None, label, {}) \in Books
      BY <3>2 DEF Books, Book
    <3>4. /\ fabric' \in [Venue -> Fabric] /\ newest' \in [Venue -> Newest]
          /\ owed' \in [Venue -> Debt]
      BY <3>1, <3>3, IngestTypes
    <3>5. ask' \in [Venue -> Time \cup {None}] /\ cached' \in [Venue -> SUBSET Side]
      BY <2>8 DEF RestBook, TypeOK
    <3> QED BY <2>8, <3>4, <3>5 DEF RestBook, TypeOK, Fabric, Newest, Debt
  <2>9. ASSUME NEW v \in Venue, RestFails(v) PROVE TypeOK'
    BY <2>9 DEF RestFails, TypeOK
  <2>10. CASE StartCycle
    <3>1. loop' \in LoopType
      BY <2>10, <2>0, LoopTypes DEF StartCycle
    <3>2. /\ ask' \in [Venue -> Time \cup {None}]
          /\ cached' \in [Venue -> SUBSET Side]
          /\ owed' \in [Venue -> Debt]
      <4>1. CASE \E stale \in SUBSET Venue : Collect(stale)
        BY <4>1, CollectTypes
      <4>2. CASE UNCHANGED <<ask, cached, owed>>
        BY <4>2 DEF TypeOK, Debt
      <4> QED BY <2>10, <4>1, <4>2 DEF StartCycle
    <3> QED BY <2>10, <3>1, <3>2 DEF StartCycle, TypeOK, LoopType, Debt
  <2>11. CASE SkipCycle
    <3>1. loop' \in LoopType
      BY <2>11, <2>0, LoopTypes DEF SkipCycle
    <3>2. owed' \in [Venue -> Debt]
      BY <2>11 DEF SkipCycle, TypeOK, Debt
    <3> QED BY <2>11, <3>1, <3>2 DEF SkipCycle, TypeOK, LoopType, Debt
  <2>12. CASE Observe
    <3>1. /\ ask' \in [Venue -> Time \cup {None}]
          /\ cached' \in [Venue -> SUBSET Side]
          /\ owed' \in [Venue -> Debt]
      BY <2>12, CollectTypes DEF Observe
    <3>2. loop' \in LoopType
      BY <2>12, <2>0 DEF Observe, LoopType
    <3> QED BY <2>12, <3>1, <3>2 DEF Observe, TypeOK, LoopType, Debt
  <2>13. CASE EndCycle
    BY <2>13, <2>0, LoopTypes DEF EndCycle, TypeOK, LoopType
  <2>14. CASE Wake
    BY <2>14, <2>0, LoopTypes DEF Wake, TypeOK, LoopType
  <2>15. CASE Tick
    BY <2>15, StreamBounds DEF Tick, TypeOK, Time
  <2>16. CASE TimePasses
    <3>1. loop' \in LoopType
      BY <2>16, <2>0 DEF TimePasses, LoopType
    <3> QED BY <2>16, <3>1 DEF TimePasses, TypeOK, LoopType
  <2>17. CASE UNCHANGED vars
    BY <2>17 DEF vars, TypeOK
  <2> QED
    BY <2>1, <2>2, <2>3, <2>4, <2>5, <2>6, <2>7, <2>8, <2>9, <2>10, <2>11, <2>12,
       <2>13, <2>14, <2>15, <2>16, <2>17 DEF Next
<1> QED BY <1>1, <1>2, PTL DEF Spec

-----------------------------------------------------------------------------
(* No venue is left for the poll interval.                                 *)

\* A venue that is owed an ask has no book and the recovery flag is up; with
\* the flag up the loop does not sleep for the poll interval.
Owing ==
  /\ \A v \in Venue : owed[v] = "owed" => ~ fabric[v].sync /\ loop.recovery
  /\ loop.phase = "asleep" /\ loop.recovery => loop.timer = "recovery"

\* A book that is offered can only settle what is owed.
LEMMA IngestOwing ==
  ASSUME TypeOK, Owing, NEW v \in Venue, NEW book, Ingest(v, book),
         loop' = loop \/ loop' = OnDecision(loop)
  PROVE  Owing'
<1>1. loop \in LoopType
  BY DEF TypeOK, LoopType
<1>2. /\ loop'.recovery = loop.recovery /\ loop'.timer = loop.timer
      /\ loop'.phase = "asleep" => loop.phase = "asleep"
  BY <1>1 DEF OnDecision, Woken, LoopType
<1>3. \A u \in Venue : owed'[u] = "owed" => owed[u] = "owed" /\ fabric'[u] = fabric[u]
  BY DEF Ingest, TypeOK
<1> QED BY <1>2, <1>3 DEF Owing

\* A lost stream raises the flag and wakes the loop.
LEMMA LostOwing ==
  ASSUME TypeOK, Owing, NEW v \in Venue, Lost(v)
  PROVE  Owing'
<1>1. loop \in LoopType /\ fabric \in [Venue -> Fabric]
  BY DEF TypeOK, LoopType, Fabric
<1>2. loop' = OnRecovery(loop) /\ owed' = [owed EXCEPT ![v] = IF loop.booted THEN "owed" ELSE "no"]
  BY DEF Lost
<1>3. /\ loop'.timer = loop.timer
      /\ loop.booted => loop'.recovery /\ loop'.phase # "asleep"
      /\ ~ loop.booted => loop' = loop
      /\ loop.recovery => loop'.recovery
  BY <1>1, <1>2 DEF OnRecovery, Woken, LoopType
<1>4. \A u \in Venue : ~ fabric[u].sync => ~ fabric'[u].sync
  BY <1>1, ClearedFabric DEF Lost
<1>5. ~ fabric'[v].sync
  BY <1>1, ClearedFabric DEF Lost
<1>6. owed \in [Venue -> Debt]
  BY DEF TypeOK, Debt
<1>7. \A u \in Venue : owed'[u] = "owed" => owed[u] = "owed" \/ (u = v /\ loop.booted)
  BY <1>2, <1>6
<1>8. \A u \in Venue : owed'[u] = "owed" => ~ fabric'[u].sync /\ loop'.recovery
  BY <1>3, <1>4, <1>5, <1>7 DEF Owing
<1> QED BY <1>3, <1>8 DEF Owing

\* Going to rest keeps the flag, and its timer is the flag's.
LEMMA RestKeepsFlag ==
  ASSUME NEW l \in LoopType
  PROVE  /\ Rested(l).recovery = l.recovery
         /\ Rested(l).driven = l.driven
         /\ l.recovery => Rested(l).timer = "recovery"
BY DEF Rested, Timer, LoopType

\* A cycle drops the flag only when it asks every venue that has no book, or
\* is refused and drops what is owed.
LEMMA CycleOwing ==
  ASSUME TypeOK, Owing
  PROVE  /\ StartCycle => Owing'
         /\ SkipCycle => Owing'
         /\ Observe => Owing'
         /\ EndCycle => Owing'
<1>0. loop \in LoopType
  BY DEF TypeOK, LoopType
<1>1. /\ Begun(loop).phase = "collect" /\ Begun(loop).driven = Driven(loop)
      /\ Driven(loop) # "recovery" => Begun(loop).recovery = loop.recovery
  BY <1>0 DEF Begun, LoopType
<1>3. Begun(loop) \in LoopType
  BY <1>0, LoopTypes
<1>4. StartCycle => Owing'
  <2> SUFFICES ASSUME StartCycle PROVE Owing'
    OBVIOUS
  <2>1. loop' = Begun(loop) /\ fabric' = fabric
    BY DEF StartCycle
  <2>2. \A v \in Venue : owed'[v] = "owed" =>
          owed[v] = "owed" /\ (loop'.driven # "event" => fabric[v].sync)
    BY DEF StartCycle, Collect
  <2>3. \A v \in Venue : owed'[v] = "owed" => loop'.driven = "event"
    BY <2>2 DEF Owing
  <2> QED BY <1>1, <2>1, <2>2, <2>3 DEF Owing
<1>5. SkipCycle => Owing'
  <2> SUFFICES ASSUME SkipCycle PROVE Owing'
    OBVIOUS
  <2>1. loop' = Rested(Begun(loop)) /\ fabric' = fabric
    BY DEF SkipCycle
  <2>2. \A v \in Venue : owed'[v] = "owed" => owed[v] = "owed" /\ loop'.driven # "recovery"
    BY DEF SkipCycle
  <2>3. /\ loop'.recovery = Begun(loop).recovery
        /\ loop'.driven = Driven(loop)
        /\ loop'.recovery => loop'.timer = "recovery"
    <3>1. /\ Rested(Begun(loop)).recovery = Begun(loop).recovery
          /\ Rested(Begun(loop)).driven = Begun(loop).driven
          /\ Begun(loop).recovery => Rested(Begun(loop)).timer = "recovery"
      BY <1>3, RestKeepsFlag
    <3> QED BY <1>1, <2>1, <3>1
  <2>4. \A v \in Venue : owed'[v] = "owed" => ~ fabric'[v].sync /\ loop'.recovery
    BY <1>1, <2>1, <2>2, <2>3 DEF Owing
  <2> QED BY <2>3, <2>4 DEF Owing
<1>6. Observe => Owing'
  <2> SUFFICES ASSUME Observe PROVE Owing'
    OBVIOUS
  <2>1. /\ fabric' = fabric /\ loop'.phase = "arrive" /\ loop'.recovery = loop.recovery
    BY <1>0 DEF Observe, LoopType
  <2>2. \A v \in Venue : owed'[v] = "owed" => owed[v] = "owed"
    BY DEF Observe, Collect
  <2> QED BY <2>1, <2>2 DEF Owing
<1>7. EndCycle => Owing'
  <2> SUFFICES ASSUME EndCycle PROVE Owing'
    OBVIOUS
  <2>1. loop' = Rested(loop) /\ fabric' = fabric /\ owed' = owed
    BY DEF EndCycle
  <2>2. /\ loop'.recovery = loop.recovery
        /\ loop'.recovery => loop'.timer = "recovery"
    <3>1. /\ Rested(loop).recovery = loop.recovery
          /\ loop.recovery => Rested(loop).timer = "recovery"
      BY <1>0, RestKeepsFlag
    <3> QED BY <2>1, <3>1
  <2> QED BY <2>1, <2>2 DEF Owing
<1> QED BY <1>4, <1>5, <1>6, <1>7

\* NothingForgotten: a venue lost during a cycle, or while asleep, is asked
\* for over REST, or has its recovery cycle refused, before the loop waits for
\* its poll interval.
THEOREM NothingIsForgotten == Spec => []NothingForgotten
<1>1. Init => Owing
  BY DEF Init, Owing
<1>2. TypeOK /\ Owing /\ [Next]_vars => Owing'
  <2> SUFFICES ASSUME TypeOK, Owing, [Next]_vars PROVE Owing'
    OBVIOUS
  <2>0. loop \in LoopType
    BY DEF TypeOK, LoopType
  <2>1. ASSUME NEW v \in Venue,
               Connect(v) \/ Open(v) \/ SideWaits(v) \/ RestFails(v)
        PROVE  Owing'
    BY <2>1 DEF Connect, Open, SideWaits, RestFails, Owing
  <2>2. ASSUME NEW v \in Venue, Close(v) \/ SidesApart(v) PROVE Owing'
    BY <2>2, LostOwing DEF Close, SidesApart
  <2>3. ASSUME NEW v \in Venue, NEW book, IngestStreamed(v, book) PROVE Owing'
    BY <2>3, IngestOwing DEF IngestStreamed
  <2>4. ASSUME NEW v \in Venue, Publication(v) PROVE Owing'
    BY <2>3, <2>4 DEF Publication
  <2>5. ASSUME NEW v \in Venue, SidesPaired(v) PROVE Owing'
    BY <2>3, <2>5 DEF SidesPaired
  <2>6. ASSUME NEW v \in Venue, RestBook(v) PROVE Owing'
    BY <2>6, IngestOwing DEF RestBook
  <2>7. CASE StartCycle \/ SkipCycle \/ Observe \/ EndCycle
    BY <2>7, CycleOwing
  <2>8. CASE Wake \/ Tick \/ TimePasses
    <3>1. /\ fabric' = fabric /\ owed' = owed
          /\ loop'.recovery = loop.recovery /\ loop'.timer = loop.timer
          /\ loop'.phase = "asleep" => loop.phase = "asleep"
      BY <2>8, <2>0 DEF Wake, Woken, Tick, TimePasses, LoopType
    <3> QED BY <3>1 DEF Owing
  <2>9. CASE UNCHANGED vars
    BY <2>9 DEF vars, Owing
  <2> QED
    BY <2>1, <2>2, <2>4, <2>5, <2>6, <2>7, <2>8, <2>9 DEF Next
<1>3. TypeOK /\ Owing => NothingForgotten
  BY DEF Owing, NothingForgotten
<1> QED BY <1>1, <1>2, <1>3, StreamTypeCorrect, PTL DEF Spec

-----------------------------------------------------------------------------
(* No book is mixed.                                                       *)

\* The halves the assembler keeps came in the current socket session.
HalvesCurrent ==
  \A v \in Venue :
    /\ half[v].bid # NoSide => half[v].bid.session = session[v]
    /\ half[v].ask # NoSide => half[v].ask.session = session[v]

\* A book of one socket session and of one pairing window.
OneBook(sides) ==
  \A s, t \in sides : s.session = t.session /\ s.at - t.at <= PairSkew

\* The fabric's book is such a book, and of the current session while it is
\* offered; the cache keeps nothing else.
StreamsWhole ==
  \A v \in Venue :
    /\ fabric[v].sync => \A s \in fabric[v].sides : s.session = session[v]
    /\ OneBook(fabric[v].sides)

CacheWhole == \A v \in Venue : OneBook(cached[v])

Unmixed == HalvesCurrent /\ StreamsWhole /\ CacheWhole

\* One more side is of the current session as well.
LEMMA ArrivedCurrent ==
  ASSUME TypeOK, HalvesCurrent, NEW v \in Venue, NEW side \in {"bid", "ask"}
  PROVE  LET halves == Arrived(v, side) IN
           /\ halves.bid # NoSide => halves.bid.session = session[v]
           /\ halves.ask # NoSide => halves.ask.session = session[v]
<1> DEFINE new == [at |-> now, session |-> session[v]]
<1>1. new.session = session[v]
  OBVIOUS
<1>2. half[v] \in [bid : Side, ask : Side]
  BY DEF TypeOK
<1> HIDE DEF new
<1>3. CASE side = "bid"
  <2>1. Arrived(v, side).bid = new /\ Arrived(v, side).ask = half[v].ask
    BY <1>2, <1>3 DEF Arrived, new
  <2> QED BY <1>1, <2>1 DEF HalvesCurrent
<1>4. CASE side = "ask"
  <2>1. Arrived(v, side).ask = new /\ Arrived(v, side).bid = half[v].bid
    BY <1>2, <1>4 DEF Arrived, new
  <2> QED BY <1>1, <2>1 DEF HalvesCurrent
<1> QED BY <1>3, <1>4

\* Accepting an unmixed book leaves every book of the fabric unmixed.
LEMMA IngestUnmixed ==
  ASSUME TypeOK, StreamsWhole, NEW v \in Venue, NEW book \in Books, Ingest(v, book),
         session' = session,
         \A s \in book.sides : s.session = session[v],
         \A s, t \in book.sides : s.at - t.at <= PairSkew
  PROVE  StreamsWhole'
<1>1. CASE OutOfOrder(v, book)
  BY <1>1 DEF Ingest, StreamsWhole
<1>2. CASE ~ OutOfOrder(v, book)
  <2>1. /\ fabric'[v].sides = book.sides
        /\ \A u \in Venue \ {v} : fabric'[u] = fabric[u]
    BY <1>2 DEF Ingest, TypeOK
  <2>2. OneBook(book.sides)
    BY DEF OneBook
  <2> QED BY <2>1, <2>2 DEF StreamsWhole
<1> QED BY <1>1, <1>2

\* A lost venue has no book, whichever socket session follows.
LEMMA LostUnmixed ==
  ASSUME TypeOK, StreamsWhole, NEW v \in Venue, Lost(v),
         \A u \in Venue \ {v} : session'[u] = session[u]
  PROVE  StreamsWhole'
<1>1. /\ \A u \in Venue \ {v} : fabric'[u] = fabric[u]
      /\ ~ fabric'[v].sync /\ fabric'[v].sides = {}
  BY ClearedFabric DEF Lost, TypeOK, Fabric
<1>2. OneBook({})
  BY DEF OneBook
<1> QED BY <1>1, <1>2 DEF StreamsWhole

\* What a collection caches is a book of the fabric.
LEMMA CollectUnmixed ==
  ASSUME StreamsWhole, CacheWhole, NEW stale \in SUBSET Venue, Collect(stale)
  PROVE  CacheWhole'
BY DEF Collect, StreamsWhole, CacheWhole

\* NeverMixed: over every reconnection and every late side, a stream book is
\* offered during its own socket session only, and no book served, not even a
\* cached one, is of two sessions or of two pairing windows.
THEOREM BooksNeverMixed == Spec => []NeverMixed
<1>1. Init => Unmixed
  BY DEF Init, Unmixed, HalvesCurrent, StreamsWhole, CacheWhole, OneBook
<1>2. TypeOK /\ Unmixed /\ [Next]_vars => Unmixed'
  <2> SUFFICES ASSUME TypeOK, Unmixed, [Next]_vars PROVE Unmixed'
    OBVIOUS
  <2> USE DEF Unmixed
  <2>0. fabric \in [Venue -> Fabric]
    BY DEF TypeOK, Fabric
  <2>1. ASSUME NEW v \in Venue, Close(v) PROVE Unmixed'
    <3>1. \A u \in Venue \ {v} : session'[u] = session[u]
      BY <2>1 DEF Close, TypeOK
    <3>2. HalvesCurrent'
      BY <2>1 DEF Close, Unpaired, HalvesCurrent, TypeOK
    <3> QED BY <2>1, <3>1, <3>2, LostUnmixed DEF Close, CacheWhole
  <2>2. ASSUME NEW v \in Venue, Publication(v) PROVE Unmixed'
    <3>1. PICK label \in Time, version \in Version :
            IngestStreamed(v, Book(IF kind[v] = "version" THEN version ELSE None, label,
                                   {[at |-> now, session |-> session[v]]}))
      BY <2>2 DEF Publication
    <3> DEFINE book == Book(IF kind[v] = "version" THEN version ELSE None, label,
                            {[at |-> now, session |-> session[v]]})
    <3>2. book \in Books /\ book.sides = {[at |-> now, session |-> session[v]]}
      BY DEF Books, Book, TypeOK, Side
    <3>3. \A s, t \in book.sides : s.at - t.at <= PairSkew
      <4>1. now - now <= PairSkew
        BY StreamBounds DEF TypeOK, Time
      <4>2. \A s \in book.sides : s.at = now
        BY <3>2
      <4> HIDE DEF book
      <4> QED BY <4>1, <4>2
    <3>4. \A s \in book.sides : s.session = session[v]
      BY <3>2
    <3>5. Ingest(v, book)
      BY <3>1 DEF IngestStreamed
    <3> HIDE DEF book
    <3>6. StreamsWhole'
      BY <2>2, <3>2, <3>3, <3>4, <3>5, IngestUnmixed DEF Publication
    <3> QED BY <2>2, <3>6 DEF Publication, HalvesCurrent, CacheWhole
  <2>3. ASSUME NEW v \in Venue, SideWaits(v) PROVE Unmixed'
    <3>1. PICK side \in {"bid", "ask"} : half' = [half EXCEPT ![v] = Arrived(v, side)]
      BY <2>3 DEF SideWaits
    <3>2. LET halves == Arrived(v, side) IN
            /\ halves.bid # NoSide => halves.bid.session = session[v]
            /\ halves.ask # NoSide => halves.ask.session = session[v]
      BY ArrivedCurrent
    <3>3. HalvesCurrent'
      BY <2>3, <3>1, <3>2 DEF SideWaits, HalvesCurrent, TypeOK
    <3> QED BY <2>3, <3>3 DEF SideWaits, StreamsWhole, CacheWhole
  <2>4. ASSUME NEW v \in Venue, SidesApart(v) PROVE Unmixed'
    <3>1. HalvesCurrent'
      BY <2>4 DEF SidesApart, HalvesCurrent, TypeOK
    <3> QED BY <2>4, <3>1, LostUnmixed DEF SidesApart, CacheWhole
  <2>5. ASSUME NEW v \in Venue, SidesPaired(v) PROVE Unmixed'
    <3>1. PICK side \in {"bid", "ask"} : Paired(v, side)
      BY <2>5 DEF SidesPaired, Paired
    <3> DEFINE bid == Arrived(v, side).bid
               offer == Arrived(v, side).ask
               book == Book(number[v] + 1, Larger(bid.at, offer.at), {bid, offer})
    <3>2. Arrived(v, side) \in [bid : Side, ask : Side]
      BY ArrivedType
    <3>3. /\ bid # NoSide /\ offer # NoSide /\ InWindow(bid, offer)
          /\ IngestStreamed(v, book)
      BY <3>1 DEF Paired
    <3>4. bid.session = session[v] /\ offer.session = session[v]
      BY <3>3, ArrivedCurrent
    <3>5. bid \in [at : Time, session : Session] /\ offer \in [at : Time, session : Session]
      BY <3>2, <3>3 DEF Side
    <3> HIDE DEF bid, offer
    <3>6. number[v] + 1 \in Version
      BY <2>5, StreamBounds DEF SidesPaired, TypeOK, Version
    <3>7. book \in Books /\ book.sides = {bid, offer}
      BY <3>5, <3>6 DEF Books, Book, Larger, Side
    <3>8. \A s \in book.sides : s.session = session[v]
      BY <3>4, <3>7
    <3>9. \A s, t \in book.sides : s.at - t.at <= PairSkew
      <4>1. /\ bid.at - bid.at <= PairSkew /\ offer.at - offer.at <= PairSkew
            /\ bid.at - offer.at <= PairSkew /\ offer.at - bid.at <= PairSkew
        BY <3>3, <3>5, StreamBounds DEF InWindow, Time
      <4> HIDE DEF book
      <4> QED BY <3>7, <4>1
    <3> HIDE DEF book
    <3>10. StreamsWhole'
      BY <2>5, <3>3, <3>7, <3>8, <3>9, IngestUnmixed DEF SidesPaired, IngestStreamed
    <3>11. HalvesCurrent'
      BY <2>5 DEF SidesPaired, HalvesCurrent, TypeOK
    <3> QED BY <2>5, <3>10, <3>11 DEF SidesPaired, CacheWhole
  <2>6. ASSUME NEW v \in Venue, RestBook(v) PROVE Unmixed'
    <3>1. PICK label \in RestLabels(v) : Ingest(v, Book(None, label, {}))
      BY <2>6 DEF RestBook
    <3>2. label \in Time
      BY <2>6, <3>1 DEF RestBook, RestLabels, TypeOK
    <3> DEFINE book == Book(None, label, {})
    <3>3. book \in Books /\ book.sides = {}
      BY <3>2 DEF Books, Book
    <3>4. Ingest(v, book)
      BY <3>1
    <3> HIDE DEF book
    <3>5. StreamsWhole'
      BY <2>6, <3>3, <3>4, IngestUnmixed DEF RestBook
    <3>6. cached' = [cached EXCEPT ![v] = {}] /\ OneBook({})
      BY <2>6 DEF RestBook, OneBook
    <3>7. CacheWhole'
      BY <3>6 DEF CacheWhole, TypeOK
    <3> QED BY <2>6, <3>5, <3>7 DEF RestBook, HalvesCurrent
  <2>7. ASSUME NEW v \in Venue, Connect(v) \/ Open(v) \/ RestFails(v) PROVE Unmixed'
    BY <2>7 DEF Connect, Open, RestFails, HalvesCurrent, StreamsWhole, CacheWhole
  <2>8. CASE StartCycle \/ SkipCycle \/ Observe \/ EndCycle \/ Wake \/ Tick \/ TimePasses
    <3>1. half' = half /\ session' = session /\ fabric' = fabric
      BY <2>8 DEF StartCycle, SkipCycle, Observe, EndCycle, Wake, Tick, TimePasses
    <3>2. cached' = cached \/ \E stale \in SUBSET Venue : Collect(stale)
      BY <2>8 DEF StartCycle, SkipCycle, Observe, EndCycle, Wake, Tick, TimePasses
    <3>3. CacheWhole'
      BY <3>2, CollectUnmixed DEF CacheWhole
    <3> QED BY <3>1, <3>3 DEF HalvesCurrent, StreamsWhole
  <2>9. CASE UNCHANGED vars
    BY <2>9 DEF vars, HalvesCurrent, StreamsWhole, CacheWhole
  <2> QED
    BY <2>1, <2>2, <2>3, <2>4, <2>5, <2>6, <2>7, <2>8, <2>9 DEF Next
<1>3. Unmixed => NeverMixed
  BY DEF Unmixed, StreamsWhole, CacheWhole, OneBook, NeverMixed, Servable
<1> QED BY <1>1, <1>2, <1>3, StreamTypeCorrect, PTL DEF Spec

-----------------------------------------------------------------------------
(* The newest book wins.                                                   *)

\* No local label is of the future: not a half's, not an ask's, not that of a
\* book the adapter numbered.
Clocked ==
  \A v \in Venue :
    /\ half[v].bid.at <= now /\ half[v].ask.at <= now
    /\ ask[v] <= now
    /\ kind[v] = "paired" => fabric[v].label <= now

\* A book that is ordered by its number is labelled by the local clock.
Labelled(v, book) ==
  /\ kind[v] = "paired" => book.label <= now
  /\ kind[v] = "paired" /\ book.version # None => book.label = now
  /\ kind[v] = "stamped" => book.version = None

\* Accepting such a book keeps the fabric at the newest it accepted.
LEMMA IngestNewest ==
  ASSUME TypeOK, NewestWins, Clocked, NEW v \in Venue, NEW book \in Books,
         Ingest(v, book), Labelled(v, book), kind' = kind, now' = now
  PROVE  NewestWins' /\ \A u \in Venue : kind[u] = "paired" => fabric'[u].label <= now
<1>1. CASE OutOfOrder(v, book)
  BY <1>1 DEF Ingest, NewestWins, Clocked
<1>2. CASE ~ OutOfOrder(v, book)
  <2>1. /\ book.version \in Version \cup {None} /\ book.label \in Time
        /\ newest[v].version \in Version \cup {None}
        /\ newest[v].label \in Time \cup {None}
        /\ fabric[v].version \in Version \cup {None}
        /\ fabric[v].label \in Time \cup {None}
        /\ now \in Time /\ kind[v] \in Kind
    BY DEF Books, TypeOK
  <2>2. /\ fabric'[v].version = IF book.version = None THEN fabric[v].version
                                ELSE book.version
        /\ fabric'[v].label = book.label
        /\ newest'[v].version = Larger(newest[v].version, book.version)
        /\ newest'[v].label = Larger(newest[v].label, book.label)
        /\ \A u \in Venue \ {v} : fabric'[u] = fabric[u] /\ newest'[u] = newest[u]
    BY <1>2 DEF Ingest, TypeOK
  <2>3. fabric[v].version = newest[v].version
    BY DEF NewestWins
  <2>4. fabric'[v].version = newest'[v].version
    <3>1. book.version # None /\ fabric[v].version # None
            => book.version > fabric[v].version
      BY <1>2, <2>1 DEF OutOfOrder, Version, None
    <3> QED BY <2>1, <2>2, <2>3, <3>1 DEF Larger, Version, None
  <2>5. kind[v] # "version" => fabric'[v].label = newest'[v].label
    <3>1. ASSUME kind[v] = "stamped" \/ (kind[v] = "paired" /\ book.version = None)
          PROVE  fabric'[v].label = newest'[v].label
      <4>1. fabric[v].label = newest[v].label
        BY <3>1 DEF NewestWins
      <4>2. fabric[v].label # None => book.label > fabric[v].label
        BY <1>2, <2>1, <3>1 DEF OutOfOrder, Time, None
      <4> QED BY <2>1, <2>2, <4>1, <4>2 DEF Larger, Time, None
    <3>2. ASSUME kind[v] = "paired", book.version # None
          PROVE  fabric'[v].label = newest'[v].label
      <4>1. fabric[v].label = newest[v].label
        BY <3>2 DEF NewestWins
      <4>2. fabric[v].label <= now /\ book.label = now
        BY <3>2 DEF Clocked, Labelled
      <4> QED BY <2>1, <2>2, <4>1, <4>2 DEF Larger, Time, None
    <3> QED BY <2>1, <3>1, <3>2 DEF Kind
  <2>6. kind[v] = "paired" => fabric'[v].label <= now
    BY <2>2 DEF Labelled
  <2> QED BY <2>2, <2>4, <2>5, <2>6 DEF NewestWins, Clocked
<1> QED BY <1>1, <1>2

\* One more half is labelled now, the other not later.
LEMMA ArrivedClocked ==
  ASSUME TypeOK, Clocked, NEW v \in Venue, NEW side \in {"bid", "ask"}
  PROVE  LET halves == Arrived(v, side) IN
           /\ halves.bid.at <= now /\ halves.ask.at <= now
           /\ Larger(halves.bid.at, halves.ask.at) = now
<1> DEFINE new == [at |-> now, session |-> session[v]]
<1>1. new.at = now
  OBVIOUS
<1>2. /\ half[v] \in [bid : Side, ask : Side]
      /\ half[v].bid.at \in Int /\ half[v].ask.at \in Int /\ now \in Int
  BY DEF TypeOK, Side, NoSide, None, Time
<1>3. half[v].bid.at <= now /\ half[v].ask.at <= now
  BY DEF Clocked
<1> HIDE DEF new
<1>4. CASE side = "bid"
  <2>1. Arrived(v, side).bid = new /\ Arrived(v, side).ask = half[v].ask
    BY <1>2, <1>4 DEF Arrived, new
  <2> QED BY <1>1, <1>2, <1>3, <2>1 DEF Larger
<1>5. CASE side = "ask"
  <2>1. Arrived(v, side).ask = new /\ Arrived(v, side).bid = half[v].bid
    BY <1>2, <1>5 DEF Arrived, new
  <2> QED BY <1>1, <1>2, <1>3, <2>1 DEF Larger
<1> QED BY <1>4, <1>5

\* NewestWins: after any reconnections, REST recoveries and late messages the
\* fabric orders the next book after the newest it ever accepted.
THEOREM NewestBookWins == Spec => []NewestWins
<1>1. Init => NewestWins /\ Clocked
  <2> SUFFICES ASSUME Init PROVE NewestWins /\ Clocked
    OBVIOUS
  <2>1. None <= 0
    BY DEF None
  <2> QED BY <2>1 DEF Init, NewestWins, Clocked, NoSide
<1>2. TypeOK /\ NewestWins /\ Clocked /\ [Next]_vars => NewestWins' /\ Clocked'
  <2> SUFFICES ASSUME TypeOK, NewestWins, Clocked, [Next]_vars
               PROVE  NewestWins' /\ Clocked'
    OBVIOUS
  <2>0. /\ fabric \in [Venue -> Fabric] /\ now \in Time
        /\ NoSide.at = None /\ None <= now
    BY DEF TypeOK, Fabric, NoSide, Time, None
  <2>1. ASSUME NEW v \in Venue, Lost(v), kind' = kind, now' = now
        PROVE  NewestWins' /\ \A u \in Venue : fabric'[u].label = fabric[u].label
    <3>1. \A u \in Venue : fabric'[u].label = fabric[u].label
                          /\ fabric'[u].version = fabric[u].version
      BY <2>0, <2>1, ClearedFabric DEF Lost
    <3> QED BY <2>1, <3>1 DEF Lost, NewestWins
  <2>2. ASSUME NEW v \in Venue, Close(v) PROVE NewestWins' /\ Clocked'
    <3>1. NewestWins' /\ \A u \in Venue : fabric'[u].label = fabric[u].label
      BY <2>1, <2>2 DEF Close
    <3> QED BY <2>0, <2>2, <3>1 DEF Close, Unpaired, Clocked, TypeOK
  <2>3. ASSUME NEW v \in Venue, SidesApart(v) PROVE NewestWins' /\ Clocked'
    <3>1. NewestWins' /\ \A u \in Venue : fabric'[u].label = fabric[u].label
      BY <2>1, <2>3 DEF SidesApart
    <3> QED BY <2>0, <2>3, <3>1 DEF SidesApart, Clocked, TypeOK
  <2>4. ASSUME NEW v \in Venue, Publication(v) PROVE NewestWins' /\ Clocked'
    <3>1. PICK label \in Time, version \in Version :
            IngestStreamed(v, Book(IF kind[v] = "version" THEN version ELSE None, label,
                                   {[at |-> now, session |-> session[v]]}))
      BY <2>4 DEF Publication
    <3> DEFINE book == Book(IF kind[v] = "version" THEN version ELSE None, label,
                            {[at |-> now, session |-> session[v]]})
    <3>2. book \in Books
      BY DEF Books, Book, TypeOK, Side
    <3>3. Labelled(v, book)
      BY <2>4 DEF Publication, Labelled, Book
    <3>4. Ingest(v, book)
      BY <3>1 DEF IngestStreamed
    <3> HIDE DEF book
    <3>5. NewestWins' /\ \A u \in Venue : kind[u] = "paired" => fabric'[u].label <= now
      BY <2>4, <3>2, <3>3, <3>4, IngestNewest DEF Publication
    <3> QED BY <2>4, <3>5 DEF Publication, Clocked
  <2>5. ASSUME NEW v \in Venue, SideWaits(v) PROVE NewestWins' /\ Clocked'
    <3>1. PICK side \in {"bid", "ask"} : half' = [half EXCEPT ![v] = Arrived(v, side)]
      BY <2>5 DEF SideWaits
    <3>2. Arrived(v, side).bid.at <= now /\ Arrived(v, side).ask.at <= now
      BY ArrivedClocked
    <3>3. \A u \in Venue : half'[u].bid.at <= now /\ half'[u].ask.at <= now
      BY <3>1, <3>2 DEF Clocked, TypeOK
    <3> QED BY <2>5, <3>3 DEF SideWaits, NewestWins, Clocked
  <2>6. ASSUME NEW v \in Venue, SidesPaired(v) PROVE NewestWins' /\ Clocked'
    <3>1. PICK side \in {"bid", "ask"} : Paired(v, side)
      BY <2>6 DEF SidesPaired, Paired
    <3> DEFINE bid == Arrived(v, side).bid
               offer == Arrived(v, side).ask
               book == Book(number[v] + 1, Larger(bid.at, offer.at), {bid, offer})
    <3>2. Arrived(v, side) \in [bid : Side, ask : Side]
      BY ArrivedType
    <3>3. IngestStreamed(v, book)
      BY <3>1 DEF Paired
    <3>4. Larger(bid.at, offer.at) = now
      BY ArrivedClocked
    <3>5. number[v] + 1 \in Version /\ kind[v] = "paired"
      BY <2>6, StreamBounds DEF SidesPaired, TypeOK, Version
    <3>6. book \in Books /\ Labelled(v, book)
      BY <2>0, <3>2, <3>4, <3>5 DEF Books, Book, Labelled, Time
    <3> HIDE DEF book
    <3>7. NewestWins' /\ \A u \in Venue : kind[u] = "paired" => fabric'[u].label <= now
      BY <2>6, <3>3, <3>6, IngestNewest DEF SidesPaired, IngestStreamed
    <3>8. \A u \in Venue : half'[u].bid.at <= now /\ half'[u].ask.at <= now
      BY <2>0, <2>6 DEF SidesPaired, Clocked, TypeOK
    <3> QED BY <2>6, <3>7, <3>8 DEF SidesPaired, Clocked
  <2>7. ASSUME NEW v \in Venue, RestBook(v) PROVE NewestWins' /\ Clocked'
    <3>1. PICK label \in RestLabels(v) : Ingest(v, Book(None, label, {}))
      BY <2>7 DEF RestBook
    <3>2. label \in Time /\ (kind[v] # "version" => label <= now)
      BY <2>7, <3>1 DEF RestBook, RestLabels, TypeOK, Clocked, Time
    <3> DEFINE book == Book(None, label, {})
    <3>3. book \in Books /\ Labelled(v, book)
      BY <3>2 DEF Books, Book, Labelled
    <3>4. Ingest(v, book)
      BY <3>1
    <3> HIDE DEF book
    <3>5. NewestWins' /\ \A u \in Venue : kind[u] = "paired" => fabric'[u].label <= now
      BY <2>7, <3>3, <3>4, IngestNewest DEF RestBook
    <3>6. \A u \in Venue : ask'[u] <= now
      BY <2>0, <2>7 DEF RestBook, Clocked, TypeOK
    <3> QED BY <2>7, <3>5, <3>6 DEF RestBook, Clocked
  <2>8. ASSUME NEW v \in Venue, Connect(v) \/ Open(v) \/ RestFails(v)
        PROVE  NewestWins' /\ Clocked'
    <3>1. /\ half' = half /\ kind' = kind /\ fabric' = fabric /\ newest' = newest
          /\ now' = now
      BY <2>8 DEF Connect, Open, RestFails
    <3>2. \A u \in Venue : ask'[u] <= now
      BY <2>0, <2>8 DEF Connect, Open, RestFails, Clocked, TypeOK
    <3> QED BY <3>1, <3>2 DEF NewestWins, Clocked
  <2>9. CASE StartCycle \/ SkipCycle \/ Observe \/ EndCycle \/ Wake \/ TimePasses
    <3>1. /\ half' = half /\ kind' = kind /\ fabric' = fabric /\ newest' = newest
          /\ now' = now
      BY <2>9 DEF StartCycle, SkipCycle, Observe, EndCycle, Wake, TimePasses
    <3>2. ask' = ask \/ \E stale \in SUBSET Venue : Collect(stale)
      BY <2>9 DEF StartCycle, SkipCycle, Observe, EndCycle, Wake, TimePasses
    <3>3. ASSUME NEW stale \in SUBSET Venue, Collect(stale)
          PROVE  \A u \in Venue : ask'[u] <= now
      BY <2>0, <3>3 DEF Collect, Time
    <3>4. \A u \in Venue : ask'[u] <= now
      BY <3>2, <3>3 DEF Clocked
    <3> QED BY <3>1, <3>4 DEF NewestWins, Clocked
  <2>10. CASE Tick
    <3>1. \A u \in Venue : /\ half[u].bid.at \in Int /\ half[u].ask.at \in Int
                          /\ ask[u] \in Int /\ fabric[u].label \in Int
      BY DEF TypeOK, Side, NoSide, None, Time
    <3> QED BY <2>0, <2>10, <3>1 DEF Tick, NewestWins, Clocked, Time
  <2>11. CASE UNCHANGED vars
    BY <2>11 DEF vars, NewestWins, Clocked
  <2> QED
    BY <2>2, <2>3, <2>4, <2>5, <2>6, <2>7, <2>8, <2>9, <2>10, <2>11 DEF Next
<1> QED BY <1>1, <1>2, StreamTypeCorrect, PTL DEF Spec
=============================================================================
