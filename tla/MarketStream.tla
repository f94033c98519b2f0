----------------------------- MODULE MarketStream -----------------------------
(***************************************************************************)
(* The public order-book streams of a collector process: the socket driver *)
(* (publicWsDriver), the Wallex assembler that pairs bid and ask messages, *)
(* the event fabric that decides which book is current, the REST asks of a *)
(* collection (runOne), and the loop of the runner that starts a cycle     *)
(* when the poll interval ends, a stream moves or a stream is lost.        *)
(* Everything runs on one event loop; an action is one callback.           *)
(*                                                                         *)
(* A venue's `kind` is its sequence policy: "version" (Nobitex: each book  *)
(* has an offset), "stamped" (Tabdeal: only an event time) or "paired"     *)
(* (Wallex: the sides come apart and the adapter numbers the pairs).  The  *)
(* exchange is external: it sends any offset and any event time of its own *)
(* clock, late, twice or out of order.                                     *)
(*                                                                         *)
(* Abstractions.  `now` is the local clock in ticks.  A book is the label  *)
(* the fabric orders it by; prices are left out.  A poll interval and the  *)
(* least time between event decisions end by an action of their own.  The  *)
(* age beyond which a synchronized book is asked for anyway is a choice.   *)
(* Malformed messages (dropped by the parsers), telemetry, DELTA events    *)
(* and STRICT_INCREMENT (no adapter uses either) are left out.             *)
(***************************************************************************)
EXTENDS Integers

CONSTANTS
  Venue,       \* the WS_FIRST venues
  PairSkew,    \* maxPairSkewMs, in ticks
  MaxTime,     \* bound on the local clock, and on event times
  MaxVersion,  \* bound on offsets and on the adapter's numbers
  MaxCloses    \* bound on socket sessions that end, per venue

ASSUME StreamBounds ==
  PairSkew \in Nat /\ MaxTime \in Nat /\ MaxVersion \in Nat /\ MaxCloses \in Nat

None == -1
Kind == {"version", "stamped", "paired"}
Time == 0 .. MaxTime
Version == 0 .. MaxVersion
Session == 0 .. MaxCloses
NoSide == [at |-> None, session |-> None]
Side == {NoSide} \cup [at : Time, session : Session]

VARIABLES
  kind,     \* the sequence policy of each venue
  now,
  link,     \* "waiting" for the reconnect timer, "connecting" or "up"
  session,  \* how many socket sessions of the venue have ended
  half,     \* the assembler's unpaired bid and ask
  number,   \* the assembler's version counter
  fabric,   \* the fabric's state of each venue
  ask,      \* when the REST ask in flight began, None without one
  loop,     \* the runner's loop
  cached,   \* the sides of the book in lastRegularSnapshot, none of a REST book
  newest,   \* the newest version and label ever accepted
  owed      \* "owed" an ask since it was lost, "dropped" by a refused cycle

vars == <<kind, now, link, session, half, number, fabric, ask, loop, cached,
          newest, owed>>

\* A book on offer: `version` is None over REST, `sides` are the messages a
\* WebSocket book was made of.
Book(version, label, sides) == [version |-> version, label |-> label, sides |-> sides]

Init ==
  /\ kind \in [Venue -> Kind]
  /\ now = 0
  /\ link = [v \in Venue |-> "connecting"]
  /\ session = [v \in Venue |-> 0]
  /\ half = [v \in Venue |-> [bid |-> NoSide, ask |-> NoSide]]
  /\ number = [v \in Venue |-> 0]
  /\ fabric = [v \in Venue |-> [sync |-> FALSE, version |-> None, label |-> None, sides |-> {}]]
  /\ ask = [v \in Venue |-> None]
  /\ loop = [phase |-> "top", driven |-> "regular", booted |-> FALSE, event |-> FALSE,
             recovery |-> FALSE, due |-> FALSE, spaced |-> TRUE, timer |-> "regular"]
  /\ cached = [v \in Venue |-> {}]
  /\ newest = [v \in Venue |-> [version |-> None, label |-> None]]
  /\ owed = [v \in Venue |-> "no"]

-----------------------------------------------------------------------------
(* The runner's two subscriptions.                                         *)

Woken(l) == [l EXCEPT !.phase = IF @ = "asleep" THEN "top" ELSE @]

\* A stream produced a book: wake unless an event was decided just now.
OnDecision(l) ==
  IF ~ l.booted THEN l
  ELSE IF l.spaced THEN Woken([l EXCEPT !.event = TRUE])
  ELSE [l EXCEPT !.event = TRUE]

\* A stream was lost.
OnRecovery(l) == IF l.booted THEN Woken([l EXCEPT !.recovery = TRUE]) ELSE l

-----------------------------------------------------------------------------
(* The fabric.                                                             *)

Larger(a, b) == IF a < b THEN b ELSE a

\* out_of_order: not after the version watermark, or, where no version
\* orders the book, not after the last event time.
OutOfOrder(v, book) ==
  \/ /\ fabric[v].version # None /\ book.version # None
     /\ book.version <= fabric[v].version
  \/ /\ kind[v] = "stamped" \/ book.version = None
     /\ fabric[v].label # None
     /\ book.label <= fabric[v].label

\* ingest: a refused book leaves the fabric as it is; a book without a
\* version keeps the watermark.
Ingest(v, book) ==
  IF OutOfOrder(v, book) THEN UNCHANGED <<fabric, newest, owed>>
  ELSE
    /\ fabric' = [fabric EXCEPT ![v] =
         [sync |-> TRUE, label |-> book.label, sides |-> book.sides,
          version |-> IF book.version = None THEN @.version ELSE book.version]]
    /\ newest' = [newest EXCEPT ![v] =
         [version |-> Larger(@.version, book.version), label |-> Larger(@.label, book.label)]]
    /\ owed' = [owed EXCEPT ![v] = "no"]

\* A WebSocket book; an accepted one is announced.
IngestStreamed(v, book) ==
  /\ Ingest(v, book)
  /\ loop' = IF OutOfOrder(v, book) THEN loop ELSE OnDecision(loop)

\* Mutation: the boundary also forgets the version watermark.
ClearedAll(v) ==
  fabric' = [fabric EXCEPT ![v] = [sync |-> FALSE, version |-> None,
                                   label |-> @.label, sides |-> {}]]

\* onReconnect, requestResync: the book goes, the watermarks stay.
Cleared(v) ==
  fabric' = [fabric EXCEPT ![v] = [sync |-> FALSE, version |-> @.version,
                                   label |-> @.label, sides |-> {}]]

\* The venue awaits a snapshot and, once the loop has been through a cycle, is
\* to be asked for one over REST.
Lost(v) ==
  /\ Cleared(v)
  /\ loop' = OnRecovery(loop)
  /\ owed' = [owed EXCEPT ![v] = IF loop.booted THEN "owed" ELSE "no"]
  /\ UNCHANGED newest

-----------------------------------------------------------------------------
(* The sockets.                                                            *)

\* The reconnect timer fires.
Connect(v) ==
  /\ link[v] = "waiting"
  /\ link' = [link EXCEPT ![v] = "connecting"]
  /\ UNCHANGED <<kind, now, session, half, number, fabric, ask, loop,
                 cached, newest, owed>>

Open(v) ==
  /\ link[v] = "connecting"
  /\ link' = [link EXCEPT ![v] = "up"]
  /\ UNCHANGED <<kind, now, session, half, number, fabric, ask, loop,
                 cached, newest, owed>>

\* Mutation: a new session keeps the half of a pair the old one left.
HalvesKept(v) == half' = half

Unpaired(v) == half' = [half EXCEPT ![v] = [bid |-> NoSide, ask |-> NoSide]]

\* The socket closes, or an attempt to connect fails: markPublicStreamReconnect.
Close(v) ==
  /\ link[v] \in {"connecting", "up"}
  /\ session[v] < MaxCloses
  /\ link' = [link EXCEPT ![v] = "waiting"]
  /\ session' = [session EXCEPT ![v] = @ + 1]
  /\ Unpaired(v)
  /\ Lost(v)
  /\ UNCHANGED <<kind, now, number, ask, cached>>

\* A full book from Nobitex or Tabdeal.
Publication(v) ==
  /\ link[v] = "up"
  /\ kind[v] # "paired"
  /\ \E label \in Time, version \in Version :
       IngestStreamed(v, Book(IF kind[v] = "version" THEN version ELSE None, label,
                              {[at |-> now, session |-> session[v]]}))
  /\ UNCHANGED <<kind, now, link, session, half, number, ask, cached>>

\* Mutation: the pairing window is not looked at.
PairedAnyhow(s, t) == TRUE

InWindow(s, t) == s.at - t.at <= PairSkew /\ t.at - s.at <= PairSkew

\* One side from Wallex; `halves` is what the assembler then holds.
Arrived(v, side) == [half[v] EXCEPT ![side] = [at |-> now, session |-> session[v]]]

SideWaits(v) ==
  /\ link[v] = "up" /\ kind[v] = "paired"
  /\ \E side \in {"bid", "ask"} :
       LET halves == Arrived(v, side) IN
         /\ NoSide \in {halves.bid, halves.ask}
         /\ half' = [half EXCEPT ![v] = halves]
  /\ UNCHANGED <<kind, now, link, session, number, fabric, ask, loop, cached,
                 newest, owed>>

\* Too far apart: neither half is kept and a REST book is asked for.
SidesApart(v) ==
  /\ link[v] = "up" /\ kind[v] = "paired"
  /\ \E side \in {"bid", "ask"} :
       LET halves == Arrived(v, side) IN
         /\ NoSide \notin {halves.bid, halves.ask}
         /\ ~ InWindow(halves.bid, halves.ask)
  /\ half' = [half EXCEPT ![v] = [bid |-> NoSide, ask |-> NoSide]]
  /\ Lost(v)
  /\ UNCHANGED <<kind, now, link, session, number, ask, cached>>

\* A pair gets the next number and the later receipt as its label.
SidesPaired(v) ==
  /\ link[v] = "up" /\ kind[v] = "paired"
  /\ number[v] < MaxVersion
  /\ number' = [number EXCEPT ![v] = @ + 1]
  /\ half' = [half EXCEPT ![v] = [bid |-> NoSide, ask |-> NoSide]]
  /\ \E side \in {"bid", "ask"} :
       LET halves == Arrived(v, side) IN
         /\ NoSide \notin {halves.bid, halves.ask}
         /\ InWindow(halves.bid, halves.ask)
         /\ IngestStreamed(v, Book(number[v] + 1, Larger(halves.bid.at, halves.ask.at),
                                   {halves.bid, halves.ask}))
  /\ UNCHANGED <<kind, now, link, session, ask, cached>>

-----------------------------------------------------------------------------
(* The loop and its collections.                                           *)

Driven(l) ==
  IF ~ l.booted \/ l.due THEN "regular"
  ELSE IF l.recovery THEN "recovery"
  ELSE IF l.event /\ l.spaced THEN "event"
  ELSE "regular"

\* The flags are cleared before the cycle runs.
Begun(l) ==
  [l EXCEPT !.phase = "collect", !.driven = Driven(l),
            !.recovery = @ /\ Driven(l) # "recovery",
            !.event = @ /\ Driven(l) # "event",
            !.spaced = @ /\ Driven(l) # "event"]

\* What the loop sleeps for.
Timer(l) == IF l.recovery THEN "recovery" ELSE IF l.event THEN "event" ELSE "regular"

\* Mutation: the recovery flag is cleared once more when the cycle has ended.
RestedCleared(l) ==
  [l EXCEPT !.phase = "asleep", !.booted = @ \/ l.driven # "event",
            !.due = @ /\ l.driven = "event", !.recovery = FALSE,
            !.timer = Timer([l EXCEPT !.recovery = FALSE])]

\* Every cycle but an event-driven one restarts the poll interval.
Rested(l) ==
  LET polled == l.driven # "event" IN
    [l EXCEPT !.phase = "asleep", !.booted = @ \/ polled, !.due = @ /\ ~ polled,
              !.timer = Timer(l)]

\* collectAllShadowSources, but event-driven: every venue without a usable
\* stream is asked over REST.  The others' books are cached as they are; no
\* event-driven cycle looks into the cache before the collection is over.
Collect(stale) ==
  LET asked == {v \in Venue : ~ fabric[v].sync} \cup stale IN
    /\ ask' = [v \in Venue |-> IF v \in asked THEN now ELSE None]
    /\ cached' = [v \in Venue |-> IF v \in asked THEN cached[v] ELSE fabric[v].sides]
    /\ owed' = [v \in Venue |-> IF v \in asked THEN "no" ELSE owed[v]]

\* A cycle begins; an event-driven one asks nobody.
StartCycle ==
  /\ loop.phase = "top"
  /\ loop' = Begun(loop)
  /\ \/ loop'.driven # "event" /\ \E stale \in SUBSET Venue : Collect(stale)
     \/ loop'.driven = "event" /\ UNCHANGED <<ask, cached, owed>>
  /\ UNCHANGED <<kind, now, link, session, half, number, fabric, newest>>

\* What an event-driven cycle may take for the venue's book: the streamed one,
\* or, without one or when it is too old, the one collected last.
Servable(v) == (IF fabric[v].sync THEN {fabric[v].sides} ELSE {}) \cup {cached[v]}

\* The cycle is refused (paused, locked elsewhere, rate limited, a duplicate)
\* or throws before it collects.  The flag it was begun for stays cleared, so
\* a recovery cycle drops what it should have asked for.
SkipCycle ==
  /\ loop.phase = "top"
  /\ loop' = Rested(Begun(loop))
  /\ owed' = [v \in Venue |-> IF owed[v] = "owed" /\ loop'.driven = "recovery"
                             THEN "dropped" ELSE owed[v]]
  /\ UNCHANGED <<kind, now, link, session, half, number, fabric, ask, cached, newest>>

\* The paper cycle observes the books again on arrival (freshAfterMs).
Observe ==
  /\ loop.phase = "collect" /\ \A v \in Venue : ask[v] = None
  /\ loop' = [loop EXCEPT !.phase = "arrive"]
  /\ \E old \in SUBSET Venue : Collect(old)
  /\ UNCHANGED <<kind, now, link, session, half, number, fabric, newest>>

\* Mutation: a book without an event time is labelled with its deadline.
LabelledLate(v) == IF kind[v] = "version" THEN Time ELSE {ask[v] + 1}

\* registerRestStreamRecovery: Nobitex states the book's event time; the
\* others are labelled with the local time the ask began, or, on arrival,
\* ended.
RestLabels(v) ==
  IF kind[v] = "version" THEN Time
  ELSE IF loop.phase = "arrive" THEN {now} ELSE {ask[v]}

\* The answer is cached whether or not the fabric takes it.
RestBook(v) ==
  /\ ask[v] # None
  /\ ask' = [ask EXCEPT ![v] = None]
  /\ \E label \in RestLabels(v) : Ingest(v, Book(None, label, {}))
  /\ cached' = [cached EXCEPT ![v] = {}]
  /\ UNCHANGED <<kind, now, link, session, half, number, loop>>

\* The ask fails or passes its deadline.
RestFails(v) ==
  /\ ask[v] # None
  /\ ask' = [ask EXCEPT ![v] = None]
  /\ UNCHANGED <<kind, now, link, session, half, number, fabric, loop, cached,
                 newest, owed>>

EndCycle ==
  /\ loop.phase \in {"collect", "arrive"} /\ \A v \in Venue : ask[v] = None
  /\ loop' = Rested(loop)
  /\ UNCHANGED <<kind, now, link, session, half, number, fabric, ask, cached,
                 newest, owed>>

\* The sleep runs out.
Wake ==
  /\ loop.phase = "asleep"
  /\ \/ loop.due
     \/ loop.timer = "event" /\ loop.spaced
     \/ loop.timer = "recovery"
  /\ loop' = Woken(loop)
  /\ UNCHANGED <<kind, now, link, session, half, number, fabric, ask, cached,
                 newest, owed>>

-----------------------------------------------------------------------------
(* Time.                                                                   *)

Tick ==
  /\ now < MaxTime
  /\ now' = now + 1
  /\ UNCHANGED <<kind, link, session, half, number, fabric, ask, loop,
                 cached, newest, owed>>

\* The poll interval ends, or the least time between event decisions.
TimePasses ==
  /\ loop.booted
  /\ \/ ~ loop.due /\ loop' = [loop EXCEPT !.due = TRUE]
     \/ ~ loop.spaced /\ loop' = [loop EXCEPT !.spaced = TRUE]
  /\ UNCHANGED <<kind, now, link, session, half, number, fabric, ask, cached,
                 newest, owed>>

Next ==
  \/ \E v \in Venue :
       \/ Connect(v) \/ Open(v) \/ Close(v) \/ Publication(v)
       \/ SideWaits(v) \/ SidesApart(v) \/ SidesPaired(v)
       \/ RestBook(v) \/ RestFails(v)
  \/ StartCycle \/ SkipCycle \/ Observe \/ EndCycle \/ Wake
  \/ Tick \/ TimePasses

Spec == Init /\ [][Next]_vars

-----------------------------------------------------------------------------
(* Properties.                                                             *)

\* Types of the driver's, the assembler's, the fabric's and the loop's state.
TypeOK ==
  /\ kind \in [Venue -> Kind]
  /\ now \in Time
  /\ link \in [Venue -> {"waiting", "connecting", "up"}]
  /\ session \in [Venue -> Session]
  /\ half \in [Venue -> [bid : Side, ask : Side]]
  /\ number \in [Venue -> Version]
  /\ fabric \in [Venue -> [sync : BOOLEAN, version : Version \cup {None},
                           label : Time \cup {None}, sides : SUBSET Side]]
  /\ ask \in [Venue -> Time \cup {None}]
  /\ loop \in [phase : {"top", "collect", "arrive", "asleep"},
               driven : {"regular", "recovery", "event"},
               booted : BOOLEAN, event : BOOLEAN, recovery : BOOLEAN,
               due : BOOLEAN, spaced : BOOLEAN, timer : {"regular", "recovery", "event"}]
  /\ cached \in [Venue -> SUBSET Side]
  /\ newest \in [Venue -> [version : Version \cup {None}, label : Time \cup {None}]]
  /\ owed \in [Venue -> {"no", "owed", "dropped"}]

\* Whatever reconnections, REST recoveries and late messages come between,
\* the fabric orders the next book after the newest it ever accepted: by
\* version where books have one, by label where local or event time orders
\* them.  (A Nobitex REST book may be followed by a newer offset with an
\* earlier event time, so labels alone do not order that venue.)
NewestWins ==
  \A v \in Venue :
    /\ fabric[v].version = newest[v].version
    /\ kind[v] # "version" => fabric[v].label = newest[v].label

\* "Never emit a mixed book": the fabric offers a streamed book only during
\* the socket session its messages came in.  An event-driven cycle may still
\* be served the book cached before that session ended, but no book it is
\* served, cached or streamed, has sides of two socket sessions or of two
\* pairing windows.
NeverMixed ==
  \A v \in Venue :
    /\ fabric[v].sync => \A s \in fabric[v].sides : s.session = session[v]
    /\ \A book \in Servable(v) : \A s, t \in book :
         s.session = t.session /\ s.at - t.at <= PairSkew

\* A lost stream is not forgotten between the cycles: the loop never sleeps
\* until the next regular cycle while a venue lost since the bootstrap has
\* neither been asked for over REST nor had its recovery cycle refused, not
\* even when it was lost during a cycle.  (The venue of a refused recovery
\* cycle does wait for the next regular cycle.)
NothingForgotten ==
  loop.phase = "asleep" /\ loop.timer = "regular" => \A v \in Venue : owed[v] # "owed"
=============================================================================
