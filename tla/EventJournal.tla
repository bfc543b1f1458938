---------------------------- MODULE EventJournal ----------------------------
(***************************************************************************)
(* The control plane's event journal and the streams that deliver it:      *)
(* internal/controlplane/journal.go (append, retention, actor-scoped       *)
(* replay, live subscriptions, acknowledgements), browser_transport.go     *)
(* (one stream per connected client; local_transport.go has the same loop  *)
(* over a Unix socket) and ui/shared/src (the client that folds what it    *)
(* receives and reconnects from its cursor).                               *)
(*                                                                         *)
(* An event is about an item, an approval request that is opened and later *)
(* closed; the sequence number of an event is its index in log.  The       *)
(* database row of an item changes first and its event is appended later,  *)
(* by whichever goroutine changed it, so events wait in owed meanwhile.    *)
(***************************************************************************)
EXTENDS Naturals, Sequences, FiniteSets

CONSTANTS
  Clients,    \* connected operator interfaces
  Items,      \* approval requests
  Actors,
  Actor,      \* the actor each client has authenticated as
  Retention,  \* JournalConfig.Retention
  Buffer,     \* JournalConfig.SubscriberBuffer
  PageLimit,  \* replayLimit: the events of one replay page
  MaxEvents,  \* bound on the events of a behaviour
  MaxBreaks   \* bound on lost connections and daemon restarts

ASSUME JournalConfig ==
  /\ Actor \in [Clients -> Actors]
  /\ {Retention, Buffer, PageLimit} \subseteq Nat \ {0}
  /\ {MaxEvents, MaxBreaks} \subseteq Nat

VARIABLES
  log,       \* every event appended so far, trimmed ones included
  owner,     \* the actor each item is opened for
  row,       \* the durable state of each item
  owed,      \* events whose database change is done and whose append is not
  conn,      \* where each client's stream is
  head,      \* the journal head captured when the client subscribed
  replay,    \* the last replay page of the stream
  feed,      \* the subscription's channel: sequence numbers not yet taken
  feedOpen,  \* the subscriber is registered in journal.subscribers
  sending,   \* the event taken from the channel and not yet written
  ceiling,   \* maximumSent: the highest sequence the client may acknowledge
  wire,      \* frames written and not yet received
  acks,      \* acknowledgements sent and not yet read
  cursor,    \* the client's last_sequence
  view,      \* the client's pending_approvals
  received,  \* history: the events the client has been handed
  skipped,   \* history: the client's events passed over under a gap marker
  acked,     \* controlplane_acknowledgements
  breaks

journalVars == <<log, owner, row, owed>>
streamVars == <<conn, head, replay, feed, feedOpen, sending, ceiling>>
linkVars == <<wire, acks>>
clientVars == <<cursor, view, received, skipped>>
vars == <<journalVars, streamVars, linkVars, clientVars, acked, breaks>>

Kinds == {"opened", "closed"}
Event == [item : Items, kind : Kinds]
NoReplay == [gap |-> FALSE, latest |-> 0, events |-> <<>>]

OwnEvent(c, s) == owner[log[s].item] = Actor[c]
OwnEvents(c, after, through) == {s \in after + 1 .. through : OwnEvent(c, s)}
PendingItems(c) == {i \in Items : owner[i] = Actor[c] /\ row[i] = "open"}

Init ==
  /\ log = <<>>
  /\ owner \in [Items -> Actors]
  /\ row = [i \in Items |-> "absent"]
  /\ owed = {}
  /\ conn = [c \in Clients |-> "down"]
  /\ head = [c \in Clients |-> 0]
  /\ replay = [c \in Clients |-> NoReplay]
  /\ feed = [c \in Clients |-> <<>>]
  /\ feedOpen = [c \in Clients |-> FALSE]
  /\ sending = [c \in Clients |-> {}]
  /\ ceiling = [c \in Clients |-> 0]
  /\ wire = [c \in Clients |-> <<>>]
  /\ acks = [c \in Clients |-> <<>>]
  /\ cursor = [c \in Clients |-> 0]
  /\ view = [c \in Clients |-> {}]
  /\ received = [c \in Clients |-> <<>>]
  /\ skipped = [c \in Clients |-> {}]
  /\ acked = [c \in Clients |-> 0]
  /\ breaks = 0

-----------------------------------------------------------------------------
(* The journal. *)

(* boundsLocked after trimLocked: the sequence of the oldest retained row,   *)
(* 0 while there is none.                                                    *)
Earliest ==
  IF Len(log) = 0 THEN 0
  ELSE IF Len(log) <= Retention THEN 1 ELSE Len(log) - Retention + 1

(* LIMIT, applied to the rows in sequence order.                             *)
FirstPage(rows) == IF Len(rows) > PageLimit THEN SubSeq(rows, 1, PageLimit) ELSE rows

(* A page that is not the last one ends at its last event.                  *)
PageOf(rows, through) ==
  [gap |-> FALSE,
   latest |-> IF Len(rows) > PageLimit THEN rows[PageLimit] ELSE through,
   events |-> FirstPage(rows)]
(* The actor's rows between two sequence numbers, in order.                 *)
Ascending(rows) == \A m, n \in 1..Len(rows) : m < n => rows[m] < rows[n]
RowsOf(c, after, through) ==
  LET own == OwnEvents(c, after, through) IN
  CHOOSE rows \in [1..Cardinality(own) -> own] : Ascending(rows)
GapAt(through) == [gap |-> TRUE, latest |-> through, events |-> <<>>]

(* Replays that take a full page for the last one, or report a gap one event *)
(* too early.                                                                *)
ShortReplay(c, after, through) ==
  IF Earliest > 0 /\ after + 1 < Earliest THEN GapAt(through)
  ELSE [PageOf(RowsOf(c, after, through), through) EXCEPT !.latest = through]
EagerGapReplay(c, after, through) ==
  IF Earliest > 0 /\ after < Earliest THEN GapAt(through)
  ELSE PageOf(RowsOf(c, after, through), through)

(* replayThroughLocked: one actor-scoped page after a cursor, up to a head   *)
(* captured earlier.  A cursor older than what is retained yields no events  *)
(* and a gap; a page that is not the last one ends at its last event.        *)
ReplayThrough(c, after, through) ==
  IF Earliest > 0 /\ after + 1 < Earliest THEN GapAt(through)
  ELSE PageOf(RowsOf(c, after, through), through)

(* A handler changes an item's row; its event is emitted afterwards.         *)
ChangeRow(i, from, to, kind) ==
  /\ row[i] = from
  /\ Len(log) + Cardinality(owed) < MaxEvents
  /\ row' = [row EXCEPT ![i] = to]
  /\ owed' = owed \union {[item |-> i, kind |-> kind]}
  /\ UNCHANGED <<log, owner, streamVars, linkVars, clientVars, acked, breaks>>

Open(i) == ChangeRow(i, "absent", "open", "opened")
Close(i) == ChangeRow(i, "open", "closed", "closed")

(* publishLocked: a subscriber whose channel is full is closed and dropped.  *)
Listening(c, e) == feedOpen[c] /\ Actor[c] = owner[e.item]
Full(c) == Len(feed[c]) = Buffer

Publish(e) ==
  /\ feed' = [c \in Clients |->
       IF Listening(c, e) /\ ~Full(c) THEN Append(feed[c], Len(log) + 1) ELSE feed[c]]
  /\ feedOpen' = [c \in Clients |-> feedOpen[c] /\ ~(Listening(c, e) /\ Full(c))]

(* Append: insert, trim and commit, then publish, all under journal.mu.      *)
Emit(e) ==
  /\ e \in owed
  /\ owed' = owed \ {e}
  /\ log' = Append(log, e)
  /\ Publish(e)
  /\ UNCHANGED <<owner, row, conn, head, replay, sending, ceiling, linkVars, clientVars,
                 acked, breaks>>

-----------------------------------------------------------------------------
(* One client's stream. *)

(* serveEvents: SubscribeActor captures the replay and registers the channel *)
(* in one critical section.                                                  *)
Subscribe(c) ==
  /\ conn[c] = "down"
  /\ cursor[c] <= Len(log)
  /\ conn' = [conn EXCEPT ![c] = "recover"]
  /\ head' = [head EXCEPT ![c] = Len(log)]
  /\ replay' = [replay EXCEPT ![c] = ReplayThrough(c, cursor[c], Len(log))]
  /\ feed' = [feed EXCEPT ![c] = <<>>]
  /\ feedOpen' = [feedOpen EXCEPT ![c] = TRUE]
  /\ UNCHANGED <<journalVars, sending, ceiling, linkVars, clientVars, acked, breaks>>

(* stream leaves its catch-up loop, and readAcknowledgements starts, when    *)
(* the page it has written ends at the captured head.                        *)
AfterPage(c, page) == IF page.latest < head[c] THEN "pages" ELSE "live"

(* Recover reads the snapshot after the subscription exists; the first frame *)
(* carries it together with the captured replay.                             *)
SendRecovery(c) ==
  /\ conn[c] = "recover"
  /\ conn' = [conn EXCEPT ![c] = AfterPage(c, replay[c])]
  /\ ceiling' = [ceiling EXCEPT ![c] = replay[c].latest]
  /\ wire' = [wire EXCEPT ![c] =
       Append(@, [replay |-> replay[c], snapshot |-> {PendingItems(c)}])]
  /\ UNCHANGED <<journalVars, head, replay, feed, feedOpen, sending, acks, clientVars,
                 acked, breaks>>

(* stream returns: the subscription is closed and its locals are gone; what  *)
(* was written still reaches the client.                                     *)
Return(c) ==
  /\ conn' = [conn EXCEPT ![c] = "closing"]
  /\ head' = [head EXCEPT ![c] = 0]
  /\ replay' = [replay EXCEPT ![c] = NoReplay]
  /\ feed' = [feed EXCEPT ![c] = <<>>]
  /\ feedOpen' = [feedOpen EXCEPT ![c] = FALSE]
  /\ sending' = [sending EXCEPT ![c] = {}]
  /\ ceiling' = [ceiling EXCEPT ![c] = 0]

(* The catch-up loop of stream: a page that retention has overtaken, or one  *)
(* that makes no progress, ends the stream with an error frame.              *)
SendPage(c) ==
  LET page == ReplayThrough(c, replay[c].latest, head[c]) IN
  /\ conn[c] = "pages"
  /\ IF page.gap \/ page.latest <= replay[c].latest
     THEN Return(c) /\ UNCHANGED wire
     ELSE /\ conn' = [conn EXCEPT ![c] = AfterPage(c, page)]
          /\ replay' = [replay EXCEPT ![c] = page]
          /\ ceiling' = [ceiling EXCEPT ![c] = page.latest]
          /\ wire' = [wire EXCEPT ![c] = Append(@, [replay |-> page, snapshot |-> {}])]
          /\ UNCHANGED <<head, feed, feedOpen, sending>>
  /\ UNCHANGED <<journalVars, acks, clientVars, acked, breaks>>

(* maximumSent.Store precedes the write of the event it belongs to.          *)
RaisedCeiling(c, s) == s

TakeEvent(c) ==
  /\ conn[c] = "live"
  /\ sending[c] = {}
  /\ feed[c] /= <<>>
  /\ sending' = [sending EXCEPT ![c] = {Head(feed[c])}]
  /\ feed' = [feed EXCEPT ![c] = Tail(@)]
  /\ ceiling' = [ceiling EXCEPT ![c] = RaisedCeiling(c, Head(feed[c]))]
  /\ UNCHANGED <<journalVars, conn, head, replay, feedOpen, linkVars, clientVars,
                 acked, breaks>>

EventFrame(s) ==
  [replay |-> [gap |-> FALSE, latest |-> s, events |-> <<s>>], snapshot |-> {}]

WriteEvent(c) ==
  /\ conn[c] = "live"
  /\ \E s \in sending[c] : wire' = [wire EXCEPT ![c] = Append(@, EventFrame(s))]
  /\ sending' = [sending EXCEPT ![c] = {}]
  /\ UNCHANGED <<journalVars, conn, head, replay, feed, feedOpen, ceiling, acks,
                 clientVars, acked, breaks>>

(* A live loop that does not notice that its channel was closed.             *)
IgnoredClose(c) == FALSE /\ UNCHANGED vars
(* A dropped subscriber's channel is drained, then the stream returns.       *)
FeedClosed(c) ==
  /\ conn[c] = "live"
  /\ sending[c] = {} /\ feed[c] = <<>> /\ ~feedOpen[c]
  /\ Return(c)
  /\ UNCHANGED <<journalVars, linkVars, clientVars, acked, breaks>>

(* readAcknowledgements: a sequence above the ceiling ends the stream;       *)
(* Journal.Acknowledge keeps the highest sequence.                           *)
Acknowledged(c, s) == IF s > acked[c] THEN s ELSE acked[c]

ReadAck(c) ==
  LET s == Head(acks[c]) IN
  /\ conn[c] = "live"
  /\ acks[c] /= <<>>
  /\ acks' = [acks EXCEPT ![c] = Tail(@)]
  /\ IF s > ceiling[c] \/ s > Len(log)
     THEN Return(c) /\ UNCHANGED acked
     ELSE /\ acked' = [acked EXCEPT ![c] = Acknowledged(c, s)]
          /\ UNCHANGED streamVars
  /\ UNCHANGED <<journalVars, wire, clientVars, breaks>>

-----------------------------------------------------------------------------
(* The client. *)

(* applyEvent ignores what it has already processed; the last event about an *)
(* item decides whether it is pending.                                       *)
About(events, i, after) == {k \in 1..Len(events) : events[k] > after /\ log[events[k]].item = i}
FoldEvents(pending, events, after) ==
  {i \in Items :
     IF About(events, i, after) = {} THEN i \in pending
     ELSE \E k \in About(events, i, after) :
            /\ \A j \in About(events, i, after) : j <= k
            /\ log[events[k]].kind = "opened"}

(* A client that keeps its old state when a snapshot arrives.                *)
MergedView(c, f) == FoldEvents(view[c], f.replay.events, cursor[c])
(* applyRecovery: a snapshot replaces the state and decides the pending      *)
(* approvals; a frame without one is folded into the state.                  *)
AppliedView(c, f) ==
  IF f.snapshot /= {} THEN CHOOSE v \in f.snapshot : TRUE
  ELSE FoldEvents(view[c], f.replay.events, cursor[c])

NewCursor(c, f) ==
  IF f.replay.latest > cursor[c] \/ f.snapshot /= {} THEN f.replay.latest ELSE cursor[c]

(* The message listener of connect: apply the frame, then acknowledge it.    *)
Receive(c) ==
  LET f == Head(wire[c]) IN
  /\ wire[c] /= <<>>
  /\ wire' = [wire EXCEPT ![c] = Tail(@)]
  /\ view' = [view EXCEPT ![c] = AppliedView(c, f)]
  /\ cursor' = [cursor EXCEPT ![c] = NewCursor(c, f)]
  /\ received' = [received EXCEPT ![c] = @ \o f.replay.events]
  /\ skipped' = [skipped EXCEPT ![c] =
       IF f.replay.gap THEN @ \union OwnEvents(c, cursor[c], f.replay.latest) ELSE @]
  /\ acks' = [acks EXCEPT ![c] = Append(@, f.replay.latest)]
  /\ UNCHANGED <<journalVars, streamVars, acked, breaks>>

(* The client reads to the end of a stream the server has closed.            *)
Closed(c) ==
  /\ conn[c] = "closing"
  /\ wire[c] = <<>>
  /\ conn' = [conn EXCEPT ![c] = "down"]
  /\ acks' = [acks EXCEPT ![c] = <<>>]
  /\ UNCHANGED <<journalVars, head, replay, feed, feedOpen, sending, ceiling, wire,
                 clientVars, acked, breaks>>

(* A connection lost with what is in flight in both directions.              *)
Hangup(C) ==
  LET cut(f, none) == [c \in Clients |-> IF c \in C THEN none ELSE f[c]] IN
  /\ breaks < MaxBreaks
  /\ breaks' = breaks + 1
  /\ conn' = cut(conn, "down")
  /\ head' = cut(head, 0)
  /\ replay' = cut(replay, NoReplay)
  /\ feed' = cut(feed, <<>>)
  /\ feedOpen' = cut(feedOpen, FALSE)
  /\ sending' = cut(sending, {})
  /\ ceiling' = cut(ceiling, 0)
  /\ wire' = cut(wire, <<>>)
  /\ acks' = cut(acks, <<>>)
  /\ UNCHANGED <<log, owner, row, clientVars, acked>>

Break(c) ==
  /\ conn[c] /= "down"
  /\ Hangup({c})
  /\ UNCHANGED owed

(* The daemon stops and starts again: every subscriber and every event not   *)
(* yet appended is lost, the journal and the rows remain.                    *)
Restart ==
  /\ Hangup(Clients)
  /\ owed' = {}

StreamStep(c) ==
  \/ Subscribe(c)
  \/ SendRecovery(c)
  \/ SendPage(c)
  \/ TakeEvent(c)
  \/ WriteEvent(c)
  \/ FeedClosed(c)
  \/ ReadAck(c)
  \/ Receive(c)
  \/ Closed(c)

Next ==
  \/ \E i \in Items : Open(i) \/ Close(i)
  \/ \E e \in Event : Emit(e)
  \/ \E c \in Clients : StreamStep(c) \/ Break(c)
  \/ Restart

(* A stream's goroutine and the client it serves keep running, and a client  *)
(* that has lost its connection connects again.                              *)
Fairness == \A c \in Clients : WF_vars(StreamStep(c))

Spec == Init /\ [][Next]_vars /\ Fairness

-----------------------------------------------------------------------------
TypeOK ==
  /\ log \in Seq(Event) /\ Len(log) <= MaxEvents
  /\ owner \in [Items -> Actors]
  /\ row \in [Items -> {"absent", "open", "closed"}]
  /\ owed \subseteq Event
  /\ conn \in [Clients -> {"down", "recover", "pages", "live", "closing"}]
  /\ {head, ceiling, cursor, acked} \subseteq [Clients -> 0..Len(log)]
  /\ feedOpen \in [Clients -> BOOLEAN]
  /\ \A c \in Clients :
       /\ Len(feed[c]) <= Buffer
       /\ Len(replay[c].events) <= PageLimit
       /\ Cardinality(sending[c]) <= 1
       /\ view[c] \subseteq {i \in Items : owner[i] = Actor[c]}
       /\ conn[c] = "down" => wire[c] = <<>> /\ acks[c] = <<>>

(* Across reconnections, overflows and restarts a client is handed its own   *)
(* actor's events in journal order and none of them twice: the captured head *)
(* separates the catch-up pages from the live channel.                       *)
OrderedOnce ==
  \A c \in Clients :
    /\ \A n \in 1..Len(received[c]) : OwnEvent(c, received[c][n])
    /\ Ascending(received[c])

(* Every event of its actor at or below a client's cursor was either handed  *)
(* to it or passed over under an explicit gap marker; and the channel of a   *)
(* subscriber that is still registered misses nothing.                       *)
NothingSilentlyLost ==
  \A c \in Clients :
    \A s \in OwnEvents(c, 0, cursor[c]) :
      s \in skipped[c] \/ \E n \in 1..Len(received[c]) : received[c][n] = s

(* A client is made to skip events only if more of them than the journal     *)
(* retains separated its cursor from the head: from a retained cursor the    *)
(* exact events are replayed.                                                *)
GapOnlyAfterTrim ==
  [][\A c \in Clients :
       skipped'[c] /= skipped[c] => cursor'[c] > cursor[c] + Retention]_vars

(* A client's acknowledgement of a frame it was sent is never above the      *)
(* ceiling of the stream that reads it, so a fast client is not disconnected.*)
FastAckAccepted ==
  \A c \in Clients :
    conn[c] = "live" => \A n \in 1..Len(acks[c]) : acks[c][n] <= ceiling[c]

(* The durable acknowledgement is a sequence the client has processed, and   *)
(* it never moves back, whatever order acknowledgements and reconnections    *)
(* come in.                                                                  *)
AckedWasProcessed ==
  [][\A c \in Clients : acked[c] <= acked'[c] /\ acked'[c] <= cursor[c]]_vars

(* Once a client has received all there is, its pending approvals are the    *)
(* database's wherever the journal's last word on the item is: the snapshot, *)
(* read at some moment after the subscription, the pages and the live events *)
(* overlap in time and still fold into the current state.                    *)
LastWord(i) ==
  LET about == {s \in 1..Len(log) : log[s].item = i} IN
  IF about = {} THEN "absent"
  ELSE IF log[CHOOSE s \in about : \A t \in about : t <= s].kind = "opened"
       THEN "open" ELSE "closed"
CaughtUp(c) ==
  /\ conn[c] = "live" /\ wire[c] = <<>> /\ sending[c] = {}
  /\ feed[c] = <<>> /\ feedOpen[c]
ViewAgrees ==
  \A c \in Clients : CaughtUp(c) =>
    \A i \in Items :
      owner[i] = Actor[c] /\ LastWord(i) = row[i] => (i \in view[c] <=> row[i] = "open")

(* Every appended event reaches each client of its actor, or a gap marker    *)
(* covers it, however often the channel overflowed or the connection broke.  *)
EveryEventArrives ==
  \A c \in Clients : \A s \in 1..MaxEvents :
    (s <= Len(log) /\ OwnEvent(c, s)) ~> cursor[c] >= s

(* What Append, Subscribe, the stream and the client keep between them:      *)
(* types, delivery in order and once, no silent loss, a ceiling that never   *)
(* turns a fast client away, and a view that agrees with the database.       *)
JournalInv == TypeOK /\ OrderedOnce /\ NothingSilentlyLost /\ FastAckAccepted /\ ViewAgrees

(* What no step of the stream may do: skip retained events, or acknowledge   *)
(* on behalf of the client.                                                  *)
StreamSteps == GapOnlyAfterTrim /\ AckedWasProcessed
=============================================================================
