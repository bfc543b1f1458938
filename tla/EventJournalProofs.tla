------------------------- MODULE EventJournalProofs -------------------------
(***************************************************************************)
(* Proofs about the event journal and its streams, for any clients, actors *)
(* and items, any retention, buffer and page size.                         *)
(*                                                                         *)
(* What a client has been handed, what is on the wire, what the stream     *)
(* still has to replay and what waits in its channel cover the actor's     *)
(* events one after the other, without a hole and without an overlap: that *)
(* is the inductive invariant, together with what the journal may say of   *)
(* the rows of the database.  It is a predicate on the journal and on one  *)
(* client's part of the state, so that each step of a stream is a lemma    *)
(* about two such parts.                                                   *)
(***************************************************************************)
EXTENDS EventJournal, FiniteSetTheorems, TLAPS

Elems(q) == {q[k] : k \in 1..Len(q)}
Replays == [gap : BOOLEAN, latest : Nat, events : Seq(Nat)]
Frames == [replay : Replays, snapshot : SUBSET SUBSET Items]
Conns == {"down", "recover", "pages", "live", "closing"}
Rows == [Items -> {"absent", "open", "closed"}]
Parts ==
  [conn : Conns, head : Nat, replay : Replays, feed : Seq(Nat), feedOpen : BOOLEAN,
   sending : SUBSET Nat, ceiling : Nat, wire : Seq(Frames), acks : Seq(Nat), cursor : Nat,
   view : SUBSET Items, received : Seq(Nat), skipped : SUBSET Nat, acked : Nat]
Part(c) ==
  [conn |-> conn[c], head |-> head[c], replay |-> replay[c], feed |-> feed[c],
   feedOpen |-> feedOpen[c], sending |-> sending[c], ceiling |-> ceiling[c],
   wire |-> wire[c], acks |-> acks[c], cursor |-> cursor[c], view |-> view[c],
   received |-> received[c], skipped |-> skipped[c], acked |-> acked[c]]

JournalTypes ==
  /\ log \in Seq(Event) /\ owner \in [Items -> Actors] /\ row \in Rows
  /\ owed \in SUBSET Event /\ IsFiniteSet(owed) /\ Len(log) + Cardinality(owed) <= MaxEvents
StreamTypes ==
  /\ conn \in [Clients -> Conns] /\ feedOpen \in [Clients -> BOOLEAN]
  /\ head \in [Clients -> Nat] /\ ceiling \in [Clients -> Nat]
  /\ replay \in [Clients -> Replays] /\ feed \in [Clients -> Seq(Nat)]
  /\ sending \in [Clients -> SUBSET Nat]
  /\ wire \in [Clients -> Seq(Frames)] /\ acks \in [Clients -> Seq(Nat)]
  /\ cursor \in [Clients -> Nat] /\ view \in [Clients -> SUBSET Items]
  /\ received \in [Clients -> Seq(Nat)] /\ skipped \in [Clients -> SUBSET Nat]
  /\ acked \in [Clients -> Nat]

(* The events of actor a, in log l with owners o, after one position and up  *)
(* to another; what the log says last of an item.                            *)
Own(l, o, a, after, through) == {s \in after + 1 .. through : o[l[s].item] = a}
OwnItems(o, a) == {i \in Items : o[i] = a}
OpenItems(o, r, a) == {i \in Items : o[i] = a /\ r[i] = "open"}
Mentions(l, i) == {s \in 1..Len(l) : l[s].item = i}
Word(l, i) ==
  IF Mentions(l, i) = {} THEN "absent"
  ELSE IF l[CHOOSE s \in Mentions(l, i) : \A t \in Mentions(l, i) : t <= s].kind = "opened"
       THEN "open" ELSE "closed"

(* An event is emitted after its row has changed.                            *)
Happened(r, e) == r[e.item] = "closed" \/ (e.kind = "opened" /\ r[e.item] = "open")
RowsFirst ==
  /\ \A e \in owed : Happened(row, e)
  /\ \A s \in 1..Len(log) : Happened(row, log[s])

(* A page has its actor's events after a cursor up to its latest, or says    *)
(* that it has not.                                                          *)
Covers(l, o, a, after, page) ==
  /\ after <= page.latest /\ page.latest <= Len(l)
  /\ page.gap => page.events = <<>> /\ after + Retention < page.latest
  /\ ~page.gap => Ascending(page.events)
                  /\ Elems(page.events) = Own(l, o, a, after, page.latest)

(* Where the first k frames on the wire w will leave the client.             *)
Sent(w, cur, k) == IF k = 0 THEN cur ELSE w[k].replay.latest
Wired(l, o, a, w, cur) ==
  \A k \in 1..Len(w) :
    /\ Covers(l, o, a, Sent(w, cur, k - 1), w[k].replay)
    /\ w[k].replay.gap => w[k].snapshot /= {}
    /\ w[k].snapshot /= {} =>
         k = 1 /\ \E v \in SUBSET OwnItems(o, a) : w[k].snapshot = {v}

SentTo(p) == Sent(p.wire, p.cursor, Len(p.wire))
Phase(l, o, a, p) ==
  /\ p.conn \in {"down", "recover"} => p.wire = <<>> /\ p.acks = <<>>
  /\ p.conn /= "live" => p.sending = {}
  /\ p.conn = "recover" => Covers(l, o, a, p.cursor, p.replay) /\ p.replay.latest <= p.head
  /\ p.conn = "pages" =>
       p.replay.latest = SentTo(p) /\ p.ceiling = SentTo(p) /\ SentTo(p) < p.head
  /\ p.conn = "live" =>
       \/ p.sending = {} /\ p.ceiling = SentTo(p)
       \/ /\ p.sending = {p.ceiling} /\ SentTo(p) < p.ceiling
          /\ Own(l, o, a, SentTo(p), p.ceiling) = {p.ceiling}

(* The channel has what follows the captured head, or the event taken last,  *)
(* up to the end or to where the subscriber was dropped.                     *)
Idle(p) == p.conn \in {"down", "closing"}
From(p) == IF p.conn = "live" THEN p.ceiling ELSE p.head
Follows(l, o, a, from, q, open) ==
  /\ Ascending(q)
  /\ Elems(q) \subseteq Own(l, o, a, from, Len(l))
  /\ \A s \in Own(l, o, a, from, Len(l)) :
       s \in Elems(q) \/ (~open /\ \A t \in Elems(q) : t < s)
Queued(l, o, a, p) ==
  /\ Len(p.feed) <= Buffer
  /\ Idle(p) => p.feed = <<>> /\ ~p.feedOpen
  /\ ~Idle(p) => Follows(l, o, a, From(p), p.feed, p.feedOpen)

Streaming(p) == p.conn \in {"pages", "live"}
Bounded(l, p) ==
  /\ p.head <= Len(l) /\ p.ceiling <= Len(l) /\ p.cursor <= Len(l)
  /\ p.acked <= p.cursor /\ \A n \in 1..Len(p.acks) : p.acks[n] <= p.cursor
  /\ Len(p.replay.events) <= PageLimit
  /\ Streaming(p) => p.cursor <= p.ceiling
                     /\ \A k \in 1..Len(p.wire) : p.wire[k].replay.latest <= p.ceiling

Handed(l, o, a, cur, got, over) ==
  /\ Ascending(got) /\ Elems(got) \subseteq Own(l, o, a, 0, cur)
  /\ Own(l, o, a, 0, cur) \subseteq over \union Elems(got)

(* What the client shows once it has the snapshot that may be on its way,    *)
(* and the position that this is about: an item of which no event is left to *)
(* come is shown as it is.                                                   *)
Fresh(p) == p.wire /= <<>> /\ p.wire[1].snapshot /= {}
Told(p) == IF Fresh(p) THEN p.wire[1].replay.latest ELSE p.cursor
Shown(p) == IF Fresh(p) THEN UNION p.wire[1].snapshot ELSE p.view
Settled(l, r, i, at) == Word(l, i) = r[i] /\ \A s \in Mentions(l, i) : s <= at
Shows(l, o, r, a, at, shown) ==
  \A i \in OwnItems(o, a) : Settled(l, r, i, at) => (i \in shown <=> r[i] = "open")
Agrees(l, o, r, a, p) ==
  /\ p.view \subseteq OwnItems(o, a)
  /\ Streaming(p) => Shows(l, o, r, a, Told(p), Shown(p))

PartInv(l, o, r, a, p) ==
  /\ Wired(l, o, a, p.wire, p.cursor) /\ Phase(l, o, a, p) /\ Queued(l, o, a, p)
  /\ Bounded(l, p) /\ Handed(l, o, a, p.cursor, p.received, p.skipped)
  /\ Agrees(l, o, r, a, p)

JournalIInv ==
  /\ JournalTypes /\ StreamTypes /\ RowsFirst
  /\ \A c \in Clients : PartInv(log, owner, row, Actor[c], Part(c))

(* What a page of replayThroughLocked, read after m up to n, holds; what a   *)
(* frame written after those on the wire must be; what is left of the wire   *)
(* when the client has received a frame.                                     *)
PageOk(c, m, n, page) ==
  /\ page \in Replays /\ Len(page.events) <= PageLimit
  /\ m <= page.latest /\ page.latest <= n
  /\ page.gap => page.latest = n /\ page.events = <<>> /\ m + Retention < Len(log)
  /\ ~page.gap => Ascending(page.events)
                  /\ Elems(page.events) = Own(log, owner, Actor[c], m, page.latest)
FrameOk(l, o, a, w, cur, f) ==
  /\ Covers(l, o, a, Sent(w, cur, Len(w)), f.replay)
  /\ f.replay.gap => f.snapshot /= {}
  /\ f.snapshot /= {} => w = <<>> /\ \E v \in SUBSET OwnItems(o, a) : f.snapshot = {v}
TailOk(l, o, a, p, t) ==
  /\ Wired(l, o, a, t.wire, t.cursor) /\ SentTo(t) = SentTo(p) /\ ~Fresh(t)
  /\ \A k \in 1..Len(t.wire) : k + 1 \in 1..Len(p.wire) /\ t.wire[k] = p.wire[k + 1]

-----------------------------------------------------------------------------
(* Positions in the log. *)

(* What is at most a position is at most any later one.                      *)
LEMMA AtMost ==
  ASSUME NEW x \in Nat, NEW y \in Nat, NEW z \in Nat, x <= y, y <= z
  PROVE  x <= z
  OBVIOUS

(* Adding no events leaves what was received.                                *)
LEMMA ConcatNone ==
  ASSUME NEW q \in Seq(Nat)
  PROVE  q \o <<>> = q
  OBVIOUS

(* What is before a position is at most that position.                       *)
LEMMA Before ==
  ASSUME NEW x \in Nat, NEW y \in Nat, x < y
  PROVE  x <= y
  OBVIOUS

(* Appending leaves what was there and adds the new element at the end.      *)
LEMMA AppendElems ==
  ASSUME NEW q \in Seq(Nat), NEW x \in Nat
  PROVE  /\ Len(Append(q, x)) = Len(q) + 1 /\ Len(q) \in Nat /\ Append(q, x)[Len(q) + 1] = x
         /\ \A k \in 1..Len(q) : Append(q, x)[k] = q[k] /\ q[k] \in Nat
  OBVIOUS

(* A nonempty set of naturals has a least element.                           *)
LEMMA Least ==
  ASSUME NEW T, T \subseteq Nat, T /= {}
  PROVE  \E x \in T : \A y \in T : x <= y
<1> DEFINE R == {ss \in Nat \X Nat : ss[1] < ss[2]}
<1>1. IsWellFoundedOn(R, Nat)
  BY NatLessThanWellFounded, Zenon DEF OpToRel
<1> HIDE DEF R
<1>2. PICK x \in T : \A y \in T : ~(<<y, x>> \in R)
  BY <1>1, WFMin, Zenon
<1>3. ASSUME NEW y \in T, y < x PROVE FALSE
  <2>1. <<y, x>> \in Nat \X Nat /\ <<y, x>>[1] = y /\ <<y, x>>[2] = x
    BY Zenon
  <2>2. <<y, x>> \in R
    BY <1>3, <2>1, Zenon DEF R
  <2> QED
    BY <1>2, <2>2, Zenon
<1> QED
  BY <1>3

(* A nonempty set of naturals with a bound has a greatest element.           *)
LEMMA Greatest ==
  ASSUME NEW T, NEW n \in Nat, T \subseteq 0..n, T /= {}
  PROVE  \E x \in T : \A y \in T : y <= x
<1> DEFINE D == {d \in 0..n : n - d \in T}
<1>1. D \subseteq Nat /\ D /= {}
  <2>1. PICK x \in T : TRUE
    BY Zenon
  <2>2. x \in 0..n
    BY <2>1, Zenon
  <2>3. n - x \in 0..n /\ n - (n - x) = x
    BY <2>2
  <2>4. n - x \in D
    BY <2>1, <2>3, Zenon
  <2>5. D \subseteq 0..n
    BY Zenon
  <2> HIDE DEF D
  <2> QED
    BY <2>4, <2>5
<1>2. PICK d \in D : \A y \in D : d <= y
  BY <1>1, Least, Zenon
<1>3. ASSUME NEW y \in T PROVE y <= n - d
  <2>1. y \in 0..n
    BY Zenon
  <2>2. n - y \in 0..n /\ n - (n - y) = y
    BY <2>1
  <2>3. n - y \in D
    BY <2>2, Zenon
  <2>4. d <= n - y /\ d \in 0..n
    BY <1>2, <2>3, Zenon
  <2> QED
    BY <2>1, <2>4
<1> QED
  BY <1>2, <1>3, Zenon

(* A finite set of naturals can be listed in ascending order.                *)
LEMMA Sorted ==
  ASSUME NEW S \in SUBSET Nat, IsFiniteSet(S)
  PROVE  \E rows \in [1..Cardinality(S) -> S] : Ascending(rows)
<1> DEFINE Sortable(T) == \E rows \in [1..Cardinality(T) -> T] : Ascending(rows)
           Bad == {n \in Nat : \E T \in SUBSET Nat :
                     IsFiniteSet(T) /\ Cardinality(T) = n /\ ~Sortable(T)}
<1>1. SUFFICES ASSUME Bad /= {} PROVE FALSE
  BY FS_CardinalityType, Zenon
<1>2. PICK n \in Bad : \A m \in Bad : n <= m
  BY <1>1, Least, Zenon
<1>3. PICK T \in SUBSET Nat : IsFiniteSet(T) /\ Cardinality(T) = n /\ ~Sortable(T)
  BY <1>2, Zenon
<1>4. n /= 0
  <2>1. SUFFICES ASSUME n = 0 PROVE Sortable(T)
    BY <1>3, Zenon
  <2>2. T = {}
    BY <1>3, <2>1, FS_EmptySet, Zenon
  <2>3. <<>> \in [1..Cardinality(T) -> T]
    BY <1>3, <2>1, <2>2
  <2>4. Ascending(<<>>)
    BY DEF Ascending
  <2> QED
    BY <2>3, <2>4, Zenon
<1>5. PICK x \in T : \A y \in T : x <= y
  <2>1. T /= {}
    BY <1>3, <1>4, FS_EmptySet, Zenon
  <2> QED
    BY <2>1, Least, Zenon
<1> DEFINE U == T \ {x}
<1>6. U \in SUBSET Nat /\ IsFiniteSet(U) /\ Cardinality(U) = n - 1
  BY <1>3, FS_RemoveElement, Zenon
<1>7. n - 1 \in Nat /\ n - 1 \notin Bad
  BY <1>2, <1>4
<1>8. Sortable(U)
  BY <1>6, <1>7, Zenon
<1>9. PICK r \in [1..n - 1 -> U] : Ascending(r)
  BY <1>6, <1>8, Zenon
<1> DEFINE q == [k \in 1..n |-> IF k = 1 THEN x ELSE r[k - 1]]
<1>10. Len(r) = n - 1
  BY <1>7, <1>9
<1>11. \A k \in 1..n : k /= 1 => k - 1 \in 1..n - 1
  BY <1>7
<1>12. q \in [1..n -> T] /\ Len(q) = n
  BY <1>7, <1>9, <1>11
<1>13. Ascending(q)
  <2>1. SUFFICES ASSUME NEW k \in 1..n, NEW m \in 1..n, k < m PROVE q[k] < q[m]
    BY <1>12, Zenon DEF Ascending
  <2>2. m - 1 \in 1..n - 1 /\ q[m] = r[m - 1] /\ r[m - 1] \in U
    BY <1>7, <1>9, <2>1
  <2>3. CASE k = 1
    <3>1. q[k] = x /\ x \in Nat /\ r[m - 1] \in Nat
      BY <1>5, <2>2, <2>3, Zenon
    <3>2. x <= r[m - 1] /\ x /= r[m - 1]
      BY <1>5, <2>2, Zenon
    <3> QED
      BY <2>2, <3>1, <3>2
  <2>4. CASE k /= 1
    <3>1. k - 1 \in 1..n - 1 /\ k - 1 < m - 1 /\ q[k] = r[k - 1]
      BY <1>7, <2>1, <2>4
    <3> QED
      BY <1>9, <1>10, <2>2, <3>1, Zenon DEF Ascending
  <2> QED
    BY <2>3, <2>4, Zenon
<1> QED
  BY <1>3, <1>12, <1>13, Zenon

(* What a list in ascending order holds, and where.                          *)
LEMMA ElemsType ==
  ASSUME NEW S, NEW q \in Seq(S)
  PROVE  /\ Elems(q) \subseteq S /\ Len(q) \in Nat
         /\ \A k \in 1..Len(q) : q[k] \in Elems(q) /\ q[k] \in S
  BY DEF Elems

(* The actor's events between two positions are finitely many numbers.       *)
LEMMA OwnType ==
  ASSUME NEW l, NEW o, NEW a, NEW m \in Nat, NEW n \in Nat
  PROVE  Own(l, o, a, m, n) \subseteq m + 1 .. n /\ IsFiniteSet(Own(l, o, a, m, n))
<1>1. Own(l, o, a, m, n) \subseteq m + 1 .. n
  BY Zenon DEF Own
<1> QED
  BY <1>1, FS_Interval, FS_Subset

(* replayThroughLocked reads exactly the actor's rows, in order.             *)
LEMMA RowsAreOwn ==
  ASSUME NEW c, NEW m \in Nat, NEW n \in Nat
  PROVE  /\ RowsOf(c, m, n) \in Seq(Nat) /\ Ascending(RowsOf(c, m, n))
         /\ Elems(RowsOf(c, m, n)) = Own(log, owner, Actor[c], m, n)
<1> DEFINE S == Own(log, owner, Actor[c], m, n)
           N == Cardinality(S)
           q == RowsOf(c, m, n)
<1>1. S \in SUBSET Nat /\ IsFiniteSet(S) /\ N \in Nat
  BY OwnType, FS_CardinalityType
<1>2. OwnEvents(c, m, n) = S
  BY Zenon DEF OwnEvents, OwnEvent, Own
<1> HIDE DEF S
<1>3. q = CHOOSE rows \in [1..N -> S] : Ascending(rows)
  BY <1>2, Zenon DEF RowsOf
<1> HIDE DEF q
<1>4. q \in [1..N -> S] /\ Ascending(q)
  BY <1>1, <1>3, Sorted, Zenon
<1> HIDE DEF N
<1>5. q \in Seq(Nat) /\ Len(q) = N
  <2>1. q \in [1..N -> Nat]
    BY <1>1, <1>4, Zenon
  <2> QED
    BY <1>1, <2>1
<1>6. q \in Injection(1..N, S)
  <2>1. ASSUME NEW k \in 1..N, NEW j \in 1..N, q[k] = q[j] PROVE k = j
    <3>1. q[k] \in Nat /\ q[j] \in Nat
      BY <1>1, <1>4, Zenon
    <3> QED
      BY <1>1, <1>4, <1>5, <2>1, <3>1 DEF Ascending
  <2> QED
    BY <1>4, <2>1, Zenon DEF Injection, IsInjective
<1>7. Cardinality(1..N) = Cardinality(S)
  BY <1>1, FS_Interval DEF N
<1>8. q \in Surjection(1..N, S)
  BY <1>1, <1>6, <1>7, FS_Injection, Zenon
<1>9. Elems(q) = S
  BY <1>4, <1>5, <1>8, Zenon DEF Surjection, Elems
<1> QED
  BY <1>4, <1>5, <1>9, Zenon DEF q, S, N

(* They are those up to a position in between and those after it.            *)
LEMMA OwnSplit ==
  ASSUME NEW l, NEW o, NEW a, NEW m \in Nat, NEW k \in Nat, NEW n \in Nat, m <= k, k <= n
  PROVE  Own(l, o, a, m, n) = Own(l, o, a, m, k) \union Own(l, o, a, k, n)
  BY DEF Own

(* Append adds an event after the others and changes none of them.           *)
LEMMA OwnBefore ==
  ASSUME NEW l \in Seq(Event), NEW e \in Event, NEW o, NEW a, NEW m \in Nat, NEW n \in Nat,
         n <= Len(l)
  PROVE  Own(Append(l, e), o, a, m, n) = Own(l, o, a, m, n)
<1> DEFINE L == Append(l, e)
<1>1. Len(l) \in Nat /\ \A s \in 1..Len(l) : L[s] = l[s]
  OBVIOUS
<1> HIDE DEF L
<1>2. Own(L, o, a, m, n) = Own(l, o, a, m, n)
  BY <1>1 DEF Own
<1> QED
  BY <1>2, Zenon DEF L

(* An appended event is the actor's or leaves the actor's events as they     *)
(* are.                                                                      *)
LEMMA OwnAppend ==
  ASSUME NEW l \in Seq(Event), NEW e \in Event, NEW o, NEW a, NEW m \in Nat, m <= Len(l), NEW s
  PROVE  s \in Own(Append(l, e), o, a, m, Len(l) + 1) <=>
           s \in Own(l, o, a, m, Len(l)) \/ (s = Len(l) + 1 /\ o[e.item] = a)
<1> DEFINE L == Append(l, e)
<1>1. /\ Len(l) \in Nat /\ L[Len(l) + 1] = e
      /\ \A x \in 1..Len(l) : L[x] = l[x]
  OBVIOUS
<1> HIDE DEF L
<1>2. ASSUME s \in m + 1 .. Len(l) + 1
      PROVE  s = Len(l) + 1 \/ (s \in 1..Len(l) /\ L[s] = l[s] /\ s \in m + 1..Len(l))
  BY <1>1, <1>2
<1>3. ASSUME s \in m + 1 .. Len(l)
      PROVE  s \in m + 1 .. Len(l) + 1 /\ L[s] = l[s]
  BY <1>1, <1>3
<1>4. Len(l) + 1 \in m + 1 .. Len(l) + 1
  BY <1>1
<1>5. s \in Own(L, o, a, m, Len(l) + 1) <=>
        s \in Own(l, o, a, m, Len(l)) \/ (s = Len(l) + 1 /\ o[e.item] = a)
  BY <1>1, <1>2, <1>3, <1>4, Zenon DEF Own
<1> QED
  BY <1>5, Zenon DEF L

(* A page covers what it covered before an append.                           *)
LEMMA CoversAppend ==
  ASSUME NEW l \in Seq(Event), NEW e \in Event, NEW o, NEW a, NEW m \in Nat,
         NEW page \in Replays, Covers(l, o, a, m, page)
  PROVE  Covers(Append(l, e), o, a, m, page)
<1>1. page.latest \in Nat /\ Len(Append(l, e)) = Len(l) + 1 /\ Len(l) \in Nat
  BY DEF Replays
<1>2. page.latest <= Len(l)
  BY Zenon DEF Covers
<1>3. Own(Append(l, e), o, a, m, page.latest) = Own(l, o, a, m, page.latest)
  BY <1>1, <1>2, OwnBefore
<1> QED
  BY <1>1, <1>3 DEF Covers

(* Lists in ascending order, one after the other.                            *)
LEMMA Concatenated ==
  ASSUME NEW q \in Seq(Nat), NEW r \in Seq(Nat), NEW m \in Nat, Ascending(q), Ascending(r),
         \A x \in Elems(q) : x <= m, \A x \in Elems(r) : m < x
  PROVE  /\ q \o r \in Seq(Nat) /\ Ascending(q \o r)
         /\ Elems(q \o r) = Elems(q) \union Elems(r)
<1> DEFINE w == q \o r
<1>1. /\ w \in Seq(Nat) /\ Len(w) = Len(q) + Len(r) /\ Len(q) \in Nat /\ Len(r) \in Nat
      /\ \A k \in 1..Len(w) : w[k] = IF k <= Len(q) THEN q[k] ELSE r[k - Len(q)]
  OBVIOUS
<1> HIDE DEF w
<1>2. ASSUME NEW k \in 1..Len(w)
      PROVE  \/ k \in 1..Len(q) /\ w[k] = q[k] /\ q[k] \in Elems(q)
             \/ /\ k > Len(q) /\ k - Len(q) \in 1..Len(r) /\ w[k] = r[k - Len(q)]
                /\ r[k - Len(q)] \in Elems(r)
  BY <1>1 DEF Elems
<1>3. Ascending(w)
  <2>1. SUFFICES ASSUME NEW j \in 1..Len(w), NEW k \in 1..Len(w), j < k PROVE w[j] < w[k]
    BY Zenon DEF Ascending
  <2>2. w[j] \in Nat /\ w[k] \in Nat
    BY <1>1
  <2>3. CASE k <= Len(q)
    <3>1. j \in 1..Len(q) /\ k \in 1..Len(q) /\ w[j] = q[j] /\ w[k] = q[k]
      BY <1>1, <2>1, <2>3
    <3> QED
      BY <2>1, <3>1, Zenon DEF Ascending
  <2>4. CASE j > Len(q)
    <3>1. k > Len(q) /\ j - Len(q) < k - Len(q)
      BY <1>1, <2>1, <2>4
    <3>2. j - Len(q) \in 1..Len(r) /\ w[j] = r[j - Len(q)]
      BY <1>1, <2>4
    <3>3. k - Len(q) \in 1..Len(r) /\ w[k] = r[k - Len(q)]
      BY <1>1, <3>1
    <3> QED
      BY <3>1, <3>2, <3>3, Zenon DEF Ascending
  <2>5. CASE j <= Len(q) /\ k > Len(q)
    <3>1. w[j] \in Elems(q)
      <4>1. j \in 1..Len(q) /\ w[j] = q[j]
        BY <1>1, <2>5
      <4> QED
        BY <4>1, Zenon DEF Elems
    <3>2. w[k] \in Elems(r)
      <4>1. k - Len(q) \in 1..Len(r) /\ w[k] = r[k - Len(q)]
        BY <1>1, <2>5
      <4> QED
        BY <4>1, Zenon DEF Elems
    <3> QED
      BY <2>2, <3>1, <3>2
  <2> QED
    BY <1>1, <2>3, <2>4, <2>5
<1>4. Elems(w) = Elems(q) \union Elems(r)
  <2>1. ASSUME NEW x \in Elems(w) PROVE x \in Elems(q) \union Elems(r)
    BY <1>2, Zenon DEF Elems
  <2>2. ASSUME NEW k \in 1..Len(q) PROVE q[k] \in Elems(w)
    <3>1. k \in 1..Len(w) /\ w[k] = q[k]
      BY <1>1
    <3> QED
      BY <3>1, Zenon DEF Elems
  <2>3. ASSUME NEW k \in 1..Len(r) PROVE r[k] \in Elems(w)
    <3>1. k + Len(q) \in 1..Len(w) /\ ~(k + Len(q) <= Len(q)) /\ (k + Len(q)) - Len(q) = k
      BY <1>1
    <3>2. w[k + Len(q)] = r[k]
      BY <1>1, <3>1, Zenon
    <3> QED
      BY <3>1, <3>2, Zenon DEF Elems
  <2>4. \A x \in Elems(q) : x \in Elems(w)
    BY <2>2, Zenon DEF Elems
  <2>5. \A x \in Elems(r) : x \in Elems(w)
    BY <2>3, Zenon DEF Elems
  <2> QED
    BY <2>1, <2>4, <2>5, Zenon
<1> QED
  BY <1>1, <1>3, <1>4, Zenon DEF w

(* Appending a greater number keeps a sequence ascending.                    *)
LEMMA Appended ==
  ASSUME NEW q \in Seq(Nat), NEW x \in Nat, Ascending(q), \A y \in Elems(q) : y < x
  PROVE  /\ Append(q, x) \in Seq(Nat) /\ Ascending(Append(q, x))
         /\ Elems(Append(q, x)) = Elems(q) \union {x} /\ Len(Append(q, x)) = Len(q) + 1
<1> DEFINE w == Append(q, x)
<1>1. /\ w \in Seq(Nat) /\ Len(w) = Len(q) + 1 /\ Len(q) \in Nat /\ w[Len(q) + 1] = x
      /\ \A k \in 1..Len(q) : w[k] = q[k] /\ q[k] \in Elems(q) /\ q[k] \in Nat
  BY DEF Elems
<1> HIDE DEF w
<1>2. \A k \in 1..Len(w) : k = Len(q) + 1 \/ k \in 1..Len(q)
  BY <1>1
<1>3. Ascending(w)
  <2>1. SUFFICES ASSUME NEW j \in 1..Len(w), NEW k \in 1..Len(w), j < k PROVE w[j] < w[k]
    BY Zenon DEF Ascending
  <2>2. j \in 1..Len(q)
    BY <1>1, <2>1
  <2>3. CASE k = Len(q) + 1
    BY <1>1, <2>2, <2>3, Zenon
  <2>4. CASE k \in 1..Len(q)
    BY <1>1, <2>1, <2>2, <2>4, Zenon DEF Ascending
  <2> QED
    BY <1>2, <2>3, <2>4, Zenon
<1>4. \A k \in 1..Len(q) : k \in 1..Len(w)
  BY <1>1
<1>5. Len(q) + 1 \in 1..Len(w)
  BY <1>1
<1>6. Elems(w) = Elems(q) \union {x}
  BY <1>1, <1>2, <1>4, <1>5, Zenon DEF Elems
<1> QED
  BY <1>1, <1>3, <1>6, Zenon DEF w

(* Taking the head of an ascending sequence takes its least element.         *)
LEMMA Taken ==
  ASSUME NEW q \in Seq(Nat), Ascending(q), q /= <<>>
  PROVE  /\ Head(q) \in Elems(q) /\ Tail(q) \in Seq(Nat) /\ Len(Tail(q)) = Len(q) - 1
         /\ Ascending(Tail(q)) /\ Elems(Tail(q)) = Elems(q) \ {Head(q)}
         /\ \A y \in Elems(Tail(q)) : Head(q) < y
<1> DEFINE w == Tail(q)
           x == Head(q)
<1>1. /\ w \in Seq(Nat) /\ Len(w) = Len(q) - 1 /\ Len(q) \in Nat \ {0} /\ x = q[1]
      /\ \A k \in 1..Len(w) : w[k] = q[k + 1]
  OBVIOUS
<1> HIDE DEF w, x
<1>2. \A k \in 1..Len(w) : k + 1 \in 1..Len(q)
  BY <1>1
<1>3. Ascending(w)
  <2>1. SUFFICES ASSUME NEW j \in 1..Len(w), NEW k \in 1..Len(w), j < k PROVE w[j] < w[k]
    BY Zenon DEF Ascending
  <2>2. j + 1 \in 1..Len(q) /\ k + 1 \in 1..Len(q) /\ j + 1 < k + 1
    BY <1>2, <2>1
  <2> QED
    BY <1>1, <2>2, Zenon DEF Ascending
<1>4. \A k \in 1..Len(w) : x < w[k]
  <2>1. ASSUME NEW k \in 1..Len(w) PROVE x < w[k]
    <3>1. 1 \in 1..Len(q) /\ k + 1 \in 1..Len(q) /\ 1 < k + 1
      BY <1>1, <1>2
    <3> QED
      BY <1>1, <3>1, Zenon DEF Ascending
  <2> QED
    BY <2>1, Zenon
<1>5. x \in Elems(q) /\ x \in Nat
  <2>1. 1 \in 1..Len(q)
    BY <1>1
  <2> QED
    BY <1>1, <2>1 DEF Elems
<1>6. \A k \in 1..Len(q) : k = 1 \/ (k - 1 \in 1..Len(w) /\ w[k - 1] = q[k])
  BY <1>1
<1>7. ASSUME NEW y \in Elems(w) PROVE x < y /\ y \in Elems(q) /\ y \in Nat
  <2>1. PICK k \in 1..Len(w) : y = w[k]
    BY Zenon DEF Elems
  <2>2. k + 1 \in 1..Len(q) /\ y = q[k + 1] /\ x < y
    BY <1>1, <1>2, <1>4, <2>1, Zenon
  <2>3. y \in Nat
    BY <2>2
  <2> QED
    BY <2>2, <2>3, Zenon DEF Elems
<1>8. ASSUME NEW y \in Elems(q) PROVE y = x \/ y \in Elems(w)
  <2>1. PICK k \in 1..Len(q) : y = q[k]
    BY Zenon DEF Elems
  <2>2. CASE k = 1
    BY <1>1, <2>1, <2>2, Zenon
  <2>3. CASE k - 1 \in 1..Len(w) /\ w[k - 1] = q[k]
    BY <2>1, <2>3, Zenon DEF Elems
  <2> QED
    BY <1>6, <2>2, <2>3, Zenon
<1>9. Elems(w) = Elems(q) \ {x}
  <2>1. x \notin Elems(w)
    BY <1>5, <1>7
  <2>2. \A y \in Elems(w) : y \in Elems(q)
    BY <1>7, Zenon
  <2> QED
    BY <1>8, <2>1, <2>2, Zenon
<1> QED
  BY <1>1, <1>3, <1>5, <1>7, <1>9, Zenon DEF w, x

(* replayThroughLocked: a page covers what it says it covers.                *)
LEMMA ReplayPage ==
  ASSUME log \in Seq(Event), NEW c, NEW m \in Nat, NEW n \in Nat, m <= n, n <= Len(log)
  PROVE  PageOk(c, m, n, ReplayThrough(c, m, n))
<1> DEFINE page == ReplayThrough(c, m, n)
           rows == RowsOf(c, m, n)
           a == Actor[c]
<1>1. /\ rows \in Seq(Nat) /\ Ascending(rows) /\ Elems(rows) = Own(log, owner, a, m, n)
      /\ Len(rows) \in Nat /\ Len(log) \in Nat
  <2>1. rows \in Seq(Nat) /\ Ascending(rows) /\ Elems(rows) = Own(log, owner, a, m, n)
    BY RowsAreOwn, Zenon
  <2> HIDE DEF rows
  <2> QED
    BY <2>1
<1>2. Retention \in Nat \ {0} /\ PageLimit \in Nat \ {0}
  BY JournalConfig, Zenon
<1>3. CASE Earliest > 0 /\ m + 1 < Earliest
  <2>1. page = [gap |-> TRUE, latest |-> n, events |-> <<>>]
    BY <1>3, Zenon DEF ReplayThrough, GapAt
  <2>2. m + Retention < Len(log)
    BY <1>1, <1>2, <1>3 DEF Earliest
  <2>3. page.gap /\ page.latest = n /\ page.events = <<>>
    BY <2>1
  <2>4. page \in Replays
    BY <2>1 DEF Replays
  <2> HIDE DEF page
  <2> QED
    BY <1>2, <2>2, <2>3, <2>4 DEF page, PageOk
<1>4. CASE ~(Earliest > 0 /\ m + 1 < Earliest)
  <2>1. page = PageOf(rows, n)
    BY <1>4, Zenon DEF ReplayThrough
  <2> HIDE DEF rows, page
  <2>2. /\ page.gap = FALSE
        /\ page.latest = IF Len(rows) > PageLimit THEN rows[PageLimit] ELSE n
        /\ page.events = FirstPage(rows)
    BY <2>1, Zenon DEF PageOf
  <2>3. CASE Len(rows) <= PageLimit
    <3>1. page.latest = n /\ page.events = rows
      BY <1>1, <1>2, <2>2, <2>3 DEF FirstPage
    <3>2. page \in Replays
      BY <1>1, <1>2, <2>1, <2>3, <3>1, Zenon DEF Replays, PageOf, FirstPage
    <3> QED
      BY <1>1, <2>2, <2>3, <3>1, <3>2 DEF page, PageOk
  <2>4. CASE Len(rows) > PageLimit
    <3> DEFINE q == SubSeq(rows, 1, PageLimit)
               last == rows[PageLimit]
    <3>1. page.latest = last /\ page.events = q
      BY <2>2, <2>4, Zenon DEF FirstPage
    <3>2. PageLimit \in 1..Len(rows) /\ \A k \in 1..PageLimit : k \in 1..Len(rows)
      BY <1>1, <1>2, <2>4
    <3>3. /\ q \in Seq(Nat) /\ Len(q) = PageLimit /\ last \in Nat
          /\ \A k \in 1..PageLimit : q[k] = rows[k]
      <4>1. \A k \in 1..PageLimit : rows[k] \in Nat
        BY <1>1, <3>2
      <4> QED
        BY <1>1, <1>2, <3>2, <4>1
    <3>4. last \in Own(log, owner, a, m, n)
      BY <1>1, <3>2, Zenon DEF Elems
    <3>5. m < last /\ last <= n
      BY <3>3, <3>4 DEF Own
    <3> HIDE DEF q, last
    <3>6. Ascending(q)
      BY <1>1, <1>2, <3>2, <3>3, Zenon DEF Ascending
    <3>7. Elems(q) = Own(log, owner, a, m, last)
      <4>1. ASSUME NEW k \in 1..Len(rows)
            PROVE  k \in 1..PageLimit <=> rows[k] <= last
        <5>1. /\ rows[k] \in Nat /\ (k < PageLimit => rows[k] < last)
              /\ (k > PageLimit => rows[k] > last)
          BY <1>1, <1>2, <3>2 DEF Ascending, last
        <5> QED
          BY <1>1, <1>2, <3>3, <5>1 DEF last
      <4>2. ASSUME NEW x \in Elems(q) PROVE x \in Own(log, owner, a, m, last)
        <5>1. PICK k \in 1..PageLimit : x = rows[k]
          BY <3>3, Zenon DEF Elems
        <5>2. x \in Own(log, owner, a, m, n) /\ x <= last
          BY <1>1, <3>2, <4>1, <5>1, Zenon DEF Elems
        <5> QED
          BY <3>3, <3>5, <5>2 DEF Own
      <4>3. ASSUME NEW x \in Own(log, owner, a, m, last) PROVE x \in Elems(q)
        <5>1. x \in Own(log, owner, a, m, n) /\ x <= last
          BY <3>3, <3>5 DEF Own
        <5>2. PICK k \in 1..Len(rows) : x = rows[k]
          BY <1>1, <5>1, Zenon DEF Elems
        <5>3. k \in 1..PageLimit
          BY <4>1, <5>1, <5>2, Zenon
        <5> QED
          BY <3>3, <5>2, <5>3, Zenon DEF Elems
      <4> QED
        BY <4>2, <4>3, Zenon
    <3>8. page \in Replays
      <4>1. page = [gap |-> FALSE, latest |-> last, events |-> q]
        BY <2>1, <2>4, Zenon DEF PageOf, FirstPage, q, last
      <4> QED
        BY <3>3, <4>1, Zenon DEF Replays
    <3> QED
      BY <1>2, <2>2, <3>1, <3>3, <3>5, <3>6, <3>7, <3>8 DEF page, PageOk
  <2> QED
    BY <1>1, <1>2, <2>3, <2>4
<1> QED
  BY <1>3, <1>4, Zenon

(* The journal's last word on an item is that of the last event about it.    *)
LEMMA LastMention ==
  ASSUME NEW l \in Seq(Event), NEW i, Mentions(l, i) /= {}
  PROVE  \E s \in Mentions(l, i) :
           /\ \A t \in Mentions(l, i) : t <= s
           /\ Word(l, i) = IF l[s].kind = "opened" THEN "open" ELSE "closed"
<1> DEFINE M == Mentions(l, i)
           s == CHOOSE x \in M : \A t \in M : t <= x
<1>1. M \subseteq 0..Len(l) /\ Len(l) \in Nat
  BY DEF Mentions
<1>2. s \in M /\ \A t \in M : t <= s
  <2> HIDE DEF M
  <2> QED
    BY <1>1, Greatest, Zenon DEF M
<1>3. Word(l, i) = IF l[s].kind = "opened" THEN "open" ELSE "closed"
  BY Zenon DEF Word
<1> HIDE DEF s
<1> QED
  BY <1>2, <1>3, Zenon

(* An event about another item changes nothing the journal says of an item.  *)
LEMMA MentionsAppend ==
  ASSUME NEW l \in Seq(Event), NEW e \in Event, NEW i, e.item /= i
  PROVE  Mentions(Append(l, e), i) = Mentions(l, i) /\ Word(Append(l, e), i) = Word(l, i)
<1> DEFINE L == Append(l, e)
<1>1. /\ Len(L) = Len(l) + 1 /\ Len(l) \in Nat /\ L[Len(l) + 1] = e
      /\ \A s \in 1..Len(l) : L[s] = l[s]
  OBVIOUS
<1> HIDE DEF L
<1>2. \A s \in 1..Len(L) : s = Len(l) + 1 \/ s \in 1..Len(l)
  BY <1>1
<1>3. \A s \in 1..Len(l) : s \in 1..Len(L)
  BY <1>1
<1>4. Mentions(L, i) = Mentions(l, i)
  BY <1>1, <1>2, <1>3, Zenon DEF Mentions
<1>5. Word(L, i) = Word(l, i)
  <2>1. CASE Mentions(l, i) = {}
    BY <1>4, <2>1, Zenon DEF Word
  <2>2. CASE Mentions(l, i) /= {}
    <3> DEFINE s == CHOOSE x \in Mentions(l, i) : \A t \in Mentions(l, i) : t <= x
    <3>1. Mentions(l, i) \subseteq 0..Len(l)
      BY DEF Mentions
    <3>2. s \in Mentions(l, i)
      BY <1>1, <2>2, <3>1, Greatest, Zenon
    <3>3. L[s] = l[s]
      BY <1>1, <3>2, Zenon DEF Mentions
    <3>4. Word(l, i) = IF l[s].kind = "opened" THEN "open" ELSE "closed"
      BY <2>2, Zenon DEF Word
    <3>5. Word(L, i) = IF L[s].kind = "opened" THEN "open" ELSE "closed"
      BY <1>4, <2>2, Zenon DEF Word
    <3> QED
      BY <3>3, <3>4, <3>5
  <2> QED
    BY <2>1, <2>2, Zenon
<1> QED
  BY <1>4, <1>5, Zenon DEF L

(* Folding events of an actor into its view adds no item of another's.       *)
LEMMA FoldOwn ==
  ASSUME NEW a, NEW pending \in SUBSET OwnItems(owner, a), NEW cur \in Nat,
         NEW latest \in Nat, NEW events \in Seq(Nat),
         Elems(events) = Own(log, owner, a, cur, latest)
  PROVE  FoldEvents(pending, events, cur) \subseteq OwnItems(owner, a)
<1> DEFINE F == FoldEvents(pending, events, cur)
<1>1. ASSUME NEW i, NEW k \in About(events, i, cur) PROVE owner[i] = a
  <2>1. k \in 1..Len(events) /\ log[events[k]].item = i
    BY Zenon DEF About
  <2>2. events[k] \in Own(log, owner, a, cur, latest)
    BY <2>1, Zenon DEF Elems
  <2> QED
    BY <2>1, <2>2, Zenon DEF Own
<1>2. ASSUME NEW i \in F PROVE owner[i] = a /\ i \in Items
  <2>1. i \in Items
    BY Zenon DEF FoldEvents
  <2>2. CASE About(events, i, cur) = {}
    BY <1>2, <2>2, Zenon DEF FoldEvents, OwnItems
  <2>3. CASE About(events, i, cur) /= {}
    BY <1>1, <2>1, <2>3, Zenon
  <2> QED
    BY <2>1, <2>2, <2>3, Zenon
<1> QED
  BY <1>2, Zenon DEF OwnItems

(* Folding the next events into a view that is right up to a position makes  *)
(* it right up to the last of them (applyEvent).                             *)
LEMMA Folded ==
  ASSUME log \in Seq(Event), NEW a, NEW pending \in SUBSET OwnItems(owner, a),
         NEW cur \in Nat, NEW latest \in Nat, latest <= Len(log), cur <= latest,
         NEW events \in Seq(Nat), Ascending(events),
         Elems(events) = Own(log, owner, a, cur, latest),
         Shows(log, owner, row, a, cur, pending)
  PROVE  Shows(log, owner, row, a, latest, FoldEvents(pending, events, cur))
<1> DEFINE F == FoldEvents(pending, events, cur)
<1>1. Len(log) \in Nat /\ Len(events) \in Nat
  OBVIOUS
<1>2. ASSUME NEW k \in 1..Len(events)
      PROVE  events[k] \in cur + 1 .. latest /\ owner[log[events[k]].item] = a
  <2>1. events[k] \in Own(log, owner, a, cur, latest)
    BY Zenon DEF Elems
  <2> QED
    BY <2>1, Zenon DEF Own
<1>3. ASSUME NEW i, NEW k \in About(events, i, cur)
      PROVE  /\ k \in 1..Len(events) /\ log[events[k]].item = i /\ owner[i] = a
             /\ events[k] \in Mentions(log, i)
  BY <1>1, <1>2 DEF About, Mentions
<1>4. ASSUME NEW i \in OwnItems(owner, a), Settled(log, row, i, latest)
      PROVE  i \in F <=> row[i] = "open"
  <2>0. i \in Items /\ owner[i] = a
    BY Zenon DEF OwnItems
  <2>1. CASE About(events, i, cur) = {}
    <3>1. ASSUME NEW s \in Mentions(log, i) PROVE s <= cur
      <4>1. SUFFICES ASSUME s > cur PROVE FALSE
        BY <1>1 DEF Mentions
      <4>2. s \in 1..Len(log) /\ log[s].item = i /\ s <= latest
        BY <1>4, Zenon DEF Settled, Mentions
      <4>3. s \in Own(log, owner, a, cur, latest)
        BY <1>1, <2>0, <4>1, <4>2 DEF Own
      <4>4. PICK k \in 1..Len(events) : s = events[k]
        BY <4>3, Zenon DEF Elems
      <4> QED
        BY <2>1, <4>1, <4>2, <4>4, Zenon DEF About
    <3>2. Settled(log, row, i, cur)
      BY <1>4, <3>1, Zenon DEF Settled
    <3>3. i \in F <=> i \in pending
      BY <2>0, <2>1, Zenon DEF FoldEvents
    <3> QED
      BY <3>2, <3>3, Zenon DEF Shows
  <2>2. CASE About(events, i, cur) /= {}
    <3>1. Mentions(log, i) /= {}
      BY <1>3, <2>2, Zenon
    <3>2. PICK s \in Mentions(log, i) :
            /\ \A t \in Mentions(log, i) : t <= s
            /\ Word(log, i) = IF log[s].kind = "opened" THEN "open" ELSE "closed"
      BY <3>1, LastMention, Zenon
    <3>3. s \in 1..Len(log) /\ log[s].item = i /\ s <= latest
      BY <1>4, <3>2, Zenon DEF Settled, Mentions
    <3>4. cur < s
      <4>1. PICK k \in About(events, i, cur) : TRUE
        BY <2>2, Zenon
      <4>2. events[k] <= s /\ events[k] \in cur + 1 .. latest
        BY <1>2, <1>3, <3>2, <4>1, Zenon
      <4> QED
        BY <1>1, <3>3, <4>2
    <3>5. s \in Own(log, owner, a, cur, latest)
      BY <1>1, <2>0, <3>3, <3>4 DEF Own
    <3>6. PICK k \in 1..Len(events) : s = events[k]
      BY <3>5, Zenon DEF Elems
    <3>7. k \in About(events, i, cur)
      BY <3>3, <3>4, <3>6, Zenon DEF About
    <3>8. ASSUME NEW j \in About(events, i, cur) PROVE j <= k
      <4>1. j \in 1..Len(events) /\ events[j] <= events[k]
        BY <1>3, <3>2, <3>6, Zenon
      <4>2. events[j] \in Nat /\ events[k] \in Nat
        BY <4>1
      <4> QED
        BY <1>1, <3>6, <4>1, <4>2 DEF Ascending
    <3>9. ASSUME NEW j \in About(events, i, cur), \A m \in About(events, i, cur) : m <= j
          PROVE  j = k
      <4>1. j \in 1..Len(events) /\ j <= k /\ k <= j
        BY <1>3, <3>7, <3>8, <3>9, Zenon
      <4> QED
        BY <1>1, <4>1
    <3>10. i \in F <=> \E j \in About(events, i, cur) :
                         /\ \A m \in About(events, i, cur) : m <= j
                         /\ log[events[j]].kind = "opened"
      BY <2>0, <2>2, Zenon DEF FoldEvents
    <3>11. i \in F <=> log[s].kind = "opened"
      BY <3>6, <3>7, <3>8, <3>9, <3>10, Zenon
    <3>12. row[i] = Word(log, i)
      BY <1>4, Zenon DEF Settled
    <3> QED
      BY <3>2, <3>11, <3>12, Zenon
  <2> QED
    BY <2>1, <2>2, Zenon
<1> HIDE DEF F
<1> QED
  BY <1>4, Zenon DEF Shows, F

-----------------------------------------------------------------------------
(* The steps of one stream. *)

(* The types of the fields of a client's part of the state.                  *)
LEMMA PartTypes ==
  ASSUME NEW p \in Parts
  PROVE  /\ p.conn \in Conns /\ p.head \in Nat /\ p.replay \in Replays /\ p.feed \in Seq(Nat)
         /\ p.feedOpen \in BOOLEAN /\ p.sending \in SUBSET Nat /\ p.ceiling \in Nat
         /\ p.wire \in Seq(Frames) /\ p.acks \in Seq(Nat) /\ p.cursor \in Nat
         /\ p.view \in SUBSET Items /\ p.received \in Seq(Nat) /\ p.skipped \in SUBSET Nat
         /\ p.acked \in Nat
  BY Zenon DEF Parts

(* The types of the frames on a wire.                                        *)
LEMMA FrameTypes ==
  ASSUME NEW w \in Seq(Frames)
  PROVE  /\ Len(w) \in Nat
         /\ \A k \in 1..Len(w) : /\ w[k] \in Frames /\ w[k].replay \in Replays
                                 /\ w[k].replay.latest \in Nat
                                 /\ w[k].snapshot \in SUBSET SUBSET Items
<1>1. Len(w) \in Nat /\ \A k \in 1..Len(w) : w[k] \in Frames
  OBVIOUS
<1>2. ASSUME NEW f \in Frames
      PROVE  /\ f.replay \in Replays /\ f.replay.latest \in Nat
             /\ f.snapshot \in SUBSET SUBSET Items
  <2>1. f.replay \in Replays /\ f.snapshot \in SUBSET SUBSET Items
    BY Zenon DEF Frames
  <2> QED
    BY <2>1, Zenon DEF Replays
<1> QED
  BY <1>1, <1>2, Zenon

(* A frame written after the others.                                         *)
LEMMA WireAppend ==
  ASSUME NEW l, NEW o, NEW a, NEW w \in Seq(Frames), NEW cur \in Nat, NEW f \in Frames,
         Wired(l, o, a, w, cur), FrameOk(l, o, a, w, cur, f)
  PROVE  /\ Wired(l, o, a, Append(w, f), cur) /\ Append(w, f) \in Seq(Frames)
         /\ Sent(Append(w, f), cur, Len(Append(w, f))) = f.replay.latest
<1> DEFINE u == Append(w, f)
<1>1. /\ Len(u) = Len(w) + 1 /\ Len(w) \in Nat /\ u[Len(w) + 1] = f /\ u \in Seq(Frames)
      /\ \A k \in 1..Len(w) : u[k] = w[k]
  OBVIOUS
<1>2. w = <<>> => Len(w) = 0
  OBVIOUS
<1> HIDE DEF u
<1>3. \A k \in 0..Len(w) : Sent(u, cur, k) = Sent(w, cur, k)
  BY <1>1 DEF Sent
<1>4. Wired(l, o, a, u, cur)
  <2>1. SUFFICES ASSUME NEW k \in 1..Len(u)
                 PROVE  /\ Covers(l, o, a, Sent(u, cur, k - 1), u[k].replay)
                        /\ u[k].replay.gap => u[k].snapshot /= {}
                        /\ u[k].snapshot /= {} =>
                             k = 1 /\ \E v \in SUBSET OwnItems(o, a) : u[k].snapshot = {v}
    BY Zenon DEF Wired
  <2>2. CASE k \in 1..Len(w)
    <3>1. k - 1 \in 0..Len(w) /\ u[k] = w[k]
      BY <1>1, <2>2
    <3> QED
      BY <1>3, <2>2, <3>1, Zenon DEF Wired
  <2>3. CASE k = Len(w) + 1
    <3>1. k - 1 = Len(w) /\ Len(w) \in 0..Len(w) /\ u[k] = f
      BY <1>1, <2>3
    <3>2. Sent(u, cur, k - 1) = Sent(w, cur, Len(w))
      BY <1>3, <3>1, Zenon
    <3>3. w = <<>> => k = 1
      BY <1>2, <2>3
    <3> QED
      BY <3>1, <3>2, <3>3, Zenon DEF FrameOk
  <2>4. k \in 1..Len(w) \/ k = Len(w) + 1
    BY <1>1
  <2> QED
    BY <2>2, <2>3, <2>4, Zenon
<1>5. Sent(u, cur, Len(u)) = f.replay.latest
  BY <1>1 DEF Sent
<1> QED
  BY <1>1, <1>4, <1>5, Zenon DEF u

(* The first frame taken off the wire.                                       *)
LEMMA WireTail ==
  ASSUME NEW l, NEW o, NEW a, NEW p \in Parts, NEW t \in Parts, p.wire /= <<>>,
         t.wire = Tail(p.wire), t.cursor = Head(p.wire).replay.latest,
         Wired(l, o, a, p.wire, p.cursor)
  PROVE  TailOk(l, o, a, p, t)
<1> DEFINE w == p.wire
           u == t.wire
           cur == p.cursor
           now == t.cursor
<1>0. w \in Seq(Frames) /\ cur \in Nat /\ now \in Nat /\ w /= <<>> /\ u = Tail(w)
  BY PartTypes, Zenon
<1>1. /\ Len(u) = Len(w) - 1 /\ Len(w) \in Nat \ {0} /\ u \in Seq(Frames) /\ Head(w) = w[1]
      /\ \A k \in 1..Len(u) : u[k] = w[k + 1]
  <2> HIDE DEF w, u, cur, now
  <2> QED
    BY <1>0
<1>a. Wired(l, o, a, w, cur) /\ now = w[1].replay.latest
  BY <1>1, Zenon
<1> HIDE DEF w, u, cur, now
<1>2. \A k \in 1..Len(u) : k + 1 \in 1..Len(w) /\ k + 1 /= 1 /\ (k + 1) - 1 = k
  BY <1>1
<1>3. \A k \in 1..Len(u) : u[k].snapshot = {}
  BY <1>a, <1>1, <1>2, Zenon DEF Wired
<1>4. \A k \in 0..Len(u) : Sent(u, now, k) = Sent(w, cur, k + 1)
  BY <1>a, <1>1 DEF Sent
<1>5. Wired(l, o, a, u, now)
  <2>1. SUFFICES ASSUME NEW k \in 1..Len(u)
                 PROVE  /\ Covers(l, o, a, Sent(u, now, k - 1), u[k].replay)
                        /\ u[k].replay.gap => u[k].snapshot /= {}
    BY <1>3, Zenon DEF Wired
  <2>2. k - 1 \in 0..Len(u) /\ (k - 1) + 1 = k /\ (k + 1) - 1 = k
    BY <1>1
  <2>3. Sent(u, now, k - 1) = Sent(w, cur, (k + 1) - 1)
    BY <1>4, <2>2, Zenon
  <2>4. k + 1 \in 1..Len(w) /\ u[k] = w[k + 1]
    BY <1>1
  <2>5. /\ Covers(l, o, a, Sent(w, cur, (k + 1) - 1), w[k + 1].replay)
        /\ w[k + 1].replay.gap => w[k + 1].snapshot /= {}
    BY <1>a, <1>2, <2>4, Zenon DEF Wired
  <2> QED
    BY <2>3, <2>4, <2>5, Zenon
<1>6. Sent(u, now, Len(u)) = Sent(w, cur, Len(w))
  <2>1. Len(u) \in 0..Len(u) /\ Len(u) + 1 = Len(w)
    BY <1>1
  <2> QED
    BY <1>4, <2>1, Zenon
<1>7. ~Fresh(t)
  <2>1. u /= <<>> => 1 \in 1..Len(u)
    BY <1>1
  <2> QED
    BY <1>3, <2>1, Zenon DEF Fresh, u
<1> QED
  BY <1>1, <1>2, <1>5, <1>6, <1>7, Zenon DEF TailOk, w, u, cur, now, SentTo

(* What has been written to a client ends no higher than the stream's        *)
(* ceiling.                                                                  *)
LEMMA WireAt ==
  ASSUME NEW l, NEW p \in Parts
  PROVE  /\ SentTo(p) \in Nat
         /\ Bounded(l, p) /\ Streaming(p) => SentTo(p) <= p.ceiling
         /\ p.wire = <<>> => SentTo(p) = p.cursor
<1>1. /\ p.wire \in Seq(Frames) /\ p.cursor \in Nat /\ Len(p.wire) \in Nat
      /\ Len(p.wire) = 0 \/ Len(p.wire) \in 1..Len(p.wire)
  BY PartTypes
<1>2. \A k \in 1..Len(p.wire) : p.wire[k].replay.latest \in Nat
  BY <1>1, FrameTypes, Zenon
<1>3. SentTo(p) = IF Len(p.wire) = 0 THEN p.cursor ELSE p.wire[Len(p.wire)].replay.latest
  BY Zenon DEF SentTo, Sent
<1>4. SentTo(p) \in Nat
  BY <1>1, <1>2, <1>3, Zenon
<1>5. Bounded(l, p) /\ Streaming(p) => SentTo(p) <= p.ceiling
  BY <1>1, <1>3, Zenon DEF Bounded
<1>6. p.wire = <<>> => SentTo(p) = p.cursor
  BY <1>3, Zenon
<1> QED
  BY <1>4, <1>5, <1>6, Zenon

(* A frame without a snapshot does not change what the one before it shows.  *)
LEMMA FreshAppend ==
  ASSUME NEW p \in Parts, NEW t \in Parts, NEW f \in Frames, f.snapshot = {},
         t.wire = Append(p.wire, f), t.cursor = p.cursor, t.view = p.view
  PROVE  Told(t) = Told(p) /\ Shown(t) = Shown(p)
<1>1. p.wire \in Seq(Frames)
  BY PartTypes, Zenon
<1>2. CASE p.wire = <<>>
  <2>1. t.wire = <<f>> /\ t.wire[1] = f
    BY <1>2
  <2> QED
    BY <1>2, <2>1, Zenon DEF Told, Shown, Fresh
<1>3. CASE p.wire /= <<>>
  <2>1. t.wire /= <<>> /\ t.wire[1] = p.wire[1]
    BY <1>1, <1>3
  <2> QED
    BY <1>3, <2>1, Zenon DEF Told, Shown, Fresh
<1> QED
  BY <1>2, <1>3, Zenon

(* SubscribeActor: the captured page and the empty channel meet at the head. *)
LEMMA SubscribeKeeps ==
  ASSUME log \in Seq(Event), NEW c, NEW p \in Parts, NEW t \in Parts,
         PartInv(log, owner, row, Actor[c], p), p.conn = "down", p.cursor <= Len(log),
         t.conn = "recover", t.head = Len(log),
         t.replay = ReplayThrough(c, p.cursor, Len(log)), t.feed = <<>>, t.feedOpen = TRUE,
         t.sending = p.sending, t.ceiling = p.ceiling, t.wire = p.wire, t.acks = p.acks,
         t.cursor = p.cursor, t.view = p.view, t.received = p.received,
         t.skipped = p.skipped, t.acked = p.acked
  PROVE  PartInv(log, owner, row, Actor[c], t)
<1> DEFINE a == Actor[c]
<1> HIDE DEF a
<1>1. /\ Wired(log, owner, a, p.wire, p.cursor) /\ Phase(log, owner, a, p)
      /\ Bounded(log, p) /\ Handed(log, owner, a, p.cursor, p.received, p.skipped)
      /\ Agrees(log, owner, row, a, p)
  BY Zenon DEF PartInv, a
<1>2. /\ p.cursor \in Nat /\ Len(log) \in Nat /\ Len(log) <= Len(log)
      /\ t.replay \in Replays /\ Buffer \in Nat
  BY PartTypes, JournalConfig
<1>3. /\ Len(t.replay.events) <= PageLimit
      /\ p.cursor <= t.replay.latest /\ t.replay.latest <= Len(log)
      /\ t.replay.gap => /\ t.replay.latest = Len(log) /\ t.replay.events = <<>>
                         /\ p.cursor + Retention < Len(log)
      /\ ~t.replay.gap => /\ Ascending(t.replay.events)
                          /\ Elems(t.replay.events) =
                               Own(log, owner, a, p.cursor, t.replay.latest)
  <2>1. PageOk(c, p.cursor, Len(log), t.replay)
    BY <1>2, ReplayPage, Zenon
  <2> QED
    BY <2>1, Zenon DEF PageOk, a
<1>4. Covers(log, owner, a, t.cursor, t.replay)
  BY <1>3, Zenon DEF Covers
<1>5. Phase(log, owner, a, t)
  BY <1>1, <1>3, <1>4, Zenon DEF Phase
<1>6. Queued(log, owner, a, t)
  <2>1. Ascending(<<>>) /\ Elems(<<>>) = {} /\ Len(<<>>) = 0
    BY DEF Ascending, Elems
  <2>2. Own(log, owner, a, Len(log), Len(log)) = {}
    BY <1>2 DEF Own
  <2> QED
    BY <1>2, <2>1, <2>2 DEF Queued, Follows, Idle, From
<1>7. Bounded(log, t)
  BY <1>1, <1>2, <1>3, Zenon DEF Bounded, Streaming
<1>8. Agrees(log, owner, row, a, t)
  BY <1>1, Zenon DEF Agrees, Streaming
<1> QED
  BY <1>1, <1>5, <1>6, <1>7, <1>8, Zenon DEF PartInv, a

(* What the first frame of a connection changes of a client's part: it is
   written from the page that was read and the pending rows.                 *)
Recovered(o, r, a, p, f, t) ==
  /\ p.conn = "recover" /\ f.replay = p.replay /\ f.snapshot = {OpenItems(o, r, a)}
  /\ t.conn = IF p.replay.latest < p.head THEN "pages" ELSE "live"
  /\ t.ceiling = p.replay.latest /\ t.wire = Append(p.wire, f)
  /\ t.head = p.head /\ t.replay = p.replay /\ t.feed = p.feed /\ t.feedOpen = p.feedOpen
  /\ t.sending = p.sending /\ t.acks = p.acks /\ t.cursor = p.cursor /\ t.view = p.view
  /\ t.received = p.received /\ t.skipped = p.skipped /\ t.acked = p.acked

(* Recover and the first frame: the snapshot shows every item as it is.      *)
LEMMA RecoveryKeeps ==
  ASSUME NEW l \in Seq(Event), NEW o, NEW r, NEW a, NEW p \in Parts, NEW t \in Parts,
         NEW f \in Frames,
         PartInv(l, o, r, a, p), Recovered(o, r, a, p, f, t)
  PROVE  PartInv(l, o, r, a, t)
<1>0. /\ p.conn = "recover" /\ f.replay = p.replay /\ f.snapshot = {OpenItems(o, r, a)}
      /\ t.conn = IF p.replay.latest < p.head THEN "pages" ELSE "live"
      /\ t.ceiling = p.replay.latest /\ t.wire = Append(p.wire, f)
      /\ t.head = p.head /\ t.replay = p.replay /\ t.feed = p.feed /\ t.feedOpen = p.feedOpen
      /\ t.sending = p.sending /\ t.acks = p.acks /\ t.cursor = p.cursor /\ t.view = p.view
      /\ t.received = p.received /\ t.skipped = p.skipped /\ t.acked = p.acked
  BY Zenon DEF Recovered
<1> USE <1>0
<1>1. /\ Wired(l, o, a, p.wire, p.cursor) /\ Phase(l, o, a, p) /\ Queued(l, o, a, p)
      /\ Bounded(l, p) /\ Handed(l, o, a, p.cursor, p.received, p.skipped)
      /\ Agrees(l, o, r, a, p)
  BY Zenon DEF PartInv
<1>2. /\ p.cursor \in Nat /\ Len(l) \in Nat /\ p.replay \in Replays /\ p.head \in Nat
      /\ p.wire \in Seq(Frames) /\ p.replay.latest \in Nat
  BY PartTypes DEF Replays
<1>3. /\ p.wire = <<>> /\ p.acks = <<>> /\ p.sending = {} /\ p.replay.latest <= p.head
      /\ Covers(l, o, a, p.cursor, p.replay)
  BY <1>1, Zenon DEF Phase
<1>4. t.wire = <<f>> /\ t.wire /= <<>> /\ Len(t.wire) = 1 /\ t.wire[1] = f
  BY <1>3
<1>5. Sent(p.wire, p.cursor, Len(p.wire)) = p.cursor
  BY <1>3, Zenon DEF Sent
<1>6. f.snapshot /= {} /\ \E v \in SUBSET OwnItems(o, a) : f.snapshot = {v}
  BY Zenon DEF OwnItems, OpenItems
<1>7. Wired(l, o, a, t.wire, t.cursor) /\ SentTo(t) = p.replay.latest
  <2>1. FrameOk(l, o, a, p.wire, p.cursor, f)
    BY <1>3, <1>5, <1>6, Zenon DEF FrameOk
  <2>2. /\ Wired(l, o, a, Append(p.wire, f), p.cursor)
        /\ Sent(Append(p.wire, f), p.cursor, Len(Append(p.wire, f))) = f.replay.latest
    BY <1>1, <1>2, <2>1, WireAppend, SMTT(30)
  <2> QED
    BY <2>2, Zenon DEF SentTo
<1>8. Phase(l, o, a, t)
  BY <1>2, <1>3, <1>7, Zenon DEF Phase
<1>9. Queued(l, o, a, t)
  <2>1. From(t) = From(p) /\ ~Idle(t) /\ ~Idle(p)
    BY <1>2, <1>3 DEF From, Idle
  <2> QED
    BY <1>1, <2>1, Zenon DEF Queued
<1>10. Bounded(l, t)
  <2>1. p.cursor <= p.replay.latest /\ p.replay.latest <= Len(l)
    BY <1>3, Zenon DEF Covers
  <2>2. \A k \in 1..Len(t.wire) : t.wire[k].replay.latest <= t.ceiling
    BY <1>2, <1>4
  <2> QED
    BY <1>1, <1>3, <2>1, <2>2, Zenon DEF Bounded
<1>11. Agrees(l, o, r, a, t)
  <2> DEFINE V == OpenItems(o, r, a)
  <2>0. f.snapshot = {V} /\ UNION {V} = V
    OBVIOUS
  <2> HIDE DEF V
  <2>1. Fresh(t) /\ Shown(t) = V
    BY <1>4, <1>6, <2>0, Zenon DEF Fresh, Shown
  <2>2. Shows(l, o, r, a, Told(t), Shown(t))
    BY <2>1, Zenon DEF Shows, OwnItems, OpenItems, V
  <2> QED
    BY <1>1, <2>2, Zenon DEF Agrees
<1> QED
  BY <1>1, <1>7, <1>8, <1>9, <1>10, <1>11, Zenon DEF PartInv

(* stream returns: what was written is still on its way.                     *)
LEMMA ReturnKeeps ==
  ASSUME NEW l \in Seq(Event), NEW o, NEW r, NEW a, NEW p \in Parts, NEW t \in Parts,
         PartInv(l, o, r, a, p),
         t.conn = "closing", t.head = 0, t.replay = NoReplay, t.feed = <<>>,
         t.feedOpen = FALSE, t.sending = {}, t.ceiling = 0, t.wire = p.wire,
         \A n \in 1..Len(t.acks) : t.acks[n] <= p.cursor,
         t.cursor = p.cursor, t.view = p.view, t.received = p.received,
         t.skipped = p.skipped, t.acked = p.acked
  PROVE  PartInv(l, o, r, a, t)
<1>1. /\ Wired(l, o, a, p.wire, p.cursor) /\ Bounded(l, p)
      /\ Handed(l, o, a, p.cursor, p.received, p.skipped) /\ Agrees(l, o, r, a, p)
  BY Zenon DEF PartInv
<1>2. Len(l) \in Nat /\ Buffer \in Nat /\ PageLimit \in Nat
  BY JournalConfig
<1>3. Phase(l, o, a, t)
  BY Zenon DEF Phase
<1>4. Queued(l, o, a, t)
  BY <1>2 DEF Queued, Idle
<1>5. Bounded(l, t)
  BY <1>1, <1>2 DEF Bounded, Streaming, NoReplay
<1>6. Agrees(l, o, r, a, t)
  BY <1>1, Zenon DEF Agrees, Streaming
<1> QED
  BY <1>1, <1>3, <1>4, <1>5, <1>6, Zenon DEF PartInv

(* A lost connection, or the end of a closed one: nothing is on its way.     *)
LEMMA DownKeeps ==
  ASSUME NEW l \in Seq(Event), NEW o, NEW r, NEW a, NEW p \in Parts, NEW t \in Parts,
         PartInv(l, o, r, a, p),
         t.conn = "down", t.head <= Len(l), t.ceiling <= Len(l),
         Len(t.replay.events) <= PageLimit, t.feed = <<>>, t.feedOpen = FALSE,
         t.sending = {}, t.wire = <<>>, t.acks = <<>>,
         t.cursor = p.cursor, t.view = p.view, t.received = p.received,
         t.skipped = p.skipped, t.acked = p.acked
  PROVE  PartInv(l, o, r, a, t)
<1>1. /\ Wired(l, o, a, p.wire, p.cursor) /\ Bounded(l, p)
      /\ Handed(l, o, a, p.cursor, p.received, p.skipped) /\ Agrees(l, o, r, a, p)
  BY Zenon DEF PartInv
<1>2. Len(l) \in Nat /\ Buffer \in Nat
  BY JournalConfig
<1>3. Wired(l, o, a, t.wire, t.cursor)
  BY DEF Wired
<1>4. Phase(l, o, a, t)
  BY Zenon DEF Phase
<1>5. Queued(l, o, a, t)
  BY <1>2 DEF Queued, Idle
<1>6. Bounded(l, t)
  BY <1>1, <1>2 DEF Bounded, Streaming
<1>7. Agrees(l, o, r, a, t)
  BY <1>1, Zenon DEF Agrees, Streaming
<1> QED
  BY <1>1, <1>3, <1>4, <1>5, <1>6, <1>7, Zenon DEF PartInv

(* The catch-up loop: the next page starts where the last one ended.         *)
LEMMA PageKeeps ==
  ASSUME log \in Seq(Event), NEW c, NEW p \in Parts, NEW t \in Parts,
         NEW f \in Frames,
         PartInv(log, owner, row, Actor[c], p), p.conn = "pages",
         f.replay = ReplayThrough(c, p.replay.latest, p.head), f.snapshot = {},
         ~f.replay.gap, ~(f.replay.latest <= p.replay.latest),
         t.conn = IF f.replay.latest < p.head THEN "pages" ELSE "live",
         t.replay = f.replay, t.ceiling = f.replay.latest, t.wire = Append(p.wire, f),
         t.head = p.head, t.feed = p.feed, t.feedOpen = p.feedOpen, t.sending = p.sending,
         t.acks = p.acks, t.cursor = p.cursor, t.view = p.view, t.received = p.received,
         t.skipped = p.skipped, t.acked = p.acked
  PROVE  PartInv(log, owner, row, Actor[c], t)
<1> DEFINE a == Actor[c]
           at == p.replay.latest
           to == f.replay.latest
<1> HIDE DEF a
<1>1. /\ Wired(log, owner, a, p.wire, p.cursor) /\ Phase(log, owner, a, p)
      /\ Queued(log, owner, a, p) /\ Bounded(log, p)
      /\ Handed(log, owner, a, p.cursor, p.received, p.skipped)
      /\ Agrees(log, owner, row, a, p)
  BY Zenon DEF PartInv, a
<1>2. /\ p.cursor \in Nat /\ Len(log) \in Nat /\ p.replay \in Replays /\ p.head \in Nat
      /\ p.wire \in Seq(Frames) /\ at \in Nat
  BY PartTypes DEF Replays
<1>3. /\ at = SentTo(p) /\ p.ceiling = at /\ at < p.head /\ p.sending = {}
  BY <1>1, Zenon DEF Phase
<1>4. p.head <= Len(log) /\ at <= p.head
  BY <1>1, <1>2, <1>3 DEF Bounded
<1>5. PageOk(c, at, p.head, f.replay)
  BY <1>2, <1>4, ReplayPage, Zenon
<1>6. /\ f.replay \in Replays /\ to \in Nat /\ at < to /\ to <= p.head
      /\ Ascending(f.replay.events) /\ Len(f.replay.events) <= PageLimit
      /\ Elems(f.replay.events) = Own(log, owner, a, at, to)
  <2>1. f.replay \in Replays /\ to \in Nat
    BY <1>5, Zenon DEF PageOk, Replays
  <2> QED
    BY <1>2, <1>5, <2>1 DEF PageOk, a
<1>7. FrameOk(log, owner, a, p.wire, p.cursor, f)
  <2>1. Covers(log, owner, a, at, f.replay)
    BY <1>2, <1>4, <1>6, SMTT(30) DEF Covers
  <2>2. Sent(p.wire, p.cursor, Len(p.wire)) = at
    BY <1>3, Zenon DEF SentTo
  <2> QED
    BY <2>1, <2>2, Zenon DEF FrameOk
<1>8. Wired(log, owner, a, t.wire, t.cursor) /\ SentTo(t) = to
  BY <1>1, <1>2, <1>7, WireAppend, SMTT(30) DEF SentTo
<1> HIDE DEF at, to
<1>9. Phase(log, owner, a, t)
  BY <1>2, <1>3, <1>6, <1>8, Zenon DEF Phase, to
<1>10. Queued(log, owner, a, t)
  <2>1. From(t) = From(p) /\ ~Idle(t) /\ ~Idle(p)
    BY <1>2, <1>6 DEF From, Idle, to
  <2> QED
    BY <1>1, <2>1, Zenon DEF Queued
<1>11. Streaming(t) /\ Streaming(p)
  BY Zenon DEF Streaming
<1>12. Bounded(log, t)
  <2>1. p.cursor <= at /\ \A k \in 1..Len(p.wire) : p.wire[k].replay.latest <= at
    BY <1>1, <1>3, <1>11, Zenon DEF Bounded
  <2>2. \A k \in 1..Len(p.wire) : p.wire[k].replay.latest \in Nat
    BY <1>2, FrameTypes, Zenon
  <2>3. /\ Len(t.wire) = Len(p.wire) + 1 /\ Len(p.wire) \in Nat /\ t.wire[Len(p.wire) + 1] = f
        /\ \A k \in 1..Len(p.wire) : t.wire[k] = p.wire[k]
    BY <1>2
  <2>4. ASSUME NEW k \in 1..Len(t.wire) PROVE t.wire[k].replay.latest <= to
    <3>1. CASE k = Len(p.wire) + 1
      BY <1>6, <2>3, <3>1 DEF to
    <3>2. CASE k \in 1..Len(p.wire)
      <4>1. p.wire[k].replay.latest <= at /\ p.wire[k].replay.latest \in Nat
        BY <2>1, <2>2, <3>2, Zenon
      <4>2. at <= to
        BY <1>2, <1>6
      <4>3. p.wire[k].replay.latest <= to
        BY <1>2, <1>6, <4>1, <4>2, AtMost, Zenon
      <4> QED
        BY <2>3, <3>2, <4>3, Zenon
    <3> QED
      BY <2>3, <3>1, <3>2
  <2>5. p.cursor <= to /\ to <= Len(log)
    BY <1>2, <1>4, <1>6, <2>1
  <2> QED
    BY <1>1, <1>6, <2>4, <2>5, Zenon DEF Bounded, to
<1>13. Agrees(log, owner, row, a, t)
  <2>1. Told(t) = Told(p) /\ Shown(t) = Shown(p)
    BY FreshAppend, Zenon
  <2> QED
    BY <1>1, <1>11, <2>1, Zenon DEF Agrees
<1> QED
  BY <1>1, <1>8, <1>9, <1>10, <1>12, <1>13, Zenon DEF PartInv, a

(* The live loop takes the next event of its actor.                          *)
LEMMA TakeKeeps ==
  ASSUME NEW l \in Seq(Event), NEW o, NEW r, NEW a, NEW p \in Parts, NEW t \in Parts,
         PartInv(l, o, r, a, p), p.conn = "live", p.sending = {}, p.feed /= <<>>,
         t.conn = p.conn, t.sending = {Head(p.feed)}, t.feed = Tail(p.feed),
         t.ceiling = Head(p.feed), t.head = p.head, t.replay = p.replay,
         t.feedOpen = p.feedOpen, t.wire = p.wire, t.acks = p.acks, t.cursor = p.cursor,
         t.view = p.view, t.received = p.received, t.skipped = p.skipped,
         t.acked = p.acked
  PROVE  PartInv(l, o, r, a, t)
<1> DEFINE s == Head(p.feed)
           at == p.ceiling
           S == Own(l, o, a, at, Len(l))
<1>1. /\ Wired(l, o, a, p.wire, p.cursor) /\ Phase(l, o, a, p) /\ Queued(l, o, a, p)
      /\ Bounded(l, p) /\ Handed(l, o, a, p.cursor, p.received, p.skipped)
      /\ Agrees(l, o, r, a, p)
  BY Zenon DEF PartInv
<1>2. /\ p.cursor \in Nat /\ Len(l) \in Nat /\ p.feed \in Seq(Nat) /\ at \in Nat
      /\ p.wire \in Seq(Frames) /\ Len(p.feed) \in Nat /\ p.feedOpen \in BOOLEAN
  BY PartTypes
<1>3. SentTo(t) = SentTo(p) /\ SentTo(p) = at /\ SentTo(p) \in Nat
  BY <1>1, <1>2, Zenon DEF Phase, SentTo
<1>4. /\ Len(p.feed) <= Buffer /\ Ascending(p.feed) /\ Elems(p.feed) \subseteq S
      /\ \A x \in S : x \in Elems(p.feed) \/ (~p.feedOpen /\ \A y \in Elems(p.feed) : y < x)
  BY <1>1, Zenon DEF Queued, Idle, From, Follows
<1>5. /\ s \in Elems(p.feed) /\ Len(t.feed) = Len(p.feed) - 1 /\ Ascending(t.feed)
      /\ Elems(t.feed) = Elems(p.feed) \ {s} /\ \A y \in Elems(t.feed) : s < y
  BY <1>2, <1>4, Taken
<1> HIDE DEF s, at, S
<1>6. s \in S /\ s \in Nat /\ at < s /\ s <= Len(l)
  BY <1>2, <1>4, <1>5 DEF S, Own
<1>7. ASSUME NEW x \in S PROVE x \in Nat /\ at < x /\ x <= Len(l)
  BY <1>2 DEF S, Own
<1>8. Own(l, o, a, at, s) = {s}
  <2>1. ASSUME NEW x \in Own(l, o, a, at, s) PROVE x = s
    <3>1. x \in S /\ x <= s /\ x \in Nat
      BY <1>2, <1>6 DEF Own, S
    <3>2. CASE x \in Elems(p.feed)
      <4>1. x /= s => s < x
        BY <1>5, <3>2, Zenon
      <4> QED
        BY <1>6, <3>1, <4>1
    <3>3. CASE x \notin Elems(p.feed)
      BY <1>4, <1>5, <1>6, <3>1, <3>3
    <3> QED
      BY <3>2, <3>3, Zenon
  <2>2. s \in Own(l, o, a, at, s)
    BY <1>2, <1>6 DEF Own, S
  <2> QED
    BY <2>1, <2>2, Zenon
<1>9. Phase(l, o, a, t)
  BY <1>2, <1>3, <1>6, <1>8, Zenon DEF Phase, s, at
<1>10. Queued(l, o, a, t)
  <2>1. \A x \in Own(l, o, a, s, Len(l)) : x \in S /\ x /= s
    BY <1>2, <1>6 DEF Own, S
  <2>2. \A y \in Elems(t.feed) : y \in Own(l, o, a, s, Len(l))
    <3>1. ASSUME NEW y \in Elems(t.feed) PROVE y \in Own(l, o, a, s, Len(l))
      <4>1. y \in S /\ s < y
        BY <1>4, <1>5, Zenon
      <4> QED
        BY <1>2, <1>6, <1>7, <4>1 DEF Own, S
    <3> QED
      BY <3>1, Zenon
  <2>3. ASSUME NEW x \in Own(l, o, a, s, Len(l))
        PROVE  x \in Elems(t.feed) \/ (~t.feedOpen /\ \A y \in Elems(t.feed) : y < x)
    BY <1>4, <1>5, <2>1, Zenon
  <2>4. Follows(l, o, a, s, t.feed, t.feedOpen)
    BY <1>5, <2>2, <2>3, Zenon DEF Follows
  <2>5. From(t) = s /\ ~Idle(t)
    BY Zenon DEF From, Idle, s
  <2>6. Len(t.feed) <= Buffer
    BY <1>2, <1>4, <1>5, JournalConfig
  <2> QED
    BY <2>4, <2>5, <2>6, Zenon DEF Queued
<1>11. Streaming(t) /\ Streaming(p) /\ t.ceiling = s
  BY Zenon DEF Streaming, s
<1>12. Bounded(l, t)
  <2>1. \A k \in 1..Len(p.wire) : p.wire[k].replay.latest \in Nat
    BY <1>2, FrameTypes, Zenon
  <2>2. p.cursor <= at /\ \A k \in 1..Len(p.wire) : p.wire[k].replay.latest <= at
    BY <1>1, <1>11, Zenon DEF Bounded, at
  <2>3. at <= s
    BY <1>2, <1>6
  <2>4. p.cursor <= s /\ \A k \in 1..Len(p.wire) : p.wire[k].replay.latest <= s
    BY <1>2, <1>6, <2>1, <2>2, <2>3, AtMost, Zenon
  <2> QED
    BY <1>1, <1>6, <1>11, <2>4, Zenon DEF Bounded
<1>13. Agrees(l, o, r, a, t)
  BY <1>1, <1>11, Zenon DEF Agrees, Told, Shown, Fresh
<1> QED
  BY <1>1, <1>9, <1>10, <1>12, <1>13, Zenon DEF PartInv

(* The live loop writes the event it has taken.                              *)
LEMMA WriteKeeps ==
  ASSUME NEW l \in Seq(Event), NEW o, NEW r, NEW a, NEW p \in Parts, NEW t \in Parts,
         PartInv(l, o, r, a, p), p.conn = "live", NEW s \in p.sending,
         t.wire = Append(p.wire, EventFrame(s)), t.sending = {},
         t.conn = p.conn, t.head = p.head, t.replay = p.replay, t.feed = p.feed,
         t.feedOpen = p.feedOpen, t.ceiling = p.ceiling, t.acks = p.acks,
         t.cursor = p.cursor, t.view = p.view, t.received = p.received,
         t.skipped = p.skipped, t.acked = p.acked
  PROVE  PartInv(l, o, r, a, t)
<1> DEFINE f == EventFrame(s)
<1>1. /\ Wired(l, o, a, p.wire, p.cursor) /\ Phase(l, o, a, p) /\ Queued(l, o, a, p)
      /\ Bounded(l, p) /\ Handed(l, o, a, p.cursor, p.received, p.skipped)
      /\ Agrees(l, o, r, a, p)
  BY Zenon DEF PartInv
<1>2. /\ p.cursor \in Nat /\ Len(l) \in Nat /\ p.ceiling \in Nat /\ p.wire \in Seq(Frames)
      /\ SentTo(p) \in Nat
  <2>1. SentTo(p) \in Nat
    BY WireAt, Zenon
  <2> QED
    BY <2>1, PartTypes
<1>3. /\ s = p.ceiling /\ SentTo(p) < s /\ Own(l, o, a, SentTo(p), s) = {s}
  BY <1>1, Zenon DEF Phase
<1>4. s <= Len(l) /\ s \in Nat
  BY <1>1, <1>2, <1>3, Zenon DEF Bounded
<1>5. /\ f.replay.gap = FALSE /\ f.replay.latest = s /\ f.replay.events = <<s>>
      /\ f.snapshot = {}
  BY Zenon DEF EventFrame
<1>6. f \in Frames
  BY <1>4 DEF EventFrame, Frames, Replays
<1> HIDE DEF f
<1>7. FrameOk(l, o, a, p.wire, p.cursor, f)
  <2>1. Ascending(<<s>>) /\ Elems(<<s>>) = {s}
    BY DEF Ascending, Elems
  <2>2. SentTo(p) <= s
    BY <1>2, <1>3, <1>4
  <2>3. Covers(l, o, a, SentTo(p), f.replay)
    BY <1>3, <1>4, <1>5, <2>1, <2>2, Zenon DEF Covers
  <2> QED
    BY <1>5, <2>3, Zenon DEF FrameOk, SentTo
<1>8. Wired(l, o, a, t.wire, t.cursor) /\ SentTo(t) = s
  <2>1. t.wire = Append(p.wire, f) /\ f.replay.latest = s
    BY <1>5, Zenon DEF f
  <2> QED
    BY <1>1, <1>2, <1>6, <1>7, <2>1, WireAppend, SMTT(30) DEF SentTo
<1>9. Phase(l, o, a, t)
  BY <1>3, <1>8, Zenon DEF Phase
<1>10. Queued(l, o, a, t)
  BY <1>1, Zenon DEF Queued, From, Idle
<1>11. Streaming(t) /\ Streaming(p)
  BY Zenon DEF Streaming
<1>12. Bounded(l, t)
  <2>1. /\ Len(t.wire) = Len(p.wire) + 1 /\ Len(p.wire) \in Nat /\ t.wire[Len(p.wire) + 1] = f
        /\ \A k \in 1..Len(p.wire) : t.wire[k] = p.wire[k]
    BY <1>2 DEF f
  <2>2. ASSUME NEW k \in 1..Len(t.wire) PROVE t.wire[k].replay.latest <= t.ceiling
    <3>1. CASE k = Len(p.wire) + 1
      BY <1>2, <1>3, <1>5, <2>1, <3>1
    <3>2. CASE k \in 1..Len(p.wire)
      BY <1>1, <1>11, <2>1, <3>2, Zenon DEF Bounded
    <3> QED
      BY <2>1, <3>1, <3>2
  <2> QED
    BY <1>1, <1>11, <2>2, Zenon DEF Bounded
<1>13. Agrees(l, o, r, a, t)
  <2>1. t.wire = Append(p.wire, f)
    BY Zenon DEF f
  <2>2. Told(t) = Told(p) /\ Shown(t) = Shown(p)
    BY <1>5, <1>6, <2>1, FreshAppend, Zenon
  <2> QED
    BY <1>1, <1>11, <2>2, Zenon DEF Agrees
<1> QED
  BY <1>1, <1>8, <1>9, <1>10, <1>12, <1>13, Zenon DEF PartInv

(* An acknowledgement is read and recorded.                                  *)
LEMMA AckKeeps ==
  ASSUME NEW l \in Seq(Event), NEW o, NEW r, NEW a, NEW p \in Parts, NEW t \in Parts,
         PartInv(l, o, r, a, p), p.conn = "live", p.acks /= <<>>, t.acks = Tail(p.acks),
         t.acked \in {Head(p.acks), p.acked},
         t.conn = p.conn, t.head = p.head, t.replay = p.replay, t.feed = p.feed,
         t.feedOpen = p.feedOpen, t.sending = p.sending, t.ceiling = p.ceiling,
         t.wire = p.wire, t.cursor = p.cursor, t.view = p.view,
         t.received = p.received, t.skipped = p.skipped
  PROVE  PartInv(l, o, r, a, t)
<1>1. /\ Wired(l, o, a, p.wire, p.cursor) /\ Phase(l, o, a, p) /\ Queued(l, o, a, p)
      /\ Bounded(l, p) /\ Handed(l, o, a, p.cursor, p.received, p.skipped)
      /\ Agrees(l, o, r, a, p)
  BY Zenon DEF PartInv
<1>2. p.acks \in Seq(Nat)
  BY PartTypes, Zenon
<1>3. /\ Len(t.acks) = Len(p.acks) - 1 /\ Len(p.acks) \in Nat \ {0} /\ Head(p.acks) = p.acks[1]
      /\ \A n \in 1..Len(t.acks) : t.acks[n] = p.acks[n + 1]
  BY <1>2
<1>4. 1 \in 1..Len(p.acks) /\ \A n \in 1..Len(t.acks) : n + 1 \in 1..Len(p.acks)
  BY <1>3
<1>5. Head(p.acks) <= p.cursor /\ \A n \in 1..Len(t.acks) : t.acks[n] <= p.cursor
  BY <1>1, <1>3, <1>4, Zenon DEF Bounded
<1>6. Phase(l, o, a, t)
  BY <1>1, Zenon DEF Phase, SentTo
<1>7. Queued(l, o, a, t)
  BY <1>1, Zenon DEF Queued, From, Idle
<1>8. Bounded(l, t)
  BY <1>1, <1>5, Zenon DEF Bounded, Streaming
<1>9. Agrees(l, o, r, a, t)
  BY <1>1, Zenon DEF Agrees, Streaming, Told, Shown, Fresh
<1> QED
  BY <1>1, <1>6, <1>7, <1>8, <1>9, Zenon DEF PartInv

(* A row changes before its event: until then the journal's last word on the *)
(* item is out of date.                                                      *)
LEMMA RowKeeps ==
  ASSUME NEW l \in Seq(Event), NEW o, NEW r \in Rows, NEW a, NEW p \in Parts,
         PartInv(l, o, r, a, p), \A s \in 1..Len(l) : Happened(r, l[s]),
         NEW i \in Items, NEW to,
         \/ r[i] = "absent" /\ to = "open"
         \/ r[i] = "open" /\ to = "closed"
  PROVE  PartInv(l, o, [r EXCEPT ![i] = to], a, p)
<1> DEFINE R == [r EXCEPT ![i] = to]
<1>1. R[i] = to /\ \A j \in Items : j /= i => R[j] = r[j]
  BY Zenon DEF Rows
<1> HIDE DEF R
<1>2. Word(l, i) /= to
  <2>1. CASE Mentions(l, i) = {}
    BY <2>1, Zenon DEF Word
  <2>2. CASE Mentions(l, i) /= {}
    <3>1. PICK s \in Mentions(l, i) :
            Word(l, i) = IF l[s].kind = "opened" THEN "open" ELSE "closed"
      BY <2>2, LastMention, Zenon
    <3>2. s \in 1..Len(l) /\ l[s].item = i
      BY Zenon DEF Mentions
    <3>3. r[i] = "closed" \/ (l[s].kind = "opened" /\ r[i] = "open")
      BY <3>2, Zenon DEF Happened
    <3> QED
      BY <3>1, <3>3, Zenon
  <2> QED
    BY <2>1, <2>2, Zenon
<1>3. Agrees(l, o, R, a, p)
  <2>1. Agrees(l, o, r, a, p)
    BY Zenon DEF PartInv
  <2>2. ASSUME NEW j \in OwnItems(o, a), Settled(l, R, j, Told(p))
        PROVE  j /= i /\ R[j] = r[j] /\ Settled(l, r, j, Told(p))
    BY <1>1, <1>2, <2>2, Zenon DEF Settled, OwnItems
  <2> QED
    BY <2>1, <2>2, Zenon DEF Agrees, Shows
<1> QED
  BY <1>3, Zenon DEF PartInv, R

(* What has been handed to a client, followed by the page that starts there. *)
LEMMA HandedNext ==
  ASSUME NEW l, NEW o, NEW a, NEW cur \in Nat, NEW got \in Seq(Nat), NEW over,
         NEW page \in Replays, Handed(l, o, a, cur, got, over), Covers(l, o, a, cur, page)
  PROVE  Handed(l, o, a, page.latest, got \o page.events,
                IF page.gap THEN over \union Own(l, o, a, cur, page.latest) ELSE over)
<1> DEFINE to == page.latest
           events == page.events
           S == Own(l, o, a, 0, cur)
           N == Own(l, o, a, cur, to)
<1>1. to \in Nat /\ events \in Seq(Nat)
  BY Zenon DEF Replays
<1>2. /\ Ascending(got) /\ Elems(got) \subseteq S /\ S \subseteq over \union Elems(got)
  BY Zenon DEF Handed
<1>3. cur <= to /\ 0 <= cur /\ 0 \in Nat
  BY DEF Covers
<1>4. Own(l, o, a, 0, to) = S \union N
  BY <1>1, <1>3, OwnSplit
<1>5. CASE page.gap
  <2>1. got \o events = got
    BY <1>5, ConcatNone, Zenon DEF Covers
  <2> HIDE DEF S, N
  <2>2. Elems(got) \subseteq S \union N /\ S \union N \subseteq (over \union N) \union Elems(got)
    BY <1>2, Zenon
  <2> QED
    BY <1>2, <1>4, <1>5, <2>1, <2>2, Zenon DEF Handed, N
<1>6. CASE ~page.gap
  <2>1. Ascending(events) /\ Elems(events) = N
    BY <1>6, Zenon DEF Covers
  <2>2. /\ \A x \in Elems(got) : x <= cur
        /\ \A x \in Elems(events) : cur < x
    BY <1>1, <1>2, <2>1 DEF Own
  <2> HIDE DEF S, N, events
  <2>3. /\ Ascending(got \o events)
        /\ Elems(got \o events) = Elems(got) \union Elems(events)
    BY <1>1, <1>2, <2>1, <2>2, Concatenated, Zenon
  <2>4. /\ Elems(got \o events) \subseteq S \union N
        /\ S \union N \subseteq over \union Elems(got \o events)
    BY <1>2, <2>1, <2>3, Zenon
  <2> QED
    BY <1>4, <1>6, <2>3, <2>4, Zenon DEF Handed, events
<1> QED
  BY <1>5, <1>6, Zenon

(* The message listener of connect: the client's part before and after it    *)
(* has applied a frame.                                                      *)
Applied(a, p, f, t) ==
  /\ t.wire = Tail(p.wire) /\ t.cursor = f.replay.latest
  /\ t.view = IF f.snapshot /= {} THEN CHOOSE v \in f.snapshot : TRUE
              ELSE FoldEvents(p.view, f.replay.events, p.cursor)
  /\ t.received = p.received \o f.replay.events
  /\ t.skipped = IF f.replay.gap
                 THEN p.skipped \union Own(log, owner, a, p.cursor, f.replay.latest)
                 ELSE p.skipped
  /\ t.acks = Append(p.acks, f.replay.latest)
  /\ t.conn = p.conn /\ t.head = p.head /\ t.replay = p.replay /\ t.feed = p.feed
  /\ t.feedOpen = p.feedOpen /\ t.sending = p.sending /\ t.ceiling = p.ceiling
  /\ t.acked = p.acked

(* The client applies the next frame: its cursor moves to the end of it, and *)
(* what was passed over is marked as such.                                   *)
LEMMA ReceiveKeeps ==
  ASSUME log \in Seq(Event), NEW a, NEW p \in Parts, NEW t \in Parts,
         PartInv(log, owner, row, a, p), p.wire /= <<>>, Applied(a, p, Head(p.wire), t)
  PROVE  PartInv(log, owner, row, a, t)
<1> DEFINE f == Head(p.wire)
           to == f.replay.latest
           events == f.replay.events
<1>0. t.wire = Tail(p.wire) /\ t.cursor = to
  BY Zenon DEF Applied
<1>a. /\ t.conn = p.conn /\ t.head = p.head /\ t.replay = p.replay /\ t.feed = p.feed
      /\ t.feedOpen = p.feedOpen /\ t.sending = p.sending /\ t.ceiling = p.ceiling
      /\ t.acked = p.acked
  BY Zenon DEF Applied
<1>1. /\ Wired(log, owner, a, p.wire, p.cursor) /\ Phase(log, owner, a, p)
      /\ Queued(log, owner, a, p) /\ Bounded(log, p)
      /\ Handed(log, owner, a, p.cursor, p.received, p.skipped)
      /\ Agrees(log, owner, row, a, p)
  BY Zenon DEF PartInv
<1>2. /\ p.cursor \in Nat /\ Len(log) \in Nat /\ p.wire \in Seq(Frames) /\ p.acked \in Nat
      /\ p.acks \in Seq(Nat) /\ p.received \in Seq(Nat) /\ p.ceiling \in Nat /\ t.cursor \in Nat
  BY PartTypes
<1>3. f = p.wire[1] /\ 1 \in 1..Len(p.wire) /\ f \in Frames
  BY <1>2
<1>4. f.replay \in Replays /\ to \in Nat /\ events \in Seq(Nat) /\ f.replay.gap \in BOOLEAN
  BY <1>3, Zenon DEF Frames, Replays
<1>5. Covers(log, owner, a, p.cursor, f.replay) /\ (f.replay.gap => f.snapshot /= {})
      /\ (f.snapshot /= {} => \E v \in SUBSET OwnItems(owner, a) : f.snapshot = {v})
  <2>1. Sent(p.wire, p.cursor, 1 - 1) = p.cursor
    BY DEF Sent
  <2> QED
    BY <1>1, <1>3, <2>1, Zenon DEF Wired
<1>6. /\ p.cursor <= to /\ to <= Len(log)
      /\ f.replay.gap => events = <<>> /\ p.cursor + Retention < to
      /\ ~f.replay.gap => Ascending(events) /\ Elems(events) = Own(log, owner, a, p.cursor, to)
  BY <1>5, Zenon DEF Covers
<1>7. /\ Wired(log, owner, a, t.wire, t.cursor) /\ SentTo(t) = SentTo(p) /\ ~Fresh(t)
      /\ \A k \in 1..Len(t.wire) : k + 1 \in 1..Len(p.wire) /\ t.wire[k] = p.wire[k + 1]
  <2>1. t.wire = Tail(p.wire) /\ t.cursor = Head(p.wire).replay.latest
    BY Zenon DEF Applied
  <2>2. Wired(log, owner, a, p.wire, p.cursor)
    BY <1>1, Zenon
  <2> HIDE DEF f, to, events
  <2>3. TailOk(log, owner, a, p, t)
    BY <2>1, <2>2, WireTail, Zenon
  <2> QED
    BY <2>3, Zenon DEF TailOk
<1> HIDE DEF f, to, events
<1>8. Phase(log, owner, a, t)
  <2>1. p.conn \notin {"down", "recover"}
    BY <1>1, Zenon DEF Phase
  <2>2. p.conn = "pages" =>
          p.replay.latest = SentTo(p) /\ p.ceiling = SentTo(p) /\ SentTo(p) < p.head
    BY <1>1, Zenon DEF Phase
  <2>3. p.conn = "live" =>
          \/ p.sending = {} /\ p.ceiling = SentTo(p)
          \/ /\ p.sending = {p.ceiling} /\ SentTo(p) < p.ceiling
             /\ Own(log, owner, a, SentTo(p), p.ceiling) = {p.ceiling}
    BY <1>1, Zenon DEF Phase
  <2>4. p.conn /= "live" => p.sending = {}
    BY <1>1, Zenon DEF Phase
  <2> QED
    BY <1>a, <1>7, <2>1, <2>2, <2>3, <2>4, Zenon DEF Phase
<1>9. Queued(log, owner, a, t)
  BY <1>a, <1>1, Zenon DEF Queued, From, Idle
<1>10. Bounded(log, t)
  <2>1. /\ Len(t.acks) = Len(p.acks) + 1 /\ Len(p.acks) \in Nat /\ t.acks[Len(p.acks) + 1] = to
        /\ \A n \in 1..Len(p.acks) : t.acks[n] = p.acks[n] /\ p.acks[n] \in Nat
    <3>1. t.acks = Append(p.acks, to)
      BY Zenon DEF Applied, to, f
    <3> QED
      <4> DEFINE q == p.acks
      <4>1. q \in Seq(Nat) /\ to \in Nat
        BY <1>2, <1>4, Zenon
      <4>2. t.acks = Append(q, to)
        BY <3>1, Zenon
      <4> HIDE DEF q, to
      <4>3. /\ Len(t.acks) = Len(q) + 1 /\ Len(q) \in Nat /\ t.acks[Len(q) + 1] = to
            /\ \A n \in 1..Len(q) : t.acks[n] = q[n] /\ q[n] \in Nat
        BY <4>1, <4>2, AppendElems
      <4> QED
        BY <4>3, Zenon DEF q
  <2>2. ASSUME NEW n \in 1..Len(t.acks) PROVE t.acks[n] <= to
    <3>1. CASE n = Len(p.acks) + 1
      BY <1>4, <2>1, <3>1
    <3>2. CASE n \in 1..Len(p.acks)
      <4>1. p.acks[n] <= p.cursor
        BY <1>1, <3>2, Zenon DEF Bounded
      <4>2. t.acks[n] = p.acks[n] /\ p.acks[n] \in Nat
        BY <2>1, <3>2, Zenon
      <4> QED
        BY <1>2, <1>4, <1>6, <4>1, <4>2, AtMost, Zenon
    <3> QED
      BY <2>1, <3>1, <3>2
  <2>3. p.acked <= to
    <3>1. p.acked <= p.cursor
      BY <1>1, Zenon DEF Bounded
    <3> QED
      BY <1>2, <1>4, <1>6, <3>1
  <2>4. Streaming(p) => /\ to <= p.ceiling
                        /\ \A k \in 1..Len(t.wire) : t.wire[k].replay.latest <= p.ceiling
    BY <1>1, <1>3, <1>7, Zenon DEF Bounded, to
  <2> QED
    BY <1>0, <1>a, <1>1, <1>6, <2>2, <2>3, <2>4, Zenon DEF Bounded, Streaming
<1>11. Handed(log, owner, a, t.cursor, t.received, t.skipped)
  <2>1. /\ t.received = p.received \o events
        /\ t.skipped = IF f.replay.gap THEN p.skipped \union Own(log, owner, a, p.cursor, to)
                       ELSE p.skipped
    BY Zenon DEF Applied, events, to, f
  <2>2. /\ Handed(log, owner, a, p.cursor, p.received, p.skipped)
        /\ Covers(log, owner, a, p.cursor, f.replay) /\ f.replay \in Replays
        /\ p.cursor \in Nat /\ p.received \in Seq(Nat)
    BY <1>1, <1>2, <1>4, <1>5, Zenon
  <2>3. Handed(log, owner, a, f.replay.latest, p.received \o f.replay.events,
               IF f.replay.gap THEN p.skipped \union Own(log, owner, a, p.cursor, f.replay.latest)
               ELSE p.skipped)
    BY <2>2, HandedNext, Zenon
  <2> QED
    BY <1>0, <2>1, <2>3, Zenon DEF to, events
<1>12. Agrees(log, owner, row, a, t)
  <2>2. Told(t) = to /\ Shown(t) = t.view
    BY <1>0, <1>7, Zenon DEF Told, Shown
  <2>3. p.view \in SUBSET OwnItems(owner, a)
    BY <1>1, Zenon DEF Agrees
  <2>4. Streaming(p) => Shows(log, owner, row, a, Told(p), Shown(p))
    BY <1>1, Zenon DEF Agrees
  <2>5. CASE f.snapshot /= {}
    <3>1. PICK v \in SUBSET OwnItems(owner, a) : f.snapshot = {v}
      BY <1>5, <2>5, Zenon
    <3>2. t.view = v
      BY <2>5, <3>1, Zenon DEF Applied, f
    <3>3. Told(p) = to /\ Shown(p) = v
      BY <1>3, <2>5, <3>1, Zenon DEF Told, Shown, Fresh, to
    <3> QED
      BY <1>a, <2>2, <2>4, <3>2, <3>3, Zenon DEF Agrees, Streaming
  <2>6. CASE f.snapshot = {}
    <3>1. ~f.replay.gap /\ t.view = FoldEvents(p.view, events, p.cursor)
      BY <1>5, <2>6, Zenon DEF Applied, events, f
    <3>2. Told(p) = p.cursor /\ Shown(p) = p.view
      BY <1>3, <2>6, Zenon DEF Told, Shown, Fresh
    <3>3. t.view \subseteq OwnItems(owner, a)
      <4>1. Elems(events) = Own(log, owner, a, p.cursor, to)
        BY <1>6, <3>1, Zenon
      <4> QED
        BY <1>2, <1>4, <2>3, <3>1, <4>1, FoldOwn
    <3>4. CASE Streaming(p)
      <4>1. Shows(log, owner, row, a, p.cursor, p.view)
        BY <2>4, <3>2, <3>4, Zenon
      <4>2. Shows(log, owner, row, a, to, t.view)
        BY <1>2, <1>4, <1>6, <2>3, <3>1, <4>1, Folded, Zenon
      <4> QED
        BY <2>2, <3>3, <4>2, Zenon DEF Agrees
    <3> QED
      BY <1>a, <3>3, <3>4, Zenon DEF Agrees, Streaming
  <2> QED
    BY <2>5, <2>6, Zenon
<1> QED
  BY <1>1, <1>7, <1>8, <1>9, <1>10, <1>11, <1>12, Zenon DEF PartInv

(* publishLocked on one client's channel.                                    *)
Published(l, e, o, a, p, t) ==
  /\ t.feed = IF p.feedOpen /\ a = o[e.item] /\ Len(p.feed) /= Buffer
              THEN Append(p.feed, Len(l) + 1) ELSE p.feed
  /\ t.feedOpen = (p.feedOpen /\ ~(p.feedOpen /\ a = o[e.item] /\ Len(p.feed) = Buffer))
  /\ t.conn = p.conn /\ t.head = p.head /\ t.ceiling = p.ceiling

(* publishLocked keeps the channel a run of the actor's events, or drops the *)
(* subscriber at the first one it cannot take.                               *)
LEMMA FeedKeeps ==
  ASSUME NEW l \in Seq(Event), NEW e \in Event, NEW o, NEW a, NEW p \in Parts, NEW t \in Parts,
         Queued(l, o, a, p), Bounded(l, p), Published(l, e, o, a, p, t)
  PROVE  Queued(Append(l, e), o, a, t)
<1> DEFINE n == Len(l) + 1
           from == From(p)
           q == p.feed
           u == t.feed
           open == p.feedOpen
           on == t.feedOpen
           S == Own(l, o, a, from, Len(l))
           T == Own(Append(l, e), o, a, from, n)
<1>1. /\ Len(l) \in Nat /\ n \in Nat /\ q \in Seq(Nat) /\ Len(q) \in Nat /\ Buffer \in Nat
      /\ Len(Append(l, e)) = n /\ open \in BOOLEAN /\ p.head \in Nat /\ p.ceiling \in Nat
  BY PartTypes, JournalConfig, SMTT(30)
<1>2. /\ u = IF open /\ a = o[e.item] /\ Len(q) /= Buffer THEN Append(q, n) ELSE q
      /\ on = (open /\ ~(open /\ a = o[e.item] /\ Len(q) = Buffer))
      /\ t.conn = p.conn /\ t.head = p.head /\ t.ceiling = p.ceiling
  BY Zenon DEF Published
<1>3. from \in Nat /\ from <= Len(l) /\ From(t) = from /\ (Idle(t) <=> Idle(p))
  BY <1>1, <1>2, Zenon DEF From, Idle, Bounded
<1>4. Len(q) <= Buffer
  BY Zenon DEF Queued
<1>5. CASE Idle(p)
  <2>1. q = <<>> /\ open = FALSE
    BY <1>1, <1>5, Zenon DEF Queued
  <2>2. u = <<>> /\ on = FALSE
    BY <1>2, <2>1, Zenon
  <2> QED
    BY <1>3, <1>4, <1>5, <2>1, <2>2, Zenon DEF Queued
<1>6. CASE ~Idle(p)
  <2>1. \A s : s \in T <=> s \in S \/ (s = n /\ o[e.item] = a)
    BY <1>3, OwnAppend, Zenon
  <2>2. /\ Ascending(q) /\ Elems(q) \subseteq S
        /\ \A s \in S : s \in Elems(q) \/ (~open /\ \A y \in Elems(q) : y < s)
    BY <1>6, Zenon DEF Queued, Follows
  <2>3. \A y \in S : y < n
    BY <1>1, <1>3 DEF Own
  <2>4. SUFFICES /\ Len(u) <= Buffer /\ Ascending(u) /\ \A y \in Elems(u) : y \in T
                 /\ \A s \in T : s \in Elems(u) \/ (~on /\ \A y \in Elems(u) : y < s)
    BY <1>1, <1>3, <1>6, Zenon DEF Queued, Follows
  <2> HIDE DEF n, from, q, u, open, on, S, T
  <2>5. CASE o[e.item] /= a
    <3>1. u = q /\ on = open
      BY <1>1, <1>2, <2>5, Zenon
    <3> QED
      BY <1>4, <2>1, <2>2, <2>5, <3>1, Zenon
  <2>6. CASE o[e.item] = a /\ open /\ Len(q) /= Buffer
    <3>1. u = Append(q, n) /\ on = TRUE
      BY <1>2, <2>6, Zenon
    <3>2. \A y \in Elems(q) : y < n
      BY <2>2, <2>3, Zenon
    <3>3. Ascending(u) /\ Elems(u) = Elems(q) \union {n} /\ Len(u) = Len(q) + 1
      BY <1>1, <2>2, <3>1, <3>2, Appended, Zenon
    <3>4. Len(u) <= Buffer
      BY <1>1, <1>4, <2>6, <3>3
    <3> QED
      BY <2>1, <2>2, <2>6, <3>3, <3>4, Zenon
  <2>7. CASE o[e.item] = a /\ ~(open /\ Len(q) /= Buffer)
    <3>1. u = q /\ on = FALSE
      BY <1>1, <1>2, <2>7, Zenon
    <3>2. \A y \in Elems(q) : y < n
      BY <2>2, <2>3, Zenon
    <3> QED
      BY <1>4, <2>1, <2>2, <3>1, <3>2, Zenon
  <2> QED
    BY <2>5, <2>6, <2>7, Zenon
<1> QED
  BY <1>5, <1>6, Zenon

(* Append: an event that no client has been told of, and that stands in the  *)
(* channel of every client that listens.                                     *)
LEMMA EmitKeeps ==
  ASSUME NEW l \in Seq(Event), NEW e \in Event, NEW o, NEW r, NEW a,
         NEW p \in Parts, NEW t \in Parts, PartInv(l, o, r, a, p),
         Published(l, e, o, a, p, t), t.replay = p.replay, t.sending = p.sending,
         t.wire = p.wire, t.acks = p.acks, t.cursor = p.cursor,
         t.view = p.view, t.received = p.received, t.skipped = p.skipped,
         t.acked = p.acked
  PROVE  PartInv(Append(l, e), o, r, a, t)
<1> DEFINE L == Append(l, e)
<1>1. /\ Wired(l, o, a, p.wire, p.cursor) /\ Phase(l, o, a, p) /\ Queued(l, o, a, p)
      /\ Bounded(l, p) /\ Handed(l, o, a, p.cursor, p.received, p.skipped)
      /\ Agrees(l, o, r, a, p)
  BY Zenon DEF PartInv
<1>2. /\ p.cursor \in Nat /\ Len(l) \in Nat /\ Len(L) = Len(l) + 1 /\ p.head \in Nat
      /\ p.ceiling \in Nat /\ p.wire \in Seq(Frames) /\ p.replay \in Replays
      /\ p.feed \in Seq(Nat) /\ p.feedOpen \in BOOLEAN
  BY PartTypes
<1>a. t.conn = p.conn /\ t.head = p.head /\ t.ceiling = p.ceiling
  BY Zenon DEF Published
<1>3. SentTo(p) \in Nat
  BY WireAt, Zenon
<1>4. p.cursor <= Len(l) /\ p.ceiling <= Len(l) /\ p.head <= Len(l)
  BY <1>1, Zenon DEF Bounded
<1>5. Wired(L, o, a, p.wire, p.cursor)
  <2>1. ASSUME NEW k \in 1..Len(p.wire)
        PROVE  Covers(L, o, a, Sent(p.wire, p.cursor, k - 1), p.wire[k].replay)
    <3>1. Covers(l, o, a, Sent(p.wire, p.cursor, k - 1), p.wire[k].replay)
      BY <1>1, Zenon DEF Wired
    <3>2. p.wire[k].replay \in Replays
      BY <1>2, FrameTypes, Zenon
    <3>3. k - 1 = 0 \/ k - 1 \in 1..Len(p.wire)
      BY <1>2
    <3>4. Sent(p.wire, p.cursor, k - 1) \in Nat
      BY <1>2, <3>3, FrameTypes, Zenon DEF Sent
    <3> QED
      BY <3>1, <3>2, <3>4, CoversAppend, Zenon
  <2> QED
    BY <1>1, <2>1, Zenon DEF Wired
<1>6. Phase(L, o, a, t)
  <2>1. SentTo(t) = SentTo(p)
    BY Zenon DEF SentTo
  <2>2. Covers(l, o, a, p.cursor, p.replay) => Covers(L, o, a, p.cursor, p.replay)
    BY <1>2, CoversAppend, Zenon
  <2>3. Own(L, o, a, SentTo(p), p.ceiling) = Own(l, o, a, SentTo(p), p.ceiling)
    BY <1>2, <1>3, <1>4, OwnBefore
  <2> HIDE DEF L
  <2> QED
    BY <1>a, <1>1, <2>1, <2>2, <2>3, Zenon DEF Phase
<1>7. Queued(L, o, a, t)
  BY <1>1, FeedKeeps, Zenon
<1>8. Bounded(L, t)
  <2>1. p.head <= Len(L) /\ p.ceiling <= Len(L) /\ p.cursor <= Len(L)
    BY <1>2, <1>4
  <2> HIDE DEF L
  <2> QED
    BY <1>a, <1>1, <2>1, Zenon DEF Bounded, Streaming
<1>9. Handed(L, o, a, p.cursor, p.received, p.skipped)
  <2>1. Own(L, o, a, 0, p.cursor) = Own(l, o, a, 0, p.cursor)
    BY <1>2, <1>4, OwnBefore
  <2> HIDE DEF L
  <2> QED
    BY <1>1, <2>1, Zenon DEF Handed
<1>10. Agrees(L, o, r, a, t)
  <2>1. Told(t) = Told(p) /\ Shown(t) = Shown(p) /\ (Streaming(t) <=> Streaming(p))
    BY <1>a, Zenon DEF Told, Shown, Fresh, Streaming
  <2>2. Told(p) \in Nat /\ Told(p) <= Len(l)
    <3>1. Fresh(p) => 1 \in 1..Len(p.wire)
      BY <1>2 DEF Fresh
    <3>2. Fresh(p) => p.wire[1].replay.latest \in Nat /\ p.wire[1].replay.latest <= Len(l)
      BY <1>1, <1>2, <3>1, FrameTypes, Zenon DEF Wired, Covers
    <3> QED
      BY <1>2, <1>4, <3>2, Zenon DEF Told
  <2>3. ASSUME NEW i \in OwnItems(o, a), Settled(L, r, i, Told(p))
        PROVE  Settled(l, r, i, Told(p))
    <3>1. e.item /= i
      <4>1. SUFFICES ASSUME e.item = i PROVE FALSE
        BY Zenon
      <4>2. Len(l) + 1 \in 1..Len(L) /\ L[Len(l) + 1] = e
        BY <1>2
      <4>3. Len(l) + 1 \in Mentions(L, i)
        BY <4>1, <4>2, Zenon DEF Mentions
      <4>4. Len(l) + 1 <= Told(p)
        BY <2>3, <4>3, Zenon DEF Settled
      <4> QED
        BY <1>2, <2>2, <4>4
    <3>2. Mentions(L, i) = Mentions(l, i) /\ Word(L, i) = Word(l, i)
      BY <3>1, MentionsAppend, Zenon
    <3> HIDE DEF L
    <3> QED
      BY <2>3, <3>2, Zenon DEF Settled
  <2> HIDE DEF L
  <2> QED
    BY <1>1, <2>1, <2>3, Zenon DEF Agrees, Shows
<1> HIDE DEF L
<1>11. PartInv(L, o, r, a, t)
  BY <1>5, <1>6, <1>7, <1>8, <1>9, <1>10, Zenon DEF PartInv
<1> QED
  BY <1>11, Zenon DEF L

-----------------------------------------------------------------------------
(* The specification. *)

(* A client's part of a well-typed state is well typed.                      *)
LEMMA PartIsTyped ==
  ASSUME StreamTypes, NEW c \in Clients
  PROVE  Part(c) \in Parts
  BY Zenon DEF StreamTypes, Part, Parts

(* The same of the state after a step.                                       *)
LEMMA PartIsTypedNext ==
  ASSUME StreamTypes', NEW c \in Clients
  PROVE  Part(c)' \in Parts
  BY Zenon DEF StreamTypes, Part, Parts

(* A step of one stream leaves the journal and the other streams alone.      *)
LEMMA OneClient ==
  ASSUME JournalIInv, NEW c \in Clients, UNCHANGED journalVars, StreamTypes',
         \A d \in Clients : d /= c => Part(d)' = Part(d),
         PartInv(log, owner, row, Actor[c], Part(c)')
  PROVE  JournalIInv'
<1>1. JournalTypes'
  BY Zenon DEF JournalIInv, JournalTypes, journalVars
<1>2. RowsFirst'
  BY Zenon DEF JournalIInv, RowsFirst, journalVars
<1>3. ASSUME NEW d \in Clients PROVE PartInv(log', owner', row', Actor[d], Part(d)')
  <2>1. log' = log /\ owner' = owner /\ row' = row
    BY Zenon DEF journalVars
  <2>2. PartInv(log, owner, row, Actor[d], Part(d))
    BY Zenon DEF JournalIInv
  <2> QED
    BY <2>1, <2>2, Zenon
<1> QED
  BY <1>1, <1>2, <1>3, Zenon DEF JournalIInv

(* SubscribeActor keeps the inductive invariant.                             *)
LEMMA SubscribeStep ==
  ASSUME JournalIInv, NEW c \in Clients, Subscribe(c)
  PROVE  JournalIInv'
<1> DEFINE p == Part(c)
           t == Part(c)'
<1>1. log \in Seq(Event) /\ StreamTypes /\ PartInv(log, owner, row, Actor[c], p)
  BY Zenon DEF JournalIInv, JournalTypes
<1>2. PageOk(c, cursor[c], Len(log), ReplayThrough(c, cursor[c], Len(log)))
  <2>1. cursor[c] \in Nat /\ Len(log) \in Nat /\ cursor[c] <= Len(log) /\ Len(log) <= Len(log)
    BY <1>1 DEF StreamTypes, Subscribe
  <2> QED
    BY <1>1, <2>1, ReplayPage, Zenon
<1>3. StreamTypes'
  <2>1. ReplayThrough(c, cursor[c], Len(log)) \in Replays
    BY <1>2, Zenon DEF PageOk
  <2> QED
    BY <1>1, <2>1 DEF StreamTypes, Subscribe, Conns, clientVars, linkVars
<1>4. p \in Parts /\ t \in Parts
  BY <1>1, <1>3, PartIsTyped, PartIsTypedNext, Zenon
<1>5. \A d \in Clients : d /= c => Part(d)' = Part(d)
  BY <1>1, Zenon DEF StreamTypes, Part, Subscribe, clientVars, linkVars
<1>6. /\ p.conn = "down" /\ p.cursor <= Len(log)
      /\ t.conn = "recover" /\ t.head = Len(log) /\ t.feed = <<>> /\ t.feedOpen = TRUE
      /\ t.replay = ReplayThrough(c, p.cursor, Len(log))
  BY <1>1, Zenon DEF StreamTypes, Part, Subscribe
<1>7. /\ t.sending = p.sending /\ t.ceiling = p.ceiling /\ t.wire = p.wire /\ t.acks = p.acks
      /\ t.cursor = p.cursor /\ t.view = p.view /\ t.received = p.received
      /\ t.skipped = p.skipped /\ t.acked = p.acked
  BY Zenon DEF Part, Subscribe, clientVars, linkVars
<1> HIDE DEF p, t
<1>8. PartInv(log, owner, row, Actor[c], t)
  BY <1>1, <1>4, <1>6, <1>7, SubscribeKeeps, Zenon
<1> QED
  BY <1>3, <1>5, <1>8, OneClient, Zenon DEF Subscribe, t

(* Writing the recovery frame keeps the inductive invariant.                 *)
LEMMA SendRecoveryStep ==
  ASSUME JournalIInv, NEW c \in Clients, SendRecovery(c)
  PROVE  JournalIInv'
<1> DEFINE p == Part(c)
           t == Part(c)'
           f == [replay |-> replay[c], snapshot |-> {PendingItems(c)}]
<1>1. log \in Seq(Event) /\ StreamTypes /\ PartInv(log, owner, row, Actor[c], p)
  BY Zenon DEF JournalIInv, JournalTypes
<1>2. f \in Frames
  <2>1. replay[c] \in Replays /\ {PendingItems(c)} \in SUBSET SUBSET Items
    BY <1>1, Zenon DEF StreamTypes, PendingItems
  <2> QED
    BY <2>1, Zenon DEF Frames
<1>3. StreamTypes'
  <2>1. replay[c].latest \in Nat /\ Append(wire[c], f) \in Seq(Frames)
    BY <1>1, <1>2 DEF StreamTypes, Replays
  <2>2. AfterPage(c, replay[c]) \in Conns
    BY Zenon DEF AfterPage, Conns
  <2>3. wire' = [wire EXCEPT ![c] = Append(wire[c], f)]
    BY <1>1, Zenon DEF StreamTypes, SendRecovery
  <2> HIDE DEF f
  <2> QED
    BY <1>1, <2>1, <2>2, <2>3, Zenon DEF StreamTypes, SendRecovery, clientVars
<1>4. p \in Parts /\ t \in Parts
  BY <1>1, <1>3, PartIsTyped, PartIsTypedNext, Zenon
<1>5. \A d \in Clients : d /= c => Part(d)' = Part(d)
  BY <1>1, Zenon DEF StreamTypes, Part, SendRecovery, clientVars
<1>6. /\ p.conn = "recover" /\ t.ceiling = p.replay.latest /\ t.wire = Append(p.wire, f)
      /\ t.conn = IF p.replay.latest < p.head THEN "pages" ELSE "live"
  BY <1>1, Zenon DEF StreamTypes, Part, SendRecovery, AfterPage
<1>7. /\ t.head = p.head /\ t.replay = p.replay /\ t.feed = p.feed /\ t.feedOpen = p.feedOpen
      /\ t.sending = p.sending /\ t.acks = p.acks /\ t.cursor = p.cursor /\ t.view = p.view
      /\ t.received = p.received /\ t.skipped = p.skipped /\ t.acked = p.acked
  BY Zenon DEF Part, SendRecovery, clientVars
<1>8. /\ f.replay = p.replay
      /\ f.snapshot = {OpenItems(owner, row, Actor[c])}
  BY Zenon DEF Part, PendingItems, OpenItems
<1> HIDE DEF p, t, f
<1>9. PartInv(log, owner, row, Actor[c], t)
  <2>1. Recovered(owner, row, Actor[c], p, f, t)
    BY <1>6, <1>7, <1>8, Zenon DEF Recovered
  <2> QED
    BY <1>1, <1>2, <1>4, <2>1, RecoveryKeeps, Zenon
<1> QED
  BY <1>3, <1>5, <1>9, OneClient, Zenon DEF SendRecovery, t

(* Every way in which stream returns.                                        *)
LEMMA ReturnStep ==
  ASSUME JournalIInv, NEW c \in Clients, Return(c), acks' \in [Clients -> Seq(Nat)],
         \A d \in Clients : d /= c => acks'[d] = acks[d],
         \A n \in 1..Len(acks'[c]) : acks'[c][n] <= cursor[c],
         UNCHANGED <<journalVars, wire, clientVars, acked>>
  PROVE  JournalIInv'
<1> DEFINE p == Part(c)
           t == Part(c)'
<1>1. log \in Seq(Event) /\ StreamTypes /\ PartInv(log, owner, row, Actor[c], p)
  BY Zenon DEF JournalIInv, JournalTypes
<1>2. NoReplay \in Replays /\ <<>> \in Seq(Nat)
  BY DEF NoReplay, Replays
<1>3. StreamTypes'
  BY <1>1, <1>2, Zenon DEF StreamTypes, Return, Conns, clientVars
<1>4. p \in Parts /\ t \in Parts
  BY <1>1, <1>3, PartIsTyped, PartIsTypedNext, Zenon
<1>5. \A d \in Clients : d /= c => Part(d)' = Part(d)
  BY <1>1, Zenon DEF StreamTypes, Part, Return, clientVars
<1>6. /\ t.conn = "closing" /\ t.head = 0 /\ t.replay = NoReplay /\ t.feed = <<>>
      /\ t.feedOpen = FALSE /\ t.sending = {} /\ t.ceiling = 0
  BY <1>1, Zenon DEF StreamTypes, Part, Return
<1>7. /\ t.wire = p.wire /\ t.cursor = p.cursor /\ t.view = p.view /\ t.received = p.received
      /\ t.skipped = p.skipped /\ t.acked = p.acked
      /\ \A n \in 1..Len(t.acks) : t.acks[n] <= p.cursor
  BY Zenon DEF Part, clientVars
<1> HIDE DEF p, t
<1>8. PartInv(log, owner, row, Actor[c], t)
  BY <1>1, <1>4, <1>6, <1>7, ReturnKeeps, Zenon
<1> QED
  BY <1>3, <1>5, <1>8, OneClient, Zenon DEF t

(* The catch-up loop of stream keeps the inductive invariant.                *)
LEMMA SendPageStep ==
  ASSUME JournalIInv, NEW c \in Clients, SendPage(c)
  PROVE  JournalIInv'
<1> DEFINE p == Part(c)
           t == Part(c)'
           page == ReplayThrough(c, replay[c].latest, head[c])
           f == [replay |-> page, snapshot |-> {}]
<1>1. /\ log \in Seq(Event) /\ StreamTypes /\ PartInv(log, owner, row, Actor[c], p)
      /\ p.conn = "pages" /\ p \in Parts
  BY PartIsTyped, Zenon DEF JournalIInv, JournalTypes, Part, SendPage
<1>2. /\ replay[c].latest \in Nat /\ head[c] \in Nat /\ replay[c].latest <= head[c]
      /\ head[c] <= Len(log)
  <2>1. p.replay.latest = SentTo(p) /\ SentTo(p) < p.head /\ p.head <= Len(log)
    BY <1>1, Zenon DEF PartInv, Phase, Bounded
  <2>2. p.replay = replay[c] /\ p.head = head[c]
    BY Zenon DEF Part
  <2>3. replay[c].latest \in Nat /\ head[c] \in Nat
    BY <1>1, Zenon DEF StreamTypes, Replays
  <2> HIDE DEF p
  <2>4. replay[c].latest < head[c]
    BY <2>1, <2>2, Zenon
  <2> QED
    BY <2>1, <2>2, <2>3, <2>4, Before, Zenon
<1>3. PageOk(c, replay[c].latest, head[c], page)
  BY <1>1, <1>2, ReplayPage, Zenon
<1>4. f \in Frames /\ page \in Replays /\ page.latest \in Nat
  <2>1. page \in Replays
    BY <1>3, Zenon DEF PageOk
  <2> HIDE DEF page
  <2> QED
    BY <2>1, Zenon DEF Frames, Replays
<1>5. CASE page.gap \/ page.latest <= replay[c].latest
  <2>1. /\ Return(c) /\ UNCHANGED <<journalVars, wire, clientVars, acked>> /\ acks' = acks
    BY <1>5, Zenon DEF SendPage
  <2>2. acks \in [Clients -> Seq(Nat)] /\ \A n \in 1..Len(acks[c]) : acks[c][n] <= cursor[c]
    BY <1>1, Zenon DEF StreamTypes, PartInv, Bounded, Part
  <2> QED
    BY <2>1, <2>2, ReturnStep, Zenon
<1>6. CASE ~(page.gap \/ page.latest <= replay[c].latest)
  <2> HIDE DEF page, f
  <2>1. /\ conn' = [conn EXCEPT ![c] = AfterPage(c, page)]
        /\ replay' = [replay EXCEPT ![c] = page]
        /\ ceiling' = [ceiling EXCEPT ![c] = page.latest]
        /\ wire' = [wire EXCEPT ![c] = Append(wire[c], f)]
        /\ UNCHANGED <<head, feed, feedOpen, sending, journalVars, acks, clientVars, acked>>
    BY <1>1, <1>6, Zenon DEF SendPage, StreamTypes, page, f
  <2>2. StreamTypes'
    <3>1. Append(wire[c], f) \in Seq(Frames) /\ AfterPage(c, page) \in Conns
      BY <1>1, <1>4 DEF StreamTypes, AfterPage, Conns
    <3> QED
      BY <1>1, <1>4, <2>1, <3>1, Zenon DEF StreamTypes, clientVars
  <2>3. t \in Parts
    BY <2>2, PartIsTypedNext, Zenon
  <2>4. \A d \in Clients : d /= c => Part(d)' = Part(d)
    BY <1>1, <2>1, Zenon DEF StreamTypes, Part, clientVars
  <2>5. /\ t.conn = IF page.latest < p.head THEN "pages" ELSE "live"
        /\ t.replay = page /\ t.ceiling = page.latest /\ t.wire = Append(p.wire, f)
    BY <1>1, <2>1, Zenon DEF StreamTypes, Part, AfterPage
  <2>6. /\ t.head = p.head /\ t.feed = p.feed /\ t.feedOpen = p.feedOpen
        /\ t.sending = p.sending /\ t.acks = p.acks /\ t.cursor = p.cursor /\ t.view = p.view
        /\ t.received = p.received /\ t.skipped = p.skipped /\ t.acked = p.acked
    BY <2>1, Zenon DEF Part, clientVars
  <2>7. /\ f.replay = page /\ f.snapshot = {} /\ page = ReplayThrough(c, p.replay.latest, p.head)
        /\ ~page.gap /\ ~(page.latest <= p.replay.latest)
    BY <1>6, Zenon DEF Part, f, page
  <2> HIDE DEF p, t
  <2>8. PartInv(log, owner, row, Actor[c], t)
    BY <1>1, <1>4, <2>3, <2>5, <2>6, <2>7, PageKeeps, Zenon
  <2> QED
    BY <2>1, <2>2, <2>4, <2>8, OneClient, Zenon DEF t
<1> QED
  BY <1>5, <1>6, Zenon

(* Taking an event from the channel keeps the inductive invariant.           *)
LEMMA TakeEventStep ==
  ASSUME JournalIInv, NEW c \in Clients, TakeEvent(c)
  PROVE  JournalIInv'
<1> DEFINE p == Part(c)
           t == Part(c)'
<1>1. log \in Seq(Event) /\ StreamTypes /\ PartInv(log, owner, row, Actor[c], p)
  BY Zenon DEF JournalIInv, JournalTypes
<1>2. /\ feed[c] \in Seq(Nat) /\ feed[c] /= <<>> /\ Head(feed[c]) \in Nat
      /\ Tail(feed[c]) \in Seq(Nat)
  BY <1>1 DEF StreamTypes, TakeEvent
<1>3. StreamTypes'
  BY <1>1, <1>2, Zenon
     DEF StreamTypes, TakeEvent, RaisedCeiling, clientVars, linkVars
<1>4. p \in Parts /\ t \in Parts
  BY <1>1, <1>3, PartIsTyped, PartIsTypedNext, Zenon
<1>5. \A d \in Clients : d /= c => Part(d)' = Part(d)
  BY <1>1, Zenon DEF StreamTypes, Part, TakeEvent, clientVars, linkVars
<1>6. /\ p.conn = "live" /\ p.sending = {} /\ p.feed /= <<>>
      /\ t.sending = {Head(p.feed)} /\ t.feed = Tail(p.feed) /\ t.ceiling = Head(p.feed)
  BY <1>1, Zenon DEF StreamTypes, Part, TakeEvent, RaisedCeiling
<1>7. /\ t.conn = p.conn /\ t.head = p.head /\ t.replay = p.replay /\ t.feedOpen = p.feedOpen
      /\ t.wire = p.wire /\ t.acks = p.acks /\ t.cursor = p.cursor /\ t.view = p.view
      /\ t.received = p.received /\ t.skipped = p.skipped /\ t.acked = p.acked
  BY Zenon DEF Part, TakeEvent, clientVars, linkVars
<1> HIDE DEF p, t
<1>8. PartInv(log, owner, row, Actor[c], t)
  BY <1>1, <1>4, <1>6, <1>7, TakeKeeps, Zenon
<1> QED
  BY <1>3, <1>5, <1>8, OneClient, Zenon DEF TakeEvent, t

(* Writing the event that was taken keeps the inductive invariant.           *)
LEMMA WriteEventStep ==
  ASSUME JournalIInv, NEW c \in Clients, WriteEvent(c)
  PROVE  JournalIInv'
<1> DEFINE p == Part(c)
           t == Part(c)'
<1>1. log \in Seq(Event) /\ StreamTypes /\ PartInv(log, owner, row, Actor[c], p)
  BY Zenon DEF JournalIInv, JournalTypes
<1>2. PICK s \in sending[c] : wire' = [wire EXCEPT ![c] = Append(wire[c], EventFrame(s))]
  BY <1>1, Zenon DEF WriteEvent, StreamTypes
<1>3. StreamTypes'
  <2>1. s \in Nat
    BY <1>1, Zenon DEF StreamTypes
  <2>2. EventFrame(s) \in Frames
    BY <2>1 DEF EventFrame, Frames, Replays
  <2>3. Append(wire[c], EventFrame(s)) \in Seq(Frames)
    BY <1>1, <2>2 DEF StreamTypes
  <2> QED
    BY <1>1, <1>2, <2>3, Zenon DEF StreamTypes, WriteEvent, clientVars
<1>4. p \in Parts /\ t \in Parts
  BY <1>1, <1>3, PartIsTyped, PartIsTypedNext, Zenon
<1>5. \A d \in Clients : d /= c => Part(d)' = Part(d)
  BY <1>1, <1>2, Zenon DEF StreamTypes, Part, WriteEvent, clientVars
<1>6. /\ p.conn = "live" /\ s \in p.sending /\ t.sending = {}
      /\ t.wire = Append(p.wire, EventFrame(s))
  BY <1>1, <1>2, Zenon DEF StreamTypes, Part, WriteEvent
<1>7. /\ t.conn = p.conn /\ t.head = p.head /\ t.replay = p.replay /\ t.feed = p.feed
      /\ t.feedOpen = p.feedOpen /\ t.ceiling = p.ceiling /\ t.acks = p.acks
      /\ t.cursor = p.cursor /\ t.view = p.view /\ t.received = p.received
      /\ t.skipped = p.skipped /\ t.acked = p.acked
  BY Zenon DEF Part, WriteEvent, clientVars
<1> HIDE DEF p, t
<1>8. PartInv(log, owner, row, Actor[c], t)
  BY <1>1, <1>4, <1>6, <1>7, WriteKeeps, Zenon
<1> QED
  BY <1>3, <1>5, <1>8, OneClient, Zenon DEF WriteEvent, t

(* Leaving the live loop on a closed channel keeps the inductive invariant.  *)
LEMMA FeedClosedStep ==
  ASSUME JournalIInv, NEW c \in Clients, FeedClosed(c)
  PROVE  JournalIInv'
<1>1. /\ Return(c) /\ UNCHANGED <<journalVars, wire, clientVars, acked>> /\ acks' = acks
  BY Zenon DEF FeedClosed, linkVars
<1>2. acks \in [Clients -> Seq(Nat)] /\ \A n \in 1..Len(acks[c]) : acks[c][n] <= cursor[c]
  BY Zenon DEF JournalIInv, StreamTypes, PartInv, Bounded, Part
<1> QED
  BY <1>1, <1>2, ReturnStep, Zenon

(* readAcknowledgements keeps the inductive invariant, whether it accepts    *)
(* the sequence or ends the stream.                                          *)
LEMMA ReadAckStep ==
  ASSUME JournalIInv, NEW c \in Clients, ReadAck(c)
  PROVE  JournalIInv'
<1> DEFINE p == Part(c)
           t == Part(c)'
           s == Head(acks[c])
<1>1. log \in Seq(Event) /\ StreamTypes /\ PartInv(log, owner, row, Actor[c], p)
  BY Zenon DEF JournalIInv, JournalTypes
<1>2. /\ acks[c] \in Seq(Nat) /\ acks[c] /= <<>> /\ acks' = [acks EXCEPT ![c] = Tail(acks[c])]
      /\ conn[c] = "live" /\ UNCHANGED <<journalVars, wire, clientVars>>
  BY <1>1, Zenon DEF StreamTypes, ReadAck
<1>3. s \in Nat /\ Tail(acks[c]) \in Seq(Nat)
  BY <1>2
<1>4. /\ acks' \in [Clients -> Seq(Nat)] /\ acks'[c] = Tail(acks[c])
      /\ \A d \in Clients : d /= c => acks'[d] = acks[d]
  BY <1>1, <1>2, <1>3, Zenon DEF StreamTypes
<1>5. CASE s > ceiling[c] \/ s > Len(log)
  <2>1. Return(c) /\ acked' = acked
    BY <1>5, Zenon DEF ReadAck
  <2>2. \A n \in 1..Len(acks[c]) : acks[c][n] <= cursor[c]
    BY <1>1, Zenon DEF PartInv, Bounded, Part
  <2>3. /\ Len(acks'[c]) = Len(acks[c]) - 1 /\ Len(acks[c]) \in Nat \ {0}
        /\ \A n \in 1..Len(acks'[c]) : acks'[c][n] = acks[c][n + 1]
    BY <1>2, <1>4
  <2>4. \A n \in 1..Len(acks'[c]) : n + 1 \in 1..Len(acks[c])
    BY <2>3
  <2>5. \A n \in 1..Len(acks'[c]) : acks'[c][n] <= cursor[c]
    BY <2>2, <2>3, <2>4, Zenon
  <2> QED
    BY <1>2, <1>4, <2>1, <2>5, ReturnStep, Zenon
<1>6. CASE ~(s > ceiling[c] \/ s > Len(log))
  <2>1. acked' = [acked EXCEPT ![c] = Acknowledged(c, s)] /\ UNCHANGED streamVars
    BY <1>6, Zenon DEF ReadAck
  <2>2. Acknowledged(c, s) \in {s, acked[c]} /\ acked[c] \in Nat
    BY <1>1, Zenon DEF Acknowledged, StreamTypes
  <2> HIDE DEF s
  <2>3. StreamTypes'
    BY <1>1, <1>2, <1>3, <1>4, <2>1, <2>2, Zenon
       DEF StreamTypes, streamVars, clientVars
  <2>4. p \in Parts /\ t \in Parts
    BY <1>1, <2>3, PartIsTyped, PartIsTypedNext, Zenon
  <2>5. \A d \in Clients : d /= c => Part(d)' = Part(d)
    BY <1>1, <1>2, <1>4, <2>1, Zenon
       DEF StreamTypes, Part, streamVars, clientVars
  <2>6. /\ p.conn = "live" /\ p.acks /= <<>> /\ t.acks = Tail(p.acks)
        /\ t.acked \in {Head(p.acks), p.acked}
    BY <1>1, <1>2, <1>4, <2>1, <2>2, Zenon DEF StreamTypes, Part, s
  <2>7. /\ t.conn = p.conn /\ t.head = p.head /\ t.replay = p.replay /\ t.feed = p.feed
        /\ t.feedOpen = p.feedOpen /\ t.sending = p.sending /\ t.ceiling = p.ceiling
        /\ t.wire = p.wire /\ t.cursor = p.cursor /\ t.view = p.view
        /\ t.received = p.received /\ t.skipped = p.skipped
    BY <1>2, <2>1, Zenon DEF Part, streamVars, clientVars
  <2> HIDE DEF p, t
  <2>8. PartInv(log, owner, row, Actor[c], t)
    BY <1>1, <2>4, <2>6, <2>7, AckKeeps, Zenon
  <2> QED
    BY <1>2, <2>3, <2>5, <2>8, OneClient, Zenon DEF t
<1> QED
  BY <1>5, <1>6, Zenon

(* The client's message listener keeps the inductive invariant.              *)
LEMMA ReceiveStep ==
  ASSUME JournalIInv, NEW c \in Clients, Receive(c)
  PROVE  JournalIInv'
<1> DEFINE p == Part(c)
           t == Part(c)'
           f == Head(wire[c])
<1>1. log \in Seq(Event) /\ StreamTypes /\ PartInv(log, owner, row, Actor[c], p)
  BY Zenon DEF JournalIInv, JournalTypes
<1>2. /\ wire[c] \in Seq(Frames) /\ wire[c] /= <<>> /\ f \in Frames /\ f = wire[c][1]
      /\ 1 \in 1..Len(wire[c]) /\ Tail(wire[c]) \in Seq(Frames)
  BY <1>1 DEF StreamTypes, Receive
<1>3. f.replay.latest \in Nat /\ f.replay.events \in Seq(Nat) /\ f.snapshot \in SUBSET SUBSET Items
  BY <1>2, Zenon DEF Frames, Replays
<1>4. /\ cursor[c] <= f.replay.latest
      /\ f.snapshot /= {} => \E v \in SUBSET OwnItems(owner, Actor[c]) : f.snapshot = {v}
  <2>1. Wired(log, owner, Actor[c], wire[c], cursor[c])
    BY <1>1, Zenon DEF PartInv, Part
  <2> HIDE DEF f
  <2>2. Sent(wire[c], cursor[c], 1 - 1) = cursor[c]
    <3>1. 1 - 1 = 0
      OBVIOUS
    <3> QED
      BY <3>1, Zenon DEF Sent
  <2> QED
    BY <1>2, <2>1, <2>2, Zenon DEF Wired, Covers
<1>5. NewCursor(c, f) = f.replay.latest
  <2> HIDE DEF f
  <2>1. cursor[c] \in Nat
    BY <1>1, Zenon DEF StreamTypes
  <2>2. f.replay.latest > cursor[c] \/ f.replay.latest = cursor[c]
    BY <1>3, <1>4, <2>1
  <2> QED
    BY <2>2, Zenon DEF NewCursor
<1>6. AppliedView(c, f) \in SUBSET Items
  <2>1. CASE f.snapshot = {}
    BY <2>1, Zenon DEF AppliedView, FoldEvents
  <2>2. CASE f.snapshot /= {}
    <3>1. PICK v \in SUBSET OwnItems(owner, Actor[c]) : f.snapshot = {v}
      BY <1>4, <2>2, Zenon
    <3>2. AppliedView(c, f) = v
      BY <2>2, <3>1, Zenon DEF AppliedView
    <3> QED
      BY <3>2, Zenon DEF OwnItems
  <2> QED
    BY <2>1, <2>2, Zenon
<1> DEFINE over == IF f.replay.gap
                   THEN skipped[c] \union Own(log, owner, Actor[c], cursor[c], f.replay.latest)
                   ELSE skipped[c]
<1>7. /\ wire' = [wire EXCEPT ![c] = Tail(wire[c])]
      /\ view' = [view EXCEPT ![c] = AppliedView(c, f)]
      /\ cursor' = [cursor EXCEPT ![c] = f.replay.latest]
      /\ received' = [received EXCEPT ![c] = received[c] \o f.replay.events]
      /\ skipped' = [skipped EXCEPT ![c] = over]
      /\ acks' = [acks EXCEPT ![c] = Append(acks[c], f.replay.latest)]
      /\ UNCHANGED <<journalVars, streamVars, acked>>
  <2>1. OwnEvents(c, cursor[c], f.replay.latest) =
          Own(log, owner, Actor[c], cursor[c], f.replay.latest)
    BY Zenon DEF OwnEvents, OwnEvent, Own
  <2> QED
    BY <1>1, <1>5, <2>1, Zenon DEF Receive, StreamTypes
<1>8. over \in SUBSET Nat
  <2>1. Own(log, owner, Actor[c], cursor[c], f.replay.latest) \subseteq Nat
    BY <1>1, <1>3 DEF StreamTypes, Own
  <2> QED
    BY <1>1, <2>1, Zenon DEF StreamTypes
<1> HIDE DEF f, over
<1>9. StreamTypes'
  <2>1. /\ received[c] \o f.replay.events \in Seq(Nat)
        /\ Append(acks[c], f.replay.latest) \in Seq(Nat)
    BY <1>1, <1>3 DEF StreamTypes
  <2> QED
    BY <1>1, <1>2, <1>3, <1>6, <1>7, <1>8, <2>1, Zenon
       DEF StreamTypes, streamVars
<1>10. p \in Parts /\ t \in Parts
  BY <1>1, <1>9, PartIsTyped, PartIsTypedNext, Zenon
<1>11. \A d \in Clients : d /= c => Part(d)' = Part(d)
  BY <1>1, <1>7, Zenon DEF StreamTypes, Part, streamVars
<1>12. Applied(Actor[c], p, Head(p.wire), t) /\ p.wire /= <<>>
  <2>1. p.wire = wire[c] /\ Head(p.wire) = f /\ p.wire /= <<>>
    BY <1>2, Zenon DEF Part, f
  <2>2. /\ t.wire = Tail(p.wire) /\ t.cursor = f.replay.latest
        /\ t.received = p.received \o f.replay.events
        /\ t.acks = Append(p.acks, f.replay.latest)
    BY <1>1, <1>7, Zenon DEF StreamTypes, Part
  <2>3. t.view = IF f.snapshot /= {} THEN CHOOSE v \in f.snapshot : TRUE
                 ELSE FoldEvents(p.view, f.replay.events, p.cursor)
    <3>1. t.view = AppliedView(c, f) /\ p.view = view[c] /\ p.cursor = cursor[c]
      BY <1>1, <1>7, Zenon DEF StreamTypes, Part
    <3> QED
      BY <3>1, Zenon DEF AppliedView
  <2>4. t.skipped = IF f.replay.gap
                    THEN p.skipped \union Own(log, owner, Actor[c], p.cursor, f.replay.latest)
                    ELSE p.skipped
    BY <1>1, <1>7, Zenon DEF StreamTypes, Part, over
  <2>5. /\ t.conn = p.conn /\ t.head = p.head /\ t.replay = p.replay /\ t.feed = p.feed
        /\ t.feedOpen = p.feedOpen /\ t.sending = p.sending /\ t.ceiling = p.ceiling
        /\ t.acked = p.acked
    BY <1>7, Zenon DEF Part, streamVars
  <2> HIDE DEF p, t
  <2> QED
    BY <2>1, <2>2, <2>3, <2>4, <2>5, Zenon DEF Applied
<1> HIDE DEF p, t
<1>13. PartInv(log, owner, row, Actor[c], t)
  BY <1>1, <1>10, <1>12, ReceiveKeeps, Zenon
<1> QED
  BY <1>7, <1>9, <1>11, <1>13, OneClient, Zenon DEF t

(* Reading to the end of a closed stream keeps the inductive invariant.      *)
LEMMA ClosedStep ==
  ASSUME JournalIInv, NEW c \in Clients, Closed(c)
  PROVE  JournalIInv'
<1> DEFINE p == Part(c)
           t == Part(c)'
<1>1. log \in Seq(Event) /\ StreamTypes /\ PartInv(log, owner, row, Actor[c], p)
  BY Zenon DEF JournalIInv, JournalTypes
<1>2. <<>> \in Seq(Nat)
  OBVIOUS
<1>3. StreamTypes'
  BY <1>1, <1>2, Zenon DEF StreamTypes, Closed, Conns, clientVars
<1>4. p \in Parts /\ t \in Parts
  BY <1>1, <1>3, PartIsTyped, PartIsTypedNext, Zenon
<1>5. \A d \in Clients : d /= c => Part(d)' = Part(d)
  BY <1>1, Zenon DEF StreamTypes, Part, Closed, clientVars
<1>6. p.conn = "closing" /\ p.wire = <<>> /\ t.conn = "down" /\ t.acks = <<>>
  BY <1>1, Zenon DEF StreamTypes, Part, Closed
<1>7. /\ t.head = p.head /\ t.replay = p.replay /\ t.feed = p.feed
      /\ t.feedOpen = p.feedOpen /\ t.sending = p.sending /\ t.ceiling = p.ceiling
      /\ t.wire = p.wire /\ t.cursor = p.cursor /\ t.view = p.view
      /\ t.received = p.received /\ t.skipped = p.skipped /\ t.acked = p.acked
  BY Zenon DEF Part, Closed, clientVars
<1> HIDE DEF p, t
<1>8. /\ p.feed = <<>> /\ p.feedOpen = FALSE /\ p.sending = {}
      /\ p.head <= Len(log) /\ p.ceiling <= Len(log) /\ Len(p.replay.events) <= PageLimit
  <2>1. Phase(log, owner, Actor[c], p) /\ Queued(log, owner, Actor[c], p) /\ Bounded(log, p)
    BY <1>1, Zenon DEF PartInv
  <2>2. p.feedOpen \in BOOLEAN
    BY <1>4, Zenon DEF Parts
  <2> QED
    BY <1>6, <2>1, <2>2, Zenon DEF Phase, Queued, Idle, Bounded
<1>9. PartInv(log, owner, row, Actor[c], t)
  BY <1>1, <1>4, <1>6, <1>7, <1>8, DownKeeps, Zenon
<1> QED
  BY <1>3, <1>5, <1>9, OneClient, Zenon DEF Closed, t

(* Losing the connections of any set of clients, with or without the events  *)
(* still owed, keeps the inductive invariant.                                *)
LEMMA HangupStep ==
  ASSUME JournalIInv, NEW C \in SUBSET Clients, Hangup(C), owed' \in {owed, {}}
  PROVE  JournalIInv'
<1>1. log \in Seq(Event) /\ JournalTypes /\ StreamTypes /\ RowsFirst
  BY Zenon DEF JournalIInv, JournalTypes
<1>2. log' = log /\ owner' = owner /\ row' = row
  BY Zenon DEF Hangup
<1>3. JournalTypes'
  <2>1. /\ IsFiniteSet({}) /\ Cardinality({}) = 0 /\ Cardinality(owed) \in Nat
        /\ Len(log) \in Nat /\ MaxEvents \in Nat
    BY <1>1, FS_EmptySet, FS_CardinalityType, JournalConfig DEF JournalTypes
  <2>2. CASE owed' = owed
    BY <1>1, <1>2, <2>2, Zenon DEF JournalTypes
  <2>3. CASE owed' = {}
    <3>1. Len(log) + 0 <= MaxEvents
      BY <1>1, <2>1 DEF JournalTypes
    <3>2. IsFiniteSet(owed') /\ Cardinality(owed') = 0 /\ owed' \in SUBSET Event
      BY <2>1, <2>3, Zenon
    <3> QED
      BY <1>1, <1>2, <3>1, <3>2, Zenon DEF JournalTypes
  <2> QED
    BY <2>2, <2>3, Zenon
<1>4. RowsFirst'
  BY <1>1, <1>2, Zenon DEF RowsFirst
<1>5. StreamTypes'
  <2>1. NoReplay \in Replays /\ <<>> \in Seq(Nat) /\ <<>> \in Seq(Frames)
    BY DEF NoReplay, Replays
  <2> QED
    BY <1>1, <2>1, Zenon DEF StreamTypes, Hangup, Conns, clientVars
<1>6. ASSUME NEW c \in Clients
      PROVE  PartInv(log, owner, row, Actor[c], Part(c)')
  <2> DEFINE p == Part(c)
             t == Part(c)'
  <2>1. PartInv(log, owner, row, Actor[c], p) /\ p \in Parts /\ t \in Parts
    BY <1>1, <1>5, PartIsTyped, PartIsTypedNext, Zenon DEF JournalIInv
  <2>2. CASE c \in C
    <3>1. /\ t.conn = "down" /\ t.head = 0 /\ t.ceiling = 0 /\ t.replay = NoReplay
          /\ t.feed = <<>> /\ t.feedOpen = FALSE /\ t.sending = {} /\ t.wire = <<>>
          /\ t.acks = <<>>
      BY <2>2, Zenon DEF Part, Hangup
    <3>2. /\ t.cursor = p.cursor /\ t.view = p.view /\ t.received = p.received
          /\ t.skipped = p.skipped /\ t.acked = p.acked
      BY Zenon DEF Part, Hangup, clientVars
    <3>3. 0 <= Len(log) /\ Len(NoReplay.events) <= PageLimit
      BY <1>1, JournalConfig DEF NoReplay
    <3> HIDE DEF p, t
    <3>4. t.head <= Len(log) /\ t.ceiling <= Len(log) /\ Len(t.replay.events) <= PageLimit
      BY <3>1, <3>3, Zenon
    <3>5. PartInv(log, owner, row, Actor[c], t)
      BY <1>1, <2>1, <3>1, <3>2, <3>4, DownKeeps, Zenon
    <3> QED
      BY <3>5, Zenon DEF t
  <2>3. CASE c \notin C
    <3>1. t = p
      BY <2>3, Zenon DEF Part, Hangup, clientVars
    <3> QED
      BY <2>1, <3>1, Zenon
  <2> QED
    BY <2>2, <2>3, Zenon
<1> QED
  BY <1>2, <1>3, <1>4, <1>5, <1>6, Zenon DEF JournalIInv

(* Opening or closing an item, before its event is emitted, keeps the        *)
(* inductive invariant.                                                      *)
LEMMA ChangeRowStep ==
  ASSUME JournalIInv, NEW i \in Items, NEW from, NEW to, NEW kind,
         \/ from = "absent" /\ to = "open" /\ kind = "opened"
         \/ from = "open" /\ to = "closed" /\ kind = "closed",
         ChangeRow(i, from, to, kind)
  PROVE  JournalIInv'
<1> DEFINE e == [item |-> i, kind |-> kind]
<1>1. log \in Seq(Event) /\ JournalTypes /\ StreamTypes /\ RowsFirst /\ row \in Rows
  BY Zenon DEF JournalIInv, JournalTypes
<1>2. /\ log' = log /\ owner' = owner /\ row' = [row EXCEPT ![i] = to] /\ row[i] = from
      /\ owed' = owed \union {e} /\ Len(log) + Cardinality(owed) < MaxEvents
  BY Zenon DEF ChangeRow
<1>3. e \in Event /\ e.item = i /\ e.kind = kind
  BY Zenon DEF Event, Kinds
<1> HIDE DEF e
<1>4. /\ row'[i] = to /\ row' \in Rows
      /\ \A j \in Items : j /= i => row'[j] = row[j]
  BY <1>1, <1>2, Zenon DEF Rows
<1>5. JournalTypes'
  <2>1. /\ IsFiniteSet(owed \union {e})
        /\ Cardinality(owed \union {e}) =
             IF e \in owed THEN Cardinality(owed) ELSE Cardinality(owed) + 1
    BY <1>1, FS_AddElement, Zenon DEF JournalTypes
  <2>2. Cardinality(owed) \in Nat /\ Len(log) \in Nat /\ MaxEvents \in Nat
    BY <1>1, FS_CardinalityType, JournalConfig DEF JournalTypes
  <2>3. Len(log) + Cardinality(owed \union {e}) <= MaxEvents
    BY <1>2, <2>1, <2>2
  <2> QED
    BY <1>1, <1>2, <1>3, <1>4, <2>1, <2>3, Zenon DEF JournalTypes
<1>6. RowsFirst'
  <2>1. ASSUME NEW x \in Event, Happened(row, x) PROVE Happened(row', x)
    <3>1. x.item \in Items
      BY Zenon DEF Event
    <3> QED
      BY <1>2, <1>4, <2>1, <3>1, Zenon DEF Happened
  <2>2. Happened(row', e)
    BY <1>3, <1>4, Zenon DEF Happened
  <2>3. owed \subseteq Event /\ \A s \in 1..Len(log) : log[s] \in Event
    BY <1>1 DEF JournalTypes
  <2> QED
    BY <1>1, <1>2, <2>1, <2>2, <2>3, Zenon DEF RowsFirst
<1>7. StreamTypes' /\ \A c \in Clients : Part(c)' = Part(c)
  BY <1>1, Zenon
     DEF ChangeRow, StreamTypes, Part, streamVars, linkVars, clientVars
<1>8. ASSUME NEW c \in Clients
      PROVE  PartInv(log, owner, [row EXCEPT ![i] = to], Actor[c], Part(c))
  <2>1. Part(c) \in Parts /\ PartInv(log, owner, row, Actor[c], Part(c))
    BY <1>1, PartIsTyped, Zenon DEF JournalIInv
  <2>2. \A s \in 1..Len(log) : Happened(row, log[s])
    BY <1>1, Zenon DEF RowsFirst
  <2>3. (row[i] = "absent" /\ to = "open") \/ (row[i] = "open" /\ to = "closed")
    BY <1>2, Zenon
  <2> QED
    BY <1>1, <2>1, <2>2, <2>3, RowKeeps, Zenon
<1>9. ASSUME NEW c \in Clients PROVE PartInv(log', owner', row', Actor[c], Part(c)')
  BY <1>2, <1>7, <1>8, Zenon
<1> QED
  BY <1>5, <1>6, <1>7, <1>9, Zenon DEF JournalIInv

(* Append and publishLocked keep the inductive invariant.                    *)
LEMMA EmitStep ==
  ASSUME JournalIInv, NEW e \in Event, Emit(e)
  PROVE  JournalIInv'
<1>1. log \in Seq(Event) /\ JournalTypes /\ StreamTypes /\ RowsFirst
  BY Zenon DEF JournalIInv, JournalTypes
<1>2. /\ log' = Append(log, e) /\ owner' = owner /\ row' = row /\ owed' = owed \ {e}
      /\ e \in owed
  BY Zenon DEF Emit
<1>3. /\ Len(log) \in Nat /\ Append(log, e) \in Seq(Event) /\ Len(Append(log, e)) = Len(log) + 1
      /\ Append(log, e)[Len(log) + 1] = e
      /\ \A s \in 1..Len(log) : Append(log, e)[s] = log[s]
  BY <1>1
<1>4. JournalTypes'
  <2>1. IsFiniteSet(owed \ {e}) /\ Cardinality(owed \ {e}) = Cardinality(owed) - 1
    BY <1>1, <1>2, FS_RemoveElement, Zenon DEF JournalTypes
  <2>2. Cardinality(owed) \in Nat /\ MaxEvents \in Nat
    BY <1>1, FS_CardinalityType, JournalConfig, Zenon DEF JournalTypes
  <2>3. Len(log') + Cardinality(owed') <= MaxEvents
    BY <1>1, <1>2, <1>3, <2>1, <2>2 DEF JournalTypes
  <2> QED
    BY <1>1, <1>2, <1>3, <2>1, <2>3, Zenon DEF JournalTypes
<1>5. RowsFirst'
  <2>1. ASSUME NEW s \in 1..Len(log) + 1 PROVE Happened(row, Append(log, e)[s])
    <3>1. CASE s = Len(log) + 1
      BY <1>1, <1>2, <1>3, <3>1, Zenon DEF RowsFirst
    <3>2. CASE s \in 1..Len(log)
      BY <1>1, <1>3, <3>2, Zenon DEF RowsFirst
    <3> QED
      BY <1>3, <3>1, <3>2
  <2> QED
    BY <1>1, <1>2, <1>3, <2>1, Zenon DEF RowsFirst
<1>6. StreamTypes'
  <2>1. \A c \in Clients : Append(feed[c], Len(log) + 1) \in Seq(Nat) /\ feed[c] \in Seq(Nat)
    BY <1>1, <1>3 DEF StreamTypes
  <2>2. feed' \in [Clients -> Seq(Nat)]
    BY <2>1, Zenon DEF Emit, Publish
  <2>3. feedOpen' \in [Clients -> BOOLEAN]
    BY <1>1, Zenon DEF Emit, Publish, StreamTypes
  <2> QED
    BY <1>1, <2>2, <2>3, Zenon DEF Emit, StreamTypes, linkVars, clientVars
<1>7. ASSUME NEW c \in Clients
      PROVE  PartInv(Append(log, e), owner, row, Actor[c], Part(c)')
  <2> DEFINE p == Part(c)
             t == Part(c)'
  <2>1. PartInv(log, owner, row, Actor[c], p) /\ p \in Parts /\ t \in Parts
    BY <1>1, <1>6, PartIsTyped, PartIsTypedNext, Zenon DEF JournalIInv
  <2>2. /\ t.conn = p.conn /\ t.head = p.head /\ t.ceiling = p.ceiling
        /\ t.replay = p.replay /\ t.sending = p.sending /\ t.wire = p.wire
        /\ t.acks = p.acks /\ t.cursor = p.cursor /\ t.view = p.view
        /\ t.received = p.received /\ t.skipped = p.skipped /\ t.acked = p.acked
    BY Zenon DEF Part, Emit, linkVars, clientVars
  <2>3. t.feed = IF p.feedOpen /\ Actor[c] = owner[e.item] /\ Len(p.feed) /= Buffer
                 THEN Append(p.feed, Len(log) + 1) ELSE p.feed
    BY Zenon DEF Part, Emit, Publish, Listening, Full
  <2>4. t.feedOpen =
          (p.feedOpen /\ ~(p.feedOpen /\ Actor[c] = owner[e.item] /\ Len(p.feed) = Buffer))
    BY Zenon DEF Part, Emit, Publish, Listening, Full
  <2> HIDE DEF p, t
  <2>5. Published(log, e, owner, Actor[c], p, t)
    BY <2>2, <2>3, <2>4, Zenon DEF Published
  <2>6. PartInv(Append(log, e), owner, row, Actor[c], t)
    BY <1>1, <2>1, <2>2, <2>5, EmitKeeps, Zenon
  <2> QED
    BY <2>6, Zenon DEF t
<1>8. ASSUME NEW c \in Clients PROVE PartInv(log', owner', row', Actor[c], Part(c)')
  BY <1>2, <1>7, Zenon
<1> QED
  BY <1>4, <1>5, <1>6, <1>8, Zenon DEF JournalIInv

-----------------------------------------------------------------------------
(* Every step of a stream and of its client keeps the inductive invariant.   *)
LEMMA StreamStepKeeps ==
  ASSUME JournalIInv, NEW c \in Clients, StreamStep(c)
  PROVE  JournalIInv'
<1>1. CASE Subscribe(c)
  BY <1>1, SubscribeStep, Zenon
<1>2. CASE SendRecovery(c)
  BY <1>2, SendRecoveryStep, Zenon
<1>3. CASE SendPage(c)
  BY <1>3, SendPageStep, Zenon
<1>4. CASE TakeEvent(c)
  BY <1>4, TakeEventStep, Zenon
<1>5. CASE WriteEvent(c)
  BY <1>5, WriteEventStep, Zenon
<1>6. CASE FeedClosed(c)
  BY <1>6, FeedClosedStep, Zenon
<1>7. CASE ReadAck(c)
  BY <1>7, ReadAckStep, Zenon
<1>8. CASE Receive(c)
  BY <1>8, ReceiveStep, Zenon
<1>9. CASE Closed(c)
  BY <1>9, ClosedStep, Zenon
<1> QED
  BY <1>1, <1>2, <1>3, <1>4, <1>5, <1>6, <1>7, <1>8, <1>9, Zenon DEF StreamStep

(* Every step of the journal, the streams and the clients keeps it.          *)
LEMMA JournalNext ==
  ASSUME JournalIInv, [Next]_vars
  PROVE  JournalIInv'
<1>1. ASSUME NEW i \in Items, Open(i) PROVE JournalIInv'
  BY <1>1, ChangeRowStep, Zenon DEF Open
<1>2. ASSUME NEW i \in Items, Close(i) PROVE JournalIInv'
  BY <1>2, ChangeRowStep, Zenon DEF Close
<1>3. ASSUME NEW e \in Event, Emit(e) PROVE JournalIInv'
  BY <1>3, EmitStep, Zenon
<1>4. ASSUME NEW c \in Clients, StreamStep(c) PROVE JournalIInv'
  BY <1>4, StreamStepKeeps, Zenon
<1>5. ASSUME NEW c \in Clients, Break(c) PROVE JournalIInv'
  <2>1. {c} \in SUBSET Clients /\ Hangup({c}) /\ owed' \in {owed, {}}
    BY <1>5, Zenon DEF Break
  <2> QED
    BY <2>1, HangupStep, Zenon
<1>6. CASE Restart
  <2>1. Clients \in SUBSET Clients /\ Hangup(Clients) /\ owed' \in {owed, {}}
    BY <1>6, Zenon DEF Restart
  <2> QED
    BY <2>1, HangupStep, Zenon
<1>7. CASE UNCHANGED vars
  <2>1. UNCHANGED journalVars /\ StreamTypes' /\ \A d \in Clients : Part(d)' = Part(d)
    BY <1>7, Zenon
       DEF vars, journalVars, streamVars, linkVars, clientVars, JournalIInv, StreamTypes, Part
  <2>2. JournalTypes' /\ RowsFirst'
    BY <2>1, Zenon DEF JournalIInv, JournalTypes, RowsFirst, journalVars
  <2>3. ASSUME NEW d \in Clients PROVE PartInv(log', owner', row', Actor[d], Part(d)')
    <3>1. log' = log /\ owner' = owner /\ row' = row /\ Part(d)' = Part(d)
      BY <2>1, Zenon DEF journalVars
    <3>2. PartInv(log, owner, row, Actor[d], Part(d))
      BY Zenon DEF JournalIInv
    <3> QED
      BY <3>1, <3>2, Zenon
  <2> QED
    BY <2>1, <2>2, <2>3, Zenon DEF JournalIInv
<1> QED
  BY <1>1, <1>2, <1>3, <1>4, <1>5, <1>6, <1>7, Zenon DEF Next

(* An empty journal without connections satisfies the inductive invariant.   *)
LEMMA JournalStart == Init => JournalIInv
<1> SUFFICES ASSUME Init PROVE JournalIInv
  BY Zenon
<1>1. log = <<>> /\ log \in Seq(Event) /\ Len(log) = 0 /\ owed = {}
  BY DEF Init
<1>2. JournalTypes
  <2>1. IsFiniteSet({}) /\ Cardinality({}) = 0 /\ MaxEvents \in Nat
    BY FS_EmptySet, JournalConfig, Zenon
  <2> QED
    BY <1>1, <2>1 DEF Init, JournalTypes, Rows
<1>3. StreamTypes
  <2>1. NoReplay \in Replays /\ <<>> \in Seq(Nat) /\ <<>> \in Seq(Frames)
    BY DEF NoReplay, Replays
  <2> QED
    BY <2>1, Zenon DEF Init, StreamTypes, Conns
<1>4. RowsFirst
  BY <1>1 DEF RowsFirst
<1>5. ASSUME NEW c \in Clients PROVE PartInv(log, owner, row, Actor[c], Part(c))
  <2> DEFINE p == Part(c)
             a == Actor[c]
  <2>1. /\ p.conn = "down" /\ p.head = 0 /\ p.replay = NoReplay /\ p.feed = <<>>
        /\ p.feedOpen = FALSE /\ p.sending = {} /\ p.ceiling = 0 /\ p.wire = <<>>
        /\ p.acks = <<>> /\ p.cursor = 0 /\ p.view = {} /\ p.received = <<>>
        /\ p.skipped = {} /\ p.acked = 0
    BY Zenon DEF Part, Init
  <2> HIDE DEF p, a
  <2>2. Wired(log, owner, a, p.wire, p.cursor)
    BY <2>1 DEF Wired
  <2>3. Phase(log, owner, a, p)
    BY <2>1, Zenon DEF Phase
  <2>4. Queued(log, owner, a, p)
    BY <2>1, JournalConfig DEF Queued, Idle
  <2>5. Bounded(log, p)
    BY <1>1, <2>1, JournalConfig DEF Bounded, Streaming, NoReplay
  <2>6. Handed(log, owner, a, p.cursor, p.received, p.skipped)
    BY <2>1 DEF Handed, Ascending, Elems, Own
  <2>7. Agrees(log, owner, row, a, p)
    BY <2>1, Zenon DEF Agrees, Streaming
  <2>8. PartInv(log, owner, row, a, p)
    BY <2>2, <2>3, <2>4, <2>5, <2>6, <2>7, Zenon DEF PartInv
  <2> QED
    BY <2>8, Zenon DEF p, a
<1> QED
  BY <1>2, <1>3, <1>4, <1>5, Zenon DEF JournalIInv

(* The inductive invariant holds in every state, without any fairness.       *)
LEMMA JournalKept == Init /\ [][Next]_vars => []JournalIInv
<1>1. Init => JournalIInv
  BY JournalStart, Zenon
<1>2. JournalIInv /\ [Next]_vars => JournalIInv'
  BY JournalNext, Zenon
<1> QED
  BY <1>1, <1>2, PTL

(* A client with nothing left to come shows an item as the database has it.  *)
LEMMA CaughtUpAgrees ==
  ASSUME log \in Seq(Event), NEW a, NEW p \in Parts, PartInv(log, owner, row, a, p),
         p.conn = "live", p.wire = <<>>, p.sending = {}, p.feed = <<>>, p.feedOpen = TRUE,
         NEW i \in Items, owner[i] = a, Word(log, i) = row[i]
  PROVE  i \in p.view <=> row[i] = "open"
<1>1. /\ Phase(log, owner, a, p) /\ Queued(log, owner, a, p) /\ Agrees(log, owner, row, a, p)
  BY Zenon DEF PartInv
<1>2. SentTo(p) = p.cursor /\ ~Fresh(p)
  BY Zenon DEF SentTo, Sent, Fresh
<1>3. p.ceiling = p.cursor
  BY <1>1, <1>2, Zenon DEF Phase
<1>4. p.cursor \in Nat /\ Len(log) \in Nat
  BY DEF Parts
<1>5. Own(log, owner, a, p.cursor, Len(log)) = {}
  <2>1. Follows(log, owner, a, p.cursor, <<>>, TRUE)
    BY <1>1, <1>3, Zenon DEF Queued, Idle, From
  <2>2. Elems(<<>>) = {}
    BY DEF Elems
  <2> QED
    BY <2>1, <2>2, Zenon DEF Follows
<1>6. ASSUME NEW s \in Mentions(log, i) PROVE s <= p.cursor
  <2>1. s \in 1..Len(log) /\ owner[log[s].item] = a
    BY Zenon DEF Mentions
  <2>2. s > p.cursor => s \in Own(log, owner, a, p.cursor, Len(log))
    BY <1>4, <2>1 DEF Own
  <2> QED
    BY <1>4, <1>5, <2>1, <2>2
<1>7. Settled(log, row, i, p.cursor)
  BY <1>6, Zenon DEF Settled
<1>8. Shows(log, owner, row, a, p.cursor, p.view)
  BY <1>1, <1>2, Zenon DEF Agrees, Streaming, Told, Shown
<1> QED
  BY <1>7, <1>8, Zenon DEF Shows, OwnItems

(* The inductive invariant implies the safety properties of the journal.     *)
LEMMA JournalImplied == JournalIInv => JournalInv
<1> SUFFICES ASSUME JournalIInv PROVE JournalInv
  BY Zenon
<1>1. log \in Seq(Event) /\ Len(log) \in Nat /\ JournalTypes /\ StreamTypes
  BY DEF JournalIInv, JournalTypes
<1>2. ASSUME NEW c \in Clients
      PROVE  /\ Part(c) \in Parts
             /\ PartInv(log, owner, row, Actor[c], Part(c))
             /\ Phase(log, owner, Actor[c], Part(c)) /\ Queued(log, owner, Actor[c], Part(c))
             /\ Bounded(log, Part(c)) /\ Agrees(log, owner, row, Actor[c], Part(c))
             /\ Handed(log, owner, Actor[c], cursor[c], received[c], skipped[c])
  <2>1. PartInv(log, owner, row, Actor[c], Part(c)) /\ Part(c) \in Parts
    BY <1>1, PartIsTyped, Zenon DEF JournalIInv
  <2>2. /\ Part(c).cursor = cursor[c] /\ Part(c).received = received[c]
        /\ Part(c).skipped = skipped[c]
    BY Zenon DEF Part
  <2> QED
    BY <2>1, <2>2, Zenon DEF PartInv
<1>3. ASSUME NEW c \in Clients
      PROVE  /\ head[c] <= Len(log) /\ ceiling[c] <= Len(log) /\ cursor[c] <= Len(log)
             /\ acked[c] <= cursor[c] /\ \A n \in 1..Len(acks[c]) : acks[c][n] <= cursor[c]
             /\ Len(replay[c].events) <= PageLimit
             /\ conn[c] = "live" => cursor[c] <= ceiling[c]
  BY <1>2, Zenon DEF Bounded, Part, Streaming
<1>4. ASSUME NEW c \in Clients
      PROVE  /\ head[c] \in Nat /\ ceiling[c] \in Nat /\ cursor[c] \in Nat /\ acked[c] \in Nat
             /\ acks[c] \in Seq(Nat) /\ received[c] \in Seq(Nat)
  BY <1>1, Zenon DEF StreamTypes
<1>5. TypeOK
  <2>1. Len(log) <= MaxEvents
    <3>1. Cardinality(owed) \in Nat /\ MaxEvents \in Nat
      BY <1>1, FS_CardinalityType, JournalConfig, Zenon DEF JournalTypes
    <3> QED
      BY <1>1, <3>1 DEF JournalTypes
  <2>2. {head, ceiling, cursor, acked} \subseteq [Clients -> 0..Len(log)]
    <3>1. \A c \in Clients : /\ head[c] \in 0..Len(log) /\ ceiling[c] \in 0..Len(log)
                             /\ cursor[c] \in 0..Len(log) /\ acked[c] \in 0..Len(log)
      BY <1>1, <1>3, <1>4
    <3> QED
      BY <1>1, <3>1, Zenon DEF StreamTypes
  <2>3. ASSUME NEW c \in Clients
        PROVE  Len(feed[c]) <= Buffer /\ view[c] \subseteq {i \in Items : owner[i] = Actor[c]}
    BY <1>2, Zenon DEF Queued, Agrees, Part, OwnItems
  <2>4. ASSUME NEW c \in Clients PROVE Cardinality(sending[c]) <= 1
    <3>1. sending[c] = {} \/ \E x : sending[c] = {x}
      BY <1>2, Zenon DEF Phase, Part
    <3>2. Cardinality(sending[c]) \in {0, 1}
      BY <3>1, FS_EmptySet, FS_Singleton, Zenon
    <3> QED
      BY <3>2
  <2>5. ASSUME NEW c \in Clients, conn[c] = "down" PROVE wire[c] = <<>> /\ acks[c] = <<>>
    BY <1>2, <2>5, Zenon DEF Phase, Part
  <2> QED
    BY <1>1, <1>3, <2>1, <2>2, <2>3, <2>4, <2>5, Zenon
    DEF TypeOK, JournalTypes, StreamTypes, Conns, Rows
<1>6. OrderedOnce
  <2>1. ASSUME NEW c \in Clients, NEW n \in 1..Len(received[c])
        PROVE  OwnEvent(c, received[c][n])
    <3>1. received[c][n] \in Own(log, owner, Actor[c], 0, cursor[c])
      BY <1>2, Zenon DEF Handed, Elems
    <3> QED
      BY <3>1, Zenon DEF Own, OwnEvent
  <2> QED
    BY <1>2, <2>1, Zenon DEF OrderedOnce, Handed
<1>7. NothingSilentlyLost
  <2>1. ASSUME NEW c \in Clients, NEW s \in OwnEvents(c, 0, cursor[c])
        PROVE  s \in skipped[c] \/ \E n \in 1..Len(received[c]) : received[c][n] = s
    <3>1. s \in Own(log, owner, Actor[c], 0, cursor[c])
      BY Zenon DEF OwnEvents, OwnEvent, Own
    <3> QED
      BY <1>2, <3>1, Zenon DEF Handed, Elems
  <2> QED
    BY <2>1, Zenon DEF NothingSilentlyLost
<1>8. FastAckAccepted
  <2>1. ASSUME NEW c \in Clients, conn[c] = "live", NEW n \in 1..Len(acks[c])
        PROVE  acks[c][n] <= ceiling[c]
    <3>1. acks[c][n] \in Nat /\ acks[c][n] <= cursor[c] /\ cursor[c] <= ceiling[c]
      BY <1>3, <1>4, <2>1
    <3> QED
      BY <1>4, <3>1
  <2> QED
    BY <2>1, Zenon DEF FastAckAccepted
<1>9. ViewAgrees
  <2>1. ASSUME NEW c \in Clients, CaughtUp(c), NEW i \in Items,
               owner[i] = Actor[c], LastWord(i) = row[i]
        PROVE  i \in view[c] <=> row[i] = "open"
    <3> DEFINE p == Part(c)
    <3>1. /\ p.conn = "live" /\ p.wire = <<>> /\ p.sending = {} /\ p.feed = <<>>
          /\ p.feedOpen = TRUE /\ p.view = view[c]
      BY <1>1, <2>1, Zenon DEF CaughtUp, Part, StreamTypes
    <3>2. Word(log, i) = row[i]
      BY <2>1, Zenon DEF LastWord, Word, Mentions
    <3>3. p \in Parts /\ PartInv(log, owner, row, Actor[c], p)
      BY <1>2, Zenon
    <3> HIDE DEF p
    <3>4. i \in p.view <=> row[i] = "open"
      BY <1>1, <2>1, <3>1, <3>2, <3>3, CaughtUpAgrees, Zenon
    <3> QED
      BY <3>1, <3>4, Zenon
  <2> QED
    BY <2>1, Zenon DEF ViewAgrees
<1> QED
  BY <1>5, <1>6, <1>7, <1>8, <1>9, Zenon DEF JournalInv

(* Whatever the clients, items and actors, the retention, the buffer and the *)
(* page size, and however appends, subscriptions, overflows, lost            *)
(* connections and restarts interleave: a client is handed its actor's       *)
(* events in order and once, none at or below its cursor is missing without  *)
(* a gap marker, its acknowledgements stay below the stream's ceiling, and a *)
(* client that has caught up shows the pending approvals of the database     *)
(* wherever the journal has the last word on the item.                       *)
THEOREM JournalSafety == Spec => []JournalInv
<1>1. Spec => []JournalIInv
  BY JournalKept, PTL DEF Spec
<1> QED
  BY <1>1, JournalImplied, PTL

-----------------------------------------------------------------------------
(* Only a frame with a gap marker makes a client skip events, and its page   *)
(* was read from a cursor that retention had left behind.                    *)
LEMMA GapStep ==
  ASSUME JournalIInv, [Next]_vars, NEW c \in Clients, skipped'[c] /= skipped[c]
  PROVE  cursor'[c] > cursor[c] + Retention
<1>1. Receive(c)
  <2>1. PICK d \in Clients : Receive(d)
    BY Zenon
       DEF Next, vars, Open, Close, ChangeRow, Emit, StreamStep, Subscribe, SendRecovery,
           SendPage, TakeEvent, WriteEvent, FeedClosed, ReadAck, Closed, Break, Restart,
           Hangup, clientVars
  <2>2. d = c
    BY <2>1, Zenon DEF Receive, JournalIInv, StreamTypes
  <2> QED
    BY <2>1, <2>2, Zenon
<1> DEFINE f == Head(wire[c])
<1>2. StreamTypes /\ PartInv(log, owner, row, Actor[c], Part(c))
  BY Zenon DEF JournalIInv
<1>3. f \in Frames /\ f = wire[c][1] /\ 1 \in 1..Len(wire[c])
  BY <1>1, <1>2 DEF StreamTypes, Receive
<1>4. f.replay.gap
  BY <1>1, <1>2, Zenon DEF Receive, StreamTypes
<1>5. cursor[c] + Retention < f.replay.latest
  <2>1. Wired(log, owner, Actor[c], wire[c], cursor[c])
    BY <1>2, Zenon DEF PartInv, Part
  <2> HIDE DEF f
  <2>2. Sent(wire[c], cursor[c], 1 - 1) = cursor[c]
    <3>1. 1 - 1 = 0
      OBVIOUS
    <3> QED
      BY <3>1, Zenon DEF Sent
  <2> QED
    BY <1>3, <1>4, <2>1, <2>2, Zenon DEF Wired, Covers
<1>6. cursor[c] \in Nat /\ f.replay.latest \in Nat /\ Retention \in Nat
  BY <1>2, <1>3, JournalConfig, Zenon DEF StreamTypes, Frames, Replays
<1>7. cursor'[c] = NewCursor(c, f)
  BY <1>1, <1>2, Zenon DEF Receive, StreamTypes
<1> HIDE DEF f
<1> QED
  BY <1>5, <1>6, <1>7 DEF NewCursor

(* Only readAcknowledgements changes the durable acknowledgement, to a       *)
(* sequence the client has sent and so processed.                            *)
LEMMA AckedStep ==
  ASSUME JournalIInv, [Next]_vars, NEW c \in Clients
  PROVE  acked[c] <= acked'[c] /\ acked'[c] <= cursor[c]
<1>1. StreamTypes /\ acked[c] \in Nat /\ cursor[c] \in Nat /\ acks[c] \in Seq(Nat)
  BY Zenon DEF JournalIInv, StreamTypes
<1>2. acked[c] <= cursor[c] /\ \A n \in 1..Len(acks[c]) : acks[c][n] <= cursor[c]
  BY Zenon DEF JournalIInv, PartInv, Bounded, Part
<1>3. CASE acked' = acked
  BY <1>1, <1>2, <1>3
<1>4. CASE acked' /= acked
  <2>1. PICK d \in Clients : ReadAck(d)
    BY <1>4, Zenon
       DEF Next, vars, Open, Close, ChangeRow, Emit, StreamStep, Subscribe, SendRecovery,
           SendPage, TakeEvent, WriteEvent, FeedClosed, Receive, Closed, Break, Restart,
           Hangup
  <2>2. acked' = [acked EXCEPT ![d] = Acknowledged(d, Head(acks[d]))] /\ acks[d] /= <<>>
    BY <1>4, <2>1, Zenon DEF ReadAck
  <2>3. CASE d = c
    <3>1. Head(acks[c]) = acks[c][1] /\ 1 \in 1..Len(acks[c]) /\ acks[c][1] \in Nat
      BY <1>1, <2>2, <2>3
    <3>2. acked'[c] = Acknowledged(c, acks[c][1])
      BY <1>1, <2>2, <2>3, <3>1, Zenon DEF StreamTypes
    <3> QED
      BY <1>1, <1>2, <3>1, <3>2 DEF Acknowledged
  <2>4. CASE d /= c
    BY <1>1, <1>2, <2>2, <2>4 DEF StreamTypes
  <2> QED
    BY <2>3, <2>4, Zenon
<1> QED
  BY <1>3, <1>4, Zenon

(* No step of a stream makes a client skip events that the journal still     *)
(* retained for its cursor, and none moves the durable acknowledgement back  *)
(* or past what the client has processed.                                    *)
THEOREM StreamStepsHold == Spec => StreamSteps
<1>1. JournalIInv /\ [Next]_vars =>
        [\A c \in Clients : skipped'[c] /= skipped[c] => cursor'[c] > cursor[c] + Retention]_vars
  BY GapStep, Zenon
<1>2. JournalIInv /\ [Next]_vars =>
        [\A c \in Clients : acked[c] <= acked'[c] /\ acked'[c] <= cursor[c]]_vars
  BY AckedStep, Zenon
<1>3. Spec => GapOnlyAfterTrim
  BY <1>1, JournalKept, PTL DEF Spec, GapOnlyAfterTrim
<1>4. Spec => AckedWasProcessed
  BY <1>2, JournalKept, PTL DEF Spec, AckedWasProcessed
<1> QED
  BY <1>3, <1>4, Zenon DEF StreamSteps
=============================================================================
