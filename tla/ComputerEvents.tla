---------------------------- MODULE ComputerEvents ----------------------------
(***************************************************************************)
(* Tool events on their way into the operator's view: what the client       *)
(* accepts from the stream (the validators of                               *)
(* ui/shared/src/generated/protocol.ts), and what the event store makes of  *)
(* the accepted ones (ui/shared/src/state/events.ts). A frame that fails     *)
(* validation closes the connection; the next one begins with a snapshot,    *)
(* which empties the view, and a page of the events after the cursor.        *)
(* Texts, identifiers and timestamps are kept to what the validators tell    *)
(* apart; the sequence rule (each event applied once) is in EventJournal.    *)
(***************************************************************************)
EXTENDS Naturals, Sequences, FiniteSets, SequencesExt

CONSTANTS
    Tools, None,
    MaxOrder,      \* activities kept in order (1000)
    MaxSources,    \* source references of one event in this instance (8)
    MaxPage        \* events of one recovery page in this instance

VARIABLES
    store,         \* computer_activities and computer_order of the operator's view
    closed,        \* a frame failed validation: the connection is closed
    ends,          \* history: how each call ended, as accepted since the last snapshot
    evicted        \* history: calls that made room since the last snapshot

eventVars == <<store, closed, ends, evicted>>

Terminal == {"completed", "failed", "denied", "interrupted", "outcome_unknown"}
computerPhases == {"requested", "awaiting_approval", "started", "progress"} \union Terminal
computerEventTypeByPhase ==
    [p \in computerPhases |->
        CASE p = "requested" -> "tool.requested" [] p = "awaiting_approval" -> "tool.awaiting_approval"
          [] p = "started" -> "tool.started"     [] p = "progress" -> "tool.delta"
          [] p = "completed" -> "tool.completed" [] p = "failed" -> "tool.failed"
          [] p = "denied" -> "tool.denied"       [] p = "interrupted" -> "tool.interrupted"
          [] OTHER -> "tool.outcome_unknown"]

-----------------------------------------------------------------------------
(* Display models.  A text is one of four kinds.                            *)

Texts == {"words", "https address", "path upwards", "markup"}
displayTextIsSafe(text) == text /= "markup"
displayURLIsSafe(text) == text = "https address"
displayPathIsSafe(text) == text = "words"
isDisplayDatum(d, sourceCount) ==
    /\ displayTextIsSafe(d.text)
    /\ d.sources /= {} /\ \A s \in d.sources : s < sourceCount
    /\ d.format = "url" => displayURLIsSafe(d.text)
    /\ d.format = "path" => displayPathIsSafe(d.text)
isDisplayBlock(b, sourceCount) == isDisplayDatum(b, sourceCount)
isDisplayModel(m, sourceCount) ==
    /\ m.version = "v1" /\ m.kind = "known"
    /\ isDisplayDatum(m.title, sourceCount)
    /\ \A i \in DOMAIN m.blocks : isDisplayBlock(m.blocks[i], sourceCount)

\* The earlier format has one source, a title and a summary, all plain text.
migrateDisplayModel(m, sourceCount) ==
    LET Datum(text) == [text |-> text, format |-> "text", sources |-> m.title.sources]
        migrated == [version |-> "v1", kind |-> m.kind, title |-> Datum(m.title.text),
                     blocks |-> [i \in DOMAIN m.blocks |-> Datum(m.blocks[i].text)]]
    IN IF isDisplayModel(m, sourceCount) THEN m
       ELSE IF m.version = "v0" /\ m.kind = "known" /\ isDisplayModel(migrated, sourceCount) THEN migrated
       ELSE None
displayModelCompatibility(m, sourceCount) ==
    CASE m.version = "v1" -> IF isDisplayModel(m, sourceCount) THEN "current" ELSE "invalid"
      [] m.version = "v0" -> IF migrateDisplayModel(m, sourceCount) = None THEN "invalid" ELSE "migrated"
      [] OTHER -> "unsupported"

-----------------------------------------------------------------------------
(* Event payloads and envelopes.                                            *)

\* Result and status read as two ways to say the same thing.
AcceptAnyStatus(p) ==
    /\ p.version = "current" /\ p.phase \in computerPhases /\ p.citesItself
    /\ (p.phase \in Terminal) = p.result
    /\ p.progress = (p.phase = "progress")
    /\ p.display /= None => displayModelCompatibility(p.display, p.sourceCount) /= "invalid"
isComputerEventPayload(p) ==
    /\ p.version = "current" /\ p.phase \in computerPhases /\ p.citesItself
    /\ (p.phase \in Terminal) = (p.status = p.phase) /\ (p.phase \in Terminal) = p.result
    /\ p.progress = (p.phase = "progress")
    /\ p.display /= None => displayModelCompatibility(p.display, p.sourceCount) /= "invalid"
\* A payload of another version passes unread.
isEventEnvelope(e) ==
    e.payload.version = "current" =>
        /\ isComputerEventPayload(e.payload)
        /\ e.tool = e.payload.tool
        /\ computerEventTypeByPhase[e.payload.phase] = e.type

\* Events an agent of this or another version may send: each call runs and completes;
\* one of them may also fail, and comes with any display and any combination of the
\* fields that have to agree.
Phases == {"progress", "completed", "failed"}
Displays ==
    LET Datum(t, f, s) == [text |-> t, format |-> f, sources |-> s]
        Model(v, k, d) == [version |-> v, kind |-> k, title |-> Datum("words", "text", {0}), blocks |-> <<d>>]
    IN {Model(v, "known", Datum(t, f, {0})) : v \in {"v0", "v1"}, t \in Texts, f \in {"text", "url", "path"}}
       \union {Model(v, k, Datum("words", "text", s)) :
                 v \in {"v0", "v1", "v2"}, k \in {"known", "odd"}, s \in {{0}, {0, MaxSources}}}
Payload(tool, phase) ==
    [version |-> "current", tool |-> tool, phase |-> phase,
     status |-> IF phase \in Terminal THEN phase ELSE None, result |-> phase \in Terminal,
     progress |-> phase = "progress", citesItself |-> TRUE, sourceCount |-> MaxSources, display |-> None]
Event(type, p) == [type |-> type, tool |-> p.tool, payload |-> p]
Events ==
    LET sent == {Payload(t, p) : t \in Tools, p \in {"progress", "completed"}}
        some == CHOOSE t \in Tools : TRUE
        shown == {[Payload(some, "progress") EXCEPT !.display = d] : d \in Displays}
        mixed == {[Payload(some, p) EXCEPT !.status = s, !.result = r, !.progress = g, !.citesItself = c] :
                    p \in Phases, s \in {None, "completed", "failed"}, r \in BOOLEAN, g \in BOOLEAN, c \in BOOLEAN}
        other == {[Payload(t, "started") EXCEPT !.version = "other"] : t \in Tools}
    IN {Event(computerEventTypeByPhase[p.phase], p) : p \in sent \union shown \union mixed \union other}
       \union {Event("tool.failed", Payload(some, p)) : p \in Phases}
\* What a page holds in this instance: calls that run and end, and an event that fails validation.
Replayed ==
    {Event(computerEventTypeByPhase[p], Payload(t, p)) : t \in Tools, p \in {"progress", "completed"}}
    \union {Event("tool.failed", Payload(CHOOSE t \in Tools : TRUE, "progress"))}

-----------------------------------------------------------------------------
(* The event store.                                                         *)

Kept(s) == DOMAIN s.activities
EmptyStore == [activities |-> << >>, order |-> << >>]
EventsInit ==
    /\ store = EmptyStore /\ closed = FALSE
    /\ ends = [t \in Tools |-> << >>] /\ evicted = {}

\* The store with one more call in its order, within the bound: the first call
\* of the order that ended makes room, or the oldest leaves the order.
DropOldest(s, tool) ==
    LET longer == IF Contains(s.order, tool) THEN s.order ELSE Append(s.order, tool)
    IN IF Len(longer) <= MaxOrder THEN [s EXCEPT !.order = longer]
       ELSE [activities |-> [t \in Kept(s) \ {Head(longer)} |-> s.activities[t]], order |-> Tail(longer)]
boundedComputerOrder(s, tool) ==
    LET longer == IF Contains(s.order, tool) THEN s.order ELSE Append(s.order, tool)
        removable == SelectSeq(longer, LAMBDA t : t \in Kept(s) /\ s.activities[t].terminal)
    IN IF Len(longer) <= MaxOrder THEN [s EXCEPT !.order = longer]
       ELSE IF removable = << >> THEN [s EXCEPT !.order = Tail(longer)]
       ELSE [activities |-> [t \in Kept(s) \ {Head(removable)} |-> s.activities[t]],
             order |-> SelectSeq(longer, LAMBDA t : t /= Head(removable))]

With(s, tool, activity) ==
    [s EXCEPT !.activities = [t \in Kept(s) \union {tool} |-> IF t = tool THEN activity ELSE s.activities[t]]]
Unsupported == [phase |-> "unsupported", terminal |-> FALSE, conflict |-> FALSE, named |-> FALSE]
applyComputerEvent(s, e) ==
    LET p == e.payload
        terminal == p.phase \in Terminal
        known == e.tool \in Kept(s)
    IN IF ~isComputerEventPayload(p)
       THEN IF known THEN s ELSE boundedComputerOrder(With(s, e.tool, Unsupported), e.tool)
       ELSE IF known /\ s.activities[e.tool].terminal
       THEN IF terminal /\ s.activities[e.tool].phase /= p.phase
            THEN [s EXCEPT !.activities[e.tool].conflict = TRUE] ELSE s
       ELSE boundedComputerOrder(
                With(s, e.tool, [phase |-> p.phase, terminal |-> terminal, named |-> p.status = p.phase,
                                 conflict |-> known /\ s.activities[e.tool].conflict]), e.tool)

\* The view and its history after one accepted event, and after a page of them.
View == [store |-> store, ends |-> ends, evicted |-> evicted]
EmptyView == [store |-> EmptyStore, ends |-> [t \in Tools |-> << >>], evicted |-> {}]
Ended(how, e) ==
    IF isComputerEventPayload(e.payload) /\ e.payload.phase \in Terminal /\ ~Contains(how[e.tool], e.payload.phase)
    THEN [how EXCEPT ![e.tool] = Append(@, e.payload.phase)] ELSE how
applyEvent(v, e) ==
    LET s == applyComputerEvent(v.store, e)
    IN [store |-> s, ends |-> Ended(v.ends, e),
        evicted |-> v.evicted \union ((Kept(v.store) \union {e.tool}) \ Kept(s))]
Shows(v) == store' = v.store /\ ends' = v.ends /\ evicted' = v.evicted

Deliver(e) ==
    /\ ~closed
    /\ \/ isEventEnvelope(e) /\ Shows(applyEvent(View, e)) /\ UNCHANGED closed
       \/ ~isEventEnvelope(e) /\ closed' = TRUE /\ UNCHANGED <<store, ends, evicted>>
\* The first frame of a connection has a snapshot, its later pages do not.
applyRecovery(snapshot, page) ==
    /\ snapshot \/ ~closed
    /\ \/ /\ \A i \in DOMAIN page : isEventEnvelope(page[i])
          /\ Shows(FoldLeft(applyEvent, IF snapshot THEN EmptyView ELSE View, page)) /\ closed' = FALSE
       \/ /\ \E i \in DOMAIN page : ~isEventEnvelope(page[i])
          /\ closed' = TRUE /\ UNCHANGED <<store, ends, evicted>>

EventsNext ==
    \/ \E e \in Events : Deliver(e)
    \/ \E snapshot \in BOOLEAN, page \in SeqOf(Replayed, MaxPage) : applyRecovery(snapshot, page)
EventsSpec == EventsInit /\ [][EventsNext]_eventVars

-----------------------------------------------------------------------------
\* Of the calls a connection has told of, the view forgets none that still runs, and
\* one that ended only to make room; a call it shows ended as it was first reported to
\* end, with the status that goes with it, and a second, different end only marks the
\* conflict, however late events and pages come. What is listed is kept, once, and
\* within the bound (applyRecovery, applyComputerEvent, boundedComputerOrder). Of what
\* was told before the snapshot a connection begins with, nothing is said: the view
\* starts again without it.
CallsEndOnce ==
    LET acts == store.activities
    IN /\ Len(store.order) <= MaxOrder /\ IsInjective(store.order) /\ ToSet(store.order) \subseteq Kept(store)
       /\ \A t \in Kept(store) : acts[t].terminal => acts[t].named
       /\ \A t \in Tools \ evicted :
            /\ ends[t] /= << >> =>
                 /\ t \in Kept(store) /\ acts[t].terminal /\ acts[t].phase = Head(ends[t])
                 /\ acts[t].conflict <=> Len(ends[t]) > 1
            /\ (ends[t] = << >> /\ t \in Kept(store)) => ~acts[t].terminal /\ ~acts[t].conflict
       /\ \A t \in evicted : ends[t] /= << >>
=============================================================================
