--------------------------- MODULE TerminalSession ---------------------------
(***************************************************************************)
(* The terminal client: the commands and projections of its App            *)
(* (ui/tui/src/App.tsx) over the connection they share                     *)
(* (ui/tui/src/local-client.ts).  The daemon reads a connection one frame  *)
(* at a time and answers before it reads on, and the client gives an       *)
(* answer to the oldest request without one.                               *)
(*                                                                         *)
(* A message is its number.  An effect of React runs before the next frame *)
(* or key.  A request made on a closed connection is rejected, and a       *)
(* rejection nobody catches ends the process.  The queries of one refresh  *)
(* are one request here: each fills a panel of its own.                    *)
(*                                                                         *)
(* And what its keys do (useInput): the section and the focus, the cursor  *)
(* over the retained Computer activity, the cursor over the conversations, *)
(* and the decisions a key sends.  Events arrive and the list of           *)
(* conversations is read again between any two keys.                       *)
(***************************************************************************)
EXTENDS Integers, Sequences, FiniteSets, SequencesExt

CONSTANTS
    Sessions, None,
    QueueLimit,             \* 20 in submit
    Window,                 \* retained events: 1000 in events.ts
    Lines, Keys,            \* what the operator types: "message", "slash"; and presses
    MaxMessages, MaxKeys, MaxEvents, MaxSessions   \* bounds

VARIABLES
    status,         \* the connection: "live", "degraded", or "dead" with the process
    pending,        \* requests without an answer, oldest first
    session, known,
    busy, queue, written,
    pressed,        \* keys and commands beside the messages
    turns,          \* accepted submissions, in order
    view,           \* the conversation whose panels are shown
    project, manifest,  \* activeProjectID is set; its verification manifest is loaded
    focus, section,
    recent,         \* state.recent_events: their numbers, and whether they are tool events
    arrived,
    computerFollowLive, computerCursor,
    sessions, sessionCursor,    \* how many conversations are listed, and the chosen one
    approvals,      \* state.pending_approvals, oldest first
    decisions       \* the approvals a and d were pressed for

terminalVars == <<status, pending, session, known, busy, queue, written, pressed, turns, view, project, manifest>>

Request(kind, s, content) == [kind |-> kind, session |-> s, content |-> content]
runningTurns == {i \in DOMAIN turns : turns[i].state = "running"
                                      /\ (session = None \/ turns[i].session = session)}
\* The commands send and executeSlash await inside try/finally, the ones that
\* runProjectVerification, decide, resumeSelectedSession, decideStudio and
\* applyStudio await without, and the queries of the effects, which are caught.
Guarded == {"session.create", "turn.submit", "slash", "new"}
Uncaught == {"verification.run", "approval", "studio", "studio.list", "session.resume"}
EndsBusy == Guarded \union {"verification.run"}

\* The effects on [sessionID, recent_events.length] and on the first project: every
\* panel is asked for again in the scope of the conversation.
Refresh(s, withProject) ==
    <<Request("refresh", s, 0)>>
    \o (IF withProject THEN <<Request("verification", s, 0)>> ELSE <<>>)

TerminalInit ==
    /\ status = "live" /\ pending = Refresh(None, FALSE)
    /\ session = None /\ known = {CHOOSE s \in Sessions : TRUE}
    /\ busy = FALSE /\ queue = <<>> /\ written = 0 /\ pressed = 0 /\ turns = <<>>
    /\ view = None /\ project = FALSE /\ manifest = FALSE

QueueDue == ~busy /\ runningTurns = {} /\ queue /= <<>>
Ready == status /= "dead" /\ ~QueueDue
Rejected(kind) == IF kind \in Uncaught THEN "dead" ELSE status

\* rpc.
Ask(request) ==
    IF status = "live"
    THEN pending' = Append(pending, request) /\ UNCHANGED status
    ELSE status' = Rejected(request.kind) /\ UNCHANGED pending

-----------------------------------------------------------------------------
\* send: a slash command, a new conversation first, or the message itself.  A
\* request rejected at once reaches the catch and the finally of send.
Begin(item) ==
    LET kind == IF item.slash THEN "slash" ELSE IF session = None THEN "session.create" ELSE "turn.submit" IN
    /\ busy' = (status = "live")
    /\ Ask(Request(kind, session, item.content))

\* Enter.  While a command or a turn runs the message joins the queue, which keeps
\* the last QueueLimit.
QueueWithoutLimit(slash) ==
    /\ Ready /\ written < MaxMessages /\ written' = written + 1
    /\ LET item == [content |-> written', slash |-> slash] IN
       IF busy \/ runningTurns /= {}
       THEN /\ queue' = Append(queue, item)
            /\ UNCHANGED <<busy, pending, status>>
       ELSE Begin(item) /\ UNCHANGED queue
    /\ UNCHANGED <<session, known, pressed, turns, view, project, manifest>>
submit(slash) ==
    /\ Ready /\ written < MaxMessages /\ written' = written + 1
    /\ LET item == [content |-> written', slash |-> slash] IN
       IF busy \/ runningTurns /= {}
       THEN /\ queue' = Append(IF Len(queue) < QueueLimit THEN queue ELSE Tail(queue), item)
            /\ UNCHANGED <<busy, pending, status>>
       ELSE Begin(item) /\ UNCHANGED queue
    /\ UNCHANGED <<session, known, pressed, turns, view, project, manifest>>

\* The effect on [busy, queue, runningTurns.length].
Dequeue ==
    /\ status /= "dead" /\ QueueDue
    /\ queue' = Tail(queue) /\ Begin(Head(queue))
    /\ UNCHANGED <<session, known, written, pressed, turns, view, project, manifest>>

Press(key) == key \in Keys /\ Ready /\ pressed < MaxKeys /\ pressed' = pressed + 1
\* /new, once the catalog offers session.create.
executeSlashNew ==
    /\ Press("new") /\ ~busy /\ runningTurns = {}
    /\ busy' = (status = "live") /\ Ask(Request("new", session, 0))
    /\ UNCHANGED <<session, known, queue, written, turns, view, project, manifest>>

\* The keys a, d, y, n and p: one decision each, whatever else is in flight.
decide(kind) ==
    /\ Press(kind) /\ Ask(Request(kind, session, 0))
    /\ UNCHANGED <<session, known, busy, queue, written, turns, view, project, manifest>>

resumeSelectedSession(s) ==
    /\ Press("resume") /\ s \in known /\ Ask(Request("session.resume", s, 0))
    /\ UNCHANGED <<session, known, busy, queue, written, turns, view, project, manifest>>

\* v: not refused while something else is busy.
runProjectVerification ==
    /\ Press("verify") /\ project /\ manifest
    /\ busy' = TRUE /\ Ask(Request("verification.run", session, 0))
    /\ UNCHANGED <<session, known, queue, written, turns, view, project, manifest>>

-----------------------------------------------------------------------------
(* The connection. *)

\* setSessionID, and the effects that follow when it changes.
Select(s, rest) ==
    /\ session' = s
    /\ pending' = rest \o (IF s = session THEN <<>> ELSE Refresh(s, project))

\* What the answer a request gets does to the App.
Answered(r, rest, ok) ==
    CASE r.kind = "refresh" ->
           /\ view' = r.session /\ project' \in BOOLEAN
           /\ manifest' = (manifest /\ project')
           /\ pending' = rest \o (IF project' /\ ~project
                                  THEN <<Request("verification", session, 0)>> ELSE <<>>)
           /\ UNCHANGED <<session, known, busy, turns>>
      [] r.kind = "verification" ->
           /\ manifest' = (ok /\ project) /\ pending' = rest
           /\ UNCHANGED <<session, known, busy, turns, view, project>>
      [] r.kind \in {"session.create", "new"} /\ ok ->
           LET s == CHOOSE new \in Sessions \ known : TRUE IN
           /\ known /= Sessions /\ known' = known \union {s}
           /\ busy' = (busy /\ r.kind /= "new")
           /\ Select(s, IF r.kind = "new" THEN rest
                        ELSE Append(rest, Request("turn.submit", s, r.content)))
           /\ UNCHANGED <<turns, view, project, manifest>>
      [] r.kind = "turn.submit" /\ ok ->
           /\ turns' = Append(turns, [session |-> r.session, content |-> r.content, state |-> "accepted"])
           /\ busy' = FALSE /\ pending' = rest
           /\ UNCHANGED <<session, known, view, project, manifest>>
      [] r.kind = "session.resume" /\ ok ->
           /\ Select(r.session, rest)
           /\ UNCHANGED <<known, busy, turns, view, project, manifest>>
      [] r.kind = "studio" ->
           /\ pending' = Append(rest, Request("studio.list", r.session, 0))
           /\ UNCHANGED <<session, known, busy, turns, view, project, manifest>>
      [] OTHER ->
           /\ busy' = (busy /\ r.kind \notin EndsBusy) /\ pending' = rest
           /\ UNCHANGED <<session, known, turns, view, project, manifest>>

\* An answer given to the newest request.
AcceptLast(ok) ==
    /\ Ready /\ status = "live" /\ pending /= <<>>
    /\ Answered(pending[Len(pending)], SubSeq(pending, 1, Len(pending) - 1), ok)
    /\ UNCHANGED <<status, queue, written, pressed>>
\* An rpc frame: the oldest request has its answer.
acceptFrame(ok) ==
    /\ Ready /\ status = "live" /\ pending /= <<>>
    /\ Answered(Head(pending), Tail(pending), ok)
    /\ UNCHANGED <<status, queue, written, pressed>>

\* An event frame about a turn: the store has one more event, and the effects ask
\* for the panels again.
TurnEvent(i) ==
    /\ Ready /\ status = "live" /\ i \in DOMAIN turns /\ turns[i].state /= "ended"
    /\ turns' = [turns EXCEPT ![i].state = IF @ = "accepted" THEN "running" ELSE "ended"]
    /\ pending' = pending \o Refresh(session, project)
    /\ UNCHANGED <<status, session, known, busy, queue, written, pressed, view, project, manifest>>

\* fail: the connection ends once, every request is rejected, and the degraded
\* callback draws it, unless a rejection nobody catches ends the process.
fail ==
    /\ Ready /\ status = "live"
    /\ LET kinds == {pending[i].kind : i \in DOMAIN pending} IN
       /\ status' = IF kinds \intersect Uncaught /= {} THEN "dead" ELSE "degraded"
       /\ busy' = (busy /\ kinds \intersect Guarded = {})
       /\ manifest' = (manifest /\ "verification" \notin kinds)
       /\ project' = (project /\ "refresh" \notin kinds)
       /\ view' = IF "refresh" \in kinds THEN None ELSE view
    /\ pending' = <<>>
    /\ UNCHANGED <<session, known, queue, written, pressed, turns>>

TerminalNext ==
    \/ \E line \in Lines : submit(line = "slash")
    \/ Dequeue \/ executeSlashNew \/ runProjectVerification \/ fail
    \/ \E kind \in {"approval", "studio"} : decide(kind)
    \/ \E s \in Sessions : resumeSelectedSession(s)
    \/ \E ok \in BOOLEAN : acceptFrame(ok)
    \/ \E i \in 1 .. MaxMessages : TurnEvent(i)

TerminalSpec == TerminalInit /\ [][TerminalNext]_terminalVars

-----------------------------------------------------------------------------
(* The keys. *)
keyVars == <<focus, section, recent, arrived, computerFollowLive, computerCursor, sessions,
             sessionCursor, approvals, decisions>>
panes == <<focus, section>>

\* The sections that differ by what their keys do.
Sections == <<"chat", "projects", "computer", "system">>
computerEvents == SelectSeq(recent, LAMBDA e : e.tool)
Clamped(low, n, high) == IF n > high THEN (IF high < low THEN low ELSE high)
                         ELSE IF n < low THEN low ELSE n
\* Indices are those of the code, from 0; -1 when there is nothing to show.
UnclampedIndex ==
    IF computerFollowLive THEN Len(computerEvents) - 1 ELSE computerCursor
computerIndex ==
    IF computerFollowLive THEN Len(computerEvents) - 1
    ELSE Clamped(0, computerCursor, Len(computerEvents) - 1)
\* ComputerPane: the activity shown, if any is retained.
Retained == computerIndex + 1 \in DOMAIN computerEvents
computerEvent == computerEvents[computerIndex + 1].id

KeysInit ==
    /\ focus = "composer" /\ section = "chat"
    /\ recent = <<>> /\ arrived = 0 /\ computerFollowLive = TRUE /\ computerCursor = -1
    /\ sessions = 0 /\ sessionCursor = 0 /\ approvals = <<>> /\ decisions = {}

\* An event reaches the store, which keeps the last Window; the effect on
\* [computerEvents.length, computerFollowLive] moves a following cursor.
Arrive(kind) ==
    /\ arrived < MaxEvents /\ arrived' = arrived + 1
    /\ recent' = LET all == Append(recent, [id |-> arrived', tool |-> kind = "tool"]) IN
                 SubSeq(all, IF Len(all) > Window THEN 2 ELSE 1, Len(all))
    /\ computerCursor' = IF computerFollowLive THEN Len(computerEvents') - 1 ELSE computerCursor
    /\ CASE kind = "approval.requested" -> approvals' = Append(approvals, arrived')
         [] kind = "approval.resolved" ->
              \E a \in {0} \union ToSet(approvals) : approvals' = SelectSeq(approvals, LAMBDA b : b /= a)
         [] OTHER -> UNCHANGED approvals
    /\ UNCHANGED <<panes, computerFollowLive, sessions, sessionCursor, decisions>>

\* The answer of session.list, and the effect on sessions.length.
Listed(n) ==
    /\ n \in 0 .. MaxSessions /\ sessions' = n
    /\ sessionCursor' = Clamped(0, sessionCursor, n - 1)
    /\ UNCHANGED <<panes, recent, arrived, computerFollowLive, computerCursor, approvals, decisions>>

Escape ==
    /\ focus' = IF focus = "composer" THEN "nav" ELSE "composer"
    /\ UNCHANGED <<section, recent, arrived, computerFollowLive, computerCursor, sessions,
                   sessionCursor, approvals, decisions>>

\* Tab goes round the sections in either focus; a digit chooses one in navigation.
ChooseSection(s) ==
    /\ \/ s = LET i == CHOOSE k \in DOMAIN Sections : Sections[k] = section IN
              Sections[(i % Len(Sections)) + 1]
       \/ focus = "nav"
    /\ section' = s
    /\ UNCHANGED <<focus, recent, arrived, computerFollowLive, computerCursor, sessions,
                   sessionCursor, approvals, decisions>>

\* a and d answer the first approval, in every section and either focus.
Decide ==
    /\ approvals /= <<>> /\ decisions' = decisions \union {Head(approvals)}
    /\ UNCHANGED <<panes, recent, arrived, computerFollowLive, computerCursor, sessions,
                   sessionCursor, approvals>>

\* l, p, [ and ] over the Computer activity.
ComputerKey(key) ==
    /\ section = "computer" /\ focus = "nav"
    /\ computerCursor' = CASE key = "l" -> Len(computerEvents) - 1
                           [] key = "p" -> computerIndex
                           [] key = "[" -> Clamped(0, computerIndex - 1, computerIndex)
                           [] key = "]" -> IF computerIndex + 1 < Len(computerEvents)
                                           THEN computerIndex + 1 ELSE Len(computerEvents) - 1
    /\ computerFollowLive' = (key = "l" \/ (key = "]" /\ computerCursor' = Len(computerEvents) - 1))
    /\ UNCHANGED <<panes, recent, arrived, sessions, sessionCursor, approvals, decisions>>

\* [ and ] over the conversations.
SessionKey(step) ==
    /\ section = "system" /\ focus = "nav" /\ sessions > 0
    /\ sessionCursor' = Clamped(0, sessionCursor + step, sessions - 1)
    /\ UNCHANGED <<panes, recent, arrived, computerFollowLive, computerCursor, sessions, approvals,
                   decisions>>

KeysNext ==
    \/ \E kind \in {"tool", "approval.requested", "approval.resolved"} : Arrive(kind)
    \/ \E n \in 0 .. MaxSessions : Listed(n)
    \/ Escape \/ (\E s \in ToSet(Sections) : ChooseSection(s)) \/ Decide
    \/ \E key \in {"l", "p", "[", "]"} : ComputerKey(key)
    \/ \E step \in {-1, 1} : SessionKey(step)

KeysSpec == KeysInit /\ [][KeysNext]_keyVars

-----------------------------------------------------------------------------
TerminalTypeOK ==
    /\ status \in {"live", "degraded", "dead"}
    /\ session \in known \union {None} /\ view \in known \union {None}
    /\ Len(queue) <= QueueLimit

\* The panels come to rest on the conversation that is selected: answers come in
\* the order of the requests, so the last one is the one of the last selection
\* (the effect on sessionID, acceptFrame).
PanelsFollowSelection ==
    status = "live" /\ (\A i \in DOMAIN pending : pending[i].kind /= "refresh") => view = session

\* The composer is not held back for ever: busy has a request whose answer ends it
\* (send, executeSlash, runProjectVerification).
BusyHasARequest ==
    status = "live" /\ busy => \E i \in DOMAIN pending : pending[i].kind \in EndsBusy

\* A conversation gets its messages in the order they were written, the oldest of a
\* full queue being lost: also when an answer to something else frees the composer
\* while session.create is out, so that two are, or a conversation is resumed before
\* the message that creates another is on its way (submit, the queue's effect, send).
Submitted == [i \in DOMAIN turns |-> Request("turn.submit", turns[i].session, turns[i].content)]
             \o SelectSeq(pending, LAMBDA r : r.kind = "turn.submit")
Sent == {Submitted[i].content : i \in DOMAIN Submitted}
        \union {pending[i].content : i \in {k \in DOMAIN pending : pending[k].kind = "session.create"}}
InOrder ==
    /\ \A i, j \in DOMAIN Submitted :
         i < j /\ Submitted[i].session = Submitted[j].session => Submitted[i].content < Submitted[j].content
    /\ \A i, j \in DOMAIN queue : i < j => queue[i].content < queue[j].content
    /\ \A i \in DOMAIN queue, m \in Sent : m < queue[i].content

\* What one ordered connection gives the terminal client (App, LocalControlPlaneTransport).
TerminalInv == TerminalTypeOK /\ PanelsFollowSelection /\ BusyHasARequest /\ InOrder

\* A cursor always stands on something that is there, although activity leaves the
\* retained window and conversations leave the list; following shows the newest
\* activity (computerIndex, the effects on the two lists).
CursorsStand ==
    /\ focus \in {"nav", "composer"} /\ section \in ToSet(Sections)
    /\ computerEvents /= <<>> => Retained
    /\ Retained /\ computerFollowLive => \A i \in DOMAIN computerEvents : computerEvents[i].id <= computerEvent
    /\ sessions > 0 => sessionCursor \in 0 .. sessions - 1

\* Paused activity stays on the screen while work goes on, until the window drops
\* activity (ComputerPane, "HISTORY - WORK CONTINUES"), and only an approval that
\* was waiting is answered (decide).
PausedStays ==
    /\ ~computerFollowLive /\ Retained /\ arrived' /= arrived /\ Len(recent) < Window
         => Retained' /\ computerEvent' = computerEvent
    /\ decisions' \ decisions \subseteq ToSet(approvals)

PausedStands == [][PausedStays]_keyVars
=============================================================================
