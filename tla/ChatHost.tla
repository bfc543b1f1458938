------------------------------ MODULE ChatHost ------------------------------
(***************************************************************************)
(* The persistent chat of the web interface                                *)
(* (ui/web/src/features/chat/ChatHost.tsx): the composer, the queue of      *)
(* messages written while Ion works, the conversation shown, and the       *)
(* commands whose answers arrive after the operator may have gone on to    *)
(* another conversation.                                                   *)
(*                                                                         *)
(* A message is the number of its composition.  React renders and runs the *)
(* effects of one event before the next, so the effect that empties the    *)
(* queue comes before everything else.  The daemon is what its answers and *)
(* events say: any command may fail, turns start after they are accepted   *)
(* and end in their own time.                                              *)
(***************************************************************************)
EXTENDS Naturals, Sequences, FiniteSets

CONSTANTS
    Sessions,       \* conversations, existing ones and those a command creates
    None,           \* undefined
    MaxMessages, MaxTurns, MaxResumes   \* bounds

VARIABLES
    session,        \* operator.sessionID
    known,          \* the conversations that exist
    draft,          \* the message in the composer, 0 for none
    composed,       \* messages written so far
    queue,
    op,             \* the command busy stands for
    shown,          \* messages: what the transcript displays, and of which conversation
    resumes,        \* session.resume commands without an answer
    turns           \* accepted submissions in order, and what their events have said

chatVars == <<session, known, draft, composed, queue, op, shown, resumes, turns>>

\* Where a message is written: the chat or a Studio project, or Studio's home.
Paths == {"chat", "studio"}
Idle == [kind |-> "idle", content |-> 0, path |-> "chat", session |-> None]
busy == op.kind /= "idle"
Durable(s) == [session |-> s, part |-> "durable"]
Streamed(s) == [session |-> s, part |-> "streamed"]
Local(s) == [session |-> s, part |-> "local"]
Of(s, states) == {i \in DOMAIN turns : turns[i].session = s /\ turns[i].state \in states}
runningTurns == Of(session, {"running"})

ChatInit ==
    /\ session = None
    /\ known \in {{}, {CHOOSE s \in Sessions : TRUE}}
    /\ draft = 0 /\ composed = 0 /\ queue = <<>> /\ op = Idle
    /\ shown = {} /\ resumes = <<>> /\ turns = <<>>

-----------------------------------------------------------------------------
(* The conversation shown. *)

\* An effect whose cleanup forgets the answer still to come.
KeepsOldResumes(s) ==
    /\ session' = s
    /\ shown' = IF Of(s, {"running", "failed"}) /= {} THEN {Streamed(s)} ELSE {}
    /\ resumes' = IF s = None THEN resumes ELSE Append(resumes, [session |-> s, disposed |-> FALSE])
\* The effects on operator.sessionID: the transcript starts again from the
\* retained events of the conversation, its durable messages are asked for, and
\* the answers of earlier requests are disposed of.
SessionEffect(s) ==
    /\ session' = s
    /\ shown' = IF Of(s, {"running", "failed"}) /= {} THEN {Streamed(s)} ELSE {}
    /\ LET old == [i \in DOMAIN resumes |-> [resumes[i] EXCEPT !.disposed = TRUE]] IN
       resumes' = IF s = None THEN old ELSE Append(old, [session |-> s, disposed |-> FALSE])

\* The effect of the queue is due: nothing else happens before it.
QueueDue == runningTurns = {} /\ queue /= <<>> /\ ~busy

\* Another part of the interface opens a conversation, or none.
OpenSession(s) ==
    /\ ~QueueDue /\ s \in known \union {None} /\ s /= session
    /\ Len(resumes) < MaxResumes
    /\ SessionEffect(s)
    /\ UNCHANGED <<known, draft, composed, queue, op, turns>>

\* The answers of session.resume arrive in any order; a disposed one, or an
\* error, changes nothing, and mergeMessages adds the durable ones to the rest.
Resumed(i) ==
    /\ ~QueueDue /\ i \in DOMAIN resumes
    /\ resumes' = SubSeq(resumes, 1, i - 1) \o SubSeq(resumes, i + 1, Len(resumes))
    /\ \/ UNCHANGED shown
       \/ ~resumes[i].disposed /\ shown' = shown \union {Durable(resumes[i].session)}
    /\ UNCHANGED <<session, known, draft, composed, queue, op, turns>>

\* turn.started, deltas, and the end of a turn.  Only the events of the shown
\* conversation reach the transcript; a reset takes the streamed answer back.
TurnEvent(i, to) ==
    /\ ~QueueDue /\ i \in DOMAIN turns
    /\ <<turns[i].state, to>> \in {<<"accepted", "running">>, <<"running", "failed">>,
                                   <<"running", "ended">>}
    /\ turns' = [turns EXCEPT ![i].state = to]
    /\ IF turns[i].session = session
       THEN shown' \in {shown \union {Streamed(session)}, shown \ {Streamed(session)}}
       ELSE UNCHANGED shown
    /\ UNCHANGED <<session, known, draft, composed, queue, op, resumes>>

-----------------------------------------------------------------------------
(* The composer. *)

\* Typing, a starter, or another panel that fills the composer in.
Compose ==
    /\ ~QueueDue /\ composed < MaxMessages
    /\ composed' = composed + 1 /\ draft' = composed'
    /\ UNCHANGED <<session, known, queue, op, shown, resumes, turns>>

\* send, up to its first command.
Begin(content, from) ==
    op' = [kind |-> IF session = None THEN "session.create"
                    ELSE IF from = "studio" THEN "project.create" ELSE "turn.submit",
           content |-> content, path |-> from, session |-> session]

\* Enter.  While Ion works, or a command is in flight, the message is queued and
\* the composer emptied; a message that is sent stays in it until it is accepted.
submit(path) ==
    /\ ~QueueDue /\ draft /= 0
    /\ IF runningTurns /= {} \/ busy
       THEN /\ queue' = Append(queue, [content |-> draft, path |-> path]) /\ draft' = 0
            /\ UNCHANGED op
       ELSE Begin(draft, path) /\ UNCHANGED <<draft, queue>>
    /\ UNCHANGED <<session, known, composed, shown, resumes, turns>>

\* The effect on busy, the queue and the running turns of the shown conversation.
Dequeue ==
    /\ QueueDue
    /\ queue' = Tail(queue)
    /\ Begin(Head(queue).content, Head(queue).path)
    /\ UNCHANGED <<session, known, draft, composed, shown, resumes, turns>>

\* session.create and session.branch answer with a conversation of their own,
\* which is opened at once, whatever is shown now.  A branch without an edit ends
\* here; an edit goes on to its submission.
Created ==
    LET s == CHOOSE new \in Sessions \ known : TRUE IN
    /\ ~QueueDue /\ op.kind \in {"session.create", "session.branch"}
    /\ known /= Sessions /\ Len(resumes) < MaxResumes
    /\ known' = known \union {s}
    /\ SessionEffect(s)
    /\ op' = IF op.kind = "session.branch" /\ op.content = 0 THEN Idle
             ELSE [op EXCEPT !.session = s,
                     !.kind = IF op.kind = "session.create" /\ op.path = "studio"
                              THEN "project.create"
                              ELSE IF op.kind = "session.branch" THEN "edit.submit" ELSE "turn.submit"]
    /\ UNCHANGED <<draft, composed, queue, turns>>

\* The project of a message written on Studio's home.
ProjectCreated ==
    /\ ~QueueDue /\ op.kind = "project.create"
    /\ op' = [op EXCEPT !.kind = "turn.submit"]
    /\ UNCHANGED <<session, known, draft, composed, queue, shown, resumes, turns>>

\* An accepted submission is added to whatever transcript is shown, and the
\* composer is emptied; an edit leaves both to the events.
Submitted ==
    /\ ~QueueDue /\ op.kind \in {"turn.submit", "edit.submit"} /\ Len(turns) < MaxTurns
    /\ turns' = Append(turns, [session |-> op.session, content |-> op.content,
                               edit |-> op.kind = "edit.submit", state |-> "accepted"])
    /\ op' = Idle
    /\ IF op.kind = "turn.submit"
       THEN draft' = 0 /\ shown' = shown \union {Local(op.session)}
       ELSE UNCHANGED <<draft, shown>>
    /\ UNCHANGED <<session, known, composed, queue, resumes>>

\* A send without its finally.
KeepsBusy ==
    /\ ~QueueDue /\ busy /\ op' = [op EXCEPT !.kind = "failed"]
    /\ UNCHANGED <<session, known, draft, composed, queue, shown, resumes, turns>>
\* Any command in flight may fail: the notice says so and busy ends.  What send
\* took from the queue is gone, what it took from the composer is still there.
Failed ==
    /\ ~QueueDue /\ busy /\ op' = Idle
    /\ UNCHANGED <<session, known, draft, composed, queue, shown, resumes, turns>>

\* Fork, or edit and resend, from a message of the transcript.
branchFrom(edit) ==
    /\ ~QueueDue /\ session /= None /\ ~busy /\ shown /= {}
    /\ edit => composed < MaxMessages
    /\ composed' = IF edit THEN composed + 1 ELSE composed
    /\ op' = [kind |-> "session.branch", content |-> IF edit THEN composed' ELSE 0,
              path |-> "chat", session |-> session]
    /\ UNCHANGED <<session, known, draft, queue, shown, resumes, turns>>

\* Update direction: the running turn is told, in the words of the composer.
steerLatest ==
    /\ ~QueueDue /\ session /= None /\ ~busy /\ draft /= 0 /\ runningTurns /= {}
    /\ op' = [kind |-> "turn.steer", content |-> draft, path |-> "chat", session |-> session]
    /\ UNCHANGED <<session, known, draft, composed, queue, shown, resumes, turns>>

Steered ==
    /\ ~QueueDue /\ op.kind = "turn.steer"
    /\ op' = Idle /\ draft' = 0
    /\ UNCHANGED <<session, known, composed, queue, shown, resumes, turns>>

\* Try again: the last failed turn, while nothing runs.
retryLatest ==
    /\ ~QueueDue /\ session /= None /\ ~busy /\ runningTurns = {} /\ Of(session, {"failed"}) /= {}
    /\ op' = [kind |-> "turn.retry", content |-> 0, path |-> "chat", session |-> session]
    /\ UNCHANGED <<session, known, draft, composed, queue, shown, resumes, turns>>

\* The retried turn runs again under its own messages.
Retried ==
    /\ ~QueueDue /\ op.kind = "turn.retry"
    /\ op' = Idle
    /\ LET last == CHOOSE i \in Of(op.session, {"failed"}) :
                      \A j \in Of(op.session, {"failed"}) : j <= i IN
       turns' = [turns EXCEPT ![last].state = "accepted"]
    /\ UNCHANGED <<session, known, draft, composed, queue, shown, resumes>>

\* The controls the page offers: the form, or steering while Ion works, or trying
\* again after a failure; and under each message a fork, under the operator's own
\* messages an edit.
composer == (\E path \in Paths : submit(path)) \/ steerLatest \/ retryLatest
Message ==
    \/ branchFrom(FALSE)
    \/ (\E m \in shown : m.part /= "streamed") /\ branchFrom(TRUE)

Answer == Submitted \/ ProjectCreated \/ Created \/ Steered \/ Retried \/ Failed

ChatNext ==
    \/ \E s \in Sessions \union {None} : OpenSession(s)
    \/ \E i \in 1 .. MaxResumes : Resumed(i)
    \/ \E i \in 1 .. MaxTurns, to \in {"running", "failed", "ended"} : TurnEvent(i, to)
    \/ Compose \/ composer \/ Message \/ Dequeue \/ Answer

\* Commands are answered, events arrive, effects run.
ChatFairness ==
    /\ WF_chatVars(Answer) /\ WF_chatVars(Dequeue)
    /\ \A i \in 1 .. MaxTurns :
         /\ WF_chatVars(TurnEvent(i, "running"))
         /\ WF_chatVars(TurnEvent(i, "failed") \/ TurnEvent(i, "ended"))

ChatSpec == ChatInit /\ [][ChatNext]_chatVars /\ ChatFairness

-----------------------------------------------------------------------------
ChatTypeOK ==
    /\ session \in known \union {None} /\ known \subseteq Sessions
    /\ draft \in 0 .. composed
    /\ \A r \in {queue[i] : i \in DOMAIN queue} : r.content \in 1 .. composed /\ r.path \in Paths
    /\ {turns[i].session : i \in DOMAIN turns} \subseteq known

\* What was asked of, or streamed for, a conversation never shows in another one,
\* however late the answer of session.resume comes (the effects on sessionID).
NoForeignHistory ==
    \A m \in shown : m.part \in {"durable", "streamed"} => m.session = session

\* Messages leave in the order they were written, those queued while Ion works
\* and those sent at once (submit, the queue's effect, send).
Written == SelectSeq(turns, LAMBDA t : ~t.edit)
Waiting ==
    (IF op.kind \in {"session.create", "project.create", "turn.submit"} THEN <<op>> ELSE <<>>) \o queue
Order == [i \in DOMAIN Written |-> Written[i].content] \o [i \in DOMAIN Waiting |-> Waiting[i].content]
InOrder == \A i, j \in DOMAIN Order : i < j => Order[i] <= Order[j]

\* Whatever interleaving of conversations, answers and events: no foreign history,
\* and the order of writing (ChatHost).
ChatInv == ChatTypeOK /\ NoForeignHistory /\ InOrder

\* A queued message does not wait for ever (the effect of the queue).
QueueDrains == queue /= <<>> ~> queue = <<>>
=============================================================================
