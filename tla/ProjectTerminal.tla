--------------------------- MODULE ProjectTerminal ---------------------------
(***************************************************************************)
(* One process of a project terminal: the service keeps it in a map and    *)
(* its state in a row that is saved when the process starts and when it    *)
(* ends; a goroutine waits for the process, its timeout or a cancellation; *)
(* output goes through a line buffer into a ring that clients follow by    *)
(* cursor.  The byte at offset k of the redacted output is the number k.   *)
(* The process leads a group; children that it leaves behind may have left *)
(* the group, and may or may not hold its output open.                     *)
(***************************************************************************)
EXTENDS Naturals, Sequences, FiniteSets

CONSTANTS
    OutputBytes,    \* what the ring keeps
    MaxOutput,      \* bound: bytes the process writes
    MaxDeaths       \* bound: crashes of the daemon

ASSUME OutputAssumption == OutputBytes \in Nat

VARIABLES
    mode,           \* "one_shot" or "pty"
    process,        \* the leader of the group: "none", "alive" or "dead"
    children,       \* what else runs: see Children
    session,        \* the TerminalState in memory; "none" when not in the map
    row,            \* the TerminalState on disk: its status and OutputCursor
    waiter,         \* where the wait goroutine is
    cancel,         \* whether the context of the session was cancelled
    timedOut,
    pending,        \* bytes of an unfinished line
    base, cursor,   \* the ring holds the bytes base .. cursor - 1
    client,         \* a client: its cursor, what it has, what it was told is gone
    deaths

terminalVars == <<mode, process, children, session, row, waiter, cancel, timedOut, pending, base, cursor,
                  client, deaths>>

Ended == {"completed", "failed", "timed_out", "cancelled", "recovered_stopped"}
NoRow == [status |-> "none", cursor |-> 0]

\* A child in the group that holds the output, one in the group whose output goes
\* elsewhere, and one that holds the output but left the group.  A child that did
\* both has nothing to do with the session any more.
Children == {"member", "quiet", "stray"}
Group == {"member", "quiet"}
Holders == {"member", "stray"}

TerminalInit ==
    /\ mode = "one_shot" /\ process = "none" /\ children = {}
    /\ session = "none" /\ row = NoRow /\ waiter = "none"
    /\ cancel = FALSE /\ timedOut = FALSE
    /\ pending = 0 /\ base = 0 /\ cursor = 0
    /\ client = [cursor |-> 0, seen |-> <<>>, missed |-> {}]
    /\ deaths = 0

-----------------------------------------------------------------------------
\* start, up to the running process in the map,
StartTerminal ==
    /\ process = "none"
    /\ mode' \in {"one_shot", "pty"}
    /\ process' = "alive" /\ session' = "running" /\ waiter' = "starting"
    /\ UNCHANGED <<children, row, cancel, timedOut, pending, base, cursor, client, deaths>>

\* and from there to the saved row (a failed save is ignored) and the goroutine.
PersistStart(saved) ==
    /\ waiter = "starting"
    /\ row' = IF saved THEN [status |-> session, cursor |-> cursor] ELSE row
    /\ waiter' = "waiting"
    /\ UNCHANGED <<mode, process, children, session, cancel, timedOut, pending, base, cursor, client, deaths>>

\* Mutant: bytes fall out of the ring and base is not moved.
BaseStays(n) == cursor' = cursor + n /\ UNCHANGED base

\* appendOutput: the oldest bytes fall out of the ring.
appendOutput(n) ==
    /\ cursor' = cursor + n
    /\ base' = IF cursor + n - base > OutputBytes THEN cursor + n - OutputBytes ELSE base

\* Write takes the bytes of a line once the line is complete.  Wait returns after
\* the pipes of a one-shot process are drained; what a pseudo terminal still holds
\* is copied concurrently with wait, and may arrive after the end.
Write(newline) ==
    /\ process # "none" /\ session # "none"
    /\ mode = "pty" \/ session = "running"
    /\ cursor + pending < MaxOutput
    /\ IF newline THEN appendOutput(pending + 1) /\ pending' = 0
       ELSE pending' = pending + 1 /\ UNCHANGED <<base, cursor>>
    /\ UNCHANGED <<mode, process, children, session, row, waiter, cancel, timedOut, client, deaths>>

\* The process leaves a child behind.
Fork(child) ==
    /\ process = "alive"
    /\ children' = children \union {child}
    /\ UNCHANGED <<mode, process, session, row, waiter, cancel, timedOut, pending, base, cursor, client, deaths>>

\* The process or a child of it exits by itself, or because of a signal sent to the
\* group with Signal.
Exit ==
    /\ process = "alive"
    /\ process' = "dead"
    /\ UNCHANGED <<mode, children, session, row, waiter, cancel, timedOut, pending, base, cursor, client, deaths>>

ChildExits(child) ==
    /\ child \in children
    /\ children' = children \ {child}
    /\ UNCHANGED <<mode, process, session, row, waiter, cancel, timedOut, pending, base, cursor, client, deaths>>

\* Cancel and Close cancel the context of the session.
CancelTerminal ==
    /\ session # "none"
    /\ cancel' = TRUE
    /\ UNCHANGED <<mode, process, children, session, row, waiter, timedOut, pending, base, cursor, client, deaths>>

-----------------------------------------------------------------------------
\* SIGKILL to the group.
KillGroup == process' = "dead" /\ children' = children \ Group

\* killProjectProcess with SIGKILL, which needs the status to be running.
killProjectProcess ==
    IF session = "running" THEN KillGroup ELSE UNCHANGED <<process, children>>

\* Mutant: the timeout is noted and the process left alone.
TimerNotes ==
    /\ waiter = "waiting"
    /\ waiter' = "killed" /\ timedOut' = TRUE
    /\ UNCHANGED <<mode, process, children, session, row, cancel, pending, base, cursor, client, deaths>>

\* The select of wait: the timer fires, or the context is done, whatever else is
\* ready; what happens afterwards is only the wait for the process.
TimerFires ==
    /\ waiter = "waiting"
    /\ waiter' = "killed" /\ timedOut' = TRUE
    /\ killProjectProcess
    /\ UNCHANGED <<mode, session, row, cancel, pending, base, cursor, client, deaths>>

ContextDone ==
    /\ waiter = "waiting" /\ cancel
    /\ waiter' = "killed"
    /\ killProjectProcess
    /\ UNCHANGED <<mode, session, row, cancel, timedOut, pending, base, cursor, client, deaths>>

\* command.Wait returns when the leader is dead and, for a one-shot process, whose
\* output it copies, when nobody holds the pipes.
Waited == process = "dead" /\ (mode = "one_shot" => children \cap Holders = {})

\* The process has been waited for: the line that is still open is flushed and
\* the status settled.  A timeout wins over a cancellation.
Settle(exitZero) ==
    /\ waiter \in {"waiting", "killed"} /\ Waited
    /\ appendOutput(pending) /\ pending' = 0
    /\ session' = IF timedOut THEN "timed_out" ELSE IF cancel THEN "cancelled"
                  ELSE IF exitZero THEN "completed" ELSE "failed"
    /\ waiter' = "settled"
    /\ UNCHANGED <<mode, process, children, row, cancel, timedOut, client, deaths>>

\* Save, and give the takeover lease back (see ControlLease!ReconcileStopped).
PersistEnd(saved) ==
    /\ waiter = "settled"
    /\ row' = IF saved THEN [status |-> session, cursor |-> cursor] ELSE row
    /\ waiter' = "done"
    /\ UNCHANGED <<mode, process, children, session, cancel, timedOut, pending, base, cursor, client, deaths>>

-----------------------------------------------------------------------------
\* Where a replay from `at' really starts.
FromCursor(at) == IF at < base THEN base ELSE at

\* Replay while the session is in the map: what the ring has from the cursor on.
Replay ==
    LET from == FromCursor(client.cursor)
        sent == [k \in 1 .. cursor - from |-> from + k - 1] IN
    /\ session # "none"
    /\ client.cursor <= cursor
    /\ client' = [cursor |-> cursor, seen |-> client.seen \o sent,
                  missed |-> client.missed \union client.cursor .. from - 1]
    /\ UNCHANGED <<mode, process, children, session, row, waiter, cancel, timedOut, pending, base, cursor, deaths>>

\* Replay of a session only the store knows: no output, the cursor of the last save.
ReplayRow ==
    /\ session = "none" /\ row.status # "none"
    /\ client' = [cursor |-> row.cursor, seen |-> client.seen,
                  missed |-> client.missed \union client.cursor .. row.cursor - 1]
    /\ UNCHANGED <<mode, process, children, session, row, waiter, cancel, timedOut, pending, base, cursor, deaths>>

-----------------------------------------------------------------------------
\* The daemon dies: the map, the ring and the goroutine are gone, the process
\* lives on.
Die ==
    /\ session # "none" /\ deaths < MaxDeaths
    /\ session' = "none" /\ waiter' = "down" /\ deaths' = deaths + 1
    /\ cancel' = FALSE /\ timedOut' = FALSE /\ pending' = 0 /\ base' = 0 /\ cursor' = 0
    /\ UNCHANGED <<mode, process, children, row, client>>

\* Mutant: the row is settled and the process left alone.
RowOnly(saved) ==
    /\ waiter = "down"
    /\ waiter' = "none"
    /\ row' = IF row.status = "running" THEN [row EXCEPT !.status = "recovered_stopped"] ELSE row
    /\ UNCHANGED <<mode, process, children, session, cancel, timedOut, pending, base, cursor, client, deaths>>

\* ReconcileAll at the next start: when the row says that the process runs, and the
\* leader is still the one the row names, its group is killed.  A save that fails
\* fails the start of the daemon.
ReconcileAll(saved) ==
    /\ waiter = "down"
    /\ IF row.status = "running" /\ process = "alive"
       THEN KillGroup ELSE UNCHANGED <<process, children>>
    /\ IF row.status = "running"
       THEN /\ row' = IF saved THEN [row EXCEPT !.status = "recovered_stopped"] ELSE row
            /\ waiter' = IF saved THEN "none" ELSE "down"
       ELSE waiter' = "none" /\ UNCHANGED row
    /\ UNCHANGED <<mode, session, cancel, timedOut, pending, base, cursor, client, deaths>>

-----------------------------------------------------------------------------
TerminalNext ==
    \/ StartTerminal \/ Exit \/ CancelTerminal \/ TimerFires \/ ContextDone \/ Replay \/ ReplayRow \/ Die
    \/ \E child \in Children : Fork(child) \/ ChildExits(child)
    \/ \E flag \in BOOLEAN :
         PersistStart(flag) \/ Write(flag) \/ Settle(flag) \/ PersistEnd(flag) \/ ReconcileAll(flag)

\* The goroutine runs, its timer fires, and a daemon that died is started again until
\* it can save.  The process and its children may run for ever, and other saves that
\* fail are not repeated.
TerminalFairness ==
    /\ WF_terminalVars(\E saved \in BOOLEAN : PersistStart(saved))
    /\ WF_terminalVars(TimerFires)
    /\ WF_terminalVars(\E exitZero \in BOOLEAN : Settle(exitZero))
    /\ WF_terminalVars(ReconcileAll(TRUE))

-----------------------------------------------------------------------------
\* While the daemon lives, a client that follows the cursor gets every byte once
\* and in order, or is told of it as a gap, whatever the ring has dropped and
\* whenever the client asks; the end saved for a one-shot process covers all of its
\* output; and a timeout leaves nothing of the group alive, although the leader may
\* have exited before it.
ReplayInv ==
    /\ deaths = 0 =>
         /\ \A k \in 1 .. Len(client.seen) - 1 : client.seen[k] < client.seen[k + 1]
         /\ {client.seen[k] : k \in 1..Len(client.seen)} \union client.missed
              = 0 .. client.cursor - 1
         /\ cursor - base <= OutputBytes
    /\ mode = "one_shot" /\ session \in Ended /\ row.status \in Ended =>
         row.cursor = cursor /\ pending = 0
    /\ session = "timed_out" => process = "dead" /\ children \cap Group = {}

\* A process whose row says that it runs is killed, by its timer, a cancellation or
\* the next daemon, even when it ignores every signal but SIGKILL; and its end comes
\* to be known, to the daemon or to the store, unless a child that left the group
\* holds the output of a one-shot process for ever.
ProcessesEnd ==
    [](row.status = "running" =>
          \/ <>(process = "dead" /\ (session \in Ended \/ row.status \in Ended))
          \/ <>[](process = "dead" /\ mode = "one_shot" /\ "stray" \in children))
=============================================================================
