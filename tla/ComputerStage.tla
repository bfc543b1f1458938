---------------------------- MODULE ComputerStage ----------------------------
(***************************************************************************)
(* The timeline of the Computer stage                                      *)
(* (ui/web/src/features/computer/ComputerStage.tsx): activity of several   *)
(* agents arrives while the operator looks at one agent, or at all, either *)
(* following the newest event or resting on one of the past.               *)
(*                                                                         *)
(* An event is its number; the event store keeps the newest Retained, the  *)
(* list shows Rendered of those at a time (timelineWindow).                *)
(***************************************************************************)
EXTENDS Integers, Sequences

CONSTANTS
    Agents, Sessions, None,
    Rendered,   \* timelineWindow
    Retained,   \* events the store keeps
    MaxEvents   \* bound on events that arrive

VARIABLES
    session,    \* operator.sessionID
    recent,     \* state.recent_events, oldest first
    arrived,    \* events so far
    workspace,  \* "aggregate" or an agent
    positions,  \* per workspace, whether it follows, and the event rested on
    fullScreen

stageVars == <<session, recent, arrived, workspace, positions, fullScreen>>
Workspaces == {"aggregate"} \union Agents

StageInit ==
    /\ session \in Sessions /\ recent = <<>> /\ arrived = 0 /\ workspace = "aggregate"
    /\ positions = [w \in Workspaces |-> [follow |-> TRUE, event |-> None]] /\ fullScreen = FALSE

-----------------------------------------------------------------------------
(* What is shown. *)

Shows(e, s, w) == e.session = s /\ (w = "aggregate" \/ e.agent = w)
eventsOf(list, s, w) == SelectSeq(list, LAMBDA e : Shows(e, s, w))
events == eventsOf(recent, session, workspace)
position == positions[workspace]

\* The first event with that number, 0 when it is not there.
IndexOf(list, id) ==
    IF \E i \in DOMAIN list : list[i].id = id THEN CHOOSE i \in DOMAIN list : list[i].id = id ELSE 0
\* Following shows the newest; so does resting on an event that is gone.
selectedIndex ==
    IF position.follow \/ IndexOf(events, position.event) = 0
    THEN Len(events) ELSE IndexOf(events, position.event)

Smaller(a, b) == IF a < b THEN a ELSE b
Larger(a, b) == IF a > b THEN a ELSE b

\* A window that starts at the selected event, cut off at the end of the list.
WindowFromSelected(list, index) == Larger(0, Smaller(Len(list), index))
\* The rendered part starts here (from 0): around the selected event, and full
\* when there are enough events.
windowStart(list, index) ==
    Larger(0, Smaller(Larger(0, Len(list) - Rendered), index - 1 - Rendered \div 2))
visibleEvents == windowStart(events, selectedIndex) + 1 ..
                 Smaller(Len(events), windowStart(events, selectedIndex) + Rendered)

-----------------------------------------------------------------------------
(* Steps. *)

Arrive(agent, s) ==
    /\ arrived < MaxEvents /\ arrived' = arrived + 1
    /\ LET all == Append(recent, [id |-> arrived', agent |-> agent, session |-> s]) IN
       recent' = SubSeq(all, Larger(1, Len(all) - Retained + 1), Len(all))
    /\ UNCHANGED <<session, workspace, positions, fullScreen>>

setWorkspace(w) ==
    /\ w /= workspace /\ workspace' = w
    /\ UNCHANGED <<session, recent, arrived, positions, fullScreen>>
\* The stage stays mounted when another session is selected.
setSession(s) ==
    /\ s /= session /\ session' = s
    /\ UNCHANGED <<recent, arrived, workspace, positions, fullScreen>>

RestOn(p) ==
    /\ positions' = [positions EXCEPT ![workspace] = p]
    /\ UNCHANGED <<session, recent, arrived, workspace, fullScreen>>

\* Choosing the newest event follows again.
selectEvent(i) == RestOn([follow |-> i = Len(events), event |-> events[i].id])
Click(i) == i \in visibleEvents /\ selectEvent(i)
\* Keys go to the focused event, which is the selected one.
moveSelection(key) ==
    /\ events /= <<>>
    /\ selectEvent(CASE key = "ArrowUp" -> Larger(1, selectedIndex - 1)
                     [] key = "ArrowDown" -> Smaller(Len(events), selectedIndex + 1)
                     [] key = "Home" -> 1
                     [] key = "End" -> Len(events))
pauseView ==
    /\ position.follow
    /\ RestOn([follow |-> FALSE, event |-> IF events = <<>> THEN None ELSE events[Len(events)].id])
backToLive == ~position.follow /\ RestOn([follow |-> TRUE, event |-> None])

toggleFullScreen ==
    /\ fullScreen' = ~fullScreen /\ UNCHANGED <<session, recent, arrived, workspace, positions>>
Escape ==
    /\ fullScreen /\ fullScreen' = FALSE
    /\ UNCHANGED <<session, recent, arrived, workspace, positions>>

\* The head of the stage, and its timeline.
StageHeader == toggleFullScreen \/ \E w \in Workspaces : setWorkspace(w)
Timeline ==
    \/ pauseView \/ backToLive
    \/ \E i \in DOMAIN events : Click(i)
    \/ \E key \in {"ArrowUp", "ArrowDown", "Home", "End"} : moveSelection(key)

StageNext ==
    \/ \E a \in Agents, s \in Sessions : Arrive(a, s)
    \/ \E s \in Sessions : setSession(s)
    \/ StageHeader \/ Timeline \/ Escape

StageSpec == StageInit /\ [][StageNext]_stageVars

-----------------------------------------------------------------------------
\* The selected event of each workspace, before or after a step.
Selected(list, s, w, p) ==
    LET es == eventsOf(list, s, w)
        i == IF p.follow \/ IndexOf(es, p.event) = 0 THEN Len(es) ELSE IndexOf(es, p.event) IN
    IF es = <<>> THEN None ELSE es[i].id

\* The selected event is always among those rendered, so that it can have the
\* focus; a view that rests on a past event keeps it, in every workspace, however
\* much arrives, while the store retains it; and it does not start or stop
\* following by itself (selectedIndex, windowStart, selectEvent, moveSelection).
TimelineStands ==
    /\ [](/\ recent /= <<>> => recent[Len(recent)].id = arrived
          /\ Len(recent) <= Retained
          /\ events /= <<>> => selectedIndex \in visibleEvents
          /\ Len(events) >= Rendered =>
               windowStart(events, selectedIndex) + Rendered <= Len(events))
    /\ [][arrived' /= arrived =>
            /\ positions' = positions
            /\ \A w \in Workspaces :
                 LET es == eventsOf(recent', session, w) p == positions[w] IN
                 ~p.follow /\ IndexOf(es, p.event) /= 0 =>
                   Selected(recent', session, w, p) = Selected(recent, session, w, p)]_stageVars
=============================================================================
