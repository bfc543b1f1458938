----------------------------- MODULE OperatorShell -----------------------------
(***************************************************************************)
(* When the Computer stage opens beside the conversation                   *)
(* (OperatorExperience of ui/web/src/app/App.tsx with                      *)
(* features/computer/visibility.ts): it opens by itself while a turn uses  *)
(* the browser or the desktop, on request to look back, and always on its  *)
(* own route; closing it dismisses the turn it opened for.                 *)
(* React runs effects before the next event, so every event here ends with *)
(* Settled, the state the effect leaves behind.                            *)
(*                                                                         *)
(* And the drag handle between two panels of the shell                     *)
(* (components/PanelResizeHandle.tsx): it gives one panel a width and      *)
(* leaves the other what remains of the container.                         *)
(***************************************************************************)
EXTENDS Integers, Sequences, SequencesExt, FiniteSetsExt

CONSTANTS
    Turns,      \* the turns of this history
    Sessions,
    None,
    SessionOf,  \* the session of each turn
    MinWidth, MaxWidth, DefaultWidth, OppositeMinimum,  \* the handle's properties
    Direction,  \* "from-left" or "from-right"
    Widths,     \* container widths the window can take
    Points      \* pointer positions, from the container's left edge

VARIABLES
    route,      \* "chat", "computer", "studio" or another page
    session,    \* operator.sessionID
    turns,      \* per turn: "none", "running", "recovering" or "ended"
    working,    \* turns with an active computer activity, oldest event first
    used,       \* turns that left a tool event (recent_events)
    review,     \* computerReviewSession: a session, "unscoped" or None
    auto,       \* computerAutoTurn
    dismissed,  \* computerDismissedTurn
    width,      \* of the container of the panels
    value,      \* of the panel
    pointer,    \* activePointer: the pointer that drags, 0 when none
    resizing,   \* what onResizeStateChange said last
    rendered,   \* the handle is on the page (studioActive, computerVisible)
    moved,      \* history: this step was an update
    dropped     \* history: the handle left the page during a drag

shellVars == <<route, session, turns, working, used, review, auto, dismissed>>

Running(ts, t) == t /= None /\ ts[t] \in {"running", "recovering"}
InScope(s, t) == s = None \/ SessionOf[t] = s

activeComputerActivities(w, s) == SelectSeq(w, LAMBDA t : InScope(s, t))
activeComputerTurnID(w, s) ==
    LET mine == activeComputerActivities(w, s) IN IF mine = <<>> THEN None ELSE Last(mine)
hasComputerHistory(u, s) == \E t \in u : InScope(s, t)

computerScope(s) == IF s = None THEN "unscoped" ELSE s
computerWorkingTurn(r, w, s) == IF r = "chat" THEN activeComputerTurnID(w, s) ELSE None
computerAutoOpen(r, w, s, ts, a, d) ==
    /\ r = "chat" /\ a /= None /\ d /= a
    /\ computerWorkingTurn(r, w, s) = a \/ Running(ts, a)
computerReviewOpen(r, s, v) == r = "chat" /\ v = computerScope(s)
computerVisible ==
    \/ route = "computer"
    \/ computerAutoOpen(route, working, session, turns, auto, dismissed)
    \/ computerReviewOpen(route, session, review)

ShellInit ==
    /\ route = "chat" /\ session = None /\ turns = [t \in Turns |-> "none"]
    /\ working = <<>> /\ used = {} /\ review = None /\ auto = None /\ dismissed = None

\* One pass of the effect over the state rendered last: [auto, dismissed, review].
OpenForAnyTurn(v, a, d) ==
    IF route' /= "chat" THEN [auto |-> a, dismissed |-> d, review |-> None]
    ELSE LET w == computerWorkingTurn(route', working', session')
             set == IF w /= None THEN w ELSE a
         IN [auto |-> IF a /= None /\ w /= a /\ ~Running(turns', a) THEN None ELSE set,
             dismissed |-> IF Running(turns', d) THEN d ELSE None,
             review |-> v]
Effect(v, a, d) ==
    IF route' /= "chat" THEN [auto |-> a, dismissed |-> d, review |-> None]
    ELSE LET w == computerWorkingTurn(route', working', session')
             set == IF w /= None /\ w /= d THEN w ELSE a
         IN [auto |-> IF a /= None /\ w /= a /\ ~Running(turns', a) THEN None ELSE set,
             dismissed |-> IF Running(turns', d) THEN d ELSE None,
             review |-> v]
\* The effect sets state it depends on, so it runs again until nothing changes:
\* a first pass may clear the old turn, a second opens for the new one, and a
\* third follows a dismissal that ended.
Settled(v, a, d) ==
    \E one \in {Effect(v, a, d)} :
    \E two \in {Effect(one.review, one.auto, one.dismissed)} :
    \E last \in {Effect(two.review, two.auto, two.dismissed)} :
        auto' = last.auto /\ dismissed' = last.dismissed /\ review' = last.review

\* The router, the sidebar and the palette: newConversation, openConversation.
Navigate(r) ==
    /\ r /= route /\ route' = r /\ UNCHANGED <<session, turns, working, used>>
    /\ Settled(review, auto, dismissed)
setSessionID(s) ==
    /\ s /= session /\ session' = s /\ route' = "chat" /\ UNCHANGED <<turns, working, used>>
    /\ Settled(review, auto, dismissed)

\* Events of the stream, for any session. An activity outlives its turn when its
\* terminal event never comes.
TurnChanges(t) ==
    /\ \/ turns[t] = "none" /\ turns' = [turns EXCEPT ![t] = "running"]
       \/ turns[t] = "running" /\ turns' = [turns EXCEPT ![t] = "recovering"]
       \/ turns[t] \in {"running", "recovering"} /\ turns' = [turns EXCEPT ![t] = "ended"]
    /\ UNCHANGED <<route, session, working, used>> /\ Settled(review, auto, dismissed)
ComputerEvent(t) ==
    /\ Running(turns, t)
    /\ working' = Append(SelectSeq(working, LAMBDA u : u /= t), t) /\ used' = used \union {t}
    /\ UNCHANGED <<route, session, turns>> /\ Settled(review, auto, dismissed)
ComputerEnds(t) ==
    /\ t \in ToSet(working) /\ working' = SelectSeq(working, LAMBDA u : u /= t)
    /\ UNCHANGED <<route, session, turns, used>> /\ Settled(review, auto, dismissed)

\* The stage's close button, offered in the conversation only.
closeComputer ==
    LET w == computerWorkingTurn(route, working, session)
        closed == IF auto /= None THEN auto ELSE w
    IN /\ route = "chat" /\ computerVisible /\ UNCHANGED <<route, session, turns, working, used>>
       /\ Settled(None, None, IF closed /= None THEN closed ELSE dismissed)
\* The conversation's button, offered when there is something to look back on.
toggleComputer ==
    /\ route = "chat" /\ hasComputerHistory(used, session)
    /\ \/ computerVisible /\ closeComputer
       \/ /\ ~computerVisible /\ UNCHANGED <<route, session, turns, working, used>>
          /\ Settled(computerScope(session), auto, None)

\* The page: the stage and the conversation beside it, and every route.
OperatorExperience ==
    \/ closeComputer \/ toggleComputer
    \/ \E r \in {"chat", "computer", "studio", "page"} : Navigate(r)

ShellNext ==
    \/ OperatorExperience
    \/ \E s \in Sessions \union {None} : setSessionID(s)
    \/ \E t \in Turns : TurnChanges(t) \/ ComputerEvent(t) \/ ComputerEnds(t)

ShellSpec == ShellInit /\ [][ShellNext]_shellVars

-----------------------------------------------------------------------------
(* The handle between two panels. *)
panelVars == <<width, value, pointer, resizing, rendered, moved, dropped>>
handleWidth == 7
keyboardStep == 24

PanelInit ==
    /\ width \in Widths /\ value = DefaultWidth /\ pointer = 0
    /\ resizing = FALSE /\ rendered = FALSE /\ moved = FALSE /\ dropped = FALSE

effectiveMaximum == Max({MinWidth, Min({MaxWidth, width - OppositeMinimum - handleWidth})})
\* The limits applied in the other order.
ClampLow(next) == value' = Min({effectiveMaximum, MaxWidth, next}) /\ moved' = TRUE
update(next) == value' = Max({MinWidth, Min({effectiveMaximum, next})}) /\ moved' = TRUE
valueFromPointer(x) == IF Direction = "from-left" THEN x ELSE width - x

pointerDown(p, x) ==
    /\ rendered /\ pointer' = p /\ resizing' = TRUE /\ update(valueFromPointer(x))
    /\ UNCHANGED <<width, rendered, dropped>>
pointerMove(p, x) ==
    /\ pointer = p /\ update(valueFromPointer(x)) /\ UNCHANGED <<width, pointer, resizing, rendered, dropped>>
Released ==
    /\ pointer' = 0 /\ resizing' = FALSE /\ dropped' = FALSE /\ moved' = FALSE
    /\ UNCHANGED <<width, value, rendered>>
finishResize(p) == pointer = p /\ Released
onLostPointerCapture == pointer /= 0 /\ Released
keyDown(key) ==
    LET outward == IF Direction = "from-left" THEN "ArrowRight" ELSE "ArrowLeft"
    IN /\ rendered
       /\ CASE key = "Home" -> update(MinWidth)
            [] key = "End" -> update(effectiveMaximum)
            [] key = outward -> update(value + keyboardStep)
            [] OTHER -> update(value - keyboardStep)
       /\ UNCHANGED <<width, pointer, resizing, rendered, dropped>>
onDoubleClick ==
    rendered /\ update(DefaultWidth) /\ UNCHANGED <<width, pointer, resizing, rendered, dropped>>
\* The window changes size; the panel keeps the width it was given.
WindowResized(w) ==
    /\ w /= width /\ width' = w /\ moved' = FALSE /\ UNCHANGED <<value, pointer, resizing, rendered, dropped>>
\* The handle comes and goes with the Studio or the stage, also during a drag, which
\* nobody then ends: the layout goes on saying that it is being resized.
HandleRendered ==
    /\ rendered' = ~rendered /\ pointer' = 0 /\ moved' = FALSE /\ dropped' = (dropped \/ pointer /= 0)
    /\ UNCHANGED <<width, value, resizing>>

PanelNext ==
    \/ onDoubleClick \/ onLostPointerCapture \/ HandleRendered
    \/ \E w \in Widths : WindowResized(w)
    \/ \E key \in {"Home", "End", "ArrowLeft", "ArrowRight"} : keyDown(key)
    \/ \E p \in {1, 2} : finishResize(p) \/ \E x \in Points : pointerDown(p, x) \/ pointerMove(p, x)

PanelSpec == PanelInit /\ [][PanelNext]_panelVars

-----------------------------------------------------------------------------
ShellTypeOK ==
    /\ route \in {"chat", "computer", "studio", "page"} /\ session \in Sessions \union {None}
    /\ ToSet(working) \subseteq Turns /\ {auto, dismissed} \subseteq Turns \union {None}
    /\ review \in Sessions \union {"unscoped", None}

\* The stage never opens, or stays open through a close, for the turn the operator
\* dismissed while that turn runs: as long as the conversation and the route stay,
\* it becomes visible only on the operator's own request to look back or because
\* another turn is using the computer, which the stage then follows; and a
\* dismissal ends with its turn
\* (closeComputer and the effect of OperatorExperience).
StageStaysClosed ==
    /\ []ShellTypeOK
    /\ [](auto = None \/ auto /= dismissed)
    /\ [](route = "chat" => LET w == computerWorkingTurn(route, working, session)
                            IN w \notin {None, dismissed} => auto = w)
    /\ [](route = "chat" => dismissed = None \/ Running(turns, dismissed))
    /\ [][~computerVisible /\ computerVisible' /\ UNCHANGED <<route, session, review>>
          => LET w == computerWorkingTurn(route', working', session')
             IN w /= None /\ ~(w = dismissed /\ Running(turns', w))]_shellVars
    /\ [][closeComputer /\ computerVisible'
          => computerWorkingTurn(route', working', session') \notin {None, dismissed'}]_shellVars

\* Whatever is pressed or dragged, a panel is never narrower than its minimum or
\* wider than its maximum; each change leaves the panel on the other side its
\* minimum when the container has room for both; the layout says it is being resized
\* while a pointer drags, and otherwise only after the handle went away during a drag
\* (effectiveMaximum, update, finishResize, OperatorExperience).
PanelFits ==
    /\ value \in MinWidth..MaxWidth
    /\ (moved /\ width >= MinWidth + handleWidth + OppositeMinimum
        => width - handleWidth - value >= OppositeMinimum)
    /\ pointer /= 0 => rendered /\ resizing
    /\ resizing => pointer /= 0 \/ dropped
=============================================================================
