----------------------------- MODULE MCOperator -----------------------------
(* The operator's side of a conversation for TLC: the approvals a turn waits   *)
(* for, the web and terminal conversations, the studios, the Computer stage    *)
(* and the shell around them.  A behaviour is about one of them.  (What must   *)
(* happen in the end is checked in MCLeases.)  Control has two tabs, four      *)
(* requests and three revisions: a takeover, its end, and another.             *)
EXTENDS ApprovalBroker, ControlClient, TLC

VARIABLES part, session, known, draft, composed, queue, op, shown, resumes, turns,
          status, pending, tuiSession, tuiKnown, busy, tuiQueue, written, pressed, tuiTurns, tuiView,
          project, manifest,
          focus, section, recent, arrived, computerFollowLive, computerCursor, sessions,
          sessionCursor, approvals, decisions,
          route, shellSession, shellTurns, working, used, review, auto, dismissed,
          cookie, valid, tab, signing, issued, asked, left, frame,
          width, value, pointer, resizing, rendered, moved, dropped,
          stageSession, shownEvents, seen, workspace, positions, fullScreen,
          workflow, flowSaved, flowPages, listed, flowRequests, looking, flowSent, restarts,
          settings, capturing, plans, owners, saved, held, cycle, runs, autonomyPage,
          autonomyRequests, autonomySent, granted, rejected, deaths,
          jobs, runner, copies, askedFor, paid, droppedJobs, mediaPage, calls, crashes,
          docs, editors, saving, officePage, officeCalls,
          editing, script, waiting, clearing, live

chatVars == <<session, known, draft, composed, queue, op, shown, resumes, turns>>
terminalVars == <<status, pending, tuiSession, tuiKnown, busy, tuiQueue, written, pressed, tuiTurns,
                  tuiView, project, manifest>>
keyVars == <<focus, section, recent, arrived, computerFollowLive, computerCursor, sessions,
             sessionCursor, approvals, decisions>>
shellVars == <<route, shellSession, shellTurns, working, used, review, auto, dismissed>>
signingVars == <<cookie, valid, tab, signing, issued, asked, left, frame>>
panelVars == <<width, value, pointer, resizing, rendered, moved, dropped>>
stageVars == <<stageSession, shownEvents, seen, workspace, positions, fullScreen>>
flowVars == <<workflow, flowSaved, flowPages, listed, flowRequests, looking, flowSent, restarts>>
autonomyVars == <<settings, capturing, plans, owners, saved, held, cycle, runs, autonomyPage,
                  autonomyRequests, autonomySent, granted, rejected, deaths>>
mediaVars == <<jobs, runner, copies, askedFor, paid, droppedJobs, mediaPage, calls, crashes>>
officeVars == <<docs, editors, saving, officePage, officeCalls>>
editorVars == <<editing, script, waiting, clearing, live>>

\* The two requests for approval are interchangeable.
Symmetry == Permutations(Approvals)

\* Two conversations and two messages, with two turns or two resumptions in flight.
Chat(turnsOf, resumesOf) == INSTANCE ChatHost
    WITH Sessions <- {"s", "t"}, MaxMessages <- 2, MaxTurns <- turnsOf, MaxResumes <- resumesOf

\* A queue of two with as many lines as overflow it, and any key; or two messages and
\* three verifications, whose answers free the composer while session.create is out.
\* A window of three events that a fourth makes slide.
TerminalOf(lines, keys, messages, presses) == INSTANCE TerminalSession
    WITH Sessions <- {"s", "t", "u"}, Lines <- lines, Keys <- keys, QueueLimit <- 2,
         MaxMessages <- messages, MaxKeys <- presses, Window <- 3, MaxEvents <- 4, MaxSessions <- 2,
         session <- tuiSession, known <- tuiKnown, queue <- tuiQueue, turns <- tuiTurns,
         view <- tuiView
AnyLine == {"message", "slash"}
AnyKey == {"new", "approval", "studio", "resume", "verify"}
Terminal == INSTANCE TerminalSession
    WITH Sessions <- {"s", "t", "u"}, Lines <- AnyLine, Keys <- AnyKey, QueueLimit <- 2,
         MaxMessages <- 3, MaxKeys <- 3, Window <- 3, MaxEvents <- 4, MaxSessions <- 2,
         session <- tuiSession, known <- tuiKnown, queue <- tuiQueue, turns <- tuiTurns,
         view <- tuiView

\* Two turns of one conversation and one of another; the panel beside the Studio, in
\* windows with more and less room than it wants.
Shell == INSTANCE OperatorShell
    WITH Turns <- 1..3, Sessions <- {"s", "t"}, SessionOf <- <<"s", "t", "s">>,
         MinWidth <- 280, MaxWidth <- 520, DefaultWidth <- 340, OppositeMinimum <- 560,
         Direction <- "from-left", Widths <- {700, 900, 1000, 1400}, Points <- {0, 300, 430, 1000},
         session <- shellSession, turns <- shellTurns

\* Two tabs of one browser, two sign-ins.
Signing == INSTANCE OperatorFrame
    WITH Tabs <- {1, 2}, MaxLogins <- 2, MaxRequests <- 3, requests <- signing, sent <- asked

\* A timeline of three events, two of them rendered, and a fourth that drops the
\* first: of two agents in one conversation, or of one agent in two.
StageOf(agents, conversations) == INSTANCE ComputerStage
    WITH Agents <- agents, Sessions <- conversations, Rendered <- 2, Retained <- 3, MaxEvents <- 4,
         session <- stageSession, recent <- shownEvents, arrived <- seen
Stage == INSTANCE ComputerStage
    WITH Agents <- {"a", "b"}, Sessions <- {"s", "t"}, Rendered <- 2, Retained <- 3, MaxEvents <- 4,
         session <- stageSession, recent <- shownEvents, arrived <- seen

\* A tab that may show an old status, and the agent, with three commands between them
\* and a restart: a pause, a Resume that looks at the page, a cancellation meanwhile.
Flow == INSTANCE BrowserWorkflow
    WITH FlowTabs <- {"tab"}, MaxCommands <- 3, MaxRestarts <- 1, saved <- flowSaved, page <- flowPages,
         commands <- flowRequests, commanded <- flowSent

\* Two proposals and two presses, across a restart.
Autonomous == INSTANCE Autonomy
    WITH Items <- {1, 2}, MaxRequests <- 2, MaxCrashes <- 1, queue <- plans, page <- autonomyPage,
         requests <- autonomyRequests, sent <- autonomySent, dismissed <- rejected,
         crashes <- deaths

\* Two generations of a kind that polls; one that may also answer at once, across a
\* restart; or one of either kind whose request comes again, across a restart.
Polled == "text-to-image"
Immediate == "remove-background"
Media(kinds, n, repeats, restartsOf) == INSTANCE MediaStudio
    WITH Kinds <- kinds, MaxJobs <- n, MaxActive <- 2, MaxRepeats <- repeats,
         MaxCrashes <- restartsOf, asked <- askedFor, dropped <- droppedJobs, page <- mediaPage

\* Two documents opened and restored, or one that is saved twice.
Office(n, saves, versions, inFlight) == INSTANCE OfficeStudio
    WITH MaxDocs <- n, MaxSaves <- saves, MaxVersions <- versions, MaxSessions <- 2, MaxCalls <- inFlight,
         sessions <- editors, page <- officePage, calls <- officeCalls

\* The editor of one document after another.
Editor == INSTANCE OfficeEditor WITH Sessions <- {"d", "e", "f"}, NoSession <- None, session <- editing

OperatorInit ==
    /\ part \in {"approval", "turns", "chat", "terminal", "creates", "keys", "shell", "signing",
                "panel", "agents", "visits", "flow", "control", "autonomy", "images", "media",
                "repeated", "library", "document", "editor"}
    /\ Init /\ Chat(2, 2)!ChatInit /\ Terminal!TerminalInit /\ Terminal!KeysInit
    /\ Shell!ShellInit /\ Signing!FrameInit /\ Shell!PanelInit
    /\ Stage!StageInit /\ Flow!WorkflowInit /\ Autonomous!AutonomyInit
    /\ ControlInit
    /\ Media({Polled, Immediate}, 1, 1, 1)!MediaInit /\ Office(2, 0, 2, 2)!OfficeInit /\ Editor!EditorInit
    \* one of the initial states of a part that does not move
    /\ part \notin {"turns", "chat"} => known = {}
    /\ part /= "panel" => width = 1000
    /\ part /= "visits" => stageSession = "s"
    /\ part /= "control" => kind = "browser"
    /\ part \notin {"media", "repeated"} => mediaPage.form.kind = Polled

\* Only this part moves.
Moves(p) ==
    /\ part = p /\ UNCHANGED part
    /\ p /= "approval" => UNCHANGED vars
    /\ p \notin {"turns", "chat"} => UNCHANGED chatVars
    /\ p \notin {"terminal", "creates"} => UNCHANGED terminalVars
    /\ p /= "keys" => UNCHANGED keyVars
    /\ p /= "shell" => UNCHANGED shellVars
    /\ p /= "signing" => UNCHANGED signingVars
    /\ p /= "panel" => UNCHANGED panelVars
    /\ p \notin {"agents", "visits"} => UNCHANGED stageVars
    /\ p /= "flow" => UNCHANGED flowVars
    /\ p /= "control" => UNCHANGED controlVars
    /\ p /= "autonomy" => UNCHANGED autonomyVars
    /\ p \notin {"images", "media", "repeated"} => UNCHANGED mediaVars
    /\ p \notin {"library", "document"} => UNCHANGED officeVars
    /\ p /= "editor" => UNCHANGED editorVars

OperatorNext ==
    \/ Moves("approval") /\ Next
    \/ Moves("turns") /\ Chat(2, 1)!ChatNext
    \/ Moves("chat") /\ Chat(1, 2)!ChatNext
    \/ Moves("terminal") /\ TerminalOf(AnyLine, AnyKey, 3, 1)!TerminalNext
    \/ Moves("creates") /\ TerminalOf({"message"}, {"verify"}, 2, 3)!TerminalNext
    \/ Moves("keys") /\ Terminal!KeysNext
    \/ Moves("shell") /\ Shell!ShellNext
    \/ Moves("signing") /\ Signing!FrameNext
    \/ Moves("panel") /\ Shell!PanelNext
    \/ Moves("agents") /\ StageOf({"a", "b"}, {"s"})!StageNext
    \/ Moves("visits") /\ StageOf({"a"}, {"s", "t"})!StageNext
    \/ Moves("flow") /\ Flow!WorkflowNext
    \/ Moves("control") /\ ControlNext
    \/ Moves("autonomy") /\ Autonomous!AutonomyNext
    \/ Moves("images") /\ Media({Polled}, 2, 0, 0)!MediaNext
    \/ Moves("media") /\ Media({Polled, Immediate}, 1, 0, 1)!MediaNext
    \/ /\ Moves("repeated")
       /\ \E k \in {Polled, Immediate} : mediaPage.form.kind = k /\ Media({k}, 1, 1, 1)!MediaNext
    \/ Moves("library") /\ Office(2, 0, 2, 2)!OfficeNext
    \/ Moves("document") /\ Office(1, 1, 4, 1)!OfficeNext
    \/ Moves("editor") /\ Editor!EditorNext

OperatorSpec ==
    /\ OperatorInit
    /\ [][OperatorNext]_<<part, vars, chatVars, terminalVars, keyVars, shellVars,
                         signingVars, panelVars, stageVars, flowVars, controlVars, autonomyVars,
                         mediaVars, officeVars, editorVars>>

-----------------------------------------------------------------------------
\* The transcript, the queue and the draft belong to what the operator sees and
\* typed, across switches of the conversation and answers that come late
\* (SessionEffect, submit, Dequeue of ChatHost).
ChatInv == Chat(2, 2)!ChatInv

\* The terminal answers each frame once, keeps its queue bounded and in order, and
\* its cursors stand on a row or an event that is there (submit, acceptFrame,
\* updateDraft, useInput).
TerminalSafe == Terminal!TerminalInv /\ Terminal!CursorsStand

\* The Computer stage stays closed once dismissed, signing out leaves no session a
\* tab would show, and a panel keeps room for its neighbour (closeComputer, signOut,
\* update of PanelResizeHandle).
ShellSafe == Shell!StageStaysClosed /\ Signing!FrameSteps /\ []Shell!PanelFits

\* A timeline at rest stays on its event while others arrive, in the browser and in the
\* terminal (moveSelection, windowStart, computerIndex); and a browser workflow whose
\* cancellation is saved with no Resume under way, or whose browser a restart emptied,
\* is not worked on again (transition, updatePreview, reconcileRestartLocked).
StageSafe == Stage!TimelineStands /\ Terminal!PausedStands /\ Flow!WorkflowSteps

\* Background initiative acts only on what the operator allowed, under the mode they
\* chose, and on a proposal once as long as the daemon lives (RunCycle, Approve,
\* UpdateAutonomy).
AutonomySafe == Autonomous!AutonomySafe

\* A generation is paid for at most once each time it is asked for, across restarts and
\* failed writes, and shown as done only with its outputs (Create, Open, run, poll,
\* complete of the media service).
MediaSafe == Media({Polled, Immediate}, 2, 1, 1)!MediaSafe

\* A document holds only its own versions, each save once, and the page has one
\* editor at most, that of the session it shows (RestoreVersion, HandleCallback,
\* OnlyOfficeEditor).
OfficeSafe == Office(2, 1, 4, 2)!OfficeSafe /\ Editor!OneEditor
=============================================================================
