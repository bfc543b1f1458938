------------------------------ MODULE StudioEntry ------------------------------
(***************************************************************************)
(* From an outcome to a project conversation: the projects page and the    *)
(* Problems panel (ui/web/src/routes/StudioRoutes.tsx).  Starting a        *)
(* project and asking for a repair are flows of several awaited commands;  *)
(* between them the operator walks on, and each flow keeps the goal, the   *)
(* project and the selected session it was started with.                   *)
(***************************************************************************)
EXTENDS Naturals, Sequences, FiniteSets

CONSTANTS
    None, Home,
    MaxFlows, MaxProjects, MaxSessions  \* bounds

VARIABLES
    place,      \* Home or the project whose workspace is open
    panel,      \* number of the open panel
    session,    \* operator.sessionID
    busy,       \* the flow the projects form waits for, 0 for none
    flows,      \* handlers between two awaits
    started,    \* flows started so far
    projects,   \* projects created
    sessions,   \* sessions created
    prompts     \* turns the daemon accepted, in order

entryVars == <<place, panel, session, busy, flows, started, projects, sessions, prompts>>
panels == <<"plan", "changes", "code", "terminal", "preview", "problems", "tests", "security", "data", "deploy">>

EntryInit ==
    /\ place = Home /\ panel = 1 /\ session = None /\ busy = 0
    /\ flows = {} /\ started = 0 /\ projects = 0 /\ sessions = 0 /\ prompts = <<>>

-----------------------------------------------------------------------------
(* Walking. *)

\* Opening a project or the projects page mounts it afresh, so the form is idle.
Visit(where) == place' = where /\ panel' = 1 /\ busy' = 0
openProject(p) ==
    /\ place = Home /\ Visit(p) /\ UNCHANGED <<session, flows, started, projects, sessions, prompts>>
BackToProjects ==
    /\ place /= Home /\ Visit(Home) /\ UNCHANGED <<session, flows, started, projects, sessions, prompts>>
selectSession(s) ==
    /\ s /= session /\ session' = s
    /\ UNCHANGED <<place, panel, busy, flows, started, projects, sessions, prompts>>

\* Arrow keys go round the tabs, Home and End to the ends; a click to any.
tabKeyDown(key) ==
    LET n == Len(panels)
        step == IF key = "ArrowRight" THEN 1 ELSE n - 1
        next == CASE key = "Home" -> 0 [] key = "End" -> n - 1 [] OTHER -> (panel - 1 + step) % n IN
    /\ place /= Home /\ panel' = next + 1
    /\ UNCHANGED <<place, session, busy, flows, started, projects, sessions, prompts>>
setPanel(i) ==
    /\ place /= Home /\ panel' = i
    /\ UNCHANGED <<place, session, busy, flows, started, projects, sessions, prompts>>

-----------------------------------------------------------------------------
(* Flows.  A goal may be blank: then the project gets no prompt. *)

Start(kind, project, step, goal) ==
    /\ started < MaxFlows /\ started' = started + 1
    /\ flows' = flows \union {[id |-> started', kind |-> kind, project |-> project,
                               session |-> session, step |-> step, goal |-> goal]}
Becomes(f, g) == flows' = (flows \ {f}) \union {g}
Dropped(f) == flows' = flows \ {f}
\* The command a flow sends next: it has a session, or has to create one.
Prompt(f) == IF f.session = None THEN "session" ELSE "submit"

createProject(goal) ==
    /\ place = Home /\ busy = 0
    /\ Start("create", None, "create", goal) /\ busy' = started'
    /\ UNCHANGED <<place, panel, session, projects, sessions, prompts>>

askToFix ==
    /\ place /= Home /\ panels[panel] = "problems"
    /\ Start("fix", place, IF session = None THEN "session" ELSE "submit", TRUE)
    /\ UNCHANGED <<place, panel, session, busy, projects, sessions, prompts>>

\* project.create answered; a blank goal leaves nothing to submit.
Created(f) ==
    /\ f.step = "create" /\ projects < MaxProjects /\ projects' = projects + 1
    /\ IF f.goal
       THEN /\ Becomes(f, [f EXCEPT !.project = projects', !.step = Prompt(f)])
            /\ UNCHANGED <<place, panel, busy>>
       ELSE Dropped(f) /\ Visit(projects')
    /\ UNCHANGED <<session, started, sessions, prompts>>

\* continuePrompt and askToFix create the session they lack, and select it.
SessionCreated(f) ==
    /\ f.step = "session" /\ sessions < MaxSessions /\ sessions' = sessions + 1
    /\ session' = sessions' /\ Becomes(f, [f EXCEPT !.session = sessions', !.step = "submit"])
    /\ UNCHANGED <<place, panel, busy, started, projects, prompts>>

\* The prompt goes to whatever is selected by now.
SubmitToSelected(f) ==
    /\ f.step = "submit" /\ session /= None
    /\ prompts' = Append(prompts, [flow |-> f.id, project |-> f.project, session |-> session, kept |-> f.session])
    /\ Dropped(f) /\ IF f.kind = "create" THEN Visit(f.project) ELSE UNCHANGED <<place, panel, busy>>
    /\ UNCHANGED <<session, started, projects, sessions>>
\* turn.submit accepted; starting a project then opens it, wherever the operator is.
Submitted(f) ==
    /\ f.step = "submit"
    /\ prompts' = Append(prompts, [flow |-> f.id, project |-> f.project, session |-> f.session, kept |-> f.session])
    /\ Dropped(f) /\ IF f.kind = "create" THEN Visit(f.project) ELSE UNCHANGED <<place, panel, busy>>
    /\ UNCHANGED <<session, started, projects, sessions>>

\* A command refused or lost ends the flow with a notice; the form is idle again
\* (finally), and a project already created stays.
Failed(f) ==
    /\ Dropped(f) /\ busy' = (IF busy = f.id THEN 0 ELSE busy)
    /\ UNCHANGED <<place, panel, session, started, projects, sessions, prompts>>

\* The two pages: the form with the list of projects, and one project's panels.
ProjectsHome ==
    \/ \E p \in 1 .. projects : openProject(p)
    \/ \E goal \in BOOLEAN : createProject(goal)
StudioWorkspace ==
    \/ BackToProjects
    \/ \E key \in {"ArrowLeft", "ArrowRight", "Home", "End"} : tabKeyDown(key)
    \/ \E i \in DOMAIN panels : setPanel(i)

EntryNext ==
    \/ ProjectsHome \/ StudioWorkspace \/ askToFix
    \/ \E s \in 1 .. sessions : selectSession(s)
    \/ \E f \in flows : Created(f) \/ SessionCreated(f) \/ Submitted(f) \/ Failed(f)

EntrySpec == EntryInit /\ [][EntryNext]_entryVars

-----------------------------------------------------------------------------
EntryTypeOK ==
    /\ place \in {Home} \union 1 .. projects /\ panel \in DOMAIN panels
    /\ session \in {None} \union 1 .. sessions /\ busy \in 0 .. started

\* A flow that outlives the page it was started on still does what was asked
\* where it was asked: each prompt belongs to one flow, names a project and a
\* session that exist, and goes to the session selected when the flow began or
\* made for it, never to one selected since; and a form that waits has its flow (createProject, continuePrompt,
\* askToFix).
EntryInv ==
    /\ EntryTypeOK
    /\ \A i \in DOMAIN prompts :
         /\ prompts[i].project \in 1 .. projects /\ prompts[i].session \in 1 .. sessions
         /\ prompts[i].session = prompts[i].kept
         /\ \A j \in DOMAIN prompts : prompts[i].flow = prompts[j].flow => i = j
         /\ \A f \in flows : f.id /= prompts[i].flow
    /\ \A f \in flows :
         /\ f.step /= "create" => f.project \in 1 .. projects
         /\ f.step = "submit" => f.session \in 1 .. sessions
    /\ busy /= 0 => place = Home /\ \E f \in flows : f.id = busy /\ f.kind = "create"
=============================================================================
