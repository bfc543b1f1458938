---------------------------- MODULE BrowserWorkflow ----------------------------
(***************************************************************************)
(* A supervised browser workflow (internal/browser/workflows.go): the      *)
(* buttons that steer it from the Computer stage                           *)
(* (ui/web/src/features/computer/ComputerStage.tsx), in several tabs that  *)
(* show its status as of their last poll, and the calls of the agent that  *)
(* work on its page.  A call on the page checks the status, uses the       *)
(* browser without the lock and writes its result afterwards; the document *)
(* is changed in memory before it is saved, and stays so when the save     *)
(* fails.                                                                  *)
(***************************************************************************)
EXTENDS Naturals

CONSTANTS
    FlowTabs,
    MaxCommands, MaxRestarts  \* bounds

VARIABLES
    workflow,   \* status, handoff and revision
    saved,      \* the same as last written to disk
    page,       \* the browser scope is open
    listed,     \* per tab, the status shown
    commands,   \* sent and not yet served
    looking,    \* calls that passed their check and use the browser
    commanded, restarts

workflowVars == <<workflow, saved, page, listed, commands, looking, commanded, restarts>>
Live == {"active", "paused", "waiting_for_human"}

WorkflowInit ==
    /\ workflow = [status |-> "active", handoff |-> FALSE, revision |-> 1] /\ saved = workflow /\ page = TRUE
    /\ listed = [t \in FlowTabs |-> "active"] /\ commands = {} /\ looking = {} /\ commanded = 0 /\ restarts = 0

-----------------------------------------------------------------------------
(* The tabs and the agent. *)

\* browserWorkflows reads the list again.
PollWorkflow(t) ==
    /\ listed' = [listed EXCEPT ![t] = workflow.status] /\ listed' /= listed
    /\ UNCHANGED <<workflow, saved, page, commands, looking, commanded, restarts>>

Command(by, op) ==
    /\ commanded < MaxCommands /\ commanded' = commanded + 1
    /\ commands' = commands \union {[id |-> commanded', by |-> by, op |-> op]}
    /\ UNCHANGED <<workflow, saved, page, listed, looking, restarts>>

\* The buttons offered for a status.
Offered(status) ==
    (IF status = "active" THEN {"pause", "handoff"} ELSE {})
    \union (IF status \in {"paused", "waiting_for_human"} THEN {"resume"} ELSE {})
    \union (IF status = "cancelled" THEN {} ELSE {"cancel"})
workflowCommand(t, op) == op \in Offered(listed[t]) /\ Command(t, op)

\* The agent's tools see no status: Observe, Interact and Submit are one kind of
\* call, InsertCredential another.
Operations == {"pause", "handoff", "resume", "cancel", "observe", "credential"}
agentCall(op) == Command("agent", op)

\* An answer makes its tab read the list again, unless it is lost.
Answer(r) ==
    /\ UNCHANGED <<commanded, restarts>>
    /\ listed' \in {listed} \union {[listed EXCEPT ![t] = workflow'.status] : t \in FlowTabs \intersect {r.by}}
Served(r) == commands' = commands \ {r} /\ UNCHANGED looking /\ Answer(r)

-----------------------------------------------------------------------------
(* The supervisor. *)

\* saveLocked may fail, and then the change stands in memory alone.
Store(w) == workflow' = w /\ saved' \in {w, saved}

\* A transition that forgets the question it leaves behind.
KeepHandoff(r, op, from, to, handoff) ==
    /\ r.op = op /\ workflow.status \in from
    /\ Store([status |-> to, handoff |-> handoff \/ workflow.handoff, revision |-> workflow.revision + 1])
    /\ Served(r)
transition(r, op, from, to, handoff) ==
    /\ r.op = op /\ workflow.status \in from
    /\ Store([status |-> to, handoff |-> handoff, revision |-> workflow.revision + 1])
    /\ Served(r)
Pause(r) == transition(r, "pause", {"active"}, "paused", FALSE) /\ UNCHANGED page
RequestHandoff(r) == transition(r, "handoff", {"active"}, "waiting_for_human", TRUE) /\ UNCHANGED page
\* The scope is closed only once the cancellation is saved.
Cancel(r) ==
    /\ transition(r, "cancel", Live \union {"restart_required"}, "cancelled", FALSE)
    /\ page' = (page /\ saved' /= workflow')

\* Calls on the page are admitted while it was not cancelled.
AdmittedUnlessCancelled(op) ==
    IF op \in {"observe", "resume", "credential"} THEN Live \union {"restart_required"} ELSE {}
\* The statuses in which a call on the page is admitted.
Admitted(op) ==
    CASE op = "observe" -> {"active"}
      [] op \in {"resume", "credential"} -> {"paused", "waiting_for_human"}
      [] OTHER -> {}
\* Get, the test of the status, and the unlock.
Check(r) ==
    /\ workflow.status \in Admitted(r.op)
    /\ commands' = commands \ {r}
    /\ looking' = looking \union {[id |-> r.id, by |-> r.by, op |-> r.op, looked |-> FALSE]}
    /\ UNCHANGED <<workflow, saved, page, listed, commanded, restarts>>
\* The browser is used; a scope that was closed opens again, empty.
Look(r) ==
    /\ ~r.looked /\ page' = TRUE
    /\ looking' = (looking \ {r}) \union {[r EXCEPT !.looked = TRUE]}
    /\ UNCHANGED <<workflow, saved, listed, commands, commanded, restarts>>
LookFailed(r) ==
    /\ looking' = looking \ {r} /\ UNCHANGED <<workflow, saved, page, commands>> /\ Answer(r)
\* The preview is stored whatever the workflow has become,
updatePreview(r) ==
    /\ r.looked /\ r.op /= "resume" /\ Store([workflow EXCEPT !.revision = @ + 1])
    /\ looking' = looking \ {r} /\ UNCHANGED <<page, commands>> /\ Answer(r)
\* and Resume makes it active whatever it has become.
Resume(r) ==
    /\ r.looked /\ r.op = "resume"
    /\ Store([status |-> "active", handoff |-> FALSE, revision |-> workflow.revision + 1])
    /\ looking' = looking \ {r} /\ UNCHANGED <<page, commands>> /\ Answer(r)
\* The status does not allow it.
RefuseCommand(r) == UNCHANGED <<workflow, saved, page>> /\ Served(r)

\* What is on disk, where a workflow that was live has lost its browser: profiles
\* are volatile (reconcileRestartLocked).
Reconciled(w) ==
    IF w.status \in Live
    THEN [status |-> "restart_required", handoff |-> FALSE, revision |-> w.revision + 1] ELSE w
\* The daemon starts again, which takes a save that succeeds (OpenSupervisor).
Restart ==
    /\ restarts < MaxRestarts /\ restarts' = restarts + 1
    /\ workflow' = Reconciled(saved) /\ saved' = workflow'
    /\ page' = FALSE /\ commands' = {} /\ looking' = {} /\ UNCHANGED <<listed, commanded>>

Serve(r) == Pause(r) \/ RequestHandoff(r) \/ Cancel(r) \/ Check(r) \/ RefuseCommand(r)
Continue(r) == Look(r) \/ LookFailed(r) \/ updatePreview(r) \/ Resume(r)
WorkflowNext ==
    \/ Restart
    \/ \E t \in FlowTabs : PollWorkflow(t) \/ \E op \in Operations : workflowCommand(t, op)
    \/ \E op \in Operations : agentCall(op)
    \/ \E r \in commands : Serve(r)
    \/ \E r \in looking : Continue(r)

WorkflowSpec == WorkflowInit /\ [][WorkflowNext]_workflowVars

-----------------------------------------------------------------------------
Resuming == \E r \in looking : r.op = "resume"
SavedCancelled == workflow.status = "cancelled" /\ saved.status = "cancelled"

\* A question to the human is on record exactly while the workflow waits for one, in
\* memory and on disk; between restarts every change takes the next revision, the
\* late previews of calls that overlap included; after a restart nothing works on
\* the emptied browser or makes the workflow active; and once a cancellation is
\* saved and no Resume is under way it stands, whatever calls, failing saves and
\* restarts follow (transition, updatePreview, Resume, reconcileRestartLocked).
WorkflowSteps ==
    /\ [](\A w \in {workflow, saved} : w.handoff <=> w.status = "waiting_for_human")
    /\ [][workflow' /= workflow /\ restarts' = restarts => workflow'.revision = workflow.revision + 1]_workflowVars
    /\ [](restarts > 0 => ~page /\ looking = {} /\ workflow.status \in {"restart_required", "cancelled"})
    /\ [][SavedCancelled /\ ~Resuming => SavedCancelled' /\ ~Resuming']_workflowVars
=============================================================================
