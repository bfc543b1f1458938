---------------------------- MODULE StudioDelivery ----------------------------
(***************************************************************************)
(* Delivery of a project: the Data and Deploy panels of Software Studio    *)
(* (ui/web/src/routes/StudioRoutes.tsx), open in several tabs, over the    *)
(* daemon that plans, applies, reconciles and rolls back                   *)
(* (internal/project/delivery.go, delivery_deploy.go).                     *)
(*                                                                         *)
(* The daemon serves the artifact of one plan at a time, at a URL that is  *)
(* new with every start; a restart ends its servers and keeps receipts.    *)
(* Buttons wait for busy, so a panel has one request on the way at most;   *)
(* leaving the panel forgets the request and the plans shown, and the      *)
(* daemon still serves it.  A request the client gives up on leaves the    *)
(* panel busy: no handler has a finally.                                   *)
(***************************************************************************)
EXTENDS Naturals, Sequences

CONSTANTS
    Tabs, None,
    MaxRevision, MaxPlans, MaxReceipts, MaxRestarts,  \* bounds
    MaxRequests, MaxData    \* of the requests, and of the first ones that may be about data

VARIABLES
    revision,   \* project.workspace_revision
    plans,      \* ResourcePlans, MigrationPlans and DeploymentPlans
    receipts,   \* Resources, Migrations and Deployments, oldest first
    server,     \* that runs: its URL and the plan whose artifact it serves
    active,     \* whether the adapter has started a server in this life of the daemon
    doubt,      \* a server came or went since the last deployment or rollback recorded
    restarts,   \* of the daemon so far
    requests,   \* sent and not served
    sent,       \* requests sent so far
    tab         \* per tab: revision shown, panel, plans shown, request waited for

deliveryVars == <<revision, plans, receipts, server, active, doubt, restarts, requests, sent, tab>>
running == <<server, active, doubt, restarts>>
kept == <<revision, plans, receipts, running>>
NoServer == [url |-> 0, plan |-> 0]
Panels == {"data", "deploy"}
Kinds == {"resource", "migration", "deployment"}
Panel(kind) == IF kind = "deployment" THEN "deploy" ELSE "data"
NoPlans == [k \in Kinds |-> 0]

Deployed == [kind |-> "deployment", plan |-> 1, at |-> 1, state |-> "healthy", url |-> 1,
             previous |-> 0, rolled_back |-> FALSE]

\* Nothing was delivered yet, or one deployment by the first request.
DeliveryInit ==
    /\ revision = 1 /\ doubt = FALSE /\ restarts = 0 /\ requests = {} /\ sent = 1
    /\ \/ plans = <<>> /\ receipts = <<>> /\ server = NoServer /\ active = FALSE
       \/ /\ plans = <<[kind |-> "deployment", revision |-> 1]>> /\ receipts = <<Deployed>>
          /\ server = [url |-> 1, plan |-> 1] /\ active = TRUE
    /\ tab = [t \in Tabs |-> [seen |-> 1, panel |-> "deploy", plan |-> NoPlans, waits |-> None]]

Edit ==
    /\ revision < MaxRevision /\ revision' = revision + 1
    /\ UNCHANGED <<plans, receipts, running, requests, sent, tab>>
\* The workspace's poll reads the project again.
Read(t) ==
    /\ tab' = [tab EXCEPT ![t].seen = revision] /\ tab' /= tab
    /\ UNCHANGED <<kept, requests, sent>>
\* The other panel is mounted afresh.
Switch(t) ==
    /\ \E p \in Panels \ {tab[t].panel} :
         tab' = [tab EXCEPT ![t] = [@ EXCEPT !.panel = p, !.plan = NoPlans, !.waits = None]]
    /\ UNCHANGED <<kept, requests, sent>>

-----------------------------------------------------------------------------
(* The panels. *)

Press(t, op, kind, argument) ==
    /\ tab[t].panel = Panel(kind) /\ tab[t].waits = None
    /\ sent < IF Panel(kind) = "data" THEN MaxData ELSE MaxRequests
    /\ sent' = sent + 1
    /\ requests' = requests \union {[id |-> sent', tab |-> t, op |-> op, kind |-> kind, argument |-> argument]}
    /\ tab' = [tab EXCEPT ![t].waits = sent']
    /\ UNCHANGED kept

planResource(t) == Press(t, "plan", "resource", tab[t].seen)
planMigration(t) == Press(t, "plan", "migration", tab[t].seen)
planDeployment(t) == Press(t, "plan", "deployment", tab[t].seen)

Reviewed(t, kind) == tab[t].plan[kind] /= 0 /\ Press(t, "apply", kind, tab[t].plan[kind])
applyResource(t) == Reviewed(t, "resource")
applyMigration(t) == Reviewed(t, "migration")
applyDeployment(t) == Reviewed(t, "deployment")

\* The list of receipts may be older than the last rollback.
rollbackMigration(t, i) ==
    /\ receipts[i].kind = "migration"
    /\ Press(t, "rollback", "migration", i)
reconcile(t, i) == receipts[i].kind = "deployment" /\ Press(t, "reconcile", "deployment", i)
rollback(t, i) ==
    /\ receipts[i].kind = "deployment" /\ receipts[i].previous /= 0
    /\ Press(t, "rollback", "deployment", i)

\* The answer ends busy, shows a new plan and drops an applied one; without an
\* answer, or when the panel has gone, nothing is shown.
Answer(r, ok, plan) ==
    \/ UNCHANGED tab
    \/ /\ tab[r.tab].waits = r.id
       /\ tab' = [tab EXCEPT ![r.tab].waits = None,
                             ![r.tab].plan[r.kind] = IF ok /\ r.op \in {"plan", "apply"} THEN plan ELSE @]

-----------------------------------------------------------------------------
(* The daemon serves request r, under its lock. *)

Serves(r, op) == r.op = op /\ requests' = requests \ {r} /\ UNCHANGED <<revision, sent>>

Refuse(r) == Serves(r, r.op) /\ Answer(r, FALSE, 0) /\ UNCHANGED kept

\* PlanResource, PlanMigration, PlanDeployment: for the current revision.
Plan(r) ==
    /\ Serves(r, "plan") /\ r.argument = revision /\ Len(plans) < MaxPlans
    /\ plans' = Append(plans, [kind |-> r.kind, revision |-> revision])
    /\ Answer(r, TRUE, Len(plans')) /\ UNCHANGED <<receipts, running>>

Deployments(s) == {i \in DOMAIN s : s[i].kind = "deployment"}
Newest(is) == IF is = {} THEN 0 ELSE CHOOSE i \in is : \A j \in is : j <= i
latestDeployment == Newest({i \in Deployments(receipts) : receipts[i].state = "healthy"})
Receipt(r, state, previous, url) ==
    [kind |-> r.kind, plan |-> r.argument, at |-> revision, state |-> state, url |-> url,
     previous |-> previous, rolled_back |-> FALSE]

\* A server of the adapter replaces and shuts down the one before.
Starts(r, plan) == server' = [url |-> r.id, plan |-> plan] /\ active' = TRUE /\ UNCHANGED restarts

\* A deployment of a plan the workspace has moved on from.
ApplyStale(r) ==
    /\ Serves(r, "apply") /\ r.kind = "deployment" /\ Len(receipts) < MaxReceipts
    /\ receipts' = Append(receipts, Receipt(r, "healthy", latestDeployment, r.id))
    /\ Starts(r, r.argument) /\ doubt' = FALSE /\ Answer(r, TRUE, 0) /\ UNCHANGED plans
\* ApplyDeployment: the workspace is still the planned one.  A server that does not
\* answer its health check is shut down, and the outcome is unknown.  A receipt
\* that cannot be saved is lost, whatever runs by then.
ApplyDeployment(r) ==
    /\ Serves(r, "apply") /\ r.kind = "deployment" /\ Len(receipts) < MaxReceipts
    /\ plans[r.argument].revision = revision
    /\ \/ /\ Starts(r, r.argument)
          /\ \/ /\ receipts' = Append(receipts, Receipt(r, "healthy", latestDeployment, r.id))
                /\ doubt' = FALSE /\ Answer(r, TRUE, 0)
             \/ UNCHANGED receipts /\ doubt' = TRUE /\ Answer(r, FALSE, 0)
       \/ /\ receipts' \in {receipts, Append(receipts, Receipt(r, "outcome_unknown", latestDeployment, 0))}
          /\ \/ UNCHANGED running
             \/ server' = NoServer /\ active' = TRUE /\ doubt' = TRUE /\ UNCHANGED restarts
          /\ Answer(r, FALSE, 0)
    /\ UNCHANGED plans

\* ApplyMigration, for the planned workspace; ApplyResource, for any.  A failure
\* leaves no receipt.
ApplyData(r) ==
    /\ Serves(r, "apply") /\ r.kind \in {"migration", "resource"} /\ Len(receipts) < MaxReceipts
    /\ r.kind = "migration" => plans[r.argument].revision = revision
    /\ receipts' = Append(receipts, Receipt(r, IF r.kind = "migration" THEN "applied" ELSE "ready", 0, 0))
    /\ Answer(r, TRUE, 0) /\ UNCHANGED <<plans, running>>

\* RollbackMigration restores the backup, once.
RollbackMigration(r) ==
    /\ Serves(r, "rollback") /\ r.kind = "migration"
    /\ receipts' = [receipts EXCEPT ![r.argument].state = "rolled_back", ![r.argument].rolled_back = TRUE]
    /\ Answer(r, TRUE, 0) /\ UNCHANGED <<plans, running>>

\* The receipt after a reconciliation, saved or not.
Reconciled(r, ok, url) ==
    \/ /\ receipts' = [receipts EXCEPT ![r.argument].state = IF ok THEN "healthy" ELSE "failed",
                                       ![r.argument].url = url]
       /\ Answer(r, ok, 0)
    \/ UNCHANGED receipts /\ Answer(r, FALSE, 0)
\* A reconciliation that asks whichever server runs.
ReconcileActive(r) ==
    /\ Serves(r, "reconcile") /\ UNCHANGED <<plans, running>>
    /\ Reconciled(r, server /= NoServer, receipts[r.argument].url)
\* ReconcileDeployment asks the receipt's own server, which may have been replaced;
\* in a daemon that has started none yet, it starts the receipt's artifact.
ReconcileDeployment(r) ==
    /\ Serves(r, "reconcile") /\ UNCHANGED plans
    /\ \/ /\ active /\ UNCHANGED running
          /\ \E ok \in {FALSE, server /= NoServer /\ server.url = receipts[r.argument].url} :
               Reconciled(r, ok, receipts[r.argument].url)
       \/ ~active /\ UNCHANGED running /\ Reconciled(r, FALSE, receipts[r.argument].url)
       \/ /\ ~active /\ Starts(r, receipts[r.argument].plan) /\ doubt' = TRUE
          /\ \E ok \in BOOLEAN : Reconciled(r, ok, r.id)

\* RollbackDeployment starts the predecessor's artifact and records it as a
\* deployment of its own.  When its health check or the save fails it goes on
\* running, and nothing is recorded.
RollbackDeployment(r) ==
    LET current == receipts[r.argument] previous == receipts[current.previous] IN
    /\ Serves(r, "rollback") /\ r.kind = "deployment" /\ Len(receipts) < MaxReceipts
    /\ Starts(r, previous.plan)
    /\ \/ /\ receipts' = Append([receipts EXCEPT ![r.argument].state = "rolled_back",
                                                 ![r.argument].rolled_back = TRUE],
                                [previous EXCEPT !.previous = r.argument, !.state = "healthy", !.url = r.id])
          /\ doubt' = FALSE /\ Answer(r, TRUE, 0)
       \/ doubt' = TRUE /\ UNCHANGED receipts /\ Answer(r, FALSE, 0)
    /\ UNCHANGED plans

\* The daemon restarts: its servers end, and what was on the way is not answered.
Restart ==
    /\ restarts < MaxRestarts /\ restarts' = restarts + 1
    /\ server' = NoServer /\ active' = FALSE /\ doubt' = TRUE /\ requests' = {}
    /\ UNCHANGED <<revision, plans, receipts, sent, tab>>

\* What the two panels offer: plans, the reviewed plan, and the receipts listed.
DataPanel(t) ==
    \/ planResource(t) \/ applyResource(t) \/ planMigration(t) \/ applyMigration(t)
    \/ \E i \in DOMAIN receipts : rollbackMigration(t, i)
DeployPanel(t) ==
    \/ planDeployment(t) \/ applyDeployment(t)
    \/ \E i \in DOMAIN receipts : reconcile(t, i) \/ rollback(t, i)

DeliveryNext ==
    \/ Edit \/ Restart
    \/ \E t \in Tabs :
         Read(t) \/ Switch(t) \/ DataPanel(t) \/ DeployPanel(t)
    \/ \E r \in requests :
         \/ Refuse(r) \/ Plan(r) \/ ApplyDeployment(r) \/ ApplyData(r)
         \/ RollbackMigration(r) \/ ReconcileDeployment(r) \/ RollbackDeployment(r)

DeliverySpec == DeliveryInit /\ [][DeliveryNext]_deliveryVars

-----------------------------------------------------------------------------
\* Whatever the tabs press, lose or leave behind: what is applied is a plan of that
\* panel's kind; a deployment or a migration is applied only to the workspace its
\* plan was reviewed for; and a newest deployment that is healthy is the one being
\* served, unless servers came or went without a receipt since (ApplyDeployment,
\* ReconcileDeployment, RollbackDeployment and the requests of both panels).
DeliveryInv ==
    /\ revision \in 1 .. MaxRevision /\ (server /= NoServer => active)
    /\ \A t \in Tabs : tab[t].seen \in 1 .. revision /\ \A k \in Kinds : tab[t].plan[k] \in 0 .. Len(plans)
    /\ \A t \in Tabs : \A k \in Kinds : tab[t].plan[k] /= 0 =>
         plans[tab[t].plan[k]].kind = k /\ Panel(k) = tab[t].panel
    /\ \A i \in DOMAIN receipts :
         /\ plans[receipts[i].plan].kind = receipts[i].kind
         /\ receipts[i].kind /= "resource" => receipts[i].at = plans[receipts[i].plan].revision
    /\ LET i == Newest(Deployments(receipts)) IN
         i /= 0 /\ receipts[i].state = "healthy" /\ ~doubt => server.url = receipts[i].url

\* A receipt is written as healthy only when the server that runs serves the
\* artifact of that very receipt at its URL: not when another deployment, a rollback
\* or a restart has taken its place since (ReconcileDeployment, RollbackDeployment).
HealthyIsServed ==
    [][\A i \in DOMAIN receipts' :
         LET before == IF i \in DOMAIN receipts THEN receipts[i] ELSE None IN
         receipts'[i].state = "healthy" /\ (before = None \/ before.state /= "healthy" \/ before.url /= receipts'[i].url)
           => server' = [url |-> receipts'[i].url, plan |-> receipts'[i].plan]]_deliveryVars
=============================================================================
