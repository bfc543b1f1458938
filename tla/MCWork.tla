------------------------------- MODULE MCWork -------------------------------
(* Project work for TLC: the engineering supervisor, the portfolio its runs    *)
(* are about, the local service of a project, patches of its workspace, the    *)
(* alarms, or what the panels of the Studio do about a project: its plan, its  *)
(* changes, its verification and its delivery.  A behaviour is one of them.    *)
(* The service has two starts that may overlap and one other call at any time. *)
EXTENDS WorkSupervisor, WorkPortfolio, ProjectEditing, ProjectRuntime, TLC

CONSTANT NoSelection

VARIABLES part, now, documents, sweep, daemon, minted, created, attempts, interrupted, faults,
          place, panel, session, busy, flows, started, projects, sessions, prompts,
          proposals, activeProposal, open, workspace, shown, decisions, planRequests, planSent, decided,
          gitRevision, head, committed, index, tree, seenBy, git, listed, hunkDiff,
          gitRequests, mutation, gitJournal, effects, up, gitCrashes, gitEdits,
          verifiedRevision, manifest, run, waived, verifyTab,
          deliveredRevision, plans, receipts, server, active, doubt, restarts, deliveryRequests,
          deliverySent, deliveryTab

alarmVars == <<now, documents, sweep, daemon, minted, created, attempts, interrupted, faults>>
entryVars == <<place, panel, session, busy, flows, started, projects, sessions, prompts>>
planVars == <<proposals, activeProposal, open, workspace, shown, decisions, planRequests, planSent,
              decided>>
changesVars == <<gitRevision, head, committed, index, tree, seenBy, git, listed,
                 hunkDiff, gitRequests, mutation, gitJournal, effects, up, gitCrashes, gitEdits>>
verificationVars == <<verifiedRevision, manifest, run, waived, verifyTab>>
deliveryVars == <<deliveredRevision, plans, receipts, server, active, doubt, restarts,
                  deliveryRequests, deliverySent, deliveryTab>>

\* Item a writes f; b depends on a and writes g; c writes f, so that a and c conflict.
ThreeItems == <<"a", "b", "c">>
ThreeDependsOn == [i \in {"a", "b", "c"} |-> IF i = "b" THEN {"a"} ELSE {}]
ThreeReads == [i \in {"a", "b", "c"} |-> {}]
ThreeWrites == [i \in {"a", "b", "c"} |-> IF i = "b" THEN {"g"} ELSE {"f"}]

\* Two criteria, two planned items and the plans that split the criteria
\* differently; a recipe whose second and last stage has a human gate.
PlannedItem(i) == <<"planned", i>>
Planned(i, criteria, deps) == [criteria |-> criteria, deps |-> deps]
TwoPlans ==
    LET i == PlannedItem("i") j == PlannedItem("j") IN
    {[k \in {i, j} |-> IF k = i THEN Planned(i, {"x"}, {}) ELSE Planned(j, {"y"}, {i})],
     [k \in {i, j} |-> IF k = i THEN Planned(i, {"y"}, {j}) ELSE Planned(j, {"x", "y"}, {})]}

TwoGates == <<FALSE, TRUE>>

\* A patch of two files, one of them new, and a rename of the first to the second.
TwoFiles == {"p", "q"}
Image(p, q) == [path \in TwoFiles |-> IF path = "p" THEN p ELSE q]
TwoPatches == {[paths |-> TwoFiles, target |-> Image(2, 1)],
               [paths |-> TwoFiles, target |-> Image(0, 1)]}

\* Three alarms of one actor, two at a time, that may be scheduled under one key.
Alarm == INSTANCE Scheduler
    WITH Alarms <- 1 .. 3, Actors <- {"u"}, Keys <- {"k"}, NoKey <- "none",
         Delays <- {1}, MaxFailures <- 2, ClaimLease <- 1, Backoff <- 1, MaxBackoff <- 2,
         MaxAlarms <- 2, MaxTime <- 2, MaxFaults <- 1

\* Three prompts and project starts in flight at once.
Entry == INSTANCE StudioEntry
    WITH None <- NoSelection, Home <- 0, MaxFlows <- 3, MaxProjects <- 2, MaxSessions <- 2

\* Two proposals and three presses, by three clients.
Plan == INSTANCE StudioPlan
    WITH MaxProposals <- 2, MaxWorkspace <- 2, MaxRequests <- 3, active <- activeProposal,
         requests <- planRequests, sent <- planSent

\* A file that is already changed and that another writer changes once more, a command
\* on the way while another is carried out, two mutations and a crash.
Changes == INSTANCE StudioChanges
    WITH Paths <- {"p"}, None <- NoSelection, MaxContent <- 1, MaxRevision <- 3, MaxRequests <- 1,
         MaxEffects <- 2, MaxEdits <- 1, MaxCrashes <- 1, journal <- gitJournal, crashes <- gitCrashes,
         revision <- gitRevision, seen <- seenBy, files <- listed, requests <- gitRequests,
         edits <- gitEdits

\* Two tabs, and a manifest that may be derived again.
Verification == INSTANCE StudioVerification
    WITH Tabs <- {1, 2}, None <- NoSelection, MaxRevision <- 2, MaxManifests <- 2,
         revision <- verifiedRevision, tab <- verifyTab

\* Four requests by a tab that may leave them behind, enough to deploy, to roll back
\* and to reconcile what was replaced, and a restart.
Delivery == INSTANCE StudioDelivery
    WITH Tabs <- {1}, None <- NoSelection, MaxRevision <- 2, MaxPlans <- 3, MaxReceipts <- 4,
         MaxRequests <- 5, MaxData <- 4, MaxRestarts <- 1,
         revision <- deliveredRevision, requests <- deliveryRequests, sent <- deliverySent,
         tab <- deliveryTab

MCWorkInit ==
    /\ part \in {"supervisor", "portfolio", "runtime", "editing", "scheduler", "entry", "plan",
                "changes", "verification", "delivery"}
    /\ Init /\ PortfolioInit /\ RuntimeInit /\ Alarm!Init
    /\ files = Image(1, 0) /\ EditingInit
    /\ Entry!EntryInit /\ Plan!PlanInit /\ Changes!ChangesInit
    /\ Verification!VerificationInit /\ Delivery!DeliveryInit
    /\ part /= "delivery" => receipts = <<>>

\* Only this part moves.
Moves(p) ==
    /\ part = p /\ UNCHANGED part
    /\ p /= "supervisor" => UNCHANGED vars
    /\ p /= "portfolio" => UNCHANGED portfolioVars
    /\ p /= "runtime" => UNCHANGED runtimeVars
    /\ p /= "editing" => UNCHANGED editingVars
    /\ p /= "scheduler" => UNCHANGED alarmVars
    /\ p /= "entry" => UNCHANGED entryVars
    /\ p /= "plan" => UNCHANGED planVars
    /\ p /= "changes" => UNCHANGED changesVars
    /\ p /= "verification" => UNCHANGED verificationVars
    /\ p /= "delivery" => UNCHANGED deliveryVars

MCWorkNext ==
    \/ Moves("supervisor") /\ Next
    \/ Moves("portfolio") /\ PortfolioNext
    \/ Moves("runtime") /\ RuntimeNext
    \/ Moves("editing") /\ EditingNext
    \/ Moves("scheduler") /\ Alarm!Next
    \/ Moves("entry") /\ Entry!EntryNext
    \/ Moves("plan") /\ Plan!PlanNext
    \/ Moves("changes") /\ Changes!ChangesNext
    \/ Moves("verification") /\ Verification!VerificationNext
    \/ Moves("delivery") /\ Delivery!DeliveryNext

MCWorkSpec ==
    /\ MCWorkInit
    /\ [][MCWorkNext]_<<part, vars, portfolioVars, runtimeVars, editingVars, alarmVars, entryVars,
                       planVars, changesVars, verificationVars, deliveryVars>>

\* A one-time alarm has one occurrence, failed attempts are counted and bounded, a
\* key names one alarm (Schedule, claimNext, finish); an occurrence minted by a claim
\* is due, and later than every one before it (claimNext); cancelled, fired and
\* failed alarms stay as they are, and an alarm still due to fire is never dropped to
\* make room (finish, Cancel, Schedule).
AlarmsSafe == []Alarm!AlarmInv /\ Alarm!OccurrencesAdvance /\ Alarm!TerminalAlarmsStay

\* What the operator presses has the effect they had before them, once: a prompt goes
\* to the project and conversation it was written for (createProject, askToFix), a
\* proposal is decided once and applied only if accepted (DecideProposal,
\* ApplyProposal), and Git stages and commits the content that was shown, but for
\* files another writer overwrites after the comparison, and forgets no mutation
\* (applyGitMutation, reconcileGitMutations).
StudioSafe == Entry!EntryInv /\ Plan!PlanInv /\ Changes!ReviewedOnly

\* Runs and waivers are recorded only for the manifest that is current (Run,
\* PutWaiver); what is applied follows a plan that is still current; and a receipt is
\* marked healthy only for the server that runs its own artifact (ApplyMigration,
\* ApplyDeployment, ReconcileDeployment, RollbackDeployment).
DeliverySafe ==
    Verification!EvidenceIsCurrent /\ []Delivery!DeliveryInv /\ Delivery!HealthyIsServed
=============================================================================
