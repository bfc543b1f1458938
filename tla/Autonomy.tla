------------------------------ MODULE Autonomy ------------------------------
(* Background initiative: the settings and the proposals an operator decides on  *)
(* (AutonomyView and AutomatrixList, ui/web/src/routes/SubsystemRoutes.tsx), the *)
(* queue and its runner (internal/presence/automatrix) and the presence service  *)
(* that owns and persists them (internal/operatorapp/presence.go).  Proposals    *)
(* are numbered in the queue's order; each carries one action, as Capture makes  *)
(* them.                                                                          *)
EXTENDS Naturals, TLC

CONSTANTS Items, None, MaxRequests, MaxCrashes

VARIABLES settings, capturing, queue, owners, saved, held, cycle, runs,
          page, requests, sent, granted, dismissed, crashes

autonomyVars == <<settings, capturing, queue, owners, saved, held, cycle, runs,
                  page, requests, sent, granted, dismissed, crashes>>

\* queue: the proposals in memory, with whether a plan is approved for them.
\* held: the proposal the runner has taken out. cycle: what RunCycle has skipped
\* and run. saved: the presence state on disk.
Idle == [skipped |-> {}, ran |-> {}]
AutonomyInit ==
    /\ settings = [mode |-> "suggest", paused |-> FALSE]
    /\ capturing = {} /\ queue = <<>> /\ owners = {} /\ saved = [queue |-> <<>>, owners |-> {}]
    /\ held = None /\ cycle = Idle /\ runs = [i \in Items |-> 0]
    /\ page = [settings |-> settings, list |-> {}]
    /\ requests = {} /\ sent = 0 /\ granted = {} /\ dismissed = {} /\ crashes = 0

Enqueued(i, approved) == [j \in DOMAIN queue \union {i} |-> IF j = i THEN approved ELSE queue[j]]
Removed(i) == [j \in DOMAIN queue \ {i} |-> queue[j]]
Known == DOMAIN queue \union DOMAIN saved.queue \union dismissed \union {i \in Items : runs[i] > 0}
         \union (IF held = None THEN {} ELSE {held.item}) \union capturing \union owners
\* saveLocked, with the queue as Snapshot sees it.
Save(o) == owners' = o /\ saved' = [queue |-> queue, owners |-> o]

-----------------------------------------------------------------------------
\* A message with an opportunity in it: Capture queues the proposal and Submitted
\* then records whose it is.
Capture(i) ==
    /\ i \notin Known /\ queue' = Enqueued(i, FALSE) /\ capturing' = capturing \union {i}
    /\ UNCHANGED <<settings, owners, saved, held, cycle, runs, page, requests, sent, granted, dismissed, crashes>>
Submitted(i) ==
    /\ i \in capturing /\ capturing' = capturing \ {i} /\ Save(owners \union {i})
    /\ UNCHANGED <<settings, queue, held, cycle, runs, page, requests, sent, granted, dismissed, crashes>>

-----------------------------------------------------------------------------
\* The page: the settings are polled and the proposals listed; nothing checks
\* that either is what the server still has.
Read ==
    /\ page' = [settings |-> settings, list |-> DOMAIN queue \intersect owners] /\ page' /= page
    /\ UNCHANGED <<settings, capturing, queue, owners, saved, held, cycle, runs, requests, sent, granted, dismissed, crashes>>
Press(r) ==
    /\ sent < MaxRequests /\ sent' = sent + 1
    /\ requests' = requests \union {r @@ [id |-> sent', stage |-> "out"]}
    /\ UNCHANGED <<settings, capturing, queue, owners, saved, held, cycle, runs, page, dismissed, crashes>>
update(mode, paused) == Press([op |-> "update", item |-> None, mode |-> mode, paused |-> paused]) /\ UNCHANGED granted
AutonomyView ==
    \/ \E mode \in {"suggest", "approved", "off"} : update(mode, FALSE)
    \/ update(page.settings.mode, ~page.settings.paused)
decide(i, op) ==
    /\ i \in page.list
    /\ Press([op |-> op, item |-> i, mode |-> None, paused |-> FALSE])
    /\ granted' = IF op = "approve" THEN granted \union {i} ELSE granted

\* The server's side of a request.
At(r, stage) == requests' = (requests \ {r}) \union {[r EXCEPT !.stage = stage]}
UpdateAutonomy(r) ==
    /\ r.op = "update" /\ settings' = [mode |-> r.mode, paused |-> r.paused] /\ requests' = requests \ {r}
    /\ UNCHANGED <<capturing, queue, owners, saved, held, cycle, runs, page, sent, granted, dismissed, crashes>>
MayRun == settings = [mode |-> "approved", paused |-> FALSE]
ApproveAutomatrix(r) ==
    /\ r.op = "approve" /\ r.stage = "out" /\ MayRun /\ r.item \in owners /\ At(r, "checked")
    /\ UNCHANGED <<settings, capturing, queue, owners, saved, held, cycle, runs, page, sent, granted, dismissed, crashes>>
Approve(r) ==
    /\ r.op = "approve" /\ r.stage = "checked" /\ r.item \in DOMAIN queue
    /\ queue' = Enqueued(r.item, TRUE) /\ At(r, "stored")
    /\ UNCHANGED <<settings, capturing, owners, saved, held, cycle, runs, page, sent, granted, dismissed, crashes>>
Reject(r) ==
    /\ r.op = "reject" /\ r.stage = "out" /\ r.item \in owners /\ r.item \in DOMAIN queue
    /\ queue' = Removed(r.item) /\ At(r, "stored")
    /\ UNCHANGED <<settings, capturing, owners, saved, held, cycle, runs, page, sent, granted, dismissed, crashes>>
\* The decision is saved and the answer makes the page read the list again.
Decided(r) ==
    /\ r.stage = "stored" /\ Save(IF r.op = "reject" THEN owners \ {r.item} ELSE owners)
    /\ dismissed' = IF r.op = "reject" THEN dismissed \union {r.item} ELSE dismissed
    /\ page' = [page EXCEPT !.list = DOMAIN queue \intersect owners'] /\ requests' = requests \ {r}
    /\ UNCHANGED <<settings, capturing, queue, held, cycle, runs, sent, granted, crashes>>
Refuse(r) ==
    /\ r.stage /= "stored" /\ requests' = requests \ {r}
    /\ UNCHANGED <<settings, capturing, queue, owners, saved, held, cycle, runs, page, sent, granted, dismissed, crashes>>

-----------------------------------------------------------------------------
\* RunCycle: the first proposal it has not skipped is taken out of the queue.
dequeueExcluding ==
    /\ held = None /\ DOMAIN queue \ cycle.skipped /= {}
    /\ LET i == CHOOSE j \in DOMAIN queue \ cycle.skipped : \A k \in DOMAIN queue \ cycle.skipped : j <= k
       IN  held' = [item |-> i, approved |-> queue[i], begun |-> FALSE] /\ queue' = Removed(i)
    /\ UNCHANGED <<settings, capturing, owners, saved, cycle, runs, page, requests, sent, granted, dismissed, crashes>>
\* runAutomatrix after a cycle that ran something: proposals that are gone lose
\* their owner, and the state is saved.
Report(q) ==
    IF cycle.ran = {} THEN UNCHANGED <<owners, saved>>
    ELSE owners' = owners \ (cycle.ran \ DOMAIN q) /\ saved' = [queue |-> q, owners |-> owners']
Drained ==
    /\ held = None /\ DOMAIN queue \subseteq cycle.skipped /\ cycle /= Idle
    /\ cycle' = Idle /\ Report(queue)
    /\ UNCHANGED <<settings, capturing, queue, held, runs, page, requests, sent, granted, dismissed, crashes>>
\* An unapproved proposal goes back, and ends the cycle.
KeepProposal ==
    /\ held /= None /\ ~held.approved /\ held' = None
    /\ queue' = Enqueued(held.item, FALSE) /\ cycle' = Idle /\ Report(queue')
    /\ UNCHANGED <<settings, capturing, runs, page, requests, sent, granted, dismissed, crashes>>
\* automatrixExecutionBudget, asked once per proposal; it refuses when the settings
\* do, and until the cooldown after the last result is over.
NotAllowed ==
    /\ held /= None /\ held.approved /\ ~held.begun
    /\ queue' = Enqueued(held.item, TRUE) /\ held' = None
    /\ cycle' = [cycle EXCEPT !.skipped = @ \union {held.item}]
    /\ UNCHANGED <<settings, capturing, owners, saved, runs, page, requests, sent, granted, dismissed, crashes>>
GuardFails ==
    /\ held /= None /\ held.approved /\ ~held.begun
    /\ queue' = Enqueued(held.item, TRUE) /\ held' = None /\ cycle' = Idle
    /\ UNCHANGED <<settings, capturing, owners, saved, runs, page, requests, sent, granted, dismissed, crashes>>
\* A proposal runs without its approval being looked at.
AllowProposals ==
    /\ held /= None /\ ~held.begun /\ MayRun /\ held' = [held EXCEPT !.begun = TRUE]
    /\ UNCHANGED <<settings, capturing, queue, owners, saved, cycle, runs, page, requests, sent, granted, dismissed, crashes>>
Allowed ==
    /\ held /= None /\ held.approved /\ ~held.begun /\ MayRun /\ held' = [held EXCEPT !.begun = TRUE]
    /\ UNCHANGED <<settings, capturing, queue, owners, saved, cycle, runs, page, requests, sent, granted, dismissed, crashes>>
\* The plan's actions, as one; what a budget leaves over is the same plan's rest.
execute ==
    /\ held /= None /\ held.begun /\ held' = None
    /\ runs' = [runs EXCEPT ![held.item] = @ + 1] /\ cycle' = [cycle EXCEPT !.ran = @ \union {held.item}]
    /\ UNCHANGED <<settings, capturing, queue, owners, saved, page, requests, sent, granted, dismissed, crashes>>

\* The daemon dies, and restores the queue it last saved.
Crash ==
    /\ crashes < MaxCrashes /\ crashes' = crashes + 1
    /\ queue' = saved.queue /\ owners' = saved.owners /\ held' = None /\ cycle' = Idle /\ requests' = {} /\ capturing' = {}
    /\ UNCHANGED <<settings, saved, runs, page, sent, granted, dismissed>>

AutonomyNext ==
    \/ Read \/ AutonomyView \/ dequeueExcluding \/ Drained \/ KeepProposal
    \/ NotAllowed \/ GuardFails \/ Allowed \/ execute \/ Crash
    \/ \E i \in Items : Capture(i) \/ Submitted(i) \/ \E op \in {"approve", "reject"} : decide(i, op)
    \/ \E r \in requests : \/ UpdateAutonomy(r) \/ ApproveAutomatrix(r) \/ Approve(r)
                           \/ Reject(r) \/ Decided(r) \/ Refuse(r)

AutonomySpec == AutonomyInit /\ [][AutonomyNext]_autonomyVars

-----------------------------------------------------------------------------
\* Nothing runs in the background that the operator did not approve by name, and no
\* plan runs twice unless the daemon died in between; a dismissal once answered is
\* final, in memory, in the runner's hands and after a restart; and once autonomy is
\* off or paused only the item already past its guard still runs (RunCycle,
\* RejectAutomatrix, runAutomatrix, automatrixExecutionBudget).
AutonomySafe ==
    /\ [](\A i \in Items : runs[i] <= 1 + crashes /\ (runs[i] > 0 => i \in granted))
    /\ [](\A i \in dismissed : i \notin DOMAIN queue \union DOMAIN saved.queue /\ (held = None \/ held.item /= i))
    /\ [][~MayRun /\ (held = None \/ ~held.begun) => runs' = runs /\ (held' = None \/ ~held'.begun)]_autonomyVars
=============================================================================
