--------------------------- MODULE WorkSupervisor ---------------------------
(***************************************************************************)
(* The engineering supervisor of one actor (internal/work/supervisor.go).  *)
(*                                                                         *)
(* A run turns the unfinished work items of a contract into specialist     *)
(* tasks, dispatches each ready task to a worker goroutine as an attempt,  *)
(* and records what the attempt returns.  Every handler holds the service  *)
(* mutex, loads the document, changes it and saves it, so a handler is one *)
(* step; only Start reads the portfolio before it takes the mutex.         *)
(*                                                                         *)
(* Budgets have one consumable dimension (tokens, cost, calls, seconds and *)
(* the rest are compared in the same way) and the retry dimension, which   *)
(* the supervisor itself counts.                                           *)
(***************************************************************************)
EXTENDS Integers, Sequences, FiniteSets, FiniteSetsExt

CONSTANTS
    Contracts,
    ItemOrder,      \* the work items of every contract, in Packet.ID order
    DependsOn,      \* DependsOn[i]: the items that item i waits for
    Reads, Writes,  \* Reads[i], Writes[i]: files and services in the scope of i
    External,       \* items whose scope allows external effects
    Usages,         \* what a worker may report to have used
    MaxParallel, Share, Limit, ProjectLimit, MaxRetries,   \* budgets
    OneProject,     \* whether the runs belong to the same project
    MayFail,        \* the saves that may fail: the handler's own ("first"), the
                    \* one of a dispatched item, scheduleLocked's trailing "last"
    MaxRuns, MaxCrashes, FailUntil                         \* bounds

Items == {ItemOrder[k] : k \in 1..Len(ItemOrder)}
Runs == 1..MaxRuns

ASSUME SupervisorConfig ==
    /\ ItemOrder \in Seq(Items)
    /\ Usages \subseteq Nat /\ Share \in Nat /\ MaxRetries \in Nat

VARIABLES
    runs,           \* the durable document: a sequence of runs
    running,        \* service.running: attempts this process can cancel
    executing,      \* attempts whose executor.Execute has not returned
    attested,       \* attempts that verified artifacts for all their criteria
    completed,      \* contracts completed in the portfolio
    starting,       \* what a Start in progress has read from the portfolio
    crashes         \* how often the daemon has died

vars == <<runs, running, executing, attested, completed, starting, crashes>>

RunStatus == {"queued", "working", "waiting", "blocked", "paused", "cancelled",
              "completed", "outcome_unknown"}
TaskStatus == {"pending", "ready", "running", "waiting_evidence", "retrying", "blocked",
               "cancelled", "completed", "outcome_unknown"}

\* An attempt is a run, an item and the attempt's number.
Attempts(rs) == {a \in (1..Len(rs)) \X Items \X (Nat \ {0}) :
                    a[2] \in DOMAIN rs[a[1]].task /\ a[3] <= Len(rs[a[1]].attempts[a[2]])}
Status(rs, a) == rs[a[1]].attempts[a[2]][a[3]]

\* What a worker may return.  The limits of the worker's own budget are enforced
\* only after it returns, so it may report more than its share.
Outcomes == [result : {"completed", "unaccounted", "error", "uncertain_error",
                       "outcome_unknown", "inconclusive"},
             usage : Usages]

NoStart == [contract |-> "none", items |-> {}, ready |-> {}]

\* The portfolio's view: work items whose criteria verified artifacts cover.
Covered(c) == {i \in Items : \E a \in attested : a[2] = i /\ runs[a[1]].contract = c}

supervisorTerminal(status) == status \in {"cancelled", "completed"}

-----------------------------------------------------------------------------
(* Budgets *)

MaxOf(x, y) == IF x > y THEN x ELSE y
RunningTasks(run) == {i \in DOMAIN run.task : run.task[i] = "running"}

budgetExceeded(run) == run.usage > Limit \/ run.retries > MaxRetries

projectedSupervisorUsage(run) == run.usage + Share * Cardinality(RunningTasks(run))

\* Runs of the same project count with what they used or are projected to use.
SameProject(rs, r) == IF OneProject THEN 1..Len(rs) ELSE {r}
refreshProjectUsage(rs, r) ==
    [usage   |-> MapThenSumSet(LAMBDA k : MaxOf(rs[k].usage, rs[k].projection),
                               SameProject(rs, r)),
     retries |-> MapThenSumSet(LAMBDA k : rs[k].retries, SameProject(rs, r))]

projectBudgetAtCapacity(p) ==
    p.usage >= ProjectLimit \/ (MaxRetries > 0 /\ p.retries >= MaxRetries)

-----------------------------------------------------------------------------
(* Scheduling *)

\* A dependency counts only when it is a completed task of the same run.
supervisorDependenciesComplete(run, i) ==
    \A d \in DependsOn[i] : d \in DOMAIN run.task /\ run.task[d] = "completed"

\* Two scopes conflict on a file or service that one of them writes.
Conflict(i, j) ==
    Writes[i] \cap (Reads[j] \cup Writes[j]) # {} \/ Reads[i] \cap Writes[j] # {}

\* Mutant: leases are recorded but not compared.
LeasesIgnored(run, i) == TRUE

\* Leases live in the run, so only tasks of the same run conflict.  One that has run
\* out no longer counts, and is no longer in run.leases here (LeaseExpires).
acquireTaskLeases(run, i) == \A held \in run.leases \ {i} : ~Conflict(held, i)

\* Mutant: the leases of a finished task stay.
LeasesKept(leases, i) == leases

\* Mutant: the end of one task releases the leases of all.
LeasesDropped(leases, i) == {}

releaseTaskLeases(leases, i) == leases \ {i}

refreshSupervisorReady(run) ==
    [run EXCEPT !.task = [i \in DOMAIN run.task |->
        IF run.task[i] = "pending" /\ supervisorDependenciesComplete(run, i)
        THEN "ready" ELSE run.task[i]]]

finalStatus(run) ==
    LET Some(S) == \E i \in DOMAIN run.task : run.task[i] \in S
    IN  IF Some({"outcome_unknown"}) THEN "outcome_unknown"
        ELSE IF budgetExceeded(run) THEN "paused"
        ELSE IF \A i \in DOMAIN run.task : run.task[i] = "completed" THEN "completed"
        ELSE IF Some({"running", "ready", "retrying"}) THEN "working"
        ELSE IF Some({"blocked", "waiting_evidence"}) THEN "blocked"
        ELSE "waiting"
finalizeSupervisorRun(run) == [run EXCEPT !.status = finalStatus(run)]

\* The conditions of scheduleLocked's loop for one task.
mayDispatch(rs, r, i) ==
    /\ Cardinality(RunningTasks(rs[r])) < MaxParallel
    /\ ~budgetExceeded(rs[r])
    /\ ~projectBudgetAtCapacity(refreshProjectUsage(rs, r))
    /\ i \in DOMAIN rs[r].task /\ rs[r].task[i] = "ready"
    /\ supervisorDependenciesComplete(rs[r], i)
    /\ acquireTaskLeases(rs[r], i)

Dispatched(run, i) ==
    LET on == [run EXCEPT !.leases = @ \cup {i}, !.status = "working",
                          !.task[i] = "running",
                          !.attempts[i] = Append(@, "running")]
    IN  [on EXCEPT !.projection = projectedSupervisorUsage(on)]

TakenBack(run, i) ==
    [run EXCEPT !.task[i] = "ready", !.leases = releaseTaskLeases(@, i)]

\* The outcomes of a save.  Bound: no save fails once a task has more than FailUntil
\* attempts, which failing saves could otherwise repeat without end.
Saves(point) ==
    IF /\ point \in MayFail
       /\ \A r \in 1..Len(runs) : \A i \in DOMAIN runs[r].task : Len(runs[r].attempts[i]) <= FailUntil
    THEN {TRUE, FALSE} ELSE {TRUE}

\* One round of scheduleLocked's loop, as the set of its outcomes.  acc.mem is the
\* document in memory, acc.disk the one last saved.  When the save of a dispatch
\* fails, the task is ready again but its attempt stays in the document in memory.
DispatchRound(acc, r, i) ==
    IF ~mayDispatch(acc.mem, r, i) THEN {acc}
    ELSE LET run == Dispatched(acc.mem[r], i)
             mem == [acc.mem EXCEPT ![r] = run]
         IN  {IF ok THEN [mem |-> mem, disk |-> mem,
                          started |-> acc.started \cup {<<r, i, Len(run.attempts[i])>>}]
              ELSE [acc EXCEPT !.mem[r] = TakenBack(run, i)]
              : ok \in Saves(i)}

\* The last lines of scheduleLocked, whose save may fail unnoticed.
Scheduled(run) ==
    [run EXCEPT !.projection = projectedSupervisorUsage(run),
                !.status = IF RunningTasks(run) = {} /\ @ = "queued" THEN "waiting" ELSE @]
ScheduleEnd(acc, r) ==
    LET mem == [acc.mem EXCEPT ![r] = Scheduled(@)]
    IN  {[acc EXCEPT !.mem = mem, !.disk = IF ok THEN mem ELSE @] : ok \in Saves("last")}

\* The situations after k rounds of the loop, from one of those in accs.
Rounds(accs, r) ==
    LET after[k \in 0..Len(ItemOrder)] ==
            IF k = 0 THEN accs
            ELSE UNION {DispatchRound(acc, r, ItemOrder[k]) : acc \in after[k - 1]}
    IN  after

\* Everything scheduleLocked may do from one of the situations in accs.
scheduleLocked(accs, r) ==
    UNION {ScheduleEnd(acc, r) : acc \in Rounds(accs, r)[Len(ItemOrder)]}

Saved(rs) == [mem |-> rs, disk |-> rs, started |-> {}]

-----------------------------------------------------------------------------
(* Handlers *)

Init ==
    /\ runs = <<>>
    /\ running = {} /\ executing = {} /\ attested = {}
    /\ completed = {}
    /\ starting = NoStart
    /\ crashes = 0

\* The first half of Start, without the mutex: the contract is active and has
\* unfinished items, some of which the portfolio calls ready.
StartRead(c) ==
    /\ starting = NoStart /\ Len(runs) < MaxRuns
    /\ c \notin completed /\ Items \ Covered(c) # {}
    /\ starting' = [contract |-> c, items |-> Items \ Covered(c),
                    ready |-> {i \in Items \ Covered(c) : DependsOn[i] \subseteq Covered(c)}]
    /\ UNCHANGED <<runs, running, executing, attested, completed, crashes>>

NewRun(s) ==
    [contract |-> s.contract, status |-> "queued",
     task |-> [i \in s.items |-> IF i \in s.ready THEN "ready" ELSE "pending"],
     attempts |-> [i \in s.items |-> <<>>],
     leases |-> {}, usage |-> 0, projection |-> 0, retries |-> 0]

\* The document after a handler scheduled, and the workers it started.
Commit(acc) ==
    /\ runs' = acc.disk
    /\ running' = running \cup acc.started
    /\ executing' = executing \cup acc.started

\* Mutant: Start trusts what it read before it took the mutex.
NeverRefused == FALSE

\* The second half of Start: refused when the contract has a live run.
StartRefused ==
    \E r \in 1..Len(runs) : /\ runs[r].contract = starting.contract
                           /\ ~supervisorTerminal(runs[r].status)

Start ==
    /\ starting # NoStart
    /\ starting' = NoStart
    /\ \/ /\ StartRefused \/ FALSE \in Saves("first")
          /\ UNCHANGED <<runs, running, executing>>
       \/ /\ ~StartRefused
          /\ \E acc \in scheduleLocked({Saved(Append(runs, NewRun(starting)))}, Len(runs) + 1) :
                Commit(acc)
    /\ UNCHANGED <<attested, completed, crashes>>

\* Running tasks of a live run whose attempt this process does not know.
Lost(rs, r) ==
    {i \in RunningTasks(rs[r]) : <<r, i, Len(rs[r].attempts[i])>> \notin running}

\* Mutant: a lost attempt is always safe to repeat.
AssumedSafe(i) == "ready"

\* Attempts carry no effects before they finish, so what makes a lost attempt
\* uncertain is the scope of its task.
AfterLoss(i) == IF i \in External THEN "outcome_unknown" ELSE "ready"

\* All leases of the run are dropped, those of tasks that still run included.
Reconciled(run, lost) ==
    [run EXCEPT !.leases = {},
                !.status = IF \E i \in lost : AfterLoss(i) = "outcome_unknown"
                           THEN "outcome_unknown" ELSE @,
                !.task = [i \in DOMAIN run.task |->
                    IF i \in lost THEN AfterLoss(i) ELSE run.task[i]],
                !.attempts = [i \in DOMAIN run.attempts |->
                    IF i \in lost THEN [run.attempts[i] EXCEPT ![Len(run.attempts[i])] = "retrying"]
                    ELSE run.attempts[i]]]

\* The loop over the runs it is called for; each changes on its own.
reconcileRestart(only) ==
    [r \in 1..Len(runs) |->
        IF r \notin only \/ supervisorTerminal(runs[r].status) \/ Lost(runs, r) = {} THEN runs[r]
        ELSE Reconciled(runs[r], Lost(runs, r))]

\* Get (one run) and List (all of them): reconcile, save if anything changed, and
\* then schedule every run that is neither terminal nor of unknown outcome.
Visits(fixed, only) ==
    LET after[r \in 0..Len(fixed)] ==
            IF r = 0 THEN {Saved(fixed)}
            ELSE IF r \notin only \/ supervisorTerminal(fixed[r].status)
                    \/ fixed[r].status = "outcome_unknown"
            THEN after[r - 1] ELSE scheduleLocked(after[r - 1], r)
    IN  after

Inspect(only) ==
    /\ \E r \in only : ~supervisorTerminal(runs[r].status) /\ Lost(runs, r) # {}
    /\ \E fixed \in {reconcileRestart(only)} :
         \E acc \in Visits(fixed, only)[Len(runs)] : Commit(acc)
    /\ UNCHANGED <<attested, completed, starting, crashes>>

\* A worker records and verifies artifacts for all criteria of its packet.
VerifyArtifacts(a) ==
    /\ a \in executing \ attested
    /\ attested' = attested \cup {a}
    /\ UNCHANGED <<runs, running, executing, completed, starting, crashes>>

specialistBudgetExceeded(o) == o.usage > Share

\* The artifacts this attempt verified cover every criterion of its packet.
workerResultHasVerifiedEvidence(a) == a \in attested

\* The task's status after an attempt returned; "retry" stands for ready again.
Verdict(run, i, o, verified) ==
    CASE specialistBudgetExceeded(o) \/ o.result = "unaccounted" -> "blocked"
      [] ~specialistBudgetExceeded(o) /\ o.result = "error" ->
           IF Len(run.attempts[i]) <= MaxRetries /\ ~budgetExceeded(run)
           THEN "retry" ELSE "blocked"
      [] ~specialistBudgetExceeded(o) /\ o.result = "uncertain_error" -> "blocked"
      [] ~specialistBudgetExceeded(o) /\ o.result = "outcome_unknown" -> "outcome_unknown"
      [] ~specialistBudgetExceeded(o) /\ o.result = "completed" ->
           IF verified THEN "completed" ELSE "waiting_evidence"
      [] ~specialistBudgetExceeded(o) /\ o.result = "inconclusive" -> "waiting_evidence"

\* Usage is charged and leases are released first, whatever the verdict.
Recorded(run, i, n, o, verified) ==
    LET charged == [run EXCEPT !.usage = @ + o.usage, !.leases = releaseTaskLeases(@, i)]
        verdict == Verdict(charged, i, o, verified)
        noted == [charged EXCEPT
                    !.task[i] = IF verdict = "retry" THEN "ready" ELSE verdict,
                    !.attempts[i][n] = IF verdict = "retry" THEN "retrying" ELSE verdict,
                    !.retries = IF verdict = "retry" THEN @ + 1 ELSE @]
    IN  finalizeSupervisorRun(refreshSupervisorReady(noted))

\* A run whose tasks are all completed completes its contract; when that fails,
\* the task that just finished waits for evidence again.
Unfinished(run, i, n) ==
    finalizeSupervisorRun([run EXCEPT !.task[i] = "waiting_evidence",
                                      !.attempts[i][n] = "waiting_evidence"])

\* A task over its budget, or whose cost is unknown, pauses the run.
Settled(run, o) ==
    LET paused == IF specialistBudgetExceeded(o) \/ o.result = "unaccounted"
                  THEN [run EXCEPT !.status = "paused"] ELSE run
    IN  [paused EXCEPT !.projection = projectedSupervisorUsage(paused)]

\* What finishAttempt makes of the run, before it saves.
Finished(a, o, contractCompletes) ==
    LET done == Recorded(runs[a[1]], a[2], a[3], o, workerResultHasVerifiedEvidence(a))
    IN  Settled(IF done.status = "completed" /\ ~contractCompletes
                THEN Unfinished(done, a[2], a[3]) ELSE done, o)

Current(a) == Status(runs, a) = "running"

\* Mutant: finishing an attempt never looks for more work.
AlwaysIdle(run) == TRUE

Idle(run) == run.status \in {"cancelled", "completed", "paused", "outcome_unknown"}

\* executor.Execute returns and finishAttempt runs.  The contract is completed in
\* the portfolio before the supervisor's own document is saved.
finishAttempt(a, o, contractCompletes) ==
    /\ a \in executing /\ Current(a)
    /\ \E run \in {Finished(a, o, contractCompletes)}, ok \in Saves("first") :
         LET rs == [runs EXCEPT ![a[1]] = run]
             ends == IF ~ok THEN {Saved(runs)}
                     ELSE IF Idle(run) THEN {Saved(rs)} ELSE scheduleLocked({Saved(rs)}, a[1])
         IN  /\ contractCompletes => run.status = "completed" /\ Items = Covered(run.contract)
             /\ \E acc \in ends :
                  /\ runs' = acc.disk
                  /\ running' = (running \ {a}) \cup acc.started
                  /\ executing' = (executing \ {a}) \cup acc.started
             /\ completed' = IF contractCompletes THEN completed \cup {run.contract} ELSE completed
    /\ UNCHANGED <<attested, starting, crashes>>

\* The attempt was cancelled or given up meanwhile: its result is dropped.
finishStaleAttempt(a) ==
    /\ a \in executing /\ ~Current(a)
    /\ running' = running \ {a} /\ executing' = executing \ {a}
    /\ UNCHANGED <<runs, attested, completed, starting, crashes>>

\* Workers of the run are cancelled and forgotten before the document is saved.
Cancelled(run) ==
    [run EXCEPT !.status = "cancelled", !.leases = {}, !.projection = run.usage,
       !.task = [i \in DOMAIN run.task |->
           IF run.task[i] = "completed" THEN "completed" ELSE "cancelled"],
       !.attempts = [i \in DOMAIN run.attempts |->
           IF run.task[i] = "running"
           THEN [run.attempts[i] EXCEPT ![Len(run.attempts[i])] = "cancelled"]
           ELSE run.attempts[i]]]

Cancel(r) ==
    /\ ~supervisorTerminal(runs[r].status)
    /\ running' = {a \in running : a[1] # r}
    /\ \E ok \in Saves("first") :
         runs' = IF ok THEN [runs EXCEPT ![r] = Cancelled(@)] ELSE runs
    /\ UNCHANGED <<executing, attested, completed, starting, crashes>>

\* A lease lasts an hour; the wall-clock limit of an attempt has no upper bound, so
\* a task may outlive its lease.
LeaseExpires(r, i) ==
    /\ i \in RunningTasks(runs[r]) \cap runs[r].leases
    /\ runs' = [runs EXCEPT ![r].leases = @ \ {i}]
    /\ UNCHANGED <<running, executing, attested, completed, starting, crashes>>

Crash ==
    /\ crashes < MaxCrashes
    /\ crashes' = crashes + 1
    /\ running' = {} /\ executing' = {} /\ starting' = NoStart
    /\ UNCHANGED <<runs, attested, completed>>

Next ==
    \/ \E c \in Contracts : StartRead(c)
    \/ Start
    \/ \E only \in {{r} : r \in 1..Len(runs)} \cup {1..Len(runs)} : Inspect(only)
    \/ \E a \in executing : VerifyArtifacts(a)
    \/ \E a \in executing, o \in Outcomes, ok \in BOOLEAN : finishAttempt(a, o, ok)
    \/ \E a \in executing : finishStaleAttempt(a)
    \/ \E r \in 1..Len(runs) : Cancel(r)
    \/ \E r \in 1..Len(runs), i \in Items : LeaseExpires(r, i)
    \/ Crash

Spec == Init /\ [][Next]_vars

\* A Start in progress takes the mutex, and clients that show the runs keep reading
\* them.  Workers have a wall-clock limit, so every attempt returns; finishAttempt or
\* finishStaleAttempt is enabled as long as it has not.
SupervisorFairness ==
    /\ WF_vars(Start)
    /\ WF_vars(Inspect(1..Len(runs)))
    /\ \A r \in Runs, i \in Items, n \in 1..4 : []<>(<<r, i, n>> \notin executing)

FairSpec == Spec /\ SupervisorFairness

-----------------------------------------------------------------------------
(* Properties *)

\* Types of the document and of the process state.
TypeOK ==
    /\ \A r \in 1..Len(runs) :
         LET run == runs[r] IN
         /\ run.contract \in Contracts /\ run.status \in RunStatus
         /\ run.task \in [DOMAIN run.task -> TaskStatus] /\ DOMAIN run.task \subseteq Items
         /\ \A i \in DOMAIN run.task : run.attempts[i] \in Seq(TaskStatus)
         /\ run.leases \subseteq DOMAIN run.task
         /\ run.usage \in Nat /\ run.projection \in Nat /\ run.retries \in 0..(MaxRetries + 1)
    /\ running \cup executing \cup attested \subseteq Attempts(runs)
    /\ completed \subseteq Contracts

\* Two tasks of one run that run under leases never have conflicting scopes.  What
\* may take the lease of a task that runs is said by LeasesLast.
ConflictingTasksAlternate ==
    \A r \in 1..Len(runs) : \A i, j \in RunningTasks(runs[r]) \cap runs[r].leases :
        i # j => ~Conflict(i, j)

\* A task runs only after all its dependencies completed with evidence.
DependenciesFirst ==
    \A r \in 1..Len(runs) : \A i \in RunningTasks(runs[r]) :
        \A d \in DependsOn[i] : d \in Covered(runs[r].contract)

\* No orphan work: a worker that this process can still cancel is the last attempt
\* of a running task, and no task has two workers at once.
NoOrphanWorker ==
    /\ \A a \in running : /\ Status(runs, a) = "running"
                         /\ a[3] = Len(runs[a[1]].attempts[a[2]])
                         /\ runs[a[1]].task[a[2]] = "running"
    /\ \A a, b \in running : a[1] = b[1] /\ a[2] = b[2] => a = b

\* A completed run has a completed contract, and verified artifacts behind every
\* task: no run is completed by what its workers claim.
CompletionIsVerified ==
    \A r \in 1..Len(runs) : runs[r].status = "completed" =>
        /\ runs[r].contract \in completed
        /\ DOMAIN runs[r].task \subseteq Covered(runs[r].contract)

\* A contract never has two live runs, although Start reads the portfolio before it
\* takes the mutex.
OneLiveRunPerContract ==
    \A r, q \in 1..Len(runs) :
        /\ r # q /\ runs[r].contract = runs[q].contract
        => supervisorTerminal(runs[r].status) \/ supervisorTerminal(runs[q].status)

\* A cancelled or completed run is never touched again: late results of its
\* workers, inspections and restarts leave it as it is.
TerminalRunsAreFinal ==
    [][\A r \in 1..Len(runs) : supervisorTerminal(runs[r].status) => runs'[r] = runs[r]]_vars

\* A task with external effects whose worker did not return, because the daemon died
\* or its result could not be saved, is not attempted again, and one of unknown
\* outcome stays so until the run is cancelled.
LostEffectsAreNotRetried ==
    [][\A r \in 1..Len(runs) : \A i \in DOMAIN runs[r].task :
         /\ /\ i \in External /\ runs[r].task[i] = "running"
            /\ <<r, i, Len(runs[r].attempts[i])>> \notin executing
            => /\ Len(runs'[r].attempts[i]) = Len(runs[r].attempts[i])
               /\ runs'[r].task[i] \in {"running", "outcome_unknown", "cancelled"}
         /\ runs[r].task[i] = "outcome_unknown" =>
               runs'[r].task[i] \in {"outcome_unknown", "cancelled"}]_vars

\* A task that goes on running keeps its lease until it runs out, or until the run is
\* reconciled because the process lost one of its attempts: a crash, or a save that
\* failed after a worker was forgotten.
LeasesLast ==
    [][\A r \in 1..Len(runs) : \A i \in runs[r].leases :
         \/ i \in runs'[r].leases
         \/ runs'[r].task[i] # "running" \/ Lost(runs, r) # {} \/ LeaseExpires(r, i)]_vars

\* A run that says it is queued or working has a worker, or comes to say something
\* else ("continue until verified completion, a required decision, an exhausted
\* bound, or an honest blocker").
WorkingMeansProgress ==
    \A r \in Runs :
        []<>(r \in 1..Len(runs) =>
                \/ runs[r].status \notin {"queued", "working"}
                \/ \E a \in running : a[1] = r)

\* Work whose dependencies the portfolio has verified is dispatched, or the run
\* reaches a state that explains why it is not.
ReadyWorkIsDispatched ==
    \A r \in Runs, i \in Items :
        []<>(r \in 1..Len(runs) /\ i \in DOMAIN runs[r].task =>
                ~(/\ runs[r].task[i] = "ready"
                  /\ runs[r].status \in {"queued", "waiting", "working"}
                  /\ DependsOn[i] \subseteq Covered(runs[r].contract)
                  /\ {a \in running : a[1] = r} = {}))

\* What scheduling, results, reconciliation and restarts keep in every run.
RunInv ==
    /\ TypeOK /\ ConflictingTasksAlternate /\ DependenciesFirst
    /\ NoOrphanWorker /\ CompletionIsVerified

\* What no step may do to a run: touch it after its end, repeat what may already
\* have had its effect, or take the lease of a task that runs.
RunSteps == TerminalRunsAreFinal /\ LostEffectsAreNotRetried /\ LeasesLast
=============================================================================
