-------------------------- MODULE SupervisorProofs --------------------------
(***************************************************************************)
(* Proofs about the engineering supervisor, for any contracts, work items, *)
(* scopes, dependencies, budgets, numbers of runs and crashes, and for any *)
(* saves that may fail.                                                    *)
(***************************************************************************)
EXTENDS WorkSupervisor, FiniteSetTheorems, TLAPS

-----------------------------------------------------------------------------
(* The inductive invariant.                                                  *)

TaskMaps == UNION {[D -> TaskStatus] : D \in SUBSET Items}
AttemptMaps == UNION {[D -> Seq(TaskStatus)] : D \in SUBSET Items}
RunRecords ==
    [contract : Contracts, status : RunStatus, task : TaskMaps, attempts : AttemptMaps,
     leases : SUBSET Items, usage : Nat, projection : Nat, retries : 0..(MaxRetries + 1)]
Run(c, s, t, at, le, u, p, re) ==
    [contract |-> c, status |-> s, task |-> t, attempts |-> at, leases |-> le,
     usage |-> u, projection |-> p, retries |-> re]
Typed(run) ==
    /\ run \in RunRecords
    /\ DOMAIN run.attempts = DOMAIN run.task /\ run.leases \subseteq DOMAIN run.task

\* The attempt a is in the document; one that still counts as running is the last
\* of a task that runs.
Known(run, a) == a[2] \in DOMAIN run.task /\ a[3] \in 1..Len(run.attempts[a[2]])
Works(run, a) ==
    run.attempts[a[2]][a[3]] = "running" =>
        run.task[a[2]] = "running" /\ a[3] = Len(run.attempts[a[2]])

\* An attempt at item i of run r verified artifacts for all its criteria.
Verified(att, r, i) == \E a \in att : a[1] = r /\ a[2] = i

\* Leases are of tasks that run, and their scopes do not conflict.
Leased(run) ==
    /\ run.leases \subseteq RunningTasks(run)
    /\ \A i, j \in run.leases : i # j => ~Conflict(i, j)

\* What holds of the run with index r, when ex are the attempts that execute, ru
\* those this process can cancel, att the attested ones and comp the completed
\* contracts.
RunOk(r, run, ex, ru, att, comp) ==
    /\ Typed(run)
    /\ supervisorTerminal(run.status) => RunningTasks(run) = {}
    /\ run.status = "completed" =>
         run.contract \in comp /\ \A i \in DOMAIN run.task : run.task[i] = "completed"
    /\ \A i \in DOMAIN run.task : run.task[i] = "completed" => Verified(att, r, i)
    /\ \A i \in RunningTasks(run) : \A d \in DependsOn[i] : Verified(att, r, d)
    /\ \A a \in att : a[1] = r => Known(run, a)
    /\ \A a \in ex : a[1] = r => Known(run, a) /\ Works(run, a)
    /\ \A a \in ru : a[1] = r => run.attempts[a[2]][a[3]] = "running"
    /\ Leased(run)

DocOk(rs, ex, ru, att, comp) ==
    /\ rs \in Seq(RunRecords)
    /\ ru \subseteq ex /\ ex \subseteq (1..Len(rs)) \X Items \X Nat
    /\ att \subseteq (1..Len(rs)) \X Items \X Nat
    /\ \A q \in 1..Len(rs) : RunOk(q, rs[q], ex, ru, att, comp)

StartingOk ==
    starting = NoStart \/ /\ starting.contract \in Contracts /\ starting.items \in SUBSET Items
                          /\ starting.ready \in SUBSET Items

SupervisorIInv ==
    /\ DocOk(runs, executing, running, attested, completed)
    /\ OneLiveRunPerContract /\ StartingOk /\ completed \subseteq Contracts

\* What scheduling may make of a run: nothing when it has ended, and nothing but new
\* attempts, under leases, at tasks that were ready.
Follows(old, new) ==
    /\ new.contract = old.contract
    /\ supervisorTerminal(old.status) => new = old
    /\ supervisorTerminal(new.status) => supervisorTerminal(old.status)
    /\ DOMAIN new.task = DOMAIN old.task /\ old.leases \subseteq new.leases
    /\ \A i \in DOMAIN old.task :
         /\ old.task[i] # "ready" =>
              new.task[i] = old.task[i] /\ new.attempts[i] = old.attempts[i]
         /\ new.task[i] = "running" => old.task[i] = "running" \/ i \in new.leases

-----------------------------------------------------------------------------
(* The fields of a run. *)

(* What a typed run's fields are.                                            *)
LEMMA Fields ==
  ASSUME NEW run, Typed(run)
  PROVE  /\ run.contract \in Contracts /\ run.status \in RunStatus
         /\ run.task \in [DOMAIN run.task -> TaskStatus] /\ DOMAIN run.task \in SUBSET Items
         /\ run.attempts \in [DOMAIN run.task -> Seq(TaskStatus)]
         /\ run.leases \in SUBSET Items /\ run.leases \subseteq DOMAIN run.task
         /\ run.usage \in Nat /\ run.projection \in Nat /\ run.retries \in 0..(MaxRetries + 1)
<1>1. /\ run.contract \in Contracts /\ run.status \in RunStatus /\ run.task \in TaskMaps
      /\ run.attempts \in AttemptMaps /\ run.leases \in SUBSET Items
      /\ run.usage \in Nat /\ run.projection \in Nat /\ run.retries \in 0..(MaxRetries + 1)
  BY Zenon DEF Typed, RunRecords
<1>2. run.task \in [DOMAIN run.task -> TaskStatus] /\ DOMAIN run.task \in SUBSET Items
  BY <1>1 DEF TaskMaps
<1>3. run.attempts \in [DOMAIN run.task -> Seq(TaskStatus)]
  BY <1>1 DEF AttemptMaps, Typed
<1> QED
  BY <1>1, <1>2, <1>3, Zenon DEF Typed

(* The number of items is finite, and so is a projection.                    *)
LEMMA Projected ==
  ASSUME NEW run, DOMAIN run.task \in SUBSET Items, run.usage \in Nat
  PROVE  projectedSupervisorUsage(run) \in Nat
<1>1. IsFiniteSet(Items)
  <2> DEFINE f == [k \in 1..Len(ItemOrder) |-> ItemOrder[k]]
  <2>1. IsFiniteSet(1..Len(ItemOrder))
    BY SupervisorConfig, FS_Interval
  <2>2. f \in Surjection(1..Len(ItemOrder), Items)
    BY DEF Surjection, Items
  <2> QED
    BY <2>1, <2>2, FS_Surjection, Zenon
<1>2. IsFiniteSet(RunningTasks(run))
  <2>1. RunningTasks(run) \subseteq Items
    BY Zenon DEF RunningTasks
  <2> QED
    BY <1>1, <2>1, FS_Subset, Zenon
<1>3. Cardinality(RunningTasks(run)) \in Nat
  BY <1>2, FS_CardinalityType, Zenon
<1> QED
  BY <1>3, SupervisorConfig DEF projectedSupervisorUsage

(* A record whose fields have their types is a typed run.                    *)
LEMMA TypedRun ==
  ASSUME NEW run, NEW c \in Contracts, NEW s \in RunStatus, NEW D \in SUBSET Items,
         NEW t \in [D -> TaskStatus], NEW at \in [D -> Seq(TaskStatus)], NEW le \in SUBSET D,
         NEW u \in Nat, NEW p \in Nat, NEW re \in 0..(MaxRetries + 1),
         run = Run(c, s, t, at, le, u, p, re)
  PROVE  Typed(run)
<1>1. t \in TaskMaps /\ at \in AttemptMaps
  BY Zenon DEF TaskMaps, AttemptMaps
<1>2. run \in RunRecords
  BY <1>1 DEF RunRecords, Run
<1> QED
  BY <1>2 DEF Typed, Run

(* A typed run, field by field.                                              *)
LEMMA Whole ==
  ASSUME NEW run, Typed(run)
  PROVE  run = Run(run.contract, run.status, run.task, run.attempts, run.leases, run.usage,
                   run.projection, run.retries)
BY DEF Typed, RunRecords, Run

(* The fields of a dispatched run.                                           *)
LEMMA DispatchedFields ==
  ASSUME NEW run, Typed(run), NEW i \in DOMAIN run.task
  PROVE  /\ Typed(Dispatched(run, i))
         /\ Dispatched(run, i).contract = run.contract
         /\ Dispatched(run, i).status = "working"
         /\ Dispatched(run, i).task = [run.task EXCEPT ![i] = "running"]
         /\ Dispatched(run, i).attempts =
              [run.attempts EXCEPT ![i] = Append(run.attempts[i], "running")]
         /\ Dispatched(run, i).leases = run.leases \cup {i}
<1> DEFINE task == [run.task EXCEPT ![i] = "running"]
           attempts == [run.attempts EXCEPT ![i] = Append(run.attempts[i], "running")]
           leased == [run EXCEPT !.leases = run.leases \cup {i}]
           works == [leased EXCEPT !.status = "working"]
           runs1 == [works EXCEPT !.task = [works.task EXCEPT ![i] = "running"]]
           on == [runs1 EXCEPT !.attempts =
                    [runs1.attempts EXCEPT ![i] = Append(runs1.attempts[i], "running")]]
           t == [on EXCEPT !.projection = projectedSupervisorUsage(on)]
<1>1. [run EXCEPT !.leases = @ \cup {i}, !.status = "working", !.task[i] = "running",
                  !.attempts[i] = Append(@, "running")] = on
  OBVIOUS
<1>2. Dispatched(run, i) = t
  BY Zenon, <1>1 DEF Dispatched
<1> HIDE DEF task, attempts, leased, works, runs1, on, t
<1>3. on = Run(run.contract, "working", task, attempts, run.leases \cup {i}, run.usage,
               run.projection, run.retries)
  <2>1. leased = Run(run.contract, run.status, run.task, run.attempts, run.leases \cup {i},
                     run.usage, run.projection, run.retries)
    BY Whole DEF leased, Run
  <2>2. works = Run(run.contract, "working", run.task, run.attempts, run.leases \cup {i},
                     run.usage, run.projection, run.retries)
    BY <2>1 DEF works, Run
  <2>3. runs1 = Run(run.contract, "working", task, run.attempts, run.leases \cup {i},
                     run.usage, run.projection, run.retries)
    BY <2>2 DEF runs1, task, Run
  <2>4. runs1.attempts = run.attempts
    BY <2>3 DEF Run
  <2>5. on = [runs1 EXCEPT !.attempts = attempts]
    BY <2>4, Zenon DEF on, attempts
  <2> QED
    BY <2>3, <2>5 DEF Run
<1>4. /\ task \in [DOMAIN run.task -> TaskStatus]
      /\ attempts \in [DOMAIN run.task -> Seq(TaskStatus)]
  BY Fields DEF task, attempts, TaskStatus
<1>5. DOMAIN on.task \in SUBSET Items /\ on.usage \in Nat
  <2>1. on.task = task /\ on.usage = run.usage
    BY <1>3 DEF Run
  <2> QED
    BY <1>4, <2>1, Fields
<1>6. projectedSupervisorUsage(on) \in Nat
  BY <1>5, Projected, Zenon
<1>7. t = Run(run.contract, "working", task, attempts, run.leases \cup {i}, run.usage,
              projectedSupervisorUsage(on), run.retries)
  BY <1>3 DEF t, Run
<1>8. "working" \in RunStatus /\ run.leases \cup {i} \in SUBSET DOMAIN run.task
  BY Fields DEF RunStatus
<1>9. Typed(t)
  BY <1>4, <1>6, <1>7, <1>8, Fields, TypedRun, Zenon
<1>10. /\ t.contract = run.contract /\ t.status = "working" /\ t.task = task
       /\ t.attempts = attempts /\ t.leases = run.leases \cup {i}
  BY <1>7 DEF Run
<1> QED
  BY <1>2, <1>9, <1>10, Zenon DEF task, attempts

(* The fields of a run whose dispatch was taken back.                        *)
LEMMA TakenBackFields ==
  ASSUME NEW run, Typed(run), NEW i \in DOMAIN run.task
  PROVE  /\ Typed(TakenBack(run, i))
         /\ TakenBack(run, i).contract = run.contract
         /\ TakenBack(run, i).status = run.status
         /\ TakenBack(run, i).task = [run.task EXCEPT ![i] = "ready"]
         /\ TakenBack(run, i).attempts = run.attempts
         /\ TakenBack(run, i).leases = run.leases \ {i}
<1> DEFINE ready == [run.task EXCEPT ![i] = "ready"]
           left == run.leases \ {i}
           back == [run EXCEPT !.task = [run.task EXCEPT ![i] = "ready"]]
           t == [back EXCEPT !.leases = back.leases \ {i}]
<1>1. TakenBack(run, i) = t
  BY DEF TakenBack, releaseTaskLeases
<1> HIDE DEF ready, left, back, t
<1>2. back = Run(run.contract, run.status, ready, run.attempts, run.leases, run.usage,
                 run.projection, run.retries)
  <2>1. back = [run EXCEPT !.task = ready]
    BY Zenon DEF back, ready
  <2> QED
    BY <2>1, Whole DEF Run
<1>3. t = [back EXCEPT !.leases = left]
  <2>1. back.leases = run.leases
    BY <1>2 DEF Run
  <2> QED
    BY <2>1, Zenon DEF t, left
<1>4. t = Run(run.contract, run.status, ready, run.attempts, left, run.usage,
              run.projection, run.retries)
  BY <1>2, <1>3 DEF Run
<1>5. left \in SUBSET DOMAIN run.task /\ ready \in [DOMAIN run.task -> TaskStatus]
  BY Fields DEF left, ready, TaskStatus
<1>6. Typed(t)
  BY <1>4, <1>5, Fields, TypedRun, Zenon
<1>7. /\ t.contract = run.contract /\ t.status = run.status /\ t.task = ready
      /\ t.attempts = run.attempts /\ t.leases = left
  BY <1>4 DEF Run
<1> QED
  BY <1>1, <1>6, <1>7, Zenon DEF ready, left

(* The fields of a run at the end of scheduling.                             *)
LEMMA ScheduledFields ==
  ASSUME NEW run, Typed(run)
  PROVE  /\ Typed(Scheduled(run))
         /\ Scheduled(run).contract = run.contract
         /\ Scheduled(run).status \in {run.status, "waiting"}
         /\ Scheduled(run).task = run.task
         /\ Scheduled(run).attempts = run.attempts
         /\ Scheduled(run).leases = run.leases
<1> DEFINE p == projectedSupervisorUsage(run)
           s == IF RunningTasks(run) = {} /\ run.status = "queued" THEN "waiting" ELSE run.status
           priced == [run EXCEPT !.projection = p]
           t == [priced EXCEPT !.status =
                   IF RunningTasks(run) = {} /\ priced.status = "queued" THEN "waiting" ELSE @]
<1>1. Scheduled(run) = t
  BY DEF Scheduled
<1>2. p \in Nat
  BY Fields, Projected, Zenon
<1>3. s \in RunStatus /\ s \in {run.status, "waiting"}
  BY Fields, Zenon DEF RunStatus
<1> HIDE DEF p, s, priced, t
<1>4. priced = Run(run.contract, run.status, run.task, run.attempts, run.leases, run.usage,
                   p, run.retries)
  BY Whole DEF priced, Run
<1>5. t = [priced EXCEPT !.status = s]
  <2>1. priced.status = run.status
    BY <1>4 DEF Run
  <2> QED
    BY <2>1, Zenon DEF t, s
<1>6. t = Run(run.contract, s, run.task, run.attempts, run.leases, run.usage, p, run.retries)
  BY <1>4, <1>5 DEF Run
<1>7. Typed(t)
  BY <1>2, <1>3, <1>6, Fields, TypedRun, Zenon
<1>8. /\ t.contract = run.contract /\ t.status = s /\ t.task = run.task
      /\ t.attempts = run.attempts /\ t.leases = run.leases
  BY <1>6 DEF Run
<1> QED
  BY <1>1, <1>3, <1>7, <1>8, Zenon

-----------------------------------------------------------------------------
(* What one step of scheduling keeps. *)

(* A dependency that is a completed task was verified.                       *)
LEMMA DependenciesVerified ==
  ASSUME NEW r, NEW run, NEW ex, NEW ru, NEW att, NEW comp, NEW i,
         RunOk(r, run, ex, ru, att, comp), supervisorDependenciesComplete(run, i)
  PROVE  \A d \in DependsOn[i] : Verified(att, r, d)
BY Zenon DEF RunOk, supervisorDependenciesComplete

(* The scope a task acquires conflicts with none that is held.               *)
LEMMA Acquired ==
  ASSUME NEW run, NEW i, acquireTaskLeases(run, i),
         \A j, k \in run.leases : j # k => ~Conflict(j, k)
  PROVE  \A j, k \in run.leases \cup {i} : j # k => ~Conflict(j, k)
<1>1. \A j, k : Conflict(j, k) => Conflict(k, j)
  BY Zenon DEF Conflict
<1> QED
  BY <1>1, Zenon DEF acquireTaskLeases

\* The run t has one more attempt at task i; the others are where they were.
Grown(run, t, i) ==
    /\ Len(t.attempts[i]) = Len(run.attempts[i]) + 1
    /\ Len(t.attempts[i]) \in Nat \ {0}
    /\ t.attempts[i][Len(t.attempts[i])] = "running"
    /\ \A j \in DOMAIN run.task : j # i => t.attempts[j] = run.attempts[j]
    /\ \A a : Known(run, a) => /\ Known(t, a)
                               /\ t.attempts[a[2]][a[3]] = run.attempts[a[2]][a[3]]
                               /\ a[2] = i => a[3] # Len(t.attempts[i])

(* A dispatch appends an attempt.                                            *)
LEMMA AppendedAttempts ==
  ASSUME NEW run, Typed(run), NEW i \in DOMAIN run.task, NEW t,
         DOMAIN t.task = DOMAIN run.task,
         t.attempts = [run.attempts EXCEPT ![i] = Append(run.attempts[i], "running")]
  PROVE  Grown(run, t, i)
<1>1. run.attempts \in [DOMAIN run.task -> Seq(TaskStatus)] /\ run.attempts[i] \in Seq(TaskStatus)
  BY Fields
<1>2. t.attempts[i] = Append(run.attempts[i], "running")
  BY <1>1
<1>3. \A j \in DOMAIN run.task : j # i => t.attempts[j] = run.attempts[j]
  BY <1>1
<1>4. /\ Len(run.attempts[i]) \in Nat
      /\ Len(t.attempts[i]) = Len(run.attempts[i]) + 1
      /\ t.attempts[i][Len(t.attempts[i])] = "running"
      /\ \A n \in 1..Len(run.attempts[i]) : t.attempts[i][n] = run.attempts[i][n]
  BY <1>1, <1>2 DEF TaskStatus
<1>5. ASSUME NEW a, Known(run, a)
      PROVE  /\ Known(t, a) /\ t.attempts[a[2]][a[3]] = run.attempts[a[2]][a[3]]
             /\ a[2] = i => a[3] # Len(t.attempts[i])
  <2>1. CASE a[2] = i
    BY <1>4, <1>5, <2>1 DEF Known
  <2>2. CASE a[2] # i
    BY <1>3, <1>5, <2>2, Zenon DEF Known
  <2> QED
    BY <2>1, <2>2
<1>6. Len(t.attempts[i]) \in Nat \ {0}
  BY <1>4
<1> QED
  BY <1>3, <1>4, <1>5, <1>6, Zenon DEF Grown

(* A dispatch keeps the run, with its new attempt among those that execute.  *)
LEMMA DispatchedKeeps ==
  ASSUME NEW r, NEW run, NEW ex, NEW ru, NEW att, NEW comp, NEW i, NEW t, NEW new,
         RunOk(r, run, ex, ru, att, comp), ru \subseteq ex,
         ~supervisorTerminal(run.status),
         i \in DOMAIN run.task, run.task[i] = "ready",
         supervisorDependenciesComplete(run, i), acquireTaskLeases(run, i),
         t = Dispatched(run, i), new = <<r, i, Len(t.attempts[i])>>
  PROVE  /\ RunOk(r, t, ex \cup {new}, ru \cup {new}, att, comp)
         /\ Follows(run, t)
         /\ Len(t.attempts[i]) \in Nat
<1>1. Typed(run)
  BY Zenon DEF RunOk
<1>2. /\ Typed(t)
      /\ t.contract = run.contract /\ t.status = "working"
      /\ t.task = [run.task EXCEPT ![i] = "running"]
      /\ t.attempts = [run.attempts EXCEPT ![i] = Append(run.attempts[i], "running")]
      /\ t.leases = run.leases \cup {i}
  BY <1>1, DispatchedFields, Zenon
<1>3. /\ DOMAIN t.task = DOMAIN run.task /\ t.task[i] = "running"
      /\ \A j \in DOMAIN run.task : j # i => t.task[j] = run.task[j]
  BY <1>1, <1>2, Fields
<1>4. /\ Len(t.attempts[i]) = Len(run.attempts[i]) + 1
      /\ Len(t.attempts[i]) \in Nat \ {0}
      /\ t.attempts[i][Len(t.attempts[i])] = "running"
      /\ \A j \in DOMAIN run.task : j # i => t.attempts[j] = run.attempts[j]
      /\ \A a : Known(run, a) => /\ Known(t, a)
                                 /\ t.attempts[a[2]][a[3]] = run.attempts[a[2]][a[3]]
                                 /\ a[2] = i => a[3] # Len(t.attempts[i])
  <2>1. Grown(run, t, i)
    BY <1>1, <1>2, <1>3, AppendedAttempts, Zenon
  <2> QED
    BY <2>1, Zenon DEF Grown
<1>5. RunningTasks(t) = RunningTasks(run) \cup {i} /\ i \notin RunningTasks(run)
  BY <1>3 DEF RunningTasks
<1>6. ~supervisorTerminal(t.status) /\ t.status # "completed"
  BY <1>2 DEF supervisorTerminal
<1>7. \A j \in DOMAIN t.task : t.task[j] = "completed" => Verified(att, r, j)
  BY <1>3 DEF RunOk
<1>8. \A j \in RunningTasks(t) : \A d \in DependsOn[j] : Verified(att, r, d)
  BY <1>5, DependenciesVerified, Zenon DEF RunOk
<1>9. \A a \in att : a[1] = r => Known(t, a)
  BY <1>4, Zenon DEF RunOk
<1>10. new[1] = r /\ new[2] = i /\ new[3] = Len(t.attempts[i])
  OBVIOUS
<1>11. Known(t, new) /\ Works(t, new) /\ t.attempts[new[2]][new[3]] = "running"
  BY <1>3, <1>4, <1>10 DEF Known, Works
<1>12. ASSUME NEW a \in ex, a[1] = r
       PROVE  Known(t, a) /\ Works(t, a)
  <2>1. Known(run, a) /\ Works(run, a)
    BY <1>12, Zenon DEF RunOk
  <2>2. Known(t, a) /\ t.attempts[a[2]][a[3]] = run.attempts[a[2]][a[3]] /\ a[2] \in DOMAIN run.task
    BY <1>4, <2>1, Zenon DEF Known
  <2>3. ASSUME t.attempts[a[2]][a[3]] = "running"
        PROVE  t.task[a[2]] = "running" /\ a[3] = Len(t.attempts[a[2]])
    <3>1. run.task[a[2]] = "running" /\ a[3] = Len(run.attempts[a[2]])
      BY <2>1, <2>2, <2>3, Zenon DEF Works
    <3>2. a[2] # i
      BY <3>1
    <3> QED
      BY <1>3, <1>4, <2>2, <3>1, <3>2, Zenon
  <2> QED
    BY <2>2, <2>3 DEF Works
<1>13. ASSUME NEW a \in ru, a[1] = r, a \in ex
       PROVE  t.attempts[a[2]][a[3]] = "running"
  BY <1>4, <1>13, Zenon DEF RunOk
<1>14. Leased(t)
  <2>1. Leased(run)
    BY Zenon DEF RunOk
  <2>2. t.leases \subseteq RunningTasks(t)
    BY <1>2, <1>5, <2>1, Zenon DEF Leased
  <2>3. \A j, k \in t.leases : j # k => ~Conflict(j, k)
    BY <1>2, <2>1, Acquired, Zenon DEF Leased
  <2> QED
    BY <2>2, <2>3, Zenon DEF Leased
<1>15. Follows(run, t)
  BY <1>2, <1>3, <1>4, <1>6 DEF Follows
<1>16. ru \subseteq ex
  OBVIOUS
<1> QED
  BY <1>2, <1>4, <1>6, <1>7, <1>8, <1>9, <1>11, <1>12, <1>13, <1>14, <1>15, <1>16 DEF RunOk

(* A run whose tasks, attempts and leases stay is kept by a change of status *)
(* that ends it only when its tasks allow that.                              *)
LEMMA SameTasks ==
  ASSUME NEW r, NEW run, NEW ex, NEW ru, NEW att, NEW comp, NEW t,
         RunOk(r, run, ex, ru, att, comp), Typed(t),
         t.task = run.task, t.attempts = run.attempts, t.leases = run.leases,
         supervisorTerminal(t.status) => RunningTasks(t) = {},
         t.status = "completed" =>
            t.contract \in comp /\ \A i \in DOMAIN t.task : t.task[i] = "completed"
  PROVE  RunOk(r, t, ex, ru, att, comp)
<1>1. RunningTasks(t) = RunningTasks(run)
  BY Zenon DEF RunningTasks
<1>2. \A a : /\ Known(run, a) => Known(t, a)
             /\ Works(run, a) => Works(t, a)
  BY Zenon DEF Known, Works
<1>3. Leased(run) => Leased(t)
  BY <1>1, Zenon DEF Leased
<1>4. /\ \A a \in att : a[1] = r => Known(t, a)
      /\ \A a \in ex : a[1] = r => Known(t, a) /\ Works(t, a)
      /\ \A a \in ru : a[1] = r => t.attempts[a[2]][a[3]] = "running"
  <2>1. \A a \in att : a[1] = r => Known(run, a)
    BY Zenon DEF RunOk
  <2>2. \A a \in ex : a[1] = r => Known(run, a) /\ Works(run, a)
    BY Zenon DEF RunOk
  <2>3. \A a \in ru : a[1] = r => run.attempts[a[2]][a[3]] = "running"
    BY Zenon DEF RunOk
  <2>4. \A a \in ru : a[1] = r => t.attempts[a[2]][a[3]] = "running"
    BY <2>3
  <2>5. \A a \in att : a[1] = r => Known(t, a)
    BY <1>2, <2>1, Zenon
  <2>6. \A a \in ex : a[1] = r => Known(t, a) /\ Works(t, a)
    BY <1>2, <2>2, Zenon
  <2> QED
    BY <2>4, <2>5, <2>6
<1>5. /\ \A i \in DOMAIN t.task : t.task[i] = "completed" => Verified(att, r, i)
      /\ \A i \in RunningTasks(t) : \A d \in DependsOn[i] : Verified(att, r, d)
  BY <1>1, Zenon DEF RunOk
<1>6. Leased(t)
  BY <1>3, Zenon DEF RunOk
<1> QED
  BY <1>4, <1>5, <1>6, Zenon DEF RunOk

(* The end of scheduling keeps the run.                                      *)
LEMMA ScheduledKeeps ==
  ASSUME NEW r, NEW run, NEW ex, NEW ru, NEW att, NEW comp, NEW t,
         RunOk(r, run, ex, ru, att, comp), ~supervisorTerminal(run.status), t = Scheduled(run)
  PROVE  /\ RunOk(r, t, ex, ru, att, comp)
         /\ Follows(run, t)
<1>1. Typed(run)
  BY Zenon DEF RunOk
<1>2. /\ Typed(t) /\ t.contract = run.contract /\ t.task = run.task
      /\ t.attempts = run.attempts /\ t.leases = run.leases
      /\ t.status = run.status \/ t.status = "waiting"
  BY <1>1, ScheduledFields, Zenon
<1>3. ~supervisorTerminal(t.status) /\ t.status # "completed"
  BY <1>2 DEF supervisorTerminal
<1>4. RunOk(r, t, ex, ru, att, comp)
  BY <1>2, <1>3, SameTasks, Zenon
<1>5. Follows(run, t)
  BY <1>2, <1>3, Zenon DEF Follows
<1> QED
  BY <1>4, <1>5

(* A dispatch that could not be saved leaves the attempt and nothing else.   *)
LEMMA TakenBackKeeps ==
  ASSUME NEW r, NEW run, NEW ex, NEW ru, NEW att, NEW comp, NEW i, NEW t,
         RunOk(r, run, ex, ru, att, comp), ru \subseteq ex,
         ~supervisorTerminal(run.status),
         i \in DOMAIN run.task, run.task[i] = "ready",
         t = TakenBack(Dispatched(run, i), i)
  PROVE  /\ RunOk(r, t, ex, ru, att, comp)
         /\ Follows(run, t)
<1>1. Typed(run)
  BY Zenon DEF RunOk
<1> DEFINE d == Dispatched(run, i)
<1>2. /\ Typed(d)
      /\ d.contract = run.contract /\ d.status = "working"
      /\ d.task = [run.task EXCEPT ![i] = "running"]
      /\ d.attempts = [run.attempts EXCEPT ![i] = Append(run.attempts[i], "running")]
      /\ d.leases = run.leases \cup {i}
  BY <1>1, DispatchedFields, Zenon
<1> HIDE DEF d
<1>3. DOMAIN d.task = DOMAIN run.task
  BY <1>2
<1>4. /\ Typed(t)
      /\ t.contract = d.contract /\ t.status = d.status
      /\ t.task = [d.task EXCEPT ![i] = "ready"]
      /\ t.attempts = d.attempts
      /\ t.leases = d.leases \ {i}
  BY <1>2, <1>3, TakenBackFields, Zenon DEF d
<1>5. t.task = run.task
  BY <1>1, <1>2, <1>4, Fields
<1>6. Grown(run, t, i)
  BY <1>1, <1>2, <1>4, <1>5, AppendedAttempts, Zenon
<1>7. RunningTasks(t) = RunningTasks(run) /\ i \notin RunningTasks(run)
  BY <1>5 DEF RunningTasks
<1>8. ~supervisorTerminal(t.status) /\ t.status # "completed"
  BY <1>2, <1>4 DEF supervisorTerminal
<1>9. ASSUME NEW a, Known(run, a)
      PROVE  /\ Known(t, a) /\ t.attempts[a[2]][a[3]] = run.attempts[a[2]][a[3]]
             /\ Works(run, a) => Works(t, a)
  <2>1. Known(t, a) /\ t.attempts[a[2]][a[3]] = run.attempts[a[2]][a[3]]
    BY <1>6, <1>9, Zenon DEF Grown
  <2>2. ASSUME Works(run, a), t.attempts[a[2]][a[3]] = "running"
        PROVE  t.task[a[2]] = "running" /\ a[3] = Len(t.attempts[a[2]])
    <3>1. run.task[a[2]] = "running" /\ a[3] = Len(run.attempts[a[2]]) /\ a[2] # i
      BY <2>1, <2>2 DEF Works
    <3> QED
      BY <1>5, <1>6, <1>9, <3>1, Zenon DEF Grown, Known
  <2> QED
    BY <2>1, <2>2 DEF Works
<1>10. Leased(run)
  BY Zenon DEF RunOk
<1>11. Leased(t) /\ t.leases = run.leases
  <2>1. i \notin run.leases
    BY <1>7, <1>10, Zenon DEF Leased
  <2>2. t.leases = run.leases
    BY <1>2, <1>4, <2>1
  <2> QED
    BY <1>7, <1>10, <2>2, Zenon DEF Leased
<1>12. Follows(run, t)
  BY <1>2, <1>4, <1>5, <1>6, <1>8, <1>11 DEF Follows, Grown
<1>13. RunOk(r, t, ex, ru, att, comp)
  BY <1>4, <1>5, <1>7, <1>8, <1>9, <1>11 DEF RunOk
<1> QED
  BY <1>12, <1>13

(* Attempts of another run do not matter to a run.                           *)
LEMMA OtherRun ==
  ASSUME NEW q, NEW run, NEW ex, NEW ru, NEW att, NEW comp, NEW new,
         RunOk(q, run, ex, ru, att, comp), new[1] # q
  PROVE  RunOk(q, run, ex \cup {new}, ru \cup {new}, att, comp)
BY Zenon DEF RunOk

-----------------------------------------------------------------------------
(* What scheduling a run keeps. *)

\* The document rs follows base and is sound.
Grounded(rs, base, ex, ru, att, comp) ==
    /\ DocOk(rs, ex, ru, att, comp) /\ Len(rs) = Len(base)
    /\ \A q \in 1..Len(rs) : Follows(base[q], rs[q])

AccOk(acc, base, ex, ru, att, comp) ==
    /\ acc = [mem |-> acc.mem, disk |-> acc.disk, started |-> acc.started]
    /\ Grounded(acc.mem, base, ex \cup acc.started, ru \cup acc.started, att, comp)
    /\ Grounded(acc.disk, base, ex \cup acc.started, ru \cup acc.started, att, comp)

(* A nonempty set of naturals has a least element.                           *)
LEMMA Least ==
  ASSUME NEW T, T \subseteq Nat, T # {}
  PROVE  \E x \in T : \A y \in T : x <= y
<1> DEFINE R == {ss \in Nat \X Nat : ss[1] < ss[2]}
<1>1. IsWellFoundedOn(R, Nat)
  BY NatLessThanWellFounded, Zenon DEF OpToRel
<1> HIDE DEF R
<1>2. PICK x \in T : \A y \in T : ~(<<y, x>> \in R)
  BY <1>1, WFMin, Zenon
<1>3. ASSUME NEW y \in T, y < x PROVE FALSE
  <2>1. <<y, x>> \in Nat \X Nat /\ <<y, x>>[1] = y /\ <<y, x>>[2] = x
    BY Zenon
  <2>2. <<y, x>> \in R
    BY <1>3, <2>1, Zenon DEF R
  <2> QED
    BY <1>2, <2>2, Zenon
<1> QED
  BY <1>3

(* What follows what follows a run follows the run.                          *)
LEMMA FollowsOn ==
  ASSUME NEW x, NEW y, NEW z, Follows(x, y), Follows(y, z)
  PROVE  Follows(x, z)
BY Zenon DEF Follows

(* A run follows itself.                                                     *)
LEMMA FollowsItself ==
  ASSUME NEW x
  PROVE  Follows(x, x)
BY Zenon DEF Follows

(* A step of one run keeps the document sound.                               *)
LEMMA ChangeKeeps ==
  ASSUME NEW rs, NEW base, NEW ex, NEW ru, NEW att, NEW comp, NEW r, NEW t,
         Grounded(rs, base, ex, ru, att, comp), r \in 1..Len(rs),
         RunOk(r, t, ex, ru, att, comp), Follows(rs[r], t)
  PROVE  Grounded([rs EXCEPT ![r] = t], base, ex, ru, att, comp)
<1> DEFINE new == [rs EXCEPT ![r] = t]
<1>1. rs \in Seq(RunRecords) /\ t \in RunRecords
  BY Zenon DEF Grounded, DocOk, RunOk, Typed
<1>2. /\ new \in Seq(RunRecords) /\ Len(new) = Len(rs) /\ new[r] = t
      /\ \A q \in 1..Len(rs) : q # r => new[q] = rs[q]
  BY <1>1
<1> HIDE DEF new
<1>3. ASSUME NEW q \in 1..Len(rs)
      PROVE  RunOk(q, new[q], ex, ru, att, comp) /\ Follows(base[q], new[q])
  <2>1. RunOk(q, rs[q], ex, ru, att, comp) /\ Follows(base[q], rs[q])
    BY Zenon DEF Grounded, DocOk
  <2>2. CASE q = r
    BY <1>2, <2>1, <2>2, FollowsOn, Zenon
  <2>3. CASE q # r
    BY <1>2, <2>1, <2>3, Zenon
  <2> QED
    BY <2>2, <2>3
<1>4. DocOk(new, ex, ru, att, comp)
  <2>1. /\ ru \subseteq ex /\ ex \subseteq (1..Len(rs)) \X Items \X Nat
        /\ att \subseteq (1..Len(rs)) \X Items \X Nat
    BY Zenon DEF Grounded, DocOk
  <2>2. \A q \in 1..Len(new) : RunOk(q, new[q], ex, ru, att, comp)
    BY <1>2, <1>3, Zenon
  <2> QED
    BY <1>2, <2>1, <2>2 DEF DocOk
<1> QED
  BY <1>2, <1>3, <1>4, Zenon DEF Grounded, new

(* So does one that starts an attempt.                                       *)
LEMMA StartKeeps ==
  ASSUME NEW rs, NEW base, NEW ex, NEW ru, NEW att, NEW comp, NEW r, NEW t, NEW i, NEW n,
         Grounded(rs, base, ex, ru, att, comp), r \in 1..Len(rs), i \in Items, n \in Nat,
         RunOk(r, t, ex \cup {<<r, i, n>>}, ru \cup {<<r, i, n>>}, att, comp),
         Follows(rs[r], t)
  PROVE  Grounded([rs EXCEPT ![r] = t], base,
                  ex \cup {<<r, i, n>>}, ru \cup {<<r, i, n>>}, att, comp)
<1> DEFINE new == [rs EXCEPT ![r] = t]
           a == <<r, i, n>>
<1>1. rs \in Seq(RunRecords) /\ t \in RunRecords
  BY Zenon DEF Grounded, DocOk, RunOk, Typed
<1>2. /\ new \in Seq(RunRecords) /\ Len(new) = Len(rs) /\ new[r] = t
      /\ \A q \in 1..Len(rs) : q # r => new[q] = rs[q]
  BY <1>1
<1>3. a[1] = r /\ a \in (1..Len(rs)) \X Items \X Nat
  OBVIOUS
<1> HIDE DEF new, a
<1>4. RunOk(r, t, ex \cup {a}, ru \cup {a}, att, comp)
  BY Zenon DEF a
<1>5. ASSUME NEW q \in 1..Len(rs)
      PROVE  RunOk(q, new[q], ex \cup {a}, ru \cup {a}, att, comp) /\ Follows(base[q], new[q])
  <2>1. RunOk(q, rs[q], ex, ru, att, comp) /\ Follows(base[q], rs[q])
    BY Zenon DEF Grounded, DocOk
  <2>2. CASE q = r
    BY <1>2, <1>4, <2>1, <2>2, FollowsOn, Zenon
  <2>3. CASE q # r
    BY <1>2, <1>3, <2>1, <2>3, OtherRun, Zenon
  <2> QED
    BY <2>2, <2>3
<1>6. DocOk(new, ex \cup {a}, ru \cup {a}, att, comp)
  <2>1. /\ ru \subseteq ex /\ ex \subseteq (1..Len(rs)) \X Items \X Nat
        /\ att \subseteq (1..Len(rs)) \X Items \X Nat
    BY Zenon DEF Grounded, DocOk
  <2>2. \A q \in 1..Len(new) : RunOk(q, new[q], ex \cup {a}, ru \cup {a}, att, comp)
    BY <1>2, <1>5, Zenon
  <2>3. ru \cup {a} \subseteq ex \cup {a} /\ ex \cup {a} \subseteq (1..Len(rs)) \X Items \X Nat
    BY <1>3, <2>1, Zenon
  <2> QED
    BY <1>2, <2>1, <2>2, <2>3 DEF DocOk
<1> QED
  BY <1>2, <1>5, <1>6, Zenon DEF Grounded, new, a

(* One round of the loop keeps the documents sound.                          *)
LEMMA DispatchRoundKeeps ==
  ASSUME NEW acc, NEW base, NEW ex, NEW ru, NEW att, NEW comp, NEW r, NEW i, NEW acc2,
         AccOk(acc, base, ex, ru, att, comp), r \in 1..Len(base),
         ~supervisorTerminal(base[r].status), acc2 \in DispatchRound(acc, r, i)
  PROVE  AccOk(acc2, base, ex, ru, att, comp)
<1> DEFINE run == acc.mem[r]
           t == Dispatched(run, i)
           new == <<r, i, Len(t.attempts[i])>>
           exs == ex \cup acc.started
           rus == ru \cup acc.started
<1>1. /\ acc = [mem |-> acc.mem, disk |-> acc.disk, started |-> acc.started]
      /\ Grounded(acc.mem, base, exs, rus, att, comp)
      /\ Grounded(acc.disk, base, exs, rus, att, comp)
  BY Zenon DEF AccOk
<1>2. CASE ~mayDispatch(acc.mem, r, i)
  BY <1>2, Zenon DEF DispatchRound
<1>3. CASE mayDispatch(acc.mem, r, i)
  <2>1. \/ acc2 = [mem |-> [acc.mem EXCEPT ![r] = t], disk |-> [acc.mem EXCEPT ![r] = t],
                   started |-> acc.started \cup {new}]
        \/ acc2 = [acc EXCEPT !.mem = [acc.mem EXCEPT ![r] = TakenBack(t, i)]]
    BY <1>3 DEF DispatchRound
  <2>2. /\ i \in DOMAIN run.task /\ run.task[i] = "ready"
        /\ supervisorDependenciesComplete(run, i) /\ acquireTaskLeases(run, i)
    BY <1>3, Zenon DEF mayDispatch
  <2> HIDE DEF run, t, exs, rus
  <2>3. /\ RunOk(r, run, exs, rus, att, comp) /\ Follows(base[r], run) /\ rus \subseteq exs
        /\ r \in 1..Len(acc.mem)
    BY <1>1, Zenon DEF Grounded, DocOk, run
  <2>4. ~supervisorTerminal(run.status)
    BY <2>3, Zenon DEF Follows
  <2>5. i \in Items
    <3>1. Typed(run)
      BY <2>3, Zenon DEF RunOk
    <3> QED
      BY <2>2, <3>1, Fields, Zenon
  <2>6. CASE acc2 = [mem |-> [acc.mem EXCEPT ![r] = t], disk |-> [acc.mem EXCEPT ![r] = t],
                     started |-> acc.started \cup {new}]
    <3>1. /\ RunOk(r, t, exs \cup {new}, rus \cup {new}, att, comp) /\ Follows(run, t)
          /\ Len(t.attempts[i]) \in Nat
      BY <2>2, <2>3, <2>4, DispatchedKeeps, Zenon DEF t
    <3>2. Grounded([acc.mem EXCEPT ![r] = t], base, exs \cup {new}, rus \cup {new}, att, comp)
      BY <1>1, <2>3, <2>5, <3>1, StartKeeps, Zenon DEF run
    <3>3. /\ acc2 = [mem |-> acc2.mem, disk |-> acc2.disk, started |-> acc2.started]
          /\ acc2.mem = [acc.mem EXCEPT ![r] = t] /\ acc2.disk = [acc.mem EXCEPT ![r] = t]
          /\ acc2.started = acc.started \cup {new}
      <4> DEFINE m == [acc.mem EXCEPT ![r] = t]
                 w == acc.started \cup {new}
      <4> HIDE DEF m, w
      <4>1. acc2 = [mem |-> m, disk |-> m, started |-> w]
        BY <2>6, Zenon DEF m, w
      <4>2. /\ acc2 = [mem |-> acc2.mem, disk |-> acc2.disk, started |-> acc2.started]
            /\ acc2.mem = m /\ acc2.disk = m /\ acc2.started = w
        BY <4>1
      <4> QED
        BY <4>2, Zenon DEF m, w
    <3>4. ex \cup acc2.started = exs \cup {new} /\ ru \cup acc2.started = rus \cup {new}
      BY <3>3, Zenon DEF exs, rus
    <3> QED
      BY <3>2, <3>3, <3>4, Zenon DEF AccOk
  <2>7. CASE acc2 = [acc EXCEPT !.mem = [acc.mem EXCEPT ![r] = TakenBack(t, i)]]
    <3> DEFINE b == TakenBack(t, i)
               m == [acc.mem EXCEPT ![r] = b]
    <3>1. RunOk(r, b, exs, rus, att, comp) /\ Follows(run, b)
      BY <2>2, <2>3, <2>4, TakenBackKeeps, Zenon DEF t
    <3> HIDE DEF b
    <3>2. Grounded(m, base, exs, rus, att, comp)
      BY <1>1, <2>3, <3>1, ChangeKeeps, Zenon DEF run
    <3>3. acc2 = [acc EXCEPT !.mem = m]
      BY <2>7, Zenon DEF b
    <3> HIDE DEF m
    <3>4. /\ acc2 = [mem |-> acc2.mem, disk |-> acc2.disk, started |-> acc2.started]
          /\ acc2.mem = m /\ acc2.disk = acc.disk /\ acc2.started = acc.started
      BY <1>1, <3>3
    <3> QED
      BY <1>1, <3>2, <3>4, Zenon DEF AccOk, exs, rus
  <2> QED
    BY <2>1, <2>6, <2>7
<1> QED
  BY <1>2, <1>3

(* The end of scheduling keeps the documents sound.                          *)
LEMMA ScheduleEndKeeps ==
  ASSUME NEW acc, NEW base, NEW ex, NEW ru, NEW att, NEW comp, NEW r, NEW acc2,
         AccOk(acc, base, ex, ru, att, comp), r \in 1..Len(base),
         ~supervisorTerminal(base[r].status), acc2 \in ScheduleEnd(acc, r)
  PROVE  AccOk(acc2, base, ex, ru, att, comp)
<1> DEFINE run == acc.mem[r]
           t == Scheduled(run)
           m == [acc.mem EXCEPT ![r] = t]
           exs == ex \cup acc.started
           rus == ru \cup acc.started
<1>1. /\ acc = [mem |-> acc.mem, disk |-> acc.disk, started |-> acc.started]
      /\ Grounded(acc.mem, base, exs, rus, att, comp)
      /\ Grounded(acc.disk, base, exs, rus, att, comp)
  BY Zenon DEF AccOk
<1>2. PICK ok \in Saves("last") :
        acc2 = [acc EXCEPT !.mem = m, !.disk = IF ok THEN m ELSE @]
  BY Zenon DEF ScheduleEnd
<1>3. /\ acc2 = [mem |-> acc2.mem, disk |-> acc2.disk, started |-> acc2.started]
      /\ acc2.mem = m /\ acc2.disk \in {m, acc.disk} /\ acc2.started = acc.started
  <2> DEFINE inner == [acc EXCEPT !.mem = m]
             d == IF ok THEN m ELSE acc.disk
  <2> HIDE DEF m
  <2>1. inner = [mem |-> m, disk |-> acc.disk, started |-> acc.started]
    BY <1>1
  <2>2. acc2 = [inner EXCEPT !.disk = IF ok THEN m ELSE inner.disk]
    BY <1>2
  <2>3. inner.disk = acc.disk
    BY <2>1
  <2> HIDE DEF inner
  <2>4. acc2 = [inner EXCEPT !.disk = d] /\ d \in {m, acc.disk}
    BY <2>2, <2>3, Zenon
  <2> HIDE DEF d
  <2>5. acc2 = [mem |-> m, disk |-> d, started |-> acc.started]
    BY <2>1, <2>4
  <2>6. /\ acc2 = [mem |-> acc2.mem, disk |-> acc2.disk, started |-> acc2.started]
        /\ acc2.mem = m /\ acc2.disk = d /\ acc2.started = acc.started
    BY <2>5
  <2> QED
    BY <2>4, <2>6, Zenon
<1> HIDE DEF run, t, exs, rus
<1>4. /\ RunOk(r, run, exs, rus, att, comp) /\ Follows(base[r], run)
      /\ r \in 1..Len(acc.mem)
  BY <1>1, Zenon DEF Grounded, DocOk, run
<1>5. ~supervisorTerminal(run.status)
  BY <1>4, Zenon DEF Follows
<1>6. RunOk(r, t, exs, rus, att, comp) /\ Follows(run, t)
  BY <1>4, <1>5, ScheduledKeeps, Zenon DEF t
<1>7. Grounded(m, base, exs, rus, att, comp)
  BY <1>1, <1>4, <1>6, ChangeKeeps, Zenon DEF run
<1> HIDE DEF m
<1> QED
  BY <1>1, <1>3, <1>7, Zenon DEF AccOk, exs, rus

\* The recursions that define the rounds of the loop and the visits of Get and List.
RoundsRule(f, accs, r) ==
    f = [k \in 0..Len(ItemOrder) |->
            IF k = 0 THEN accs
            ELSE UNION {DispatchRound(acc, r, ItemOrder[k]) : acc \in f[k - 1]}]
VisitsRule(f, fixed, only) ==
    f = [q \in 0..Len(fixed) |->
            IF q = 0 THEN {Saved(fixed)}
            ELSE IF q \notin only \/ supervisorTerminal(fixed[q].status)
                    \/ fixed[q].status = "outcome_unknown"
            THEN f[q - 1] ELSE scheduleLocked(f[q - 1], q)]

(* The rounds of the loop obey their recursion: for every m there is a       *)
(* function on 0..m that does, hence there is one on all rounds.             *)
LEMMA RoundsDef ==
  ASSUME NEW accs, NEW r
  PROVE  RoundsRule(Rounds(accs, r), accs, r)
<1> DEFINE N == Len(ItemOrder)
           Step(S, k) == UNION {DispatchRound(acc, r, ItemOrder[k]) : acc \in S}
           Is(f, m) == f = [k \in 0..m |-> IF k = 0 THEN accs ELSE Step(f[k - 1], k)]
           T == {m \in 0..N : ~\E f : Is(f, m)}
<1>1. N \in Nat
  BY SupervisorConfig
<1> HIDE DEF N, Step
<1>0. /\ T \subseteq 0..N /\ \A m \in T : ~\E f : Is(f, m)
      /\ \A m \in 0..N : m \notin T => \E f : Is(f, m)
  <2> HIDE DEF Is
  <2> QED
    BY Zenon
<1> HIDE DEF T
<1>2. ASSUME T # {}
      PROVE  FALSE
  <2>1. T \subseteq Nat
    BY <1>0, <1>1
  <2>2. PICK m \in T : \A y \in T : m <= y
    BY <1>2, <2>1, Least, Zenon
  <2>3. CASE m = 0
    <3> DEFINE f == [k \in 0..0 |-> accs]
    <3>1. Is(f, 0)
      OBVIOUS
    <3> HIDE DEF Is
    <3> QED
      BY <1>0, <2>2, <2>3, <3>1, Zenon
  <2>4. CASE m # 0
    <3>1. m - 1 \in 0..N /\ m - 1 \notin T /\ m \in Nat
      <4> HIDE DEF Is
      <4> QED
        BY <1>0, <1>1, <2>2, <2>4
    <3>2. PICK g : Is(g, m - 1)
      <4> HIDE DEF Is
      <4> QED
        BY <1>0, <3>1, Zenon
    <3> DEFINE f == [k \in 0..m |-> IF k < m THEN g[k] ELSE Step(g[m - 1], m)]
    <3>3. ASSUME NEW k \in 0..m
          PROVE  f[k] = IF k = 0 THEN accs ELSE Step(f[k - 1], k)
      <4>1. CASE k = m
        <5>1. f[k] = Step(g[m - 1], m) /\ f[k - 1] = g[m - 1]
          BY <2>4, <3>1, <4>1
        <5> QED
          BY <2>4, <4>1, <5>1, Zenon
      <4>2. CASE k < m /\ k = 0
        <5>1. f[k] = g[k] /\ g[k] = accs
          BY <3>1, <3>2, <4>2
        <5> QED
          BY <4>2, <5>1, Zenon
      <4>3. CASE k < m /\ k # 0
        <5>1. f[k] = g[k] /\ f[k - 1] = g[k - 1] /\ k \in 0..(m - 1)
          BY <3>1, <4>3
        <5>2. g[k] = Step(g[k - 1], k)
          BY <3>2, <4>3, <5>1
        <5> QED
          BY <4>3, <5>1, <5>2, Zenon
      <4> QED
        BY <3>1, <4>1, <4>2, <4>3
    <3>4. Is(f, m)
      <4> HIDE DEF f
      <4>1. f = [k \in 0..m |-> f[k]]
        BY DEF f
      <4> QED
        BY <3>3, <4>1, Zenon
    <3> HIDE DEF Is
    <3> QED
      BY <1>0, <2>2, <3>4, Zenon
  <2> QED
    BY <2>3, <2>4
<1>3. \E f : Is(f, N)
  <2> HIDE DEF Is
  <2> QED
    BY <1>0, <1>1, <1>2
<1>4. Rounds(accs, r) = CHOOSE f : Is(f, N)
  BY Zenon DEF Rounds, N, Step
<1>5. Is(Rounds(accs, r), N)
  <2> HIDE DEF Is
  <2> QED
    BY <1>3, <1>4, Zenon
<1> QED
  BY <1>5, Zenon DEF N, Step, RoundsRule

(* Scheduling a live run keeps the documents sound.                          *)
LEMMA ScheduleKeeps ==
  ASSUME NEW accs, NEW base, NEW ex, NEW ru, NEW att, NEW comp, NEW r,
         \A acc \in accs : AccOk(acc, base, ex, ru, att, comp),
         r \in 1..Len(base), ~supervisorTerminal(base[r].status)
  PROVE  \A acc \in scheduleLocked(accs, r) : AccOk(acc, base, ex, ru, att, comp)
<1> DEFINE N == Len(ItemOrder)
           after == Rounds(accs, r)
           Sound(S) == \A acc \in S : AccOk(acc, base, ex, ru, att, comp)
           T == {k \in 0..N : ~Sound(after[k])}
<1>1. N \in Nat
  BY SupervisorConfig
<1>2. after = [k \in 0..N |->
                 IF k = 0 THEN accs
                 ELSE UNION {DispatchRound(acc, r, ItemOrder[k]) : acc \in after[k - 1]}]
  <2>1. RoundsRule(after, accs, r)
    BY RoundsDef, Zenon
  <2> HIDE DEF after
  <2> QED
    BY <2>1, Zenon DEF RoundsRule
<1> HIDE DEF N, after
<1>3. ASSUME T # {}
      PROVE  FALSE
  <2>1. PICK k \in T : \A y \in T : k <= y
    <3>1. T \subseteq Nat
      BY <1>1
    <3> QED
      BY <1>3, <3>1, Least, Zenon
  <2>2. CASE k = 0
    <3>1. after[0] = accs
      BY <1>1, <1>2
    <3> QED
      BY <2>1, <2>2, <3>1, Zenon
  <2>3. CASE k # 0
    <3>1. k - 1 \in 0..N /\ k - 1 \notin T /\ k \in 0..N
      BY <1>1, <2>1, <2>3
    <3>2. Sound(after[k - 1])
      BY <3>1, Zenon
    <3>3. after[k] = UNION {DispatchRound(acc, r, ItemOrder[k]) : acc \in after[k - 1]}
      BY <1>2, <2>3, <3>1, Zenon
    <3>4. ASSUME NEW acc2 \in after[k]
          PROVE  AccOk(acc2, base, ex, ru, att, comp)
      <4>1. PICK acc \in after[k - 1] : acc2 \in DispatchRound(acc, r, ItemOrder[k])
        BY <3>3, <3>4, Zenon
      <4>2. AccOk(acc, base, ex, ru, att, comp)
        BY <3>2, Zenon
      <4> QED
        BY <4>1, <4>2, DispatchRoundKeeps, Zenon
    <3> QED
      BY <2>1, <3>4, Zenon
  <2> QED
    BY <2>2, <2>3
<1>4. Sound(after[N])
  BY <1>1, <1>3
<1>5. ASSUME NEW acc2 \in scheduleLocked(accs, r)
      PROVE  AccOk(acc2, base, ex, ru, att, comp)
  <2>1. PICK acc \in after[N] : acc2 \in ScheduleEnd(acc, r)
    BY <1>5, Zenon DEF scheduleLocked, after, N
  <2> QED
    BY <1>4, <2>1, ScheduleEndKeeps, Zenon
<1> QED
  BY <1>5, Zenon

(* So do the visits of Get and List.                                         *)
LEMMA VisitsDef ==
  ASSUME NEW fixed, NEW only, Len(fixed) \in Nat
  PROVE  VisitsRule(Visits(fixed, only), fixed, only)
<1> DEFINE N == Len(fixed)
           Step(S, q) == IF q \notin only \/ supervisorTerminal(fixed[q].status)
                            \/ fixed[q].status = "outcome_unknown"
                         THEN S ELSE scheduleLocked(S, q)
           Is(f, m) == f = [q \in 0..m |-> IF q = 0 THEN {Saved(fixed)} ELSE Step(f[q - 1], q)]
           T == {m \in 0..N : ~\E f : Is(f, m)}
<1>1. N \in Nat
  OBVIOUS
<1> HIDE DEF N, Step
<1>0. /\ T \subseteq 0..N /\ \A m \in T : ~\E f : Is(f, m)
      /\ \A m \in 0..N : m \notin T => \E f : Is(f, m)
  <2> HIDE DEF Is
  <2> QED
    BY Zenon
<1> HIDE DEF T
<1>2. ASSUME T # {}
      PROVE  FALSE
  <2>1. T \subseteq Nat
    BY <1>0, <1>1
  <2>2. PICK m \in T : \A y \in T : m <= y
    BY <1>2, <2>1, Least, Zenon
  <2>3. CASE m = 0
    <3> DEFINE f == [q \in 0..0 |-> {Saved(fixed)}]
    <3>1. Is(f, 0)
      OBVIOUS
    <3> HIDE DEF Is
    <3> QED
      BY <1>0, <2>2, <2>3, <3>1, Zenon
  <2>4. CASE m # 0
    <3>1. m - 1 \in 0..N /\ m - 1 \notin T /\ m \in Nat
      <4> HIDE DEF Is
      <4> QED
        BY <1>0, <1>1, <2>2, <2>4
    <3>2. PICK g : Is(g, m - 1)
      <4> HIDE DEF Is
      <4> QED
        BY <1>0, <3>1, Zenon
    <3> DEFINE f == [q \in 0..m |-> IF q < m THEN g[q] ELSE Step(g[m - 1], m)]
    <3>3. ASSUME NEW q \in 0..m
          PROVE  f[q] = IF q = 0 THEN {Saved(fixed)} ELSE Step(f[q - 1], q)
      <4>1. CASE q = m
        <5>1. f[q] = Step(g[m - 1], m) /\ f[q - 1] = g[m - 1]
          BY <2>4, <3>1, <4>1
        <5> QED
          BY <2>4, <4>1, <5>1, Zenon
      <4>2. CASE q < m /\ q = 0
        <5>1. f[q] = g[q] /\ g[q] = {Saved(fixed)}
          BY <3>1, <3>2, <4>2
        <5> QED
          BY <4>2, <5>1, Zenon
      <4>3. CASE q < m /\ q # 0
        <5>1. f[q] = g[q] /\ f[q - 1] = g[q - 1] /\ q \in 0..(m - 1)
          BY <3>1, <4>3
        <5>2. g[q] = Step(g[q - 1], q)
          BY <3>2, <4>3, <5>1
        <5> QED
          BY <4>3, <5>1, <5>2, Zenon
      <4> QED
        BY <3>1, <4>1, <4>2, <4>3
    <3>4. Is(f, m)
      <4> HIDE DEF f
      <4>1. f = [q \in 0..m |-> f[q]]
        BY DEF f
      <4> QED
        BY <3>3, <4>1, Zenon
    <3> HIDE DEF Is
    <3> QED
      BY <1>0, <2>2, <3>4, Zenon
  <2> QED
    BY <2>3, <2>4
<1>3. \E f : Is(f, N)
  <2> HIDE DEF Is
  <2> QED
    BY <1>0, <1>1, <1>2
<1>4. Visits(fixed, only) = CHOOSE f : Is(f, N)
  BY Zenon DEF Visits, N, Step
<1>5. Is(Visits(fixed, only), N)
  <2> HIDE DEF Is
  <2> QED
    BY <1>3, <1>4, Zenon
<1> QED
  BY <1>5, Zenon DEF N, Step, VisitsRule

(* Scheduling every run that is inspected and live keeps the document sound. *)
LEMMA VisitsKeep ==
  ASSUME NEW fixed, NEW only, NEW ex, NEW ru, NEW att, NEW comp,
         AccOk(Saved(fixed), fixed, ex, ru, att, comp), Len(fixed) \in Nat
  PROVE  \A acc \in Visits(fixed, only)[Len(fixed)] : AccOk(acc, fixed, ex, ru, att, comp)
<1> DEFINE N == Len(fixed)
           after == Visits(fixed, only)
           Sound(S) == \A acc \in S : AccOk(acc, fixed, ex, ru, att, comp)
           T == {k \in 0..N : ~Sound(after[k])}
<1>1. N \in Nat
  OBVIOUS
<1>2. after = [q \in 0..N |->
                IF q = 0 THEN {Saved(fixed)}
                ELSE IF q \notin only \/ supervisorTerminal(fixed[q].status)
                        \/ fixed[q].status = "outcome_unknown"
                THEN after[q - 1] ELSE scheduleLocked(after[q - 1], q)]
  <2>1. VisitsRule(after, fixed, only)
    BY VisitsDef, Zenon
  <2> HIDE DEF after
  <2> QED
    BY <2>1, Zenon DEF VisitsRule
<1> HIDE DEF N, after
<1>3. ASSUME T # {}
      PROVE  FALSE
  <2>1. PICK k \in T : \A y \in T : k <= y
    <3>1. T \subseteq Nat
      BY <1>1
    <3> QED
      BY <1>3, <3>1, Least, Zenon
  <2>2. CASE k = 0
    <3>1. after[0] = {Saved(fixed)}
      BY <1>1, <1>2
    <3> QED
      BY <2>1, <2>2, <3>1, Zenon
  <2>3. CASE k # 0
    <3>1. k - 1 \in 0..N /\ k - 1 \notin T /\ k \in 0..N /\ k \in 1..N
      BY <1>1, <2>1, <2>3
    <3>2. Sound(after[k - 1])
      BY <3>1, Zenon
    <3>3. CASE k \notin only \/ supervisorTerminal(fixed[k].status)
               \/ fixed[k].status = "outcome_unknown"
      <4>1. after[k] = after[k - 1]
        BY <1>2, <2>3, <3>1, <3>3, Zenon
      <4> QED
        BY <2>1, <3>2, <4>1, Zenon
    <3>4. CASE ~(k \notin only \/ supervisorTerminal(fixed[k].status)
                 \/ fixed[k].status = "outcome_unknown")
      <4>1. after[k] = scheduleLocked(after[k - 1], k)
        BY <1>2, <2>3, <3>1, <3>4, Zenon
      <4>2. ~supervisorTerminal(fixed[k].status) /\ k \in 1..Len(fixed)
        BY <3>1, <3>4, Zenon DEF N
      <4> QED
        BY <2>1, <3>2, <4>1, <4>2, ScheduleKeeps, Zenon
    <3> QED
      BY <3>3, <3>4
  <2> QED
    BY <2>2, <2>3
<1>4. Sound(after[N])
  BY <1>1, <1>3
<1> QED
  BY <1>4, Zenon DEF after, N

-----------------------------------------------------------------------------
(* What the handlers make of one run. *)

(* A new run is sound: nothing of it runs yet.                               *)
LEMMA NewRunOk ==
  ASSUME NEW s, s.contract \in Contracts, s.items \in SUBSET Items, NEW r, NEW ex, NEW ru,
         NEW att, NEW comp, \A a \in ex \cup ru \cup att : a[1] # r
  PROVE  RunOk(r, NewRun(s), ex, ru, att, comp)
<1> DEFINE t == NewRun(s)
           task == [i \in s.items |-> IF i \in s.ready THEN "ready" ELSE "pending"]
           attempts == [i \in s.items |-> <<>>]
<1>1. t = Run(s.contract, "queued", task, attempts, {}, 0, 0, 0)
  BY Zenon DEF NewRun, Run
<1>2. /\ task \in [s.items -> TaskStatus] /\ attempts \in [s.items -> Seq(TaskStatus)]
      /\ \A i \in s.items : task[i] \notin {"running", "completed"}
      /\ DOMAIN task = s.items
  BY DEF TaskStatus
<1>3. "queued" \in RunStatus /\ 0 \in Nat /\ 0 \in 0..(MaxRetries + 1) /\ {} \in SUBSET s.items
  BY SupervisorConfig DEF RunStatus
<1> HIDE DEF t, task, attempts
<1>4. Typed(t)
  BY <1>1, <1>2, <1>3, TypedRun, Zenon
<1>5. t.status = "queued" /\ t.task = task /\ t.leases = {}
  BY <1>1 DEF Run
<1>6. RunningTasks(t) = {} /\ \A i \in DOMAIN t.task : t.task[i] # "completed"
  BY <1>2, <1>5 DEF RunningTasks
<1>7. ~supervisorTerminal(t.status) /\ t.status # "completed"
  BY <1>5 DEF supervisorTerminal
<1>9. Leased(t)
  BY <1>5, Zenon DEF Leased
<1>10. RunOk(r, t, ex, ru, att, comp)
  BY <1>4, <1>6, <1>7, <1>9 DEF RunOk
<1> QED
  BY <1>10, Zenon DEF t

\* The run t has the attempts of run, save that the last one of every task of L now
\* says st.
Closed(run, t, L, st) ==
    /\ DOMAIN t.task = DOMAIN run.task
    /\ \A i \in DOMAIN run.task : Len(t.attempts[i]) = Len(run.attempts[i])
    /\ \A i \in DOMAIN run.task \ L : t.attempts[i] = run.attempts[i]
    /\ \A i \in L : \A n \in 1..Len(run.attempts[i]) :
         t.attempts[i][n] = IF n = Len(run.attempts[i]) THEN st ELSE run.attempts[i][n]

CloseAttempts(run, L, st) ==
    [i \in DOMAIN run.attempts |->
        IF i \in L THEN [run.attempts[i] EXCEPT ![Len(run.attempts[i])] = st]
        ELSE run.attempts[i]]

\* The sequence e over S is s with x in place k.
Patched(S, s, e, k, x) ==
    /\ e \in Seq(S) /\ Len(e) = Len(s)
    /\ \A n \in 1..Len(s) : e[n] = IF n = k THEN x ELSE s[n]

(* Replacing an element of a sequence.                                       *)
LEMMA Replaced ==
  ASSUME NEW S, NEW s \in Seq(S), NEW k, NEW x \in S
  PROVE  Patched(S, s, [s EXCEPT ![k] = x], k, x)
<1> DEFINE e == [s EXCEPT ![k] = x]
<1>1. e = [n \in 1..Len(s) |-> IF n = k THEN x ELSE s[n]]
  OBVIOUS
<1> HIDE DEF e
<1>2. /\ e \in Seq(S) /\ Len(e) = Len(s)
      /\ \A n \in 1..Len(s) : e[n] = IF n = k THEN x ELSE s[n]
  BY <1>1
<1> QED
  BY <1>2, Zenon DEF e, Patched

(* Closing the last attempts of some tasks.                                  *)
LEMMA ClosedAttempts ==
  ASSUME NEW run, Typed(run), NEW L, NEW st \in TaskStatus, NEW t,
         DOMAIN t.task = DOMAIN run.task,
         t.attempts = CloseAttempts(run, L, st)
  PROVE  t.attempts \in [DOMAIN run.task -> Seq(TaskStatus)]
         /\ (L \subseteq DOMAIN run.task => Closed(run, t, L, st))
<1>1. /\ run.attempts \in [DOMAIN run.task -> Seq(TaskStatus)]
      /\ DOMAIN run.attempts = DOMAIN run.task
  BY Fields, Zenon
<1>2. ASSUME NEW i \in DOMAIN run.task
      PROVE  /\ t.attempts[i] \in Seq(TaskStatus)
             /\ Len(t.attempts[i]) = Len(run.attempts[i])
             /\ i \notin L => t.attempts[i] = run.attempts[i]
             /\ i \in L => \A n \in 1..Len(run.attempts[i]) :
                  t.attempts[i][n] = IF n = Len(run.attempts[i]) THEN st ELSE run.attempts[i][n]
  <2> DEFINE s == run.attempts[i]
  <2>1. s \in Seq(TaskStatus)
    BY <1>1
  <2>2. t.attempts[i] = IF i \in L THEN [s EXCEPT ![Len(s)] = st] ELSE s
    BY <1>1, Zenon DEF CloseAttempts
  <2> HIDE DEF s
  <2>3. Patched(TaskStatus, s, [s EXCEPT ![Len(s)] = st], Len(s), st)
    BY <2>1, Replaced, Zenon
  <2>4. CASE i \in L
    <3>1. Patched(TaskStatus, s, t.attempts[i], Len(s), st)
      BY <2>2, <2>3, <2>4, Zenon
    <3> QED
      BY <2>4, <3>1, Zenon DEF s, Patched
  <2>5. CASE i \notin L
    BY <2>1, <2>2, <2>5, Zenon DEF s
  <2> QED
    BY <2>4, <2>5
<1>3. t.attempts \in [DOMAIN run.task -> Seq(TaskStatus)]
  <2>1. DOMAIN t.attempts = DOMAIN run.task
    BY <1>1, Zenon DEF CloseAttempts
  <2>2. t.attempts = [i \in DOMAIN run.task |-> t.attempts[i]]
    BY <1>1, <2>1, Zenon DEF CloseAttempts
  <2> QED
    BY <1>2, <2>2, Zenon
<1> QED
  BY <1>2, <1>3, Zenon DEF Closed

\* The run t is run, reconciled with the loss of the tasks L.
ReconciledTo(run, L, t) ==
    /\ Typed(t) /\ t.contract = run.contract
    /\ t.status \in {run.status, "outcome_unknown"}
    /\ t.task = [i \in DOMAIN run.task |-> IF i \in L THEN AfterLoss(i) ELSE run.task[i]]
    /\ Closed(run, t, L, "retrying") /\ t.leases = {}

(* The fields of a reconciled run.                                           *)
LEMMA ReconciledFields ==
  ASSUME NEW run, Typed(run), NEW L, L \subseteq DOMAIN run.task
  PROVE  ReconciledTo(run, L, Reconciled(run, L))
<1> DEFINE task == [i \in DOMAIN run.task |-> IF i \in L THEN AfterLoss(i) ELSE run.task[i]]
           attempts == [i \in DOMAIN run.attempts |->
              IF i \in L THEN [run.attempts[i] EXCEPT ![Len(run.attempts[i])] = "retrying"]
              ELSE run.attempts[i]]
           some == \E i \in L : AfterLoss(i) = "outcome_unknown"
           s == IF some THEN "outcome_unknown" ELSE run.status
           free == [run EXCEPT !.leases = {}]
           said == [free EXCEPT !.status = IF some THEN "outcome_unknown" ELSE free.status]
           back == [said EXCEPT !.task = task]
           t == [back EXCEPT !.attempts = attempts]
<1>1. Reconciled(run, L) = t
  <2> HIDE DEF task, attempts, some
  <2>1. Reconciled(run, L) =
          [run EXCEPT !.leases = {}, !.status = IF some THEN "outcome_unknown" ELSE @,
                      !.task = task, !.attempts = attempts]
    BY Zenon DEF Reconciled, task, attempts, some
  <2> QED
    BY <2>1
<1>2. task \in [DOMAIN run.task -> TaskStatus] /\ s \in RunStatus /\ s \in {run.status, "outcome_unknown"}
  <2>1. \A i : AfterLoss(i) \in TaskStatus
    BY Zenon DEF AfterLoss, TaskStatus
  <2>2. run.task \in [DOMAIN run.task -> TaskStatus] /\ run.status \in RunStatus
        /\ "outcome_unknown" \in RunStatus
    BY Fields, Zenon DEF RunStatus
  <2>3. \A i \in DOMAIN run.task : run.task[i] \in TaskStatus
    BY <2>2, Zenon
  <2> QED
    BY <2>1, <2>2, <2>3, Zenon
<1> HIDE DEF task, attempts, some, s, free, said, back, t
<1>3. t = Run(run.contract, s, task, attempts, {}, run.usage, run.projection, run.retries)
  <2>1. free = Run(run.contract, run.status, run.task, run.attempts, {}, run.usage,
                   run.projection, run.retries)
    BY Whole DEF free, Run
  <2>2. free.status = run.status
    BY <2>1 DEF Run
  <2>3. said = [free EXCEPT !.status = s]
    BY <2>2, Zenon DEF said, s
  <2>4. said = Run(run.contract, s, run.task, run.attempts, {}, run.usage,
                   run.projection, run.retries)
    BY <2>1, <2>3 DEF Run
  <2>5. back = Run(run.contract, s, task, run.attempts, {}, run.usage,
                   run.projection, run.retries)
    BY <2>4 DEF back, Run
  <2> QED
    BY <2>5 DEF t, Run
<1>4. /\ t.contract = run.contract /\ t.status = s /\ t.task = task
      /\ t.attempts = attempts /\ t.leases = {}
  BY <1>3 DEF Run
<1>5. DOMAIN t.task = DOMAIN run.task /\ "retrying" \in TaskStatus
  BY <1>4 DEF task, TaskStatus
<1>6. t.attempts \in [DOMAIN run.task -> Seq(TaskStatus)] /\ Closed(run, t, L, "retrying")
  <2>1. t.attempts = CloseAttempts(run, L, "retrying")
    BY <1>4, Zenon DEF attempts, CloseAttempts
  <2> QED
    BY <1>5, <2>1, ClosedAttempts, Zenon
<1>7. Typed(t)
  <2>1. attempts \in [DOMAIN run.task -> Seq(TaskStatus)] /\ {} \in SUBSET DOMAIN run.task
    BY <1>4, <1>6, Zenon
  <2> QED
    BY <1>2, <1>3, <2>1, Fields, TypedRun, Zenon
<1> QED
  BY <1>1, <1>2, <1>4, <1>6, <1>7, Zenon DEF task, ReconciledTo

\* What closing the last attempts of the tasks L leaves of an attempt.
Survives(run, t, L, a) ==
    /\ Known(t, a) /\ Works(t, a)
    /\ t.attempts[a[2]][a[3]] = "running" <=>
         run.attempts[a[2]][a[3]] = "running" /\ a[2] \notin L

(* An attempt that runs is the last of its task, so closing the last         *)
(* attempts leaves the other ones that run as they are.                      *)
LEMMA ClosedWorks ==
  ASSUME NEW run, Typed(run), NEW t, NEW L, NEW st, Closed(run, t, L, st), st # "running",
         L \subseteq DOMAIN run.task,
         \A i \in DOMAIN run.task \ L : run.task[i] = "running" => t.task[i] = "running",
         NEW a, Known(run, a), Works(run, a)
  PROVE  Survives(run, t, L, a)
<1>1. /\ a[2] \in DOMAIN run.task /\ a[3] \in 1..Len(run.attempts[a[2]])
      /\ DOMAIN t.task = DOMAIN run.task /\ Len(t.attempts[a[2]]) = Len(run.attempts[a[2]])
  BY Zenon DEF Known, Closed
<1>2. Known(t, a)
  BY <1>1, Zenon DEF Known
<1>3. CASE a[2] \in L
  <2>1. t.attempts[a[2]][a[3]] =
          IF a[3] = Len(run.attempts[a[2]]) THEN st ELSE run.attempts[a[2]][a[3]]
    BY <1>1, <1>3, Zenon DEF Closed
  <2>2. t.attempts[a[2]][a[3]] # "running"
    <3>1. CASE a[3] = Len(run.attempts[a[2]])
      BY <2>1, <3>1, Zenon
    <3>2. CASE a[3] # Len(run.attempts[a[2]])
      BY <2>1, <3>2, Zenon DEF Works
    <3> QED
      BY <3>1, <3>2
  <2> QED
    BY <1>2, <1>3, <2>2, Zenon DEF Survives, Works
<1>4. CASE a[2] \notin L
  <2>1. t.attempts[a[2]] = run.attempts[a[2]]
    BY <1>1, <1>4, Zenon DEF Closed
  <2> QED
    BY <1>1, <1>2, <1>4, <2>1, Zenon DEF Survives, Works
<1> QED
  BY <1>3, <1>4

\* Every element of ex is a triple: a run, an item, a number.
Triples(ex) == \A a \in ex : a = <<a[1], a[2], a[3]>>

\* The tasks that run with an attempt that is none of ru.
Unowned(r, run, ru) == {i \in RunningTasks(run) : <<r, i, Len(run.attempts[i])>> \notin ru}

\* The run t, made of run by giving up the attempts at L, is sound.
GivenUp(r, run, ex, ru, att, comp, L, t) ==
    /\ RunOk(r, t, ex, ru, att, comp)
    /\ t.contract = run.contract /\ ~supervisorTerminal(t.status)
    /\ DOMAIN t.task = DOMAIN run.task
    /\ \A i \in L \cap External : t.task[i] = "outcome_unknown"
    /\ \A i \in DOMAIN run.task \ L : t.task[i] = run.task[i]
    /\ \A i \in DOMAIN run.task : Len(t.attempts[i]) = Len(run.attempts[i])

(* Reconciling a run whose lost tasks are L keeps it sound.                  *)
LEMMA ReconciledKeeps ==
  ASSUME NEW r, NEW run, NEW ex, NEW ru, NEW att, NEW comp, NEW L, NEW t,
         RunOk(r, run, ex, ru, att, comp), ru \subseteq ex,
         Triples(ex), ~supervisorTerminal(run.status),
         L = Unowned(r, run, ru), L # {}, t = Reconciled(run, L)
  PROVE  GivenUp(r, run, ex, ru, att, comp, L, t)
<1> L = {i \in RunningTasks(run) : <<r, i, Len(run.attempts[i])>> \notin ru}
  BY Zenon DEF Unowned
<1>1. Typed(run) /\ L \subseteq DOMAIN run.task /\ L \subseteq RunningTasks(run)
  BY Zenon DEF RunOk, RunningTasks
<1>2. /\ Typed(t) /\ t.contract = run.contract
      /\ t.status \in {run.status, "outcome_unknown"}
      /\ t.task = [i \in DOMAIN run.task |-> IF i \in L THEN AfterLoss(i) ELSE run.task[i]]
      /\ Closed(run, t, L, "retrying") /\ t.leases = {}
  <2>1. ReconciledTo(run, L, t)
    BY <1>1, ReconciledFields, Zenon
  <2> QED
    BY <2>1, Zenon DEF ReconciledTo
<1>3. /\ DOMAIN t.task = DOMAIN run.task
      /\ \A i \in DOMAIN run.task : i \in L => t.task[i] = AfterLoss(i)
      /\ \A i \in DOMAIN run.task : i \notin L => t.task[i] = run.task[i]
  BY <1>2, Zenon
<1>4. \A i : AfterLoss(i) \in {"ready", "outcome_unknown"}
  BY Zenon DEF AfterLoss
<1>5. RunningTasks(t) = RunningTasks(run) \ L
  BY <1>3, <1>4 DEF RunningTasks
<1>6. ~supervisorTerminal(t.status) /\ t.status # "completed"
  BY <1>2 DEF supervisorTerminal
<1>7. \A i \in DOMAIN t.task : t.task[i] = "completed" => run.task[i] = "completed"
  BY <1>1, <1>3, <1>4
<1>8. \A i \in DOMAIN run.task \ L : run.task[i] = "running" => t.task[i] = "running"
  BY <1>3, Zenon
<1>9. ASSUME NEW a \in ex, a[1] = r
      PROVE  Survives(run, t, L, a)
  <2>1. Known(run, a) /\ Works(run, a)
    BY <1>9, Zenon DEF RunOk
  <2> QED
    BY <1>1, <1>2, <1>8, <2>1, ClosedWorks
<1>10. \A i \in DOMAIN run.task : Len(t.attempts[i]) = Len(run.attempts[i])
  BY <1>2, Zenon DEF Closed
<1>11. \A a \in att : a[1] = r => Known(t, a)
  BY <1>3, <1>10, Zenon DEF RunOk, Known
<1>12. ASSUME NEW a \in ru, a[1] = r
       PROVE  t.attempts[a[2]][a[3]] = "running"
  <2>1. a \in ex /\ Known(run, a) /\ Works(run, a) /\ run.attempts[a[2]][a[3]] = "running"
    BY <1>12, Zenon DEF RunOk
  <2>2. a = <<a[1], a[2], a[3]>>
    BY <2>1, Zenon DEF Triples
  <2>3. a = <<r, a[2], Len(run.attempts[a[2]])>>
    BY <1>12, <2>1, <2>2, Zenon DEF Works
  <2>4. a[2] \notin L
    BY <1>12, <2>3, Zenon
  <2> QED
    BY <1>9, <1>12, <2>1, <2>4, Zenon DEF Survives
<1>14. Leased(t)
  BY <1>2, Zenon DEF Leased
<1>15. \A i \in L \cap External : t.task[i] = "outcome_unknown"
  BY <1>1, <1>3, Zenon DEF AfterLoss
<1>16. \A i \in DOMAIN t.task : t.task[i] = "completed" => Verified(att, r, i)
  BY <1>3, <1>7, Zenon DEF RunOk
<1>17. \A i \in RunningTasks(t) : \A d \in DependsOn[i] : Verified(att, r, d)
  BY <1>5, Zenon DEF RunOk
<1>18. \A a \in ex : a[1] = r => Known(t, a) /\ Works(t, a)
  BY <1>9, Zenon DEF Survives
<1>19. RunOk(r, t, ex, ru, att, comp)
  BY <1>2, <1>6, <1>11, <1>12, <1>14, <1>16, <1>17, <1>18, Zenon DEF RunOk
<1> QED
  BY <1>2, <1>3, <1>6, <1>10, <1>15, <1>19, Zenon DEF GivenUp

\* The run t is run, cancelled.
CancelledTo(run, t) ==
    /\ Typed(t) /\ t.contract = run.contract /\ t.status = "cancelled"
    /\ t.task = [i \in DOMAIN run.task |->
                   IF run.task[i] = "completed" THEN "completed" ELSE "cancelled"]
    /\ Closed(run, t, RunningTasks(run), "cancelled") /\ t.leases = {}

(* The fields of a cancelled run.                                            *)
LEMMA CancelledFields ==
  ASSUME NEW run, Typed(run)
  PROVE  CancelledTo(run, Cancelled(run))
<1> DEFINE task == [i \in DOMAIN run.task |->
                      IF run.task[i] = "completed" THEN "completed" ELSE "cancelled"]
           attempts == [i \in DOMAIN run.attempts |->
              IF run.task[i] = "running"
              THEN [run.attempts[i] EXCEPT ![Len(run.attempts[i])] = "cancelled"]
              ELSE run.attempts[i]]
           said == [run EXCEPT !.status = "cancelled"]
           free == [said EXCEPT !.leases = {}]
           charged == [free EXCEPT !.projection = run.usage]
           back == [charged EXCEPT !.task = task]
           t == [back EXCEPT !.attempts = attempts]
<1>1. Cancelled(run) = t
  <2> HIDE DEF task, attempts
  <2>1. Cancelled(run) =
          [run EXCEPT !.status = "cancelled", !.leases = {}, !.projection = run.usage,
                      !.task = task, !.attempts = attempts]
    BY Zenon DEF Cancelled, task, attempts
  <2> QED
    BY <2>1
<1>2. task \in [DOMAIN run.task -> TaskStatus] /\ DOMAIN task = DOMAIN run.task
  BY DEF TaskStatus
<1>3. attempts = CloseAttempts(run, RunningTasks(run), "cancelled")
  <2>1. \A i \in DOMAIN run.attempts : run.task[i] = "running" <=> i \in RunningTasks(run)
    BY Zenon DEF RunningTasks, Typed
  <2> QED
    BY <2>1, Zenon DEF CloseAttempts
<1> HIDE DEF task, attempts, said, free, charged, back, t
<1>4. t = Run(run.contract, "cancelled", task, attempts, {}, run.usage, run.usage, run.retries)
  <2>1. said = Run(run.contract, "cancelled", run.task, run.attempts, run.leases, run.usage,
                   run.projection, run.retries)
    BY Whole DEF said, Run
  <2>2. free = Run(run.contract, "cancelled", run.task, run.attempts, {}, run.usage,
                   run.projection, run.retries)
    BY <2>1 DEF free, Run
  <2>3. charged = Run(run.contract, "cancelled", run.task, run.attempts, {}, run.usage,
                      run.usage, run.retries)
    BY <2>2 DEF charged, Run
  <2>4. back = Run(run.contract, "cancelled", task, run.attempts, {}, run.usage,
                   run.usage, run.retries)
    BY <2>3 DEF back, Run
  <2> QED
    BY <2>4 DEF t, Run
<1>5. /\ t.contract = run.contract /\ t.status = "cancelled" /\ t.task = task
      /\ t.attempts = attempts /\ t.leases = {}
  BY <1>4 DEF Run
<1>6. "cancelled" \in TaskStatus /\ "cancelled" \in RunStatus
      /\ RunningTasks(run) \subseteq DOMAIN run.task /\ {} \in SUBSET DOMAIN run.task
  BY Zenon DEF TaskStatus, RunStatus, RunningTasks
<1>7. /\ t.attempts \in [DOMAIN run.task -> Seq(TaskStatus)]
      /\ Closed(run, t, RunningTasks(run), "cancelled")
  BY <1>2, <1>3, <1>5, <1>6, ClosedAttempts, Zenon
<1>8. Typed(t)
  <2>1. attempts \in [DOMAIN run.task -> Seq(TaskStatus)]
    BY <1>5, <1>7, Zenon
  <2> QED
    BY <1>2, <1>4, <1>6, <2>1, Fields, TypedRun, Zenon
<1> QED
  BY <1>1, <1>5, <1>7, <1>8, Zenon DEF CancelledTo, task

(* Cancelling a run closes the attempts that run, and forgets them.          *)
LEMMA CancelledKeeps ==
  ASSUME NEW r, NEW run, NEW ex, NEW ru, NEW att, NEW comp, NEW t, NEW ru2,
         RunOk(r, run, ex, ru, att, comp), t = Cancelled(run), ru2 \subseteq ru, \A a \in ru2 : a[1] # r
  PROVE  RunOk(r, t, ex, ru2, att, comp)
<1> DEFINE L == RunningTasks(run)
<1>1. Typed(run) /\ L \subseteq DOMAIN run.task
  BY Zenon DEF RunOk, RunningTasks
<1>2. /\ Typed(t) /\ t.contract = run.contract /\ t.status = "cancelled"
      /\ t.task = [i \in DOMAIN run.task |->
                     IF run.task[i] = "completed" THEN "completed" ELSE "cancelled"]
      /\ Closed(run, t, L, "cancelled") /\ t.leases = {}
  <2>1. CancelledTo(run, t)
    BY <1>1, CancelledFields, Zenon
  <2> QED
    BY <2>1, Zenon DEF CancelledTo
<1>3. /\ DOMAIN t.task = DOMAIN run.task
      /\ \A i \in DOMAIN run.task : t.task[i] = "completed" => run.task[i] = "completed"
      /\ \A i \in DOMAIN run.task : t.task[i] # "running"
  BY <1>2
<1>4. RunningTasks(t) = {} /\ t.status # "completed" /\ supervisorTerminal(t.status)
  BY <1>2, <1>3 DEF RunningTasks, supervisorTerminal
<1>5. \A i \in DOMAIN run.task \ L : run.task[i] = "running" => t.task[i] = "running"
  BY Zenon DEF RunningTasks
<1>6. ASSUME NEW a \in ex, a[1] = r
      PROVE  Known(t, a) /\ Works(t, a) /\ t.attempts[a[2]][a[3]] # "running"
  <2>1. Known(run, a) /\ Works(run, a)
    BY <1>6, Zenon DEF RunOk
  <2> HIDE DEF L
  <2>2. Survives(run, t, L, a)
    BY <1>1, <1>2, <1>5, <2>1, ClosedWorks
  <2>3. Known(t, a) /\ Works(t, a)
    BY <2>2, Zenon DEF Survives
  <2>4. ASSUME t.attempts[a[2]][a[3]] = "running"
        PROVE  FALSE
    <3>1. a[2] \in RunningTasks(t)
      BY <2>3, <2>4, Zenon DEF Known, Works, RunningTasks
    <3> QED
      BY <1>4, <3>1, Zenon
  <2> QED
    BY <2>3, <2>4
<1>7. \A i \in DOMAIN run.task : Len(t.attempts[i]) = Len(run.attempts[i])
  BY <1>2, Zenon DEF Closed
<1>8. \A a \in att : a[1] = r => Known(t, a)
  BY <1>3, <1>7, Zenon DEF RunOk, Known
<1>9. Leased(t)
  BY <1>2, Zenon DEF Leased
<1>10. \A i \in DOMAIN t.task : t.task[i] = "completed" => Verified(att, r, i)
  BY <1>3, Zenon DEF RunOk
<1>11. RunOk(r, t, ex, ru2, att, comp)
  BY <1>2, <1>4, <1>6, <1>8, <1>9, <1>10, Zenon DEF RunOk
<1> QED
  BY <1>2, <1>4, <1>7, <1>11, Zenon

(* A run stays sound when attempts are no longer known or executing, and     *)
(* when more contracts are completed.                                        *)
LEMMA FewerAttempts ==
  ASSUME NEW r, NEW run, NEW ex, NEW ru, NEW att, NEW comp, NEW ex2, NEW ru2, NEW comp2,
         RunOk(r, run, ex, ru, att, comp), ex2 \subseteq ex, ru2 \subseteq ru,
         comp \subseteq comp2
  PROVE  RunOk(r, run, ex2, ru2, att, comp2)
BY Zenon DEF RunOk

-----------------------------------------------------------------------------
(* What finishAttempt makes of a run. *)

\* The run t is run, with the n-th attempt at task i recorded.
FinishedTo(run, i, n, verified, t) ==
    /\ Typed(t) /\ t.contract = run.contract /\ DOMAIN t.task = DOMAIN run.task
    /\ t.status # "cancelled"
    /\ t.status = "completed" => \A j \in DOMAIN t.task : t.task[j] = "completed"
    /\ t.task[i] # "running" /\ (t.task[i] = "completed" => verified)
    /\ \A j \in DOMAIN run.task \ {i} :
         /\ t.attempts[j] = run.attempts[j]
         /\ t.task[j] = run.task[j] \/ (run.task[j] = "pending" /\ t.task[j] = "ready")
    /\ Patched(TaskStatus, run.attempts[i], t.attempts[i], n, t.attempts[i][n])
    /\ t.attempts[i][n] # "running"
    /\ t.leases = run.leases \ {i}

(* The status that finalizeSupervisorRun gives a run.                        *)
LEMMA FinalStatus ==
  ASSUME NEW run
  PROVE  /\ finalStatus(run) \in RunStatus /\ finalStatus(run) # "cancelled"
         /\ finalStatus(run) = "completed" =>
              \A i \in DOMAIN run.task : run.task[i] = "completed"
<1>1. finalStatus(run) \in {"outcome_unknown", "paused", "completed", "working", "blocked", "waiting"}
  BY Zenon DEF finalStatus
<1>2. finalStatus(run) \in RunStatus /\ finalStatus(run) # "cancelled"
  BY <1>1 DEF RunStatus
<1>3. finalStatus(run) = "completed" => \A i \in DOMAIN run.task : run.task[i] = "completed"
  <2> DEFINE all == \A i \in DOMAIN run.task : run.task[i] = "completed"
             unknown == \E i \in DOMAIN run.task : run.task[i] \in {"outcome_unknown"}
             works == \E i \in DOMAIN run.task : run.task[i] \in {"running", "ready", "retrying"}
             stuck == \E i \in DOMAIN run.task : run.task[i] \in {"blocked", "waiting_evidence"}
  <2>1. finalStatus(run) =
          IF unknown THEN "outcome_unknown" ELSE IF budgetExceeded(run) THEN "paused"
          ELSE IF all THEN "completed" ELSE IF works THEN "working"
          ELSE IF stuck THEN "blocked" ELSE "waiting"
    BY Zenon DEF finalStatus
  <2> HIDE DEF all, unknown, works, stuck
  <2>2. finalStatus(run) = "completed" => all
    BY <2>1
  <2> QED
    BY <2>2, Zenon DEF all
<1> QED
  BY <1>2, <1>3, Zenon

(* The verdicts: a task completes only with verified artifacts, and is       *)
(* retried only within the budget.                                           *)
LEMMA VerdictIs ==
  ASSUME NEW run, NEW i, NEW o \in Outcomes, NEW verified
  PROVE  /\ Verdict(run, i, o, verified) \in
               {"retry", "blocked", "outcome_unknown", "completed", "waiting_evidence"}
         /\ Verdict(run, i, o, verified) = "completed" => verified
         /\ Verdict(run, i, o, verified) = "retry" => ~budgetExceeded(run)
<1> DEFINE over == specialistBudgetExceeded(o)
           v == Verdict(run, i, o, verified)
           retry == IF Len(run.attempts[i]) <= MaxRetries /\ ~budgetExceeded(run)
                    THEN "retry" ELSE "blocked"
<1>1. o.result \in {"completed", "unaccounted", "error", "uncertain_error",
                    "outcome_unknown", "inconclusive"}
  BY Zenon DEF Outcomes
<1>2. v = CASE over \/ o.result = "unaccounted" -> "blocked"
            [] ~over /\ o.result = "error" -> retry
            [] ~over /\ o.result = "uncertain_error" -> "blocked"
            [] ~over /\ o.result = "outcome_unknown" -> "outcome_unknown"
            [] ~over /\ o.result = "completed" -> IF verified THEN "completed" ELSE "waiting_evidence"
            [] ~over /\ o.result = "inconclusive" -> "waiting_evidence"
  BY Zenon DEF Verdict
<1>3. retry \in {"retry", "blocked"} /\ (retry = "retry" => ~budgetExceeded(run))
  BY Zenon
<1> DEFINE claimed == IF verified THEN "completed" ELSE "waiting_evidence"
<1>4. claimed \in {"completed", "waiting_evidence"} /\ (claimed = "completed" => verified)
  BY Zenon
<1> HIDE DEF over, v, retry, claimed
<1>5. v = CASE over \/ o.result = "unaccounted" -> "blocked"
            [] ~over /\ o.result = "error" -> retry
            [] ~over /\ o.result = "uncertain_error" -> "blocked"
            [] ~over /\ o.result = "outcome_unknown" -> "outcome_unknown"
            [] ~over /\ o.result = "completed" -> claimed
            [] ~over /\ o.result = "inconclusive" -> "waiting_evidence"
  BY <1>2, Zenon DEF claimed
<1>6. CASE over \/ o.result = "unaccounted"
  <2>1. v = "blocked"
    BY <1>5, <1>6
  <2> QED
    BY <2>1 DEF v
<1>7. CASE ~over /\ o.result = "error"
  <2>1. v = retry
    BY <1>5, <1>7
  <2> QED
    BY <1>3, <2>1 DEF v
<1>8. CASE ~over /\ o.result = "uncertain_error"
  <2>1. v = "blocked"
    BY <1>5, <1>8
  <2> QED
    BY <2>1 DEF v
<1>9. CASE ~over /\ o.result = "outcome_unknown"
  <2>1. v = "outcome_unknown"
    BY <1>5, <1>9
  <2> QED
    BY <2>1 DEF v
<1>10. CASE ~over /\ o.result = "completed"
  <2>1. v = claimed
    BY <1>5, <1>10
  <2> QED
    BY <1>4, <2>1 DEF v
<1>11. CASE ~over /\ o.result = "inconclusive"
  <2>1. v = "waiting_evidence"
    BY <1>5, <1>11
  <2> QED
    BY <2>1 DEF v
<1> QED
  BY <1>1, <1>6, <1>7, <1>8, <1>9, <1>10, <1>11, Zenon

(* Recording an attempt.                                                     *)
LEMMA RecordedFields ==
  ASSUME NEW run, Typed(run), NEW i \in DOMAIN run.task, NEW n \in 1..Len(run.attempts[i]),
         NEW o \in Outcomes, NEW verified
  PROVE  FinishedTo(run, i, n, verified, Recorded(run, i, n, o, verified))
<1> DEFINE left == run.leases \ {i}
           used == run.usage + o.usage
           spent == [run EXCEPT !.usage = run.usage + o.usage]
           charged == [spent EXCEPT !.leases = releaseTaskLeases(spent.leases, i)]
           verdict == Verdict(charged, i, o, verified)
           w == IF verdict = "retry" THEN "ready" ELSE verdict
           x == IF verdict = "retry" THEN "retrying" ELSE verdict
           told == [charged EXCEPT !.task = [charged.task EXCEPT ![i] = w]]
           closed == [told EXCEPT !.attempts =
                        [told.attempts EXCEPT ![i] = [told.attempts[i] EXCEPT ![n] = x]]]
           noted == [closed EXCEPT !.retries = IF verdict = "retry" THEN closed.retries + 1
                                               ELSE closed.retries]
           task == [run.task EXCEPT ![i] = w]
           last == [run.attempts[i] EXCEPT ![n] = x]
           attempts == [run.attempts EXCEPT ![i] = last]
           again == IF verdict = "retry" THEN run.retries + 1 ELSE run.retries
           ready == [j \in DOMAIN noted.task |->
                       IF noted.task[j] = "pending" /\ supervisorDependenciesComplete(noted, j)
                       THEN "ready" ELSE noted.task[j]]
           fresh == [noted EXCEPT !.task = ready]
           done == [fresh EXCEPT !.status = finalStatus(fresh)]
<1>1. Recorded(run, i, n, o, verified) = done
  <2>1. [run EXCEPT !.usage = @ + o.usage, !.leases = releaseTaskLeases(@, i)] = charged
    OBVIOUS
  <2> HIDE DEF charged, spent
  <2>2. [charged EXCEPT !.task[i] = IF verdict = "retry" THEN "ready" ELSE verdict,
                        !.attempts[i][n] = IF verdict = "retry" THEN "retrying" ELSE verdict,
                        !.retries = IF verdict = "retry" THEN @ + 1 ELSE @] = noted
    <3> HIDE DEF verdict
    <3> QED
      OBVIOUS
  <2> HIDE DEF noted
  <2>3. finalizeSupervisorRun(refreshSupervisorReady(noted)) = done
    BY Zenon DEF finalizeSupervisorRun, refreshSupervisorReady
  <2> HIDE DEF done
  <2>4. Recorded(run, i, n, o, verified) =
          finalizeSupervisorRun(refreshSupervisorReady(
            [charged EXCEPT !.task[i] = IF verdict = "retry" THEN "ready" ELSE verdict,
                            !.attempts[i][n] = IF verdict = "retry" THEN "retrying" ELSE verdict,
                            !.retries = IF verdict = "retry" THEN @ + 1 ELSE @]))
    BY <2>1, Zenon DEF Recorded
  <2> QED
    BY <2>2, <2>3, <2>4, Zenon
<1> HIDE DEF left, used, spent, charged, verdict, w, x, told, closed, noted, task, last,
             attempts, again, ready, fresh, done
<1>2. charged = Run(run.contract, run.status, run.task, run.attempts, left, used,
                    run.projection, run.retries)
  <2>1. spent = [run EXCEPT !.usage = used]
    BY Zenon DEF spent, used
  <2>2. spent = Run(run.contract, run.status, run.task, run.attempts, run.leases, used,
                    run.projection, run.retries)
    BY <2>1, Whole DEF Run
  <2>3. spent.leases = run.leases
    BY <2>2 DEF Run
  <2>4. charged = [spent EXCEPT !.leases = left]
    BY <2>3, Zenon DEF charged, left, releaseTaskLeases
  <2> QED
    BY <2>2, <2>4 DEF Run
<1>3. /\ verdict \in {"retry", "blocked", "outcome_unknown", "completed", "waiting_evidence"}
      /\ verdict = "completed" => verified
      /\ verdict = "retry" => ~budgetExceeded(charged)
  BY VerdictIs, Zenon DEF verdict
<1>4. /\ w \in TaskStatus /\ w # "running" /\ w # "pending" /\ (w = "completed" => verified)
      /\ x \in TaskStatus /\ x # "running"
  BY <1>3 DEF w, x, TaskStatus
<1>5. again \in 0..(MaxRetries + 1)
  <2>1. charged.retries = run.retries /\ run.retries \in 0..(MaxRetries + 1)
    BY <1>2, Fields DEF Run
  <2>2. CASE verdict = "retry"
    <3>1. ~(charged.retries > MaxRetries)
      BY <1>3, <2>2, Zenon DEF budgetExceeded
    <3> QED
      BY <2>1, <2>2, <3>1, SupervisorConfig DEF again
  <2>3. CASE verdict # "retry"
    BY <2>1, <2>3, Zenon DEF again
  <2> QED
    BY <2>2, <2>3
<1>6. noted = Run(run.contract, run.status, task, attempts, left, used, run.projection, again)
  <2>1. charged.task = run.task
    BY <1>2 DEF Run
  <2>2. told = [charged EXCEPT !.task = task]
    BY <2>1, Zenon DEF told, task
  <2>3. told = Run(run.contract, run.status, task, run.attempts, left, used,
                   run.projection, run.retries)
    BY <1>2, <2>2 DEF Run
  <2>4. told.attempts = run.attempts
    BY <2>3 DEF Run
  <2>5. closed = [told EXCEPT !.attempts = attempts]
    BY <2>4, Zenon DEF closed, attempts, last
  <2>6. closed = Run(run.contract, run.status, task, attempts, left, used,
                     run.projection, run.retries)
    BY <2>3, <2>5 DEF Run
  <2>7. closed.retries = run.retries
    BY <2>6 DEF Run
  <2>8. noted = [closed EXCEPT !.retries = again]
    BY <2>7, Zenon DEF noted, again
  <2> QED
    BY <2>6, <2>8 DEF Run
<1>7. /\ run.task \in [DOMAIN run.task -> TaskStatus]
      /\ run.attempts \in [DOMAIN run.task -> Seq(TaskStatus)]
      /\ DOMAIN run.task \in SUBSET Items /\ run.leases \subseteq DOMAIN run.task
      /\ run.contract \in Contracts /\ run.projection \in Nat /\ run.usage \in Nat
  BY Fields, Zenon
<1>8. /\ task \in [DOMAIN run.task -> TaskStatus] /\ task[i] = w
      /\ \A j \in DOMAIN run.task \ {i} : task[j] = run.task[j]
  BY <1>4, <1>7 DEF task
<1>9. Patched(TaskStatus, run.attempts[i], last, n, x)
  <2>1. run.attempts[i] \in Seq(TaskStatus)
    BY <1>7, Zenon
  <2> QED
    BY <1>4, <2>1, Replaced, Zenon DEF last
<1>10. /\ attempts \in [DOMAIN run.task -> Seq(TaskStatus)] /\ attempts[i] = last
       /\ \A j \in DOMAIN run.task \ {i} : attempts[j] = run.attempts[j]
  <2>1. last \in Seq(TaskStatus)
    BY <1>9, Zenon DEF Patched
  <2> QED
    BY <1>7, <2>1 DEF attempts
<1>11. last[n] = x
  BY <1>9, Zenon DEF Patched
<1>12. noted.task = task
  BY <1>6 DEF Run
<1>13. ASSUME NEW j \in DOMAIN run.task
       PROVE  /\ ready[j] \in TaskStatus
              /\ ready[j] = task[j] \/ (task[j] = "pending" /\ ready[j] = "ready")
  <2>1. ready[j] = IF task[j] = "pending" /\ supervisorDependenciesComplete(noted, j)
                   THEN "ready" ELSE task[j]
    BY <1>8, <1>12 DEF ready
  <2>2. task[j] \in TaskStatus /\ "ready" \in TaskStatus
    BY <1>8 DEF TaskStatus
  <2>3. CASE task[j] = "pending" /\ supervisorDependenciesComplete(noted, j)
    BY <2>1, <2>2, <2>3, Zenon
  <2>4. CASE ~(task[j] = "pending" /\ supervisorDependenciesComplete(noted, j))
    BY <2>1, <2>2, <2>4, Zenon
  <2> QED
    BY <2>3, <2>4, Zenon
<1>14. ready \in [DOMAIN run.task -> TaskStatus] /\ DOMAIN ready = DOMAIN run.task
  <2>1. DOMAIN ready = DOMAIN run.task /\ ready = [j \in DOMAIN run.task |-> ready[j]]
    BY <1>8, <1>12 DEF ready
  <2> QED
    BY <1>13, <2>1, Zenon
<1>15. ready[i] = w
  BY <1>4, <1>8, <1>13, Zenon
<1>16. fresh = Run(run.contract, run.status, ready, attempts, left, used, run.projection, again)
  BY <1>6 DEF fresh, Run
<1>17. done = Run(run.contract, finalStatus(fresh), ready, attempts, left, used, run.projection, again)
  BY <1>16 DEF done, Run
<1>18. /\ finalStatus(fresh) \in RunStatus /\ finalStatus(fresh) # "cancelled"
       /\ finalStatus(fresh) = "completed" =>
             \A j \in DOMAIN fresh.task : fresh.task[j] = "completed"
  BY FinalStatus, Zenon
<1>19. /\ done.contract = run.contract /\ done.status = finalStatus(fresh) /\ done.task = ready
       /\ done.attempts = attempts /\ done.leases = left /\ fresh.task = ready
  BY <1>16, <1>17 DEF Run
<1>20. left \in SUBSET DOMAIN run.task /\ used \in Nat
  <2>1. o.usage \in Nat
    BY SupervisorConfig DEF Outcomes
  <2> QED
    BY <1>7, <2>1 DEF left, used
<1>21. Typed(done)
  BY <1>5, <1>7, <1>10, <1>14, <1>17, <1>18, <1>20, TypedRun, Zenon
<1>22. \A j \in DOMAIN run.task \ {i} :
         /\ done.attempts[j] = run.attempts[j]
         /\ done.task[j] = run.task[j] \/ (run.task[j] = "pending" /\ done.task[j] = "ready")
  BY <1>8, <1>10, <1>13, <1>19, Zenon
<1>23. /\ Patched(TaskStatus, run.attempts[i], done.attempts[i], n, done.attempts[i][n])
       /\ done.attempts[i][n] # "running"
  BY <1>4, <1>9, <1>10, <1>11, <1>19, Zenon
<1>24. done.task[i] # "running" /\ (done.task[i] = "completed" => verified)
  BY <1>4, <1>15, <1>19, Zenon
<1>25. done.status = "completed" => \A j \in DOMAIN done.task : done.task[j] = "completed"
  BY <1>18, <1>19, Zenon
<1> QED
  BY <1>1, <1>14, <1>18, <1>19, <1>21, <1>22, <1>23, <1>24, <1>25, Zenon DEF FinishedTo, left

(* When the contract cannot be completed, the task waits for evidence.       *)
LEMMA UnfinishedFields ==
  ASSUME NEW run, Typed(run), NEW i \in DOMAIN run.task, NEW n \in 1..Len(run.attempts[i]),
         NEW verified, NEW d, FinishedTo(run, i, n, verified, d)
  PROVE  /\ FinishedTo(run, i, n, verified, Unfinished(d, i, n))
         /\ Unfinished(d, i, n).status # "completed"
<1> DEFINE x == "waiting_evidence"
           task == [d.task EXCEPT ![i] = x]
           last == [d.attempts[i] EXCEPT ![n] = x]
           attempts == [d.attempts EXCEPT ![i] = last]
           told == [d EXCEPT !.task = task]
           closed == [told EXCEPT !.attempts =
                        [told.attempts EXCEPT ![i] = [told.attempts[i] EXCEPT ![n] = x]]]
           t == [closed EXCEPT !.status = finalStatus(closed)]
<1>1. Unfinished(d, i, n) = t
  <2>1. [d EXCEPT !.task[i] = "waiting_evidence", !.attempts[i][n] = "waiting_evidence"] = closed
    OBVIOUS
  <2> HIDE DEF closed
  <2> QED
    BY <2>1, Zenon DEF Unfinished, finalizeSupervisorRun
<1>2. x \in TaskStatus /\ x # "running" /\ x # "completed"
  BY DEF TaskStatus
<1>3. /\ Typed(d) /\ d.contract = run.contract /\ DOMAIN d.task = DOMAIN run.task
      /\ \A j \in DOMAIN run.task \ {i} :
           /\ d.attempts[j] = run.attempts[j]
           /\ d.task[j] = run.task[j] \/ (run.task[j] = "pending" /\ d.task[j] = "ready")
      /\ Patched(TaskStatus, run.attempts[i], d.attempts[i], n, d.attempts[i][n])
      /\ d.leases = run.leases \ {i}
  BY Zenon DEF FinishedTo
<1> HIDE DEF x, task, last, attempts, told, closed, t
<1>4. closed = Run(d.contract, d.status, task, attempts, d.leases, d.usage, d.projection, d.retries)
  <2>1. told = Run(d.contract, d.status, task, d.attempts, d.leases, d.usage, d.projection, d.retries)
    <3>1. d = Run(d.contract, d.status, d.task, d.attempts, d.leases, d.usage, d.projection, d.retries)
      BY <1>3, Whole, Zenon
    <3> QED
      BY <3>1 DEF told, Run
  <2>2. told.attempts = d.attempts
    BY <2>1 DEF Run
  <2>3. closed = [told EXCEPT !.attempts = attempts]
    BY <2>2, Zenon DEF closed, attempts, last
  <2> QED
    BY <2>1, <2>3 DEF Run
<1>5. t = Run(d.contract, finalStatus(closed), task, attempts, d.leases, d.usage, d.projection, d.retries)
  BY <1>4 DEF t, Run
<1>6. /\ t.contract = d.contract /\ t.status = finalStatus(closed) /\ t.task = task
      /\ t.attempts = attempts /\ t.leases = d.leases /\ closed.task = task
  BY <1>4, <1>5 DEF Run
<1>7. /\ d.task \in [DOMAIN run.task -> TaskStatus]
      /\ d.attempts \in [DOMAIN run.task -> Seq(TaskStatus)]
      /\ DOMAIN run.task \in SUBSET Items /\ d.leases \in SUBSET DOMAIN run.task
      /\ d.contract \in Contracts /\ d.projection \in Nat /\ d.usage \in Nat
      /\ d.retries \in 0..(MaxRetries + 1)
  <2>1. /\ d.task \in [DOMAIN d.task -> TaskStatus]
        /\ d.attempts \in [DOMAIN d.task -> Seq(TaskStatus)]
        /\ DOMAIN d.task \in SUBSET Items /\ d.leases \subseteq DOMAIN d.task
        /\ d.contract \in Contracts /\ d.projection \in Nat /\ d.usage \in Nat
        /\ d.retries \in 0..(MaxRetries + 1)
    BY <1>3, Fields, Zenon
  <2> QED
    BY <1>3, <2>1, Zenon
<1>8. /\ task \in [DOMAIN run.task -> TaskStatus] /\ task[i] = x /\ DOMAIN task = DOMAIN run.task
      /\ \A j \in DOMAIN run.task \ {i} : task[j] = d.task[j]
  BY <1>2, <1>7 DEF task
<1>9. Patched(TaskStatus, d.attempts[i], last, n, x)
  <2>1. d.attempts[i] \in Seq(TaskStatus)
    BY <1>7, Zenon
  <2> QED
    BY <1>2, <2>1, Replaced, Zenon DEF last
<1>10. /\ attempts \in [DOMAIN run.task -> Seq(TaskStatus)] /\ attempts[i] = last
       /\ \A j \in DOMAIN run.task \ {i} : attempts[j] = d.attempts[j]
  <2>1. last \in Seq(TaskStatus)
    BY <1>9, Zenon DEF Patched
  <2> QED
    BY <1>7, <2>1 DEF attempts
<1>11. Patched(TaskStatus, run.attempts[i], last, n, x) /\ last[n] = x
  <2>1. Len(d.attempts[i]) = Len(run.attempts[i]) /\ last \in Seq(TaskStatus)
        /\ Len(last) = Len(d.attempts[i])
    BY <1>3, <1>9, Zenon DEF Patched
  <2>2. ASSUME NEW k \in 1..Len(run.attempts[i])
        PROVE  last[k] = IF k = n THEN x ELSE run.attempts[i][k]
    <3>1. last[k] = IF k = n THEN x ELSE d.attempts[i][k]
      BY <1>9, <2>1, Zenon DEF Patched
    <3>2. d.attempts[i][k] = IF k = n THEN d.attempts[i][n] ELSE run.attempts[i][k]
      BY <1>3, Zenon DEF Patched
    <3> QED
      BY <3>1, <3>2, Zenon
  <2> QED
    BY <2>1, <2>2, Zenon DEF Patched
<1>12. /\ finalStatus(closed) \in RunStatus /\ finalStatus(closed) # "cancelled"
       /\ finalStatus(closed) = "completed" =>
             \A j \in DOMAIN closed.task : closed.task[j] = "completed"
  BY FinalStatus, Zenon
<1>13. t.status # "completed"
  BY <1>2, <1>6, <1>8, <1>12, Zenon
<1>14. Typed(t)
  BY <1>5, <1>7, <1>8, <1>10, <1>12, TypedRun, Zenon
<1>15. FinishedTo(run, i, n, verified, t)
  <2>1. \A j \in DOMAIN run.task \ {i} :
         /\ t.attempts[j] = run.attempts[j]
         /\ t.task[j] = run.task[j] \/ (run.task[j] = "pending" /\ t.task[j] = "ready")
    BY <1>3, <1>6, <1>8, <1>10, Zenon
  <2>2. /\ Patched(TaskStatus, run.attempts[i], t.attempts[i], n, t.attempts[i][n])
        /\ t.attempts[i][n] # "running"
    BY <1>2, <1>6, <1>10, <1>11, Zenon
  <2>3. t.task[i] # "running" /\ t.task[i] # "completed"
    BY <1>2, <1>6, <1>8, Zenon
  <2>4. t.contract = run.contract /\ t.leases = run.leases \ {i} /\ t.status # "cancelled"
        /\ DOMAIN t.task = DOMAIN run.task
    BY <1>3, <1>6, <1>8, <1>12, Zenon
  <2> QED
    BY <1>13, <1>14, <2>1, <2>2, <2>3, <2>4, Zenon DEF FinishedTo
<1> QED
  BY <1>1, <1>13, <1>15, Zenon

(* Settling a run pauses it or leaves its status.                            *)
LEMMA SettledFields ==
  ASSUME NEW run, NEW i, NEW n, NEW verified, NEW d, NEW o, FinishedTo(run, i, n, verified, d)
  PROVE  /\ FinishedTo(run, i, n, verified, Settled(d, o))
         /\ Settled(d, o).status = "completed" => d.status = "completed"
<1> DEFINE over == specialistBudgetExceeded(o) \/ o.result = "unaccounted"
           s == IF over THEN "paused" ELSE d.status
           paused == IF over THEN [d EXCEPT !.status = "paused"] ELSE d
           p == projectedSupervisorUsage(paused)
           t == [paused EXCEPT !.projection = p]
<1>1. Settled(d, o) = t
  BY Zenon DEF Settled
<1>2. Typed(d)
  BY Zenon DEF FinishedTo
<1> HIDE DEF over
<1>3. s \in RunStatus /\ s \in {"paused", d.status}
  BY <1>2, Fields, Zenon DEF RunStatus
<1> HIDE DEF s, paused, t, p
<1>4. paused = Run(d.contract, s, d.task, d.attempts, d.leases, d.usage, d.projection, d.retries)
  <2>1. CASE over
    <3>1. paused = [d EXCEPT !.status = s]
      BY <2>1, Zenon DEF paused, s
    <3> QED
      BY <1>2, <3>1, Whole DEF Run
  <2>2. CASE ~over
    <3>1. paused = d /\ s = d.status
      BY <2>2, Zenon DEF paused, s
    <3> QED
      BY <1>2, <3>1, Whole, Zenon
  <2> QED
    BY <2>1, <2>2
<1>5. p \in Nat
  <2>1. paused.task = d.task /\ paused.usage = d.usage
    BY <1>4 DEF Run
  <2>2. DOMAIN d.task \in SUBSET Items /\ d.usage \in Nat
    BY <1>2, Fields, Zenon
  <2> QED
    BY <2>1, <2>2, Projected, Zenon DEF p
<1>6. t = Run(d.contract, s, d.task, d.attempts, d.leases, d.usage, p, d.retries)
  BY <1>4 DEF t, Run
<1>7. /\ t.contract = d.contract /\ t.status = s /\ t.task = d.task
      /\ t.attempts = d.attempts /\ t.leases = d.leases
  BY <1>6 DEF Run
<1>8. Typed(t)
  BY <1>2, <1>3, <1>5, <1>6, Fields, TypedRun, Zenon
<1>9. t.status = "completed" => d.status = "completed"
  BY <1>3, <1>7
<1>10. t.status # "cancelled"
  BY <1>3, <1>7 DEF FinishedTo
<1>11. FinishedTo(run, i, n, verified, t)
  BY <1>7, <1>8, <1>9, <1>10, Zenon DEF FinishedTo
<1> QED
  BY <1>1, <1>9, <1>11, Zenon

\* The run t, made of run by recording its attempt a, is sound.
Ends(r, run, ex, ru, att, comp, a, t) ==
    /\ RunOk(r, t, ex \ {a}, ru \ {a}, att, comp)
    /\ ~supervisorTerminal(run.status)
    /\ run.task[a[2]] = "running" /\ t.task[a[2]] # "running"
    /\ \A j \in DOMAIN run.task \ {a[2]} : run.task[j] # "pending" => t.task[j] = run.task[j]
    /\ t.leases = run.leases \ {a[2]}
    /\ a = <<r, a[2], Len(run.attempts[a[2]])>>

(* Recording an attempt that runs keeps the run sound.                       *)
LEMMA FinishedKeeps ==
  ASSUME NEW r, NEW run, NEW ex, NEW ru, NEW att, NEW comp, NEW comp2, NEW a, NEW t,
         RunOk(r, run, ex, ru, att, comp), ru \subseteq ex,
         Triples(ex), a \in ex, a[1] = r, run.attempts[a[2]][a[3]] = "running",
         FinishedTo(run, a[2], a[3], a \in att, t),
         comp \subseteq comp2, t.status = "completed" => t.contract \in comp2
  PROVE  Ends(r, run, ex, ru, att, comp2, a, t)
<1> DEFINE i == a[2]
           n == a[3]
<1>1. Known(run, a) /\ Works(run, a)
  BY Zenon DEF RunOk
<1>2. i \in DOMAIN run.task /\ run.task[i] = "running" /\ n = Len(run.attempts[i])
  BY <1>1, Zenon DEF Known, Works
<1>3. a = <<r, i, n>>
  <2>1. a = <<a[1], a[2], a[3]>>
    BY Zenon DEF Triples
  <2> QED
    BY <2>1, Zenon
<1>4. ~supervisorTerminal(run.status)
  BY <1>2, Zenon DEF RunOk, RunningTasks
<1>5. /\ Typed(t) /\ t.contract = run.contract /\ DOMAIN t.task = DOMAIN run.task
      /\ t.status # "cancelled"
      /\ t.status = "completed" => \A j \in DOMAIN t.task : t.task[j] = "completed"
      /\ t.task[i] # "running" /\ (t.task[i] = "completed" => a \in att)
      /\ \A j \in DOMAIN run.task \ {i} :
           /\ t.attempts[j] = run.attempts[j]
           /\ t.task[j] = run.task[j] \/ (run.task[j] = "pending" /\ t.task[j] = "ready")
      /\ Patched(TaskStatus, run.attempts[i], t.attempts[i], n, t.attempts[i][n])
      /\ t.attempts[i][n] # "running"
      /\ t.leases = run.leases \ {i}
  BY Zenon DEF FinishedTo
<1> HIDE DEF i, n
<1>6. /\ \A j \in DOMAIN run.task \ {i} : t.task[j] = "running" <=> run.task[j] = "running"
      /\ \A j \in DOMAIN run.task \ {i} : t.task[j] = "completed" => run.task[j] = "completed"
  BY <1>5
<1>7. RunningTasks(t) = RunningTasks(run) \ {i}
  <2>1. DOMAIN t.task = DOMAIN run.task /\ t.task[i] # "running"
    BY <1>5, Zenon
  <2> QED
    BY <1>6, <2>1 DEF RunningTasks
<1>8. \A j \in DOMAIN run.task : Len(t.attempts[j]) = Len(run.attempts[j])
  BY <1>5, Zenon DEF Patched
<1>9. supervisorTerminal(t.status) => RunningTasks(t) = {}
  BY <1>5 DEF supervisorTerminal, RunningTasks
<1>10. \A j \in DOMAIN t.task : t.task[j] = "completed" => Verified(att, r, j)
  <2>1. t.task[i] = "completed" => Verified(att, r, i)
    BY <1>5, Zenon DEF Verified, i
  <2> QED
    BY <1>5, <1>6, <2>1, Zenon DEF RunOk
<1>11. \A j \in RunningTasks(t) : \A d \in DependsOn[j] : Verified(att, r, d)
  BY <1>7, Zenon DEF RunOk
<1>12. \A b \in att : b[1] = r => Known(t, b)
  BY <1>5, <1>8, Zenon DEF RunOk, Known
<1>13. ASSUME NEW b \in ex, b[1] = r, b # a
       PROVE  /\ Known(t, b)
              /\ b[2] = i => run.attempts[i][b[3]] # "running" /\ t.attempts[i][b[3]] # "running"
              /\ b[2] # i => t.attempts[b[2]] = run.attempts[b[2]]
              /\ Works(t, b)
  <2>1. Known(run, b) /\ Works(run, b)
    BY <1>13, Zenon DEF RunOk
  <2>2. Known(t, b) /\ b[2] \in DOMAIN run.task /\ b[3] \in 1..Len(run.attempts[b[2]])
    BY <1>5, <1>8, <2>1, Zenon DEF Known
  <2>3. CASE b[2] = i
    <3>1. b[3] # n
      <4>1. b = <<b[1], b[2], b[3]>>
        BY <1>13, Zenon DEF Triples
      <4> QED
        BY <1>3, <1>13, <2>3, <4>1, Zenon
    <3>2. run.attempts[i][b[3]] # "running"
      BY <1>2, <2>1, <2>3, <3>1, Zenon DEF Works
    <3>3. t.attempts[i][b[3]] = run.attempts[i][b[3]]
      BY <1>5, <2>2, <2>3, <3>1, Zenon DEF Patched
    <3> QED
      BY <2>2, <2>3, <3>2, <3>3, Zenon DEF Works
  <2>4. CASE b[2] # i
    <3>1. t.attempts[b[2]] = run.attempts[b[2]]
      BY <1>5, <2>2, <2>4, Zenon
    <3>2. Works(t, b)
      BY <1>6, <2>1, <2>2, <2>4, <3>1, Zenon DEF Works
    <3> QED
      BY <2>2, <2>4, <3>1, <3>2, Zenon
  <2> QED
    BY <2>3, <2>4
<1>14. ASSUME NEW b \in ru \ {a}, b[1] = r
       PROVE  t.attempts[b[2]][b[3]] = "running"
  <2>1. run.attempts[b[2]][b[3]] = "running" /\ b \in ex /\ b # a
    BY <1>14, Zenon DEF RunOk
  <2> QED
    BY <1>13, <1>14, <2>1, Zenon
<1>15. Leased(t)
  <2>1. Leased(run)
    BY Zenon DEF RunOk
  <2>2. t.leases \subseteq RunningTasks(t) /\ t.leases \subseteq run.leases
    BY <1>5, <1>7, <2>1, Zenon DEF Leased
  <2> QED
    BY <2>1, <2>2, Zenon DEF Leased
<1>16. /\ t.status = "completed" =>
             t.contract \in comp2 /\ \A j \in DOMAIN t.task : t.task[j] = "completed"
       /\ \A b \in ex \ {a} : b[1] = r => Known(t, b) /\ Works(t, b)
  BY <1>5, <1>13, Zenon
<1>17. RunOk(r, t, ex \ {a}, ru \ {a}, att, comp2)
  BY <1>5, <1>9, <1>10, <1>11, <1>12, <1>14, <1>15, <1>16, Zenon DEF RunOk
<1>18. a = <<r, a[2], Len(run.attempts[a[2]])>>
  BY <1>2, <1>3, Zenon DEF i
<1>19. /\ run.task[a[2]] = "running" /\ t.task[a[2]] # "running"
       /\ \A j \in DOMAIN run.task \ {a[2]} : run.task[j] # "pending" => t.task[j] = run.task[j]
       /\ t.leases = run.leases \ {a[2]}
  BY <1>2, <1>5, Zenon DEF i
<1> QED
  BY <1>4, <1>17, <1>18, <1>19, Zenon DEF Ends

-----------------------------------------------------------------------------
(* Steps of the whole document. *)

\* No two live runs of the document have the same contract.
OneLive(rs) ==
    \A r, q \in 1..Len(rs) :
        /\ r # q /\ rs[r].contract = rs[q].contract
        => supervisorTerminal(rs[r].status) \/ supervisorTerminal(rs[q].status)

\* The run q of the document rs has become that of new.  A task with external effects
\* whose attempt does not execute (none of ex) was not attempted again and cannot be,
\* an unknown outcome stays one, and unless the process lost an attempt of the run
\* (one not in ru) its running tasks keep their leases.
Kept(rs, ex, ru, new, q) ==
    /\ \A i \in DOMAIN rs[q].task :
         /\ /\ i \in External /\ rs[q].task[i] = "running"
            /\ <<q, i, Len(rs[q].attempts[i])>> \notin ex
            => /\ Len(new[q].attempts[i]) = Len(rs[q].attempts[i])
               /\ new[q].task[i] \in {"running", "outcome_unknown", "cancelled"}
         /\ rs[q].task[i] = "outcome_unknown" =>
              new[q].task[i] \in {"outcome_unknown", "cancelled"}
    /\ Unowned(q, rs[q], ru) = {} =>
         \A i \in rs[q].leases : i \in new[q].leases \/ new[q].task[i] # "running"

\* The document rs has become new: no run that had ended changed, and the others kept
\* what has to last.
Onward(rs, ex, ru, new) ==
    \A q \in 1..Len(rs) :
        /\ q \in 1..Len(new)
        /\ supervisorTerminal(rs[q].status) => new[q] = rs[q]
        /\ Kept(rs, ex, ru, new, q)

(* A run that did not change kept everything.                                *)
LEMMA KeptItself ==
  ASSUME NEW rs, NEW ex, NEW ru, NEW new, NEW q, new[q] = rs[q]
  PROVE  Kept(rs, ex, ru, new, q)
BY Zenon DEF Kept

(* A document that did not change went onward.                               *)
LEMMA OnwardItself ==
  ASSUME NEW rs, NEW ex, NEW ru
  PROVE  Onward(rs, ex, ru, rs)
BY KeptItself, Zenon DEF Onward

(* Scheduling after a step goes onward too.                                  *)
LEMMA OnwardFollows ==
  ASSUME NEW rs, NEW ex, NEW ru, NEW base, NEW new, Onward(rs, ex, ru, base),
         Len(new) = Len(base), \A q \in 1..Len(base) : Follows(base[q], new[q]),
         \A q \in 1..Len(rs) : DOMAIN base[q].task = DOMAIN rs[q].task /\ Leased(rs[q])
  PROVE  Onward(rs, ex, ru, new)
<1>1. ASSUME NEW q \in 1..Len(rs), Kept(rs, ex, ru, base, q)
      PROVE  Kept(rs, ex, ru, new, q)
  <2>1. Follows(base[q], new[q]) /\ DOMAIN base[q].task = DOMAIN rs[q].task /\ Leased(rs[q])
    BY Zenon DEF Onward
  <2>2. \A i \in DOMAIN rs[q].task :
          base[q].task[i] \in {"running", "outcome_unknown", "cancelled"} =>
            new[q].task[i] = base[q].task[i] /\ new[q].attempts[i] = base[q].attempts[i]
    BY <2>1 DEF Follows
  <2>3. \A i \in rs[q].leases :
          i \in base[q].leases \/ base[q].task[i] # "running" =>
            i \in new[q].leases \/ new[q].task[i] # "running"
    BY <2>1, Zenon DEF Follows, Leased, RunningTasks
  <2>4. ASSUME Unowned(q, rs[q], ru) = {}
        PROVE  \A i \in rs[q].leases : i \in new[q].leases \/ new[q].task[i] # "running"
    BY <1>1, <2>3, <2>4, Zenon DEF Kept
  <2>5. \A i \in DOMAIN rs[q].task :
          base[q].task[i] \in {"outcome_unknown", "cancelled"} => new[q].task[i] = base[q].task[i]
    BY <2>2, Zenon
  <2> QED
    BY <1>1, <2>2, <2>4, <2>5, Zenon DEF Kept
<1>2. \A q \in 1..Len(rs) : supervisorTerminal(rs[q].status) => new[q] = rs[q]
  BY Zenon DEF Onward, Follows
<1> QED
  BY <1>1, <1>2, Zenon DEF Onward

(* Contracts keep their one live run when no run comes to life again.        *)
LEMMA StaysOneLive ==
  ASSUME NEW rs, NEW new, OneLive(rs), Len(new) = Len(rs),
         \A q \in 1..Len(rs) :
            /\ new[q].contract = rs[q].contract
            /\ supervisorTerminal(rs[q].status) => supervisorTerminal(new[q].status)
  PROVE  OneLive(new)
BY Zenon DEF OneLive

(* A document with every run sound is a sound start for scheduling.          *)
LEMMA SavedOk ==
  ASSUME NEW rs, NEW ex, NEW ru, NEW att, NEW comp, DocOk(rs, ex, ru, att, comp)
  PROVE  AccOk(Saved(rs), rs, ex, ru, att, comp)
<1>1. Grounded(rs, rs, ex, ru, att, comp)
  BY FollowsItself, Zenon DEF Grounded
<1>2. /\ Saved(rs).mem = rs /\ Saved(rs).disk = rs /\ Saved(rs).started = {}
      /\ Saved(rs) = [mem |-> Saved(rs).mem, disk |-> Saved(rs).disk, started |-> Saved(rs).started]
  BY Zenon DEF Saved
<1>3. ex \cup Saved(rs).started = ex /\ ru \cup Saved(rs).started = ru
  BY <1>2
<1> QED
  BY <1>1, <1>2, <1>3, Zenon DEF AccOk

(* What a handler commits after scheduling is sound.                         *)
LEMMA Committed ==
  ASSUME NEW acc, NEW base, NEW ex, NEW ru, NEW att, NEW comp, NEW rs, NEW work, NEW known,
         AccOk(acc, base, ex, ru, att, comp), OneLive(base), Onward(rs, work, known, base),
         \A q \in 1..Len(rs) : DOMAIN base[q].task = DOMAIN rs[q].task /\ Leased(rs[q])
  PROVE  /\ DocOk(acc.disk, ex \cup acc.started, ru \cup acc.started, att, comp)
         /\ OneLive(acc.disk) /\ Onward(rs, work, known, acc.disk)
<1>1. /\ DocOk(acc.disk, ex \cup acc.started, ru \cup acc.started, att, comp)
      /\ Len(acc.disk) = Len(base)
      /\ \A q \in 1..Len(base) : Follows(base[q], acc.disk[q])
  BY Zenon DEF AccOk, Grounded
<1>2. Onward(rs, work, known, acc.disk)
  BY <1>1, OnwardFollows, Zenon
<1>3. \A q \in 1..Len(base) :
         /\ acc.disk[q].contract = base[q].contract
         /\ supervisorTerminal(base[q].status) => supervisorTerminal(acc.disk[q].status)
  BY <1>1, Zenon DEF Follows
<1>4. OneLive(acc.disk)
  BY <1>1, <1>3, StaysOneLive, Zenon
<1> QED
  BY <1>1, <1>2, <1>4, Zenon

\* What every step has to establish.
StepOk ==
    /\ DocOk(runs', executing', running', attested', completed')
    /\ OneLive(runs') /\ Onward(runs, executing, running, runs')
    /\ StartingOk' /\ completed' \subseteq Contracts

(* Reading the portfolio at the beginning of a Start.                        *)
LEMMA StartReadStep ==
  ASSUME SupervisorIInv, NEW c \in Contracts, StartRead(c)
  PROVE  StepOk
<1>1. /\ DocOk(runs', executing', running', attested', completed')
      /\ OneLive(runs') /\ completed' \subseteq Contracts /\ runs' = runs
  BY Zenon DEF SupervisorIInv, StartRead, OneLive, OneLiveRunPerContract
<1>2. Onward(runs, executing, running, runs')
  BY <1>1, OnwardItself, Zenon
<1>3. StartingOk'
  <2>1. starting'.contract = c /\ starting'.items = Items \ Covered(c)
        /\ starting'.ready = {i \in Items \ Covered(c) : DependsOn[i] \subseteq Covered(c)}
    BY Zenon DEF StartRead
  <2>2. starting'.items \in SUBSET Items /\ starting'.ready \in SUBSET Items
    BY <2>1, Zenon
  <2> QED
    BY <2>1, <2>2, Zenon DEF StartingOk
<1> QED
  BY <1>1, <1>2, <1>3, Zenon DEF StepOk

(* A worker's artifacts are verified.                                        *)
LEMMA VerifyStep ==
  ASSUME SupervisorIInv, NEW a \in executing, VerifyArtifacts(a)
  PROVE  StepOk
<1>1. /\ runs' = runs /\ running' = running /\ executing' = executing
      /\ attested' = attested \cup {a} /\ completed' = completed /\ starting' = starting
  BY Zenon DEF VerifyArtifacts
<1>2. DocOk(runs, executing, running, attested, completed)
  BY Zenon DEF SupervisorIInv
<1>3. ASSUME NEW q \in 1..Len(runs)
      PROVE  RunOk(q, runs[q], executing, running, attested \cup {a}, completed)
  <2>1. RunOk(q, runs[q], executing, running, attested, completed)
    BY <1>2, Zenon DEF DocOk
  <2>2. \A i : Verified(attested, q, i) => Verified(attested \cup {a}, q, i)
    BY Zenon DEF Verified
  <2>3. \A b \in attested \cup {a} : b[1] = q => Known(runs[q], b)
    BY <2>1, Zenon DEF RunOk
  <2> QED
    BY <2>1, <2>2, <2>3, Zenon DEF RunOk
<1>4. attested \cup {a} \subseteq (1..Len(runs)) \X Items \X Nat
  BY <1>2, Zenon DEF DocOk
<1>5. DocOk(runs, executing, running, attested \cup {a}, completed)
  BY <1>2, <1>3, <1>4, Zenon DEF DocOk
<1>6. OneLive(runs) /\ completed \subseteq Contracts
  BY Zenon DEF SupervisorIInv, OneLive, OneLiveRunPerContract
<1>7. StartingOk'
  BY <1>1, Zenon DEF SupervisorIInv, StartingOk
<1> QED
  BY <1>1, <1>5, <1>6, <1>7, OnwardItself, Zenon DEF StepOk

(* The process dies.                                                         *)
LEMMA CrashStep ==
  ASSUME SupervisorIInv, Crash
  PROVE  StepOk
<1>1. /\ runs' = runs /\ running' = {} /\ executing' = {}
      /\ attested' = attested /\ completed' = completed /\ starting' = NoStart
  BY Zenon DEF Crash
<1>2. DocOk(runs, executing, running, attested, completed)
  BY Zenon DEF SupervisorIInv
<1>3. ASSUME NEW q \in 1..Len(runs)
      PROVE  RunOk(q, runs[q], {}, {}, attested, completed)
  <2>1. RunOk(q, runs[q], executing, running, attested, completed)
    BY <1>2, Zenon DEF DocOk
  <2> QED
    BY <2>1, Zenon DEF RunOk
<1>4. {} \subseteq (1..Len(runs)) \X Items \X Nat
  BY Zenon
<1>5. DocOk(runs, {}, {}, attested, completed)
  BY <1>2, <1>3, <1>4, Zenon DEF DocOk
<1>6. OneLive(runs) /\ completed \subseteq Contracts
  BY Zenon DEF SupervisorIInv, OneLive, OneLiveRunPerContract
<1>7. StartingOk'
  BY <1>1, Zenon DEF StartingOk
<1> QED
  BY <1>1, <1>5, <1>6, <1>7, OnwardItself, Zenon DEF StepOk

(* The result of an attempt that no longer counts is dropped.                *)
LEMMA FinishStaleStep ==
  ASSUME SupervisorIInv, NEW a \in executing, finishStaleAttempt(a)
  PROVE  StepOk
<1>1. /\ runs' = runs /\ running' = running \ {a} /\ executing' = executing \ {a}
      /\ attested' = attested /\ completed' = completed /\ starting' = starting
      /\ runs[a[1]].attempts[a[2]][a[3]] # "running"
  BY Zenon DEF finishStaleAttempt, Current, Status
<1>2. DocOk(runs, executing, running, attested, completed)
  BY Zenon DEF SupervisorIInv
<1>4. ASSUME NEW q \in 1..Len(runs)
      PROVE  RunOk(q, runs[q], executing \ {a}, running \ {a}, attested, completed)
  <2>1. RunOk(q, runs[q], executing, running, attested, completed)
    BY <1>2, Zenon DEF DocOk
  <2>2. /\ executing \ {a} \subseteq executing /\ running \ {a} \subseteq running
        /\ completed \subseteq completed
    BY Zenon
  <2> QED
    BY <2>1, <2>2, FewerAttempts, Zenon
<1>5. DocOk(runs, executing \ {a}, running \ {a}, attested, completed)
  <2>1. /\ running \ {a} \subseteq executing \ {a}
        /\ executing \ {a} \subseteq (1..Len(runs)) \X Items \X Nat
    BY <1>2, Zenon DEF DocOk
  <2> QED
    BY <1>2, <1>4, <2>1, Zenon DEF DocOk
<1>6. OneLive(runs) /\ completed \subseteq Contracts
  BY Zenon DEF SupervisorIInv, OneLive, OneLiveRunPerContract
<1>7. StartingOk'
  BY <1>1, Zenon DEF SupervisorIInv, StartingOk
<1> QED
  BY <1>1, <1>5, <1>6, <1>7, OnwardItself, Zenon DEF StepOk

(* A run is cancelled, or its workers are while the save fails.              *)
LEMMA CancelStep ==
  ASSUME SupervisorIInv, NEW r \in 1..Len(runs), Cancel(r)
  PROVE  StepOk
<1> DEFINE left == {a \in running : a[1] # r}
           t == Cancelled(runs[r])
<1>1. /\ running' = left /\ executing' = executing
      /\ attested' = attested /\ completed' = completed /\ starting' = starting
      /\ ~supervisorTerminal(runs[r].status)
      /\ runs' = [runs EXCEPT ![r] = t] \/ runs' = runs
  BY Zenon DEF Cancel, Saves
<1>2. DocOk(runs, executing, running, attested, completed)
  BY Zenon DEF SupervisorIInv
<1>3. \A q \in 1..Len(runs) : RunOk(q, runs[q], executing, running, attested, completed)
  BY <1>2, Zenon DEF DocOk
<1>4. /\ runs \in Seq(RunRecords) /\ left \subseteq executing
      /\ executing \subseteq (1..Len(runs)) \X Items \X Nat
      /\ attested \subseteq (1..Len(runs)) \X Items \X Nat
  BY <1>2, Zenon DEF DocOk
<1>5. ASSUME NEW q \in 1..Len(runs)
      PROVE  RunOk(q, runs[q], executing, left, attested, completed)
  <2>1. /\ executing \subseteq executing /\ left \subseteq running /\ completed \subseteq completed
    BY Zenon
  <2> HIDE DEF left
  <2> QED
    BY <1>3, <2>1, FewerAttempts, Zenon
<1>6. /\ RunOk(r, t, executing, left, attested, completed)
      /\ t.contract = runs[r].contract /\ supervisorTerminal(t.status)
      /\ \A i \in DOMAIN runs[r].task : Len(t.attempts[i]) = Len(runs[r].attempts[i])
  <2>1. t = Cancelled(runs[r]) /\ left \subseteq running /\ \A a \in left : a[1] # r
    BY Zenon
  <2>2. RunOk(r, runs[r], executing, running, attested, completed)
    BY <1>3, Zenon
  <2>3. CancelledTo(runs[r], t)
    BY <2>2, CancelledFields, Zenon DEF RunOk
  <2> HIDE DEF t, left
  <2>4. RunOk(r, t, executing, left, attested, completed)
    BY <2>1, <2>2, CancelledKeeps, Zenon
  <2>5. \A i \in DOMAIN runs[r].task : Len(t.attempts[i]) = Len(runs[r].attempts[i])
    BY <2>3, Zenon DEF CancelledTo, Closed
  <2>6. t.contract = runs[r].contract /\ supervisorTerminal(t.status)
    BY <2>3, Zenon DEF CancelledTo, supervisorTerminal
  <2> QED
    BY <2>4, <2>5, <2>6, Zenon
<1>7. CancelledTo(runs[r], t)
  BY <1>3, CancelledFields, Zenon DEF RunOk
<1>8. OneLive(runs) /\ completed \subseteq Contracts
  BY Zenon DEF SupervisorIInv, OneLive, OneLiveRunPerContract
<1>9. StartingOk'
  BY <1>1, Zenon DEF SupervisorIInv, StartingOk
<1> HIDE DEF left, t
<1>10. CASE runs' = runs
  <2>1. DocOk(runs, executing, left, attested, completed)
    BY <1>4, <1>5, <1>10, Zenon DEF DocOk
  <2> QED
    BY <1>1, <1>8, <1>9, <1>10, <2>1, OnwardItself, Zenon DEF StepOk
<1>11. CASE runs' = [runs EXCEPT ![r] = t]
  <2>1. Typed(t)
    BY <1>6, Zenon DEF RunOk
  <2>2. /\ runs' \in Seq(RunRecords) /\ Len(runs') = Len(runs) /\ runs'[r] = t
        /\ \A q \in 1..Len(runs) : q # r => runs'[q] = runs[q]
    <3>1. t \in RunRecords
      BY <2>1, Zenon DEF Typed
    <3> QED
      BY <1>4, <1>11, <3>1
  <2>3. \A q \in 1..Len(runs) : RunOk(q, runs'[q], executing, left, attested, completed)
    BY <1>5, <1>6, <2>2, Zenon
  <2>4. DocOk(runs', executing, left, attested, completed)
    BY <1>4, <2>2, <2>3, Zenon DEF DocOk
  <2>5. OneLive(runs')
    BY <1>6, <1>8, <2>2, StaysOneLive, Zenon
  <2>6. Onward(runs, executing, running, runs')
    <3>1. Kept(runs, executing, running, runs', r)
      <4>1. \A i \in DOMAIN runs[r].task :
              /\ runs[r].task[i] # "completed" => t.task[i] = "cancelled"
              /\ t.task[i] # "running"
        BY <1>7 DEF CancelledTo
      <4>2. runs[r].leases \subseteq DOMAIN runs[r].task
        BY <1>3, Zenon DEF RunOk, Leased, RunningTasks
      <4>3. \A i \in runs[r].leases : t.task[i] # "running"
        BY <4>1, <4>2, Zenon
      <4>4. \A i \in DOMAIN runs[r].task :
              runs[r].task[i] \in {"running", "outcome_unknown"} => t.task[i] = "cancelled"
        BY <4>1
      <4> QED
        BY <1>6, <2>2, <4>3, <4>4, Zenon DEF Kept
    <3>2. \A q \in 1..Len(runs) : q # r => Kept(runs, executing, running, runs', q)
      BY <2>2, KeptItself, Zenon
    <3> QED
      BY <1>1, <2>2, <3>1, <3>2, Zenon DEF Onward
  <2> QED
    BY <1>1, <1>8, <1>9, <2>4, <2>5, <2>6, Zenon DEF StepOk
<1> QED
  BY <1>1, <1>10, <1>11, Zenon

(* A Start is refused, its save fails, or a new run is added and scheduled.  *)
LEMMA StartStep ==
  ASSUME SupervisorIInv, Start
  PROVE  StepOk
<1> DEFINE r == Len(runs) + 1
           t == NewRun(starting)
           base == Append(runs, t)
<1>1. /\ attested' = attested /\ completed' = completed /\ starting' = NoStart
      /\ starting # NoStart
      /\ \/ runs' = runs /\ running' = running /\ executing' = executing
         \/ ~StartRefused /\ \E acc \in scheduleLocked({Saved(base)}, r) : Commit(acc)
  BY Zenon DEF Start
<1>2. DocOk(runs, executing, running, attested, completed)
  BY Zenon DEF SupervisorIInv
<1>3. OneLive(runs) /\ completed \subseteq Contracts
  BY Zenon DEF SupervisorIInv, OneLive, OneLiveRunPerContract
<1>4. StartingOk'
  BY <1>1, Zenon DEF StartingOk
<1>5. CASE runs' = runs /\ running' = running /\ executing' = executing
  BY <1>1, <1>2, <1>3, <1>4, <1>5, OnwardItself, Zenon DEF StepOk
<1>6. ASSUME ~StartRefused, NEW acc \in scheduleLocked({Saved(base)}, r), Commit(acc)
      PROVE  StepOk
  <2>1. starting.contract \in Contracts /\ starting.items \in SUBSET Items
    BY <1>1, Zenon DEF SupervisorIInv, StartingOk
  <2>2. /\ runs \in Seq(RunRecords) /\ running \subseteq executing
        /\ executing \subseteq (1..Len(runs)) \X Items \X Nat
        /\ attested \subseteq (1..Len(runs)) \X Items \X Nat
        /\ \A q \in 1..Len(runs) : RunOk(q, runs[q], executing, running, attested, completed)
    BY <1>2, Zenon DEF DocOk
  <2>3. Len(runs) \in Nat /\ r \notin 1..Len(runs)
    BY <2>2
  <2>4. \A a \in executing \cup running \cup attested : a[1] # r
    <3>1. \A a \in executing \cup running \cup attested : a[1] \in 1..Len(runs)
      BY <2>2
    <3> QED
      BY <2>3, <3>1, Zenon
  <2> HIDE DEF r
  <2>5. RunOk(r, t, executing, running, attested, completed)
    BY <2>1, <2>4, NewRunOk, Zenon
  <2> HIDE DEF t
  <2>6. /\ base \in Seq(RunRecords) /\ Len(base) = r /\ base[r] = t
        /\ 1..Len(base) = (1..Len(runs)) \cup {r} /\ r \in 1..Len(base)
        /\ \A q \in 1..Len(runs) : base[q] = runs[q]
    <3>1. t \in RunRecords
      BY <2>5, Zenon DEF RunOk, Typed
    <3> QED
      BY <2>2, <2>3, <3>1 DEF r
  <2>7. t.contract = starting.contract /\ t.status = "queued"
    BY Zenon DEF t, NewRun
  <2> HIDE DEF base
  <2>8. DocOk(base, executing, running, attested, completed)
    <3>1. \A q \in 1..Len(base) : RunOk(q, base[q], executing, running, attested, completed)
      BY <2>2, <2>5, <2>6, Zenon
    <3>2. /\ executing \subseteq (1..Len(base)) \X Items \X Nat
          /\ attested \subseteq (1..Len(base)) \X Items \X Nat
      BY <2>2, <2>6
    <3> QED
      BY <2>2, <2>6, <3>1, <3>2, Zenon DEF DocOk
  <2>9. OneLive(base)
    <3>1. \A q \in 1..Len(runs) :
            runs[q].contract = t.contract => supervisorTerminal(runs[q].status)
      BY <1>6, <2>7, Zenon DEF StartRefused
    <3> QED
      BY <1>3, <2>6, <3>1, Zenon DEF OneLive
  <2>10. Onward(runs, executing, running, base)
    <3>2. \A q \in 1..Len(runs) : Kept(runs, executing, running, base, q)
      BY <2>6, KeptItself, Zenon
    <3> QED
      BY <2>6, <3>2, Zenon DEF Onward
  <2>11. AccOk(Saved(base), base, executing, running, attested, completed)
    BY <2>8, SavedOk, Zenon
  <2>12. ~supervisorTerminal(base[r].status)
    BY <2>6, <2>7 DEF supervisorTerminal
  <2>13. AccOk(acc, base, executing, running, attested, completed)
    <3>1. \A x \in {Saved(base)} : AccOk(x, base, executing, running, attested, completed)
      BY <2>11, Zenon
    <3> QED
      BY <1>6, <2>6, <2>12, <3>1, ScheduleKeeps, Zenon
  <2>14. /\ DocOk(acc.disk, executing \cup acc.started, running \cup acc.started, attested, completed)
         /\ OneLive(acc.disk) /\ Onward(runs, executing, running, acc.disk)
    <3>1. \A q \in 1..Len(runs) : DOMAIN base[q].task = DOMAIN runs[q].task /\ Leased(runs[q])
      BY <2>2, <2>6, Zenon DEF RunOk
    <3> QED
      BY <2>9, <2>10, <2>13, <3>1, Committed, Zenon
  <2> QED
    BY <1>1, <1>3, <1>4, <1>6, <2>14, Zenon DEF StepOk, Commit
<1> QED
  BY <1>1, <1>5, <1>6, Zenon

(* Runs are inspected: lost attempts are given up and work is scheduled.     *)
LEMMA InspectStep ==
  ASSUME SupervisorIInv, NEW only \in {{r} : r \in 1..Len(runs)} \cup {1..Len(runs)}, Inspect(only)
  PROVE  StepOk
<1> DEFINE fixed == reconcileRestart(only)
           Gone(q) == q \notin only \/ supervisorTerminal(runs[q].status) \/ Lost(runs, q) = {}
<1>1. /\ attested' = attested /\ completed' = completed /\ starting' = starting
      /\ \E acc \in Visits(fixed, only)[Len(runs)] : Commit(acc)
  BY Zenon DEF Inspect
<1>2. DocOk(runs, executing, running, attested, completed)
  BY Zenon DEF SupervisorIInv
<1>3. OneLive(runs) /\ completed \subseteq Contracts
  BY Zenon DEF SupervisorIInv, OneLive, OneLiveRunPerContract
<1>4. StartingOk'
  BY <1>1, Zenon DEF SupervisorIInv, StartingOk
<1>5. /\ runs \in Seq(RunRecords) /\ running \subseteq executing
      /\ executing \subseteq (1..Len(runs)) \X Items \X Nat
      /\ attested \subseteq (1..Len(runs)) \X Items \X Nat
      /\ \A q \in 1..Len(runs) : RunOk(q, runs[q], executing, running, attested, completed)
  BY <1>2, Zenon DEF DocOk
<1>6. only \subseteq 1..Len(runs) /\ Len(runs) \in Nat
  BY <1>5
<1>7. \A q \in 1..Len(runs) :
        fixed[q] = IF Gone(q) THEN runs[q] ELSE Reconciled(runs[q], Lost(runs, q))
  BY Zenon DEF reconcileRestart
<1>8. DOMAIN fixed = 1..Len(runs)
  BY Zenon DEF reconcileRestart
<1>9. fixed = [q \in 1..Len(runs) |-> fixed[q]]
  BY Zenon DEF reconcileRestart
<1> HIDE DEF fixed
<1>10. ASSUME NEW q \in 1..Len(runs), ~Gone(q)
       PROVE  /\ RunOk(q, fixed[q], executing, running, attested, completed)
              /\ DOMAIN fixed[q].task = DOMAIN runs[q].task
              /\ fixed[q].contract = runs[q].contract /\ ~supervisorTerminal(runs[q].status)
              /\ Kept(runs, executing, running, fixed, q)
  <2> DEFINE L == Lost(runs, q)
             run == runs[q]
             t == fixed[q]
  <2>1. t = Reconciled(run, L) /\ L # {} /\ ~supervisorTerminal(run.status)
    BY <1>7, <1>10, Zenon
  <2>2. L = Unowned(q, run, running)
    BY Zenon DEF Lost, Unowned
  <2>3. RunOk(q, run, executing, running, attested, completed) /\ Triples(executing)
    <3>1. Triples(executing)
      BY <1>5 DEF Triples
    <3> QED
      BY <1>5, <3>1, Zenon
  <2> HIDE DEF L, run, t
  <2>4. GivenUp(q, run, executing, running, attested, completed, L, t)
    BY <1>5, <2>1, <2>2, <2>3, ReconciledKeeps, Zenon
  <2>5. Kept(runs, executing, running, fixed, q)
    <3>1. \A i \in DOMAIN run.task : i \in External /\ run.task[i] = "running"
             /\ <<q, i, Len(run.attempts[i])>> \notin executing
             => Len(t.attempts[i]) = Len(run.attempts[i]) /\ t.task[i] = "outcome_unknown"
      BY <1>5, <2>2, <2>4, Zenon DEF GivenUp, Unowned, RunningTasks
    <3>2. \A i \in DOMAIN run.task : run.task[i] = "outcome_unknown" => t.task[i] = "outcome_unknown"
      <4>1. \A i \in L : run.task[i] = "running"
        BY <2>2, Zenon DEF Unowned, RunningTasks
      <4> QED
        BY <2>4, <4>1 DEF GivenUp
    <3>3. Unowned(q, run, running) # {}
      BY <2>1, <2>2, Zenon
    <3> QED
      BY <3>1, <3>2, <3>3, Zenon DEF Kept, run, t
  <2>6. DOMAIN t.task = DOMAIN run.task
    BY <2>4, Zenon DEF GivenUp
  <2> QED
    BY <2>1, <2>4, <2>5, <2>6, Zenon DEF GivenUp, run, t
<1>11. ASSUME NEW q \in 1..Len(runs), Gone(q)
       PROVE  fixed[q] = runs[q]
  BY <1>7, <1>11, Zenon
<1>12. \A q \in 1..Len(runs) : RunOk(q, fixed[q], executing, running, attested, completed)
  BY <1>5, <1>10, <1>11, Zenon
<1>13. fixed \in Seq(RunRecords) /\ Len(fixed) = Len(runs)
  <2>1. \A q \in 1..Len(runs) : fixed[q] \in RunRecords
    BY <1>12, Zenon DEF RunOk, Typed
  <2> QED
    BY <1>6, <1>9, <2>1
<1>14. DocOk(fixed, executing, running, attested, completed)
  BY <1>5, <1>12, <1>13, Zenon DEF DocOk
<1>16. OneLive(fixed)
  <2>1. \A q \in 1..Len(runs) :
          /\ fixed[q].contract = runs[q].contract
          /\ supervisorTerminal(runs[q].status) => supervisorTerminal(fixed[q].status)
    BY <1>10, <1>11, Zenon
  <2> QED
    BY <1>3, <1>13, <2>1, StaysOneLive, Zenon
<1>17. Onward(runs, executing, running, fixed)
  <2>2. \A q \in 1..Len(runs) : Gone(q) => Kept(runs, executing, running, fixed, q)
    BY <1>11, KeptItself, Zenon
  <2> QED
    BY <1>10, <1>11, <1>13, <2>2, Zenon DEF Onward
<1>18. \A q \in 1..Len(runs) : DOMAIN fixed[q].task = DOMAIN runs[q].task /\ Leased(runs[q])
  BY <1>5, <1>10, <1>11, Zenon DEF RunOk
<1>19. PICK acc \in Visits(fixed, only)[Len(runs)] : Commit(acc)
  BY <1>1, Zenon
<1>20. AccOk(Saved(fixed), fixed, executing, running, attested, completed)
  BY <1>14, SavedOk, Zenon
<1>21. AccOk(acc, fixed, executing, running, attested, completed)
  <2>1. Len(fixed) \in Nat
    BY <1>6, <1>13, Zenon
  <2>2. \A x \in Visits(fixed, only)[Len(fixed)] :
          AccOk(x, fixed, executing, running, attested, completed)
    BY <1>20, <2>1, VisitsKeep, Zenon
  <2> QED
    BY <1>13, <1>19, <2>2, Zenon
<1>22. /\ DocOk(acc.disk, executing \cup acc.started, running \cup acc.started, attested, completed)
       /\ OneLive(acc.disk) /\ Onward(runs, executing, running, acc.disk)
  BY <1>16, <1>17, <1>18, <1>21, Committed, Zenon
<1> QED
  BY <1>1, <1>3, <1>4, <1>19, <1>22, Zenon DEF StepOk, Commit

(* What finishAttempt makes of the run of the attempt.                       *)
LEMMA FinishedFields ==
  ASSUME NEW a, NEW o \in Outcomes, NEW cc, NEW t, t = Finished(a, o, cc), Typed(runs[a[1]]),
         a[2] \in DOMAIN runs[a[1]].task, a[3] \in 1..Len(runs[a[1]].attempts[a[2]])
  PROVE  /\ FinishedTo(runs[a[1]], a[2], a[3], a \in attested, t)
         /\ t.status = "completed" => cc
<1> DEFINE run == runs[a[1]]
           i == a[2]
           n == a[3]
           verified == a \in attested
           done == Recorded(run, i, n, o, verified)
           last == IF done.status = "completed" /\ ~cc THEN Unfinished(done, i, n) ELSE done
<1>1. t = Settled(last, o)
  BY Zenon DEF Finished, workerResultHasVerifiedEvidence
<1>2. Typed(run) /\ i \in DOMAIN run.task /\ n \in 1..Len(run.attempts[i])
  BY Zenon
<1> HIDE DEF run, i, n, verified
<1>3. FinishedTo(run, i, n, verified, done)
  BY <1>2, RecordedFields, Zenon
<1> HIDE DEF done
<1>4. FinishedTo(run, i, n, verified, Unfinished(done, i, n)) /\ Unfinished(done, i, n).status # "completed"
  BY <1>2, <1>3, UnfinishedFields, Zenon
<1>5. FinishedTo(run, i, n, verified, last) /\ (last.status = "completed" => cc)
  <2>1. CASE done.status = "completed" /\ ~cc
    <3>1. last = Unfinished(done, i, n)
      BY <2>1, Zenon
    <3> QED
      BY <1>4, <3>1, Zenon
  <2>2. CASE ~(done.status = "completed" /\ ~cc)
    <3>1. last = done
      BY <2>2, Zenon
    <3> QED
      BY <1>3, <2>2, <3>1, Zenon
  <2> QED
    BY <2>1, <2>2, Zenon
<1> HIDE DEF last
<1>6. FinishedTo(run, i, n, verified, t) /\ (t.status = "completed" => last.status = "completed")
  <2>1. FinishedTo(run, i, n, verified, Settled(last, o))
        /\ (Settled(last, o).status = "completed" => last.status = "completed")
    BY <1>5, SettledFields, Zenon
  <2> QED
    BY <1>1, <2>1, Zenon
<1> QED
  BY <1>5, <1>6, Zenon DEF run, i, n, verified

(* An attempt returns and is recorded.                                       *)
LEMMA FinishStep ==
  ASSUME SupervisorIInv, NEW a \in executing, NEW o \in Outcomes, NEW cc \in BOOLEAN,
         finishAttempt(a, o, cc)
  PROVE  StepOk
<1> DEFINE r == a[1]
           t == Finished(a, o, cc)
           base == [runs EXCEPT ![r] = t]
           ex == executing \ {a}
           ru == running \ {a}
           comp == IF cc THEN completed \cup {t.contract} ELSE completed
           ends(ok) == IF ~ok THEN {Saved(runs)}
                       ELSE IF Idle(t) THEN {Saved(base)} ELSE scheduleLocked({Saved(base)}, r)
<1>1. /\ attested' = attested /\ starting' = starting /\ completed' = comp
      /\ runs[a[1]].attempts[a[2]][a[3]] = "running"
      /\ \E ok \in Saves("first") : \E acc \in ends(ok) :
            runs' = acc.disk /\ running' = ru \cup acc.started /\ executing' = ex \cup acc.started
  BY Zenon DEF finishAttempt, Current, Status
<1>2. DocOk(runs, executing, running, attested, completed)
  BY Zenon DEF SupervisorIInv
<1>3. OneLive(runs) /\ completed \subseteq Contracts
  BY Zenon DEF SupervisorIInv, OneLive, OneLiveRunPerContract
<1>4. StartingOk'
  BY <1>1, Zenon DEF SupervisorIInv, StartingOk
<1>5. /\ runs \in Seq(RunRecords) /\ running \subseteq executing
      /\ executing \subseteq (1..Len(runs)) \X Items \X Nat
      /\ attested \subseteq (1..Len(runs)) \X Items \X Nat
      /\ \A q \in 1..Len(runs) : RunOk(q, runs[q], executing, running, attested, completed)
  BY <1>2, Zenon DEF DocOk
<1>6. r \in 1..Len(runs) /\ Triples(executing)
  BY <1>5 DEF Triples
<1>7. RunOk(r, runs[r], executing, running, attested, completed)
  BY <1>5, <1>6, Zenon
<1>8. Typed(runs[r]) /\ a[2] \in DOMAIN runs[r].task /\ a[3] \in 1..Len(runs[r].attempts[a[2]])
  BY <1>7, Zenon DEF RunOk, Known
<1>9. /\ FinishedTo(runs[r], a[2], a[3], a \in attested, t)
      /\ t.status = "completed" => cc
  BY <1>8, FinishedFields, Zenon
<1> HIDE DEF t
<1>10. /\ completed \subseteq comp /\ comp \subseteq Contracts
       /\ t.status = "completed" => t.contract \in comp
  <2>1. t.contract \in Contracts
    BY <1>9, Fields, Zenon DEF FinishedTo
  <2> QED
    BY <1>3, <1>9, <2>1, Zenon
<1>11. ex \subseteq executing /\ ru \subseteq running /\ ru \subseteq ex
  BY <1>5, Zenon
<1>12. ASSUME NEW q \in 1..Len(runs)
       PROVE  RunOk(q, runs[q], ex, ru, attested, comp)
  <2> HIDE DEF ex, ru, comp
  <2> QED
    BY <1>5, <1>10, <1>11, FewerAttempts, Zenon
<1> HIDE DEF comp
<1>13. Ends(r, runs[r], executing, running, attested, comp, a, t)
  BY <1>1, <1>5, <1>6, <1>7, <1>9, <1>10, FinishedKeeps, Zenon
<1>14. /\ RunOk(r, t, ex, ru, attested, comp)
       /\ ~supervisorTerminal(runs[r].status)
       /\ runs[r].task[a[2]] = "running" /\ t.task[a[2]] # "running"
       /\ \A j \in DOMAIN runs[r].task \ {a[2]} :
            runs[r].task[j] # "pending" => t.task[j] = runs[r].task[j]
       /\ t.leases = runs[r].leases \ {a[2]}
       /\ a = <<r, a[2], Len(runs[r].attempts[a[2]])>>
  BY <1>13, Zenon DEF Ends
<1> HIDE DEF r, ex, ru
<1>15. /\ base \in Seq(RunRecords) /\ Len(base) = Len(runs) /\ base[r] = t
       /\ \A q \in 1..Len(runs) : q # r => base[q] = runs[q]
  <2>1. t \in RunRecords
    BY <1>14, Zenon DEF RunOk, Typed
  <2> QED
    BY <1>5, <1>6, <2>1
<1> HIDE DEF base
<1>16. DocOk(base, ex, ru, attested, comp)
  <2>1. \A q \in 1..Len(base) : RunOk(q, base[q], ex, ru, attested, comp)
    BY <1>12, <1>14, <1>15, Zenon
  <2>2. ex \subseteq (1..Len(runs)) \X Items \X Nat
    BY <1>5, <1>11, Zenon
  <2> QED
    BY <1>5, <1>11, <1>15, <2>1, <2>2, Zenon DEF DocOk
<1>17. OneLive(base)
  <2>1. t.contract = runs[r].contract
    BY <1>9, Zenon DEF FinishedTo, r
  <2>2. \A q \in 1..Len(runs) :
          /\ base[q].contract = runs[q].contract
          /\ supervisorTerminal(runs[q].status) => supervisorTerminal(base[q].status)
    BY <1>14, <1>15, <2>1, Zenon
  <2> QED
    BY <1>3, <1>15, <2>2, StaysOneLive, Zenon
<1>18. Onward(runs, executing, running, base)
  <2>2. \A q \in 1..Len(runs) : q # r => Kept(runs, executing, running, base, q)
    BY <1>15, KeptItself, Zenon
  <2>3. Kept(runs, executing, running, base, r)
    <3>1. ASSUME NEW i \in DOMAIN runs[r].task, runs[r].task[i] = "running",
                 <<r, i, Len(runs[r].attempts[i])>> \notin executing
          PROVE  Len(t.attempts[i]) = Len(runs[r].attempts[i]) /\ t.task[i] = "running"
      <4>1. i # a[2]
        BY <1>14, <3>1, Zenon
      <4>2. t.attempts[i] = runs[r].attempts[i]
        BY <1>9, <4>1, Zenon DEF FinishedTo, r
      <4> QED
        BY <1>14, <3>1, <4>1, <4>2
    <3>2. ASSUME NEW i \in DOMAIN runs[r].task, runs[r].task[i] = "outcome_unknown"
          PROVE  t.task[i] = "outcome_unknown"
      BY <1>14, <3>2
    <3>3. \A i \in runs[r].leases : i \in t.leases \/ t.task[i] # "running"
      BY <1>14, Zenon
    <3> QED
      BY <1>15, <3>1, <3>2, <3>3, Zenon DEF Kept
  <2> QED
    BY <1>14, <1>15, <2>2, <2>3, Zenon DEF Onward
<1>19. AccOk(Saved(base), base, ex, ru, attested, comp)
  BY <1>16, SavedOk, Zenon
<1>20. PICK ok \in Saves("first") : \E acc \in ends(ok) :
         runs' = acc.disk /\ running' = ru \cup acc.started /\ executing' = ex \cup acc.started
  BY <1>1, Zenon
<1>21. PICK acc \in ends(ok) :
         runs' = acc.disk /\ running' = ru \cup acc.started /\ executing' = ex \cup acc.started
  BY <1>20, Zenon
<1>22. CASE ~ok
  <2>2. acc = Saved(runs)
    BY <1>21, <1>22, Zenon
  <2>3. runs' = runs /\ acc.started = {}
    BY <1>21, <2>2, Zenon DEF Saved
  <2>4. running' = ru /\ executing' = ex
    BY <1>21, <2>3
  <2>5. DocOk(runs, ex, ru, attested, comp)
    <3>1. ex \subseteq (1..Len(runs)) \X Items \X Nat
      BY <1>5, <1>11, Zenon
    <3> QED
      BY <1>5, <1>11, <1>12, <3>1, Zenon DEF DocOk
  <2> QED
    BY <1>1, <1>3, <1>4, <1>10, <2>3, <2>4, <2>5, OnwardItself, Zenon DEF StepOk
<1>23. CASE ok
  <2>1. AccOk(acc, base, ex, ru, attested, comp)
    <3>1. CASE Idle(t)
      <4>1. acc = Saved(base)
        BY <1>21, <1>23, <3>1, Zenon
      <4> QED
        BY <1>19, <4>1, Zenon
    <3>2. CASE ~Idle(t)
      <4>1. acc \in scheduleLocked({Saved(base)}, r)
        BY <1>21, <1>23, <3>2, Zenon
      <4>2. ~supervisorTerminal(base[r].status)
        BY <1>15, <3>2 DEF Idle, supervisorTerminal
      <4>3. r \in 1..Len(base)
        BY <1>6, <1>15, Zenon
      <4>4. \A x \in {Saved(base)} : AccOk(x, base, ex, ru, attested, comp)
        BY <1>19, Zenon
      <4> QED
        BY <4>1, <4>2, <4>3, <4>4, ScheduleKeeps, Zenon
    <3> QED
      BY <3>1, <3>2, Zenon
  <2>2. /\ DocOk(acc.disk, ex \cup acc.started, ru \cup acc.started, attested, comp)
        /\ OneLive(acc.disk) /\ Onward(runs, executing, running, acc.disk)
    <3>1. \A q \in 1..Len(runs) : DOMAIN base[q].task = DOMAIN runs[q].task /\ Leased(runs[q])
      <4>1. DOMAIN t.task = DOMAIN runs[r].task
        BY <1>9, Zenon DEF FinishedTo, r
      <4> QED
        BY <1>5, <1>15, <4>1, Zenon DEF RunOk
    <3> QED
      BY <1>17, <1>18, <2>1, <3>1, Committed, Zenon
  <2> QED
    BY <1>1, <1>4, <1>10, <1>21, <2>2, Zenon DEF StepOk
<1> QED
  BY <1>22, <1>23, Zenon

\* The three steps of RunSteps.
EndedStays ==
    \A r \in 1..Len(runs) : supervisorTerminal(runs[r].status) => runs'[r] = runs[r]
EffectsStay ==
    \A r \in 1..Len(runs) : \A i \in DOMAIN runs[r].task :
         /\ /\ i \in External /\ runs[r].task[i] = "running"
            /\ <<r, i, Len(runs[r].attempts[i])>> \notin executing
            => /\ Len(runs'[r].attempts[i]) = Len(runs[r].attempts[i])
               /\ runs'[r].task[i] \in {"running", "outcome_unknown", "cancelled"}
         /\ runs[r].task[i] = "outcome_unknown" =>
               runs'[r].task[i] \in {"outcome_unknown", "cancelled"}
LeasesStay ==
    \A r \in 1..Len(runs) : \A i \in runs[r].leases :
         \/ i \in runs'[r].leases
         \/ runs'[r].task[i] # "running" \/ Lost(runs, r) # {} \/ LeaseExpires(r, i)

(* A document that went onward took those steps.                             *)
LEMMA OnwardSteps ==
  ASSUME Onward(runs, executing, running, runs')
  PROVE  EndedStays /\ EffectsStay /\ LeasesStay
<1>1. EndedStays
  BY Zenon DEF EndedStays, Onward
<1>2. EffectsStay
  BY Zenon DEF EffectsStay, Onward, Kept
<1>3. \A r : Lost(runs, r) = Unowned(r, runs[r], running)
  BY Zenon DEF Lost, Unowned
<1>4. LeasesStay
  BY <1>3, Zenon DEF LeasesStay, Onward, Kept
<1> QED
  BY <1>1, <1>2, <1>4

(* The lease of a running task runs out.                                     *)
LEMMA LeaseExpiresStep ==
  ASSUME SupervisorIInv, NEW r \in 1..Len(runs), NEW i \in Items, LeaseExpires(r, i)
  PROVE  SupervisorIInv' /\ EndedStays /\ EffectsStay /\ LeasesStay
<1> DEFINE run == runs[r]
           left == run.leases \ {i}
           t == [run EXCEPT !.leases = left]
<1>1. /\ running' = running /\ executing' = executing /\ attested' = attested
      /\ completed' = completed /\ starting' = starting
      /\ i \in RunningTasks(run) /\ i \in run.leases
  BY Zenon DEF LeaseExpires
<1>2. runs' = [runs EXCEPT ![r] = t]
  BY DEF LeaseExpires
<1>3. DocOk(runs, executing, running, attested, completed)
  BY Zenon DEF SupervisorIInv
<1>4. /\ runs \in Seq(RunRecords) /\ running \subseteq executing
      /\ executing \subseteq (1..Len(runs)) \X Items \X Nat
      /\ attested \subseteq (1..Len(runs)) \X Items \X Nat
      /\ \A q \in 1..Len(runs) : RunOk(q, runs[q], executing, running, attested, completed)
  BY <1>3, Zenon DEF DocOk
<1>5. RunOk(r, run, executing, running, attested, completed) /\ Typed(run)
  BY <1>4, Zenon DEF RunOk
<1> HIDE DEF run, left
<1>6. t = Run(run.contract, run.status, run.task, run.attempts, left,
              run.usage, run.projection, run.retries)
  BY <1>5, Whole DEF Run
<1>7. /\ t.contract = run.contract /\ t.status = run.status /\ t.task = run.task
      /\ t.attempts = run.attempts /\ t.leases = run.leases \ {i}
  BY <1>6 DEF Run, left
<1>8. Typed(t)
  <2>1. left \in SUBSET DOMAIN run.task
    BY <1>5, Fields, Zenon DEF left
  <2> QED
    BY <1>5, <1>6, <2>1, Fields, TypedRun, Zenon
<1> HIDE DEF t
<1>9. RunningTasks(t) = RunningTasks(run)
  BY <1>7, Zenon DEF RunningTasks
<1>10. Leased(run)
  BY <1>5, Zenon DEF RunOk
<1>11. Leased(t)
  BY <1>7, <1>9, <1>10, Zenon DEF Leased
<1>12. RunOk(r, t, executing, running, attested, completed)
  <2>1. \A a : (Known(t, a) <=> Known(run, a)) /\ (Works(t, a) <=> Works(run, a))
    BY <1>7, Zenon DEF Known, Works
  <2> QED
    BY <1>5, <1>7, <1>8, <1>9, <1>11, <2>1, Zenon DEF RunOk
<1>13. ~supervisorTerminal(run.status)
  BY <1>1, <1>5, Zenon DEF RunOk
<1>14. /\ runs' \in Seq(RunRecords) /\ Len(runs') = Len(runs) /\ runs'[r] = t
       /\ \A q \in 1..Len(runs) : q # r => runs'[q] = runs[q]
  <2>1. t \in RunRecords
    BY <1>8, Zenon DEF Typed
  <2> QED
    BY <1>2, <1>4, <2>1
<1>15. DocOk(runs', executing', running', attested', completed')
  <2>1. \A q \in 1..Len(runs) : RunOk(q, runs'[q], executing, running, attested, completed)
    BY <1>4, <1>12, <1>14, Zenon
  <2> QED
    BY <1>1, <1>4, <1>14, <2>1, Zenon DEF DocOk
<1>16. OneLive(runs')
  <2>1. OneLive(runs)
    BY Zenon DEF SupervisorIInv, OneLive, OneLiveRunPerContract
  <2>2. \A q \in 1..Len(runs) :
          /\ runs'[q].contract = runs[q].contract
          /\ supervisorTerminal(runs[q].status) => supervisorTerminal(runs'[q].status)
    BY <1>7, <1>14, Zenon DEF run
  <2> QED
    BY <1>14, <2>1, <2>2, StaysOneLive, Zenon
<1>17. SupervisorIInv'
  BY <1>1, <1>15, <1>16, Zenon DEF SupervisorIInv, StartingOk, OneLive, OneLiveRunPerContract
<1>18. EndedStays
  BY <1>13, <1>14, Zenon DEF EndedStays, run
<1>19. EffectsStay
  <2>1. \A q \in 1..Len(runs) : runs'[q].task = runs[q].task /\ runs'[q].attempts = runs[q].attempts
    BY <1>7, <1>14, Zenon DEF run
  <2> QED
    BY <2>1, Zenon DEF EffectsStay
<1>20. LeasesStay
  BY <1>7, <1>14, Zenon DEF LeasesStay, run
<1> QED
  BY <1>17, <1>18, <1>19, <1>20

(* Every step, and a stutter, keeps the invariant and is one of RunSteps.    *)
LEMMA SupervisorStep ==
  ASSUME SupervisorIInv, [Next]_vars
  PROVE  SupervisorIInv' /\ EndedStays /\ EffectsStay /\ LeasesStay
<1>1. CASE StepOk
  BY <1>1, OnwardSteps, Zenon DEF StepOk, SupervisorIInv, OneLive, OneLiveRunPerContract
<1>2. CASE Next
  <2>1. StepOk \/ \E r \in 1..Len(runs), i \in Items : LeaseExpires(r, i)
    BY <1>2, StartReadStep, StartStep, InspectStep, VerifyStep, FinishStep, FinishStaleStep,
       CancelStep, CrashStep, Zenon DEF Next
  <2> QED
    BY <1>1, <2>1, LeaseExpiresStep, Zenon
<1>3. CASE UNCHANGED vars
  <2>1. /\ runs' = runs /\ running' = running /\ executing' = executing /\ attested' = attested
        /\ completed' = completed /\ starting' = starting
    BY <1>3, Zenon DEF vars
  <2>2. Onward(runs, executing, running, runs')
    BY <2>1, OnwardItself, Zenon
  <2> QED
    BY <2>1, <2>2, OnwardSteps, Zenon DEF SupervisorIInv, StartingOk, OneLiveRunPerContract
<1> QED
  BY <1>2, <1>3, Zenon

(* The invariant holds at the start.                                         *)
LEMMA SupervisorInit ==
  ASSUME Init
  PROVE  SupervisorIInv
<1>1. /\ runs = <<>> /\ running = {} /\ executing = {} /\ attested = {} /\ completed = {}
      /\ starting = NoStart
  BY Zenon DEF Init
<1>2. Len(runs) = 0 /\ runs \in Seq(RunRecords) /\ 1..Len(runs) = {}
  BY <1>1
<1>3. DocOk(runs, executing, running, attested, completed)
  BY <1>1, <1>2, Zenon DEF DocOk
<1>4. OneLiveRunPerContract
  BY <1>2, Zenon DEF OneLiveRunPerContract
<1> QED
  BY <1>1, <1>3, <1>4, Zenon DEF SupervisorIInv, StartingOk

(* What the invariant says of one run and its attempts.                      *)
LEMMA EachRun ==
  ASSUME SupervisorIInv
  PROVE  /\ \A r \in 1..Len(runs) :
              RunOk(r, runs[r], executing, running, attested, completed) /\ Typed(runs[r])
         /\ running \subseteq executing
         /\ \A a \in executing \cup attested :
              /\ a \in (1..Len(runs)) \X Items \X Nat /\ a[1] \in 1..Len(runs)
              /\ a[2] \in Items /\ a[3] \in Nat /\ a = <<a[1], a[2], a[3]>>
              /\ Known(runs[a[1]], a)
<1>1. DocOk(runs, executing, running, attested, completed)
  BY Zenon DEF SupervisorIInv
<1>2. /\ \A r \in 1..Len(runs) :
           RunOk(r, runs[r], executing, running, attested, completed) /\ Typed(runs[r])
      /\ running \subseteq executing
  BY <1>1, Zenon DEF DocOk, RunOk
<1>3. executing \cup attested \subseteq (1..Len(runs)) \X Items \X Nat
  BY <1>1, Zenon DEF DocOk
<1>4. \A a \in executing \cup attested :
         /\ a \in (1..Len(runs)) \X Items \X Nat /\ a[1] \in 1..Len(runs)
         /\ a[2] \in Items /\ a[3] \in Nat /\ a = <<a[1], a[2], a[3]>>
  BY <1>3
<1>5. \A a \in executing \cup attested : Known(runs[a[1]], a)
  BY <1>2, <1>4, Zenon DEF RunOk
<1> QED
  BY <1>2, <1>4, <1>5, Zenon

(* The document and the process state have their types.                      *)
LEMMA InvType ==
  ASSUME SupervisorIInv
  PROVE  TypeOK
<1>1. ASSUME NEW r \in 1..Len(runs)
      PROVE  LET run == runs[r] IN
             /\ run.contract \in Contracts /\ run.status \in RunStatus
             /\ run.task \in [DOMAIN run.task -> TaskStatus] /\ DOMAIN run.task \subseteq Items
             /\ \A i \in DOMAIN run.task : run.attempts[i] \in Seq(TaskStatus)
             /\ run.leases \subseteq DOMAIN run.task
             /\ run.usage \in Nat /\ run.projection \in Nat /\ run.retries \in 0..(MaxRetries + 1)
  <2> DEFINE run == runs[r]
  <2>1. Typed(run)
    BY EachRun, Zenon
  <2> HIDE DEF run
  <2>2. /\ run.contract \in Contracts /\ run.status \in RunStatus
        /\ run.task \in [DOMAIN run.task -> TaskStatus] /\ DOMAIN run.task \in SUBSET Items
        /\ run.attempts \in [DOMAIN run.task -> Seq(TaskStatus)]
        /\ run.leases \in SUBSET Items /\ run.leases \subseteq DOMAIN run.task
        /\ run.usage \in Nat /\ run.projection \in Nat /\ run.retries \in 0..(MaxRetries + 1)
    BY <2>1, Fields, Zenon
  <2>3. \A i \in DOMAIN run.task : run.attempts[i] \in Seq(TaskStatus)
    BY <2>2, Zenon
  <2> QED
    BY <2>2, <2>3, Zenon DEF run
<1>2. ASSUME NEW a \in executing \cup attested
      PROVE  a \in Attempts(runs)
  <2>1. /\ a[1] \in 1..Len(runs) /\ a[2] \in Items /\ a[3] \in Nat /\ a = <<a[1], a[2], a[3]>>
        /\ Known(runs[a[1]], a) /\ Typed(runs[a[1]])
    BY EachRun, Zenon
  <2>2. a[2] \in DOMAIN runs[a[1]].task /\ a[3] \in 1..Len(runs[a[1]].attempts[a[2]])
    BY <2>1, Zenon DEF Known
  <2>3. runs[a[1]].attempts[a[2]] \in Seq(TaskStatus)
    BY <1>1, <2>1, <2>2, Zenon
  <2>4. a[3] \in Nat \ {0} /\ a[3] <= Len(runs[a[1]].attempts[a[2]])
    BY <2>2, <2>3
  <2>5. a \in (1..Len(runs)) \X Items \X (Nat \ {0})
    BY <2>1, <2>4
  <2> QED
    BY <2>2, <2>4, <2>5, Zenon DEF Attempts
<1>3. running \cup executing \cup attested \subseteq Attempts(runs)
  BY <1>2, EachRun, Zenon
<1>4. completed \subseteq Contracts
  BY Zenon DEF SupervisorIInv
<1> QED
  BY <1>1, <1>3, <1>4, Zenon DEF TypeOK

(* A verified item is covered by the portfolio's artifacts.                  *)
LEMMA VerifiedIsCovered ==
  ASSUME SupervisorIInv, NEW r \in 1..Len(runs), NEW d, Verified(attested, r, d)
  PROVE  d \in Covered(runs[r].contract)
<1>1. PICK a \in attested : a[1] = r /\ a[2] = d
  BY Zenon DEF Verified
<1>2. d \in Items
  BY <1>1, EachRun, Zenon
<1> QED
  BY <1>1, <1>2, Zenon DEF Covered

(* What the invariant says of tasks, workers and completion.                 *)
LEMMA InvParts ==
  ASSUME SupervisorIInv
  PROVE  DependenciesFirst /\ NoOrphanWorker /\ CompletionIsVerified
<1>1. DependenciesFirst
  <2>1. SUFFICES ASSUME NEW r \in 1..Len(runs), NEW i \in RunningTasks(runs[r]), NEW d \in DependsOn[i]
                 PROVE  d \in Covered(runs[r].contract)
    BY Zenon DEF DependenciesFirst
  <2>2. Verified(attested, r, d)
    BY EachRun, Zenon DEF RunOk
  <2> QED
    BY <2>2, VerifiedIsCovered, Zenon
<1>2. \A a \in running : /\ Status(runs, a) = "running"
                         /\ a[3] = Len(runs[a[1]].attempts[a[2]])
                         /\ runs[a[1]].task[a[2]] = "running"
  BY EachRun, Zenon DEF RunOk, Works, Status
<1>3. ASSUME NEW a \in running, NEW b \in running, a[1] = b[1], a[2] = b[2]
      PROVE  a = b
  <2>1. a[3] = b[3]
    BY <1>2, <1>3
  <2>2. a = <<a[1], a[2], a[3]>> /\ b = <<b[1], b[2], b[3]>>
    BY EachRun, Zenon
  <2> QED
    BY <1>3, <2>1, <2>2, Zenon
<1>4. CompletionIsVerified
  <2>1. SUFFICES ASSUME NEW r \in 1..Len(runs), runs[r].status = "completed"
                 PROVE  /\ runs[r].contract \in completed
                        /\ DOMAIN runs[r].task \subseteq Covered(runs[r].contract)
    BY Zenon DEF CompletionIsVerified
  <2>2. RunOk(r, runs[r], executing, running, attested, completed)
    BY EachRun, Zenon
  <2>3. \A d \in DOMAIN runs[r].task : Verified(attested, r, d)
    BY <2>1, <2>2, Zenon DEF RunOk
  <2>4. \A d \in DOMAIN runs[r].task : d \in Covered(runs[r].contract)
    BY <2>3, VerifiedIsCovered, Zenon
  <2> QED
    BY <2>1, <2>2, <2>4, Zenon DEF RunOk
<1> QED
  BY <1>1, <1>2, <1>3, <1>4, Zenon DEF NoOrphanWorker

(* Tasks that run under leases do not conflict.                              *)
LEMMA InvConflicts ==
  ASSUME SupervisorIInv
  PROVE  ConflictingTasksAlternate
<1>1. \A r \in 1..Len(runs) : Leased(runs[r])
  BY EachRun, Zenon DEF RunOk
<1> QED
  BY <1>1, Zenon DEF Leased, ConflictingTasksAlternate

-----------------------------------------------------------------------------
(* Theorems *)

(* The inductive invariant of the supervisor: whatever handlers, workers,    *)
(* failing saves and crashes do, the document and the process agree.         *)
THEOREM SupervisorInvariance == Spec => []SupervisorIInv
<1>1. Init => SupervisorIInv
  BY SupervisorInit
<1>2. SupervisorIInv /\ [Next]_vars => SupervisorIInv'
  BY SupervisorStep
<1> QED
  BY <1>1, <1>2, PTL DEF Spec

(* A contract never has two live runs, although Start reads the portfolio    *)
(* before it takes the mutex (Start, supervisor.go).                         *)
THEOREM OneLiveRun == Spec => []OneLiveRunPerContract
<1>1. SupervisorIInv => OneLiveRunPerContract
  BY DEF SupervisorIInv
<1> QED
  BY <1>1, SupervisorInvariance, PTL

(* Whichever saves fail, leases run out and processes die: tasks run after   *)
(* their dependencies, tasks under leases do not conflict, a worker the      *)
(* process can cancel is the only and last one of a running task, and a run  *)
(* is completed only on verified artifacts (finishAttempt, reconcileRestart, *)
(* scheduleLocked, Cancel).                                                  *)
THEOREM RunInvariance == Spec => []RunInv
<1>1. SupervisorIInv => RunInv
  BY InvType, InvParts, InvConflicts DEF RunInv
<1> QED
  BY <1>1, SupervisorInvariance, PTL

(* Whichever saves fail: no step touches a run that ended, an effect that    *)
(* was lost or is unknown is never tried again, and a running task keeps its *)
(* lease until it runs out or the process has lost an attempt of the run     *)
(* (reconcileRestart, finishAttempt, releaseTaskLeases).                     *)
THEOREM RunStepsHold == Spec => RunSteps
<1>1. SupervisorIInv /\ [Next]_vars => [EndedStays]_vars /\ [EffectsStay]_vars /\ [LeasesStay]_vars
  BY SupervisorStep
<1>2. SupervisorIInv /\ [Next]_vars => SupervisorIInv'
  BY SupervisorStep
<1>3. Init => SupervisorIInv
  BY SupervisorInit
<1>4. Spec => [][EndedStays]_vars /\ [][EffectsStay]_vars /\ [][LeasesStay]_vars
  BY <1>1, <1>2, <1>3, PTL DEF Spec
<1>5. TerminalRunsAreFinal <=> [][EndedStays]_vars
  BY DEF TerminalRunsAreFinal, EndedStays
<1>6. LostEffectsAreNotRetried <=> [][EffectsStay]_vars
  BY DEF LostEffectsAreNotRetried, EffectsStay
<1>7. LeasesLast <=> [][LeasesStay]_vars
  BY DEF LeasesLast, LeasesStay
<1> QED
  BY <1>4, <1>5, <1>6, <1>7, PTL DEF RunSteps
=============================================================================
