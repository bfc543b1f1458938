--------------------------- MODULE ProjectRuntime ---------------------------
(***************************************************************************)
(* A named local service of a project.  Start spawns the process, records  *)
(* it and probes it until it answers; a goroutine waits for the process;   *)
(* Stop, Reload and the preview tools work on the runtime in the `active'  *)
(* map; every one of them saves a copy of the state that it took earlier.  *)
(* Every Start that gets past its first checks is an instance of its own.  *)
(* Saves whose error the code ignores are taken to succeed.                *)
(***************************************************************************)
EXTENDS Naturals, FiniteSets

CONSTANTS
    Instances,      \* 1 .. n: the starts
    MaxCalls,       \* bound: calls of Stop, Reload, Report...
    MaxDeaths       \* bound: crashes of the daemon

\* 0 stands for no runtime.
ASSUME InstancesAssumption == Instances \subseteq Nat \ {0}

VARIABLES
    state,          \* runtime.state of an instance: Status, and whether StoppedAt is set
    process,        \* "none", "alive" or "dead"
    starter,        \* where the Start of an instance is
    waiter,         \* where its wait goroutine is
    stopper,        \* the call of Stop: where it is, its runtime, previousStatus
    touching,       \* whether a call of Reload, Report, Inspect, Annotate... is saving
    activeRuntime,  \* service.active[key], 0 for none
    saving,         \* copies taken by persist and not yet in the store
    row,            \* the row of the name
    calls, deaths

runtimeVars == <<state, process, starter, waiter, stopper, touching, activeRuntime, saving, row, calls, deaths>>

NoRow == [of |-> 0, status |-> "none"]
NoStop == [at |-> "idle", of |-> 0, previous |-> "none"]

RuntimeInit ==
    /\ state = [i \in Instances |-> [status |-> "none", stopped |-> FALSE]]
    /\ process = [i \in Instances |-> "none"]
    /\ starter = [i \in Instances |-> "new"]
    /\ waiter = [i \in Instances |-> "none"]
    /\ stopper = NoStop /\ touching = FALSE
    /\ activeRuntime = 0 /\ saving = {} /\ row = NoRow /\ calls = 0 /\ deaths = 0

\* Get: the active runtime, or the row.
Get == IF activeRuntime # 0 THEN [of |-> activeRuntime, status |-> state[activeRuntime].status] ELSE row

Copy(by, i, status) == [by |-> by, of |-> i, status |-> status]
IsSaved(by, i) == ~\E copy \in saving : copy.by = by /\ copy.of = i

-----------------------------------------------------------------------------
\* Start: an existing runtime that runs is refused, one that ended is forgotten.
StartCheck(i) ==
    /\ starter[i] = "new" /\ \A j \in Instances : j < i => starter[j] # "new"
    /\ Get.status \notin {"running", "starting"}
    /\ starter' = [starter EXCEPT ![i] = IF Get = NoRow THEN "planned" ELSE "forgetting"]
    /\ UNCHANGED <<state, process, waiter, stopper, touching, activeRuntime, saving, row, calls, deaths>>

StartDelete(i) ==
    /\ starter[i] = "forgetting"
    /\ row' = NoRow
    /\ starter' = [starter EXCEPT ![i] = "planned"]
    /\ UNCHANGED <<state, process, waiter, stopper, touching, activeRuntime, saving, calls, deaths>>

\* Mutant: the name is taken without a look at the map.
StartTakes(i) ==
    /\ starter[i] = "planned"
    /\ activeRuntime' = i
    /\ state' = [state EXCEPT ![i].status = "starting"]
    /\ starter' = [starter EXCEPT ![i] = "reserved"]
    /\ UNCHANGED <<process, waiter, stopper, touching, saving, row, calls, deaths>>

\* The name is taken under the mutex, unless somebody has it: ErrConflict.
StartReserve(i) ==
    /\ starter[i] = "planned"
    /\ IF activeRuntime # 0
       THEN starter' = [starter EXCEPT ![i] = "done"] /\ UNCHANGED <<activeRuntime, state>>
       ELSE /\ activeRuntime' = i
            /\ state' = [state EXCEPT ![i].status = "starting"]
            /\ starter' = [starter EXCEPT ![i] = "reserved"]
    /\ UNCHANGED <<process, waiter, stopper, touching, saving, row, calls, deaths>>

\* The cache directory and the process, or a failure that gives the name back.
StartSpawn(i) ==
    /\ starter[i] = "reserved"
    /\ \/ /\ process' = [process EXCEPT ![i] = "alive"]
          /\ starter' = [starter EXCEPT ![i] = "spawned"]
          /\ UNCHANGED activeRuntime
       \/ /\ activeRuntime' = 0
          /\ starter' = [starter EXCEPT ![i] = "done"]
          /\ UNCHANGED process
    /\ UNCHANGED <<state, waiter, stopper, touching, saving, row, calls, deaths>>

\* The first save, whose failure kills the process and gives the name back.
StartPersist(i) ==
    /\ starter[i] = "spawned"
    /\ \/ /\ row' = [of |-> i, status |-> state[i].status]
          /\ waiter' = [waiter EXCEPT ![i] = "waiting"]
          /\ starter' = [starter EXCEPT ![i] = "probing"]
          /\ UNCHANGED <<process, activeRuntime>>
       \/ /\ process' = [process EXCEPT ![i] = "dead"]
          /\ activeRuntime' = 0
          /\ starter' = [starter EXCEPT ![i] = "done"]
          /\ waiter' = [waiter EXCEPT ![i] = "never"]
          /\ UNCHANGED row
    /\ UNCHANGED <<state, stopper, touching, saving, calls, deaths>>

\* The endpoint answers,
Ready(i) ==
    /\ starter[i] = "probing" /\ process[i] = "alive"
    /\ starter' = [starter EXCEPT ![i] = "answered"]
    /\ UNCHANGED <<state, process, waiter, stopper, touching, activeRuntime, saving, row, calls, deaths>>

\* and the runtime is running, whatever has happened since.
MarkRunning(i) ==
    /\ starter[i] = "answered"
    /\ state' = [state EXCEPT ![i].status = "running"]
    /\ saving' = saving \union {Copy("start", i, "running")}
    /\ starter' = [starter EXCEPT ![i] = "done"]
    /\ UNCHANGED <<process, waiter, stopper, touching, activeRuntime, row, calls, deaths>>

\* The process stopped or the deadline passed; or the caller went away, which leaves
\* the status alone.
NotReady(i) ==
    /\ starter[i] = "probing"
    /\ \/ /\ starter' = [starter EXCEPT ![i] = "failing"]
          /\ state' = [state EXCEPT ![i].status = IF @ = "crashed" THEN @ ELSE "failed"]
       \/ /\ starter' = [starter EXCEPT ![i] = "abandoning"]
          /\ UNCHANGED state
    /\ UNCHANGED <<process, waiter, stopper, touching, activeRuntime, saving, row, calls, deaths>>

-----------------------------------------------------------------------------
\* stopRuntime has sent SIGTERM and waits for StoppedAt: nil when it is set; at the
\* deadline SIGKILL, or os.ErrProcessDone when there is no process yet, or it was taken
\* over from an earlier daemon and has been reaped.
StopRuntimeErr(i) == ~state[i].stopped /\ process[i] # "alive" /\ waiter[i] = "none"
AfterKill(i) == [process EXCEPT ![i] = "dead"]

FailStart(i) ==
    /\ starter[i] \in {"failing", "abandoning"}
    /\ process' = AfterKill(i)
    /\ starter' = [starter EXCEPT ![i] = "done"]
    /\ IF starter[i] = "failing"
       THEN /\ state' = [state EXCEPT ![i].status = "failed"]
            /\ saving' = saving \union {Copy("start", i, "failed")}
       ELSE UNCHANGED <<state, saving>>
    /\ UNCHANGED <<waiter, stopper, touching, activeRuntime, row, calls, deaths>>

\* Stop of a runtime in the map; one that is not is refused or has ended already.
Stop ==
    /\ stopper.at = "idle" /\ activeRuntime # 0 /\ calls < MaxCalls /\ calls' = calls + 1
    /\ stopper' = [at |-> "stopping", of |-> activeRuntime, previous |-> state[activeRuntime].status]
    /\ state' = [state EXCEPT ![activeRuntime].status = "stopped"]
    /\ UNCHANGED <<process, starter, waiter, touching, activeRuntime, saving, row, deaths>>

StopEnds ==
    LET i == stopper.of IN
    /\ stopper.at = "stopping"
    /\ \/ /\ ~StopRuntimeErr(i)
          /\ process' = AfterKill(i)
          /\ saving' = saving \union {Copy("stop", i, state[i].status)}
          /\ stopper' = [stopper EXCEPT !.at = "saving"]
          /\ UNCHANGED state
       \/ /\ StopRuntimeErr(i)
          /\ state' = [state EXCEPT ![i].status = stopper.previous]
          /\ stopper' = NoStop
          /\ UNCHANGED <<process, saving>>
    /\ UNCHANGED <<starter, waiter, touching, activeRuntime, row, calls, deaths>>

\* Reload, Report, Inspect, Annotate, ProposeStyle and the end of Restart change
\* what the model leaves out, and save.
Touch ==
    /\ ~touching /\ activeRuntime # 0 /\ calls < MaxCalls /\ calls' = calls + 1
    /\ touching' = TRUE
    /\ saving' = saving \union {Copy("touch", activeRuntime, state[activeRuntime].status)}
    /\ UNCHANGED <<state, process, starter, waiter, stopper, activeRuntime, row, deaths>>

\* persist copies the state; then the copy is written, and the caller returns.
Save ==
    \E copy \in saving :
        /\ row' = [of |-> copy.of, status |-> copy.status]
        /\ saving' = saving \ {copy}
        /\ touching' = (touching /\ copy.by # "touch")
        /\ stopper' = IF copy.by = "stop" THEN NoStop ELSE stopper
        /\ UNCHANGED <<state, process, starter, waiter, activeRuntime, calls, deaths>>

-----------------------------------------------------------------------------
\* The process ends by itself, or because of SIGTERM.
Exit(i) ==
    /\ process[i] = "alive"
    /\ process' = [process EXCEPT ![i] = "dead"]
    /\ UNCHANGED <<state, starter, waiter, stopper, touching, activeRuntime, saving, row, calls, deaths>>

\* wait: the end is noted and saved,
Note(i) ==
    /\ waiter[i] = "waiting" /\ process[i] = "dead"
    /\ \E ended \in {"stopped", "crashed"} :
        LET status == IF state[i].status \in {"stopped", "failed"} THEN state[i].status ELSE ended IN
        /\ state' = [state EXCEPT ![i] = [status |-> status, stopped |-> TRUE]]
        /\ saving' = saving \union {Copy("wait", i, status)}
    /\ waiter' = [waiter EXCEPT ![i] = "noted"]
    /\ UNCHANGED <<process, starter, stopper, touching, activeRuntime, row, calls, deaths>>

\* and the name given back.
removeActive(i) ==
    /\ waiter[i] = "noted" /\ IsSaved("wait", i)
    /\ activeRuntime' = 0
    /\ waiter' = [waiter EXCEPT ![i] = "done"]
    /\ UNCHANGED <<state, process, starter, stopper, touching, saving, row, calls, deaths>>

\* The daemon dies and the next one takes over the process the row names, without a
\* goroutine, or notes that it is gone.
ReconcileRuntime ==
    /\ deaths < MaxDeaths /\ deaths' = deaths + 1
    /\ saving' = {} /\ stopper' = NoStop /\ touching' = FALSE
    /\ starter' = [i \in Instances |-> IF starter[i] = "new" THEN "new" ELSE "done"]
    /\ waiter' = [i \in Instances |-> "none"]
    /\ LET runs == row.status \in {"running", "starting"}
           here == runs /\ process[row.of] = "alive" IN
       /\ activeRuntime' = IF here THEN row.of ELSE 0
       /\ row' = IF runs /\ ~here THEN [row EXCEPT !.status = "crashed"] ELSE row
       /\ state' = [i \in Instances |->
                      [status |-> IF here /\ i = row.of THEN row.status ELSE "none",
                       stopped |-> FALSE]]
    /\ UNCHANGED <<process, calls>>

-----------------------------------------------------------------------------
RuntimeNext ==
    \/ \E i \in Instances :
          \/ StartCheck(i) \/ StartDelete(i) \/ StartReserve(i) \/ StartSpawn(i) \/ StartPersist(i)
          \/ Ready(i) \/ MarkRunning(i) \/ NotReady(i) \/ FailStart(i)
          \/ Exit(i) \/ Note(i) \/ removeActive(i)
    \/ Save \/ Stop \/ StopEnds \/ Touch \/ ReconcileRuntime

\* The daemon's own steps: a Start that reached its process goes on to its answer or
\* its deadline, copies reach the store, and an ended process is noted.
RuntimeFairness ==
    /\ WF_runtimeVars(Save)
    /\ \A i \in Instances :
         WF_runtimeVars(StartPersist(i) \/ NotReady(i) \/ MarkRunning(i) \/ FailStart(i)
                          \/ Note(i) \/ removeActive(i))

RuntimeSpec == RuntimeInit /\ [][RuntimeNext]_runtimeVars /\ RuntimeFairness

-----------------------------------------------------------------------------
\* Until the daemon dies, a name has one process at most, and it is that of the
\* runtime in the map: whatever starts, stops and failures overlap, no process is
\* left running that Stop could not reach.
OneProcessPerName ==
    deaths = 0 => \A i \in Instances : process[i] = "alive" => activeRuntime = i

\* A service that is reported as running is running, or is reported otherwise before
\* long: "A crashed process SHALL be translated into task-first status".
CrashIsReported ==
    (Get.status = "running" /\ process[Get.of] = "dead")
        ~> (Get.status # "running" \/ process[Get.of] # "dead")
=============================================================================
