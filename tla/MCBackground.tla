---------------------------- MODULE MCBackground ----------------------------
(* What runs in the background, for TLC: supervisor runs, the registry of      *)
(* sub-agents, the alarm scheduler, or the process of a project terminal.  A   *)
(* behaviour is one of them.  The terminal has a ring of two bytes, twice as   *)
(* much output and one crash.                                                  *)
EXTENDS WorkSupervisor, SwarmRegistry, ProjectTerminal, TLC

VARIABLES part,
          now, documents, sweep, daemon, minted, created, attempts, interrupted, faults

alarmVars == <<now, documents, sweep, daemon, minted, created, attempts, interrupted, faults>>

\* Two items that conflict.
TwoItems == <<"a", "c">>
TwoDependsOn == [i \in {"a", "c"} |-> {}]
TwoReads == [i \in {"a", "c"} |-> {}]
TwoWrites == [i \in {"a", "c"} |-> {"f"}]

\* Two children of one session and two parents; one slot in the channel.
OneSession == <<"s", "s">>
TwoParents == <<"p", "q">>

\* Two alarms, which need not make room for each other, and one fault.
Alarm == INSTANCE Scheduler
    WITH Alarms <- 1 .. 2, Actors <- {"u1"}, Keys <- {}, NoKey <- "NoKey",
         Delays <- {2}, MaxFailures <- 2, ClaimLease <- 2, Backoff <- 1, MaxBackoff <- 2,
         MaxAlarms <- 2, MaxTime <- 4, MaxFaults <- 1

BackgroundInit ==
    /\ part \in {"supervisor", "swarm", "scheduler", "terminal"}
    /\ Init /\ SwarmInit /\ Alarm!Init /\ TerminalInit

SupervisorNext ==
    part = "supervisor" /\ Next /\ UNCHANGED <<part, swarmVars, alarmVars, terminalVars>>
AgentsNext ==
    part = "swarm" /\ SwarmNext /\ UNCHANGED <<part, vars, alarmVars, terminalVars>>
SchedulerNext ==
    part = "scheduler" /\ Alarm!Next /\ UNCHANGED <<part, vars, swarmVars, terminalVars>>
ProcessNext ==
    part = "terminal" /\ TerminalNext /\ UNCHANGED <<part, vars, swarmVars, alarmVars>>

backgroundVars == <<part, vars, swarmVars, alarmVars, terminalVars>>

\* Fairness of the part that runs.  Nothing the others are fair to is enabled, but
\* for the scheduler's clock and sweep.
BackgroundFairness ==
    /\ SupervisorFairness
    /\ SwarmFairness
    /\ TerminalFairness
    /\ WF_alarmVars(part = "scheduler" /\ Alarm!claimNext)
    /\ WF_alarmVars(part = "scheduler" /\ \E err \in BOOLEAN : Alarm!WakeReturns(err))
    /\ WF_alarmVars(part = "scheduler" /\ Alarm!finish)
    /\ WF_alarmVars(part = "scheduler" /\ Alarm!Restart)
    /\ WF_alarmVars(part = "scheduler" /\ Alarm!Tick)

BackgroundSpec ==
    /\ BackgroundInit
    /\ [][SupervisorNext \/ AgentsNext \/ SchedulerNext \/ ProcessNext]_backgroundVars
    /\ BackgroundFairness

\* A run that says it is queued or working has a worker, and work that could start is
\* dispatched; otherwise the run comes to say what it waits for (scheduleLocked,
\* finishAttempt, finalizeSupervisorRun).
RunsProgress == WorkingMeansProgress /\ ReadyWorkIsDispatched

\* An alarm that is claimed or overdue does not stay so (ProcessDue, Run).
AlarmsDoNotWedge == Alarm!AlarmsDoNotWedge
=============================================================================
