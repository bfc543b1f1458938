--------------------------- MODULE TurnCoordinator ---------------------------
(***************************************************************************)
(* The production turn service: internal/controlplane/adapters/turn.go     *)
(* over the durable turn states of internal/session/durable_state.go, with *)
(* the recovery helpers of internal/action/recovery.go.                    *)
(*                                                                         *)
(* A command handler (submit, steer, retry, cancel, a scheduled wake)      *)
(* persists a turn and starts one goroutine for it; the dispatcher runs    *)
(* one command at a time, so cmd holds at most one handler.  The goroutine *)
(* of a turn runs the agent, recovers from what it returns, and ends by    *)
(* storing a status and reporting an event.  The agent itself is external: *)
(* it returns any outcome, and may ignore a cancelled context for a while. *)
(* Crashes, shutdowns and failing stores may come between any two steps.   *)
(***************************************************************************)
EXTENDS Naturals, FiniteSets

CONSTANTS
  Turns,        \* turn identifiers
  Scheduled,    \* the turns whose identifier derives from an alarm occurrence
  MaxRestarts,  \* bound on shutdowns and crashes
  MaxFaults     \* bound on failing writes, emissions and observers

ASSUME TurnAssumption ==
  /\ Scheduled \subseteq Turns
  /\ MaxRestarts \in Nat /\ MaxFaults \in Nat

VARIABLES
  daemon,     \* booting, serving, closing or down
  toResume,   \* ResumePending: the recoverable turns read at boot, still to start
  cmd,        \* the command handler that is running
  status,     \* durable: TurnState.Status
  messages,   \* durable: the user messages the turn appended to the transcript
  answers,    \* durable: the assistant messages it appended
  said,       \* durable: the ends journalled for it, completed or failed
  run,        \* the goroutine of each turn
  cancelled,  \* turns whose context a command of this daemon cancelled
  stalled,    \* turns whose context the stall watchdog cancelled
  active,     \* coordinator.active
  record,     \* coordinator.turns: none, active or done
  restarts, faults

durableVars == <<status, messages, answers, said>>
mapVars == <<active, record>>
ctxVars == <<cancelled, stalled>>
vars == <<daemon, toResume, cmd, durableVars, run, ctxVars, mapVars, restarts, faults>>

Terminal == {"completed", "failed", "cancelled"}
Recoverable == {"running", "recovering", "incomplete", "interrupted"}
Statuses == {"none"} \union Recoverable \union Terminal
Ends == {"completed", "failed"}
Errors == {"nil", "incomplete", "transient", "permanent", "canceled"}
Idle == [at |-> "idle", err |-> "nil", second |-> FALSE, deaf |-> FALSE]
Launched == [Idle EXCEPT !.at = "launch"]

(* The context of a turn's goroutine: cancelled by a command, by the stall   *)
(* watchdog or by shutdown, unless WithoutCancel has replaced it.            *)
CtxDone(t) ==
  ~run[t].deaf /\ (t \in cancelled \union stalled \/ daemon = "closing")

Init ==
  /\ daemon = "serving"
  /\ toResume = {} /\ cmd = {} /\ cancelled = {} /\ stalled = {} /\ active = {}
  /\ status = [t \in Turns |-> "none"]
  /\ messages = [t \in Turns |-> 0]
  /\ answers = [t \in Turns |-> 0]
  /\ said = [t \in Turns |-> {}]
  /\ run = [t \in Turns |-> Idle]
  /\ record = [t \in Turns |-> "none"]
  /\ restarts = 0 /\ faults = 0

(* A write, an emission or an observer that fails.                           *)
Fault == faults < MaxFaults /\ faults' = faults + 1

-----------------------------------------------------------------------------
(* Command handlers. *)

Ready == daemon = "serving" /\ cmd = {}
Fresh(t) == t \notin Scheduled /\ status[t] = "none" /\ messages[t] = 0
Handle(t, stage) == cmd' = {[turn |-> t, stage |-> stage]}
HandlerAt(t, stage) == daemon = "serving" /\ [turn |-> t, stage |-> stage] \in cmd

(* handleSubmit.                                                             *)
Submit(t) ==
  /\ Ready /\ Fresh(t)
  /\ Handle(t, "append")
  /\ UNCHANGED <<daemon, toResume, durableVars, run, ctxVars, mapVars, restarts, faults>>

(* handleSteer: the target must still be active when it is cancelled.        *)
Steer(of, t) ==
  /\ Ready /\ Fresh(t)
  /\ of \in active
  /\ cancelled' = cancelled \union {of}
  /\ Handle(t, "append")
  /\ UNCHANGED <<daemon, toResume, durableVars, run, stalled, mapVars, restarts, faults>>

(* handleRetry: the in-memory record decides when there is one, the durable  *)
(* status otherwise.                                                         *)
RetryLoads(of) == status[of] \in Statuses \ {"none", "running", "recovering"}
Retry(of, t) ==
  /\ Ready /\ Fresh(t)
  /\ IF record[of] = "none"
     THEN /\ RetryLoads(of)
          /\ record' = [record EXCEPT ![of] = "done"]
     ELSE record[of] = "done" /\ UNCHANGED record
  /\ Handle(t, "append")
  /\ UNCHANGED <<daemon, toResume, durableVars, run, ctxVars, active, restarts, faults>>

(* handleCancel.                                                             *)
Cancel(t) ==
  /\ Ready
  /\ t \in active
  /\ cancelled' = cancelled \union {t}
  /\ UNCHANGED <<daemon, toResume, cmd, durableVars, run, stalled, mapVars, restarts, faults>>

(* startTurn, step by step: the transcript, the durable state, the started   *)
(* event and the goroutine.                                                  *)
AppendUserMessage(t) ==
  /\ HandlerAt(t, "append")
  /\ messages' = [messages EXCEPT ![t] = @ + 1]
  /\ Handle(t, "create")
  /\ UNCHANGED <<daemon, toResume, status, answers, said, run, ctxVars, mapVars,
                 restarts, faults>>

CreateTurnState(t) ==
  /\ HandlerAt(t, "create")
  /\ status' = [status EXCEPT ![t] = "running"]
  /\ Handle(t, "emit")
  /\ UNCHANGED <<daemon, toResume, messages, answers, said, run, ctxVars, mapVars,
                 restarts, faults>>

Launch(t) ==
  /\ active' = active \union {t}
  /\ record' = [record EXCEPT ![t] = "active"]
  /\ run' = [run EXCEPT ![t] = Launched]

StartRun(t) ==
  /\ HandlerAt(t, "emit")
  /\ Launch(t)
  /\ cmd' = {}
  /\ UNCHANGED <<daemon, toResume, durableVars, ctxVars, restarts, faults>>

(* A step of startTurn fails: the handler returns its error and what it has  *)
(* already written stays.  A scheduled turn is marked failed, unless that    *)
(* write fails too.                                                          *)
HandlerFails(t) ==
  /\ \E c \in cmd : c.turn = t
  /\ daemon = "serving"
  /\ Fault
  /\ cmd' = {}
  /\ \/ UNCHANGED status
     \/ t \in Scheduled /\ status' = [status EXCEPT ![t] = "failed"]
  /\ UNCHANGED <<daemon, toResume, messages, answers, said, run, ctxVars, mapVars,
                 restarts>>

(* startScheduledTurn: CreateScheduledTurn inserts the message and the turn  *)
(* in one transaction, unless the occurrence's turn exists; then the wake is *)
(* answered from it and nothing changes.                                     *)
Wake(t) ==
  /\ Ready /\ t \in Scheduled
  /\ status[t] = "none"
  /\ status' = [status EXCEPT ![t] = "running"]
  /\ messages' = [messages EXCEPT ![t] = @ + 1]
  /\ Handle(t, "emit")
  /\ UNCHANGED <<daemon, toResume, answers, said, run, ctxVars, mapVars, restarts,
                 faults>>

-----------------------------------------------------------------------------
(* The goroutine of a turn. *)

Recovering == {"recover", "respawn"}
Goto(t, at) ==
  run' = [run EXCEPT ![t] = [at |-> at, err |-> "nil", deaf |-> @.deaf,
                             second |-> at \in Recovering /\ @.second]]
Fail(t, err) ==
  run' = [run EXCEPT ![t] = [at |-> "end", err |-> err, deaf |-> @.deaf, second |-> FALSE]]
SetStatus(t, s) == status' = [status EXCEPT ![t] = s]
Say(t, end) == said' = [said EXCEPT ![t] = @ \union {end}]

(* The deferred cleanup of run.                                              *)
Exit(t) ==
  /\ run' = [run EXCEPT ![t] = Idle]
  /\ active' = active \ {t}
  /\ record' = [record EXCEPT ![t] = "done"]

aside == <<daemon, toResume, cmd, messages, ctxVars, restarts>>

(* factory.Runner.  When it fails the status is stored and the event is      *)
(* emitted with the turn's own context.                                      *)
GetRunner(t) ==
  /\ run[t].at = "launch"
  /\ \/ /\ Goto(t, "attempt")
        /\ UNCHANGED <<status, faults>>
     \/ /\ SetStatus(t, "failed")
        /\ Goto(t, "tellFailed")
        /\ UNCHANGED faults
     \/ /\ Fault
        /\ Goto(t, "reportFailed")
        /\ UNCHANGED status
  /\ UNCHANGED <<aside, answers, said, mapVars>>

(* The watchdog cancels a run without activity and leaves, as it does when   *)
(* the context is done.                                                      *)
Stall(t) ==
  /\ run[t].at /= "idle"
  /\ t \notin stalled /\ ~CtxDone(t)
  /\ stalled' = stalled \union {t}
  /\ UNCHANGED <<daemon, toResume, cmd, durableVars, run, cancelled, mapVars, restarts, faults>>

(* What the agent returns after its work.                                    *)
Working == {"attempt", "cascade", "respawn"}
Outcomes(t) == IF CtxDone(t) THEN Errors ELSE Errors \ {"canceled"}

(* The first attempt: a stalled run that failed is incomplete, and from then *)
(* on its context can no longer be cancelled.                                *)
Attempt(t) ==
  /\ run[t].at = "attempt"
  /\ \E e \in Outcomes(t) :
       IF t \in stalled /\ e /= "nil"
       THEN run' = [run EXCEPT ![t].at = "recover", ![t].deaf = TRUE]
       ELSE CASE e = "nil" -> Goto(t, "finish")
              [] e = "incomplete" -> Goto(t, "recover")
              [] e = "transient" -> Goto(t, "cascading")
              [] OTHER -> Fail(t, e)
  /\ UNCHANGED <<aside, status, answers, said, mapVars, faults>>

(* recoverClassified: the turn is marked recovering and run again.           *)
BeginCascade(t) ==
  /\ run[t].at = "cascading"
  /\ \/ /\ SetStatus(t, "recovering")
        /\ Goto(t, "cascade")
        /\ UNCHANGED faults
     \/ /\ Fault
        /\ \E s \in {status[t], "recovering"} : SetStatus(t, s)
        /\ Fail(t, "permanent")
  /\ UNCHANGED <<aside, answers, said, mapVars>>

Cascade(t) ==
  /\ run[t].at = "cascade"
  /\ \E e \in Outcomes(t) \ {"transient"} :
       CASE e = "nil" -> Goto(t, "finish")
         [] e = "incomplete" -> run' = [run EXCEPT ![t].at = "recover", ![t].second = TRUE]
         [] OTHER -> Fail(t, e)
  /\ UNCHANGED <<aside, status, answers, said, mapVars, faults>>

(* What an error of recoverIncomplete leads to: after the first attempt only *)
(* an event, after the cascade the ordinary end of the turn.                 *)
RecoveryFailed(t, e) ==
  IF run[t].second THEN Fail(t, e) ELSE Goto(t, "reportFailed")

(* recoverIncomplete up to the respawn: the turn is recorded incomplete and  *)
(* then recovering.  Without a checkpoint, in the response or in the store,  *)
(* which is read with the turn's context, it fails at once.                  *)
BeginRecovery(t) ==
  /\ run[t].at = "recover"
  /\ \/ /\ SetStatus(t, "recovering")
        /\ Goto(t, "respawn")
        /\ UNCHANGED faults
     \/ /\ RecoveryFailed(t, IF CtxDone(t) THEN "canceled" ELSE "permanent")
        /\ UNCHANGED <<status, faults>>
     \/ /\ Fault
        /\ \E s \in {status[t], "incomplete", "recovering"} : SetStatus(t, s)
        /\ RecoveryFailed(t, "permanent")
  /\ UNCHANGED <<aside, answers, said, mapVars>>

(* TaskSupervisor.Recover: a fresh agent resumes from the checkpoint.        *)
Respawn(t) ==
  /\ run[t].at = "respawn"
  /\ \E e \in Outcomes(t) :
       CASE e = "nil" -> Goto(t, "finish")
         [] e = "incomplete" -> Goto(t, "giveUp")
         [] OTHER -> RecoveryFailed(t, e)
  /\ UNCHANGED <<aside, status, answers, said, mapVars, faults>>

(* recordIncomplete with final set: the turn waits for a retry or a restart. *)
(* Giving up is what bounds the respawns of one daemon.                      *)
RespawnAgain(t) ==
  /\ run[t].at = "giveUp"
  /\ SetStatus(t, "incomplete")
  /\ Goto(t, "respawn")
  /\ UNCHANGED <<aside, answers, said, mapVars, faults>>
RecordIncomplete(t) ==
  /\ run[t].at = "giveUp"
  /\ \/ /\ SetStatus(t, "incomplete")
        /\ Exit(t)
        /\ UNCHANGED faults
     \/ /\ Fault
        /\ \E s \in {status[t], "incomplete"} : SetStatus(t, s)
        /\ Goto(t, "reportFailed")
        /\ UNCHANGED mapVars
  /\ UNCHANGED <<aside, answers, said>>

(* The error end of run: interrupted by shutdown, cancelled, or failed.  The *)
(* status is stored before the event is reported.                            *)
EndStatus(t) ==
  IF run[t].err /= "canceled" THEN "failed"
  ELSE IF daemon = "closing" THEN "interrupted" ELSE "cancelled"

EndInError(t) ==
  /\ run[t].at = "end"
  /\ \/ /\ SetStatus(t, EndStatus(t))
        /\ IF EndStatus(t) = "interrupted" THEN Exit(t)
           ELSE Goto(t, "reportFailed") /\ UNCHANGED mapVars
        /\ UNCHANGED faults
     \/ /\ Fault
        /\ Goto(t, "reportFailed")
        /\ UNCHANGED <<status, mapVars>>
  /\ UNCHANGED <<aside, answers, said>>

(* The visible answer and the transcript are written with the turn's own     *)
(* context: once it is cancelled, run returns without an event.  An empty    *)
(* answer is recorded incomplete.  A failing observer is reported detached,  *)
(* a failing transcript with the turn's context, a failing delta not at all. *)
Finish(t) ==
  /\ run[t].at = "finish"
  /\ \/ /\ ~CtxDone(t)
        /\ answers' = [answers EXCEPT ![t] = @ + 1]
        /\ Goto(t, "complete")
        /\ UNCHANGED <<mapVars, faults>>
     \/ /\ CtxDone(t)
        /\ Exit(t)
        /\ UNCHANGED <<answers, faults>>
     \/ /\ Goto(t, "giveUp")
        /\ UNCHANGED <<answers, mapVars, faults>>
     \/ /\ Fault
        /\ \/ \E at \in {"reportFailed", "tellFailed"} : Goto(t, at) /\ UNCHANGED mapVars
           \/ Exit(t)
        /\ UNCHANGED answers
  /\ UNCHANGED <<aside, status, said>>

(* The reasoning summary with the turn's context, then the observers and the *)
(* completed status, both detached.                                          *)
FinishAgain(t) ==
  /\ run[t].at = "complete"
  /\ \/ /\ SetStatus(t, "completed")
        /\ Goto(t, "tellCompleted")
        /\ UNCHANGED faults
     \/ /\ Fault
        /\ Goto(t, "finish")
        /\ UNCHANGED status
  /\ UNCHANGED <<aside, answers, said, mapVars>>
Complete(t) ==
  /\ run[t].at = "complete"
  /\ \/ /\ SetStatus(t, "completed")
        /\ Goto(t, "tellCompleted")
        /\ UNCHANGED faults
     \/ /\ CtxDone(t)
        /\ Goto(t, "tellFailed")
        /\ UNCHANGED <<status, faults>>
     \/ /\ Fault
        /\ \E at \in {"reportFailed", "tellFailed"} : Goto(t, at)
        /\ UNCHANGED status
  /\ UNCHANGED <<aside, answers, said, mapVars>>

(* fail and the completed event: an emission with the turn's own context is  *)
(* lost when that context is cancelled, a detached one only when the journal *)
(* fails.                                                                    *)
Report(t) ==
  /\ run[t].at \in {"reportFailed", "tellFailed", "tellCompleted"}
  /\ \/ /\ run[t].at = "reportFailed" \/ ~CtxDone(t)
        /\ Say(t, IF run[t].at = "tellCompleted" THEN "completed" ELSE "failed")
        /\ UNCHANGED faults
     \/ /\ run[t].at /= "reportFailed" /\ CtxDone(t)
        /\ UNCHANGED <<said, faults>>
     \/ /\ Fault
        /\ UNCHANGED said
  /\ Exit(t)
  /\ UNCHANGED <<aside, status, answers>>

TurnStep(t) ==
  \/ GetRunner(t)
  \/ Attempt(t)
  \/ BeginCascade(t)
  \/ Cascade(t)
  \/ BeginRecovery(t)
  \/ Respawn(t)
  \/ RecordIncomplete(t)
  \/ EndInError(t)
  \/ Finish(t)
  \/ Complete(t)
  \/ Report(t)

-----------------------------------------------------------------------------
(* Shutdown, crash and boot. *)

(* Close: the coordinator's context is cancelled, then every goroutine is    *)
(* joined.                                                                   *)
Close ==
  /\ daemon = "serving" /\ cmd = {}
  /\ restarts < MaxRestarts
  /\ daemon' = "closing"
  /\ restarts' = restarts + 1
  /\ UNCHANGED <<toResume, cmd, durableVars, run, ctxVars, mapVars, faults>>

Gone ==
  /\ daemon' = "down"
  /\ toResume' = {} /\ cmd' = {} /\ cancelled' = {} /\ stalled' = {} /\ active' = {}
  /\ run' = [t \in Turns |-> Idle]
  /\ record' = [t \in Turns |-> "none"]

Joined ==
  /\ daemon = "closing"
  /\ \A t \in Turns : run[t] = Idle
  /\ Gone
  /\ UNCHANGED <<durableVars, restarts, faults>>

Crash ==
  /\ daemon /= "down"
  /\ restarts < MaxRestarts
  /\ restarts' = restarts + 1
  /\ Gone
  /\ UNCHANGED <<durableVars, faults>>

(* ResumePending runs before the daemon accepts commands.                    *)
WithFailed == {t \in Turns : status[t] \in Recoverable \union {"failed"}}
RecoverableTurnStates == {t \in Turns : status[t] \in Recoverable}

Boot ==
  /\ daemon = "down"
  /\ daemon' = "booting"
  /\ toResume' = RecoverableTurnStates
  /\ UNCHANGED <<cmd, durableVars, run, ctxVars, mapVars, restarts, faults>>

ResumeTurn(t) ==
  /\ daemon = "booting"
  /\ t \in toResume
  /\ toResume' = toResume \ {t}
  /\ SetStatus(t, "recovering")
  /\ Launch(t)
  /\ UNCHANGED <<daemon, cmd, messages, answers, said, ctxVars, restarts, faults>>

(* An error of ResumePending ends the start of the daemon.                   *)
BootFails(t) ==
  /\ daemon = "booting"
  /\ t \in toResume
  /\ Fault
  /\ \E s \in {status[t], "recovering"} : SetStatus(t, s)
  /\ restarts' = restarts + 1
  /\ Gone
  /\ UNCHANGED <<messages, answers, said>>

Serve ==
  /\ daemon = "booting"
  /\ toResume = {}
  /\ daemon' = "serving"
  /\ UNCHANGED <<toResume, cmd, durableVars, run, ctxVars, mapVars, restarts, faults>>

HandlerStep(t) == AppendUserMessage(t) \/ CreateTurnState(t) \/ StartRun(t)

Next ==
  \/ \E t \in Turns :
       \/ Submit(t) \/ Cancel(t) \/ Wake(t)
       \/ \E of \in Turns : Steer(of, t) \/ Retry(of, t)
       \/ HandlerStep(t) \/ HandlerFails(t)
       \/ TurnStep(t) \/ Stall(t)
       \/ ResumeTurn(t) \/ BootFails(t)
  \/ Close \/ Joined \/ Crash \/ Boot \/ Serve

(* Goroutines and handlers keep running, the agent returns in the end (its   *)
(* own calls have deadlines and the watchdog cancels it), a daemon that went *)
(* down is started again, and alarms are delivered until they succeed.       *)
Fairness ==
  /\ \A t \in Turns :
       /\ WF_vars(TurnStep(t)) /\ WF_vars(HandlerStep(t)) /\ WF_vars(ResumeTurn(t))
       /\ WF_vars(Wake(t))
  /\ WF_vars(Joined) /\ WF_vars(Boot) /\ WF_vars(Serve)

Spec == Init /\ [][Next]_vars /\ Fairness

-----------------------------------------------------------------------------
TypeOK ==
  /\ daemon \in {"booting", "serving", "closing", "down"}
  /\ toResume \subseteq Turns /\ cancelled \subseteq Turns /\ stalled \subseteq Turns
  /\ \A c \in cmd : c.turn \in Turns /\ c.stage \in {"append", "create", "emit"}
  /\ Cardinality(cmd) <= 1
  /\ status \in [Turns -> Statuses]
  /\ said \in [Turns -> SUBSET Ends]
  /\ record \in [Turns -> {"none", "active", "done"}]
  /\ active = {t \in Turns : run[t] /= Idle}
  /\ active = {t \in Turns : record[t] = "active"}

(* Completed, failed and cancelled are final: neither a late goroutine, a    *)
(* retry nor a restart changes the status of such a turn, and no agent works *)
(* on it again.                                                              *)
TerminalIsFinal ==
  [][\A t \in Turns : status[t] \in Terminal =>
       status'[t] = status[t] /\ run'[t].at \notin Working]_vars

(* A turn is called completed, durably or to the clients, only when its      *)
(* answer is in the transcript, and clients hear of it only once the store   *)
(* has it.                                                                   *)
CompletionIsBacked ==
  \A t \in Turns :
    /\ status[t] = "completed" => answers[t] > 0
    /\ "completed" \in said[t] => status[t] = "completed"

(* The transcript has at most one answer of a turn, plus one for each time   *)
(* the daemon stopped between the answer and the completed status.           *)
OneAnswerPerLife == \A t \in Turns : answers[t] <= 1 + restarts

(* While the daemon serves, a turn that is durably running or recovering has *)
(* a goroutine or a handler, unless its context was cancelled, its failure   *)
(* was announced or a write failed: nothing else strands a turn.             *)
OnlyKnownStrands ==
  daemon = "serving" =>
    \A t \in Turns : status[t] \in {"running", "recovering"} =>
      \/ t \in active
      \/ \E c \in cmd : c.turn = t
      \/ t \in cancelled \union stalled
      \/ "failed" \in said[t]
      \/ faults > 0

(* Every goroutine of a turn ends, also the continuation after a stall that  *)
(* no cancellation reaches, so Close returns and the daemon comes back.      *)
ShutdownCompletes == daemon = "closing" ~> daemon = "serving"

(* The turn of an alarm's occurrence is settled in the end, however often    *)
(* the daemon stops: no goroutine works on it, and it ended, waits           *)
(* incomplete, was cancelled, or its failure was announced.                  *)
OccurrenceSettles ==
  \A t \in Scheduled :
    <>[](/\ run[t] = Idle
         /\ \/ status[t] \in Terminal \union {"incomplete"}
            \/ t \in cancelled \union stalled
            \/ "failed" \in said[t]
            \/ faults > 0)

(* What the handlers and the goroutines of the coordinator keep between      *)
(* them, at every step and through restarts.                                 *)
TurnInv == TypeOK /\ CompletionIsBacked /\ OneAnswerPerLife /\ OnlyKnownStrands

(* A turn ends and stays ended: the turn of an alarm settles and a shutdown  *)
(* completes, and neither a late goroutine, a retry nor the resumption at    *)
(* boot takes up a turn that was completed, failed or cancelled.             *)
TurnsEndForGood == TerminalIsFinal /\ ShutdownCompletes /\ OccurrenceSettles
=============================================================================
