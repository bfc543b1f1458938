------------------------ MODULE TurnCoordinatorProofs ------------------------
(***************************************************************************)
(* For any turns, restarts and failing writes: what the handlers and the   *)
(* goroutines of the turn coordinator keep between them (TurnInv), and     *)
(* that a turn which ended stays ended (TerminalIsFinal).                  *)
(***************************************************************************)
EXTENDS TurnCoordinator, FiniteSetTheorems, TLAPS

\* Where a goroutine is before its turn has an answer, and once only the report of
\* its end is left.
Unanswered == {"launch", "attempt", "recover", "cascading", "cascade", "respawn", "giveUp",
               "end", "finish"}
Reporting == {"reportFailed", "tellFailed", "tellCompleted"}
Places == {"idle", "complete"} \union Unanswered \union Reporting
Goroutine == [at : Places, err : Errors, second : BOOLEAN, deaf : BOOLEAN]
Handlers == [turn : Turns, stage : {"append", "create", "emit"}]

Types ==
  /\ daemon \in {"booting", "serving", "closing", "down"}
  /\ toResume \in SUBSET Turns /\ cancelled \in SUBSET Turns /\ stalled \in SUBSET Turns
  /\ active \in SUBSET Turns
  /\ cmd \in SUBSET Handlers /\ (\A c, d \in cmd : c = d)
  /\ status \in [Turns -> Statuses] /\ said \in [Turns -> SUBSET Ends]
  /\ messages \in [Turns -> Nat] /\ answers \in [Turns -> Nat]
  /\ run \in [Turns -> Goroutine] /\ record \in [Turns -> {"none", "active", "done"}]
  /\ restarts \in Nat /\ faults \in Nat

\* The restarts before this life of the daemon.  Close counts its own at once.
Life == IF daemon = "closing" THEN restarts - 1 ELSE restarts

\* The goroutine of a turn and the maps of the coordinator.
Known(t) ==
  /\ run[t].at = "idle" => run[t] = Idle
  /\ t \in active <=> run[t] /= Idle
  /\ t \in active <=> record[t] = "active"

\* How far the goroutine can be for what is durable: nobody works on a turn that
\* has ended, and only a completed one is announced as such.
Backed(t) ==
  /\ status[t] = "none" => run[t] = Idle /\ answers[t] = 0
  /\ status[t] \in Terminal => run[t].at \in {"idle"} \union Reporting
  /\ run[t].at = "tellCompleted" => status[t] = "completed"
  /\ run[t].at = "complete" \/ status[t] = "completed" => answers[t] > 0
  /\ "completed" \in said[t] => status[t] = "completed"

\* One answer for each life, not yet spent while the goroutine is before it.
Spent(t) ==
  /\ answers[t] <= Life + 1
  /\ run[t].at \in Unanswered => answers[t] <= Life

Strand(t) ==
  daemon \in {"booting", "serving"} /\ status[t] \in {"running", "recovering"} =>
    \/ t \in active \union toResume \union cancelled \union stalled
    \/ \E c \in cmd : c.turn = t
    \/ "failed" \in said[t]
    \/ faults > 0

\* The handler that runs is about a turn nobody works on yet.
Handling(c) ==
  /\ daemon = "serving" /\ run[c.turn] = Idle /\ answers[c.turn] = 0
  /\ IF c.stage = "emit" THEN status[c.turn] = "running" ELSE status[c.turn] = "none"

\* A turn that is still to be resumed, as it was read at boot.
Resumable(t) ==
  daemon = "booting" /\ run[t] = Idle /\ answers[t] <= restarts /\ status[t] \in Recoverable

Quiet ==
  /\ daemon = "closing" => restarts > 0
  /\ daemon = "down" => cmd = {} /\ toResume = {} /\ \A t \in Turns : run[t] = Idle /\ answers[t] <= restarts

TurnIInv ==
  /\ Types /\ Quiet
  /\ \A t \in Turns : Known(t) /\ Backed(t) /\ Spent(t) /\ Strand(t)
  /\ \A c \in cmd : Handling(c)
  /\ \A t \in toResume : Resumable(t)

-----------------------------------------------------------------------------
\* The invariant of the runs follows.
LEMMA TurnIInvImplies == TurnIInv => TurnInv
<1> SUFFICES ASSUME TurnIInv PROVE TurnInv
  BY Zenon
<1>1. Cardinality(cmd) <= 1
  <2>1. CASE cmd = {}
    BY <2>1, FS_EmptySet
  <2>2. CASE cmd /= {}
    <3>1. PICK c \in cmd : cmd = {c}
      BY <2>2 DEF TurnIInv, Types
    <3> QED
      BY <3>1, FS_Singleton
  <2> QED
    BY <2>1, <2>2, Zenon
<1>2. TypeOK
  BY <1>1, Zenon DEF TurnIInv, Types, Known, TypeOK, Handlers
<1>3. CompletionIsBacked
  BY Zenon DEF TurnIInv, Backed, CompletionIsBacked
<1>4. OneAnswerPerLife
  BY DEF TurnIInv, Types, Spent, Life, OneAnswerPerLife
<1>5. OnlyKnownStrands
  BY Zenon DEF TurnIInv, Strand, Resumable, OnlyKnownStrands
<1> QED
  BY <1>2, <1>3, <1>4, <1>5, Zenon DEF TurnInv

(* Before any turn is started the inductive invariant holds.                 *)
LEMMA TurnInit == Init => TurnIInv
<1> SUFFICES ASSUME Init PROVE TurnIInv
  BY Zenon
<1>1. Idle \in Goroutine /\ Idle.at = "idle"
  BY Zenon DEF Idle, Goroutine, Places, Errors
<1>2. Types
  BY <1>1, Zenon DEF Init, Types, Statuses, Ends
<1> QED
  BY <1>1, <1>2 DEF Init, TurnIInv, Quiet, Known, Backed, Spent, Strand, Life, Terminal, Unanswered

-----------------------------------------------------------------------------
\* A step of t's goroutine touches nothing of another turn.
Only(t) ==
  /\ UNCHANGED aside /\ faults' \in Nat /\ faults' >= faults
  /\ status' \in [Turns -> Statuses] /\ said' \in [Turns -> SUBSET Ends]
  /\ answers' \in [Turns -> Nat] /\ run' \in [Turns -> Goroutine]
  /\ record' \in [Turns -> {"none", "active", "done"}] /\ active' \in SUBSET Turns
  /\ \A u \in Turns \ {t} :
       /\ status'[u] = status[u] /\ said'[u] = said[u] /\ answers'[u] = answers[u]
       /\ run'[u] = run[u] /\ record'[u] = record[u] /\ (u \in active' <=> u \in active)

\* So it is enough to look at t: nobody handles or resumes a turn that has a goroutine.
LEMMA Elsewhere ==
  ASSUME TurnIInv, NEW t \in Turns, run[t] /= Idle, Only(t),
         Known(t)', Backed(t)', Spent(t)', Strand(t)'
  PROVE  TurnIInv'
<1>1. daemon' = daemon /\ toResume' = toResume /\ cmd' = cmd /\ restarts' = restarts
      /\ cancelled' = cancelled /\ stalled' = stalled /\ messages' = messages
  BY Zenon DEF Only, aside, ctxVars
<1>2. Types' /\ Quiet'
  BY <1>1, Zenon DEF TurnIInv, Types, Quiet, Only
<1>3. \A c \in cmd : c.turn \in Turns \ {t}
  BY Zenon DEF TurnIInv, Types, Handlers, Handling
<1>4. \A u \in toResume : u \in Turns \ {t}
  BY Zenon DEF TurnIInv, Types, Resumable
<1>5. ASSUME NEW u \in Turns \ {t} PROVE Known(u)' /\ Backed(u)' /\ Spent(u)' /\ Strand(u)'
  <2>1. Known(u) /\ Backed(u) /\ Spent(u) /\ Strand(u)
    BY Zenon DEF TurnIInv
  <2>2. faults \in Nat
    BY Zenon DEF TurnIInv, Types
  <2> QED
    BY <1>1, <2>1, <2>2 DEF Only, Known, Backed, Spent, Strand, Life
<1>6. \A c \in cmd' : Handling(c)'
  BY <1>1, <1>3 DEF TurnIInv, Only, Handling
<1>7. \A u \in toResume' : Resumable(u)'
  BY <1>1, <1>4, Zenon DEF TurnIInv, Only, Resumable
<1> QED
  BY <1>2, <1>5, <1>6, <1>7, Zenon DEF TurnIInv

\* Where Goto and Fail lead.
Reached(t, at) == [at |-> at, err |-> "nil", deaf |-> run[t].deaf,
                 second |-> at \in Recovering /\ run[t].second]
Failed(t, err) == [at |-> "end", err |-> err, deaf |-> run[t].deaf, second |-> FALSE]

(* A turn's goroutine that moves on is a goroutine at the place it moves to. *)
LEMMA WhereGoto ==
  ASSUME TurnIInv, NEW t \in Turns, NEW at \in Places, Goto(t, at)
  PROVE  /\ Reached(t, at) \in Goroutine /\ Reached(t, at).at = at
         /\ run' = [run EXCEPT ![t] = Reached(t, at)]
<1>1. run[t] \in Goroutine /\ run[t].deaf \in BOOLEAN /\ run[t].second \in BOOLEAN
  BY Zenon DEF TurnIInv, Types, Goroutine
<1>2. (at \in Recovering /\ run[t].second) \in BOOLEAN
  BY Zenon
<1>3. run \in [Turns -> Goroutine]
  BY Zenon DEF TurnIInv, Types
<1>4. Reached(t, at) \in Goroutine /\ Reached(t, at).at = at
  BY <1>1, <1>2, Zenon DEF Reached, Goroutine, Errors
<1> QED
  BY <1>3, <1>4, Zenon DEF Goto, Reached

(* A turn's goroutine that fails is a goroutine at its end.                  *)
LEMMA WhereFail ==
  ASSUME TurnIInv, NEW t \in Turns, NEW e \in Errors, Fail(t, e)
  PROVE  /\ Failed(t, e) \in Goroutine /\ Failed(t, e).at = "end"
         /\ run' = [run EXCEPT ![t] = Failed(t, e)]
<1>1. run[t] \in Goroutine /\ run[t].deaf \in BOOLEAN
  BY Zenon DEF TurnIInv, Types, Goroutine
<1>2. run \in [Turns -> Goroutine]
  BY Zenon DEF TurnIInv, Types
<1>3. Failed(t, e) \in Goroutine /\ Failed(t, e).at = "end"
  BY <1>1, Zenon DEF Failed, Goroutine, Places, Unanswered
<1> QED
  BY <1>2, <1>3, Zenon DEF Fail, Failed

\* While a goroutine works on it, a turn is durably in progress.
LEMMA InProgress ==
  ASSUME TurnIInv, NEW t \in Turns, run[t].at \in Unanswered \union {"complete"}
  PROVE  /\ status[t] \in Recoverable /\ status = [status EXCEPT ![t] = status[t]]
         /\ run[t] /= Idle
  BY DEF TurnIInv, Types, Backed, Unanswered, Reporting, Statuses, Idle

\* The goroutine goes on, within what is durable (Goto, Fail and SetStatus).
LEMMA GoingOn ==
  ASSUME TurnIInv, NEW t \in Turns, run[t].at \in Unanswered,
         NEW g \in Goroutine, g.at \in Unanswered, run' = [run EXCEPT ![t] = g],
         NEW s \in Recoverable, status' = [status EXCEPT ![t] = s],
         faults' \in Nat, faults' >= faults,
         UNCHANGED <<aside, answers, said, mapVars>>
  PROVE  TurnIInv'
<1>1. Only(t)
  BY Zenon DEF TurnIInv, Types, Only, mapVars, Statuses
<1>2. /\ run'[t] = g /\ status'[t] = s /\ g /= Idle /\ run[t] /= Idle
      /\ answers'[t] = answers[t] /\ said'[t] = said[t] /\ active' = active /\ record' = record
  BY DEF TurnIInv, Types, Unanswered, Idle, mapVars
<1>3. Known(t) /\ Backed(t) /\ Spent(t)
  BY Zenon DEF TurnIInv
<1>4. Known(t)'
  BY <1>2, <1>3, Zenon DEF Known, Unanswered
<1>5. Backed(t)'
  BY <1>2, <1>3, Zenon DEF Backed, Unanswered, Reporting, Terminal, Recoverable
<1>6. Spent(t)'
  BY <1>2, <1>3, Zenon DEF Spent, Life, aside
<1>7. Strand(t)'
  BY <1>2, <1>3, Zenon DEF Strand, Known
<1> QED
  BY <1>1, <1>2, <1>4, <1>5, <1>6, <1>7, Elsewhere, Zenon

\* What is left is to report the end (Goto with a status stored before).
LEMMA TellingOf ==
  ASSUME TurnIInv, NEW t \in Turns, run[t].at \in Unanswered \union {"complete"},
         NEW g \in Goroutine, g.at \in Reporting, run' = [run EXCEPT ![t] = g],
         NEW s \in Statuses \ {"none"}, status' = [status EXCEPT ![t] = s],
         s = "completed" => run[t].at = "complete",
         g.at = "tellCompleted" => s = "completed",
         faults' \in Nat, faults' >= faults,
         UNCHANGED <<aside, answers, said, mapVars>>
  PROVE  TurnIInv'
<1>1. Only(t)
  BY Zenon DEF TurnIInv, Types, Only, mapVars
<1>2. /\ run'[t] = g /\ status'[t] = s /\ g /= Idle /\ run[t] /= Idle
      /\ answers'[t] = answers[t] /\ said'[t] = said[t] /\ active' = active /\ record' = record
  BY DEF TurnIInv, Types, Unanswered, Reporting, Idle, mapVars
<1>3. Known(t) /\ Backed(t) /\ Spent(t)
  BY Zenon DEF TurnIInv
<1>4. Known(t)'
  BY <1>2, <1>3, Zenon DEF Known, Reporting
<1>5. Backed(t)'
  BY <1>2, <1>3, Zenon DEF Backed, Unanswered, Reporting, Terminal
<1>6. Spent(t)'
  BY <1>2, <1>3, Zenon DEF Spent, Life, aside, Unanswered, Reporting
<1>7. Strand(t)'
  BY <1>2, <1>3, Zenon DEF Strand, Known
<1> QED
  BY <1>1, <1>2, <1>4, <1>5, <1>6, <1>7, Elsewhere, Zenon

\* The goroutine ends, and the turn is not left running for no known reason (Exit).
LEMMA Leaving ==
  ASSUME TurnIInv, NEW t \in Turns, run[t] /= Idle, Exit(t),
         NEW s \in Statuses \ {"none"}, status' = [status EXCEPT ![t] = s],
         status[t] \in Terminal => s = status[t],
         s = "completed" => status[t] = "completed",
         said' \in [Turns -> SUBSET Ends],
         \A u \in Turns : said'[u] /= said[u] => u = t,
         "completed" \in said'[t] => "completed" \in said[t] \/ s = "completed",
         faults' \in Nat, faults' >= faults,
         \/ daemon = "closing" \/ s \notin {"running", "recovering"}
         \/ t \in cancelled \union stalled \/ "failed" \in said'[t] \/ faults' > 0,
         UNCHANGED <<aside, answers>>
  PROVE  TurnIInv'
<1>1. Idle \in Goroutine /\ Idle.at = "idle"
  BY Zenon DEF Idle, Goroutine, Places, Errors
<1>2. Only(t)
  BY <1>1, Zenon DEF TurnIInv, Types, Only, Exit
<1>3. /\ run'[t] = Idle /\ status'[t] = s /\ answers'[t] = answers[t] /\ answers[t] \in Nat
      /\ t \notin active' /\ record'[t] = "done"
  BY Zenon DEF TurnIInv, Types, Exit
<1>4. Known(t) /\ Backed(t) /\ Spent(t)
  BY Zenon DEF TurnIInv
<1>5. Known(t)'
  BY <1>1, <1>3, Zenon DEF Known
<1>6. Backed(t)'
  BY <1>1, <1>3, <1>4, Zenon DEF Backed, Terminal
<1>7. Spent(t)'
  BY <1>1, <1>3, <1>4, Zenon DEF Spent, Life, aside, Unanswered
<1>8. Strand(t)'
  BY <1>3, Zenon DEF Strand, aside, ctxVars
<1> QED
  BY <1>2, <1>5, <1>6, <1>7, <1>8, Elsewhere, Zenon

\* A write that succeeds, or fails and is counted.
Counted == UNCHANGED faults \/ Fault

(* The bound on failures counts up.                                          *)
LEMMA Counting == TurnIInv /\ Counted => faults' \in Nat /\ faults' >= faults
  BY DEF TurnIInv, Types, Counted, Fault

(* A step of a turn that has not been answered, of which only the kind of    *)
(* step is known, keeps the invariant (the steps of the model and tool       *)
(* loop).                                                                    *)
LEMMA Going ==
  ASSUME TurnIInv, NEW t \in Turns, run[t].at \in Unanswered,
         (\E at \in Unanswered : Goto(t, at)) \/ (\E e \in Errors : Fail(t, e)),
         UNCHANGED status \/ (\E s \in Recoverable : SetStatus(t, s)),
         Counted, UNCHANGED <<aside, answers, said, mapVars>>
  PROVE  TurnIInv'
<1>1. PICK g \in Goroutine : g.at \in Unanswered /\ run' = [run EXCEPT ![t] = g]
  <2>1. CASE \E at \in Unanswered : Goto(t, at)
    <3>1. PICK at \in Unanswered : Goto(t, at)
      BY <2>1, Zenon
    <3>2. at \in Places
      BY Zenon DEF Places
    <3> QED
      BY <3>1, <3>2, WhereGoto, Zenon
  <2>2. CASE \E e \in Errors : Fail(t, e)
    <3>1. PICK e \in Errors : Fail(t, e)
      BY <2>2, Zenon
    <3> QED
      BY <3>1, WhereFail, Zenon DEF Unanswered
  <2> QED
    BY <2>1, <2>2, Zenon
<1>2. PICK s \in Recoverable : status' = [status EXCEPT ![t] = s]
  BY InProgress, Zenon DEF SetStatus
<1> QED
  BY <1>1, <1>2, Counting, GoingOn, Zenon

(* So does a step by which such a turn starts to report that it failed.      *)
LEMMA Telling ==
  ASSUME TurnIInv, NEW t \in Turns, run[t].at \in Unanswered \union {"complete"},
         Goto(t, "reportFailed") \/ Goto(t, "tellFailed"),
         UNCHANGED status \/ (\E s \in Recoverable \union {"failed", "cancelled"} : SetStatus(t, s)),
         Counted, UNCHANGED <<aside, answers, said, mapVars>>
  PROVE  TurnIInv'
<1>1. PICK at \in {"reportFailed", "tellFailed"} : Goto(t, at)
  BY Zenon
<1> DEFINE g == Reached(t, at)
<1>4. at \in Places
  BY Zenon DEF Places, Reporting
<1>5. g \in Goroutine /\ g.at = at /\ run' = [run EXCEPT ![t] = g]
  BY <1>1, <1>4, WhereGoto, Zenon
<1> HIDE DEF g
<1>2. PICK s \in Recoverable \union {"failed", "cancelled"} : status' = [status EXCEPT ![t] = s]
  BY InProgress, Zenon DEF SetStatus
<1>3. s \in Statuses \ {"none"} /\ s /= "completed"
  BY Zenon DEF Recoverable, Statuses, Terminal
<1> QED
  BY <1>2, <1>3, <1>5, Counting, TellingOf, Zenon DEF Reporting

\* Every step of a goroutine keeps the invariant (run, recoverClassified,
\* recoverIncomplete, recordIncomplete, fail).
LEMMA GoroutineStep ==
  ASSUME TurnIInv, NEW t \in Turns, TurnStep(t)
  PROVE  TurnIInv'
<1> USE DEF Unanswered, Reporting, Recoverable, Errors
<1>1. CASE GetRunner(t)
  <2>1. run[t].at = "launch" /\ Counted /\ UNCHANGED <<aside, answers, said, mapVars>>
    BY <1>1, Zenon DEF GetRunner, Counted
  <2>2. CASE Goto(t, "attempt") /\ UNCHANGED status
    BY <2>1, <2>2, Going, Zenon
  <2>3. CASE SetStatus(t, "failed") /\ Goto(t, "tellFailed")
    BY <2>1, <2>3, Telling, Zenon
  <2>4. CASE Goto(t, "reportFailed") /\ UNCHANGED status
    BY <2>1, <2>4, Telling, Zenon
  <2> QED
    BY <1>1, <2>2, <2>3, <2>4, Zenon DEF GetRunner
<1>2. CASE Attempt(t)
  <2>1. run[t].at = "attempt" /\ Counted /\ UNCHANGED <<aside, status, answers, said, mapVars, faults>>
    BY <1>2, Zenon DEF Attempt, Counted
  <2>2. CASE run' = [run EXCEPT ![t].at = "recover", ![t].deaf = TRUE]
    <3> DEFINE g == [run[t] EXCEPT !.at = "recover", !.deaf = TRUE]
    <3>1. g \in Goroutine /\ g.at = "recover" /\ run' = [run EXCEPT ![t] = g]
      BY <2>2, ZenonT(30) DEF TurnIInv, Types, Goroutine, Places
    <3>2. status' = [status EXCEPT ![t] = status[t]] /\ status[t] \in Recoverable
      BY <2>1, InProgress, Zenon
    <3> QED
      BY <2>1, <3>1, <3>2, Counting, GoingOn, Zenon
  <2>3. CASE \E e \in Errors : Goto(t, "finish") \/ Goto(t, "recover") \/ Goto(t, "cascading") \/ Fail(t, e)
    BY <2>1, <2>3, Going, Zenon
  <2> QED
    BY <1>2, <2>2, <2>3, Zenon DEF Attempt, Outcomes
<1>3. CASE BeginCascade(t)
  <2>1. run[t].at = "cascading" /\ Counted /\ UNCHANGED <<aside, answers, said, mapVars>>
    BY <1>3, Zenon DEF BeginCascade, Counted
  <2>2. \/ UNCHANGED status \/ \E s \in Recoverable : SetStatus(t, s)
    BY <1>3, <2>1, InProgress, Zenon DEF BeginCascade
  <2> QED
    BY <1>3, <2>1, <2>2, Going, Zenon DEF BeginCascade
<1>4. CASE Cascade(t)
  <2>1. run[t].at = "cascade" /\ Counted /\ UNCHANGED <<aside, status, answers, said, mapVars, faults>>
    BY <1>4, Zenon DEF Cascade, Counted
  <2>2. CASE run' = [run EXCEPT ![t].at = "recover", ![t].second = TRUE]
    <3> DEFINE g == [run[t] EXCEPT !.at = "recover", !.second = TRUE]
    <3>1. g \in Goroutine /\ g.at = "recover" /\ run' = [run EXCEPT ![t] = g]
      BY <2>2, ZenonT(30) DEF TurnIInv, Types, Goroutine, Places
    <3>2. status' = [status EXCEPT ![t] = status[t]] /\ status[t] \in Recoverable
      BY <2>1, InProgress, Zenon
    <3> QED
      BY <2>1, <3>1, <3>2, Counting, GoingOn, Zenon
  <2>3. CASE \E e \in Errors : Goto(t, "finish") \/ Fail(t, e)
    BY <2>1, <2>3, Going, Zenon
  <2> QED
    BY <1>4, <2>2, <2>3, Zenon DEF Cascade, Outcomes
<1>5. CASE BeginRecovery(t)
  <2>1. run[t].at = "recover" /\ Counted /\ UNCHANGED <<aside, answers, said, mapVars>>
    BY <1>5, Zenon DEF BeginRecovery, Counted
  <2>2. \/ UNCHANGED status \/ \E s \in Recoverable : SetStatus(t, s)
    BY <1>5, <2>1, InProgress, Zenon DEF BeginRecovery
  <2>3. CASE Goto(t, "respawn") \/ \E e \in Errors : Fail(t, e)
    BY <2>1, <2>2, <2>3, Going, Zenon
  <2>4. CASE Goto(t, "reportFailed")
    BY <2>1, <2>2, <2>4, Telling, Zenon
  <2> QED
    BY <1>5, <2>3, <2>4, Zenon DEF BeginRecovery, RecoveryFailed
<1>6. CASE Respawn(t)
  <2>1. run[t].at = "respawn" /\ Counted /\ UNCHANGED <<aside, status, answers, said, mapVars, faults>>
    BY <1>6, Zenon DEF Respawn, Counted
  <2>2. CASE \E e \in Errors : Goto(t, "finish") \/ Goto(t, "giveUp") \/ Fail(t, e)
    BY <2>1, <2>2, Going, Zenon
  <2>3. CASE Goto(t, "reportFailed")
    BY <2>1, <2>3, Telling, Zenon
  <2> QED
    BY <1>6, <2>2, <2>3, Zenon DEF Respawn, RecoveryFailed, Outcomes
<1>7. CASE RecordIncomplete(t)
  <2>1. run[t].at = "giveUp" /\ Counted /\ UNCHANGED <<aside, answers, said>>
    BY <1>7, Zenon DEF RecordIncomplete, Counted
  <2>2. CASE SetStatus(t, "incomplete") /\ Exit(t)
    BY <2>1, <2>2, InProgress, Counting, Leaving, Zenon
       DEF SetStatus, Statuses, Terminal, TurnIInv, Types
  <2>3. CASE Fault /\ (\E s \in {status[t], "incomplete"} : SetStatus(t, s)) /\ Goto(t, "reportFailed")
             /\ UNCHANGED mapVars
    BY <2>1, <2>3, InProgress, Telling, Zenon
  <2> QED
    BY <1>7, <2>2, <2>3, Zenon DEF RecordIncomplete
<1>8. CASE EndInError(t)
  <2>1. run[t].at = "end" /\ Counted /\ UNCHANGED <<aside, answers, said>>
    BY <1>8, Zenon DEF EndInError, Counted
  <2>2. EndStatus(t) \in {"failed", "interrupted", "cancelled"}
    BY Zenon DEF EndStatus
  <2>3. CASE SetStatus(t, "interrupted") /\ Exit(t)
    BY <2>1, <2>3, InProgress, Counting, Leaving, Zenon
       DEF SetStatus, Statuses, Terminal, TurnIInv, Types
  <2>4. CASE /\ UNCHANGED status \/ SetStatus(t, EndStatus(t))
             /\ Goto(t, "reportFailed") /\ UNCHANGED mapVars
    BY <2>1, <2>2, <2>4, Telling, Zenon
  <2> QED
    BY <1>8, <2>3, <2>4, Zenon DEF EndInError
<1>9. CASE Finish(t)
  <2>1. run[t].at = "finish" /\ Counted /\ UNCHANGED <<aside, status, said>>
    BY <1>9, Zenon DEF Finish, Counted
  <2>2. CASE ~CtxDone(t) /\ answers' = [answers EXCEPT ![t] = @ + 1] /\ Goto(t, "complete")
             /\ UNCHANGED <<mapVars, faults>>
    <3> DEFINE g == Reached(t, "complete")
    <3>1. g \in Goroutine /\ g.at = "complete" /\ run' = [run EXCEPT ![t] = g]
      BY <2>2, WhereGoto, Zenon DEF Places
    <3> HIDE DEF g
    <3>2. Only(t)
      BY <2>1, <2>2, <3>1 DEF TurnIInv, Types, Only, mapVars
    <3>3. /\ run'[t] = g /\ g /= Idle /\ run[t] /= Idle /\ answers[t] \in Nat /\ answers'[t] = answers[t] + 1
          /\ status'[t] = status[t] /\ status[t] \in Recoverable /\ said'[t] = said[t]
          /\ active' = active /\ record' = record /\ restarts \in Nat
      BY <2>1, <2>2, <3>1, InProgress DEF TurnIInv, Types, Idle, mapVars
    <3>4. Known(t) /\ Backed(t) /\ Spent(t)
      BY Zenon DEF TurnIInv
    <3>5. Known(t)' /\ Strand(t)'
      BY <3>1, <3>3, <3>4, Zenon DEF Known, Strand
    <3>6. Backed(t)'
      BY <3>1, <3>3, <3>4 DEF Backed, Terminal
    <3>7. Spent(t)'
      BY <2>1, <3>1, <3>3, <3>4 DEF Spent, Life, aside
    <3> QED
      BY <3>2, <3>3, <3>5, <3>6, <3>7, Elsewhere, Zenon
  <2>3. CASE (CtxDone(t) \/ Fault) /\ Exit(t) /\ UNCHANGED answers
    <3>1. \/ daemon = "closing" \/ t \in cancelled \union stalled \/ faults' > 0
      BY <2>3 DEF CtxDone, Fault, TurnIInv, Types
    <3>2. status' = [status EXCEPT ![t] = status[t]] /\ status[t] \in Recoverable /\ run[t] /= Idle
      BY <2>1, InProgress, Zenon
    <3>3. said' \in [Turns -> SUBSET Ends] /\ said' = said
      BY <2>1, Zenon DEF TurnIInv, Types
    <3> QED
      BY <2>1, <2>3, <3>1, <3>2, <3>3, Counting, Leaving, Zenon
         DEF Statuses, Terminal
  <2>4. CASE Goto(t, "giveUp") /\ UNCHANGED <<answers, mapVars>>
    BY <2>1, <2>4, Going, Zenon
  <2>5. CASE (\E at \in {"reportFailed", "tellFailed"} : Goto(t, at)) /\ UNCHANGED <<answers, mapVars>>
    BY <2>1, <2>5, Telling, Zenon
  <2> QED
    BY <1>9, <2>2, <2>3, <2>4, <2>5, Zenon DEF Finish
<1>10. CASE Complete(t)
  <2>1. run[t].at = "complete" /\ Counted /\ UNCHANGED <<aside, answers, said, mapVars>>
    BY <1>10, Zenon DEF Complete, Counted
  <2>2. CASE SetStatus(t, "completed") /\ Goto(t, "tellCompleted")
    <3> DEFINE g == Reached(t, "tellCompleted")
    <3>1. g \in Goroutine /\ g.at = "tellCompleted" /\ run' = [run EXCEPT ![t] = g]
      BY <2>2, WhereGoto, Zenon DEF Places
    <3> HIDE DEF g
    <3> QED
      BY <2>1, <2>2, <3>1, Counting, TellingOf, Zenon
         DEF SetStatus, Statuses, Terminal
  <2>3. CASE UNCHANGED status /\ \E at \in {"reportFailed", "tellFailed"} : Goto(t, at)
    BY <2>1, <2>3, Telling, Zenon
  <2> QED
    BY <1>10, <2>2, <2>3, Zenon DEF Complete
<1>11. CASE Report(t)
  <2>1. /\ run[t].at \in Reporting /\ Counted /\ Exit(t) /\ UNCHANGED <<aside, status, answers>>
        /\ run[t] /= Idle
    BY <1>11 DEF Report, Counted, Idle
  <2>2. status[t] \in Statuses \ {"none"} /\ status' = [status EXCEPT ![t] = status[t]]
    BY <2>1, Zenon DEF TurnIInv, Types, Backed
  <2>3. run[t].at = "tellCompleted" => status[t] = "completed"
    BY Zenon DEF TurnIInv, Backed
  <2>4. CASE run[t].at = "tellCompleted" /\ (Say(t, "completed") \/ UNCHANGED said)
    <3>1. said' \in [Turns -> SUBSET Ends] /\ (\A u \in Turns : said'[u] /= said[u] => u = t)
      BY <2>4 DEF Say, TurnIInv, Types, Ends
    <3> QED
      BY <2>1, <2>2, <2>3, <2>4, <3>1, Counting, Leaving, Zenon
  <2>5. CASE Say(t, "failed") /\ run[t].at /= "tellCompleted"
    <3>1. said' \in [Turns -> SUBSET Ends] /\ (\A u \in Turns : said'[u] /= said[u] => u = t)
      BY <2>5, Zenon DEF Say, TurnIInv, Types, Ends
    <3>2. said'[t] = said[t] \union {"failed"}
      BY <2>5, Zenon DEF Say, TurnIInv, Types
    <3> QED
      BY <2>1, <2>2, <3>1, <3>2, Counting, Leaving, Zenon
  <2>6. CASE (CtxDone(t) \/ Fault) /\ UNCHANGED said
    <3>1. \/ daemon = "closing" \/ t \in cancelled \union stalled \/ faults' > 0
      BY <2>6 DEF CtxDone, Fault, TurnIInv, Types
    <3>2. said' \in [Turns -> SUBSET Ends] /\ said' = said
      BY <2>6, Zenon DEF TurnIInv, Types
    <3> QED
      BY <2>1, <2>2, <2>6, <3>1, <3>2, Counting, Leaving, Zenon
  <2> QED
    BY <1>11, <2>4, <2>5, <2>6, Zenon DEF Report
<1> QED
  BY <1>1, <1>2, <1>3, <1>4, <1>5, <1>6, <1>7, <1>8, <1>9, <1>10, <1>11, Zenon
     DEF TurnStep

-----------------------------------------------------------------------------
\* A handler is alone, and about a turn of its own.
LEMMA OneHandler ==
  ASSUME TurnIInv, NEW c \in cmd
  PROVE  c \in Handlers /\ cmd = {c} /\ Handling(c) /\ c = [turn |-> c.turn, stage |-> c.stage]
  BY DEF TurnIInv, Types, Handlers

\* The command handlers and startTurn, step by step.
LEMMA HandlerKeeps ==
  ASSUME TurnIInv, NEW t \in Turns,
         \/ Submit(t) \/ Cancel(t) \/ Wake(t) \/ HandlerStep(t) \/ HandlerFails(t) \/ Stall(t)
         \/ \E of \in Turns : Steer(of, t) \/ Retry(of, t)
  PROVE  TurnIInv'
<1> USE DEF Recoverable, Terminal, Statuses, Unanswered, Reporting
<1>1. /\ \A u \in Turns : Known(u) /\ Backed(u) /\ Spent(u) /\ Strand(u)
      /\ Types /\ Quiet /\ (\A u \in toResume : Resumable(u))
  BY Zenon DEF TurnIInv
<1>2. ASSUME NEW stage \in {"append", "create", "emit"}
      PROVE  [turn |-> t, stage |-> stage] \in Handlers
  BY Zenon DEF Handlers
<1>3. ASSUME Ready, Fresh(t), Handle(t, "append"), cancelled' \in SUBSET Turns, cancelled \subseteq cancelled',
             record' \in [Turns -> {"none", "active", "done"}],
             \A u \in Turns : record'[u] = "active" <=> record[u] = "active",
             UNCHANGED <<daemon, toResume, durableVars, run, stalled, active, restarts, faults>>
      PROVE  TurnIInv'
  <2>1. Types'
    BY <1>1, <1>2, <1>3, Zenon DEF Types, Handle, durableVars
  <2>2. Quiet'
    BY <1>1, <1>3, Zenon DEF Quiet, Ready, durableVars
  <2>3. ASSUME NEW u \in Turns PROVE Known(u)' /\ Backed(u)' /\ Spent(u)' /\ Strand(u)'
    BY <1>1, <1>3, Zenon
       DEF Known, Backed, Spent, Strand, Life, Ready, durableVars
  <2>4. \A c \in cmd' : Handling(c)'
    BY <1>1, <1>3 DEF Handle, Handling, Ready, Fresh, Backed, durableVars
  <2>5. toResume = {}
    BY <1>1, <1>3, Zenon DEF Ready, Resumable, Types
  <2> QED
    BY <1>3, <2>1, <2>2, <2>3, <2>4, <2>5, Zenon DEF TurnIInv
<1>4. CASE Submit(t)
  BY <1>1, <1>3, <1>4, Zenon DEF Submit, ctxVars, mapVars, Types
<1>5. ASSUME NEW of \in Turns, Steer(of, t) PROVE TurnIInv'
  BY <1>1, <1>3, <1>5, Zenon DEF Steer, mapVars, Types
<1>6. ASSUME NEW of \in Turns, Retry(of, t) PROVE TurnIInv'
  <2>1. /\ record' \in [Turns -> {"none", "active", "done"}]
        /\ \A u \in Turns : record'[u] = "active" <=> record[u] = "active"
    BY <1>1, <1>6, Zenon DEF Retry, Types
  <2> QED
    BY <1>1, <1>3, <1>6, <2>1, Zenon DEF Retry, ctxVars, Types
<1>7. CASE Cancel(t) \/ Stall(t)
  <2>1. /\ cancelled' \in SUBSET Turns /\ cancelled \subseteq cancelled'
        /\ stalled' \in SUBSET Turns /\ stalled \subseteq stalled'
        /\ UNCHANGED <<daemon, toResume, cmd, durableVars, run, mapVars, restarts, faults>>
    BY <1>1, <1>7, Zenon DEF Cancel, Stall, Types
  <2>2. Types' /\ Quiet'
    BY <1>1, <2>1, Zenon DEF Types, Quiet, durableVars, mapVars
  <2>3. ASSUME NEW u \in Turns PROVE Known(u)' /\ Backed(u)' /\ Spent(u)' /\ Strand(u)'
    BY <1>1, <2>1, Zenon
       DEF Known, Backed, Spent, Strand, Life, durableVars, mapVars
  <2>4. \A c \in cmd' : Handling(c)'
    BY <2>1, Zenon DEF TurnIInv, Handling, durableVars
  <2>5. \A u \in toResume' : Resumable(u)'
    BY <1>1, <2>1, Zenon DEF Resumable, durableVars
  <2> QED
    BY <2>2, <2>3, <2>4, <2>5, Zenon DEF TurnIInv
<1>8. CASE AppendUserMessage(t)
  <2>1. [turn |-> t, stage |-> "append"] \in cmd /\ daemon = "serving"
    BY <1>8, Zenon DEF AppendUserMessage, HandlerAt
  <2>2. run[t] = Idle /\ answers[t] = 0 /\ status[t] = "none"
    BY <2>1, OneHandler, Zenon DEF Handling
  <2>3. Types'
    BY <1>1, <1>2, <1>8 DEF AppendUserMessage, Types, Handle, ctxVars, mapVars
  <2>4. Quiet' /\ \A c \in cmd' : Handling(c)'
    BY <1>1, <1>8, <2>1, <2>2 DEF AppendUserMessage, Quiet, Handle, Handling
  <2>5. ASSUME NEW u \in Turns PROVE Known(u)' /\ Backed(u)' /\ Spent(u)' /\ Strand(u)'
    <3>1. (\E c \in cmd : c.turn = u) => (\E c \in cmd' : c.turn = u)
      BY <1>8, <2>1, OneHandler, Zenon DEF AppendUserMessage, Handle
    <3> QED
      BY <1>1, <1>8, <3>1, Zenon
         DEF AppendUserMessage, Known, Backed, Spent, Strand, Life, ctxVars, mapVars
  <2>6. \A u \in toResume' : Resumable(u)'
    BY <1>1, <1>8, Zenon DEF AppendUserMessage, Resumable
  <2> QED
    BY <2>3, <2>4, <2>5, <2>6, Zenon DEF TurnIInv
<1>9. ASSUME status[t] = "none", answers[t] = 0, run[t] = Idle, daemon = "serving", Handle(t, "emit"),
             \A c \in cmd : c.turn = t,
             status' = [status EXCEPT ![t] = "running"], messages' \in [Turns -> Nat],
             UNCHANGED <<daemon, toResume, answers, said, run, ctxVars, mapVars, restarts, faults>>
      PROVE  TurnIInv'
  <2>1. Types'
    BY <1>1, <1>2, <1>9, Zenon DEF Types, Handle, ctxVars, mapVars
  <2>2. status'[t] = "running" /\ \A u \in Turns \ {t} : status'[u] = status[u]
    BY <1>1, <1>9, Zenon DEF Types
  <2>3. Quiet' /\ \A c \in cmd' : Handling(c)'
    BY <1>1, <1>9, <2>2 DEF Quiet, Handle, Handling
  <2>4. ASSUME NEW u \in Turns \ {t} PROVE Known(u)' /\ Backed(u)' /\ Spent(u)' /\ Strand(u)'
    BY <1>1, <1>9, <2>2 DEF Known, Backed, Spent, Strand, Life, ctxVars, mapVars
  <2>5. Known(t)' /\ Backed(t)' /\ Spent(t)'
    BY <1>1, <1>9, <2>2, Zenon
       DEF Known, Backed, Spent, Life, ctxVars, mapVars, Idle
  <2>6. Strand(t)'
    BY <1>9, Zenon DEF Strand, Handle
  <2>7. toResume = {}
    BY <1>1, <1>9, Zenon DEF Resumable, Types
  <2> QED
    BY <1>9, <2>1, <2>3, <2>4, <2>5, <2>6, <2>7, Zenon DEF TurnIInv
<1>10. CASE CreateTurnState(t)
  <2>1. [turn |-> t, stage |-> "create"] \in cmd /\ daemon = "serving"
    BY <1>10, Zenon DEF CreateTurnState, HandlerAt
  <2>2. run[t] = Idle /\ answers[t] = 0 /\ status[t] = "none" /\ \A c \in cmd : c.turn = t
    BY <2>1, OneHandler, Zenon DEF Handling
  <2> QED
    BY <1>1, <1>9, <1>10, <2>1, <2>2, Zenon DEF CreateTurnState, Types
<1>11. CASE Wake(t)
  <2>1. daemon = "serving" /\ cmd = {} /\ status[t] = "none" /\ run[t] = Idle /\ answers[t] = 0
    BY <1>1, <1>11, Zenon DEF Wake, Ready, Backed
  <2>2. messages' \in [Turns -> Nat]
    BY <1>1, <1>11 DEF Wake, Types
  <2> QED
    BY <1>9, <1>11, <2>1, <2>2, Zenon DEF Wake
<1>12. CASE StartRun(t)
  <2>1. [turn |-> t, stage |-> "emit"] \in cmd /\ daemon = "serving"
    BY <1>12, Zenon DEF StartRun, HandlerAt
  <2>2. run[t] = Idle /\ answers[t] = 0 /\ status[t] = "running" /\ \A c \in cmd : c.turn = t
    BY <2>1, OneHandler DEF Handling
  <2>3. Launched \in Goroutine /\ Launched.at = "launch" /\ Launched /= Idle
    BY Zenon DEF Launched, Idle, Goroutine, Places, Errors
  <2>4. Types'
    BY <1>1, <1>12, <2>3, Zenon
       DEF StartRun, Launch, Types, durableVars, ctxVars
  <2>5. /\ run'[t] = Launched /\ t \in active' /\ record'[t] = "active" /\ cmd' = {}
        /\ \A u \in Turns \ {t} : run'[u] = run[u] /\ record'[u] = record[u] /\ (u \in active' <=> u \in active)
    BY <1>1, <1>12, Zenon DEF StartRun, Launch, Types
  <2>6. ASSUME NEW u \in Turns \ {t} PROVE Known(u)' /\ Backed(u)' /\ Spent(u)' /\ Strand(u)'
    BY <1>1, <1>12, <2>2, <2>5 DEF StartRun, Known, Backed, Spent, Strand, Life, durableVars, ctxVars
  <2>7. Known(t)' /\ Strand(t)'
    BY <2>3, <2>5, Zenon DEF Known, Strand
  <2>8. Backed(t)' /\ Spent(t)'
    BY <1>1, <1>12, <2>1, <2>2, <2>3, <2>5 DEF StartRun, Backed, Spent, Life, Types, durableVars
  <2>9. Quiet' /\ toResume' = {}
    BY <1>1, <1>12, <2>1, Zenon DEF StartRun, Quiet, Resumable, Types
  <2> QED
    BY <2>4, <2>5, <2>6, <2>7, <2>8, <2>9, Zenon DEF TurnIInv
<1>13. CASE HandlerFails(t)
  <2>1. PICK c \in cmd : c.turn = t
    BY <1>13, Zenon DEF HandlerFails
  <2>2. run[t] = Idle /\ answers[t] = 0 /\ status[t] \in {"none", "running"} /\ \A d \in cmd : d.turn = t
    BY <2>1, OneHandler, Zenon DEF Handling
  <2>3. faults' \in Nat /\ faults' > 0 /\ cmd' = {} /\ daemon = "serving"
    BY <1>1, <1>13 DEF HandlerFails, Fault, Types
  <2>4. /\ status' \in [Turns -> Statuses] /\ status'[t] \in {status[t], "failed"}
        /\ \A u \in Turns \ {t} : status'[u] = status[u]
    BY <1>1, <1>13, Zenon DEF HandlerFails, Types
  <2>5. Types'
    BY <1>1, <1>13, <2>3, <2>4, Zenon DEF HandlerFails, Types, ctxVars, mapVars
  <2>6. ASSUME NEW u \in Turns \ {t} PROVE Known(u)' /\ Backed(u)' /\ Spent(u)' /\ Strand(u)'
    BY <1>1, <1>13, <2>3, <2>4, Zenon
       DEF HandlerFails, Known, Backed, Spent, Strand, Life, ctxVars, mapVars
  <2>7. Known(t)' /\ Backed(t)' /\ Spent(t)' /\ Strand(t)'
    BY <1>1, <1>13, <2>2, <2>3, <2>4 DEF HandlerFails, Known, Backed, Spent, Strand, Life, ctxVars, mapVars, Idle
  <2>8. Quiet' /\ toResume' = {}
    BY <1>1, <1>13, <2>3, Zenon DEF HandlerFails, Quiet, Resumable, Types
  <2> QED
    BY <2>3, <2>5, <2>6, <2>7, <2>8, Zenon DEF TurnIInv
<1> QED
  BY <1>4, <1>5, <1>6, <1>7, <1>8, <1>10, <1>11, <1>12, <1>13, Zenon
     DEF HandlerStep

\* What is left when the daemon has stopped: nothing but what is durable (Gone).
LEMMA Stopping ==
  ASSUME TurnIInv, Gone, restarts' \in Nat, restarts' > Life, faults' \in Nat,
         status' \in [Turns -> Statuses],
         \A t \in Turns : status'[t] = status[t] \/ {status[t], status'[t]} \subseteq Recoverable,
         UNCHANGED <<messages, answers, said>>
  PROVE  TurnIInv'
<1>1. Idle \in Goroutine /\ Idle.at = "idle"
  BY Zenon DEF Idle, Goroutine, Places, Errors
<1>2. Types /\ \A t \in Turns : Backed(t) /\ Spent(t)
  BY Zenon DEF TurnIInv
<1>3. \A t \in Turns : run'[t] = Idle /\ record'[t] = "none" /\ answers'[t] <= restarts' /\ answers[t] \in Nat
  BY <1>2 DEF Gone, Types, Spent, Life
<1>4. Types' /\ Quiet'
  BY <1>1, <1>2, <1>3, Zenon DEF Gone, Types, Quiet
<1>5. ASSUME NEW t \in Turns PROVE Known(t)' /\ Spent(t)' /\ Strand(t)'
  BY <1>1, <1>3, <1>4 DEF Gone, Known, Spent, Strand, Life, Unanswered, Types
<1>6. ASSUME NEW t \in Turns PROVE Backed(t)'
  BY <1>1, <1>2, <1>3, Zenon DEF Backed, Terminal, Recoverable
<1> QED
  BY <1>4, <1>5, <1>6, Zenon DEF TurnIInv, Gone

\* Shutdown, crash and boot (Close, ResumePending).
LEMMA LifeKeeps ==
  ASSUME TurnIInv,
         Close \/ Joined \/ Crash \/ Boot \/ Serve \/ \E t \in Turns : ResumeTurn(t) \/ BootFails(t)
  PROVE  TurnIInv'
<1> USE DEF Recoverable, Terminal, Statuses, Unanswered, Reporting
<1>1. /\ \A u \in Turns : Known(u) /\ Backed(u) /\ Spent(u) /\ Strand(u)
      /\ Types /\ Quiet /\ (\A u \in toResume : Resumable(u))
  BY Zenon DEF TurnIInv
<1>2. CASE Close
  <2>1. Types' /\ Quiet' /\ toResume = {}
    BY <1>1, <1>2 DEF Close, Types, Quiet, Resumable, durableVars, ctxVars, mapVars
  <2>2. ASSUME NEW u \in Turns PROVE Known(u)' /\ Backed(u)' /\ Spent(u)' /\ Strand(u)'
    BY <1>1, <1>2 DEF Close, Types, Known, Backed, Spent, Strand, Life, durableVars, mapVars
  <2> QED
    BY <1>2, <2>1, <2>2, Zenon DEF TurnIInv, Close
<1>3. CASE Joined
  <2>1. restarts' \in Nat /\ restarts' > Life
    BY <1>1, <1>3 DEF Joined, Types, Life
  <2> QED
    BY <1>1, <1>3, <2>1, Stopping, Zenon DEF Joined, Types, durableVars
<1>4. CASE Crash
  <2>1. restarts' \in Nat /\ restarts' > Life
    BY <1>1, <1>4 DEF Crash, Types, Life
  <2> QED
    BY <1>1, <1>4, <2>1, Stopping, Zenon DEF Crash, Types, durableVars
<1>5. ASSUME NEW t \in Turns, BootFails(t) PROVE TurnIInv'
  <2>1. restarts' \in Nat /\ restarts' > Life /\ faults' \in Nat
    BY <1>1, <1>5 DEF BootFails, Types, Life, Fault
  <2>2. status[t] \in Recoverable
    BY <1>1, <1>5, Zenon DEF BootFails, Resumable
  <2>3. /\ status' \in [Turns -> Statuses]
        /\ \A u \in Turns : status'[u] = status[u] \/ {status[u], status'[u]} \subseteq Recoverable
    BY <1>1, <1>5, <2>2 DEF BootFails, SetStatus, Types
  <2> QED
    BY <1>5, <2>1, <2>3, Stopping, Zenon DEF BootFails
<1>6. CASE Boot
  <2>1. Types' /\ Quiet'
    BY <1>1, <1>6, Zenon
       DEF Boot, Types, Quiet, RecoverableTurnStates, durableVars, ctxVars, mapVars
  <2>2. ASSUME NEW u \in Turns PROVE Known(u)' /\ Backed(u)' /\ Spent(u)' /\ Strand(u)'
    BY <1>1, <1>6, Zenon
       DEF Boot, Types, Known, Backed, Spent, Strand, Life, RecoverableTurnStates, durableVars, mapVars
  <2>3. \A u \in toResume' : Resumable(u)'
    BY <1>1, <1>6, Zenon
       DEF Boot, Quiet, Resumable, RecoverableTurnStates, durableVars
  <2> QED
    BY <1>1, <1>6, <2>1, <2>2, <2>3, Zenon DEF TurnIInv, Boot, Quiet
<1>7. CASE Serve
  <2>1. Types' /\ Quiet' /\ toResume' = {}
    BY <1>1, <1>7, Zenon DEF Serve, Types, Quiet, durableVars, ctxVars, mapVars
  <2>2. ASSUME NEW u \in Turns PROVE Known(u)' /\ Backed(u)' /\ Spent(u)' /\ Strand(u)'
    BY <1>1, <1>7, Zenon
       DEF Serve, Known, Backed, Spent, Strand, Life, durableVars, ctxVars, mapVars
  <2>3. cmd' = {}
    BY <1>7, Zenon DEF TurnIInv, Serve, Handling
  <2> QED
    BY <2>1, <2>2, <2>3, Zenon DEF TurnIInv
<1>8. ASSUME NEW t \in Turns, ResumeTurn(t) PROVE TurnIInv'
  <2>1. run[t] = Idle /\ answers[t] <= restarts /\ status[t] \in Recoverable /\ daemon = "booting"
    BY <1>1, <1>8, Zenon DEF ResumeTurn, Resumable
  <2>2. Launched \in Goroutine /\ Launched.at = "launch" /\ Launched /= Idle
    BY Zenon DEF Launched, Idle, Goroutine, Places, Errors
  <2>3. Types'
    BY <1>1, <1>8, <2>2, Zenon
       DEF ResumeTurn, Launch, SetStatus, Types, ctxVars
  <2>4. /\ run'[t] = Launched /\ t \in active' /\ record'[t] = "active" /\ status'[t] = "recovering"
        /\ \A u \in Turns \ {t} : /\ run'[u] = run[u] /\ record'[u] = record[u] /\ status'[u] = status[u]
                                  /\ (u \in active' <=> u \in active) /\ (u \in toResume' <=> u \in toResume)
    BY <1>1, <1>8, Zenon DEF ResumeTurn, Launch, SetStatus, Types
  <2>5. ASSUME NEW u \in Turns \ {t} PROVE Known(u)' /\ Backed(u)' /\ Spent(u)' /\ Strand(u)'
    BY <1>1, <1>8, <2>4 DEF ResumeTurn, Known, Backed, Spent, Strand, Life, ctxVars
  <2>6. Known(t)' /\ Strand(t)'
    BY <2>2, <2>4, Zenon DEF Known, Strand
  <2>7. Backed(t)'
    BY <1>1, <1>8, <2>1, <2>2, <2>4, Zenon DEF ResumeTurn, Backed
  <2>8. Spent(t)'
    BY <1>1, <1>8, <2>1, <2>2, <2>4, Zenon DEF ResumeTurn, Spent, Life
  <2>9. Quiet' /\ cmd' = {}
    BY <1>8, Zenon DEF TurnIInv, ResumeTurn, Quiet, Handling
  <2>10. \A u \in toResume' : Resumable(u)'
    BY <1>1, <1>8, <2>4, Zenon DEF ResumeTurn, Resumable, Types
  <2> QED
    BY <2>3, <2>5, <2>6, <2>7, <2>8, <2>9, <2>10, Zenon DEF TurnIInv
<1> QED
  BY <1>2, <1>3, <1>4, <1>5, <1>6, <1>7, <1>8, Zenon

(* A step that changes nothing keeps the invariant.                          *)
LEMMA TurnStutter == TurnIInv /\ UNCHANGED vars => TurnIInv'
  BY DEF TurnIInv, vars, durableVars, ctxVars, mapVars, Types, Quiet, Known, Backed, Spent, Strand,
         Life, Handling, Resumable

\* Every step of the coordinator keeps the invariant.
LEMMA TurnStepKeeps == TurnIInv /\ [Next]_vars => TurnIInv'
  BY GoroutineStep, HandlerKeeps, LifeKeeps, TurnStutter, Zenon DEF Next

\* For any turns, restarts and failing writes: types; a turn is called completed only
\* with its answer in the transcript; the transcript has one answer per life of the
\* daemon at most; and a turn is left running only for a known reason (startTurn, run,
\* ResumePending).
THEOREM TurnSafety == Spec => []TurnInv
  BY TurnInit, TurnIInvImplies, TurnStepKeeps, PTL DEF Spec

\* No step touches a turn that has ended, but the report of its own end.
LEMMA EndedStays ==
  ASSUME TurnIInv, NEW u \in Turns, status[u] \in Terminal, [Next]_vars
  PROVE  status'[u] = status[u] /\ run'[u].at \notin Working
<1> USE DEF Terminal, Working
<1>1. Types /\ Backed(u) /\ (\A c \in cmd : Handling(c)) /\ (\A t \in toResume : Resumable(t))
  BY Zenon DEF TurnIInv
<1>2. run[u].at \in {"idle"} \union Reporting /\ Idle.at = "idle"
  BY <1>1, InProgress, Zenon
     DEF Types, Goroutine, Places, Reporting, Recoverable, Idle
<1>3. ASSUME NEW t \in Turns, TurnStep(t), t /= u PROVE status'[u] = status[u] /\ run'[u] = run[u]
  <2> USE <1>1, <1>3 DEF Types, Goto, Fail, SetStatus, Exit
  <2>1. CASE GetRunner(t) \/ Attempt(t) \/ BeginCascade(t) \/ Cascade(t)
    BY <2>1, Zenon DEF GetRunner, Attempt, BeginCascade, Cascade
  <2>2. CASE BeginRecovery(t) \/ Respawn(t) \/ RecordIncomplete(t) \/ EndInError(t)
    BY <2>2, Zenon
       DEF BeginRecovery, Respawn, RecoveryFailed, RecordIncomplete, EndInError
  <2>3. CASE Finish(t) \/ Complete(t) \/ Report(t)
    BY <2>3, Zenon DEF Finish, Complete, Report
  <2> QED
    BY <2>1, <2>2, <2>3, Zenon DEF TurnStep
<1>4. ASSUME TurnStep(u) PROVE status'[u] = status[u] /\ run'[u] = Idle
  <2>1. Report(u)
    BY <1>2, <1>4, Zenon
       DEF TurnStep, GetRunner, Attempt, BeginCascade, Cascade, BeginRecovery, Respawn,
                      RecordIncomplete, EndInError, Finish, Complete, Reporting
  <2> QED
    BY <1>1, <2>1, Zenon DEF Report, Exit, Types
<1>5. ASSUME NEW t \in Turns,
             Submit(t) \/ Cancel(t) \/ Stall(t) \/ (\E of \in Turns : Steer(of, t) \/ Retry(of, t))
      PROVE  status' = status /\ run' = run
  BY <1>5, Zenon DEF Submit, Cancel, Stall, Steer, Retry, durableVars
<1>6. ASSUME NEW t \in Turns, Wake(t) \/ HandlerStep(t) \/ HandlerFails(t)
      PROVE  status'[u] = status[u] /\ run'[u] = run[u]
  <2>1. CASE Wake(t)
    BY <1>1, <2>1, Zenon DEF Wake, Types
  <2>2. CASE AppendUserMessage(t)
    BY <2>2, Zenon DEF AppendUserMessage
  <2>3. CASE CreateTurnState(t)
    BY <1>1, <2>3, Zenon DEF CreateTurnState, HandlerAt, Handling, Types
  <2>4. CASE StartRun(t)
    BY <1>1, <2>4, Zenon
       DEF StartRun, Launch, HandlerAt, Handling, Types, durableVars
  <2>5. CASE HandlerFails(t)
    BY <1>1, <2>5, Zenon DEF HandlerFails, Handling, Types
  <2> QED
    BY <1>6, <2>1, <2>2, <2>3, <2>4, <2>5, Zenon DEF HandlerStep
<1>7. ASSUME NEW t \in Turns, ResumeTurn(t) PROVE status'[u] = status[u] /\ run'[u] = run[u]
  BY <1>1, <1>7, Zenon
     DEF ResumeTurn, Launch, SetStatus, Resumable, Recoverable, Types
<1>8. ASSUME NEW t \in Turns, BootFails(t) PROVE status'[u] = status[u] /\ run'[u] = Idle
  BY <1>1, <1>8, Zenon
     DEF BootFails, Gone, SetStatus, Resumable, Recoverable, Types
<1>9. CASE Joined \/ Crash
  BY <1>2, <1>9, Zenon DEF Joined, Crash, Gone, durableVars
<1>10. CASE Close \/ Boot \/ Serve \/ UNCHANGED vars
  BY <1>2, <1>10, Zenon DEF Close, Boot, Serve, vars, durableVars, Reporting
<1> QED
  BY <1>2, <1>3, <1>4, <1>5, <1>6, <1>7, <1>8, <1>9, <1>10, Zenon
     DEF Next, Reporting

\* No late goroutine, retry or resumption at boot touches a turn that was completed,
\* failed or cancelled, and no agent works on it again (run, ResumePending).
THEOREM EndedTurnsStay == Spec => TerminalIsFinal
<1>1. TurnIInv /\ [Next]_vars =>
        [\A t \in Turns : status[t] \in Terminal =>
           status'[t] = status[t] /\ run'[t].at \notin Working]_vars
  BY EndedStays, Zenon
<1> QED
  BY <1>1, TurnInit, TurnStepKeeps, PTL DEF Spec, TerminalIsFinal
=============================================================================
