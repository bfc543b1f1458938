------------------------------ MODULE MCLeases ------------------------------
(* What the operator and the agent wait for from each other, for TLC.  A       *)
(* behaviour is about the takeover lease of one resource (a browser or         *)
(* terminal is driven through BeginOperator, the private desktop through input *)
(* tickets), the frames of the desktop, the approvals a turn asks for, or the  *)
(* messages queued behind a turn.                                              *)
EXTENDS DesktopTakeover

CONSTANT None

VARIABLES kind,
          active, host, ticket, img, timer, failures, ready, disturbed,
          approvalNow, state, decision, expires, waiters, request, respond, outcome,
          session, known, draft, composed, queue, op, shown, resumes, turns

frameVars == <<active, host, ticket, img, timer, failures, ready, disturbed>>
approvalVars == <<approvalNow, state, decision, expires, waiters, request, respond, outcome>>
chatVars == <<session, known, draft, composed, queue, op, shown, resumes, turns>>
leasesVars == <<desktopVars, kind, frameVars, approvalVars, chatVars>>

Frames == INSTANCE DesktopFrames WITH MaxFailures <- 2

\* Two requests whose lives overlap, the second made at once or a little later.
Broker == INSTANCE ApprovalBroker
    WITH Approvals <- {1, 2}, TTL <- 2, MaxTime <- 3, now <- approvalNow

\* One conversation, or none yet, and two messages.
Chat == INSTANCE ChatHost
    WITH Sessions <- {"s"}, MaxMessages <- 2, MaxTurns <- 2, MaxResumes <- 2

LeasesInit ==
    /\ kind \in {"browser", "desktop", "frames", "approval", "chat"}
    /\ DesktopInit /\ Frames!FramesInit /\ Broker!Init /\ Chat!ChatInit
    \* one of the initial states of a part that does not move
    /\ kind /= "chat" => known = {}

\* Only this part moves.
Moves(k) ==
    /\ kind = k /\ UNCHANGED kind
    /\ k = "browser" => UNCHANGED <<tickets, inputs>>
    /\ k \notin {"browser", "desktop"} => UNCHANGED desktopVars
    /\ k /= "approval" => UNCHANGED approvalVars
    /\ k /= "chat" => UNCHANGED chatVars
    /\ k /= "frames" => UNCHANGED frameVars

LeasesNext ==
    \/ Moves("browser") /\ Next
    \/ Moves("desktop") /\ DesktopNext
    \/ Moves("frames") /\ Frames!FramesNext
    \/ Moves("approval") /\ Broker!Next
    \/ Moves("chat") /\ Chat!ChatNext
    \* every request has been answered, every message sent: these two may stop
    \/ kind \in {"approval", "chat"} /\ UNCHANGED leasesVars

\* Fairness of the part that runs.
Leasing == kind \in {"browser", "desktop"}
LeasesFairness ==
    /\ WF_vars(Leasing /\ Tick)
    /\ \A a \in Agents : WF_vars(Leasing /\ EndAction(a))
    /\ WF_vars(Leasing /\ \E e \in Executors : BeginAutomation(e))
    /\ WF_frameVars(kind = "frames" /\ Frames!Interval)
    /\ WF_frameVars(kind = "frames" /\ Frames!onLoad)
    /\ WF_frameVars(kind = "frames" /\ Frames!onError)
    /\ WF_frameVars(kind = "frames" /\ Frames!NextFrame)
    /\ WF_frameVars(kind = "frames" /\ Frames!RefetchTicket)
    /\ \A a \in {1, 2} : WF_approvalVars(kind = "approval" /\ Broker!Proceed(a))
    /\ WF_approvalVars(kind = "approval" /\ Broker!Tick)
    /\ WF_chatVars(kind = "chat" /\ Chat!Answer) /\ WF_chatVars(kind = "chat" /\ Chat!Dequeue)
    /\ \A i \in {1, 2} :
         /\ WF_chatVars(kind = "chat" /\ Chat!TurnEvent(i, "running"))
         /\ WF_chatVars(kind = "chat" /\ (Chat!TurnEvent(i, "failed") \/ Chat!TurnEvent(i, "ended")))

LeasesSpec == LeasesInit /\ [][LeasesNext]_leasesVars /\ LeasesFairness

-----------------------------------------------------------------------------
\* No handler changes the durable lease under an old revision or hands a running
\* lease to someone else, and an input ticket dies with the lease it was bought for
\* (the handlers of Control, and DesktopTicket).
TakeoverSteps == LeaseSteps /\ TicketDiesWithItsLease

\* Authority comes back to the executor: a takeover whose operator has gone away
\* ends by itself, and an automated action runs again (Expire, BeginAutomation).
TakeoversEnd == Leasing => AuthorityReturns

\* While the stage is shown and the host is up, frames of the desktop keep coming
\* (onLoad, onError and the interval of viewTicket).
FramesResume == kind = "frames" => Frames!FramesResume

\* A turn that asks for approval gets an answer, even when nobody responds or a
\* response cannot be published (Request and its timer).
RequestsReturn == Broker!RequestsReturn

\* A queued message leaves the queue (the effect of ChatHost that sends it).
QueueDrains == Chat!QueueDrains
=============================================================================
