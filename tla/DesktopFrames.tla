---------------------------- MODULE DesktopFrames ----------------------------
(***************************************************************************)
(* The frame loop of the private desktop                                   *)
(* (ui/web/src/features/computer/PrivateDesktop.tsx): an image whose load  *)
(* schedules the next frame, whose failure schedules a new view ticket     *)
(* after a delay that grows, and a ticket query that is polled while the   *)
(* stage is active.  The stage stays mounted while it is not.              *)
(***************************************************************************)
EXTENDS Naturals

CONSTANTS MaxFailures  \* bound: 5, after which the delay no longer grows

VARIABLES
    active,     \* the stage is shown
    host,       \* the daemon serves frames and tickets
    ticket,     \* viewTicket.data: "none", "old" (expired) or "valid"
    img,        \* the image: "none", "loading", "loaded" or "failed"
    timer,      \* frameTimer: "none", "frame" or "ticket"
    failures,   \* frameFailures
    ready,      \* frameReady
    disturbed   \* the stage was hidden or the host went away, so far

frameVars == <<active, host, ticket, img, timer, failures, ready, disturbed>>

FramesInit ==
    /\ active = TRUE /\ host = TRUE /\ ticket = "none" /\ img = "none" /\ timer = "none"
    /\ failures = 0 /\ ready = FALSE /\ disturbed = 0

\* A new ticket is a new frame URL, and the image loads again.
viewTicket ==
    /\ host /\ ticket' = "valid" /\ img' = "loading"
    /\ UNCHANGED <<active, host, failures, ready, disturbed>>

\* The interval, only while the loop runs anyway.
PollWithTimer == active /\ timer /= "none" /\ viewTicket /\ UNCHANGED timer
\* The query's interval, while active.
Interval == active /\ viewTicket /\ UNCHANGED timer

\* min(10000, 500 * 2^n) grows for five failures.
frameRetryDelay(n) == IF n < MaxFailures THEN n ELSE MaxFailures

\* onLoad: the frame stands, and the next one is due in 250 ms.
onLoad ==
    /\ img = "loading" /\ host /\ ticket = "valid"
    /\ img' = "loaded" /\ ready' = TRUE /\ failures' = 0 /\ timer' = "frame"
    /\ UNCHANGED <<active, host, ticket, disturbed>>

\* onError: a new ticket is due after the delay.
onError ==
    /\ img = "loading" /\ (~host \/ ticket = "old")
    /\ img' = "failed" /\ ready' = FALSE /\ timer' = "ticket" /\ failures' = frameRetryDelay(failures + 1)
    /\ UNCHANGED <<active, host, ticket, disturbed>>

\* The timer runs out: the next frame, or another ticket.  A ticket that cannot be
\* had leaves the old one, and nothing loads.
NextFrame ==
    /\ timer = "frame" /\ timer' = "none" /\ img' = "loading"
    /\ UNCHANGED <<active, host, ticket, failures, ready, disturbed>>
RefetchTicket ==
    /\ timer = "ticket" /\ timer' = "none"
    /\ \/ viewTicket
       \/ ~host /\ UNCHANGED <<active, host, ticket, img, failures, ready, disturbed>>

\* Hiding the stage clears the timer and the ready mark, not the image.
hide ==
    /\ active /\ active' = FALSE /\ ready' = FALSE /\ failures' = 0 /\ timer' = "none"
    /\ disturbed < 3 /\ disturbed' = disturbed + 1
    /\ UNCHANGED <<host, ticket, img>>
show ==
    /\ ~active /\ active' = TRUE
    /\ UNCHANGED <<host, ticket, img, timer, failures, ready, disturbed>>

HostStops ==
    /\ host /\ host' = FALSE /\ disturbed < 3 /\ disturbed' = disturbed + 1
    /\ ticket' = (IF ticket = "none" THEN "none" ELSE "old")
    /\ UNCHANGED <<active, img, timer, failures, ready>>
HostStarts ==
    /\ ~host /\ host' = TRUE
    /\ UNCHANGED <<active, ticket, img, timer, failures, ready, disturbed>>
\* A ticket not replaced in time expires.
TicketExpires ==
    /\ ticket = "valid" /\ disturbed < 3 /\ disturbed' = disturbed + 1 /\ ticket' = "old"
    /\ UNCHANGED <<active, host, img, timer, failures, ready>>

FramesNext ==
    \/ Interval \/ onLoad \/ onError \/ NextFrame \/ RefetchTicket
    \/ hide \/ show \/ HostStops \/ HostStarts \/ TicketExpires

\* The browser fires its timers and loads, and the query its interval.
FramesFairness ==
    /\ WF_frameVars(Interval) /\ WF_frameVars(onLoad) /\ WF_frameVars(onError)
    /\ WF_frameVars(NextFrame) /\ WF_frameVars(RefetchTicket)

FramesSpec == FramesInit /\ [][FramesNext]_frameVars /\ FramesFairness

-----------------------------------------------------------------------------
\* Once the stage stays shown and the host stays up, frames come again and again,
\* whatever was hidden, interrupted or expired before: the loop never ends for
\* good (onLoad, onError, the interval of viewTicket).
FramesResume ==
    <>[](active /\ host) => []<>(ready /\ img = "loaded")
=============================================================================
