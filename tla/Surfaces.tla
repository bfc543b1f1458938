------------------------------ MODULE Surfaces ------------------------------
(* The pages SubsystemPage draws (ui/web/src/routes/SubsystemRoutes.tsx): a card *)
(* per operation, read through the query cache under the operation, the session *)
(* and the period chosen, and on the work page the controls of one supervised    *)
(* run (SupervisorRunView), whose commands reach Steer and Cancel of             *)
(* internal/work/supervisor.go while polls, other keys and the run itself go on. *)
EXTENDS Naturals

CONSTANTS Sessions, Periods, None, MaxTexts, MaxMounts, MaxFetches

VARIABLES path, at, run, cache, fetch, fetches, view, commands

surfaceVars == <<path, at, run, cache, fetch, fetches, view, commands>>

\* The key a query is cached under; this one forgets the session.
KeyWithoutSession(s, p) == [session |-> None, period |-> p]
queryKey(s, p) == [session |-> s, period |-> p]
Keys == {queryKey(s, p) : s \in Sessions, p \in Periods}
Here == queryKey(at.session, at.period)

surfaceState(card) ==
    IF card.error THEN "error"
    ELSE IF card.value = None THEN "pending"
    ELSE IF card.value.empty THEN "empty" ELSE "ready"
Card == surfaceState(cache[Here])
active(status) == status \notin {"cancelled", "completed"}

\* The run view is on the page while the card is ready; it starts afresh when
\* the card comes back after it was gone.
FreshView(mount) == [mount |-> mount, text |-> 0, pending |-> FALSE, error |-> FALSE]
Mounted == path = "/work" /\ Card = "ready"
Redrawn ==
    view' = IF path = "/work" /\ surfaceState(cache'[queryKey(at'.session, at'.period)]) = "ready" /\ ~Mounted
            THEN FreshView(view.mount + 1) ELSE view

SurfacesInit ==
    /\ path \in {"/work", "/since-away"}
    /\ at \in [session : Sessions, period : {"24h"}]
    /\ run = [status |-> "working", steering |-> {}]
    /\ cache = [k \in Keys |-> [value |-> None, error |-> FALSE]]
    /\ fetch = [k \in Keys |-> [on |-> k = Here, got |-> None]]
    /\ fetches = 1 /\ view = FreshView(0) /\ commands = {}

\* A query of a key already being read joins it; an invalidated key is read anew.
Asks(k, anew) ==
    IF fetch[k].on /\ ~anew THEN UNCHANGED <<fetch, fetches>>
    ELSE /\ fetches < MaxFetches /\ fetches' = fetches + 1
         /\ fetch' = [fetch EXCEPT ![k] = [on |-> TRUE, got |-> None]]
Moved(to) ==
    /\ to /= at /\ at' = to /\ view.mount < MaxMounts
    /\ Asks(queryKey(to.session, to.period), FALSE)
    /\ UNCHANGED <<path, run, cache, commands>> /\ Redrawn
setSession(s) == Moved([at EXCEPT !.session = s])
setContinuityPeriod(p) == path = "/since-away" /\ Moved([at EXCEPT !.period = p])
refetchInterval ==
    /\ path = "/work" /\ Asks(Here, FALSE)
    /\ UNCHANGED <<path, at, run, cache, view, commands>>

\* The daemon reads the list for the session the request names, and the answer,
\* or its error, lands in the cache under the key it was asked for.
Serve(k, s) ==
    /\ fetch[k].on /\ fetch[k].got = None /\ queryKey(s, k.period) = k
    /\ fetch' = [fetch EXCEPT ![k].got = [session |-> s, status |-> run.status, empty |-> FALSE]]
    /\ UNCHANGED <<path, at, run, cache, fetches, view, commands>>
Lands(k, card) ==
    /\ fetch[k].on /\ view.mount < MaxMounts
    /\ cache' = [cache EXCEPT ![k] = card]
    /\ fetch' = [fetch EXCEPT ![k] = [on |-> FALSE, got |-> None]]
    /\ UNCHANGED <<path, at, run, fetches, commands>> /\ Redrawn
Answered(k) == fetch[k].got /= None /\ Lands(k, [value |-> fetch[k].got, error |-> FALSE])
Unlisted(k) ==
    fetch[k].got /= None /\ Lands(k, [value |-> [fetch[k].got EXCEPT !.empty = TRUE], error |-> FALSE])
Unavailable(k) == Lands(k, [cache[k] EXCEPT !.error = TRUE])

\* SupervisorRunView: the field and the two buttons, shown while the run it was
\* given is active and disabled while a command of this view is pending.
setInstruction(n) ==
    /\ Mounted /\ active(cache[Here].value.status) /\ n /= view.text
    /\ view' = [view EXCEPT !.text = n]
    /\ UNCHANGED <<path, at, run, cache, fetch, fetches, commands>>
Command(op) ==
    /\ Mounted /\ active(cache[Here].value.status) /\ ~view.pending
    /\ op = "steer" => view.text /= 0
    /\ commands' = commands \union
         {[op |-> op, mount |-> view.mount, text |-> IF op = "steer" THEN view.text ELSE 0, key |-> Here, stage |-> "out"]}
    /\ view' = [view EXCEPT !.pending = TRUE, !.error = FALSE]
    /\ UNCHANGED <<path, at, run, cache, fetch, fetches>>

\* A command is out, then done by the server, then waits for the list.
Becomes(c, stage) == commands' = (commands \ {c}) \union {[c EXCEPT !.stage = stage]}
Steer(c) ==
    /\ c.op = "steer" /\ c.stage = "out" /\ active(run.status)
    /\ run' = [run EXCEPT !.steering = @ \union {c.text}] /\ Becomes(c, "done")
    /\ UNCHANGED <<path, at, cache, fetch, fetches, view>>
Cancel(c) ==
    /\ c.op = "cancel" /\ c.stage = "out" /\ active(run.status)
    /\ run' = [run EXCEPT !.status = "cancelled"] /\ Becomes(c, "done")
    /\ UNCHANGED <<path, at, cache, fetch, fetches, view>>
Complete ==
    /\ active(run.status) /\ run' = [run EXCEPT !.status = "completed"]
    /\ UNCHANGED <<path, at, cache, fetch, fetches, view, commands>>

\* The command's promise: a success invalidates the list and waits for it to be
\* read; an error, or a lost answer, is caught; either way the view is free again.
runSupervisorCommand(c) ==
    /\ c.stage = "done" /\ commands' = (commands \ {c}) \union {[c EXCEPT !.stage = "reading", !.key = Here]}
    /\ Asks(Here, TRUE) /\ UNCHANGED <<path, at, run, cache, view>>
Settled(c, seen) ==
    /\ view' = IF view.mount = c.mount THEN seen ELSE view
    /\ commands' = commands \ {c} /\ UNCHANGED <<path, at, run, cache, fetch, fetches>>
Succeeded(c) ==
    /\ c.stage = "reading" /\ ~fetch[c.key].on
    /\ Settled(c, [view EXCEPT !.pending = FALSE, !.text = IF c.op = "steer" THEN 0 ELSE @])
Failed(c) == c.stage \in {"out", "done"} /\ Settled(c, [view EXCEPT !.pending = FALSE, !.error = TRUE])

\* The card of a run that is not over.
SupervisorRunView ==
    \/ \E n \in 0..MaxTexts : setInstruction(n)
    \/ \E op \in {"steer", "cancel"} : Command(op)

SurfacesNext ==
    \/ refetchInterval \/ Complete
    \/ \E s \in Sessions : setSession(s)
    \/ \E p \in Periods : setContinuityPeriod(p)
    \/ \E k \in Keys : Answered(k) \/ Unlisted(k) \/ Unavailable(k) \/ \E s \in Sessions : Serve(k, s)
    \/ SupervisorRunView
    \/ \E c \in commands : Steer(c) \/ Cancel(c) \/ runSupervisorCommand(c) \/ Succeeded(c) \/ Failed(c)

SurfacesSpec == SurfacesInit /\ [][SurfacesNext]_surfaceVars

-----------------------------------------------------------------------------
SurfacesTypeOK ==
    /\ path \in {"/work", "/since-away"} /\ at \in [session : Sessions, period : Periods]
    /\ view \in [mount : 0..MaxMounts, text : 0..MaxTexts, pending : BOOLEAN, error : BOOLEAN]

\* However late an answer comes, a card shows what was asked for the session now
\* selected; the controls of a run are disabled exactly while a command of theirs is
\* out, whatever the card did meanwhile; the field is emptied only by guidance the
\* supervisor has recorded; and a run that ended takes no more guidance, however old
\* the card the operator pressed on (queryKey, SupervisorRunView, Steer, Cancel).
SurfacesSafe ==
    /\ []SurfacesTypeOK
    /\ [](cache[Here].value /= None => cache[Here].value.session = at.session)
    /\ [](view.pending <=> \E c \in commands : c.mount = view.mount)
    /\ [][view.mount = view'.mount /\ view.pending /\ ~view'.pending /\ view'.text /= view.text
            => \E c \in commands : c.mount = view.mount /\ c.text \in run.steering]_surfaceVars
    /\ [][~active(run.status) => run' = run]_surfaceVars
=============================================================================
