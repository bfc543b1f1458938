---------------------------- MODULE ControlClient ----------------------------
(***************************************************************************)
(* The operator's side of takeover: the control sections of the Computer   *)
(* stage (ui/web/src/features/computer/ComputerStage.tsx), of the private  *)
(* desktop (PrivateDesktop.tsx) and of the Studio terminal                 *)
(* (ui/web/src/routes/StudioRoutes.tsx), in several tabs on one resource.  *)
(*                                                                         *)
(* Every tab works from a cached copy of the lease that a poll replaces.   *)
(* The daemon's handlers are those of ControlLease, which has their detail *)
(* and their clock; here a lease just expires at some moment.              *)
(***************************************************************************)
EXTENDS Naturals

CONSTANTS
    Tabs, None,
    MaxRevision, MaxRequests  \* bounds

VARIABLES
    kind,       \* of the resource: "browser", "terminal" or "desktop"
    lease,      \* the daemon's row
    leases,     \* leases granted so far
    acting,     \* an automated action runs
    view,       \* per tab, control.data
    tickets,    \* per tab, the input tickets its query cache holds, by lease
    requests,   \* sent, not yet served
    sent,       \* requests sent so far
    effect      \* the last operator action admitted

controlVars == <<kind, lease, leases, acting, view, tickets, requests, sent, effect>>
leaseRow == <<kind, lease, leases, acting>>
Key(l) == [id |-> l.id, revision |-> l.revision]
Active(l) == l /= None /\ l.state = "active"
NoEffect == [lease |-> None, shown |-> None, boundary |-> TRUE]

ControlInit ==
    /\ kind \in {"browser", "terminal", "desktop"}
    /\ lease = [id |-> 0, state |-> "available", revision |-> 0] /\ leases = 0 /\ acting = FALSE
    /\ view = [t \in Tabs |-> None] /\ tickets = [t \in Tabs |-> {}]
    /\ requests = {} /\ sent = 0 /\ effect = NoEffect

-----------------------------------------------------------------------------
(* The tabs. *)

Poll(t) ==
    /\ view' = [view EXCEPT ![t] = lease] /\ view' /= view
    /\ UNCHANGED <<leaseRow, tickets, requests, sent, effect>>

Send(t, op, ticket) ==
    /\ view[t] /= None /\ sent < MaxRequests /\ sent' = sent + 1
    /\ requests' = requests \union
         {[id |-> sent', tab |-> t, op |-> op, lease |-> Key(view[t]), ticket |-> ticket]}
    /\ UNCHANGED <<leaseRow, view, tickets, effect>>

\* controlCommand, changeControl, runControl: Take control is offered while no
\* lease is shown active, Renew and Return control while one is.
controlCommand(t, op) ==
    /\ kind = "browser" /\ (op = "acquire" <=> ~Active(view[t])) /\ Send(t, op, None)
changeControl(t, op) ==
    /\ kind = "terminal" /\ (op = "acquire" <=> ~Active(view[t])) /\ Send(t, op, None)
runControl(t, op) ==
    /\ kind = "desktop" /\ (op = "acquire" <=> ~Active(view[t])) /\ Send(t, op, None)

\* Acting on a browser or a terminal names the lease shown.
browserControl(t) == kind = "browser" /\ Active(view[t]) /\ Send(t, "act", None)
terminalCommand(t) == kind = "terminal" /\ Active(view[t]) /\ Send(t, "act", None)

\* The input ticket is a query of its own, under the key of the lease shown.
inputTicket(t) ==
    /\ kind = "desktop" /\ Active(view[t]) /\ Key(view[t]) \notin tickets[t]
    /\ Send(t, "ticket", None)

\* Whatever ticket the tab has.
SendAnyTicket(t) ==
    /\ kind = "desktop" /\ Active(view[t])
    /\ \E ticket \in tickets[t] : Send(t, "act", ticket)
\* sendInput: the ticket cached for the lease shown; none, and nothing is sent.
sendInput(t) ==
    /\ kind = "desktop" /\ Active(view[t]) /\ Key(view[t]) \in tickets[t]
    /\ Send(t, "act", Key(view[t]))

\* The three places that show who has control, and what they offer.
Controls == {"acquire", "renew", "release"}
BrowserControl(t) == browserControl(t) \/ \E op \in Controls : controlCommand(t, op)
TerminalPanel(t) == terminalCommand(t) \/ \E op \in Controls : changeControl(t, op)
PrivateDesktop(t) == sendInput(t) \/ \E op \in Controls : runControl(t, op)

-----------------------------------------------------------------------------
(* The daemon. *)

\* After a change of control the tab reads the lease again, the desktop's when it
\* went well; after an input only the desktop's does, when it was refused.  The
\* answer may be lost.
Answered(r, ok) ==
    /\ requests' = requests \ {r} /\ UNCHANGED <<kind, sent>>
    /\ \/ UNCHANGED view
       \/ /\ IF r.op = "act" THEN kind = "desktop" /\ ~ok ELSE kind = "desktop" => ok
          /\ view' = [view EXCEPT ![r.tab] = lease']

Exact(r) == lease.state = "active" /\ r.lease = Key(lease)
Changed(to) == lease' = [lease EXCEPT !.state = to, !.revision = @ + 1]

Acquire(r) ==
    /\ r.op = "acquire" /\ ~acting /\ lease.state /= "active" /\ r.lease.revision = lease.revision
    /\ lease.revision < MaxRevision /\ leases' = leases + 1
    /\ lease' = [id |-> leases', state |-> "active", revision |-> lease.revision + 1]
    /\ Answered(r, TRUE) /\ UNCHANGED <<acting, tickets, effect>>
Renew(r) ==
    /\ r.op = "renew" /\ Exact(r) /\ lease.revision < MaxRevision /\ Changed("active")
    /\ Answered(r, TRUE) /\ UNCHANGED <<leases, acting, tickets, effect>>
Release(r) ==
    /\ r.op = "release" /\ Exact(r) /\ Changed("released")
    /\ Answered(r, TRUE) /\ UNCHANGED <<leases, acting, tickets, effect>>
IssueTicket(r) ==
    /\ r.op = "ticket" /\ Exact(r) /\ tickets' = [tickets EXCEPT ![r.tab] = @ \union {r.lease}]
    /\ requests' = requests \ {r} /\ UNCHANGED <<leaseRow, view, sent, effect>>
\* The desktop is acted on after this check without the lock: see ControlLease.
Act(r) ==
    /\ r.op = "act" /\ Exact([r EXCEPT !.lease = IF kind = "desktop" THEN r.ticket ELSE r.lease])
    /\ effect' = [lease |-> Key(lease), shown |-> r.lease, boundary |-> ~acting]
    /\ UNCHANGED <<lease, leases, acting, tickets>> /\ Answered(r, TRUE)
Refuse(r) == UNCHANGED <<lease, leases, acting, tickets, effect>> /\ Answered(r, FALSE)

Expire ==
    /\ lease.state = "active" /\ Changed("expired")
    /\ UNCHANGED <<kind, leases, acting, view, tickets, requests, sent, effect>>
\* An automated action begins only without a lease and ends at its boundary.
Automation ==
    /\ acting \/ lease.state /= "active"
    /\ acting' = ~acting /\ UNCHANGED <<kind, lease, leases, view, tickets, requests, sent, effect>>

ControlNext ==
    \/ Expire \/ Automation
    \/ \E t \in Tabs :
         Poll(t) \/ inputTicket(t) \/ BrowserControl(t) \/ TerminalPanel(t) \/ PrivateDesktop(t)
    \/ \E r \in requests : Acquire(r) \/ Renew(r) \/ Release(r) \/ IssueTicket(r) \/ Act(r) \/ Refuse(r)

ControlSpec == ControlInit /\ [][ControlNext]_controlVars

-----------------------------------------------------------------------------
\* Whatever a tab had on screen, an operator action is admitted only under the
\* very lease that was shown when it was sent, between automated actions; a tab's
\* copy is never ahead of the daemon and a copy of the current revision is the
\* current lease; every ticket a tab holds was bought for a lease that existed
\* (browserControl, terminalCommand, sendInput and the query keys of inputTicket).
ControlInv ==
    /\ effect.lease = effect.shown /\ effect.boundary
    /\ \A r \in requests : r.ticket /= None => r.ticket = r.lease
    /\ \A t \in Tabs :
         /\ view[t] /= None => /\ view[t].revision <= lease.revision
                               /\ view[t].revision = lease.revision => view[t] = lease
         /\ \A k \in tickets[t] : k.id \in 1 .. leases /\ k.revision \in 1 .. lease.revision
=============================================================================
