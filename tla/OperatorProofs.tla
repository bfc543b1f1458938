--------------------------- MODULE OperatorProofs ---------------------------
(***************************************************************************)
(* Proofs about what the operator decides and controls: approvals, the     *)
(* lease of a taken-over resource, a supervised browser workflow and the   *)
(* document editor, for any number of requests, tabs and sessions.         *)
(***************************************************************************)
EXTENDS ApprovalBroker, ControlClient, BrowserWorkflow, OfficeEditor, TLAPS

-----------------------------------------------------------------------------
(* The approval broker.  ProceedsOnlyIfApproved is not inductive: a buffered   *)
(* waiter could hold an approval the row does not record.  Broker adds what a  *)
(* response in progress and a buffered waiter say about the row.               *)

\* The row a has the decision d.
Records(a, d) == state[a] = "resolved" /\ decision[a] = d

\* A response past its update, and a decision in a waiter, are in the row; a
\* request that has returned approved has the row behind it.
Broker ==
    /\ TypeOK
    /\ respond # Idle => (respond.pc \in {"resolved", "published"} => Records(respond.approval, respond.decision))
    /\ \A a \in Approvals : waiters[a] \in Decisions => Records(a, waiters[a])
    /\ \A a \in Approvals : decision[a] # "none" => state[a] = "resolved"
    /\ \A a \in Approvals : state[a] = "resolved" => decision[a] # "none"
    /\ \A a \in Approvals : request[a] = "new" => state[a] = "none"
    /\ ProceedsOnlyIfApproved
    /\ OutcomeMatchesRow

\* Initially nothing is stored and nobody waits.
LEMMA BrokerInit == Init => Broker
  BY BrokerAssumption DEF Init, Broker, TypeOK, ProceedsOnlyIfApproved, OutcomeMatchesRow, Records,
     States, Decisions, Idle, Returned

\* Every step of a request, a response, the clock or a crash keeps Broker.
LEMMA BrokerStep == Broker /\ [Next]_vars => Broker'
<1> SUFFICES ASSUME Broker, [Next]_vars PROVE Broker'
  BY Zenon
<1> USE BrokerAssumption DEF Broker, TypeOK, ProceedsOnlyIfApproved, OutcomeMatchesRow, Records,
        States, Decisions, Returned, Running, Calls, Call, Idle, row
<1>1. ASSUME NEW a \in Approvals, insert(a) PROVE Broker'
  BY <1>1 DEF insert
<1>2. ASSUME NEW a \in Approvals, create(a) PROVE Broker'
  BY <1>2 DEF create
<1>3. ASSUME NEW a \in Approvals, register(a) PROVE Broker'
  BY <1>3 DEF register
<1>4. ASSUME NEW a \in Approvals, recheck(a) PROVE Broker'
  BY <1>4 DEF recheck, Rechecked
<1>5. ASSUME NEW a \in Approvals, receive(a) PROVE Broker'
  BY <1>5 DEF receive
<1>6. ASSUME NEW a \in Approvals, timer(a) PROVE Broker'
  BY <1>6 DEF timer
<1>7. ASSUME NEW a \in Approvals, expireRequest(a) PROVE Broker'
  BY <1>7 DEF expireRequest, expire
<1>8. ASSUME NEW a \in Approvals, cancel(a) PROVE Broker'
  BY <1>8 DEF cancel
<1>9. ASSUME NEW a \in Approvals, NEW d \in Decisions, respondRead(a, d) PROVE Broker'
  BY <1>9 DEF respondRead, expire
<1>10. ASSUME respondUpdate PROVE Broker'
  BY <1>10 DEF respondUpdate
<1>11. ASSUME respondEmit PROVE Broker'
  BY <1>11 DEF respondEmit
<1>12. ASSUME respondWake PROVE Broker'
  BY <1>12 DEF respondWake
<1>13. ASSUME Crash PROVE Broker'
  BY <1>13, Zenon DEF Crash
<1>14. ASSUME Tick PROVE Broker'
  BY <1>14 DEF Tick
<1>15. CASE UNCHANGED vars
  BY <1>15, Zenon DEF vars
<1> HIDE DEF Broker
<1> QED
  BY <1>1, <1>2, <1>3, <1>4, <1>5, <1>6, <1>7, <1>8, <1>9, <1>10, <1>11, <1>12, <1>13, <1>14, <1>15,
     Zenon DEF Next, Proceed

\* The invariant of the broker: its types, and what rows, waiters, responses
\* and events say about each other.
THEOREM BrokerCorrect == Spec => []Broker
  BY BrokerInit, BrokerStep, PTL DEF Spec

\* Request returns without an error only under a durable approval, and the
\* terminal events published by Respond and expire agree with the row.
THEOREM BrokerSafety == Spec => []BrokerInv
<1>1. Broker => BrokerInv
  BY Zenon DEF Broker, BrokerInv
<1> QED
  BY <1>1, BrokerCorrect, PTL

\* A row that is resolved or expired is never updated again, because both
\* updates are conditional on the pending state.
THEOREM Finality == Spec => DecisionIsFinal
<1> DEFINE Kept == \A a \in Approvals :
              state[a] \in {"resolved", "expired"} =>
                  state'[a] = state[a] /\ decision'[a] = decision[a]
<1>1. ASSUME Broker, [Next]_vars PROVE Kept
  <2> USE DEF Broker, TypeOK, row
  <2>1. ASSUME NEW b \in Approvals, insert(b) PROVE Kept
    BY <1>1, <2>1, Zenon DEF insert
  <2>2. ASSUME NEW b \in Approvals, expireRequest(b) PROVE Kept
    BY <1>1, <2>2, Zenon DEF expireRequest, expire
  <2>3. ASSUME NEW b \in Approvals, NEW d \in Decisions, respondRead(b, d) PROVE Kept
    BY <1>1, <2>3, Zenon DEF respondRead, expire
  <2>4. CASE respondUpdate
    BY <1>1, <2>4, Zenon DEF respondUpdate
  <2>5. CASE UNCHANGED <<state, decision>>
    BY <2>5, Zenon
  <2> QED
    BY <1>1, <2>1, <2>2, <2>3, <2>4, <2>5, Zenon
       DEF Next, Proceed, vars, create, register, recheck, receive, timer, cancel,
           respondEmit, respondWake, Crash, Tick
<1>2. Broker /\ [Next]_vars => [Kept]_vars
  BY <1>1, Zenon
<1> QED
  BY <1>2, BrokerCorrect, PTL DEF Spec, DecisionIsFinal

-----------------------------------------------------------------------------
(* The operator's side of takeover. *)

Keyed == [id : Nat, revision : Nat]
Lease == [id : Nat, state : {"available", "active", "released", "expired"}, revision : Nat]
Request == [id : Nat, tab : Tabs, op : Controls \union {"act", "ticket"}, lease : Keyed,
            ticket : Keyed \union {None}]

\* A copy in a tab is of this lease or of an earlier one.
Behind(v, l) == v /= None => v.revision <= l.revision /\ (v.revision = l.revision => v = l)

\* The daemon's row: an active lease has been granted, and nothing is automated
\* under it.
RowInv ==
    /\ lease \in Lease /\ leases \in Nat /\ acting \in BOOLEAN
    /\ kind \in {"browser", "terminal", "desktop"}
    /\ lease.state = "active" => /\ acting = FALSE
                                 /\ lease.id \in 1 .. leases /\ lease.revision \in 1 .. lease.revision

TabsInv ==
    /\ view \in [Tabs -> Lease \union {None}]
    /\ \A t \in Tabs : Behind(view[t], lease)

TicketsInv ==
    /\ tickets \in [Tabs -> SUBSET Keyed]
    /\ \A t \in Tabs : \A k \in tickets[t] : k.id \in 1 .. leases /\ k.revision \in 1 .. lease.revision

\* An input of the desktop carries the ticket of the lease it names.
RequestsInv ==
    /\ requests \in SUBSET Request /\ sent \in Nat
    /\ \A r \in requests : /\ r.ticket /= None => r.ticket = r.lease
                           /\ kind = "desktop" /\ r.op = "act" => r.ticket = r.lease

EffectInv == effect.lease = effect.shown /\ effect.boundary = TRUE

ControlIInv == RowInv /\ TabsInv /\ TicketsInv /\ RequestsInv /\ EffectInv

\* The key of a lease, and when two leases have the same.
LEMMA KeyOf ==
    ASSUME NEW l \in Lease
    PROVE  Key(l) \in Keyed /\ Key(l).id = l.id /\ Key(l).revision = l.revision
  BY Zenon DEF Key, Keyed, Lease

\* A tab that sends names the lease it shows (Send, from controlCommand, changeControl,
\* runControl, browserControl, terminalCommand, inputTicket and sendInput).
LEMMA Sending ==
    ASSUME NEW t \in Tabs, NEW op \in Controls \union {"act", "ticket"},
           NEW ticket \in {None, Key(view[t])},
           kind = "desktop" /\ op = "act" => ticket = Key(view[t]),
           ControlIInv, Send(t, op, ticket)
    PROVE  ControlIInv'
<1>1. view[t] \in Lease /\ sent' \in Nat
  BY DEF ControlIInv, TabsInv, RequestsInv, Send
<1> DEFINE r == [id |-> sent', tab |-> t, op |-> op, lease |-> Key(view[t]), ticket |-> ticket]
<1>2. r \in Request /\ r.ticket \in {None, r.lease} /\ r.op = op /\ r.ticket = ticket /\ r.lease = Key(view[t])
  BY <1>1, KeyOf, Zenon DEF Request
<1>3. requests' = requests \union {r} /\ kind' = kind
  BY Zenon DEF Send, leaseRow
<1> HIDE DEF r
<1>4. RequestsInv'
  BY <1>1, <1>2, <1>3, Zenon DEF ControlIInv, RequestsInv
<1> QED
  BY <1>4, Zenon
     DEF ControlIInv, RowInv, TabsInv, TicketsInv, EffectInv, Send, leaseRow

\* The lease goes on, or changes under a higher revision.
Later == lease' \in Lease /\ lease'.revision >= lease.revision /\ (lease'.revision = lease.revision => lease' = lease)

\* An answer leaves the requests that are still out, and a tab that reads the lease
\* again has the newest (Answered).
LEMMA Answering ==
    ASSUME NEW r \in requests, NEW ok \in BOOLEAN, ControlIInv, Later, Answered(r, ok)
    PROVE  TabsInv' /\ RequestsInv' /\ kind' = kind
<1>1. RequestsInv' /\ kind' = kind
  BY Zenon DEF ControlIInv, RequestsInv, Answered
<1>2. r.tab \in Tabs
  BY Zenon DEF ControlIInv, RequestsInv, Request
<1>3. view' = view \/ view' = [view EXCEPT ![r.tab] = lease']
  BY Zenon DEF Answered
<1>4. lease \in Lease /\ lease.revision \in Nat /\ lease'.revision \in Nat
  BY Zenon DEF ControlIInv, RowInv, Later, Lease
<1>5. view' \in [Tabs -> Lease \union {None}]
  BY <1>2, <1>3, Zenon DEF ControlIInv, TabsInv, Later
<1>6. ASSUME NEW t \in Tabs PROVE Behind(view'[t], lease')
  <2>1. view'[t] = lease' \/ view'[t] = view[t]
    BY <1>2, <1>3, Zenon DEF ControlIInv, TabsInv
  <2>2. CASE view'[t] = lease'
    BY <1>4, <2>2 DEF Behind
  <2>3. CASE view'[t] = view[t] /\ view[t] /= None
    <3>1. view[t].revision \in Nat /\ Behind(view[t], lease)
      BY <2>3, Zenon DEF ControlIInv, TabsInv, Lease
    <3> QED
      BY <1>4, <2>3, <3>1 DEF Behind, Later
  <2>4. CASE view'[t] = None
    BY <2>4, Zenon DEF Behind
  <2> QED
    BY <2>1, <2>2, <2>3, <2>4, Zenon
<1> QED
  BY <1>1, <1>5, <1>6, Zenon DEF TabsInv

\* A ticket stays one for a lease that existed.
LEMMA TicketsStay ==
    ASSUME ControlIInv, Later, leases' \in Nat, leases' >= leases, UNCHANGED tickets
    PROVE  TicketsInv'
<1>1. ASSUME NEW t \in Tabs, NEW k \in tickets[t]
      PROVE  k.id \in 1 .. leases' /\ k.revision \in 1 .. lease'.revision
  <2>1. /\ k.id \in 1 .. leases /\ k.revision \in 1 .. lease.revision
        /\ lease.revision \in Nat /\ lease'.revision \in Nat /\ leases \in Nat
    BY Zenon DEF ControlIInv, TicketsInv, RowInv, Later, Lease
  <2> QED
    BY <2>1 DEF Later
<1> QED
  BY <1>1, Zenon DEF ControlIInv, TicketsInv

\* A new state of the lease, under the next revision (Renew, Release, Expire).
LEMMA Changing ==
    ASSUME NEW to \in {"active", "released", "expired"}, ControlIInv, lease.state = "active",
           Changed(to), leases' = leases, acting' = acting, kind' = kind
    PROVE  Later /\ RowInv'
<1>1. lease \in Lease /\ lease.revision \in Nat /\ lease.id \in Nat
  BY Zenon DEF ControlIInv, RowInv, Lease
<1>2. lease' = [id |-> lease.id, state |-> to, revision |-> lease.revision + 1]
  BY <1>1, Zenon DEF Changed, Lease
<1>3. lease' \in Lease /\ lease'.id = lease.id /\ lease'.revision = lease.revision + 1
  BY <1>1, <1>2 DEF Lease
<1>4. Later
  BY <1>1, <1>3 DEF Later
<1>5. lease'.revision \in 1 .. lease'.revision
  BY <1>1, <1>3
<1> QED
  BY <1>3, <1>4, <1>5, Zenon DEF ControlIInv, RowInv

\* What the daemon does with a request keeps the invariant (Acquire, Renew, Release,
\* DesktopTicket, the actions of the three resources, and a refusal).
LEMMA Serving ==
    ASSUME ControlIInv, NEW r \in requests,
           Acquire(r) \/ Renew(r) \/ Release(r) \/ IssueTicket(r) \/ Act(r) \/ Refuse(r)
    PROVE  ControlIInv'
<1>1. /\ r \in Request /\ r.lease \in Keyed /\ r.tab \in Tabs
      /\ kind = "desktop" /\ r.op = "act" => r.ticket = r.lease
  BY Zenon DEF ControlIInv, RequestsInv, Request
<1>2. lease \in Lease /\ lease.revision \in Nat /\ lease.id \in Nat /\ leases \in Nat
  BY Zenon DEF ControlIInv, RowInv, Lease
<1>3. CASE Acquire(r)
  <2>1. /\ leases' = leases + 1 /\ acting = FALSE /\ acting' = acting
        /\ lease' = [id |-> leases + 1, state |-> "active", revision |-> lease.revision + 1]
    BY <1>3, Zenon DEF Acquire, ControlIInv, RowInv
  <2>2. /\ lease' \in Lease /\ lease'.id = leases + 1 /\ lease'.revision = lease.revision + 1
    BY <1>2, <2>1 DEF Lease
  <2>3. Later
    BY <1>2, <2>2 DEF Later
  <2>4. TabsInv' /\ RequestsInv' /\ kind' = kind
    BY <1>3, <2>3, Answering, Zenon DEF Acquire
  <2>5. leases' \in Nat /\ leases' >= leases /\ lease'.id \in 1 .. leases' /\ lease'.revision \in 1 .. lease'.revision
    BY <1>2, <2>1, <2>2
  <2>6. RowInv'
    BY <2>1, <2>2, <2>4, <2>5, Zenon DEF ControlIInv, RowInv
  <2>7. TicketsInv'
    BY <1>3, <2>3, <2>5, TicketsStay, Zenon DEF Acquire
  <2> QED
    BY <1>3, <2>4, <2>6, <2>7, Zenon DEF Acquire, ControlIInv, EffectInv
<1>4. ASSUME NEW to \in {"active", "released"}, lease.state = "active", Changed(to),
             Answered(r, TRUE), UNCHANGED <<leases, acting, tickets, effect>>
      PROVE  ControlIInv'
  <2>1. kind' = kind
    BY <1>4, Zenon DEF Answered
  <2>2. Later /\ RowInv'
    BY <1>4, <2>1, Changing, Zenon
  <2>3. TabsInv' /\ RequestsInv'
    BY <1>4, <2>2, Answering, Zenon
  <2>4. TicketsInv'
    BY <1>2, <1>4, <2>2, TicketsStay
  <2> QED
    BY <1>4, <2>2, <2>3, <2>4, Zenon DEF ControlIInv, EffectInv
<1>5. CASE Renew(r) \/ Release(r)
  BY <1>4, <1>5, Zenon DEF Renew, Release, Exact
<1>6. CASE IssueTicket(r)
  <2>1. /\ r.lease.id \in 1 .. leases /\ r.lease.revision \in 1 .. lease.revision
    BY <1>2, <1>6, KeyOf, Zenon DEF IssueTicket, Exact, ControlIInv, RowInv
  <2>2. TicketsInv'
    BY <1>1, <1>6, <2>1, Zenon
       DEF IssueTicket, ControlIInv, TicketsInv, leaseRow
  <2> QED
    BY <1>6, <2>2, Zenon
       DEF IssueTicket, ControlIInv, RowInv, TabsInv, RequestsInv, EffectInv, leaseRow
<1>7. CASE UNCHANGED <<lease, leases, acting, tickets>> /\ EffectInv' /\ \E ok \in BOOLEAN : Answered(r, ok)
  <2>1. Later
    BY <1>2, <1>7 DEF Later
  <2>2. TabsInv' /\ RequestsInv' /\ kind' = kind
    BY <1>7, <2>1, Answering, Zenon
  <2>3. TicketsInv'
    BY <1>2, <1>7, <2>1, TicketsStay
  <2> QED
    BY <1>7, <2>2, <2>3, Zenon DEF ControlIInv, RowInv
<1>8. CASE Act(r)
  <2> DEFINE named == IF kind = "desktop" THEN r.ticket ELSE r.lease
  <2>1. named = r.lease
    BY <1>1, <1>8, Zenon DEF Act
  <2>2. [r EXCEPT !.lease = named].lease = named
    BY <1>1, Zenon DEF Request
  <2>3. lease.state = "active" /\ r.lease = Key(lease)
    BY <1>8, <2>1, <2>2, Zenon DEF Act, Exact
  <2>4. acting = FALSE
    BY <2>3, Zenon DEF ControlIInv, RowInv
  <2>5. EffectInv'
    BY <1>8, <2>3, <2>4, Zenon DEF Act, EffectInv
  <2> QED
    BY <1>7, <1>8, <2>5, Zenon DEF Act
<1>9. CASE Refuse(r)
  BY <1>7, <1>9, Zenon DEF Refuse, ControlIInv, EffectInv
<1> QED
  BY <1>3, <1>5, <1>6, <1>8, <1>9, Zenon

\* Every step of a tab, of the daemon, of the clock and of the agent keeps it.
LEMMA ControlStep == ControlIInv /\ [ControlNext]_controlVars => ControlIInv'
<1> SUFFICES ASSUME ControlIInv, [ControlNext]_controlVars PROVE ControlIInv'
  BY Zenon
<1>1. CASE Expire
  <2>1. Later /\ RowInv'
    BY <1>1, Changing, Zenon DEF Expire
  <2> leases' = leases /\ leases \in Nat /\ tickets' = tickets
    BY <1>1, Zenon DEF Expire, ControlIInv, RowInv
  <2>0. leases' \in Nat /\ leases' >= leases
    OBVIOUS
  <2>2. TicketsInv'
    BY <2>0, <2>1, TicketsStay, Zenon
  <2>3. ASSUME NEW t \in Tabs, view[t] /= None PROVE Behind(view[t], lease')
    <3>1. view[t].revision \in Nat /\ Behind(view[t], lease) /\ lease.revision \in Nat /\ lease'.revision \in Nat
      BY <2>1, <2>3, Zenon DEF ControlIInv, TabsInv, RowInv, Lease, Later
    <3> QED
      BY <2>1, <2>3, <3>1 DEF Behind, Later
  <2>4. TabsInv'
    BY <1>1, <2>3, Zenon DEF Expire, ControlIInv, TabsInv, Behind
  <2> QED
    BY <1>1, <2>1, <2>2, <2>4, Zenon
       DEF Expire, ControlIInv, RequestsInv, EffectInv
<1>2. CASE Automation
  <2>1. RowInv'
    BY <1>2, Zenon DEF Automation, ControlIInv, RowInv
  <2> QED
    BY <1>2, <2>1, Zenon
       DEF Automation, ControlIInv, TabsInv, TicketsInv, RequestsInv, EffectInv
<1>3. ASSUME NEW t \in Tabs, Poll(t) PROVE ControlIInv'
  <2>1. lease \in Lease /\ lease.revision \in Nat
    BY Zenon DEF ControlIInv, RowInv, Lease
  <2>2. TabsInv'
    BY <1>3, <2>1 DEF Poll, ControlIInv, TabsInv, Behind, leaseRow
  <2> QED
    BY <1>3, <2>2, Zenon
       DEF Poll, ControlIInv, RowInv, TicketsInv, RequestsInv, EffectInv, leaseRow
<1>4. ASSUME NEW t \in Tabs, inputTicket(t) \/ BrowserControl(t) \/ TerminalPanel(t) \/ PrivateDesktop(t)
      PROVE  ControlIInv'
  BY <1>4, Sending, Zenon
     DEF inputTicket, BrowserControl, TerminalPanel, PrivateDesktop, browserControl, terminalCommand,
         sendInput, controlCommand, changeControl, runControl, Controls
<1>5. CASE \E r \in requests : Acquire(r) \/ Renew(r) \/ Release(r) \/ IssueTicket(r) \/ Act(r) \/ Refuse(r)
  BY <1>5, Serving, Zenon
<1>6. CASE UNCHANGED controlVars
  BY <1>6, Zenon
     DEF controlVars, ControlIInv, RowInv, TabsInv, TicketsInv, RequestsInv, EffectInv
<1> QED
  BY <1>1, <1>2, <1>3, <1>4, <1>5, <1>6, Zenon DEF ControlNext

\* In any number of tabs, an operator action reaches the resource only under the very
\* lease that was shown when it was sent, and never while an automated action runs
\* (browserControl, terminalCommand, sendInput).
THEOREM ControlSafety == ControlSpec => []ControlInv
<1>1. ASSUME ControlInit PROVE ControlIInv
  <2>1. RowInv
    BY <1>1, Zenon DEF ControlInit, RowInv, Lease
  <2>2. TabsInv
    BY <1>1, Zenon DEF ControlInit, TabsInv, Behind
  <2>3. TicketsInv /\ RequestsInv
    BY <1>1, Zenon DEF ControlInit, TicketsInv, RequestsInv
  <2>4. EffectInv
    BY <1>1, Zenon DEF ControlInit, EffectInv, NoEffect
  <2> QED
    BY <2>1, <2>2, <2>3, <2>4, Zenon DEF ControlIInv
<1>2. ControlIInv => ControlInv
  BY Zenon
     DEF ControlIInv, ControlInv, TabsInv, TicketsInv, RequestsInv, EffectInv, Behind
<1> QED
  BY <1>1, <1>2, ControlStep, PTL DEF ControlSpec

-----------------------------------------------------------------------------
(* The supervised browser workflow. *)

Statuses == Live \union {"restart_required", "cancelled"}
Workflows == [status : Statuses, handoff : BOOLEAN, revision : Nat]
Asks(w) == w.handoff <=> w.status = "waiting_for_human"

\* A restart forgets the calls that were under way and none is admitted before the
\* workflow is live again: that keeps the emptied browser closed.
WorkflowInv ==
    /\ workflow \in Workflows /\ saved \in Workflows /\ restarts \in Nat
    /\ Asks(workflow) /\ Asks(saved)
    /\ restarts > 0 =>
         /\ page = FALSE /\ looking = {}
         /\ workflow.status \in {"restart_required", "cancelled"}
         /\ saved.status \in {"restart_required", "cancelled"}

\* What one step may do to a workflow.
Step ==
    /\ workflow' /= workflow /\ restarts' = restarts => workflow'.revision = workflow.revision + 1
    /\ SavedCancelled /\ ~Resuming => SavedCancelled' /\ ~Resuming'

\* What is stored satisfies the same conditions as what was there.
LEMMA Stored ==
    ASSUME WorkflowInv, NEW w \in Workflows, Asks(w), Store(w), w.revision = workflow.revision + 1,
           restarts' = restarts
    PROVE  /\ workflow' \in Workflows /\ saved' \in Workflows /\ restarts' \in Nat
           /\ Asks(workflow)' /\ Asks(saved)'
           /\ workflow'.revision = workflow.revision + 1
           /\ workflow' = w /\ saved' \in {w, saved}
BY Zenon DEF WorkflowInv, Store, Asks

\* A transition leaves a workflow with or without a question, and a cancelled one alone.
LEMMA Transitions ==
    ASSUME WorkflowInv, NEW r, NEW op, NEW from, NEW to \in Statuses, NEW handoff \in BOOLEAN,
           handoff <=> to = "waiting_for_human", "cancelled" \notin from,
           restarts > 0 => from \intersect {"restart_required"} = {} \/ to = "cancelled",
           from \subseteq Statuses, restarts > 0 => page' = FALSE,
           transition(r, op, from, to, handoff)
    PROVE  WorkflowInv' /\ Step
<1> DEFINE w == [status |-> to, handoff |-> handoff, revision |-> workflow.revision + 1]
<1>1. workflow.revision + 1 \in Nat
  BY DEF WorkflowInv, Workflows
<1>2. w \in Workflows /\ Asks(w) /\ w.revision = workflow.revision + 1 /\ w.status = to
  BY <1>1, Zenon DEF Workflows, Asks
<1>3. Store(w) /\ workflow.status \in from /\ looking' = looking /\ restarts' = restarts
  BY Zenon DEF transition, Served, Answer
<1> HIDE DEF w
<1>4. /\ workflow' \in Workflows /\ saved' \in Workflows /\ restarts' \in Nat
      /\ Asks(workflow)' /\ Asks(saved)'
      /\ workflow'.revision = workflow.revision + 1
      /\ workflow' = w /\ saved' \in {w, saved}
  BY <1>2, <1>3, Stored, Zenon
<1>5. ASSUME restarts' > 0
      PROVE  /\ page' = FALSE /\ looking' = {}
             /\ workflow'.status \in {"restart_required", "cancelled"}
             /\ saved'.status \in {"restart_required", "cancelled"}
  <2>1. restarts > 0 /\ page' = FALSE /\ looking' = {}
    BY <1>3, <1>5, Zenon DEF WorkflowInv
  <2>2. to = "cancelled"
    BY <1>3, <2>1, Zenon DEF WorkflowInv
  <2> QED
    BY <1>2, <1>4, <2>1, <2>2, Zenon DEF WorkflowInv
<1>6. ~SavedCancelled
  BY <1>3, Zenon DEF SavedCancelled
<1> QED
  BY <1>3, <1>4, <1>5, <1>6, Zenon DEF WorkflowInv, Step

\* A call that looks is admitted in a live status only, and its op does not change.
LEMMA Looks ==
    ASSUME WorkflowInv, NEW r \in looking, Continue(r)
    PROVE  WorkflowInv' /\ Step
<1>1. restarts' = restarts /\ ~(restarts > 0)
  BY Zenon DEF WorkflowInv, Continue, Look, LookFailed, updatePreview, Resume, Answer
<1>2. workflow.revision + 1 \in Nat
  BY DEF WorkflowInv, Workflows
<1>3. CASE Look(r)
  <2>1. UNCHANGED <<workflow, saved>> /\ \A q \in looking' : q \in looking \/ q = [r EXCEPT !.looked = TRUE]
    BY <1>3, Zenon DEF Look
  <2>2. ASSUME NEW q \in looking', q.op = "resume" PROVE Resuming
    <3>1. CASE q \in looking
      BY <2>2, <3>1, Zenon DEF Resuming
    <3>2. CASE q = [r EXCEPT !.looked = TRUE]
      <4>1. [r EXCEPT !.looked = TRUE].op = r.op
        OBVIOUS
      <4> QED BY <2>2, <3>2, <4>1, Zenon DEF Resuming
    <3> QED BY <2>1, <3>1, <3>2, Zenon
  <2> QED
    BY <1>1, <2>1, <2>2, Zenon DEF WorkflowInv, Step, Asks, SavedCancelled, Resuming
<1>4. CASE LookFailed(r)
  BY <1>1, <1>4, Zenon DEF LookFailed, WorkflowInv, Step, Asks, SavedCancelled, Resuming
<1>5. CASE updatePreview(r)
  <2> DEFINE w == [workflow EXCEPT !.revision = workflow.revision + 1]
  <2>1. w \in Workflows /\ Asks(w) /\ w.revision = workflow.revision + 1 /\ w.status = workflow.status
    BY <1>2 DEF WorkflowInv, Workflows, Asks
  <2>2. Store(w) /\ looking' = looking \ {r}
    BY <1>5, Zenon DEF updatePreview
  <2> HIDE DEF w
  <2>3. /\ workflow' \in Workflows /\ saved' \in Workflows /\ restarts' \in Nat
        /\ Asks(workflow)' /\ Asks(saved)'
        /\ workflow'.revision = workflow.revision + 1
        /\ workflow' = w /\ saved' \in {w, saved}
    BY <1>1, <2>1, <2>2, Stored, Zenon
  <2> QED
    BY <1>1, <2>1, <2>2, <2>3, Zenon DEF WorkflowInv, Step, SavedCancelled, Resuming
<1>6. CASE Resume(r)
  <2> DEFINE w == [status |-> "active", handoff |-> FALSE, revision |-> workflow.revision + 1]
  <2>1. w \in Workflows /\ Asks(w) /\ w.revision = workflow.revision + 1
    BY <1>2, Zenon DEF Workflows, Asks, Statuses, Live
  <2>2. Store(w) /\ r.op = "resume"
    BY <1>6, Zenon DEF Resume
  <2> HIDE DEF w
  <2>3. /\ workflow' \in Workflows /\ saved' \in Workflows /\ restarts' \in Nat
        /\ Asks(workflow)' /\ Asks(saved)'
        /\ workflow'.revision = workflow.revision + 1
        /\ workflow' = w /\ saved' \in {w, saved}
    BY <1>1, <2>1, <2>2, Stored, Zenon
  <2> QED
    BY <1>1, <2>2, <2>3, Zenon DEF WorkflowInv, Step, Resuming
<1> QED
  BY <1>3, <1>4, <1>5, <1>6, Zenon DEF Continue

\* Every handler keeps the invariant and takes an allowed step.
LEMMA WorkflowStep ==
    ASSUME WorkflowInv, [WorkflowNext]_workflowVars
    PROVE  WorkflowInv' /\ Step
<1> USE DEF Statuses, Live
<1>1. CASE Restart
  <2>1. workflow' = Reconciled(saved) /\ saved' = workflow' /\ page' = FALSE /\ looking' = {} /\ restarts' = restarts + 1
    BY <1>1, Zenon DEF Restart
  <2>2. /\ Reconciled(saved) \in Workflows /\ Asks(Reconciled(saved))
        /\ Reconciled(saved).status \in {"restart_required", "cancelled"}
        /\ saved.status = "cancelled" => Reconciled(saved).status = "cancelled"
    BY DEF WorkflowInv, Reconciled, Workflows, Asks
  <2>3. restarts' \in Nat /\ restarts' /= restarts
    BY <2>1 DEF WorkflowInv
  <2> QED
    BY <2>1, <2>2, <2>3, Zenon DEF WorkflowInv, Step, Asks, SavedCancelled, Resuming
<1>2. ASSUME NEW t \in FlowTabs, PollWorkflow(t) PROVE WorkflowInv' /\ Step
  BY <1>2, Zenon DEF PollWorkflow, WorkflowInv, Step, Asks, SavedCancelled, Resuming
<1>3. ASSUME NEW by, NEW op, Command(by, op) PROVE WorkflowInv' /\ Step
  BY <1>3, Zenon DEF Command, WorkflowInv, Step, Asks, SavedCancelled, Resuming
<1>4. ASSUME NEW r \in commands, Pause(r) PROVE WorkflowInv' /\ Step
  <2>1. restarts > 0 => page' = FALSE
    BY <1>4, Zenon DEF Pause, WorkflowInv
  <2>2. /\ "cancelled" \notin {"active"} /\ {"active"} \subseteq Statuses /\ "paused" \in Statuses
        /\ FALSE <=> "paused" = "waiting_for_human"
        /\ {"active"} \intersect {"restart_required"} = {} \/ "paused" = "cancelled"
    OBVIOUS
  <2> QED
    BY <1>4, <2>1, <2>2, Transitions, Zenon DEF Pause
<1>5. ASSUME NEW r \in commands, RequestHandoff(r) PROVE WorkflowInv' /\ Step
  <2>1. restarts > 0 => page' = FALSE
    BY <1>5, Zenon DEF RequestHandoff, WorkflowInv
  <2>2. /\ "cancelled" \notin {"active"} /\ {"active"} \subseteq Statuses /\ "waiting_for_human" \in Statuses
        /\ TRUE <=> "waiting_for_human" = "waiting_for_human"
        /\ {"active"} \intersect {"restart_required"} = {} \/ "waiting_for_human" = "cancelled"
    OBVIOUS
  <2> QED
    BY <1>5, <2>1, <2>2, Transitions, Zenon DEF RequestHandoff
<1>6. ASSUME NEW r \in commands, Cancel(r) PROVE WorkflowInv' /\ Step
  <2>1. restarts > 0 => page' = FALSE
    BY <1>6, Zenon DEF Cancel, WorkflowInv
  <2>2. /\ "cancelled" \notin Live \union {"restart_required"} /\ (Live \union {"restart_required"}) \subseteq Statuses /\ "cancelled" \in Statuses
        /\ FALSE <=> "cancelled" = "waiting_for_human"
        /\ (Live \union {"restart_required"}) \intersect {"restart_required"} = {} \/ "cancelled" = "cancelled"
    OBVIOUS
  <2> QED
    BY <1>6, <2>1, <2>2, Transitions, Zenon DEF Cancel
<1>7. ASSUME NEW r \in commands, RefuseCommand(r) PROVE WorkflowInv' /\ Step
  BY <1>7, Zenon DEF RefuseCommand, Served, Answer, WorkflowInv, Step, Asks, SavedCancelled, Resuming
<1>8. ASSUME NEW r \in commands, Check(r) PROVE WorkflowInv' /\ Step
  <2>1. workflow.status \in {"active", "paused", "waiting_for_human"}
    BY <1>8, Zenon DEF Check, Admitted
  <2>2. UNCHANGED <<workflow, saved, page, restarts>>
    BY <1>8, Zenon DEF Check
  <2> QED
    BY <2>1, <2>2, Zenon DEF WorkflowInv, Step, Asks, SavedCancelled
<1>9. ASSUME NEW r \in looking, Continue(r) PROVE WorkflowInv' /\ Step
  BY <1>9, Looks, Zenon
<1>10. CASE UNCHANGED workflowVars
  BY <1>10, Zenon DEF workflowVars, WorkflowInv, Step, Asks, SavedCancelled, Resuming
<1> QED
  BY <1>1, <1>2, <1>3, <1>4, <1>5, <1>6, <1>7, <1>8, <1>9, <1>10, Zenon
     DEF WorkflowNext, Serve, workflowCommand, agentCall

\* In any number of tabs, with any calls of the agent, failing saves and restarts: a
\* question to the human is on record exactly while the workflow waits for one, every
\* change between restarts takes the next revision, after a restart nothing works on
\* the emptied browser, and a cancellation that is saved while no Resume is under way
\* stands for good (transition, updatePreview, Resume, reconcileRestartLocked).
THEOREM WorkflowSafety == WorkflowSpec => WorkflowSteps
<1>1. WorkflowInit => WorkflowInv
  BY DEF WorkflowInit, WorkflowInv, Workflows, Asks, Statuses, Live
<1>2. WorkflowInv /\ [WorkflowNext]_workflowVars => WorkflowInv'
  BY WorkflowStep, Zenon
<1>3. WorkflowInv /\ [WorkflowNext]_workflowVars =>
        [workflow' /= workflow /\ restarts' = restarts => workflow'.revision = workflow.revision + 1]_workflowVars
  BY WorkflowStep, Zenon DEF Step
<1>4. WorkflowInv /\ [WorkflowNext]_workflowVars =>
        [SavedCancelled /\ ~Resuming => SavedCancelled' /\ ~Resuming']_workflowVars
  BY WorkflowStep, Zenon DEF Step
<1>5. WorkflowInv => \A w \in {workflow, saved} : w.handoff <=> w.status = "waiting_for_human"
  BY Zenon DEF WorkflowInv, Asks
<1>6. WorkflowInv =>
        (restarts > 0 => ~page /\ looking = {} /\ workflow.status \in {"restart_required", "cancelled"})
  BY Zenon DEF WorkflowInv
<1> QED
  BY <1>1, <1>2, <1>3, <1>4, <1>5, <1>6, PTL DEF WorkflowSpec, WorkflowSteps

-----------------------------------------------------------------------------
(* The document editor. *)

Mount == [session : Sessions \union {NoSession}, cancelled : BOOLEAN]

\* Without the script nothing has been mounted for the session shown, so that the
\* script's arrival finds neither an editor nor a mount under way.
EditorInv ==
    /\ OneEditor /\ clearing \subseteq Mount /\ session \in Sessions \union {NoSession}
    /\ script \in {"absent", "loading", "ready", "failed"} /\ waiting \in BOOLEAN
    /\ script # "ready" => live = {} /\ \A m \in clearing : m.cancelled
    /\ session = NoSession => \A m \in clearing : m.cancelled

\* What Mounts adds.
LEMMA MountOf ==
    ASSUME NEW s \in Sessions \union {NoSession}, NEW m \in Mounts(s)
    PROVE  m \in Mount /\ m.session = s /\ m.cancelled = FALSE
<1>1. m = [session |-> s, cancelled |-> FALSE]
  BY Zenon DEF Mounts
<1> QED
  BY <1>1, Zenon DEF Mount

\* Moving to another session, or to none, cancels the mounts that are under way and
\* destroys the editor (the cleanup of the effect of OnlyOfficeEditor).
LEMMA Moved ==
    ASSUME NEW s \in Sessions \union {NoSession}, EditorInv, OnlyOfficeEditor(s)
    PROVE  EditorInv'
<1>1. /\ session' = s /\ live' = {} /\ waiting' = (s # NoSession /\ script # "ready")
      /\ clearing' = Cancelled \union (IF s # NoSession /\ script = "ready" THEN Mounts(s) ELSE {})
      /\ script' = IF s # NoSession /\ script = "absent" THEN "loading" ELSE script
  BY Zenon DEF OnlyOfficeEditor, Remount
<1>2. \A m \in Cancelled : m \in Mount /\ m.cancelled
  <2> SUFFICES ASSUME NEW n \in clearing
               PROVE  [n EXCEPT !.cancelled = TRUE] \in Mount /\ [n EXCEPT !.cancelled = TRUE].cancelled
    BY Zenon DEF Cancelled
  <2>1. n \in Mount
    BY Zenon DEF EditorInv
  <2> QED
    BY <2>1, Zenon DEF Mount
<1>3. \A m \in Mounts(s) : m \in Mount /\ m.session = s /\ m.cancelled = FALSE
  BY MountOf, Zenon
<1>4. \A m \in clearing' : /\ m \in Mount
                           /\ m.cancelled \/ (m.session = s /\ s # NoSession /\ script = "ready")
  BY <1>1, <1>2, <1>3, Zenon
<1>5. script' = "ready" <=> script = "ready"
  BY <1>1, Zenon
<1>6. script' \in {"absent", "loading", "ready", "failed"} /\ (waiting' => script' \in {"loading", "failed"})
  BY <1>1, Zenon DEF EditorInv
<1> QED
  BY <1>1, <1>4, <1>5, <1>6, Zenon DEF EditorInv, OneEditor

\* The script's arrival mounts the session shown, if its effect waits for it.
LEMMA Loaded ==
    ASSUME EditorInv, loaded
    PROVE  EditorInv'
<1>1. /\ script' = "ready" /\ waiting' = FALSE /\ session' = session /\ live' = live /\ script = "loading"
      /\ clearing' = IF waiting THEN clearing \union Mounts(session) ELSE clearing
  BY Zenon DEF loaded
<1>2. \A m \in Mounts(session) : m \in Mount /\ m.session = session /\ m.cancelled = FALSE
  <2>1. session \in Sessions \union {NoSession}
    BY Zenon DEF EditorInv
  <2> QED
    BY <2>1, MountOf, Zenon
<1>3. live = {} /\ \A m \in clearing : m \in Mount /\ m.cancelled
  BY <1>1, Zenon DEF EditorInv
<1>4. waiting => session # NoSession
  BY Zenon DEF EditorInv, OneEditor
<1>5. \A m \in clearing' : m \in Mount /\ (m.cancelled \/ (m.session = session /\ waiting))
  BY <1>1, <1>2, <1>3, Zenon
<1> QED
  BY <1>1, <1>3, <1>4, <1>5, Zenon DEF EditorInv, OneEditor

\* A mount that was not cancelled is the only one of its kind, and constructs the
\* editor of the session shown (mount).
LEMMA Mounted ==
    ASSUME NEW m \in clearing, EditorInv, mount(m)
    PROVE  EditorInv'
<1>1. /\ clearing' = clearing \ {m} /\ session' = session /\ script' = script /\ waiting' = waiting
      /\ live' = live \/ (~m.cancelled /\ live' = live \union {m.session})
  BY Zenon DEF mount
<1>2. CASE live' = live
  BY <1>1, <1>2, Zenon DEF EditorInv, OneEditor
<1>3. CASE ~m.cancelled /\ live' = live \union {m.session}
  <2>1. m.session = session /\ live = {} /\ script = "ready" /\ session # NoSession
    BY <1>3, Zenon DEF EditorInv, OneEditor
  <2>2. ASSUME NEW n \in clearing, ~n.cancelled PROVE n = m
    <3>1. n.session = session /\ n \in Mount /\ m \in Mount
      BY <2>2, Zenon DEF EditorInv, OneEditor
    <3>2. n.cancelled = FALSE /\ m.cancelled = FALSE
      BY <1>3, <2>2, <3>1, Zenon DEF Mount
    <3> QED
      BY <2>1, <3>1, <3>2 DEF Mount
  <2>3. \A n \in clearing' : n.cancelled
    BY <1>1, <2>2, Zenon
  <2> QED
    BY <1>1, <1>3, <2>1, <2>3, Zenon DEF EditorInv, OneEditor
<1> QED
  BY <1>1, <1>2, <1>3, Zenon

\* However the operator moves between sessions while the script loads and caches are
\* cleared, the page has one editor at most, that of the session it shows
\* (OnlyOfficeEditor and its cleanup).
THEOREM EditorSafety == EditorSpec => []OneEditor
<1>1. EditorInit => EditorInv
  BY Zenon DEF EditorInit, EditorInv, OneEditor
<1>2. EditorInv /\ [EditorNext]_editorVars => EditorInv'
  <2> SUFFICES ASSUME EditorInv, [EditorNext]_editorVars PROVE EditorInv'
    BY Zenon
  <2>1. CASE failed
    BY <2>1, Zenon DEF failed, EditorInv, OneEditor
  <2>2. CASE UNCHANGED editorVars
    BY <2>2, Zenon DEF editorVars, EditorInv, OneEditor
  <2> QED
    BY <2>1, <2>2, Moved, Loaded, Mounted, Zenon DEF EditorNext
<1>3. EditorInv => OneEditor
  BY Zenon DEF EditorInv
<1> QED
  BY <1>1, <1>2, <1>3, PTL DEF EditorSpec
=============================================================================
