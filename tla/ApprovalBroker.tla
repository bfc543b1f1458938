--------------------------- MODULE ApprovalBroker ---------------------------
(***************************************************************************)
(* The durable approval broker (internal/controlplane/approval.go).        *)
(*                                                                         *)
(* A background turn that wants to do something consequential inserts a    *)
(* pending row, publishes it, registers an in-process waiter and blocks    *)
(* until a decision, the expiry or a cancellation.  approval.respond       *)
(* resolves the row with a conditional update, publishes the result and    *)
(* then wakes the waiter.  Row, event and waiter are separate steps, and   *)
(* the timer of Request and the response race on the row.                  *)
(*                                                                         *)
(* The dispatcher runs one command at a time, so there is one Respond in   *)
(* progress at most.  Payloads, actors and redaction are left out.         *)
(***************************************************************************)
EXTENDS Integers

CONSTANTS
    Approvals,      \* approval identifiers, one call of Request each
    TTL,            \* ApprovalInput.TTL in clock ticks
    MaxTime         \* bound of the clock

ASSUME BrokerAssumption == TTL \in Nat \ {0} /\ MaxTime \in Nat

VARIABLES
    now,
    state,          \* column state; "none" while there is no row
    decision,       \* column decision; "none" is NULL
    expires,        \* column expires_at
    waiters,        \* waiters[a]: "none", "empty", or the decision it buffers
    request,        \* request[a]: where the goroutine in Request is
    respond,        \* the call of Respond in progress
    outcome         \* outcome[a]: the terminal events in the journal

vars == <<now, state, decision, expires, waiters, request, respond, outcome>>
row == <<state, decision, expires>>

Decisions == {"approve", "deny"}
States == {"none", "pending", "resolved", "expired"}
Returned == {"approved", "denied", "cancelled", "failed"}
Running == {"inserted", "created", "registered", "waiting", "expiring"}
Idle == [pc |-> "idle"]
Calls == [pc : {"read", "resolved", "published"}, approval : Approvals, decision : Decisions]
Call(pc, a, d) == [pc |-> pc, approval |-> a, decision |-> d]

Init ==
    /\ now = 0
    /\ state = [a \in Approvals |-> "none"]
    /\ decision = [a \in Approvals |-> "none"]
    /\ expires = [a \in Approvals |-> 0]
    /\ waiters = [a \in Approvals |-> "none"]
    /\ request = [a \in Approvals |-> "new"]
    /\ respond = Idle
    /\ outcome = [a \in Approvals |-> {}]

-----------------------------------------------------------------------------
\* create: the pending row is inserted; an error leaves no row.
insert(a) ==
    /\ request[a] = "new"
    /\ \/ /\ state' = [state EXCEPT ![a] = "pending"]
          /\ expires' = [expires EXCEPT ![a] = now + TTL]
          /\ request' = [request EXCEPT ![a] = "inserted"]
       \/ /\ request' = [request EXCEPT ![a] = "failed"]
          /\ UNCHANGED <<state, expires>>
    /\ UNCHANGED <<now, decision, waiters, respond, outcome>>

\* create: approval.requested is published; an error leaves the pending row.
create(a) ==
    /\ request[a] = "inserted"
    /\ \E s \in {"created", "failed"} : request' = [request EXCEPT ![a] = s]
    /\ UNCHANGED <<now, row, waiters, respond, outcome>>

register(a) ==
    /\ request[a] = "created"
    /\ waiters' = [waiters EXCEPT ![a] = "empty"]
    /\ request' = [request EXCEPT ![a] = "registered"]
    /\ UNCHANGED <<now, row, respond, outcome>>

\* Mutant: any settled row lets the operation go ahead.
SettledMeansGo(a) == IF state[a] \in {"resolved", "expired"} THEN "approved" ELSE "waiting"

\* What Request does after it reads the row a second time.
Rechecked(a) ==
    CASE state[a] = "resolved" -> IF decision[a] = "deny" THEN "denied" ELSE "approved"
      [] state[a] = "expired" -> "denied"
      [] OTHER -> IF expires[a] <= now THEN "expiring" ELSE "waiting"

\* Request reads the row again once its waiter is registered, so a response that
\* came before the registration is not lost.
recheck(a) ==
    /\ request[a] = "registered"
    /\ request' = [request EXCEPT ![a] = Rechecked(a)]
    /\ waiters' = IF Rechecked(a) \in Returned THEN [waiters EXCEPT ![a] = "none"] ELSE waiters
    /\ UNCHANGED <<now, row, respond, outcome>>

\* The select of Request: whichever branch is ready may be taken.
receive(a) ==
    /\ request[a] = "waiting" /\ waiters[a] \in Decisions
    /\ request' = [request EXCEPT ![a] = IF waiters[a] = "deny" THEN "denied" ELSE "approved"]
    /\ waiters' = [waiters EXCEPT ![a] = "none"]
    /\ UNCHANGED <<now, row, respond, outcome>>

\* Mutant: a response stops the timer even when it cannot wake the waiter.
StopsOnResponse(a) ==
    /\ request[a] = "waiting" /\ expires[a] <= now /\ state[a] # "resolved"
    /\ request' = [request EXCEPT ![a] = "expiring"]
    /\ UNCHANGED <<now, row, waiters, respond, outcome>>

timer(a) ==
    /\ request[a] = "waiting" /\ expires[a] <= now
    /\ request' = [request EXCEPT ![a] = "expiring"]
    /\ UNCHANGED <<now, row, waiters, respond, outcome>>

\* The turn's context is done; the pending row is kept.
cancel(a) ==
    /\ request[a] \in {"created", "registered", "waiting"}
    /\ request' = [request EXCEPT ![a] = "cancelled"]
    /\ waiters' = [waiters EXCEPT ![a] = "none"]
    /\ UNCHANGED <<now, row, respond, outcome>>

\* The conditional update and its event; nothing when the row is settled.
expire(a, published) ==
    IF state[a] = "pending"
    THEN /\ state' = [state EXCEPT ![a] = "expired"]
         /\ outcome' = [outcome EXCEPT ![a] = IF published THEN @ \cup {"expired"} ELSE @]
    ELSE UNCHANGED <<state, outcome>>

\* Request expires the row and returns denied, whether or not there was
\* something left to expire; a failed update or event is returned as an error.
expireRequest(a) ==
    /\ request[a] = "expiring"
    /\ \/ expire(a, TRUE) /\ request' = [request EXCEPT ![a] = "denied"]
       \/ expire(a, FALSE) /\ request' = [request EXCEPT ![a] = "failed"]
       \/ UNCHANGED <<state, outcome>> /\ request' = [request EXCEPT ![a] = "failed"]
    /\ waiters' = [waiters EXCEPT ![a] = "none"]
    /\ UNCHANGED <<now, decision, expires, respond>>

-----------------------------------------------------------------------------
\* Respond reads a pending row; one past its expiry is expired instead.  A
\* settled row is a conflict that changes nothing.
respondRead(a, d) ==
    /\ respond = Idle /\ state[a] = "pending"
    /\ \/ /\ now < expires[a]
          /\ respond' = Call("read", a, d)
          /\ UNCHANGED <<state, outcome>>
       \/ /\ expires[a] <= now
          /\ \E published \in BOOLEAN : expire(a, published)
          /\ UNCHANGED respond
    /\ UNCHANGED <<now, decision, expires, waiters, request>>

\* The conditional update; no row affected is a conflict.
respondUpdate ==
    /\ respond.pc = "read"
    /\ LET a == respond.approval IN
       IF state[a] = "pending"
       THEN /\ state' = [state EXCEPT ![a] = "resolved"]
            /\ decision' = [decision EXCEPT ![a] = respond.decision]
            /\ respond' = Call("resolved", a, respond.decision)
       ELSE /\ respond' = Idle
            /\ UNCHANGED <<state, decision>>
    /\ UNCHANGED <<now, expires, waiters, request, outcome>>

\* approval.resolved is published; an error returns before the waiter is woken.
respondEmit ==
    /\ respond.pc = "resolved"
    /\ LET a == respond.approval IN
       \/ /\ outcome' = [outcome EXCEPT ![a] = @ \cup {respond.decision}]
          /\ respond' = Call("published", a, respond.decision)
       \/ respond' = Idle /\ UNCHANGED outcome
    /\ UNCHANGED <<now, row, waiters, request>>

respondWake ==
    /\ respond.pc = "published"
    /\ LET a == respond.approval IN
       waiters' = IF waiters[a] = "empty" THEN [waiters EXCEPT ![a] = respond.decision] ELSE waiters
    /\ respond' = Idle
    /\ UNCHANGED <<now, row, request, outcome>>

-----------------------------------------------------------------------------
\* The daemon dies: rows and events are durable, everything else is gone.
Crash ==
    /\ request' = [a \in Approvals |-> IF request[a] \in Running THEN "cancelled" ELSE request[a]]
    /\ waiters' = [a \in Approvals |-> "none"]
    /\ respond' = Idle
    /\ UNCHANGED <<now, row, outcome>>

Tick ==
    /\ now < MaxTime
    /\ now' = now + 1
    /\ UNCHANGED <<row, waiters, request, respond, outcome>>

\* What the goroutine of a request does by itself, once it has begun.
Proceed(a) == create(a) \/ register(a) \/ recheck(a) \/ receive(a) \/ timer(a) \/ expireRequest(a)

Next ==
    \/ \E a \in Approvals : insert(a) \/ Proceed(a) \/ cancel(a)
    \/ \E a \in Approvals, d \in Decisions : respondRead(a, d)
    \/ respondUpdate
    \/ respondEmit
    \/ respondWake
    \/ Crash
    \/ Tick

Spec == Init /\ [][Next]_vars

\* The goroutine of a request keeps running and the clock advances; nobody has
\* to respond.
FairSpec == Spec /\ (\A a \in Approvals : WF_vars(Proceed(a))) /\ WF_vars(Tick)

-----------------------------------------------------------------------------
\* The types of the variables.
TypeOK ==
    /\ now \in Nat
    /\ state \in [Approvals -> States]
    /\ decision \in [Approvals -> Decisions \cup {"none"}]
    /\ expires \in [Approvals -> Nat]
    /\ waiters \in [Approvals -> Decisions \cup {"none", "empty"}]
    /\ request \in [Approvals -> {"new"} \cup Running \cup Returned]
    /\ respond \in Calls \cup {Idle}
    /\ outcome \in [Approvals -> SUBSET (Decisions \cup {"expired"})]

\* A consequential operation goes ahead only under a durable human approval,
\* whatever the order of response, registration, timer, cancellation and crash.
ProceedsOnlyIfApproved ==
    \A a \in Approvals :
        request[a] = "approved" => state[a] = "resolved" /\ decision[a] = "approve"

\* A settled row stays as it was settled: of a response and the expiry that
\* races with it one wins, and Respond does not replay a decision.
DecisionIsFinal ==
    [][\A a \in Approvals :
         state[a] \in {"resolved", "expired"} =>
            state'[a] = state[a] /\ decision'[a] = decision[a]]_vars

\* The terminal event a client sees for an approval is the one the row records.
OutcomeMatchesRow ==
    \A a \in Approvals : \A e \in outcome[a] :
        \/ e = "expired" /\ state[a] = "expired"
        \/ e = decision[a] /\ state[a] = "resolved"

\* A turn that asks is not left waiting: with no response at all, or with one
\* whose publication failed, Request still returns once the approval expires.
RequestsReturn ==
    \A a \in Approvals :
        (request[a] \in Running /\ expires[a] <= MaxTime) ~> request[a] \in Returned

\* Request reports a denial only when no human has approved the operation: the
\* timer branch does not turn a durable approval into a denial.
DeniedWasNotApproved ==
    \A a \in Approvals : request[a] = "denied" => decision[a] # "approve"

\* What Request, Respond and expire keep, in any order: types, no operation
\* without its approval, and a journal that tells the row's outcome.
BrokerInv == TypeOK /\ ProceedsOnlyIfApproved /\ OutcomeMatchesRow
=============================================================================
