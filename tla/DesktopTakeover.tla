--------------------------- MODULE DesktopTakeover ---------------------------
(***************************************************************************)
(* The operator's input path to the private desktop                        *)
(* (internal/operatorapp/private_desktop.go), composed with the takeover   *)
(* lease of that desktop.                                                  *)
(*                                                                         *)
(* The agent's side acts through BeginAutomation and holds the resource    *)
(* mutex while it acts.  The operator's side does not use BeginOperator:   *)
(* it buys a short-lived ticket for its lease, and every input request     *)
(* compares the ticket with a Status of the lease and then sends the input *)
(* to the desktop daemon with the mutex released.                          *)
(***************************************************************************)
EXTENDS ControlLease, TLC

CONSTANTS
    Tokens,         \* ticket tokens; as many as maxPrivateDesktopTickets
    TicketTTL       \* privateDesktopTicketTTL, in clock ticks

ASSUME TicketAssumption == TicketTTL \in Nat \ {0}

VARIABLES
    tickets,        \* the ticket store: a function from issued tokens to records
    inputs          \* inputs[o]: the credential of the input o has in flight

desktopVars == <<vars, tickets, inputs>>

Kinds == {"view", "input"}
Ticket == [kind : Kinds, id : Nat, revision : Nat, expires : Nat]

\* Restriction of the store to tickets whose time has not come.
expire == [t \in {u \in DOMAIN tickets : now < tickets[u].expires} |-> tickets[t]]

\* The check both handlers make of what Status returns.
Exact(l, id, revision) ==
    HeldByOperator(l) /\ l.id = id /\ l.revision = revision

DesktopInit ==
    /\ Init
    /\ tickets = [t \in {} |-> [kind |-> "view", id |-> 0, revision |-> 0, expires |-> 0]]
    /\ inputs = [o \in Operators |-> Idle]

issue(t, record) ==
    \/ DOMAIN expire = Tokens /\ tickets' = expire           \* capacity reached
    \/ t \notin DOMAIN expire /\ tickets' = expire @@ (t :> record)

\* A view ticket needs no lease.
serveViewTicket(t) ==
    /\ issue(t, [kind |-> "view", id |-> NoID, revision |-> 0, expires |-> now + TicketTTL])
    /\ UNCHANGED <<vars, inputs>>

serveInputTicket(t, id, revision) ==
    /\ Status
    /\ IF Exact(lease', id, revision)
       THEN issue(t, [kind |-> "input", id |-> id, revision |-> revision,
                      expires |-> now + TicketTTL])
       ELSE UNCHANGED tickets
    /\ UNCHANGED inputs

\* Mutant: the ticket alone admits the input.
TicketSuffices(o, t) ==
    /\ inputs[o] = Idle
    /\ tickets' = expire
    /\ t \in DOMAIN expire /\ expire[t].kind = "input"
    /\ inputs' = [inputs EXCEPT ![o] = [id |-> expire[t].id, revision |-> expire[t].revision]]
    /\ Status

\* validate, Status, and the request to the desktop daemon, which begins here
\* and ends with EndInput.  The mutex is free in between.
serveInput(o, t) ==
    /\ inputs[o] = Idle
    /\ tickets' = expire
    /\ IF t \in DOMAIN expire /\ expire[t].kind = "input"
       THEN /\ Status
            /\ inputs' = IF Exact(lease', expire[t].id, expire[t].revision)
                         THEN [inputs EXCEPT ![o] = [id |-> expire[t].id,
                                                     revision |-> expire[t].revision]]
                         ELSE inputs
       ELSE UNCHANGED <<vars, inputs>>

EndInput(o) ==
    /\ inputs[o] # Idle
    /\ inputs' = [inputs EXCEPT ![o] = Idle]
    /\ UNCHANGED <<vars, tickets>>

\* The tickets live in memory.  An input already sent to the desktop daemon,
\* which is another process, goes on.
DesktopCrash ==
    /\ Crash
    /\ tickets' = [t \in {} |-> tickets[t]]
    /\ UNCHANGED inputs

LeaseStep ==
    /\ \/ \E revision \in Revisions, ttl \in TTLs : Acquire(revision, ttl)
       \/ \E id \in IDs, revision \in Revisions, ttl \in TTLs : Renew(id, revision, ttl)
       \/ \E id \in IDs, revision \in Revisions : Release(id, revision)
       \/ \E e \in Executors : BeginAutomation(e) \/ EndAction(e)
       \/ Tick
    /\ UNCHANGED <<tickets, inputs>>

DesktopNext ==
    \/ LeaseStep
    \/ \E t \in Tokens : serveViewTicket(t)
    \/ \E t \in Tokens, id \in IDs, revision \in Revisions : serveInputTicket(t, id, revision)
    \/ \E o \in Operators, t \in Tokens : serveInput(o, t)
    \/ \E o \in Operators : EndInput(o)
    \/ DesktopCrash

DesktopSpec == DesktopInit /\ [][DesktopNext]_desktopVars

-----------------------------------------------------------------------------
(* Properties *)

\* An input is sent only under the very lease and revision its ticket was
\* bought with, and only while that lease is running: a ticket does not survive
\* renewal, release, expiry or another takeover, although it is not revoked by
\* any of them.
TicketDiesWithItsLease ==
    [][\A o \in Operators : inputs[o] = Idle /\ inputs'[o] # Idle =>
           /\ HeldByOperator(lease') /\ now < lease'.expires
           /\ inputs'[o] = [id |-> lease'.id, revision |-> lease'.revision]]_desktopVars

\* While an operator's input is on its way to the desktop, no automated action
\* runs there ("input SHALL require the exact live takeover lease and a stale or
\* lost lease SHALL reconcile before either executor acts").
InputExcludesAutomation ==
    \A o \in Operators, e \in Executors : inputs[o] # Idle => acting[e] = Idle
=============================================================================
