--------------------------- MODULE CommandRecord ---------------------------
(***************************************************************************)
(* What the control plane promises about commands, without connections,    *)
(* lock, lookups or crashes.  A command under an idempotency key is        *)
(* attempted until it is accepted; it is accepted at one moment, as the    *)
(* next revision of its scope, if that is the one the client expected; and *)
(* whoever asks under its key from then on is told the same.               *)
(***************************************************************************)
EXTENDS Naturals

CONSTANTS
    Keys,           \* idempotency keys
    Scopes,         \* what has a revision
    Bodies,         \* requests, each with its scope and the revision it expects
    Any             \* the expectation of a request that has none

VARIABLES
    revisions,      \* revisions[s]: the revision of scope s
    accepted,       \* accepted[k]: the command accepted under key k, if any
    attempts,       \* attempts[k]: how often the command of key k had its effect
    acknowledged    \* acknowledged[k]: what clients were told of key k

recordVars == <<revisions, accepted, attempts, acknowledged>>

RecordInit ==
    /\ revisions = [s \in Scopes |-> 0]
    /\ accepted = [k \in Keys |-> {}]
    /\ attempts = [k \in Keys |-> 0]
    /\ acknowledged = [k \in Keys |-> {}]

\* An effect without an accepted command: the client will not have been told.
Attempt(k) ==
    /\ accepted[k] = {}
    /\ attempts' = [attempts EXCEPT ![k] = @ + 1]
    /\ UNCHANGED <<revisions, accepted, acknowledged>>

Accept(k, b) ==
    /\ accepted[k] = {} /\ attempts[k] > 0
    /\ b.expected \in {Any, revisions[b.scope]}
    /\ revisions' = [revisions EXCEPT ![b.scope] = @ + 1]
    /\ accepted' = [accepted EXCEPT ![k] = {[body |-> b, revision |-> revisions[b.scope] + 1]}]
    /\ UNCHANGED <<attempts, acknowledged>>

Acknowledge(k) ==
    /\ accepted[k] # {}
    /\ acknowledged' = [acknowledged EXCEPT ![k] = accepted[k]]
    /\ UNCHANGED <<revisions, accepted, attempts>>

RecordNext ==
    \E k \in Keys :
        \/ Attempt(k) \/ Acknowledge(k)
        \/ \E b \in Bodies : Accept(k, b)

RecordSpec == RecordInit /\ [][RecordNext]_recordVars
=============================================================================
