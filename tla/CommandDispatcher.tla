------------------------- MODULE CommandDispatcher -------------------------
(***************************************************************************)
(* The command and query dispatcher of the control plane                   *)
(* (internal/controlplane/dispatcher.go).                                  *)
(*                                                                         *)
(* Every browser, terminal, channel and scheduler mutation goes through    *)
(* Dispatch.  Commands run one at a time under commandMu: a stored answer  *)
(* is replayed, the expected revision is compared, the handler runs, and   *)
(* the new revision and the answer are stored in one transaction.  Queries *)
(* run beside them without the lock.                                       *)
(*                                                                         *)
(* The handler is external: it may have its effect or not, and succeed or  *)
(* fail, in any combination but success without effect.  The context of a  *)
(* call is the client's connection, so each database step may fail.        *)
(***************************************************************************)
EXTENDS Integers, FiniteSets

CONSTANTS
    Clients,        \* connections, each with one request at a time
    Keys,           \* (actor, idempotency key) pairs
    Scopes,         \* what scopeKey tells apart
    Expectations,   \* values of expected_revision
    Any,            \* an expected_revision that is absent
    Payloads,       \* operation and payload of a request
    MaxCalls,       \* bound on the requests sent
    MaxCrashes      \* bound on the daemon's crashes

ASSUME DispatcherAssumption ==
    Any \notin Nat /\ Expectations \subseteq Nat \cup {Any} /\ MaxCalls \in Nat /\ MaxCrashes \in Nat

VARIABLES
    pc,             \* pc[c]: where the request of client c is
    key,            \* key[c], body[c]: the request
    body,
    revision,       \* revision[c]: the revision the request has read
    seen,           \* seen[c]: the effects a query's handler found
    commandMu,      \* the set holding the client that has the lock
    revisions,      \* table controlplane_revisions
    stored,         \* table controlplane_idempotency: stored[k] has the row of key k
    ran,            \* ran[k]: how often a handler had its effect for key k
    answers,        \* answers[k]: the successful answers given for key k
    calls,
    crashes

vars == <<pc, key, body, revision, seen, commandMu, revisions, stored, ran, answers, calls, crashes>>
request == <<key, body>>
tables == <<revisions, stored>>

\* What hashRequest covers; the request identifier is not part of it.
Bodies == [scope : Scopes, expected : Expectations, payload : Payloads]
Response(b, n) == [body |-> b, revision |-> n]
Responses == [body : Bodies, revision : Nat]
Commanding == {"locked", "handling", "persisting", "auditing"}
Querying == {"reading", "viewed"}

Init ==
    /\ pc = [c \in Clients |-> "idle"]
    /\ key \in [Clients -> Keys]
    /\ body \in [Clients -> Bodies]
    /\ revision = [c \in Clients |-> 0]
    /\ seen = [c \in Clients |-> {}]
    /\ commandMu = {}
    /\ revisions = [s \in Scopes |-> 0]
    /\ stored = [k \in Keys |-> {}]
    /\ ran = [k \in Keys |-> 0]
    /\ answers = [k \in Keys |-> {}]
    /\ calls = 0
    /\ crashes = 0

-----------------------------------------------------------------------------
(* Commands *)

Dispatch(c, k, b) ==
    /\ pc[c] = "idle" /\ calls < MaxCalls
    /\ pc' = [pc EXCEPT ![c] = "queued"]
    /\ key' = [key EXCEPT ![c] = k]
    /\ body' = [body EXCEPT ![c] = b]
    /\ calls' = calls + 1
    /\ UNCHANGED <<revision, seen, commandMu, tables, ran, answers, crashes>>

\* Mutant: commands do not wait for each other.
NoWait(c) ==
    /\ pc[c] = "queued"
    /\ commandMu' = {c}
    /\ pc' = [pc EXCEPT ![c] = "locked"]
    /\ UNCHANGED <<request, revision, seen, tables, ran, answers, calls, crashes>>

Lock(c) ==
    /\ pc[c] = "queued" /\ commandMu = {}
    /\ commandMu' = {c}
    /\ pc' = [pc EXCEPT ![c] = "locked"]
    /\ UNCHANGED <<request, revision, seen, tables, ran, answers, calls, crashes>>

\* Dispatch returns and the deferred unlock runs.
Return(c) ==
    /\ pc' = [pc EXCEPT ![c] = "idle"]
    /\ commandMu' = commandMu \ {c}

\* Mutant: an error path misses the unlock.
KeepsLock(c) ==
    /\ pc' = [pc EXCEPT ![c] = "idle"]
    /\ UNCHANGED <<commandMu, answers>>

Fail(c) == Return(c) /\ UNCHANGED answers

Succeed(c, n) ==
    /\ Return(c)
    /\ answers' = [answers EXCEPT ![key[c]] = @ \cup {Response(body[c], n)}]

\* The row of the key, if it is for this request; any other row is a conflict.
cachedResponse(c) == {r \in stored[key[c]] : r.body = body[c]}

RevisionMatches(c) == body[c].expected \in {Any, revisions[body[c].scope]}

\* Revision and answer are written in one transaction.
persisted(c) ==
    /\ revisions' = [revisions EXCEPT ![body[c].scope] = revision[c] + 1]
    /\ stored' = [stored EXCEPT ![key[c]] = {Response(body[c], revision[c] + 1)}]

\* Mutant: no answer is replayed.
NoCache(c) ==
    /\ pc[c] = "locked"
    /\ \/ Fail(c) /\ UNCHANGED revision
       \/ /\ RevisionMatches(c)
          /\ revision' = [revision EXCEPT ![c] = revisions[body[c].scope]]
          /\ pc' = [pc EXCEPT ![c] = "handling"]
          /\ UNCHANGED <<commandMu, answers>>
    /\ UNCHANGED <<request, seen, tables, ran, calls, crashes>>

\* Mutant: the new revision is published before the handler has run.
StoresFirst(c) ==
    /\ pc[c] = "locked" /\ stored[key[c]] = {} /\ RevisionMatches(c)
    /\ revision' = [revision EXCEPT ![c] = revisions[body[c].scope]]
    /\ revisions' = [revisions EXCEPT ![body[c].scope] = @ + 1]
    /\ stored' = [stored EXCEPT ![key[c]] = {Response(body[c], revisions[body[c].scope] + 1)}]
    /\ pc' = [pc EXCEPT ![c] = "handling"]
    /\ UNCHANGED <<request, seen, commandMu, ran, answers, calls, crashes>>

\* A stored answer is returned; another request under the key, an unexpected
\* revision or a failed read is an error; otherwise the handler is called.
dispatchCommand(c) ==
    /\ pc[c] = "locked"
    /\ \/ /\ \E r \in cachedResponse(c) : Succeed(c, r.revision)
          /\ UNCHANGED revision
       \/ Fail(c) /\ UNCHANGED revision
       \/ /\ stored[key[c]] = {} /\ RevisionMatches(c)
          /\ revision' = [revision EXCEPT ![c] = revisions[body[c].scope]]
          /\ pc' = [pc EXCEPT ![c] = "handling"]
          /\ UNCHANGED <<commandMu, answers>>
    /\ UNCHANGED <<request, seen, tables, ran, calls, crashes>>

\* The handler has its effect and succeeds, or fails before or after it.
Handle(c) ==
    /\ pc[c] = "handling"
    /\ \/ /\ ran' = [ran EXCEPT ![key[c]] = @ + 1]
          /\ \/ pc' = [pc EXCEPT ![c] = "persisting"] /\ UNCHANGED <<commandMu, answers>>
             \/ Fail(c)
       \/ Fail(c) /\ UNCHANGED ran
    /\ UNCHANGED <<request, revision, seen, tables, calls, crashes>>

persistCommand(c) ==
    /\ pc[c] = "persisting"
    /\ \/ persisted(c) /\ pc' = [pc EXCEPT ![c] = "auditing"] /\ UNCHANGED <<commandMu, answers>>
       \/ Fail(c) /\ UNCHANGED tables
    /\ UNCHANGED <<request, revision, seen, ran, calls, crashes>>

\* The policy decision is journalled; when that fails so does the answer,
\* although the command is stored.
Emit(c) ==
    /\ pc[c] = "auditing"
    /\ \/ Succeed(c, revision[c] + 1)
       \/ Fail(c)
    /\ UNCHANGED <<request, revision, seen, tables, ran, calls, crashes>>

-----------------------------------------------------------------------------
(* Queries run without the lock: revision first, handler second. *)

Query(c, b) ==
    /\ pc[c] = "idle" /\ calls < MaxCalls
    /\ pc' = [pc EXCEPT ![c] = "reading"]
    /\ body' = [body EXCEPT ![c] = b]
    /\ revision' = [revision EXCEPT ![c] = revisions[b.scope]]
    /\ calls' = calls + 1
    /\ UNCHANGED <<key, seen, commandMu, tables, ran, answers, crashes>>

HandleQuery(c) ==
    /\ pc[c] = "reading"
    /\ pc' = [pc EXCEPT ![c] = "viewed"]
    /\ seen' = [seen EXCEPT ![c] = {k \in Keys : ran[k] > 0}]
    /\ UNCHANGED <<request, revision, commandMu, tables, ran, answers, calls, crashes>>

AnswerQuery(c) ==
    /\ pc[c] = "viewed"
    /\ pc' = [pc EXCEPT ![c] = "idle"]
    /\ seen' = [seen EXCEPT ![c] = {}]
    /\ UNCHANGED <<request, revision, commandMu, tables, ran, answers, calls, crashes>>

-----------------------------------------------------------------------------
\* The daemon dies and is restarted: requests and the lock are gone.
Crash ==
    /\ crashes < MaxCrashes
    /\ crashes' = crashes + 1
    /\ pc' = [c \in Clients |-> "idle"]
    /\ seen' = [c \in Clients |-> {}]
    /\ commandMu' = {}
    /\ UNCHANGED <<request, revision, tables, ran, answers, calls>>

Work(c) == dispatchCommand(c) \/ Handle(c) \/ persistCommand(c) \/ Emit(c) \/ HandleQuery(c) \/ AnswerQuery(c)

Next ==
    \/ \E c \in Clients, k \in Keys, b \in Bodies : Dispatch(c, k, b)
    \/ \E c \in Clients, b \in Bodies : Query(c, b)
    \/ \E c \in Clients : Lock(c) \/ Work(c)
    \/ Crash

Spec == Init /\ [][Next]_vars

\* Handlers return, and sync.Mutex does not starve a waiter.
FairSpec == Spec /\ \A c \in Clients : WF_vars(Work(c)) /\ SF_vars(Lock(c))

-----------------------------------------------------------------------------
\* The types of the tables and of the requests in progress.
TypeOK ==
    /\ pc \in [Clients -> {"idle", "queued"} \cup Commanding \cup Querying]
    /\ key \in [Clients -> Keys]
    /\ body \in [Clients -> Bodies]
    /\ revision \in [Clients -> Nat]
    /\ seen \in [Clients -> SUBSET Keys]
    /\ commandMu \in SUBSET Clients
    /\ revisions \in [Scopes -> Nat]
    /\ stored \in [Keys -> SUBSET Responses]
    /\ ran \in [Keys -> Nat]
    /\ answers \in [Keys -> SUBSET Responses]
    /\ calls \in Nat /\ crashes \in Nat

\* Once a client has a success for a key, the handler never has its effect for
\* that key again, whoever repeats the request, across crashes.
AcknowledgedOnce ==
    [][\A k \in Keys : answers[k] # {} => ran'[k] = ran[k]]_vars

\* All successful answers for a key are the same answer to the same request,
\* and it is the stored one.
OneAnswerPerKey ==
    \A k \in Keys : answers[k] \subseteq stored[k] /\ \A r, q \in stored[k] : r = q

\* Revisions of a scope are handed out once each: two accepted commands never
\* share one, so of two commands that expect the same revision one is refused.
RevisionsAreUnique ==
    \A k, l \in Keys : k # l =>
        \A r \in stored[k], q \in stored[l] :
            r.body.scope = q.body.scope => r.revision # q.revision

\* A command that names an expected revision is accepted as its successor.
ExpectationHeld ==
    \A k \in Keys : \A r \in stored[k] :
        r.body.expected # Any => r.revision = r.body.expected + 1

\* The revision in a query's answer is not ahead of its contents: the effect of
\* every command up to that revision is in them.
QueryIsNotAhead ==
    \A c \in Clients : pc[c] = "viewed" =>
        \A k \in Keys : \A r \in stored[k] :
            r.body.scope = body[c].scope /\ r.revision <= revision[c] => k \in seen[c]

\* Every request that arrives is answered, or lost with the daemon.
RequestsAreAnswered == \A c \in Clients : (pc[c] # "idle") ~> (pc[c] = "idle")

\* What the tables, the effects and the answers make of the promise.
Record == INSTANCE CommandRecord WITH accepted <- stored, attempts <- ran, acknowledged <- answers

\* A command takes place at one moment, the transaction of persistCommand, although
\* Dispatch reads the key, compares the revision, runs the handler and stores the
\* answer in steps that other connections, failures and a crash may come between.
CommandsAreAtomic == Record!RecordSpec

\* What Dispatch keeps for concurrent connections: types, one answer per key,
\* revisions handed out once and only against the revision the client expected,
\* and queries that claim no command they have not seen.
DispatchInv ==
    /\ TypeOK /\ OneAnswerPerKey /\ RevisionsAreUnique
    /\ ExpectationHeld /\ QueryIsNotAhead

\* A command a client keeps repeating is settled once: Dispatch answers every
\* request, and after an acknowledged success no repetition of its key, on any
\* connection and across a crash, has the effect a second time.
CommandsSettleOnce == AcknowledgedOnce /\ RequestsAreAnswered
=============================================================================
