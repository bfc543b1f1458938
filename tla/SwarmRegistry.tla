--------------------------- MODULE SwarmRegistry ---------------------------
(***************************************************************************)
(* The registry of sub-agents: lanes that bound how many are active, one   *)
(* goroutine per child, authenticated verbs that may be delivered late or  *)
(* twice, aborts by the parent or the operator, and the orphan scan, which *)
(* takes its list under the mutex and works on it after releasing it.      *)
(* The registry lives in memory; a restart starts from Init.               *)
(***************************************************************************)
EXTENDS Naturals, Sequences, FiniteSets

CONSTANTS
    MaxAgents,          \* bound: how many children are spawned
    SessionOf,          \* the session an agent is spawned for
    ParentOf,           \* the turn or supervisor run that spawns it
    Messages,           \* the verbs that are signed
    GlobalLaneMax, SessionLaneMax, ParentLaneMax,
    Buffer              \* the capacity of the completions channel

ASSUME SwarmAssumption == {MaxAgents, GlobalLaneMax, SessionLaneMax, ParentLaneMax} \subseteq Nat

VARIABLES
    state,          \* state[a]: the lifecycle state of the agent
    silent,         \* the active agents not heard of for OrphanThreshold
    globalCount, sessionCount, parentCount,
    channels,       \* the agents whose spawn channel is open
    cancelled,      \* the agents whose running worker has been cancelled
    worker,         \* worker[a]: where the goroutine of the agent is
    report,         \* report[a]: the state read for its Completion
    completions,    \* the channel of Completions
    consumed,       \* the Completions the presence supervisor has taken
    messages,       \* the signed verbs, and what became of each
    orphans,        \* the agents ScanOrphans has still to handle
    scan            \* where ScanOrphans is

lanes == <<globalCount, sessionCount, parentCount>>
swarmVars == <<state, silent, lanes, channels, cancelled, worker, report, completions,
               consumed, messages, orphans, scan>>

Agents == 1..MaxAgents    \* identifiers are new: here, in the order of the spawns
Active == {"running", "yielded"}
Final == {"completed", "aborted", "orphaned"}
Sessions == {SessionOf[a] : a \in Agents}
Parents == {ParentOf[a] : a \in Agents}
Verbs == {"YIELD", "RESUME", "ABORT"}
Unsigned == [nonce |-> "none"]
NotScanning == [at |-> "idle"]

SwarmInit ==
    /\ state = [a \in Agents |-> "none"]
    /\ silent = {} /\ channels = {} /\ cancelled = {}
    /\ globalCount = 0
    /\ sessionCount = [s \in Sessions |-> 0]
    /\ parentCount = [p \in Parents |-> 0]
    /\ worker = [a \in Agents |-> "none"]
    /\ report = [a \in Agents |-> "none"]
    /\ completions = <<>> /\ consumed = {}
    /\ messages = [m \in Messages |-> Unsigned]
    /\ orphans = {} /\ scan = NotScanning

-----------------------------------------------------------------------------
\* SpawnReduced, under the registry mutex: every lane has room.  The agent is
\* known from here on, before it can be cancelled.
SpawnReduced(a) ==
    /\ state[a] = "none" /\ \A b \in 1..(a - 1) : state[b] # "none"
    /\ globalCount < GlobalLaneMax
    /\ sessionCount[SessionOf[a]] < SessionLaneMax
    /\ parentCount[ParentOf[a]] < ParentLaneMax
    /\ state' = [state EXCEPT ![a] = "running"]
    /\ channels' = channels \union {a}
    /\ globalCount' = globalCount + 1
    /\ sessionCount' = [sessionCount EXCEPT ![SessionOf[a]] = @ + 1]
    /\ parentCount' = [parentCount EXCEPT ![ParentOf[a]] = @ + 1]
    /\ worker' = [worker EXCEPT ![a] = "spawned"]
    /\ UNCHANGED <<silent, cancelled, report, completions, consumed, messages, orphans, scan>>

\* The rest of SpawnWorker: the cancel function is stored and the goroutine
\* starts.  It hears nothing of an abort that came before.
StartWorker(a) ==
    /\ worker[a] = "spawned"
    /\ worker' = [worker EXCEPT ![a] = IF state[a] \in Active THEN "working" ELSE "deaf"]
    /\ UNCHANGED <<state, silent, lanes, channels, cancelled, report, completions, consumed,
                   messages, orphans, scan>>

\* The lanes of an agent that stops being active are released, and its channel
\* is closed.
ReleaseLanes(a) ==
    /\ globalCount' = globalCount - 1
    /\ sessionCount' = [sessionCount EXCEPT ![SessionOf[a]] = @ - 1]
    /\ parentCount' = [parentCount EXCEPT ![ParentOf[a]] = @ - 1]
    /\ channels' = channels \ {a}
    /\ silent' = silent \ {a}

\* CancelFunc of a worker that is running.
CancelWorker(a) == IF worker[a] = "working" THEN cancelled \union {a} ELSE cancelled

\* Mutant: whoever ends the agent, its lanes are released again.
AlwaysReleases(a) == TRUE
Releases(a) == state[a] \in Active

\* The worker function returns, with a result or because its context ended, and
\* Complete follows: only an active agent becomes completed and gives up its
\* lanes.  (Between the two nothing looks at the closed done channel but the
\* wait of the orphan loop.)
Complete(a) ==
    /\ worker[a] \in {"working", "deaf"}
    /\ worker' = [worker EXCEPT ![a] = "settled"]
    /\ cancelled' = cancelled \ {a}
    /\ IF Releases(a)
       THEN state' = [state EXCEPT ![a] = "completed"] /\ ReleaseLanes(a)
       ELSE UNCHANGED <<state, silent, lanes>> /\ channels' = channels \ {a}
    /\ UNCHANGED <<report, completions, consumed, messages, orphans, scan>>

\* The goroutine reads the state for its Completion, and then sends it.
ReadCompletion(a) ==
    /\ worker[a] = "settled"
    /\ worker' = [worker EXCEPT ![a] = "reporting"]
    /\ report' = [report EXCEPT ![a] = state[a]]
    /\ UNCHANGED <<state, silent, lanes, channels, cancelled, completions, consumed,
                   messages, orphans, scan>>

\* Mutant: a Completion that finds the channel full is dropped.
DropsWhenFull(a) ==
    /\ worker[a] = "reporting"
    /\ completions' = IF Len(completions) < Buffer THEN Append(completions, <<a, report[a]>>)
                      ELSE completions
    /\ report' = [report EXCEPT ![a] = "none"]
    /\ worker' = [worker EXCEPT ![a] = "gone"]
    /\ UNCHANGED <<state, silent, lanes, channels, cancelled, consumed, messages, orphans,
                   scan>>

SendCompletion(a) ==
    /\ worker[a] = "reporting"
    /\ Len(completions) < Buffer
    /\ completions' = Append(completions, <<a, report[a]>>)
    /\ report' = [report EXCEPT ![a] = "none"]
    /\ worker' = [worker EXCEPT ![a] = "gone"]
    /\ UNCHANGED <<state, silent, lanes, channels, cancelled, consumed, messages, orphans,
                   scan>>

\* runSubagents of the presence supervisor takes the Completions one by one.
ConsumeCompletion ==
    /\ completions # <<>>
    /\ consumed' = consumed \union {Head(completions)[1]}
    /\ completions' = Tail(completions)
    /\ UNCHANGED <<state, silent, lanes, channels, cancelled, worker, report,
                   messages, orphans, scan>>

-----------------------------------------------------------------------------
\* What abort does to the agent, for Abort, AbortScoped and the ABORT verb.
DoAbort(a) ==
    /\ state' = [state EXCEPT ![a] = "aborted"]
    /\ cancelled' = CancelWorker(a)
    /\ ReleaseLanes(a)

\* The operator, or an executor whose context ended, aborts an agent it has seen
\* in the expected state; abort refuses when that is no longer the state.
AbortScoped(a, expected) ==
    /\ state[a] = expected
    /\ DoAbort(a)
    /\ UNCHANGED <<worker, report, completions, consumed, messages, orphans, scan>>

\* An endpoint signs a verb while the channel is open.
Sign(m, a, verb) ==
    /\ messages[m] = Unsigned
    /\ a \in channels
    /\ messages' = [messages EXCEPT ![m] =
         [nonce |-> "fresh", agent |-> a, verb |-> verb, accepted |-> 0]]
    /\ UNCHANGED <<state, silent, lanes, channels, cancelled, worker, report, completions,
                   consumed, orphans, scan>>

\* The nonce is not in the tracker of the receiving endpoint.
Unused(m) == messages[m].nonce = "fresh"

\* DeliverToSubAgent and DeliverToParent verify the message on the channel they
\* found under the mutex.  The message may arrive late, never, or many times;
\* one that is older than the window is as good as lost.
Deliver(m) ==
    /\ messages[m] # Unsigned
    /\ messages[m].agent \in channels
    /\ Unused(m)
    /\ messages' = [messages EXCEPT ![m].nonce = "applying", ![m].accepted = @ + 1]
    /\ UNCHANGED <<state, silent, lanes, channels, cancelled, worker, report, completions,
                   consumed, orphans, scan>>

\* What applyVerb does to an active agent.
applyVerb(a, verb) ==
    IF verb = "ABORT" THEN DoAbort(a)
    ELSE /\ state' = [state EXCEPT ![a] = IF verb = "YIELD" THEN "yielded" ELSE "running"]
         /\ silent' = silent \ {a}
         /\ UNCHANGED <<lanes, channels, cancelled>>

\* The verified verb is applied, unless the agent has stopped in between.
ApplyDelivered(m) ==
    LET a == messages[m].agent IN
    /\ messages[m].nonce = "applying"
    /\ messages' = [messages EXCEPT ![m].nonce = "used"]
    /\ IF state[a] \in Active THEN applyVerb(a, messages[m].verb)
       ELSE UNCHANGED <<state, silent, lanes, channels, cancelled>>
    /\ UNCHANGED <<worker, report, completions, consumed, orphans, scan>>

-----------------------------------------------------------------------------
\* OrphanThreshold passes without a verb for an active agent.
FallSilent(a) ==
    /\ state[a] \in Active
    /\ silent' = silent \union {a}
    /\ UNCHANGED <<state, lanes, channels, cancelled, worker, report, completions, consumed,
                   messages, orphans, scan>>

\* ScanOrphans lists the silent agents under the mutex,
ScanOrphans ==
    /\ scan = NotScanning
    /\ silent # {}
    /\ orphans' = silent
    /\ scan' = [at |-> "next"]
    /\ UNCHANGED <<state, silent, lanes, channels, cancelled, worker, report,
                   completions, consumed, messages>>

\* takes them one by one and signs an ABORT if the channel still exists,
SignAbort(a) ==
    /\ scan.at = "next" /\ a \in orphans
    /\ orphans' = orphans \ {a}
    /\ scan' = [at |-> IF a \in channels THEN "deliver" ELSE "abort", agent |-> a]
    /\ UNCHANGED <<state, silent, lanes, channels, cancelled, worker, report,
                   completions, consumed, messages>>

\* verifies it on the channel, which may have been closed since,
DeliverAbort ==
    /\ scan.at = "deliver"
    /\ scan' = [scan EXCEPT !.at = IF scan.agent \in channels THEN "apply" ELSE "abort"]
    /\ UNCHANGED <<state, silent, lanes, channels, cancelled, worker, report,
                   completions, consumed, messages, orphans>>

\* applies it, or falls back to Abort when that is refused,
ApplyAbort ==
    /\ scan.at \in {"apply", "abort"}
    /\ IF state[scan.agent] \in Active
       THEN DoAbort(scan.agent) /\ scan' = [scan EXCEPT !.at = "mark"]
       ELSE /\ scan' = [scan EXCEPT !.at = IF scan.at = "apply" THEN "abort" ELSE "mark"]
            /\ UNCHANGED <<state, silent, lanes, channels, cancelled>>
    /\ UNCHANGED <<worker, report, completions, consumed, messages, orphans>>

\* and calls the agent orphaned, whatever it has become.
MarkOrphaned ==
    /\ scan.at = "mark"
    /\ state' = [state EXCEPT ![scan.agent] = "orphaned"]
    /\ scan' = IF orphans = {} THEN NotScanning ELSE [at |-> "next"]
    /\ UNCHANGED <<silent, lanes, channels, cancelled, worker, report,
                   completions, consumed, messages, orphans>>

-----------------------------------------------------------------------------
Goroutine(a) ==
    StartWorker(a) \/ Complete(a) \/ ReadCompletion(a) \/ SendCompletion(a)

SwarmNext ==
    \/ \E a \in Agents : SpawnReduced(a) \/ Goroutine(a) \/ FallSilent(a) \/ SignAbort(a)
    \/ \E a \in Agents, expected \in Active : AbortScoped(a, expected)
    \/ \E m \in Messages, a \in Agents, verb \in Verbs : Sign(m, a, verb)
    \/ \E m \in Messages : Deliver(m) \/ ApplyDelivered(m)
    \/ ScanOrphans \/ DeliverAbort \/ ApplyAbort \/ MarkOrphaned
    \/ ConsumeCompletion

\* Workers return: they run under a timeout and a tool-call limit.
SwarmFairness ==
    /\ \A a \in Agents : WF_swarmVars(Goroutine(a))
    /\ WF_swarmVars(ConsumeCompletion)

SwarmSpec == SwarmInit /\ [][SwarmNext]_swarmVars /\ SwarmFairness

-----------------------------------------------------------------------------
\* The lanes count exactly the active agents, whichever of worker, operator,
\* parent and orphan scan ends an agent first, and stay within their limits; an
\* agent has a channel while it is active and no longer; a worker that outlives
\* its agent has been cancelled, unless the abort came before it could be; a verb
\* is accepted at most once however often it is delivered; and a Completion
\* never reports an agent that is still active, or one twice.
SwarmInv ==
    LET active == {a \in Agents : state[a] \in Active} IN
    /\ globalCount = Cardinality(active) /\ globalCount <= GlobalLaneMax
    /\ \A s \in Sessions : /\ sessionCount[s] = Cardinality({a \in active : SessionOf[a] = s})
                           /\ sessionCount[s] <= SessionLaneMax
    /\ \A p \in Parents : /\ parentCount[p] = Cardinality({a \in active : ParentOf[a] = p})
                          /\ parentCount[p] <= ParentLaneMax
    /\ channels = active /\ silent \subseteq active
    /\ \A a \in Agents : worker[a] = "working" /\ state[a] \in Final => a \in cancelled
    /\ \A m \in Messages : messages[m] # Unsigned => messages[m].accepted <= 1
    /\ \A i \in 1..Len(completions) :
         /\ completions[i][2] \in Final
         /\ completions[i][1] \notin consumed
         /\ \A j \in 1..Len(completions) : completions[i][1] = completions[j][1] => i = j

\* Every child that was spawned leaves its lanes and its Completion is taken,
\* also when nobody aborts it and when more of them end than the channel holds.
ChildrenReport ==
    \A a \in Agents : state[a] = "running" ~> state[a] \in Final /\ a \in consumed
=====
