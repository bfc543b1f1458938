------------------------------ MODULE Scheduler ------------------------------
(***************************************************************************)
(* The durable alarm scheduler (internal/scheduler/scheduler.go).          *)
(*                                                                         *)
(* Alarms live in one encrypted document per actor.  Every mutation saves  *)
(* the document before it replaces the in-memory copy, so one variable     *)
(* stands for both.  A single goroutine claims the earliest due alarm,     *)
(* calls the waker with the mutex free, and records the result.  A crash   *)
(* loses that goroutine; a restart turns claimed alarms back into active   *)
(* ones that are due at once.                                              *)
(*                                                                         *)
(* An occurrence is identified by its alarm and by the time it was first   *)
(* due: OccurrenceID is ID:NextFireAt, minted by the first claim and kept  *)
(* until the occurrence is settled.                                        *)
(***************************************************************************)
EXTENDS Integers, FiniteSets, TLC

CONSTANTS
    Alarms,         \* 1 .. n: alarm identifiers (fresh UUIDs), in the order of their creation
    Actors,
    Keys,           \* idempotency keys
    NoKey,          \* the empty idempotency key
    Delays,         \* delay_seconds of one-time alarms, period of recurring ones
    MaxFailures,    \* an alarm's max_failures
    ClaimLease,     \* Config.ClaimLease
    Backoff,        \* retryBaseBackoff
    MaxBackoff,     \* retryMaximumBackoff
    MaxAlarms,      \* maxAlarmsPerActor
    MaxTime,        \* bound of the clock
    MaxFaults       \* bound on crashes, shutdowns and failed saves together

VARIABLES
    now,
    documents,      \* the alarms on disk and in memory, by identifier
    sweep,          \* where ProcessDue is, and the claim it holds
    daemon,         \* "up", or "closing" once Close cancelled the context
    minted,         \* history: occurrences each identifier was claimed for
    created,        \* the identifiers uuid.New has produced
    attempts,       \* history: wakes of the unsettled occurrence of an alarm
    interrupted,    \* history: those of them whose result was not recorded
    faults

vars == <<now, documents, sweep, daemon, minted, created, attempts, interrupted, faults>>

Kinds == {"once", "cron"}
Statuses == {"active", "claimed", "fired", "cancelled", "failed"}
Terminal == {"fired", "cancelled", "failed"}
NoTime == -1
Times == Nat \cup {NoTime}

Alarm ==
    [actor : Actors, kind : Kinds, every : Nat, key : Keys \cup {NoKey},
     status : Statuses, next : Nat, failures : Nat,
     claimedAt : Times, occurrence : Times, updated : Nat]

Idle == [phase |-> "idle"]
Sweep == {Idle} \cup [phase : {"waking", "woken"}, alarm : Alarms, occurrence : Nat, err : BOOLEAN]

\* Mutant: the slot that has just come due is offered again.
ThisSlotAgain(period, after) == {(after \div period) * period, NoTime}

\* The next multiple of the period; it can fail, when the expression has no
\* future occurrence or the time zone cannot be loaded.
nextCron(period, after) == {(after \div period + 1) * period, NoTime}

retryBackoff(failureCount) ==
    LET doubled[n \in 0 .. failureCount] ==
            IF n = 0 THEN Backoff
            ELSE IF 2 * doubled[n - 1] >= MaxBackoff THEN MaxBackoff ELSE 2 * doubled[n - 1]
    IN  doubled[failureCount]

Of(actor) == {a \in DOMAIN documents : documents[a].actor = actor}
Without(a) == [b \in DOMAIN documents \ {a} |-> documents[b]]

Init ==
    /\ now = 0
    /\ documents = << >>
    /\ sweep = Idle
    /\ daemon = "up"
    /\ minted = [a \in Alarms |-> {}]
    /\ created = {}
    /\ attempts = [a \in Alarms |-> 0]
    /\ interrupted = [a \in Alarms |-> 0]
    /\ faults = 0

-----------------------------------------------------------------------------
\* At the limit the last terminal alarm goes: the one untouched for longest.
Evictable(actor) ==
    {a \in Of(actor) :
        /\ documents[a].status \in Terminal
        /\ \A b \in Of(actor) :
             documents[b].status \in Terminal => documents[a].updated <= documents[b].updated}

makeRoom(actor) ==
    IF Cardinality(Of(actor)) < MaxAlarms THEN {documents}
    ELSE {Without(a) : a \in Evictable(actor)}

\* The alarm an idempotency key already names.
KeyOwners(actor, key) == {a \in Of(actor) : key # NoKey /\ documents[a].key = key}

\* A key that is in use returns its alarm or a conflict and changes nothing.
Create(id, actor, kind, every, key) ==
    /\ created = {b \in Alarms : b < id}
    /\ KeyOwners(actor, key) = {}
    /\ \E next \in IF kind = "once" THEN {now + every} ELSE nextCron(every, now) \ {NoTime} :
       \E rest \in makeRoom(actor) :
         documents' = rest @@ (id :>
             [actor |-> actor, kind |-> kind, every |-> every, key |-> key,
              status |-> "active", next |-> next, failures |-> 0,
              claimedAt |-> NoTime, occurrence |-> NoTime, updated |-> now])
    /\ created' = created \cup {id}
    /\ UNCHANGED <<now, sweep, daemon, minted, attempts, interrupted, faults>>

Cancel(id) ==
    /\ id \in DOMAIN documents
    /\ documents[id].status \in {"active", "claimed"}
    /\ documents' = [documents EXCEPT ![id].status = "cancelled",
                                      ![id].claimedAt = NoTime,
                                      ![id].updated = now]
    /\ UNCHANGED <<now, sweep, daemon, minted, created, attempts, interrupted, faults>>

-----------------------------------------------------------------------------
Due(a) == a.status = "active" /\ a.next <= now

\* Mutant: claims never lapse.
NeverLapses(a) == FALSE

expiredClaim(a) == a.status = "claimed" /\ a.claimedAt + ClaimLease <= now

Claimable == {a \in DOMAIN documents : Due(documents[a]) \/ expiredClaim(documents[a])}

\* Mutant: a retry names a new occurrence.
AlwaysMints(a) == a.next

\* A claim keeps the occurrence of an earlier claim that was not settled.
OccurrenceOf(a) == IF a.occurrence = NoTime THEN a.next ELSE a.occurrence

\* Earliest first.  The identifier decides ties; identifiers are random.
claimNext ==
    /\ daemon = "up" /\ sweep = Idle
    /\ \E id \in Claimable :
         /\ \A b \in Claimable : documents[id].next <= documents[b].next
         /\ LET a == documents[id]
                o == OccurrenceOf(a)
            IN  /\ documents' = [documents EXCEPT ![id].status = "claimed",
                                                  ![id].claimedAt = now,
                                                  ![id].updated = now,
                                                  ![id].occurrence = o]
                /\ sweep' = [phase |-> "waking", alarm |-> id, occurrence |-> o, err |-> FALSE]
                /\ minted' = [minted EXCEPT ![id] = @ \cup {o}]
                /\ attempts' = [attempts EXCEPT ![id] = @ + 1]
    /\ UNCHANGED <<now, daemon, created, interrupted, faults>>

\* The waker is called with the mutex free.  A wake message that fails the
\* execution-time scan counts as an error, and so does a cancelled context.
WakeReturns(err) ==
    /\ sweep.phase = "waking"
    /\ daemon = "closing" => err
    /\ sweep' = [sweep EXCEPT !.phase = "woken", !.err = err]
    /\ UNCHANGED <<now, documents, daemon, minted, created, attempts, interrupted, faults>>

\* A recurring alarm moves on to its next occurrence, or fails without one.
Advanced(a, next) ==
    [a EXCEPT !.status = IF next = NoTime THEN "failed" ELSE "active",
              !.next = IF next = NoTime THEN @ ELSE next,
              !.occurrence = NoTime]

\* The records a claimed alarm may become once its wake returned.
Settled(a, err) ==
    LET b == [a EXCEPT !.claimedAt = NoTime, !.updated = now] IN
    IF ~err
    THEN IF a.kind = "once"
         THEN {[b EXCEPT !.failures = 0, !.status = "fired", !.occurrence = NoTime]}
         ELSE {Advanced([b EXCEPT !.failures = 0], next) : next \in nextCron(a.every, now)}
    ELSE IF a.failures + 1 < MaxFailures
         THEN {[b EXCEPT !.failures = @ + 1, !.status = "active",
                         !.next = now + retryBackoff(a.failures)]}
         ELSE IF a.kind = "once" THEN {[b EXCEPT !.failures = @ + 1, !.status = "failed"]}
         ELSE {Advanced([b EXCEPT !.failures = 0], next) : next \in nextCron(a.every, now)}

\* Mutant: the status of the alarm is not looked at again.
Found(s) ==
    /\ s.alarm \in DOMAIN documents
    /\ documents[s.alarm].occurrence = s.occurrence

\* The alarm finish looks for: identifier and occurrence match, and it is
\* still claimed.
Held(s) ==
    /\ s.alarm \in DOMAIN documents
    /\ documents[s.alarm].occurrence = s.occurrence
    /\ documents[s.alarm].status = "claimed"

\* finish records the result.  An alarm cancelled meanwhile stays cancelled,
\* one evicted meanwhile is an error that changes nothing.
finish ==
    /\ sweep.phase = "woken"
    /\ IF Held(sweep)
       THEN \E b \in Settled(documents[sweep.alarm], sweep.err) :
              /\ documents' = [documents EXCEPT ![sweep.alarm] = b]
              /\ attempts' = [attempts EXCEPT ![sweep.alarm] =
                                 IF b.occurrence = NoTime THEN 0 ELSE @]
              /\ interrupted' = [interrupted EXCEPT ![sweep.alarm] =
                                    IF b.occurrence = NoTime THEN 0 ELSE @]
       ELSE UNCHANGED <<documents, attempts, interrupted>>
    /\ sweep' = Idle
    /\ UNCHANGED <<now, daemon, minted, created, faults>>

\* The save in finish fails: the alarm stays claimed until its claim lapses.
finishUnsaved ==
    /\ sweep.phase = "woken" /\ faults < MaxFaults
    /\ Held(sweep)
    /\ sweep' = Idle
    /\ interrupted' = [interrupted EXCEPT ![sweep.alarm] = @ + 1]
    /\ faults' = faults + 1
    /\ UNCHANGED <<now, documents, daemon, minted, created, attempts>>

-----------------------------------------------------------------------------
\* A claimed alarm becomes active and due, its occurrence unchanged.
Restored(a) ==
    IF a.status = "claimed"
    THEN [a EXCEPT !.status = "active", !.claimedAt = NoTime, !.next = now, !.updated = now]
    ELSE a

restore ==
    /\ documents' = [a \in DOMAIN documents |-> Restored(documents[a])]
    /\ sweep' = Idle
    /\ daemon' = "up"

\* The process dies at any point and the next one restores the documents.
Crash ==
    /\ faults < MaxFaults
    /\ faults' = faults + 1
    /\ interrupted' =
         [a \in Alarms |->
            IF sweep # Idle /\ sweep.alarm = a /\ Held(sweep)
            THEN interrupted[a] + 1 ELSE interrupted[a]]
    /\ restore
    /\ UNCHANGED <<now, minted, created, attempts>>

\* Close cancels the context of a wake in flight and waits for the loop.
Close ==
    /\ daemon = "up" /\ faults < MaxFaults
    /\ daemon' = "closing"
    /\ faults' = faults + 1
    /\ UNCHANGED <<now, documents, sweep, minted, created, attempts, interrupted>>

Restart ==
    /\ daemon = "closing" /\ sweep = Idle
    /\ restore
    /\ UNCHANGED <<now, minted, created, attempts, interrupted, faults>>

Tick ==
    /\ now < MaxTime
    /\ now' = now + 1
    /\ UNCHANGED <<documents, sweep, daemon, minted, created, attempts, interrupted, faults>>

Next ==
    \/ \E id \in Alarms, actor \in Actors, kind \in Kinds, every \in Delays,
          key \in Keys \cup {NoKey} : Create(id, actor, kind, every, key)
    \/ \E id \in Alarms : Cancel(id)
    \/ claimNext
    \/ \E err \in BOOLEAN : WakeReturns(err)
    \/ finish
    \/ finishUnsaved
    \/ Crash
    \/ Close
    \/ Restart
    \/ Tick

Spec == Init /\ [][Next]_vars

\* The sweep loop runs once a second and its waker returns; the clock advances;
\* a service that was closed is started again.
Fairness ==
    /\ WF_vars(claimNext)
    /\ WF_vars(\E err \in BOOLEAN : WakeReturns(err))
    /\ WF_vars(finish)
    /\ WF_vars(Restart)
    /\ WF_vars(Tick)

FairSpec == Spec /\ Fairness

-----------------------------------------------------------------------------
\* Every alarm record is well formed; exactly claimed alarms have a claim time.
TypeOK ==
    /\ now \in 0 .. MaxTime
    /\ DOMAIN documents \subseteq Alarms
    /\ \A a \in DOMAIN documents :
         /\ documents[a] \in Alarm
         /\ (documents[a].status = "claimed") <=> (documents[a].claimedAt # NoTime)
    /\ sweep \in Sweep
    /\ daemon \in {"up", "closing"}

\* However often delivery is retried, interrupted or resumed after a restart, a
\* one-time alarm is delivered under one occurrence identifier, so the waker's
\* idempotency key is stable.
OnceHasOneOccurrence ==
    \A a \in DOMAIN documents :
        documents[a].kind = "once" => Cardinality(minted[a]) <= 1

\* A recurring alarm never goes back and never repeats a slot: an occurrence
\* minted by a claim is due, and later than every occurrence before it.
OccurrencesAdvance ==
    [][\A a \in DOMAIN documents :
         /\ documents[a].occurrence = NoTime
         /\ a \in DOMAIN documents' /\ documents'[a].occurrence # NoTime
         => /\ documents'[a].occurrence <= now
            /\ \A p \in minted[a] : p < documents'[a].occurrence]_vars

\* The wakes of an unsettled occurrence are the recorded failures, the
\* interrupted deliveries and the one in flight, and recorded failures stay
\* within max_failures: delivery is retried a bounded number of times.
RetriesAreBounded ==
    \A a \in DOMAIN documents :
        LET d == documents[a] IN
        /\ d.failures <= MaxFailures
        /\ d.status = "active" => d.failures < MaxFailures
        /\ d.occurrence # NoTime /\ d.status \in {"active", "claimed"} =>
             attempts[a] = d.failures + interrupted[a]
                           + (IF sweep # Idle /\ sweep.alarm = a THEN 1 ELSE 0)

\* Cancelled, fired and failed alarms stay as they are: a wake that returns
\* late neither revives one nor fires it; and an alarm that is still due to fire
\* is never dropped to make room.
TerminalAlarmsStay ==
    [][\A a \in DOMAIN documents :
         IF documents[a].status \in Terminal
         THEN a \in DOMAIN documents' => documents'[a].status = documents[a].status
         ELSE a \in DOMAIN documents']_vars

\* Within an actor's document a key names at most one alarm.
KeyNamesOneAlarm ==
    \A a, b \in DOMAIN documents :
        /\ documents[a].actor = documents[b].actor
        /\ documents[a].key = documents[b].key
        /\ documents[a].key # NoKey
        => a = b

\* An alarm that the clock can still reach: due in time, or claimed early
\* enough for its claim to lapse.
Pending(a) ==
    /\ a \in DOMAIN documents
    /\ \/ documents[a].status = "active" /\ documents[a].next <= MaxTime
       \/ documents[a].status = "claimed" /\ documents[a].claimedAt + ClaimLease <= MaxTime

\* No alarm wedges: once faults stop, a pending alarm is delivered, cancelled,
\* failed or advanced, also when the sweep that claimed it never recorded a
\* result.
AlarmsDoNotWedge ==
    \A a \in Alarms : (faults = MaxFaults /\ Pending(a)) ~> ~Pending(a)

\* What the commands, the sweep and a restart keep in the alarm documents.
AlarmInv == TypeOK /\ OnceHasOneOccurrence /\ RetriesAreBounded /\ KeyNamesOneAlarm
=============================================================================
