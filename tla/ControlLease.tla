---------------------------- MODULE ControlLease ----------------------------
(***************************************************************************)
(* Takeover leases for one browser, desktop or terminal resource           *)
(* (internal/controllease/service.go).                                     *)
(*                                                                         *)
(* A durable lease record says who has authority over the resource: the    *)
(* agent's executor, or a human operator until the lease expires.  Every   *)
(* handler runs under the resource's in-process mutex.  BeginAutomation    *)
(* and BeginOperator return with the mutex HELD: the caller performs one   *)
(* browser, desktop or terminal action and then unlocks it.                *)
(*                                                                         *)
(* Resources do not share state (one row and one mutex per target key), so *)
(* the module models one of them.                                          *)
(***************************************************************************)
EXTENDS Integers, TLAPS

CONSTANTS
    Executors,      \* goroutines that run agent tool calls on the resource
    Operators,      \* human clients
    Free,           \* the mutex has no holder
    TTLs,           \* lease durations a client may ask for, in clock ticks
    MaxTime,        \* bound: the clock stops here
    MaxRevision     \* bound: no lease is granted or renewed past this revision

Agents == Executors \cup Operators

ASSUME LeaseAssumption ==
    /\ Executors \cap Operators = {}
    /\ Free \notin Agents
    /\ TTLs \subseteq Nat \ {0}
    /\ MaxTime \in Nat
    /\ MaxRevision \in Nat

VARIABLES
    lease,          \* the durable row (SaveLivingState / LoadLivingState)
    issued,         \* how many lease identifiers uuid.New has produced
    lock,           \* the holder of the resource mutex, or Free
    acting,         \* acting[a]: the credential a's current action began with
    now             \* the service clock

vars == <<lease, issued, lock, acting, now>>

NoID == 0           \* uuid.Nil
States == {"available", "active", "released", "expired"}
Lease == [id : Nat, state : States, authority : {"executor", "operator"},
          revision : Nat, expires : Nat]

Credential == [id : Nat, revision : Nat]
Idle == [id |-> NoID, revision |-> -1]
Automating == [id |-> NoID, revision |-> 0]

-----------------------------------------------------------------------------
(* loadEffective and the guards shared by the handlers *)

availableLease == [id |-> NoID, state |-> "available", authority |-> "executor",
                   revision |-> 0, expires |-> 0]

\* Mutant: the expiry time is never looked at.
NeverExpired(l) == FALSE

Expired(l) == l.state = "active" /\ now >= l.expires

\* The two durable forms a granted lease takes: the operator has it, or it has
\* ended and its identifier stays in the row.
Granted(id, revision, expires) ==
    [id |-> id, state |-> "active", authority |-> "operator",
     revision |-> revision, expires |-> expires]

Ended(l, state) ==
    [id |-> l.id, state |-> state, authority |-> "executor",
     revision |-> l.revision + 1, expires |-> l.expires]

\* An active lease whose time has passed is rewritten as expired, under a new
\* revision, by whichever handler reads it first.
loadEffective == IF Expired(lease) THEN Ended(lease, "expired") ELSE lease

HeldByOperator(l) == l.state = "active" /\ l.authority = "operator"

\* Mutant: the handlers run without the resource mutex.
NoMutex == TRUE

\* lock.Lock(): a handler, and the action that a Begin handler starts, waits
\* for the mutex.
Unlocked == lock = Free

\* Mutant: Acquire checks the revision only.
AlwaysVacant(l) == TRUE

\* What Acquire requires of the lease it replaces.
Vacant(l) == l.state # "active"

Init ==
    /\ lease = availableLease
    /\ issued = 0
    /\ lock = Free
    /\ acting = [a \in Agents |-> Idle]
    /\ now = 0

-----------------------------------------------------------------------------
(* Handlers.  A handler that fails before its first save leaves the row as  *)
(* it is, which is a stuttering step.  One that is refused, or whose own    *)
(* save fails, has still written what loadEffective wrote.                  *)

Status ==
    /\ Unlocked
    /\ lease' = loadEffective
    /\ UNCHANGED <<issued, lock, acting, now>>

Acquire(revision, ttl) ==
    /\ Unlocked
    /\ \/ /\ loadEffective.revision = revision
          /\ Vacant(loadEffective)
          /\ revision < MaxRevision /\ now + ttl <= MaxTime
          /\ issued' = issued + 1
          /\ lease' = Granted(issued', revision + 1, now + ttl)
       \/ lease' = loadEffective /\ UNCHANGED issued
    /\ UNCHANGED <<lock, acting, now>>

Renew(id, revision, ttl) ==
    /\ id # NoID /\ Unlocked
    /\ \/ /\ loadEffective.id = id
          /\ loadEffective.revision = revision
          /\ HeldByOperator(loadEffective)
          /\ revision < MaxRevision /\ now + ttl <= MaxTime
          /\ lease' = Granted(id, revision + 1, now + ttl)
       \/ lease' = loadEffective
    /\ UNCHANGED <<issued, lock, acting, now>>

Release(id, revision) ==
    /\ id # NoID /\ Unlocked
    /\ \/ /\ loadEffective.id = id
          /\ loadEffective.revision = revision
          /\ HeldByOperator(loadEffective)
          /\ lease' = Ended(loadEffective, "released")
       \/ lease' = loadEffective
    /\ UNCHANGED <<issued, lock, acting, now>>

\* The executor behind the resource stopped: whoever holds the lease loses it.
ReconcileStopped ==
    /\ Unlocked
    /\ \/ /\ loadEffective.state = "active"
          /\ lease' = Ended(loadEffective, "released")
       \/ lease' = loadEffective
    /\ UNCHANGED <<issued, lock, acting, now>>

BeginAutomation(e) ==
    /\ acting[e] = Idle /\ Unlocked
    /\ lease' = loadEffective
    /\ ~HeldByOperator(loadEffective)           \* otherwise ErrHeld
    /\ lock' = e
    /\ acting' = [acting EXCEPT ![e] = Automating]
    /\ UNCHANGED <<issued, now>>

BeginOperator(o, id, revision) ==
    /\ acting[o] = Idle /\ Unlocked
    /\ lease' = loadEffective
    /\ loadEffective.id = id /\ HeldByOperator(loadEffective)   \* else ErrUnauthorized
    /\ loadEffective.revision = revision                        \* else ErrStale
    /\ lock' = o
    /\ acting' = [acting EXCEPT ![o] = [id |-> id, revision |-> revision]]
    /\ UNCHANGED <<issued, now>>

\* The closure both Begin handlers return: lock.Unlock, deferred to the end of
\* the browser, desktop or terminal action.
EndAction(a) ==
    /\ acting[a] # Idle
    /\ lock' = Free
    /\ acting' = [acting EXCEPT ![a] = Idle]
    /\ UNCHANGED <<lease, issued, now>>

\* The daemon dies: actions and mutexes vanish, the row stays.
Crash ==
    /\ lock' = Free
    /\ acting' = [a \in Agents |-> Idle]
    /\ UNCHANGED <<lease, issued, now>>

Tick ==
    /\ now < MaxTime
    /\ now' = now + 1
    /\ UNCHANGED <<lease, issued, lock, acting>>

\* What a client may send: any identifier handed out so far, any revision.
IDs == 1..issued
Revisions == 0..(lease.revision + 1)

Next ==
    \/ Status
    \/ ReconcileStopped
    \/ \E revision \in Revisions, ttl \in TTLs : Acquire(revision, ttl)
    \/ \E id \in IDs, revision \in Revisions, ttl \in TTLs : Renew(id, revision, ttl)
    \/ \E id \in IDs, revision \in Revisions : Release(id, revision)
    \/ \E e \in Executors : BeginAutomation(e)
    \/ \E o \in Operators, id \in IDs, revision \in Revisions : BeginOperator(o, id, revision)
    \/ \E a \in Agents : EndAction(a)
    \/ Crash
    \/ Tick

Spec == Init /\ [][Next]_vars

\* Time passes, an action that began ends (every caller defers the unlock), and
\* an executor that wants the resource keeps asking for it.
Fairness ==
    /\ WF_vars(Tick)
    /\ \A a \in Agents : WF_vars(EndAction(a))
    /\ WF_vars(\E e \in Executors : BeginAutomation(e))

-----------------------------------------------------------------------------
(* Properties *)

\* Types, and the pairing of state and authority that every save keeps: the
\* operator has authority exactly while a lease is active.
TypeOK ==
    /\ lease \in Lease
    /\ issued \in Nat
    /\ lock \in Agents \cup {Free}
    /\ acting \in [Agents -> Credential \cup {Idle}]
    /\ now \in 0..MaxTime
    /\ lease.authority = "operator" <=> lease.state = "active"

\* While an executor performs an automated action, the operator has no lease:
\* Acquire waits for the action boundary ("executor_paused_at_action_boundary")
\* and BeginAutomation refuses while a lease is held.
AutomationExcludesTakeover ==
    \A e \in Executors : acting[e] # Idle => ~HeldByOperator(lease)

\* While an operator's action runs, the durable lease is the one the action was
\* admitted under, revision included: no expiry, release, renewal or stop is
\* written in the middle of it, even when the clock passes the expiry time.
OperatorActsUnderExactLease ==
    \A o \in Operators : acting[o] # Idle =>
        /\ HeldByOperator(lease)
        /\ acting[o] = [id |-> lease.id, revision |-> lease.revision]

\* Every durable change of the lease, expiry included, takes a revision nobody
\* has seen, so a command that carries an older revision can never apply to it.
RevisionFencesChanges ==
    [][lease' # lease => lease'.revision > lease.revision]_vars

\* A lease that is still running is not taken away from its holder by another
\* Acquire: its identifier changes only after it expired or was given up.
NoSteal ==
    [][HeldByOperator(lease) /\ now < lease.expires => lease'.id = lease.id]_vars

\* Authority comes back to the executor: a takeover whose operator has gone
\* away ends by itself, and an automated action runs again.
AuthorityReturns ==
    []<>(\E e \in Executors : acting[e] # Idle)

\* What every handler of the service keeps, for one resource: the types, and both
\* sides of the takeover.
LeaseInv == TypeOK /\ AutomationExcludesTakeover /\ OperatorActsUnderExactLease

\* What no handler may do to the durable lease: change it under an old revision,
\* or hand a running lease to someone else.
LeaseSteps == RevisionFencesChanges /\ NoSteal

-----------------------------------------------------------------------------
(* Proofs, for every set of executors and operators, every set of lease
   durations and every bound. *)

\* Whoever is acting holds the resource mutex.  This is what makes the two
\* exclusion properties inductive: a handler that could disturb them needs the
\* mutex free, so that nobody is acting when it runs.
MutexHeld == \A a \in Agents : acting[a] # Idle => lock = a

IInv ==
    /\ TypeOK
    /\ MutexHeld
    /\ AutomationExcludesTakeover
    /\ OperatorActsUnderExactLease

-----------------------------------------------------------------------------

\* Idle is neither credential a Begin handler hands out.
LEMMA IdleIsNoCredential ==
    /\ Idle \notin Credential
    /\ Automating \in Credential
  BY DEF Idle, Credential, Automating, NoID

\* loadEffective returns a well-formed lease, whose revision is higher whenever
\* it is not the stored one.
LEMMA LoadEffectiveType ==
    ASSUME TypeOK
    PROVE  /\ loadEffective \in Lease
           /\ loadEffective.authority = "operator" <=> loadEffective.state = "active"
           /\ loadEffective # lease => loadEffective.revision > lease.revision
           /\ loadEffective.revision >= lease.revision
           /\ loadEffective.id = lease.id
  BY DEF TypeOK, loadEffective, Ended, Lease, States

\* A handler finds the mutex free only when nobody acts.
LEMMA UnlockedMeansNobodyActs ==
    ASSUME MutexHeld, Unlocked
    PROVE  \A a \in Agents : acting[a] = Idle
  BY LeaseAssumption DEF MutexHeld, Unlocked

\* The six handlers that only rewrite the lease, seen together: they run with
\* the mutex free, and leave a well-formed lease whose revision has grown if it
\* changed at all.
LEMMA HandlerEffect ==
    ASSUME TypeOK,
           \/ Status
           \/ ReconcileStopped
           \/ \E revision \in Revisions, ttl \in TTLs : Acquire(revision, ttl)
           \/ \E id \in IDs, revision \in Revisions, ttl \in TTLs : Renew(id, revision, ttl)
           \/ \E id \in IDs, revision \in Revisions : Release(id, revision)
    PROVE  /\ Unlocked
           /\ lease' \in Lease
           /\ lease'.authority = "operator" <=> lease'.state = "active"
           /\ lease' # lease => lease'.revision > lease.revision
           /\ HeldByOperator(lease) /\ now < lease.expires => lease'.id = lease.id
           /\ issued' \in Nat
           /\ UNCHANGED <<lock, acting, now>>
  <1>0. /\ lease \in Lease /\ issued \in Nat /\ now \in Nat /\ now \in 0..MaxTime
        /\ lease.revision \in Nat
        /\ Revisions \subseteq Nat /\ IDs \subseteq Nat
    BY LeaseAssumption DEF TypeOK, Lease, Revisions, IDs
  <1>1. CASE Status
    BY <1>0, <1>1, LoadEffectiveType DEF Status
  <1>2. CASE ReconcileStopped
    BY <1>0, <1>2, LoadEffectiveType DEF ReconcileStopped, Ended, Lease, States
  <1>3. ASSUME NEW revision \in Revisions, NEW ttl \in TTLs, Acquire(revision, ttl)
        PROVE  /\ Unlocked
               /\ lease' \in Lease
               /\ lease'.authority = "operator" <=> lease'.state = "active"
               /\ lease' # lease => lease'.revision > lease.revision
               /\ HeldByOperator(lease) /\ now < lease.expires => lease'.id = lease.id
               /\ issued' \in Nat
               /\ UNCHANGED <<lock, acting, now>>
    <2>1. revision \in Nat /\ ttl \in Nat
      BY <1>0, LeaseAssumption
    <2>2. CASE lease' = loadEffective /\ UNCHANGED issued
      BY <1>0, <1>3, <2>2, LoadEffectiveType DEF Acquire
    <2>3. CASE ~(lease' = loadEffective /\ UNCHANGED issued)
      <3>1. /\ loadEffective.revision = revision
            /\ Vacant(loadEffective)
            /\ issued' = issued + 1
            /\ lease' = Granted(issued', revision + 1, now + ttl)
        BY <1>3, <2>3 DEF Acquire
      <3>2. ~(HeldByOperator(lease) /\ now < lease.expires)
        BY <1>0, <3>1 DEF HeldByOperator, Vacant, loadEffective, Expired, Ended, Lease
      <3>3. lease' \in Lease /\ lease'.revision > lease.revision
        BY <1>0, <2>1, <3>1, LoadEffectiveType DEF Granted, Lease, States
      <3>4. lease'.authority = "operator" /\ lease'.state = "active" /\ issued' \in Nat
        BY <1>0, <3>1 DEF Granted
      <3> QED BY <1>3, <3>2, <3>3, <3>4 DEF Acquire
    <2> QED BY <2>2, <2>3
  <1>4. ASSUME NEW id \in IDs, NEW revision \in Revisions, NEW ttl \in TTLs,
               Renew(id, revision, ttl)
        PROVE  /\ Unlocked
               /\ lease' \in Lease
               /\ lease'.authority = "operator" <=> lease'.state = "active"
               /\ lease' # lease => lease'.revision > lease.revision
               /\ lease'.id = lease.id
               /\ issued' \in Nat
               /\ UNCHANGED <<lock, acting, now>>
    <2>1. revision \in Nat /\ ttl \in Nat
      BY <1>0, LeaseAssumption
    <2> QED BY <1>0, <1>4, <2>1, LoadEffectiveType DEF Renew, Granted, Lease, States, HeldByOperator
  <1>5. ASSUME NEW id \in IDs, NEW revision \in Revisions, Release(id, revision)
        PROVE  /\ Unlocked
               /\ lease' \in Lease
               /\ lease'.authority = "operator" <=> lease'.state = "active"
               /\ lease' # lease => lease'.revision > lease.revision
               /\ lease'.id = lease.id
               /\ issued' \in Nat
               /\ UNCHANGED <<lock, acting, now>>
    <2>1. revision \in Nat
      BY <1>0
    <2> QED BY <1>0, <1>5, <2>1, LoadEffectiveType DEF Release, Ended, Lease, States, HeldByOperator
  <1> QED BY <1>1, <1>2, <1>3, <1>4, <1>5

-----------------------------------------------------------------------------

\* The initial state satisfies the invariant.
LEMMA InitIInv == Init => IInv
  <1> SUFFICES ASSUME Init PROVE IInv
    OBVIOUS
  <1>1. \A a \in Agents : acting[a] = Idle
    BY DEF Init
  <1>2. TypeOK
    BY LeaseAssumption DEF Init, TypeOK, availableLease, Lease, States, NoID
  <1> QED BY <1>1, <1>2 DEF IInv, MutexHeld, AutomationExcludesTakeover,
                            OperatorActsUnderExactLease, Agents

\* Every step preserves the invariant.
LEMMA NextIInv == IInv /\ [Next]_vars => IInv'
  <1> SUFFICES ASSUME IInv, [Next]_vars PROVE IInv'
    OBVIOUS
  <1>0. TypeOK /\ MutexHeld
    BY DEF IInv
  <1>1. CASE \/ Status
             \/ ReconcileStopped
             \/ \E revision \in Revisions, ttl \in TTLs : Acquire(revision, ttl)
             \/ \E id \in IDs, revision \in Revisions, ttl \in TTLs : Renew(id, revision, ttl)
             \/ \E id \in IDs, revision \in Revisions : Release(id, revision)
    <2>1. TypeOK'
      BY <1>0, <1>1, HandlerEffect DEF TypeOK
    <2>2. \A a \in Agents : acting'[a] = Idle
      BY <1>0, <1>1, HandlerEffect, UnlockedMeansNobodyActs
    <2> QED BY <2>1, <2>2 DEF IInv, MutexHeld, AutomationExcludesTakeover,
                              OperatorActsUnderExactLease, Agents
  <1>2. ASSUME NEW e \in Executors, BeginAutomation(e) PROVE IInv'
    <2>1. \A a \in Agents : acting[a] = Idle
      BY <1>0, <1>2, UnlockedMeansNobodyActs DEF BeginAutomation
    <2>2. e \in Agents /\ e \notin Operators
      BY LeaseAssumption DEF Agents
    <2>3. TypeOK'
      BY <1>0, <1>2, <2>2, LoadEffectiveType, IdleIsNoCredential DEF BeginAutomation, TypeOK
    <2>4. \A a \in Agents : acting'[a] # Idle => a = e
      BY <1>0, <1>2, <2>1 DEF BeginAutomation, TypeOK
    <2>5. lock' = e /\ ~HeldByOperator(lease')
      BY <1>2 DEF BeginAutomation, HeldByOperator
    <2> QED BY <2>2, <2>3, <2>4, <2>5 DEF IInv, MutexHeld, AutomationExcludesTakeover,
                                          OperatorActsUnderExactLease, Agents
  <1>3. ASSUME NEW o \in Operators, NEW id \in IDs, NEW revision \in Revisions,
               BeginOperator(o, id, revision)
        PROVE  IInv'
    <2>1. \A a \in Agents : acting[a] = Idle
      BY <1>0, <1>3, UnlockedMeansNobodyActs DEF BeginOperator
    <2>2. o \in Agents /\ o \notin Executors
      BY LeaseAssumption DEF Agents
    <2>3. [id |-> id, revision |-> revision] \in Credential
      BY <1>0 DEF Credential, IDs, Revisions, TypeOK, Lease
    <2>4. TypeOK'
      BY <1>0, <1>3, <2>2, <2>3, LoadEffectiveType DEF BeginOperator, TypeOK
    <2>5. \A a \in Agents : acting'[a] # Idle => a = o
      BY <1>0, <1>3, <2>1 DEF BeginOperator, TypeOK
    <2>6. /\ lock' = o
          /\ HeldByOperator(lease') /\ lease'.id = id /\ lease'.revision = revision
          /\ acting'[o] = [id |-> id, revision |-> revision]
      BY <1>0, <1>3, <2>2 DEF BeginOperator, HeldByOperator, TypeOK
    <2> QED BY <2>2, <2>4, <2>5, <2>6 DEF IInv, MutexHeld, AutomationExcludesTakeover,
                                          OperatorActsUnderExactLease, Agents
  <1>4. ASSUME NEW a \in Agents, EndAction(a) PROVE IInv'
    <2>1. TypeOK'
      BY <1>0, <1>4 DEF EndAction, TypeOK
    <2>2. \A b \in Agents : acting'[b] = Idle
      BY <1>0, <1>4 DEF EndAction, TypeOK, MutexHeld
    <2> QED BY <2>1, <2>2 DEF IInv, MutexHeld, AutomationExcludesTakeover,
                              OperatorActsUnderExactLease, Agents
  <1>5. CASE Crash
    <2>1. TypeOK'
      BY <1>0, <1>5 DEF Crash, TypeOK
    <2>2. \A b \in Agents : acting'[b] = Idle
      BY <1>5 DEF Crash
    <2> QED BY <2>1, <2>2 DEF IInv, MutexHeld, AutomationExcludesTakeover,
                              OperatorActsUnderExactLease, Agents
  <1>6. CASE Tick
    <2>1. TypeOK'
      BY <1>0, <1>6, LeaseAssumption DEF Tick, TypeOK
    <2> QED BY <1>6, <2>1 DEF Tick, IInv, MutexHeld, AutomationExcludesTakeover,
                              OperatorActsUnderExactLease, HeldByOperator
  <1>7. CASE UNCHANGED vars
    BY <1>7 DEF vars, IInv, TypeOK, MutexHeld, AutomationExcludesTakeover,
                OperatorActsUnderExactLease, HeldByOperator
  <1> QED BY <1>1, <1>2, <1>3, <1>4, <1>5, <1>6, <1>7 DEF Next

\* Types, and with them the pairing of operator authority and active state in
\* every row the service writes; automated actions and takeovers exclude each
\* other; and an operator's action runs to its end under the very lease revision
\* it was admitted with - for any number of executors, operators and durations.
THEOREM TakeoverSafety == Spec => []LeaseInv
  BY InitIInv, NextIInv, PTL DEF Spec, IInv, LeaseInv

\* What a step may do to the lease: the two action properties at once.
LEMMA StepFences ==
    ASSUME IInv, [Next]_vars
    PROVE  /\ lease' # lease => lease'.revision > lease.revision
           /\ HeldByOperator(lease) /\ now < lease.expires => lease'.id = lease.id
  <1>0. TypeOK
    BY DEF IInv
  <1>1. CASE \/ Status
             \/ ReconcileStopped
             \/ \E revision \in Revisions, ttl \in TTLs : Acquire(revision, ttl)
             \/ \E id \in IDs, revision \in Revisions, ttl \in TTLs : Renew(id, revision, ttl)
             \/ \E id \in IDs, revision \in Revisions : Release(id, revision)
    BY <1>0, <1>1, HandlerEffect
  <1>2. CASE \/ \E e \in Executors : BeginAutomation(e)
             \/ \E o \in Operators, id \in IDs, revision \in Revisions :
                    BeginOperator(o, id, revision)
    BY <1>0, <1>2, LoadEffectiveType DEF BeginAutomation, BeginOperator
  <1>3. CASE (\E a \in Agents : EndAction(a)) \/ Crash \/ Tick \/ UNCHANGED vars
    BY <1>3 DEF EndAction, Crash, Tick, vars
  <1> QED BY <1>1, <1>2, <1>3 DEF Next

\* Every durable change of the lease, whoever makes it and whatever it is, takes
\* a higher revision; and no Acquire, expiry or stop replaces the identifier of a
\* lease that is still running.
THEOREM LeaseChanges == Spec => LeaseSteps
  <1>1. IInv /\ [Next]_vars => [lease' # lease => lease'.revision > lease.revision]_vars
    BY StepFences
  <1>2. IInv /\ [Next]_vars =>
          [HeldByOperator(lease) /\ now < lease.expires => lease'.id = lease.id]_vars
    BY StepFences
  <1> QED BY <1>1, <1>2, InitIInv, NextIInv, PTL
          DEF Spec, LeaseSteps, RevisionFencesChanges, NoSteal
=============================================================================
