----------------------- MODULE CommandDispatcherProofs -----------------------
(***************************************************************************)
(* Proofs about the command dispatcher, for any number of connections,     *)
(* keys, scopes and requests.                                              *)
(*                                                                         *)
(* The safety properties are not inductive by themselves: that a stored    *)
(* answer is final rests on the lock, and on what a command that is past   *)
(* its checks knows about the tables.  Ordered collects those facts.       *)
(***************************************************************************)
EXTENDS CommandDispatcher, TLAPS

\* Only the holder of commandMu is between its checks and its answer.
Serialised == \A c \in Clients : pc[c] \in Commanding => commandMu = {c}

\* A command past its checks: nothing is stored for its key, the revision it
\* read is current and is the one it expects.
Checked ==
    \A c \in Clients : pc[c] \in {"handling", "persisting"} =>
        /\ stored[key[c]] = {}
        /\ revision[c] = revisions[body[c].scope]
        /\ body[c].expected \in {Any, revision[c]}

\* A command has its effect before it is stored.
EffectFirst ==
    /\ \A c \in Clients : pc[c] = "persisting" => ran[key[c]] > 0
    /\ \A k \in Keys : stored[k] # {} => ran[k] > 0

\* A command that only its audit event separates from its answer is stored.
Audited ==
    \A c \in Clients : pc[c] = "auditing" =>
        stored[key[c]] = {Response(body[c], revision[c] + 1)}

\* Stored revisions are in the past of their scope, and so is what a query read.
Bounded ==
    /\ \A k \in Keys : \A r \in stored[k] : r.revision <= revisions[r.body.scope]
    /\ \A c \in Clients : pc[c] \in Querying => revision[c] <= revisions[body[c].scope]

Ordered ==
    /\ TypeOK
    /\ Serialised
    /\ Checked
    /\ EffectFirst
    /\ Audited
    /\ Bounded
    /\ OneAnswerPerKey
    /\ RevisionsAreUnique
    /\ ExpectationHeld
    /\ QueryIsNotAhead

-----------------------------------------------------------------------------
\* Nothing is stored and nothing runs at the start.
LEMMA OrderedInit == Init => Ordered
  BY DispatcherAssumption
     DEF Init, Ordered, TypeOK, Serialised, Checked, EffectFirst, Audited, Bounded, OneAnswerPerKey,
         RevisionsAreUnique, ExpectationHeld, QueryIsNotAhead, Commanding, Querying

\* The answer built from a request and a number is a response.
LEMMA ResponseType == \A b \in Bodies, n \in Nat : Response(b, n) \in Responses
  BY Zenon DEF Response, Responses

\* Every step keeps the types.
LEMMA TypeStep == Ordered /\ [Next]_vars => TypeOK'
<1> SUFFICES ASSUME Ordered, [Next]_vars PROVE TypeOK'
  BY Zenon
<1> USE DEF Ordered, TypeOK, Commanding, Querying, request, tables
<1>1. ASSUME NEW c \in Clients, NEW k \in Keys, NEW b \in Bodies, Dispatch(c, k, b) PROVE TypeOK'
  BY <1>1 DEF Dispatch
<1>2. ASSUME NEW c \in Clients, NEW b \in Bodies, Query(c, b) PROVE TypeOK'
  BY <1>2 DEF Query, Bodies
<1>3. ASSUME NEW c \in Clients, Lock(c) PROVE TypeOK'
  BY <1>3, Zenon DEF Lock
<1>4. ASSUME NEW c \in Clients, dispatchCommand(c) PROVE TypeOK'
  <2>1. CASE \E r \in cachedResponse(c) : Succeed(c, r.revision) /\ UNCHANGED revision
    <3>1. PICK r \in cachedResponse(c) : Succeed(c, r.revision) /\ UNCHANGED revision
      BY <2>1, Zenon
    <3>2. r.revision \in Nat
      BY <3>1 DEF cachedResponse, Responses
    <3>3. Response(body[c], r.revision) \in Responses
      BY <3>2, ResponseType, Zenon
    <3>4. answers' \in [Keys -> SUBSET Responses]
      BY <3>1, <3>3, Zenon DEF Succeed
    <3> QED
      BY <1>4, <3>1, <3>4, Zenon DEF dispatchCommand, Succeed, Return
  <2>2. CASE Fail(c) /\ UNCHANGED revision
    BY <1>4, <2>2, Zenon DEF dispatchCommand, Fail, Return
  <2>3. CASE pc' = [pc EXCEPT ![c] = "handling"] /\ UNCHANGED <<commandMu, answers>>
             /\ revision' = [revision EXCEPT ![c] = revisions[body[c].scope]]
    BY <1>4, <2>3, Zenon DEF dispatchCommand, Bodies
  <2> QED
    BY <1>4, <2>1, <2>2, <2>3, Zenon DEF dispatchCommand
<1>5. ASSUME NEW c \in Clients, Handle(c) PROVE TypeOK'
  BY <1>5 DEF Handle, Fail, Return
<1>6. ASSUME NEW c \in Clients, persistCommand(c) PROVE TypeOK'
  <2>1. Response(body[c], revision[c] + 1) \in Responses
    BY ResponseType
  <2>2. CASE persisted(c) /\ pc' = [pc EXCEPT ![c] = "auditing"] /\ UNCHANGED <<commandMu, answers>>
    <3>1. revisions' \in [Scopes -> Nat]
      BY <2>2 DEF persisted, Bodies
    <3>2. stored' \in [Keys -> SUBSET Responses]
      BY <2>1, <2>2, Zenon DEF persisted
    <3> QED
      BY <1>6, <2>2, <3>1, <3>2, Zenon DEF persistCommand
  <2>3. CASE Fail(c) /\ UNCHANGED <<revisions, stored>>
    BY <1>6, <2>3, Zenon DEF persistCommand, Fail, Return
  <2> QED
    BY <1>6, <2>2, <2>3, Zenon DEF persistCommand
<1>7. ASSUME NEW c \in Clients, Emit(c) PROVE TypeOK'
  BY <1>7 DEF Emit, Succeed, Fail, Return, Response, Responses
<1>8. ASSUME NEW c \in Clients, HandleQuery(c) \/ AnswerQuery(c) PROVE TypeOK'
  BY <1>8, Zenon DEF HandleQuery, AnswerQuery
<1>9. CASE Crash
  BY <1>9 DEF Crash
<1>10. CASE UNCHANGED vars
  BY <1>10, Zenon DEF vars
<1> QED
  BY <1>1, <1>2, <1>3, <1>4, <1>5, <1>6, <1>7, <1>8, <1>9, <1>10, Zenon
     DEF Next, Work

\* Every step keeps what commands in progress, answers and tables say about each
\* other.
LEMMA OrderedStep == Ordered /\ [Next]_vars => Ordered'
<1> SUFFICES ASSUME Ordered, [Next]_vars PROVE Ordered'
  BY Zenon
<1>t. TypeOK'
  BY TypeStep, Zenon
<1> USE DispatcherAssumption DEF Ordered, TypeOK, Commanding, Querying, Bodies, Responses, request, tables
<1>1. ASSUME NEW c \in Clients, NEW k \in Keys, NEW b \in Bodies, Dispatch(c, k, b) PROVE Ordered'
  BY <1>1, <1>t DEF Dispatch, Serialised, Checked, EffectFirst, Audited, Bounded, OneAnswerPerKey, RevisionsAreUnique, ExpectationHeld, QueryIsNotAhead
<1>2. ASSUME NEW c \in Clients, NEW b \in Bodies, Query(c, b) PROVE Ordered'
  BY <1>2, <1>t DEF Query, Serialised, Checked, EffectFirst, Audited, Bounded, OneAnswerPerKey, RevisionsAreUnique, ExpectationHeld, QueryIsNotAhead
<1>3. ASSUME NEW c \in Clients, Lock(c) PROVE Ordered'
  BY <1>3, <1>t DEF Lock, Serialised, Checked, EffectFirst, Audited, Bounded, OneAnswerPerKey, RevisionsAreUnique, ExpectationHeld, QueryIsNotAhead
<1>4. ASSUME NEW c \in Clients, dispatchCommand(c) PROVE Ordered'
  <2>1. Serialised'
    BY <1>4, <1>t, Zenon
       DEF dispatchCommand, cachedResponse, RevisionMatches, Succeed, Fail, Return, Response, Serialised
  <2>2. Checked'
    BY <1>4, <1>t DEF dispatchCommand, cachedResponse, RevisionMatches, Succeed, Fail, Return, Response, Serialised, Checked
  <2>3. EffectFirst'
    BY <1>4, <1>t DEF dispatchCommand, cachedResponse, RevisionMatches, Succeed, Fail, Return, Response, EffectFirst, Checked
  <2>4. Audited'
    BY <1>4, <1>t DEF dispatchCommand, cachedResponse, RevisionMatches, Succeed, Fail, Return, Response, Audited, Serialised
  <2>5. Bounded'
    BY <1>4, <1>t DEF dispatchCommand, cachedResponse, RevisionMatches, Succeed, Fail, Return, Response, Bounded, Checked
  <2>6. OneAnswerPerKey'
    BY <1>4, <1>t DEF dispatchCommand, cachedResponse, RevisionMatches, Succeed, Fail, Return, Response, OneAnswerPerKey, Checked, Audited
  <2>7. RevisionsAreUnique'
    BY <1>4, <1>t DEF dispatchCommand, cachedResponse, RevisionMatches, Succeed, Fail, Return, Response, RevisionsAreUnique, Bounded, Checked
  <2>8. ExpectationHeld'
    BY <1>4, <1>t, Zenon
       DEF dispatchCommand, cachedResponse, RevisionMatches, Succeed, Fail, Return, Response, ExpectationHeld, Checked
  <2>9. QueryIsNotAhead'
    BY <1>4, <1>t DEF dispatchCommand, cachedResponse, RevisionMatches, Succeed, Fail, Return, Response, QueryIsNotAhead, Bounded, Checked, EffectFirst
  <2> QED
    BY <1>t, <2>1, <2>2, <2>3, <2>4, <2>5, <2>6, <2>7, <2>8, <2>9, Zenon
<1>5. ASSUME NEW c \in Clients, Handle(c) PROVE Ordered'
  <2>1. Serialised'
    BY <1>5, <1>t, Zenon DEF Handle, Fail, Return, Serialised
  <2>2. Checked'
    BY <1>5, <1>t, Zenon DEF Handle, Fail, Return, Serialised, Checked
  <2>3. EffectFirst'
    <3>1. \A k \in Keys : ran'[k] >= ran[k]
      BY <1>5 DEF Handle
    <3>2. pc'[c] = "persisting" => ran'[key[c]] > 0
      BY <1>5 DEF Handle, Fail, Return
    <3>3. \A e \in Clients : e # c => pc'[e] = pc[e]
      BY <1>5, Zenon DEF Handle, Fail, Return
    <3> QED
      BY <1>5, <1>t, <3>1, <3>2, <3>3 DEF Handle, EffectFirst
  <2>4. Audited'
    BY <1>5, <1>t, Zenon DEF Handle, Fail, Return, Audited, Serialised
  <2>5. Bounded'
    BY <1>5, <1>t DEF Handle, Fail, Return, Bounded, Checked
  <2>6. OneAnswerPerKey'
    BY <1>5, <1>t DEF Handle, Fail, Return, OneAnswerPerKey, Checked, Audited
  <2>7. RevisionsAreUnique'
    BY <1>5, <1>t DEF Handle, Fail, Return, RevisionsAreUnique, Bounded, Checked
  <2>8. ExpectationHeld'
    BY <1>5, <1>t, Zenon DEF Handle, Fail, Return, ExpectationHeld, Checked
  <2>9. QueryIsNotAhead'
    BY <1>5, <1>t DEF Handle, Fail, Return, QueryIsNotAhead, Bounded, Checked, EffectFirst
  <2> QED
    BY <1>t, <2>1, <2>2, <2>3, <2>4, <2>5, <2>6, <2>7, <2>8, <2>9, Zenon
<1>6. ASSUME NEW c \in Clients, persistCommand(c) PROVE Ordered'
  <2>1. Serialised'
    BY <1>6, <1>t, Zenon
       DEF persistCommand, persisted, Fail, Return, Response, Serialised
  <2>2. Checked'
    <3>1. \A e \in Clients : pc'[e] \notin {"handling", "persisting"}
      BY <1>6, Zenon DEF persistCommand, Fail, Return, Serialised
    <3> QED
      BY <3>1, Zenon DEF Checked
  <2>3. EffectFirst'
    BY <1>6, <1>t, ZenonT(30)
       DEF persistCommand, persisted, Fail, Return, Response, EffectFirst, Checked
  <2>4. Audited'
    <3>1. \A e \in Clients : pc'[e] = "auditing" => e = c
      BY <1>6, Zenon DEF persistCommand, Fail, Return, Serialised
    <3>2. pc'[c] = "auditing" => stored'[key[c]] = {Response(body[c], revision[c] + 1)}
      BY <1>6, Zenon DEF persistCommand, persisted, Fail, Return
    <3> QED
      BY <1>6, <3>1, <3>2, Zenon DEF persistCommand, Audited
  <2>5. Bounded'
    <3>1. \A x \in Scopes : revisions'[x] >= revisions[x]
      BY <1>6 DEF persistCommand, persisted, Checked
    <3>2. \A k \in Keys : \A r \in stored'[k] : r \in stored[k] \/ r.revision <= revisions'[r.body.scope]
      BY <1>6 DEF persistCommand, persisted, Response
    <3>3. \A e \in Clients : pc'[e] \in Querying => pc[e] \in Querying
      BY <1>6, Zenon DEF persistCommand, Fail, Return
    <3>4. \A k \in Keys : \A r \in stored'[k] : r.revision \in Nat /\ r.body.scope \in Scopes
      BY <1>t
    <3>5. \A k \in Keys : \A r \in stored'[k] : r.revision <= revisions'[r.body.scope]
      BY <1>t, <3>1, <3>2, <3>4 DEF Bounded
    <3>6. \A e \in Clients : pc'[e] \in Querying => revision'[e] <= revisions'[body'[e].scope]
      BY <1>6, <1>t, <3>1, <3>3 DEF persistCommand, Bounded
    <3> QED
      BY <3>5, <3>6, Zenon DEF Bounded
  <2>6. OneAnswerPerKey'
    BY <1>6, <1>t DEF persistCommand, persisted, Fail, Return, Response, OneAnswerPerKey, Checked, Audited
  <2>7. RevisionsAreUnique'
    BY <1>6, <1>t DEF persistCommand, persisted, Fail, Return, Response, RevisionsAreUnique, Bounded, Checked
  <2>8. ExpectationHeld'
    BY <1>6, <1>t DEF persistCommand, persisted, Fail, Return, Response, ExpectationHeld, Checked
  <2>9. QueryIsNotAhead'
    <3>1. CASE persisted(c)
      <4>1. ASSUME NEW e \in Clients, pc'[e] = "viewed" PROVE pc[e] = "viewed" /\ revision[e] <= revisions[body[e].scope]
        BY <1>6, <3>1, <4>1, Zenon
           DEF persistCommand, Fail, Return, Bounded, Querying
      <4>2. revision[c] = revisions[body[c].scope] /\ revision[c] \in Nat
        BY <1>6, <1>t, Zenon DEF persistCommand, Checked
      <4>3. ASSUME NEW k \in Keys, NEW r \in stored'[k]
            PROVE  r \in stored[k] \/ (r.body.scope = body[c].scope /\ r.revision = revision[c] + 1)
        BY <3>1, <4>3 DEF persisted, Response
      <4>4. \A e \in Clients : revision[e] \in Nat
        BY Zenon
      <4> QED
        BY <1>6, <4>1, <4>2, <4>3, <4>4 DEF persistCommand, QueryIsNotAhead
    <3>2. CASE UNCHANGED tables
      BY <1>6, <3>2, Zenon
         DEF persistCommand, persisted, Fail, Return, QueryIsNotAhead
    <3> QED
      BY <1>6, <3>1, <3>2, Zenon DEF persistCommand
  <2> QED
    BY <1>t, <2>1, <2>2, <2>3, <2>4, <2>5, <2>6, <2>7, <2>8, <2>9, Zenon
<1>7. ASSUME NEW c \in Clients, Emit(c) PROVE Ordered'
  <2>1. OneAnswerPerKey'
    BY <1>7, <1>t DEF Emit, Succeed, Fail, OneAnswerPerKey, Audited
  <2>2. (Serialised /\ Checked /\ EffectFirst /\ Audited /\ Bounded)'
    <3>1. Serialised'
      BY <1>7, <1>t, Zenon DEF Emit, Succeed, Fail, Return, Serialised
    <3>2. Checked'
      BY <1>7, <1>t, Zenon DEF Emit, Succeed, Fail, Return, Checked
    <3>3. (EffectFirst /\ Audited)'
      BY <1>7, <1>t, Zenon
         DEF Emit, Succeed, Fail, Return, EffectFirst, Audited
    <3>4. Bounded'
      BY <1>7, <1>t, Zenon DEF Emit, Succeed, Fail, Return, Bounded
    <3> QED
      BY <3>1, <3>2, <3>3, <3>4, Zenon
  <2>3. (RevisionsAreUnique /\ ExpectationHeld /\ QueryIsNotAhead)'
    BY <1>7, <1>t, SMTT(30)
       DEF Emit, Succeed, Fail, Return, RevisionsAreUnique, ExpectationHeld, QueryIsNotAhead
  <2> QED
    BY <1>t, <2>1, <2>2, <2>3, Zenon
<1>8. ASSUME NEW c \in Clients, HandleQuery(c) \/ AnswerQuery(c) PROVE Ordered'
  <2>1. QueryIsNotAhead'
    BY <1>8, <1>t DEF HandleQuery, AnswerQuery, QueryIsNotAhead, EffectFirst
  <2>2. (Serialised /\ EffectFirst /\ Audited)'
    BY <1>8, Zenon
       DEF HandleQuery, AnswerQuery, Serialised, EffectFirst, Audited
  <2>5. Checked'
    BY <1>8, Zenon DEF HandleQuery, AnswerQuery, Checked
  <2>4. Bounded'
    BY <1>8, <1>t, Zenon DEF HandleQuery, AnswerQuery, Bounded
  <2>3. (OneAnswerPerKey /\ RevisionsAreUnique /\ ExpectationHeld)'
    BY <1>8 DEF HandleQuery, AnswerQuery, OneAnswerPerKey, RevisionsAreUnique, ExpectationHeld
  <2> QED
    BY <1>t, <2>1, <2>2, <2>3, <2>4, <2>5, Zenon
<1>9. CASE Crash
  BY <1>t, <1>9 DEF Crash, Serialised, Checked, EffectFirst, Audited, Bounded, OneAnswerPerKey, RevisionsAreUnique, ExpectationHeld, QueryIsNotAhead
<1>10. CASE UNCHANGED vars
  BY <1>t, <1>10 DEF vars, Serialised, Checked, EffectFirst, Audited, Bounded, OneAnswerPerKey, RevisionsAreUnique, ExpectationHeld, QueryIsNotAhead
<1> QED
  BY <1>1, <1>2, <1>3, <1>4, <1>5, <1>6, <1>7, <1>8, <1>9, <1>10, Zenon
     DEF Next, Work

\* The invariant of the dispatcher.
THEOREM Ordering == Spec => []Ordered
  BY OrderedInit, OrderedStep, PTL DEF Spec

\* dispatchCommand gives one answer per idempotency key, the stored one; the
\* revisions persistCommand writes in a scope are all different, and follow the
\* expected one; a query that reads its revision before its handler is never
\* ahead of it.
THEOREM DispatchSafety == Spec => []DispatchInv
<1>1. Ordered => DispatchInv
  BY Zenon DEF Ordered, DispatchInv
<1> QED
  BY <1>1, Ordering, PTL

\* A handler has no effect for a key whose success a client has seen.
THEOREM NoSecondEffect == Spec => AcknowledgedOnce
<1> DEFINE Kept == \A k \in Keys : answers[k] # {} => ran'[k] = ran[k]
<1>1. ASSUME Ordered, [Next]_vars PROVE Kept
  <2>1. ASSUME NEW c \in Clients, Handle(c) PROVE Kept
    <3>1. answers[key[c]] = {}
      BY <1>1, <2>1 DEF Handle, Ordered, Checked, OneAnswerPerKey, TypeOK
    <3> QED
      BY <1>1, <2>1, <3>1, Zenon DEF Handle, Ordered, TypeOK
  <2>2. CASE UNCHANGED ran
    BY <2>2, Zenon
  <2> QED
    BY <1>1, <2>1, <2>2, Zenon
       DEF Next, Work, vars, Dispatch, Query, Lock, dispatchCommand, persistCommand, Emit,
           HandleQuery, AnswerQuery, Crash
<1>2. Ordered /\ [Next]_vars => [Kept]_vars
  BY <1>1, Zenon
<1> QED
  BY <1>2, Ordering, PTL DEF Spec, AcknowledgedOnce

\* Dispatch implements CommandRecord: persistCommand is the moment at which a command
\* is accepted, the handler's effect an attempt, and every successful answer, also the
\* replayed one, tells what was accepted.
THEOREM Atomicity == Spec => CommandsAreAtomic
<1>1. Init => Record!RecordInit
  BY Zenon DEF Init, Record!RecordInit
<1>2. ASSUME Ordered, [Next]_vars PROVE [Record!RecordNext]_(Record!recordVars)
  <2> USE <1>2 DEF Ordered, TypeOK, Commanding, Querying, Bodies, request, tables, Record!recordVars
  <2>1. ASSUME NEW c \in Clients, NEW n \in Nat, Succeed(c, n), Response(body[c], n) \in stored[key[c]],
               UNCHANGED <<revisions, stored, ran>>
        PROVE  Record!RecordNext
    <3> DEFINE k == key[c]
               r == Response(body[c], n)
    <3>1. k \in Keys
      BY Zenon
    <3>2. answers[k] \subseteq stored[k] /\ \A p, q \in stored[k] : p = q
      BY <3>1, Zenon DEF OneAnswerPerKey
    <3>3. answers' = [answers EXCEPT ![k] = answers[k] \cup {r}]
      BY <2>1, Zenon DEF Succeed
    <3> HIDE DEF k, r
    <3>4. r \in stored[k]
      BY <2>1, Zenon DEF k, r
    <3>5. answers[k] \cup {r} = stored[k]
      BY <3>2, <3>4, Zenon
    <3>6. Record!Acknowledge(k)
      BY <2>1, <3>3, <3>4, <3>5, Zenon DEF Record!Acknowledge
    <3> QED
      BY <3>1, <3>6, Zenon DEF Record!RecordNext
  <2>2. ASSUME NEW c \in Clients, dispatchCommand(c) PROVE Record!RecordNext \/ UNCHANGED Record!recordVars
    <3>1. CASE \E r \in cachedResponse(c) : Succeed(c, r.revision)
      <4>1. PICK r \in cachedResponse(c) : Succeed(c, r.revision)
        BY <3>1, Zenon
      <4>2. r \in stored[key[c]] /\ r.body = body[c] /\ r \in Responses
        BY Zenon DEF cachedResponse
      <4>3. r.revision \in Nat /\ r = Response(body[c], r.revision)
        BY <4>2, Zenon DEF Response, Responses
      <4> QED
        BY <2>1, <2>2, <4>1, <4>2, <4>3, Zenon DEF dispatchCommand
    <3>2. CASE UNCHANGED answers
      BY <2>2, <3>2, Zenon DEF dispatchCommand
    <3> QED
      BY <2>2, <3>1, <3>2, Zenon DEF dispatchCommand, Fail
  <2>3. ASSUME NEW c \in Clients, Handle(c) PROVE Record!RecordNext \/ UNCHANGED Record!recordVars
    BY <2>3, Zenon DEF Handle, Fail, Checked, Record!RecordNext, Record!Attempt
  <2>4. ASSUME NEW c \in Clients, persistCommand(c) PROVE Record!RecordNext \/ UNCHANGED Record!recordVars
    <3>1. CASE persisted(c) /\ UNCHANGED answers
      <4>1. /\ stored[key[c]] = {} /\ ran[key[c]] > 0 /\ revision[c] = revisions[body[c].scope]
            /\ body[c].expected \in {Any, revision[c]}
        BY <2>4, Zenon DEF persistCommand, Checked, EffectFirst
      <4>2. /\ revisions' = [revisions EXCEPT ![body[c].scope] = revisions[body[c].scope] + 1]
            /\ stored' = [stored EXCEPT ![key[c]] = {[body |-> body[c], revision |-> revisions[body[c].scope] + 1]}]
        BY <3>1, <4>1, Zenon DEF persisted, Response
      <4>3. ran' = ran /\ answers' = answers
        BY <2>4, <3>1, Zenon DEF persistCommand
      <4>4. Record!Accept(key[c], body[c])
        BY <4>1, <4>2, <4>3, Zenon DEF Record!Accept
      <4> QED
        BY <4>4, Zenon DEF Record!RecordNext
    <3>2. CASE Fail(c) /\ UNCHANGED tables
      BY <2>4, <3>2, Zenon DEF persistCommand, Fail
    <3> QED
      BY <2>4, <3>1, <3>2, Zenon DEF persistCommand
  <2>5. ASSUME NEW c \in Clients, Emit(c) PROVE Record!RecordNext \/ UNCHANGED Record!recordVars
    <3>1. CASE Succeed(c, revision[c] + 1)
      <4>1. Response(body[c], revision[c] + 1) \in stored[key[c]] /\ revision[c] + 1 \in Nat
        BY <2>5 DEF Emit, Audited
      <4> QED
        BY <2>1, <2>5, <3>1, <4>1, Zenon DEF Emit
    <3>2. CASE Fail(c)
      BY <2>5, <3>2, Zenon DEF Emit, Fail
    <3> QED
      BY <2>5, <3>1, <3>2, Zenon DEF Emit
  <2>6. CASE UNCHANGED <<revisions, stored, ran, answers>>
    BY <2>6, Zenon
  <2> QED
    BY <2>2, <2>3, <2>4, <2>5, <2>6, Zenon
       DEF Next, Work, vars, Dispatch, Query, Lock, HandleQuery, AnswerQuery, Crash
<1> QED
  BY <1>1, <1>2, Ordering, PTL DEF Spec, CommandsAreAtomic, Record!RecordSpec
=============================================================================
