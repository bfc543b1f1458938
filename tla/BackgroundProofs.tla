-------------------------- MODULE BackgroundProofs --------------------------
(* What runs in the background, for any number of sub-agents, messages and     *)
(* bytes: the registry of sub-agents and the process of a project terminal.    *)
EXTENDS SwarmRegistry, ProjectTerminal, FiniteSetTheorems, SequenceTheorems, TLAPS

-----------------------------------------------------------------------------
(* The registry of sub-agents. *)

ActiveAgents == {a \in Agents : state[a] \in Active}
OfSession(s) == {a \in ActiveAgents : SessionOf[a] = s}
OfParent(p) == {a \in ActiveAgents : ParentOf[a] = p}

States == {"none"} \union Active \union Final
Left == {"settled", "reporting", "gone"}    \* after the worker function
Signed == [nonce : {"fresh", "applying", "used"}, agent : Agents, verb : Verbs, accepted : Nat]
Handling == [at : {"deliver", "abort", "apply", "mark"}, agent : Agents]

SwarmTypes ==
    /\ state \in [Agents -> States]
    /\ worker \in [Agents -> {"none", "spawned", "working", "deaf"} \union Left]
    /\ report \in [Agents -> States]
    /\ completions \in Seq(Agents \X Final) /\ consumed \subseteq Agents
    /\ messages \in [Messages -> {Unsigned} \union Signed]
    /\ orphans \subseteq Agents /\ scan \in {NotScanning, [at |-> "next"]} \union Handling

\* The lanes count the active agents.
Lanes ==
    /\ globalCount = Cardinality(ActiveAgents) /\ globalCount <= GlobalLaneMax
    /\ sessionCount \in [Sessions -> Nat] /\ parentCount \in [Parents -> Nat]
    /\ \A s \in Sessions : sessionCount[s] = Cardinality(OfSession(s)) /\ sessionCount[s] <= SessionLaneMax
    /\ \A p \in Parents : parentCount[p] = Cardinality(OfParent(p)) /\ parentCount[p] <= ParentLaneMax
    /\ channels = ActiveAgents /\ silent \subseteq ActiveAgents

\* An agent and its goroutine: the worker function does not return before the agent
\* has ended, and what it reports is read after that.
Accompanied(a) ==
    /\ worker[a] = "none" <=> state[a] = "none"
    /\ worker[a] = "working" /\ state[a] \in Final => a \in cancelled
    /\ worker[a] \in Left => state[a] \in Final
    /\ worker[a] = "reporting" => report[a] \in Final

\* A Completion is sent last, and taken once.
Reported ==
    /\ \A i \in 1..Len(completions) :
         /\ completions[i][2] \in Final
         /\ worker[completions[i][1]] = "gone" /\ completions[i][1] \notin consumed
         /\ \A j \in 1..Len(completions) : completions[i][1] = completions[j][1] => i = j
    /\ \A a \in consumed : worker[a] = "gone"

\* A nonce is fresh until the verb has been accepted.
Accepted(m) ==
    messages[m] # Unsigned =>
        messages[m].accepted <= 1 /\ (messages[m].nonce = "fresh" => messages[m].accepted = 0)

\* The orphan scan marks only agents that exist, after they have ended.
Scanned ==
    /\ \A a \in orphans : state[a] # "none"
    /\ scan \in Handling => state[scan.agent] # "none"
    /\ scan.at = "mark" => state[scan.agent] \in Final

SwarmIInv ==
    /\ SwarmTypes /\ Lanes /\ Reported /\ Scanned
    /\ \A a \in Agents : Accompanied(a)
    /\ \A m \in Messages : Accepted(m)

(* The sets that Spawn counts against its limits are finite.                 *)
LEMMA ActiveFinite ==
  /\ IsFiniteSet(ActiveAgents) /\ Cardinality(ActiveAgents) \in Nat
  /\ \A s : IsFiniteSet(OfSession(s)) /\ Cardinality(OfSession(s)) \in Nat
  /\ \A p : IsFiniteSet(OfParent(p)) /\ Cardinality(OfParent(p)) \in Nat
<1>0. 1 \in Int /\ MaxAgents \in Int
  BY SwarmAssumption
<1>1. IsFiniteSet(Agents)
  BY <1>0, FS_Interval, Zenon DEF Agents
<1>2. ActiveAgents \in SUBSET Agents
  BY Zenon DEF ActiveAgents
<1>3. IsFiniteSet(ActiveAgents)
  BY <1>1, <1>2, FS_Subset, Zenon
<1>4. \A s : OfSession(s) \in SUBSET ActiveAgents
  BY Zenon DEF OfSession
<1>5. \A p : OfParent(p) \in SUBSET ActiveAgents
  BY Zenon DEF OfParent
<1>6. \A s : IsFiniteSet(OfSession(s))
  BY <1>3, <1>4, FS_Subset, Zenon
<1>7. \A p : IsFiniteSet(OfParent(p))
  BY <1>3, <1>5, FS_Subset, Zenon
<1> QED
  BY <1>3, <1>6, <1>7, FS_CardinalityType, Zenon

\* A spawn takes a place in every lane, where there was one (SpawnReduced).
LEMMA LanesTaken ==
  ASSUME SwarmTypes, Lanes, NEW a \in Agents, SpawnReduced(a)
  PROVE  Lanes'
<1>1. /\ state[a] = "none" /\ state' = [state EXCEPT ![a] = "running"]
      /\ channels' = channels \union {a} /\ silent' = silent
      /\ globalCount < GlobalLaneMax /\ globalCount' = globalCount + 1
      /\ sessionCount[SessionOf[a]] < SessionLaneMax
      /\ sessionCount' = [sessionCount EXCEPT ![SessionOf[a]] = @ + 1]
      /\ parentCount[ParentOf[a]] < ParentLaneMax
      /\ parentCount' = [parentCount EXCEPT ![ParentOf[a]] = @ + 1]
  BY Zenon DEF SpawnReduced
<1>2. ActiveAgents' = ActiveAgents \union {a} /\ a \notin ActiveAgents
  BY <1>1, Zenon DEF ActiveAgents, SwarmTypes, Active
<1>3. ASSUME NEW s PROVE OfSession(s)' = IF SessionOf[a] = s THEN OfSession(s) \union {a} ELSE OfSession(s)
  BY <1>2, Zenon DEF OfSession
<1>4. ASSUME NEW p PROVE OfParent(p)' = IF ParentOf[a] = p THEN OfParent(p) \union {a} ELSE OfParent(p)
  BY <1>2, Zenon DEF OfParent
<1>5. Cardinality(ActiveAgents \union {a}) = Cardinality(ActiveAgents) + 1
  BY <1>2, ActiveFinite, FS_AddElement, Zenon
<1>6. ASSUME NEW s PROVE Cardinality(OfSession(s) \union {a}) = Cardinality(OfSession(s)) + 1
  <2>1. a \notin OfSession(s)
    BY <1>2, Zenon DEF OfSession
  <2> QED
    BY <2>1, ActiveFinite, FS_AddElement, Zenon
<1>7. ASSUME NEW p PROVE Cardinality(OfParent(p) \union {a}) = Cardinality(OfParent(p)) + 1
  <2>1. a \notin OfParent(p)
    BY <1>2, Zenon DEF OfParent
  <2> QED
    BY <2>1, ActiveFinite, FS_AddElement, Zenon
<1>8. globalCount' = Cardinality(ActiveAgents)' /\ globalCount' <= GlobalLaneMax
  BY <1>1, <1>2, <1>5, ActiveFinite, SwarmAssumption DEF Lanes
<1>9. /\ sessionCount' \in [Sessions -> Nat]
      /\ \A s \in Sessions : sessionCount'[s] = Cardinality(OfSession(s))' /\ sessionCount'[s] <= SessionLaneMax
  BY <1>1, <1>3, <1>6, ActiveFinite, SwarmAssumption DEF Lanes, Sessions
<1>10. /\ parentCount' \in [Parents -> Nat]
       /\ \A p \in Parents : parentCount'[p] = Cardinality(OfParent(p))' /\ parentCount'[p] <= ParentLaneMax
  BY <1>1, <1>4, <1>7, ActiveFinite, SwarmAssumption DEF Lanes, Parents
<1> QED
  BY <1>1, <1>2, <1>8, <1>9, <1>10, Zenon DEF Lanes

\* Whoever ends an active agent gives its places back (ReleaseLanes).
LEMMA LanesReleased ==
  ASSUME SwarmTypes, Lanes, NEW a \in Agents, NEW end \in Final, state[a] \in Active,
         state' = [state EXCEPT ![a] = end], ReleaseLanes(a)
  PROVE  Lanes'
<1>1. ActiveAgents' = ActiveAgents \ {a} /\ a \in ActiveAgents
  BY Zenon DEF ActiveAgents, SwarmTypes, Active, Final
<1>2. ASSUME NEW s PROVE OfSession(s)' = IF SessionOf[a] = s THEN OfSession(s) \ {a} ELSE OfSession(s)
  BY <1>1 DEF OfSession
<1>3. ASSUME NEW p PROVE OfParent(p)' = IF ParentOf[a] = p THEN OfParent(p) \ {a} ELSE OfParent(p)
  BY <1>1 DEF OfParent
<1>4. Cardinality(ActiveAgents \ {a}) = Cardinality(ActiveAgents) - 1 /\ Cardinality(ActiveAgents \ {a}) \in Nat
  BY <1>1, ActiveFinite, FS_RemoveElement, FS_CardinalityType, Zenon
<1>5. ASSUME NEW s, SessionOf[a] = s
      PROVE  Cardinality(OfSession(s) \ {a}) = Cardinality(OfSession(s)) - 1 /\ Cardinality(OfSession(s) \ {a}) \in Nat
  <2>1. a \in OfSession(s)
    BY <1>1, <1>5, Zenon DEF OfSession
  <2> QED
    BY <2>1, ActiveFinite, FS_RemoveElement, FS_CardinalityType, Zenon
<1>6. ASSUME NEW p, ParentOf[a] = p
      PROVE  Cardinality(OfParent(p) \ {a}) = Cardinality(OfParent(p)) - 1 /\ Cardinality(OfParent(p) \ {a}) \in Nat
  <2>1. a \in OfParent(p)
    BY <1>1, <1>6, Zenon DEF OfParent
  <2> QED
    BY <2>1, ActiveFinite, FS_RemoveElement, FS_CardinalityType, Zenon
<1>7. globalCount' = Cardinality(ActiveAgents)' /\ globalCount' <= GlobalLaneMax
  BY <1>1, <1>4, ActiveFinite, SwarmAssumption DEF Lanes, ReleaseLanes
<1>8. /\ sessionCount' \in [Sessions -> Nat]
      /\ \A s \in Sessions : sessionCount'[s] = Cardinality(OfSession(s))' /\ sessionCount'[s] <= SessionLaneMax
  BY <1>2, <1>5, ActiveFinite, SwarmAssumption DEF Lanes, Sessions, ReleaseLanes
<1>9. /\ parentCount' \in [Parents -> Nat]
      /\ \A p \in Parents : parentCount'[p] = Cardinality(OfParent(p))' /\ parentCount'[p] <= ParentLaneMax
  BY <1>3, <1>6, ActiveFinite, SwarmAssumption DEF Lanes, Parents, ReleaseLanes
<1> QED
  BY <1>1, <1>7, <1>8, <1>9, Zenon DEF Lanes, ReleaseLanes

\* Nobody starts or ends.
LEMMA LanesKept ==
  ASSUME Lanes, ActiveAgents' = ActiveAgents, UNCHANGED <<lanes, channels>>, silent' \subseteq ActiveAgents
  PROVE  Lanes'
<1>1. \A s : OfSession(s)' = OfSession(s)
  BY Zenon DEF OfSession
<1>2. \A p : OfParent(p)' = OfParent(p)
  BY Zenon DEF OfParent
<1> QED
  BY <1>1, <1>2, Zenon DEF Lanes, lanes

(* An empty registry satisfies the inductive invariant.                      *)
LEMMA SwarmStarts == SwarmInit => SwarmIInv
<1> SUFFICES ASSUME SwarmInit PROVE SwarmIInv
  BY Zenon
<1>1. ActiveAgents = {}
  BY Zenon DEF SwarmInit, ActiveAgents, Active
<1>2. (\A s : OfSession(s) = {}) /\ (\A p : OfParent(p) = {})
  BY <1>1, Zenon DEF OfSession, OfParent
<1>3. Lanes
  <2>1. Cardinality({}) = 0 /\ 0 <= GlobalLaneMax /\ 0 <= SessionLaneMax /\ 0 <= ParentLaneMax
    BY FS_EmptySet, SwarmAssumption
  <2> QED
    BY <1>1, <1>2, <2>1, Zenon DEF SwarmInit, Lanes
<1>4. completions \in Seq(Agents \X Final) /\ Len(completions) = 0
  BY EmptySeq, Zenon DEF SwarmInit
<1>5. SwarmTypes /\ Reported
  BY <1>4 DEF SwarmInit, SwarmTypes, Reported, States
<1>6. Scanned
  BY Zenon DEF SwarmInit, Scanned, NotScanning, Handling
<1>7. \A m \in Messages : Accepted(m)
  BY Zenon DEF SwarmInit, Accepted
<1>8. \A a \in Agents : Accompanied(a)
  BY Zenon DEF SwarmInit, Accompanied, Left, Final
<1> QED
  BY <1>3, <1>5, <1>6, <1>7, <1>8, Zenon DEF SwarmIInv

\* Agents only go on: none is forgotten, and an agent that ended stays ended.
Onward ==
    /\ state' \in [Agents -> States]
    /\ \A b \in Agents : /\ state[b] # "none" => state'[b] # "none"
                         /\ state[b] \in Final => state'[b] \in Final

\* An abort, by whomever (DoAbort).
LEMMA Aborting ==
  ASSUME SwarmIInv, NEW a \in Agents, state[a] \in Active, DoAbort(a),
         UNCHANGED <<worker, report, completions, consumed>>
  PROVE  /\ Onward /\ state'[a] \in Final
         /\ Lanes' /\ Reported' /\ \A b \in Agents : Accompanied(b)'
<1>1. SwarmTypes /\ Lanes /\ Reported /\ \A b \in Agents : Accompanied(b)
  BY Zenon DEF SwarmIInv
<1>2. state' = [state EXCEPT ![a] = "aborted"] /\ cancelled' = CancelWorker(a) /\ ReleaseLanes(a)
  BY Zenon DEF DoAbort
<1>3. "aborted" \in Final
  BY Zenon DEF Final
<1>4. Lanes'
  BY <1>1, <1>2, <1>3, LanesReleased, Zenon
<1>5. Onward /\ state'[a] = "aborted"
  BY <1>1, <1>2, <1>3, Zenon DEF SwarmTypes, Onward, States, Final
<1>6. ASSUME NEW b \in Agents PROVE Accompanied(b)'
  BY <1>1, <1>2, Zenon
     DEF Accompanied, CancelWorker, SwarmTypes, Left, Active, Final
<1> QED
  BY <1>1, <1>3, <1>4, <1>5, <1>6, Zenon DEF Reported

\* The scan and the verbs do not mind agents that go on.
LEMMA ScanGoesOn ==
  ASSUME SwarmIInv, Onward, UNCHANGED <<orphans, scan>>
  PROVE  Scanned'
<1>1. scan \in Handling => scan.agent \in Agents
  BY Zenon DEF Handling
<1>2. scan.at = "mark" => scan \in Handling
  BY DEF SwarmIInv, SwarmTypes, NotScanning
<1> QED
  BY <1>1, <1>2, Zenon DEF SwarmIInv, SwarmTypes, Scanned, Onward

\* SpawnReduced, and the goroutine of an agent.
LEMMA AgentSteps ==
  ASSUME SwarmIInv, NEW a \in Agents, SpawnReduced(a) \/ Goroutine(a) \/ FallSilent(a)
  PROVE  SwarmIInv'
<1>1. SwarmTypes /\ Lanes /\ Reported /\ Scanned /\ (\A b \in Agents : Accompanied(b)) /\ \A m \in Messages : Accepted(m)
  BY Zenon DEF SwarmIInv
<1>2. (\A m \in Messages : Accepted(m)') /\ UNCHANGED <<messages, orphans, scan>>
  BY <1>1, Zenon
     DEF Accepted, SpawnReduced, Goroutine, StartWorker, Complete, ReadCompletion, SendCompletion, FallSilent
<1>3. CASE SpawnReduced(a)
  <2>1. Lanes'
    BY <1>1, <1>3, LanesTaken, Zenon
  <2>2. /\ state[a] = "none" /\ state' = [state EXCEPT ![a] = "running"]
        /\ worker' = [worker EXCEPT ![a] = "spawned"] /\ UNCHANGED <<cancelled, report, completions, consumed>>
    BY <1>3, Zenon DEF SpawnReduced
  <2>3. SwarmTypes' /\ Onward
    BY <1>1, <1>2, <2>2, Zenon DEF SwarmTypes, Onward, States, Active, Final
  <2>4. ASSUME NEW b \in Agents PROVE Accompanied(b)'
    BY <1>1, <2>2, Zenon DEF SwarmTypes, Accompanied, Left, Final
  <2>5. worker[a] = "none"
    BY <1>1, <2>2, Zenon DEF Accompanied
  <2>6. Reported'
    BY <1>1, <2>2, <2>5 DEF Reported, SwarmTypes
  <2> QED
    BY <1>2, <2>1, <2>3, <2>4, <2>6, ScanGoesOn, Zenon DEF SwarmIInv
<1>4. CASE StartWorker(a)
  <2>1. /\ worker[a] = "spawned" /\ worker' = [worker EXCEPT ![a] = IF state[a] \in Active THEN "working" ELSE "deaf"]
        /\ UNCHANGED <<state, silent, lanes, channels, cancelled, report, completions, consumed>>
    BY <1>4, Zenon DEF StartWorker
  <2>2. SwarmTypes' /\ Lanes'
    BY <1>1, <1>2, <2>1, LanesKept, Zenon DEF SwarmTypes, ActiveAgents, Lanes
  <2>3. ASSUME NEW b \in Agents PROVE Accompanied(b)'
    BY <1>1, <2>1, Zenon DEF SwarmTypes, Accompanied, Left, Active, Final
  <2>4. Reported' /\ Scanned'
    BY <1>1, <1>2, <2>1 DEF Reported, SwarmTypes, Scanned
  <2> QED
    BY <1>2, <2>2, <2>3, <2>4, Zenon DEF SwarmIInv
<1>5. CASE Complete(a)
  <2>1. /\ worker[a] \in {"working", "deaf"} /\ worker' = [worker EXCEPT ![a] = "settled"]
        /\ cancelled' = cancelled \ {a} /\ UNCHANGED <<report, completions, consumed>>
    BY <1>5, Zenon DEF Complete
  <2>2. Reported'
    BY <1>1, <2>1 DEF Reported, SwarmTypes
  <2>3. CASE state[a] \in Active
    <3>1. state' = [state EXCEPT ![a] = "completed"] /\ ReleaseLanes(a) /\ "completed" \in Final
      BY <1>5, <2>3, Zenon DEF Complete, Releases, Final
    <3>2. Lanes'
      BY <1>1, <2>3, <3>1, LanesReleased, Zenon
    <3>3. SwarmTypes' /\ Onward
      BY <1>1, <1>2, <2>1, <3>1, Zenon
         DEF SwarmTypes, Onward, States, Left, Final
    <3>4. ASSUME NEW b \in Agents PROVE Accompanied(b)'
      BY <1>1, <2>1, <3>1, Zenon
         DEF SwarmTypes, Accompanied, Left, Active, Final
    <3> QED
      BY <1>2, <2>2, <3>2, <3>3, <3>4, ScanGoesOn, Zenon DEF SwarmIInv
  <2>4. CASE state[a] \notin Active
    <3>1. UNCHANGED <<state, silent, lanes>> /\ channels' = channels \ {a}
      BY <1>5, <2>4, Zenon DEF Complete, Releases
    <3>2. channels' = channels
      BY <1>1, <2>4, <3>1, Zenon DEF Lanes, ActiveAgents
    <3>3. SwarmTypes' /\ Lanes'
      BY <1>1, <1>2, <2>1, <3>1, <3>2, LanesKept, Zenon
         DEF SwarmTypes, ActiveAgents, Lanes, Left
    <3>4. ASSUME NEW b \in Agents PROVE Accompanied(b)'
      BY <1>1, <2>1, <2>4, <3>1, Zenon
         DEF SwarmTypes, Accompanied, Left, Active, Final, States
    <3> QED
      BY <1>1, <1>2, <2>2, <3>1, <3>3, <3>4, Zenon DEF SwarmIInv, Scanned
  <2> QED
    BY <2>3, <2>4, Zenon
<1>6. CASE ReadCompletion(a)
  <2>1. /\ worker[a] = "settled" /\ worker' = [worker EXCEPT ![a] = "reporting"]
        /\ report' = [report EXCEPT ![a] = state[a]]
        /\ UNCHANGED <<state, silent, lanes, channels, cancelled, completions, consumed>>
    BY <1>6, Zenon DEF ReadCompletion
  <2>2. SwarmTypes' /\ Lanes'
    BY <1>1, <1>2, <2>1, LanesKept, Zenon
       DEF SwarmTypes, ActiveAgents, Lanes, Left
  <2>3. ASSUME NEW b \in Agents PROVE Accompanied(b)'
    BY <1>1, <2>1, Zenon DEF SwarmTypes, Accompanied, Left
  <2>4. Reported' /\ Scanned'
    BY <1>1, <1>2, <2>1 DEF Reported, SwarmTypes, Scanned
  <2> QED
    BY <1>2, <2>2, <2>3, <2>4, Zenon DEF SwarmIInv
<1>7. CASE SendCompletion(a)
  <2>1. /\ worker[a] = "reporting" /\ worker' = [worker EXCEPT ![a] = "gone"]
        /\ report' = [report EXCEPT ![a] = "none"] /\ completions' = Append(completions, <<a, report[a]>>)
        /\ UNCHANGED <<state, silent, lanes, channels, cancelled, consumed>>
    BY <1>7, Zenon DEF SendCompletion
  <2>2. report[a] \in Final /\ <<a, report[a]>> \in Agents \X Final
    BY <1>1, <2>1, Zenon DEF Accompanied
  <2>3. /\ completions' \in Seq(Agents \X Final) /\ Len(completions') = Len(completions) + 1 /\ Len(completions) \in Nat
        /\ (\A i \in 1 .. Len(completions) : completions'[i] = completions[i])
        /\ completions'[Len(completions) + 1] = <<a, report[a]>>
    BY <1>1, <2>1, <2>2, AppendProperties, LenProperties DEF SwarmTypes
  <2>4. SwarmTypes' /\ Lanes'
    BY <1>1, <1>2, <2>1, <2>3, LanesKept, Zenon
       DEF SwarmTypes, ActiveAgents, Lanes, Left, States
  <2>5. ASSUME NEW b \in Agents PROVE Accompanied(b)'
    BY <1>1, <2>1, Zenon DEF SwarmTypes, Accompanied, Left
  <2>6. Reported'
    <3>1. \A i \in 1 .. Len(completions) : completions[i][1] \in Agents /\ completions[i][1] # a
      BY <1>1, <2>1 DEF Reported, SwarmTypes
    <3>2. a \notin consumed
      BY <1>1, <2>1, Zenon DEF Reported
    <3>3. \A i \in 1 .. Len(completions') : i \in 1 .. Len(completions) \/ i = Len(completions) + 1
      BY <2>3
    <3>4. \A i \in 1 .. Len(completions') :
            /\ completions'[i][2] \in Final
            /\ worker'[completions'[i][1]] = "gone" /\ completions'[i][1] \notin consumed'
      BY <1>1, <2>1, <2>2, <2>3, <3>1, <3>2, <3>3 DEF Reported, SwarmTypes
    <3>5. \A i, j \in 1 .. Len(completions') : completions'[i][1] = completions'[j][1] => i = j
      BY <1>1, <2>3, <3>1, <3>3 DEF Reported
    <3> QED
      BY <1>1, <2>1, <3>4, <3>5, Zenon DEF Reported, SwarmTypes
  <2>7. Scanned'
    BY <1>1, <1>2, <2>1, Zenon DEF Scanned
  <2> QED
    BY <1>2, <2>4, <2>5, <2>6, <2>7, Zenon DEF SwarmIInv
<1>8. CASE FallSilent(a)
  <2>1. UNCHANGED <<state, lanes, channels, cancelled, worker, report, completions, consumed>>
    BY <1>8, Zenon DEF FallSilent
  <2>2. ActiveAgents' = ActiveAgents /\ silent' \subseteq ActiveAgents
    BY <1>1, <1>8, Zenon DEF FallSilent, ActiveAgents, Lanes
  <2>3. Lanes'
    BY <1>1, <2>1, <2>2, LanesKept, Zenon
  <2> QED
    BY <1>1, <1>2, <2>1, <2>3, Zenon
       DEF SwarmIInv, SwarmTypes, Reported, Scanned, Accompanied
<1> QED
  BY <1>3, <1>4, <1>5, <1>6, <1>7, <1>8, Zenon DEF Goroutine

\* The presence supervisor, and the aborts of the operator and of executors.
LEMMA ParentSteps ==
  ASSUME SwarmIInv, ConsumeCompletion \/ \E a \in Agents, expected \in Active : AbortScoped(a, expected)
  PROVE  SwarmIInv'
<1>1. SwarmTypes /\ Lanes /\ Reported /\ Scanned /\ (\A b \in Agents : Accompanied(b)) /\ \A m \in Messages : Accepted(m)
  BY Zenon DEF SwarmIInv
<1>2. CASE ConsumeCompletion
  <2>1. /\ completions # <<>> /\ consumed' = consumed \union {Head(completions)[1]}
        /\ completions' = Tail(completions)
        /\ UNCHANGED <<state, silent, lanes, channels, cancelled, worker, report, messages, orphans, scan>>
    BY <1>2, Zenon DEF ConsumeCompletion
  <2>2. Len(completions) \in Nat \ {0}
    BY <1>1, <2>1, EmptySeq, Zenon DEF SwarmTypes
  <2>3. /\ completions' \in Seq(Agents \X Final) /\ Len(completions') = Len(completions) - 1
        /\ \A i \in 1 .. Len(completions') : completions'[i] = completions[i + 1]
    BY <1>1, <2>1, HeadTailProperties, Zenon DEF SwarmTypes
  <2>4. Head(completions) = completions[1] /\ completions[1] \in Agents \X Final
    BY <1>1, <2>2, ElementOfSeq DEF SwarmTypes
  <2>5. \A i \in 1 .. Len(completions') : i + 1 \in 1 .. Len(completions) /\ i + 1 # 1
    BY <2>2, <2>3
  <2>6. \A i \in 1 .. Len(completions') :
          /\ completions'[i][2] \in Final
          /\ worker'[completions'[i][1]] = "gone" /\ completions'[i][1] \notin consumed'
    BY <1>1, <2>1, <2>2, <2>3, <2>4, <2>5 DEF Reported
  <2>7. ASSUME NEW i \in 1 .. Len(completions'), NEW j \in 1 .. Len(completions'),
               completions'[i][1] = completions'[j][1]
        PROVE  i = j
    <3>1. i + 1 \in 1 .. Len(completions) /\ j + 1 \in 1 .. Len(completions)
      BY <2>5, Zenon
    <3>2. completions[i + 1][1] = completions[j + 1][1]
      BY <2>3, <2>7, Zenon
    <3>3. i + 1 = j + 1
      BY <1>1, <3>1, <3>2, Zenon DEF Reported
    <3> QED
      BY <2>2, <2>3, <3>3
  <2>8. Reported' /\ consumed' \subseteq Agents
    BY <1>1, <2>1, <2>2, <2>4, <2>6, <2>7 DEF Reported, SwarmTypes
  <2>9. Lanes'
    BY <1>1, <2>1, LanesKept, Zenon DEF ActiveAgents, Lanes
  <2> QED
    BY <1>1, <2>1, <2>3, <2>8, <2>9, Zenon
       DEF SwarmIInv, SwarmTypes, Scanned, Accompanied, Accepted
<1>3. ASSUME NEW a \in Agents, NEW expected \in Active, AbortScoped(a, expected) PROVE SwarmIInv'
  <2>1. /\ state[a] \in Active /\ DoAbort(a)
        /\ UNCHANGED <<worker, report, completions, consumed, messages, orphans, scan>>
    BY <1>3, Zenon DEF AbortScoped
  <2>2. Onward /\ Lanes' /\ Reported' /\ \A b \in Agents : Accompanied(b)'
    BY <2>1, Aborting, Zenon
  <2>3. Scanned'
    BY <2>1, <2>2, ScanGoesOn, Zenon
  <2> QED
    BY <1>1, <2>1, <2>2, <2>3, Zenon
       DEF SwarmIInv, SwarmTypes, Onward, Accepted
<1> QED
  BY <1>2, <1>3, Zenon

\* Signed verbs, delivered late or twice.
LEMMA VerbSteps ==
  ASSUME SwarmIInv, NEW m \in Messages,
         Deliver(m) \/ ApplyDelivered(m) \/ \E a \in Agents, verb \in Verbs : Sign(m, a, verb)
  PROVE  SwarmIInv'
<1>1. SwarmTypes /\ Lanes /\ Reported /\ Scanned /\ (\A b \in Agents : Accompanied(b)) /\ \A n \in Messages : Accepted(n)
  BY Zenon DEF SwarmIInv
<1>2. ASSUME NEW v \in Signed, messages' = [messages EXCEPT ![m] = v],
             v.accepted <= 1, v.nonce = "fresh" => v.accepted = 0,
             UNCHANGED <<worker, report, completions, consumed, orphans, scan>>,
             Onward, Lanes', Reported', \A b \in Agents : Accompanied(b)'
      PROVE  SwarmIInv'
  <2>1. \A n \in Messages : Accepted(n)'
    BY <1>1, <1>2, Zenon DEF Accepted, SwarmTypes
  <2>2. SwarmTypes'
    BY <1>1, <1>2, Zenon DEF SwarmTypes, Onward
  <2> QED
    BY <1>2, <2>1, <2>2, ScanGoesOn, Zenon DEF SwarmIInv
<1>3. ASSUME UNCHANGED <<state, silent, lanes, channels, cancelled, worker, report, completions, consumed>>
      PROVE  Onward /\ Lanes' /\ Reported' /\ \A b \in Agents : Accompanied(b)'
  BY <1>1, <1>3, LanesKept, Zenon
     DEF SwarmTypes, Onward, ActiveAgents, Lanes, Reported, Accompanied
<1>4. ASSUME NEW a \in Agents, NEW verb \in Verbs, Sign(m, a, verb) PROVE SwarmIInv'
  <2> DEFINE v == [nonce |-> "fresh", agent |-> a, verb |-> verb, accepted |-> 0]
  <2>1. v \in Signed /\ v.accepted <= 1 /\ (v.nonce = "fresh" => v.accepted = 0)
    BY DEF Signed
  <2>2. /\ messages' = [messages EXCEPT ![m] = v]
        /\ UNCHANGED <<state, silent, lanes, channels, cancelled, worker, report, completions, consumed, orphans, scan>>
    BY <1>4, Zenon DEF Sign
  <2>3. Onward /\ Lanes' /\ Reported' /\ \A b \in Agents : Accompanied(b)'
    BY <1>3, <2>2, Zenon
  <2> HIDE DEF v
  <2> QED
    BY <1>2, <2>1, <2>2, <2>3, Zenon
<1>5. CASE Deliver(m)
  <2> DEFINE v == [messages[m] EXCEPT !.nonce = "applying", !.accepted = @ + 1]
             w == [messages[m] EXCEPT !.nonce = "applying"]
  <2>1. messages[m] # Unsigned /\ messages[m].nonce = "fresh"
    BY <1>5, Zenon DEF Deliver, Unused
  <2>2. messages[m] \in Signed /\ messages[m].accepted = 0
    BY <1>1, <2>1, Zenon DEF SwarmTypes, Accepted
  <2>3. v = [w EXCEPT !.accepted = w.accepted + 1]
    BY <2>2, Zenon DEF Signed
  <2>4. w \in Signed /\ w.accepted = 0 /\ w.nonce = "applying"
    BY <2>2, Zenon DEF Signed
  <2>5. /\ messages' = [messages EXCEPT ![m] = v]
        /\ UNCHANGED <<state, silent, lanes, channels, cancelled, worker, report, completions, consumed, orphans, scan>>
    BY <1>1, <1>5, Zenon DEF Deliver, SwarmTypes
  <2>6. Onward /\ Lanes' /\ Reported' /\ \A b \in Agents : Accompanied(b)'
    BY <1>3, <2>5, Zenon
  <2> HIDE DEF v, w
  <2>7. v \in Signed /\ v.accepted <= 1 /\ (v.nonce = "fresh" => v.accepted = 0)
    BY <2>3, <2>4 DEF Signed
  <2> QED
    BY <1>2, <2>5, <2>6, <2>7, Zenon
<1>6. CASE ApplyDelivered(m)
  <2> DEFINE v == [messages[m] EXCEPT !.nonce = "used"]
             a == messages[m].agent
  <2>1. messages[m] \in Signed /\ messages[m].accepted <= 1 /\ a \in Agents
    BY <1>1, <1>6 DEF ApplyDelivered, SwarmTypes, Accepted, Unsigned, Signed
  <2>2. v \in Signed /\ v.accepted <= 1 /\ v.nonce = "used"
    BY <2>1, Zenon DEF Signed
  <2>3. messages' = [messages EXCEPT ![m] = v] /\ UNCHANGED <<worker, report, completions, consumed, orphans, scan>>
    BY <1>1, <1>6, Zenon DEF ApplyDelivered, SwarmTypes
  <2>4. /\ state[a] \in Active => applyVerb(a, messages[m].verb)
        /\ state[a] \notin Active => UNCHANGED <<state, silent, lanes, channels, cancelled>>
    BY <1>6, Zenon DEF ApplyDelivered
  <2> HIDE DEF v, a
  <2>5. Onward /\ Lanes' /\ Reported' /\ \A b \in Agents : Accompanied(b)'
    <3>1. CASE state[a] \notin Active
      BY <1>3, <2>3, <2>4, <3>1, Zenon
    <3>2. CASE state[a] \in Active /\ DoAbort(a)
      BY <2>1, <2>3, <3>2, Aborting, Zenon
    <3>3. ASSUME state[a] \in Active, NEW s \in Active, state' = [state EXCEPT ![a] = s],
                 silent' = silent \ {a}, UNCHANGED <<lanes, channels, cancelled>>
          PROVE  Onward /\ Lanes' /\ Reported' /\ \A b \in Agents : Accompanied(b)'
      <4>1. Onward
        BY <1>1, <2>1, <3>3, Zenon
           DEF SwarmTypes, Onward, States, Active, Final
      <4>2. ActiveAgents' = ActiveAgents
        BY <1>1, <2>1, <3>3, Zenon DEF ActiveAgents, SwarmTypes
      <4>3. Lanes'
        BY <1>1, <3>3, <4>2, LanesKept, Zenon DEF Lanes
      <4>4. ASSUME NEW b \in Agents PROVE Accompanied(b)'
        BY <1>1, <2>1, <2>3, <3>3, Zenon
           DEF Accompanied, SwarmTypes, Active, Final
      <4>5. Reported'
        BY <1>1, <2>3, Zenon DEF Reported
      <4> QED
        BY <4>1, <4>3, <4>4, <4>5, Zenon
    <3> QED
      BY <2>4, <3>1, <3>2, <3>3, Zenon DEF applyVerb, Active
  <2> QED
    BY <1>2, <2>2, <2>3, <2>5, Zenon
<1> QED
  BY <1>4, <1>5, <1>6, Zenon

\* The orphan scan, which works on a list it took earlier.
LEMMA ScanSteps ==
  ASSUME SwarmIInv,
         ScanOrphans \/ DeliverAbort \/ ApplyAbort \/ MarkOrphaned \/ \E a \in Agents : SignAbort(a)
  PROVE  SwarmIInv'
<1>1. SwarmTypes /\ Lanes /\ Reported /\ Scanned /\ (\A b \in Agents : Accompanied(b)) /\ \A n \in Messages : Accepted(n)
  BY Zenon DEF SwarmIInv
<1>2. ASSUME Scanned', orphans' \subseteq Agents, scan' \in {NotScanning, [at |-> "next"]} \union Handling,
             UNCHANGED <<state, silent, lanes, channels, cancelled, worker, report, completions, consumed, messages>>
      PROVE  SwarmIInv'
  <2>1. Lanes'
    BY <1>1, <1>2, LanesKept, Zenon DEF ActiveAgents, Lanes
  <2> QED
    BY <1>1, <1>2, <2>1, Zenon
       DEF SwarmIInv, SwarmTypes, Reported, Accompanied, Accepted
<1>3. NotScanning \notin Handling /\ [at |-> "next"] \notin Handling /\ NotScanning.at = "idle"
  BY Zenon DEF NotScanning, Handling
<1>4. CASE ScanOrphans
  <2>1. \A a \in silent : a \in Agents /\ state[a] # "none"
    BY <1>1, Zenon DEF Lanes, ActiveAgents, Active
  <2>2. Scanned'
    BY <1>1, <1>3, <1>4, <2>1, Zenon DEF ScanOrphans, Scanned
  <2> QED
    BY <1>2, <1>4, <2>1, <2>2, Zenon DEF ScanOrphans
<1>5. ASSUME NEW a \in Agents, SignAbort(a) PROVE SwarmIInv'
  <2>1. PICK at \in {"deliver", "abort"} : scan' = [at |-> at, agent |-> a]
    BY <1>5, Zenon DEF SignAbort
  <2>2. scan' \in Handling /\ scan'.agent = a /\ scan'.at # "mark"
    BY <2>1, Zenon DEF Handling
  <2>3. Scanned' /\ orphans' \subseteq Agents
    BY <1>1, <1>5, <2>2, Zenon DEF SignAbort, Scanned, SwarmTypes
  <2> QED
    BY <1>2, <1>5, <2>2, <2>3, Zenon DEF SignAbort
<1>6. scan.at \in {"deliver", "abort", "apply", "mark"} =>
        scan \in Handling /\ scan.agent \in Agents /\ state[scan.agent] # "none"
  BY <1>1, <1>3 DEF SwarmTypes, Handling, Scanned
<1>7. ASSUME scan \in Handling, NEW at \in {"deliver", "abort", "apply", "mark"},
             scan' = [scan EXCEPT !.at = at]
      PROVE  scan' \in Handling /\ scan'.agent = scan.agent /\ scan'.at = at
  BY <1>7, Zenon DEF Handling
<1>8. CASE DeliverAbort
  <2>1. scan \in Handling /\ state[scan.agent] # "none"
    BY <1>6, <1>8, Zenon DEF DeliverAbort
  <2>2. scan' \in Handling /\ scan'.agent = scan.agent /\ scan'.at \in {"apply", "abort"}
    BY <1>7, <1>8, <2>1, Zenon DEF DeliverAbort
  <2>3. Scanned' /\ orphans' \subseteq Agents
    BY <1>1, <1>8, <2>1, <2>2, Zenon DEF DeliverAbort, Scanned, SwarmTypes
  <2> QED
    BY <1>2, <1>8, <2>2, <2>3, Zenon DEF DeliverAbort
<1>9. CASE ApplyAbort
  <2>1. scan \in Handling /\ scan.agent \in Agents /\ state[scan.agent] # "none" /\ scan.at \in {"apply", "abort"}
    BY <1>6, <1>9, Zenon DEF ApplyAbort
  <2>2. UNCHANGED <<worker, report, completions, consumed, messages, orphans>>
    BY <1>9, Zenon DEF ApplyAbort
  <2>3. CASE state[scan.agent] \in Active
    <3>1. DoAbort(scan.agent) /\ scan' = [scan EXCEPT !.at = "mark"]
      BY <1>9, <2>3, Zenon DEF ApplyAbort
    <3>2. scan' \in Handling /\ scan'.agent = scan.agent
      BY <1>7, <2>1, <3>1, Zenon
    <3>3. Onward /\ state'[scan.agent] \in Final /\ Lanes' /\ Reported' /\ \A b \in Agents : Accompanied(b)'
      BY <2>1, <2>2, <2>3, <3>1, Aborting, Zenon
    <3>4. Scanned'
      BY <1>1, <2>2, <3>2, <3>3, Zenon DEF Scanned, Onward, Final, SwarmTypes
    <3> QED
      BY <1>1, <2>2, <3>2, <3>3, <3>4, Zenon
         DEF SwarmIInv, SwarmTypes, Onward, Accepted
  <2>4. CASE state[scan.agent] \notin Active
    <3>1. /\ scan' = [scan EXCEPT !.at = IF scan.at = "apply" THEN "abort" ELSE "mark"]
          /\ UNCHANGED <<state, silent, lanes, channels, cancelled>>
      BY <1>9, <2>4, Zenon DEF ApplyAbort
    <3>2. scan' \in Handling /\ scan'.agent = scan.agent
      BY <1>7, <2>1, <3>1, Zenon
    <3>3. state[scan.agent] \in Final
      BY <1>1, <2>1, <2>4, Zenon DEF SwarmTypes, States
    <3>4. Scanned' /\ orphans' \subseteq Agents
      BY <1>1, <2>1, <2>2, <3>1, <3>2, <3>3, Zenon DEF Scanned, SwarmTypes
    <3> QED
      BY <1>2, <2>2, <3>1, <3>2, <3>4, Zenon
  <2> QED
    BY <2>3, <2>4, Zenon
<1>10. CASE MarkOrphaned
  <2>1. scan.agent \in Agents /\ state[scan.agent] \in Final /\ state' = [state EXCEPT ![scan.agent] = "orphaned"]
    BY <1>1, <1>6, <1>10, Zenon DEF MarkOrphaned, Scanned
  <2>2. scan' \in {NotScanning, [at |-> "next"]} /\ "orphaned" \in Final
    BY <1>10, Zenon DEF MarkOrphaned, Final
  <2>3. UNCHANGED <<silent, lanes, channels, cancelled, worker, report, completions, consumed, messages, orphans>>
    BY <1>10, Zenon DEF MarkOrphaned
  <2>4. Onward /\ ActiveAgents' = ActiveAgents
    BY <1>1, <2>1, <2>2, Zenon
       DEF Onward, SwarmTypes, States, ActiveAgents, Active, Final
  <2>5. Lanes'
    BY <1>1, <2>3, <2>4, LanesKept, Zenon DEF Lanes
  <2>6. ASSUME NEW b \in Agents PROVE Accompanied(b)'
    BY <1>1, <2>1, <2>2, <2>3, Zenon DEF Accompanied, SwarmTypes, Final
  <2>7. Scanned'
    BY <1>1, <1>3, <2>2, <2>3, <2>4 DEF Scanned, Onward, SwarmTypes
  <2> QED
    BY <1>1, <2>2, <2>3, <2>4, <2>5, <2>6, <2>7, Zenon
       DEF SwarmIInv, SwarmTypes, Reported, Onward, Accepted
<1> QED
  BY <1>4, <1>5, <1>8, <1>9, <1>10, Zenon

(* Every step of the registry and of its workers keeps it.                   *)
LEMMA SwarmSteps == SwarmIInv /\ [SwarmNext]_swarmVars => SwarmIInv'
<1>1. SwarmIInv /\ UNCHANGED swarmVars => SwarmIInv'
  <2> SUFFICES ASSUME SwarmIInv, UNCHANGED swarmVars PROVE SwarmIInv'
    BY Zenon
  <2>1. Lanes'
    BY LanesKept, Zenon DEF SwarmIInv, swarmVars, ActiveAgents, Lanes
  <2> QED
    BY <2>1, Zenon
       DEF SwarmIInv, swarmVars, SwarmTypes, Reported, Scanned, Accompanied, Accepted
<1> QED
  BY <1>1, AgentSteps, ParentSteps, VerbSteps, ScanSteps, Zenon DEF SwarmNext

\* For any number of sub-agents, sessions, parents and verbs: the lanes count exactly
\* the active agents and stay within their limits, whoever of worker, operator, parent
\* and orphan scan ends an agent first; a worker that outlives its agent has been
\* cancelled; a verb is accepted once; no Completion is of an active agent or sent
\* twice (SpawnReduced, Complete, abort, ScanOrphans, applyVerb).
THEOREM SwarmSafety == SwarmSpec => []SwarmInv
<1>1. SwarmIInv => SwarmInv
  <2> SUFFICES ASSUME SwarmIInv PROVE SwarmInv
    BY Zenon
  <2>1. \A s : OfSession(s) = {a \in {a \in Agents : state[a] \in Active} : SessionOf[a] = s}
    BY Zenon DEF OfSession, ActiveAgents
  <2>2. \A p : OfParent(p) = {a \in {a \in Agents : state[a] \in Active} : ParentOf[a] = p}
    BY Zenon DEF OfParent, ActiveAgents
  <2>3. ActiveAgents = {a \in Agents : state[a] \in Active}
    BY Zenon DEF ActiveAgents
  <2> QED
    BY <2>1, <2>2, <2>3, Zenon
       DEF SwarmIInv, SwarmInv, Lanes, Reported, Accompanied, Accepted
<1> QED
  BY <1>1, SwarmStarts, SwarmSteps, PTL DEF SwarmSpec

-----------------------------------------------------------------------------
(* The process of a project terminal. *)

Outcomes == {"none", "running"} \union Ended
Positions(seen) == {seen[k] : k \in 1..Len(seen)}

TerminalTypes ==
    /\ pending \in Nat /\ base \in Nat /\ cursor \in Nat /\ base <= cursor /\ deaths \in Nat
    /\ client \in [cursor : Nat, seen : Seq(Nat), missed : SUBSET Nat]
    /\ session \in Outcomes /\ row \in [status : Outcomes, cursor : Nat]

\* As long as no daemon has died, a session that is not in the map was never
\* started, and the client is not ahead of the ring.
Followed ==
    /\ session = "none" => waiter = "none" /\ row.status = "none"
    /\ client.cursor <= cursor /\ cursor - base <= OutputBytes
    /\ \A k \in 1 .. Len(client.seen) - 1 : client.seen[k] < client.seen[k + 1]
    /\ Positions(client.seen) \union client.missed = 0 .. client.cursor - 1

TerminalIInv ==
    /\ TerminalTypes
    /\ deaths = 0 => Followed

\* A replay adds what the ring has from the client's cursor on (Replay).
LEMMA Replayed ==
  ASSUME NEW seen \in Seq(Nat), NEW from \in Nat, NEW to \in Nat, from <= to,
         \A k \in 1 .. Len(seen) - 1 : seen[k] < seen[k + 1],
         \A k \in 1 .. Len(seen) : seen[k] < from
  PROVE  LET all == seen \o [k \in 1 .. to - from |-> from + k - 1] IN
         /\ all \in Seq(Nat) /\ Positions(all) = Positions(seen) \union from .. to - 1
         /\ \A k \in 1 .. Len(all) - 1 : all[k] < all[k + 1]
<1> DEFINE sent == [k \in 1 .. to - from |-> from + k - 1]
           all == seen \o sent
<1>1. sent \in Seq(Nat) /\ Len(sent) = to - from
  OBVIOUS
<1>2. \A k \in 1 .. to - from : sent[k] = from + k - 1
  BY Zenon
<1>3. /\ Len(seen) \in Nat /\ (\A k \in 1 .. Len(seen) : seen[k] \in Nat)
      /\ all \in Seq(Nat) /\ Len(all) = Len(seen) + (to - from)
      /\ \A k \in 1 .. Len(seen) + (to - from) : all[k] = IF k <= Len(seen) THEN seen[k] ELSE sent[k - Len(seen)]
  BY <1>1, ConcatProperties, LenProperties, ElementOfSeq
<1> HIDE DEF all, sent
<1>4. ASSUME NEW k \in 1 .. Len(all) PROVE all[k] = IF k <= Len(seen) THEN seen[k] ELSE from + (k - Len(seen)) - 1
  BY <1>2, <1>3
<1>5. ASSUME NEW k \in 1 .. Len(all) - 1 PROVE all[k] < all[k + 1]
  <2>1. k \in 1 .. Len(all) /\ k + 1 \in 1 .. Len(all)
    BY <1>3
  <2>2. /\ all[k] = IF k <= Len(seen) THEN seen[k] ELSE from + (k - Len(seen)) - 1
        /\ all[k + 1] = IF k + 1 <= Len(seen) THEN seen[k + 1] ELSE from + (k + 1 - Len(seen)) - 1
    BY <1>4, <2>1
  <2>3. CASE k + 1 <= Len(seen)
    BY <1>3, <2>2, <2>3
  <2>4. CASE k = Len(seen)
    BY <1>3, <2>2, <2>4
  <2>5. CASE k > Len(seen)
    BY <1>3, <2>2, <2>5
  <2> QED
    BY <1>3, <2>3, <2>4, <2>5
<1>6. Positions(all) = Positions(seen) \union from .. to - 1
  <2>1. ASSUME NEW k \in 1 .. Len(all) PROVE all[k] \in Positions(seen) \union from .. to - 1
    <3>1. CASE k <= Len(seen)
      <4>1. k \in 1 .. Len(seen) /\ all[k] = seen[k]
        BY <1>3, <1>4, <3>1
      <4> QED
        BY <4>1, Zenon DEF Positions
    <3>2. CASE k > Len(seen)
      <4>1. all[k] \in from .. to - 1
        BY <1>3, <1>4, <3>2
      <4> QED
        BY <4>1, Zenon
    <3> QED
      BY <1>3, <3>1, <3>2
  <2>2. ASSUME NEW k \in 1 .. Len(seen) PROVE seen[k] \in Positions(all)
    <3>1. k \in 1 .. Len(all) /\ all[k] = seen[k]
      BY <1>3, <1>4
    <3> QED
      BY <3>1, Zenon DEF Positions
  <2>3. ASSUME NEW n \in from .. to - 1 PROVE n \in Positions(all)
    <3> DEFINE k == n - from + 1 + Len(seen)
    <3>1. k \in 1 .. Len(all) /\ ~(k <= Len(seen)) /\ from + (k - Len(seen)) - 1 = n
      BY <1>3
    <3> HIDE DEF k
    <3>2. all[k] = n
      BY <1>4, <3>1, Zenon
    <3> QED
      BY <3>1, <3>2, Zenon DEF Positions
  <2> QED
    BY <2>1, <2>2, <2>3, Zenon DEF Positions
<1> QED
  BY <1>3, <1>5, <1>6, Zenon DEF all, sent

(* A terminal that was never started satisfies the inductive invariant.      *)
LEMMA TerminalStarts == TerminalInit => TerminalIInv
<1> SUFFICES ASSUME TerminalInit PROVE TerminalIInv
  BY Zenon
<1>1. <<>> \in Seq(Nat) /\ Len(<<>>) = 0
  BY EmptySeq, Zenon
<1>2. client \in [cursor : Nat, seen : Seq(Nat), missed : SUBSET Nat]
  BY <1>1, Zenon DEF TerminalInit
<1>3. client.cursor = 0 /\ client.seen = <<>> /\ client.missed = {}
  BY Zenon DEF TerminalInit
<1>4. Positions(<<>>) = {}
  BY <1>1 DEF Positions
<1>5. Followed
  BY <1>1, <1>3, <1>4, OutputAssumption DEF TerminalInit, Followed, NoRow
<1> QED
  BY <1>2, <1>5 DEF TerminalInit, TerminalIInv, TerminalTypes, Outcomes, Ended, NoRow

\* Bytes that fall out of the ring move its base (appendOutput).
LEMMA Appended ==
  ASSUME TerminalTypes, NEW n \in Nat, appendOutput(n)
  PROVE  /\ base' \in Nat /\ cursor' \in Nat /\ base' <= cursor' /\ cursor <= cursor'
         /\ cursor - base <= OutputBytes => cursor' - base' <= OutputBytes
  BY OutputAssumption DEF TerminalTypes, appendOutput

(* Every step of the process, its readers, the client and the daemon keeps   *)
(* it.                                                                       *)
LEMMA TerminalSteps == TerminalIInv /\ [TerminalNext]_terminalVars => TerminalIInv'
<1> SUFFICES ASSUME TerminalIInv, [TerminalNext]_terminalVars PROVE TerminalIInv'
  BY Zenon
<1>1. TerminalTypes /\ (deaths = 0 => Followed)
  BY Zenon DEF TerminalIInv
<1>2. ASSUME UNCHANGED <<client, deaths>>, pending' \in Nat, base' \in Nat, cursor' \in Nat, base' <= cursor',
             cursor <= cursor', cursor - base <= OutputBytes => cursor' - base' <= OutputBytes,
             session' \in Outcomes, row' \in [status : Outcomes, cursor : Nat],
             deaths = 0 /\ session' = "none" => waiter' = "none" /\ row'.status = "none"
      PROVE  TerminalIInv'
  <2>1. client.cursor \in Nat
    BY <1>1, Zenon DEF TerminalTypes
  <2>2. deaths = 0 => client.cursor <= cursor'
    BY <1>1, <1>2, <2>1 DEF TerminalTypes, Followed
  <2> QED
    BY <1>1, <1>2, <2>2, Zenon DEF TerminalIInv, TerminalTypes, Followed
<1>3. CASE StartTerminal \/ Exit \/ CancelTerminal \/ TimerFires \/ ContextDone
  BY <1>1, <1>2, <1>3 DEF StartTerminal, Exit, CancelTerminal, TimerFires, ContextDone,
                          TerminalTypes, Followed, Outcomes, Ended
<1>12. ASSUME NEW child \in Children, Fork(child) \/ ChildExits(child) PROVE TerminalIInv'
  BY <1>1, <1>2, <1>12 DEF Fork, ChildExits, TerminalTypes, Followed
<1>4. ASSUME NEW saved \in BOOLEAN, PersistStart(saved) \/ PersistEnd(saved) PROVE TerminalIInv'
  <2>1. row' \in [status : Outcomes, cursor : Nat]
    BY <1>1, <1>4 DEF PersistStart, PersistEnd, TerminalTypes
  <2>2. deaths = 0 => session # "none"
    BY <1>1, <1>4, Zenon DEF PersistStart, PersistEnd, Followed
  <2> QED
    BY <1>1, <1>2, <1>4, <2>1, <2>2 DEF PersistStart, PersistEnd, TerminalTypes
<1>5. ASSUME NEW newline \in BOOLEAN, Write(newline) PROVE TerminalIInv'
  <2>1. /\ UNCHANGED <<process, session, row, waiter, cancel, timedOut, client, deaths>>
        /\ session # "none" /\ session \in Outcomes /\ row \in [status : Outcomes, cursor : Nat]
    BY <1>1, <1>5, Zenon DEF Write, TerminalTypes
  <2>2. CASE newline
    <3>1. appendOutput(pending + 1) /\ pending' = 0 /\ pending + 1 \in Nat
      BY <1>1, <1>5, <2>2 DEF Write, TerminalTypes
    <3> QED
      BY <1>1, <1>2, <2>1, <3>1, Appended, Zenon
  <2>3. CASE ~newline
    <3>1. pending' \in Nat /\ UNCHANGED <<base, cursor>>
      BY <1>1, <1>5, <2>3 DEF Write, TerminalTypes
    <3> QED
      BY <1>1, <1>2, <2>1, <3>1 DEF TerminalTypes
  <2> QED
    BY <2>2, <2>3, Zenon
<1>6. ASSUME NEW exitZero \in BOOLEAN, Settle(exitZero) PROVE TerminalIInv'
  <2>1. /\ appendOutput(pending) /\ pending' = 0 /\ pending \in Nat /\ row \in [status : Outcomes, cursor : Nat]
        /\ session' \in Ended /\ UNCHANGED <<row, client, deaths>>
    BY <1>1, <1>6, Zenon DEF Settle, TerminalTypes, Ended
  <2> QED
    BY <1>1, <1>2, <2>1, Appended, Zenon DEF Outcomes, Ended
<1>7. CASE Replay
  <2> DEFINE from == FromCursor(client.cursor)
             sent == [k \in 1 .. cursor - from |-> from + k - 1]
             next == [cursor |-> cursor, seen |-> client.seen \o sent,
                      missed |-> client.missed \union client.cursor .. from - 1]
  <2>1. /\ client' = next /\ client.cursor <= cursor
        /\ UNCHANGED <<process, session, row, waiter, cancel, timedOut, pending, base, cursor, deaths>>
    BY <1>7, Zenon DEF Replay
  <2>2. /\ client.cursor \in Nat /\ client.seen \in Seq(Nat) /\ client.missed \in SUBSET Nat
        /\ base \in Nat /\ cursor \in Nat /\ base <= cursor
    BY <1>1, Zenon DEF TerminalTypes
  <2>3. from \in Nat /\ client.cursor <= from /\ from <= cursor
    <3> DEFINE c == client.cursor
    <3>1. FromCursor(c) = IF c < base THEN base ELSE c
      BY Zenon DEF FromCursor
    <3>2. c \in Nat /\ c <= cursor
      BY <2>1, <2>2, Zenon
    <3> HIDE DEF c
    <3>3. FromCursor(c) \in Nat /\ c <= FromCursor(c) /\ FromCursor(c) <= cursor
      BY <2>2, <3>1, <3>2
    <3> QED
      BY <3>3, Zenon DEF c
  <2>4. sent \in Seq(Nat)
    <3> HIDE DEF from
    <3> QED
      BY <2>2, <2>3
  <2>5. client.seen \o sent \in Seq(Nat)
    BY <2>2, <2>4, ConcatProperties, Zenon
  <2> HIDE DEF from, sent
  <2>6. next.cursor = cursor /\ next.seen = client.seen \o sent /\ next.missed = client.missed \union client.cursor .. from - 1
    BY Zenon
  <2>7. next \in [cursor : Nat, seen : Seq(Nat), missed : SUBSET Nat]
    BY <2>2, <2>3, <2>5
  <2> HIDE DEF next
  <2>8. TerminalTypes'
    BY <1>1, <2>1, <2>7, Zenon DEF TerminalTypes
  <2>9. ASSUME deaths = 0 PROVE Followed'
    <3>1. Followed
      BY <1>1, <2>9, Zenon
    <3>2. \A k \in 1 .. Len(client.seen) : client.seen[k] \in 0 .. client.cursor - 1
      BY <3>1, Zenon DEF Followed, Positions
    <3>3. \A k \in 1 .. Len(client.seen) : client.seen[k] < from
      BY <2>2, <2>3, <3>2
    <3>4. \A k \in 1 .. Len(client.seen) - 1 : client.seen[k] < client.seen[k + 1]
      BY <3>1, Zenon DEF Followed
    <3>5. /\ Positions(client.seen \o sent) = Positions(client.seen) \union from .. cursor - 1
          /\ \A k \in 1 .. Len(client.seen \o sent) - 1 : (client.seen \o sent)[k] < (client.seen \o sent)[k + 1]
      BY <2>2, <2>3, <3>3, <3>4, Replayed, Zenon DEF sent
    <3>6. /\ Positions(next.seen) = Positions(client.seen) \union from .. cursor - 1
          /\ \A k \in 1 .. Len(next.seen) - 1 : next.seen[k] < next.seen[k + 1]
      BY <2>6, <3>5, Zenon
    <3>7. Positions(next.seen) \union next.missed = 0 .. cursor - 1
      <4>1. Positions(next.seen) \union next.missed
              = (0 .. client.cursor - 1) \union (client.cursor .. from - 1) \union (from .. cursor - 1)
        BY <2>6, <3>1, <3>6, Zenon DEF Followed
      <4> QED
        BY <2>2, <2>3, <4>1
    <3>8. Positions(client'.seen) = Positions(next.seen) /\ client'.cursor = cursor /\ client'.missed = next.missed
      BY <2>1, <2>6, Zenon
    <3>9. /\ Positions(client'.seen) \union client'.missed = 0 .. client'.cursor - 1
          /\ \A k \in 1 .. Len(client'.seen) - 1 : client'.seen[k] < client'.seen[k + 1]
      BY <2>1, <3>6, <3>7, <3>8, Zenon
    <3>10. /\ session' = "none" => waiter' = "none" /\ row'.status = "none"
           /\ cursor' - base' <= OutputBytes
      BY <2>1, <3>1, Zenon DEF Followed
    <3> QED
      BY <2>1, <2>2, <3>1, <3>8, <3>9, <3>10 DEF Followed
  <2> QED
    BY <1>1, <2>1, <2>8, <2>9, Zenon DEF TerminalIInv
<1>8. CASE ReplayRow
  <2>1. deaths # 0
    BY <1>1, <1>8, Zenon DEF ReplayRow, Followed
  <2>2. client' \in [cursor : Nat, seen : Seq(Nat), missed : SUBSET Nat]
    BY <1>1, <1>8 DEF ReplayRow, TerminalTypes
  <2> QED
    BY <1>1, <1>8, <2>1, <2>2, Zenon DEF ReplayRow, TerminalIInv, TerminalTypes
<1>9. CASE Die
  BY <1>1, <1>9 DEF Die, TerminalIInv, TerminalTypes, Outcomes, Ended
<1>10. ASSUME NEW saved \in BOOLEAN, ReconcileAll(saved) PROVE TerminalIInv'
  <2>1. row' \in [status : Outcomes, cursor : Nat]
    BY <1>1, <1>10, Zenon DEF ReconcileAll, TerminalTypes, Outcomes, Ended
  <2>2. deaths = 0 => session # "none"
    BY <1>1, <1>10, Zenon DEF ReconcileAll, Followed
  <2> QED
    BY <1>1, <1>2, <1>10, <2>1, <2>2 DEF ReconcileAll, TerminalTypes
<1>11. CASE UNCHANGED terminalVars
  BY <1>1, <1>11, Zenon DEF terminalVars, TerminalIInv, TerminalTypes, Followed
<1> QED
  BY <1>3, <1>4, <1>5, <1>6, <1>7, <1>8, <1>9, <1>10, <1>11, <1>12, Zenon
     DEF TerminalNext

\* Where the goroutine is determines the session; only its last save writes an end
\* into the row while the daemon lives; and once the timer has fired the group is dead.
EndIInv ==
    /\ session \in Outcomes /\ timedOut \in BOOLEAN
    /\ process = "none" => session = "none" /\ row.status = "none" /\ timedOut = FALSE
    /\ waiter \in {"starting", "waiting", "killed"} => session = "running"
    /\ session = "running" => waiter \in {"starting", "waiting", "killed"}
    /\ waiter = "settled" => session \in Ended
    /\ waiter = "down" => session = "none"
    /\ waiter # "done" /\ session # "none" => row.status \notin Ended
    /\ waiter = "done" /\ row.status \in Ended /\ mode = "one_shot" /\ session \in Ended =>
         row.cursor = cursor
    /\ mode = "one_shot" /\ session \in Ended => pending = 0
    /\ timedOut = TRUE => process = "dead" /\ children \cap Group = {}
    /\ session = "timed_out" => timedOut = TRUE

(* Every step keeps what is known of the end of a session.                   *)
LEMMA EndSteps == TerminalTypes /\ EndIInv /\ [TerminalNext]_terminalVars => EndIInv'
<1> SUFFICES ASSUME TerminalTypes, EndIInv, [TerminalNext]_terminalVars PROVE EndIInv'
  BY Zenon
<1>1. CASE StartTerminal \/ Exit \/ CancelTerminal \/ Replay \/ ReplayRow
  BY <1>1 DEF StartTerminal, Exit, CancelTerminal, Replay, ReplayRow, EndIInv, Outcomes, Ended
<1>2. CASE TimerFires \/ ContextDone
  BY <1>2 DEF TimerFires, ContextDone, killProjectProcess, KillGroup, EndIInv, Outcomes, Ended
<1>3. CASE Die
  BY <1>3 DEF Die, EndIInv, Outcomes, Ended
<1>4. ASSUME NEW child \in Children, Fork(child) \/ ChildExits(child) PROVE EndIInv'
  BY <1>4 DEF Fork, ChildExits, EndIInv, Outcomes, Ended
<1>5. ASSUME NEW saved \in BOOLEAN, PersistStart(saved) PROVE EndIInv'
  BY <1>5 DEF PersistStart, EndIInv, Outcomes, Ended
<1>6. ASSUME NEW saved \in BOOLEAN, PersistEnd(saved) PROVE EndIInv'
  BY <1>6 DEF PersistEnd, EndIInv, Outcomes, Ended
<1>7. ASSUME NEW newline \in BOOLEAN, Write(newline) PROVE EndIInv'
  BY <1>7 DEF Write, EndIInv, Outcomes, Ended
<1>8. ASSUME NEW exitZero \in BOOLEAN, Settle(exitZero) PROVE EndIInv'
  BY <1>8 DEF Settle, Waited, EndIInv, Outcomes, Ended
<1>9. ASSUME NEW saved \in BOOLEAN, ReconcileAll(saved) PROVE EndIInv'
  BY <1>9 DEF ReconcileAll, KillGroup, EndIInv, Outcomes, Ended
<1>10. CASE UNCHANGED terminalVars
  BY <1>10 DEF terminalVars, EndIInv
<1> QED
  BY <1>1, <1>2, <1>3, <1>4, <1>5, <1>6, <1>7, <1>8, <1>9, <1>10, Zenon DEF TerminalNext

\* For rings and outputs of any size: whatever the ring drops and whenever the client
\* asks, as long as the daemon lives the client gets every byte once and in order or is
\* told of the gap; the end saved for a one-shot process covers all of its output; and
\* a session that timed out has no process left in its group, whichever of the leader,
\* its children, the timer and a cancellation came first (appendOutput, Replay, wait).
THEOREM ReplaySafety == TerminalInit /\ [][TerminalNext]_terminalVars => []ReplayInv
<1>1. TerminalIInv /\ EndIInv => ReplayInv
  <2> SUFFICES ASSUME TerminalIInv, EndIInv PROVE ReplayInv
    BY Zenon
  <2>1. mode = "one_shot" /\ session \in Ended /\ row.status \in Ended =>
           row.cursor = cursor /\ pending = 0
    BY DEF EndIInv, Ended
  <2>2. session = "timed_out" => process = "dead" /\ children \cap Group = {}
    BY Zenon DEF EndIInv
  <2> QED
    BY <2>1, <2>2, Zenon DEF TerminalIInv, ReplayInv, Followed, Positions
<1>2. TerminalInit => EndIInv
  <2> SUFFICES ASSUME TerminalInit PROVE EndIInv
    BY Zenon
  <2>1. /\ process = "none" /\ session = "none" /\ waiter = "none" /\ children = {}
        /\ row.status = "none" /\ timedOut = FALSE
    BY Zenon DEF TerminalInit, NoRow
  <2>2. "none" \in Outcomes /\ "none" \notin Ended
    BY DEF Outcomes, Ended
  <2>3. timedOut \in BOOLEAN /\ timedOut # TRUE
    BY <2>1, Zenon
  <2> QED
    BY <2>1, <2>2, <2>3, Zenon DEF EndIInv
<1>3. TerminalIInv => TerminalTypes
  BY Zenon DEF TerminalIInv
<1> QED
  BY <1>1, <1>2, <1>3, EndSteps, TerminalStarts, TerminalSteps, PTL
=============================================================================
