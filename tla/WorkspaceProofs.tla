--------------------------- MODULE WorkspaceProofs ---------------------------
(***************************************************************************)
(* Proofs about the workspace of a project: patches of its files, the      *)
(* process of its local service, the review of its specification and the   *)
(* portfolio of its work, for any paths, contents and patches, any number  *)
(* of starts, proposals, presses and edits, and any criteria, plans,       *)
(* artifacts and planners.                                                 *)
(***************************************************************************)
EXTENDS ProjectEditing, ProjectRuntime, StudioPlan, WorkPortfolio, FiniteSetTheorems,
        WellFoundedInduction, TLAPS

-----------------------------------------------------------------------------
(* Transactional patches.  AllOrNothing says nothing while a patch is in       *)
(* progress.  Editing adds what the files, the journal and the history say     *)
(* about each other at every step, so that undoing and finishing both reach    *)
(* it.                                                                         *)

Receipts == [patch : Nat, revision : Nat]

\* Each step of apply and ReconcileAll has its state of the journal.
Phases ==
    /\ step \in {"idle", "down", "member", "write", "applied", "bump", "commit", "record", "delete",
                 "restore", "unwrite"}
    /\ step \in {"member", "write", "applied", "restore", "unwrite"} => journal = "prepared"
    /\ step \in {"bump", "commit"} => journal = "applied"
    /\ step \in {"record", "delete"} => journal = "committed"
    /\ step \notin {"member", "write", "restore", "unwrite"} => left = {}
    /\ step \notin {"write", "unwrite"} => member = {}

\* A path the patch wrote holds its postimage, and held its preimage for its
\* owner; every other path holds what its owner put there.
Ownership ==
    /\ \A p \in Paths : p \notin mine \union exposed => files[p] = owned[p]
    /\ journal # "prepared" => mine = {}
    /\ \A p \in mine : files[p] = after[p] /\ (p \notin exposed => owned[p] = before[p])
    /\ step \in {"member", "write"} => mine \intersect left = {}
    /\ step \in {"restore", "unwrite"} /\ result = "nil" =>
           \A p \in mine : p \notin left => after[p] = before[p]
    /\ mine \subseteq touched
    /\ step = "write" => \A p \in member : p \notin exposed => files[p] = before[p]
    /\ step = "unwrite" => member \subseteq mine \union exposed
    /\ journal = "prepared" =>
           \A p \in touched : p \notin mine \union exposed /\ files[p] = after[p] => files[p] = before[p]

\* The receipts of earlier patches have earlier revisions.
Ordered ==
    /\ history \subseteq Receipts
    /\ \A r \in history : r.patch <= issued /\ r.revision <= revision
    /\ \A r, s \in history : r.revision = s.revision => r = s
    /\ id <= issued
    /\ journal # "none" => baseline <= revision
    /\ journal \in {"prepared", "applied"} => \A r \in history : r.patch # id /\ r.revision <= baseline
    /\ journal = "committed" \/ step = "commit" => baseline + 1 <= revision
    /\ journal = "committed" =>
           \A r \in history : IF r.patch = id THEN r.revision = baseline + 1 ELSE r.revision <= baseline
    /\ step = "delete" => \E r \in history : r.patch = id
    /\ \A patch \in acked : \E r \in history : r.patch = patch

Editing == EditingTypeOK /\ Phases /\ Ownership /\ Ordered

\* Initially no journal is there and every path is its owner's.
LEMMA EditingStart == EditingInit => Editing
  BY DEF EditingInit, Editing, EditingTypeOK, Phases, Ownership, Ordered, Images, Nothing, NoUndo,
     Receipts

\* A patch that begins, or whose journal cannot be saved, keeps Editing.
LEMMA BeginStep ==
    ASSUME Editing, NEW paths \in SUBSET Paths, NEW target \in Images, Begin(paths, target)
    PROVE  Editing'
<1> USE DEF Editing, EditingTypeOK, Phases, Ownership, Ordered, Images, Receipts,
            journalVars, recordVars, loopVars, ghostVars
<1>1. CASE journal' = "prepared"
  <2>1. EditingTypeOK'
    BY <1>1 DEF Begin, DeleteJournal, Nothing, preflightPatch, predictPatchPostimages
  <2>2. Phases'
    BY <1>1, Zenon
       DEF Begin, DeleteJournal, preflightPatch, predictPatchPostimages
  <2>3. Ownership'
    BY <1>1, Zenon
       DEF Begin, DeleteJournal, preflightPatch, predictPatchPostimages
  <2>4. Ordered'
    BY <1>1 DEF Begin, DeleteJournal, preflightPatch, predictPatchPostimages
  <2> QED
    BY <2>1, <2>2, <2>3, <2>4, Zenon
<1>2. CASE DeleteJournal /\ UNCHANGED <<step, mode, loopVars>>
  <2>1. EditingTypeOK'
    BY <1>2 DEF Begin, DeleteJournal, Nothing
  <2>2. Phases'
    BY <1>2, Zenon DEF Begin, DeleteJournal
  <2>3. Ownership'
    BY <1>2, Zenon DEF Begin, DeleteJournal
  <2>4. Ordered'
    BY <1>2 DEF Begin, DeleteJournal
  <2> QED
    BY <2>1, <2>2, <2>3, <2>4, Zenon
<1> QED
  BY <1>1, <1>2, Zenon DEF Begin

\* Every step of apply, Rollback, ReconcileAll or the outside keeps Editing.
LEMMA EditingStep == Editing /\ [EditingNext]_editingVars => Editing'
<1> SUFFICES ASSUME Editing, [EditingNext]_editingVars PROVE Editing'
  BY Zenon
<1> USE DEF Editing, EditingTypeOK, Phases, Ownership, Ordered, Images, Receipts,
            journalVars, recordVars, loopVars, ghostVars
<1>1. ASSUME NEW patch \in Patches, Apply(patch) PROVE Editing'
  BY <1>1, BeginStep, Zenon DEF Apply
<1>2. CASE Rollback
  <2>1. undo.before \in Images /\ {p \in undo.paths : undo.after[p] # undo.before[p]} \in SUBSET Paths
    BY Zenon
  <2> QED
    BY <1>2, <2>1, BeginStep, Zenon DEF Rollback
<1>3. ASSUME NEW paths \in SUBSET Paths, CheckMember(paths) PROVE Editing'
  BY <1>3, Zenon DEF CheckMember
<1>4. ASSUME NEW contents \in Images, WriteMember(contents) PROVE Editing'
  BY <1>4 DEF WriteMember
<1>5. CASE RefuseMember
  BY <1>5, Zenon DEF RefuseMember, ToRestore
<1>6. CASE WriteFails
  BY <1>6, Zenon DEF WriteFails, ToRestore
<1>7. CASE BuildReceipt
  BY <1>7, Zenon DEF BuildReceipt
<1>8. CASE NoReceipt
  BY <1>8, Zenon DEF NoReceipt
<1>9. CASE SaveApplied
  BY <1>9, Zenon DEF SaveApplied
<1>10. CASE Bump
  BY <1>10 DEF Bump, Fail
<1>11. CASE SaveCommitted
  BY <1>11, Zenon DEF SaveCommitted
<1>12. CASE Record
  <2>1. EditingTypeOK'
    BY <1>12, Zenon DEF Record
  <2>2. Phases'
    BY <1>12, Zenon DEF Record
  <2>3. Ownership'
    BY <1>12, Zenon DEF Record
  <2>4. Ordered'
    <3> DEFINE receipt == [patch |-> id, revision |-> baseline + 1]
    <3>1. receipt \in Receipts /\ receipt.patch = id /\ receipt.revision = baseline + 1
      OBVIOUS
    <3>2. history' = {r \in history : r.patch # id} \union {receipt}
      BY <1>12, Zenon DEF Record
    <3>3. \A r \in history : r.patch # id => r.revision <= baseline
      BY <1>12, Zenon DEF Record
    <3>4. \A r, s \in history' : r.revision = s.revision => r = s
      BY <3>1, <3>2, <3>3
    <3>5. \A patch \in acked' : \E r \in history' : r.patch = patch
      BY <1>12, <3>1, <3>2, Zenon DEF Record
    <3>6. \E r \in history' : r.patch = id'
      BY <1>12, <3>1, <3>2, Zenon DEF Record
    <3> QED
      BY <1>12, <3>1, <3>2, <3>3, <3>4, <3>5, <3>6 DEF Record
  <2> QED
    BY <2>1, <2>2, <2>3, <2>4, Zenon
<1>13. CASE Finish
  <2>1. EditingTypeOK'
    BY <1>13, Zenon DEF Finish, DeleteJournal, Nothing
  <2>2. Phases'
    BY <1>13, Zenon DEF Finish, DeleteJournal, Nothing
  <2>3. Ownership'
    BY <1>13, Zenon DEF Finish, DeleteJournal, Nothing
  <2>4. Ordered'
    BY <1>13 DEF Finish, DeleteJournal, Nothing
  <2> QED
    BY <2>1, <2>2, <2>3, <2>4, Zenon
<1>14. CASE StoreFails
  BY <1>14, Zenon DEF StoreFails, Fail
<1>15. ASSUME NEW p \in Paths, CheckRestore(p) PROVE Editing'
  <2>1. EditingTypeOK'
    BY <1>15 DEF CheckRestore
  <2>2. Phases'
    BY <1>15, Zenon DEF CheckRestore
  <2>3. Ownership'
    BY <1>15 DEF CheckRestore
  <2>4. Ordered'
    BY <1>15, Zenon DEF CheckRestore
  <2> QED
    BY <2>1, <2>2, <2>3, <2>4, Zenon
<1>16. CASE Restore
  BY <1>16 DEF Restore
<1>17. CASE Restored
  BY <1>17 DEF Restored, DeleteJournal, Nothing
<1>18. CASE NotRestored
  BY <1>18, Zenon DEF NotRestored, Fail
<1>19. CASE ReconcileAll
  <2>1. EditingTypeOK'
    BY <1>19 DEF ReconcileAll
  <2>2. Phases'
    BY <1>19, Zenon DEF ReconcileAll
  <2>3. Ownership'
    BY <1>19, Zenon DEF ReconcileAll
  <2>4. Ordered'
    BY <1>19 DEF ReconcileAll
  <2> QED
    BY <2>1, <2>2, <2>3, <2>4, Zenon
<1>20. CASE CrashDaemon
  BY <1>20, Zenon DEF CrashDaemon
<1>21. CASE ObserveWorkspaceChange
  BY <1>21 DEF ObserveWorkspaceChange
<1>22. ASSUME NEW p \in Paths, NEW content \in Contents \union {Absent}, EditFile(p, content) PROVE Editing'
  BY <1>22 DEF EditFile
<1>23. CASE UNCHANGED editingVars
  BY <1>23 DEF editingVars
<1> QED
  BY <1>1, <1>2, <1>3, <1>4, <1>5, <1>6, <1>7, <1>8, <1>9, <1>10, <1>11, <1>12, <1>13, <1>14,
     <1>15, <1>16, <1>17, <1>18, <1>19, <1>20, <1>21, <1>22, <1>23, Zenon
  DEF EditingNext

\* The invariant of transactional editing, at every step of a patch.
THEOREM EditingCorrect == EditingSpec => []Editing
  BY EditingStart, EditingStep, PTL DEF EditingSpec

\* No crash, failed save or undone patch leaves a patch half applied, and every
\* acknowledged receipt is recorded under a revision of its own.
THEOREM PatchSafety == EditingSpec => []PatchInv
<1>1. Editing => PatchInv
  BY Zenon
     DEF Editing, PatchInv, AllOrNothing, ReceiptsRecorded, Ownership, Ordered
<1> QED
  BY <1>1, EditingCorrect, PTL

-----------------------------------------------------------------------------
(* The local service of a project. *)

Starting == {"new", "forgetting", "planned", "reserved"}

RuntimeTypes ==
    /\ process \in [Instances -> {"none", "alive", "dead"}]
    /\ starter \in [Instances -> Starting \union {"spawned", "probing", "answered", "failing",
                                                  "abandoning", "done"}]
    /\ waiter \in [Instances -> {"none", "waiting", "noted", "done", "never"}]
    /\ deaths \in Nat

\* The name belongs to a Start that has reserved it and to the goroutine that waits.
Holds(i) == starter[i] \in {"reserved", "spawned"} \/ waiter[i] \in {"waiting", "noted"}

\* Who holds the name is in the map; a process is a holder's, and its goroutine gives
\* the name back only after it is dead.
Owned(i) ==
    /\ Holds(i) => activeRuntime = i
    /\ process[i] = "alive" => Holds(i)
    /\ starter[i] \in Starting \union {"spawned"} => waiter[i] = "none"
    /\ starter[i] \in Starting \/ waiter[i] = "noted" => process[i] # "alive"

RuntimeIInv == RuntimeTypes /\ (deaths = 0 => \A i \in Instances : Owned(i))

\* No runtime is in the map before the first Start.
LEMMA RuntimeStarts == RuntimeInit => RuntimeIInv
  BY DEF RuntimeInit, RuntimeIInv, RuntimeTypes, Owned, Holds, Starting

\* Every step of Start, Stop, wait and of the daemon keeps the name with its holder.
LEMMA RuntimeSteps == RuntimeIInv /\ [RuntimeNext]_runtimeVars => RuntimeIInv'
<1> SUFFICES ASSUME RuntimeIInv, [RuntimeNext]_runtimeVars PROVE RuntimeIInv'
  BY Zenon
<1> USE DEF RuntimeIInv, RuntimeTypes, Owned, Holds, Starting
<1>1. ASSUME NEW i \in Instances, StartCheck(i) PROVE RuntimeIInv'
  BY <1>1, Zenon DEF StartCheck
<1>2. ASSUME NEW i \in Instances, StartDelete(i) PROVE RuntimeIInv'
  BY <1>2, Zenon DEF StartDelete
<1>3. ASSUME NEW i \in Instances, StartReserve(i) PROVE RuntimeIInv'
  BY <1>3, InstancesAssumption DEF StartReserve
<1>4. ASSUME NEW i \in Instances, StartSpawn(i) PROVE RuntimeIInv'
  BY <1>4, InstancesAssumption DEF StartSpawn
<1>5. ASSUME NEW i \in Instances, StartPersist(i) PROVE RuntimeIInv'
  BY <1>5 DEF StartPersist
<1>6. ASSUME NEW i \in Instances, Ready(i) \/ MarkRunning(i) \/ NotReady(i) PROVE RuntimeIInv'
  BY <1>6 DEF Ready, MarkRunning, NotReady
<1>7. ASSUME NEW i \in Instances, FailStart(i) PROVE RuntimeIInv'
  BY <1>7, Zenon DEF FailStart, AfterKill
<1>8. ASSUME NEW i \in Instances, Exit(i) PROVE RuntimeIInv'
  BY <1>8, Zenon DEF Exit
<1>9. ASSUME NEW i \in Instances, Note(i) PROVE RuntimeIInv'
  BY <1>9, Zenon DEF Note
<1>10. ASSUME NEW i \in Instances, removeActive(i) PROVE RuntimeIInv'
  BY <1>10, Zenon DEF removeActive
<1>11. CASE Save \/ Stop \/ Touch
  BY <1>11, Zenon DEF Save, Stop, Touch
<1>12. CASE StopEnds
  BY <1>12, Zenon DEF StopEnds, AfterKill
<1>13. CASE ReconcileRuntime
  BY <1>13 DEF ReconcileRuntime
<1>14. CASE UNCHANGED runtimeVars
  BY <1>14, Zenon DEF runtimeVars
<1> QED
  BY <1>1, <1>2, <1>3, <1>4, <1>5, <1>6, <1>7, <1>8, <1>9, <1>10, <1>11, <1>12, <1>13, <1>14,
     Zenon DEF RuntimeNext

\* Until the daemon dies, whatever starts, stops and failures overlap, the name of a
\* service has one process at most and Stop reaches it (StartReserve, StartSpawn,
\* StartPersist, wait).
THEOREM RuntimeSafety == RuntimeSpec => []OneProcessPerName
<1>1. RuntimeIInv => OneProcessPerName
  BY Zenon DEF RuntimeIInv, OneProcessPerName, Owned
<1> QED
  BY <1>1, RuntimeStarts, RuntimeSteps, PTL DEF RuntimeSpec

-----------------------------------------------------------------------------
(* The review of a specification. *)

Statuses == {"proposed", "superseded", "accepted", "rejected"}
Proposal == [status : Statuses, applied : BOOLEAN]
View == [proposals : Seq(Proposal), active : Nat, open : BOOLEAN]
Request == [id : Nat, client : Clients, op : {"decide", "apply"}, proposal : Nat, accept : BOOLEAN,
            decisions : BOOLEAN]

\* What the service holds.  An accepted proposal leaves no assumption open, which is
\* why applying it later needs no second look.
IntentInv ==
    /\ proposals \in Seq(Proposal) /\ Len(proposals) \in 1 .. MaxProposals
    /\ active \in 0 .. Len(proposals) /\ open \in BOOLEAN /\ workspace \in 1 .. MaxWorkspace
    /\ decided \in [1 .. MaxProposals -> SUBSET {"accepted", "rejected"}]
    /\ \A i \in 1 .. MaxProposals :
         /\ i > Len(proposals) => decided[i] = {}
         /\ i <= Len(proposals) =>
              /\ decided[i] \in {{}, {proposals[i].status}}
              /\ proposals[i].status = "proposed" => i = Len(proposals) /\ active = i /\ decided[i] = {}
              /\ proposals[i].status = "accepted" => ~open
              /\ proposals[i].applied => proposals[i].status = "accepted"

\* A copy is of some earlier state of the intent, and a request is about a proposal
\* that exists.
ClientInv ==
    /\ shown \in [Clients -> View] /\ decisions \in BOOLEAN /\ sent \in Nat
    /\ \A c \in Clients : /\ Len(shown[c].proposals) \in 1 .. Len(proposals)
                          /\ shown[c].active \in 0 .. Len(shown[c].proposals)
    /\ requests \in SUBSET Request
    /\ \A r \in requests : r.proposal \in 1 .. Len(proposals)

PlanIInv == IntentInv /\ ClientInv

\* A press of any client on a proposal it shows adds one request about a proposal
\* that exists (Press, from decide, apply, decideStudio, applyStudio and
\* StudioIntentView).
LEMMA Pressed ==
    ASSUME NEW c \in Clients, NEW op \in {"decide", "apply"}, NEW i \in 1 .. Len(proposals),
           NEW accept \in BOOLEAN, NEW answers \in BOOLEAN,
           PlanIInv, Press(c, op, i, accept, answers)
    PROVE  PlanIInv'
<1>1. IntentInv'
  BY Zenon DEF PlanIInv, IntentInv, Press, intent
<1>2. sent' \in Nat
  BY DEF PlanIInv, ClientInv, Press
<1>3. [id |-> sent', client |-> c, op |-> op, proposal |-> i, accept |-> accept, decisions |-> answers] \in Request
  BY <1>2 DEF Request, PlanIInv, IntentInv
<1>4. ClientInv'
  BY <1>2, <1>3 DEF PlanIInv, ClientInv, Press, intent
<1> QED
  BY <1>1, <1>4, Zenon DEF PlanIInv

\* An answered request leaves copies of the new state, if it arrives, and the other
\* requests (Serve).
LEMMA Served ==
    ASSUME NEW r \in requests, NEW ok \in BOOLEAN, PlanIInv, IntentInv', Len(proposals') = Len(proposals),
           Serve(r, ok)
    PROVE  PlanIInv'
<1>1. r.client \in Clients
  BY Zenon DEF PlanIInv, ClientInv, Request
<1>2. [proposals |-> proposals', active |-> active', open |-> open'] \in View
  BY DEF IntentInv, View
<1>3. shown' \in [Clients -> View]
  BY <1>1, <1>2, Zenon DEF PlanIInv, ClientInv, Serve
<1>4. ASSUME NEW c \in Clients
      PROVE  /\ Len(shown'[c].proposals) \in 1 .. Len(proposals')
             /\ shown'[c].active \in 0 .. Len(shown'[c].proposals)
  <2>1. CASE shown' = shown
    BY <2>1, Zenon DEF PlanIInv, ClientInv
  <2>2. CASE shown' = [shown EXCEPT ![r.client] = [proposals |-> proposals', active |-> active', open |-> open']]
    <3>1. CASE c = r.client
      BY <2>2, <3>1 DEF PlanIInv, ClientInv, IntentInv
    <3>2. CASE c # r.client
      BY <2>2, <3>2, Zenon DEF PlanIInv, ClientInv
    <3> QED
      BY <3>1, <3>2, Zenon
  <2> QED
    BY <2>1, <2>2, Zenon DEF Serve
<1>5. /\ requests' \in SUBSET Request /\ decisions' \in BOOLEAN /\ sent' \in Nat
      /\ \A q \in requests' : q.proposal \in 1 .. Len(proposals')
  BY Zenon DEF PlanIInv, ClientInv, Serve
<1> QED
  BY <1>3, <1>4, <1>5, Zenon DEF PlanIInv, ClientInv

\* A new proposal supersedes the one that awaited a decision and is the only one
\* that awaits one (ProposeScopeChange).
LEMMA Proposed ==
    ASSUME MaxProposals \in Nat \ {0}, PlanIInv, Propose
    PROVE  PlanIInv'
<1> DEFINE old == [i \in DOMAIN proposals |->
                     IF i = active /\ proposals[i].status = "proposed"
                     THEN [proposals[i] EXCEPT !.status = "superseded"] ELSE proposals[i]]
           new == [status |-> "proposed", applied |-> FALSE]
<1> USE DEF PlanIInv
<1>1. /\ proposals \in Seq(Proposal) /\ Len(proposals) \in Nat /\ DOMAIN proposals = 1 .. Len(proposals)
      /\ Len(proposals) < MaxProposals
  BY DEF IntentInv, Propose
<1>2. \A i \in 1 .. Len(proposals) : proposals[i] \in Proposal
  BY <1>1
<1>3. old \in Seq(Proposal) /\ Len(old) = Len(proposals)
  <2>1. \A i \in 1 .. Len(proposals) : old[i] \in Proposal
    BY <1>1, <1>2, Zenon DEF Proposal, Statuses
  <2>2. old \in [1 .. Len(proposals) -> Proposal]
    BY <1>1, <2>1, Zenon
  <2> QED
    BY <1>1, <2>2
<1>4. new \in Proposal
  BY Zenon DEF Proposal, Statuses
<1>5. proposals' = Append(old, new) /\ active' = Len(proposals')
  BY Zenon DEF Propose
<1> HIDE DEF old, new
<1>6. /\ proposals' \in Seq(Proposal) /\ Len(proposals') = Len(proposals) + 1
      /\ \A i \in 1 .. Len(proposals) : proposals'[i] = old[i]
      /\ proposals'[Len(proposals) + 1] = new
  BY <1>1, <1>3, <1>4, <1>5
<1>7. \A i \in 1 .. Len(proposals) :
        /\ proposals'[i].status # "proposed"
        /\ proposals'[i].status = "accepted" => proposals[i].status = "accepted"
        /\ proposals'[i].applied = proposals[i].applied
        /\ proposals[i].status # "proposed" => proposals'[i].status = proposals[i].status
        /\ proposals[i].status = "proposed" => decided[i] = {}
  <2> SUFFICES ASSUME NEW i \in 1 .. Len(proposals)
               PROVE  /\ old[i].status # "proposed"
                      /\ old[i].status = "accepted" => proposals[i].status = "accepted"
                      /\ old[i].applied = proposals[i].applied
                      /\ proposals[i].status # "proposed" => old[i].status = proposals[i].status
                      /\ proposals[i].status = "proposed" => decided[i] = {}
    BY <1>6, Zenon
  <2>1. /\ i \in 1 .. MaxProposals /\ i <= Len(proposals) /\ proposals[i] \in Proposal
        /\ old[i] = IF i = active /\ proposals[i].status = "proposed"
                    THEN [proposals[i] EXCEPT !.status = "superseded"] ELSE proposals[i]
    BY <1>1, <1>2 DEF old
  <2>2. proposals[i].status = "proposed" => active = i /\ decided[i] = {}
    BY <2>1, Zenon DEF IntentInv
  <2> QED
    BY <2>1, <2>2, Zenon DEF Proposal, Statuses
<1>8. IntentInv'
  <2>1. decided' = decided /\ open' = open /\ workspace' = workspace
    BY Zenon DEF Propose
  <2>2. /\ open' \in BOOLEAN /\ workspace' \in 1 .. MaxWorkspace
        /\ decided' \in [1 .. MaxProposals -> SUBSET {"accepted", "rejected"}]
    BY <2>1, Zenon DEF IntentInv
  <2>3. Len(proposals') \in 1 .. MaxProposals /\ active' \in 0 .. Len(proposals')
    BY <1>1, <1>5, <1>6
  <2>4. \A i \in 1 .. MaxProposals : i > Len(proposals) => decided[i] = {}
    BY Zenon DEF IntentInv
  <2>5. ASSUME NEW i \in 1 .. MaxProposals
        PROVE  /\ i > Len(proposals') => decided'[i] = {}
               /\ i <= Len(proposals') =>
                    /\ decided'[i] \in {{}, {proposals'[i].status}}
                    /\ proposals'[i].status = "proposed" => i = Len(proposals') /\ active' = i /\ decided'[i] = {}
                    /\ proposals'[i].status = "accepted" => ~open'
                    /\ proposals'[i].applied => proposals'[i].status = "accepted"
    <3>1. CASE i > Len(proposals) + 1
      BY <1>1, <1>6, <2>1, <2>4, <3>1
    <3>2. CASE i = Len(proposals) + 1
      <4>1. decided[i] = {}
        BY <1>1, <2>4, <3>2
      <4>2. proposals'[i].status = "proposed" /\ proposals'[i].applied = FALSE
        BY <1>6, <3>2 DEF new
      <4> QED
        BY <1>1, <1>5, <1>6, <2>1, <3>2, <4>1, <4>2, Zenon
    <3>3. CASE i <= Len(proposals)
      <4>1. i \in 1 .. Len(proposals)
        BY <1>1, <3>3
      <4>2. /\ decided[i] \in {{}, {proposals[i].status}}
            /\ proposals[i].status = "accepted" => ~open
            /\ proposals[i].applied => proposals[i].status = "accepted"
        BY <3>3, Zenon DEF IntentInv
      <4>3. i <= Len(proposals') /\ ~(i > Len(proposals'))
        BY <1>1, <1>6, <3>3
      <4> QED
        BY <1>7, <2>1, <4>1, <4>2, <4>3, Zenon
    <3> QED
      BY <1>1, <3>1, <3>2, <3>3
  <2> QED
    BY <1>6, <2>5, <2>2, <2>3, Zenon DEF IntentInv
<1>9. ClientInv'
  BY <1>1, <1>6 DEF ClientInv, Propose
<1> QED
  BY <1>8, <1>9, Zenon

\* A decision is recorded on a proposal that has none, and accepting leaves no
\* assumption open (DecideProposalWithDecisions).
LEMMA Decided ==
    ASSUME MaxProposals \in Nat \ {0}, NEW r \in requests, PlanIInv, DecideProposal(r)
    PROVE  PlanIInv'
<1> DEFINE verdict == IF r.accept THEN "accepted" ELSE "rejected"
<1>1. r.proposal \in 1 .. Len(proposals) /\ r.accept \in BOOLEAN /\ r.proposal \in 1 .. MaxProposals
  <2>1. r \in Request /\ r.proposal \in 1 .. Len(proposals)
    BY Zenon DEF PlanIInv, ClientInv
  <2>2. Len(proposals) \in 1 .. MaxProposals
    BY Zenon DEF PlanIInv, IntentInv
  <2> QED
    BY <2>1, <2>2 DEF Request
<1>2. /\ proposals' = [proposals EXCEPT ![r.proposal].status = verdict]
      /\ active' = None /\ open' = (open /\ ~r.accept)
      /\ decided' = [decided EXCEPT ![r.proposal] = @ \union {verdict}]
      /\ Serve(r, TRUE) /\ proposals[r.proposal].status = "proposed"
  BY Zenon DEF DecideProposal, RecordDecision
<1>3. verdict \in {"accepted", "rejected"} /\ (verdict = "accepted" <=> r.accept)
  BY <1>1, Zenon
<1> HIDE DEF verdict
<1>4. proposals[r.proposal] \in Proposal /\ DOMAIN proposals = 1 .. Len(proposals)
  BY <1>1 DEF PlanIInv, IntentInv
<1>5. /\ proposals' \in Seq(Proposal) /\ Len(proposals') = Len(proposals)
      /\ proposals'[r.proposal].status = verdict /\ proposals'[r.proposal].applied = proposals[r.proposal].applied
      /\ \A i \in 1 .. Len(proposals) : i # r.proposal => proposals'[i] = proposals[i]
  <2>1. proposals' = [proposals EXCEPT ![r.proposal] = [proposals[r.proposal] EXCEPT !.status = verdict]]
    BY <1>2, Zenon
  <2>2. [proposals[r.proposal] EXCEPT !.status = verdict] \in Proposal
    BY <1>3, <1>4, Zenon DEF Proposal, Statuses
  <2> QED
    BY <1>1, <1>4, <2>1, <2>2 DEF PlanIInv, IntentInv, Proposal
<1>6. /\ r.proposal = Len(proposals) /\ decided[r.proposal] = {}
      /\ proposals[r.proposal].applied = FALSE
  BY <1>1, <1>2, <1>4 DEF PlanIInv, IntentInv, Proposal
<1>7. /\ decided' \in [1 .. MaxProposals -> SUBSET {"accepted", "rejected"}]
      /\ decided'[r.proposal] = {verdict}
      /\ \A i \in 1 .. MaxProposals : i # r.proposal => decided'[i] = decided[i]
  BY <1>1, <1>2, <1>3, <1>6, Zenon DEF PlanIInv, IntentInv
<1>8. /\ active' \in 0 .. Len(proposals') /\ open' \in BOOLEAN /\ workspace' \in 1 .. MaxWorkspace
      /\ Len(proposals') \in 1 .. MaxProposals
  BY <1>1, <1>2, <1>5 DEF PlanIInv, IntentInv, None, Serve
<1>9. ASSUME NEW i \in 1 .. MaxProposals
      PROVE  /\ i > Len(proposals') => decided'[i] = {}
             /\ i <= Len(proposals') =>
                  /\ decided'[i] \in {{}, {proposals'[i].status}}
                  /\ proposals'[i].status = "proposed" => i = Len(proposals') /\ active' = i /\ decided'[i] = {}
                  /\ proposals'[i].status = "accepted" => ~open'
                  /\ proposals'[i].applied => proposals'[i].status = "accepted"
  <2>1. CASE i = r.proposal
    <3>1. proposals'[i].status = "accepted" => ~open'
      BY <1>2, <1>3, <1>5, <2>1, Zenon
    <3>2. proposals'[i].status # "proposed" /\ ~proposals'[i].applied
      BY <1>3, <1>5, <1>6, <2>1, Zenon
    <3> QED
      BY <1>1, <1>5, <1>7, <2>1, <3>1, <3>2
  <2>2. CASE i # r.proposal
    <3>1. CASE i > Len(proposals)
      BY <1>5, <1>7, <2>2, <3>1 DEF PlanIInv, IntentInv
    <3>2. CASE i <= Len(proposals)
      <4>1. proposals'[i] = proposals[i] /\ decided'[i] = decided[i]
        BY <1>5, <1>7, <2>2, <3>2
      <4>2. proposals[i].status # "proposed"
        BY <1>6, <2>2, <3>2, Zenon DEF PlanIInv, IntentInv
      <4>3. /\ decided[i] \in {{}, {proposals[i].status}}
            /\ proposals[i].status = "accepted" => ~open
            /\ proposals[i].applied => proposals[i].status = "accepted"
        BY <3>2, Zenon DEF PlanIInv, IntentInv
      <4>4. ~open => ~open'
        BY <1>2, Zenon
      <4>5. ~(i > Len(proposals'))
        BY <1>5, <3>2 DEF PlanIInv, IntentInv
      <4> QED
        BY <4>1, <4>2, <4>3, <4>4, <4>5, Zenon
    <3> QED
      BY <3>1, <3>2 DEF PlanIInv, IntentInv
  <2> QED
    BY <2>1, <2>2, Zenon
<1>10. IntentInv'
  BY <1>5, <1>7, <1>8, <1>9, Zenon DEF IntentInv
<1> QED
  BY <1>2, <1>5, <1>10, Served, Zenon

\* Applying marks an accepted proposal, and a second application marks it again
\* (ApplyProposal).
LEMMA Applied ==
    ASSUME MaxProposals \in Nat \ {0}, NEW r \in requests, PlanIInv, ApplyProposal(r)
    PROVE  PlanIInv'
<1>1. /\ r.proposal \in 1 .. Len(proposals) /\ proposals[r.proposal].status = "accepted"
      /\ proposals' = [proposals EXCEPT ![r.proposal].applied = TRUE]
      /\ active' = active /\ open' = open /\ decided' = decided /\ Serve(r, TRUE) /\ workspace' = workspace
  BY Zenon DEF PlanIInv, ClientInv, ApplyProposal, Serve
<1>2. proposals[r.proposal] \in Proposal /\ DOMAIN proposals = 1 .. Len(proposals)
  BY <1>1 DEF PlanIInv, IntentInv
<1>3. [proposals[r.proposal] EXCEPT !.applied = TRUE] \in Proposal
  BY <1>2, Zenon DEF Proposal
<1>4. /\ proposals' \in Seq(Proposal) /\ Len(proposals') = Len(proposals)
      /\ \A i \in 1 .. Len(proposals) :
           /\ proposals'[i].status = proposals[i].status
           /\ proposals'[i].applied => proposals[i].applied \/ proposals[i].status = "accepted"
  <2>1. proposals' = [proposals EXCEPT ![r.proposal] = [proposals[r.proposal] EXCEPT !.applied = TRUE]]
    BY <1>1, Zenon
  <2>2. proposals' \in Seq(Proposal) /\ Len(proposals') = Len(proposals)
    BY <1>1, <1>2, <1>3, <2>1 DEF PlanIInv, IntentInv
  <2>3. ASSUME NEW i \in 1 .. Len(proposals)
        PROVE  /\ proposals'[i].status = proposals[i].status
               /\ proposals'[i].applied => proposals[i].applied \/ proposals[i].status = "accepted"
    <3>1. CASE i = r.proposal
      BY <1>1, <1>2, <2>1, <3>1, Zenon DEF Proposal
    <3>2. CASE i # r.proposal
      BY <1>2, <2>1, <3>2, Zenon
    <3> QED
      BY <3>1, <3>2, Zenon
  <2> QED
    BY <2>2, <2>3, Zenon
<1>5. IntentInv'
  BY <1>1, <1>4, SMTT(30) DEF PlanIInv, IntentInv
<1> QED
  BY <1>1, <1>4, <1>5, Served, Zenon

\* A set of natural numbers that is not empty has a least one.
LEMMA Least ==
    ASSUME NEW T, T \subseteq Nat, T # {}
    PROVE  \E x \in T : \A y \in T : x <= y
<1> DEFINE R == {ss \in Nat \X Nat : ss[1] < ss[2]}
<1>1. IsWellFoundedOn(R, Nat)
  BY NatLessThanWellFounded, Zenon DEF OpToRel
<1> HIDE DEF R
<1>2. PICK x \in T : \A y \in T : ~(<<y, x>> \in R)
  BY <1>1, WFMin, Zenon
<1>3. ASSUME NEW y \in T, y < x PROVE FALSE
  <2>1. <<y, x>> \in Nat \X Nat /\ <<y, x>>[1] = y /\ <<y, x>>[2] = x
    BY Zenon
  <2>2. <<y, x>> \in R
    BY <1>3, <2>1, Zenon DEF R
  <2> QED
    BY <1>2, <2>2, Zenon
<1> QED
  BY <1>3

\* The first of some entries is one of them.
LEMMA FirstIsOne ==
    ASSUME NEW T, T \subseteq Nat
    PROVE  First(T) # None => First(T) \in T
  BY Least, Zenon DEF First

\* The proposal the terminal would decide or apply, if any, is one that exists
\* (pendingStudioProposal, acceptedStudioProposal).
LEMMA Terminals ==
    ASSUME PlanIInv
    PROVE  /\ pendingStudioProposal # None => pendingStudioProposal \in 1 .. Len(proposals)
           /\ acceptedStudioProposal # None => acceptedStudioProposal \in 1 .. Len(proposals)
<1> DEFINE s == shown["terminal"].proposals
           Pending == {i \in DOMAIN s : s[i].status = "proposed"}
           Accepted == {i \in DOMAIN s : s[i].status = "accepted" /\ ~s[i].applied}
<1>1. /\ s \in Seq(Proposal) /\ Len(s) \in 1 .. Len(proposals) /\ Len(proposals) \in Nat
  BY DEF PlanIInv, ClientInv, IntentInv, Clients, View
<1>2. DOMAIN s \subseteq 1 .. Len(proposals)
  BY <1>1
<1>3. pendingStudioProposal = First(Pending) /\ acceptedStudioProposal = First(Accepted)
  BY Zenon DEF pendingStudioProposal, acceptedStudioProposal
<1>4. Pending \subseteq 1 .. Len(proposals) /\ Accepted \subseteq 1 .. Len(proposals)
  BY <1>2, Zenon
<1> HIDE DEF Pending, Accepted
<1>5. Pending \subseteq Nat /\ Accepted \subseteq Nat
  BY <1>1, <1>4
<1> QED
  BY <1>3, <1>4, <1>5, FirstIsOne, Zenon

\* The panel of the web shows a proposal that exists (Active of PlanPanel).
LEMMA WebShows ==
    ASSUME PlanIInv
    PROVE  Active \in 1 .. Len(proposals)
<1>1. /\ shown["web"].active \in 0 .. Len(shown["web"].proposals)
      /\ Len(shown["web"].proposals) \in 1 .. Len(proposals) /\ Len(proposals) \in Nat
  BY DEF PlanIInv, ClientInv, IntentInv, Clients
<1> QED
  BY <1>1 DEF Active, None

\* Every step of a client, of the service and of the workspace keeps the invariant.
LEMMA PlanStep ==
    ASSUME MaxProposals \in Nat \ {0}, MaxWorkspace \in Nat \ {0}, PlanIInv, [PlanNext]_planVars
    PROVE  PlanIInv'
<1> USE DEF PlanIInv
<1>1. ASSUME NEW c \in Clients, Read(c) PROVE PlanIInv'
  <2>1. IntentInv'
    BY <1>1, Zenon DEF Read, IntentInv, intent
  <2>2. Snapshot \in View
    BY DEF Snapshot, View, IntentInv
  <2>3. /\ shown' = [shown EXCEPT ![c] = Snapshot] /\ proposals' = proposals
        /\ decisions' = decisions /\ requests' = requests /\ sent' = sent
    BY <1>1, Zenon DEF Read, intent
  <2>4. /\ Len(Snapshot.proposals) \in 1 .. Len(proposals)
        /\ Snapshot.active \in 0 .. Len(Snapshot.proposals)
    BY DEF Snapshot, IntentInv
  <2> HIDE DEF Snapshot
  <2>5. ClientInv'
    BY <2>2, <2>3, <2>4, Zenon DEF ClientInv
  <2> QED
    BY <2>1, <2>5, Zenon
<1>2. CASE setDecisions
  BY <1>2, Zenon DEF setDecisions, IntentInv, ClientInv, intent
<1>3. CASE apply
  BY <1>3, Pressed, WebShows, Zenon DEF apply, Clients
<1>4. ASSUME NEW accept \in BOOLEAN, decide(accept) PROVE PlanIInv'
  BY <1>4, Pressed, WebShows, Zenon DEF decide, Clients, ClientInv
<1>5. CASE StudioIntentView
  <2>1. PICK i \in DOMAIN shown["work"].proposals :
          \/ \E accept \in BOOLEAN, answers \in {FALSE, shown["work"].open} : Press("work", "decide", i, accept, answers)
          \/ Press("work", "apply", i, TRUE, FALSE)
    BY <1>5, Zenon DEF StudioIntentView
  <2>2. /\ shown["work"].open \in BOOLEAN /\ shown["work"].proposals \in Seq(Proposal)
        /\ Len(shown["work"].proposals) \in 1 .. Len(proposals) /\ Len(proposals) \in Nat
    BY DEF ClientInv, IntentInv, Clients, View
  <2>3. i \in 1 .. Len(proposals) /\ "work" \in Clients
    BY <2>1, <2>2 DEF Clients
  <2> QED
    BY <2>1, <2>2, <2>3, Pressed, Zenon
<1>6. ASSUME NEW accept \in BOOLEAN, decideStudio(accept) PROVE PlanIInv'
  BY <1>6, Pressed, Terminals, Zenon DEF decideStudio, Clients
<1>7. CASE applyStudio
  BY <1>7, Pressed, Terminals, Zenon DEF applyStudio, Clients
<1>8. CASE Propose
  BY <1>8, Proposed, Zenon
<1>9. CASE Edit
  <2>1. IntentInv'
    BY <1>9 DEF Edit, IntentInv
  <2>2. ClientInv'
    BY <1>9, Zenon DEF Edit, ClientInv
  <2> QED
    BY <2>1, <2>2, Zenon
<1>10. ASSUME NEW r \in requests, DecideProposal(r) \/ ApplyProposal(r) PROVE PlanIInv'
  BY <1>10, Decided, Applied, Zenon
<1>11. ASSUME NEW r \in requests, Refuse(r) PROVE PlanIInv'
  <2>1. IntentInv' /\ Len(proposals') = Len(proposals) /\ Serve(r, FALSE)
    BY <1>11, Zenon DEF Refuse, IntentInv, Serve
  <2> QED
    BY <2>1, Served, Zenon
<1>12. CASE UNCHANGED planVars
  BY <1>12, Zenon DEF planVars, IntentInv, ClientInv
<1> QED
  BY <1>1, <1>2, <1>3, <1>4, <1>5, <1>6, <1>7, <1>8, <1>9, <1>10, <1>11,
     <1>12, Zenon DEF PlanNext, PlanPanel

\* However many proposals are made and however often three clients press on stale
\* copies, a proposal is decided once and its decision stands, only the newest one
\* awaits a decision, and only an accepted one without open assumptions is applied
\* (ProposeScopeChange, DecideProposalWithDecisions, ApplyProposal).
THEOREM PlanSafety ==
    ASSUME MaxProposals \in Nat \ {0}, MaxWorkspace \in Nat \ {0}
    PROVE  PlanSpec => []PlanInv
<1>1. PlanInit => PlanIInv
  <2> SUFFICES ASSUME PlanInit PROVE PlanIInv
    BY Zenon
  <2> DEFINE first == [status |-> "proposed", applied |-> FALSE]
  <2>1. first \in Proposal
    BY Zenon DEF Proposal, Statuses
  <2>2. proposals \in Seq(Proposal) /\ Len(proposals) = 1 /\ proposals[1] = first
    BY <2>1 DEF PlanInit
  <2>3. IntentInv
    <3>1. /\ decided \in [1 .. MaxProposals -> SUBSET {"accepted", "rejected"}]
          /\ \A i \in 1 .. MaxProposals : decided[i] = {}
      BY Zenon DEF PlanInit
    <3>2. proposals[1].status = "proposed" /\ proposals[1].applied = FALSE /\ active = 1 /\ open = TRUE /\ workspace = 1
      BY <2>2, Zenon DEF PlanInit
    <3>3. \A i \in 1 .. MaxProposals : i <= Len(proposals) => i = 1
      BY <2>2
    <3> QED
      BY <2>2, <3>1, <3>2, <3>3 DEF IntentInv
  <2>4. Snapshot \in View
    BY <2>3 DEF Snapshot, View, IntentInv
  <2>5. ClientInv
    <3>1. \A c \in Clients : shown[c] = Snapshot
      BY Zenon DEF PlanInit
    <3>2. Len(Snapshot.proposals) = 1 /\ Snapshot.active = 1 /\ shown \in [Clients -> View]
      BY <2>2, <2>4, Zenon DEF PlanInit, Snapshot
    <3>3. decisions \in BOOLEAN /\ sent \in Nat /\ requests = {}
      BY Zenon DEF PlanInit
    <3> HIDE DEF Snapshot
    <3> QED
      BY <2>2, <3>1, <3>2, <3>3, SMTT(30) DEF ClientInv
  <2> QED
    BY <2>3, <2>5, Zenon DEF PlanIInv
<1>2. PlanIInv /\ [PlanNext]_planVars => PlanIInv'
  BY PlanStep, Zenon
<1>3. PlanIInv => PlanInv
  <2> SUFFICES ASSUME PlanIInv PROVE PlanInv
    BY Zenon
  <2>1. DOMAIN proposals = 1 .. Len(proposals) /\ Len(proposals) \in 1 .. MaxProposals
    BY DEF PlanIInv, IntentInv
  <2>2. ASSUME NEW i \in DOMAIN proposals
        PROVE  /\ Cardinality(decided[i]) <= 1
               /\ decided[i] /= {} => proposals[i].status \in decided[i]
               /\ proposals[i].status = "proposed" => i = Len(proposals) /\ active = i /\ decided[i] = {}
               /\ proposals[i].applied => proposals[i].status = "accepted" /\ ~open
    <3>1. i \in 1 .. MaxProposals /\ i <= Len(proposals)
      BY <2>1
    <3>2. /\ decided[i] \in {{}, {proposals[i].status}}
          /\ proposals[i].status = "proposed" => i = Len(proposals) /\ active = i /\ decided[i] = {}
          /\ proposals[i].status = "accepted" => ~open
          /\ proposals[i].applied => proposals[i].status = "accepted"
      BY <3>1, Zenon DEF PlanIInv, IntentInv
    <3>3. Cardinality({}) = 0 /\ Cardinality({proposals[i].status}) = 1
      BY FS_EmptySet, FS_Singleton, Zenon
    <3>4. Cardinality(decided[i]) <= 1 /\ (decided[i] /= {} => proposals[i].status \in decided[i])
      <4>1. CASE decided[i] = {}
        BY <3>3, <4>1
      <4>2. CASE decided[i] = {proposals[i].status}
        BY <3>3, <4>2
      <4> QED
        BY <3>2, <4>1, <4>2, Zenon
    <3> QED
      BY <3>2, <3>4, Zenon
  <2>3. workspace \in 1 .. MaxWorkspace /\ active \in 0 .. Len(proposals)
    BY Zenon DEF PlanIInv, IntentInv
  <2>4. \A c \in Clients : Len(shown[c].proposals) <= Len(proposals)
    BY <2>1 DEF PlanIInv, ClientInv
  <2> QED
    BY <2>2, <2>3, <2>4, Zenon DEF PlanInv
<1> QED
  BY <1>1, <1>2, <1>3, PTL DEF PlanSpec

-----------------------------------------------------------------------------
(* The work portfolio.  PortfolioSafe speaks of the saved document only, and a *)
(* compensation saves a snapshot instead: PortfolioIInv says of every snapshot *)
(* what EvidenceInv says of the document, and that it holds the acknowledged   *)
(* and the pending writes it is as new as.                                     *)

\* Every item of a document has its three fields.
Entries(items) ==
    /\ items = [i \in DOMAIN items |-> items[i]]
    /\ \A i \in DOMAIN items :
         items[i] = [criteria |-> items[i].criteria, deps |-> items[i].deps,
                     status |-> items[i].status]

\* Completed items are covered.
Earned(items, covered) ==
    \A i \in DOMAIN items : items[i].status = "completed" => items[i].criteria \subseteq covered

\* No item waits for completed ones.
NoneWaits(items) ==
    \A i \in DOMAIN items : items[i].status = "pending" => ~ dependenciesCompleted(items, i)

ItemsSound(items, covered) == Entries(items) /\ Earned(items, covered) /\ NoneWaits(items)

Claims(artifacts) ==
    /\ artifacts = [a \in DOMAIN artifacts |-> artifacts[a]]
    /\ \A a \in DOMAIN artifacts :
         artifacts[a] = [covers |-> artifacts[a].covers, verified |-> artifacts[a].verified]

StageRecords == [stage : Nat, evidence : SUBSET Artifacts, confirmed : BOOLEAN]

\* Stage s was passed in its turn, with its confirmation and its evidence.
Passed(stages, artifacts, s) ==
    /\ stages[s].stage = s
    /\ Gates[s] => stages[s].confirmed
    /\ s > 1 => \E a \in stages[s].evidence : a \in DOMAIN artifacts /\ artifacts[a].verified

StagesSound(stages, artifacts) ==
    /\ stages \in Seq(StageRecords)
    /\ \A s \in 1..Len(stages) : Passed(stages, artifacts, s)

Document(x) ==
    x = [revision |-> x.revision, contract |-> x.contract, criteria |-> x.criteria,
         items |-> x.items, artifacts |-> x.artifacts, workflow |-> x.workflow,
         stages |-> x.stages, log |-> x.log]

\* EvidenceInv of any document, a snapshot too.
Sound(x) ==
    /\ Document(x) /\ x.revision \in Nat
    /\ Claims(x.artifacts)
    /\ x.contract = "completed" => x.criteria \subseteq verifiedCoverage(x.artifacts)
    /\ ItemsSound(x.items, verifiedCoverage(x.artifacts))
    /\ StagesSound(x.stages, x.artifacts)
    /\ x.workflow = "completed" <=> Len(x.stages) = Len(Gates)

Holding == {p \in Planners : planner[p] \in {"read", "wrote"}}
Writers == {p \in Planners : planner[p] = "wrote"}

\* A snapshot is sound and holds every acknowledged write that it is as new as.
SnapshotsHold ==
    \A p \in Holding :
      /\ Sound(planBefore[p]) /\ planBefore[p].revision <= portfolio.revision
      /\ \A w \in acknowledged : w <= planBefore[p].revision => w \in planBefore[p].log

\* A write whose caller is still busy is in the document, and in every snapshot
\* that is as new as it.
WritesPending ==
    \A q \in Writers :
      /\ wrote[q] \in Nat /\ wrote[q] \in portfolio.log /\ wrote[q] \notin acknowledged
      /\ planBefore[q].revision < wrote[q] /\ wrote[q] <= portfolio.revision
      /\ \A p \in Holding : wrote[q] <= planBefore[p].revision => wrote[q] \in planBefore[p].log
      /\ \A r \in Writers : wrote[r] = wrote[q] => r = q

Acknowledged == \A w \in acknowledged : w \in Nat /\ w <= portfolio.revision

PlannersTyped ==
    /\ planner \in [Planners -> {"idle", "read", "wrote", "done"}]
    /\ planBefore = [p \in Planners |-> planBefore[p]]
    /\ wrote = [p \in Planners |-> wrote[p]]

PortfolioIInv ==
    /\ PlannersTyped /\ Sound(portfolio)
    /\ WritesSurvive /\ Acknowledged /\ SnapshotsHold /\ WritesPending

-----------------------------------------------------------------------------
\* refreshReady leaves no item waiting for completed ones.
LEMMA RefreshKeeps ==
    ASSUME NEW items, NEW covered, Entries(items), Earned(items, covered)
    PROVE  ItemsSound(refreshReady(items), covered)
<1> DEFINE new == refreshReady(items)
           Goes(i) == items[i].status = "pending" /\ dependenciesCompleted(items, i)
<1>1. /\ DOMAIN new = DOMAIN items
      /\ new = [i \in DOMAIN new |-> new[i]]
      /\ \A i \in DOMAIN items :
           new[i] = IF Goes(i) THEN [items[i] EXCEPT !.status = "ready"] ELSE items[i]
  BY Zenon DEF refreshReady
<1>2. ASSUME NEW i \in DOMAIN items
      PROVE  /\ new[i] = [criteria |-> items[i].criteria, deps |-> items[i].deps,
                          status |-> IF Goes(i) THEN "ready" ELSE items[i].status]
  <2>1. items[i] = [criteria |-> items[i].criteria, deps |-> items[i].deps,
                    status |-> items[i].status]
    BY DEF Entries
  <2>2. [items[i] EXCEPT !.status = "ready"]
          = [criteria |-> items[i].criteria, deps |-> items[i].deps, status |-> "ready"]
    BY <2>1
  <2> QED
    BY <1>1, <2>1, <2>2, Zenon
<1> HIDE DEF new
<1> HIDE DEF Goes
<1>3. ASSUME NEW i \in DOMAIN items
      PROVE  /\ new[i].criteria = items[i].criteria
             /\ new[i].deps = items[i].deps
             /\ new[i].status = IF Goes(i) THEN "ready" ELSE items[i].status
  <2> DEFINE c == items[i].criteria  d == items[i].deps  s == IF Goes(i) THEN "ready" ELSE items[i].status
  <2>1. new[i] = [criteria |-> c, deps |-> d, status |-> s]
    BY <1>2
  <2>2. new[i].criteria = c /\ new[i].deps = d /\ new[i].status = s
    <3> HIDE DEF c, d, s
    <3> QED BY <2>1
  <2> QED BY <2>2
<1>4. Entries(new)
  BY <1>1, <1>2, <1>3, Zenon DEF Entries
<1>5. Earned(new, covered)
  BY <1>1, <1>3 DEF Earned
<1>6. \A i \in DOMAIN items : new[i].status = "completed" <=> items[i].status = "completed"
  BY <1>3 DEF Goes
<1>7. \A i \in DOMAIN items : dependenciesCompleted(new, i) <=> dependenciesCompleted(items, i)
  BY <1>1, <1>3, <1>6, Zenon DEF dependenciesCompleted
<1>8. NoneWaits(new)
  BY <1>1, <1>3, <1>7 DEF NoneWaits, Goes
<1> QED
  BY <1>4, <1>5, <1>8 DEF ItemsSound, new

\* syncWorkItems: an item that keeps its progress keeps its criteria.
LEMMA SyncKeeps ==
    ASSUME NEW items, NEW covered, NEW plan, Earned(items, covered)
    PROVE  ItemsSound(syncWorkItems(items, plan), covered)
<1> DEFINE St(i) == IF /\ i \in DOMAIN items
                       /\ items[i].criteria = plan[i].criteria
                       /\ items[i].deps = plan[i].deps
                    THEN items[i].status ELSE "pending"
           new == [i \in DOMAIN plan |-> [criteria |-> plan[i].criteria, deps |-> plan[i].deps,
                                          status |-> St(i)]]
<1>1. syncWorkItems(items, plan) = refreshReady(new)
  BY Zenon DEF syncWorkItems
<1>2. DOMAIN new = DOMAIN plan /\ new = [i \in DOMAIN new |-> new[i]]
  OBVIOUS
<1>3. \A i \in DOMAIN plan : new[i] = [criteria |-> plan[i].criteria, deps |-> plan[i].deps,
                                       status |-> St(i)]
  OBVIOUS
<1> HIDE DEF new
<1>4. ASSUME NEW i \in DOMAIN plan
      PROVE  /\ new[i].criteria = plan[i].criteria /\ new[i].deps = plan[i].deps
             /\ new[i].status = St(i)
  <2> HIDE DEF St
  <2> DEFINE c == plan[i].criteria  d == plan[i].deps  s == St(i)
  <2>1. new[i] = [criteria |-> c, deps |-> d, status |-> s]
    BY <1>3, Zenon
  <2>2. new[i].criteria = c /\ new[i].deps = d /\ new[i].status = s
    <3> HIDE DEF c, d, s
    <3> QED BY <2>1
  <2> QED BY <2>2
<1>5. Entries(new)
  <2> HIDE DEF St
  <2> QED BY <1>2, <1>3, <1>4, Zenon DEF Entries
<1>6. Earned(new, covered)
  BY <1>2, <1>4 DEF Earned
<1> QED
  BY <1>1, <1>5, <1>6, RefreshKeeps, Zenon

\* ensureCriterionWorkItems: an item that loses a dependency still waits.
LEMMA EnsureKeeps ==
    ASSUME NEW items, NEW covered, NEW criteria, NEW counted, ItemsSound(items, covered)
    PROVE  ItemsSound(ensureCriterionWorkItems(items, criteria, counted), covered)
<1> DEFINE kept == {i \in DOMAIN items : items[i].criteria \subseteq criteria}
           cov == counted \union UNION {items[i].criteria : i \in kept}
           added == {CriterionItem(c) : c \in criteria \ cov}
           new == [i \in kept \union added |->
                     IF i \in added THEN [criteria |-> {i[2]}, deps |-> {}, status |-> "ready"]
                     ELSE items[i]]
<1>1. ensureCriterionWorkItems(items, criteria, counted) = new
  BY Zenon DEF ensureCriterionWorkItems
<1>2. kept \subseteq DOMAIN items
  OBVIOUS
<1> HIDE DEF kept, added
<1>3. /\ DOMAIN new = kept \union added /\ new = [i \in DOMAIN new |-> new[i]]
      /\ \A i \in added : new[i] = [criteria |-> {i[2]}, deps |-> {}, status |-> "ready"]
      /\ \A i \in DOMAIN new : i \notin added => i \in DOMAIN items /\ new[i] = items[i]
  BY <1>2, Zenon
<1> HIDE DEF new
<1>4. \A i \in added : /\ new[i].status = "ready" /\ new[i].criteria = {i[2]} /\ new[i].deps = {}
  BY <1>3
<1>5. Entries(items) /\ Earned(items, covered) /\ NoneWaits(items)
  BY DEF ItemsSound
<1>6. Entries(new)
  <2>1. ASSUME NEW i \in DOMAIN new
        PROVE  new[i] = [criteria |-> new[i].criteria, deps |-> new[i].deps,
                         status |-> new[i].status]
    <3>1. CASE i \in added
      BY <3>1, <1>3, <1>4, Zenon
    <3>2. CASE i \notin added
      BY <3>2, <1>3, <1>5, Zenon DEF Entries
    <3> QED BY <3>1, <3>2
  <2> QED BY <2>1, <1>3, Zenon DEF Entries
<1>7. Earned(new, covered)
  BY <1>3, <1>4, <1>5 DEF Earned
<1>8. \A i \in DOMAIN new : new[i].status = "completed" => i \in DOMAIN items /\ items[i].status = "completed"
  BY <1>3, <1>4
<1>9. \A i \in DOMAIN new : i \notin added /\ dependenciesCompleted(new, i) => dependenciesCompleted(items, i)
  BY <1>3, <1>8, Zenon DEF dependenciesCompleted
<1>10. NoneWaits(new)
  BY <1>3, <1>4, <1>5, <1>9 DEF NoneWaits
<1> QED
  BY <1>1, <1>6, <1>7, <1>10, Zenon DEF ItemsSound

\* More coverage does no harm.
LEMMA EarnedGrows ==
    ASSUME NEW items, NEW covered, NEW more, covered \subseteq more, Earned(items, covered)
    PROVE  Earned(items, more)
BY Zenon DEF Earned

\* Whatever an item's status becomes, its other fields stay.
LEMMA StatusSet ==
    ASSUME NEW item, NEW status,
           item = [criteria |-> item.criteria, deps |-> item.deps, status |-> item.status]
    PROVE  [item EXCEPT !.status = status]
             = [criteria |-> item.criteria, deps |-> item.deps, status |-> status]
OBVIOUS

\* reconcileVerifiedWorkItems completes what is covered.
LEMMA ReconcileKeeps ==
    ASSUME NEW items, NEW covered, NEW artifacts, Entries(items), Earned(items, covered),
           covered \subseteq verifiedCoverage(artifacts)
    PROVE  ItemsSound(reconcileVerifiedWorkItems(items, artifacts), verifiedCoverage(artifacts))
<1> DEFINE more == verifiedCoverage(artifacts)
           Goes(i) == items[i].criteria \subseteq more
           new == [i \in DOMAIN items |-> IF Goes(i)
                     THEN [items[i] EXCEPT !.status = "completed"] ELSE items[i]]
<1>1. reconcileVerifiedWorkItems(items, artifacts) = refreshReady(new)
  BY Zenon DEF reconcileVerifiedWorkItems
<1>2. covered \subseteq more
  OBVIOUS
<1> HIDE DEF more
<1>3. DOMAIN new = DOMAIN items /\ new = [i \in DOMAIN new |-> new[i]]
  OBVIOUS
<1>4. ASSUME NEW i \in DOMAIN items
      PROVE  new[i] = [criteria |-> items[i].criteria, deps |-> items[i].deps,
                       status |-> IF Goes(i) THEN "completed" ELSE items[i].status]
  <2>1. items[i] = [criteria |-> items[i].criteria, deps |-> items[i].deps,
                    status |-> items[i].status]
    BY Zenon DEF Entries
  <2>2. [items[i] EXCEPT !.status = "completed"]
          = [criteria |-> items[i].criteria, deps |-> items[i].deps, status |-> "completed"]
    BY <2>1, StatusSet, Zenon
  <2>3. new[i] = IF Goes(i) THEN [items[i] EXCEPT !.status = "completed"] ELSE items[i]
    BY Zenon
  <2> HIDE DEF new, Goes
  <2> QED BY <2>1, <2>2, <2>3, Zenon
<1> HIDE DEF new
<1>5. ASSUME NEW i \in DOMAIN items
      PROVE  /\ new[i].criteria = items[i].criteria
             /\ new[i].deps = items[i].deps
             /\ new[i].status = IF Goes(i) THEN "completed" ELSE items[i].status
  <2> HIDE DEF Goes
  <2> DEFINE c == items[i].criteria  d == items[i].deps  s == IF Goes(i) THEN "completed" ELSE items[i].status
  <2>1. new[i] = [criteria |-> c, deps |-> d, status |-> s]
    BY <1>4
  <2>2. new[i].criteria = c /\ new[i].deps = d /\ new[i].status = s
    <3> HIDE DEF c, d, s
    <3> QED BY <2>1
  <2> QED BY <2>2
<1>6. Entries(new)
  BY <1>3, <1>4, <1>5, Zenon DEF Entries
<1>7. Earned(new, more)
  BY <1>2, <1>3, <1>5 DEF Earned
<1> QED
  BY <1>1, <1>6, <1>7, RefreshKeeps, Zenon DEF more

\* UpdateWorkItem sets one status, and completed only with evidence.
LEMMA UpdateKeeps ==
    ASSUME NEW items, NEW covered, NEW i \in DOMAIN items, NEW status,
           Entries(items), Earned(items, covered),
           status = "completed" => items[i].criteria \subseteq covered
    PROVE  ItemsSound(refreshReady(Updated(items, i, status)), covered)
<1> DEFINE item == [items[i] EXCEPT !.status = status]
           new == [items EXCEPT ![i] = item]
<1>1. /\ DOMAIN new = DOMAIN items /\ new = [j \in DOMAIN new |-> new[j]]
      /\ new[i] = item /\ \A j \in DOMAIN items : j # i => new[j] = items[j]
  <2> HIDE DEF item
  <2> QED OBVIOUS
<1>2. item = [criteria |-> items[i].criteria, deps |-> items[i].deps, status |-> status]
  BY StatusSet, Zenon DEF Entries
<1>3. refreshReady(Updated(items, i, status)) = refreshReady(new)
  BY DEF Updated
<1> HIDE DEF item, new
<1>4. item.criteria = items[i].criteria /\ item.deps = items[i].deps /\ item.status = status
  BY <1>2
<1>5. Entries(new)
  <2>1. ASSUME NEW j \in DOMAIN new
        PROVE  new[j] = [criteria |-> new[j].criteria, deps |-> new[j].deps,
                         status |-> new[j].status]
    <3>1. CASE j = i
      BY <3>1, <1>1, <1>2, <1>4, Zenon
    <3>2. CASE j # i
      BY <3>2, <1>1, Zenon DEF Entries
    <3> QED BY <3>1, <3>2
  <2> QED BY <2>1, <1>1, Zenon DEF Entries
<1>6. Earned(new, covered)
  <2>1. ASSUME NEW j \in DOMAIN new, new[j].status = "completed"
        PROVE  new[j].criteria \subseteq covered
    <3>1. CASE j = i
      BY <2>1, <3>1, <1>1, <1>4, Zenon
    <3>2. CASE j # i
      BY <2>1, <3>2, <1>1, Zenon DEF Earned
    <3> QED BY <3>1, <3>2
  <2> QED BY <2>1, Zenon DEF Earned
<1> QED
  BY <1>3, <1>5, <1>6, RefreshKeeps, Zenon

-----------------------------------------------------------------------------
\* The artifacts of a later document: none is lost, changed or unverified.
Grown(old, new) ==
    /\ Claims(new)
    /\ \A b \in DOMAIN old : /\ b \in DOMAIN new /\ new[b].covers = old[b].covers
                             /\ old[b].verified => new[b].verified

\* RecordArtifact adds a claim.
LEMMA RecordGrows ==
    ASSUME NEW old, NEW new, NEW a, NEW covers, Claims(old), a \notin DOMAIN old,
           DOMAIN new = DOMAIN old \union {a}, new = [b \in DOMAIN new |-> new[b]],
           new[a] = [covers |-> covers, verified |-> FALSE],
           \A b \in DOMAIN old : new[b] = old[b]
    PROVE  Grown(old, new)
<1>1. new[a] = [covers |-> new[a].covers, verified |-> new[a].verified]
  BY Zenon
<1>2. ASSUME NEW b \in DOMAIN new
      PROVE  new[b] = [covers |-> new[b].covers, verified |-> new[b].verified]
  <2>1. CASE b = a
    BY <2>1, <1>1, Zenon
  <2>2. CASE b \in DOMAIN old
    BY <2>2, Zenon DEF Claims
  <2> QED BY <2>1, <2>2
<1>3. Claims(new)
  BY <1>2, Zenon DEF Claims
<1> QED
  BY <1>3, Zenon DEF Grown

\* Whether a claim is verified is one of its two fields.
LEMMA VerifiedSet ==
    ASSUME NEW claim, NEW v, claim = [covers |-> claim.covers, verified |-> v], NEW b
    PROVE  [claim EXCEPT !.verified = b] = [covers |-> claim.covers, verified |-> b]
OBVIOUS

\* VerifyArtifact verifies one.
LEMMA VerifyGrows ==
    ASSUME NEW old, NEW a \in DOMAIN old, Claims(old)
    PROVE  Grown(old, [old EXCEPT ![a].verified = TRUE])
<1> DEFINE claim == [old[a] EXCEPT !.verified = TRUE]
           new == [old EXCEPT ![a] = claim]
<1>1. [old EXCEPT ![a].verified = TRUE] = new
  OBVIOUS
<1>2. claim = [covers |-> old[a].covers, verified |-> TRUE]
  <2>1. old[a] = [covers |-> old[a].covers, verified |-> old[a].verified]
    BY Zenon DEF Claims
  <2> QED BY <2>1, VerifiedSet, Zenon
<1> HIDE DEF claim
<1>3. /\ DOMAIN new = DOMAIN old /\ new = [b \in DOMAIN new |-> new[b]]
      /\ new[a] = claim /\ \A b \in DOMAIN old : b # a => new[b] = old[b]
  OBVIOUS
<1>4. claim.covers = old[a].covers /\ claim.verified = TRUE
  BY <1>2
<1> HIDE DEF new
<1>5. ASSUME NEW b \in DOMAIN new
      PROVE  new[b] = [covers |-> new[b].covers, verified |-> new[b].verified]
  <2>1. CASE b = a
    BY <2>1, <1>2, <1>3, <1>4, Zenon
  <2>2. CASE b # a
    BY <2>2, <1>3, Zenon DEF Claims
  <2> QED BY <2>1, <2>2
<1>6. Claims(new)
  BY <1>3, <1>5, Zenon DEF Claims
<1>7. \A b \in DOMAIN old : /\ b \in DOMAIN new /\ new[b].covers = old[b].covers
                            /\ old[b].verified => new[b].verified
  BY <1>3, <1>4, Zenon
<1>8. Grown(old, new)
  BY <1>6, <1>7, Zenon DEF Grown
<1> QED
  BY <1>1, <1>8, Zenon

\* What was covered stays covered.
LEMMA GrownCovers ==
    ASSUME NEW old, NEW new, Grown(old, new)
    PROVE  verifiedCoverage(old) \subseteq verifiedCoverage(new)
<1> SUFFICES ASSUME NEW c \in verifiedCoverage(old) PROVE c \in verifiedCoverage(new)
  OBVIOUS
<1>1. PICK b \in DOMAIN old : old[b].verified /\ c \in old[b].covers
  BY Zenon DEF verifiedCoverage
<1>2. b \in DOMAIN new /\ new[b].verified /\ c \in new[b].covers
  BY <1>1, Zenon DEF Grown
<1> QED
  BY <1>2, Zenon DEF verifiedCoverage

\* What was passed stays passed.
LEMMA GrownPassed ==
    ASSUME NEW old, NEW new, Grown(old, new), NEW stages, StagesSound(stages, old)
    PROVE  StagesSound(stages, new)
<1>1. ASSUME NEW s \in 1..Len(stages) PROVE Passed(stages, new, s)
  <2>1. Passed(stages, old, s)
    BY Zenon DEF StagesSound
  <2>2. ASSUME NEW a \in stages[s].evidence, a \in DOMAIN old, old[a].verified
        PROVE  a \in DOMAIN new /\ new[a].verified
    BY <2>2, Zenon DEF Grown
  <2> QED
    BY <2>1, <2>2, Zenon DEF Passed
<1> QED
  BY <1>1, Zenon DEF StagesSound

\* What AdvanceWorkflow asks of a stage.
Qualifies(stages, artifacts, stage, evidence, confirmed) ==
    /\ stage = Len(stages) + 1 /\ evidence \in SUBSET Artifacts /\ confirmed \in BOOLEAN
    /\ (Gates[stage] => confirmed) /\ (stage > 1 => evidence # {})
    /\ \A a \in evidence : a \in DOMAIN artifacts /\ artifacts[a].verified

WithStage(stages, stage, evidence, confirmed) ==
    Append(stages, [stage |-> stage, evidence |-> evidence, confirmed |-> confirmed])

PassedTo(stages, artifacts, stage) == StagesSound(stages, artifacts) /\ Len(stages) = stage

\* AdvanceWorkflow passes the next stage.
LEMMA AppendPassed ==
    ASSUME NEW stages, NEW artifacts, NEW stage, NEW evidence, NEW confirmed,
           StagesSound(stages, artifacts), Qualifies(stages, artifacts, stage, evidence, confirmed)
    PROVE  PassedTo(WithStage(stages, stage, evidence, confirmed), artifacts, stage)
<1> USE DEF Qualifies
<1> DEFINE record == [stage |-> stage, evidence |-> evidence, confirmed |-> confirmed]
           new == WithStage(stages, stage, evidence, confirmed)
<1>0. new = Append(stages, record)
  BY DEF WithStage
<1> HIDE DEF new
<1>1. stages \in Seq(StageRecords) /\ Len(stages) \in Nat
  BY DEF StagesSound
<1>2. record \in StageRecords
  BY <1>1 DEF StageRecords
<1>3. record.stage = stage /\ record.evidence = evidence /\ record.confirmed = confirmed
  OBVIOUS
<1> HIDE DEF record
<1>4. /\ new \in Seq(StageRecords) /\ Len(new) = stage /\ new[stage] = record
      /\ \A s \in 1..Len(stages) : new[s] = stages[s]
  BY <1>0, <1>1, <1>2
<1>5. ASSUME NEW s \in 1..Len(new) PROVE Passed(new, artifacts, s)
  <2>1. CASE s = stage
    <3>1. stage > 1 => \E a \in evidence : a \in DOMAIN artifacts /\ artifacts[a].verified
      BY Zenon
    <3> QED
      BY <2>1, <3>1, <1>3, <1>4, Zenon DEF Passed
  <2>2. CASE s \in 1..Len(stages)
    <3>1. Passed(stages, artifacts, s)
      BY <2>2, Zenon DEF StagesSound
    <3> QED
      BY <2>2, <3>1, <1>4, Zenon DEF Passed
  <2> QED
    BY <2>1, <2>2, <1>1, <1>4
<1>6. StagesSound(new, artifacts) /\ Len(new) = stage
  BY <1>4, <1>5, Zenon DEF StagesSound
<1> QED
  BY <1>6 DEF new, PassedTo

-----------------------------------------------------------------------------
\* A document from its fields.
Made(r, c, k, i, a, w, s, l) ==
    [revision |-> r, contract |-> c, criteria |-> k, items |-> i, artifacts |-> a,
     workflow |-> w, stages |-> s, log |-> l]

Fields(x, r, c, k, i, a, w, s, l) ==
    /\ Document(x)
    /\ x.revision = r /\ x.contract = c /\ x.criteria = k /\ x.items = i
    /\ x.artifacts = a /\ x.workflow = w /\ x.stages = s /\ x.log = l

\* The fields of a document are what it was made from.
LEMMA MadeFields ==
    ASSUME NEW r, NEW c, NEW k, NEW i, NEW a, NEW w, NEW s, NEW l
    PROVE  Fields(Made(r, c, k, i, a, w, s, l), r, c, k, i, a, w, s, l)
BY DEF Made, Document, Fields

\* A document made from sound fields is sound.
LEMMA MadeSound ==
    ASSUME NEW r \in Nat, NEW c, NEW k, NEW i, NEW a, NEW w, NEW s, NEW l,
           Claims(a), c = "completed" => k \subseteq verifiedCoverage(a),
           ItemsSound(i, verifiedCoverage(a)), StagesSound(s, a),
           w = "completed" <=> Len(s) = Len(Gates)
    PROVE  Sound(Made(r, c, k, i, a, w, s, l))
<1> DEFINE x == Made(r, c, k, i, a, w, s, l)
<1>1. Fields(x, r, c, k, i, a, w, s, l)
  BY MadeFields, Zenon
<1> HIDE DEF x
<1>2. Sound(x)
  BY <1>1, Zenon DEF Sound, Fields
<1> QED
  BY <1>2 DEF x

\* What syncWorkItems and UpdateWorkItem write.
LEMMA NewItems ==
    ASSUME NEW x, Document(x), NEW i
    PROVE  [x EXCEPT !.items = i]
             = Made(x.revision, x.contract, x.criteria, i, x.artifacts, x.workflow, x.stages, x.log)
BY DEF Made, Document

\* What putContract writes.
LEMMA NewContract ==
    ASSUME NEW x, Document(x), NEW c, NEW k, NEW i
    PROVE  [x EXCEPT !.contract = c, !.criteria = k, !.items = i]
             = Made(x.revision, c, k, i, x.artifacts, x.workflow, x.stages, x.log)
<1>1. [x EXCEPT !.contract = c, !.criteria = k, !.items = i]
        = [[[x EXCEPT !.contract = c] EXCEPT !.criteria = k] EXCEPT !.items = i]
  OBVIOUS
<1>2. [x EXCEPT !.contract = c]
        = Made(x.revision, c, x.criteria, x.items, x.artifacts, x.workflow, x.stages, x.log)
  BY DEF Made, Document
<1>3. [Made(x.revision, c, x.criteria, x.items, x.artifacts, x.workflow, x.stages, x.log)
         EXCEPT !.criteria = k]
        = Made(x.revision, c, k, x.items, x.artifacts, x.workflow, x.stages, x.log)
  BY DEF Made
<1>4. [Made(x.revision, c, k, x.items, x.artifacts, x.workflow, x.stages, x.log)
         EXCEPT !.items = i]
        = Made(x.revision, c, k, i, x.artifacts, x.workflow, x.stages, x.log)
  BY DEF Made
<1> QED
  BY <1>1, <1>2, <1>3, <1>4, Zenon

\* What RecordArtifact writes.
LEMMA NewClaim ==
    ASSUME NEW x, Document(x), NEW a
    PROVE  [x EXCEPT !.artifacts = a]
             = Made(x.revision, x.contract, x.criteria, x.items, a, x.workflow, x.stages, x.log)
BY DEF Made, Document

\* What VerifyArtifact writes.
LEMMA NewEvidence ==
    ASSUME NEW x, Document(x), NEW a, NEW i
    PROVE  [x EXCEPT !.artifacts = a, !.items = i]
             = Made(x.revision, x.contract, x.criteria, i, a, x.workflow, x.stages, x.log)
<1>1. [x EXCEPT !.artifacts = a, !.items = i]
        = [[x EXCEPT !.artifacts = a] EXCEPT !.items = i]
  OBVIOUS
<1>2. [x EXCEPT !.artifacts = a]
        = Made(x.revision, x.contract, x.criteria, x.items, a, x.workflow, x.stages, x.log)
  BY DEF Made, Document
<1>3. [Made(x.revision, x.contract, x.criteria, x.items, a, x.workflow, x.stages, x.log)
         EXCEPT !.items = i]
        = Made(x.revision, x.contract, x.criteria, i, a, x.workflow, x.stages, x.log)
  BY DEF Made
<1> QED
  BY <1>1, <1>2, <1>3, Zenon

\* What CompleteContract writes.
LEMMA NewOutcome ==
    ASSUME NEW x, Document(x), NEW c, NEW i
    PROVE  [x EXCEPT !.contract = c, !.items = i]
             = Made(x.revision, c, x.criteria, i, x.artifacts, x.workflow, x.stages, x.log)
<1>1. [x EXCEPT !.contract = c, !.items = i]
        = [[x EXCEPT !.contract = c] EXCEPT !.items = i]
  OBVIOUS
<1>2. [x EXCEPT !.contract = c]
        = Made(x.revision, c, x.criteria, x.items, x.artifacts, x.workflow, x.stages, x.log)
  BY DEF Made, Document
<1>3. [Made(x.revision, c, x.criteria, x.items, x.artifacts, x.workflow, x.stages, x.log)
         EXCEPT !.items = i]
        = Made(x.revision, c, x.criteria, i, x.artifacts, x.workflow, x.stages, x.log)
  BY DEF Made
<1> QED
  BY <1>1, <1>2, <1>3, Zenon

\* What StartWorkflow writes.
LEMMA NewWorkflow ==
    ASSUME NEW x, Document(x), NEW w
    PROVE  [x EXCEPT !.workflow = w]
             = Made(x.revision, x.contract, x.criteria, x.items, x.artifacts, w, x.stages, x.log)
BY DEF Made, Document

\* What AdvanceWorkflow writes.
LEMMA NewStage ==
    ASSUME NEW x, Document(x), NEW s, NEW w
    PROVE  [x EXCEPT !.stages = s, !.workflow = w]
             = Made(x.revision, x.contract, x.criteria, x.items, x.artifacts, w, s, x.log)
<1>1. [x EXCEPT !.stages = s, !.workflow = w]
        = [[x EXCEPT !.stages = s] EXCEPT !.workflow = w]
  OBVIOUS
<1>2. [x EXCEPT !.stages = s]
        = Made(x.revision, x.contract, x.criteria, x.items, x.artifacts, x.workflow, s, x.log)
  BY DEF Made, Document
<1>3. [Made(x.revision, x.contract, x.criteria, x.items, x.artifacts, x.workflow, s, x.log)
         EXCEPT !.workflow = w]
        = Made(x.revision, x.contract, x.criteria, x.items, x.artifacts, w, s, x.log)
  BY DEF Made
<1> QED
  BY <1>1, <1>2, <1>3, Zenon

\* What an acknowledged write counts on.
LEMMA NewWrite ==
    ASSUME NEW x, Document(x), NEW r, NEW l
    PROVE  [x EXCEPT !.revision = r, !.log = l]
             = Made(r, x.contract, x.criteria, x.items, x.artifacts, x.workflow, x.stages, l)
<1>1. [x EXCEPT !.revision = r, !.log = l]
        = [[x EXCEPT !.revision = r] EXCEPT !.log = l]
  OBVIOUS
<1>2. [x EXCEPT !.revision = r]
        = Made(r, x.contract, x.criteria, x.items, x.artifacts, x.workflow, x.stages, x.log)
  BY DEF Made, Document
<1>3. [Made(r, x.contract, x.criteria, x.items, x.artifacts, x.workflow, x.stages, x.log)
         EXCEPT !.log = l]
        = Made(r, x.contract, x.criteria, x.items, x.artifacts, x.workflow, x.stages, l)
  BY DEF Made
<1> QED
  BY <1>1, <1>2, <1>3, Zenon

\* What PutContractWithWorkItems writes on the replaced contract.
LEMMA NewPlan ==
    ASSUME NEW x, Document(x), NEW r, NEW l, NEW i
    PROVE  [x EXCEPT !.revision = r, !.log = l, !.items = i]
             = Made(r, x.contract, x.criteria, i, x.artifacts, x.workflow, x.stages, l)
<1>1. [x EXCEPT !.revision = r, !.log = l, !.items = i]
        = [[[x EXCEPT !.revision = r] EXCEPT !.log = l] EXCEPT !.items = i]
  OBVIOUS
<1>2. [x EXCEPT !.revision = r]
        = Made(r, x.contract, x.criteria, x.items, x.artifacts, x.workflow, x.stages, x.log)
  BY DEF Made, Document
<1>3. [Made(r, x.contract, x.criteria, x.items, x.artifacts, x.workflow, x.stages, x.log)
         EXCEPT !.log = l]
        = Made(r, x.contract, x.criteria, x.items, x.artifacts, x.workflow, x.stages, l)
  BY DEF Made
<1>4. [Made(r, x.contract, x.criteria, x.items, x.artifacts, x.workflow, x.stages, l)
         EXCEPT !.items = i]
        = Made(r, x.contract, x.criteria, i, x.artifacts, x.workflow, x.stages, l)
  BY DEF Made
<1> QED
  BY <1>1, <1>2, <1>3, <1>4, Zenon

\* What a restored snapshot counts on.
LEMMA NewRevision ==
    ASSUME NEW x, Document(x), NEW r
    PROVE  [x EXCEPT !.revision = r]
             = Made(r, x.contract, x.criteria, x.items, x.artifacts, x.workflow, x.stages, x.log)
BY DEF Made, Document

\* A sound document whose revision and log are counted on is sound.
LEMMA SavedSound ==
    ASSUME NEW x, Sound(x), NEW r \in Nat, NEW l
    PROVE  Sound(Made(r, x.contract, x.criteria, x.items, x.artifacts, x.workflow, x.stages, l))
<1> DEFINE c == x.contract  k == x.criteria  i == x.items  a == x.artifacts
           w == x.workflow  s == x.stages
<1>1. /\ Claims(a) /\ (c = "completed" => k \subseteq verifiedCoverage(a))
      /\ ItemsSound(i, verifiedCoverage(a)) /\ StagesSound(s, a)
      /\ (w = "completed" <=> Len(s) = Len(Gates))
  BY Zenon DEF Sound
<1> HIDE DEF c, k, i, a, w, s
<1>2. Sound(Made(r, c, k, i, a, w, s, l))
  BY <1>1, MadeSound, Zenon
<1> QED
  BY <1>2 DEF c, k, i, a, w, s

\* A content that differs from the saved document in neither revision nor log.
ContentOf(x) == Sound(x) /\ x.revision = portfolio.revision /\ x.log = portfolio.log

\* What an acknowledged write does to the document.
Advances ==
    /\ Sound(portfolio')
    /\ portfolio'.revision = portfolio.revision + 1
    /\ portfolio'.log = portfolio.log \union {portfolio.revision + 1}

\* An acknowledged write of a sound content.
LEMMA AcknowledgeAdvances ==
    ASSUME NEW x, ContentOf(x), Acknowledge(x)
    PROVE  Advances /\ acknowledged' = acknowledged \union {portfolio.revision + 1}
<1> DEFINE r == x.revision + 1
           l == x.log \union {r}
           y == Made(r, x.contract, x.criteria, x.items, x.artifacts, x.workflow, x.stages, l)
<1>1. Document(x) /\ x.revision \in Nat /\ Sound(x)
  BY Zenon DEF ContentOf, Sound
<1>2. r \in Nat
  BY <1>1
<1>3. portfolio' = [x EXCEPT !.revision = r, !.log = l]
  BY Zenon DEF Acknowledge, Write
<1>4. acknowledged' = acknowledged \union {r}
  BY Zenon DEF Acknowledge, Write
<1>5. r = portfolio.revision + 1 /\ l = portfolio.log \union {r}
  BY Zenon DEF ContentOf
<1> HIDE DEF r, l
<1>6. portfolio' = y
  BY <1>1, <1>3, NewWrite, Zenon
<1>7. Sound(y)
  BY <1>1, <1>2, SavedSound, Zenon
<1>8. y.revision = r /\ y.log = l
  BY DEF Made
<1> HIDE DEF y
<1>9. Advances
  BY <1>5, <1>6, <1>7, <1>8, Zenon DEF Advances
<1> QED
  BY <1>4, <1>5, <1>9, Zenon

\* A content made of the revision, the log and sound fields.
LEMMA ContentMade ==
    ASSUME Sound(portfolio), NEW c, NEW k, NEW i, NEW a, NEW w, NEW s,
           Claims(a), c = "completed" => k \subseteq verifiedCoverage(a),
           ItemsSound(i, verifiedCoverage(a)), StagesSound(s, a),
           w = "completed" <=> Len(s) = Len(Gates)
    PROVE  ContentOf(Made(portfolio.revision, c, k, i, a, w, s, portfolio.log))
<1> DEFINE r == portfolio.revision
           l == portfolio.log
           x == Made(r, c, k, i, a, w, s, l)
<1>1. r \in Nat
  BY Zenon DEF Sound
<1> HIDE DEF r, l
<1>2. Sound(x)
  BY <1>1, MadeSound, Zenon
<1>3. x.revision = r /\ x.log = l
  BY DEF Made
<1> HIDE DEF x
<1>4. Sound(x) /\ x.revision = portfolio.revision /\ x.log = portfolio.log
  BY <1>2, <1>3 DEF r, l
<1> QED
  BY <1>4, Zenon DEF ContentOf, x, r, l

\* A step of a caller that is told that its write succeeded.
AcknowledgedStep ==
    /\ Advances /\ acknowledged' = acknowledged \union {portfolio.revision + 1}
    /\ UNCHANGED <<planBefore, planner, wrote>>

\* The parts of a sound document.
LEMMA SoundParts ==
    ASSUME NEW x, Sound(x)
    PROVE  /\ Document(x) /\ x.revision \in Nat /\ Claims(x.artifacts)
           /\ (x.contract = "completed" => x.criteria \subseteq verifiedCoverage(x.artifacts))
           /\ ItemsSound(x.items, verifiedCoverage(x.artifacts))
           /\ Entries(x.items) /\ Earned(x.items, verifiedCoverage(x.artifacts))
           /\ StagesSound(x.stages, x.artifacts)
           /\ (x.workflow = "completed" <=> Len(x.stages) = Len(Gates))
BY Zenon DEF Sound, ItemsSound

\* New items with the old evidence.
LEMMA ItemsStep ==
    ASSUME Sound(portfolio), NEW i, ItemsSound(i, verifiedCoverage(portfolio.artifacts)),
           Acknowledge([portfolio EXCEPT !.items = i]), UNCHANGED <<planBefore, planner, wrote>>
    PROVE  AcknowledgedStep
<1> DEFINE c == portfolio.contract  k == portfolio.criteria  a == portfolio.artifacts
           w == portfolio.workflow  s == portfolio.stages
           x == Made(portfolio.revision, c, k, i, a, w, s, portfolio.log)
<1>1. [portfolio EXCEPT !.items = i] = x
  BY SoundParts, NewItems, Zenon
<1>2. /\ Claims(a) /\ (c = "completed" => k \subseteq verifiedCoverage(a))
      /\ ItemsSound(i, verifiedCoverage(a)) /\ StagesSound(s, a)
      /\ (w = "completed" <=> Len(s) = Len(Gates))
  BY Zenon DEF Sound
<1>3. ContentOf(x)
  <2> HIDE DEF c, k, a, w, s
  <2> QED BY <1>2, ContentMade, Zenon
<1> HIDE DEF x
<1>4. Acknowledge(x)
  BY <1>1
<1> QED
  BY <1>3, <1>4, AcknowledgeAdvances, Zenon DEF AcknowledgedStep

\* putContract replaces a contract by one that is not completed.
LEMMA PutContractStep ==
    ASSUME Sound(portfolio), NEW status, NEW criteria, PutContract(status, criteria)
    PROVE  AcknowledgedStep
<1>1. PICK counted : Acknowledge(Replaced(status, criteria, counted))
  BY Zenon DEF PutContract
<1> DEFINE i == ensureCriterionWorkItems(portfolio.items, criteria, counted)
           a == portfolio.artifacts  w == portfolio.workflow  s == portfolio.stages
           x == Made(portfolio.revision, status, criteria, i, a, w, s, portfolio.log)
<1>2. Replaced(status, criteria, counted)
        = [portfolio EXCEPT !.contract = status, !.criteria = criteria, !.items = i]
  BY DEF Replaced
<1>3. ItemsSound(i, verifiedCoverage(a))
  BY SoundParts, EnsureKeeps, Zenon
<1>4. status # "completed"
  BY DEF PutContract
<1> HIDE DEF i
<1>5. Replaced(status, criteria, counted) = x
  BY <1>2, SoundParts, NewContract, Zenon
<1>6. /\ Claims(a) /\ StagesSound(s, a) /\ (w = "completed" <=> Len(s) = Len(Gates))
  BY Zenon DEF Sound
<1>7. ContentOf(x)
  <2> HIDE DEF a, w, s
  <2> QED BY <1>3, <1>4, <1>6, ContentMade, Zenon
<1> HIDE DEF x
<1>8. Acknowledge(x)
  BY <1>1, <1>5
<1>9. UNCHANGED <<planBefore, planner, wrote>>
  BY Zenon DEF PutContract
<1> QED
  BY <1>7, <1>8, <1>9, AcknowledgeAdvances, Zenon DEF AcknowledgedStep

\* SyncWorkItems.
LEMMA SyncStep ==
    ASSUME Sound(portfolio), NEW plan, SyncWorkItems(plan)
    PROVE  AcknowledgedStep
<1> DEFINE i == syncWorkItems(portfolio.items, plan)
<1>1. ItemsSound(i, verifiedCoverage(portfolio.artifacts))
  BY SoundParts, SyncKeeps, Zenon
<1>2. Acknowledge([portfolio EXCEPT !.items = i]) /\ UNCHANGED <<planBefore, planner, wrote>>
  BY Zenon DEF SyncWorkItems
<1> HIDE DEF i
<1> QED
  BY <1>1, <1>2, ItemsStep, Zenon

\* UpdateWorkItem.
LEMMA UpdateStep ==
    ASSUME Sound(portfolio), NEW i, NEW status, UpdateWorkItem(i, status)
    PROVE  AcknowledgedStep
<1> DEFINE items == portfolio.items
           covered == verifiedCoverage(portfolio.artifacts)
           new == refreshReady(Updated(items, i, status))
<1>1. /\ i \in DOMAIN items /\ Entries(items) /\ Earned(items, covered)
      /\ (status = "completed" => items[i].criteria \subseteq covered)
  BY SoundParts, Zenon DEF UpdateWorkItem
<1>2. Acknowledge([portfolio EXCEPT !.items = new]) /\ UNCHANGED <<planBefore, planner, wrote>>
  BY Zenon DEF UpdateWorkItem
<1>3. ItemsSound(new, covered)
  <2> HIDE DEF items, covered
  <2> QED BY <1>1, UpdateKeeps, Zenon
<1> HIDE DEF new
<1> QED
  BY <1>2, <1>3, ItemsStep, Zenon

\* RecordArtifact.
LEMMA RecordStep ==
    ASSUME Sound(portfolio), NEW a, NEW covers, RecordArtifact(a, covers)
    PROVE  AcknowledgedStep
<1> DEFINE old == portfolio.artifacts
           new == [b \in DOMAIN old \union {a} |->
                     IF b = a THEN [covers |-> covers, verified |-> FALSE] ELSE old[b]]
           c == portfolio.contract  k == portfolio.criteria  i == portfolio.items
           w == portfolio.workflow  s == portfolio.stages
           x == Made(portfolio.revision, c, k, i, new, w, s, portfolio.log)
<1>1. Acknowledge([portfolio EXCEPT !.artifacts = new]) /\ UNCHANGED <<planBefore, planner, wrote>>
  BY Zenon DEF RecordArtifact
<1>2. /\ Claims(old) /\ (c = "completed" => k \subseteq verifiedCoverage(old))
      /\ ItemsSound(i, verifiedCoverage(old)) /\ StagesSound(s, old)
      /\ (w = "completed" <=> Len(s) = Len(Gates)) /\ Document(portfolio)
  BY Zenon DEF Sound
<1>3. Grown(old, new)
  <2>1. a \notin DOMAIN old
    BY Zenon DEF RecordArtifact
  <2>2. /\ DOMAIN new = DOMAIN old \union {a} /\ new = [b \in DOMAIN new |-> new[b]]
        /\ new[a] = [covers |-> covers, verified |-> FALSE]
        /\ \A b \in DOMAIN old : new[b] = old[b]
    <3> HIDE DEF old
    <3> QED BY <2>1, Zenon
  <2> HIDE DEF old, new
  <2> QED BY <1>2, <2>1, <2>2, RecordGrows, Zenon
<1> HIDE DEF new
<1>4. [portfolio EXCEPT !.artifacts = new] = x
  BY <1>2, NewClaim, Zenon
<1> HIDE DEF old, c, k, i, w, s
<1>5. verifiedCoverage(old) \subseteq verifiedCoverage(new) /\ StagesSound(s, new) /\ Claims(new)
  BY <1>2, <1>3, GrownCovers, GrownPassed, Zenon DEF Grown
<1>6. ItemsSound(i, verifiedCoverage(new))
  BY <1>2, <1>5, EarnedGrows, Zenon DEF ItemsSound
<1>7. c = "completed" => k \subseteq verifiedCoverage(new)
  BY <1>2, <1>5, Zenon
<1>8. ContentOf(x)
  BY <1>2, <1>5, <1>6, <1>7, ContentMade, Zenon
<1> HIDE DEF x
<1>9. Acknowledge(x)
  BY <1>1, <1>4
<1> QED
  BY <1>1, <1>8, <1>9, AcknowledgeAdvances, Zenon DEF AcknowledgedStep

\* VerifyArtifact.
LEMMA VerifyStep ==
    ASSUME Sound(portfolio), NEW a, VerifyArtifact(a)
    PROVE  AcknowledgedStep
<1> DEFINE old == portfolio.artifacts
           new == [old EXCEPT ![a].verified = TRUE]
           c == portfolio.contract  k == portfolio.criteria
           i == reconcileVerifiedWorkItems(portfolio.items, new)
           w == portfolio.workflow  s == portfolio.stages
           x == Made(portfolio.revision, c, k, i, new, w, s, portfolio.log)
<1>1. /\ Acknowledge([portfolio EXCEPT !.artifacts = new, !.items = i])
      /\ UNCHANGED <<planBefore, planner, wrote>> /\ a \in DOMAIN old
  BY DEF VerifyArtifact
<1>2. /\ Claims(old) /\ (c = "completed" => k \subseteq verifiedCoverage(old))
      /\ StagesSound(s, old)
      /\ (w = "completed" <=> Len(s) = Len(Gates)) /\ Document(portfolio)
  BY Zenon DEF Sound
<1>3. Grown(old, new)
  <2> HIDE DEF old
  <2> QED BY <1>1, <1>2, VerifyGrows, Zenon
<1> HIDE DEF new
<1>4. verifiedCoverage(old) \subseteq verifiedCoverage(new) /\ StagesSound(s, new) /\ Claims(new)
  BY <1>2, <1>3, GrownCovers, GrownPassed, Zenon DEF Grown
<1>5. ItemsSound(i, verifiedCoverage(new))
  BY <1>4, SoundParts, ReconcileKeeps, Zenon
<1> HIDE DEF i
<1>6. [portfolio EXCEPT !.artifacts = new, !.items = i] = x
  BY <1>2, NewEvidence, Zenon
<1>7. c = "completed" => k \subseteq verifiedCoverage(new)
  BY <1>2, <1>4, Zenon
<1>8. ContentOf(x)
  <2> HIDE DEF c, k, w, s
  <2> QED BY <1>2, <1>4, <1>5, <1>7, ContentMade, Zenon
<1> HIDE DEF x
<1>9. Acknowledge(x)
  BY <1>1, <1>6
<1> QED
  BY <1>1, <1>8, <1>9, AcknowledgeAdvances, Zenon DEF AcknowledgedStep

\* CompleteContract.
LEMMA CompleteStep ==
    ASSUME Sound(portfolio), CompleteContract
    PROVE  AcknowledgedStep
<1> DEFINE a == portfolio.artifacts  k == portfolio.criteria
           i == reconcileVerifiedWorkItems(portfolio.items, a)
           w == portfolio.workflow  s == portfolio.stages
           x == Made(portfolio.revision, "completed", k, i, a, w, s, portfolio.log)
<1>1. /\ Acknowledge([portfolio EXCEPT !.contract = "completed", !.items = i])
      /\ UNCHANGED <<planBefore, planner, wrote>> /\ k \subseteq verifiedCoverage(a)
  BY Zenon DEF CompleteContract
<1>2. /\ Claims(a) /\ StagesSound(s, a) /\ (w = "completed" <=> Len(s) = Len(Gates))
      /\ Document(portfolio)
  BY Zenon DEF Sound
<1>3. ItemsSound(i, verifiedCoverage(a))
  <2>1. verifiedCoverage(a) \subseteq verifiedCoverage(a)
    OBVIOUS
  <2> QED BY <2>1, SoundParts, ReconcileKeeps, Zenon
<1> HIDE DEF i
<1>4. [portfolio EXCEPT !.contract = "completed", !.items = i] = x
  BY <1>2, NewOutcome, Zenon
<1>5. ContentOf(x)
  <2> HIDE DEF a, k, w, s
  <2> QED BY <1>1, <1>2, <1>3, ContentMade, Zenon
<1> HIDE DEF x
<1>6. Acknowledge(x)
  BY <1>1, <1>4
<1> QED
  BY <1>1, <1>5, <1>6, AcknowledgeAdvances, Zenon DEF AcknowledgedStep

\* StartWorkflow.
LEMMA StartStep ==
    ASSUME Sound(portfolio), StartWorkflow
    PROVE  AcknowledgedStep
<1> DEFINE c == portfolio.contract  k == portfolio.criteria  i == portfolio.items
           a == portfolio.artifacts  s == portfolio.stages
           x == Made(portfolio.revision, c, k, i, a, "active", s, portfolio.log)
<1>1. /\ Acknowledge([portfolio EXCEPT !.workflow = "active"])
      /\ UNCHANGED <<planBefore, planner, wrote>> /\ portfolio.workflow = "none"
  BY Zenon DEF StartWorkflow
<1>2. /\ Claims(a) /\ (c = "completed" => k \subseteq verifiedCoverage(a))
      /\ ItemsSound(i, verifiedCoverage(a)) /\ StagesSound(s, a)
      /\ (portfolio.workflow = "completed" <=> Len(s) = Len(Gates)) /\ Document(portfolio)
  BY Zenon DEF Sound
<1>3. [portfolio EXCEPT !.workflow = "active"] = x
  BY <1>2, NewWorkflow, Zenon
<1>4. "active" = "completed" <=> Len(s) = Len(Gates)
  BY <1>1, <1>2
<1>5. ContentOf(x)
  <2> HIDE DEF c, k, i, a, s
  <2> QED BY <1>2, <1>4, ContentMade, Zenon
<1> HIDE DEF x
<1>6. Acknowledge(x)
  BY <1>1, <1>3
<1> QED
  BY <1>1, <1>5, <1>6, AcknowledgeAdvances, Zenon DEF AcknowledgedStep

\* AdvanceWorkflow: the run completes with its last stage.
LEMMA AdvanceStep ==
    ASSUME Sound(portfolio), NEW stage, NEW evidence \in SUBSET Artifacts,
           NEW confirmed \in BOOLEAN, AdvanceWorkflow(stage, evidence, confirmed)
    PROVE  AcknowledgedStep
<1> DEFINE c == portfolio.contract  k == portfolio.criteria  i == portfolio.items
           a == portfolio.artifacts  old == portfolio.stages
           s == WithStage(old, stage, evidence, confirmed)
           w == IF stage = Len(Gates) THEN "completed" ELSE portfolio.workflow
           x == Made(portfolio.revision, c, k, i, a, w, s, portfolio.log)
<1>1. /\ Acknowledge([portfolio EXCEPT !.stages = s, !.workflow = w])
      /\ UNCHANGED <<planBefore, planner, wrote>>
  BY Zenon DEF AdvanceWorkflow, WithStage
<1>2. /\ stage = Len(old) + 1 /\ (Gates[stage] => confirmed) /\ (stage > 1 => evidence # {})
      /\ \A b \in evidence : b \in DOMAIN a /\ a[b].verified
      /\ portfolio.workflow = "active"
  BY Zenon DEF AdvanceWorkflow
<1>3. /\ Claims(a) /\ (c = "completed" => k \subseteq verifiedCoverage(a))
      /\ ItemsSound(i, verifiedCoverage(a)) /\ StagesSound(old, a) /\ Document(portfolio)
  BY Zenon DEF Sound
<1>4. StagesSound(s, a) /\ Len(s) = stage
  <2>1. Qualifies(old, a, stage, evidence, confirmed)
    BY <1>2, Zenon DEF Qualifies
  <2>2. PassedTo(s, a, stage)
    <3> HIDE DEF a, old
    <3> QED BY <1>3, <2>1, AppendPassed, Zenon
  <2> QED BY <2>2 DEF PassedTo
<1>5. w = "completed" <=> Len(s) = Len(Gates)
  <2> HIDE DEF s
  <2> QED BY <1>2, <1>4
<1> HIDE DEF s, w
<1>6. [portfolio EXCEPT !.stages = s, !.workflow = w] = x
  BY <1>3, NewStage, Zenon
<1>7. ContentOf(x)
  <2> HIDE DEF c, k, i, a
  <2> QED BY <1>3, <1>4, <1>5, ContentMade, Zenon
<1> HIDE DEF x
<1>8. Acknowledge(x)
  BY <1>1, <1>6
<1> QED
  BY <1>1, <1>7, <1>8, AcknowledgeAdvances, Zenon DEF AcknowledgedStep

-----------------------------------------------------------------------------
\* A write told to its caller is newer than every snapshot and every other write.
LEMMA AcknowledgedKeeps ==
    ASSUME PortfolioIInv, AcknowledgedStep
    PROVE  PortfolioIInv'
<1> DEFINE n == portfolio.revision + 1
<1>1. /\ Sound(portfolio') /\ portfolio'.revision = n /\ portfolio'.log = portfolio.log \union {n}
      /\ acknowledged' = acknowledged \union {n}
      /\ planBefore' = planBefore /\ planner' = planner /\ wrote' = wrote
  BY Zenon DEF AcknowledgedStep, Advances
<1>2. portfolio.revision \in Nat
  BY Zenon DEF PortfolioIInv, Sound
<1>3. n \in Nat /\ portfolio.revision < n /\ ~ n <= portfolio.revision
  BY <1>2
<1>4. Holding' = Holding /\ Writers' = Writers
  BY <1>1, Zenon DEF Holding, Writers
<1>5. PlannersTyped'
  BY <1>1, Zenon DEF PortfolioIInv, PlannersTyped
<1>6. WritesSurvive'
  BY <1>1 DEF PortfolioIInv, WritesSurvive
<1>7. Acknowledged'
  BY <1>1, <1>2, <1>3 DEF PortfolioIInv, Acknowledged
<1>8. SnapshotsHold'
  <2>1. ASSUME NEW p \in Holding
        PROVE  /\ Sound(planBefore[p]) /\ planBefore[p].revision <= n
               /\ \A w \in acknowledged \union {n} :
                    w <= planBefore[p].revision => w \in planBefore[p].log
    <3>1. /\ Sound(planBefore[p]) /\ planBefore[p].revision <= portfolio.revision
          /\ \A w \in acknowledged : w <= planBefore[p].revision => w \in planBefore[p].log
      BY Zenon DEF PortfolioIInv, SnapshotsHold
    <3>2. planBefore[p].revision \in Nat
      BY <3>1, Zenon DEF Sound
    <3>3. planBefore[p].revision <= n /\ ~ n <= planBefore[p].revision
      BY <3>1, <3>2, <1>2
    <3> QED BY <3>1, <3>3, Zenon
  <2> HIDE DEF n
  <2> QED BY <2>1, <1>1, <1>4, Zenon DEF SnapshotsHold
<1>9. WritesPending'
  <2>1. ASSUME NEW q \in Writers
        PROVE  /\ wrote[q] \in Nat /\ wrote[q] \in portfolio.log \union {n}
               /\ wrote[q] \notin acknowledged \union {n}
               /\ planBefore[q].revision < wrote[q] /\ wrote[q] <= n
               /\ \A p \in Holding :
                    wrote[q] <= planBefore[p].revision => wrote[q] \in planBefore[p].log
               /\ \A r \in Writers : wrote[r] = wrote[q] => r = q
    <3>1. /\ wrote[q] \in Nat /\ wrote[q] \in portfolio.log /\ wrote[q] \notin acknowledged
          /\ planBefore[q].revision < wrote[q] /\ wrote[q] <= portfolio.revision
          /\ \A p \in Holding :
               wrote[q] <= planBefore[p].revision => wrote[q] \in planBefore[p].log
          /\ \A r \in Writers : wrote[r] = wrote[q] => r = q
      BY Zenon DEF PortfolioIInv, WritesPending
    <3>2. wrote[q] <= n /\ wrote[q] # n
      BY <3>1, <1>2
    <3> QED BY <3>1, <3>2, Zenon
  <2> HIDE DEF n
  <2> QED BY <2>1, <1>1, <1>4, Zenon DEF WritesPending
<1> QED
  BY <1>1, <1>5, <1>6, <1>7, <1>8, <1>9, Zenon DEF PortfolioIInv

\* What one planner's invariants say, by name.
HoldsSnapshot(p) ==
    /\ Sound(planBefore[p]) /\ planBefore[p].revision <= portfolio.revision
    /\ \A w \in acknowledged : w <= planBefore[p].revision => w \in planBefore[p].log

PendingWrite(q) ==
    /\ wrote[q] \in Nat /\ wrote[q] \in portfolio.log /\ wrote[q] \notin acknowledged
    /\ planBefore[q].revision < wrote[q] /\ wrote[q] <= portfolio.revision
    /\ \A p \in Holding : wrote[q] <= planBefore[p].revision => wrote[q] \in planBefore[p].log
    /\ \A r \in Writers : wrote[r] = wrote[q] => r = q

\* They are the parts of the invariants.
LEMMA ByPlanner ==
    /\ SnapshotsHold <=> \A p \in Holding : HoldsSnapshot(p)
    /\ WritesPending <=> \A q \in Writers : PendingWrite(q)
BY Zenon DEF SnapshotsHold, WritesPending, HoldsSnapshot, PendingWrite

\* A call that ends takes its snapshot and its write with it.
LEMMA EndedKeeps ==
    ASSUME PortfolioIInv, NEW p \in Planners, Ended(p), WritesSurvive', Acknowledged',
           Sound(portfolio'), portfolio'.revision = portfolio.revision,
           \A q \in Writers : q # p => wrote[q] \in portfolio'.log,
           \A q \in Writers : q # p => wrote[q] \notin acknowledged',
           \A r \in Holding : \A w \in acknowledged' :
              r # p /\ w <= planBefore[r].revision => w \in planBefore[r].log
    PROVE  PortfolioIInv'
<1>1. /\ planner' = [planner EXCEPT ![p] = "done"]
      /\ planBefore' = [planBefore EXCEPT ![p] = NoSnapshot]
      /\ wrote' = [wrote EXCEPT ![p] = 0]
  BY Zenon DEF Ended
<1>2. PlannersTyped
  BY Zenon DEF PortfolioIInv
<1>3. PlannersTyped'
  BY <1>1, <1>2 DEF PlannersTyped
<1>4. DOMAIN planner = Planners /\ DOMAIN planBefore = Planners /\ DOMAIN wrote = Planners
  BY <1>2, Zenon DEF PlannersTyped
<1>5. /\ planner'[p] = "done"
      /\ \A q \in Planners : q # p => /\ planner'[q] = planner[q] /\ wrote'[q] = wrote[q]
                                      /\ planBefore'[q] = planBefore[q]
  BY <1>1, <1>4, Zenon
<1>6. /\ \A q : q \in Holding' => q \in Holding /\ q # p
      /\ \A q : q \in Writers' => q \in Writers /\ q # p
  BY <1>5 DEF Holding, Writers
<1>7. \A q \in Holding : q \in Planners
  BY Zenon DEF Holding
<1>8. \A q \in Writers : q \in Planners
  BY Zenon DEF Writers
<1>9. (\A q \in Holding : HoldsSnapshot(q)) /\ (\A q \in Writers : PendingWrite(q))
  BY ByPlanner, Zenon DEF PortfolioIInv
<1>10. SnapshotsHold'
  <2>1. ASSUME NEW q \in Holding'
        PROVE  /\ Sound(planBefore'[q]) /\ planBefore'[q].revision <= portfolio'.revision
               /\ \A w \in acknowledged' : w <= planBefore'[q].revision => w \in planBefore'[q].log
    <3>1. q \in Holding /\ q # p /\ planBefore'[q] = planBefore[q]
      BY <1>5, <1>6, <1>7, Zenon
    <3>2. HoldsSnapshot(q)
      BY <3>1, <1>9, Zenon
    <3> QED BY <3>1, <3>2, Zenon DEF HoldsSnapshot
  <2> QED BY <2>1, Zenon DEF SnapshotsHold
<1>11. WritesPending'
  <2>1. ASSUME NEW q \in Writers'
        PROVE  /\ wrote'[q] \in Nat /\ wrote'[q] \in portfolio'.log
               /\ wrote'[q] \notin acknowledged'
               /\ planBefore'[q].revision < wrote'[q] /\ wrote'[q] <= portfolio'.revision
               /\ \A r \in Holding' :
                    wrote'[q] <= planBefore'[r].revision => wrote'[q] \in planBefore'[r].log
               /\ \A r \in Writers' : wrote'[r] = wrote'[q] => r = q
    <3>1. /\ q \in Writers /\ q # p /\ planBefore'[q] = planBefore[q] /\ wrote'[q] = wrote[q]
      BY <1>5, <1>6, <1>8, Zenon
    <3>2. PendingWrite(q)
      BY <3>1, <1>9, Zenon
    <3>3. \A r \in Holding' : r \in Holding /\ planBefore'[r] = planBefore[r]
      BY <1>5, <1>6, <1>7, Zenon
    <3>4. \A r \in Writers' : r \in Writers /\ wrote'[r] = wrote[r]
      BY <1>5, <1>6, <1>8, Zenon
    <3>5. wrote[q] \in portfolio'.log /\ wrote[q] \notin acknowledged'
      BY <3>1, Zenon
    <3> QED BY <3>1, <3>2, <3>3, <3>4, <3>5, Zenon DEF PendingWrite
  <2> QED BY <2>1, Zenon DEF WritesPending
<1> QED
  BY <1>3, <1>10, <1>11, Zenon DEF PortfolioIInv

\* PlanRefused.
LEMMA RefusedKeeps ==
    ASSUME PortfolioIInv, NEW p \in Planners, PlanRefused(p)
    PROVE  PortfolioIInv'
<1>1. Ended(p) /\ portfolio' = portfolio /\ acknowledged' = acknowledged
  BY Zenon DEF PlanRefused
<1>2. WritesSurvive' /\ Acknowledged' /\ Sound(portfolio')
  BY <1>1, Zenon DEF PortfolioIInv, WritesSurvive, Acknowledged
<1>3. \A q \in Writers : wrote[q] \in portfolio'.log /\ wrote[q] \notin acknowledged'
  BY <1>1, Zenon DEF PortfolioIInv, WritesPending
<1>4. \A r \in Holding : \A w \in acknowledged' :
        w <= planBefore[r].revision => w \in planBefore[r].log
  BY <1>1, Zenon DEF PortfolioIInv, SnapshotsHold
<1>5. portfolio'.revision = portfolio.revision
  BY <1>1
<1> QED
  BY <1>1, <1>2, <1>3, <1>4, <1>5, EndedKeeps, Zenon

\* PlanProposed: the planner's write, still in the document, is acknowledged.
LEMMA ProposedKeeps ==
    ASSUME PortfolioIInv, NEW p \in Planners, PlanProposed(p)
    PROVE  PortfolioIInv'
<1>1. /\ Ended(p) /\ portfolio' = portfolio /\ acknowledged' = acknowledged \union {wrote[p]}
      /\ planner[p] = "wrote"
  BY Zenon DEF PlanProposed
<1>2. p \in Writers
  BY <1>1, Zenon DEF Writers
<1>3. PendingWrite(p)
  BY <1>2, ByPlanner, Zenon DEF PortfolioIInv
<1>4. WritesSurvive' /\ Acknowledged' /\ Sound(portfolio')
  BY <1>1, <1>3, Zenon DEF PortfolioIInv, WritesSurvive, Acknowledged, PendingWrite
<1>5. \A q \in Writers : q # p => wrote[q] \in portfolio'.log /\ wrote[q] \notin acknowledged'
  BY <1>1, <1>3, Zenon DEF PortfolioIInv, WritesPending, PendingWrite
<1>6. \A r \in Holding : \A w \in acknowledged' :
        w <= planBefore[r].revision => w \in planBefore[r].log
  BY <1>1, <1>3, Zenon DEF PortfolioIInv, SnapshotsHold, PendingWrite
<1>7. portfolio'.revision = portfolio.revision
  BY <1>1
<1> QED
  BY <1>1, <1>4, <1>5, <1>6, <1>7, EndedKeeps, Zenon

\* RestorePortfolio: when nothing was saved since, the only write newer than the
\* snapshot is the planner's own, which nobody was told of.
LEMMA RestoreKeeps ==
    ASSUME PortfolioIInv, NEW p \in Planners, RestorePortfolio(p)
    PROVE  PortfolioIInv'
<1> DEFINE snap == planBefore[p]
<1>1. Ended(p) /\ acknowledged' = acknowledged /\ planner[p] = "wrote"
  BY Zenon DEF RestorePortfolio
<1>2. p \in Writers /\ p \in Holding
  BY <1>1, Zenon DEF Writers, Holding
<1>3. PendingWrite(p) /\ HoldsSnapshot(p)
  BY <1>2, ByPlanner, Zenon DEF PortfolioIInv
<1>4. Sound(snap) /\ snap.revision \in Nat /\ Document(snap) /\ portfolio.revision \in Nat
  BY <1>3, Zenon DEF HoldsSnapshot, Sound, PortfolioIInv
<1>5. \A r \in Holding : \A w \in acknowledged' :
        w <= planBefore[r].revision => w \in planBefore[r].log
  BY <1>1, Zenon DEF PortfolioIInv, SnapshotsHold
<1>6. \A q \in Writers : wrote[q] \notin acknowledged'
  BY <1>1, Zenon DEF PortfolioIInv, WritesPending
<1>7. CASE portfolio.revision = snap.revision + 1
  <2> DEFINE r == snap.revision + 1
             y == Made(r, snap.contract, snap.criteria, snap.items, snap.artifacts,
                       snap.workflow, snap.stages, snap.log)
  <2>1. portfolio' = [snap EXCEPT !.revision = r]
    BY <1>7, Zenon DEF RestorePortfolio, Unchanged, savePortfolio
  <2>2. r \in Nat /\ r = portfolio.revision
    BY <1>4, <1>7
  <2>3. wrote[p] = portfolio.revision
    <3>1. /\ wrote[p] \in Nat /\ snap.revision < wrote[p] /\ wrote[p] <= portfolio.revision
      BY <1>3, Zenon DEF PendingWrite
    <3> HIDE DEF snap
    <3> QED BY <3>1, <1>4, <1>7
  <2> HIDE DEF r, snap
  <2>4. portfolio' = y
    BY <2>1, <1>4, NewRevision, Zenon
  <2>5. Sound(y)
    BY <1>4, <2>2, SavedSound, Zenon
  <2>6. y.revision = r /\ y.log = snap.log
    BY DEF Made
  <2> HIDE DEF y
  <2>7. Sound(portfolio') /\ portfolio'.revision = portfolio.revision /\ portfolio'.log = snap.log
    BY <2>2, <2>4, <2>5, <2>6, Zenon
  <2>8. ASSUME NEW w \in Nat, w <= portfolio.revision, w # wrote[p]
        PROVE  w <= snap.revision
    BY <2>3, <2>8, <1>4, <1>7
  <2>9. \A w \in acknowledged : w \in Nat /\ w <= portfolio.revision
    BY Zenon DEF PortfolioIInv, Acknowledged
  <2>10. WritesSurvive'
    <3>1. ASSUME NEW w \in acknowledged PROVE w \in snap.log
      <4>1. w # wrote[p]
        BY <1>3, Zenon DEF PendingWrite
      <4>2. w <= snap.revision
        BY <4>1, <2>8, <2>9
      <4> QED BY <4>2, <1>3, Zenon DEF HoldsSnapshot, snap
    <3> QED BY <3>1, <2>7, <1>1 DEF WritesSurvive
  <2>11. Acknowledged'
    BY <2>7, <2>9, <1>1, Zenon DEF Acknowledged
  <2>12. \A q \in Writers : q # p => wrote[q] \in portfolio'.log
    <3>1. ASSUME NEW q \in Writers, q # p PROVE wrote[q] \in snap.log
      <4>1. PendingWrite(q)
        BY ByPlanner, Zenon DEF PortfolioIInv
      <4>2. wrote[q] # wrote[p]
        BY <3>1, <1>2, <1>3, Zenon DEF PendingWrite
      <4>3. wrote[q] \in Nat /\ wrote[q] <= portfolio.revision
        BY <4>1, Zenon DEF PendingWrite
      <4>4. wrote[q] <= snap.revision
        BY <4>2, <4>3, <2>8
      <4> QED BY <4>1, <4>4, <1>2, Zenon DEF PendingWrite, snap
    <3> QED BY <3>1, <2>7, Zenon
  <2> QED
    BY <1>1, <1>5, <1>6, <2>7, <2>10, <2>11, <2>12, EndedKeeps, Zenon
<1>8. CASE portfolio.revision # snap.revision + 1
  <2>1. portfolio' = portfolio
    BY <1>8, Zenon DEF RestorePortfolio, Unchanged
  <2>2. WritesSurvive' /\ Acknowledged' /\ Sound(portfolio')
    BY <1>1, <2>1, Zenon DEF PortfolioIInv, WritesSurvive, Acknowledged
  <2>3. \A q \in Writers : wrote[q] \in portfolio'.log
    BY <2>1, Zenon DEF PortfolioIInv, WritesPending
  <2>4. portfolio'.revision = portfolio.revision
    BY <2>1
  <2> QED
    BY <1>1, <1>5, <1>6, <2>2, <2>3, <2>4, EndedKeeps, Zenon
<1> QED
  BY <1>7, <1>8

\* ReadPortfolio: the snapshot is the document.
LEMMA ReadKeeps ==
    ASSUME PortfolioIInv, NEW p \in Planners, ReadPortfolio(p)
    PROVE  PortfolioIInv'
<1>1. /\ planner[p] = "idle" /\ planBefore' = [planBefore EXCEPT ![p] = portfolio]
      /\ planner' = [planner EXCEPT ![p] = "read"]
      /\ portfolio' = portfolio /\ wrote' = wrote /\ acknowledged' = acknowledged
  BY Zenon DEF ReadPortfolio
<1>2. PlannersTyped /\ Sound(portfolio) /\ WritesSurvive /\ Acknowledged
  BY Zenon DEF PortfolioIInv
<1>3. PlannersTyped'
  BY <1>1, <1>2 DEF PlannersTyped
<1>4. DOMAIN planner = Planners /\ DOMAIN planBefore = Planners
  BY <1>2, Zenon DEF PlannersTyped
<1>5. /\ planner'[p] = "read" /\ planBefore'[p] = portfolio
      /\ \A q \in Planners : q # p => planner'[q] = planner[q] /\ planBefore'[q] = planBefore[q]
  BY <1>1, <1>4, Zenon
<1>6. \A q : q \in Holding' => q = p \/ (q \in Holding /\ planBefore'[q] = planBefore[q])
  BY <1>5, Zenon DEF Holding
<1>7. \A q : q \in Writers' => q \in Writers /\ planBefore'[q] = planBefore[q]
  BY <1>1, <1>5 DEF Writers
<1>8. WritesSurvive' /\ Acknowledged' /\ Sound(portfolio')
  BY <1>1, <1>2, Zenon DEF WritesSurvive, Acknowledged
<1>9. portfolio.revision \in Nat
  BY <1>2, Zenon DEF Sound
<1>10. portfolio.revision <= portfolio.revision
  BY <1>9
<1>11. SnapshotsHold'
  <2>1. ASSUME NEW q \in Holding'
        PROVE  /\ Sound(planBefore'[q]) /\ planBefore'[q].revision <= portfolio.revision
               /\ \A w \in acknowledged : w <= planBefore'[q].revision => w \in planBefore'[q].log
    <3>1. CASE q = p
      BY <3>1, <1>2, <1>5, <1>10, Zenon DEF WritesSurvive
    <3>2. CASE q \in Holding /\ planBefore'[q] = planBefore[q]
      BY <3>2, Zenon DEF PortfolioIInv, SnapshotsHold
    <3> QED BY <3>1, <3>2, <1>6, Zenon
  <2> QED BY <2>1, <1>1, Zenon DEF SnapshotsHold
<1>12. WritesPending'
  <2>1. ASSUME NEW q \in Writers'
        PROVE  /\ wrote[q] \in Nat /\ wrote[q] \in portfolio.log
               /\ wrote[q] \notin acknowledged
               /\ planBefore'[q].revision < wrote[q] /\ wrote[q] <= portfolio.revision
               /\ \A r \in Holding' :
                    wrote[q] <= planBefore'[r].revision => wrote[q] \in planBefore'[r].log
               /\ \A r \in Writers' : wrote[r] = wrote[q] => r = q
    <3>1. q \in Writers /\ planBefore'[q] = planBefore[q]
      BY <1>7, Zenon
    <3>2. PendingWrite(q)
      BY <3>1, ByPlanner, Zenon DEF PortfolioIInv
    <3>3. ASSUME NEW r \in Holding', wrote[q] <= planBefore'[r].revision
          PROVE  wrote[q] \in planBefore'[r].log
      <4>1. CASE r = p
        BY <4>1, <1>5, <3>2, Zenon DEF PendingWrite
      <4>2. CASE r \in Holding /\ planBefore'[r] = planBefore[r]
        BY <4>2, <3>2, <3>3, Zenon DEF PendingWrite
      <4> QED BY <4>1, <4>2, <1>6, Zenon
    <3> QED BY <3>1, <3>2, <3>3, <1>7, Zenon DEF PendingWrite
  <2> QED BY <2>1, <1>1, Zenon DEF WritesPending
<1> QED
  BY <1>3, <1>8, <1>11, <1>12, Zenon DEF PortfolioIInv

\* PutContractWithWorkItems makes one sound document of the contract and the plan.
LEMMA PutAdvances ==
    ASSUME Sound(portfolio), NEW p, NEW criteria, NEW plan,
           PutContractWithWorkItems(p, criteria, plan)
    PROVE  Advances
<1> DEFINE e == ensureCriterionWorkItems(portfolio.items, criteria, {})
           i == syncWorkItems(e, plan)
           a == portfolio.artifacts  w == portfolio.workflow  s == portfolio.stages
           r == portfolio.revision + 1
           l == portfolio.log \union {r}
           x == Made(portfolio.revision, "active", criteria, e, a, w, s, portfolio.log)
           y == Made(r, "active", criteria, i, a, w, s, l)
<1>1. portfolio' = [Replaced("active", criteria, {}) EXCEPT
                      !.revision = @ + 1, !.log = @ \union {r}, !.items = syncWorkItems(@, plan)]
  BY Zenon DEF PutContractWithWorkItems, Write
<1>2. Replaced("active", criteria, {})
        = [portfolio EXCEPT !.contract = "active", !.criteria = criteria, !.items = e]
  BY DEF Replaced
<1>3. ItemsSound(e, verifiedCoverage(a))
  BY SoundParts, EnsureKeeps, Zenon
<1>4. Earned(e, verifiedCoverage(a))
  BY <1>3, Zenon DEF ItemsSound
<1>5. ItemsSound(i, verifiedCoverage(a))
  <2> HIDE DEF e, a
  <2> QED BY <1>4, SyncKeeps, Zenon
<1> HIDE DEF e
<1>6. Replaced("active", criteria, {}) = x
  BY <1>2, SoundParts, NewContract, Zenon
<1>7. Fields(x, portfolio.revision, "active", criteria, e, a, w, s, portfolio.log)
  BY MadeFields, Zenon
<1> HIDE DEF x
<1>8. portfolio' = [x EXCEPT !.revision = x.revision + 1, !.log = x.log \union {r},
                             !.items = syncWorkItems(x.items, plan)]
  BY <1>1, <1>6, Zenon
<1>9. /\ Document(x) /\ x.revision + 1 = r /\ x.log \union {r} = l
      /\ syncWorkItems(x.items, plan) = i
      /\ x.contract = "active" /\ x.criteria = criteria /\ x.artifacts = a
      /\ x.workflow = w /\ x.stages = s
  BY <1>7, Zenon DEF Fields
<1>10. portfolio' = [x EXCEPT !.revision = r, !.log = l, !.items = i]
  BY <1>8, <1>9, Zenon
<1>11. /\ portfolio.revision \in Nat /\ Claims(a) /\ StagesSound(s, a)
       /\ (w = "completed" <=> Len(s) = Len(Gates))
  BY Zenon DEF Sound
<1>12. r \in Nat
  BY <1>11
<1> HIDE DEF i, a, w, s, l, r
<1>13. portfolio' = y
  <2>1. [x EXCEPT !.revision = r, !.log = l, !.items = i]
          = Made(r, x.contract, x.criteria, i, x.artifacts, x.workflow, x.stages, l)
    <3>1. Document(x)
      BY <1>9
    <3> QED BY <3>1, NewPlan, Zenon
  <2> QED BY <2>1, <1>9, <1>10, Zenon
<1>14. Sound(y)
  <2>1. "active" = "completed" => criteria \subseteq verifiedCoverage(a)
    OBVIOUS
  <2> QED BY <2>1, <1>5, <1>11, <1>12, MadeSound, Zenon
<1>15. y.revision = r /\ y.log = l
  BY DEF Made
<1> HIDE DEF y
<1>16. Sound(portfolio') /\ portfolio'.revision = r /\ portfolio'.log = l
  BY <1>13, <1>14, <1>15, Zenon
<1> QED
  BY <1>16 DEF Advances, r, l

\* PutContractWithWorkItems: the write is newer than every snapshot.
LEMMA PutKeeps ==
    ASSUME PortfolioIInv, NEW p \in Planners, NEW criteria, NEW plan,
           PutContractWithWorkItems(p, criteria, plan)
    PROVE  PortfolioIInv'
<1> DEFINE n == portfolio.revision + 1
<1>1. /\ planner[p] = "read" /\ planner' = [planner EXCEPT ![p] = "wrote"]
      /\ wrote' = [wrote EXCEPT ![p] = n]
      /\ planBefore' = planBefore /\ acknowledged' = acknowledged
  BY Zenon DEF PutContractWithWorkItems, Write
<1>2. /\ Sound(portfolio') /\ portfolio'.revision = n /\ portfolio'.log = portfolio.log \union {n}
  BY PutAdvances, Zenon DEF PortfolioIInv, Advances
<1>3. portfolio.revision \in Nat
  BY Zenon DEF PortfolioIInv, Sound
<1>4. PlannersTyped
  BY Zenon DEF PortfolioIInv
<1>5. PlannersTyped'
  BY <1>1, <1>4 DEF PlannersTyped
<1>6. DOMAIN planner = Planners /\ DOMAIN wrote = Planners
  BY <1>4, Zenon DEF PlannersTyped
<1>7. /\ planner'[p] = "wrote" /\ wrote'[p] = n
      /\ \A q \in Planners : q # p => planner'[q] = planner[q] /\ wrote'[q] = wrote[q]
  BY <1>1, <1>6, Zenon
<1>8. Holding' = Holding
  BY <1>1, <1>7, Zenon DEF Holding
<1>9. \A q : q \in Writers' => q = p \/ (q \in Writers /\ q # p /\ wrote'[q] = wrote[q])
  BY <1>7, Zenon DEF Writers
<1>10. WritesSurvive'
  BY <1>1, <1>2 DEF PortfolioIInv, WritesSurvive
<1>11. \A w \in acknowledged : w \in Nat /\ w <= portfolio.revision
  BY Zenon DEF PortfolioIInv, Acknowledged
<1>12. Acknowledged' /\ n \notin acknowledged
  BY <1>1, <1>2, <1>3, <1>11 DEF Acknowledged
<1>13. ASSUME NEW r \in Holding
       PROVE  /\ Sound(planBefore[r]) /\ planBefore[r].revision <= n
              /\ planBefore[r].revision < n /\ ~ n <= planBefore[r].revision
              /\ \A w \in acknowledged : w <= planBefore[r].revision => w \in planBefore[r].log
  <2>1. HoldsSnapshot(r)
    BY ByPlanner, Zenon DEF PortfolioIInv
  <2>2. planBefore[r].revision \in Nat /\ planBefore[r].revision <= portfolio.revision
    BY <2>1, Zenon DEF HoldsSnapshot, Sound
  <2>3. planBefore[r].revision <= n /\ planBefore[r].revision < n /\ ~ n <= planBefore[r].revision
    BY <2>2, <1>3
  <2> QED BY <2>1, <2>3, Zenon DEF HoldsSnapshot
<1>14. ASSUME NEW q \in Writers
       PROVE  PendingWrite(q) /\ wrote[q] <= n /\ wrote[q] # n
  <2>1. PendingWrite(q)
    BY ByPlanner, Zenon DEF PortfolioIInv
  <2>2. wrote[q] \in Nat /\ wrote[q] <= portfolio.revision
    BY <2>1, Zenon DEF PendingWrite
  <2> QED BY <2>1, <2>2, <1>3
<1>15. n \in Nat /\ n <= n /\ p \in Holding
  BY <1>1, <1>3 DEF Holding
<1> HIDE DEF n
<1>16. SnapshotsHold'
  BY <1>1, <1>2, <1>8, <1>13, Zenon DEF SnapshotsHold
<1>17. WritesPending'
  <2>1. ASSUME NEW q \in Writers'
        PROVE  /\ wrote'[q] \in Nat /\ wrote'[q] \in portfolio.log \union {n}
               /\ wrote'[q] \notin acknowledged
               /\ planBefore[q].revision < wrote'[q] /\ wrote'[q] <= n
               /\ \A r \in Holding :
                    wrote'[q] <= planBefore[r].revision => wrote'[q] \in planBefore[r].log
               /\ \A r \in Writers' : wrote'[r] = wrote'[q] => r = q
    <3>1. CASE q = p
      <4>1. wrote'[q] = n /\ planBefore[q].revision < n
        BY <3>1, <1>7, <1>13, <1>15, Zenon
      <4>2. \A r \in Writers' : wrote'[r] = n => r = p
        BY <1>9, <1>14, Zenon
      <4> QED BY <3>1, <4>1, <4>2, <1>12, <1>13, <1>15, Zenon
    <3>2. CASE q \in Writers /\ q # p /\ wrote'[q] = wrote[q]
      <4>1. PendingWrite(q) /\ wrote[q] <= n /\ wrote[q] # n
        BY <3>2, <1>14, Zenon
      <4>2. \A r \in Writers' : wrote'[r] = wrote[q] => r = q
        BY <4>1, <1>7, <1>9, Zenon DEF PendingWrite
      <4> QED BY <3>2, <4>1, <4>2, Zenon DEF PendingWrite
    <3> QED BY <3>1, <3>2, <1>9, Zenon
  <2> QED BY <2>1, <1>1, <1>2, <1>8, Zenon DEF WritesPending
<1> QED
  BY <1>2, <1>5, <1>10, <1>12, <1>16, <1>17, Zenon DEF PortfolioIInv

\* The empty portfolio.
LEMMA PortfolioInitially ==
    ASSUME PortfolioInit
    PROVE  PortfolioIInv
<1>1. /\ portfolio = Made(0, "none", {}, << >>, << >>, "none", << >>, {})
      /\ planner = [p \in Planners |-> "idle"] /\ acknowledged = {}
      /\ planBefore = [p \in Planners |-> NoSnapshot] /\ wrote = [p \in Planners |-> 0]
  BY Zenon DEF PortfolioInit, Portfolio, Made
<1>2. PlannersTyped
  BY <1>1 DEF PlannersTyped
<1>3. Holding = {} /\ Writers = {}
  BY <1>1 DEF Holding, Writers
<1>4. DOMAIN << >> = {} /\ Len(<< >>) = 0 /\ << >> \in Seq(StageRecords)
  OBVIOUS
<1>5. << >> = [i \in DOMAIN << >> |-> << >>[i]]
  OBVIOUS
<1>6. Claims(<< >>)
  BY <1>4, <1>5, Zenon DEF Claims
<1>7. ItemsSound(<< >>, verifiedCoverage(<< >>))
  BY <1>4, <1>5, Zenon DEF ItemsSound, Entries, Earned, NoneWaits
<1>8. StagesSound(<< >>, << >>)
  BY <1>4 DEF StagesSound
<1>9. Len(Gates) # 0
  BY RecipeAssumption
<1>10. Sound(portfolio)
  <2>1. "none" = "completed" => {} \subseteq verifiedCoverage(<< >>)
    OBVIOUS
  <2>2. "none" = "completed" <=> Len(<< >>) = Len(Gates)
    BY <1>4, <1>9
  <2>3. 0 \in Nat
    OBVIOUS
  <2>4. Sound(Made(0, "none", {}, << >>, << >>, "none", << >>, {}))
    BY <1>6, <1>7, <1>8, <2>1, <2>2, <2>3, MadeSound, Zenon
  <2> QED BY <2>4, <1>1, Zenon
<1>11. WritesSurvive /\ Acknowledged
  BY <1>1, Zenon DEF WritesSurvive, Acknowledged
<1>12. SnapshotsHold /\ WritesPending
  BY <1>3, Zenon DEF SnapshotsHold, WritesPending
<1> QED
  BY <1>2, <1>10, <1>11, <1>12, Zenon DEF PortfolioIInv

\* Every operation on the portfolio, and every step of a planner, keeps the
\* invariant.
LEMMA PortfolioKeeps ==
    ASSUME PortfolioIInv, [PortfolioNext]_portfolioVars
    PROVE  PortfolioIInv'
<1>0. Sound(portfolio)
  BY Zenon DEF PortfolioIInv
<1>1. CASE \E status \in {"draft", "active", "cancelled"}, criteria \in SUBSET Criteria :
             PutContract(status, criteria)
  BY <1>0, <1>1, PutContractStep, AcknowledgedKeeps, Zenon
<1>2. CASE \E plan \in Plans : SyncWorkItems(plan)
  BY <1>0, <1>2, SyncStep, AcknowledgedKeeps, Zenon
<1>3. CASE \E i \in ItemIds, status \in {"running", "blocked", "completed"} :
             UpdateWorkItem(i, status)
  BY <1>0, <1>3, UpdateStep, AcknowledgedKeeps, Zenon
<1>4. CASE \E a \in Artifacts, covers \in SUBSET Criteria : RecordArtifact(a, covers)
  BY <1>0, <1>4, RecordStep, AcknowledgedKeeps, Zenon
<1>5. CASE \E a \in Artifacts : VerifyArtifact(a)
  BY <1>0, <1>5, VerifyStep, AcknowledgedKeeps, Zenon
<1>6. CASE CompleteContract
  BY <1>0, <1>6, CompleteStep, AcknowledgedKeeps, Zenon
<1>7. CASE StartWorkflow
  BY <1>0, <1>7, StartStep, AcknowledgedKeeps, Zenon
<1>8. CASE \E stage \in 1..Len(Gates), evidence \in SUBSET Artifacts, confirmed \in BOOLEAN :
             AdvanceWorkflow(stage, evidence, confirmed)
  BY <1>0, <1>8, AdvanceStep, AcknowledgedKeeps, Zenon
<1>9. ASSUME NEW p \in Planners,
             \/ ReadPortfolio(p) \/ PlanRefused(p) \/ PlanProposed(p) \/ RestorePortfolio(p)
             \/ \E criteria \in SUBSET Criteria, plan \in Plans :
                  PutContractWithWorkItems(p, criteria, plan)
      PROVE  PortfolioIInv'
  BY <1>9, ReadKeeps, RefusedKeeps, ProposedKeeps, RestoreKeeps, PutKeeps, Zenon
<1>10. CASE UNCHANGED portfolioVars
  BY <1>10, Zenon DEF portfolioVars, PortfolioIInv, PlannersTyped, Sound, WritesSurvive,
     Acknowledged, SnapshotsHold, WritesPending, Holding, Writers
<1> QED
  BY <1>1, <1>2, <1>3, <1>4, <1>5, <1>6, <1>7, <1>8, <1>9, <1>10, Zenon DEF PortfolioNext

\* The inductive invariant says what PortfolioSafe says.
LEMMA PortfolioImplies ==
    ASSUME PortfolioIInv
    PROVE  PortfolioSafe
<1> DEFINE a == portfolio.artifacts  items == portfolio.items  s == portfolio.stages
           proved == UNION {a[b].covers : b \in {c \in DOMAIN a : a[c].verified}}
<1>1. proved = verifiedCoverage(a)
  BY Zenon DEF verifiedCoverage
<1>2. Sound(portfolio) /\ WritesSurvive
  BY Zenon DEF PortfolioIInv
<1> HIDE DEF proved
<1>3. portfolio.contract = "completed" => portfolio.criteria \subseteq proved
  BY <1>1, <1>2, Zenon DEF Sound
<1>4. \A i \in DOMAIN items :
        /\ items[i].status = "completed" => items[i].criteria \subseteq proved
        /\ items[i].status = "pending" => ~ dependenciesCompleted(items, i)
  BY <1>1, <1>2, Zenon DEF Sound, ItemsSound, Earned, NoneWaits
<1>5. \A n \in 1..Len(s) :
        /\ s[n].stage = n
        /\ Gates[n] => s[n].confirmed
        /\ n > 1 => \E b \in s[n].evidence : a[b].verified
  BY <1>2, Zenon DEF Sound, StagesSound, Passed
<1>6. portfolio.workflow = "completed" <=> Len(s) = Len(Gates)
  BY <1>2, Zenon DEF Sound
<1>7. EvidenceInv
  BY <1>3, <1>4, <1>5, <1>6, Zenon DEF EvidenceInv, proved
<1> QED
  BY <1>2, <1>7, Zenon DEF PortfolioSafe

\* Nothing in the portfolio is complete without verified evidence, nothing waits
\* for work that is done, and no compensation undoes an acknowledged write.
THEOREM PortfolioIsSafe == PortfolioSpec => []PortfolioSafe
<1>1. PortfolioInit => PortfolioIInv
  BY PortfolioInitially
<1>2. PortfolioIInv /\ [PortfolioNext]_portfolioVars => PortfolioIInv'
  BY PortfolioKeeps
<1>3. PortfolioIInv => PortfolioSafe
  BY PortfolioImplies
<1> QED
  BY <1>1, <1>2, <1>3, PTL DEF PortfolioSpec
=============================================================================
