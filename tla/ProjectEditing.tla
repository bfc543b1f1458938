--------------------------- MODULE ProjectEditing ---------------------------
(***************************************************************************)
(* Transactional patches of a workspace.  A patch is journalled            *)
(* ("prepared"), its members are written one by one, the journal becomes   *)
(* "applied", the workspace revision is raised, the journal becomes        *)
(* "committed", the receipt goes to the history and the journal away.  A   *)
(* restart undoes a prepared patch and finishes an applied one.  The       *)
(* mutex admits one patch at a time; people, tools and terminals change    *)
(* the files at any time, and tools, Git operations and the workspace      *)
(* lifecycle raise the revision.                                           *)
(*                                                                         *)
(* A digest stands for its content.  owned, mine and exposed are history   *)
(* variables: what each path would hold without the patch that is not      *)
(* committed, the paths that hold what this patch wrote, and the paths     *)
(* edited where no comparison of digests can notice it: between the        *)
(* comparison and the write, or to just what the patch would write.        *)
(***************************************************************************)
EXTENDS Integers

CONSTANTS
    Paths,
    Contents,       \* digests of files that exist
    Absent,         \* absentHash
    Patches,        \* the patch sets: the paths and what their members make of them
    MaxPatches, MaxEdits, MaxRevision   \* bounds

VARIABLES
    files,          \* the workspace
    revision,       \* project.WorkspaceRevision
    journal, id, baseline, touched, before, after, seen,  \* the journal; seen: receipt.Files
    history,        \* patchHistory: the receipts
    undo,           \* its last record, the only one that keeps its snapshots
    step, mode,     \* where apply or ReconcileAll is
    left, member, result,             \* their loops
    owned, mine, exposed,
    acked,          \* patches whose receipt was returned
    issued, edits

journalVars == <<journal, id, baseline, touched, before, after, seen>>
recordVars == <<history, undo, acked>>
loopVars == <<left, member, result>>
ghostVars == <<owned, mine, exposed>>
editingVars == <<files, revision, journalVars, recordVars, step, mode, loopVars, ghostVars,
                 issued, edits>>

Images == [Paths -> Contents \union {Absent}]
Nothing == [p \in Paths |-> Absent]
NoUndo == [patch |-> 0, paths |-> {}, before |-> Nothing, after |-> Nothing]

EditingInit ==
    /\ files \in Images /\ owned = files
    /\ revision = 1
    /\ journal = "none" /\ id = 0 /\ baseline = 0 /\ touched = {}
    /\ before = Nothing /\ after = Nothing /\ seen = Nothing
    /\ history = {} /\ undo = NoUndo /\ acked = {}
    /\ step = "idle" /\ mode = "apply"
    /\ left = {} /\ member = {} /\ result = "nil"
    /\ mine = {} /\ exposed = {}
    /\ issued = 0 /\ edits = 0

\* DeleteLivingState of the journal.
DeleteJournal ==
    /\ journal' = "none" /\ id' = 0 /\ baseline' = 0 /\ touched' = {}
    /\ before' = Nothing /\ after' = Nothing /\ seen' = Nothing

\* An error: apply returns it and the mutex is free, or the daemon does not start.
Fail ==
    /\ step' = IF mode = "apply" THEN "idle" ELSE "down"
    /\ left' = {} /\ member' = {} /\ result' = "nil"

ToRestore == step' = "restore" /\ left' = touched /\ member' = {} /\ result' = "nil"

-----------------------------------------------------------------------------
\* The snapshots, which are the preimages the patch expects, and the digests its
\* members will leave.
preflightPatch == files

predictPatchPostimages(paths, target) ==
    [p \in Paths |-> IF p \in paths THEN target[p] ELSE files[p]]

\* apply: a pending journal refuses the patch, a committed one is dropped; the
\* journal is saved.
Begin(paths, target) ==
    /\ step = "idle" /\ journal \in {"none", "committed"}
    /\ issued < MaxPatches /\ issued' = issued + 1
    /\ \/ /\ journal' = "prepared" /\ id' = issued + 1 /\ baseline' = revision
          /\ touched' = paths /\ before' = preflightPatch /\ seen' = Nothing
          /\ after' = predictPatchPostimages(paths, target)
          /\ step' = "member" /\ mode' = "apply" /\ left' = paths
          /\ UNCHANGED <<member, result>>
       \/ DeleteJournal /\ UNCHANGED <<step, mode, loopVars>>
    /\ UNCHANGED <<files, revision, recordVars, ghostVars, edits>>

\* validatePatchSet, and the caller's baseline is the revision.
Apply(patch) ==
    /\ patch.paths \in SUBSET Paths /\ patch.paths # {} /\ patch.target \in Images
    /\ Begin(patch.paths, patch.target)

\* Rollback: the last record's preimages as a patch, if the files are as its
\* receipt says.
Rollback ==
    LET paths == {p \in undo.paths : undo.after[p] # undo.before[p]} IN
    /\ undo.patch # 0 /\ paths # {}
    /\ \A p \in paths : files[p] = undo.after[p]
    /\ Begin(paths, undo.before)

\* A member changes one path, or renames one to another.
IsMember(paths) ==
    \/ \E p \in touched : paths = {p}
    \/ \E p, q \in touched : /\ p # q /\ paths = {p, q}
                             /\ after[p] = Absent /\ before[q] = Absent /\ after[q] = before[p]

\* applyPatchMembers, before a member: the request may be cancelled, and the
\* digest is compared again.
CheckMember(paths) ==
    /\ step = "member" /\ paths \subseteq left /\ IsMember(paths)
    /\ \A p \in paths : files[p] = before[p]
    /\ step' = "write" /\ member' = paths
    /\ UNCHANGED <<files, revision, journalVars, recordVars, mode, left, result, ghostVars,
                   issued, edits>>

RefuseMember ==
    /\ step = "member" /\ left # {}
    /\ ToRestore
    /\ UNCHANGED <<files, revision, journalVars, recordVars, mode, ghostVars, issued, edits>>

\* The write itself.  Over an edit made since the comparison, a write puts its
\* content and a replacement what it makes of the content it reads.
WriteMember(contents) ==
    /\ step = "write"
    /\ \A p \in member : files[p] = before[p] => contents[p] = after[p]
    /\ files' = [p \in Paths |-> IF p \in member THEN contents[p] ELSE files[p]]
    /\ mine' = mine \union {p \in member : files[p] = before[p]}
    /\ left' = left \ member /\ member' = {} /\ step' = "member"
    /\ UNCHANGED <<revision, journalVars, recordVars, mode, result, owned, exposed, issued, edits>>

WriteFails ==
    /\ step = "write" /\ ToRestore
    /\ UNCHANGED <<files, revision, journalVars, recordVars, mode, ghostVars, issued, edits>>

\* buildPatchReceipt: on an error the files are restored and the journal stays,
\* which the error stands for.
BuildReceipt ==
    /\ step = "member" /\ left = {}
    /\ seen' = files /\ step' = "applied"
    /\ UNCHANGED <<files, revision, journal, id, baseline, touched, before, after, recordVars, mode,
                   loopVars, ghostVars, issued, edits>>

NoReceipt ==
    /\ step = "member" /\ left = {}
    /\ step' = "restore" /\ left' = touched /\ member' = {} /\ result' = "error"
    /\ UNCHANGED <<files, revision, journalVars, recordVars, mode, ghostVars, issued, edits>>

\* The journal becomes "applied": from here a restart finishes the patch.
SaveApplied ==
    /\ step = "applied"
    /\ journal' = "applied" /\ step' = "bump"
    /\ owned' = [p \in Paths |-> IF p \in mine THEN files[p] ELSE owned[p]]
    /\ exposed' = exposed \ mine /\ mine' = {}
    /\ UNCHANGED <<files, revision, id, baseline, touched, before, after, seen, recordVars, mode,
                   loopVars, issued, edits>>

\* bumpWorkspaceRevision.  ReconcileAll takes the next revision for its own.
Bump ==
    /\ step = "bump"
    /\ \/ revision = baseline /\ revision' = revision + 1 /\ step' = "commit" /\ UNCHANGED loopVars
       \/ /\ mode = "start" /\ revision = baseline + 1
          /\ step' = "commit" /\ UNCHANGED <<revision, loopVars>>
       \/ /\ revision # baseline /\ (mode = "start" => revision # baseline + 1)
          /\ Fail /\ UNCHANGED revision
    /\ UNCHANGED <<files, journalVars, recordVars, mode, ghostVars, issued, edits>>

SaveCommitted ==
    /\ step = "commit" /\ journal' = "committed" /\ step' = "record"
    /\ UNCHANGED <<files, revision, id, baseline, touched, before, after, seen, recordVars, mode,
                   loopVars, ghostVars, issued, edits>>

\* record: the receipt replaces one of the same patch, and the earlier records
\* lose their snapshots.  The limit of 64 records is beyond MaxPatches.
Record ==
    /\ step = "record" /\ step' = "delete"
    /\ history' = {r \in history : r.patch # id} \union {[patch |-> id, revision |-> baseline + 1]}
    /\ undo' = [patch |-> id, paths |-> touched, before |-> before, after |-> seen]
    /\ UNCHANGED <<files, revision, journalVars, acked, mode, loopVars, ghostVars, issued, edits>>

Finish ==
    /\ step = "delete" /\ DeleteJournal
    /\ step' = "idle" /\ mode' = "apply"
    /\ acked' = IF mode = "apply" THEN acked \union {id} ELSE acked
    /\ UNCHANGED <<files, revision, history, undo, loopVars, ghostVars, issued, edits>>

\* A save or a deletion fails.
StoreFails ==
    /\ step \in {"applied", "bump", "commit", "record", "delete"} /\ Fail
    /\ UNCHANGED <<files, revision, journalVars, recordVars, mode, ghostVars, issued, edits>>

-----------------------------------------------------------------------------
\* Mutant: whatever differs from its snapshot is restored.
RestoresAnyway(p) ==
    /\ step = "restore" /\ p \in left
    /\ step' = "unwrite" /\ member' = {p}
    /\ UNCHANGED <<files, revision, journalVars, recordVars, mode, left, result, ghostVars, issued,
                   edits>>

\* restoreSnapshotsGuarded: a path that is as before is left alone, one that is
\* not what the patch wrote is a result, another gets its snapshot back.
CheckRestore(p) ==
    /\ step = "restore" /\ p \in left
    /\ IF files[p] # before[p] /\ files[p] = after[p]
       THEN step' = "unwrite" /\ member' = {p} /\ UNCHANGED <<left, result>>
       ELSE /\ left' = left \ {p} /\ result' = IF files[p] # before[p] THEN "error" ELSE result
            /\ UNCHANGED <<step, member>>
    /\ UNCHANGED <<files, revision, journalVars, recordVars, mode, ghostVars, issued, edits>>

Restore ==
    /\ step = "unwrite" /\ step' = "restore" /\ left' = left \ member /\ member' = {}
    /\ \/ /\ files' = [p \in Paths |-> IF p \in member THEN before[p] ELSE files[p]]
          /\ mine' = mine \ member /\ UNCHANGED result
       \/ result' = "error" /\ UNCHANGED <<files, mine>>
    /\ UNCHANGED <<revision, journalVars, recordVars, mode, owned, exposed, issued, edits>>

\* Restored: the journal is deleted, unless that fails or a path was in conflict.
Restored ==
    /\ step = "restore" /\ left = {} /\ result = "nil"
    /\ DeleteJournal /\ mine' = {}
    /\ step' = "idle" /\ mode' = "apply"
    /\ UNCHANGED <<files, revision, recordVars, loopVars, owned, exposed, issued, edits>>

NotRestored ==
    /\ step = "restore" /\ left = {} /\ Fail
    /\ UNCHANGED <<files, revision, journalVars, recordVars, mode, ghostVars, issued, edits>>

-----------------------------------------------------------------------------
\* ReconcileAll at the start of the daemon, after the interrupted Git mutations,
\* one of which may raise the revision.
ReconcileAll ==
    /\ step = "down" /\ mode' = "start"
    /\ revision' \in {revision, revision + 1} /\ revision' <= MaxRevision
    /\ step' = CASE journal = "prepared" -> "restore"
                 [] journal = "applied" -> "bump"
                 [] journal = "committed" -> "record"
                 [] OTHER -> "idle"
    /\ left' = (IF journal = "prepared" THEN touched ELSE {})
    /\ UNCHANGED <<files, journalVars, recordVars, member, result, ghostVars, issued, edits>>

CrashDaemon ==
    /\ step # "down" /\ step' = "down" /\ mode' = "start"
    /\ left' = {} /\ member' = {} /\ result' = "nil"
    /\ UNCHANGED <<files, revision, journalVars, recordVars, ghostVars, issued, edits>>

\* ObserveWorkspaceChange, a Git operation or a lifecycle operation.
ObserveWorkspaceChange ==
    /\ step # "down" /\ (mode = "apply" \/ step = "idle") /\ revision < MaxRevision
    /\ revision' = revision + 1
    /\ UNCHANGED <<files, journalVars, recordVars, step, mode, loopVars, ghostVars, issued, edits>>

\* A person, a tool or a terminal changes a file.
EditFile(p, content) ==
    /\ edits < MaxEdits /\ edits' = edits + 1
    /\ content # files[p]
    /\ files' = [files EXCEPT ![p] = content]
    /\ owned' = [owned EXCEPT ![p] = content]
    /\ mine' = mine \ {p}
    /\ exposed' =
           IF p \in member \/ (journal = "prepared" /\ p \in touched /\ content = after[p])
           THEN exposed \union {p} ELSE exposed \ {p}
    /\ UNCHANGED <<revision, journalVars, recordVars, step, mode, loopVars, issued>>

EditingNext ==
    \/ \E patch \in Patches : Apply(patch)
    \/ Rollback
    \/ \E paths \in SUBSET Paths : CheckMember(paths)
    \/ \E contents \in Images : WriteMember(contents)
    \/ RefuseMember \/ WriteFails \/ BuildReceipt \/ NoReceipt
    \/ SaveApplied \/ Bump \/ SaveCommitted \/ Record \/ Finish \/ StoreFails
    \/ \E p \in Paths : CheckRestore(p)
    \/ Restore \/ Restored \/ NotRestored
    \/ ReconcileAll \/ CrashDaemon \/ ObserveWorkspaceChange
    \/ \E p \in Paths, content \in Contents \union {Absent} : EditFile(p, content)

EditingSpec == EditingInit /\ [][EditingNext]_editingVars

-----------------------------------------------------------------------------
EditingTypeOK ==
    /\ files \in Images /\ owned \in Images
    /\ before \in Images /\ after \in Images
    /\ seen \in Images
    /\ journal \in {"none", "prepared", "applied", "committed"}
    /\ touched \subseteq Paths /\ left \subseteq touched /\ member \subseteq left
    /\ mine \subseteq Paths /\ exposed \subseteq Paths
    /\ revision \in Nat /\ id \in Nat /\ baseline \in Nat /\ issued \in Nat /\ edits \in Nat
    /\ undo \in [patch : Nat, paths : SUBSET Paths, before : Images, after : Images]
    /\ mode \in {"apply", "start"} /\ result \in {"nil", "error"}

\* Crashes, failed saves and undone patches leave no half-applied patch: when no
\* journal is pending, every path holds what the last committed patch or the
\* last edit put there, save where an edit could not be noticed (apply,
\* applyPatchMembers, restoreSnapshotsGuarded).
AllOrNothing ==
    journal \in {"none", "applied", "committed"} =>
        \A p \in Paths \ exposed : files[p] = owned[p]

\* A receipt the caller got is in the history, and no two patches have the
\* revision of their receipt in common (record, bumpWorkspaceRevision).
ReceiptsRecorded ==
    /\ \A patch \in acked : \E r \in history : r.patch = patch
    /\ \A r, s \in history : r.revision = s.revision => r = s
    /\ \A r \in history : r.revision <= revision

PatchInv == EditingTypeOK /\ AllOrNothing /\ ReceiptsRecorded

\* A restart can finish an applied patch: no other revision than its own has
\* been taken since (ReconcileAll).
RestartReconciles ==
    step = "down" /\ journal = "applied" => revision \in {baseline, baseline + 1}
=============================================================================
