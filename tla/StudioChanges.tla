---------------------------- MODULE StudioChanges ----------------------------
(***************************************************************************)
(* Source control in Software Studio: the Changes panel                    *)
(* (ui/web/src/routes/StudioRoutes.tsx, ChangesPanel) over the daemon's    *)
(* Git mutations (internal/project/git_mutation.go).                       *)
(*                                                                         *)
(* The panel shows three queries that are read again at different times,   *)
(* and nothing holds a button back while its command is on the way: every  *)
(* command carries what the panel showed when it was pressed, and commands *)
(* reach the daemon in any order, among the edits of agents and terminals. *)
(* A content is a number.  A mutation holds gitMu from its checks to its   *)
(* answer; the other writers do not take it, so they write between its     *)
(* steps.  Its journal outlives a failed save or the daemon.  A git        *)
(* command that fails has changed nothing; git run in a terminal is left   *)
(* out.                                                                    *)
(***************************************************************************)
EXTENDS Naturals, Sequences, FiniteSets, Functions

CONSTANTS
    Paths, None,
    MaxContent, MaxRevision, MaxRequests, MaxEffects, MaxEdits, MaxCrashes  \* bounds

VARIABLES
    revision, head,         \* of the workspace, of HEAD
    committed, index, tree, \* contents of the paths
    seen,                   \* project.workspace_revision, as last read
    git,                    \* git.data.head, None before it is read
    files,                  \* the reviewed files and their current_sha256
    hunkDiff,               \* the diff prepared for staging hunks, None before
    requests,               \* commands on the way
    mutation,               \* of the holder of gitMu, None when it is free
    journal,                \* gitMutationJournal, None when there is none
    effects,                \* of the git commands so far
    up, crashes,            \* the daemon
    edits                   \* of other writers so far

changesVars == <<revision, head, committed, index, tree, seen, git, files, hunkDiff,
                 requests, mutation, journal, effects, up, crashes, edits>>
workspace == <<revision, head, committed, index, tree>>
caches == <<seen, git, files>>
daemon == <<mutation, journal, effects, up, crashes>>

\* The bound on the effects of a behaviour: the panel is left alone after the last.
Room == Len(effects) < MaxEffects
Changed == {p \in Paths : tree[p] /= committed[p] \/ index[p] /= committed[p]}

ChangesInit ==
    /\ revision = 1 /\ head = 0 /\ seen = 1 /\ git = None /\ files = <<>>
    /\ committed = [p \in Paths |-> 0] /\ index = committed
    /\ tree = [p \in Paths |-> 1]     \* files already changed
    /\ hunkDiff = None /\ requests = <<>> /\ edits = 0
    /\ mutation = None /\ journal = None /\ effects = <<>> /\ up = TRUE /\ crashes = 0

\* Another writer: a patch of an agent takes a revision, an editor or a terminal
\* does not.
Edit(p, content, patch) ==
    /\ content /= tree[p] /\ tree' = [tree EXCEPT ![p] = content]
    /\ patch => up
    /\ revision' = IF patch THEN revision + 1 ELSE revision
    /\ revision' <= MaxRevision /\ edits < MaxEdits /\ edits' = edits + 1
    /\ mutation' = IF mutation = None THEN None
                   ELSE [mutation EXCEPT !.written = mutation.written \union {p}]
    /\ UNCHANGED <<head, committed, index, caches, hunkDiff, requests, journal,
                   effects, up, crashes>>

\* The queries of the panel: polled, or invalidated by refreshGit and by a new
\* workspace revision, one at a time.
Read(key) ==
    /\ seen' = IF key = "project" THEN revision ELSE seen
    /\ git' = IF key = "git" THEN head ELSE git
    /\ files' = IF key = "review" THEN [p \in Changed |-> tree[p]] ELSE files
    /\ up /\ Room /\ caches' /= caches
    /\ UNCHANGED <<workspace, hunkDiff, requests, daemon, edits>>

\* git diff of some paths, and a patch of it that keeps every hunk.
Diff(paths) == {<<p, index[p], tree[p]>> : p \in {q \in paths : index[q] /= tree[q]}}

\* Select hunks: the diff is asked for.  An empty one leaves nothing to stage.
prepareHunks(p) ==
    /\ up /\ Room /\ p \in DOMAIN files /\ hunkDiff' = Diff({p}) /\ hunkDiff' \notin {{}, hunkDiff}
    /\ UNCHANGED <<workspace, caches, requests, daemon, edits>>

-----------------------------------------------------------------------------
\* A command carries the revision, the head and the contents on the screen.
Press(kind, paths, diff) ==
    /\ up /\ Room /\ Len(requests) < MaxRequests
    /\ requests' = Append(requests,
         [kind |-> kind, workspace_revision |-> seen, expected_head |-> git,
          paths |-> [p \in paths |-> files[p]], diff |-> diff])
    /\ UNCHANGED <<workspace, caches, hunkDiff, daemon, edits>>

\* Stage exact reviewed file.
stageFile(p) == git /= None /\ p \in DOMAIN files /\ Press("stage", {p}, None)

\* Stage reviewed hunks: the diff that was prepared, for the selection of now.
stageHunks(paths) == git /= None /\ hunkDiff /= None /\ Press("stage.hunks", paths, hunkDiff)

\* Commit, or create a checkpoint of, the selected paths.
commit(paths) == git /= None /\ paths /= {} /\ Press("commit", paths, None)

\* A branch or a tag on the head, and a merge, carry no paths.
createRef == git /= None /\ Press("ref", {}, None)
merge == git /= None /\ Press("merge", {}, None)

-----------------------------------------------------------------------------
\* applyGitMutation without the hashes of its paths.
ExpectedHead(r) == r.workspace_revision = revision /\ r.expected_head = head
\* applyGitMutation and requireGitState: the revision, the head and the contents are
\* still those the operator saw.  Hunks need a path and a patch; a merge needs a
\* clean tree, and the others no journal left of an earlier mutation.
Expected(r) ==
    /\ r.workspace_revision = revision /\ r.expected_head = head
    /\ \A p \in DOMAIN r.paths : tree[p] = r.paths[p]
    /\ r.kind = "stage.hunks" => r.paths /= <<>> /\ r.diff /= {}
    /\ IF r.kind = "merge" THEN Changed = {} ELSE journal = None

Without(i) == SubSeq(requests, 1, i - 1) \o SubSeq(requests, i + 1, Len(requests))

\* A command that is refused before it holds gitMu or by its checks, and one whose
\* connection fails, change nothing but the notice.
Refuse(i) ==
    /\ i \in DOMAIN requests /\ requests' = Without(i)
    /\ UNCHANGED <<workspace, caches, hunkDiff, daemon, edits>>

Verify(i) ==
    /\ i \in DOMAIN requests /\ up /\ mutation = None /\ Expected(requests[i])
    /\ mutation' = [request |-> requests[i], step |-> "verified", written |-> {}]
    /\ requests' = Without(i)
    /\ UNCHANGED <<workspace, caches, hunkDiff, journal, effects, up, crashes, edits>>

At(step) == mutation /= None /\ mutation.step = step
\* The codes of git status, which say that contents differ and not which they are.
Status == [p \in Paths |-> <<index[p] /= committed[p], tree[p] /= index[p]>>]

\* The journal is saved before the git command; a merge has none.
Prepare ==
    /\ At("verified")
    /\ \/ /\ mutation' = [mutation EXCEPT !.step = "prepared"]
          /\ journal' = IF mutation.request.kind = "merge" THEN journal
                        ELSE [state |-> "prepared", ref |-> mutation.request.kind = "ref",
                              revision |-> mutation.request.workspace_revision, head |-> head,
                              status |-> Status]
       \/ mutation.request.kind /= "merge" /\ mutation' = None /\ UNCHANGED journal
    /\ UNCHANGED <<workspace, caches, hunkDiff, requests, effects, up, crashes, edits>>

\* The git command reads the tree as it is by now.  Hunks are applied to the index
\* after their diff was compared once more.
Apply(r) ==
    /\ r.kind = "stage.hunks" => Diff(DOMAIN r.paths) = r.diff
    /\ head' = IF r.kind = "commit" THEN head + 1 ELSE head
    /\ index' = [p \in Paths |-> IF p \in DOMAIN r.paths THEN tree[p] ELSE index[p]]
    /\ committed' = [p \in Paths |-> IF r.kind = "commit" /\ p \in DOMAIN r.paths
                                     THEN tree[p] ELSE committed[p]]
    /\ UNCHANGED tree

\* A merge brings other contents; git refuses to overwrite a file that is dirty.
MergeGitRevision(merged) ==
    /\ \A p \in Changed : merged[p] = committed[p]
    /\ head' = head + 1 /\ committed' = merged
    /\ index' = [p \in Paths |-> IF p \in Changed THEN index[p] ELSE merged[p]]
    /\ tree' = [p \in Paths |-> IF p \in Changed THEN tree[p] ELSE merged[p]]

\* What a git command did, for which screen, and whether another writer had written
\* one of its files since they were compared.
Effect(recorded) ==
    LET r == mutation.request IN
    [kind |-> r.kind, revision |-> r.workspace_revision, shown |-> r.expected_head, base |-> head,
     reviewed |-> IF r.kind = "stage.hunks" THEN \A change \in r.diff : tree[change[1]] = change[3]
                  ELSE \A p \in DOMAIN r.paths : tree[p] = r.paths[p],
     overwritten |-> mutation.written \intersect DOMAIN r.paths /= {} /\ r.kind /= "stage.hunks",
     recorded |-> recorded, life |-> crashes]

\* The command runs and the journal says so; when that save, or the read of the new
\* head, fails, the mutation has happened and its answer is an error.
Applied(recorded) ==
    /\ At("prepared") /\ Room
    /\ IF mutation.request.kind /= "merge" THEN Apply(mutation.request)
       ELSE \E merged \in [Paths -> 0 .. MaxContent] : MergeGitRevision(merged)
    /\ effects' = Append(effects, Effect(recorded))
    /\ mutation' = IF recorded THEN [mutation EXCEPT !.step = "applied"] ELSE None
    /\ journal' = IF recorded /\ mutation.request.kind /= "merge"
                  THEN [journal EXCEPT !.state = "applied"] ELSE journal
    /\ UNCHANGED <<revision, caches, hunkDiff, requests, up, crashes, edits>>

\* The command fails and the journal is deleted, unless that fails too.
NotApplied ==
    /\ At("prepared") /\ mutation' = None
    /\ \/ UNCHANGED journal
       \/ mutation.request.kind /= "merge" /\ journal' = None
    /\ UNCHANGED <<workspace, caches, hunkDiff, requests, effects, up, crashes, edits>>

\* A mutation that deletes its journal although the revision was not raised.
FinishAnyway ==
    /\ At("applied") /\ mutation' = None /\ journal' = None
    /\ revision' \in {revision, mutation.request.workspace_revision + 1} \ 1 .. revision - 1
    /\ UNCHANGED <<head, committed, index, tree, caches, hunkDiff, requests, effects, up, crashes, edits>>
\* bumpWorkspaceRevision, the last save and the deletion of the journal.  Another
\* writer's revision or a failure on the way is an error that leaves the journal;
\* the answer of a success, if it arrives, empties the form.
Finish ==
    LET r == mutation.request IN
    /\ At("applied") /\ mutation' = None
    /\ \/ UNCHANGED <<revision, journal, hunkDiff>>
       \/ /\ revision = r.workspace_revision /\ revision < MaxRevision /\ revision' = revision + 1
          /\ IF r.kind = "merge" THEN UNCHANGED journal
             ELSE journal' \in {journal, [journal EXCEPT !.state = "committed"], None}
          /\ \/ UNCHANGED hunkDiff
             \/ r.kind = "stage.hunks" /\ journal' = None /\ hunkDiff' = None
    /\ UNCHANGED <<head, committed, index, tree, caches, requests, effects, up, crashes, edits>>

-----------------------------------------------------------------------------
Crash ==
    /\ up /\ crashes < MaxCrashes /\ up' = FALSE /\ crashes' = crashes + 1
    /\ mutation' = None /\ requests' = <<>>
    /\ UNCHANGED <<workspace, caches, hunkDiff, journal, effects, edits>>

\* Whether the reference a journal intends exists.
Created == \E i \in DOMAIN effects : LET e == effects[i] IN
    e.kind = "ref" /\ e.revision = journal.revision /\ e.base = journal.head

\* reconcileGitMutations.  A journal that does not explain what is found is a
\* conflict: the daemon does not start.
reconcileGitMutations ==
    \/ journal = None /\ UNCHANGED revision
    \/ /\ journal /= None
       /\ \/ /\ journal.state = "prepared" /\ journal.ref /\ Created
             /\ revision' = IF revision = journal.revision THEN revision + 1 ELSE revision
          \/ /\ journal.state = "prepared" /\ ~(journal.ref /\ Created)
             /\ head = journal.head /\ Status = journal.status /\ UNCHANGED revision
          \/ /\ journal.state \in {"applied", "committed"}
             /\ revision \in {journal.revision, journal.revision + 1}
             /\ revision' = journal.revision + 1

Restart ==
    /\ ~up /\ reconcileGitMutations /\ revision' <= MaxRevision
    /\ journal' = None /\ up' = TRUE
    /\ UNCHANGED <<head, committed, index, tree, caches, hunkDiff, requests, mutation,
                   effects, crashes, edits>>

\* What the panel offers for the files and the repository it last read; the files
\* are ticked and unticked at will.
ChangesPanel ==
    \/ \E p \in Paths : prepareHunks(p) \/ stageFile(p)
    \/ \E selectedPaths \in SUBSET DOMAIN files : stageHunks(selectedPaths) \/ commit(selectedPaths)
    \/ createRef \/ merge

ChangesNext ==
    \/ \E p \in Paths, content \in 0 .. MaxContent, patch \in BOOLEAN : Edit(p, content, patch)
    \/ \E key \in {"project", "git", "review"} : Read(key)
    \/ ChangesPanel
    \/ \E i \in 1 .. MaxRequests : Verify(i) \/ Refuse(i)
    \/ Prepare \/ (\E recorded \in BOOLEAN : Applied(recorded)) \/ NotApplied \/ Finish
    \/ Crash \/ Restart

ChangesSpec == ChangesInit /\ [][ChangesNext]_changesVars

-----------------------------------------------------------------------------
ChangesTypeOK ==
    /\ revision \in 1 .. MaxRevision /\ seen \in 1 .. revision /\ git \in 0 .. head \union {None}
    /\ DOMAIN files \subseteq Paths /\ Len(requests) <= MaxRequests /\ Len(effects) <= MaxEffects

\* An effect is in the revision, or under way, or held against the next command by
\* its journal; a merge, which has none, has moved the head.
Accounted(e) ==
    \/ e.revision < revision \/ e.kind = "merge"
    \/ journal /= None \/ mutation /= None

\* However commands, polls, outside writes, failed saves and restarts interleave:
\* what is staged or committed is what the panel showed when the button was pressed,
\* on the head it showed, but for files another writer wrote after their contents
\* were compared, and hunks are those of the diff even then; of the commands pressed
\* on one revision and head only one has an effect in a life of the daemon, but for a
\* merge after one that failed half way; and an effect is never forgotten while the
\* daemon lives, nor across a restart once the journal says it was applied
\* (stageFile, stageHunks, commit, applyGitMutation, reconcileGitMutations).
ReviewedOnly ==
    /\ ChangesTypeOK
    /\ \A i \in DOMAIN effects : LET e == effects[i] IN
         /\ e.base = e.shown /\ (e.reviewed \/ e.overwritten)
         /\ e.recorded \/ e.life = crashes => Accounted(e)
         /\ \A j \in 1 .. i - 1 : LET d == effects[j] IN
              \/ d.life /= e.life \/ d.revision /= e.revision \/ d.shown /= e.shown
              \/ e.kind = "merge" /\ d.kind /= "merge"
=============================================================================
