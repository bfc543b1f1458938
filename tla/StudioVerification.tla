-------------------------- MODULE StudioVerification --------------------------
(***************************************************************************)
(* Verification of a project: the Tests panel of Software Studio           *)
(* (ui/web/src/routes/StudioRoutes.tsx), open in several tabs, over the    *)
(* daemon's manifests, runs and waivers (internal/project/verification.go).*)
(*                                                                         *)
(* Every button waits for busy, so a tab has one command on the way at     *)
(* most.  A command the client gives up on is "lost": nothing ends busy.   *)
(***************************************************************************)
EXTENDS Naturals

CONSTANTS
    Tabs, None,
    MaxRevision, MaxManifests  \* bounds

VARIABLES
    revision,   \* project.workspace_revision
    manifest,   \* the current manifest, [id, revision]; id 0 for none
    run,        \* the latest run, [manifest, revision, passed]; manifest 0 for none
    waived,     \* manifest of the newest waiver
    tab         \* per tab: project revision, manifest and run shown, command on the way

verificationVars == <<revision, manifest, run, waived, tab>>
daemon == <<revision, manifest, run, waived>>
NoManifest == [id |-> 0, revision |-> 0]
NoRun == [manifest |-> 0, revision |-> 0, passed |-> FALSE]

busy(t) == tab[t].command /= None
Send(t, kind, argument) ==
    /\ ~busy(t)
    /\ tab' = [tab EXCEPT ![t].command = [kind |-> kind, argument |-> argument, state |-> "sent"]]
    /\ UNCHANGED daemon
In(t, kind, state) ==
    tab[t].command /= None /\ tab[t].command.kind = kind /\ tab[t].command.state = state
Becomes(t, state) == tab' = [tab EXCEPT ![t].command.state = state]

VerificationInit ==
    /\ revision = 1 /\ manifest = NoManifest /\ run = NoRun /\ waived = 0
    /\ tab = [t \in Tabs |-> [project |-> 1, manifest |-> NoManifest, run |-> NoRun, command |-> None]]

\* The workspace changes, and a tab reads one of its queries again.
Edit ==
    /\ revision < MaxRevision /\ revision' = revision + 1
    /\ UNCHANGED <<manifest, run, waived, tab>>
Read(t) ==
    /\ tab' \in {[tab EXCEPT ![t].project = revision], [tab EXCEPT ![t].run = run],
              [tab EXCEPT ![t].manifest = manifest]}
    /\ UNCHANGED daemon

-----------------------------------------------------------------------------
(* The panel. *)

manifestStale(t) == tab[t].manifest.id /= 0 /\ tab[t].manifest.revision /= tab[t].project

deriveManifest(t) ==
    /\ tab[t].manifest.id = 0 \/ manifestStale(t)
    /\ Send(t, "derive", tab[t].project)
runFull(t) ==
    /\ tab[t].manifest.id /= 0 /\ ~manifestStale(t)
    /\ Send(t, "run", tab[t].manifest.id)
createWaiver(t) ==
    /\ tab[t].manifest.id /= 0 /\ Send(t, "waive", tab[t].manifest.id)

\* refreshVerification reads manifest, runs and waivers again, then busy ends.
refreshVerification(t) ==
    /\ busy(t) /\ tab[t].command.state = "answered"
    /\ tab' = [tab EXCEPT ![t] = [@ EXCEPT !.manifest = manifest, !.run = run, !.command = None]]
    /\ UNCHANGED daemon
Lost(t) ==
    /\ busy(t) /\ tab[t].command.state \in {"sent", "answered"}
    /\ Becomes(t, "lost") /\ UNCHANGED daemon

-----------------------------------------------------------------------------
(* The daemon. *)

Refuse(t) ==
    /\ \/ In(t, "derive", "sent") /\ tab[t].command.argument /= revision
       \/ In(t, "run", "sent") /\ (tab[t].command.argument /= manifest.id \/ manifest.revision /= revision)
       \/ In(t, "waive", "sent") /\ tab[t].command.argument /= manifest.id
       \/ In(t, "run", "running") /\ tab[t].command.argument /= manifest.id
       \/ In(t, "derive", "deriving")
    /\ Becomes(t, "answered") /\ UNCHANGED daemon

\* Derive compares the revision before it has the lock ...
DeriveBegins(t) ==
    /\ In(t, "derive", "sent") /\ tab[t].command.argument = revision
    /\ Becomes(t, "deriving") /\ UNCHANGED daemon

\* ... and replaces the manifest, by then perhaps a newer one, for that revision.
Derive(t) ==
    /\ In(t, "derive", "deriving") /\ manifest.id < MaxManifests
    /\ manifest' = [id |-> manifest.id + 1, revision |-> tab[t].command.argument]
    /\ Becomes(t, "answered") /\ UNCHANGED <<revision, run, waived>>

\* Run checks manifest and revision, then runs the gates without the lock ...
RunBegins(t) ==
    /\ In(t, "run", "sent") /\ tab[t].command.argument = manifest.id /\ manifest.revision = revision
    /\ Becomes(t, "running") /\ UNCHANGED daemon

RecordAnyRun(t) ==
    /\ In(t, "run", "running")
    /\ \E p \in BOOLEAN : run' = [manifest |-> tab[t].command.argument, revision |-> manifest.revision, passed |-> p]
    /\ Becomes(t, "answered") /\ UNCHANGED <<revision, manifest, waived>>
\* ... and records the run only while its manifest is still the current one.
RunEnds(t) ==
    /\ In(t, "run", "running") /\ tab[t].command.argument = manifest.id
    /\ \E p \in BOOLEAN : run' = [manifest |-> manifest.id, revision |-> manifest.revision, passed |-> p]
    /\ Becomes(t, "answered") /\ UNCHANGED <<revision, manifest, waived>>

PutWaiver(t) ==
    /\ In(t, "waive", "sent") /\ tab[t].command.argument = manifest.id
    /\ waived' = manifest.id /\ Becomes(t, "answered") /\ UNCHANGED <<revision, manifest, run>>

\* What the panel offers while no command of its own is out.
TestsPanel(t) == deriveManifest(t) \/ runFull(t) \/ createWaiver(t)

VerificationNext ==
    \/ Edit
    \/ \E t \in Tabs :
         \/ Read(t) \/ TestsPanel(t) \/ refreshVerification(t) \/ Lost(t)
         \/ Refuse(t) \/ DeriveBegins(t) \/ Derive(t) \/ RunBegins(t) \/ RunEnds(t) \/ PutWaiver(t)

VerificationSpec == VerificationInit /\ [][VerificationNext]_verificationVars

-----------------------------------------------------------------------------
\* However tabs, edits and gate runs interleave, evidence is never recorded for
\* a manifest that is no longer the current one: no run or waiver of an older
\* manifest follows a newer one, and a tab never shows a manifest or a run from
\* ahead of the daemon (Run's second check, PutWaiver, refreshVerification).
EvidenceIsCurrent ==
    /\ [][run' /= run => run'.manifest = manifest.id /\ run'.revision = manifest.revision]_verificationVars
    /\ [][run'.manifest >= run.manifest /\ waived' >= waived]_verificationVars
    /\ [](/\ run.manifest <= manifest.id /\ waived <= manifest.id /\ manifest.revision <= revision
          /\ \A t \in Tabs : /\ tab[t].project <= revision /\ tab[t].manifest.id <= manifest.id
                             /\ tab[t].run.manifest <= run.manifest)
=============================================================================
