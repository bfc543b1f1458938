---------------------------- MODULE OfficeEditor ----------------------------
(* The component that embeds the document editor in the office studio
   (OnlyOfficeEditor in ui/web/src/routes/OfficeStudio.tsx). Its effect runs
   for each session the page shows. It loads the vendor's script once per page,
   awaits the removal of service workers and caches, and only then constructs
   an editor; the page may have moved on at any of these points.

   session   the editor session on the page, NoSession without one
   script    the script tag: absent, loading, ready or failed
   waiting   the mounted effect listens for the script's load and error events
   clearing  mounts that await the removal of caches
   live      sessions with a constructed editor *)
CONSTANTS Sessions, NoSession

VARIABLES session, script, waiting, clearing, live

editorVars == <<session, script, waiting, clearing, live>>

EditorInit ==
    session = NoSession /\ script = "absent" /\ waiting = FALSE /\ clearing = {} /\ live = {}

Mounts(s) == {[session |-> s, cancelled |-> FALSE]}

Cancelled == {[m EXCEPT !.cancelled = TRUE] : m \in clearing}

KeepMounts(s) ==
    /\ clearing' = clearing \union (IF s # NoSession /\ script = "ready" THEN Mounts(s) ELSE {})
    /\ live' = {}

(* Cleanup of the previous effect: its mount is cancelled and its editor
   destroyed. The next effect mounts at once if the script is there. *)
Remount(s) ==
    /\ clearing' = Cancelled \union (IF s # NoSession /\ script = "ready" THEN Mounts(s) ELSE {})
    /\ live' = {}

OnlyOfficeEditor(s) ==
    /\ s # session
    /\ session' = s
    /\ Remount(s)
    /\ waiting' = (s # NoSession /\ script # "ready")
    /\ script' = IF s # NoSession /\ script = "absent" THEN "loading" ELSE script

loaded ==
    /\ script = "loading"
    /\ script' = "ready" /\ waiting' = FALSE
    /\ clearing' = IF waiting THEN clearing \union Mounts(session) ELSE clearing
    /\ UNCHANGED <<session, live>>

failed ==
    /\ script = "loading"
    /\ script' = "failed"
    /\ UNCHANGED <<session, waiting, clearing, live>>

(* clearOfficeServiceWorkers settled: it failed, or the mount goes on unless it
   was cancelled meanwhile. *)
mount(m) ==
    /\ clearing' = clearing \ {m}
    /\ \/ live' = live
       \/ ~m.cancelled /\ live' = live \union {m.session}
    /\ UNCHANGED <<session, script, waiting>>

EditorNext ==
    \/ \E s \in Sessions \union {NoSession} : OnlyOfficeEditor(s)
    \/ loaded \/ failed
    \/ \E m \in clearing : mount(m)

EditorSpec == EditorInit /\ [][EditorNext]_editorVars

(* The page never has two editors, nor one of a session it no longer shows: a
   mount that outlives its session is cancelled, also when the operator goes
   back and opens the same session again. The effect that waits for the script
   belongs to the session shown, and with the script there nothing waits. *)
OneEditor ==
    /\ live \subseteq {session} \ {NoSession}
    /\ \A m \in clearing : ~m.cancelled => m.session = session /\ live = {}
    /\ waiting => session # NoSession /\ script \in {"loading", "failed"}
=============================================================================
