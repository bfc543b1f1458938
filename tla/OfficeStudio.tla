---------------------------- MODULE OfficeStudio ----------------------------
(* The office studio page (ui/web/src/routes/OfficeStudio.tsx; its embedded
   editor is in OfficeEditor) and the document service behind it
   (internal/office/service.go, callback.go, store.go). The page awaits its
   requests without asking, when an answer arrives, whether the document is
   still the open one; the editing engine delivers a save as a callback that it
   repeats until it is acknowledged.

   docs      per document its immutable versions, the newest being current;
             a version has the document its content came from and its origin:
             <<session, save>>, <<0, 0>> when created, <<0, 1>> when restored
   sessions  the editor_sessions rows; `url` counts the saves the engine
             offered, `saved` holds the versions recorded as committed saves
   saving    the callback that holds versionMu, between its version and its rows
   page      what the page holds: open document, editor session, the document
             whose history is listed. The library list is left out: a row of a
             stale list may be pressed too, so any document may be
   calls     requests of the page that are not applied yet *)
EXTENDS Naturals, Sequences, FiniteSets

CONSTANTS
    None,
    MaxDocs, MaxVersions, MaxSessions,   \* bounds: documents, versions of each, sessions
    MaxSaves,                            \* bound: saves of a session
    MaxCalls                             \* bound: requests of the page in flight

VARIABLES docs, sessions, saving, page, calls

officeVars == <<docs, sessions, saving, page, calls>>

OfficeInit ==
    /\ docs = <<[versions |-> <<[of |-> 1, by |-> <<0, 0>>]>>, deleted |-> FALSE]>>
    /\ sessions = <<>> /\ saving = {} /\ calls = {}
    /\ page = [activeDocument |-> None, session |-> None, history |-> None]

(***************************** the page **********************************)

Call(op, d, arg) ==
    /\ Cardinality(calls) < MaxCalls
    /\ calls' = calls \union {[op |-> op, doc |-> d, arg |-> arg, answer |-> None]}

Library == page.activeDocument = None

openDocument(d) ==
    /\ \/ Library
       \/ d = page.activeDocument /\ page.session = None
    /\ Call("open", d, None)
    /\ page' = [page EXCEPT !.activeDocument = d, !.session = None, !.history = None]
    /\ UNCHANGED <<docs, sessions, saving>>

Request(op, d, arg) == Call(op, d, arg) /\ UNCHANGED <<docs, sessions, saving, page>>

createDocument == Library /\ Request("create", None, "open")

uploadDocument == Library /\ Request("create", None, "import")

deleteDocument(d) == Library /\ Request("delete", d, None)

(* Every listed version but the one the page believes current has a button; the
   document named is the open one, the version one of the history shown. *)
restoreVersion(i) ==
    /\ ~Library /\ page.history # None
    /\ i \in 1..Len(docs[page.history].versions)
    /\ Request("restore", page.activeDocument, <<page.history, i>>)

BackToLibrary ==
    /\ ~Library
    /\ page' = [page EXCEPT !.activeDocument = None, !.session = None]
    /\ UNCHANGED <<docs, sessions, saving, calls>>

(* What an answer does to the page, without a look at what is open by now. A
   document that was created opens itself. *)
Opened(c) ==
    /\ c.op = "open"
    /\ page' = [page EXCEPT !.session = c.answer, !.history = c.doc]
    /\ calls' = calls \ {c}

Created(c) ==
    /\ c.op = "create"
    /\ page' = [page EXCEPT !.activeDocument = IF c.arg = "open" THEN c.answer ELSE @,
                            !.session = IF c.arg = "open" THEN None ELSE @,
                            !.history = IF c.arg = "open" THEN None ELSE @]
    /\ calls' = (calls \ {c}) \union
                 {x \in {[op |-> "open", doc |-> c.answer, arg |-> None, answer |-> None]} : c.arg = "open"}

Deleted(c) == c.op = "delete" /\ calls' = calls \ {c} /\ UNCHANGED page

Restored(c) ==
    /\ c.op = "restore"
    /\ page' = [page EXCEPT !.activeDocument = c.doc, !.history = c.doc, !.session = None]
    /\ calls' = calls \ {c}

Applied(c) ==
    /\ c.answer # None
    /\ Opened(c) \/ Created(c) \/ Deleted(c) \/ Restored(c)
    /\ UNCHANGED <<docs, sessions, saving>>

(* Refused (not found, deleted, a limit reached, no engine), or the connection
   failed before or after the service acted: only a notice is left. *)
Failed(c) ==
    /\ calls' = calls \ {c}
    /\ UNCHANGED <<docs, sessions, saving, page>>

(**************************** the service ********************************)

Answers(c, answer) ==
    /\ c.answer = None
    /\ calls' = (calls \ {c}) \union {[c EXCEPT !.answer = answer]}
    /\ UNCHANGED <<page, saving>>

Live(d) == ~docs[d].deleted

Current(d) == Len(docs[d].versions)

CreateDocument(c) ==
    /\ c.op = "create" /\ Len(docs) < MaxDocs
    /\ \E d \in {Len(docs) + 1} :
         /\ docs' = Append(docs, [versions |-> <<[of |-> d, by |-> <<0, 0>>]>>, deleted |-> FALSE])
         /\ Answers(c, d)
    /\ UNCHANGED sessions

DeleteDocument(c) ==
    /\ c.op = "delete" /\ Live(c.doc)
    /\ docs' = [docs EXCEPT ![c.doc].deleted = TRUE]
    /\ Answers(c, c.doc) /\ UNCHANGED sessions

ActiveSessions(d) == {s \in DOMAIN sessions : sessions[s].doc = d /\ sessions[s].state = "active"}

(* The newest active session is used again when it is of the current version;
   otherwise it is closed and a new one opened. Lookup and insert are separate
   statements: a session that another request inserts in between is not seen. *)
CreateSession(c) ==
    /\ c.op = "open" /\ Live(c.doc)
    /\ \E held \in {ActiveSessions(c.doc), {}} :
         LET newest == CHOOSE s \in held : \A t \in held : t <= s IN
         IF held # {} /\ sessions[newest].version = Current(c.doc)
         THEN sessions' = sessions /\ Answers(c, newest)
         ELSE /\ Len(sessions) < MaxSessions
              /\ sessions' = Append([s \in DOMAIN sessions |->
                                       IF held # {} /\ s = newest THEN [sessions[s] EXCEPT !.state = "closed"]
                                       ELSE sessions[s]],
                                    [doc |-> c.doc, version |-> Current(c.doc), state |-> "active",
                                     url |-> 0, saved |-> {}])
              /\ Answers(c, Len(sessions) + 1)
    /\ UNCHANGED docs

CommitVersion(d, version) ==
    docs' = [docs EXCEPT ![d].versions = Append(@, version)]

RestoreAnyVersion(c) ==
    /\ saving = {}
    /\ c.op = "restore" /\ Live(c.doc) /\ Current(c.doc) < MaxVersions
    /\ CommitVersion(c.doc, [of |-> docs[c.arg[1]].versions[c.arg[2]].of, by |-> <<0, 1>>])
    /\ Answers(c, c.doc) /\ UNCHANGED sessions

(* GetVersion looks the version up under the document it is restored into;
   versionMu keeps it from standing between a save's version and its rows. *)
RestoreVersion(c) ==
    /\ saving = {}
    /\ c.op = "restore" /\ Live(c.doc) /\ Current(c.doc) < MaxVersions
    /\ c.arg[1] = c.doc
    /\ CommitVersion(c.doc, [of |-> docs[c.arg[1]].versions[c.arg[2]].of, by |-> <<0, 1>>])
    /\ Answers(c, c.doc) /\ UNCHANGED sessions

Edit(s) ==
    /\ sessions[s].url < MaxSaves
    /\ sessions' = [sessions EXCEPT ![s].url = @ + 1]
    /\ UNCHANGED <<docs, saving, page, calls>>

(* The versions whose save has a callback row that says committed. *)
GetCallbackByDigest(s, u) ==
    {i \in sessions[s].saved : docs[sessions[s].doc].versions[i].by = <<s, u>>}

(* A final save closes the session, any other moves an active one to its
   version; `recorded` is the version whose row is completed with it. *)
finalizeCallbackSession(s, final, version, recorded) ==
    sessions' = [sessions EXCEPT
                   ![s].state = IF final THEN "closed" ELSE @,
                   ![s].version = IF ~final /\ sessions[s].state = "active" THEN version ELSE @,
                   ![s].saved = @ \union recorded]

Commit(s, u, final) ==
    /\ sessions[s].state = "active"
    /\ Live(sessions[s].doc) /\ Current(sessions[s].doc) < MaxVersions
    /\ CommitVersion(sessions[s].doc, [of |-> sessions[s].doc, by |-> <<s, u>>])
    /\ saving' = saving \union {[session |-> s, version |-> Current(sessions[s].doc) + 1, final |-> final]}
    /\ UNCHANGED sessions

CallbackUnlocked(s, u, final) ==
    /\ \/ /\ \E i \in GetCallbackByDigest(s, u) : finalizeCallbackSession(s, final, i, {})
          /\ UNCHANGED <<docs, saving>>
       \/ GetCallbackByDigest(s, u) = {} /\ Commit(s, u, final)
    /\ UNCHANGED <<page, calls>>

(* Callbacks hold versionMu. A save that is recorded as committed is only
   finalized again, also by a closed session; any other is committed when the
   session is still active, and its own rows are written afterwards. *)
HandleCallback(s, u, final) ==
    /\ saving = {}
    /\ \/ /\ \E i \in GetCallbackByDigest(s, u) : finalizeCallbackSession(s, final, i, {})
          /\ UNCHANGED <<docs, saving>>
       \/ GetCallbackByDigest(s, u) = {} /\ Commit(s, u, final)
    /\ UNCHANGED <<page, calls>>

(* The callback's row and then the session's are written; the first failure is
   ignored and the second one returned. *)
CompleteCallback(v) ==
    /\ saving' = saving \ {v}
    /\ \E recorded \in {{v.version}, {}} :
         \/ finalizeCallbackSession(v.session, v.final, v.version, recorded)
         \/ sessions' = [sessions EXCEPT ![v.session].saved = @ \union recorded]
    /\ UNCHANGED <<docs, page, calls>>

(* The process ends; requests of the page that were with it fail (Failed). *)
Crash ==
    /\ saving # {} /\ saving' = {}
    /\ UNCHANGED <<docs, sessions, page, calls>>

(* Nothing changed, a save error, an expiry, or a restart that finds the engine
   no longer editing; the states closed, error and expired are one here. *)
EndSession(s) ==
    /\ sessions[s].state = "active"
    /\ sessions' = [sessions EXCEPT ![s].state = "closed"]
    /\ UNCHANGED <<docs, saving, page, calls>>

\* The page shows the library, or one document with its versions.
OfficeStudioPage ==
    \/ createDocument \/ uploadDocument
    \/ \E d \in DOMAIN docs : openDocument(d) \/ deleteDocument(d)
EditorShell == BackToLibrary \/ \E i \in 1..MaxVersions : restoreVersion(i)

OfficeNext ==
    \/ OfficeStudioPage \/ EditorShell
    \/ \E c \in calls :
         \/ Applied(c) \/ Failed(c) \/ CreateDocument(c) \/ DeleteDocument(c)
         \/ CreateSession(c) \/ RestoreVersion(c)
    \/ \E s \in DOMAIN sessions :
         \/ Edit(s) \/ \E u \in 1..sessions[s].url, final \in BOOLEAN : HandleCallback(s, u, final)
         \/ EndSession(s)
    \/ Crash \/ \E v \in saving : CompleteCallback(v)

OfficeSpec == OfficeInit /\ [][OfficeNext]_officeVars

OfficeTypeOK ==
    /\ page.activeDocument \in DOMAIN docs \union {None}
    /\ page.session \in DOMAIN sessions \union {None}
    /\ \A s \in DOMAIN sessions : sessions[s].state \in {"active", "closed"}

(* Answers that arrive late may put one document's editor and history under
   another's title, yet no document ever receives another's content: a restore
   names both and the service refuses a version of a different document
   (service.go RestoreVersion). However often a save's callback is repeated, and
   whatever is restored, reopened or closed meanwhile, it is committed again only
   when the row of the earlier commit was lost to a crash or a failed write
   (callback.go): no recorded version has a later one of the same save. *)
OfficeSafe ==
    /\ OfficeTypeOK
    /\ \A d \in DOMAIN docs :
         /\ \A i \in DOMAIN docs[d].versions : docs[d].versions[i].of = d
         /\ \A s \in DOMAIN sessions : \A i \in sessions[s].saved, j \in DOMAIN docs[d].versions :
              sessions[s].doc = d /\ docs[d].versions[i].by = docs[d].versions[j].by => j <= i
=============================================================================
