----------------------------- MODULE Conversations -----------------------------
(***************************************************************************)
(* The conversations page (SessionsPage of                                  *)
(* ui/web/src/routes/CriticalRoutes.tsx) over the session store             *)
(* (internal/session/store.go). Every command is answered later than it is  *)
(* sent; what the page reads after the answer may be what it captured       *)
(* before, and the operator goes on in between.                             *)
(***************************************************************************)
EXTENDS Naturals, FiniteSets, TLC

CONSTANTS
    None,
    MaxSessions, MaxRequests, MaxTitle   \* bounds

VARIABLES
    rows,       \* the store: id -> archived, parent, title
    running,    \* sessions with a running or recovering turn
    page,       \* selected (operator.sessionID), editing, draft, confirm, pending
    known,      \* sessions whose turn the client has seen running
    requests, sent, minted,
    typed       \* titles the operator saved, with the session they were typed for

conversationVars == <<rows, running, page, known, requests, sent, minted, typed>>
Ids == DOMAIN rows
\* The two lists as last read may show any conversation there ever was, in either.
Listed == 1..minted

ConversationsInit ==
    /\ rows = [id \in {1} |-> [archived |-> FALSE, parent |-> None, title |-> 0]]
    /\ running = {} /\ known = {} /\ requests = {} /\ sent = 0 /\ minted = 1 /\ typed = {}
    /\ page = [selected |-> None, editing |-> None, draft |-> 0, confirm |-> None, pending |-> None]

-----------------------------------------------------------------------------
(* The page.                                                                *)

On == UNCHANGED <<rows, running, known, requests, sent, minted, typed>>
OpenConversation(id) == page' = [page EXCEPT !.selected = id] /\ On
startRename(id) ==
    /\ page' = [page EXCEPT !.editing = id, !.draft = IF id \in Ids THEN rows[id].title ELSE 0, !.confirm = None]
    /\ On
typeName(title) == page.editing /= None /\ page' = [page EXCEPT !.draft = title] /\ On
cancelRename == page.editing /= None /\ page' = [page EXCEPT !.editing = None] /\ On
askDelete(id) ==
    /\ page.editing /= id /\ page' = [page EXCEPT !.confirm = IF @ = id THEN None ELSE id] /\ On
TurnSeen == known /= running /\ known' = running
            /\ UNCHANGED <<rows, running, page, requests, sent, minted, typed>>

Send(op, id, title) ==
    /\ sent < MaxRequests /\ sent' = sent + 1
    /\ requests' = requests \union {[id |-> sent', op |-> op, session |-> id, title |-> title, at |-> page.selected,
                                     state |-> "sent", result |-> None]}
    /\ UNCHANGED <<rows, running, known, minted>>
create == Send("create", None, 0) /\ UNCHANGED <<page, typed>>
branch == page.selected /= None /\ Send("branch", page.selected, 0) /\ UNCHANGED <<page, typed>>
rename(id) ==
    /\ page.editing = id /\ page.pending /= id /\ page.draft > 0 /\ Send("rename", id, page.draft)
    /\ page' = [page EXCEPT !.pending = id] /\ typed' = typed \union {<<id, page.draft>>}
archive(id, op) ==
    /\ page.editing /= id /\ Send(op, id, 0)
    /\ page' = [page EXCEPT !.pending = id] /\ UNCHANGED typed
remove(id) ==
    /\ page.confirm = id /\ page.editing /= id /\ page.pending /= id /\ id \notin known
    /\ Send("delete", id, 0) /\ page' = [page EXCEPT !.pending = id] /\ UNCHANGED typed

-----------------------------------------------------------------------------
(* The store.                                                               *)

Answer(r, state, result) == requests' = (requests \ {r}) \union {[r EXCEPT !.state = state, !.result = result]}
Serve(r, op) == r.op = op /\ r.state = "sent" /\ UNCHANGED <<running, page, known, sent, typed>>
Mint(r, parent) ==
    /\ minted < MaxSessions /\ minted' = minted + 1 /\ Answer(r, "done", minted')
    /\ rows' = (minted' :> [archived |-> FALSE, parent |-> parent, title |-> 0]) @@ rows
CreateSession(r) == Serve(r, "create") /\ Mint(r, None)
branchSession(r) == Serve(r, "branch") /\ r.session \in Ids /\ Mint(r, r.session)
RenameSession(r) ==
    /\ Serve(r, "rename") /\ r.session \in Ids /\ rows' = [rows EXCEPT ![r.session].title = r.title]
    /\ Answer(r, "done", None) /\ UNCHANGED minted
ArchiveSession(r) ==
    /\ (Serve(r, "archive") /\ r.session \notin running) \/ Serve(r, "restore")
    /\ r.session \in Ids /\ rows' = [rows EXCEPT ![r.session].archived = r.op = "archive"]
    /\ Answer(r, "done", None) /\ UNCHANGED minted
\* The check the page made before it asked is taken for the store's own.
DeleteUnchecked(r) ==
    /\ Serve(r, "delete") /\ r.session \in Ids
    /\ rows' = [id \in Ids \ {r.session} |->
                  IF rows[id].parent = r.session THEN [rows[id] EXCEPT !.parent = None] ELSE rows[id]]
    /\ Answer(r, "done", None) /\ UNCHANGED minted
DeleteSession(r) ==
    /\ Serve(r, "delete") /\ r.session \in Ids /\ r.session \notin running
    /\ rows' = [id \in Ids \ {r.session} |->
                  IF rows[id].parent = r.session THEN [rows[id] EXCEPT !.parent = None] ELSE rows[id]]
    /\ Answer(r, "done", None) /\ UNCHANGED minted
Refuse(r) ==
    /\ r.state = "sent" /\ Answer(r, "refused", None)
    /\ UNCHANGED <<rows, running, page, known, sent, minted, typed>>
\* A turn needs its conversation only to exist: one in an archived conversation starts too.
startTurn(id) ==
    /\ id \in Ids \ running /\ running' = running \union {id}
    /\ UNCHANGED <<rows, page, known, requests, sent, minted, typed>>
setTurnStatus(id) ==
    /\ id \in running /\ running' = running \ {id}
    /\ UNCHANGED <<rows, page, known, requests, sent, minted, typed>>

-----------------------------------------------------------------------------
(* The rest of a handler, after its answer.                                 *)

Resumed(r, p) ==
    /\ r.state # "sent" /\ page' = p /\ requests' = requests \ {r}
    /\ UNCHANGED <<rows, running, known, sent, minted, typed>>
AfterCreate(r) ==
    /\ r.op \in {"create", "branch"}
    /\ Resumed(r, IF r.state = "done" THEN [page EXCEPT !.selected = r.result] ELSE page)
AfterRename(r) ==
    /\ r.op = "rename"
    /\ Resumed(r, IF r.state = "done" THEN [page EXCEPT !.pending = None, !.editing = None, !.draft = 0]
                  ELSE [page EXCEPT !.pending = None])
AfterArchive(r) ==
    /\ r.op \in {"archive", "restore"}
    /\ Resumed(r, [page EXCEPT !.pending = None,
                    !.selected = IF r.state = "done" /\ r.op = "archive" /\ r.at = r.session THEN None ELSE @])
AfterRemove(r) ==
    /\ r.op = "delete"
    /\ Resumed(r, [page EXCEPT !.pending = None,
                    !.selected = IF r.state = "done" /\ r.at = r.session THEN None ELSE @,
                    !.confirm = IF r.state = "done" THEN None ELSE @])

\* The head of the page, and the buttons of one row.
SessionsPage == create \/ branch
RowActions(id) ==
    startRename(id) \/ archive(id, "archive") \/ archive(id, "restore") \/ askDelete(id) \/ remove(id)

ConversationsNext ==
    \/ SessionsPage \/ cancelRename \/ TurnSeen
    \/ \E title \in 1..MaxTitle : typeName(title)
    \/ \E id \in Listed : \/ OpenConversation(id) \/ rename(id) \/ RowActions(id)
                           \/ startTurn(id) \/ setTurnStatus(id)
    \/ \E r \in requests : \/ CreateSession(r) \/ branchSession(r) \/ RenameSession(r) \/ ArchiveSession(r) \/ DeleteSession(r)
                           \/ Refuse(r) \/ AfterCreate(r) \/ AfterRename(r) \/ AfterArchive(r) \/ AfterRemove(r)

ConversationsSpec == ConversationsInit /\ [][ConversationsNext]_conversationVars

-----------------------------------------------------------------------------
\* However late an answer comes and whatever was pressed in between: no step deletes
\* or archives a conversation while a turn of it runs, though the page's own check was
\* made before it asked (a turn may start in an archived one); a branch outlives the
\* conversation it came from without pointing at it; and a saved name is one the
\* operator typed for that conversation
\* (SessionsPage, DeleteSession, ArchiveSession, RenameSession).
ConversationsSafe ==
    /\ [][\A id \in running : /\ id \in DOMAIN rows'
                              /\ rows'[id].archived => rows[id].archived]_conversationVars
    /\ [](\A id \in Ids : /\ rows[id].parent \in Ids \union {None}
                          /\ rows[id].title = 0 \/ <<id, rows[id].title>> \in typed)
=============================================================================
