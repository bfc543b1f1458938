----------------------------- MODULE OperatorFrame -----------------------------
(***************************************************************************)
(* Signing in and out (ui/web/src/app/AuthScreen.tsx and signOut of        *)
(* components/OperatorLayout.tsx against                                   *)
(* internal/operatorapp/deployment_auth.go) in tabs that share one cookie  *)
(* jar, and the layout around every page: sidebar, drawer, controls and    *)
(* command palette.                                                        *)
(***************************************************************************)
EXTENDS Naturals

CONSTANTS
    Tabs, None,
    MaxLogins, MaxRequests   \* bounds

VARIABLES
    cookie,    \* the session the browser holds
    valid,     \* sessions the server accepts
    tab,       \* per tab: document, asking (submitting or signingOut), failed
    requests,  \* in flight: tab, op, the cookie they carry, and the answer
    issued, sent,
    left,      \* the session a tab signed out of in this step
    frame      \* of the first tab: path, drawer, controls, collapsed, palette

frameVars == <<cookie, valid, tab, requests, issued, sent, left, frame>>
Layout == [path |-> "/chat", drawer |-> FALSE, controls |-> FALSE, collapsed |-> FALSE, palette |-> FALSE]

Served(c) == IF c \in valid THEN "app" ELSE "login"
\* A tab goes to the server with the cookie it now holds and starts a new document.
Loaded(t, c) ==
    /\ cookie' = c /\ frame' = (IF t = 1 THEN Layout ELSE frame)
    /\ tab' = [tab EXCEPT ![t] = [document |-> Served(c), asking |-> FALSE, failed |-> FALSE]]
FrameInit ==
    /\ cookie = None /\ valid = {} /\ requests = {} /\ issued = 0 /\ sent = 0 /\ left = None
    /\ tab = [t \in Tabs |-> [document |-> "login", asking |-> FALSE, failed |-> FALSE]] /\ frame = Layout

Ask(t, op) ==
    /\ sent < MaxRequests /\ sent' = sent + 1
    /\ requests' = requests \union {[id |-> sent', tab |-> t, op |-> op, cookie |-> cookie, answer |-> None, granted |-> None]}
    /\ left' = None /\ UNCHANGED <<cookie, valid, issued, frame>>
\* The sign-in form, and the sign-out button; each waits for its own answer.
submit(t) ==
    /\ tab[t].document = "login" /\ ~tab[t].asking /\ Ask(t, "login")
    /\ tab' = [tab EXCEPT ![t].asking = TRUE, ![t].failed = FALSE]
signOut(t) ==
    /\ tab[t].document = "app" /\ ~tab[t].asking /\ Ask(t, "logout")
    /\ tab' = [tab EXCEPT ![t].asking = TRUE, ![t].failed = FALSE]
\* A reload abandons what the tab was waiting for; AuthScreen does one on arrival
\* when the server says the browser is signed in.
Reload(t) ==
    /\ Loaded(t, cookie) /\ requests' = {r \in requests : r.tab /= t} /\ left' = None
    /\ UNCHANGED <<valid, issued, sent>>
checkStatus(t) ==
    /\ tab[t].document = "login" /\ cookie \in valid /\ Reload(t)

Answered(r, answer, granted) ==
    requests' = (requests \ {r}) \union {[r EXCEPT !.answer = answer, !.granted = granted]}
serveLogin(r) ==
    /\ r.op = "login" /\ r.answer = None
    /\ \/ /\ issued < MaxLogins /\ issued' = issued + 1 /\ valid' = valid \union {issued'}
          /\ Answered(r, "granted", issued')
       \/ Answered(r, "refused", None) /\ UNCHANGED <<valid, issued>>
    /\ left' = None /\ UNCHANGED <<cookie, tab, sent, frame>>
serveLogout(r) ==
    /\ r.op = "logout" /\ r.answer = None
    /\ \/ r.cookie \notin valid /\ Answered(r, "unauthorized", None) /\ UNCHANGED valid
       \/ r.cookie \in valid /\ Answered(r, "done", None) /\ valid' = valid \ {r.cookie}
       \/ r.cookie \in valid /\ Answered(r, "refused", None) /\ UNCHANGED valid
    /\ left' = None /\ UNCHANGED <<cookie, tab, issued, sent, frame>>

Stays(t) == tab' = [tab EXCEPT ![t].asking = FALSE, ![t].failed = TRUE]
\* An answer arrives, or the request is lost: submit's and signOut's try, catch
\* and finally.
SignedIn(r) ==
    /\ r.op = "login" /\ r.answer /= None /\ left' = None
    /\ IF r.answer = "refused" THEN Stays(r.tab) /\ UNCHANGED <<cookie, frame>> ELSE Loaded(r.tab, r.granted)
    /\ requests' = requests \ {r} /\ UNCHANGED <<valid, issued, sent>>
\* Any answer counts as having signed out.
LeaveAnyway(r) ==
    /\ r.op = "logout" /\ r.answer /= None
    /\ Loaded(r.tab, IF r.answer = "done" THEN None ELSE cookie) /\ left' = r.cookie
    /\ requests' = requests \ {r} /\ UNCHANGED <<valid, issued, sent>>
SignedOut(r) ==
    /\ r.op = "logout" /\ r.answer /= None
    /\ IF r.answer = "refused" THEN Stays(r.tab) /\ left' = None /\ UNCHANGED <<cookie, frame>>
       ELSE Loaded(r.tab, IF r.answer = "done" THEN None ELSE cookie) /\ left' = r.cookie
    /\ requests' = requests \ {r} /\ UNCHANGED <<valid, issued, sent>>
Lost(r) ==
    /\ requests' = requests \ {r} /\ Stays(r.tab) /\ left' = None
    /\ UNCHANGED <<cookie, valid, issued, sent, frame>>
Expire ==
    /\ valid /= {} /\ \E s \in valid : valid' = valid \ {s}
    /\ left' = None /\ UNCHANGED <<cookie, tab, requests, issued, sent, frame>>

\* The layout of the first tab; a new path closes the drawer and shows the
\* control section when the page is one of its own.
Shown(f) ==
    /\ tab[1].document = "app" /\ frame' = f /\ left' = None
    /\ UNCHANGED <<cookie, valid, tab, requests, issued, sent>>
At(f, path) ==
    IF path = f.path THEN f
    ELSE [f EXCEPT !.path = path, !.drawer = FALSE, !.controls = @ \/ path = "/overview"]
navigate(path) == (path = "/overview" => frame.controls) /\ Shown(At(frame, path))
runCommand(path) == frame.palette /\ Shown([At(frame, path) EXCEPT !.palette = FALSE])
togglePalette == Shown([frame EXCEPT !.palette = ~@])
openSearch == Shown([frame EXCEPT !.palette = TRUE])
setMobileOpen(open) == Shown([frame EXCEPT !.drawer = open])
collapse == Shown([frame EXCEPT !.collapsed = ~@])
controlToggle ==
    Shown(IF frame.collapsed THEN [frame EXCEPT !.collapsed = FALSE, !.controls = TRUE]
          ELSE [frame EXCEPT !.controls = ~@])

\* The navigation, with its groups, and the drawer it becomes on a small screen.
Paths == {"/chat", "/sessions", "/overview"}
Sidebar ==
    \/ openSearch \/ collapse \/ controlToggle
    \/ \E open \in BOOLEAN : setMobileOpen(open)
    \/ \E path \in Paths : navigate(path)

FrameNext ==
    \/ Expire \/ togglePalette \/ Sidebar
    \/ \E path \in Paths : runCommand(path)
    \/ \E t \in Tabs : submit(t) \/ signOut(t) \/ checkStatus(t) \/ Reload(t)
    \/ \E r \in requests : serveLogin(r) \/ serveLogout(r) \/ SignedIn(r) \/ SignedOut(r) \/ Lost(r)

FrameSpec == FrameInit /\ [][FrameNext]_frameVars

-----------------------------------------------------------------------------
\* A tab that leaves through sign-out leaves a session the server no longer accepts,
\* whatever other tabs do meanwhile; a button says it is busy exactly while its own
\* request is out, so that neither form can be stuck; and no page is entered with the
\* navigation drawer still over it (signOut, submit, the effect of OperatorLayout).
FrameSteps ==
    /\ [](left /= None => left \notin valid)
    /\ [](\A t \in Tabs : tab[t].asking <=> \E r \in requests : r.tab = t)
    /\ [][frame'.path /= frame.path => ~frame'.drawer]_frameVars
=============================================================================
