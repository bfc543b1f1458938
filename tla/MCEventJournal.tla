--------------------------- MODULE MCEventJournal ---------------------------
(* The event journal for TLC: one operator's client and two approval requests, *)
(* each the operator's own or somebody else's, so that foreign events may use  *)
(* up sequence numbers between the client's; or what the client accepts of the *)
(* events about tools; or the pages it shows.  A behaviour is about one.       *)
EXTENDS EventJournal

CONSTANTS me, None
MCActor == [c \in Clients |-> me]

VARIABLES part, store, closed, ends, evicted,
          rows, running, page, known, requests, sent, minted, typed,
          path, at, run, cache, fetch, fetches, card, commands

eventVars == <<store, closed, ends, evicted>>
listVars == <<rows, running, page, known, requests, sent, minted, typed>>
pageVars == <<path, at, run, cache, fetch, fetches, card, commands>>

\* Three tool calls, one more than the order keeps, and pages of two events.
Computer == INSTANCE ComputerEvents
    WITH Tools <- {"t1", "t2", "t3"}, MaxOrder <- 2, MaxSources <- 2, MaxPage <- 2

\* Two conversations and two requests about them in flight.
List == INSTANCE Conversations WITH MaxSessions <- 2, MaxRequests <- 2, MaxTitle <- 1

\* Two conversations, two periods, and a run whose card is mounted twice.
Pages == INSTANCE Surfaces
    WITH Sessions <- {"s", "t"}, Periods <- {"24h", "7d"}, MaxTexts <- 1, MaxMounts <- 2,
         MaxFetches <- 3, view <- card

JournalInit ==
    /\ part \in {"journal", "computer", "list", "pages"}
    /\ Init /\ Computer!EventsInit /\ List!ConversationsInit /\ Pages!SurfacesInit
    \* one of the initial states of a part that does not move
    /\ part /= "journal" => \A i \in Items : owner[i] = me
    /\ part /= "pages" => path = "/work" /\ at.session = "s"

\* Only this part moves.
Moves(p) ==
    /\ part = p /\ UNCHANGED part
    /\ p /= "journal" => UNCHANGED vars
    /\ p /= "computer" => UNCHANGED eventVars
    /\ p /= "list" => UNCHANGED listVars
    /\ p /= "pages" => UNCHANGED pageVars

JournalNext ==
    \/ Moves("journal") /\ Next
    \/ Moves("computer") /\ Computer!EventsNext
    \/ Moves("list") /\ List!ConversationsNext
    \/ Moves("pages") /\ Pages!SurfacesNext

JournalSpec ==
    /\ JournalInit /\ [][JournalNext]_<<part, vars, eventVars, listVars, pageVars>>
    /\ \A c \in Clients : WF_vars(part = "journal" /\ StreamStep(c))

-----------------------------------------------------------------------------
\* From one snapshot to the next, a tool call ends once in the operator's view, as it
\* was first reported to end, and is not forgotten while it runs
\* (applyRecovery, applyComputerEvent, boundedComputerOrder).
CallsEndOnce == Computer!CallsEndOnce

\* No conversation is deleted or archived while a turn of it runs, and it is renamed
\* only as was typed for it (SessionsPage, DeleteSession); a page shows the
\* surface it asked for, and a run hears each instruction from the operator who
\* gave it (SubsystemPage, SupervisorRunView, Steer, Cancel).
PagesSafe == List!ConversationsSafe /\ Pages!SurfacesSafe
=============================================================================
