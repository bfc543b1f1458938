------------------------------ MODULE StudioPlan ------------------------------
(***************************************************************************)
(* The specification of a project under review: the Plan panel of the web  *)
(* Studio (ui/web/src/routes/StudioRoutes.tsx), the specifications on the  *)
(* Work page (SubsystemRoutes.tsx) and the project section of the terminal *)
(* (ui/tui/src/App.tsx), each deciding on and applying what its last read  *)
(* of the intent shows, while turns propose changes                        *)
(* (internal/studio/service.go).                                           *)
(*                                                                         *)
(* No client has a busy guard here, so a button may be pressed again       *)
(* before the first press was served.                                      *)
(***************************************************************************)
EXTENDS Naturals, Sequences, FiniteSets

CONSTANTS
    MaxProposals, MaxWorkspace, MaxRequests  \* bounds

VARIABLES
    proposals,  \* status and applied_at of every proposal, oldest first
    active,     \* active_proposal_id, 0 for none
    open,       \* a material assumption has no resolution
    workspace,  \* project.workspace_revision; the intent's baseline is 1
    shown,      \* per client, its copy of proposals, active and open
    decisions,  \* the web panel holds an answer for the assumption
    requests,   \* pressed, not yet served
    sent,       \* requests pressed so far
    decided     \* per proposal, the decisions the service recorded

planVars == <<proposals, active, open, workspace, shown, decisions, requests, sent, decided>>
intent == <<proposals, active, open, workspace, decided>>
Clients == {"web", "work", "terminal"}
Snapshot == [proposals |-> proposals, active |-> active, open |-> open]
None == 0
First(S) == IF S = {} THEN None ELSE CHOOSE i \in S : \A j \in S : i <= j

\* Compile left the first proposal, with one assumption to decide.
PlanInit ==
    /\ proposals = <<[status |-> "proposed", applied |-> FALSE]>> /\ active = 1 /\ open = TRUE
    /\ workspace = 1 /\ decisions = FALSE /\ requests = {} /\ sent = 0
    /\ shown = [c \in Clients |-> Snapshot] /\ decided = [i \in 1 .. MaxProposals |-> {}]

-----------------------------------------------------------------------------
(* The clients. *)

Read(c) ==
    /\ shown' = [shown EXCEPT ![c] = Snapshot] /\ shown' /= shown
    /\ UNCHANGED <<intent, decisions, requests, sent>>
setDecisions ==
    /\ shown["web"].open /\ ~decisions /\ decisions' = TRUE
    /\ UNCHANGED <<intent, shown, requests, sent>>

Press(c, op, proposal, accept, answers) ==
    /\ sent < MaxRequests /\ sent' = sent + 1
    /\ requests' = requests \union {[id |-> sent', client |-> c, op |-> op, proposal |-> proposal, accept |-> accept,
                                     decisions |-> answers]}
    /\ UNCHANGED <<intent, shown, decisions>>

\* The proposal the web panel shows: the active one, else the last.
Active == IF shown["web"].active /= None THEN shown["web"].active ELSE Len(shown["web"].proposals)
decide(accept) ==
    /\ shown["web"].proposals[Active].status = "proposed"
    /\ Press("web", "decide", Active, accept, decisions)
apply ==
    /\ shown["web"].proposals[Active].status = "accepted" /\ ~shown["web"].proposals[Active].applied
    /\ Press("web", "apply", Active, TRUE, FALSE)
PlanPanel == setDecisions \/ apply \/ \E accept \in BOOLEAN : decide(accept)

\* The Work page lists every proposal, each with the buttons its status allows,
\* and fields for the open assumptions that may or may not be filled in.
StudioIntentView ==
    \E i \in DOMAIN shown["work"].proposals :
      LET proposal == shown["work"].proposals[i] IN
      \/ /\ proposal.status = "proposed"
         /\ \E accept \in BOOLEAN, answers \in {FALSE, shown["work"].open} : Press("work", "decide", i, accept, answers)
      \/ /\ proposal.status = "accepted" /\ ~proposal.applied
         /\ Press("work", "apply", i, TRUE, FALSE)

pendingStudioProposal ==
    LET s == shown["terminal"].proposals IN First({i \in DOMAIN s : s[i].status = "proposed"})
acceptedStudioProposal ==
    LET s == shown["terminal"].proposals IN First({i \in DOMAIN s : s[i].status = "accepted" /\ ~s[i].applied})
decideStudio(accept) ==
    pendingStudioProposal /= None /\ Press("terminal", "decide", pendingStudioProposal, accept, FALSE)
applyStudio ==
    acceptedStudioProposal /= None /\ Press("terminal", "apply", acceptedStudioProposal, TRUE, FALSE)

-----------------------------------------------------------------------------
(* The service. *)

\* After the answer the terminal reads the intents again, the web pages only
\* when nothing was wrong; any answer may be lost.
Serve(r, ok) ==
    /\ requests' = requests \ {r} /\ UNCHANGED <<sent, decisions, workspace>>
    /\ \/ UNCHANGED shown
       \/ /\ ok \/ r.client = "terminal"
          /\ shown' = [shown EXCEPT ![r.client] = [proposals |-> proposals', active |-> active', open |-> open']]

Propose ==
    /\ Len(proposals) < MaxProposals
    /\ proposals' = Append([i \in DOMAIN proposals |->
                              IF i = active /\ proposals[i].status = "proposed"
                              THEN [proposals[i] EXCEPT !.status = "superseded"] ELSE proposals[i]],
                           [status |-> "proposed", applied |-> FALSE])
    /\ active' = Len(proposals')
    /\ UNCHANGED <<open, workspace, shown, decisions, requests, sent, decided>>

Edit ==
    /\ workspace < MaxWorkspace /\ workspace' = workspace + 1
    /\ UNCHANGED <<proposals, active, open, shown, decisions, requests, sent, decided>>

RecordDecision(r) ==
    LET verdict == IF r.accept THEN "accepted" ELSE "rejected" IN
    /\ proposals' = [proposals EXCEPT ![r.proposal].status = verdict]
    /\ active' = None /\ open' = (open /\ ~r.accept)
    /\ decided' = [decided EXCEPT ![r.proposal] = @ \union {verdict}]
    /\ Serve(r, TRUE)

\* A decision on whatever the proposal has become.
DecideAnyway(r) == r.op = "decide" /\ (r.accept /\ open => r.decisions) /\ RecordDecision(r)
\* DecideProposalWithDecisions: only a proposed one, and accepting needs every
\* material assumption resolved.
DecideProposal(r) ==
    /\ r.op = "decide" /\ proposals[r.proposal].status = "proposed"
    /\ r.accept /\ open => r.decisions
    /\ RecordDecision(r)

\* ApplyProposal: only an accepted one, and only on the workspace it was
\* compiled for; again is allowed.
ApplyProposal(r) ==
    /\ r.op = "apply" /\ proposals[r.proposal].status = "accepted" /\ workspace = 1
    /\ proposals' = [proposals EXCEPT ![r.proposal].applied = TRUE]
    /\ UNCHANGED <<active, open, decided>> /\ Serve(r, TRUE)

Refuse(r) == UNCHANGED <<proposals, active, open, decided>> /\ Serve(r, FALSE)

PlanNext ==
    \/ \E c \in Clients : Read(c)
    \/ PlanPanel \/ StudioIntentView \/ applyStudio \/ Propose \/ Edit
    \/ \E accept \in BOOLEAN : decideStudio(accept)
    \/ \E r \in requests : DecideProposal(r) \/ ApplyProposal(r) \/ Refuse(r)

PlanSpec == PlanInit /\ [][PlanNext]_planVars

-----------------------------------------------------------------------------
\* Three clients pressing twice on stale copies decide nothing they did not see and
\* nothing twice: a proposal has one decision at most and it stands; at most one
\* awaits one and it is the newest, the active one; only an accepted proposal,
\* with its assumptions resolved, is applied (decide, decideStudio, apply,
\* applyStudio, StudioIntentView; ProposeScopeChange, DecideProposalWithDecisions, ApplyProposal).
PlanInv ==
    /\ workspace \in 1 .. MaxWorkspace /\ active \in 0 .. Len(proposals)
    /\ \A i \in DOMAIN proposals :
         /\ Cardinality(decided[i]) <= 1
         /\ decided[i] /= {} => proposals[i].status \in decided[i]
         /\ proposals[i].status = "proposed" => i = Len(proposals) /\ active = i /\ decided[i] = {}
         /\ proposals[i].applied => proposals[i].status = "accepted" /\ ~open
    /\ \A c \in Clients : Len(shown[c].proposals) <= Len(proposals)
=============================================================================
