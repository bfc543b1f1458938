---------------------------- MODULE WorkPortfolio ----------------------------
(***************************************************************************)
(* The durable portfolio of one actor: an outcome contract with completion *)
(* criteria, the work items planned for it, the artifacts offered as       *)
(* evidence and a workflow run.  Every operation loads the whole document, *)
(* changes it and saves it under the service mutex, so each is one step.   *)
(* studio_plan_propose is not one step: it reads the portfolio, writes the *)
(* plan, calls the Studio service, and undoes its write if that fails.     *)
(***************************************************************************)
EXTENDS Naturals, Sequences, FiniteSets

CONSTANTS
    Criteria,       \* criterion identifiers
    PlanItems,      \* work item identifiers a plan may use
    Plans,          \* the plans proposed: functions from items to [criteria, deps]
    Artifacts,
    Gates,          \* Gates[i]: stage i of the recipe needs a human confirmation
    Planners,       \* calls of studio_plan_propose in flight
    MaxWrites,      \* bound: writes of the document
    MaxSnapshot     \* bound: the last revision a planner starts from

\* StartWorkflow refuses a recipe without stages.
ASSUME RecipeAssumption == Gates \in Seq(BOOLEAN) /\ Gates # <<>>

VARIABLES
    portfolio,      \* the saved document
    planBefore,     \* planBefore[p]: the snapshot planner p has read
    planner,        \* planner[p]: where the call is
    wrote,          \* wrote[p]: the write it made
    acknowledged    \* the writes whose callers were told they succeeded

portfolioVars == <<portfolio, planBefore, planner, wrote, acknowledged>>

Terminal == {"completed", "cancelled"}
NoSnapshot == [revision |-> 0]

\* A criterion that no item covers has a work item of its own.
CriterionItem(c) == <<"criterion", c>>
PlanItem(i) == <<"planned", i>>
ItemIds == {PlanItem(i) : i \in PlanItems} \union {CriterionItem(c) : c \in Criteria}

\* `log' is the set of writes this content was made by; a snapshot carries the
\* writes it was read with.
Portfolio == [revision |-> 0, contract |-> "none", criteria |-> {}, items |-> << >>,
              artifacts |-> << >>, workflow |-> "none", stages |-> <<>>, log |-> {}]

PortfolioInit ==
    /\ portfolio = Portfolio
    /\ planBefore = [p \in Planners |-> NoSnapshot]
    /\ planner = [p \in Planners |-> "idle"]
    /\ wrote = [p \in Planners |-> 0]
    /\ acknowledged = {}

-----------------------------------------------------------------------------
\* Mutant: a recorded claim counts before it is verified.
ClaimsCount(artifacts) == UNION {artifacts[a].covers : a \in DOMAIN artifacts}

\* The criteria that the verified artifacts cover.
verifiedCoverage(artifacts) ==
    UNION {artifacts[a].covers : a \in {b \in DOMAIN artifacts : artifacts[b].verified}}

\* A dependency that is not among the items is not completed.
dependenciesCompleted(items, i) ==
    \A d \in items[i].deps : d \in DOMAIN items /\ items[d].status = "completed"

refreshReady(items) ==
    [i \in DOMAIN items |->
        IF items[i].status = "pending" /\ dependenciesCompleted(items, i)
        THEN [items[i] EXCEPT !.status = "ready"] ELSE items[i]]

\* Items whose criteria are all covered complete, whatever they depend on.
reconcileVerifiedWorkItems(items, artifacts) ==
    LET covered == verifiedCoverage(artifacts)
        settled == [i \in DOMAIN items |->
            IF items[i].criteria \subseteq covered
            THEN [items[i] EXCEPT !.status = "completed"] ELSE items[i]]
    IN refreshReady(settled)

\* Items that name a criterion the contract no longer has are dropped.  (The code
\* counts the criteria such an item names before the unknown one as covered; here
\* any subset of its known ones may be.)
ensureCriterionWorkItems(items, criteria, counted) ==
    LET kept == {i \in DOMAIN items : items[i].criteria \subseteq criteria}
        covered == counted \union UNION {items[i].criteria : i \in kept}
        added == {CriterionItem(c) : c \in criteria \ covered}
    IN [i \in kept \union added |->
          IF i \in added THEN [criteria |-> {i[2]}, deps |-> {}, status |-> "ready"]
          ELSE items[i]]

Countable(items, criteria) ==
    SUBSET UNION {items[i].criteria \intersect criteria :
                    i \in {j \in DOMAIN items : ~ items[j].criteria \subseteq criteria}}

\* The planned items replace the others; one with the same criteria and
\* dependencies keeps its progress.
syncWorkItems(items, plan) ==
    refreshReady([i \in DOMAIN plan |->
        [criteria |-> plan[i].criteria, deps |-> plan[i].deps,
         status |-> IF /\ i \in DOMAIN items
                       /\ items[i].criteria = plan[i].criteria
                       /\ items[i].deps = plan[i].deps
                    THEN items[i].status ELSE "pending"]])

\* The checks of syncWorkItems on its input.
ValidPlan(plan, criteria) ==
    \A i \in DOMAIN plan : /\ plan[i].criteria # {} /\ plan[i].criteria \subseteq criteria
                           /\ plan[i].deps \subseteq DOMAIN plan \ {i}

\* A save takes the next revision, counted from the content that is saved.
savePortfolio(content) == portfolio' = [content EXCEPT !.revision = @ + 1]

\* The name of a write: it is the only one made on this content.
Write(content) == content.revision + 1

\* A mutation whose caller learns that it succeeded.
Acknowledge(content) ==
    /\ portfolio.revision < MaxWrites
    /\ portfolio' = [content EXCEPT !.revision = @ + 1, !.log = @ \union {Write(content)}]
    /\ acknowledged' = acknowledged \union {Write(content)}

-----------------------------------------------------------------------------
\* What putContract makes of the portfolio.
Replaced(status, criteria, counted) ==
    [portfolio EXCEPT !.contract = status, !.criteria = criteria,
                      !.items = ensureCriterionWorkItems(@, criteria, counted)]

PutContract(status, criteria) ==
    /\ criteria # {} /\ status \in {"draft", "active", "blocked", "cancelled"}
    /\ portfolio.contract \notin Terminal
    /\ \E counted \in Countable(portfolio.items, criteria) :
         Acknowledge(Replaced(status, criteria, counted))
    /\ UNCHANGED <<planBefore, planner, wrote>>

SyncWorkItems(plan) ==
    /\ portfolio.contract \notin Terminal \union {"none"}
    /\ ValidPlan(plan, portfolio.criteria)
    /\ Acknowledge([portfolio EXCEPT !.items = syncWorkItems(@, plan)])
    /\ UNCHANGED <<planBefore, planner, wrote>>

Updated(items, i, status) == [items EXCEPT ![i].status = status]

\* UpdateWorkItem: a completed item is returned as it is; running needs its
\* dependencies, completed its evidence.  The contract is not looked at.
\* (Verifying is a status like blocked.)
UpdateWorkItem(i, status) ==
    /\ i \in DOMAIN portfolio.items
    /\ portfolio.items[i].status # "completed"
    /\ status = "running" => dependenciesCompleted(portfolio.items, i)
    /\ status = "completed" =>
         portfolio.items[i].criteria \subseteq verifiedCoverage(portfolio.artifacts)
    /\ Acknowledge([portfolio EXCEPT !.items = refreshReady(Updated(@, i, status))])
    /\ UNCHANGED <<planBefore, planner, wrote>>

RecordArtifact(a, covers) ==
    /\ portfolio.contract \notin Terminal \union {"none"}
    /\ covers # {} /\ covers \subseteq portfolio.criteria
    /\ a \notin DOMAIN portfolio.artifacts
    /\ Acknowledge([portfolio EXCEPT !.artifacts =
         [b \in DOMAIN @ \union {a} |->
            IF b = a THEN [covers |-> covers, verified |-> FALSE] ELSE @[b]]])
    /\ UNCHANGED <<planBefore, planner, wrote>>

\* The file is read and hashed under the mutex; it may be missing or too large,
\* and then nothing changes.
VerifyArtifact(a) ==
    LET artifacts == [portfolio.artifacts EXCEPT ![a].verified = TRUE] IN
    /\ a \in DOMAIN portfolio.artifacts
    /\ Acknowledge([portfolio EXCEPT !.artifacts = artifacts,
                                !.items = reconcileVerifiedWorkItems(@, artifacts)])
    /\ UNCHANGED <<planBefore, planner, wrote>>

\* CompleteContract asks for evidence and for nothing else: a draft or cancelled
\* contract with evidence completes too.
CompleteContract ==
    /\ portfolio.contract \notin {"none", "completed"}
    /\ portfolio.criteria \subseteq verifiedCoverage(portfolio.artifacts)
    /\ Acknowledge([portfolio EXCEPT !.contract = "completed",
                 !.items = reconcileVerifiedWorkItems(@, portfolio.artifacts)])
    /\ UNCHANGED <<planBefore, planner, wrote>>

-----------------------------------------------------------------------------
\* One run of one recipe; an active one is returned again.
StartWorkflow ==
    /\ portfolio.contract \in {"active", "blocked"}
    /\ portfolio.workflow = "none"
    /\ Acknowledge([portfolio EXCEPT !.workflow = "active"])
    /\ UNCHANGED <<planBefore, planner, wrote>>

\* AdvanceWorkflow: the stage named must be the current one.  The first stage
\* needs no artifact.
AdvanceWorkflow(stage, evidence, confirmed) ==
    /\ portfolio.workflow = "active"
    /\ stage = Len(portfolio.stages) + 1
    /\ Gates[stage] => confirmed
    /\ stage > 1 => evidence # {}
    /\ \A a \in evidence : a \in DOMAIN portfolio.artifacts /\ portfolio.artifacts[a].verified
    /\ Acknowledge([portfolio EXCEPT
         !.stages = Append(@, [stage |-> stage, evidence |-> evidence, confirmed |-> confirmed]),
         !.workflow = IF stage = Len(Gates) THEN "completed" ELSE @])
    /\ UNCHANGED <<planBefore, planner, wrote>>

-----------------------------------------------------------------------------
\* studio_plan_propose: Get, then PutContractWithWorkItems, then the Studio
\* service, whose failure is compensated.
ReadPortfolio(p) ==
    /\ planner[p] = "idle"
    /\ portfolio.revision <= MaxSnapshot
    /\ planBefore' = [planBefore EXCEPT ![p] = portfolio]
    /\ planner' = [planner EXCEPT ![p] = "read"]
    /\ UNCHANGED <<portfolio, wrote, acknowledged>>

\* One write for the contract and its items, or none.
PutContractWithWorkItems(p, criteria, plan) ==
    /\ planner[p] = "read"
    /\ portfolio.revision < MaxWrites
    /\ portfolio.contract \notin Terminal
    /\ ValidPlan(plan, criteria)
    /\ LET written == Replaced("active", criteria, {})
       IN portfolio' = [written EXCEPT !.revision = @ + 1, !.log = @ \union {Write(portfolio)},
                                       !.items = syncWorkItems(@, plan)]
    /\ planner' = [planner EXCEPT ![p] = "wrote"]
    /\ wrote' = [wrote EXCEPT ![p] = Write(portfolio)]
    /\ UNCHANGED <<planBefore, acknowledged>>

\* The call ends.
Ended(p) ==
    /\ planner' = [planner EXCEPT ![p] = "done"]
    /\ planBefore' = [planBefore EXCEPT ![p] = NoSnapshot]
    /\ wrote' = [wrote EXCEPT ![p] = 0]

\* Refused: the contract is terminal or the plan is invalid.
PlanRefused(p) ==
    /\ planner[p] = "read"
    /\ Ended(p)
    /\ UNCHANGED <<portfolio, acknowledged>>

\* Compile or ProposeScopeChange succeeds.
PlanProposed(p) ==
    /\ planner[p] = "wrote"
    /\ acknowledged' = acknowledged \union {wrote[p]}
    /\ Ended(p)
    /\ UNCHANGED portfolio

\* Mutant: the snapshot goes back whatever was saved since.
NoRevisionCheck(expected) == TRUE

\* It fails, and the snapshot goes back only if nothing was saved since.
Unchanged(expected) == portfolio.revision = expected

RestorePortfolio(p) ==
    /\ planner[p] = "wrote"
    /\ IF Unchanged(planBefore[p].revision + 1) THEN savePortfolio(planBefore[p])
       ELSE UNCHANGED portfolio
    /\ Ended(p)
    /\ UNCHANGED acknowledged

-----------------------------------------------------------------------------
PortfolioNext ==
    \/ \E status \in {"draft", "active", "cancelled"}, criteria \in SUBSET Criteria :
         PutContract(status, criteria)
    \/ \E plan \in Plans : SyncWorkItems(plan)
    \/ \E i \in ItemIds, status \in {"running", "blocked", "completed"} :
         UpdateWorkItem(i, status)
    \/ \E a \in Artifacts, covers \in SUBSET Criteria : RecordArtifact(a, covers)
    \/ \E a \in Artifacts : VerifyArtifact(a)
    \/ CompleteContract \/ StartWorkflow
    \/ \E stage \in 1..Len(Gates), evidence \in SUBSET Artifacts, confirmed \in BOOLEAN :
         AdvanceWorkflow(stage, evidence, confirmed)
    \/ \E p \in Planners :
         \/ ReadPortfolio(p) \/ PlanRefused(p) \/ PlanProposed(p) \/ RestorePortfolio(p)
         \/ \E criteria \in SUBSET Criteria, plan \in Plans :
              PutContractWithWorkItems(p, criteria, plan)

PortfolioSpec == PortfolioInit /\ [][PortfolioNext]_portfolioVars

-----------------------------------------------------------------------------
\* Nothing is complete without evidence, through every replacement of the
\* contract, every new plan and every compensation: a completed contract has each
\* of its criteria covered by artifacts the server has hashed, so has a completed
\* item, and the stages of a workflow were passed in order, each but the first
\* with verified evidence and each gate with a confirmation.  No item is left
\* waiting once its dependencies are completed.
EvidenceInv ==
    LET proved == UNION {portfolio.artifacts[a].covers :
                    a \in {b \in DOMAIN portfolio.artifacts : portfolio.artifacts[b].verified}}
    IN
    /\ portfolio.contract = "completed" => portfolio.criteria \subseteq proved
    /\ \A i \in DOMAIN portfolio.items :
         /\ portfolio.items[i].status = "completed" => portfolio.items[i].criteria \subseteq proved
         /\ portfolio.items[i].status = "pending" => ~ dependenciesCompleted(portfolio.items, i)
    /\ \A s \in 1..Len(portfolio.stages) :
         /\ portfolio.stages[s].stage = s
         /\ Gates[s] => portfolio.stages[s].confirmed
         /\ s > 1 => \E a \in portfolio.stages[s].evidence : portfolio.artifacts[a].verified
    /\ portfolio.workflow = "completed" <=> Len(portfolio.stages) = Len(Gates)

\* A write whose caller was told it succeeded is never undone by the
\* compensation of another caller's failed write.
WritesSurvive == acknowledged \subseteq portfolio.log

\* Nothing in the portfolio is complete without evidence the server has hashed,
\* nothing waits for work that is done, and a compensated plan takes no acknowledged
\* write of another caller with it (putContract, syncWorkItems, UpdateWorkItem,
\* VerifyArtifact, CompleteContract, AdvanceWorkflow, RestorePortfolio).
PortfolioSafe == EvidenceInv /\ WritesSurvive
=============================================================================
