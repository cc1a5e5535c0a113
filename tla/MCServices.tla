----------------------------- MODULE MCServices -----------------------------
(***************************************************************************)
(* Seven components that share no state, in one run: a behaviour is one of *)
(* the component that part names, the state of the others stays as it      *)
(* began.                                                                  *)
(***************************************************************************)
EXTENDS AgentRuns, KnowledgeGaps, OAuthBridge, Organizations, RateLimiter, Retrieval

CONSTANTS
    PageSize, MaxTime

VARIABLES
    part,
    kind, clock, source, commits, walk, synced, held, links, skipped, late

walks == <<kind, clock, source, commits, walk, synced, held, links, skipped, late>>

-----------------------------------------------------------------------------
(* The instances.                                                           *)

\* A file that changes twice, one that comes later, a second repository, a pull
\* request and an issue; four items in two projects, spaces, channels for the
\* others, and an incident whose postmortem is approved late.
ItemsOf(collection) ==
    {<<1, collection, 1>>, <<1, collection, 2>>, <<1, collection, 3>>, <<2, collection, 4>>}
Kinds == {"github", "jira", "confluence", "slack", "teams", "azure_devops", "runbooks"}
Items == [k \in Kinds |->
    CASE k = "github" -> {<<1, "files", 1>>, <<1, "files", 2>>, <<1, "files", 3>>, <<1, "pulls", 4>>,
                          <<1, "issues", 5>>, <<2, "files", 6>>}
      [] k = "jira" -> ItemsOf("issues")
      [] k = "runbooks" -> {<<1, "items", 1>>, <<1, "items", 2>>}
      [] OTHER -> ItemsOf("items")]
Start == [k \in Kinds |-> [i \in Items[k] |->
    CASE k = "runbooks" -> 2 - i[3]
      [] k = "github" -> IF i[3] \in {3, 6} THEN 0 ELSE IF i[3] > 3 THEN i[3] - 1 ELSE i[3]
      [] OTHER -> IF i[3] = 4 THEN 0 ELSE i[3]]]

\* A key with a burst of one token, one without a limit.
MCConnectorOf == [j \in Jobs |-> IF j = "free job" THEN "free" ELSE "slack"]
MCRate == [k \in Connectors \cup {Org} |-> CASE k = "slack" -> 2 [] k = "free" -> 0 [] OTHER -> 3]

\* Two versions of a page, a page of another organization, code with an empty
\* version, a message; paragraphs that fit, that do not, and blank ones.
Text(n) == [len |-> n, blank |-> FALSE]
Blank == [len |-> 0, blank |-> TRUE]
Delivered(key, org, acl, repo, type, text) ==
    [key |-> key, org |-> org, acl |-> acl, repo |-> repo, type |-> type, text |-> text]
MCIncoming ==
    {Delivered("page", "o1", Absent, "r", "document", << <<Text(3), Text(2)>> >>),
     Delivered("page", "o1", "p", "r", "document", << <<Text(4), Blank, Text(2)>> >>),
     Delivered("note", "o2", Absent, Absent, "document", << <<Text(3), Text(2)>> >>),
     Delivered("main", "o1", "p", "r", "code", << <<Text(1), Blank>>, <<Text(6)>> >>),
     Delivered("main", "o1", Absent, Absent, "code", << <<Blank>> >>),
     Delivered("chat", "o1", Absent, Absent, "chat", << <<Text(1), Blank>>, <<Text(3)>> >>)}

\* A project that ann, though an administrator, may not manage, and bob may.
MCMemberships == {[email |-> "ann", org |-> "s1", project |-> "P", manage |-> FALSE],
                  [email |-> "bob", org |-> "s1", project |-> "P", manage |-> TRUE]}

W == INSTANCE ConnectorWalks WITH
         now <- clock, rowSecurity <- enforced, excused <- late,
         Unreadable <- {<<1, "items", 2>>}, Attachments <- {<<1, "items", 1>>, <<1, "items", 2>>}

vars == <<part, agentVars, gapsVars, walks, retrievalVars, bridgeVars, limiterVars, tenancyVars>>

Init ==
    /\ part \in {"agents", "gaps", "oauth", "walks", "limiter", "retrieval", "tenancy"}
    /\ AgentsInit /\ GapsInit /\ BridgeInit /\ W!Init /\ LimiterInit /\ RetrievalInit /\ TenancyInit
    /\ part # "walks" => kind = "runbooks"
    /\ enforced => part = "tenancy" \/ (part = "walks" /\ kind = "runbooks")

Next ==
    /\ part' = part
    /\ \/ part = "agents" /\ AgentsNext /\ UNCHANGED <<gapsVars, walks, retrievalVars, bridgeVars, limiterVars, tenancyVars>>
       \/ part = "gaps" /\ GapsNext /\ UNCHANGED <<agentVars, walks, retrievalVars, bridgeVars, limiterVars, tenancyVars>>
       \/ part = "walks" /\ W!Next /\ UNCHANGED <<agentVars, gapsVars, retrievalVars, bridgeVars, limiterVars, tenancyVars>>
       \/ part = "retrieval" /\ RetrievalNext /\ UNCHANGED <<agentVars, gapsVars, walks, bridgeVars, limiterVars, tenancyVars>>
       \/ part = "oauth" /\ BridgeNext /\ UNCHANGED <<agentVars, gapsVars, walks, retrievalVars, limiterVars, tenancyVars>>
       \/ part = "limiter" /\ LimiterNext /\ UNCHANGED <<agentVars, gapsVars, walks, retrievalVars, bridgeVars, tenancyVars>>
       \/ part = "tenancy" /\ TenancyNext /\ UNCHANGED <<agentVars, gapsVars, walks, retrievalVars, bridgeVars, limiterVars>>

\* The fairness of AgentRuns and of ConnectorWalks, where theirs are the steps.
AgentSteps(r) ==
    part = "agents" /\ Work(r) /\ UNCHANGED <<part, gapsVars, walks, retrievalVars, bridgeVars, limiterVars, tenancyVars>>
WalkSteps ==
    part = "walks" /\ W!Walking /\ UNCHANGED <<part, agentVars, gapsVars, retrievalVars, bridgeVars, limiterVars, tenancyVars>>

Spec == Init /\ [][Next]_vars /\ WF_vars(WalkSteps) /\ \A r \in Runs : WF_vars(AgentSteps(r))

-----------------------------------------------------------------------------
(* The properties of the components that are instantiated; those of the    *)
(* others have their own names.                                            *)

SyncsMissOnlyWhatMoved == W!SyncsMissOnlyWhatMoved
EveryWalkEnds == W!EveryWalkEnds
=============================================================================
