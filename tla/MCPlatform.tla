---------------------------- MODULE MCPlatform ------------------------------
(***************************************************************************)
(* The services around the engine and the gateway, and the parts of the    *)
(* admin service, for TLC.  They share no state in these models, so the    *)
(* product of their behaviours would say nothing more than the behaviours  *)
(* one by one: a behaviour picks one component and the others stand still. *)
(***************************************************************************)
EXTENDS Sessions, Accounts, OrgTree, LocalGroups, ScanJobs, GraphBuilds,
        League, Champions, Librarian, Memory, McpRegistry, McpTransport,
        Migrations, EventIngest, Alerts, ToolAgents, Startup, AgentRegistry,
        EventFeeds, ProviderKeys, WorkflowAuthoring, Achievements

VARIABLE slice   \* the component this behaviour is about

(* Constants that a configuration file cannot write down.                  *)

\* Dag versions: a chain, an unreachable node, an edge to an unknown node.
SampleDags ==
    {[nodes |-> {"n1", "n2", "n3"}, edges |-> {<<"n1", "n2">>, <<"n2", "n3">>}, entry |-> "n1"],
     [nodes |-> {"n1", "n2"}, edges |-> {<<"n2", "n1">>}, entry |-> "n1"],
     [nodes |-> {"n1"}, edges |-> {<<"n1", "n1">>, <<"n1", "ghost">>}, entry |-> "n1"]}
\* A request that is retried and fails.
SampleOutcomes == {[retries |-> 1, failed |-> TRUE]}
\* What statements of the agents name and the schema at head does not have.
HeadAbsent == {"teams", "policies.team_id", "cost_records.team_id", "audit_log.detail"}
\* The second provider has a deployment that its list leaves out.
SampleUnlisted == {<<2, 2>>}
\* Counters of a session that is interactive, agentic, autonomous.
SampleCounts == {[turns |-> "few", pace |-> "slow", tools |-> "rare"],
                 [turns |-> "several", pace |-> "quick", tools |-> "none"],
                 [turns |-> "many", pace |-> "rapid", tools |-> "constant"]}

Slices == {"sessions", "accounts", "tree", "groups", "scans", "builds",
           "league", "champions", "librarian", "drawers", "knowledge",
           "tunnels", "registry", "transport", "migrations", "events",
           "spikes", "alerts", "chats", "workers", "startup", "agents",
           "runFeed", "configFeed", "providers", "authoring", "badges"}

platformVars == <<slice, sessionVars, accountVars, orgVars, groupVars,
                  scanVars, graphVars, leagueVars, championVars,
                  libraryVars, memoryVars, mcpVars, transportVars,
                  migrationVars, eventVars, alertVars, agentVars,
                  startupVars, registryVars, feedVars, settingsVars,
                  authoringVars, achievementVars>>

\* Where a component may start in several ways, the others start it in one.
PlatformInit ==
    /\ slice \in Slices
    /\ SessionsInit
    /\ AccountsInit
    /\ OrgInit
    /\ GroupsInit
    /\ ScanInit
    /\ GraphInit
    /\ LeagueInit
    /\ ChampionsInit
    /\ LibrarianInit
    /\ MemoryInit
    /\ McpInit
    /\ TransportInit
    /\ MigrationsInit
    /\ EventIngestInit
    /\ AlertsInit
    /\ ToolAgentsInit
    /\ StartupInit
    /\ RegistryInit
    /\ FeedsInit
    /\ ProviderInit
    /\ AuthoringInit
    /\ AchievementsInit
    /\ slice # "sessions" =>
          request = [r \in Requests |-> NoRequest(CHOOSE s \in Tokens : TRUE)]
    /\ slice # "groups" =>
          \A p \in Emails : profile[p] = NoAccount
    /\ slice # "builds" =>
          builder = [w \in Builders |-> IdleBuilder(CHOOSE b \in Builds : TRUE)]
    /\ slice # "league" =>
          /\ \A s \in Submissions : submission[s].mode = "training"
          /\ \A o, q \in Orders : order[o].item = order[q].item
    /\ slice # "registry" =>
          \A u \in ServerUrls : offer[u] = {}
    /\ slice # "transport" =>
          service = CHOOSE s \in Services : TRUE
    /\ slice # "events" =>
          ~onBroker
    /\ slice \notin {"spikes", "alerts"} =>
          webhook
    /\ slice # "badges" =>
          \A t \in Talks : begun[t] = 0

PlatformNext ==
    /\ UNCHANGED slice
    /\ \/ slice = "sessions"   /\ SessionsNext
       \/ slice = "accounts"   /\ AccountsNext
       \/ slice = "tree"       /\ OrgNext
       \/ slice = "groups"     /\ GroupsNext
       \/ slice = "scans"      /\ ScanNext
       \/ slice = "builds"     /\ GraphNext
       \/ slice = "league"     /\ LeagueNext
       \/ slice = "champions"  /\ ChampionsNext
       \/ slice = "librarian"  /\ LibrarianNext
       \/ slice = "drawers"    /\ DrawerNext
       \/ slice = "knowledge"  /\ KnowledgeNext
       \/ slice = "tunnels"    /\ TunnelNext
       \/ slice = "registry"   /\ McpNext
       \/ slice = "transport"  /\ TransportNext
       \/ slice = "migrations" /\ MigrationsNext
       \/ slice = "events"     /\ EventIngestNext
       \/ slice = "spikes"     /\ SpikeNext
       \/ slice = "alerts"     /\ BudgetNext
       \/ slice = "chats"      /\ ChatAgentsNext
       \/ slice = "workers"    /\ WorkersNext
       \/ slice = "startup"    /\ StartupNext
       \/ slice = "agents"     /\ RegistryNext
       \/ slice = "runFeed"    /\ RunFeedNext
       \/ slice = "configFeed" /\ ConfigFeedNext
       \/ slice = "providers"  /\ ProviderNext
       \/ slice = "authoring"  /\ AuthoringNext
       \/ slice = "badges"     /\ AchievementsNext
    /\ slice # "sessions" => UNCHANGED sessionVars
    /\ slice # "accounts" => UNCHANGED accountVars
    /\ slice # "tree" => UNCHANGED orgVars
    /\ slice # "groups" => UNCHANGED groupVars
    /\ slice # "scans" => UNCHANGED scanVars
    /\ slice # "builds" => UNCHANGED graphVars
    /\ slice # "league" => UNCHANGED leagueVars
    /\ slice # "champions" => UNCHANGED championVars
    /\ slice # "librarian" => UNCHANGED libraryVars
    /\ slice \notin {"drawers", "knowledge", "tunnels"} => UNCHANGED memoryVars
    /\ slice # "registry" => UNCHANGED mcpVars
    /\ slice # "transport" => UNCHANGED transportVars
    /\ slice # "migrations" => UNCHANGED migrationVars
    /\ slice # "events" => UNCHANGED eventVars
    /\ slice \notin {"spikes", "alerts"} => UNCHANGED alertVars
    /\ slice \notin {"chats", "workers"} => UNCHANGED agentVars
    /\ slice # "startup" => UNCHANGED startupVars
    /\ slice # "agents" => UNCHANGED registryVars
    /\ slice \notin {"runFeed", "configFeed"} => UNCHANGED feedVars
    /\ slice # "providers" => UNCHANGED settingsVars
    /\ slice # "authoring" => UNCHANGED authoringVars
    /\ slice # "badges" => UNCHANGED achievementVars

PlatformSpec == PlatformInit /\ [][PlatformNext]_platformVars

\* The type invariants of the components.
TypeOK ==
    /\ slice = "sessions" => SessionsTypeOK
    /\ slice = "accounts" => AccountsTypeOK
    /\ slice = "tree" => OrgTypeOK
    /\ slice = "groups" => GroupsTypeOK
    /\ slice = "scans" => ScanTypeOK
    /\ slice = "builds" => GraphTypeOK
    /\ slice = "league" => LeagueTypeOK
    /\ slice = "champions" => ChampionsTypeOK
    /\ slice = "librarian" => LibrarianTypeOK
    /\ slice \in {"drawers", "knowledge", "tunnels"} => MemoryTypeOK
    /\ slice = "registry" => McpTypeOK
    /\ slice = "transport" => TransportTypeOK
    /\ slice = "migrations" => MigrationsTypeOK
    /\ slice = "events" => EventIngestTypeOK
    /\ slice \in {"spikes", "alerts"} => AlertsTypeOK
    /\ slice \in {"chats", "workers"} => ToolAgentsTypeOK
    /\ slice = "startup" => StartupTypeOK
    /\ slice = "agents" => RegistryTypeOK
    /\ slice \in {"runFeed", "configFeed"} => FeedsTypeOK
    /\ slice = "providers" => ProviderTypeOK
    /\ slice = "authoring" => AuthoringTypeOK
    /\ slice = "badges" => AchievementsTypeOK

---------------------------------------------------------------------------
(* Properties of the components as one.                                    *)

\* Admin: a replica serves only when every default guardrail is in place or was
\* removed by hand and there is a signing key (ServingMeansSeeded), and when no
\* save of provider keys is under way or has failed LiteLLM's deployments use
\* the stored keys (ServedKeyIsStored).
SettingsHold == ServingMeansSeeded /\ ServedKeyIsStored

\* Whatever release a database was installed with, upgrading it ends in the
\* schema that an empty database gets (migrations 0001 to 0036); asked where
\* migrations run, since each answer runs them all.
MigrationsConverge == slice = "migrations" => UpgradesConverge
=============================================================================
