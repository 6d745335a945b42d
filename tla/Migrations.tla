----------------------------- MODULE Migrations -----------------------------
(***************************************************************************)
(* The Alembic chain of the admin service: 36 revisions of the schema all  *)
(* services share.  A run of alembic is one transaction (env.py), so an    *)
(* upgrade or a downgrade happens whole or not at all.  Operators upgrade  *)
(* to the head a release ships and step back with "downgrade -1"; between  *)
(* runs the services write rows.                                           *)
(*                                                                         *)
(* The schema is a set of pairs.  <<t, "table">> says the table exists;    *)
(* the other pairs of t are the columns some revision adds, renames or     *)
(* drops and the values a CHECK, UNIQUE or NOT NULL some revision changes  *)
(* lets in.  Types, indexes and seed rows are left out, but for the index  *)
(* that a downgrade looks for.                                             *)
(***************************************************************************)
EXTENDS Integers, FiniteSets

CONSTANTS
    Releases   \* the revisions at which a release was cut

Latest == 36

ASSUME MigrationsAssumption == Releases \subseteq 1..Latest /\ Latest \in Releases

VARIABLES
    revision, \* alembic_version; 0 is an empty database
    schema,   \* the tables, columns and admitted values, as pairs
    present   \* the checked values that rows hold, as pairs

migrationVars == <<revision, schema, present>>

Tables(names) == names \X {"table"}
Of(table, parts) == {table} \X parts
Owned(s, names) == {x \in s : x[1] \in names}
Drop(s, names) == s \ Owned(s, names)
Rename(s, table, old, new) ==
    IF <<table, old>> \in s THEN (s \ {<<table, old>>}) \cup {<<table, new>>} ELSE s

---------------------------------------------------------------------------
(* What each revision creates.                                             *)

OrganisationTables == Tables({"areas", "teams", "projects", "developers", "api_keys",
    "team_members"}) \cup {<<"api_keys", "team_id">>,
                           <<"team_members", "team_id">>, <<"team_members", "user_id">>}
UsageTables == Tables({"policies", "area_policies", "cost_records",
    "developer_activity_log", "developer_output_events", "sessions"}) \cup
    {<<"policies", "team_id">>, <<"policies", "unique">>, <<"cost_records", "team_id">>}
CatalogueTables == Tables({"audit_log", "model_pricing", "model_registry", "mcp_servers",
    "mcp_tools", "mcp_server_access", "plugins", "plugin_team_overrides"})
    \cup {<<"audit_log", "details">>}
ConsoleTables == Tables({"admin_users", "org_settings", "ai_insights", "guardrails",
    "guardrail_hits"})
Baseline == OrganisationTables \cup UsageTables \cup CatalogueTables \cup ConsoleTables

WorkflowTables == Tables({"agents", "workflows", "workflow_versions"})
RunTables == Tables({"workflow_runs", "run_nodes", "work_queue"})
ScopedKeys == Of("api_keys", {"scope", "expires_at"})
MemoryTables == Tables({"memory_drawers", "memory_kg_nodes", "memory_kg_edges",
                        "memory_diary", "memory_tunnels"})
AdminMustChange == Of("admin_users", {"must_change_password"})
DeveloperMustChange == Of("developers", {"must_change_password"})
AgenticTables == Tables({"developer_achievements", "developer_leaderboard_opt_in"})
                 \cup {<<"sessions", "session_type">>}
UserTables == Tables({"users", "user_roles"})
              \cup {<<"users", "primary_team_id">>, <<"team_members", "user_id">>}
OldRoles == {"platform_admin", "area_owner", "team_admin", "developer", "viewer",
             "service_account"}
InvitationTables == Tables({"user_invitations", "service_accounts"})
                    \cup Of("user_invitations", OldRoles)
UnitTables == Tables({"units"}) \cup {<<"teams", "unit_id">>}
UnitParents == Of("units", {"parent_unit_id"})
Entitlements == Tables({"access_grants"}) \cup {<<"api_keys", "scopes">>}
UnitLeads == Of("user_invitations", {"unit_lead"})
GroupMappings == Tables({"entra_group_role_mappings"})
LeagueTables == Tables({"league_seasons", "league_challenges", "league_submissions",
    "league_scores", "league_leaderboard", "league_points_ledger", "league_store_items",
    "league_purchases", "league_challenge_proposals"})
Locations == {<<"teams", "location">>, <<"areas", "location">>}
PasswordAge == Of("users", {"password_changed_at"})
ScimIds == Of("users", {"scim_external_id"})
Contractors == Of("users", {"is_contractor", "access_expires_at", "allowed_models"})
AccessRequests == Tables({"access_requests"}) \cup {<<"access_requests", "resource_id">>}
RoleExpiry == Of("user_roles", {"expires_at", "grant_reason"})
NodeBudgets == {"areas", "units"} \X {"monthly_budget_usd", "budget_alert_threshold"}
ScanTables == Tables({"scan_targets", "scan_jobs", "scan_findings"}) \cup
    {<<"scan_targets", "node_id">>, <<"scan_jobs", "node_id">>, <<"scan_jobs", "ix_node_id">>,
     <<"scan_targets", "no_node">>, <<"scan_jobs", "no_node">>,
     <<"organization_nodes", "scanner_quota">>}
ChampionTables == Tables({"champions", "champion_contributions", "champion_asks",
    "champion_bookings", "champion_upvotes", "champion_flags"})
ChampionReasons == Of("league_points_ledger", {"champion_reason"})
ToolConfig == Tables({"tool_config"})
Requesterless == Of("scan_jobs", {"no_requester"})
SkillTables == Tables({"skills", "prompt_templates"})
CacheSnapshots == Tables({"cache_snapshots"})
LocalGroups == Tables({"local_groups", "local_group_members"})
CacheEntries == Tables({"cache_entries"})
Portraits == Tables({"usage_portraits"})

\* 0025 replaces areas, units and teams by one tree.
GoneWithTeams == {"area_policies", "user_roles", "entra_group_role_mappings",
                  "units", "teams", "areas"}
NodeTables == Tables({"organization_nodes", "role_assignments", "node_members"}) \cup
    Of("role_assignments", {"platform_admin", "area_owner", "unit_lead", "team_admin",
                            "developer", "viewer"}) \cup
    {<<"node_members", "node_id">>, <<"node_members", "user_id">>,
     <<"access_requests", "node_id">>}
TeamsToNodes(s) ==
    LET renamed == Rename(Rename(Rename(Rename(s, "cost_records", "team_id", "node_id"),
                       "api_keys", "team_id", "node_id"), "policies", "team_id", "node_id"),
                       "users", "primary_team_id", "primary_node_id")
    IN Drop(renamed \ {<<"access_requests", "resource_id">>}, GoneWithTeams \cup {"team_members"})
       \cup NodeTables

AlignScanner_FreshChainOnly(s) ==
    s \cup {<<"scan_jobs", "ix_node_id">>, <<"organization_nodes", "scanner_quota">>}

\* 0029 renames only where the legacy column is there.
AlignScanner(s) ==
    Rename(Rename(s, "scan_targets", "team_id", "node_id"), "scan_jobs", "team_id", "node_id")
    \cup {<<"scan_targets", "no_node">>, <<"scan_jobs", "no_node">>,
          <<"scan_jobs", "ix_node_id">>, <<"organization_nodes", "scanner_quota">>}
UnalignScanner(s) ==
    Rename(Rename(s, "scan_targets", "node_id", "team_id"), "scan_jobs", "node_id", "team_id")
    \ {<<"scan_targets", "no_node">>, <<"scan_jobs", "no_node">>,
       <<"scan_jobs", "ix_node_id">>, <<"organization_nodes", "scanner_quota">>}

\* 0034 renames the roles of role_assignments and admits users beside groups.
Taxonomy == {<<"platform_admin", "gateway_admin">>, <<"developer", "engineer">>,
             <<"viewer", "reporter">>}
RenameRole_ForgettingViewers(x) ==
    IF x[1] = "role_assignments" /\ x[2] \in {"platform_admin", "developer"}
    THEN <<x[1], IF x[2] = "developer" THEN "engineer" ELSE "gateway_admin">> ELSE x
RenameRole(x) ==
    IF x[1] = "role_assignments" /\ \E t \in Taxonomy : t[1] = x[2]
    THEN <<x[1], (CHOOSE t \in Taxonomy : t[1] = x[2])[2]>> ELSE x
NewRoles == Of("role_assignments", {t[2] : t \in Taxonomy})
RenamedRoles == Of("role_assignments", {t[1] : t \in Taxonomy})
DirectGrants == Of("role_assignments", {"user_id", "no_group"})

---------------------------------------------------------------------------
(* The chain.  Adds(r) is what revision r brings; most revisions add it on *)
(* the way up and drop it, with all their tables hold, on the way down.    *)

Adds(r) ==
    CASE r = 1  -> Baseline            [] r = 2  -> WorkflowTables
      [] r = 3  -> RunTables           [] r = 4  -> ScopedKeys
      [] r = 6  -> MemoryTables        [] r = 7  -> AdminMustChange
      [] r = 8  -> DeveloperMustChange [] r = 9  -> AgenticTables
      [] r = 10 -> UserTables          [] r = 11 -> InvitationTables
      [] r = 12 -> UnitTables          [] r = 13 -> UnitParents
      [] r = 14 -> Entitlements        [] r = 15 -> UnitLeads
      [] r = 16 -> GroupMappings       [] r = 17 -> LeagueTables
      [] r = 18 -> Locations           [] r = 19 -> PasswordAge
      [] r = 20 -> ScimIds             [] r = 21 -> Contractors
      [] r = 22 -> AccessRequests      [] r = 23 -> RoleExpiry
      [] r = 24 -> NodeBudgets         [] r = 26 -> ScanTables
      [] r = 27 -> ChampionTables \cup ChampionReasons
      [] r = 28 -> ToolConfig          [] r = 30 -> Requesterless
      [] r = 31 -> SkillTables         [] r = 32 -> CacheSnapshots
      [] r = 33 -> LocalGroups         [] r = 35 -> CacheEntries
      [] r = 36 -> Portraits           [] OTHER  -> {}

\* Revisions that create without IF NOT EXISTS, and those that drop without
\* IF EXISTS.
CreatesStrictly == {2, 3, 4, 18, 19, 20, 21, 22, 23, 24, 27, 28}
DropsStrictly == CreatesStrictly \cup {26}
NewTables(r) == {x[1] : x \in {y \in Adds(r) : y[2] = "table"}}

Up(r, s) ==
    CASE r = 5  -> s \ {<<"policies", "unique">>}
      [] r = 25 -> TeamsToNodes(s)
      [] r = 29 -> AlignScanner(s)
      [] r = 34 -> (s \ RenamedRoles) \cup NewRoles \cup DirectGrants
      [] OTHER  -> s \cup Adds(r)
Down(r, s) ==
    CASE r = 5  -> s \cup {<<"policies", "unique">>}
      [] r = 29 -> UnalignScanner(s)
      [] r = 34 -> (s \ (NewRoles \cup DirectGrants)) \cup RenamedRoles
      [] OTHER  -> Drop(s, NewTables(r)) \ Adds(r)

\* A table keeps its rows; an ALTER that a row contradicts is refused.  A row
\* is the value of a column with a CHECK: not followed are developers.status,
\* a TEXT without CHECK that 0010 copies into users, and the values that the
\* UNIQUE constraints of 0010 and 0025 compare.
Kept(rows, s) == {x \in rows : <<x[1], "table">> \in s}
RowsUp(r, rows, s) == Kept(IF r = 34 THEN {RenameRole(x) : x \in rows} ELSE rows, Up(r, s))

Runs(r, s, rows) == /\ r \in CreatesStrictly => Adds(r) \cap s = {}
                    /\ RowsUp(r, rows, s) \subseteq Up(r, s)
Reverts(r, s, rows) == /\ r # 25      \* raise NotImplementedError
                       /\ r \in DropsStrictly => Adds(r) \subseteq s
                       /\ Kept(rows, Down(r, s)) \subseteq Down(r, s)

\* One alembic run to revision h: every revision in turn, or nothing.
RunTo(h) ==
    LET f[r \in 0..Latest] ==
          IF r <= revision THEN [ok |-> TRUE, schema |-> schema, stored |-> present]
          ELSE LET b == f[r - 1]
               IN [ok     |-> b.ok /\ Runs(r, b.schema, b.stored),
                   schema |-> Up(r, b.schema),
                   stored |-> RowsUp(r, b.stored, b.schema)]
    IN f[h]

---------------------------------------------------------------------------
MigrationsInit == revision = 0 /\ schema = {} /\ present = {}

Upgrade(h) ==
    /\ h > revision
    /\ LET end == RunTo(h)
       IN end.ok /\ schema' = end.schema /\ present' = end.stored
    /\ revision' = h

Downgrade ==
    /\ revision > 0
    /\ Reverts(revision, schema, present)
    /\ schema' = Down(revision, schema)
    /\ present' = Kept(present, Down(revision, schema))
    /\ revision' = revision - 1

\* A service writes a row; Postgres refuses what the schema does not admit.
Write(x) ==
    /\ x \in schema \ present
    /\ present' = present \cup {x}
    /\ UNCHANGED <<revision, schema>>

\* Bound: one value for each check that some revision narrows or renames.
Written == {<<"user_invitations", "unit_lead">>, <<"league_points_ledger", "champion_reason">>,
            <<"role_assignments", "viewer">>, <<"role_assignments", "no_group">>,
            <<"scan_jobs", "no_node">>, <<"scan_jobs", "no_requester">>}

MigrationsNext ==
    \/ \E h \in Releases : Upgrade(h)
    \/ Downgrade
    \/ \E x \in Written : Write(x)

MigrationsSpec == MigrationsInit /\ [][MigrationsNext]_migrationVars

---------------------------------------------------------------------------
\* Parts belong to tables that exist, and rows hold what their table admits.
MigrationsTypeOK ==
    /\ revision \in 0..Latest
    /\ \A x \in schema : <<x[1], "table">> \in schema
    /\ present \subseteq schema \cap (Written \cup NewRoles)

Fresh[r \in 0..Latest] == IF r = 0 THEN {} ELSE Up(r, Fresh[r - 1])
HeadSchema == Fresh[Latest]

(* From wherever upgrades, steps back and the rows written in between have *)
(* left the database, "alembic upgrade head" is accepted, and it ends in   *)
(* the schema of a fresh installation.                                     *)
UpgradesConverge ==
    LET end == RunTo(Latest) IN end.ok /\ end.schema = HeadSchema

\* What statements of the services name at head; each is sent as written.
CostRecordInsert == Of("cost_records", {"team_id"})
BudgetAlertQuery == Tables({"teams"})
TeamSpendQuery == Tables({"teams"}) \cup CostRecordInsert
ThresholdAudit == Of("audit_log", {"detail"})
EquipQuery == Tables({"league_items"})
InviteRoles == {"gateway_admin", "area_owner", "unit_lead", "team_admin", "engineer",
                "reporter"}     \* _VALID_ROLES
Needed == CostRecordInsert \cup BudgetAlertQuery \cup TeamSpendQuery \cup ThresholdAudit
          \cup EquipQuery \cup Of("user_invitations", InviteRoles)

(* 0001_baseline.py:13: an upgrade to head produces the exact runtime      *)
(* schema.  Statements written before 0025 name what it renamed or         *)
(* dropped, and the CHECK of 0015 never learnt the roles of 0034.          *)
ProducesRuntimeSchema == revision = Latest => Needed \subseteq schema
=============================================================================
