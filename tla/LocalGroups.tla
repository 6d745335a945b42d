---------------------------- MODULE LocalGroups ----------------------------
(***************************************************************************)
(* Groups of local accounts.  A local account gets roles at login through  *)
(* the groups it is a member of; a group is bound to a node and a role by  *)
(* a row of role_assignments that names it without a foreign key.  Groups  *)
(* are kept by the admin API, whose handlers run several statements in one *)
(* transaction, and by create_local_account, run from a shell: its group   *)
(* ids are derived from a name, so a deleted group can come back with the  *)
(* same id.                                                                *)
(***************************************************************************)
EXTENDS Integers

CONSTANTS
    Emails,  \* email addresses
    Named,   \* groups of the script: uuid5 of a name
    Minted,  \* groups of the API: a fresh uuid each
    Bonds,   \* roles on nodes a group may be bound to
    Scripts, \* runs of create_local_account in flight
    Removals \* requests of delete_group in flight

ASSUME LocalGroupsAssumption == Emails # {} /\ Named # {} /\ Bonds # {}

VARIABLES
    profile,   \* users: status, and who set the password
    groups,    \* local_groups
    minted,    \* ids the API has handed out
    members,   \* local_group_members
    bindings,  \* role_assignments whose group key is a local group
    rolesHeld, \* the roles in the session of each user
    signing,   \* the groups a login has read
    script,    \* progress of each run of the script
    removal    \* progress of each delete_group

groupVars == <<profile, groups, minted, members, bindings, rolesHeld, signing, script, removal>>

Groups == Named \cup Minted
NoAccount == [status |-> "none", password |-> "none"]
Bindings == [group : Groups, bond : Bonds]
NoScript == [pc |-> "idle", who |-> CHOOSE p \in Emails : TRUE,
             group |-> CHOOSE g \in Named : TRUE, bond |-> CHOOSE b \in Bonds : TRUE,
             status |-> "none", reactivate |-> FALSE, joins |-> FALSE]
NoRemoval == [pc |-> "idle", group |-> CHOOSE g \in Groups : TRUE, rows |-> {}]

\* The foreign keys of migration 0033 hold, and only an account has a session.
GroupsTypeOK ==
    /\ profile \in [Emails -> [status : {"none", "active", "suspended"},
                               password : {"none", "sso", "script"}]]
    /\ groups \subseteq Named \cup minted /\ minted \subseteq Minted
    /\ members \subseteq groups \X {p \in Emails : profile[p] # NoAccount}
    /\ bindings \subseteq Bindings
    /\ rolesHeld \in [Emails -> SUBSET Bonds]
    /\ signing \in [Emails -> {{}} \cup {{gs} : gs \in SUBSET Groups}]
    /\ \A p \in Emails : profile[p] = NoAccount => rolesHeld[p] = {} /\ signing[p] = {}
    /\ script \in [Scripts -> [pc : {"idle", "write", "enrol", "bind"}, who : Emails,
                               group : Named, bond : Bonds, status : {"none", "active", "suspended"},
                               reactivate : BOOLEAN, joins : BOOLEAN]]
    /\ removal \in [Removals -> [pc : {"idle", "delete"}, group : Groups, rows : SUBSET Bindings]]

GroupsInit ==
    /\ profile \in [Emails -> {NoAccount, [status |-> "active", password |-> "sso"]}]
    /\ groups = {} /\ minted = {} /\ members = {} /\ bindings = {}
    /\ rolesHeld = [p \in Emails |-> {}]
    /\ signing = [p \in Emails |-> {}]
    /\ script = [s \in Scripts |-> NoScript]
    /\ removal = [d \in Removals |-> NoRemoval]

---------------------------------------------------------------------------
(* What an open transaction keeps others from: the script's row of users   *)
(* from its update on, and the group its member row refers to.             *)
RowLocked(p) == \E s \in Scripts : script[s].pc \in {"enrol", "bind"} /\ script[s].who = p

GroupLocked(g) == \E s \in Scripts :
    script[s].pc = "bind" /\ script[s].group = g /\ script[s].joins /\ g \in groups

\* Another run has inserted the group and has not committed yet.
BeingCreated(g) == \E s \in Scripts :
    script[s].pc = "bind" /\ script[s].group = g /\ g \notin groups

Leave(s) == script' = [script EXCEPT ![s] = NoScript]

---------------------------------------------------------------------------
(* create_local_account.py.                                                *)

\* Read the account; refuse an SSO account or a suspended one unless told.
RunScript(s, p, g, b, force, reactivate) ==
    LET local == \E m \in members : m[2] = p IN
    /\ script[s].pc = "idle"
    /\ profile[p] # NoAccount => /\ local \/ force
                                 /\ profile[p].status = "active" \/ reactivate
    /\ script' = [script EXCEPT ![s] =
          [pc |-> "write", who |-> p, group |-> g, bond |-> b,
           status |-> profile[p].status, reactivate |-> reactivate, joins |-> FALSE]]
    /\ UNCHANGED <<profile, groups, minted, members, bindings, rolesHeld, signing, removal>>

\* INSERT or UPDATE of the user: the row is locked from here on.
WriteAccount(s) ==
    LET q == script[s] IN
    /\ q.pc = "write"
    /\ ~RowLocked(q.who)
    /\ IF q.status = "none" /\ profile[q.who] # NoAccount   \* the email is unique
       THEN Leave(s)
       ELSE script' = [script EXCEPT ![s].pc = "enrol"]
    /\ UNCHANGED <<profile, groups, minted, members, bindings, rolesHeld, signing, removal>>

\* Ensure the group, unless it is there, and the membership, unless it is.
Enrol(s) ==
    LET q == script[s] IN
    /\ q.pc = "enrol"
    /\ ~BeingCreated(q.group)
    /\ script' = [script EXCEPT ![s].pc = "bind",
                                ![s].joins = <<q.group, q.who>> \notin members]
    /\ UNCHANGED <<profile, groups, minted, members, bindings, rolesHeld, signing, removal>>

\* Bind the group and commit.  A binding that an open delete_group has deleted
\* is waited for.
BindAndCommit(s) ==
    LET q == script[s] IN
    /\ q.pc = "bind"
    /\ \A d \in Removals : [group |-> q.group, bond |-> q.bond] \notin removal[d].rows
    /\ profile' = [profile EXCEPT ![q.who] = [status |-> "active", password |-> "script"]]
    /\ IF q.joins
       THEN /\ groups' = groups \cup {q.group}
            /\ members' = members \cup {<<q.group, q.who>>}
       ELSE UNCHANGED <<groups, members>>
    /\ bindings' = bindings \cup {[group |-> q.group, bond |-> q.bond]}
    /\ Leave(s)
    /\ UNCHANGED <<minted, rolesHeld, signing, removal>>

\* The node does not exist, two transactions wait for each other, or the shell
\* is closed: everything is rolled back.
AbandonScript(s) ==
    /\ script[s].pc # "idle"
    /\ Leave(s)
    /\ UNCHANGED <<profile, groups, minted, members, bindings, rolesHeld, signing, removal>>

---------------------------------------------------------------------------
(* local_groups.py.                                                        *)

CreateGroup(g) ==
    /\ g \in Minted \ minted
    /\ groups' = groups \cup {g}
    /\ minted' = minted \cup {g}
    /\ UNCHANGED <<profile, members, bindings, rolesHeld, signing, script, removal>>

\* nodes.py: a role on a node for a group that is listed.
BindGroup(g, b) ==
    /\ g \in groups
    /\ bindings' = bindings \cup {[group |-> g, bond |-> b]}
    /\ UNCHANGED <<profile, groups, minted, members, rolesHeld, signing, script, removal>>

AddMember(g, p) ==
    /\ g \in groups
    /\ profile[p] # NoAccount
    /\ members' = members \cup {<<g, p>>}
    /\ UNCHANGED <<profile, groups, minted, bindings, rolesHeld, signing, script, removal>>

RemoveMember(m) ==
    /\ members' = members \ {m}
    /\ UNCHANGED <<profile, groups, minted, bindings, rolesHeld, signing, script, removal>>

\* delete_group: the bindings it can see, then the group with its members.
DeleteBindings(d, g) ==
    /\ removal[d].pc = "idle"
    /\ removal' = [removal EXCEPT ![d] =
          [pc |-> "delete", group |-> g, rows |-> {r \in bindings : r.group = g}]]
    /\ UNCHANGED <<profile, groups, minted, members, bindings, rolesHeld, signing, script>>

DeleteGroup(d) ==
    LET q == removal[d] IN
    /\ q.pc = "delete"
    /\ ~GroupLocked(q.group)
    /\ groups' = groups \ {q.group}
    /\ members' = {m \in members : m[1] # q.group}
    /\ bindings' = bindings \ q.rows
    /\ removal' = [removal EXCEPT ![d] = NoRemoval]
    /\ UNCHANGED <<profile, minted, rolesHeld, signing, script>>

---------------------------------------------------------------------------
(* unified_auth.py.                                                        *)

\* update_user_status.
SetAccountStatus(p, status) ==
    /\ profile[p] # NoAccount
    /\ ~RowLocked(p)
    /\ profile' = [profile EXCEPT ![p].status = status]
    /\ rolesHeld' = [rolesHeld EXCEPT ![p] = IF status = "suspended" THEN {} ELSE @]
    /\ UNCHANGED <<groups, minted, members, bindings, signing, script, removal>>

\* login: the account is active; its groups; then their roles.
ReadGroups(p) ==
    /\ profile[p].status = "active"
    /\ profile[p].password # "sso"
    /\ signing' = [signing EXCEPT ![p] = {{g \in groups : <<g, p>> \in members}}]
    /\ UNCHANGED <<profile, groups, minted, members, bindings, rolesHeld, script, removal>>

ReadRoles(p) ==
    /\ \E gs \in signing[p] :
          rolesHeld' = [rolesHeld EXCEPT ![p] = {r.bond : r \in {x \in bindings : x.group \in gs}}]
    /\ signing' = [signing EXCEPT ![p] = {}]
    /\ UNCHANGED <<profile, groups, minted, members, bindings, script, removal>>

Provisioning(s) ==
    \/ \E p \in Emails, g \in Named, b \in Bonds, force, reactivate \in BOOLEAN :
          RunScript(s, p, g, b, force, reactivate)
    \/ WriteAccount(s) \/ Enrol(s) \/ BindAndCommit(s) \/ AbandonScript(s)

GroupsNext ==
    \/ \E s \in Scripts : Provisioning(s)
    \/ \E g \in Groups : \/ CreateGroup(g)
                         \/ \E b \in Bonds : BindGroup(g, b)
                         \/ \E p \in Emails : AddMember(g, p)
                         \/ \E d \in Removals : DeleteBindings(d, g)
    \/ \E m \in members : RemoveMember(m)
    \/ \E d \in Removals : DeleteGroup(d)
    \/ \E p \in Emails : \/ \E st \in {"active", "suspended"} : SetAccountStatus(p, st)
                         \/ ReadGroups(p) \/ ReadRoles(p)

GroupsSpec == GroupsInit /\ [][GroupsNext]_groupVars

---------------------------------------------------------------------------
\* local_groups.py:106, "CASCADE on local_group_members handled by FK; also
\* delete role_assignments": no binding outlives its group.
BindingsHaveGroup == \A r \in bindings : r.group \in groups

\* create_local_account.py:100, "Don't silently reactivate a suspended/
\* offboarded account": only an administrator, or a run with --reactivate,
\* makes a suspended account active again.
SilentlyReactivated(p) ==
    /\ profile[p].status = "suspended" /\ profile'[p].status = "active"
    /\ \E s \in Scripts : script[s].pc = "bind" /\ script'[s] = NoScript
                          /\ script[s].who = p /\ ~script[s].reactivate
NotSilentlyReactivated == [][\A p \in Emails : ~SilentlyReactivated(p)]_groupVars
=============================================================================
