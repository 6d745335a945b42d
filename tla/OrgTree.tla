------------------------------ MODULE OrgTree ------------------------------
(***************************************************************************)
(* The organisation tree of the admin service.  A node stores the path     *)
(* from the root to itself, computed once from a parent that was read      *)
(* earlier; permissions are roles on nodes, held in the payload a session  *)
(* was given at login, and reach every node below (can_access).  Deleting  *)
(* a node cascades through the foreign keys of migration 0025.             *)
(***************************************************************************)
EXTENDS Integers, Sequences, SequencesExt

CONSTANTS
    Nodes,    \* node ids, each created at most once
    Root,     \* the root node, created at start-up
    Area,     \* a child of the root that has an owner
    Users,    \* users that sign in
    Owner,    \* the area's owner
    Editors,  \* requests of create_node and set_budget in flight
    Budgets,  \* monthly budgets
    MaxGrants \* bound: the assignments held at once

ASSUME OrgTreeAssumption ==
    /\ Root \in Nodes /\ Area \in Nodes /\ Root # Area
    /\ Owner \in Users
    /\ Budgets \subseteq Nat \ {0}

VARIABLES
    orgNode, \* organization_nodes; budget 0 is NULL
    grants,  \* role_assignments of users
    roles,   \* the roles in each user's session, with the path of their node
    editing  \* progress of each create_node or set_budget

orgVars == <<orgNode, grants, roles, editing>>

Powers == {3, 5, 6}   \* _ROLE_POWER: team_admin, area_owner, gateway_admin
TeamAdmin == 3
AreaOwner == 5
Missing == [alive |-> FALSE, parent |-> Root, path |-> <<>>, budget |-> 0]
NoEditing == [pc |-> "idle", by |-> Owner, node |-> Root, path |-> <<>>, budget |-> 0]
Paths == Seq(Nodes)   \* create_node sets no limit to the depth

OrgTypeOK ==
    /\ orgNode \in [Nodes -> [alive : BOOLEAN, parent : Nodes, path : Paths,
                           budget : Budgets \cup {0}]]
    /\ grants \subseteq [user : Users, node : Nodes, power : Powers]
    /\ \A u \in Users : roles[u] \subseteq [path : Paths, power : Powers]
    /\ editing \in [Editors -> [pc : {"idle", "create", "budget"}, by : Users,
                               node : Nodes, path : Paths, budget : Budgets \cup {0}]]

OrgInit ==
    /\ orgNode = [n \in Nodes |->
          CASE n = Root -> [Missing EXCEPT !.alive = TRUE, !.path = <<Root>>]
            [] n = Area -> [Missing EXCEPT !.alive = TRUE, !.path = <<Root, Area>>]
            [] OTHER    -> Missing]
    /\ grants = {[user |-> Owner, node |-> Area, power |-> AreaOwner]}
    /\ roles = [u \in Users |-> {}]
    /\ editing = [w \in Editors |-> NoEditing]

---------------------------------------------------------------------------
(* unified_auth.py: what a session allows.                                 *)

\* The roles that reach a path are those on a prefix of it.
ReachingUpwards(u, path) == {r \in roles[u] : IsPrefix(path, r.path)}

Reaching(u, path) == {r \in roles[u] : IsPrefix(r.path, path)}

CanAccess(u, path, power) == \E r \in Reaching(u, path) : r.power >= power

\* max_role_power is at least power.
HoldsPower(u, path, power) == \E r \in Reaching(u, path) : r.power >= power

\* login: _load_role_assignments joins role_assignments with the nodes.
Login(u) ==
    /\ roles' = [roles EXCEPT ![u] =
          {[path |-> orgNode[g.node].path, power |-> g.power] : g \in {h \in grants : h.user = u}}]
    /\ UNCHANGED <<orgNode, grants, editing>>

---------------------------------------------------------------------------
(* nodes.py.                                                               *)

\* create_node: read the parent's path, check the role, compute the path.
LookUpParent(w, u, n, parent) ==
    /\ editing[w].pc = "idle"
    /\ orgNode[parent].alive
    /\ CanAccess(u, orgNode[parent].path, TeamAdmin)
    /\ orgNode[n] = Missing
    /\ editing' = [editing EXCEPT ![w] = [pc |-> "create", by |-> u, node |-> n,
                     path |-> Append(orgNode[parent].path, n), budget |-> 0]]
    /\ UNCHANGED <<orgNode, grants, roles>>

\* INSERT: the foreign key refuses a parent that is gone (500).
ParentOf(path) == path[Len(path) - 1]

InsertUnderAnything(w) ==
    LET q == editing[w] IN
    /\ q.pc = "create"
    /\ orgNode' = [orgNode EXCEPT ![q.node] = [alive |-> TRUE, parent |-> ParentOf(q.path),
                                         path |-> q.path, budget |-> 0]]
    /\ editing' = [editing EXCEPT ![w] = NoEditing]
    /\ UNCHANGED <<grants, roles>>

InsertNode(w) ==
    LET q == editing[w] IN
    /\ q.pc = "create"
    /\ IF orgNode[ParentOf(q.path)].alive /\ orgNode[q.node] = Missing
       THEN orgNode' = [orgNode EXCEPT ![q.node] = [alive |-> TRUE, parent |-> ParentOf(q.path),
                                              path |-> q.path, budget |-> 0]]
       ELSE UNCHANGED orgNode
    /\ editing' = [editing EXCEPT ![w] = NoEditing]
    /\ UNCHANGED <<grants, roles>>

\* The rows that go with a node: the fewest that hold it and, with each of
\* them, its children by parent_id.
HoldsChildren(ns) ==
    \A m \in Nodes \ {Root} : orgNode[m].alive /\ orgNode[m].parent \in ns => m \in ns

Subtree(n) ==
    {m \in Nodes : \A ns \in SUBSET Nodes : n \in ns /\ HoldsChildren(ns) => m \in ns}

\* delete_node: ON DELETE CASCADE on nodes, assignments, policies.
\* An id is a fresh uuid, so a deleted node does not come back: it keeps its
\* path here and only stops being alive.
DeleteNode(u, n) ==
    LET gone == Subtree(n) IN
    /\ orgNode[n].alive
    /\ n # Root
    /\ CanAccess(u, orgNode[n].path, AreaOwner)
    /\ orgNode' = [m \in Nodes |-> IF m \in gone THEN [orgNode[m] EXCEPT !.alive = FALSE]
                                              ELSE orgNode[m]]
    /\ grants' = {g \in grants : g.node \notin gone}
    /\ UNCHANGED <<roles, editing>>

\* set_budget: the parent's budget is read, compared, and later ours written.
CheckBudget(w, u, n, b) ==
    /\ editing[w].pc = "idle"
    /\ orgNode[n].alive
    /\ CanAccess(u, orgNode[n].path, AreaOwner)
    /\ n # Root /\ orgNode[orgNode[n].parent].budget # 0 => b <= orgNode[orgNode[n].parent].budget
    /\ editing' = [editing EXCEPT ![w] = [pc |-> "budget", by |-> u, node |-> n,
                                        path |-> <<>>, budget |-> b]]
    /\ UNCHANGED <<orgNode, grants, roles>>

WriteBudget(w) ==
    LET q == editing[w] IN
    /\ q.pc = "budget"
    /\ orgNode' = [orgNode EXCEPT ![q.node].budget = IF orgNode[q.node].alive THEN q.budget ELSE @]
    /\ editing' = [editing EXCEPT ![w] = NoEditing]
    /\ UNCHANGED <<grants, roles>>

\* add_permission: nobody grants above the power they hold at the node.
AddPermission(u, v, n, power) ==
    /\ orgNode[n].alive
    /\ CanAccess(u, orgNode[n].path, AreaOwner)
    /\ HoldsPower(u, orgNode[n].path, power)
    /\ Cardinality(grants) < MaxGrants
    /\ grants' = grants \cup {[user |-> v, node |-> n, power |-> power]}
    /\ UNCHANGED <<orgNode, roles, editing>>

RemovePermission(u, g) ==
    /\ g \in grants
    /\ CanAccess(u, orgNode[g.node].path, AreaOwner)
    /\ grants' = grants \ {g}
    /\ UNCHANGED <<orgNode, roles, editing>>

OrgNext ==
    \E u \in Users :
        \/ Login(u)
        \/ \E w \in Editors, n \in Nodes :
              \/ \E parent \in Nodes : LookUpParent(w, u, n, parent)
              \/ \E b \in Budgets : CheckBudget(w, u, n, b)
        \/ \E w \in Editors : InsertNode(w) \/ WriteBudget(w)
        \/ \E n \in Nodes :
              \/ DeleteNode(u, n)
              \/ \E v \in Users, p \in Powers : AddPermission(u, v, n, p)
        \/ \E g \in grants : RemovePermission(u, g)

OrgSpec == OrgInit /\ [][OrgNext]_orgVars

---------------------------------------------------------------------------
\* A live node hangs under a live parent and its stored path is the chain of
\* its ancestors, although the path was computed from a row read in another
\* statement and deletions run in between: get_ancestry, the policies and the
\* budgets of a node are read along that path.
PathsAgree ==
    \A n \in Nodes \ {Root} :
        orgNode[n].alive => /\ orgNode[orgNode[n].parent].alive
                         /\ orgNode[n].path = Append(orgNode[orgNode[n].parent].path, n)

\* The authority of an area owner stays in the area: whatever he and those he
\* appoints do, every role they hand on is one on a node of the area and no
\* stronger than his own (can_access, max_role_power, add_permission).
AuthorityContained ==
    \A g \in grants : Area \in ToSet(orgNode[g.node].path) /\ g.power <= AreaOwner

\* docs/api/nodes.md: a child's budget cannot exceed its parent's.
BudgetsNest ==
    \A n \in Nodes \ {Root} :
        orgNode[n].alive /\ orgNode[orgNode[n].parent].budget # 0
            => orgNode[n].budget <= orgNode[orgNode[n].parent].budget

\* The two together: the stored paths are the ancestors (PathsAgree), and no
\* role that an area owner or his appointees hand on leaves the area
\* (AuthorityContained).
TreeSound == PathsAgree /\ AuthorityContained
=============================================================================
