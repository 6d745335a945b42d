------------------------------- MODULE Memory -------------------------------
(***************************************************************************)
(* The memory palace of developers: drawers, whose text is embedded by an  *)
(* outside service before the row is written; knowledge graph nodes and    *)
(* edges under foreign keys; one diary entry a day; and tunnels between    *)
(* wings, which mempalace_follow_tunnels walks breadth first with one      *)
(* query per wing.                                                         *)
(***************************************************************************)
EXTENDS Integers, Sequences, FiniteSets, SequencesExt

CONSTANTS
    Devs,        \* developers, whose keys resolve_developer knows
    Wings,
    Drawers,     \* drawer ids
    Contents,    \* texts, standing for their embeddings too
    KgNodes,     \* knowledge graph node ids
    KgEdges,     \* knowledge graph edge ids
    Tunnels,     \* tunnel ids
    Edits,       \* add_drawer and update_drawer calls
    Walks,       \* follow_tunnels calls
    Depth,       \* their depth argument
    NoDev, NoText

ASSUME MemoryAssumption ==
    /\ NoDev \notin Devs
    /\ NoText \notin Contents
    /\ IsFiniteSet(Wings)
    /\ Depth \in Nat

VARIABLES
    drawers,     \* memory_drawers: owner, content and embedding; given is
                 \* history: the embedding came from the caller
    edit,        \* each drawer call, between its embedding and its write
    kgNodes,     \* memory_kg_nodes: owner and valid_to
    kgEdges,     \* memory_kg_edges: owner and ends
    diary,       \* memory_diary, one row per developer and day (one day here)
    tunnels,     \* memory_tunnels
    walk         \* each follow_tunnels call

drawerVars == <<drawers, edit>>
knowledgeVars == <<kgNodes, kgEdges, diary>>
tunnelVars == <<tunnels, walk>>
memoryVars == <<drawers, edit, kgNodes, kgEdges, diary, tunnels, walk>>

NoDrawer == [dev |-> NoDev, content |-> NoText, vector |-> NoText, given |-> FALSE]
NoTunnel == [dev |-> NoDev]
Tunnel == [dev : Devs, from : Wings, to : Wings, both : BOOLEAN]
Found == [wing : Wings, depth : 0..Depth]
IdleWalk == [pc |-> "idle"]

MemoryTypeOK ==
    /\ drawers \in [Drawers -> [dev : Devs \cup {NoDev}, content : Contents \cup {NoText},
                                vector : Contents \cup {NoText}, given : BOOLEAN]]
    /\ edit \in [Edits -> [pc : {"idle", "embedded", "done"}, dev : Devs \cup {NoDev},
                           text : Contents \cup {NoText}]]
    /\ kgNodes \in [KgNodes -> [dev : Devs \cup {NoDev}, valid : BOOLEAN]]
    /\ kgEdges \in [KgEdges -> [dev : Devs \cup {NoDev}, ends : SUBSET KgNodes]]
    /\ diary \in [Devs -> Contents \cup {NoText}]
    /\ \A x \in Tunnels : tunnels[x] \in Tunnel \cup {NoTunnel}
    /\ \A k \in Walks : walk[k].pc # "idle" =>
          walk[k] \in [pc : {"walking", "done"}, dev : Devs, start : Wings,
                       queue : Seq(Found), reached : SUBSET Found, still : BOOLEAN]

MemoryInit ==
    /\ drawers = [d \in Drawers |-> NoDrawer]
    /\ edit = [e \in Edits |-> [pc |-> "idle", dev |-> NoDev, text |-> NoText]]
    /\ kgNodes = [n \in KgNodes |-> [dev |-> NoDev, valid |-> TRUE]]
    /\ kgEdges = [e \in KgEdges |-> [dev |-> NoDev, ends |-> {}]]
    /\ diary = [d \in Devs |-> NoText]
    /\ tunnels = [x \in Tunnels |-> NoTunnel]
    /\ walk = [k \in Walks |-> IdleWalk]

---------------------------------------------------------------------------
(* Drawers.                                                                *)

\* The call embeds its text; a failed embedding ends it.
Embed(e) ==
    /\ edit[e].pc = "idle"
    /\ \E dev \in Devs, text \in Contents :
          edit' = [edit EXCEPT ![e] = [pc |-> "embedded", dev |-> dev, text |-> text]]
    /\ UNCHANGED <<drawers, knowledgeVars, tunnelVars>>

\* add_drawer: INSERT.
AddDrawer(e) ==
    /\ edit[e].pc = "embedded"
    /\ \E d \in Drawers :
          /\ drawers[d] = NoDrawer
          /\ drawers' = [drawers EXCEPT ![d] =
                [dev |-> edit[e].dev, content |-> edit[e].text, vector |-> edit[e].text,
                 given |-> FALSE]]
    /\ edit' = [edit EXCEPT ![e].pc = "done"]
    /\ UNCHANGED <<knowledgeVars, tunnelVars>>

UpdateContentOnly(e) ==
    /\ edit[e].pc = "embedded"
    /\ \E d \in Drawers :
          drawers' = IF drawers[d].dev # edit[e].dev THEN drawers
                     ELSE [drawers EXCEPT ![d].content = edit[e].text]
    /\ edit' = [edit EXCEPT ![e].pc = "done"]
    /\ UNCHANGED <<knowledgeVars, tunnelVars>>

\* update_drawer with a content: one UPDATE of a row of the caller's, in which
\* the embedding made for the content replaces one that the caller sent.
UpdateDrawer(e) ==
    /\ edit[e].pc = "embedded"
    /\ \E d \in Drawers :
          drawers' = IF drawers[d].dev # edit[e].dev THEN drawers
                     ELSE [drawers EXCEPT ![d].content = edit[e].text,
                                          ![d].vector = edit[e].text,
                                          ![d].given = FALSE]
    /\ edit' = [edit EXCEPT ![e].pc = "done"]
    /\ UNCHANGED <<knowledgeVars, tunnelVars>>

\* update_drawer without one: the handler forwards every argument, and the
\* store admits an embedding by itself.
ReplaceVector(dev, d) ==
    /\ drawers[d].dev = dev
    /\ \E vector \in Contents :
          drawers' = [drawers EXCEPT ![d].vector = vector, ![d].given = TRUE]
    /\ UNCHANGED <<edit, knowledgeVars, tunnelVars>>

DeleteDrawer(dev, d) ==
    /\ drawers[d].dev = dev
    /\ drawers' = [drawers EXCEPT ![d] = NoDrawer]
    /\ UNCHANGED <<edit, knowledgeVars, tunnelVars>>

---------------------------------------------------------------------------
(* The knowledge graph and the diary.                                      *)

AddKgNode(dev, n) ==
    /\ kgNodes[n].dev = NoDev
    /\ kgNodes' = [kgNodes EXCEPT ![n] = [dev |-> dev, valid |-> TRUE]]
    /\ UNCHANGED <<kgEdges, diary, drawerVars, tunnelVars>>

\* kg_add_edge: the foreign keys ask that the nodes exist, not whose they are.
AddKgEdge(dev, e) ==
    /\ kgEdges[e].dev = NoDev
    /\ \E a, b \in KgNodes :
          /\ NoDev \notin {kgNodes[a].dev, kgNodes[b].dev}
          /\ kgEdges' = [kgEdges EXCEPT ![e] = [dev |-> dev, ends |-> {a, b}]]
    /\ UNCHANGED <<kgNodes, diary, drawerVars, tunnelVars>>

\* kg_invalidate sets valid_to; the edges of the node stay.
InvalidateKgNode(dev, n) ==
    /\ kgNodes[n] = [dev |-> dev, valid |-> TRUE]
    /\ kgNodes' = [kgNodes EXCEPT ![n].valid = FALSE]
    /\ UNCHANGED <<kgEdges, diary, drawerVars, tunnelVars>>

\* diary_write: INSERT ... ON CONFLICT (developer_id, date) DO UPDATE.
WriteDiary(dev, text) ==
    /\ diary' = [diary EXCEPT ![dev] = text]
    /\ UNCHANGED <<kgNodes, kgEdges, drawerVars, tunnelVars>>

\* History: a tunnel has changed since these walks began.
Disturbed == [k \in Walks |-> IF walk[k].pc = "idle" THEN walk[k]
                              ELSE [walk[k] EXCEPT !.still = FALSE]]

\* purge_developer_memory: every row of the developer, in one transaction; the
\* edges of anybody that end at a deleted node go with it (ON DELETE CASCADE).
Purge(dev) ==
    /\ drawers' = [d \in Drawers |-> IF drawers[d].dev = dev THEN NoDrawer ELSE drawers[d]]
    /\ kgNodes' = [n \in KgNodes |-> IF kgNodes[n].dev = dev
                                     THEN [dev |-> NoDev, valid |-> TRUE] ELSE kgNodes[n]]
    /\ kgEdges' = [e \in KgEdges |->
          IF kgEdges[e].dev = dev \/ \E n \in kgEdges[e].ends : kgNodes[n].dev = dev
          THEN [dev |-> NoDev, ends |-> {}] ELSE kgEdges[e]]
    /\ diary' = [diary EXCEPT ![dev] = NoText]
    /\ tunnels' = [x \in Tunnels |-> IF tunnels[x].dev = dev THEN NoTunnel ELSE tunnels[x]]
    /\ walk' = Disturbed
    /\ UNCHANGED edit

---------------------------------------------------------------------------
(* Tunnels.                                                                *)

CreateTunnel(dev, x) ==
    /\ tunnels[x] = NoTunnel
    /\ \E from, to \in Wings, both \in BOOLEAN :
          tunnels' = [tunnels EXCEPT ![x] = [dev |-> dev, from |-> from, to |-> to,
                                             both |-> both]]
    /\ walk' = Disturbed
    /\ UNCHANGED <<drawerVars, knowledgeVars>>

DeleteTunnel(dev, x) ==
    /\ tunnels[x].dev = dev
    /\ tunnels' = [tunnels EXCEPT ![x] = NoTunnel]
    /\ walk' = Disturbed
    /\ UNCHANGED <<drawerVars, knowledgeVars>>

\* find_tunnels: those that leave the wing, and two-way ones that enter it; the
\* other end of each.
Beyond(dev, w) ==
    {IF tunnels[x].from = w THEN tunnels[x].to ELSE tunnels[x].from :
        x \in {y \in Tunnels : /\ tunnels[y].dev = dev
                               /\ \/ tunnels[y].from = w
                                  \/ tunnels[y].both /\ tunnels[y].to = w}}

StartWalk(k) ==
    /\ walk[k].pc = "idle"
    /\ \E dev \in Devs, w \in Wings :
          walk' = [walk EXCEPT ![k] =
                [pc |-> "walking", dev |-> dev, start |-> w, still |-> TRUE,
                 queue |-> <<[wing |-> w, depth |-> 0]>>,
                 reached |-> {[wing |-> w, depth |-> 0]}]]
    /\ UNCHANGED <<drawerVars, knowledgeVars, tunnels>>

\* One turn of the loop: take the oldest wing; ask for its tunnels unless it is
\* at full depth; note and queue the wings not met before, in the order found.
StepPastDepth(k, at, rest) ==
    LET new == Beyond(walk[k].dev, at.wing) \ {f.wing : f \in walk[k].reached}
        next == {[wing |-> w, depth |-> at.depth + 1] : w \in new}
    IN  IF at.depth > Depth
        THEN walk' = [walk EXCEPT ![k].queue = rest]
        ELSE \E found \in SetToSeqs(next) :
                walk' = [walk EXCEPT ![k].queue = rest \o found,
                                     ![k].reached = @ \cup next]

StepFrom(k, at, rest) ==
    LET new == Beyond(walk[k].dev, at.wing) \ {f.wing : f \in walk[k].reached}
        next == {[wing |-> w, depth |-> at.depth + 1] : w \in new}
    IN  IF at.depth >= Depth
        THEN walk' = [walk EXCEPT ![k].queue = rest]
        ELSE \E found \in SetToSeqs(next) :
                walk' = [walk EXCEPT ![k].queue = rest \o found,
                                     ![k].reached = @ \cup next]

WalkStep(k) ==
    /\ walk[k].pc = "walking"
    /\ walk[k].queue # <<>>
    /\ StepFrom(k, Head(walk[k].queue), Tail(walk[k].queue))
    /\ UNCHANGED <<drawerVars, knowledgeVars, tunnels>>

EndWalk(k) ==
    /\ walk[k].pc = "walking"
    /\ walk[k].queue = <<>>
    /\ walk' = [walk EXCEPT ![k].pc = "done"]
    /\ UNCHANGED <<drawerVars, knowledgeVars, tunnels>>

DrawerNext ==
    \/ \E e \in Edits : Embed(e) \/ AddDrawer(e) \/ UpdateDrawer(e)
    \/ \E dev \in Devs, d \in Drawers : DeleteDrawer(dev, d) \/ ReplaceVector(dev, d)

KnowledgeNext == \E dev \in Devs :
    \/ \E n \in KgNodes : AddKgNode(dev, n) \/ InvalidateKgNode(dev, n)
    \/ \E e \in KgEdges : AddKgEdge(dev, e)
    \/ \E text \in Contents : WriteDiary(dev, text)
    \/ Purge(dev)

TunnelNext ==
    \/ \E dev \in Devs, x \in Tunnels : CreateTunnel(dev, x) \/ DeleteTunnel(dev, x)
    \/ \E k \in Walks : StartWalk(k) \/ WalkStep(k) \/ EndWalk(k)

MemoryNext == DrawerNext \/ KnowledgeNext \/ TunnelNext

MemorySpec == MemoryInit /\ [][MemoryNext]_memoryVars

---------------------------------------------------------------------------
(* However adds and updates of a drawer overlap with the embedding service *)
(* in between, the stored embedding is that of the stored content, unless  *)
(* a client has sent an embedding of its own since the content was written *)
(* (_update_drawer, store.update_drawer).                                  *)
VectorMatchesContent ==
    \A d \in Drawers : ~drawers[d].given => drawers[d].vector = drawers[d].content

\* The wings at most n tunnels away from w.
Linked(dev, v, w) ==
    \E x \in Tunnels :
        /\ tunnels[x].dev = dev
        /\ \/ <<tunnels[x].from, tunnels[x].to>> = <<v, w>>
           \/ tunnels[x].both /\ <<tunnels[x].from, tunnels[x].to>> = <<w, v>>

Within(dev, w) ==
    LET near[n \in 0..Depth] ==
          IF n = 0 THEN {w}
          ELSE near[n - 1] \cup
                  {u \in Wings : \E v \in near[n - 1] : Linked(dev, v, u)}
    IN near

(* A walk during which no tunnel changed reports exactly the wings within  *)
(* its depth, each at its distance (_follow_tunnels, find_tunnels).        *)
WalkFindsDistances ==
    \A k \in Walks : walk[k].pc = "done" /\ walk[k].still =>
        walk[k].reached =
            {f \in Found :
                /\ f.wing \in Within(walk[k].dev, walk[k].start)[f.depth]
                /\ f.depth > 0 =>
                      f.wing \notin Within(walk[k].dev, walk[k].start)[f.depth - 1]}

\* The two together: a drawer's embedding is that of its content unless the
\* client gave another (VectorMatchesContent), and a walk during which no tunnel
\* changed finds each wing at its distance (WalkFindsDistances).
MemorySound == VectorMatchesContent /\ WalkFindsDistances
=============================================================================
