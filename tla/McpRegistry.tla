---------------------------- MODULE McpRegistry ----------------------------
(***************************************************************************)
(* The registry of MCP servers: administrators register, edit, disable and *)
(* delete servers, a ping asks a server for its tools over HTTP and writes *)
(* back what it learnt about the row it read at its start, tools are       *)
(* switched on and off, teams are granted access, calls are forwarded.     *)
(***************************************************************************)
EXTENDS Integers, FiniteSets

CONSTANTS
    Servers,    \* ids of server rows
    ServerUrls, \* addresses of MCP servers; a url is registered once
    ToolNames,  \* tools a server may offer
    Teams,      \* organisation nodes of type team
    Pings,      \* ping_server calls
    NoUrl

ASSUME McpAssumption == NoUrl \notin ServerUrls /\ IsFiniteSet(ToolNames)

VARIABLES
    server, \* mcp_servers
    tool,   \* mcp_tools: per server and name, absent, on or off
    access, \* mcp_server_access
    offer,  \* what each address answers to tools/list now
    ping    \* each ping: the row it read and what the address answered

mcpVars == <<server, tool, access, offer, ping>>

NoServer == [url |-> NoUrl, status |-> "none", enabled |-> FALSE, count |-> 0]
IdlePing == [pc |-> "idle"]

McpTypeOK ==
    /\ server \in [Servers -> [url : ServerUrls \cup {NoUrl}, enabled : BOOLEAN,
                               status : {"none", "pending", "active", "error"},
                               count : 0..Cardinality(ToolNames)]]
    /\ tool \in [Servers -> [ToolNames -> {"absent", "on", "off"}]]
    /\ access \in SUBSET (Servers \X Teams)
    /\ offer \in [ServerUrls -> SUBSET ToolNames]
    /\ \A p \in Pings : ping[p].pc # "idle" =>
          ping[p] \in [pc : {"asked", "answered", "done"}, of : Servers, url : ServerUrls,
                       ok : BOOLEAN, tools : SUBSET ToolNames]

McpInit ==
    /\ server = [s \in Servers |-> NoServer]
    /\ tool = [s \in Servers |-> [n \in ToolNames |-> "absent"]]
    /\ access = {}
    /\ offer \in [ServerUrls -> SUBSET ToolNames]
    /\ ping = [p \in Pings |-> IdlePing]

Registered(s) == server[s].url # NoUrl
UrlFree(u) == \A s \in Servers : server[s].url # u

\* create_server; UNIQUE (url) refuses a second row for an address.
CreateServer(s, u) ==
    /\ ~Registered(s)
    /\ UrlFree(u)
    /\ server' = [server EXCEPT ![s] = [url |-> u, status |-> "pending",
                                        enabled |-> TRUE, count |-> 0]]
    /\ UNCHANGED <<tool, access, offer, ping>>

\* update_server: any of the fields; status and tools stay as they were.
UpdateServer(s) ==
    /\ Registered(s)
    /\ \/ \E u \in ServerUrls : UrlFree(u) /\ server' = [server EXCEPT ![s].url = u]
       \/ server' = [server EXCEPT ![s].enabled = ~@]
    /\ UNCHANGED <<tool, access, offer, ping>>

\* delete_server: tools and grants cascade.
DeleteServer(s) ==
    /\ Registered(s)
    /\ server' = [server EXCEPT ![s] = NoServer]
    /\ tool' = [tool EXCEPT ![s] = [n \in ToolNames |-> "absent"]]
    /\ access' = {a \in access : a[1] # s}
    /\ UNCHANGED <<offer, ping>>

---------------------------------------------------------------------------
(* Ping.                                                                   *)

\* The row is read once, with its address and credentials.
ReadServer(p, s) ==
    /\ ping[p].pc = "idle"
    /\ Registered(s)
    /\ ping' = [ping EXCEPT ![p] = [pc |-> "asked", of |-> s, url |-> server[s].url,
                                    ok |-> FALSE, tools |-> {}]]
    /\ UNCHANGED <<server, tool, access, offer>>

\* The handshake, a bare tools/list and the two GETs: one of them answers with
\* the tools of that address, a 200 that names none, or none of them does.
AskServer(p) ==
    /\ ping[p].pc = "asked"
    /\ \E ok \in BOOLEAN, found \in {{}, offer[ping[p].url]} :
          ping' = [ping EXCEPT ![p].pc = "answered", ![p].ok = ok,
                               ![p].tools = IF ok THEN found ELSE {}]
    /\ UNCHANGED <<server, tool, access, offer>>

Present(s) == {n \in ToolNames : tool[s][n] # "absent"}

\* One transaction: upsert the tools found, which keeps the switch of a tool
\* already there, then the status and the number of tools found or, when there
\* are none, stored.  A tool that is no longer offered stays.  For a row deleted
\* meanwhile the foreign key fails the upsert and the UPDATE matches nothing.
RecordPingSwitchingOn(p) ==
    LET s == ping[p].of
    IN  /\ ping[p].pc = "answered"
        /\ ping' = [ping EXCEPT ![p].pc = "done"]
        /\ IF Registered(s)
           THEN /\ tool' = [tool EXCEPT ![s] = [n \in ToolNames |->
                               IF n \in ping[p].tools THEN "on" ELSE @[n]]]
                /\ server' = [server EXCEPT
                      ![s].status = IF ping[p].ok THEN "active" ELSE "error",
                      ![s].count = Cardinality(ping[p].tools)]
           ELSE UNCHANGED <<tool, server>>
        /\ UNCHANGED <<access, offer>>

RecordPing(p) ==
    LET s == ping[p].of
    IN  /\ ping[p].pc = "answered"
        /\ ping' = [ping EXCEPT ![p].pc = "done"]
        /\ IF Registered(s)
           THEN /\ tool' = [tool EXCEPT ![s] = [n \in ToolNames |->
                               IF n \in ping[p].tools /\ @[n] = "absent" THEN "on"
                               ELSE @[n]]]
                /\ server' = [server EXCEPT
                      ![s].status = IF ping[p].ok THEN "active" ELSE "error",
                      ![s].count = IF ping[p].tools # {} THEN Cardinality(ping[p].tools)
                                   ELSE Cardinality(Present(s))]
           ELSE UNCHANGED <<tool, server>>
        /\ UNCHANGED <<access, offer>>

\* The operator of the address changes what it serves.
ChangeOffer(u) ==
    /\ \E found \in SUBSET ToolNames : offer' = [offer EXCEPT ![u] = found]
    /\ UNCHANGED <<server, tool, access, ping>>

---------------------------------------------------------------------------
(* Tools and grants.                                                       *)

UpdateTool(s, n) ==
    /\ tool[s][n] # "absent"
    /\ \E to \in {"on", "off"} : tool' = [tool EXCEPT ![s][n] = to]
    /\ UNCHANGED <<server, access, offer, ping>>

GrantAccess(s, t) ==
    /\ Registered(s)
    /\ access' = access \cup {<<s, t>>}
    /\ UNCHANGED <<server, tool, offer, ping>>

RevokeAccess(s, t) ==
    /\ <<s, t>> \in access
    /\ access' = access \ {<<s, t>>}
    /\ UNCHANGED <<server, tool, offer, ping>>

McpNext ==
    \/ \E s \in Servers :
          \/ \E u \in ServerUrls : CreateServer(s, u)
          \/ UpdateServer(s) \/ DeleteServer(s)
          \/ \E p \in Pings : ReadServer(p, s)
          \/ \E n \in ToolNames : UpdateTool(s, n)
          \/ \E t \in Teams : GrantAccess(s, t) \/ RevokeAccess(s, t)
    \/ \E p \in Pings : AskServer(p) \/ RecordPing(p)
    \/ \E u \in ServerUrls : ChangeOffer(u)

McpSpec == McpInit /\ [][McpNext]_mcpVars

---------------------------------------------------------------------------
(* Whatever pings, edits of the address and deletions of servers overlap,  *)
(* a tool an administrator switched off is switched on again by nobody but *)
(* an administrator (the ON CONFLICT list of ping_server, update_tool).    *)
ToolStaysOff ==
    [][\A s \in Servers, n \in ToolNames :
          tool[s][n] = "off" /\ tool'[s][n] # "off" =>
             UpdateTool(s, n) \/ DeleteServer(s)]_mcpVars

\* A server's tools are tools of its address: an address edited during a ping,
\* or after one, leaves those of the old address behind.
ToolsOfAddress ==
    \A s \in Servers : Registered(s) => Present(s) \subseteq offer[server[s].url]
=============================================================================
