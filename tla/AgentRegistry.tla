--------------------------- MODULE AgentRegistry ---------------------------
(***************************************************************************)
(* The identity service: the registry in which workflows and agents look   *)
(* up their peers.  A row of agent_identities is written by the agent that *)
(* registers and, where it has none, by the seed from the admin service;   *)
(* a heartbeat key in Redis says that an agent is online.  Every statement *)
(* runs on its own: two calls interleave between their statements.         *)
(***************************************************************************)
EXTENDS Integers, SequencesExt

CONSTANTS
    Slugs,    \* agents
    Name,     \* the name that peers resolve: the slug of one agent
    Calls,    \* requests to the service
    NoAgent   \* no row

ASSUME AgentRegistryAssumption == Name \in Slugs /\ IsFiniteSet(Slugs)

VARIABLES
    agents,    \* agent_identities: per slug its row, or NoAgent
    online,    \* slugs whose heartbeat key exists
    call,      \* the requests
    seeding    \* slugs of the admin service that the start has found missing

registryVars == <<agents, online, call, seeding>>

(* What a lookup of Name can see of a row: Name is one of its capabilities,  *)
(* its name or slug contains Name, its identity token was verified.          *)
Agent == [capable : BOOLEAN, alike : BOOLEAN, verified : BOOLEAN]
CallStages == {"new", "verified", "alive", "stamped", "unlisted", "row", "exact",
               "capable", "answered", "refused"}
NewCall == [op |-> "none", slug |-> Name, at |-> "new", row |-> NoAgent,
            answer |-> <<>>, shown |-> {}]

RegistryTypeOK ==
    /\ agents \in [Slugs -> Agent \cup {NoAgent}]
    /\ online \subseteq Slugs
    /\ seeding \subseteq Slugs
    /\ \A c \in Calls :
         /\ call[c].op \in {"none", "register", "heartbeat", "deregister", "lookup", "resolve"}
         /\ call[c].slug \in Slugs
         /\ call[c].at \in CallStages
         /\ call[c].row \in Agent \cup {NoAgent}
         \* resolve lists an agent once, however it moves between the rankings
         /\ call[c].answer \in Seq(Slugs) /\ IsInjective(call[c].answer)
         /\ call[c].shown \subseteq Slugs

RegistryInit ==
    /\ agents = [s \in Slugs |-> NoAgent]
    /\ online = {}
    /\ call = [c \in Calls |-> NewCall]
    /\ seeding = {}

Known(s) == agents[s] # NoAgent
Put(s, a) == agents' = [agents EXCEPT ![s] = a]
Goto(c, stage) == call' = [call EXCEPT ![c].at = stage]
Ask(c, op, s) ==
    /\ call[c].op = "none"
    /\ call' = [call EXCEPT ![c].op = op, ![c].slug = s]
Doing(c, op, stage) == call[c].op = op /\ call[c].at = stage

-----------------------------------------------------------------------------
(* Registration.  The token is verified against the admin's JWKS first: a    *)
(* network error, like a bad signature, registers the agent as unverified.   *)

VerifyToken(c, s) ==
    /\ call[c].op = "none"
    /\ \E a \in Agent :
         call' = [call EXCEPT ![c].op = "register", ![c].slug = s,
                              ![c].at = "verified", ![c].row = a]
    /\ UNCHANGED <<agents, online, seeding>>

\* INSERT ... ON CONFLICT DO UPDATE of every column
RegisterAgent(c) ==
    /\ Doing(c, "register", "verified")
    /\ Put(call[c].slug, call[c].row)
    /\ Goto(c, "answered")
    /\ UNCHANGED <<online, seeding>>

-----------------------------------------------------------------------------
(* Heartbeat: 404 without a row, 401 without the token that the agent relay  *)
(* may hold for the slug; an error of Redis there fails open.                *)

FindBeating(c, s) ==
    /\ Ask(c, "heartbeat", s)
    /\ Known(s)
    /\ UNCHANGED <<agents, online, seeding>>

CheckRelayToken(c) ==
    /\ Doing(c, "heartbeat", "new")
    /\ \E isHeld, presented, redisFails \in BOOLEAN :
         Goto(c, IF isHeld /\ ~presented /\ ~redisFails THEN "refused" ELSE "alive")
    /\ UNCHANGED <<agents, online, seeding>>

Beat(c) ==
    /\ Doing(c, "heartbeat", "alive")
    /\ online' = online \cup {call[c].slug}
    /\ Goto(c, "answered")
    /\ UNCHANGED <<agents, seeding>>

\* the 60 s of a heartbeat key
GoOffline(s) ==
    /\ s \in online
    /\ online' = online \ {s}
    /\ UNCHANGED <<agents, call, seeding>>

-----------------------------------------------------------------------------
(* Deregistration: the row, then the heartbeat key.                          *)

Unlist(c, s) ==
    /\ call[c].op = "none"
    /\ Known(s)
    /\ call' = [call EXCEPT ![c].op = "deregister", ![c].slug = s, ![c].at = "unlisted"]
    /\ Put(s, NoAgent)
    /\ UNCHANGED <<online, seeding>>

Silence(c) ==
    /\ Doing(c, "deregister", "unlisted")
    /\ online' = online \ {call[c].slug}
    /\ Goto(c, "answered")
    /\ UNCHANGED <<agents, seeding>>

-----------------------------------------------------------------------------
(* Lookups by slug and the list of agents: rows first, then the heartbeat    *)
(* key of each.                                                              *)

ReadRow(c, s) ==
    /\ call[c].op = "none"
    /\ Known(s)
    /\ call' = [call EXCEPT ![c].op = "lookup", ![c].slug = s, ![c].at = "row",
                            ![c].row = agents[s]]
    /\ UNCHANGED <<agents, online, seeding>>

ReadOnline(c) ==
    /\ Doing(c, "lookup", "row")
    /\ call' = [call EXCEPT ![c].at = "answered", ![c].answer = <<call[c].slug>>,
                            ![c].shown = {call[c].slug} \cap online]
    /\ UNCHANGED <<agents, online, seeding>>

-----------------------------------------------------------------------------
(* Resolution: three queries, exact slug, capability, partial name, each of  *)
(* which sees what is committed when it runs, then the union in that order.  *)

Exact == {s \in {Name} : Known(s)}
Capable == {s \in Slugs \ {Name} : Known(s) /\ agents[s].capable}
Alike == {s \in Slugs \ {Name} : Known(s) /\ agents[s].alike /\ ~agents[s].capable}

\* a merge of rankings that trusts the queries to be disjoint
Ranked_Unchecked(answer, found) == answer \o SetToSeq(found)
\* `seen`: an agent an earlier ranking has listed is skipped
Ranked(answer, found) == answer \o SetToSeq(found \ Range(answer))

ResolveExact(c) ==
    /\ call[c].op = "none"
    /\ call' = [call EXCEPT ![c].op = "resolve", ![c].at = "exact",
                            ![c].answer = Ranked(<<>>, Exact)]
    /\ UNCHANGED <<agents, online, seeding>>

ResolveCapable(c) ==
    /\ Doing(c, "resolve", "exact")
    /\ call' = [call EXCEPT ![c].at = "capable",
                            ![c].answer = Ranked(call[c].answer, Capable)]
    /\ UNCHANGED <<agents, online, seeding>>

ResolveAlike(c) ==
    /\ Doing(c, "resolve", "capable")
    /\ LET answer == Ranked(call[c].answer, Alike)
       IN  call' = [call EXCEPT ![c].at = "answered", ![c].answer = answer,
                                ![c].shown = Range(answer) \cap online]
    /\ UNCHANGED <<agents, online, seeding>>

-----------------------------------------------------------------------------
(* A start of the service seeds the agents of the admin service: SELECT, and *)
(* INSERT ... ON CONFLICT DO NOTHING where there was no row.                 *)

FindMissing(s) ==
    /\ ~Known(s) /\ s \notin seeding
    /\ seeding' = seeding \cup {s}
    /\ UNCHANGED <<agents, online, call>>

SeedAgent(s) ==
    /\ s \in seeding
    /\ seeding' = seeding \ {s}
    /\ \E a \in {r \in Agent : ~r.verified} :
         Put(s, IF Known(s) THEN agents[s] ELSE a)
    /\ UNCHANGED <<online, call>>

-----------------------------------------------------------------------------
RegistryNext ==
    \/ \E c \in Calls :
         \/ RegisterAgent(c) \/ CheckRelayToken(c) \/ Beat(c) \/ Silence(c)
         \/ ReadOnline(c) \/ ResolveExact(c) \/ ResolveCapable(c) \/ ResolveAlike(c)
         \/ \E s \in Slugs : \/ VerifyToken(c, s) \/ FindBeating(c, s)
                             \/ Unlist(c, s) \/ ReadRow(c, s)
    \/ \E s \in Slugs : GoOffline(s) \/ FindMissing(s) \/ SeedAgent(s)

RegistrySpec == RegistryInit /\ [][RegistryNext]_registryVars
=============================================================================
