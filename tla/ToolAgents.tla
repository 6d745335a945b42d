----------------------------- MODULE ToolAgents -----------------------------
(***************************************************************************)
(* The two agents of the admin service that let a model call tools: the    *)
(* DevOps chat, one for each request, whose tools run their statements on  *)
(* the request's own database session, and the optimisation worker of each *)
(* replica, whose tools take connections from a small pool.  Both run the  *)
(* tool calls of a round in parallel, answer the model with what each one  *)
(* returned and stop after a number of rounds.                             *)
(***************************************************************************)
EXTENDS Integers, FiniteSets

CONSTANTS
    Chats,     \* requests to POST /devops-agent/chat
    Workers,   \* optimisation workers
    Slots,     \* bound: tool calls of a round
    MaxRounds, \* _MAX_ROUNDS
    PoolSize,  \* connections of a worker's pool
    Absent,    \* what the tools' statements name and the schema lacks
    MaxRuns    \* bound: runs of a worker

ASSUME ToolAgentsAssumption ==
    /\ Chats \cap Workers = {} /\ IsFiniteSet(Slots)
    /\ MaxRounds \in Nat \ {0}
    /\ PoolSize \in Nat \ {0}
    /\ MaxRuns \in Nat

Agents == Chats \cup Workers

\* what each tool's statement names besides cost_records' common columns
HealthReads == {"pg_stat_activity", "audit_log"}
ErrorsReads == {"developers", "teams", "cost_records.team_id"}
BudgetReads == {"teams", "policies.team_id", "cost_records.team_id"}
AuditReads == {"audit_log", "audit_log.detail"}
TopTeamsReads == {"teams", "cost_records.team_id"}
ChatStatements ==
    [check_service_health |-> HealthReads, get_gateway_metrics |-> {},
     get_recent_errors |-> ErrorsReads, get_budget_status |-> BudgetReads,
     get_model_usage |-> {}, get_audit_log |-> AuditReads,
     get_top_teams_by_spend |-> TopTeamsReads]
Telemetry == {"query_logs", "query_metrics", "get_container_state"}

NodeReads == {"organization_nodes", "cost_records.node_id"}
WorkerStatements ==
    [get_gateway_metrics |-> {}, get_recent_errors |-> NodeReads,
     get_budget_status |-> NodeReads, get_model_usage |-> {},
     get_top_teams_by_spend |-> NodeReads, get_model_rightsizing_data |-> NodeReads]
TuneWrites == {"org_settings", "audit_log.detail"}
Unknown == "unknown"
NoTool == "none"

\* the tools with a statement, one of each kind: it suits the schema or doesn't
ChatTools == DOMAIN ChatStatements \cup Telemetry \cup {Unknown}
WorkerTools == DOMAIN WorkerStatements \cup
               {"check_service_health", "record_insight", "tune_cache_threshold",
                Unknown}
ToolsOf(a) == IF a \in Chats THEN ChatTools ELSE WorkerTools
Sound(reads) == reads \cap Absent = {}

VARIABLES
    agent,    \* where each agent is
    round,    \* _round
    toolCall, \* the tool calls of the round
    database, \* a chat's session
    waiting,  \* a worker's connections in use
    insights, \* pending_insights of a worker's run
    kept,     \* ghost: ai_insights rows of a worker's run
    tuned,    \* semantic_similarity_threshold has been set
    audited,  \* ... and audit_log says so
    runs      \* how many runs a worker began

agentVars == <<agent, round, toolCall, database, waiting, insights, kept, tuned,
               audited, runs>>

NoToolCall == [tool |-> NoTool, state |-> "none"]
AgentPC == {"idle", "asking", "calling", "replied", "failed", "flushing"}
Finished(c) == c.state \in {"none", "ok", "fault", "blamed"}

ToolAgentsTypeOK ==
    /\ agent \in [Agents -> AgentPC]
    /\ round \in [Agents -> 0..MaxRounds]
    /\ toolCall \in [Agents -> [Slots ->
          [tool : ChatTools \cup WorkerTools \cup {NoTool},
           state : {"none", "called", "running", "ok", "fault", "blamed"}]]]
    /\ database \in [Chats -> {"fresh", "connecting", "open", "broken"}]
    /\ waiting \in [Workers -> 0..PoolSize]
    /\ insights \in [Workers -> 0..(MaxRounds * Cardinality(Slots))]
    /\ kept \in [Workers -> 0..(MaxRounds * Cardinality(Slots))]
    /\ tuned \in BOOLEAN
    /\ audited \in BOOLEAN
    /\ runs \in [Workers -> 0..MaxRuns]

ToolAgentsInit ==
    /\ agent = [a \in Agents |-> "idle"]
    /\ round = [a \in Agents |-> 0]
    /\ toolCall = [a \in Agents |-> [s \in Slots |-> NoToolCall]]
    /\ database = [c \in Chats |-> "fresh"]
    /\ waiting = [w \in Workers |-> 0]
    /\ insights = [w \in Workers |-> 0]
    /\ kept = [w \in Workers |-> 0]
    /\ tuned = FALSE /\ audited = FALSE
    /\ runs = [w \in Workers |-> 0]

-----------------------------------------------------------------------------
(* The rounds.                                                               *)

Begin(a) ==
    /\ agent[a] = "idle"
    /\ a \in Workers => runs[a] < MaxRuns
    /\ agent' = [agent EXCEPT ![a] = "asking"]
    /\ round' = [round EXCEPT ![a] = 0]
    /\ insights' = [w \in Workers |-> IF w = a THEN 0 ELSE insights[w]]
    /\ kept' = [w \in Workers |-> IF w = a THEN 0 ELSE kept[w]]
    /\ runs' = [w \in Workers |-> IF w = a THEN runs[w] + 1 ELSE runs[w]]
    /\ UNCHANGED <<toolCall, database, waiting, tuned, audited>>

\* where an agent goes with its last answer
After(a) == IF a \in Chats THEN "replied" ELSE "flushing"

\* the model answers without a tool call
ModelReplies(a) ==
    /\ agent[a] = "asking"
    /\ agent' = [agent EXCEPT ![a] = After(a)]
    /\ UNCHANGED <<round, toolCall, database, waiting, insights, kept, tuned,
                   audited, runs>>

\* it calls tools, if only against the last round's tool_choice
ModelCalls(a) ==
    /\ agent[a] = "asking"
    /\ \E tools \in [Slots -> ToolsOf(a) \cup {NoTool}] :
         /\ tools # [s \in Slots |-> NoTool]
         /\ toolCall' = [toolCall EXCEPT ![a] = [s \in Slots |->
              IF tools[s] = NoTool THEN NoToolCall
              ELSE [tool |-> tools[s], state |-> "called"]]]
    /\ agent' = [agent EXCEPT ![a] = "calling"]
    /\ UNCHANGED <<round, database, waiting, insights, kept, tuned, audited, runs>>

\* arguments that are no JSON raise before a tool runs: the chat answers 500,
\* the worker's run ends with what it had buffered
BadArguments(a) ==
    /\ agent[a] = "asking"
    /\ agent' = [agent EXCEPT ![a] = IF a \in Chats THEN "failed" ELSE "idle"]
    /\ insights' = [w \in Workers |-> IF w = a THEN 0 ELSE insights[w]]
    /\ UNCHANGED <<round, toolCall, database, waiting, kept, tuned, audited, runs>>

\* the model fails: the chat answers 502, the worker keeps what it has
ModelFails(a) ==
    /\ agent[a] = "asking"
    /\ agent' = [agent EXCEPT ![a] = IF a \in Chats THEN "failed" ELSE "flushing"]
    /\ UNCHANGED <<round, toolCall, database, waiting, insights, kept, tuned,
                   audited, runs>>

\* a Collect that goes on with the first answer
CollectFirst(a) ==
    /\ agent[a] = "calling"
    /\ \E s \in Slots : toolCall[a][s].state \in {"ok", "fault", "blamed"}
    /\ round' = [round EXCEPT ![a] = @ + 1]
    /\ agent' = [agent EXCEPT ![a] =
                   IF round'[a] = MaxRounds THEN After(a) ELSE "asking"]
    /\ UNCHANGED <<toolCall, database, waiting, insights, kept, tuned, audited, runs>>

\* gather has every answer: on to the next round, or out of rounds
Collect(a) ==
    /\ agent[a] = "calling"
    /\ \A s \in Slots : Finished(toolCall[a][s])
    /\ toolCall' = [toolCall EXCEPT ![a] = [s \in Slots |-> NoToolCall]]
    /\ round' = [round EXCEPT ![a] = @ + 1]
    /\ agent' = [agent EXCEPT ![a] =
                   IF round'[a] = MaxRounds THEN After(a) ELSE "asking"]
    /\ UNCHANGED <<database, waiting, insights, kept, tuned, audited, runs>>

-----------------------------------------------------------------------------
(* The tools.  A call ends "ok", by a "fault" of its own, or "blamed" for    *)
(* what another call did.                                                    *)

End(a, s, state) == toolCall' = [toolCall EXCEPT ![a][s].state = state]

\* no database: the telemetry services, the worker's note about health, a
\* name no tool has
PlainTool(a, s) ==
    /\ toolCall[a][s].state = "called"
    /\ \/ toolCall[a][s].tool \in Telemetry
          /\ \E e \in {"ok", "fault"} : End(a, s, e)
       \/ a \in Workers /\ toolCall[a][s].tool = "check_service_health" /\ End(a, s, "ok")
       \/ toolCall[a][s].tool = Unknown /\ End(a, s, "fault")
    /\ UNCHANGED <<agent, round, database, waiting, insights, kept, tuned,
                   audited, runs>>

\* a chat's statement: the session lets nobody in while its first statement
\* connects, nor after one that failed or was cancelled
ChatEnters(a, s) ==
    /\ a \in Chats
    /\ toolCall[a][s].state = "called"
    /\ toolCall[a][s].tool \in DOMAIN ChatStatements
    /\ \/ /\ database[a] = "fresh"
          /\ database' = [database EXCEPT ![a] = "connecting"]
          /\ End(a, s, "running")
       \/ /\ database[a] \in {"connecting", "broken"}
          /\ End(a, s, "blamed")
          /\ UNCHANGED database
       \/ /\ database[a] = "open"   \* the driver takes them one by one
          /\ End(a, s, "running")
          /\ UNCHANGED database
    /\ UNCHANGED <<agent, round, waiting, insights, kept, tuned, audited, runs>>

\* it ends: a statement the schema doesn't suit, or that times out, breaks
\* the session's transaction, which nothing rolls back
ChatStatement(a, s) ==
    /\ a \in Chats
    /\ toolCall[a][s].state = "running"
    /\ \/ /\ database[a] = "broken"
          /\ End(a, s, "blamed")
          /\ UNCHANGED database
       \/ /\ database[a] # "broken"
          /\ Sound(ChatStatements[toolCall[a][s].tool])
          /\ End(a, s, "ok")
          /\ database' = [database EXCEPT ![a] = "open"]
       \/ /\ database[a] # "broken"
          /\ End(a, s, "fault")
          /\ database' = [database EXCEPT ![a] = "broken"]
    /\ UNCHANGED <<agent, round, waiting, insights, kept, tuned, audited, runs>>

\* a worker's statement has a connection of its own, or none is free
WorkerEnters(a, s) ==
    /\ a \in Workers
    /\ toolCall[a][s].state = "called"
    /\ toolCall[a][s].tool \in DOMAIN WorkerStatements \cup {"tune_cache_threshold"}
    /\ \/ /\ waiting[a] < PoolSize
          /\ waiting' = [waiting EXCEPT ![a] = @ + 1]
          /\ End(a, s, "running")
       \/ /\ waiting[a] = PoolSize   \* its time is over before one is
          /\ End(a, s, "blamed")
          /\ UNCHANGED waiting
    /\ UNCHANGED <<agent, round, database, insights, kept, tuned, audited, runs>>

WorkerStatement(a, s) ==
    /\ a \in Workers
    /\ toolCall[a][s].state = "running"
    /\ toolCall[a][s].tool \in DOMAIN WorkerStatements
    /\ \/ Sound(WorkerStatements[toolCall[a][s].tool]) /\ End(a, s, "ok")
       \/ End(a, s, "fault")
    /\ waiting' = [waiting EXCEPT ![a] = @ - 1]
    /\ UNCHANGED <<agent, round, database, insights, kept, tuned, audited, runs>>

\* record_insight buffers
RecordInsight(a, s) ==
    /\ toolCall[a][s].state = "called"
    /\ toolCall[a][s].tool = "record_insight"
    /\ insights' = [insights EXCEPT ![a] = @ + 1]
    /\ End(a, s, "ok")
    /\ UNCHANGED <<agent, round, database, waiting, kept, tuned, audited, runs>>

\* tune_cache_threshold: the setting, then the audit row, each on its own
Tune(a, s) ==
    /\ toolCall[a][s].state = "running"
    /\ toolCall[a][s].tool = "tune_cache_threshold"
    /\ \/ tuned' = TRUE /\ audited' = TRUE /\ Sound(TuneWrites) /\ End(a, s, "ok")
       \/ tuned' = TRUE /\ UNCHANGED audited /\ End(a, s, "fault")
       \/ UNCHANGED <<tuned, audited>> /\ End(a, s, "fault")
    /\ waiting' = [waiting EXCEPT ![a] = @ - 1]
    /\ UNCHANGED <<agent, round, database, insights, kept, runs>>

-----------------------------------------------------------------------------
(* The worker's insights: row by row, each committed by itself; an error     *)
(* leaves the rest.                                                          *)

FlushOne(w) ==
    /\ agent[w] = "flushing"
    /\ kept[w] < insights[w]
    /\ kept' = [kept EXCEPT ![w] = @ + 1]
    /\ UNCHANGED <<agent, round, toolCall, database, waiting, insights, tuned, audited,
                   runs>>

EndRun(w) ==
    /\ agent[w] = "flushing"
    /\ agent' = [agent EXCEPT ![w] = "idle"]
    /\ insights' = [insights EXCEPT ![w] = 0]
    /\ UNCHANGED <<round, toolCall, database, waiting, kept, tuned, audited, runs>>

-----------------------------------------------------------------------------
RoundNext(a) ==
    \/ Begin(a) \/ ModelReplies(a) \/ ModelCalls(a) \/ BadArguments(a)
    \/ ModelFails(a) \/ Collect(a)
    \/ \E s \in Slots : PlainTool(a, s)

ChatAgentsNext ==
    \E a \in Chats : \/ RoundNext(a)
                     \/ \E s \in Slots : ChatEnters(a, s) \/ ChatStatement(a, s)

WorkersNext ==
    \E w \in Workers :
       \/ RoundNext(w) \/ FlushOne(w) \/ EndRun(w)
       \/ \E s \in Slots : \/ WorkerEnters(w, s) \/ WorkerStatement(w, s)
                           \/ RecordInsight(w, s) \/ Tune(w, s)

ToolAgentsNext == ChatAgentsNext \/ WorkersNext

ToolAgentsSpec == ToolAgentsInit /\ [][ToolAgentsNext]_agentVars

-----------------------------------------------------------------------------
(* No tool outlives its round: when the model is asked again, the reply is   *)
(* out or the insights are being stored, every call has ended and given its  *)
(* connection back, so that no write of a tool comes after the answer.       *)
NoToolOutlivesItsRound ==
    /\ \A a \in Agents : agent[a] # "calling" =>
         \A s \in Slots : toolCall[a][s] = NoToolCall
    /\ \A w \in Workers : agent[w] # "calling" => waiting[w] = 0

\* the tool calls of a round run side by side, none in the way of another
NoneInTheWay == \A a \in Agents, s \in Slots : toolCall[a][s].state # "blamed"
=============================================================================
