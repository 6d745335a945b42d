--------------------------- MODULE McpTransport ---------------------------
(***************************************************************************)
(* JSON-RPC over HTTP and SSE, as the librarian, graphify and the admin    *)
(* service (the copilot catalog) each implement it.  A client opens an     *)
(* event stream, posts calls to the address the stream names and receives  *)
(* the answers on it.  The table of streams is one dictionary of one       *)
(* process; a call is answered after its tool has run, with the streams    *)
(* that are there by then.                                                 *)
(***************************************************************************)
EXTENDS Integers, Sequences, FiniteSets, SequencesExt

CONSTANTS
    Streams,     \* connections of GET .../sse, each opened at most once
    Posts,       \* POST .../mcp calls, each made at most once
    Callers,     \* bearers of an sk- key
    Processes,   \* replicas of the service
    NoStream

ASSUME TransportAssumption == NoStream \notin Streams

VARIABLES
    service,     \* which of the three implementations this is
    valid,       \* keys the auth service accepts
    stream,      \* each stream: opener, process, queue, what was sent on it
    reply        \* each call and how it was answered

transportVars == <<service, valid, stream, reply>>

Services == {"librarian", "graphify", "catalog"}
Bound == service # "catalog"   \* a stream belongs to the key that opened it

Connected == [pc : {"open", "closed"}, by : Callers, at : Processes,
              queue : Seq(Posts), sent : Seq(Posts)]
NoConnection == [pc |-> "none"]
Posted == [pc : {"running", "http", "stream", "forbidden", "lost"}, by : Callers,
           at : Processes, to : Streams \cup {NoStream}, ran : BOOLEAN]
NotPosted == [pc |-> "none"]

TransportTypeOK ==
    /\ service \in Services
    /\ valid \in SUBSET Callers
    /\ \A s \in Streams : stream[s] \in Connected \cup {NoConnection}
    /\ \A k \in Posts : reply[k] \in Posted \cup {NotPosted}

TransportInit ==
    /\ service \in Services
    /\ valid = Callers
    /\ stream = [s \in Streams |-> NoConnection]
    /\ reply = [k \in Posts |-> NotPosted]

\* An administrator revokes a key; its streams stay open.
RevokeCaller(c) ==
    /\ valid' = valid \ {c}
    /\ valid' # valid
    /\ UNCHANGED <<service, stream, reply>>

\* The process notes the stream under a fresh name.
StreamsTo(s, c, p) ==
    /\ stream[s] = NoConnection
    /\ stream' = [stream EXCEPT ![s] = [pc |-> "open", by |-> c, at |-> p,
                                        queue |-> <<>>, sent |-> <<>>]]
    /\ UNCHANGED <<service, valid, reply>>

\* mcp_sse, for a key that is valid; sse_endpoint of the admin service.
OpenStream(s, c, p) == Bound /\ c \in valid /\ StreamsTo(s, c, p)
OpenSharedStream(s, c, p) == ~Bound /\ StreamsTo(s, c, p)

\* The generator yields the oldest queued answer.
Deliver(s) ==
    /\ stream[s].pc = "open"
    /\ stream[s].queue # <<>>
    /\ stream' = [stream EXCEPT ![s].queue = Tail(@),
                                ![s].sent = Append(@, Head(stream[s].queue))]
    /\ UNCHANGED <<service, valid, reply>>

\* The client goes away: the entry is popped, what was queued is dropped.
CloseStream(s) ==
    /\ stream[s].pc = "open"
    /\ stream' = [stream EXCEPT ![s].pc = "closed", ![s].queue = <<>>]
    /\ UNCHANGED <<service, valid, reply>>

\* A call arrives, at whatever replica the balancer picks, with the session of
\* some stream or none.
Post(k, c, p, ran) ==
    /\ reply[k] = NotPosted
    /\ \E s \in {x \in Streams : stream[x] # NoConnection} \cup {NoStream} :
          reply' = [reply EXCEPT ![k] = [pc |-> "running", by |-> c, at |-> p,
                                         to |-> s, ran |-> ran]]
    /\ UNCHANGED <<service, valid, stream>>

\* initialize, tools/list, ping: they describe the server.
Describe(k, c, p) == Post(k, c, p, FALSE)

\* tools/call: resolve_caller, which the catalog does not ask, then the tool.  A
\* key that fails is answered with an error, which takes a result's way back.
CallTool(k, c, p) == Post(k, c, p, Bound => c \in valid)

Live(s, p) == s # NoStream /\ stream[s].pc = "open" /\ stream[s].at = p

\* _relay_or_return: an unknown session is answered over HTTP, one of another
\* key is refused, although the tool has run, and the rest is queued.
RelayToAnyBearer(k) ==
    LET q == reply[k] IN
    /\ Bound
    /\ q.pc = "running"
    /\ IF ~Live(q.to, q.at)
       THEN reply' = [reply EXCEPT ![k].pc = "http"] /\ UNCHANGED stream
       ELSE /\ reply' = [reply EXCEPT ![k].pc = "stream"]
            /\ stream' = [stream EXCEPT ![q.to].queue = Append(@, k)]
    /\ UNCHANGED <<service, valid>>

Relay(k) ==
    LET q == reply[k] IN
    /\ Bound
    /\ q.pc = "running"
    /\ IF ~Live(q.to, q.at)
       THEN reply' = [reply EXCEPT ![k].pc = "http"] /\ UNCHANGED stream
       ELSE IF stream[q.to].by # q.by
       THEN reply' = [reply EXCEPT ![k].pc = "forbidden"] /\ UNCHANGED stream
       ELSE /\ reply' = [reply EXCEPT ![k].pc = "stream"]
            /\ stream' = [stream EXCEPT ![q.to].queue = Append(@, k)]
    /\ UNCHANGED <<service, valid>>

\* handle_and_push_sse: answered over HTTP and pushed to every stream of the
\* process, whoever opened it.
Broadcast(k) ==
    /\ ~Bound
    /\ reply[k].pc = "running"
    /\ reply' = [reply EXCEPT ![k].pc = "http"]
    /\ stream' = [s \in Streams |-> IF Live(s, reply[k].at)
                                    THEN [stream[s] EXCEPT !.queue = Append(@, k)]
                                    ELSE stream[s]]
    /\ UNCHANGED <<service, valid>>

\* A replica dies with its streams, their queues and the calls it was serving.
ProcessDies(p) ==
    /\ \E s \in Streams : Live(s, p)
    /\ stream' = [s \in Streams |-> IF Live(s, p)
                                    THEN [stream[s] EXCEPT !.pc = "closed", !.queue = <<>>]
                                    ELSE stream[s]]
    /\ reply' = [k \in Posts |-> IF reply[k].pc = "running" /\ reply[k].at = p
                                 THEN [reply[k] EXCEPT !.pc = "lost"] ELSE reply[k]]
    /\ UNCHANGED <<service, valid>>

TransportNext ==
    \/ \E c \in Callers :
          \/ RevokeCaller(c)
          \/ \E p \in Processes :
                \/ \E s \in Streams : OpenStream(s, c, p) \/ OpenSharedStream(s, c, p)
                \/ \E k \in Posts : Describe(k, c, p) \/ CallTool(k, c, p)
    \/ \E s \in Streams : Deliver(s) \/ CloseStream(s)
    \/ \E k \in Posts : Relay(k) \/ Broadcast(k)
    \/ \E p \in Processes : ProcessDies(p)

TransportSpec == TransportInit /\ [][TransportNext]_transportVars

---------------------------------------------------------------------------
\* What a stream holds or has sent.
On(s) == IF stream[s] = NoConnection THEN <<>> ELSE stream[s].sent \o stream[s].queue

(* Whatever sessions calls name, wherever they are served and whatever     *)
(* closes while a tool runs, a stream of the librarian or of graphify      *)
(* carries only answers to calls its own key posted to it, each once, and  *)
(* a call accepted for a stream (202) was not answered otherwise, and is   *)
(* on that stream until it closes (mcp_jsonrpc, mcp_sse).                  *)
AnswerReachesAsker ==
    Bound =>
        /\ \A s \in Streams :
              /\ IsInjective(On(s))
              /\ \A k \in ToSet(On(s)) :
                    /\ reply[k].pc = "stream"
                    /\ reply[k].to = s
                    /\ reply[k].by = stream[s].by
        /\ \A k \in Posts :
              reply[k].pc = "stream" /\ stream[reply[k].to].pc = "open" =>
                  k \in ToSet(On(reply[k].to))
=============================================================================
