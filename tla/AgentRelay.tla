----------------------------- MODULE AgentRelay -----------------------------
(***************************************************************************)
(* The agent relay (services/agent-relay/app/main.py): a laptop registers  *)
(* a slug and gets a token, opens a WebSocket with it, and answers the     *)
(* invocations the workflow-worker posts for the slug.  One asyncio        *)
(* process keeps four dictionaries; Redis keeps the token of a slug for    *)
(* the identity service.  One action is what happens between two awaits.   *)
(*                                                                         *)
(* A laptop connects once per registration, as aigw-agent does, unless     *)
(* TokenReuse; it answers what it received on the same socket, or never.   *)
(***************************************************************************)
EXTENDS Integers

CONSTANTS
    Slug,
    Token,          \* relay_tokens, numbered in the order they are issued
    Sock,           \* WebSocket connections
    Call,           \* invocations
    MaxRestarts,    \* bound on restarts of the relay
    TokenReuse,     \* may a laptop connect again with the same token?
    RedisMayFail    \* may single Redis commands fail?

ASSUME RelayAssumption ==
    /\ Token \subseteq Nat \ {0}
    /\ MaxRestarts \in Nat
    /\ TokenReuse \in BOOLEAN /\ RedisMayFail \in BOOLEAN

None == 0           \* no token
NoSlug == "none"
NoSock == "none"

ASSUME NamesAreFree == NoSlug \notin Slug /\ NoSock \notin Sock

VARIABLES
    owner,      \* _registered_agents: the slug a token was registered for
    latest,     \* _slug_to_token
    conn,       \* _connections
    future,     \* _pending: the future of an invocation
    reg,        \* register's progress for a token
    sock,       \* the connect handler of a socket, and its token
    call,       \* the invoke handler, and the socket it found
    sent,       \* <<socket, invocation>>: what reached a laptop
    redis,      \* relay:agent:{slug}:token
    restarts

vars == <<owner, latest, conn, future, reg, sock, call, sent, redis, restarts>>

\* "gone": the finally block has ended; "cut": a restart closed the socket first.
SockStates == {"unused", "open", "lost", "forgetting", "gone", "cut"}
Outcomes == {"200", "502", "503", "504", "aborted"}
CallStates == {"idle", "sending", "waiting"} \cup Outcomes

\* The dictionaries and the Redis key hold what the handlers put there, and a
\* handler past its lookup has found a socket.
TypeOK ==
    /\ owner \in [Token -> Slug \cup {NoSlug}]
    /\ latest \in [Slug -> Token \cup {None}]
    /\ conn \in [Token -> Sock \cup {NoSock}]
    /\ future \in [Call -> {"none", "waiting", "done"}]
    /\ reg \in [Token -> {"none", "writing", "done"}]
    /\ sock \in [Sock -> [st : SockStates, token : Token \cup {None}]]
    /\ \A k \in Sock : sock[k].st # "unused" => sock[k].token \in Token
    /\ call \in [Call -> [st : CallStates, sock : Sock \cup {NoSock}]]
    /\ \A c \in Call : call[c].st \in {"sending", "waiting"} => call[c].sock \in Sock
    /\ sent \subseteq Sock \X Call
    /\ redis \in [Slug -> Token \cup {None}]
    /\ restarts \in Nat

Init ==
    /\ owner = [t \in Token |-> NoSlug]
    /\ latest = [s \in Slug |-> None]
    /\ conn = [t \in Token |-> NoSock]
    /\ future = [c \in Call |-> "none"]
    /\ reg = [t \in Token |-> "none"]
    /\ sock = [k \in Sock |-> [st |-> "unused", token |-> None]]
    /\ call = [c \in Call |-> [st |-> "idle", sock |-> NoSock]]
    /\ sent = {}
    /\ redis = [s \in Slug |-> None]
    /\ restarts = 0

\* A Redis command whose exception the caller swallows.
RedisSet(s, value) ==
    \/ redis' = [redis EXCEPT ![s] = value]
    \/ RedisMayFail /\ UNCHANGED redis

-----------------------------------------------------------------------------
(* register                                                                *)

\* In memory the new token replaces the slug's old one at once ...
Register(s, t) ==
    /\ reg[t] = "none"
    /\ \A u \in Token : u < t => reg[u] # "none"
    /\ owner' = [owner EXCEPT ![t] = s]
    /\ latest' = [latest EXCEPT ![s] = t]
    /\ reg' = [reg EXCEPT ![t] = "writing"]
    /\ UNCHANGED <<conn, future, sock, call, sent, redis, restarts>>

\* ... and in Redis when the command gets there; then the laptop is answered.
PersistToken(t) ==
    /\ reg[t] = "writing"
    /\ RedisSet(owner[t], t)
    /\ reg' = [reg EXCEPT ![t] = "done"]
    /\ UNCHANGED <<owner, latest, conn, future, sock, call, sent, restarts>>

\* The key lives 3600 s.
TokenExpires(s) ==
    /\ redis[s] # None
    /\ redis' = [redis EXCEPT ![s] = None]
    /\ UNCHANGED <<owner, latest, conn, future, reg, sock, call, sent, restarts>>

-----------------------------------------------------------------------------
(* connect                                                                 *)

\* Accepting a socket; a token this process did not issue is refused.
Connect(k, t) ==
    /\ sock[k].st = "unused"
    /\ reg[t] = "done" /\ owner[t] # NoSlug
    /\ TokenReuse \/ \A l \in Sock : sock[l].token # t
    /\ sock' = [sock EXCEPT ![k] = [st |-> "open", token |-> t]]
    /\ conn' = [conn EXCEPT ![t] = k]
    /\ UNCHANGED <<owner, latest, future, reg, call, sent, redis, restarts>>

\* The laptop or the network drops the connection.
Disconnect(k) ==
    /\ sock[k].st = "open"
    /\ sock' = [sock EXCEPT ![k].st = "lost"]
    /\ UNCHANGED <<owner, latest, conn, future, reg, call, sent, redis, restarts>>

\* A message of the laptop: it resolves the future of the invocation it names;
\* an unknown or a resolved one is ignored.
Reply(k, c) ==
    /\ sock[k].st = "open" /\ <<k, c>> \in sent
    /\ future[c] = "waiting"
    /\ future' = [future EXCEPT ![c] = "done"]
    /\ UNCHANGED <<owner, latest, conn, reg, sock, call, sent, redis, restarts>>

\* _slug_to_token is dropped only while it still points to this token.
DropRoute_Always(s, t) == latest' = [latest EXCEPT ![s] = None]
DropRoute(s, t) == latest' = [latest EXCEPT ![s] = IF @ = t THEN None ELSE @]

\* receive_text raises: the finally block up to its await.
Unregister(k) ==
    /\ sock[k].st = "lost"
    /\ conn' = [conn EXCEPT ![sock[k].token] = NoSock]
    /\ DropRoute(owner[sock[k].token], sock[k].token)
    /\ sock' = [sock EXCEPT ![k].st = "forgetting"]
    /\ UNCHANGED <<owner, future, reg, call, sent, redis, restarts>>

\* The Redis key is deleted whichever token it holds.
ForgetToken_IfRouted(k) ==
    IF latest[owner[sock[k].token]] = None
    THEN RedisSet(owner[sock[k].token], None)
    ELSE UNCHANGED redis
ForgetToken(k) == RedisSet(owner[sock[k].token], None)

Forget(k) ==
    /\ sock[k].st = "forgetting"
    /\ ForgetToken(k)
    /\ sock' = [sock EXCEPT ![k].st = "gone"]
    /\ UNCHANGED <<owner, latest, conn, future, reg, call, sent, restarts>>

-----------------------------------------------------------------------------
(* invoke                                                                  *)

Routed_Unchecked(s) == latest[s] # None
Routed(s) == latest[s] # None /\ conn[latest[s]] # NoSock

End(c, outcome) ==
    /\ call' = [call EXCEPT ![c].st = outcome]
    /\ future' = [future EXCEPT ![c] = "none"]

\* The lookup: 503, or a future and the socket found.
Invoke(c, s) ==
    /\ call[c].st = "idle"
    /\ \/ ~Routed(s) /\ End(c, "503")
       \/ /\ Routed(s)
          /\ call' = [call EXCEPT ![c] = [st |-> "sending", sock |-> conn[latest[s]]]]
          /\ future' = [future EXCEPT ![c] = "waiting"]
    /\ UNCHANGED <<owner, latest, conn, reg, sock, sent, redis, restarts>>

\* send_text: on a lost connection it raises (502) or the message is lost.
Send(c) ==
    /\ call[c].st = "sending"
    /\ \/ /\ sock[call[c].sock].st = "open"
          /\ sent' = sent \cup {<<call[c].sock, c>>}
          /\ call' = [call EXCEPT ![c].st = "waiting"]
          /\ UNCHANGED future
       \/ /\ sock[call[c].sock].st # "open"
          /\ \/ End(c, "502")
             \/ call' = [call EXCEPT ![c].st = "waiting"] /\ UNCHANGED future
          /\ UNCHANGED sent
    /\ UNCHANGED <<owner, latest, conn, reg, sock, redis, restarts>>

\* The laptop's answer, or 502 if its exit_code is no number.
Answered_Anyway(c) == call[c].st = "waiting"
Answered(c) == call[c].st = "waiting" /\ future[c] = "done"

Return(c) ==
    /\ Answered(c)
    /\ End(c, "200") \/ End(c, "502")
    /\ UNCHANGED <<owner, latest, conn, reg, sock, sent, redis, restarts>>

\* wait_for gives up after 300 s, even if the answer has just been set.
TimesOut_OnlyWhileConnected(c) ==
    call[c].st = "waiting" /\ sock[call[c].sock].st = "open"
TimesOut(c) == call[c].st = "waiting"

GiveUp(c) ==
    /\ TimesOut(c)
    /\ End(c, "504")
    /\ UNCHANGED <<owner, latest, conn, reg, sock, sent, redis, restarts>>

-----------------------------------------------------------------------------

\* What Redis may hold of s after a crash: what it had, or what a command that
\* was under way has written.
LeftInRedis(s) ==
    {redis[s]} \cup {t \in Token : reg[t] = "writing" /\ owner[t] = s}
               \cup {n \in {None} : \E k \in Sock : /\ sock[k].st = "forgetting"
                                                    /\ owner[sock[k].token] = s}

\* The process restarts: its dictionaries are empty, its sockets closed and
\* its callers cut off.  Nothing deletes the tokens in Redis.
Restart ==
    /\ restarts < MaxRestarts
    /\ restarts' = restarts + 1
    /\ owner' = [t \in Token |-> NoSlug]
    /\ latest' = [s \in Slug |-> None]
    /\ conn' = [t \in Token |-> NoSock]
    /\ future' = [c \in Call |-> "none"]
    /\ reg' = [t \in Token |-> IF reg[t] = "writing" THEN "done" ELSE reg[t]]
    /\ sock' = [k \in Sock |-> IF sock[k].st \in {"open", "lost", "forgetting"}
                               THEN [sock[k] EXCEPT !.st = "cut"] ELSE sock[k]]
    /\ call' = [c \in Call |-> IF call[c].st \in {"sending", "waiting"}
                               THEN [call[c] EXCEPT !.st = "aborted"] ELSE call[c]]
    /\ redis' \in {f \in [Slug -> Token \cup {None}] : \A s \in Slug : f[s] \in LeftInRedis(s)}
    /\ UNCHANGED sent

Handler ==
    \/ \E t \in Token : PersistToken(t)
    \/ \E k \in Sock : Unregister(k) \/ Forget(k)
    \/ \E c \in Call : Send(c) \/ Return(c) \/ GiveUp(c)

Next ==
    \/ \E s \in Slug, t \in Token : Register(s, t)
    \/ \E s \in Slug : TokenExpires(s)
    \/ \E k \in Sock, t \in Token : Connect(k, t)
    \/ \E k \in Sock : Disconnect(k)
    \/ \E k \in Sock, c \in Call : Reply(k, c)
    \/ \E c \in Call, s \in Slug : Invoke(c, s)
    \/ Handler
    \/ Restart

Spec == Init /\ [][Next]_vars

\* asyncio resumes every handler and the 300 s of an invocation pass; nothing
\* obliges a laptop to register, to stay or to answer.
FairSpec ==
    /\ Spec
    /\ \A c \in Call : WF_vars(Send(c)) /\ WF_vars(Return(c) \/ GiveUp(c))
    /\ \A k \in Sock : WF_vars(Unregister(k)) /\ WF_vars(Forget(k))
    /\ \A t \in Token : WF_vars(PersistToken(t))

-----------------------------------------------------------------------------
(* What must hold.                                                         *)

\* t is the last token this process issued for its slug.
Newest(t) == /\ owner[t] # NoSlug
             /\ \A u \in Token : owner[u] = owner[t] => u <= t

\* The laptop that registered a slug last is reachable as long as it is
\* connected, whenever the sessions it replaced close.
LatestAgentReachable ==
    \A k \in Sock : sock[k].st = "open" /\ Newest(sock[k].token) =>
        /\ latest[owner[sock[k].token]] = sock[k].token
        /\ conn[sock[k].token] = k

\* Once a session has ended through its finally block, Redis holds its token
\* under no slug, in whatever order the commands of several sessions arrived.
NoTokenOutlivesItsSession ==
    \A s \in Slug, k \in Sock : sock[k].st = "gone" => redis[s] # sock[k].token

\* A token that a restart left behind (its session had no finally block) is out
\* of Redis as soon as this process has answered a registration of its slug.
OrphansAreReplaced ==
    \A s \in Slug, t \in Token : redis[s] = t /\ owner[t] = NoSlug =>
        \A u \in Token : owner[u] = s => reg[u] = "writing"

\* Redis gates heartbeats with the token of an ended session only from a
\* restart until the slug is registered again (or the key's 3600 s are over).
TokensAreCurrent == NoTokenOutlivesItsSession /\ OrphansAreReplaced

\* What the workflow-worker knows of an invocation, and which ones some laptop
\* was handed.
CallerView ==
    [c \in Call |->
        CASE call[c].st = "idle" -> "idle"
          [] call[c].st \in {"sending", "waiting"} -> "asked"
          [] call[c].st = "200" -> "succeeded"
          [] OTHER -> "failed"]
Handed == {c \in Call : \E k \in Sock : <<k, c>> \in sent}

\* Calls are delivered at most once, and succeed only if delivered.
R == INSTANCE RemoteCall WITH call <- CallerView, delivered <- Handed
ImplementsRemoteCall == R!Spec

\* Every invocation is answered one way or another.
EveryCallEnds ==
    \A c \in Call : (call[c].st = "sending") ~> (call[c].st \in Outcomes)

\* An invocation does not run into its timeout when the relay has long seen
\* its laptop disconnect.
DisconnectIsReported ==
    [][\A c \in Call : call'[c].st = "504" /\ call[c].st = "waiting" =>
          sock[call[c].sock].st \in {"open", "lost"}]_vars
=============================================================================
