-------------------------- MODULE AgentRelay_proofs --------------------------
(***************************************************************************)
(* Proofs about AgentRelay: its types, the routing of a slug to the laptop *)
(* that registered it last, the Redis token of an ended session, and that  *)
(* it implements RemoteCall.                                               *)
(***************************************************************************)
EXTENDS AgentRelay, TLAPS

USE RelayAssumption, NamesAreFree

\* The relay starts well typed.
LEMMA TypeInit == Init => TypeOK
BY DEF Init, TypeOK, SockStates, CallStates, None

\* The handlers of a laptop keep the dictionaries well typed.
LEMMA TypeLaptop ==
  ASSUME TypeOK, NEW k \in Sock,
         \/ \E t \in Token : Connect(k, t)
         \/ Disconnect(k) \/ Unregister(k) \/ Forget(k) \/ \E c \in Call : Reply(k, c)
  PROVE  TypeOK'
<1>1. CASE \E t \in Token : Connect(k, t)
  BY <1>1 DEF TypeOK, Connect, SockStates
<1>2. CASE Disconnect(k)
  BY <1>2 DEF TypeOK, Disconnect, SockStates
<1>3. CASE Unregister(k)
  BY <1>3, ZenonT(60) DEF TypeOK, Unregister, DropRoute, SockStates
<1>4. CASE Forget(k)
  BY <1>4, SMTT(30) DEF TypeOK, Forget, ForgetToken, RedisSet, SockStates
<1>5. CASE \E c \in Call : Reply(k, c)
  BY <1>5 DEF TypeOK, Reply
<1> QED BY <1>1, <1>2, <1>3, <1>4, <1>5

\* So do the handlers of a caller.
LEMMA TypeCaller ==
  ASSUME TypeOK, NEW c \in Call,
         \/ \E s \in Slug : Invoke(c, s)
         \/ Send(c) \/ Return(c) \/ GiveUp(c)
  PROVE  TypeOK'
<1> DEFINE Typed(x, f) ==
      /\ x \in [Call -> [st : CallStates, sock : Sock \cup {NoSock}]]
      /\ \A d \in Call : x[d].st \in {"sending", "waiting"} => x[d].sock \in Sock
      /\ f \in [Call -> {"none", "waiting", "done"}]
<1>1. ASSUME NEW o \in Outcomes, End(c, o) PROVE Typed(call', future')
  <2>1. o \in CallStates /\ o \notin {"sending", "waiting"}
    BY DEF CallStates, Outcomes
  <2> QED BY <1>1, <2>1 DEF TypeOK, End
<1>2. ASSUME NEW s \in Slug, Invoke(c, s) PROVE TypeOK'
  <2>1. Routed(s) => conn[latest[s]] \in Sock
    BY DEF TypeOK, Routed
  <2>2. ASSUME Routed(s),
               call' = [call EXCEPT ![c] = [st |-> "sending", sock |-> conn[latest[s]]]],
               future' = [future EXCEPT ![c] = "waiting"]
        PROVE  Typed(call', future')
    BY <2>1, <2>2 DEF TypeOK, CallStates
  <2>3. Typed(call', future')
    BY <1>1, <1>2, <2>2 DEF Invoke, Outcomes
  <2> QED BY <1>2, <2>3 DEF TypeOK, Invoke
<1>3. ASSUME Send(c) PROVE TypeOK'
  <2>1. ASSUME call' = [call EXCEPT ![c].st = "waiting"], UNCHANGED future
        PROVE  Typed(call', future')
    <3>1. call[c].sock \in Sock
      BY <1>3 DEF TypeOK, Send
    <3> QED BY <2>1, <3>1 DEF TypeOK, CallStates
  <2>2. Typed(call', future')
    BY <1>1, <1>3, <2>1 DEF Send, Outcomes
  <2>3. sent' \subseteq Sock \X Call
    BY <1>3 DEF TypeOK, Send
  <2> QED BY <1>3, <2>2, <2>3 DEF TypeOK, Send
<1>4. ASSUME Return(c) \/ GiveUp(c) PROVE TypeOK'
  <2>1. Typed(call', future')
    BY <1>1, <1>4 DEF Return, GiveUp, Outcomes
  <2> QED BY <1>4, <2>1 DEF TypeOK, Return, GiveUp
<1> QED BY <1>2, <1>3, <1>4

\* Every step keeps the dictionaries well typed.
LEMMA TypeStep == ASSUME TypeOK, [Next]_vars PROVE TypeOK'
<1>1. ASSUME NEW s \in Slug, NEW t \in Token, Register(s, t) PROVE TypeOK'
  BY <1>1 DEF TypeOK, Register
<1>2. ASSUME NEW t \in Token, PersistToken(t) PROVE TypeOK'
  BY <1>2 DEF TypeOK, PersistToken, RedisSet
<1>3. ASSUME NEW s \in Slug, TokenExpires(s) PROVE TypeOK'
  BY <1>3 DEF TypeOK, TokenExpires
<1>4. ASSUME Restart PROVE TypeOK'
  <2>1. /\ sock' \in [Sock -> [st : SockStates, token : Token \cup {None}]]
        /\ \A k \in Sock : sock'[k].st # "unused" => sock'[k].token \in Token
    BY <1>4 DEF TypeOK, Restart, SockStates
  <2>2. /\ call' \in [Call -> [st : CallStates, sock : Sock \cup {NoSock}]]
        /\ \A c \in Call : call'[c].st \in {"sending", "waiting"} => call'[c].sock \in Sock
    BY <1>4 DEF TypeOK, Restart, CallStates, Outcomes
  <2> QED BY <1>4, <2>1, <2>2 DEF TypeOK, Restart
<1>5. CASE UNCHANGED vars
  BY <1>5 DEF TypeOK, vars
<1> QED BY <1>1, <1>2, <1>3, <1>4, <1>5, TypeLaptop, TypeCaller DEF Next, Handler

\* The dictionaries are well typed in every reachable state, and invoke never
\* goes on without a socket.
THEOREM RelayTypeCorrect == Spec => []TypeOK
BY TypeInit, TypeStep, PTL DEF Spec

-----------------------------------------------------------------------------

\* Tokens are issued in order, and a socket belongs to a token given out.
Issued ==
    /\ \A t, u \in Token : reg[t] # "none" /\ u < t => reg[u] # "none"
    /\ \A t \in Token : owner[t] # NoSlug => reg[t] # "none"
    /\ \A k \in Sock : IF sock[k].st = "unused" THEN sock[k].token = None
                       ELSE reg[sock[k].token] = "done"

\* Every step keeps tokens in order.
LEMMA IssuedStep == ASSUME TypeOK, Issued, [Next]_vars PROVE Issued'
<1>1. ASSUME UNCHANGED <<owner, reg, sock>> PROVE Issued'
  BY <1>1 DEF Issued
<1>2. ASSUME NEW s \in Slug, NEW t \in Token, Register(s, t) PROVE Issued'
  BY <1>2 DEF TypeOK, Issued, Register
<1>3. ASSUME NEW t \in Token, PersistToken(t) PROVE Issued'
  BY <1>3 DEF TypeOK, Issued, PersistToken
<1>4. ASSUME NEW k \in Sock, NEW t \in Token, Connect(k, t) PROVE Issued'
  BY <1>4 DEF TypeOK, Issued, Connect, None
<1>5. ASSUME NEW k \in Sock, Disconnect(k) \/ Unregister(k) \/ Forget(k) PROVE Issued'
  BY <1>5 DEF TypeOK, Issued, Disconnect, Unregister, Forget
<1>6. ASSUME Restart PROVE Issued'
  BY <1>6 DEF TypeOK, Issued, Restart
<1>7. CASE \/ UNCHANGED vars
           \/ \E s \in Slug : TokenExpires(s)
           \/ \E l \in Sock, c \in Call : Reply(l, c)
           \/ \E c \in Call : Send(c) \/ Return(c) \/ GiveUp(c) \/ \E s \in Slug : Invoke(c, s)
  BY <1>1, <1>7 DEF vars, TokenExpires, Reply, Send, Return, GiveUp, Invoke
<1> QED BY <1>2, <1>3, <1>4, <1>5, <1>6, <1>7 DEF Next, Handler

\* No two sockets belong to one token.
OneSession ==
    \A k, l \in Sock : sock[k].token = sock[l].token /\ sock[k].token # None => k = l

\* A socket not yet unregistered is the one its token's entry points to, and
\* the newest token of a slug keeps the route until its own session ends.
Routes ==
    /\ OneSession
    /\ \A k \in Sock : sock[k].st \in {"open", "lost"} =>
          /\ owner[sock[k].token] # NoSlug
          /\ conn[sock[k].token] = k
    /\ \A t \in Token : Newest(t) =>
          \/ latest[owner[t]] = t
          \/ \E k \in Sock : sock[k].token = t /\ sock[k].st \in {"forgetting", "gone"}

\* Registering makes the new token the newest, and gives it the route.
LEMMA RoutesRegister ==
  ASSUME TypeOK, Issued, Routes, NEW s \in Slug, NEW t \in Token, Register(s, t)
  PROVE  Routes'
<1>1. OneSession'
  BY DEF OneSession, Routes, Register
<1>2. \A k \in Sock : sock[k].st # "unused" => sock[k].token # t
  BY DEF TypeOK, Issued, Register
<1>3. \A u \in Token : owner[u] # NoSlug => u < t
  BY DEF TypeOK, Issued, Register
<1>4. \A k \in Sock : sock[k].st \in {"open", "lost"} =>
        owner'[sock[k].token] # NoSlug /\ conn'[sock[k].token] = k
  BY <1>2 DEF TypeOK, Routes, Register
<1>5. ASSUME NEW u \in Token, Newest(u)', u # t
      PROVE  latest'[owner'[u]] = u \/ \E k \in Sock :
                sock'[k].token = u /\ sock'[k].st \in {"forgetting", "gone"}
  <2>1. owner'[u] = owner[u] /\ owner[u] # NoSlug /\ Newest(u) /\ owner[u] # s
    BY <1>3, <1>5 DEF TypeOK, Newest, Register
  <2> QED BY <2>1 DEF TypeOK, Routes, Register
<1>6. latest'[owner'[t]] = t
  BY DEF TypeOK, Register
<1> QED BY <1>1, <1>4, <1>5, <1>6 DEF Routes, Register

\* A laptop's session keeps the routes of the others.
LEMMA RoutesLaptop ==
  ASSUME ~TokenReuse, TypeOK, Issued, Routes, NEW k \in Sock,
         \/ \E t \in Token : Connect(k, t)
         \/ Disconnect(k) \/ Unregister(k) \/ Forget(k)
  PROVE  Routes'
<1>1. ASSUME NEW t \in Token, Connect(k, t) PROVE Routes'
  BY <1>1 DEF TypeOK, Issued, Routes, OneSession, Connect, Newest, None
<1>2. CASE Disconnect(k)
  BY <1>2 DEF TypeOK, Issued, Routes, OneSession, Disconnect, Newest
<1>3. CASE Unregister(k)
  <2> DEFINE t == sock[k].token
  <2>1. t \in Token /\ t # None /\ sock[k].st = "lost"
    BY <1>3 DEF TypeOK, Unregister, None
  <2>2. \A l \in Sock : sock[l].token = t => l = k
    BY <2>1 DEF Routes, OneSession
  <2>3. OneSession'
    BY <1>3 DEF TypeOK, OneSession, Routes, Unregister
  <2>4. \A l \in Sock : sock'[l].st \in {"open", "lost"} =>
          owner'[sock'[l].token] # NoSlug /\ conn'[sock'[l].token] = l
    BY <1>3, <2>1, <2>2 DEF TypeOK, Routes, Unregister
  <2>5. ASSUME NEW u \in Token, Newest(u)'
        PROVE  \/ latest'[owner'[u]] = u
               \/ \E l \in Sock : sock'[l].token = u /\ sock'[l].st \in {"forgetting", "gone"}
    <3>1. CASE u = t
      BY <1>3, <3>1 DEF TypeOK, Unregister
    <3>2. CASE u # t
      <4>1. owner'[u] = owner[u] /\ owner[u] \in Slug /\ Newest(u)
        BY <1>3, <2>5 DEF TypeOK, Newest, Unregister
      <4>2. latest[owner[u]] = u => latest'[owner[u]] = u
        BY <1>3, <3>2, <4>1 DEF TypeOK, Unregister, DropRoute
      <4> QED BY <1>3, <4>1, <4>2 DEF TypeOK, Routes, Unregister
    <3> QED BY <3>1, <3>2
  <2> QED BY <2>3, <2>4, <2>5 DEF Routes
<1>4. CASE Forget(k)
  <2>1. /\ UNCHANGED <<owner, latest, conn>>
        /\ \A l \in Sock : /\ sock'[l].token = sock[l].token
                           /\ sock'[l].st = IF l = k THEN "gone" ELSE sock[l].st
    BY <1>4 DEF TypeOK, Forget
  <2>2. OneSession'
    BY <2>1 DEF OneSession, Routes
  <2>3. \A t \in Token : Newest(t)' = Newest(t)
    BY <2>1 DEF Newest
  <2> QED BY <2>1, <2>2, <2>3 DEF Routes
<1> QED BY <1>1, <1>2, <1>3, <1>4

\* Every step keeps the routes.
LEMMA RoutesStep ==
  ASSUME ~TokenReuse, TypeOK, Issued, Routes, [Next]_vars PROVE Routes'
<1>1. ASSUME UNCHANGED <<owner, latest, conn, sock>> PROVE Routes'
  BY <1>1 DEF Routes, OneSession, Newest
<1>2. ASSUME Restart PROVE Routes'
  BY <1>2 DEF TypeOK, Issued, Routes, OneSession, Restart, Newest
<1>3. CASE \/ UNCHANGED vars
           \/ \E t \in Token : PersistToken(t)
           \/ \E s \in Slug : TokenExpires(s)
           \/ \E l \in Sock, c \in Call : Reply(l, c)
           \/ \E c \in Call : Send(c) \/ Return(c) \/ GiveUp(c) \/ \E s \in Slug : Invoke(c, s)
  BY <1>1, <1>3 DEF vars, PersistToken, TokenExpires, Reply, Send, Return, GiveUp, Invoke
<1> QED BY <1>2, <1>3, RoutesRegister, RoutesLaptop DEF Next, Handler

\* A laptop that registered a slug last and is connected can be invoked, in
\* every interleaving of registrations and closing sessions, if no laptop
\* connects twice with one token.
THEOREM LatestLaptopIsRouted ==
  ASSUME ~TokenReuse PROVE Spec => []LatestAgentReachable
<1>1. Init => Issued /\ Routes
  BY DEF Init, Issued, Routes, OneSession, Newest, None
<1>2. TypeOK /\ Issued /\ Routes /\ [Next]_vars => TypeOK' /\ Issued' /\ Routes'
  BY TypeStep, IssuedStep, RoutesStep
<1>3. ASSUME TypeOK, Routes, NEW k \in Sock, sock[k].st = "open", Newest(sock[k].token)
      PROVE  latest[owner[sock[k].token]] = sock[k].token /\ conn[sock[k].token] = k
  <2>1. sock[k].token \in Token /\ sock[k].token # None
    BY <1>3 DEF TypeOK, None
  <2>2. \A l \in Sock : sock[l].token = sock[k].token => l = k
    BY <1>3, <2>1 DEF Routes, OneSession
  <2> QED BY <1>3, <2>1, <2>2 DEF Routes
<1>4. TypeOK /\ Issued /\ Routes => LatestAgentReachable
  BY <1>3 DEF LatestAgentReachable
<1> QED BY <1>1, <1>2, <1>4, TypeInit, PTL DEF Spec

-----------------------------------------------------------------------------

\* What Redis holds was issued for its slug, and the handlers that will still
\* write to Redis know theirs.
RedisKept ==
    /\ \A t \in Token : reg[t] = "writing" => owner[t] # NoSlug
    /\ \A k \in Sock : sock[k].st \in {"open", "lost", "forgetting"} =>
          owner[sock[k].token] # NoSlug
    /\ \A s \in Slug, t \in Token : redis[s] = t =>
          reg[t] # "none" /\ owner[t] \in {s, NoSlug}

ForgottenInv == RedisKept /\ TokensAreCurrent

\* Deleting the key of a slug keeps what is known of Redis.
LEMMA RedisDelete ==
  ASSUME TypeOK, Issued, ForgottenInv, NEW s \in Slug,
         redis' = [redis EXCEPT ![s] = None], UNCHANGED <<owner, reg>>,
         \A k \in Sock : sock'[k].token = sock[k].token,
         \A k \in Sock : \/ sock'[k].st = sock[k].st
                         \/ /\ sock[k].st = "forgetting" /\ sock'[k].st = "gone"
                            /\ owner[sock[k].token] = s
  PROVE  ForgottenInv'
<1>1. \A z \in Slug, t \in Token : redis'[z] = t => redis[z] = t /\ z # s
  BY DEF TypeOK, None
<1>2. RedisKept'
  BY <1>1 DEF ForgottenInv, RedisKept
<1>3. OrphansAreReplaced'
  BY <1>1 DEF ForgottenInv, TokensAreCurrent, OrphansAreReplaced
<1>4. NoTokenOutlivesItsSession'
  <2> SUFFICES ASSUME NEW z \in Slug, NEW k \in Sock, sock'[k].st = "gone"
               PROVE  redis'[z] # sock'[k].token
    BY DEF NoTokenOutlivesItsSession
  <2> DEFINE t == sock[k].token
  <2>1. t \in Token /\ sock'[k].token = t
    BY DEF TypeOK
  <2>2. ASSUME redis'[z] = t PROVE FALSE
    <3>1. redis[z] = t /\ z # s
      BY <1>1, <2>1, <2>2
    <3>2. sock[k].st # "gone"
      BY <3>1 DEF ForgottenInv, TokensAreCurrent, NoTokenOutlivesItsSession
    <3>3. sock[k].st = "forgetting" /\ owner[t] = s
      BY <3>2
    <3>4. owner[t] \in {z, NoSlug}
      BY <2>1, <3>1 DEF ForgottenInv, RedisKept
    <3> QED BY <3>1, <3>3, <3>4
  <2> QED BY <2>1, <2>2
<1> QED BY <1>2, <1>3, <1>4 DEF ForgottenInv, TokensAreCurrent

\* Every step keeps Redis free of the tokens of ended sessions, if no command
\* fails: a token is written before its laptop is told of it, hence before it
\* has a session, and never again; and an answered registration has replaced
\* whatever a restart left under its slug.
LEMMA ForgottenStep ==
  ASSUME ~RedisMayFail, TypeOK, Issued, ForgottenInv, [Next]_vars
  PROVE  ForgottenInv'
<1> USE DEF ForgottenInv
<1>1. ASSUME UNCHANGED <<owner, reg, sock, redis>> PROVE ForgottenInv'
  BY <1>1 DEF RedisKept, TokensAreCurrent, NoTokenOutlivesItsSession, OrphansAreReplaced
<1>2. ASSUME NEW s \in Slug, NEW t \in Token, Register(s, t) PROVE ForgottenInv'
  <2>1. \A z \in Slug : redis[z] # t
    BY <1>2 DEF RedisKept, Register
  <2>2. \A k \in Sock : sock[k].st # "unused" => sock[k].token # t
    BY <1>2 DEF Issued, Register
  <2>3. RedisKept'
    BY <1>2, <2>1, <2>2 DEF TypeOK, RedisKept, Register
  <2>4. TokensAreCurrent'
    BY <1>2, <2>1 DEF TypeOK, TokensAreCurrent, NoTokenOutlivesItsSession,
       OrphansAreReplaced, Register
  <2> QED BY <2>3, <2>4
<1>3. ASSUME NEW t \in Token, PersistToken(t) PROVE ForgottenInv'
  <2>1. owner[t] \in Slug
    BY <1>3 DEF TypeOK, RedisKept, PersistToken
  <2>2. redis' = [redis EXCEPT ![owner[t]] = t] /\ reg' = [reg EXCEPT ![t] = "done"]
    BY <1>3 DEF PersistToken, RedisSet
  <2>3. \A k \in Sock : sock[k].st # "unused" => sock[k].token # t
    BY <1>3 DEF TypeOK, Issued, PersistToken
  <2>4. RedisKept'
    BY <1>3, <2>1, <2>2 DEF TypeOK, RedisKept, PersistToken
  <2>5. NoTokenOutlivesItsSession'
    BY <1>3, <2>1, <2>2, <2>3 DEF TypeOK, TokensAreCurrent, NoTokenOutlivesItsSession,
       PersistToken
  <2>6. OrphansAreReplaced'
    BY <1>3, <2>1, <2>2 DEF TypeOK, TokensAreCurrent, OrphansAreReplaced, PersistToken
  <2> QED BY <2>4, <2>5, <2>6 DEF TokensAreCurrent
<1>4. ASSUME NEW s \in Slug, TokenExpires(s) PROVE ForgottenInv'
  BY <1>4, RedisDelete DEF TokenExpires
<1>5. ASSUME NEW k \in Sock, NEW t \in Token, Connect(k, t) PROVE ForgottenInv'
  BY <1>5 DEF TypeOK, RedisKept, TokensAreCurrent, NoTokenOutlivesItsSession,
     OrphansAreReplaced, Connect
<1>6. ASSUME NEW k \in Sock, Disconnect(k) \/ Unregister(k) PROVE ForgottenInv'
  <2>1. /\ UNCHANGED <<owner, reg, redis>>
        /\ \A l \in Sock : /\ sock'[l].token = sock[l].token
                           /\ \/ sock'[l].st = sock[l].st
                              \/ /\ sock'[l].st \in {"lost", "forgetting"}
                                 /\ sock[l].st \in {"open", "lost"}
    BY <1>6 DEF TypeOK, Disconnect, Unregister
  <2>2. RedisKept'
    BY <2>1 DEF RedisKept
  <2>3. NoTokenOutlivesItsSession'
    BY <2>1 DEF TokensAreCurrent, NoTokenOutlivesItsSession
  <2>4. OrphansAreReplaced'
    BY <2>1 DEF TokensAreCurrent, OrphansAreReplaced
  <2> QED BY <2>2, <2>3, <2>4 DEF TokensAreCurrent
<1>7. ASSUME NEW k \in Sock, Forget(k) PROVE ForgottenInv'
  <2>1. owner[sock[k].token] \in Slug
    BY <1>7 DEF TypeOK, RedisKept, Forget
  <2>2. redis' = [redis EXCEPT ![owner[sock[k].token]] = None]
    BY <1>7 DEF Forget, ForgetToken, RedisSet
  <2>3. \A l \in Sock : /\ sock'[l].token = sock[l].token
                        /\ sock'[l].st = IF l = k THEN "gone" ELSE sock[l].st
    BY <1>7 DEF TypeOK, Forget
  <2>4. UNCHANGED <<owner, reg>> /\ sock[k].st = "forgetting"
    BY <1>7 DEF Forget
  <2> HIDE DEF ForgottenInv
  <2> QED BY <2>1, <2>2, <2>3, <2>4, RedisDelete
<1>8. ASSUME Restart PROVE ForgottenInv'
  <2>1. \A z \in Slug, t \in Token : redis'[z] = t =>
          redis[z] = t \/ reg[t] = "writing"
    BY <1>8 DEF TypeOK, Restart, LeftInRedis, None
  <2>2. \A t \in Token : /\ owner'[t] = NoSlug /\ reg'[t] # "writing"
                         /\ (reg'[t] = "none") <=> (reg[t] = "none")
    BY <1>8 DEF TypeOK, Restart
  <2>3. \A k \in Sock : /\ sock'[k].token = sock[k].token
                        /\ sock'[k].st \notin {"open", "lost", "forgetting"}
                        /\ (sock'[k].st = "gone") <=> (sock[k].st = "gone")
    BY <1>8 DEF TypeOK, Restart, SockStates
  <2>4. RedisKept'
    <3>1. ASSUME NEW z \in Slug, NEW t \in Token, redis'[z] = t PROVE reg[t] # "none"
      <4>1. CASE redis[z] = t
        BY <4>1 DEF RedisKept
      <4>2. CASE reg[t] = "writing"
        BY <4>2
      <4> QED BY <2>1, <3>1, <4>1, <4>2
    <3> HIDE DEF ForgottenInv
    <3> QED BY <2>2, <2>3, <3>1 DEF RedisKept
  <2>5. NoTokenOutlivesItsSession'
    <3> SUFFICES ASSUME NEW z \in Slug, NEW k \in Sock, sock'[k].st = "gone"
                 PROVE  redis'[z] # sock'[k].token
      BY DEF NoTokenOutlivesItsSession
    <3>1. sock[k].st = "gone" /\ sock'[k].token = sock[k].token
      BY <2>3
    <3>2. redis[z] # sock[k].token
      BY <3>1 DEF TokensAreCurrent, NoTokenOutlivesItsSession
    <3>3. sock[k].token \in Token /\ reg[sock[k].token] # "writing"
      BY <3>1 DEF TypeOK, Issued
    <3> HIDE DEF ForgottenInv
    <3> QED BY <2>1, <3>1, <3>2, <3>3
  <2>6. OrphansAreReplaced'
    BY <2>2 DEF OrphansAreReplaced
  <2> QED BY <2>4, <2>5, <2>6 DEF TokensAreCurrent
<1>9. CASE \/ UNCHANGED vars
           \/ \E l \in Sock, c \in Call : Reply(l, c)
           \/ \E c \in Call : Send(c) \/ Return(c) \/ GiveUp(c) \/ \E s \in Slug : Invoke(c, s)
  BY <1>1, <1>9 DEF vars, Reply, Send, Return, GiveUp, Invoke
<1> QED
  BY <1>2, <1>3, <1>4, <1>5, <1>6, <1>7, <1>8, <1>9 DEF Next, Handler

\* As long as no Redis command fails, the token of a session that ended through
\* its finally block is out of Redis for good, whatever sessions came after it;
\* one whose session a restart cut stays (until the key expires) at most until
\* the next registration of its slug is answered.
THEOREM EndedTokensAreForgotten ==
  ASSUME ~RedisMayFail PROVE Spec => []TokensAreCurrent
<1>1. Init => Issued /\ ForgottenInv
  BY DEF Init, Issued, ForgottenInv, RedisKept, TokensAreCurrent,
     NoTokenOutlivesItsSession, OrphansAreReplaced, None
<1>2. TypeOK /\ Issued /\ ForgottenInv /\ [Next]_vars
        => TypeOK' /\ Issued' /\ ForgottenInv'
  BY TypeStep, IssuedStep, ForgottenStep
<1>3. ForgottenInv => TokensAreCurrent
  BY DEF ForgottenInv
<1> QED BY <1>1, <1>2, <1>3, TypeInit, PTL DEF Spec

-----------------------------------------------------------------------------

\* Only an invocation that was handed to a laptop has an answer, and one that
\* has not been sent was handed to nobody.
HandedOnce ==
    \A c \in Call :
        /\ future[c] = "done" => c \in Handed
        /\ call[c].st \in {"idle", "sending"} => c \notin Handed

\* The caller's view is a function, before and after a step.
LEMMA ViewIsFunction ==
    /\ CallerView = [c \in Call |-> CallerView[c]]
    /\ CallerView' = [c \in Call |-> CallerView'[c]]
BY DEF CallerView

\* An invocation that ends leaves nothing behind.
LEMMA EndKeepsHanded ==
  ASSUME TypeOK, HandedOnce, NEW c \in Call, NEW o \in {"200", "502", "503", "504"},
         End(c, o), UNCHANGED sent
  PROVE  HandedOnce' /\ Handed' = Handed
<1>1. Handed' = Handed
  BY DEF Handed
<1>2. \A d \in Call : /\ future'[d] = IF d = c THEN "none" ELSE future[d]
                      /\ call'[d].st = IF d = c THEN o ELSE call[d].st
  BY DEF TypeOK, End
<1> QED BY <1>1, <1>2 DEF HandedOnce

\* A step of an invocation is a step of RemoteCall, or none.
LEMMA CallerStep ==
  ASSUME TypeOK, HandedOnce, NEW c \in Call,
         \/ \E s \in Slug : Invoke(c, s)
         \/ Send(c) \/ Return(c) \/ GiveUp(c)
  PROVE  HandedOnce' /\ [R!Next]_<<CallerView, Handed>>
<1> USE ViewIsFunction
<1>1. ASSUME NEW o \in {"502", "503", "504"}, call[c].st \in {"idle", "sending", "waiting"},
             End(c, o), UNCHANGED sent
      PROVE  HandedOnce' /\ R!Next
  <2>1. HandedOnce' /\ Handed' = Handed
    BY <1>1, EndKeepsHanded
  <2>2. \A d \in Call : CallerView'[d] = IF d = c THEN "failed" ELSE CallerView[d]
    BY <1>1 DEF TypeOK, CallerView, End, Outcomes
  <2>3. CallerView[c] \in {"idle", "asked"}
    BY <1>1 DEF CallerView
  <2>4. R!Fail
    <3> DEFINE lost == {c}
    <3>1. lost \in SUBSET {d \in Call : CallerView[d] \in {"idle", "asked"}}
      BY <2>3
    <3> QED BY <2>1, <2>2, <3>1 DEF R!Fail
  <2> QED BY <2>1, <2>4 DEF R!Next
<1>2. ASSUME NEW s \in Slug, Invoke(c, s), call'[c].st = "sending"
      PROVE  HandedOnce' /\ R!Next
  <2>1. HandedOnce' /\ Handed' = Handed
    BY <1>2 DEF TypeOK, HandedOnce, Handed, Invoke, End
  <2>2. \A d \in Call : CallerView'[d] = IF d = c THEN "asked" ELSE CallerView[d]
    BY <1>2 DEF TypeOK, CallerView, Invoke, End
  <2>3. CallerView[c] = "idle"
    BY <1>2 DEF CallerView, Invoke
  <2> QED BY <2>1, <2>2, <2>3 DEF R!Next, R!Ask
<1>3. ASSUME Send(c), call'[c].st = "waiting"
      PROVE  HandedOnce' /\ [R!Next]_<<CallerView, Handed>>
  <2>1. UNCHANGED future /\ \A d \in Call : call'[d].st = IF d = c THEN "waiting" ELSE call[d].st
    BY <1>3 DEF TypeOK, Send, End
  <2>2. CallerView' = CallerView
    BY <1>3, <2>1 DEF CallerView, Send
  <2>3. call[c].st = "sending" /\ c \notin Handed /\ CallerView[c] = "asked"
    BY <1>3 DEF HandedOnce, CallerView, Send
  <2>4. CASE UNCHANGED sent
    <3>1. Handed' = Handed
      BY <2>4 DEF Handed
    <3> QED BY <2>1, <2>2, <3>1 DEF HandedOnce
  <2>5. CASE sent' = sent \cup {<<call[c].sock, c>>}
    <3>1. Handed' = Handed \cup {c}
      <4>1. call[c].sock \in Sock
        BY <2>3 DEF TypeOK
      <4> QED BY <2>5, <4>1 DEF Handed
    <3>2. HandedOnce'
      BY <2>1, <3>1 DEF HandedOnce
    <3> QED BY <2>2, <2>3, <3>1, <3>2 DEF R!Next, R!Deliver
  <2> QED BY <1>3, <2>4, <2>5 DEF Send
<1>4. ASSUME Return(c), End(c, "200")
      PROVE  HandedOnce' /\ R!Next
  <2>1. HandedOnce' /\ Handed' = Handed
    BY <1>4, EndKeepsHanded DEF Return
  <2>2. \A d \in Call : CallerView'[d] = IF d = c THEN "succeeded" ELSE CallerView[d]
    BY <1>4 DEF TypeOK, CallerView, Return, End
  <2>3. CallerView[c] = "asked" /\ c \in Handed
    BY <1>4 DEF HandedOnce, CallerView, Return, Answered
  <2> QED BY <2>1, <2>2, <2>3 DEF R!Next, R!Succeed
<1>5. ASSUME NEW s \in Slug, Invoke(c, s) PROVE call'[c].st = "sending" \/ End(c, "503")
  BY <1>5 DEF TypeOK, Invoke
<1>6. ASSUME Send(c) PROVE call'[c].st = "waiting" \/ (End(c, "502") /\ sent' = sent)
  <2>1. ASSUME call' = [call EXCEPT ![c].st = "waiting"] PROVE call'[c].st = "waiting"
    BY <2>1 DEF TypeOK
  <2>2. \/ call' = [call EXCEPT ![c].st = "waiting"]
        \/ End(c, "502") /\ sent' = sent
    BY <1>6 DEF Send
  <2> QED BY <2>1, <2>2
<1>7. CASE \E s \in Slug : Invoke(c, s)
  BY <1>1, <1>2, <1>5, <1>7 DEF Invoke, Outcomes
<1>8. CASE Send(c)
  BY <1>1, <1>3, <1>6, <1>8 DEF Send, Outcomes
<1>9. CASE Return(c)
  BY <1>1, <1>4, <1>9 DEF Return, Answered, Outcomes
<1>10. CASE GiveUp(c)
  BY <1>1, <1>10 DEF GiveUp, TimesOut, Outcomes
<1> QED BY <1>7, <1>8, <1>9, <1>10

\* So is every other step.
LEMMA CallStep ==
  ASSUME TypeOK, HandedOnce, [Next]_vars
  PROVE  HandedOnce' /\ [R!Next]_<<CallerView, Handed>>
<1>1. ASSUME UNCHANGED <<call, future, sent>>
      PROVE  HandedOnce' /\ UNCHANGED <<CallerView, Handed>>
  BY <1>1 DEF HandedOnce, CallerView, Handed
<1>2. ASSUME NEW k \in Sock, NEW c \in Call, Reply(k, c)
      PROVE  HandedOnce' /\ UNCHANGED <<CallerView, Handed>>
  <2>1. c \in Handed
    BY <1>2 DEF Handed, Reply
  <2>2. UNCHANGED <<CallerView, Handed>>
    BY <1>2 DEF CallerView, Handed, Reply
  <2>3. HandedOnce'
    BY <1>2, <2>1 DEF TypeOK, HandedOnce, Handed, Reply
  <2> QED BY <2>2, <2>3
<1>3. ASSUME Restart PROVE HandedOnce' /\ R!Next
  <2>1. Handed' = Handed
    BY <1>3 DEF Handed, Restart
  <2>2. \A d \in Call : /\ future'[d] # "done"
                        /\ call'[d].st \in {"idle", "sending"} => call[d].st \in {"idle", "sending"}
    BY <1>3 DEF TypeOK, Restart, CallStates
  <2>3. HandedOnce'
    BY <2>1, <2>2 DEF HandedOnce
  <2> DEFINE lost == {c \in Call : call[c].st \in {"sending", "waiting"}}
  <2>4. \A d \in Call : CallerView'[d] = IF d \in lost THEN "failed" ELSE CallerView[d]
    BY <1>3 DEF TypeOK, CallerView, Restart
  <2>5. \A d \in lost : CallerView[d] = "asked"
    BY DEF CallerView
  <2>6. lost \in SUBSET {d \in Call : CallerView[d] \in {"idle", "asked"}}
    BY <2>5
  <2> QED BY <2>1, <2>3, <2>4, <2>6, ViewIsFunction, ZenonT(60) DEF R!Next, R!Fail
<1>4. CASE \/ UNCHANGED vars
           \/ \E s \in Slug, t \in Token : Register(s, t)
           \/ \E s \in Slug : TokenExpires(s)
           \/ \E t \in Token : PersistToken(t)
           \/ \E k \in Sock, t \in Token : Connect(k, t)
           \/ \E k \in Sock : Disconnect(k) \/ Unregister(k) \/ Forget(k)
  BY <1>1, <1>4 DEF vars, Register, TokenExpires, PersistToken, Connect, Disconnect,
     Unregister, Forget
<1> QED BY <1>2, <1>3, <1>4, CallerStep DEF Next, Handler

\* The relay is the at-most-once call of RemoteCall: no invocation reaches two
\* laptops or one laptop twice, and 200 means that one was handed it, whatever
\* registers, disconnects or restarts meanwhile.
THEOREM RelayImplementsRemoteCall == Spec => ImplementsRemoteCall
<1>1. Init => R!Init /\ HandedOnce
  BY DEF Init, R!Init, CallerView, Handed, HandedOnce
<1> QED
  BY <1>1, TypeInit, TypeStep, CallStep, PTL DEF Spec, ImplementsRemoteCall, R!Spec
=============================================================================
