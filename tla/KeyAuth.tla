------------------------------ MODULE KeyAuth ------------------------------
(***************************************************************************)
(* The gateway admits a request when the auth service validates its API    *)
(* key.  Two caches let agents survive outages: the auth service keeps an  *)
(* identity in Redis for when Postgres is down, the gateway keeps one in   *)
(* process for when the auth service is down.  The admin service creates   *)
(* and revokes the rows and touches neither cache.                         *)
(*                                                                         *)
(* The server side of a validation (srv) and the gateway's call (cli) are  *)
(* separate: a call that times out leaves the server running.  A tick is   *)
(* the lifetime of a gateway entry; a validation takes seconds and is      *)
(* taken to start and end within one tick.                                 *)
(***************************************************************************)
EXTENDS Integers

CONSTANTS
    Keys,      \* API keys
    Calls,     \* concurrent calls of the gateway
    RedisTTL,  \* lifetime of an identity in the auth service's Redis cache
    LocalTTL,  \* lifetime of an identity in the gateway's process
    MaxTime    \* bound: the last tick

ASSUME KeyAuthAssumption ==
    /\ RedisTTL \in Nat \ {0}
    /\ LocalTTL \in Nat \ {0}
    /\ MaxTime \in Nat

VARIABLES
    now,           \* the tick
    keyRow,        \* the api_keys row of each key
    endedAt,       \* ghost: the tick at which the row stopped being live
    apiKeyCache,   \* Redis api_key_cache: the tick at which an entry expires
    identityCache, \* the gateway's _identity_cache: likewise
    call           \* the validation each gateway call waits for

keyAuthVars == <<now, keyRow, endedAt, apiKeyCache, identityCache, call>>

SrvPC == {"idle", "reading", "found", "missing", "failed", "identified",
          "ok", "limited", "refused", "unavailable"}
CliPC == {"idle", "waiting", "admitted", "limited", "refused"}
NoCall(k) == [key |-> k, srv |-> "idle", cli |-> "idle", at |-> 0]

KeyAuthTypeOK ==
    /\ now \in 0..MaxTime
    /\ keyRow \in [Keys -> {"absent", "live", "ended"}]
    /\ endedAt \in [Keys -> 0..MaxTime]
    /\ apiKeyCache \in [Keys -> 0..(MaxTime + RedisTTL)]
    /\ identityCache \in [Keys -> 0..(MaxTime + LocalTTL)]
    /\ call \in [Calls -> [key : Keys, srv : SrvPC, cli : CliPC,
                           at : 0..MaxTime]]

KeyAuthInit ==
    /\ now = 0
    /\ keyRow = [k \in Keys |-> "absent"]
    /\ endedAt = [k \in Keys |-> 0]
    /\ apiKeyCache = [k \in Keys |-> 0]
    /\ identityCache = [k \in Keys |-> 0]
    /\ \E k \in Keys : call = [c \in Calls |-> NoCall(k)]

Verdicts == {"ok", "limited", "refused"}

Srv(c, from, to) ==
    /\ call[c].srv = from
    /\ call' = [call EXCEPT ![c].srv = to]

---------------------------------------------------------------------------
(* The admin service.                                                      *)

CreateKey(k) ==
    /\ keyRow[k] = "absent"
    /\ keyRow' = [keyRow EXCEPT ![k] = "live"]
    /\ UNCHANGED <<now, endedAt, apiKeyCache, identityCache,
                   call>>

\* revoke_key sets revoked_at, whatever it was; expires_at passing has the
\* same effect on every query of the row.
EndKey(k) ==
    /\ keyRow[k] = "live"
    /\ keyRow' = [keyRow EXCEPT ![k] = "ended"]
    /\ endedAt' = [endedAt EXCEPT ![k] = now]
    /\ UNCHANGED <<now, apiKeyCache, identityCache, call>>

---------------------------------------------------------------------------
(* The auth service: POST /validate.                                       *)

\* SELECT ... WHERE key_hash = $1 AND revoked_at IS NULL AND not expired;
\* Postgres may be down.
FetchRow(c) ==
    /\ \/ keyRow[call[c].key] = "live" /\ Srv(c, "reading", "found")
       \/ keyRow[call[c].key] # "live" /\ Srv(c, "reading", "missing")
       \/ Srv(c, "reading", "failed")
    /\ UNCHANGED <<now, keyRow, endedAt, apiKeyCache, identityCache>>

\* The row was found: SETEX the identity; a Redis failure is swallowed.
CacheIdentity(c) ==
    /\ Srv(c, "found", "identified")
    /\ \/ apiKeyCache' = [apiKeyCache EXCEPT ![call[c].key] = now + RedisTTL]
       \/ UNCHANGED apiKeyCache
    /\ UNCHANGED <<now, keyRow, endedAt, identityCache>>

\* No live row: evict, and answer 401 whether or not Redis took the delete.
EvictIdentity(c) ==
    /\ Srv(c, "missing", "refused")
    /\ \/ apiKeyCache' = [apiKeyCache EXCEPT ![call[c].key] = 0]
       \/ UNCHANGED apiKeyCache
    /\ UNCHANGED <<now, keyRow, endedAt, identityCache>>

\* Postgres is down: serve the identity Redis still has, else 503.
ServeCachedKeepingIt(c) ==
    /\ Srv(c, "failed", "identified")
    /\ now < apiKeyCache[call[c].key]
    /\ apiKeyCache' = [apiKeyCache EXCEPT ![call[c].key] = now + RedisTTL]
    /\ UNCHANGED <<now, keyRow, endedAt, identityCache>>

ServeCached(c) ==
    /\ \/ now < apiKeyCache[call[c].key] /\ Srv(c, "failed", "identified")
       \/ Srv(c, "failed", "unavailable")
    /\ UNCHANGED <<now, keyRow, endedAt, apiKeyCache, identityCache>>

\* The rate limit and the budget answer 429, the scope check 403; what decides
\* them is the state of module Spending.
Authorise(c) ==
    /\ \E answer \in Verdicts : Srv(c, "identified", answer)
    /\ UNCHANGED <<now, keyRow, endedAt, apiKeyCache, identityCache>>

---------------------------------------------------------------------------
(* The gateway: _validate_token.                                           *)

StartCall(c, k) ==
    /\ call[c].srv = "idle"
    /\ call[c].cli # "waiting"
    /\ call' = [call EXCEPT ![c] = [key |-> k, srv |-> "reading",
                                    cli |-> "waiting", at |-> now]]
    /\ UNCHANGED <<now, keyRow, endedAt, apiKeyCache, identityCache>>

\* The answer reaches the gateway: 200 fills the cache, 429 is forwarded, any
\* other status evicts the entry.
Conclude(c) ==
    LET k == call[c].key IN
    /\ call[c].cli = "waiting"
    /\ \/ /\ call[c].srv = "ok"
          /\ call' = [call EXCEPT ![c].srv = "idle", ![c].cli = "admitted",
                                  ![c].at = now]
          /\ identityCache' = [identityCache EXCEPT ![k] = now + LocalTTL]
       \/ /\ call[c].srv = "limited"
          /\ call' = [call EXCEPT ![c].srv = "idle", ![c].cli = "limited"]
          /\ UNCHANGED identityCache
       \/ /\ call[c].srv \in {"refused", "unavailable"}
          /\ call' = [call EXCEPT ![c].srv = "idle", ![c].cli = "refused"]
          /\ identityCache' = [identityCache EXCEPT ![k] = 0]
    /\ UNCHANGED <<now, keyRow, endedAt, apiKeyCache>>

\* The call fails or times out while the server may go on: the gateway serves
\* the identity it still has.
FallBackUnchecked(c) ==
    /\ call[c].cli = "waiting"
    /\ call' = IF identityCache[call[c].key] > 0
               THEN [call EXCEPT ![c].cli = "admitted", ![c].at = now]
               ELSE [call EXCEPT ![c].cli = "refused"]
    /\ UNCHANGED <<now, keyRow, endedAt, apiKeyCache, identityCache>>

FallBack(c) ==
    /\ call[c].cli = "waiting"
    /\ call' = IF now < identityCache[call[c].key]
               THEN [call EXCEPT ![c].cli = "admitted", ![c].at = now]
               ELSE [call EXCEPT ![c].cli = "refused"]
    /\ UNCHANGED <<now, keyRow, endedAt, apiKeyCache, identityCache>>

\* The abandoned server side answers nobody.
AnswerNobody(c) ==
    /\ call[c].cli # "waiting"
    /\ call[c].srv \in Verdicts \cup {"unavailable"}
    /\ call' = [call EXCEPT ![c].srv = "idle"]
    /\ UNCHANGED <<now, keyRow, endedAt, apiKeyCache, identityCache>>

\* The gateway restarts: its cache is in process.
GatewayRestarts ==
    /\ identityCache # [k \in Keys |-> 0]
    /\ identityCache' = [k \in Keys |-> 0]
    /\ UNCHANGED <<now, keyRow, endedAt, apiKeyCache, call>>

Tick ==
    /\ now < MaxTime
    /\ \A c \in Calls : call[c].srv = "idle" /\ call[c].cli # "waiting"
    /\ now' = now + 1
    /\ UNCHANGED <<keyRow, endedAt, apiKeyCache, identityCache, call>>

KeyAuthNext ==
    \/ \E k \in Keys : CreateKey(k) \/ EndKey(k)
    \/ \E c \in Calls :
          \/ \E k \in Keys : StartCall(c, k)
          \/ FetchRow(c) \/ CacheIdentity(c) \/ EvictIdentity(c)
          \/ ServeCached(c) \/ Authorise(c) \/ Conclude(c) \/ FallBack(c)
          \/ AnswerNobody(c)
    \/ GatewayRestarts
    \/ Tick

KeyAuthSpec == KeyAuthInit /\ [][KeyAuthNext]_keyAuthVars

---------------------------------------------------------------------------
(* A revoked or expired key is admitted for less than the two lifetimes    *)
(* added up, whichever outages of Postgres, Redis, the auth service and    *)
(* the gateway come together: an entry served in an outage is never        *)
(* renewed by being served (validators/api_key.py, _validate_token).       *)
RevocationBound ==
    \A c \in Calls :
        call[c].cli = "admitted" /\ keyRow[call[c].key] = "ended" =>
            call[c].at < endedAt[call[c].key] + RedisTTL + LocalTTL

(***************************************************************************)
(* What the docstring of _validate_token says: when the auth service       *)
(* answers 5xx, a gateway that still has the identity admits the call.     *)
(***************************************************************************)
FallsBackOn5xx ==
    [][\A c \in Calls :
          /\ call[c].cli = "waiting" /\ call'[c].cli = "refused"
          /\ now < identityCache[call[c].key]
          => call[c].srv # "unavailable"]_keyAuthVars
=============================================================================
