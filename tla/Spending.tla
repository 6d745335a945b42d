----------------------------- MODULE Spending -----------------------------
(***************************************************************************)
(* Budgets of one API key, its team and the organisation.  A limit lives   *)
(* in Postgres and, for 300 s after it is set, in Redis, where the auth    *)
(* service reads it; a counter in Redis stands for the month's spend,      *)
(* which the observability service adds to after each cost record and the  *)
(* admin service overwrites with the sum of cost_records when it sets a    *)
(* limit.  Service Bus may deliver an event again, which is then recorded  *)
(* and counted again.  Every request costs one unit.                       *)
(***************************************************************************)
EXTENDS Integers, FiniteSets

CONSTANTS
    Requests,        \* requests, one unit of spend each
    Limits,          \* the limits an administrator may set
    RpmLimit,        \* rate_limit_rpm of the team
    Puts,            \* the budget PUTs of a behaviour, in any overlap
    MaxRedeliveries  \* bound: events delivered again (0: the bus in memory)

NoLimit == 0

ASSUME SpendingAssumption ==
    /\ IsFiniteSet(Requests)
    /\ Limits \subseteq Nat \ {NoLimit}
    /\ RpmLimit \in Nat
    /\ MaxRedeliveries \in Nat

Scopes == {"key", "team", "org"}
Seeded == {"key", "org"}   \* PUTs that overwrite the counter; a node's doesn't

VARIABLES
    limitRow,   \* the limit of each scope in Postgres
    limitKey,   \* budget_limit:* in Redis
    orgBlocks,  \* budget_action of the organisation is "block"
    counter,    \* budget:* of this month in Redis
    records,    \* cost_records of this month
    put,        \* where each PUT is
    req,        \* where each request, and the delivery of its event, is
    redeliveries,
    window,     \* the team's rate limit counter
    watching,   \* requests whose WATCH of it still holds
    passed,     \* ghost: requests of the window counted and let through
    slipped,    \* ghost: requests of the window let through uncounted
    clean       \* ghost: no increment was counted between the sum and the SET
                \* of the counter's last seed, and none was lost since

spendingVars == <<limitRow, limitKey, orgBlocks, counter, records, put, req,
                  redeliveries, window, watching, passed, slipped, clean>>
countVars == <<counter, records, redeliveries, clean>>
limiterVars == <<window, watching, passed, slipped>>

ReqPC == {"new", "watched", "key", "team", "org", "admitted", "refused", "queued",
          "recorded", "counted", "lost"}

SpendingTypeOK ==
    /\ limitRow \in [Scopes -> Limits \cup {NoLimit}]
    /\ limitKey \in [Scopes -> Limits \cup {NoLimit}]
    /\ orgBlocks \in BOOLEAN
    /\ counter \in [Scopes -> Nat]
    /\ records \in Nat
    /\ put \in [Puts -> [pc : {"idle", "committed", "published", "summed", "done"},
                         scope : Scopes, limit : Limits \cup {NoLimit},
                         sum : Nat, alone : BOOLEAN]]
    /\ req \in [Requests -> ReqPC]
    /\ redeliveries \in 0..MaxRedeliveries
    /\ window \in Nat
    /\ watching \in SUBSET Requests
    /\ passed \in Nat
    /\ slipped \in Nat
    /\ clean \in [Scopes -> BOOLEAN]

NoPut == [pc |-> "idle", scope |-> "key", limit |-> NoLimit, sum |-> 0, alone |-> TRUE]
PutEnded == [NoPut EXCEPT !.pc = "done"]

SpendingInit ==
    /\ limitRow = [s \in Scopes |-> NoLimit]
    /\ limitKey = [s \in Scopes |-> NoLimit]
    /\ orgBlocks \in BOOLEAN
    /\ counter = [s \in Scopes |-> 0]
    /\ records = 0
    /\ put = [u \in Puts |-> NoPut]
    /\ req = [r \in Requests |-> "new"]
    /\ redeliveries = 0
    /\ window = 0
    /\ watching = {}
    /\ passed = 0
    /\ slipped = 0
    /\ clean = [s \in Scopes |-> TRUE]

limitVars == <<limitRow, limitKey, orgBlocks>>

At(pc) == {r \in Requests : req[r] = pc}

Go(r, from, to) ==
    /\ req[r] = from
    /\ req' = [req EXCEPT ![r] = to]

---------------------------------------------------------------------------
(* POST /validate, after the identity is known.                            *)

\* check_rate_limit watches the counter, ...
Watch(r) ==
    /\ Go(r, "new", "watched")
    /\ watching' = watching \cup {r}
    /\ UNCHANGED <<limitVars, put, countVars, window, passed, slipped>>

\* ... and increments it in a MULTI: the requests it refuses are counted too.
\* The increment ends every other watch.
RateLimitOffByOne(r) ==
    /\ r \in watching
    /\ window' = window + 1
    /\ watching' = {}
    /\ IF window' > RpmLimit + 1
       THEN Go(r, "watched", "refused") /\ UNCHANGED passed
       ELSE Go(r, "watched", "key") /\ passed' = passed + 1
    /\ UNCHANGED <<limitVars, put, countVars, slipped>>

RateLimit(r) ==
    /\ r \in watching
    /\ window' = window + 1
    /\ watching' = {}
    /\ IF window' > RpmLimit
       THEN Go(r, "watched", "refused") /\ UNCHANGED passed
       ELSE Go(r, "watched", "key") /\ passed' = passed + 1
    /\ UNCHANGED <<limitVars, put, countVars, slipped>>

\* A watch that no longer holds raises WatchError, which passes for a failure
\* of Redis: the request goes on uncounted.
WatchFails(r) ==
    /\ r \notin watching
    /\ Go(r, "watched", "key")
    /\ slipped' = slipped + 1
    /\ UNCHANGED <<limitVars, put, countVars, window, watching, passed>>

\* Redis itself fails: likewise.
LimiterDown(r) ==
    /\ Go(r, "new", "key")
    /\ UNCHANGED <<limitVars, put, countVars, limiterVars>>

\* The window's counter expires, which ends no watch.
WindowEnds ==
    /\ window > 0
    /\ window' = 0
    /\ passed' = 0
    /\ slipped' = 0
    /\ UNCHANGED <<limitVars, put, countVars, req, watching>>

Exhausted(s) == limitKey[s] # NoLimit /\ counter[s] >= limitKey[s]

\* check_budget: key, team and organisation in that order.  A key's limit
\* always blocks; a node's is written with action "alert" and never does.
\* Redis failing on the way lets the request through (fail open).
CheckKey(r) ==
    /\ \/ Exhausted("key") /\ Go(r, "key", "refused")
       \/ ~Exhausted("key") /\ Go(r, "key", "team")
       \/ Go(r, "key", "admitted")
    /\ UNCHANGED <<limitVars, put, countVars, limiterVars>>

CheckTeam(r) ==
    /\ \/ Go(r, "team", "org")
       \/ Go(r, "team", "admitted")
    /\ UNCHANGED <<limitVars, put, countVars, limiterVars>>

CheckOrg(r) ==
    /\ \/ Exhausted("org") /\ orgBlocks /\ Go(r, "org", "refused")
       \/ Go(r, "org", "admitted")
    /\ UNCHANGED <<limitVars, put, countVars, limiterVars>>

---------------------------------------------------------------------------
(* The gateway's event and the observability service.                      *)

\* _emit_event posts to /events, which puts the event on the bus; the post is
\* best effort, and the in-memory queue dies with its process.
Emit(r) ==
    /\ Go(r, "admitted", "queued") \/ Go(r, "admitted", "lost")
    /\ UNCHANGED <<limitVars, put, countVars, limiterVars>>

\* The handler inserts the cost record; if that raises, the bus swallows it.
Record(r) ==
    /\ \/ Go(r, "queued", "recorded") /\ records' = records + 1
       \/ Go(r, "queued", "lost") /\ UNCHANGED records
    /\ UNCHANGED <<limitVars, put, counter, redeliveries, clean, limiterVars>>

\* Ghost: the sums read so far no longer say what a counter should be.
Overlap ==
    put' = [u \in Puts |-> IF put[u].pc = "summed"
                           THEN [put[u] EXCEPT !.alone = FALSE] ELSE put[u]]

\* _update_budget_counters: one pipeline for the three counters, then the
\* session and activity rows.
CountKeyAndTeamOnly(r) ==
    /\ Go(r, "recorded", "counted")
    /\ counter' = [counter EXCEPT !["key"] = @ + 1, !["team"] = @ + 1]
    /\ Overlap
    /\ UNCHANGED <<limitVars, records, redeliveries, limiterVars, clean>>

Count(r) ==
    /\ Go(r, "recorded", "counted")
    /\ counter' = [s \in Scopes |-> counter[s] + 1]
    /\ Overlap
    /\ UNCHANGED <<limitVars, records, redeliveries, limiterVars, clean>>

\* Redis failed and the exception is swallowed, or the process with its queue
\* in memory died: a row that no counter knows.
CountFails(r) ==
    /\ Go(r, "recorded", "counted")
    /\ Overlap
    /\ clean' = [s \in Scopes |-> FALSE]
    /\ UNCHANGED <<limitVars, counter, records, redeliveries, limiterVars>>

\* Service Bus delivers the event again: its consumer died before
\* complete_message, or that failed.  Nothing recognises the event, so it is
\* recorded again; a first row not yet counted never will be.
Redeliver(r) ==
    /\ redeliveries < MaxRedeliveries
    /\ redeliveries' = redeliveries + 1
    /\ \/ /\ Go(r, "recorded", "queued")
          /\ Overlap
          /\ clean' = [s \in Scopes |-> FALSE]
       \/ /\ Go(r, "counted", "queued")
          /\ UNCHANGED <<put, clean>>
    /\ UNCHANGED <<limitVars, counter, records, limiterVars>>

\* A new month has other counters and other rows.  A row inserted before it may
\* be counted in it, and a sum read before it may seed it.
MonthEnds ==
    /\ counter' = [s \in Scopes |-> 0]
    /\ records' = 0
    /\ clean' = [s \in Scopes |-> At("recorded") = {}]
    /\ Overlap
    /\ UNCHANGED <<limitVars, req, redeliveries, limiterVars>>

\* Redis evicts (allkeys-lru), restarts empty, or the counter reaches the
\* 23:59:59 of its month.
CounterLost(s) ==
    /\ counter' = [counter EXCEPT ![s] = 0]
    /\ clean' = [clean EXCEPT ![s] = FALSE]
    /\ UNCHANGED <<limitVars, records, put, req, redeliveries, limiterVars>>

---------------------------------------------------------------------------
(* The admin service: PUT /keys/{id}/budget, /org/budget, /nodes/{id}/     *)
(* budget.                                                                 *)

\* The row commits.  limit NoLimit is null, which a node's PUT cannot set.
SetBudget(u, s, limit) ==
    /\ put[u].pc = "idle"
    /\ s = "team" => limit # NoLimit
    /\ limitRow' = [limitRow EXCEPT ![s] = limit]
    /\ put' = [put EXCEPT ![u] = [NoPut EXCEPT !.pc = "committed", !.scope = s,
                                                !.limit = limit]]
    /\ UNCHANGED <<limitKey, orgBlocks, countVars, req, limiterVars>>

\* The limit is written to Redis (or deleted); a node's PUT reads the row again
\* and ends here.
PublishLimit(u) ==
    LET s == put[u].scope
    IN /\ put[u].pc = "committed"
       /\ limitKey' = [limitKey EXCEPT ![s] =
                          IF s = "team" THEN limitRow[s] ELSE put[u].limit]
       /\ put' = [put EXCEPT ![u] =
                     IF s \in Seeded THEN [@ EXCEPT !.pc = "published"] ELSE PutEnded]
       /\ UNCHANGED <<limitRow, orgBlocks, countVars, req, limiterVars>>

\* SELECT SUM(cost_usd) of the month.
SumSpend(u) ==
    /\ put[u].pc = "published"
    /\ put' = [put EXCEPT ![u] = [@ EXCEPT !.pc = "summed", !.sum = records,
                                            !.alone = At("recorded") = {}]]
    /\ UNCHANGED <<limitVars, countVars, req, limiterVars>>

\* SET the counter to that sum.
SeedCounterByAdding(u) ==
    /\ put[u].pc = "summed"
    /\ counter' = [counter EXCEPT ![put[u].scope] = @ + put[u].sum]
    /\ clean' = [clean EXCEPT ![put[u].scope] = put[u].alone]
    /\ put' = [put EXCEPT ![u] = PutEnded]
    /\ UNCHANGED <<limitVars, records, redeliveries, req, limiterVars>>

SeedCounter(u) ==
    /\ put[u].pc = "summed"
    /\ counter' = [counter EXCEPT ![put[u].scope] = put[u].sum]
    /\ clean' = [clean EXCEPT ![put[u].scope] = put[u].alone]
    /\ put' = [put EXCEPT ![u] = PutEnded]
    /\ UNCHANGED <<limitVars, records, redeliveries, req, limiterVars>>

\* The admin service dies, or Redis refuses it, between two steps of a PUT.
AbandonPut(u) ==
    /\ put[u].pc \notin {"idle", "done"}
    /\ put' = [put EXCEPT ![u] = PutEnded]
    /\ UNCHANGED <<limitVars, countVars, req, limiterVars>>

\* The limits of keys and of the organisation are set with ex=300, and nothing
\* but the next PUT writes them again.  A node's goes only if Redis loses it.
LimitExpires(s) ==
    /\ limitKey[s] # NoLimit
    /\ limitKey' = [limitKey EXCEPT ![s] = NoLimit]
    /\ UNCHANGED <<limitRow, orgBlocks, countVars, put, req, limiterVars>>

SpendingNext ==
    \/ \E r \in Requests :
          \/ Watch(r) \/ RateLimit(r) \/ WatchFails(r) \/ LimiterDown(r)
          \/ CheckKey(r) \/ CheckTeam(r) \/ CheckOrg(r)
          \/ Emit(r) \/ Record(r) \/ Count(r) \/ CountFails(r) \/ Redeliver(r)
    \/ WindowEnds \/ MonthEnds
    \/ \E s \in Scopes : LimitExpires(s) \/ CounterLost(s)
    \/ \E u \in Puts :
          \/ \E s \in Scopes, limit \in Limits \cup {NoLimit} : SetBudget(u, s, limit)
          \/ PublishLimit(u) \/ SumSpend(u) \/ SeedCounter(u) \/ AbandonPut(u)

SpendingSpec == SpendingInit /\ [][SpendingNext]_spendingVars

---------------------------------------------------------------------------
(* A counter in Redis and the month's rows in Postgres agree but for the   *)
(* rows whose increment is still under way, whatever is delivered again    *)
(* and however PUTs overlap each other: unless an increment was lost (its  *)
(* command failed, its consumer died before it, or the key was), or one    *)
(* was counted between the sum and the SET of the last PUT that seeded the *)
(* counter.  A PUT that overlaps none repairs whatever was lost before it  *)
(* (set_key_budget and set_org_budget against _update_budget_counters).    *)
CounterAgrees ==
    \A s \in Scopes :
        clean[s] => counter[s] + Cardinality(At("recorded")) = records

(* An event is recorded once for every time it is delivered, no more.      *)
RecordedPerDelivery ==
    records <= Cardinality({r \in Requests : req[r] \in {"recorded", "counted"}})
               + redeliveries

(* However validations interleave, at most RpmLimit of those whose         *)
(* transaction commits pass in one window (check_rate_limit).              *)
RateLimitHolds == passed <= RpmLimit

(* docs/ops-runbook.md:612 says of the counter that it is incremented on   *)
(* each request and that requests past the limit are rejected: while Redis *)
(* answers, at most RpmLimit requests pass in one window.                  *)
RateLimitEnforced == passed + slipped <= RpmLimit

(* docs/SYSTEM_REFERENCE.md:1072 says of the limits in Redis that they     *)
(* stay warm as long as the admin service is running: a limit leaves Redis *)
(* only when a PUT that removed it publishes that.                         *)
LimitStaysWarm ==
    [][\A s \in Scopes :
          limitKey[s] # NoLimit /\ limitKey'[s] = NoLimit =>
              \E u \in Puts : put[u].scope = s /\ put[u].pc = "committed"]_spendingVars

\* The three together: a counter and the rows agree unless an increment was lost
\* or overlapped a PUT (CounterAgrees), an event is recorded once per delivery
\* (RecordedPerDelivery), and a window passes no more counted requests than the
\* limit (RateLimitHolds).
SpendingSound == CounterAgrees /\ RecordedPerDelivery /\ RateLimitHolds
=============================================================================
