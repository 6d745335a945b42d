--------------------------- MODULE Gateway_proofs ---------------------------
(***************************************************************************)
(* The path of a request through the gateway, for any number of keys,      *)
(* requests, budgets, rules and key pairs, and any lifetimes and limits:   *)
(* an ended key and a retired signing key stop being accepted in time,     *)
(* counters and limits hold, and what is served was screened and is the    *)
(* client's own.  Each part proves one component; the last puts them       *)
(* together.                                                               *)
(***************************************************************************)
EXTENDS MCGateway, FiniteSetTheorems, TLAPS

---------------------------------------------------------------------------
(* API keys.  Every cache entry is dated by what it was copied from: the   *)
(* auth service's by a row that was live, the gateway's by an answer that  *)
(* rested on such a row or on an entry of the auth service.                *)

USE KeyAuthAssumption

Ended(k) == keyRow[k] = "ended"

\* An entry expires at most its lifetime from now.
EntriesAreFresh ==
    \A k \in Keys : /\ apiKeyCache[k] <= now + RedisTTL
                    /\ identityCache[k] <= now + LocalTTL

\* What is left of an ended key in the caches.
EntriesOfEnded ==
    \A k \in Keys : Ended(k) =>
        /\ endedAt[k] <= now
        /\ apiKeyCache[k] <= endedAt[k] + RedisTTL
        /\ identityCache[k] < endedAt[k] + RedisTTL + LocalTTL

\* A validation that rests on a row, or on an entry, and its key.
ValidationsInTime ==
    \A c \in Calls : Ended(call[c].key) =>
        /\ call[c].srv = "found" => now = endedAt[call[c].key]
        /\ call[c].srv \in {"identified", "ok"} =>
              now < endedAt[call[c].key] + RedisTTL

AdmittedBefore == \A c \in Calls : call[c].at <= now

RevocationInv ==
    /\ KeyAuthTypeOK
    /\ EntriesAreFresh
    /\ EntriesOfEnded
    /\ ValidationsInTime
    /\ AdmittedBefore
    /\ RevocationBound

\* The initial state has no entries and no ended keys.
LEMMA RevocationInit == KeyAuthInit => RevocationInv
<1> SUFFICES ASSUME KeyAuthInit PROVE RevocationInv
  OBVIOUS
<1>1. PICK k \in Keys : call = [c \in Calls |-> NoCall(k)]
  BY DEF KeyAuthInit
<1>2. \A c \in Calls : call[c] = [key |-> k, srv |-> "idle", cli |-> "idle", at |-> 0]
  BY <1>1 DEF NoCall
<1>3. KeyAuthTypeOK
  BY <1>1 DEF KeyAuthInit, KeyAuthTypeOK, NoCall, SrvPC, CliPC
<1>4. EntriesAreFresh /\ EntriesOfEnded
  BY DEF KeyAuthInit, EntriesAreFresh, EntriesOfEnded, Ended
<1>5. ValidationsInTime /\ AdmittedBefore /\ RevocationBound
  BY <1>2, <1>3 DEF KeyAuthInit, KeyAuthTypeOK, ValidationsInTime, AdmittedBefore,
                    RevocationBound, Ended
<1> QED BY <1>3, <1>4, <1>5 DEF RevocationInv

(***************************************************************************)
(* Steps that change nothing but the server side of a call: the invariant  *)
(* asks only that what the call now rests on is in time.                   *)
(***************************************************************************)
LEMMA RevocationServer ==
  ASSUME RevocationInv, NEW c \in Calls, NEW from, NEW to \in SrvPC, Srv(c, from, to),
         UNCHANGED <<now, keyRow, endedAt, apiKeyCache, identityCache>>,
         Ended(call[c].key) =>
            /\ to = "found" => now = endedAt[call[c].key]
            /\ to \in {"identified", "ok"} => now < endedAt[call[c].key] + RedisTTL
  PROVE  RevocationInv'
<1>1. KeyAuthTypeOK'
  BY DEF RevocationInv, KeyAuthTypeOK, Srv
<1>2. \A d \in Calls : /\ call'[d].key = call[d].key
                       /\ call'[d].cli = call[d].cli
                       /\ call'[d].at = call[d].at
                       /\ call'[d].srv = IF d = c THEN to ELSE call[d].srv
  BY DEF RevocationInv, KeyAuthTypeOK, Srv
<1>3. EntriesAreFresh' /\ EntriesOfEnded'
  BY DEF RevocationInv, EntriesAreFresh, EntriesOfEnded, Ended
<1>4. ValidationsInTime'
  BY <1>2 DEF RevocationInv, ValidationsInTime, Ended
<1>5. AdmittedBefore' /\ RevocationBound'
  BY <1>2 DEF RevocationInv, AdmittedBefore, RevocationBound
<1> QED BY <1>1, <1>3, <1>4, <1>5 DEF RevocationInv

\* The auth service: a found row is live now, a served entry has not expired.
LEMMA RevocationAuth ==
  ASSUME RevocationInv, NEW c \in Calls,
         FetchRow(c) \/ CacheIdentity(c) \/ EvictIdentity(c)
            \/ ServeCached(c) \/ Authorise(c) \/ AnswerNobody(c)
  PROVE  RevocationInv'
<1> DEFINE k == call[c].key
<1>0. /\ k \in Keys /\ now \in Nat /\ endedAt[k] \in Nat
      /\ keyRow[k] \in {"absent", "live", "ended"}
  BY DEF RevocationInv, KeyAuthTypeOK
<1>1. CASE FetchRow(c)
  BY <1>0, <1>1, RevocationServer DEF FetchRow, SrvPC, Ended
<1>2. CASE CacheIdentity(c)
  <2>1. Ended(k) => now = endedAt[k]
    BY <1>2 DEF CacheIdentity, Srv, RevocationInv, ValidationsInTime
  <2>2. CASE UNCHANGED apiKeyCache
    <3>1. Srv(c, "found", "identified") /\ "identified" \in SrvPC
      BY <1>2 DEF CacheIdentity, SrvPC
    <3> QED BY <1>0, <1>2, <2>1, <2>2, <3>1, RevocationServer DEF CacheIdentity
  <2>3. CASE apiKeyCache' = [apiKeyCache EXCEPT ![k] = now + RedisTTL]
    BY <1>0, <1>2, <2>1, <2>3
       DEF CacheIdentity, Srv, RevocationInv, KeyAuthTypeOK, EntriesAreFresh,
           EntriesOfEnded, ValidationsInTime, AdmittedBefore, RevocationBound,
           Ended, SrvPC
  <2> QED BY <1>2, <2>2, <2>3 DEF CacheIdentity
<1>3. CASE EvictIdentity(c)
  BY <1>0, <1>3, SMTT(30)
     DEF EvictIdentity, Srv, RevocationInv, KeyAuthTypeOK, EntriesAreFresh,
         EntriesOfEnded, ValidationsInTime, AdmittedBefore, RevocationBound,
         Ended, SrvPC
<1>4. CASE ServeCached(c)
  <2>1. Ended(k) /\ now < apiKeyCache[k] => now < endedAt[k] + RedisTTL
    BY <1>0 DEF RevocationInv, EntriesOfEnded, KeyAuthTypeOK
  <2> QED BY <1>4, <2>1, RevocationServer DEF ServeCached, SrvPC
<1>5. CASE Authorise(c)
  <2>1. PICK answer \in Verdicts : Srv(c, "identified", answer)
    BY <1>5 DEF Authorise
  <2>2. answer \in SrvPC /\ answer # "found"
    BY DEF Verdicts, SrvPC
  <2>3. Ended(k) => now < endedAt[k] + RedisTTL
    BY <2>1 DEF Srv, RevocationInv, ValidationsInTime
  <2> QED BY <1>5, <2>1, <2>2, <2>3, RevocationServer DEF Authorise
<1>6. CASE AnswerNobody(c)
  <2>1. Srv(c, call[c].srv, "idle") /\ "idle" \in SrvPC
    BY <1>6 DEF AnswerNobody, Srv, SrvPC
  <2> QED BY <1>6, <2>1, RevocationServer DEF AnswerNobody
<1> QED BY <1>1, <1>2, <1>3, <1>4, <1>5, <1>6

\* The gateway: its entry is dated by an answer in time, and it admits only
\* on such an answer or on an entry that has not expired.
LEMMA RevocationGateway ==
  ASSUME RevocationInv, NEW c \in Calls,
         (\E k \in Keys : StartCall(c, k)) \/ Conclude(c) \/ FallBack(c)
  PROVE  RevocationInv'
<1> DEFINE k == call[c].key
<1>0. /\ k \in Keys /\ now \in Nat /\ endedAt[k] \in Nat
      /\ keyRow[k] \in {"absent", "live", "ended"}
  BY DEF RevocationInv, KeyAuthTypeOK
<1>1. CASE \E q \in Keys : StartCall(c, q)
  BY <1>1
     DEF StartCall, RevocationInv, KeyAuthTypeOK, EntriesAreFresh, EntriesOfEnded,
         ValidationsInTime, AdmittedBefore, RevocationBound, Ended, SrvPC, CliPC
<1>2. CASE Conclude(c)
  BY <1>0, <1>2
     DEF Conclude, RevocationInv, KeyAuthTypeOK, EntriesAreFresh, EntriesOfEnded,
         ValidationsInTime, AdmittedBefore, RevocationBound, Ended, SrvPC, CliPC
<1>3. CASE FallBack(c)
  <2>1. UNCHANGED <<now, keyRow, endedAt, apiKeyCache, identityCache>>
    BY <1>3 DEF FallBack
  <2>2. KeyAuthTypeOK'
    BY <1>3 DEF FallBack, RevocationInv, KeyAuthTypeOK, CliPC
  <2>3. \A d \in Calls : /\ call'[d].key = call[d].key
                         /\ call'[d].srv = call[d].srv
                         /\ call'[d].at \in {call[d].at, now}
                         /\ d # c => call'[d] = call[d]
    BY <1>3 DEF FallBack, RevocationInv, KeyAuthTypeOK
  <2>4. call'[c].cli = "admitted" => call'[c].at = now /\ now < identityCache[k]
    BY <1>3 DEF FallBack, RevocationInv, KeyAuthTypeOK
  <2>5. Ended(k) => identityCache[k] < endedAt[k] + RedisTTL + LocalTTL
    BY <1>0 DEF RevocationInv, EntriesOfEnded
  <2>6. EntriesAreFresh' /\ EntriesOfEnded' /\ ValidationsInTime' /\ AdmittedBefore'
    BY <1>0, <2>1, <2>3
       DEF RevocationInv, EntriesAreFresh, EntriesOfEnded, ValidationsInTime,
           AdmittedBefore, Ended
  <2>7. identityCache[k] \in Nat
    BY <1>0 DEF RevocationInv, KeyAuthTypeOK
  <2>8. RevocationBound'
    BY <1>0, <2>1, <2>3, <2>4, <2>5, <2>7 DEF RevocationInv, RevocationBound, Ended
  <2> QED BY <2>2, <2>6, <2>8 DEF RevocationInv
<1> QED BY <1>1, <1>2, <1>3

\* The admin service, a restart of the gateway and time: when a key ends,
\* whatever is in a cache expires within a lifetime from now.
LEMMA RevocationSurroundings ==
  ASSUME RevocationInv,
         (\E k \in Keys : CreateKey(k) \/ EndKey(k)) \/ GatewayRestarts \/ Tick
  PROVE  RevocationInv'
<1>1. ASSUME NEW k \in Keys, CreateKey(k) PROVE RevocationInv'
  BY <1>1
     DEF CreateKey, RevocationInv, KeyAuthTypeOK, EntriesAreFresh, EntriesOfEnded,
         ValidationsInTime, AdmittedBefore, RevocationBound, Ended
<1>2. ASSUME NEW k \in Keys, EndKey(k) PROVE RevocationInv'
  BY <1>2
     DEF EndKey, RevocationInv, KeyAuthTypeOK, EntriesAreFresh, EntriesOfEnded,
         ValidationsInTime, AdmittedBefore, RevocationBound, Ended
<1>3. CASE GatewayRestarts
  BY <1>3
     DEF GatewayRestarts, RevocationInv, KeyAuthTypeOK, EntriesAreFresh,
         EntriesOfEnded, ValidationsInTime, AdmittedBefore, RevocationBound, Ended
<1>4. CASE Tick
  BY <1>4
     DEF Tick, RevocationInv, KeyAuthTypeOK, EntriesAreFresh, EntriesOfEnded,
         ValidationsInTime, AdmittedBefore, RevocationBound, Ended
<1> QED BY <1>1, <1>2, <1>3, <1>4

\* The rows, both caches and the calls hold only what the code puts there, and
\* a revoked or expired key is admitted for less than the two lifetimes added
\* up, whichever outages come together (api_key.py, _validate_token).
THEOREM RevocationIsBounded == KeyAuthSpec => [](KeyAuthTypeOK /\ RevocationBound)
<1>1. RevocationInv /\ [KeyAuthNext]_keyAuthVars => RevocationInv'
  <2> SUFFICES ASSUME RevocationInv, [KeyAuthNext]_keyAuthVars PROVE RevocationInv'
    OBVIOUS
  <2>1. CASE UNCHANGED keyAuthVars
    BY <2>1
       DEF keyAuthVars, RevocationInv, KeyAuthTypeOK, EntriesAreFresh,
           EntriesOfEnded, ValidationsInTime, AdmittedBefore, RevocationBound, Ended
  <2>2. CASE KeyAuthNext
    BY <2>2, RevocationAuth, RevocationGateway, RevocationSurroundings
       DEF KeyAuthNext
  <2> QED BY <2>1, <2>2
<1>2. RevocationInv => KeyAuthTypeOK /\ RevocationBound
  BY DEF RevocationInv
<1> QED BY RevocationInit, <1>1, <1>2, PTL DEF KeyAuthSpec

HIDE KeyAuthAssumption

---------------------------------------------------------------------------
(* Signing keys.  Each copy of the key set is dated by the answer of the   *)
(* admin service it came from, and serving the copy does not renew it.     *)

USE SigningKeysAssumption

\* A call that has made or loaded a key has both the pair and the key id.
MakersHoldKeys ==
    \A m \in Makers : maker[m].pc \in {"made", "stored", "loaded"} =>
        maker[m].pair \in Pairs /\ maker[m].kid \in Pairs

\* Each copy is dated by the answer of the admin service it came from.
CopiesAreDated ==
    /\ \A x \in Signed : lastServed[x] <= clock
    /\ jwksCopy.key # NoJwk =>
          jwksCopy.until <= lastServed[jwksCopy.key] + CopyTTL
    /\ jwks.key # NoJwk =>
          jwks.until < lastServed[jwks.key] + CopyTTL + StaleTTL

SigningInv ==
    /\ KeysTypeOK
    /\ MakersHoldKeys
    /\ CopiesAreDated
    /\ RetiredKeyBound

\* At first nothing was copied or accepted.
LEMMA SigningInit == KeysInit => SigningInv
BY DEF KeysInit, SigningInv, KeysTypeOK, MakersHoldKeys, CopiesAreDated,
       RetiredKeyBound, Idle, Held, NoJwk

\* The admin service: only calls, the stored entries and the tokens change.
LEMMA SigningAdmin ==
  ASSUME SigningInv,
         \/ \E m \in Makers : \/ ReadPem(m) \/ ReadKid(m) \/ StorePem(m)
                              \/ StoreKid(m) \/ IssueToken(m)
         \/ SigningKeyExpires
  PROVE  SigningInv'
<1>0. clock' = clock /\ jwks' = jwks /\ jwksCopy' = jwksCopy
      /\ verified' = verified /\ lastServed' = lastServed
  BY DEF ReadPem, ReadKid, StorePem, StoreKid, IssueToken, SigningKeyExpires, authVars
<1>1. CopiesAreDated' /\ RetiredKeyBound'
  BY <1>0 DEF SigningInv, CopiesAreDated, RetiredKeyBound
<1>2. KeysTypeOK' /\ MakersHoldKeys'
  <2>1. ASSUME NEW m \in Makers, ReadPem(m) PROVE KeysTypeOK' /\ MakersHoldKeys'
    BY <1>0, <2>1 DEF ReadPem, SigningInv, KeysTypeOK, MakersHoldKeys, Idle, Held, NoJwk
  <2>2. ASSUME NEW m \in Makers, ReadKid(m) PROVE KeysTypeOK' /\ MakersHoldKeys'
    BY <1>0, <2>2 DEF ReadKid, SigningInv, KeysTypeOK, MakersHoldKeys, Held, NoJwk
  <2>3. ASSUME NEW m \in Makers, StorePem(m) PROVE KeysTypeOK' /\ MakersHoldKeys'
    BY <1>0, <2>3 DEF StorePem, SigningInv, KeysTypeOK, MakersHoldKeys, Held, NoJwk
  <2>4. ASSUME NEW m \in Makers, StoreKid(m) PROVE KeysTypeOK' /\ MakersHoldKeys'
    BY <1>0, <2>4 DEF StoreKid, SigningInv, KeysTypeOK, MakersHoldKeys, Held, NoJwk
  <2>5. ASSUME NEW m \in Makers, IssueToken(m) PROVE KeysTypeOK' /\ MakersHoldKeys'
    BY <1>0, <2>5 DEF IssueToken, SigningInv, KeysTypeOK, MakersHoldKeys, Idle, Held, NoJwk, Signed
  <2>6. CASE SigningKeyExpires
    BY <1>0, <2>6 DEF SigningKeyExpires, SigningInv, KeysTypeOK, MakersHoldKeys, Held, NoJwk
  <2> QED BY <2>1, <2>2, <2>3, <2>4, <2>5, <2>6
<1> QED BY <1>1, <1>2 DEF SigningInv

\* The auth service: a fetched set ends before the copy's lifetime and a stale
\* serving have passed, and a stale serving starts before the copy has ended.
LEMMA SigningAuth ==
  ASSUME SigningInv,
         \/ \E m \in Makers : FetchJwks(m)
         \/ ServeStale
         \/ \E t \in tokens : AcceptToken(t)
         \/ KeysTick
  PROVE  SigningInv'
<1>1. ASSUME NEW m \in Makers, FetchJwks(m) PROVE SigningInv'
  <2> DEFINE key == [pair |-> maker[m].pair, kid |-> maker[m].kid]
  <2>0. key \in Signed
    BY <1>1 DEF FetchJwks, SigningInv, MakersHoldKeys, Signed
  <2>1. /\ jwks' = [key |-> key, until |-> clock + JwksTTL]
        /\ jwksCopy' \in {jwksCopy, [key |-> key, until |-> clock + CopyTTL]}
        /\ lastServed' = [lastServed EXCEPT ![key] = clock]
        /\ maker' = [maker EXCEPT ![m] = Idle]
        /\ UNCHANGED <<clock, pem, kid, tokens, verified>>
    BY <1>1 DEF FetchJwks
  <2> HIDE DEF key
  <2>2. KeysTypeOK'
    BY <2>0, <2>1 DEF SigningInv, KeysTypeOK, Held, Idle
  <2>3. MakersHoldKeys'
    BY <2>1 DEF SigningInv, MakersHoldKeys, KeysTypeOK, Idle
  <2>4. \A x \in Signed : /\ lastServed'[x] >= lastServed[x]
                          /\ lastServed'[x] <= clock
                          /\ lastServed[x] \in Nat /\ lastServed'[x] \in Nat
    BY <2>0, <2>1 DEF SigningInv, CopiesAreDated, KeysTypeOK
  <2>5. lastServed'[key] = clock /\ clock \in Nat
    BY <2>0, <2>1 DEF SigningInv, KeysTypeOK
  <2>6. CopiesAreDated'
    BY <2>0, <2>1, <2>4, <2>5 DEF SigningInv, CopiesAreDated, KeysTypeOK, Held
  <2>7. RetiredKeyBound'
    BY <2>1, <2>4 DEF SigningInv, RetiredKeyBound, KeysTypeOK
  <2> QED BY <2>2, <2>3, <2>6, <2>7 DEF SigningInv
<1>2. CASE ServeStale
  BY <1>2 DEF ServeStale, SigningInv, KeysTypeOK, MakersHoldKeys, CopiesAreDated,
              RetiredKeyBound, Held
<1>3. ASSUME NEW t \in tokens, AcceptToken(t) PROVE SigningInv'
  BY <1>3 DEF AcceptToken, FreshJwks, SigningInv, KeysTypeOK, MakersHoldKeys,
              CopiesAreDated, RetiredKeyBound, Held
<1>4. CASE KeysTick
  BY <1>4 DEF KeysTick, SigningInv, KeysTypeOK, MakersHoldKeys, CopiesAreDated,
              RetiredKeyBound, Held, authVars
<1> QED BY <1>1, <1>2, <1>3, <1>4

\* The stored key, the calls, the tokens and both copies hold only what the
\* code puts there, and a token is accepted for less than CopyTTL + StaleTTL
\* after the admin service last answered with its key, whatever outages come
\* (_get_identity_jwks): serving the copy does not prolong it.
THEOREM RetiredKeysAreBounded == KeysSpec => [](KeysTypeOK /\ RetiredKeyBound)
<1>1. SigningInv /\ [KeysNext]_keyVars => SigningInv'
  <2> SUFFICES ASSUME SigningInv, [KeysNext]_keyVars PROVE SigningInv'
    OBVIOUS
  <2>1. CASE UNCHANGED keyVars
    BY <2>1 DEF keyVars, SigningInv, KeysTypeOK, MakersHoldKeys, CopiesAreDated, RetiredKeyBound
  <2>2. CASE KeysNext
    BY <2>2, SigningAdmin, SigningAuth DEF KeysNext
  <2> QED BY <2>1, <2>2
<1>2. SigningInv => KeysTypeOK /\ RetiredKeyBound
  BY DEF SigningInv
<1> QED BY SigningInit, <1>1, <1>2, PTL DEF KeysSpec

HIDE SigningKeysAssumption

---------------------------------------------------------------------------
(* Budgets.  A counter may be wrong after a PUT that overlapped an          *)
(* increment; the invariant says which sums a PUT may seed it with.        *)

USE SpendingAssumption

\* Rows whose increment is under way, and events recorded by their delivery.
Pending == Cardinality(At("recorded"))
Delivered == {r \in Requests : req[r] \in {"recorded", "counted"}}

\* A seed that overlaps no increment will agree with the rows.
SeedsAgree ==
    \A u \in Puts :
        put[u].pc = "summed" /\ put[u].alone => put[u].sum + Pending = records

\* What is known of a PUT.
PutState == [pc : {"idle", "committed", "published", "summed", "done"},
             scope : Scopes, limit : Limits \cup {NoLimit}, sum : Nat, alone : BOOLEAN]

\* Every request that passed was counted in the window, and within the limit.
PassedAreCounted == passed <= window /\ RateLimitHolds

CountsAgree == CounterAgrees /\ SeedsAgree /\ RecordedPerDelivery

SpendingInv ==
    /\ SpendingTypeOK
    /\ CountsAgree
    /\ PassedAreCounted

\* The requests in a place are finitely many.
LEMMA PlacesFinite ==
    /\ IsFiniteSet(At("recorded")) /\ Pending \in Nat
    /\ IsFiniteSet(Delivered) /\ Cardinality(Delivered) \in Nat
<1>1. At("recorded") \in SUBSET Requests /\ Delivered \in SUBSET Requests
  BY DEF At, Delivered
<1> QED BY <1>1, FS_Subset, FS_CardinalityType DEF Pending

\* At first nothing was recorded.
LEMMA SpendingStart == SpendingInit => SpendingInv
<1> SUFFICES ASSUME SpendingInit PROVE SpendingInv
  OBVIOUS
<1>1. At("recorded") = {} /\ Delivered = {}
  BY DEF SpendingInit, At, Delivered
<1>2. Pending = 0 /\ Cardinality(Delivered) = 0
  BY <1>1, FS_EmptySet DEF Pending
<1>3. CountsAgree
  BY <1>2 DEF SpendingInit, CountsAgree, CounterAgrees, SeedsAgree, RecordedPerDelivery,
     Pending, Delivered, NoPut
<1> QED BY <1>3 DEF SpendingInit, SpendingInv, SpendingTypeOK, PassedAreCounted,
       RateLimitHolds, NoPut, Scopes, NoLimit, ReqPC

\* How a request's move changes what is pending and what is held.
LEMMA Moves ==
  ASSUME SpendingTypeOK, NEW r \in Requests, NEW from \in ReqPC, NEW to \in ReqPC,
         Go(r, from, to)
  PROVE  /\ Pending' = IF from = to THEN Pending
                       ELSE IF to = "recorded" THEN Pending + 1
                       ELSE IF from = "recorded" THEN Pending - 1 ELSE Pending
         /\ Cardinality(Delivered)' =
               IF to \in {"recorded", "counted"}
               THEN IF from \in {"recorded", "counted"} THEN Cardinality(Delivered)
                    ELSE Cardinality(Delivered) + 1
               ELSE IF from \in {"recorded", "counted"} THEN Cardinality(Delivered) - 1
                    ELSE Cardinality(Delivered)
         /\ req' \in [Requests -> ReqPC]
<1>1. /\ req[r] = from /\ req'[r] = to
      /\ \A q \in Requests : q # r => req'[q] = req[q]
      /\ req' \in [Requests -> ReqPC]
  BY DEF Go, SpendingTypeOK
<1>2. At("recorded")' = IF from = to THEN At("recorded")
                        ELSE IF to = "recorded" THEN At("recorded") \cup {r}
                        ELSE At("recorded") \ {r}
  BY <1>1 DEF At
<1>3. Delivered' = IF to \in {"recorded", "counted"} THEN Delivered \cup {r} ELSE Delivered \ {r}
  BY <1>1 DEF Delivered
<1>4. /\ r \in At("recorded") <=> from = "recorded"
      /\ r \in Delivered <=> from \in {"recorded", "counted"}
  BY <1>1 DEF At, Delivered
<1>5. /\ Cardinality(At("recorded") \cup {r}) =
            IF r \in At("recorded") THEN Pending ELSE Pending + 1
      /\ Cardinality(At("recorded") \ {r}) =
            IF r \in At("recorded") THEN Pending - 1 ELSE Pending
  BY PlacesFinite, FS_AddElement, FS_RemoveElement DEF Pending
<1>6. /\ Cardinality(Delivered \cup {r}) =
            IF r \in Delivered THEN Cardinality(Delivered) ELSE Cardinality(Delivered) + 1
      /\ Cardinality(Delivered \ {r}) =
            IF r \in Delivered THEN Cardinality(Delivered) - 1 ELSE Cardinality(Delivered)
  BY PlacesFinite, FS_AddElement, FS_RemoveElement
<1>7. Pending' = IF from = to THEN Pending
                 ELSE IF to = "recorded" THEN Pending + 1
                 ELSE IF from = "recorded" THEN Pending - 1 ELSE Pending
  BY <1>2, <1>4, <1>5 DEF Pending
<1> QED BY <1>1, <1>3, <1>4, <1>6, <1>7

\* Steps of a request before its event: they may move the window, and nothing
\* else but where the request is.
LEMMA SpendingValidation ==
  ASSUME SpendingInv, NEW r \in Requests,
         \/ Watch(r) \/ RateLimit(r) \/ WatchFails(r) \/ LimiterDown(r)
         \/ CheckKey(r) \/ CheckTeam(r) \/ CheckOrg(r) \/ Emit(r)
  PROVE  SpendingInv'
<1> DEFINE early == ReqPC \ {"recorded", "counted"}
<1>1. UNCHANGED <<limitVars, put, countVars>>
  BY DEF Watch, RateLimit, WatchFails, LimiterDown, CheckKey, CheckTeam, CheckOrg, Emit
<1>2. \E from, to \in early : Go(r, from, to)
  BY DEF Watch, RateLimit, WatchFails, LimiterDown, CheckKey, CheckTeam, CheckOrg, Emit, ReqPC
<1>3. /\ Pending' = Pending /\ Cardinality(Delivered)' = Cardinality(Delivered)
      /\ req' \in [Requests -> ReqPC]
  BY <1>2, Moves DEF SpendingInv
<1>4. CountsAgree'
  BY <1>1, <1>3 DEF SpendingInv, CountsAgree, CounterAgrees, SeedsAgree,
     RecordedPerDelivery, countVars, Pending, Delivered
<1>6. window' \in Nat /\ watching' \in SUBSET Requests /\ passed' \in Nat
      /\ slipped' \in Nat /\ PassedAreCounted'
  <2>1. CASE Watch(r)
    BY <2>1 DEF Watch, SpendingInv, SpendingTypeOK, PassedAreCounted, RateLimitHolds
  <2>2. CASE RateLimit(r)
    BY <2>2 DEF RateLimit, SpendingInv, SpendingTypeOK, PassedAreCounted, RateLimitHolds
  <2>3. CASE WatchFails(r)
    BY <2>3 DEF WatchFails, SpendingInv, SpendingTypeOK, PassedAreCounted, RateLimitHolds
  <2>4. CASE UNCHANGED limiterVars
    BY <2>4 DEF limiterVars, SpendingInv, SpendingTypeOK, PassedAreCounted, RateLimitHolds
  <2> QED BY <2>1, <2>2, <2>3, <2>4 DEF LimiterDown, CheckKey, CheckTeam, CheckOrg, Emit
<1>7. SpendingTypeOK'
  BY <1>1, <1>3, <1>6 DEF SpendingInv, SpendingTypeOK, limitVars, countVars
<1> QED BY <1>4, <1>6, <1>7 DEF SpendingInv

\* After Overlap no sum is to be trusted.
LEMMA OverlapEndsTrust ==
  ASSUME SpendingTypeOK, Overlap
  PROVE  /\ put' \in [Puts -> PutState]
         /\ \A u \in Puts : put'[u].pc = "summed" => ~put'[u].alone
<1>1. /\ put \in [Puts -> PutState]
      /\ put' = [u \in Puts |-> IF put[u].pc = "summed"
                                THEN [put[u] EXCEPT !.alone = FALSE] ELSE put[u]]
  BY DEF Overlap, SpendingTypeOK, PutState
<1>2. ASSUME NEW u \in Puts
      PROVE  put'[u] \in PutState /\ (put'[u].pc = "summed" => ~put'[u].alone)
  <2>1. /\ [put[u] EXCEPT !.alone = FALSE] \in PutState
        /\ ~[put[u] EXCEPT !.alone = FALSE].alone
    BY <1>1 DEF PutState
  <2> QED BY <1>1, <2>1
<1> QED BY <1>1, <1>2

\* The event: a row is pending until the counters know it, or none is clean.
LEMMA SpendingEvent ==
  ASSUME SpendingInv, NEW r \in Requests,
         Record(r) \/ Count(r) \/ CountFails(r) \/ Redeliver(r)
  PROVE  SpendingInv'
<1> USE DEF SpendingInv
<1>1. UNCHANGED <<limitVars, limiterVars>>
  BY DEF Record, Count, CountFails, Redeliver
<1>2. PassedAreCounted'
  BY <1>1 DEF limiterVars, PassedAreCounted, RateLimitHolds
<1>3. Pending \in Nat /\ Cardinality(Delivered) \in Nat
  BY PlacesFinite
<1>t. ASSUME req' \in [Requests -> ReqPC], put' \in [Puts -> PutState],
             counter' \in [Scopes -> Nat], records' \in Nat,
             redeliveries' \in 0..MaxRedeliveries, clean' \in [Scopes -> BOOLEAN]
      PROVE  SpendingTypeOK'
  BY <1>1, <1>t DEF SpendingTypeOK, limitVars, limiterVars, PutState
<1>4. ASSUME Record(r) PROVE SpendingInv'
  <2>1. CASE Go(r, "queued", "recorded") /\ records' = records + 1
    <3>1. /\ Pending' = Pending + 1 /\ Cardinality(Delivered)' = Cardinality(Delivered) + 1
          /\ req' \in [Requests -> ReqPC]
      BY <2>1, Moves DEF ReqPC
    <3>2. UNCHANGED <<put, counter, redeliveries, clean>>
      BY <1>4 DEF Record
    <3>3. SpendingTypeOK'
      BY <1>t, <2>1, <3>1, <3>2 DEF SpendingTypeOK, PutState
    <3>4. CounterAgrees'
      <4>1. \A s \in Scopes : clean[s] => counter[s] + Pending = records /\ counter[s] \in Nat
        BY DEF SpendingTypeOK, CountsAgree, CounterAgrees, Pending
      <4>2. \A s \in Scopes : clean'[s] => counter'[s] + Pending' = records'
        BY <1>3, <2>1, <3>1, <3>2, <4>1
      <4> QED BY <4>2 DEF CounterAgrees, Pending
    <3>5. SeedsAgree'
      <4>1. \A u \in Puts : put[u].sum \in Nat
        BY DEF SpendingTypeOK
      <4> QED BY <1>3, <2>1, <3>1, <3>2, <4>1 DEF CountsAgree, SeedsAgree
    <3>6. RecordedPerDelivery'
      BY <1>3, <2>1, <3>1, <3>2 DEF SpendingTypeOK, CountsAgree, RecordedPerDelivery, Delivered
    <3> QED BY <1>2, <3>3, <3>4, <3>5, <3>6 DEF CountsAgree
  <2>2. CASE Go(r, "queued", "lost") /\ UNCHANGED records
    <3>1. /\ Pending' = Pending /\ Cardinality(Delivered)' = Cardinality(Delivered)
          /\ req' \in [Requests -> ReqPC]
      BY <2>2, Moves DEF ReqPC
    <3>2. UNCHANGED <<put, counter, redeliveries, clean>>
      BY <1>4 DEF Record
    <3>3. SpendingTypeOK'
      BY <1>t, <2>2, <3>1, <3>2 DEF SpendingTypeOK, PutState
    <3>4. CounterAgrees' /\ SeedsAgree' /\ RecordedPerDelivery'
      BY <2>2, <3>1, <3>2
         DEF CountsAgree, CounterAgrees, SeedsAgree, RecordedPerDelivery, Pending, Delivered
    <3> QED BY <1>2, <3>3, <3>4 DEF CountsAgree
  <2> QED BY <1>4, <2>1, <2>2 DEF Record
<1>5. ASSUME Go(r, "recorded", "counted"), Overlap, UNCHANGED <<records, redeliveries>>,
             \/ /\ counter' = [s \in Scopes |-> counter[s] + 1]
                /\ UNCHANGED clean
             \/ /\ clean' = [s \in Scopes |-> FALSE]
                /\ UNCHANGED counter
      PROVE  SpendingInv'
  <2>1. /\ Pending' = Pending - 1 /\ Cardinality(Delivered)' = Cardinality(Delivered)
        /\ req' \in [Requests -> ReqPC]
    BY <1>5, Moves DEF ReqPC
  <2>2. /\ put' \in [Puts -> PutState]
        /\ \A u \in Puts : put'[u].pc = "summed" => ~put'[u].alone
    BY <1>5, OverlapEndsTrust
  <2>3. counter' \in [Scopes -> Nat] /\ clean' \in [Scopes -> BOOLEAN]
    <3>1. counter \in [Scopes -> Nat] /\ clean \in [Scopes -> BOOLEAN]
      BY DEF SpendingTypeOK
    <3>2. counter' \in [Scopes -> Nat]
      BY <1>5, <3>1
    <3>3. clean' = clean \/ clean' = [s \in Scopes |-> FALSE]
      BY <1>5
    <3> QED BY <3>1, <3>2, <3>3
  <2>4. SpendingTypeOK'
    <3>1. records' \in Nat /\ redeliveries' \in 0..MaxRedeliveries
      BY <1>5 DEF SpendingTypeOK
    <3> QED BY <1>t, <2>1, <2>2, <2>3, <3>1
  <2>5. SeedsAgree'
    BY <2>2 DEF SeedsAgree
  <2>6. RecordedPerDelivery'
    BY <1>5, <2>1 DEF CountsAgree, RecordedPerDelivery, Delivered
  <2>7. CounterAgrees'
    <3>1. \A s \in Scopes : clean'[s] => clean[s] /\ counter'[s] = counter[s] + 1
      BY <1>5 DEF SpendingTypeOK
    <3>2. \A s \in Scopes : clean[s] => counter[s] + Pending = records /\ counter[s] \in Nat
      BY DEF CountsAgree, CounterAgrees, Pending, SpendingTypeOK
    <3>3. \A s \in Scopes : clean'[s] => counter'[s] + Pending' = records'
      BY <1>3, <1>5, <2>1, <3>1, <3>2
    <3> QED BY <3>3 DEF CounterAgrees, Pending
  <2> QED BY <1>2, <2>4, <2>5, <2>6, <2>7 DEF CountsAgree
<1>6. CASE Count(r)
  BY <1>5, <1>6 DEF Count
<1>7. CASE CountFails(r)
  BY <1>5, <1>7 DEF CountFails
<1>8. ASSUME Redeliver(r) PROVE SpendingInv'
  <2>1. /\ redeliveries' = redeliveries + 1 /\ redeliveries' \in 0..MaxRedeliveries
        /\ redeliveries \in Nat /\ UNCHANGED <<counter, records>>
    BY <1>8 DEF Redeliver, SpendingTypeOK
  <2>2. CASE Go(r, "recorded", "queued") /\ Overlap /\ clean' = [s \in Scopes |-> FALSE]
    <3>1. /\ Cardinality(Delivered)' = Cardinality(Delivered) - 1 /\ req' \in [Requests -> ReqPC]
      BY <2>2, Moves DEF ReqPC
    <3>2. /\ put' \in [Puts -> PutState]
          /\ \A u \in Puts : put'[u].pc = "summed" => ~put'[u].alone
      BY <2>2, OverlapEndsTrust
    <3>3. SpendingTypeOK'
      BY <1>t, <2>1, <2>2, <3>1, <3>2 DEF SpendingTypeOK
    <3>4. SeedsAgree' /\ CounterAgrees'
      BY <2>2, <3>2 DEF SeedsAgree, CounterAgrees
    <3>5. RecordedPerDelivery'
      BY <1>3, <2>1, <3>1 DEF CountsAgree, RecordedPerDelivery, Delivered, SpendingTypeOK
    <3> QED BY <1>2, <3>3, <3>4, <3>5 DEF CountsAgree
  <2>3. CASE Go(r, "counted", "queued") /\ UNCHANGED <<put, clean>>
    <3>1. /\ Pending' = Pending /\ Cardinality(Delivered)' = Cardinality(Delivered) - 1
          /\ req' \in [Requests -> ReqPC]
      BY <2>3, Moves DEF ReqPC
    <3>2. SpendingTypeOK'
      BY <1>t, <2>1, <2>3, <3>1 DEF SpendingTypeOK, PutState
    <3>3. SeedsAgree' /\ CounterAgrees'
      BY <2>1, <2>3, <3>1 DEF CountsAgree, SeedsAgree, CounterAgrees, Pending
    <3>4. RecordedPerDelivery'
      BY <1>3, <2>1, <3>1 DEF CountsAgree, RecordedPerDelivery, Delivered, SpendingTypeOK
    <3> QED BY <1>2, <3>2, <3>3, <3>4 DEF CountsAgree
  <2> QED BY <1>8, <2>2, <2>3 DEF Redeliver
<1> QED BY <1>4, <1>6, <1>7, <1>8

\* A PUT: a sum read while no row is pending agrees with the rows.
LEMMA SpendingPut ==
  ASSUME SpendingInv, NEW u \in Puts,
         \/ \E s \in Scopes, limit \in Limits \cup {NoLimit} : SetBudget(u, s, limit)
         \/ PublishLimit(u) \/ SumSpend(u) \/ SeedCounter(u) \/ AbandonPut(u)
  PROVE  SpendingInv'
<1> USE DEF SpendingInv
<1>1. UNCHANGED <<req, records, redeliveries, limiterVars>>
  BY DEF SetBudget, PublishLimit, SumSpend, SeedCounter, AbandonPut, countVars
<1>2. /\ PassedAreCounted' /\ RecordedPerDelivery'
      /\ Pending' = Pending /\ Pending \in Nat /\ records' = records
  BY <1>1, PlacesFinite DEF limiterVars, PassedAreCounted, RateLimitHolds, CountsAgree,
     RecordedPerDelivery, Pending, At
<1>3. put \in [Puts -> PutState] /\ put[u].scope \in Scopes /\ put[u].limit \in Limits \cup {NoLimit}
  BY DEF SpendingTypeOK, PutState
<1>4. ASSUME NEW p \in PutState, put' = [put EXCEPT ![u] = p],
             p.pc = "summed" /\ p.alone => p.sum + Pending = records,
             limitRow' \in [Scopes -> Limits \cup {NoLimit}],
             limitKey' \in [Scopes -> Limits \cup {NoLimit}], UNCHANGED orgBlocks,
             \/ UNCHANGED <<counter, clean>>
             \/ /\ counter' = [counter EXCEPT ![put[u].scope] = put[u].sum]
                /\ clean' = [clean EXCEPT ![put[u].scope] = put[u].alone]
                /\ put[u].pc = "summed"
      PROVE  SpendingInv'
  <2>1. put' \in [Puts -> PutState]
    BY <1>3, <1>4
  <2>2. counter' \in [Scopes -> Nat] /\ clean' \in [Scopes -> BOOLEAN]
    <3>1. put[u].sum \in Nat /\ put[u].alone \in BOOLEAN
      BY <1>3 DEF PutState
    <3> QED BY <1>3, <1>4, <3>1 DEF SpendingTypeOK
  <2>3. SpendingTypeOK'
    BY <1>1, <1>4, <2>1, <2>2 DEF SpendingTypeOK, limiterVars, PutState
  <2>4. SeedsAgree'
    <3>1. \A v \in Puts : put'[v] = IF v = u THEN p ELSE put[v]
      BY <1>3, <1>4
    <3> QED BY <1>2, <1>4, <3>1 DEF CountsAgree, SeedsAgree
  <2>5. CounterAgrees'
    <3>1. \A s \in Scopes : clean[s] => counter[s] + Pending = records
      BY DEF CountsAgree, CounterAgrees, Pending
    <3>2. put[u].pc = "summed" /\ put[u].alone => put[u].sum + Pending = records
      BY DEF CountsAgree, SeedsAgree
    <3>3. \A s \in Scopes : clean'[s] => counter'[s] + Pending = records
      BY <1>3, <1>4, <3>1, <3>2 DEF SpendingTypeOK
    <3> QED BY <1>2, <3>3 DEF CounterAgrees, Pending
  <2> QED BY <1>2, <2>3, <2>4, <2>5 DEF CountsAgree
<1>5. PutEnded \in PutState /\ PutEnded.pc = "done"
  BY DEF PutEnded, NoPut, PutState, Scopes
<1>6. ASSUME NEW s \in Scopes, NEW limit \in Limits \cup {NoLimit}, SetBudget(u, s, limit)
      PROVE  SpendingInv'
  <2> DEFINE p == [NoPut EXCEPT !.pc = "committed", !.scope = s, !.limit = limit]
  <2>1. p \in PutState /\ p.pc = "committed"
    BY DEF NoPut, PutState
  <2>2. limitRow' \in [Scopes -> Limits \cup {NoLimit}]
    BY <1>6 DEF SetBudget, SpendingTypeOK
  <2>3. put' = [put EXCEPT ![u] = p] /\ UNCHANGED <<limitKey, orgBlocks, counter, clean>>
    BY <1>6 DEF SetBudget, countVars
  <2> HIDE DEF p
  <2> QED BY <1>4, <2>1, <2>2, <2>3 DEF SpendingTypeOK
<1>7. ASSUME PublishLimit(u) PROVE SpendingInv'
  <2> DEFINE p == IF put[u].scope \in Seeded THEN [put[u] EXCEPT !.pc = "published"] ELSE PutEnded
  <2>1. p \in PutState /\ p.pc # "summed"
    BY <1>3, <1>5 DEF PutState
  <2>2. limitKey' \in [Scopes -> Limits \cup {NoLimit}]
    BY <1>3, <1>7 DEF PublishLimit, SpendingTypeOK
  <2>3. put' = [put EXCEPT ![u] = p] /\ UNCHANGED <<limitRow, orgBlocks, counter, clean>>
    BY <1>7 DEF PublishLimit, countVars
  <2> HIDE DEF p
  <2> QED BY <1>4, <2>1, <2>2, <2>3 DEF SpendingTypeOK
<1>8. ASSUME SumSpend(u) PROVE SpendingInv'
  <2> DEFINE p == [put[u] EXCEPT !.pc = "summed", !.sum = records,
                                 !.alone = At("recorded") = {}]
  <2>1. p \in PutState /\ p.sum = records /\ p.alone = (At("recorded") = {})
    BY <1>3 DEF PutState, SpendingTypeOK
  <2>2. p.alone => Pending = 0
    BY <2>1, FS_EmptySet DEF Pending
  <2>3. p.alone => p.sum + Pending = records
    <3>1. records \in Nat
      BY DEF SpendingTypeOK
    <3> QED BY <2>1, <2>2, <3>1
  <2>4. put' = [put EXCEPT ![u] = p] /\ UNCHANGED <<limitVars, counter, clean>>
    BY <1>8 DEF SumSpend, countVars
  <2> HIDE DEF p
  <2> QED BY <1>4, <2>1, <2>3, <2>4 DEF SpendingTypeOK, limitVars
<1>9. ASSUME SeedCounter(u) PROVE SpendingInv'
  BY <1>4, <1>5, <1>9 DEF SeedCounter, SpendingTypeOK, limitVars
<1>10. ASSUME AbandonPut(u) PROVE SpendingInv'
  BY <1>4, <1>5, <1>10 DEF AbandonPut, SpendingTypeOK, limitVars, countVars
<1> QED BY <1>6, <1>7, <1>8, <1>9, <1>10

\* The passing of time, and what Redis loses.
LEMMA SpendingTime ==
  ASSUME SpendingInv,
         \/ WindowEnds \/ MonthEnds
         \/ \E s \in Scopes : LimitExpires(s) \/ CounterLost(s)
  PROVE  SpendingInv'
<1> USE DEF SpendingInv
<1>1. CASE WindowEnds
  BY <1>1 DEF WindowEnds, limitVars, countVars, SpendingTypeOK, CountsAgree, CounterAgrees,
     SeedsAgree, RecordedPerDelivery, PassedAreCounted, RateLimitHolds, Pending, At
<1>2. CASE MonthEnds
  <2>1. UNCHANGED <<limitVars, req, redeliveries, limiterVars>> /\ records' = 0
        /\ counter' = [s \in Scopes |-> 0] /\ clean' = [s \in Scopes |-> At("recorded") = {}]
    BY <1>2 DEF MonthEnds
  <2>2. /\ put' \in [Puts -> PutState]
        /\ \A u \in Puts : put'[u].pc = "summed" => ~put'[u].alone
    BY <1>2, OverlapEndsTrust DEF MonthEnds
  <2>3. SpendingTypeOK'
    BY <2>1, <2>2 DEF SpendingTypeOK, limitVars, limiterVars, PutState
  <2>4. SeedsAgree'
    BY <2>2 DEF SeedsAgree
  <2>5. At("recorded")' = At("recorded") /\ (At("recorded") = {} => Pending = 0)
    BY <2>1, FS_EmptySet DEF At, Pending
  <2>6. CounterAgrees'
    <3>0. \A s \in Scopes : clean'[s] => At("recorded") = {}
      BY <2>1, Zenon
    <3>1. \A s \in Scopes : clean'[s] => counter'[s] + Pending = 0
      <4>1. \A s \in Scopes : counter'[s] = 0
        BY <2>1
      <4>2. Pending = 0 => 0 + Pending = 0
        OBVIOUS
      <4> QED BY <2>5, <3>0, <4>1, <4>2
    <3>2. Pending' = Pending
      BY <2>5 DEF Pending
    <3>3. \A s \in Scopes : clean'[s] => counter'[s] + Pending' = records'
      BY <2>1, <3>1, <3>2
    <3> QED BY <3>3 DEF CounterAgrees, Pending
  <2>7. RecordedPerDelivery'
    <3>1. Delivered' = Delivered /\ redeliveries \in Nat /\ Cardinality(Delivered) \in Nat
      BY <2>1, PlacesFinite DEF Delivered, SpendingTypeOK
    <3>2. 0 <= Cardinality(Delivered) + redeliveries
      BY <3>1
    <3> QED BY <2>1, <3>1, <3>2 DEF RecordedPerDelivery, Delivered
  <2>8. PassedAreCounted'
    BY <2>1 DEF limiterVars, PassedAreCounted, RateLimitHolds
  <2> QED BY <2>3, <2>4, <2>6, <2>7, <2>8 DEF CountsAgree
<1>3. ASSUME NEW s \in Scopes, LimitExpires(s) PROVE SpendingInv'
  <2>1. UNCHANGED <<limitRow, orgBlocks, countVars, put, req, limiterVars>>
        /\ limitKey' \in [Scopes -> Limits \cup {NoLimit}]
    BY <1>3 DEF LimitExpires, SpendingTypeOK
  <2> QED BY <2>1 DEF countVars, limiterVars, SpendingTypeOK, CountsAgree, CounterAgrees,
     SeedsAgree, RecordedPerDelivery, PassedAreCounted, RateLimitHolds, Pending, At
<1>4. ASSUME NEW s \in Scopes, CounterLost(s) PROVE SpendingInv'
  <2>1. /\ UNCHANGED <<limitVars, records, put, req, redeliveries, limiterVars>>
        /\ counter' \in [Scopes -> Nat] /\ clean' \in [Scopes -> BOOLEAN]
        /\ \A q \in Scopes : clean'[q] => clean[q] /\ counter'[q] = counter[q]
    BY <1>4 DEF CounterLost, SpendingTypeOK
  <2>2. CounterAgrees'
    BY <2>1 DEF CountsAgree, CounterAgrees, At
  <2> QED BY <2>1, <2>2 DEF limitVars, limiterVars, SpendingTypeOK, CountsAgree,
     SeedsAgree, RecordedPerDelivery, PassedAreCounted, RateLimitHolds, Pending, At
<1> QED BY <1>1, <1>2, <1>3, <1>4

\* The limits, counters, PUTs and requests hold only what the code puts there;
\* a counter agrees with the month's rows but for the increments under way,
\* unless one was lost or overlapped the PUT that seeded it, on a bus that
\* delivers again and with PUTs that overlap; an event is recorded once per
\* delivery; and a window passes at most the limit: for any number of requests,
\* limits and PUTs (_update_budget_counters, set_key_budget, set_org_budget,
\* check_rate_limit).
THEOREM SpendingIsSound == SpendingSpec => [](SpendingTypeOK /\ SpendingSound)
<1>1. SpendingInv /\ [SpendingNext]_spendingVars => SpendingInv'
  <2> SUFFICES ASSUME SpendingInv, [SpendingNext]_spendingVars PROVE SpendingInv'
    OBVIOUS
  <2>1. CASE UNCHANGED spendingVars
    BY <2>1 DEF spendingVars, SpendingInv, SpendingTypeOK, CountsAgree, CounterAgrees,
                SeedsAgree, RecordedPerDelivery, PassedAreCounted, RateLimitHolds, Pending, At
  <2>2. CASE SpendingNext
    BY <2>2, SpendingValidation, SpendingEvent, SpendingPut, SpendingTime DEF SpendingNext
  <2> QED BY <2>1, <2>2
<1>2. SpendingInv => SpendingTypeOK /\ SpendingSound
  BY DEF SpendingInv, SpendingSound, CountsAgree, PassedAreCounted
<1> QED BY SpendingStart, <1>1, <1>2, PTL DEF SpendingSpec

HIDE SpendingAssumption

---------------------------------------------------------------------------
(* Completions.  What is stored was fetched under rules that let it        *)
(* through, whatever rules are in force when it is served.                 *)

USE ChatCompletionAssumption

\* What may be stored for a namespace: fetched for it, not withheld, and foul
\* only if no rule on outputs had been read or the scan missed it.
Storable(a, ns) ==
    /\ a \in Answers
    /\ a.from = ns
    /\ a.text # "withheld"
    /\ a.text = "foul" => OutputRules \cap a.by = {} \/ a.missed

StoresAreScreened ==
    \A ns \in Namespaces :
        /\ exact[ns] # NoAnswer => Storable(exact[ns], ns)
        /\ \A row \in semantic[ns] : Storable(row, ns)

\* What a request may be served: a hit is storable; what it fetched itself is
\* its own, and foul only on the passthrough, without a rule on outputs or
\* past the scan.
Servable(r) ==
    /\ r.answer \in Answers
    /\ r.answer.from = r.ns
    /\ r.hit => r.answer.text # "withheld"
    /\ r.answer.text = "foul" /\ ~r.native =>
          OutputRules \cap r.answer.by = {} \/ r.answer.missed

\* A request past the guardrails streams only without rules on outputs, and
\* fills the caches only with what may be stored.
RequestHolds(r) ==
    /\ r.pc \in {"exact", "semantic", "forward"} /\ r.stream =>
          OutputRules \cap r.rules = {}
    /\ r.pc \in {"fillExact", "fillSemantic"} => Storable(r.answer, r.ns)
    /\ r.pc = "served" => Servable(r)

AnswersInv ==
    /\ ChatTypeOK
    /\ StoresAreScreened
    /\ \A c \in Chats : RequestHolds(chat[c])

\* What the gateway keeps of a request.
ChatState == [pc : ChatPC, ns : Namespaces, native : BOOLEAN,
              stream : BOOLEAN, personal : BOOLEAN,
              rules : SUBSET Rules, bypass : BOOLEAN,
              embedded : BOOLEAN, hit : BOOLEAN,
              answer : Answers \cup {NoAnswer}]

\* At first the caches are empty.
LEMMA AnswersInit == ChatInit => AnswersInv
<1> SUFFICES ASSUME ChatInit PROVE AnswersInv
  OBVIOUS
<1>1. PICK ns \in Namespaces : chat = [c \in Chats |-> NoChat(ns)]
  BY DEF ChatInit
<1>2. NoChat(ns) \in ChatState /\ NoChat(ns).pc = "idle"
  BY DEF NoChat, ChatState, ChatPC
<1>3. ChatTypeOK
  <2>1. chat \in [Chats -> ChatState]
    BY <1>1, <1>2
  <2>2. /\ editor \in [Editors -> [pc : {"idle", "committed", "selected"}, rows : SUBSET Rules]]
        /\ exact \in [Namespaces -> Answers \cup {NoAnswer}]
        /\ semantic \in [Namespaces -> SUBSET Answers]
    BY DEF ChatInit
  <2>3. ruleRow \in SUBSET Rules /\ ruleKey \in SUBSET Rules /\ circuit \in BOOLEAN
    BY DEF ChatInit
  <2>4. edits \in 0..MaxEdits /\ failures \in 0..FailureLimit
    BY DEF ChatInit
  <2> QED BY <2>1, <2>2, <2>3, <2>4 DEF ChatTypeOK, ChatState
<1>4. StoresAreScreened
  BY DEF ChatInit, StoresAreScreened
<1>5. \A c \in Chats : RequestHolds(chat[c])
  BY <1>1, <1>2 DEF RequestHolds
<1> QED BY <1>3, <1>4, <1>5 DEF AnswersInv

\* A step of one request that stores nothing: its new state must hold.
LEMMA AnswersRequest ==
  ASSUME AnswersInv, NEW c \in Chats, NEW r \in ChatState, RequestHolds(r),
         chat' = [chat EXCEPT ![c] = r],
         UNCHANGED <<ruleRow, ruleKey, editor, edits, exact, semantic>>,
         failures' \in 0..FailureLimit, circuit' \in BOOLEAN
  PROVE  AnswersInv'
<1>1. chat' \in [Chats -> ChatState]
  BY DEF AnswersInv, ChatTypeOK, ChatState
<1>2. ChatTypeOK'
  BY <1>1 DEF AnswersInv, ChatTypeOK, ChatState
<1>3. StoresAreScreened'
  BY DEF AnswersInv, StoresAreScreened
<1>4. \A d \in Chats : chat'[d] = IF d = c THEN r ELSE chat[d]
  BY DEF AnswersInv, ChatTypeOK
<1>5. ASSUME NEW d \in Chats PROVE RequestHolds(chat'[d])
  BY <1>4 DEF AnswersInv
<1> QED BY <1>2, <1>3, <1>5 DEF AnswersInv

\* What the admin service edits and publishes is no part of the properties.
LEMMA AnswersRules ==
  ASSUME AnswersInv,
         \/ \E e \in Editors : \/ \E rule \in Rules : EditRule(e, rule)
                               \/ SelectRules(e) \/ PublishRules(e)
         \/ RulesExpire
         \/ CircuitCloses
  PROVE  AnswersInv'
<1>1. UNCHANGED <<exact, semantic, failures, chat>>
  BY DEF EditRule, SelectRules, PublishRules, RulesExpire, CircuitCloses, storeVars
<1>2. StoresAreScreened' /\ \A c \in Chats : RequestHolds(chat[c])'
  BY <1>1 DEF AnswersInv, StoresAreScreened
<1>3. /\ ruleRow' \in SUBSET Rules /\ ruleKey' \in SUBSET Rules
      /\ editor' \in [Editors -> [pc : {"idle", "committed", "selected"}, rows : SUBSET Rules]]
      /\ edits' \in 0..MaxEdits /\ circuit' \in BOOLEAN
  <2>1. ASSUME NEW e \in Editors, NEW rule \in Rules, EditRule(e, rule)
        PROVE  /\ ruleRow' \in SUBSET Rules /\ edits' \in 0..MaxEdits
               /\ ruleKey' = ruleKey /\ circuit' = circuit
               /\ editor' = [editor EXCEPT ![e].pc = "committed"]
    <3>1. edits \in 0..MaxEdits /\ edits < MaxEdits /\ edits' = edits + 1
      BY <2>1 DEF EditRule, AnswersInv, ChatTypeOK
    <3>2. edits' \in 0..MaxEdits
      BY <3>1
    <3> QED BY <2>1, <3>2 DEF EditRule, AnswersInv, ChatTypeOK, storeVars
  <2>2. ASSUME NEW e \in Editors, SelectRules(e) \/ PublishRules(e)
        PROVE  /\ ruleRow' = ruleRow /\ edits' = edits /\ circuit' = circuit
               /\ ruleKey' \in SUBSET Rules
               /\ \E pc \in {"idle", "selected"}, rows \in SUBSET Rules :
                     editor' = [editor EXCEPT ![e] = [pc |-> pc, rows |-> rows]]
    BY <2>2 DEF SelectRules, PublishRules, AnswersInv, ChatTypeOK, storeVars
  <2>3. CASE RulesExpire \/ CircuitCloses
    BY <2>3 DEF RulesExpire, CircuitCloses, AnswersInv, ChatTypeOK, storeVars, ruleVars
  <2> QED BY <2>1, <2>2, <2>3 DEF AnswersInv, ChatTypeOK
<1>4. ChatTypeOK'
  BY <1>1, <1>3 DEF AnswersInv, ChatTypeOK
<1> QED BY <1>2, <1>4 DEF AnswersInv

\* The path of a request up to its answer.
LEMMA AnswersPath ==
  ASSUME AnswersInv, NEW c \in Chats,
         \/ \E ns \in Namespaces, native, stream, personal \in BOOLEAN :
               Arrive(c, ns, native, stream, personal)
         \/ LoadRules(c) \/ LookUpExact(c) \/ LookUpSemantic(c)
         \/ EmbeddingFails(c) \/ ForwardRaw(c) \/ Forward(c)
  PROVE  AnswersInv'
<1> DEFINE r == chat[c]
<1>0. /\ r \in ChatState /\ RequestHolds(r)
      /\ ruleKey \in SUBSET Rules
      /\ failures \in 0..FailureLimit /\ circuit \in BOOLEAN
  BY DEF AnswersInv, ChatTypeOK, ChatState
<1>1. ASSUME NEW ns \in Namespaces, NEW native \in BOOLEAN, NEW stream \in BOOLEAN,
             NEW personal \in BOOLEAN, Arrive(c, ns, native, stream, personal)
      PROVE  AnswersInv'
  <2> DEFINE n == [NoChat(ns) EXCEPT !.pc = "arrived", !.native = native,
                                     !.stream = stream, !.personal = personal]
  <2>1. n \in ChatState /\ n.pc = "arrived"
    BY DEF NoChat, ChatState, ChatPC
  <2>2. RequestHolds(n)
    BY <2>1 DEF RequestHolds
  <2> QED BY <1>0, <1>1, <2>1, <2>2, AnswersRequest DEF Arrive, ruleVars, storeVars
<1>2. CASE LoadRules(c)
  <2>1. PICK p \in BOOLEAN, b \in BOOLEAN, q \in {"refused", "forward", "exact"} :
           /\ chat' = [chat EXCEPT ![c] = [r EXCEPT !.rules = ruleKey, !.personal = p,
                                                    !.bypass = b, !.pc = q]]
           /\ q # "refused" /\ r.stream => OutputRules \cap ruleKey = {}
    BY <1>0, <1>2 DEF LoadRules, ChatState
  <2> DEFINE n == [r EXCEPT !.rules = ruleKey, !.personal = p, !.bypass = b, !.pc = q]
  <2>2. n \in ChatState /\ n.pc = q /\ n.stream = r.stream /\ n.rules = ruleKey
    BY <1>0 DEF ChatState, ChatPC
  <2>3. RequestHolds(n)
    BY <2>1, <2>2 DEF RequestHolds
  <2> QED BY <1>0, <1>2, <2>1, <2>2, <2>3, AnswersRequest DEF LoadRules, ruleVars, storeVars
<1>3. ASSUME NEW a \in Answers, NEW h \in BOOLEAN, Serve(c, a, h),
             UNCHANGED <<ruleVars, storeVars>>, a.from = r.ns,
             h => a.text # "withheld",
             a.text = "foul" /\ ~r.native => OutputRules \cap a.by = {} \/ a.missed
      PROVE  AnswersInv'
  <2> DEFINE n == [r EXCEPT !.pc = "served", !.answer = a, !.hit = h]
  <2>1. /\ n \in ChatState /\ n.pc = "served" /\ n.answer = a /\ n.hit = h
        /\ n.ns = r.ns /\ n.native = r.native
    BY <1>0 DEF ChatState, ChatPC
  <2>2. RequestHolds(n)
    BY <1>3, <2>1 DEF RequestHolds, Servable
  <2>3. chat' = [chat EXCEPT ![c] = n]
    BY <1>0, <1>3 DEF Serve, AnswersInv, ChatTypeOK, ChatState
  <2> QED BY <1>0, <1>3, <2>1, <2>2, <2>3, AnswersRequest DEF ruleVars, storeVars
<1>4. ASSUME NEW from, NEW to \in {"semantic", "forward", "refused"}, Move(c, from, to),
             UNCHANGED <<ruleVars, exact, semantic>>,
             failures' \in 0..FailureLimit, circuit' \in BOOLEAN,
             from \in {"exact", "semantic", "forward"}
      PROVE  AnswersInv'
  <2> DEFINE n == [r EXCEPT !.pc = to]
  <2>1. /\ n \in ChatState /\ n.pc = to /\ n.stream = r.stream /\ n.rules = r.rules
    BY <1>0 DEF ChatState, ChatPC
  <2>2. RequestHolds(n)
    BY <1>0, <1>4, <2>1 DEF RequestHolds, Move
  <2>3. chat' = [chat EXCEPT ![c] = n]
    BY <1>4 DEF Move
  <2> QED BY <1>0, <1>4, <2>1, <2>2, <2>3, AnswersRequest DEF ruleVars
<1>5. CASE LookUpExact(c)
  <2>1. CASE Move(c, "exact", "semantic")
    BY <1>0, <1>4, <1>5, <2>1 DEF LookUpExact, storeVars
  <2>2. CASE exact[r.ns] # NoAnswer /\ Serve(c, exact[r.ns], TRUE)
    <3>1. r.ns \in Namespaces
      BY <1>0 DEF ChatState
    <3>2. Storable(exact[r.ns], r.ns)
      BY <2>2, <3>1 DEF AnswersInv, StoresAreScreened
    <3> QED BY <1>3, <1>5, <2>2, <3>2 DEF LookUpExact, Storable
  <2> QED BY <1>5, <2>1, <2>2 DEF LookUpExact
<1>6. CASE LookUpSemantic(c)
  <2>1. CASE chat' = [chat EXCEPT ![c].pc = "forward", ![c].embedded = TRUE]
    <3> DEFINE n == [r EXCEPT !.pc = "forward", !.embedded = TRUE]
    <3>1. n \in ChatState /\ n.pc = "forward" /\ n.stream = r.stream /\ n.rules = r.rules
      BY <1>0 DEF ChatState, ChatPC
    <3>2. RequestHolds(n)
      BY <1>0, <1>6, <3>1 DEF RequestHolds, LookUpSemantic
    <3>3. chat' = [chat EXCEPT ![c] = n]
      BY <1>0, <2>1 DEF AnswersInv, ChatTypeOK, ChatState
    <3> QED BY <1>0, <1>6, <3>1, <3>2, <3>3, AnswersRequest
            DEF LookUpSemantic, ruleVars, storeVars
  <2>2. ASSUME NEW row \in semantic[r.ns], Serve(c, row, TRUE) PROVE AnswersInv'
    <3>1. r.ns \in Namespaces
      BY <1>0 DEF ChatState
    <3>2. Storable(row, r.ns)
      BY <3>1 DEF AnswersInv, StoresAreScreened
    <3> QED BY <1>3, <1>6, <2>2, <3>2 DEF LookUpSemantic, Storable
  <2> QED BY <1>6, <2>1, <2>2 DEF LookUpSemantic
<1>7. CASE EmbeddingFails(c)
  <2>1. failures' \in 0..FailureLimit /\ circuit' \in BOOLEAN
    BY <1>0, <1>7 DEF EmbeddingFails
  <2> QED BY <1>4, <1>7, <2>1 DEF EmbeddingFails
<1>8. ASSUME NEW text \in Texts, NEW missed \in BOOLEAN
      PROVE  /\ Fetched(c, text, missed) \in Answers
             /\ Fetched(c, text, missed).text = text
             /\ Fetched(c, text, missed).by = r.rules
             /\ Fetched(c, text, missed).from = r.ns
             /\ Fetched(c, text, missed).missed = missed
  BY <1>0 DEF Fetched, Answers, ChatState
<1>9. CASE ForwardRaw(c)
  <2>1. CASE Move(c, "forward", "refused")
    BY <1>0, <1>4, <1>9, <2>1 DEF ForwardRaw, storeVars
  <2>2. ASSUME NEW text \in {"clean", "foul"}, Serve(c, Fetched(c, text, FALSE), FALSE)
        PROVE  AnswersInv'
    <3>1. ~r.native => OutputRules \cap r.rules = {}
      BY <1>0, <1>9 DEF ForwardRaw, RequestHolds
    <3>2. text \in Texts
      BY DEF Texts
    <3> QED BY <1>3, <1>8, <1>9, <2>2, <3>1, <3>2 DEF ForwardRaw
  <2> QED BY <1>9, <2>1, <2>2 DEF ForwardRaw
<1>10. CASE Forward(c)
  <2>1. CASE Move(c, "forward", "refused")
    BY <1>0, <1>4, <1>10, <2>1 DEF Forward, storeVars
  <2>2. ASSUME NEW raw \in {"clean", "foul"}, NEW missed \in BOOLEAN,
               NEW text \in Screen(raw, r.rules, missed),
               IF r.bypass \/ text = "withheld"
               THEN Serve(c, Fetched(c, text, missed), FALSE)
               ELSE chat' = [chat EXCEPT ![c].pc = "fillExact",
                                         ![c].answer = Fetched(c, text, missed)]
        PROVE  AnswersInv'
    <3>1. text \in Texts /\ (text = "foul" => OutputRules \cap r.rules = {} \/ missed)
      BY DEF Screen, Texts, OutputRules
    <3>2. CASE r.bypass \/ text = "withheld"
      BY <1>3, <1>8, <1>10, <2>2, <3>1, <3>2 DEF Forward
    <3>3. CASE ~(r.bypass \/ text = "withheld")
      <4> DEFINE n == [r EXCEPT !.pc = "fillExact", !.answer = Fetched(c, text, missed)]
      <4>1. /\ n \in ChatState /\ n.pc = "fillExact" /\ n.ns = r.ns
            /\ n.answer = Fetched(c, text, missed)
        BY <1>0, <1>8, <3>1 DEF ChatState, ChatPC
      <4>2. RequestHolds(n)
        BY <1>8, <3>1, <3>3, <4>1 DEF RequestHolds, Storable
      <4>3. chat' = [chat EXCEPT ![c] = n]
        BY <1>0, <2>2, <3>3 DEF AnswersInv, ChatTypeOK, ChatState
      <4> QED BY <1>0, <1>10, <4>1, <4>2, <4>3, AnswersRequest DEF Forward, ruleVars, storeVars
    <3> QED BY <3>2, <3>3
  <2> QED BY <1>10, <2>1, <2>2 DEF Forward
<1> QED BY <1>1, <1>2, <1>5, <1>6, <1>7, <1>9, <1>10

\* The caches: what is stored is what the filling request may store, and an
\* entry that expires leaves the others.
LEMMA AnswersStores ==
  ASSUME AnswersInv,
         \/ \E c \in Chats : FillExact(c) \/ FillSemantic(c)
         \/ \E ns \in Namespaces :
               ExpireExact(ns) \/ \E row \in semantic[ns] : ExpireSemantic(ns, row)
  PROVE  AnswersInv'
<1>1. ASSUME NEW c \in Chats, NEW from \in {"fillExact", "fillSemantic"},
             NEW to \in {"fillSemantic", "served"}, Move(c, from, to)
      PROVE  /\ Storable(chat[c].answer, chat[c].ns)
             /\ chat[c].ns \in Namespaces
             /\ chat' \in [Chats -> ChatState]
             /\ \A d \in Chats : RequestHolds(chat[d])'
  <2> DEFINE n == [chat[c] EXCEPT !.pc = to]
  <2>0. chat \in [Chats -> ChatState] /\ RequestHolds(chat[c])
    BY DEF AnswersInv, ChatTypeOK, ChatState
  <2>1. Storable(chat[c].answer, chat[c].ns) /\ chat[c].ns \in Namespaces
    BY <1>1, <2>0 DEF Move, RequestHolds, ChatState
  <2>2. /\ n \in ChatState /\ n.pc = to /\ n.answer = chat[c].answer
        /\ n.ns = chat[c].ns /\ n.native = chat[c].native /\ n.hit = chat[c].hit
    BY <2>0 DEF ChatState, ChatPC
  <2>3. RequestHolds(n)
    BY <2>1, <2>2 DEF RequestHolds, Storable, Servable
  <2>4. chat' = [chat EXCEPT ![c] = n]
    BY <1>1 DEF Move
  <2>5. \A d \in Chats : chat'[d] = IF d = c THEN n ELSE chat[d]
    BY <2>0, <2>4
  <2>6. ASSUME NEW d \in Chats PROVE RequestHolds(chat'[d])
    BY <2>3, <2>5 DEF AnswersInv
  <2> QED BY <2>0, <2>1, <2>2, <2>4, <2>6
<1>2. ASSUME NEW c \in Chats, FillExact(c) PROVE AnswersInv'
  <2>1. /\ Storable(chat[c].answer, chat[c].ns) /\ chat[c].ns \in Namespaces
        /\ chat' \in [Chats -> ChatState]
        /\ \A d \in Chats : RequestHolds(chat[d])'
    BY <1>1, <1>2 DEF FillExact
  <2>2. exact' = exact \/ exact' = [exact EXCEPT ![chat[c].ns] = chat[c].answer]
    BY <1>2 DEF FillExact
  <2>3. UNCHANGED <<ruleRow, ruleKey, editor, edits, semantic, failures, circuit>>
    BY <1>2 DEF FillExact, ruleVars
  <2>4. exact \in [Namespaces -> Answers \cup {NoAnswer}]
    BY DEF AnswersInv, ChatTypeOK
  <2>5. exact' \in [Namespaces -> Answers \cup {NoAnswer}]
    BY <2>1, <2>2, <2>4 DEF Storable
  <2>6. ChatTypeOK'
    BY <2>1, <2>3, <2>5 DEF AnswersInv, ChatTypeOK, ChatState
  <2>7. \A ns \in Namespaces : exact'[ns] # NoAnswer => Storable(exact'[ns], ns)
    BY <2>1, <2>2, <2>4 DEF AnswersInv, StoresAreScreened
  <2>8. StoresAreScreened'
    BY <2>3, <2>7 DEF AnswersInv, StoresAreScreened
  <2> QED BY <2>1, <2>6, <2>8 DEF AnswersInv
<1>3. ASSUME NEW c \in Chats, FillSemantic(c) PROVE AnswersInv'
  <2>1. /\ Storable(chat[c].answer, chat[c].ns) /\ chat[c].ns \in Namespaces
        /\ chat' \in [Chats -> ChatState]
        /\ \A d \in Chats : RequestHolds(chat[d])'
    BY <1>1, <1>3 DEF FillSemantic
  <2>2. \/ semantic' = semantic
        \/ semantic' = [semantic EXCEPT ![chat[c].ns] =
                           semantic[chat[c].ns] \cup {chat[c].answer}]
    BY <1>3 DEF FillSemantic
  <2>3. UNCHANGED <<ruleRow, ruleKey, editor, edits, exact, failures, circuit>>
    BY <1>3 DEF FillSemantic, ruleVars
  <2>4. semantic \in [Namespaces -> SUBSET Answers]
    BY DEF AnswersInv, ChatTypeOK
  <2>5. semantic' \in [Namespaces -> SUBSET Answers]
    BY <2>1, <2>2, <2>4 DEF Storable
  <2>6. ChatTypeOK'
    BY <2>1, <2>3, <2>5 DEF AnswersInv, ChatTypeOK, ChatState
  <2>7. \A ns \in Namespaces : \A row \in semantic'[ns] : Storable(row, ns)
    BY <2>1, <2>2, <2>4 DEF AnswersInv, StoresAreScreened
  <2>8. StoresAreScreened'
    BY <2>3, <2>7 DEF AnswersInv, StoresAreScreened
  <2> QED BY <2>1, <2>6, <2>8 DEF AnswersInv
<1>4. ASSUME NEW ns \in Namespaces, ExpireExact(ns) PROVE AnswersInv'
  <2>1. /\ exact' = [exact EXCEPT ![ns] = NoAnswer]
        /\ exact \in [Namespaces -> Answers \cup {NoAnswer}]
        /\ UNCHANGED <<ruleRow, ruleKey, editor, edits, semantic, failures, circuit, chat>>
    BY <1>4 DEF ExpireExact, AnswersInv, ChatTypeOK, ruleVars
  <2>2. ChatTypeOK'
    BY <2>1 DEF AnswersInv, ChatTypeOK
  <2>3. StoresAreScreened' /\ \A c \in Chats : RequestHolds(chat[c])'
    BY <2>1 DEF AnswersInv, StoresAreScreened
  <2> QED BY <2>2, <2>3 DEF AnswersInv
<1>5. ASSUME NEW ns \in Namespaces, NEW row \in semantic[ns], ExpireSemantic(ns, row)
      PROVE  AnswersInv'
  <2>1. /\ semantic' = [semantic EXCEPT ![ns] = semantic[ns] \ {row}]
        /\ semantic \in [Namespaces -> SUBSET Answers]
        /\ UNCHANGED <<ruleRow, ruleKey, editor, edits, exact, failures, circuit, chat>>
    BY <1>5 DEF ExpireSemantic, AnswersInv, ChatTypeOK, ruleVars
  <2>2. ChatTypeOK'
    BY <2>1 DEF AnswersInv, ChatTypeOK
  <2>3. StoresAreScreened' /\ \A c \in Chats : RequestHolds(chat[c])'
    BY <2>1 DEF AnswersInv, StoresAreScreened
  <2> QED BY <2>2, <2>3 DEF AnswersInv
<1> QED BY <1>2, <1>3, <1>4, <1>5

\* The rules, caches and requests hold only what the code puts there, and for
\* any teams, projects, rules and interleaving of requests and edits a foul
\* answer is served only if the request that fetched it had read no rule on
\* outputs or its scan, which fails open, missed the text; an answer stays in
\* its team and project, and what was withheld is never a hit
\* (_handle_chat_completions, exact.set, semantic.set).
THEOREM AnswersAreSound == ChatSpec => [](ChatTypeOK /\ AnswersSound)
<1>1. AnswersInv /\ [ChatNext]_chatVars => AnswersInv'
  <2> SUFFICES ASSUME AnswersInv, [ChatNext]_chatVars PROVE AnswersInv'
    OBVIOUS
  <2>1. CASE UNCHANGED chatVars
    BY <2>1 DEF chatVars, AnswersInv, ChatTypeOK, StoresAreScreened
  <2>2. CASE ChatNext
    BY <2>2, AnswersRules, AnswersPath, AnswersStores DEF ChatNext
  <2> QED BY <2>1, <2>2
<1>2. AnswersInv => ChatTypeOK /\ AnswersSound
  BY DEF AnswersInv, RequestHolds, Servable, AnswersSound, ScannedBeforeServed, OwnNamespace
<1> QED BY AnswersInit, <1>1, <1>2, PTL DEF ChatSpec

HIDE ChatCompletionAssumption

---------------------------------------------------------------------------
(* The gateway as a whole.                                                 *)

\* A behaviour of the gateway is one of each component.
LEMMA GatewayComponents ==
  GatewaySpec => KeyAuthSpec /\ SpendingSpec /\ ChatSpec /\ KeysSpec
<1>1. GatewayInit => KeyAuthInit /\ SpendingInit /\ ChatInit /\ KeysInit
  BY DEF GatewayInit
<1>2. [GatewayNext]_gatewayVars =>
        /\ [KeyAuthNext]_keyAuthVars /\ [SpendingNext]_spendingVars
        /\ [ChatNext]_chatVars /\ [KeysNext]_keyVars
  <2>1. GatewayNext => /\ [KeyAuthNext]_keyAuthVars /\ [ChatNext]_chatVars
                       /\ [KeysNext]_keyVars
    <3>1. /\ "keys" \notin Scopes /\ "chat" \notin Scopes /\ "signing" \notin Scopes
      BY DEF Scopes
    <3>2. GatewayNext => [KeyAuthNext]_keyAuthVars
      BY <3>1, SMT DEF GatewayNext
    <3>3. GatewayNext => [ChatNext]_chatVars
      BY <3>1, SMT DEF GatewayNext
    <3>4. GatewayNext => [KeysNext]_keyVars
      BY <3>1, SMT DEF GatewayNext
    <3> QED BY <3>2, <3>3, <3>4
  <2>2. GatewayNext => [SpendingNext]_spendingVars
    <3>1. CASE slice \in Scopes \/ slice = "limiter"
      <4>1. slice \notin {"keys", "chat", "signing"}
        BY <3>1 DEF Scopes
      <4> QED BY <4>1 DEF GatewayNext, OneBudgetNext
    <3>2. CASE slice \notin {"limiter"} \cup Scopes
      BY <3>2 DEF GatewayNext
    <3> QED BY <3>1, <3>2
  <2>3. UNCHANGED gatewayVars => /\ UNCHANGED keyAuthVars /\ UNCHANGED spendingVars
                                 /\ UNCHANGED chatVars /\ UNCHANGED keyVars
    BY DEF gatewayVars
  <2> QED BY <2>1, <2>2, <2>3
<1> QED BY <1>1, <1>2, PTL DEF GatewaySpec, KeyAuthSpec, SpendingSpec, ChatSpec, KeysSpec

\* Every variable of the gateway holds only what the code puts there.
THEOREM GatewayTypeCorrect == GatewaySpec => []TypeOK
<1>1. KeyAuthTypeOK /\ SpendingTypeOK /\ ChatTypeOK /\ KeysTypeOK => TypeOK
  BY DEF TypeOK
<1> QED BY GatewayComponents, RevocationIsBounded, SpendingIsSound, AnswersAreSound,
           RetiredKeysAreBounded, <1>1, PTL
=============================================================================
