---------------------------- MODULE SigningKeys ----------------------------
(***************************************************************************)
(* The key that signs agents' identity tokens, and the auth service's      *)
(* copies of it.  The admin service keeps the key in Redis as two entries, *)
(* the PEM and the key id, and makes a new pair when it misses either.     *)
(* The auth service fetches the key set into its process, and a longer     *)
(* lived copy into Redis for when the admin service is down.               *)
(*                                                                         *)
(* A tick is a unit of those lifetimes.  The 90 days of the stored pair    *)
(* end at any time.                                                        *)
(***************************************************************************)
EXTENDS Integers

CONSTANTS
    Pairs,     \* RSA key pairs; a key id made with a pair has its name
    Makers,    \* concurrent calls of get_or_create_signing_key
    JwksTTL,   \* _JWKS_TTL: a fetched key set in the process
    StaleTTL,  \* 300 s: a key set from Redis in the process
    CopyTTL,   \* _JWKS_REDIS_TTL: the copy in Redis
    MaxClock   \* bound: the last tick

ASSUME SigningKeysAssumption ==
    /\ JwksTTL \in Nat \ {0} /\ StaleTTL \in Nat \ {0}
    /\ CopyTTL \in Nat /\ CopyTTL >= JwksTTL
    /\ MaxClock \in Nat

NoPair == "none"
\* A JWK, and what a token carries: the pair and the key id it is sent under.
Signed == [pair : Pairs, kid : Pairs]
NoJwk == [pair |-> NoPair, kid |-> NoPair]

VARIABLES
    clock,
    pem,      \* identity:signing_key
    kid,      \* identity:signing_kid
    maker,    \* the calls of get_or_create_signing_key
    tokens,   \* the keys of the tokens issued
    jwks,     \* _identity_jwks_cache: a key, until when
    jwksCopy, \* the copy in Redis
    verified, \* ghost: the last token accepted, and when
    lastServed \* ghost: when the admin last answered with each key

keyVars == <<clock, pem, kid, maker, tokens, jwks, jwksCopy,
             verified, lastServed>>

Held(max) == [key : Signed \cup {NoJwk}, until : 0..max]
Idle == [pc |-> "idle", pair |-> NoPair, kid |-> NoPair]

KeysTypeOK ==
    /\ clock \in 0..MaxClock
    /\ pem \in Pairs \cup {NoPair}
    /\ kid \in Pairs \cup {NoPair}
    /\ maker \in [Makers -> [pc : {"idle", "kid", "made", "stored", "loaded"},
                             pair : Pairs \cup {NoPair},
                             kid : Pairs \cup {NoPair}]]
    /\ tokens \subseteq Signed
    /\ jwks \in Held(MaxClock + JwksTTL + StaleTTL)
    /\ jwksCopy \in Held(MaxClock + CopyTTL)
    /\ verified \in [token : Signed, at : 0..MaxClock] \cup {NoJwk}
    /\ lastServed \in [Signed -> 0..MaxClock]

KeysInit ==
    /\ clock = 0
    /\ pem = NoPair /\ kid = NoPair
    /\ maker = [m \in Makers |-> Idle]
    /\ tokens = {}
    /\ jwks = [key |-> NoJwk, until |-> 0]
    /\ jwksCopy = [key |-> NoJwk, until |-> 0]
    /\ verified = NoJwk
    /\ lastServed = [x \in Signed |-> 0]

authVars == <<jwks, jwksCopy, verified, lastServed>>

---------------------------------------------------------------------------
(* The admin service: get_or_create_signing_key.                           *)

ReadPem(m) ==
    /\ maker[m].pc = "idle"
    /\ maker' = [maker EXCEPT ![m] = [Idle EXCEPT !.pc = "kid", !.pair = pem]]
    /\ UNCHANGED <<clock, pem, kid, tokens, authVars>>

\* A fresh pair is one nobody has.
Unused(p) ==
    /\ p # pem /\ p # kid
    /\ \A m \in Makers : maker[m].pair # p
    /\ \A t \in tokens : t.pair # p
    /\ jwks.key.pair # p /\ jwksCopy.key.pair # p

\* Both found: use them.  One missing: generate a pair and its id.
ReadKidTrustingPem(m) ==
    /\ maker[m].pc = "kid"
    /\ IF maker[m].pair # NoPair
       THEN maker' = [maker EXCEPT ![m].pc = "loaded", ![m].kid = kid]
       ELSE \E p \in {q \in Pairs : Unused(q)} :
               maker' = [maker EXCEPT ![m] = [pc |-> "made", pair |-> p,
                                              kid |-> p]]
    /\ UNCHANGED <<clock, pem, kid, tokens, authVars>>

ReadKid(m) ==
    /\ maker[m].pc = "kid"
    /\ IF maker[m].pair # NoPair /\ kid # NoPair
       THEN maker' = [maker EXCEPT ![m].pc = "loaded", ![m].kid = kid]
       ELSE \E p \in {q \in Pairs : Unused(q)} :
               maker' = [maker EXCEPT ![m] = [pc |-> "made", pair |-> p,
                                              kid |-> p]]
    /\ UNCHANGED <<clock, pem, kid, tokens, authVars>>

StorePem(m) ==
    /\ maker[m].pc = "made"
    /\ pem' = maker[m].pair
    /\ maker' = [maker EXCEPT ![m].pc = "stored"]
    /\ UNCHANGED <<clock, kid, tokens, authVars>>

StoreKid(m) ==
    /\ maker[m].pc = "stored"
    /\ kid' = maker[m].kid
    /\ maker' = [maker EXCEPT ![m].pc = "loaded"]
    /\ UNCHANGED <<clock, pem, tokens, authVars>>

\* 90 days after they were written; the pair and the id end separately.
SigningKeyExpires ==
    /\ \/ pem # NoPair /\ pem' = NoPair /\ UNCHANGED kid
       \/ kid # NoPair /\ kid' = NoPair /\ UNCHANGED pem
    /\ UNCHANGED <<clock, maker, tokens, authVars>>

\* POST /identity/tokens signs with what the call loaded.
IssueToken(m) ==
    /\ maker[m].pc = "loaded"
    /\ tokens' = tokens \cup
          {[pair |-> maker[m].pair, kid |-> maker[m].kid]}
    /\ maker' = [maker EXCEPT ![m] = Idle]
    /\ UNCHANGED <<clock, pem, kid, authVars>>

---------------------------------------------------------------------------
(* The auth service: _get_identity_jwks, _validate_identity_jwt.           *)

FreshJwks == jwks.key # NoJwk /\ clock < jwks.until

\* GET /identity/jwks answers with what the call loaded; writing the copy may
\* fail.
FetchJwks(m) ==
    LET key == [pair |-> maker[m].pair, kid |-> maker[m].kid] IN
    /\ ~FreshJwks
    /\ maker[m].pc = "loaded"
    /\ jwks' = [key |-> key, until |-> clock + JwksTTL]
    /\ \/ jwksCopy' = [key |-> key, until |-> clock + CopyTTL]
       \/ UNCHANGED jwksCopy
    /\ lastServed' = [lastServed EXCEPT ![key] = clock]
    /\ maker' = [maker EXCEPT ![m] = Idle]
    /\ UNCHANGED <<clock, pem, kid, tokens, verified>>

\* The admin service cannot be reached: the copy in Redis serves for StaleTTL.
ServeStaleRenewing ==
    /\ ~FreshJwks
    /\ jwksCopy.key # NoJwk /\ clock < jwksCopy.until
    /\ jwks' = [key |-> jwksCopy.key, until |-> clock + StaleTTL]
    /\ jwksCopy' = [jwksCopy EXCEPT !.until = clock + CopyTTL]
    /\ UNCHANGED <<clock, pem, kid, maker, tokens, verified, lastServed>>

ServeStale ==
    /\ ~FreshJwks
    /\ jwksCopy.key # NoJwk /\ clock < jwksCopy.until
    /\ jwks' = [key |-> jwksCopy.key, until |-> clock + StaleTTL]
    /\ UNCHANGED <<clock, pem, kid, maker, tokens, jwksCopy, verified,
                   lastServed>>

\* The token is accepted when its key id is the set's and the signature is by
\* the pair found under it; any other is refused without a refresh.
AcceptToken(t) ==
    /\ FreshJwks
    /\ t = jwks.key
    /\ verified' = [token |-> t, at |-> clock]
    /\ UNCHANGED <<clock, pem, kid, maker, tokens, jwks, jwksCopy, lastServed>>

KeysTick ==
    /\ clock < MaxClock
    /\ clock' = clock + 1
    /\ UNCHANGED <<pem, kid, maker, tokens, authVars>>

KeysNext ==
    \/ \E m \in Makers :
          \/ ReadPem(m) \/ ReadKid(m) \/ StorePem(m) \/ StoreKid(m)
          \/ IssueToken(m) \/ FetchJwks(m)
    \/ SigningKeyExpires
    \/ ServeStale
    \/ \E t \in tokens : AcceptToken(t)
    \/ KeysTick

KeysSpec == KeysInit /\ [][KeysNext]_keyVars

---------------------------------------------------------------------------
(* A token is accepted for less than CopyTTL + StaleTTL after the admin    *)
(* service last answered with the key it verifies under: serving the copy  *)
(* of Redis in an outage never prolongs the copy (_get_identity_jwks).     *)
RetiredKeyBound ==
    verified # NoJwk =>
        verified.at < lastServed[verified.token] + CopyTTL + StaleTTL

(* The stored pair and key id belong together, whenever both are there and *)
(* no call is storing (get_or_create_signing_key: "A stable key ID is      *)
(* stored alongside it").                                                  *)
PairMatchesKid ==
    pem # NoPair /\ kid # NoPair
    /\ (\A m \in Makers : maker[m].pc \notin {"made", "stored"}) => pem = kid
=============================================================================
