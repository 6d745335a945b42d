---------------------------- MODULE ProviderKeys ----------------------------
(***************************************************************************)
(* Provider keys in the admin service's settings.  One save carries keys   *)
(* for several providers; for each it upserts the row, sets the variable   *)
(* of its own process and patches the LiteLLM deployments of the provider  *)
(* that its list of model names covers before it goes on, all in one       *)
(* transaction.  The row lock of the upsert is what orders two saves of    *)
(* one provider.                                                           *)
(***************************************************************************)
EXTENDS Integers, FiniteSetsExt

CONSTANTS
    Admins,      \* replicas of the admin service
    Saves,       \* submitted forms; the key a form holds is named after it
    Providers,   \* PROVIDERS, numbered in their order
    WithExtra,   \* those with extra variables, whose values may be refused
    Deployments, \* LiteLLM deployments of a provider
    Unlisted,    \* those that read its key and that litellm_model_names leaves out
    NoSave       \* the key of LiteLLM's configuration, or nobody holding a row

ASSUME ProviderAssumption ==
    /\ Providers \subseteq Nat /\ WithExtra \subseteq Providers
    /\ NoSave \notin Saves

VARIABLES
    save,      \* the saves
    locked,    \* per provider, the save whose uncommitted row holds the lock
    storedKey, \* provider_keys.key_value, as committed
    environ,   \* os.environ of each replica
    served,    \* the api_key each deployment calls the provider with
    late,      \* patches whose caller has timed out and that LiteLLM may still apply
    broken,    \* ghost: providers of which, since the last push began, one failed
               \* or was rolled back or LiteLLM restarted
    probed     \* the key that the last test or model discovery used

settingsVars == <<save, locked, storedKey, environ, served, late, broken, probed>>

KeyOrNone == Saves \cup {NoSave}
SaveStages == {"new", "upsert", "extra", "push", "saved", "refused"}
NewSave == [at |-> "new", replica |-> NoSave, body |-> {}, todo |-> {},
            patched |-> {}]

ProviderTypeOK ==
    /\ save \in [Saves -> [at : SaveStages, replica : Admins \cup {NoSave},
                           body : SUBSET Providers, todo : SUBSET Providers,
                           patched : SUBSET Deployments]]
    /\ locked \in [Providers -> KeyOrNone]
    /\ storedKey \in [Providers -> KeyOrNone]
    /\ environ \in [Admins -> [Providers -> KeyOrNone]]
    /\ served \in [Providers \X Deployments -> KeyOrNone]
    /\ late \subseteq (Providers \X Deployments) \X Saves
    /\ broken \subseteq Providers
    /\ probed \in KeyOrNone

ProviderInit ==
    /\ save = [s \in Saves |-> NewSave]
    /\ locked = [p \in Providers |-> NoSave]
    /\ storedKey = [p \in Providers |-> NoSave]
    /\ environ = [r \in Admins |-> [p \in Providers |-> NoSave]]
    /\ served = [d \in Providers \X Deployments |-> NoSave]
    /\ late = {} /\ broken = {} /\ probed = NoSave

Current(s) == Min(save[s].todo)
\* litellm_model_names
Listed(p) == {d \in Deployments : <<p, d>> \notin Unlisted}
Unlocked(s) == [p \in Providers |-> IF locked[p] = s THEN NoSave ELSE locked[p]]
Committed(s) == [p \in Providers |-> IF locked[p] = s THEN s ELSE storedKey[p]]

-----------------------------------------------------------------------------
(* save_provider_keys.                                                       *)

SubmitForm(s, r, body) ==
    /\ save[s].at = "new" /\ body # {}
    /\ save' = [save EXCEPT ![s] = [NewSave EXCEPT !.at = "upsert", !.replica = r,
                                                   !.body = body, !.todo = body]]
    /\ UNCHANGED <<locked, storedKey, environ, served, late, broken, probed>>

\* an upsert that commits at once, and so lets the next save in
UpsertKey_Committed(s) ==
    /\ save[s].at = "upsert" /\ save[s].todo # {}
    /\ LET p == Current(s) IN
         /\ locked[p] = NoSave
         /\ storedKey' = [storedKey EXCEPT ![p] = s]
         /\ environ' = [environ EXCEPT ![save[s].replica][p] = s]
    /\ save' = [save EXCEPT ![s].at = "extra"]
    /\ UNCHANGED <<locked, served, late, broken, probed>>

\* INSERT ... ON CONFLICT DO UPDATE waits while another save has the row
UpsertKey(s) ==
    /\ save[s].at = "upsert" /\ save[s].todo # {}
    /\ LET p == Current(s) IN
         /\ locked[p] = NoSave
         /\ locked' = [locked EXCEPT ![p] = s]
         /\ environ' = [environ EXCEPT ![save[s].replica][p] = s]
    /\ save' = [save EXCEPT ![s].at = "extra"]
    /\ UNCHANGED <<storedKey, served, late, broken, probed>>

\* the rollback leaves what was pushed, and the process's variables, as they are
Rollback(S, at) ==
    /\ save' = [s \in Saves |-> IF s \in S THEN [save[s] EXCEPT !.at = at] ELSE save[s]]
    /\ locked' = [p \in Providers |-> IF locked[p] \in S THEN NoSave ELSE locked[p]]
    /\ broken' = broken \cup {p \in Providers : locked[p] \in S}

\* an extra URL that the validator refuses: 422
RefuseExtra(s) ==
    /\ save[s].at = "extra" /\ Current(s) \in WithExtra
    /\ Rollback({s}, "refused")
    /\ UNCHANGED <<storedKey, environ, served, late, probed>>

AcceptExtra(s) ==
    /\ save[s].at = "extra"
    /\ save' = [save EXCEPT ![s].at = "push", ![s].patched = {}]
    /\ broken' = broken \ {Current(s)}
    /\ UNCHANGED <<locked, storedKey, environ, served, late, probed>>

-----------------------------------------------------------------------------
(* _push_to_litellm: GET /model/info, then one PATCH per deployment.  An     *)
(* error status fails one of them, an exception ends the push.               *)

NextProvider(s) ==
    save' = [save EXCEPT ![s].at = "upsert", ![s].todo = @ \ {Current(s)}]
PushFails(s) == broken' = broken \cup {Current(s)}
ToPatch(s) == Listed(Current(s)) \ save[s].patched

PatchDeployment(s, d) ==
    /\ save[s].at = "push" /\ d \in ToPatch(s)
    /\ served' = [served EXCEPT ![<<Current(s), d>>] = s]
    /\ save' = [save EXCEPT ![s].patched = @ \cup {d}]
    /\ UNCHANGED <<locked, storedKey, environ, late, broken, probed>>

PatchRefused(s, d) ==
    /\ save[s].at = "push" /\ d \in ToPatch(s)
    /\ save' = [save EXCEPT ![s].patched = @ \cup {d}]
    /\ PushFails(s)
    /\ UNCHANGED <<locked, storedKey, environ, served, late, probed>>

\* the request has gone out; whether and when it is applied is LiteLLM's
PatchTimesOut(s, d) ==
    /\ save[s].at = "push" /\ d \in ToPatch(s)
    /\ late' = late \cup {<<<<Current(s), d>>, s>>}
    /\ NextProvider(s) /\ PushFails(s)
    /\ UNCHANGED <<locked, storedKey, environ, served, probed>>

InfoFails(s) ==
    /\ save[s].at = "push" /\ save[s].patched = {}
    /\ NextProvider(s) /\ PushFails(s)
    /\ UNCHANGED <<locked, storedKey, environ, served, late, probed>>

EndPush(s) ==
    /\ save[s].at = "push" /\ ToPatch(s) = {}
    /\ NextProvider(s)
    /\ UNCHANGED <<locked, storedKey, environ, served, late, broken, probed>>

ApplyLate(l) ==
    /\ l \in late
    /\ late' = late \ {l}
    /\ \/ /\ served' = [served EXCEPT ![l[1]] = l[2]]
          /\ broken' = broken \cup {l[1][1]}
       \/ UNCHANGED <<served, broken>>
    /\ UNCHANGED <<save, locked, storedKey, environ, probed>>

\* LiteLLM restarts without the database that would keep a patch: its
\* configuration file is what it knows
RestartLiteLLM ==
    /\ served' = [x \in Providers \X Deployments |-> NoSave]
    /\ late' = {} /\ broken' = Providers
    /\ UNCHANGED <<save, locked, storedKey, environ, probed>>

CommitSave(s) ==
    /\ save[s].at = "upsert" /\ save[s].todo = {}
    /\ save' = [save EXCEPT ![s].at = "saved"]
    /\ storedKey' = Committed(s)
    /\ locked' = Unlocked(s)
    /\ UNCHANGED <<environ, served, late, broken, probed>>

-----------------------------------------------------------------------------
Ongoing == {s \in Saves : save[s].at \in {"upsert", "extra", "push"}}

\* a replica dies, with its saves and its environment
CrashReplica(r) ==
    /\ \E s \in Ongoing : save[s].replica = r
    /\ Rollback({s \in Ongoing : save[s].replica = r}, "refused")
    /\ environ' = [environ EXCEPT ![r] = [p \in Providers |-> NoSave]]
    /\ UNCHANGED <<storedKey, served, late, probed>>

\* test_provider and discover_provider_models send the key themselves: the
\* stored one, or else that of their process
KeyInHand(r, p) == IF storedKey[p] # NoSave THEN storedKey[p] ELSE environ[r][p]

Probe(r, p) ==
    /\ KeyInHand(r, p) # NoSave
    /\ probed' = KeyInHand(r, p)
    /\ UNCHANGED <<save, locked, storedKey, environ, served, late, broken>>

ProviderNext ==
    \/ \E s \in Saves :
         \/ \E r \in Admins, body \in SUBSET Providers : SubmitForm(s, r, body)
         \/ UpsertKey(s) \/ RefuseExtra(s) \/ AcceptExtra(s) \/ InfoFails(s)
         \/ EndPush(s) \/ CommitSave(s)
         \/ \E d \in Deployments : \/ PatchDeployment(s, d) \/ PatchRefused(s, d)
                                   \/ PatchTimesOut(s, d)
    \/ \E l \in late : ApplyLate(l)
    \/ RestartLiteLLM
    \/ \E r \in Admins : CrashReplica(r) \/ \E p \in Providers : Probe(r, p)

ProviderSpec == ProviderInit /\ [][ProviderNext]_settingsVars

-----------------------------------------------------------------------------
(* Where no save is under way, and since the last push began none has failed *)
(* and LiteLLM has not restarted, every deployment that the list of the      *)
(* provider names calls it with the key the table holds, however saves of    *)
(* the same provider overlap.                                                *)
ServedKeyIsStored ==
    \A p \in Providers :
      (\A s \in Ongoing : p \notin save[s].body) /\ p \notin broken =>
        \A d \in Listed(p) : served[<<p, d>>] = storedKey[p]

\* settings.py says a push patches every LiteLLM model that reads the variable;
\* the code falls short of it
EveryReaderIsPatched ==
    \A p \in Providers :
      (\A s \in Ongoing : p \notin save[s].body) /\ p \notin broken =>
        \A d \in Deployments : served[<<p, d>>] = storedKey[p]
=============================================================================
