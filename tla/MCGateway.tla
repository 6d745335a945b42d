---------------------------- MODULE MCGateway -------------------------------
(***************************************************************************)
(* The path of a request through the gateway, for TLC: the key behind it,  *)
(* its budget, its answer, and the keys that sign identity tokens.  The    *)
(* models share no state (the cache service asks auth for a verdict, and   *)
(* what it then does depends on nothing else of it), so a behaviour picks  *)
(* one of them and the others stand still.                                 *)
(***************************************************************************)
EXTENDS KeyAuth, Spending, ChatCompletion, SigningKeys, TLC

VARIABLE slice   \* the component this behaviour is about

Slices == {"keys", "limiter", "chat", "signing"} \cup Scopes

\* Requests and PUTs are interchangeable.
Interchangeable == Permutations(Requests) \cup Permutations(Puts)

gatewayVars == <<slice, keyAuthVars, spendingVars, chatVars, keyVars>>

\* Where a component may start in several ways, the others start it in one.
GatewayInit ==
    /\ slice \in Slices
    /\ KeyAuthInit
    /\ SpendingInit
    /\ ChatInit
    /\ KeysInit
    /\ slice # "org" => ~orgBlocks
    /\ slice # "chat" =>
          chat = [c \in Chats |-> NoChat(CHOOSE ns \in Namespaces : TRUE)]

\* The rate limiter and the budgets share nothing but the request, and two
\* budgets nothing but the events they count: one budget is set and lost.
OneBudgetNext ==
    /\ SpendingNext
    /\ \A s \in Scopes \ {slice} :
          /\ limitRow'[s] = limitRow[s] /\ limitKey'[s] = limitKey[s]
          /\ counter'[s] < counter[s] => records' < records

GatewayNext ==
    /\ UNCHANGED slice
    /\ \/ slice = "keys"     /\ KeyAuthNext
       \/ slice \in Scopes   /\ UNCHANGED limiterVars /\ OneBudgetNext
       \/ slice = "limiter"  /\ UNCHANGED <<limitVars, countVars, put>> /\ SpendingNext
       \/ slice = "chat"     /\ ChatNext
       \/ slice = "signing"  /\ KeysNext
    /\ slice # "keys" => UNCHANGED keyAuthVars
    /\ slice \notin {"limiter"} \cup Scopes => UNCHANGED spendingVars
    /\ slice # "chat" => UNCHANGED chatVars
    /\ slice # "signing" => UNCHANGED keyVars

GatewaySpec == GatewayInit /\ [][GatewayNext]_gatewayVars

\* The type invariants of the components.
TypeOK ==
    /\ slice = "keys" => KeyAuthTypeOK
    /\ slice \in {"limiter"} \cup Scopes => SpendingTypeOK
    /\ slice = "chat" => ChatTypeOK
    /\ slice = "signing" => KeysTypeOK
=============================================================================
