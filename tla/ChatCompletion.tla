-------------------------- MODULE ChatCompletion --------------------------
(***************************************************************************)
(* The gateway's request path after authentication: guardrails, the exact  *)
(* and the semantic response cache, and the call to the model.  The admin  *)
(* service changes guardrails in Postgres and copies them to Redis, where  *)
(* the gateway reads them once per request.                                *)
(*                                                                         *)
(* All prompts are alike except that some are personal (_has_pii): an      *)
(* exact entry is found by every request of the namespace with the same    *)
(* stream flag, a semantic entry by every request of the namespace.  A     *)
(* model's answer is "clean" or "foul"; rules match foul answers and       *)
(* personal prompts.                                                       *)
(***************************************************************************)
EXTENDS Integers

CONSTANTS
    Chats,        \* requests to the gateway
    Teams,        \* team_id, as validated
    Projects,     \* project_id
    Rules,        \* the kinds of guardrail an administrator defines
    Editors,      \* guardrail handlers of the admin service
    FailureLimit, \* embedding failures that open the circuit: 5
    MaxEdits      \* bound: the guardrail edits of a behaviour

RuleKinds == {"blockInput", "redactInput", "blockOutput", "redactOutput"}
OutputRules == {"blockOutput", "redactOutput"}

ASSUME ChatCompletionAssumption ==
    /\ Rules \subseteq RuleKinds
    /\ FailureLimit \in Nat \ {0}
    /\ MaxEdits \in Nat

Namespaces == Teams \X Projects
Texts == {"clean", "foul", "redacted", "withheld"}
\* A stored or served answer, with three ghosts: the rules read by the request
\* that fetched it, that request's namespace, and whether its scan missed what
\* the rules match.
Answers == [text : Texts, by : SUBSET Rules, from : Namespaces, missed : BOOLEAN]
NoAnswer == [text |-> "none"]

VARIABLES
    ruleRow,   \* guardrails enabled in Postgres
    ruleKey,   \* guardrails:* in Redis
    editor,    \* guardrail handlers in progress
    edits,     \* how many began
    exact,     \* exact:{team}:{project}:{hash} of the non-streaming request
    semantic,  \* cache_entries rows
    failures,  \* _circuit_failures
    circuit,   \* embedding:circuit_open
    chat       \* the requests

chatVars == <<ruleRow, ruleKey, editor, edits, exact, semantic, failures,
              circuit, chat>>

ChatPC == {"idle", "arrived", "exact", "semantic", "forward", "fillExact",
           "fillSemantic", "served", "refused"}
NoChat(ns) ==
    [pc |-> "idle", ns |-> ns, native |-> FALSE, stream |-> FALSE,
     personal |-> FALSE, rules |-> {}, bypass |-> FALSE, embedded |-> FALSE,
     hit |-> FALSE, answer |-> NoAnswer]

ChatTypeOK ==
    /\ ruleRow \in SUBSET Rules
    /\ ruleKey \in SUBSET Rules
    /\ editor \in [Editors -> [pc : {"idle", "committed", "selected"},
                               rows : SUBSET Rules]]
    /\ edits \in 0..MaxEdits
    /\ exact \in [Namespaces -> Answers \cup {NoAnswer}]
    /\ semantic \in [Namespaces -> SUBSET Answers]
    /\ failures \in 0..FailureLimit
    /\ circuit \in BOOLEAN
    /\ chat \in [Chats -> [pc : ChatPC, ns : Namespaces, native : BOOLEAN,
                           stream : BOOLEAN, personal : BOOLEAN,
                           rules : SUBSET Rules, bypass : BOOLEAN,
                           embedded : BOOLEAN, hit : BOOLEAN,
                           answer : Answers \cup {NoAnswer}]]

ChatInit ==
    /\ ruleRow = {}
    /\ ruleKey = {}
    /\ editor = [e \in Editors |-> [pc |-> "idle", rows |-> {}]]
    /\ edits = 0
    /\ exact = [ns \in Namespaces |-> NoAnswer]
    /\ semantic = [ns \in Namespaces |-> {}]
    /\ failures = 0
    /\ circuit = FALSE
    /\ chat \in {[c \in Chats |-> NoChat(ns)] : ns \in Namespaces}

ruleVars == <<ruleRow, ruleKey, editor, edits>>
storeVars == <<exact, semantic, failures, circuit>>

---------------------------------------------------------------------------
(* The admin service: POST, PATCH and DELETE /guardrails.                  *)

\* The row is inserted, changed or deleted, and that commits.
EditRule(e, rule) ==
    /\ editor[e].pc = "idle"
    /\ edits < MaxEdits
    /\ edits' = edits + 1
    /\ ruleRow' = IF rule \in ruleRow THEN ruleRow \ {rule}
                  ELSE ruleRow \cup {rule}
    /\ editor' = [editor EXCEPT ![e].pc = "committed"]
    /\ UNCHANGED <<ruleKey, storeVars, chat>>

\* _sync_guardrails_to_redis selects the rows, then sets the key (ex=300).
SelectRules(e) ==
    /\ editor[e].pc = "committed"
    /\ editor' = [editor EXCEPT ![e] = [pc |-> "selected", rows |-> ruleRow]]
    /\ UNCHANGED <<ruleRow, ruleKey, edits, storeVars, chat>>

PublishRules(e) ==
    /\ editor[e].pc = "selected"
    /\ ruleKey' = editor[e].rows
    /\ editor' = [editor EXCEPT ![e] = [pc |-> "idle", rows |-> {}]]
    /\ UNCHANGED <<ruleRow, edits, storeVars, chat>>

\* Nothing renews the key.
RulesExpire ==
    /\ ruleKey # {}
    /\ ruleKey' = {}
    /\ UNCHANGED <<ruleRow, editor, edits, storeVars, chat>>

---------------------------------------------------------------------------
(* The gateway: _handle_chat_completions and anthropic_proxy.              *)

Move(c, from, to) ==
    /\ chat[c].pc = from
    /\ chat' = [chat EXCEPT ![c].pc = to]

Serve(c, answer, isHit) ==
    chat' = [chat EXCEPT ![c].pc = "served", ![c].answer = answer,
                         ![c].hit = isHit]

\* The key is valid, and its scope, the allowed models, the budget cap let the
\* request through: refusing here touches nothing this module has.
Arrive(c, ns, native, stream, personal) ==
    /\ chat[c].pc = "idle"
    /\ chat' = [chat EXCEPT ![c] =
                   [NoChat(ns) EXCEPT !.pc = "arrived", !.native = native,
                                      !.stream = stream,
                                      !.personal = personal]]
    /\ UNCHANGED <<ruleVars, storeVars>>

\* One read of the rules decides the block (of what stands in the first 100000
\* characters), the redaction of the prompt (which fails open) and whether a
\* stream may run; the policy decides opt-out and the turn limit.  The
\* passthrough redacts nothing and skips the cache.
LoadRules(c) ==
    LET r == chat[c]
    IN
    /\ r.pc = "arrived"
    /\ \E optOut, redacted, beyondScan \in BOOLEAN :
          LET personal == r.personal /\ ~redacted
              bypass == r.native \/ optOut \/ personal
              refuse == \/ "blockInput" \in ruleKey /\ r.personal /\ ~beyondScan
                        \/ OutputRules \cap ruleKey # {} /\ r.stream
          IN
          /\ redacted => r.personal /\ "redactInput" \in ruleKey /\ ~r.native
          /\ optOut => ~r.native
          /\ chat' = [chat EXCEPT ![c] =
                [r EXCEPT !.rules = ruleKey,
                          !.personal = personal,
                          !.bypass = bypass,
                          !.pc = IF refuse THEN "refused"
                                 ELSE IF bypass THEN "forward"
                                 ELSE "exact"]]
    /\ UNCHANGED <<ruleVars, storeVars>>

\* A hit is served as it is stored.  The stream flag is part of the hash, and
\* only non-streaming requests store; Redis failing is a miss.
LookUpExact(c) ==
    /\ chat[c].pc = "exact"
    /\ \/ /\ ~chat[c].stream
          /\ exact[chat[c].ns] # NoAnswer
          /\ Serve(c, exact[chat[c].ns], TRUE)
       \/ Move(c, "exact", "semantic")
    /\ UNCHANGED <<ruleVars, storeVars>>

\* Rows of the team and project; a hit is replayed as events to a request that
\* streams.  An open circuit, no row near enough: a miss.
LookUpSemanticAnyProject(c) ==
    /\ chat[c].pc = "semantic"
    /\ \/ /\ ~circuit
          /\ \E project \in Projects :
                \E row \in semantic[<<chat[c].ns[1], project>>] :
                    Serve(c, row, TRUE)
       \/ chat' = [chat EXCEPT ![c].pc = "forward", ![c].embedded = TRUE]
    /\ UNCHANGED <<ruleVars, storeVars>>

LookUpSemantic(c) ==
    /\ chat[c].pc = "semantic"
    /\ \/ /\ ~circuit
          /\ \E row \in semantic[chat[c].ns] : Serve(c, row, TRUE)
       \/ chat' = [chat EXCEPT ![c].pc = "forward", ![c].embedded = TRUE]
    /\ UNCHANGED <<ruleVars, storeVars>>

\* The embedding or the query raised: counted, and from FailureLimit on every
\* failure opens the circuit, since nothing on this path resets the counter.
EmbeddingFails(c) ==
    /\ Move(c, "semantic", "forward")
    /\ failures' = IF failures < FailureLimit THEN failures + 1 ELSE failures
    /\ circuit' = (circuit \/ failures' = FailureLimit)
    /\ UNCHANGED <<ruleVars, exact, semantic>>

CircuitCloses ==
    /\ circuit
    /\ circuit' = FALSE
    /\ UNCHANGED <<ruleVars, exact, semantic, failures, chat>>

\* evaluate_guardrails on the answer: the first blocking rule that matches
\* withholds it, a redacting rule before that rewrites it.  It misses what is
\* past the first 100000 characters or no string, and a body of another shape
\* raises, which the handler passes over: then the answer stays as it is.
Screen(text, rules, missed) ==
    IF text = "clean" \/ missed THEN {text}
    ELSE LET withheld == IF "blockOutput" \in rules THEN {"withheld"} ELSE {}
             redacted == IF "redactOutput" \in rules THEN {"redacted"} ELSE {}
         IN IF withheld \cup redacted = {} THEN {text}
            ELSE withheld \cup redacted

Fetched(c, text, missed) ==
    [text |-> text, by |-> chat[c].rules, from |-> chat[c].ns, missed |-> missed]

\* The call of the model streams through as it is, or fails.
ForwardRaw(c) ==
    /\ chat[c].pc = "forward"
    /\ chat[c].stream \/ chat[c].native
    /\ \/ \E text \in {"clean", "foul"} : Serve(c, Fetched(c, text, FALSE), FALSE)
       \/ Move(c, "forward", "refused")
    /\ UNCHANGED <<ruleVars, storeVars>>

\* The answer is screened; when it may be cached the handler fills the caches
\* before it answers, also with what the scan missed.  Status other than 200:
\* answered and not cached.
Forward(c) ==
    /\ chat[c].pc = "forward"
    /\ ~chat[c].stream /\ ~chat[c].native
    /\ \/ \E raw \in {"clean", "foul"}, missed \in BOOLEAN :
             /\ missed => raw = "foul" /\ OutputRules \cap chat[c].rules # {}
             /\ \E text \in Screen(raw, chat[c].rules, missed) :
                   IF chat[c].bypass \/ text = "withheld"
                   THEN Serve(c, Fetched(c, text, missed), FALSE)
                   ELSE chat' = [chat EXCEPT ![c].pc = "fillExact",
                                             ![c].answer = Fetched(c, text, missed)]
       \/ Move(c, "forward", "refused")
    /\ UNCHANGED <<ruleVars, storeVars>>

FillExactRaw(c) ==
    /\ Move(c, "fillExact", "fillSemantic")
    /\ exact' = [exact EXCEPT ![chat[c].ns] =
                    [chat[c].answer EXCEPT !.text = "foul"]]
    /\ UNCHANGED <<ruleVars, semantic, failures, circuit>>

FillExact(c) ==
    /\ Move(c, "fillExact", "fillSemantic")
    /\ \/ exact' = [exact EXCEPT ![chat[c].ns] = chat[c].answer]
       \/ UNCHANGED exact
    /\ UNCHANGED <<ruleVars, semantic, failures, circuit>>

FillSemantic(c) ==
    /\ Move(c, "fillSemantic", "served")
    /\ \/ /\ chat[c].embedded /\ ~circuit
          /\ semantic' = [semantic EXCEPT ![chat[c].ns] =
                              @ \cup {chat[c].answer}]
       \/ UNCHANGED semantic
    /\ UNCHANGED <<ruleVars, exact, failures, circuit>>

ExpireExact(ns) ==
    /\ exact[ns] # NoAnswer
    /\ exact' = [exact EXCEPT ![ns] = NoAnswer]
    /\ UNCHANGED <<ruleVars, semantic, failures, circuit, chat>>

ExpireSemantic(ns, row) ==
    /\ semantic' = [semantic EXCEPT ![ns] = @ \ {row}]
    /\ UNCHANGED <<ruleVars, exact, failures, circuit, chat>>

ChatNext ==
    \/ \E e \in Editors :
          \/ \E rule \in Rules : EditRule(e, rule)
          \/ SelectRules(e) \/ PublishRules(e)
    \/ RulesExpire
    \/ \E c \in Chats :
          \/ \E ns \in Namespaces, native, stream, personal \in BOOLEAN :
                Arrive(c, ns, native, stream, personal)
          \/ LoadRules(c) \/ LookUpExact(c) \/ LookUpSemantic(c)
          \/ EmbeddingFails(c) \/ ForwardRaw(c) \/ Forward(c)
          \/ FillExact(c) \/ FillSemantic(c)
    \/ CircuitCloses
    \/ \E ns \in Namespaces :
          \/ ExpireExact(ns)
          \/ \E row \in semantic[ns] : ExpireSemantic(ns, row)

ChatSpec == ChatInit /\ [][ChatNext]_chatVars

---------------------------------------------------------------------------
(* A foul answer reaches a client of /v1/chat/completions, from a cache,   *)
(* from a stream or directly, only if the request that fetched it had read *)
(* no rule on outputs, or its scan missed the text: whoever is served      *)
(* later, the text went through the scan before it was stored (design of   *)
(* 2026-06-02, output path; the scan fails open).                          *)
ScannedBeforeServed ==
    \A c \in Chats :
        LET answer == chat[c].answer
        IN chat[c].pc = "served" /\ answer.text = "foul" /\ ~chat[c].native =>
              OutputRules \cap answer.by = {} \/ answer.missed

(* The same document says that everything fails open but `block`, the only *)
(* fail-closed action: no foul answer is served of a request that had read *)
(* a blocking rule on outputs.  The code falls short of that: what a scan  *)
(* missed is even stored, and served to others until it expires.           *)
ScreenedBeforeServed ==
    \A c \in Chats :
        chat[c].pc = "served" /\ chat[c].answer.text = "foul"
        /\ ~chat[c].native =>
            "blockOutput" \notin chat[c].answer.by

(* A client is served only what a request of its own team and project      *)
(* fetched, and nothing that was withheld is served again.                 *)
OwnNamespace ==
    \A c \in Chats :
        chat[c].pc = "served" =>
            /\ chat[c].answer.from = chat[c].ns
            /\ chat[c].hit => chat[c].answer.text # "withheld"

(* docs/SYSTEM_REFERENCE.md:307: the rules are checked on every request.   *)
(* A rule in force leaves Redis only when a handler publishes the rows.    *)
RulesStayInForce ==
    [][\A rule \in ruleKey \ ruleKey' :
          \E e \in Editors : editor[e].pc = "selected"]_chatVars

(* The docstring of _enforce_anthropic_policy: the passthrough applies the *)
(* same controls, so it cannot be used to evade block guardrails.          *)
PassthroughEnforces ==
    \A c \in Chats :
        chat[c].pc = "served" /\ chat[c].native
        /\ "blockOutput" \in chat[c].rules => chat[c].answer.text # "foul"

\* The two together: a text goes through the scan before it is stored or served
\* (ScannedBeforeServed), and comes from the client's own team and project
\* (OwnNamespace).
AnswersSound == ScannedBeforeServed /\ OwnNamespace
=============================================================================
