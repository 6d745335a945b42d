------------------------------ MODULE League ------------------------------
(***************************************************************************)
(* The engineering league: engineers submit prompts to one challenge, the  *)
(* service runs them against a test suite (calls of a model, a minute or   *)
(* more), scores them, keeps the season's leaderboard and pays points into *)
(* a ledger, from which the store is paid.  A submission and a purchase    *)
(* each read, decide and write in one transaction at READ COMMITTED with   *)
(* no row locked, so that two of them may decide on the same reading.      *)
(*                                                                         *)
(* Composite scores are small integers and the season's multiplier is 1.   *)
(***************************************************************************)
EXTENDS Integers, FiniteSets, Functions, FiniteSetsExt

CONSTANTS
    Engineers,    \* users of the league
    Submissions,  \* POST /challenges/{id}/submit calls
    Scores,       \* composite scores a run of the suite may get
    MaxAttempts,  \* max_league_attempts of the challenge
    Xp,           \* points a training submission earns
    Items,        \* store items that are not exclusive
    Prices,       \* the prices an administrator may give them
    Orders        \* POST /store/purchase calls

ASSUME LeagueAssumption ==
    /\ IsFiniteSet(Submissions)
    /\ Scores \subseteq Nat \ {0}
    /\ MaxAttempts \in Nat \ {0}
    /\ Xp \in Nat
    /\ Prices \subseteq Nat

Unscored == 0

VARIABLES
    challenge,  \* its status, and whether scores_revealed_at is set
    submission, \* each call and, once stored, its rows
    board,      \* league_leaderboard: composite_score of each engineer
    rewarded,   \* the sum of each engineer's positive ledger rows
    item,       \* price and active flag of each store item
    order,      \* each purchase call
    purchases,  \* league_purchases: points_spent, for the items owned
    debited,    \* the sum of each engineer's store_purchase ledger rows
    rescoring   \* the submissions an administrator's creativity run has read

leagueVars == <<challenge, submission, board, rewarded, item, order,
                purchases, debited, rescoring>>

LeagueTypeOK ==
    /\ challenge \in [status : {"draft", "active", "closed"}, revealed : BOOLEAN]
    /\ submission \in [Submissions -> [pc : {"new", "running", "stored", "refused"},
                                       by : Engineers,
                                       mode : {"training", "league"},
                                       prior : Scores \cup {Unscored},
                                       first : Scores \cup {Unscored},
                                       composite : Scores \cup {Unscored}]]
    /\ board \in [Engineers -> Scores \cup {Unscored}]
    /\ rewarded \in [Engineers -> Nat]
    /\ item \in [Items -> [price : Prices, active : BOOLEAN]]
    /\ order \in [Orders -> [pc : {"new", "decided", "done", "refused"},
                             by : Engineers, item : Items, price : Prices]]
    /\ purchases \in [Engineers -> SUBSET (Items \X Prices)]
    /\ debited \in [Engineers -> Nat]
    /\ rescoring \in SUBSET Submissions

LeagueInit ==
    /\ challenge = [status |-> "draft", revealed |-> FALSE]
    /\ \E by \in [Submissions -> Engineers],
          mode \in [Submissions -> {"training", "league"}] :
          submission = [s \in Submissions |->
              [pc |-> "new", by |-> by[s], mode |-> mode[s],
               prior |-> Unscored, first |-> Unscored, composite |-> Unscored]]
    /\ board = [e \in Engineers |-> Unscored]
    /\ rewarded = [e \in Engineers |-> 0]
    /\ \E price \in [Items -> Prices] :
          item = [i \in Items |-> [price |-> price[i], active |-> TRUE]]
    /\ \E by \in [Orders -> Engineers], what \in [Orders -> Items] :
          order = [o \in Orders |-> [pc |-> "new", by |-> by[o], item |-> what[o],
                                     price |-> item[what[o]].price]]
    /\ purchases = [e \in Engineers |-> {}]
    /\ debited = [e \in Engineers |-> 0]
    /\ rescoring = {}

storeVars == <<item, order, purchases, debited>>
playVars == <<challenge, submission, board, rescoring>>

Balance(e) == rewarded[e] - debited[e]

Attempts(e) == {s \in Submissions : /\ submission[s].pc = "stored"
                                    /\ submission[s].by = e
                                    /\ submission[s].mode = "league"}

BestOf(scores) == IF scores = {} THEN Unscored ELSE Max(scores)

---------------------------------------------------------------------------
(* The challenge.                                                          *)

\* Any status may follow any other; closing reveals the scores for good and
\* ranks the leaderboard.
SetChallengeStatus(status) ==
    /\ status # challenge.status
    /\ challenge' = [status |-> status,
                     revealed |-> challenge.revealed \/ status = "closed"]
    /\ UNCHANGED <<submission, board, rewarded, rescoring, storeVars>>

\* The part of submit before the test suite runs: the challenge is active, the
\* limit on league attempts is not reached, and the best score so far is read.
DecideSubmission(s) ==
    LET e == submission[s].by
        refused == \/ challenge.status # "active"
                   \/ /\ submission[s].mode = "league"
                      /\ Cardinality(Attempts(e)) >= MaxAttempts
        prior == BestOf({submission[a].composite : a \in Attempts(e)})
    IN
    /\ submission[s].pc = "new"
    /\ submission' = [submission EXCEPT
          ![s].pc = IF refused THEN "refused" ELSE "running",
          ![s].prior = IF refused THEN Unscored ELSE prior]
    /\ UNCHANGED <<challenge, board, rewarded, rescoring, storeVars>>

\* The suite has run (a case whose call fails scores nothing), and one
\* transaction stores the submission, its score, the leaderboard's row and the
\* points.  score > prior is what prior = Unscored comes to as well.
StoreSubmissionReplacing(s, score) ==
    LET e == submission[s].by
        prior == submission[s].prior
    IN
    /\ submission[s].pc = "running"
    /\ submission' = [submission EXCEPT ![s].pc = "stored", ![s].first = score,
                                        ![s].composite = score]
    /\ IF submission[s].mode = "training"
       THEN rewarded' = [rewarded EXCEPT ![e] = @ + Xp] /\ UNCHANGED board
       ELSE /\ board' = IF score > prior THEN [board EXCEPT ![e] = score] ELSE board
            /\ rewarded' = [rewarded EXCEPT ![e] = @ + Max({score - prior, 0})]
    /\ UNCHANGED <<challenge, rescoring, storeVars>>

StoreSubmission(s, score) ==
    LET e == submission[s].by
        prior == submission[s].prior
    IN
    /\ submission[s].pc = "running"
    /\ submission' = [submission EXCEPT ![s].pc = "stored", ![s].first = score,
                                        ![s].composite = score]
    /\ IF submission[s].mode = "training"
       THEN rewarded' = [rewarded EXCEPT ![e] = @ + Xp] /\ UNCHANGED board
       ELSE /\ board' = [board EXCEPT ![e] = Max({@, score})]
            /\ rewarded' = [rewarded EXCEPT ![e] = @ + Max({score - prior, 0})]
    /\ UNCHANGED <<challenge, rescoring, storeVars>>

\* score_creativity_endpoint reads every scored submission, embeds the prompts
\* in one call, ...
ReadPrompts ==
    LET stored == {s \in Submissions : submission[s].pc = "stored"} IN
    /\ rescoring = {}
    /\ Cardinality(stored) >= 2
    /\ rescoring' = stored
    /\ UNCHANGED <<challenge, submission, board, rewarded, storeVars>>

\* ... and writes creativity and composite of what it read; neither the
\* leaderboard nor the ledger is touched.
StoreCreativity ==
    /\ rescoring # {}
    /\ \E new \in [rescoring -> Scores] :
          submission' = [s \in Submissions |->
              IF s \in rescoring THEN [submission[s] EXCEPT !.composite = new[s]]
                                 ELSE submission[s]]
    /\ rescoring' = {}
    /\ UNCHANGED <<challenge, board, rewarded, storeVars>>

---------------------------------------------------------------------------
(* The store.                                                              *)

UpdateItem(i) ==
    /\ \E price \in Prices, active \in BOOLEAN :
          item' = [item EXCEPT ![i] = [price |-> price, active |-> active]]
    /\ item' # item
    /\ UNCHANGED <<playVars, rewarded, order, purchases, debited>>

\* purchase_item up to its first INSERT: active, affordable, not owned.
DecideOrder(o) ==
    LET e == order[o].by
        i == order[o].item
        granted == /\ item[i].active
                   /\ Balance(e) >= item[i].price
                   /\ i \notin {p[1] : p \in purchases[e]}
    IN
    /\ order[o].pc = "new"
    /\ order' = [order EXCEPT ![o].pc = IF granted THEN "decided" ELSE "refused",
                              ![o].price = item[i].price]
    /\ UNCHANGED <<playVars, rewarded, item, purchases, debited>>

\* Both INSERTs and the commit; UNIQUE (engineer_id, item_id) rolls the second
\* purchase of one item back.
CompleteOrderTwice(o) ==
    LET e == order[o].by
        i == order[o].item
    IN
    /\ order[o].pc = "decided"
    /\ order' = [order EXCEPT ![o].pc = "done"]
    /\ purchases' = IF i \in {p[1] : p \in purchases[e]} THEN purchases
                    ELSE [purchases EXCEPT ![e] = @ \cup {<<i, order[o].price>>}]
    /\ debited' = [debited EXCEPT ![e] = @ + order[o].price]
    /\ UNCHANGED <<playVars, rewarded, item>>

CompleteOrder(o) ==
    LET e == order[o].by
        i == order[o].item
    IN
    /\ order[o].pc = "decided"
    /\ IF i \in {p[1] : p \in purchases[e]}
       THEN /\ order' = [order EXCEPT ![o].pc = "refused"]
            /\ UNCHANGED <<purchases, debited>>
       ELSE /\ order' = [order EXCEPT ![o].pc = "done"]
            /\ purchases' = [purchases EXCEPT ![e] = @ \cup {<<i, order[o].price>>}]
            /\ debited' = [debited EXCEPT ![e] = @ + order[o].price]
    /\ UNCHANGED <<playVars, rewarded, item>>

LeagueNext ==
    \/ \E status \in {"draft", "active", "closed"} : SetChallengeStatus(status)
    \/ \E s \in Submissions :
          \/ DecideSubmission(s)
          \/ \E score \in Scores : StoreSubmission(s, score)
    \/ ReadPrompts \/ StoreCreativity
    \/ \E i \in Items : UpdateItem(i)
    \/ \E o \in Orders : DecideOrder(o) \/ CompleteOrder(o)

LeagueSpec == LeagueInit /\ [][LeagueNext]_leagueVars

---------------------------------------------------------------------------
(* The leaderboard shows the best score an engineer's league submissions   *)
(* were given when they were stored, in whatever order concurrent runs of  *)
(* the test suite end (submit's GREATEST).                                 *)
BoardIsBest ==
    \A e \in Engineers :
        board[e] = BestOf({submission[s].first : s \in Attempts(e)})

(* What the ledger took from an engineer for the store is what the         *)
(* purchases of that engineer say was spent, however orders for one item   *)
(* and changes of its price overlap (purchase_item).                       *)
LedgerMatchesPurchases ==
    \A e \in Engineers : debited[e] = MapThenSumSet(LAMBDA p : p[2], purchases[e])

(* docs/api/league.md:287: 3 attempts max.                                 *)
AttemptsWithinLimit ==
    \A e \in Engineers : Cardinality(Attempts(e)) <= MaxAttempts

(* docs/api/league.md:691: 402 when points are insufficient for a          *)
(* purchase; no balance goes below zero.                                   *)
BalanceNotNegative == \A e \in Engineers : Balance(e) >= 0

(* docs/api/league.md:287: league scores are hidden until the challenge    *)
(* closes.                                                                 *)
HiddenWhileActive == challenge.status = "active" => ~challenge.revealed

\* The two together: the board shows each engineer's best score (BoardIsBest), and the
\* points debited are the prices of the purchases (LedgerMatchesPurchases).
LeagueSound == BoardIsBest /\ LedgerMatchesPurchases
=============================================================================
