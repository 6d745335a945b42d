----------------------------- MODULE Librarian -----------------------------
(***************************************************************************)
(* The librarian: documents whose row is in Postgres and whose embedding   *)
(* is a key of Redis, written and removed in two separate steps; research  *)
(* tasks, one background loop and any number of triggers, that ask a model *)
(* for a document and store it; and searches that read the two stores one  *)
(* after the other.                                                        *)
(***************************************************************************)
EXTENDS Integers, FiniteSets

CONSTANTS
    Docs,      \* fresh document ids
    Topics,    \* research topics, and topics of ingested documents
    Ingesters, \* ingest calls: POST /ingest and the two MCP tools
    Triggers,  \* POST /research/topics/{topic}/trigger calls
    Loop,      \* _research_loop
    Erasers,   \* DELETE /items/{item_id} calls
    Readers,   \* semantic searches
    NoDoc, NoTopic

Writers == Ingesters \cup Triggers \cup {Loop}

ASSUME LibrarianAssumption ==
    /\ NoDoc \notin Docs
    /\ NoTopic \notin Topics
    /\ Loop \notin Ingesters \cup Triggers

VARIABLES
    items,   \* knowledge_items: the topic and key column of each document
    vectors, \* lib:embed:* keys of Redis: not set or deleted, stored, lost
    topics,  \* research_topics
    pending, \* topics of the loop's last poll still to be researched
    writer,  \* each ingest_document in progress
    eraser,  \* the key each delete_item has still to remove
    reader   \* each search_knowledge: the rows it fetched, its scored hits

libraryVars == <<items, vectors, topics, pending, writer, eraser, reader>>

NoItem == [state |-> "none", topic |-> NoTopic]
IdleWriter == [pc |-> "idle", topic |-> NoTopic, doc |-> NoDoc]

LibrarianTypeOK ==
    /\ items \in [Docs -> [state : {"none", "taken", "keyed", "bare", "deleted"},
                           topic : Topics \cup {NoTopic}]]
    /\ vectors \in [Docs -> {"none", "stored", "lost"}]
    /\ topics \in [Topics -> {"absent", "stale", "fresh"}]
    /\ pending \in SUBSET Topics
    /\ writer \in [Writers -> [pc : {"idle", "ask", "embed", "keyed", "bare", "mark",
                                     "done"},
                               topic : Topics \cup {NoTopic}, doc : Docs \cup {NoDoc}]]
    /\ eraser \in [Erasers -> Docs \cup {NoDoc}]
    /\ reader \in [Readers -> [pc : {"idle", "rows", "done"}, rows : SUBSET Docs,
                               hits : SUBSET Docs]]

\* _bootstrap_schema seeds the topics.
LibrarianInit ==
    /\ items = [d \in Docs |-> NoItem]
    /\ vectors = [d \in Docs |-> "none"]
    /\ topics = [t \in Topics |-> "stale"]
    /\ pending = {}
    /\ writer = [w \in Writers |-> IdleWriter]
    /\ eraser = [x \in Erasers |-> NoDoc]
    /\ reader = [r \in Readers |-> [pc |-> "idle", rows |-> {}, hits |-> {}]]

Rows == {d \in Docs : items[d].state \in {"keyed", "bare"}}

\* A loop that ends a topic goes on to the next; any other call is over.
Ended(w) == IF w = Loop THEN IdleWriter ELSE [writer[w] EXCEPT !.pc = "done"]

---------------------------------------------------------------------------
(* ingest_document, on behalf of a call or of a research task.             *)

\* A call that passed the token and size checks.
Ingest(w) ==
    /\ w \in Ingesters
    /\ writer[w].pc = "idle"
    /\ \E t \in Topics \cup {NoTopic} :
          writer' = [writer EXCEPT ![w].pc = "embed", ![w].topic = t]
    /\ UNCHANGED <<items, vectors, topics, pending, eraser, reader>>

\* The embedding, or its failure, then a fresh id and SET lib:embed:<id>.
StoreVector(w) ==
    /\ writer[w].pc = "embed"
    /\ \E d \in Docs :
          /\ items[d].state = "none"
          /\ items' = [items EXCEPT ![d].state = "taken"]
          /\ \/ /\ vectors' = [vectors EXCEPT ![d] = "stored"]
                /\ writer' = [writer EXCEPT ![w].pc = "keyed", ![w].doc = d]
             \/ /\ UNCHANGED vectors
                /\ writer' = [writer EXCEPT ![w].pc = "bare", ![w].doc = d]
    /\ UNCHANGED <<topics, pending, eraser, reader>>

\* INSERT INTO knowledge_items.
InsertRow(w) ==
    /\ writer[w].pc \in {"keyed", "bare"}
    /\ items' = [items EXCEPT ![writer[w].doc] =
                    [state |-> writer[w].pc, topic |-> writer[w].topic]]
    /\ writer' = [writer EXCEPT ![w] = IF w \in Ingesters THEN Ended(w)
                                       ELSE [@ EXCEPT !.pc = "mark"]]
    /\ UNCHANGED <<vectors, topics, pending, eraser, reader>>

\* An error of Redis or Postgres: the call fails, the task is logged and over.
StoreFails(w) ==
    /\ writer[w].pc \in {"embed", "keyed", "bare"}
    /\ writer' = [writer EXCEPT ![w] = Ended(w)]
    /\ UNCHANGED <<items, vectors, topics, pending, eraser, reader>>

---------------------------------------------------------------------------
(* Research.                                                               *)

\* The interval of a topic elapses.
GoStale(t) ==
    /\ topics[t] = "fresh"
    /\ topics' = [topics EXCEPT ![t] = "stale"]
    /\ UNCHANGED <<items, vectors, pending, writer, eraser, reader>>

CreateTopic(t) ==
    /\ topics[t] = "absent"
    /\ topics' = [topics EXCEPT ![t] = "stale"]
    /\ UNCHANGED <<items, vectors, pending, writer, eraser, reader>>

DeleteTopic(t) ==
    /\ topics[t] # "absent"
    /\ topics' = [topics EXCEPT ![t] = "absent"]
    /\ UNCHANGED <<items, vectors, pending, writer, eraser, reader>>

\* _research_loop polls, ...
Poll ==
    /\ writer[Loop].pc = "idle"
    /\ pending = {}
    /\ pending' = {t \in Topics : topics[t] = "stale"}
    /\ pending' # {}
    /\ UNCHANGED <<items, vectors, topics, writer, eraser, reader>>

\* ... and takes the rows it read one after the other, changed or not.
NextTopic ==
    /\ writer[Loop].pc = "idle"
    /\ \E t \in pending :
          /\ pending' = pending \ {t}
          /\ writer' = [writer EXCEPT ![Loop] = [IdleWriter EXCEPT !.pc = "ask",
                                                                   !.topic = t]]
    /\ UNCHANGED <<items, vectors, topics, eraser, reader>>

\* trigger_research starts a task of its own on any topic, stale or not.
Trigger(w) ==
    /\ w \in Triggers
    /\ writer[w].pc = "idle"
    /\ \E t \in Topics :
          /\ topics[t] # "absent"
          /\ writer' = [writer EXCEPT ![w].pc = "ask", ![w].topic = t]
    /\ UNCHANGED <<items, vectors, topics, pending, eraser, reader>>

\* The model answers, or fails, answers what is not JSON, or nothing.
AskModel(w) ==
    /\ writer[w].pc = "ask"
    /\ \/ writer' = [writer EXCEPT ![w].pc = "embed"]
       \/ writer' = [writer EXCEPT ![w] = Ended(w)]
    /\ UNCHANGED <<items, vectors, topics, pending, eraser, reader>>

\* UPDATE research_topics SET last_researched_at.
MarkResearched(w) ==
    /\ writer[w].pc = "mark"
    /\ topics' = [topics EXCEPT ![writer[w].topic] =
                     IF @ = "absent" THEN @ ELSE "fresh"]
    /\ writer' = [writer EXCEPT ![w] = Ended(w)]
    /\ UNCHANGED <<items, vectors, pending, eraser, reader>>

\* A restart: calls in progress and the loop's place are lost.
LibrarianRestarts ==
    /\ \E w \in Writers : writer[w].pc \notin {"idle", "done"}
    /\ writer' = [w \in Writers |-> IF writer[w].pc = "idle" THEN writer[w]
                                    ELSE Ended(w)]
    /\ pending' = {}
    /\ eraser' = [x \in Erasers |-> NoDoc]
    /\ reader' = [r \in Readers |-> [pc |-> "done", rows |-> {}, hits |-> {}]]
    /\ UNCHANGED <<items, vectors, topics>>

---------------------------------------------------------------------------
(* Removal and search.                                                     *)

\* delete_item removes the row, ...
DeleteVectorFirst(x) ==
    /\ eraser[x] = NoDoc
    /\ \E d \in Rows :
          /\ vectors' = [vectors EXCEPT ![d] = "none"]
          /\ eraser' = [eraser EXCEPT ![x] = d]
    /\ UNCHANGED <<items, topics, pending, writer, reader>>

DeleteRow(x) ==
    /\ eraser[x] = NoDoc
    /\ \E d \in Rows :
          /\ items' = [items EXCEPT ![d].state = "deleted"]
          /\ eraser' = [eraser EXCEPT ![x] =
                            IF items[d].state = "keyed" THEN d ELSE NoDoc]
    /\ UNCHANGED <<vectors, topics, pending, writer, reader>>

\* ... then the key its RETURNING named.
DeleteVector(x) ==
    /\ eraser[x] # NoDoc
    /\ vectors' = [vectors EXCEPT ![eraser[x]] = "none"]
    /\ eraser' = [eraser EXCEPT ![x] = NoDoc]
    /\ UNCHANGED <<items, topics, pending, writer, reader>>

\* search_knowledge fetches the rows, by topic or all of them, ...
FetchRows(r) ==
    /\ reader[r].pc = "idle"
    /\ \E t \in Topics \cup {NoTopic} :
          LET found == {d \in Rows : t \in {NoTopic, items[d].topic}}
          IN  reader' = [reader EXCEPT ![r] =
                            [pc |-> IF found = {} THEN "done" ELSE "rows",
                             rows |-> found, hits |-> {}]]
    /\ UNCHANGED <<items, vectors, topics, pending, writer, eraser>>

\* ... and scores those whose vector MGET still finds; the others score 0.
ScoreRows(r) ==
    /\ reader[r].pc = "rows"
    /\ reader' = [reader EXCEPT ![r] =
                    [pc |-> "done", rows |-> {},
                     hits |-> {d \in @.rows : vectors[d] = "stored"}]]
    /\ UNCHANGED <<items, vectors, topics, pending, writer, eraser>>

---------------------------------------------------------------------------
(* Redis.                                                                  *)

\* An eviction under memory pressure, or a restart of a Redis that persists
\* nothing, which is this for every key.
LoseVector(d) ==
    /\ vectors[d] = "stored"
    /\ vectors' = [vectors EXCEPT ![d] = "lost"]
    /\ UNCHANGED <<items, topics, pending, writer, eraser, reader>>

LibrarianNext ==
    \/ Poll \/ NextTopic \/ LibrarianRestarts
    \/ \E t \in Topics : GoStale(t) \/ CreateTopic(t) \/ DeleteTopic(t)
    \/ \E w \in Writers :
          \/ Ingest(w) \/ Trigger(w) \/ AskModel(w) \/ StoreVector(w)
          \/ InsertRow(w) \/ StoreFails(w) \/ MarkResearched(w)
    \/ \E d \in Docs : LoseVector(d)
    \/ \E x \in Erasers : DeleteRow(x) \/ DeleteVector(x)
    \/ \E r \in Readers : FetchRows(r) \/ ScoreRows(r)

LibrarianSpec == LibrarianInit /\ [][LibrarianNext]_libraryVars

---------------------------------------------------------------------------
(* A row that names an embedding names one that was stored and that no     *)
(* call has deleted, whatever fails, restarts or runs between the two      *)
(* writes and the two deletes (ingest_document, delete_item): only Redis,  *)
(* which evicts and keeps nothing over a restart, may make a search score  *)
(* the document 0.                                                         *)
KeyedItemHasVector ==
    \A d \in Docs : items[d].state = "keyed" => vectors[d] \in {"stored", "lost"}
=============================================================================
