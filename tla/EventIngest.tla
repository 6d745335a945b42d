---------------------------- MODULE EventIngest ----------------------------
(***************************************************************************)
(* The observability service: usage events come in over a bus, a handler   *)
(* of each replica turns one into a cost record, Redis counters, a session *)
(* aggregate and a daily rollup; GitHub's webhook and a cleanup loop write *)
(* the outcome of the sessions.  Amounts are units of one request; a cost  *)
(* record's INSERT may raise, and each later write may fail unseen.        *)
(***************************************************************************)
EXTENDS Integers, Sequences, FiniteSets

CONSTANTS
    Events,            \* usage events
    Consumers,         \* processes of the service
    Traces,            \* session_trace_ids
    Deliveries,        \* webhook calls by GitHub
    Outcomes,          \* what a request came to: retries and whether it failed
    TickSeconds,       \* seconds a tick of the clock stands for
    MaxTicks,          \* bound: the clock
    MaxConsumerCrashes \* bound: crashes of replicas

ASSUME EventIngestAssumption ==
    /\ Events # {}
    /\ Outcomes \subseteq [retries : 0..1, failed : BOOLEAN]
    /\ TickSeconds \in Nat \ {0}
    /\ MaxTicks \in Nat
    /\ MaxConsumerCrashes \in Nat

Broker == "broker"
NoTiming == -1      \* avg_inter_request_s IS NULL
NoTrace == [turns |-> 0]
NoEvent == [trace |-> "none"]

VARIABLES
    onBroker,     \* BUS_PROVIDER is servicebus
    event,        \* what was sent
    queue,        \* the broker's subscription, each replica's own queue
    handling,     \* the event each replica handles, its place, the row it read
    records,      \* cost_records per event
    turnsCounted, \* what the events added to the Redis counters
    sessions,     \* the sessions table
    delivery,     \* the webhook calls; one inserted is a developer_output_events row
    ticks,
    consumerCrashes

eventVars == <<onBroker, event, queue, handling, records, turnsCounted, sessions,
               delivery, ticks, consumerCrashes>>

Idling == [pc |-> "idle", event |-> CHOOSE e \in Events : TRUE, row |-> NoTrace]
SessionRow == [turns : Nat \ {0}, retries : Nat, errors : Nat, tokens : Nat,
               first : 0..MaxTicks, last : 0..MaxTicks,
               timing : Nat \cup {NoTiming}, quality : 1..5,
               commit : {"null", "yes", "no"}]

EventIngestTypeOK ==
    /\ onBroker \in BOOLEAN
    /\ event \in [Events -> {NoEvent} \cup
                    [trace : Traces, outcome : Outcomes, at : 0..MaxTicks]]
    /\ queue \in [Consumers \cup {Broker} -> Seq(Events)]
    /\ handling \in [Consumers -> [pc : {"idle", "taken", "recorded", "counted",
                                        "read", "aggregated"},
                                  event : Events, row : SessionRow \cup {NoTrace}]]
    /\ records \in [Events -> Nat]
    /\ turnsCounted \in Nat
    /\ sessions \in [Traces -> SessionRow \cup {NoTrace}]
    /\ delivery \in [Deliveries -> {"none", "inserted", "done"}]
    /\ ticks \in 0..MaxTicks
    /\ consumerCrashes \in 0..MaxConsumerCrashes

EventIngestInit ==
    /\ onBroker \in BOOLEAN
    /\ event = [e \in Events |-> NoEvent]
    /\ queue = [q \in Consumers \cup {Broker} |-> <<>>]
    /\ handling = [r \in Consumers |-> Idling]
    /\ records = [e \in Events |-> 0]
    /\ turnsCounted = 0
    /\ sessions = [t \in Traces |-> NoTrace]
    /\ delivery = [d \in Deliveries |-> "none"]
    /\ ticks = 0
    /\ consumerCrashes = 0

-----------------------------------------------------------------------------
(* Quality of a session, as the handler computes it (from what the row will  *)
(* hold) and as the cleanup statement does (from the row).                   *)

Bounded(score) == IF score < 1 THEN 1 ELSE IF score > 5 THEN 5 ELSE score
AtLeastOne(n) == IF n = 0 THEN 1 ELSE n
\* +1 under a tenth, -1 over three tenths
RateScore(count, total) ==
    IF 10 * count < total THEN 1 ELSE IF 10 * count > 3 * total THEN -1 ELSE 0

HandlerScore(turns, retries, errors, timing) ==
    LET total == AtLeastOne(turns)
        length == IF turns \in 3..10 THEN 0
                  ELSE IF turns > 20 \/ turns = 1 THEN -1 ELSE 0
        pace == IF timing = NoTiming THEN 0
                ELSE IF timing > 120 THEN 1
                ELSE IF timing < 10 /\ turns > 3 THEN -1 ELSE 0
    IN Bounded(3 + RateScore(retries, total) + RateScore(errors, total)
                 + length + pace)

CleanupScore(s) ==
    LET total == AtLeastOne(s.turns)
        gap == IF s.timing = NoTiming THEN 0 ELSE s.timing
        length == IF s.turns > 20 \/ s.turns = 1 THEN -1 ELSE 0
        pace == IF gap > 120 THEN 1 ELSE IF gap < 10 /\ s.turns > 3 THEN -1 ELSE 0
    IN Bounded(3 + RateScore(s.retries, total) + RateScore(s.errors, total)
                 + length + pace)

-----------------------------------------------------------------------------
(* The bus.                                                                  *)

\* POST /events: on the bus, or in the queue of the replica that answered
Publish(e, r, trace, outcome) ==
    LET q == IF onBroker THEN Broker ELSE r
    IN /\ event[e] = NoEvent
       /\ event' = [event EXCEPT ![e] = [trace |-> trace, outcome |-> outcome,
                                         at |-> ticks]]
       /\ queue' = [queue EXCEPT ![q] = Append(@, e)]
       /\ UNCHANGED <<onBroker, handling, records, turnsCounted, sessions,
                      delivery, ticks, consumerCrashes>>

Take(r) ==
    LET q == IF onBroker THEN Broker ELSE r
    IN /\ handling[r].pc = "idle"
       /\ queue[q] # <<>>
       /\ handling' = [handling EXCEPT ![r] =
                         [Idling EXCEPT !.pc = "taken", !.event = Head(queue[q])]]
       /\ queue' = [queue EXCEPT ![q] = Tail(@)]
       /\ UNCHANGED <<onBroker, event, records, turnsCounted, sessions, delivery,
                      ticks, consumerCrashes>>

\* the process stops: the broker delivers the message again, a queue in memory
\* is lost with the process
Crash(r) ==
    /\ consumerCrashes < MaxConsumerCrashes
    /\ consumerCrashes' = consumerCrashes + 1
    /\ handling' = [handling EXCEPT ![r] = Idling]
    /\ queue' = IF onBroker
                THEN [queue EXCEPT ![Broker] =
                        IF handling[r].pc = "idle" THEN @
                        ELSE Append(@, handling[r].event)]
                ELSE [queue EXCEPT ![r] = <<>>]
    /\ UNCHANGED <<onBroker, event, records, turnsCounted, sessions, delivery,
                   ticks>>

-----------------------------------------------------------------------------
(* The handler of one event.                                                 *)

\* the INSERT of the cost record; when it raises the bus drops the event
Record(r) ==
    /\ handling[r].pc = "taken"
    /\ \/ /\ records' = [records EXCEPT ![handling[r].event] = @ + 1]
          /\ handling' = [handling EXCEPT ![r].pc = "recorded"]
       \/ /\ handling' = [handling EXCEPT ![r] = Idling]
          /\ UNCHANGED records
    /\ UNCHANGED <<onBroker, event, queue, turnsCounted, sessions, delivery, ticks,
                   consumerCrashes>>

\* _update_budget_counters, best effort
AddToCounters(r) ==
    /\ handling[r].pc = "recorded"
    /\ turnsCounted' \in {turnsCounted, turnsCounted + 1}
    /\ handling' = [handling EXCEPT ![r].pc = "counted"]
    /\ UNCHANGED <<onBroker, event, queue, records, sessions, delivery, ticks,
                   consumerCrashes>>

\* _upsert_session: the row first ...
ReadTrace(r) ==
    /\ handling[r].pc = "counted"
    /\ handling' = [handling EXCEPT
         ![r].pc = "read", ![r].row = sessions[event[handling[r].event].trace]]
    /\ UNCHANGED <<onBroker, event, queue, records, turnsCounted, sessions,
                   delivery, ticks, consumerCrashes>>

Opened(m) ==
    LET errors == IF m.outcome.failed THEN 1 ELSE 0
    IN [turns |-> 1, retries |-> m.outcome.retries, errors |-> errors, tokens |-> 1,
        first |-> m.at, last |-> m.at, timing |-> NoTiming,
        quality |-> HandlerScore(1, m.outcome.retries, errors, NoTiming), commit |-> "null"]

\* an Extended that scores the row it read
ExtendedScoringBefore(m, read, now) ==
    LET turns == read.turns + 1
        elapsed == (m.at - read.first) * TickSeconds
        timing == IF elapsed < 0 THEN 0 ELSE elapsed \div AtLeastOne(turns - 1)
    IN [now EXCEPT !.turns = turns, !.tokens = @ + 1, !.last = m.at,
          !.retries = read.retries + m.outcome.retries,
          !.errors = read.errors + (IF m.outcome.failed THEN 1 ELSE 0),
          !.timing = timing,
          !.quality = HandlerScore(read.turns, read.retries, read.errors, timing)]

\* what the UPDATE sets: counts from the row read before, tokens and the
\* outcome from the row as it is
Extended(m, read, now) ==
    LET turns == read.turns + 1
        retries == read.retries + m.outcome.retries
        errors == read.errors + (IF m.outcome.failed THEN 1 ELSE 0)
        elapsed == (m.at - read.first) * TickSeconds
        timing == IF elapsed < 0 THEN 0 ELSE elapsed \div AtLeastOne(turns - 1)
    IN [now EXCEPT !.turns = turns, !.retries = retries, !.errors = errors,
          !.tokens = @ + 1, !.last = m.at, !.timing = timing,
          !.quality = HandlerScore(turns, retries, errors, timing)]

\* ... then an UPDATE or, if there was none, an INSERT that a row inserted
\* meanwhile makes fail; no failure is seen
WriteSession(r) ==
    LET m == event[handling[r].event]
        read == handling[r].row
    IN /\ handling[r].pc = "read"
       /\ sessions' \in
            {sessions,
             IF read # NoTrace
             THEN [sessions EXCEPT ![m.trace] = Extended(m, read, @)]
             ELSE IF sessions[m.trace] = NoTrace
                  THEN [sessions EXCEPT ![m.trace] = Opened(m)]
                  ELSE sessions}
       /\ handling' = [handling EXCEPT ![r].pc = "aggregated", ![r].row = NoTrace]
       /\ UNCHANGED <<onBroker, event, queue, records, turnsCounted, delivery,
                      ticks, consumerCrashes>>

\* _upsert_activity_log, a rollup of its own; the message is completed
Finish(r) ==
    /\ handling[r].pc = "aggregated"
    /\ handling' = [handling EXCEPT ![r] = Idling]
    /\ UNCHANGED <<onBroker, event, queue, records, turnsCounted, sessions,
                   delivery, ticks, consumerCrashes>>

-----------------------------------------------------------------------------
(* What came of a session.                                                   *)

Day == 86400
Ago(t) == (ticks - t) * TickSeconds

\* a push, a pull request or a review; a call that fails is answered 202 too
Receive(d) ==
    /\ delivery[d] = "none"
    /\ delivery' = [delivery EXCEPT ![d] = "inserted"]
    /\ UNCHANGED <<onBroker, event, queue, handling, records, turnsCounted,
                   sessions, ticks, consumerCrashes>>

\* _mark_recent_sessions_with_commit, for a push and a merged pull request
MarkSessions(d) ==
    /\ delivery[d] = "inserted"
    /\ delivery' = [delivery EXCEPT ![d] = "done"]
    /\ sessions' = [t \in Traces |->
         IF sessions[t] # NoTrace /\ Ago(sessions[t].last) <= Day
         THEN [sessions[t] EXCEPT !.commit = "yes"] ELSE sessions[t]]
    /\ UNCHANGED <<onBroker, event, queue, handling, records, turnsCounted, ticks,
                   consumerCrashes>>

\* _finalize_stale_sessions
Abandoned(s) == s.commit = "null" /\ Ago(s.first) > Day
Settled(s) == LET a == IF Abandoned(s) THEN [s EXCEPT !.commit = "no"] ELSE s
              IN IF Ago(a.last) > 1800 /\ Ago(a.last) < 7 * Day
                 THEN [a EXCEPT !.quality = CleanupScore(a)] ELSE a
FinalizeStale ==
    /\ sessions' = [t \in Traces |->
         IF sessions[t] = NoTrace THEN NoTrace ELSE Settled(sessions[t])]
    /\ sessions' # sessions
    /\ UNCHANGED <<onBroker, event, queue, handling, records, turnsCounted,
                   delivery, ticks, consumerCrashes>>

Elapse ==
    /\ ticks < MaxTicks
    /\ ticks' = ticks + 1
    /\ UNCHANGED <<onBroker, event, queue, handling, records, turnsCounted,
                   sessions, delivery, consumerCrashes>>

-----------------------------------------------------------------------------
EventIngestNext ==
    \/ \E e \in Events, r \in Consumers, t \in Traces, o \in Outcomes :
          Publish(e, r, t, o)
    \/ \E r \in Consumers : \/ Take(r) \/ Crash(r)
                           \/ Record(r) \/ AddToCounters(r)
                           \/ ReadTrace(r) \/ WriteSession(r) \/ Finish(r)
    \/ \E d \in Deliveries : Receive(d) \/ MarkSessions(d)
    \/ FinalizeStale
    \/ Elapse

EventIngestSpec == EventIngestInit /\ [][EventIngestNext]_eventVars

-----------------------------------------------------------------------------
(* The score a handler stores is the score the cleanup loop would give the   *)
(* row: two replicas that overwrite each other's counts, a redelivery or a   *)
(* late event never leave a row whose score and counts disagree, so the      *)
(* loop's second formula, in SQL, never changes a session.                   *)
QualityIsCurrent ==
    \A t \in Traces : sessions[t] # NoTrace =>
        sessions[t].quality = CleanupScore(sessions[t])

\* the replicas compete for events safely: a row counts a turn for each event
\* whose tokens it holds
TurnsMatchTokens ==
    \A t \in Traces : sessions[t] # NoTrace =>
        sessions[t].turns = sessions[t].tokens

\* a session marked abandoned "definitively" stays so
AbandonedForGood ==
    [][\A t \in Traces : sessions[t] # NoTrace =>
         (sessions[t].commit = "no" => sessions'[t].commit = "no")]_eventVars
=============================================================================
