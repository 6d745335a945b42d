---------------------------- MODULE Achievements ----------------------------
(***************************************************************************)
(* The classifier of the admin service, started by an administrator: it    *)
(* gives every session that has been idle for five minutes a type computed *)
(* from its counters, commits, and then awards badges from the types.      *)
(* Observability goes on counting while it runs, and a second run may be   *)
(* under way.                                                              *)
(***************************************************************************)
EXTENDS Integers, FiniteSets

CONSTANTS
    Talks,      \* sessions
    Staff,      \* their developers
    LastDay,    \* bound: sessions start on a day from 0 to LastDay
    StreakDays, \* the days of the badge "consistent" (5 in the code)
    Counts,     \* bound: the counters a session may reach
    Passes      \* runs of the classifier in flight

ASSUME AchievementsAssumption ==
    /\ LastDay \in Nat /\ StreakDays \in Nat \ {0}
    /\ Counts \subseteq [turns : {"few", "several", "many"},
                        pace : {"rapid", "quick", "slow"},
                        tools : {"none", "rare", "frequent", "constant"}]

VARIABLES
    talk,  \* sessions: counters as classes, idleness, stored type
    owner, \* the developer of each session
    begun, \* the day each session began
    badge, \* developer_achievements: unique per developer and name
    pass   \* progress of each run

achievementVars == <<talk, owner, begun, badge, pass>>

(* Counters, by the thresholds of the statement: turns <= 8, <= 15, more;  *)
(* seconds between requests < 8, < 20, more; tool calls none, <= 0.3 per   *)
(* turn, <= 0.8, more.                                                     *)
Kinds == {"interactive", "agentic", "autonomous"}
Badges == {"first_step", "tool_user", "going_agentic", "autonomous", "consistent"}

Agentic == {"agentic", "autonomous"}
NewTrace == [count |-> [turns |-> "few", pace |-> "slow", tools |-> "none"],
          idle |-> FALSE, kind |-> "null"]
NoPass == [pc |-> "idle", due |-> {}]

\* Every badge but the first two was awarded for a session stored with a type
\* that earns it, whatever its counters have become.
AchievementsTypeOK ==
    /\ talk \in [Talks -> [count : Counts \cup {NewTrace.count}, idle : BOOLEAN,
                             kind : Kinds \cup {"null"}]]
    /\ owner \in [Talks -> Staff] /\ begun \in [Talks -> 0 .. LastDay]
    /\ badge \subseteq Staff \X Badges
    /\ pass \in [Passes -> [pc : {"idle", "award", "commit"}, due : SUBSET (Staff \X Badges)]]
    /\ \A a \in badge :
          a[2] \notin {"first_step", "tool_user"} =>
              \E t \in Talks : owner[t] = a[1] /\ talk[t].kind \in Agentic

AchievementsInit ==
    /\ talk = [t \in Talks |-> NewTrace]
    /\ owner \in [Talks -> Staff]
    /\ begun \in [Talks -> 0 .. LastDay]
    /\ badge = {}
    /\ pass = [r \in Passes |-> NoPass]

---------------------------------------------------------------------------
(* _CLASSIFY_SQL.                                                          *)

Kind(x) ==
    CASE x.turns = "many" /\ x.pace = "rapid" /\ x.tools = "constant" -> "autonomous"
      [] x.tools \in {"frequent", "constant"}                         -> "agentic"
      [] x.turns # "few" /\ x.pace # "slow"                           -> "agentic"
      [] OTHER                                                        -> "interactive"

\* Another request of the session: its counters move, turns only up.
CountRequest(t, c) ==
    LET old == talk[t].count IN
    /\ old.turns = "many" => c.turns = "many"
    /\ old.turns = "several" => c.turns # "few"
    /\ old.tools # "none" => c.tools # "none"
    /\ talk' = [talk EXCEPT ![t].count = c, ![t].idle = FALSE]
    /\ UNCHANGED <<owner, begun, badge, pass>>

FiveMinutes(t) ==
    /\ ~talk[t].idle
    /\ talk' = [talk EXCEPT ![t].idle = TRUE]
    /\ UNCHANGED <<owner, begun, badge, pass>>

Classify(r) ==
    /\ pass[r].pc = "idle"
    /\ talk' = [t \in Talks |->
          IF talk[t].kind = "null" /\ talk[t].idle
          THEN [talk[t] EXCEPT !.kind = Kind(talk[t].count)] ELSE talk[t]]
    /\ pass' = [pass EXCEPT ![r] = [pc |-> "award", due |-> {}]]
    /\ UNCHANGED <<owner, begun, badge>>

---------------------------------------------------------------------------
(* _ACHIEVEMENTS.  Left out: agentic_majority, ten_agent_commits and       *)
(* deep_thinker, which differ from these in what they count.               *)

TracesOf(d) == {t \in Talks : owner[t] = d}

AgenticDays(d) == {begun[t] : t \in {x \in TracesOf(d) : talk[x].kind \in Agentic}}

\* MAX(day) - MIN(day) >= 4 AND COUNT(DISTINCT day) >= 5
Streak(days) ==
    /\ Cardinality(days) >= StreakDays
    /\ \E a, b \in days : b - a >= StreakDays - 1

Deserves(d, name) ==
    CASE name = "first_step"    -> TracesOf(d) # {}
      [] name = "tool_user"     -> \E t \in TracesOf(d) : talk[t].count.tools # "none"
      [] name = "going_agentic" -> \E t \in TracesOf(d) : talk[t].kind = "agentic"
      [] name = "autonomous"    -> \E t \in TracesOf(d) : talk[t].kind = "autonomous"
      [] name = "consistent"    -> Streak(AgenticDays(d))

\* award_achievements: select those without the badge, insert, commit.
SelectDeserving(r) ==
    /\ pass[r].pc = "award"
    /\ pass' = [pass EXCEPT ![r] = [pc |-> "commit",
          due |-> {a \in Staff \X Badges : a \notin badge /\ Deserves(a[1], a[2])}]]
    /\ UNCHANGED <<talk, owner, begun, badge>>

\* ON CONFLICT DO NOTHING.
CommitAwards(r) ==
    /\ pass[r].pc = "commit"
    /\ badge' = badge \cup pass[r].due
    /\ pass' = [pass EXCEPT ![r] = NoPass]
    /\ UNCHANGED <<talk, owner, begun>>

\* The replica goes away: the types are committed, the badges are not.
LosePass(r) ==
    /\ pass[r].pc # "idle"
    /\ pass' = [pass EXCEPT ![r] = NoPass]
    /\ UNCHANGED <<talk, owner, begun, badge>>

AchievementsNext ==
    \/ \E t \in Talks : \/ FiveMinutes(t)
                         \/ \E c \in Counts : CountRequest(t, c)
    \/ \E r \in Passes : \/ Classify(r) \/ SelectDeserving(r)
                       \/ CommitAwards(r) \/ LosePass(r)

AchievementsSpec == AchievementsInit /\ [][AchievementsNext]_achievementVars

---------------------------------------------------------------------------
\* agentic_classifier.py:162: "5 consecutive calendar days with at least one
\* agentic/autonomous session".
ConsistentIsConsecutive ==
    \A d \in Staff : <<d, "consistent">> \in badge =>
        \E first \in 0 .. LastDay : (first .. (first + StreakDays - 1)) \subseteq AgenticDays(d)
=============================================================================
