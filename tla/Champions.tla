---------------------------- MODULE Champions -----------------------------
(***************************************************************************)
(* The champions community: an engineer asks, a champion claims and        *)
(* resolves, the asker or a nightly job confirms; office hours are booked; *)
(* contributions are upvoted and flagged.  What a champion earns is posted *)
(* to the league's ledger after the transaction that earned it has         *)
(* committed, once, and nobody retries it.                                 *)
(***************************************************************************)
EXTENDS Integers, FiniteSets

CONSTANTS
    Champs,      \* champions
    Askers,      \* confirm calls, each by the engineer who asked
    Developers,  \* users who upvote
    Toggles,     \* upvote calls
    Nobody       \* no champion

ASSUME ChampionsAssumption ==
    /\ Nobody \notin Champs
    /\ IsFiniteSet(Developers)

AskPoints == 200
OfficePoints == 150

VARIABLES
    ask,         \* one champion_asks row
    confirmer,   \* each POST /asks/{id}/confirm
    nightly,     \* run_auto_confirm
    booking,     \* one champion_bookings row with each champion
    office,      \* the done_booking call of each booking, up to its grant
    post,        \* one champion_contributions row
    upvoters,    \* champion_upvotes of that row
    toggle,      \* each POST /content/{id}/upvote
    ledger       \* champion_* rows of league_points_ledger

championVars == <<ask, confirmer, nightly, booking, office, post, upvoters,
                  toggle, ledger>>
askVars == <<ask, confirmer, nightly>>
bookVars == <<booking, office>>
postVars == <<post, upvoters, toggle>>

AskStatus == {"absent", "open", "claimed", "resolved_pending", "resolved"}

ChampionsTypeOK ==
    /\ ask \in [status : AskStatus, by : Champs \cup {Nobody}, due : BOOLEAN]
    /\ confirmer \in [Askers -> [pc : {"idle", "read", "owed", "done"},
                                 to : Champs \cup {Nobody}]]
    /\ nightly \in Champs \cup {Nobody}
    /\ booking \in [Champs -> {"absent", "requested", "confirmed", "done",
                               "cancelled"}]
    /\ office \in [Champs -> 0..1]
    /\ post \in [upvotes : Nat, flags : {"none", "some", "removed"}]
    /\ upvoters \in SUBSET Developers
    /\ toggle \in [Toggles -> [pc : {"idle", "on", "off", "done"}, by : Developers]]
    /\ ledger \in [{"ask", "auto", "office"} -> [Champs -> Nat]]

ChampionsInit ==
    /\ ask = [status |-> "absent", by |-> Nobody, due |-> FALSE]
    /\ confirmer = [a \in Askers |-> [pc |-> "idle", to |-> Nobody]]
    /\ nightly = Nobody
    /\ booking = [c \in Champs |-> "absent"]
    /\ office = [c \in Champs |-> 0]
    /\ post = [upvotes |-> 0, flags |-> "none"]
    /\ upvoters = {}
    /\ \E by \in [Toggles -> Developers] :
          toggle = [t \in Toggles |-> [pc |-> "idle", by |-> by[t]]]
    /\ ledger = [r \in {"ask", "auto", "office"} |-> [c \in Champs |-> 0]]

\* grant_points posts to the league service; an answer that is not 201 is
\* swallowed, a call that fails ends the request after its commit.
Grant(reason, c, points) ==
    \/ ledger' = [ledger EXCEPT ![reason][c] = @ + points]
    \/ UNCHANGED ledger

---------------------------------------------------------------------------
(* Asks.                                                                   *)

CreateAsk ==
    /\ ask.status = "absent"
    /\ ask' = [ask EXCEPT !.status = "open"]
    /\ UNCHANGED <<confirmer, nightly, bookVars, postVars, ledger>>

\* UPDATE ... WHERE status = 'open': one champion wins.
ClaimAnyAsk(c) ==
    /\ ask.status # "absent"
    /\ ask' = [ask EXCEPT !.status = "claimed", !.by = c]
    /\ UNCHANGED <<confirmer, nightly, bookVars, postVars, ledger>>

ClaimAsk(c) ==
    /\ ask.status = "open"
    /\ ask' = [ask EXCEPT !.status = "claimed", !.by = c]
    /\ UNCHANGED <<confirmer, nightly, bookVars, postVars, ledger>>

\* Only the champion who claimed it; a 7 day clock starts.
ResolveAsk(c) ==
    /\ ask.status = "claimed"
    /\ ask.by = c
    /\ ask' = [ask EXCEPT !.status = "resolved_pending"]
    /\ UNCHANGED <<confirmer, nightly, bookVars, postVars, ledger>>

ClockRunsOut ==
    /\ ask.status = "resolved_pending"
    /\ ~ask.due
    /\ ask' = [ask EXCEPT !.due = TRUE]
    /\ UNCHANGED <<confirmer, nightly, bookVars, postVars, ledger>>

\* confirm_ask reads the row, ...
ReadAsk(a) ==
    /\ confirmer[a].pc = "idle"
    /\ ask.status # "absent"
    /\ confirmer' = [confirmer EXCEPT ![a] =
          IF ask.status = "resolved_pending" THEN [pc |-> "read", to |-> ask.by]
                                             ELSE [pc |-> "done", to |-> Nobody]]
    /\ UNCHANGED <<ask, nightly, bookVars, postVars, ledger>>

\* ... sets it resolved whatever it has become, and commits.
ConfirmAsk(a) ==
    /\ confirmer[a].pc = "read"
    /\ ask' = [ask EXCEPT !.status = "resolved"]
    /\ confirmer' = [confirmer EXCEPT ![a].pc = "owed"]
    /\ UNCHANGED <<nightly, bookVars, postVars, ledger>>

GrantAsk(a) ==
    /\ confirmer[a].pc = "owed"
    /\ confirmer' = [confirmer EXCEPT ![a].pc = "done"]
    /\ Grant("ask", confirmer[a].to, AskPoints)
    /\ UNCHANGED <<ask, nightly, bookVars, postVars>>

\* run_auto_confirm: one guarded UPDATE, a commit, then the grant.
AutoConfirm ==
    /\ nightly = Nobody
    /\ ask.status = "resolved_pending"
    /\ ask.due
    /\ ask' = [ask EXCEPT !.status = "resolved"]
    /\ nightly' = ask.by
    /\ UNCHANGED <<confirmer, bookVars, postVars, ledger>>

GrantAuto ==
    /\ nightly # Nobody
    /\ Grant("auto", nightly, AskPoints)
    /\ nightly' = Nobody
    /\ UNCHANGED <<ask, confirmer, bookVars, postVars>>

---------------------------------------------------------------------------
(* Office hours.                                                           *)

Book(c, from, to) ==
    /\ booking[c] \in from
    /\ booking' = [booking EXCEPT ![c] = to]
    /\ UNCHANGED <<askVars, office, postVars, ledger>>

CreateBooking(c) == Book(c, {"absent"}, "requested")
ConfirmBooking(c) == Book(c, {"requested"}, "confirmed")
CancelBooking(c) == Book(c, {"requested", "confirmed"}, "cancelled")

\* UPDATE ... WHERE status = 'confirmed', the commit, ...
DoneBooking(c) ==
    /\ booking[c] = "confirmed"
    /\ booking' = [booking EXCEPT ![c] = "done"]
    /\ office' = [office EXCEPT ![c] = @ + 1]
    /\ UNCHANGED <<askVars, postVars, ledger>>

\* ... and the grant.
GrantOffice(c) ==
    /\ office[c] > 0
    /\ office' = [office EXCEPT ![c] = @ - 1]
    /\ Grant("office", c, OfficePoints)
    /\ UNCHANGED <<askVars, booking, postVars>>

---------------------------------------------------------------------------
(* Contributions.                                                          *)

\* upvote_content reads whether the developer's row exists, ...
ReadUpvote(t) ==
    /\ toggle[t].pc = "idle"
    /\ toggle' = [toggle EXCEPT ![t].pc =
                     IF toggle[t].by \in upvoters THEN "off" ELSE "on"]
    /\ UNCHANGED <<askVars, bookVars, post, upvoters, ledger>>

\* ... and inserts it and counts it in one transaction, which the primary key
\* rolls back when the row is there by now.
UpvoteOnBlindly(t) ==
    /\ toggle[t].pc = "on"
    /\ toggle' = [toggle EXCEPT ![t].pc = "done"]
    /\ upvoters' = upvoters \cup {toggle[t].by}
    /\ post' = [post EXCEPT !.upvotes = @ + 1]
    /\ UNCHANGED <<askVars, bookVars, ledger>>

UpvoteOn(t) ==
    /\ toggle[t].pc = "on"
    /\ toggle' = [toggle EXCEPT ![t].pc = "done"]
    /\ upvoters' = upvoters \cup {toggle[t].by}
    /\ post' = IF toggle[t].by \in upvoters THEN post
               ELSE [post EXCEPT !.upvotes = @ + 1]
    /\ UNCHANGED <<askVars, bookVars, ledger>>

\* ... or deletes it and uncounts it, whether or not the row is still there.
UpvoteOff(t) ==
    /\ toggle[t].pc = "off"
    /\ toggle' = [toggle EXCEPT ![t].pc = "done"]
    /\ upvoters' = upvoters \ {toggle[t].by}
    /\ post' = [post EXCEPT !.upvotes = IF @ > 0 THEN @ - 1 ELSE 0]
    /\ UNCHANGED <<askVars, bookVars, ledger>>

\* flag_content, and resolve_flag with action "remove" (flag_count = 999).  The
\* feed, list_content, selects every contribution.
FlagContent ==
    /\ \/ post.flags = "none" /\ post' = [post EXCEPT !.flags = "some"]
       \/ post.flags = "some" /\ post' = [post EXCEPT !.flags = "removed"]
    /\ UNCHANGED <<askVars, bookVars, upvoters, toggle, ledger>>

AskNext ==
    \/ CreateAsk \/ ClockRunsOut \/ AutoConfirm \/ GrantAuto
    \/ \E a \in Askers : ReadAsk(a) \/ ConfirmAsk(a) \/ GrantAsk(a)
    \/ \E c \in Champs : ClaimAsk(c) \/ ResolveAsk(c)

BookingNext == \E c \in Champs :
    \/ CreateBooking(c) \/ ConfirmBooking(c) \/ CancelBooking(c)
    \/ DoneBooking(c) \/ GrantOffice(c)

PostNext ==
    \/ FlagContent
    \/ \E t \in Toggles : ReadUpvote(t) \/ UpvoteOn(t) \/ UpvoteOff(t)

ChampionsNext == AskNext \/ BookingNext \/ PostNext

ChampionsSpec == ChampionsInit /\ [][ChampionsNext]_championVars

---------------------------------------------------------------------------
(* However claims, confirmations and the nightly job overlap, only the     *)
(* champion whose claim stands is paid for an ask, and only once it is     *)
(* resolved; a booking is paid at most once (claim_ask, confirm_ask,       *)
(* run_auto_confirm, done_booking).                                        *)
PaidForOwnWork ==
    \A c \in Champs :
        /\ ledger["ask"][c] + ledger["auto"][c] > 0 =>
              ask.status = "resolved" /\ ask.by = c
        /\ ledger["office"][c] <= OfficePoints

(* The counter of a contribution never exceeds the developers who upvote   *)
(* it, however their toggles overlap (upvote_content).                     *)
UpvotesBacked == post.upvotes <= Cardinality(upvoters)

(* docs/api/champions.md:269: the champion earns 200 points for an ask.    *)
AskPaidOnce ==
    \A c \in Champs : ledger["ask"][c] + ledger["auto"][c] <= AskPoints

\* The two together: points are paid for work the champion has done (PaidForOwnWork),
\* and no post counts more upvotes than developers gave (UpvotesBacked).
ChampionsSound == PaidForOwnWork /\ UpvotesBacked
=============================================================================
