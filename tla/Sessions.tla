----------------------------- MODULE Sessions -----------------------------
(***************************************************************************)
(* One account of the admin service, its Redis sessions and what ends      *)
(* them: logout, a password change or reset, a suspension, expiry.         *)
(*                                                                         *)
(* A session carries the instant it was issued.  A reset or a suspension   *)
(* does not delete sessions: it writes a marker pwd_changed with a time to *)
(* live, and get_current_user refuses a session issued before the marker   *)
(* while the marker lasts.  Instants are counted by era, which grows with  *)
(* every marker; hours are ticks of the clock, and a request reads its     *)
(* session and the marker within one tick.  The reload of a session whose  *)
(* user moved node is left out: no router that is registered sets the flag *)
(* it waits for.  What a password is, is left out: its hash gates Verify.  *)
(***************************************************************************)
EXTENDS Integers

CONSTANTS
    Tokens,      \* session tokens, each issued at most once
    Requests,    \* authenticated requests in flight
    Resetters,   \* requests of POST /auth/reset-password in flight
    ResetMark,   \* ticks the marker of a reset lasts (2 h)
    SuspendMark, \* ticks the marker of a suspension lasts (24 h)
    ShortTTL,    \* ticks an administrator's session lasts (8 h)
    LongTTL,     \* ticks a remembered session lasts (30 d)
    LinkTTL,     \* ticks a reset link lasts (1 h)
    MaxEra,      \* bound: the markers ever written
    MaxTick      \* bound: the last tick

ASSUME SessionsAssumption ==
    /\ {ResetMark, SuspendMark, ShortTTL, LongTTL, LinkTTL} \subseteq Nat \ {0}
    /\ MaxEra \in Nat
    /\ MaxTick \in Nat

VARIABLES
    tick,      \* the clock
    era,       \* the markers written so far
    account,   \* the status of the users row
    session,   \* Redis session:{token}
    listed,    \* Redis user_sessions: the tokens a user is shown
    marker,    \* Redis pwd_changed: the era it began and when it expires
    link,      \* Redis reset:{hash}: when it expires; 0 for none
    login,     \* logins past the password check
    request,   \* requests in get_current_user or past it
    resetter,  \* progress of each password reset
    suspender  \* progress of an administrator's suspension

sessionVars == <<tick, era, account, session, listed, marker, link, login,
                 request, resetter, suspender>>

LastTick == MaxTick + LongTTL + ShortTTL
NoSession == [until |-> 0, issued |-> 0, dated |-> FALSE, born |-> 0]
Payload == [until : 0..LastTick, issued : 0..MaxEra, dated : BOOLEAN,
            born : 0..MaxEra]   \* born is a ghost: the era of the login
NoRequest(s) == [pc |-> "idle", token |-> s, data |-> NoSession, at |-> 0]

SessionsTypeOK ==
    /\ tick \in 0..MaxTick
    /\ era \in 0..MaxEra
    /\ account \in {"absent", "active", "suspended"}
    /\ session \in [Tokens -> Payload]
    /\ listed \subseteq Tokens
    /\ marker \in [era : 0..MaxEra, until : 0..(MaxTick + SuspendMark + ResetMark)]
    /\ link \in 0..(MaxTick + LinkTTL)
    /\ login \in [Tokens -> {"unused", "verified", "issued", "out"}]
    /\ request \in [Requests -> [pc : {"idle", "read", "honoured"}, token : Tokens,
                                 data : Payload, at : 0..MaxEra]]
    /\ resetter \in [Resetters -> {"idle", "found", "deleted"}]
    /\ suspender \in {"idle", "marked"}

SessionsInit ==
    /\ tick = 0
    /\ era = 0
    /\ account = "absent"
    /\ session = [s \in Tokens |-> NoSession]
    /\ listed = {}
    /\ marker = [era |-> 0, until |-> 0]
    /\ link = 0
    /\ login = [s \in Tokens |-> "unused"]
    /\ \E s \in Tokens : request = [r \in Requests |-> NoRequest(s)]
    /\ resetter = [p \in Resetters |-> "idle"]
    /\ suspender = "idle"

Alive(s) == tick < session[s].until
Marked(data) == data.dated /\ tick < marker.until /\ data.issued < marker.era
Mark(ttl) ==
    /\ era < MaxEra
    /\ era' = era + 1
    /\ marker' = [era |-> era + 1, until |-> tick + ttl]

---------------------------------------------------------------------------
(* Signing in and out.                                                     *)

Issue(s, dated, ttl) ==
    /\ login' = [login EXCEPT ![s] = "issued"]
    /\ session' = [session EXCEPT ![s] =
          [until |-> tick + ttl, issued |-> IF dated THEN era ELSE 0,
           dated |-> dated, born |-> era]]

\* Self-service registration signs the new account in with an undated session.
Register(s) ==
    /\ account = "absent"
    /\ login[s] = "unused"
    /\ account' = "active"
    /\ Issue(s, FALSE, LongTTL)
    /\ UNCHANGED <<tick, era, listed, marker, link, request, resetter, suspender>>

\* The OIDC callback asks for an active account and issues an undated session
\* that the user's list does not show.
OidcCallback(s) ==
    /\ account = "active"
    /\ login[s] = "unused"
    /\ Issue(s, FALSE, LongTTL)
    /\ UNCHANGED <<tick, era, account, listed, marker, link, request, resetter,
                   suspender>>

\* login: the password and the status are right, the update commits.
Verify(s) ==
    /\ account = "active"
    /\ login[s] = "unused"
    /\ login' = [login EXCEPT ![s] = "verified"]
    /\ UNCHANGED <<tick, era, account, session, listed, marker, link, request,
                   resetter, suspender>>

\* Roles are loaded, the session is dated, stored and listed.
SignIn(s) ==
    /\ login[s] = "verified"
    /\ \E ttl \in {ShortTTL, LongTTL} : Issue(s, TRUE, ttl)
    /\ listed' = listed \cup {s}
    /\ UNCHANGED <<tick, era, account, marker, link, request, resetter, suspender>>

\* The portals delete the new session of a user without the role they ask for.
SignInRefused(s) ==
    /\ login[s] = "issued"
    /\ session[s].dated /\ Alive(s)
    /\ session' = [session EXCEPT ![s] = NoSession]
    /\ UNCHANGED <<tick, era, account, listed, marker, link, login, request,
                   resetter, suspender>>

\* logout asks for no valid session: it deletes the token it is given.
Logout(s) ==
    /\ Alive(s)
    /\ session' = [session EXCEPT ![s] = NoSession]
    /\ listed' = listed \ {s}
    /\ login' = [login EXCEPT ![s] = "out"]
    /\ UNCHANGED <<tick, era, account, marker, link, request, resetter,
                   suspender>>

---------------------------------------------------------------------------
(* get_current_user and the handlers behind it.                            *)

\* GET session:{token}.
ReadSession(r, s) ==
    /\ request[r].pc = "idle"
    /\ Alive(s)
    /\ request' = [request EXCEPT ![r] = [pc |-> "read", token |-> s,
                      data |-> session[s],
                      at |-> era]]
    /\ UNCHANGED <<tick, era, account, session, listed, marker, link, login,
                   resetter, suspender>>

\* GET pwd_changed:{user}: 401 for a session issued before the marker.
CheckMarker(r) ==
    /\ request[r].pc = "read"
    /\ request' = [request EXCEPT ![r].pc =
                      IF Marked(request[r].data) THEN "idle" ELSE "honoured"]
    /\ UNCHANGED <<tick, era, account, session, listed, marker, link, login,
                   resetter, suspender>>

Ends(r) == request' = [request EXCEPT ![r] = NoRequest(request[r].token)]

\* Any handler that leaves the account and its sessions alone.
Handle(r) ==
    /\ request[r].pc = "honoured"
    /\ Ends(r)
    /\ UNCHANGED <<tick, era, account, session, listed, marker, link, login,
                   resetter, suspender>>

\* dev_auth's update_profile and select_team store the payload the request
\* read under its token again, for 30 d or 8 h more.
RewriteRedating(r) ==
    /\ request[r].pc = "honoured"
    /\ session' = [session EXCEPT ![request[r].token] =
                      [request[r].data EXCEPT !.until = tick + LongTTL,
                                              !.issued = era]]
    /\ Ends(r)
    /\ UNCHANGED <<tick, era, account, listed, marker, link, login, resetter,
                   suspender>>

Rewrite(r) ==
    /\ request[r].pc = "honoured"
    /\ \E ttl \in {ShortTTL, LongTTL} :
          session' = [session EXCEPT ![request[r].token] =
                         [request[r].data EXCEPT !.until = tick + ttl]]
    /\ Ends(r)
    /\ UNCHANGED <<tick, era, account, listed, marker, link, login, resetter,
                   suspender>>

\* change_password stores the new hash and deletes the session it came by.
ChangePassword(r) ==
    /\ request[r].pc = "honoured"
    /\ session' = [session EXCEPT ![request[r].token] = NoSession]
    /\ Ends(r)
    /\ UNCHANGED <<tick, era, account, listed, marker, link, login, resetter,
                   suspender>>

\* "Log out other sessions" and "revoke a session" edit the list only.
RevokeListed(r) ==
    /\ request[r].pc = "honoured"
    /\ \/ listed' = listed \cap {request[r].token}
       \/ \E s \in listed : listed' = listed \ {s}
    /\ Ends(r)
    /\ UNCHANGED <<tick, era, account, session, marker, link, login, resetter,
                   suspender>>

---------------------------------------------------------------------------
(* Password resets.                                                        *)

ForgotPassword ==
    /\ account = "active"
    /\ link' = tick + LinkTTL
    /\ UNCHANGED <<tick, era, account, session, listed, marker, login, request,
                   resetter, suspender>>

\* reset_password: GET the link; commit the new hash and DELETE the link;
\* SETEX the marker.
FindLink(p) ==
    /\ resetter[p] = "idle"
    /\ tick < link
    /\ resetter' = [resetter EXCEPT ![p] = "found"]
    /\ UNCHANGED <<tick, era, account, session, listed, marker, link, login,
                   request, suspender>>

DeleteLink(p) ==
    /\ resetter[p] = "found"
    /\ link' = 0
    /\ resetter' = [resetter EXCEPT ![p] = "deleted"]
    /\ UNCHANGED <<tick, era, account, session, listed, marker, login, request,
                   suspender>>

MarkReset(p) ==
    /\ resetter[p] = "deleted"
    /\ Mark(ResetMark)
    /\ resetter' = [resetter EXCEPT ![p] = "idle"]
    /\ UNCHANGED <<tick, account, session, listed, link, login, request, suspender>>

\* force_password_reset: a link, the marker, then the commit; nothing reads
\* the columns it sets but the login, so the commit is taken with the marker.
ForceReset ==
    /\ account # "absent"
    /\ link' = tick + LinkTTL
    /\ Mark(ResetMark)
    /\ UNCHANGED <<tick, account, session, listed, login, request, resetter, suspender>>

---------------------------------------------------------------------------
(* Suspension.                                                             *)

\* set_user_status and SCIM PATCH write the marker before they commit.  PATCH
\* then updates columns that api_keys does not have, so that it rolls back.
MarkSuspended ==
    /\ account = "active"
    /\ suspender = "idle"
    /\ Mark(SuspendMark)
    /\ suspender' = "marked"
    /\ UNCHANGED <<tick, account, session, listed, link, login, request, resetter>>

CommitSuspended ==
    /\ suspender = "marked"
    /\ suspender' = "idle"
    /\ account' = "suspended"
    /\ UNCHANGED <<tick, era, session, listed, marker, link, login, request,
                   resetter>>

RollBackSuspended ==
    /\ suspender = "marked"
    /\ suspender' = "idle"
    /\ UNCHANGED <<tick, era, account, session, listed, marker, link, login,
                   request, resetter>>

\* SCIM PUT changes the status alone, either way.
ReplaceStatus ==
    /\ suspender = "idle"
    /\ \/ account = "active" /\ account' = "suspended"
       \/ account = "suspended" /\ account' = "active"
    /\ UNCHANGED <<tick, era, session, listed, marker, link, login, request,
                   resetter, suspender>>

PassTime ==
    /\ tick < MaxTick
    /\ \A r \in Requests : request[r].pc # "read"
    /\ tick' = tick + 1
    /\ UNCHANGED <<era, account, session, listed, marker, link, login, request,
                   resetter, suspender>>

SessionsNext ==
    \/ \E s \in Tokens : \/ Register(s) \/ OidcCallback(s) \/ Verify(s)
                         \/ SignIn(s) \/ SignInRefused(s) \/ Logout(s)
    \/ \E r \in Requests : \/ \E s \in Tokens : ReadSession(r, s)
                           \/ CheckMarker(r) \/ Handle(r) \/ Rewrite(r)
                           \/ ChangePassword(r) \/ RevokeListed(r)
    \/ \E p \in Resetters : \/ FindLink(p) \/ DeleteLink(p)
                            \/ MarkReset(p)
    \/ ForgotPassword \/ ForceReset
    \/ MarkSuspended \/ CommitSuspended \/ RollBackSuspended \/ ReplaceStatus
    \/ PassTime

SessionsSpec == SessionsInit /\ [][SessionsNext]_sessionVars

---------------------------------------------------------------------------
Honours(r) == request[r].pc = "read" /\ request'[r].pc = "honoured"

\* While a marker lasts, a request that began after it was written is not
\* honoured with a session whose login it postdates, however often that
\* session was stored again since (get_current_user, update_profile,
\* select_team).
MarkerHolds ==
    [][\A r \in Requests :
          Honours(r) /\ request[r].data.dated /\ tick < marker.until
             => request[r].data.born >= request[r].at]_sessionVars

\* scim.py:179 says that PATCH deprovisions: whoever writes the marker of a
\* suspension suspends the account.
DeprovisionSuspends ==
    [][suspender = "marked" /\ suspender' = "idle" => account' = "suspended"]_sessionVars

\* docs/features/enterprise-controls.md:659: logout invalidates the session; no
\* request that comes after it finds the session again.
LoggedOutStaysOut ==
    [][\A r \in Requests :
          request[r].pc = "idle" /\ request'[r].pc = "read"
             => login[request'[r].token] # "out"]_sessionVars

\* unified_auth.py: "force logout of all existing sessions": a request that
\* began after a marker was written is never honoured with a session whose
\* login it postdates.
ResetEndsSessions ==
    [][\A r \in Requests :
          Honours(r) /\ request[r].data.dated
             => request[r].data.born >= request[r].at]_sessionVars
=============================================================================
