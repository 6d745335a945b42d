---------------------------- MODULE Admin_proofs ----------------------------
(*************************************************************************)
(* The admin service, for any number of replicas, users, requests, nodes,  *)
(* servers, tools, providers, streams, groups and agents.  Each part       *)
(* proves one component.                                                   *)
(*************************************************************************)
EXTENDS Sessions, Accounts, OrgTree, McpRegistry, Startup, ProviderKeys, EventFeeds,
        LocalGroups, AgentRegistry, Achievements,
        FiniteSetTheorems, SequenceTheorems, WellFoundedInduction, TLAPS

---------------------------------------------------------------------------
(* Sessions.  Every copy of a session carries the login it stems from, and *)
(* a request never began after the latest marker was written.              *)

RequestRow == [pc : {"idle", "read", "honoured"}, token : Tokens, data : Payload,
               at : 0..MaxEra]

\* A dated session carries the era of its login, wherever a copy of it is.
DatedAtLogin(data) == data.dated => data.issued = data.born
SessionsDated == \A s \in Tokens : DatedAtLogin(session[s])
CopiesDated == \A r \in Requests : DatedAtLogin(request[r].data)
\* The marker is that of the latest era, and no request is ahead of it.
MarkerIsLatest == marker.era = era
RequestsBegan == \A r \in Requests : request[r].at =< era

SessionsInv ==
    /\ SessionsTypeOK
    /\ SessionsDated /\ CopiesDated /\ MarkerIsLatest /\ RequestsBegan

\* Lifetimes are numbers, and so is the last tick anything can expire at.
LEMMA TimesAreNat ==
    /\ ResetMark \in Nat /\ SuspendMark \in Nat /\ ShortTTL \in Nat /\ LongTTL \in Nat
    /\ LinkTTL \in Nat /\ MaxEra \in Nat /\ MaxTick \in Nat /\ LastTick \in Nat
    /\ LastTick = MaxTick + LongTTL + ShortTTL
BY SessionsAssumption DEF LastTick

\* At first there is no session, marker or request.
LEMMA SessionsStart == SessionsInit => SessionsInv
<1> SUFFICES ASSUME SessionsInit PROVE SessionsInv
  OBVIOUS
<1>1. /\ 0 \in 0..MaxTick /\ 0 \in 0..MaxEra /\ 0 \in 0..LastTick
      /\ 0 \in 0..(MaxTick + SuspendMark + ResetMark) /\ 0 \in 0..(MaxTick + LinkTTL)
  BY TimesAreNat
<1>2. NoSession \in Payload /\ ~NoSession.dated
  BY <1>1 DEF NoSession, Payload
<1>3. PICK s \in Tokens : request = [r \in Requests |-> NoRequest(s)]
  BY DEF SessionsInit
<1>4. NoRequest(s) \in RequestRow /\ NoRequest(s).data = NoSession /\ NoRequest(s).at = 0
  BY <1>1, <1>2 DEF NoRequest, RequestRow
<1>5. request \in [Requests -> RequestRow] /\ session \in [Tokens -> Payload]
  BY <1>2, <1>3, <1>4 DEF SessionsInit
<1>6. SessionsTypeOK
  BY <1>1, <1>5 DEF SessionsInit, SessionsTypeOK, RequestRow
<1>7. SessionsDated /\ CopiesDated /\ MarkerIsLatest /\ RequestsBegan
  BY <1>2, <1>3, <1>4
     DEF SessionsInit, SessionsDated, CopiesDated, DatedAtLogin, MarkerIsLatest, RequestsBegan
<1> QED BY <1>6, <1>7 DEF SessionsInv

\* Signing in and out.
LEMMA SessionsSign ==
  ASSUME SessionsInv, NEW s \in Tokens,
         \/ Register(s) \/ OidcCallback(s) \/ Verify(s) \/ SignIn(s)
         \/ SignInRefused(s) \/ Logout(s)
  PROVE  SessionsInv'
<1> USE DEF SessionsInv
<1>1. UNCHANGED <<tick, era, marker, link, request, resetter, suspender>>
  BY DEF Register, OidcCallback, Verify, SignIn, SignInRefused, Logout
<1>2. /\ session \in [Tokens -> Payload]
      /\ login \in [Tokens -> {"unused", "verified", "issued", "out"}]
      /\ tick \in 0..MaxTick /\ era \in 0..MaxEra
  BY DEF SessionsTypeOK
<1>3. (login \in [Tokens -> {"unused", "verified", "issued", "out"}])'
  BY <1>2 DEF Register, OidcCallback, Verify, SignIn, SignInRefused, Logout, Issue
<1>4. account' \in {"absent", "active", "suspended"} /\ listed' \subseteq Tokens
  BY DEF Register, OidcCallback, Verify, SignIn, SignInRefused, Logout, SessionsTypeOK
<1>5. NoSession \in Payload /\ ~NoSession.dated
  BY TimesAreNat DEF NoSession, Payload
<1>6. \/ UNCHANGED session
      \/ \E n \in Payload : DatedAtLogin(n) /\ session' = [session EXCEPT ![s] = n]
  <2>1. ASSUME NEW dated \in BOOLEAN, NEW ttl \in {ShortTTL, LongTTL}, Issue(s, dated, ttl)
        PROVE  \E n \in Payload : DatedAtLogin(n) /\ session' = [session EXCEPT ![s] = n]
    <3> DEFINE n == [until |-> tick + ttl, issued |-> IF dated THEN era ELSE 0,
                     dated |-> dated, born |-> era]
    <3>1. tick + ttl \in 0..LastTick
      BY <1>2, TimesAreNat
    <3>2. 0 \in 0..MaxEra
      BY TimesAreNat
    <3>3. n \in Payload
      BY <1>2, <3>1, <3>2 DEF Payload
    <3>4. DatedAtLogin(n)
      BY DEF DatedAtLogin
    <3> QED BY <2>1, <3>3, <3>4 DEF Issue
  <2>2. CASE session' = [session EXCEPT ![s] = NoSession]
    BY <2>2, <1>5 DEF DatedAtLogin
  <2> QED BY <2>1, <2>2 DEF Register, OidcCallback, Verify, SignIn, SignInRefused, Logout
<1>7. session' \in [Tokens -> Payload] /\ SessionsDated'
  BY <1>2, <1>6 DEF SessionsDated
<1>8. SessionsTypeOK'
  BY <1>1, <1>3, <1>4, <1>7 DEF SessionsTypeOK
<1>9. CopiesDated' /\ MarkerIsLatest' /\ RequestsBegan'
  BY <1>1 DEF CopiesDated, MarkerIsLatest, RequestsBegan
<1> QED BY <1>7, <1>8, <1>9

\* Requests and the handlers behind them.
LEMMA SessionsRequest ==
  ASSUME SessionsInv, NEW r \in Requests,
         \/ \E s \in Tokens : ReadSession(r, s)
         \/ CheckMarker(r) \/ Handle(r) \/ Rewrite(r) \/ ChangePassword(r) \/ RevokeListed(r)
  PROVE  SessionsInv'
<1> USE DEF SessionsInv
<1>1. UNCHANGED <<tick, era, account, marker, link, login, resetter, suspender>>
  BY DEF ReadSession, CheckMarker, Handle, Rewrite, ChangePassword, RevokeListed
<1>2. /\ session \in [Tokens -> Payload] /\ request \in [Requests -> RequestRow]
      /\ tick \in 0..MaxTick /\ era \in 0..MaxEra
  BY DEF SessionsTypeOK, RequestRow
<1>3. listed' \subseteq Tokens
  BY DEF ReadSession, CheckMarker, Handle, Rewrite, ChangePassword, RevokeListed,
         SessionsTypeOK
<1>4. NoSession \in Payload /\ ~NoSession.dated /\ 0 \in 0..MaxEra
  BY TimesAreNat DEF NoSession, Payload
<1>5. /\ request[r].token \in Tokens /\ request[r].data \in Payload
      /\ request[r].at \in 0..MaxEra /\ request[r].at =< era
      /\ DatedAtLogin(request[r].data)
  BY <1>2 DEF RequestRow, RequestsBegan, CopiesDated
<1>6. \E n \in RequestRow : /\ request' = [request EXCEPT ![r] = n]
                            /\ DatedAtLogin(n.data) /\ n.at =< era
  <2>1. ASSUME NEW s \in Tokens, ReadSession(r, s)
        PROVE  \E n \in RequestRow : /\ request' = [request EXCEPT ![r] = n]
                                     /\ DatedAtLogin(n.data) /\ n.at =< era
    <3> DEFINE n == [pc |-> "read", token |-> s, data |-> session[s], at |-> era]
    <3>1. n \in RequestRow /\ n.data = session[s] /\ n.at = era
      BY <1>2 DEF RequestRow
    <3>2. request' = [request EXCEPT ![r] = n]
      BY <2>1 DEF ReadSession
    <3>3. era =< era
      BY <1>2, TimesAreNat
    <3>4. DatedAtLogin(session[s])
      BY DEF SessionsDated
    <3> QED BY <3>1, <3>2, <3>3, <3>4
  <2>2. CASE CheckMarker(r)
    <3> DEFINE n == [request[r] EXCEPT !.pc =
                        IF Marked(request[r].data) THEN "idle" ELSE "honoured"]
    <3>1. n \in RequestRow /\ n.data = request[r].data /\ n.at = request[r].at
      BY <1>2 DEF RequestRow
    <3>2. request' = [request EXCEPT ![r] = n]
      BY <2>2 DEF CheckMarker
    <3> QED BY <3>1, <3>2, <1>5
  <2>3. CASE Ends(r)
    <3> DEFINE n == NoRequest(request[r].token)
    <3>1. n \in RequestRow /\ n.data = NoSession /\ n.at = 0
      BY <1>4, <1>5 DEF NoRequest, RequestRow
    <3>2. 0 =< era
      BY <1>2, TimesAreNat
    <3> QED BY <2>3, <3>1, <3>2, <1>4 DEF Ends, DatedAtLogin
  <2> QED BY <2>1, <2>2, <2>3 DEF Handle, Rewrite, ChangePassword, RevokeListed
<1>7. request' \in [Requests -> RequestRow] /\ CopiesDated' /\ RequestsBegan'
  BY <1>1, <1>2, <1>6 DEF CopiesDated, RequestsBegan
<1>8. \/ UNCHANGED session
      \/ \E n \in Payload :
            DatedAtLogin(n) /\ session' = [session EXCEPT ![request[r].token] = n]
  <2>1. CASE Rewrite(r)
    <3>1. PICK ttl \in {ShortTTL, LongTTL} :
             session' = [session EXCEPT ![request[r].token] =
                            [request[r].data EXCEPT !.until = tick + ttl]]
      BY <2>1 DEF Rewrite
    <3>2. tick + ttl \in 0..LastTick
      BY <1>2, TimesAreNat
    <3> DEFINE n == [request[r].data EXCEPT !.until = tick + ttl]
    <3>3. /\ n \in Payload /\ n.dated = request[r].data.dated
          /\ n.issued = request[r].data.issued /\ n.born = request[r].data.born
      BY <1>5, <3>2 DEF Payload
    <3>4. DatedAtLogin(n)
      BY <1>5, <3>3 DEF DatedAtLogin
    <3> QED BY <3>1, <3>3, <3>4
  <2>2. CASE ChangePassword(r)
    BY <2>2, <1>4 DEF ChangePassword, DatedAtLogin
  <2> QED BY <2>1, <2>2 DEF ReadSession, CheckMarker, Handle, RevokeListed
<1>9. session' \in [Tokens -> Payload] /\ SessionsDated'
  BY <1>2, <1>5, <1>8 DEF SessionsDated
<1>10. SessionsTypeOK'
  BY <1>1, <1>3, <1>7, <1>9 DEF SessionsTypeOK, RequestRow
<1>11. MarkerIsLatest'
  BY <1>1 DEF MarkerIsLatest
<1> QED BY <1>7, <1>9, <1>10, <1>11

\* Resets, suspensions and the clock.
LEMMA SessionsMark ==
  ASSUME SessionsInv,
         \/ \E p \in Resetters : FindLink(p) \/ DeleteLink(p) \/ MarkReset(p)
         \/ ForgotPassword \/ ForceReset
         \/ MarkSuspended \/ CommitSuspended \/ RollBackSuspended \/ ReplaceStatus
         \/ PassTime
  PROVE  SessionsInv'
<1> USE DEF SessionsInv
<1>1. UNCHANGED <<session, listed, login, request>>
  BY DEF FindLink, DeleteLink, MarkReset, ForgotPassword, ForceReset, MarkSuspended,
         CommitSuspended, RollBackSuspended, ReplaceStatus, PassTime
<1>2. /\ tick \in 0..MaxTick /\ era \in 0..MaxEra /\ link \in 0..(MaxTick + LinkTTL)
      /\ marker \in [era : 0..MaxEra, until : 0..(MaxTick + SuspendMark + ResetMark)]
  BY DEF SessionsTypeOK
<1>3. tick' \in 0..MaxTick
  BY <1>2, TimesAreNat
     DEF FindLink, DeleteLink, MarkReset, ForgotPassword, ForceReset, MarkSuspended,
         CommitSuspended, RollBackSuspended, ReplaceStatus, PassTime
<1>4. link' \in 0..(MaxTick + LinkTTL)
  BY <1>2, TimesAreNat
     DEF FindLink, DeleteLink, MarkReset, ForgotPassword, ForceReset, MarkSuspended,
         CommitSuspended, RollBackSuspended, ReplaceStatus, PassTime
<1>5. (/\ resetter \in [Resetters -> {"idle", "found", "deleted"}]
       /\ suspender \in {"idle", "marked"}
       /\ account \in {"absent", "active", "suspended"})'
  BY DEF FindLink, DeleteLink, MarkReset, ForgotPassword, ForceReset, MarkSuspended,
         CommitSuspended, RollBackSuspended, ReplaceStatus, PassTime, SessionsTypeOK
<1>6. UNCHANGED <<era, marker>> \/ \E ttl \in {ResetMark, SuspendMark} : Mark(ttl)
  BY DEF FindLink, DeleteLink, MarkReset, ForgotPassword, ForceReset, MarkSuspended,
         CommitSuspended, RollBackSuspended, ReplaceStatus, PassTime
<1>7. /\ era' \in 0..MaxEra /\ era =< era' /\ marker'.era = era'
      /\ marker' \in [era : 0..MaxEra, until : 0..(MaxTick + SuspendMark + ResetMark)]
  <2>1. CASE UNCHANGED <<era, marker>>
    BY <2>1, <1>2, TimesAreNat DEF MarkerIsLatest
  <2>2. ASSUME NEW ttl \in {ResetMark, SuspendMark}, Mark(ttl)
        PROVE  /\ era' \in 0..MaxEra /\ era =< era' /\ marker'.era = era'
               /\ marker' \in [era : 0..MaxEra,
                               until : 0..(MaxTick + SuspendMark + ResetMark)]
    <3>1. era + 1 \in 0..MaxEra /\ era =< era + 1
      BY <2>2, <1>2, TimesAreNat DEF Mark
    <3>2. tick + ttl \in 0..(MaxTick + SuspendMark + ResetMark)
      BY <1>2, TimesAreNat
    <3> QED BY <2>2, <3>1, <3>2 DEF Mark
  <2> QED BY <1>6, <2>1, <2>2
<1>8. SessionsTypeOK'
  BY <1>1, <1>3, <1>4, <1>5, <1>7 DEF SessionsTypeOK
<1>9. SessionsDated' /\ CopiesDated'
  BY <1>1 DEF SessionsDated, CopiesDated
<1>10. MarkerIsLatest'
  BY <1>7 DEF MarkerIsLatest
<1>11. RequestsBegan'
  <2>1. \A r \in Requests : request[r].at \in 0..MaxEra
    BY DEF SessionsTypeOK
  <2> QED BY <1>1, <1>2, <1>7, <2>1, TimesAreNat DEF RequestsBegan
<1> QED BY <1>8, <1>9, <1>10, <1>11

\* Each step of the sessions preserves the invariant.
LEMMA SessionsStep == SessionsInv /\ [SessionsNext]_sessionVars => SessionsInv'
<1> SUFFICES ASSUME SessionsInv, [SessionsNext]_sessionVars PROVE SessionsInv'
  OBVIOUS
<1>1. CASE UNCHANGED sessionVars
  BY <1>1 DEF sessionVars, SessionsInv, SessionsTypeOK, SessionsDated, CopiesDated,
              MarkerIsLatest, RequestsBegan
<1>2. CASE SessionsNext
  BY <1>2, SessionsSign, SessionsRequest, SessionsMark DEF SessionsNext
<1> QED BY <1>1, <1>2

\* Sessions, markers, links and requests hold only what the code writes, for any
\* lifetimes and any number of resets and suspensions.
THEOREM SessionsTypeCorrect == SessionsSpec => []SessionsTypeOK
<1>1. SessionsInv => SessionsTypeOK
  BY DEF SessionsInv
<1> QED BY SessionsStart, SessionsStep, <1>1, PTL DEF SessionsSpec

\* The one step that honours a request is the marker's check.
LEMMA MarkerIsChecked ==
  ASSUME SessionsInv, SessionsNext, NEW r \in Requests, Honours(r),
         request[r].data.dated, tick < marker.until
  PROVE  request[r].data.born >= request[r].at
<1>1. request \in [Requests -> RequestRow]
  BY DEF SessionsInv, SessionsTypeOK, RequestRow
<1>2. CheckMarker(r)
  <2>1. PICK q \in Requests : \/ \E s \in Tokens : ReadSession(q, s)
                              \/ CheckMarker(q)
                              \/ Ends(q)
    BY DEF SessionsNext, Honours, Register, OidcCallback, Verify, SignIn, SignInRefused,
           Logout, Handle, Rewrite, ChangePassword, RevokeListed, FindLink, DeleteLink,
           MarkReset, ForgotPassword, ForceReset, MarkSuspended, CommitSuspended,
           RollBackSuspended, ReplaceStatus, PassTime
  <2>2. q # r => request'[r] = request[r]
    BY <1>1, <2>1 DEF ReadSession, CheckMarker, Ends
  <2>3. q = r
    BY <2>2 DEF Honours
  <2>4. ~Ends(r)
    BY <1>1 DEF Ends, Honours, NoRequest
  <2>5. \A s \in Tokens : ~ReadSession(r, s)
    BY DEF ReadSession, Honours
  <2> QED BY <2>1, <2>3, <2>4, <2>5
<1>3. ~Marked(request[r].data)
  BY <1>1, <1>2 DEF CheckMarker, Honours
<1>4. /\ request[r].data.issued \in 0..MaxEra /\ era \in 0..MaxEra
      /\ request[r].at \in 0..MaxEra
  BY <1>1 DEF RequestRow, Payload, SessionsInv, SessionsTypeOK
<1>5. /\ request[r].data.born = request[r].data.issued
      /\ marker.era = era /\ request[r].at =< era
  BY DEF SessionsInv, CopiesDated, DatedAtLogin, MarkerIsLatest, RequestsBegan
<1>6. ~(request[r].data.issued < era)
  BY <1>3, <1>5 DEF Marked
<1> QED BY <1>4, <1>5, <1>6, TimesAreNat

\* While a marker lasts, no request begun after it is honoured with a session
\* whose login it postdates, however often the session was stored again
\* (get_current_user, update_profile, select_team).
THEOREM MarkersHold == SessionsSpec => MarkerHolds
<1>1. SessionsInv /\ [SessionsNext]_sessionVars =>
         [\A r \in Requests :
            Honours(r) /\ request[r].data.dated /\ tick < marker.until
              => request[r].data.born >= request[r].at]_sessionVars
  BY MarkerIsChecked
<1> QED BY SessionsStart, SessionsStep, <1>1, PTL DEF SessionsSpec, MarkerHolds

---------------------------------------------------------------------------
(* Accounts.  The row of an address belongs to the one request whose       *)
(* insert was not refused.                                                 *)

UserRow == [status : {"absent", "active", "suspended"},
            owner : Joiners \cup {"nobody", "scim"}]
InvitationRow == [status : {"absent", "open", "lapsed", "accepted", "deleted"},
                  person : People]
JoinRequest == [pc : {"idle", "invited", "free", "joined", "refused"},
                person : People, by : Invitations \cup {"none", "sso"}]

\* An account that a request was told it created is there, and its own.
JoinedIsThere ==
    \A j \in Joiners :
        joiner[j].pc = "joined" /\ joiner[j].by # "sso" =>
            Taken(Address(joiner[j].person)) /\ row[Address(joiner[j].person)].owner = j

AccountsInv == AccountsTypeOK /\ JoinedIsThere

\* A person's own spelling is one of the addresses.
LEMMA AddressIsOne == \A p \in People : Address(p) \in Addresses
BY DEF Address, Addresses, Spellings

\* At first there is no account.
LEMMA AccountsStart == AccountsInit => AccountsInv
<1> SUFFICES ASSUME AccountsInit PROVE AccountsInv
  OBVIOUS
<1>1. PICK p \in People : /\ invitation = [i \in Invitations |-> NoInvitation(p)]
                          /\ joiner = [j \in Joiners |-> NoJoiner(p)]
  BY DEF AccountsInit
<1>2. NoRow \in UserRow /\ NoInvitation(p) \in InvitationRow /\ NoJoiner(p) \in JoinRequest
      /\ NoJoiner(p).pc = "idle"
  BY DEF NoRow, NoInvitation, NoJoiner, UserRow, InvitationRow, JoinRequest
<1>3. AccountsTypeOK
  BY <1>1, <1>2 DEF AccountsInit, AccountsTypeOK, UserRow, InvitationRow, JoinRequest
<1>4. JoinedIsThere
  BY <1>1, <1>2 DEF JoinedIsThere
<1> QED BY <1>3, <1>4 DEF AccountsInv

\* Invitations are not read by the invariant.
LEMMA AccountsInvite ==
  ASSUME AccountsInv, NEW i \in Invitations,
         \/ \E p \in People : Invite(i, p) \/ BulkInvite(i, p)
         \/ Lapse(i) \/ RevokeInvitation(i)
  PROVE  AccountsInv'
<1>1. UNCHANGED <<row, joiner>>
  BY DEF Invite, BulkInvite, Lapse, RevokeInvitation
<1>2. JoinedIsThere'
  BY <1>1 DEF AccountsInv, JoinedIsThere, Taken
<1>3. invitation \in [Invitations -> InvitationRow]
  BY DEF AccountsInv, AccountsTypeOK, InvitationRow
<1>4. \E n \in InvitationRow : invitation' = [invitation EXCEPT ![i] = n]
  <2>1. ASSUME NEW p \in People, Open(i, p)
        PROVE  \E n \in InvitationRow : invitation' = [invitation EXCEPT ![i] = n]
    BY <2>1 DEF Open, InvitationRow
  <2>2. ASSUME NEW s \in {"lapsed", "deleted"},
               invitation' = [invitation EXCEPT ![i].status = s]
        PROVE  \E n \in InvitationRow : invitation' = [invitation EXCEPT ![i] = n]
    <3>1. [invitation[i] EXCEPT !.status = s] \in InvitationRow
      BY <1>3 DEF InvitationRow
    <3> QED BY <2>2, <3>1
  <2> QED BY <2>1, <2>2 DEF Invite, BulkInvite, Lapse, RevokeInvitation
<1>5. AccountsTypeOK'
  BY <1>1, <1>3, <1>4 DEF AccountsInv, AccountsTypeOK, InvitationRow
<1> QED BY <1>2, <1>5 DEF AccountsInv

\* A request that reads: it joins only by single sign-on.
LEMMA AccountsRead ==
  ASSUME AccountsInv, NEW j \in Joiners,
         \/ \E i \in Invitations : PresentInvitation(j, i)
         \/ \E p \in People : CheckRegistered(j, p) \/ SignOn(j, p)
         \/ CheckInvited(j)
  PROVE  AccountsInv'
<1>1. UNCHANGED row
  BY DEF PresentInvitation, CheckRegistered, SignOn, CheckInvited
<1>2. joiner \in [Joiners -> JoinRequest] /\ invitation \in [Invitations -> InvitationRow]
  BY DEF AccountsInv, AccountsTypeOK, JoinRequest, InvitationRow
<1>3. \E n \in JoinRequest : /\ joiner' = [joiner EXCEPT ![j] = n]
                             /\ n.pc = "joined" => n.by = "sso"
                             /\ UNCHANGED invitation
  <2>1. ASSUME NEW i \in Invitations, PresentInvitation(j, i)
        PROVE  \E n \in JoinRequest : /\ joiner' = [joiner EXCEPT ![j] = n]
                                      /\ n.pc = "joined" => n.by = "sso"
                                      /\ UNCHANGED invitation
    <3> DEFINE n == [pc |-> "invited", by |-> i, person |-> invitation[i].person]
    <3>1. n \in JoinRequest /\ n.pc = "invited"
      BY <1>2 DEF JoinRequest, InvitationRow
    <3> QED BY <2>1, <3>1 DEF PresentInvitation
  <2>2. ASSUME NEW p \in People, CheckRegistered(j, p) \/ SignOn(j, p)
        PROVE  \E n \in JoinRequest : /\ joiner' = [joiner EXCEPT ![j] = n]
                                      /\ n.pc = "joined" => n.by = "sso"
                                      /\ UNCHANGED invitation
    <3>1. PICK pc \in {"joined", "free", "refused"}, by \in {"none", "sso"} :
             /\ joiner' = [joiner EXCEPT ![j] = [pc |-> pc, person |-> p, by |-> by]]
             /\ pc = "joined" => by = "sso"
             /\ UNCHANGED invitation
      BY <2>2, Zenon DEF CheckRegistered, SignOn
    <3> DEFINE n == [pc |-> pc, person |-> p, by |-> by]
    <3>2. n \in JoinRequest /\ n.pc = pc /\ n.by = by
      BY DEF JoinRequest
    <3> QED BY <3>1, <3>2
  <2>3. CASE CheckInvited(j)
    <3>1. PICK pc \in {"refused", "free"} : Step(j, pc) /\ UNCHANGED invitation
      BY <2>3 DEF CheckInvited
    <3>2. [joiner[j] EXCEPT !.pc = pc] \in JoinRequest /\ [joiner[j] EXCEPT !.pc = pc].pc = pc
      BY <1>2 DEF JoinRequest
    <3> QED BY <3>1, <3>2 DEF Step
  <2> QED BY <2>1, <2>2, <2>3
<1>4. PICK n \in JoinRequest : /\ joiner' = [joiner EXCEPT ![j] = n]
                               /\ n.pc = "joined" => n.by = "sso"
                               /\ UNCHANGED invitation
  BY <1>3
<1>5. AccountsTypeOK'
  BY <1>1, <1>2, <1>4 DEF AccountsInv, AccountsTypeOK, JoinRequest
<1>6. JoinedIsThere'
  BY <1>1, <1>2, <1>4 DEF AccountsInv, JoinedIsThere, Taken
<1> QED BY <1>5, <1>6 DEF AccountsInv

\* The insert succeeds only for an address that nobody holds, and no row ever
\* goes: whoever joined before keeps the account.
LEMMA AccountsWrite ==
  ASSUME AccountsInv,
         \/ \E j \in Joiners : Insert(j)
         \/ \E status \in {"active", "suspended"} :
               \/ \E p \in People, s \in Spellings : Provision(p, s, status)
               \/ \E a \in Addresses : SetStatus(a, status)
  PROVE  AccountsInv'
<1>0. /\ joiner \in [Joiners -> JoinRequest] /\ invitation \in [Invitations -> InvitationRow]
      /\ row \in [Addresses -> UserRow]
  BY DEF AccountsInv, AccountsTypeOK, JoinRequest, InvitationRow, UserRow
<1>1. ASSUME NEW j \in Joiners, Insert(j) PROVE AccountsInv'
  <2> DEFINE a == Address(joiner[j].person)
             given == [status |-> "active", owner |-> j]
  <2>0. a \in Addresses /\ joiner[j].person \in People
    BY <1>0, AddressIsOne DEF JoinRequest
  <2>1. CASE Taken(a) /\ Step(j, "refused") /\ UNCHANGED <<row, invitation>>
    <3>1. [joiner[j] EXCEPT !.pc = "refused"] \in JoinRequest
          /\ [joiner[j] EXCEPT !.pc = "refused"].pc = "refused"
      BY <1>0 DEF JoinRequest
    <3> QED BY <1>0, <2>1, <3>1
            DEF Step, AccountsInv, AccountsTypeOK, JoinedIsThere, Taken, JoinRequest
  <2>2. CASE /\ ~Taken(a) /\ row' = [row EXCEPT ![a] = given] /\ Step(j, "joined")
             /\ invitation' = [i \in Invitations |->
                   IF i = joiner[j].by /\ invitation[i].status # "deleted"
                   THEN [invitation[i] EXCEPT !.status = "accepted"]
                   ELSE invitation[i]]
    <3> DEFINE n == [joiner[j] EXCEPT !.pc = "joined"]
    <3>1. n \in JoinRequest /\ n.person = joiner[j].person /\ given \in UserRow
      BY <1>0 DEF JoinRequest, UserRow
    <3>2. /\ joiner' = [joiner EXCEPT ![j] = n]
          /\ joiner' \in [Joiners -> JoinRequest] /\ row' \in [Addresses -> UserRow]
      BY <1>0, <2>0, <2>2, <3>1 DEF Step
    <3>3. \A i \in Invitations : [invitation[i] EXCEPT !.status = "accepted"] \in InvitationRow
      BY <1>0 DEF InvitationRow
    <3>4. invitation' \in [Invitations -> InvitationRow]
      BY <1>0, <2>2, <3>3
    <3>5. AccountsTypeOK'
      BY <3>2, <3>4 DEF AccountsTypeOK, JoinRequest, UserRow, InvitationRow
    <3>6. ASSUME NEW k \in Joiners, joiner'[k].pc = "joined", joiner'[k].by # "sso"
          PROVE  /\ row'[Address(joiner'[k].person)].status # "absent"
                 /\ row'[Address(joiner'[k].person)].owner = k
      <4>1. CASE k = j
        BY <1>0, <2>0, <2>2, <3>1, <3>2, <4>1
      <4>2. CASE k # j
        <5>1. joiner'[k] = joiner[k] /\ joiner[k].person \in People
          BY <1>0, <3>2, <4>2 DEF JoinRequest
        <5>2. /\ row[Address(joiner[k].person)].status # "absent"
              /\ row[Address(joiner[k].person)].owner = k
          BY <3>6, <5>1 DEF AccountsInv, JoinedIsThere, Taken
        <5>3. Address(joiner[k].person) # a /\ Address(joiner[k].person) \in Addresses
          BY <2>2, <5>1, <5>2, AddressIsOne DEF Taken
        <5> QED BY <1>0, <2>0, <2>2, <5>1, <5>2, <5>3
      <4> QED BY <4>1, <4>2
    <3> QED BY <3>5, <3>6 DEF AccountsInv, JoinedIsThere, Taken
  <2> QED BY <1>1, <2>1, <2>2 DEF Insert
<1>2. ASSUME NEW a \in Addresses, NEW n \in UserRow, row' = [row EXCEPT ![a] = n],
             UNCHANGED <<invitation, joiner>>, n.status # "absent",
             Taken(a) => n.owner = row[a].owner
      PROVE  AccountsInv'
  <2>1. AccountsTypeOK'
    BY <1>0, <1>2 DEF AccountsInv, AccountsTypeOK, UserRow
  <2>2. \A b \in Addresses : Taken(b) => Taken(b)' /\ row'[b].owner = row[b].owner
    BY <1>0, <1>2 DEF Taken
  <2>3. JoinedIsThere'
    BY <1>0, <1>2, <2>2, AddressIsOne DEF AccountsInv, JoinedIsThere, JoinRequest
  <2> QED BY <2>1, <2>3 DEF AccountsInv
<1>3. ASSUME NEW status \in {"active", "suspended"}, NEW p \in People, NEW s \in Spellings,
             Provision(p, s, status)
      PROVE  AccountsInv'
  <2>1. [status |-> status, owner |-> "scim"] \in UserRow /\ <<p, s>> \in Addresses
    BY DEF UserRow, Addresses
  <2> QED BY <1>2, <1>3, <2>1 DEF Provision
<1>4. ASSUME NEW status \in {"active", "suspended"}, NEW a \in Addresses, SetStatus(a, status)
      PROVE  AccountsInv'
  <2> DEFINE n == [row[a] EXCEPT !.status = status]
  <2>1. n \in UserRow /\ n.status = status /\ n.owner = row[a].owner
    BY <1>0 DEF UserRow
  <2> QED BY <1>2, <1>4, <2>1 DEF SetStatus
<1> QED BY <1>1, <1>3, <1>4

\* The rows, invitations and requests hold only what the code puts there, and
\* however many requests race for an address, whoever is told 201 holds the
\* account (register, accept_invitation, oidc_callback, SCIM).
THEOREM JoinedAccountsAreOwned == AccountsSpec => [](AccountsTypeOK /\ JoinedOwnsAccount)
<1>1. AccountsInv /\ [AccountsNext]_accountVars => AccountsInv'
  <2> SUFFICES ASSUME AccountsInv, [AccountsNext]_accountVars PROVE AccountsInv'
    OBVIOUS
  <2>1. CASE UNCHANGED accountVars
    BY <2>1 DEF accountVars, AccountsInv, AccountsTypeOK, JoinedIsThere, Taken
  <2>2. CASE AccountsNext
    BY <2>2, AccountsInvite, AccountsRead, AccountsWrite DEF AccountsNext
  <2> QED BY <2>1, <2>2
<1>2. AccountsInv => AccountsTypeOK /\ JoinedOwnsAccount
  BY DEF AccountsInv, JoinedIsThere, JoinedOwnsAccount
<1> QED BY AccountsStart, <1>1, <1>2, PTL DEF AccountsSpec

---------------------------------------------------------------------------
(* The organisation tree.  A stored path ends with its node and extends    *)
(* the path of the parent, whichever of the two was changed last.          *)

USE OrgTreeAssumption

OrgRecord == [alive : BOOLEAN, parent : Nodes, path : Paths, budget : Budgets \cup {0}]
Role == [path : Paths, power : Powers]
Editing == [pc : {"idle", "create", "budget"}, by : Users, node : Nodes, path : Paths,
            budget : Budgets \cup {0}]

OrgTyped ==
    /\ orgNode \in [Nodes -> OrgRecord]
    /\ grants \subseteq [user : Users, node : Nodes, power : Powers]
    /\ roles \in [Users -> SUBSET Role]
    /\ editing \in [Editors -> Editing]

PathOf(n) == orgNode[n].path
Placed(n) == PathOf(n) # <<>>

\* What a row says of its ancestors, whether it is still there or not.
PathsChain ==
    /\ PathOf(Root) = <<Root>> /\ PathOf(Area) = <<Root, Area>>
    /\ \A n \in Nodes : Placed(n) /\ n # Root =>
          Placed(orgNode[n].parent) /\ PathOf(n) = Append(PathOf(orgNode[n].parent), n)
\* Deletions take whole subtrees.
LiveHang ==
    /\ orgNode[Root].alive
    /\ \A n \in Nodes : orgNode[n].alive => Placed(n)
    /\ \A n \in Nodes \ {Root} : orgNode[n].alive => orgNode[orgNode[n].parent].alive
\* What create_node has read is still the parent's path when it inserts.
CreationsFit ==
    \A w \in Editors : editing[w].pc = "create" =>
        LET q == editing[w] IN
        /\ Len(q.path) > 1 /\ Placed(ParentOf(q.path))
        /\ q.path = Append(PathOf(ParentOf(q.path)), q.node)
\* Grants, and the roles of sessions that outlive them, stay in the area.
RolesContained ==
    /\ AuthorityContained
    /\ \A u \in Users : \A r \in roles[u] : Area \in ToSet(r.path) /\ r.power <= AreaOwner

OrgInv == OrgTyped /\ PathsChain /\ LiveHang /\ CreationsFit /\ RolesContained

\* The paths that the initial states and the resets need.
LEMMA ShortPaths ==
  /\ <<>> \in Paths
  /\ \A a \in Nodes : <<a>> \in Paths
  /\ \A a, b \in Nodes : <<a, b>> \in Paths
BY DEF Paths

\* A role on a prefix of a path names nodes of the path.
LEMMA PrefixesAreInside ==
  ASSUME NEW s \in Seq(Nodes), NEW t \in Seq(Nodes), IsPrefix(s, t)
  PROVE  ToSet(s) \subseteq ToSet(t)
<1>1. Len(s) <= Len(t) /\ SubSeq(s, 1, Len(s)) = SubSeq(t, 1, Len(s))
  BY DEF IsPrefix
<1>2. ASSUME NEW i \in 1..Len(s) PROVE s[i] = t[i] /\ i \in 1..Len(t)
  <2>1. i \in 1..Len(t)
    BY <1>1
  <2>2. SubSeq(s, 1, Len(s))[i] = s[i] /\ SubSeq(t, 1, Len(s))[i] = t[i]
    BY <1>1
  <2> QED BY <1>1, <2>1, <2>2
<1> QED BY <1>2 DEF ToSet

\* The invariant says what the tree promises.
LEMMA OrgInvImplies ==
  ASSUME OrgInv
  PROVE  OrgTypeOK /\ TreeSound
<1> USE DEF OrgInv
<1>1. OrgTypeOK
  BY DEF OrgTyped, OrgTypeOK, OrgRecord, Role, Editing
<1>2. PathsAgree
  BY DEF PathsAgree, LiveHang, PathsChain, PathOf
<1>3. AuthorityContained
  BY DEF RolesContained
<1> QED BY <1>1, <1>2, <1>3 DEF TreeSound

\* At first there are the root and the area under it.
LEMMA OrgStarts == OrgInit => OrgInv
<1> SUFFICES ASSUME OrgInit PROVE OrgInv
  OBVIOUS
<1> USE DEF OrgInit
<1>1. <<>> \in Paths /\ <<Root>> \in Paths /\ <<Root, Area>> \in Paths
  BY ShortPaths
<1>2. /\ \A n \in Nodes : orgNode[n] \in OrgRecord
      /\ orgNode \in [Nodes -> OrgRecord]
  BY <1>1 DEF OrgRecord, Missing
<1>3. OrgTyped
  <2>1. NoEditing \in Editing
    BY <1>1 DEF NoEditing, Editing
  <2> QED BY <1>2, <2>1 DEF OrgTyped, Powers, AreaOwner, Role
<1>4. /\ orgNode[Root].path = <<Root>> /\ orgNode[Root].alive
      /\ orgNode[Area].path = <<Root, Area>> /\ orgNode[Area].parent = Root
      /\ \A n \in Nodes \ {Root, Area} : orgNode[n].path = <<>> /\ ~orgNode[n].alive
  BY DEF Missing
<1>5. PathsChain
  <2>2. ASSUME NEW n \in Nodes, Placed(n), n # Root
        PROVE  Placed(orgNode[n].parent)
               /\ PathOf(n) = Append(PathOf(orgNode[n].parent), n)
    <3>1. n = Area
      BY <1>4, <2>2 DEF PathOf, Placed
    <3>2. Append(<<Root>>, Area) = <<Root, Area>>
      <4>1. ASSUME NEW p \in Seq(Nodes), NEW q \in Seq(Nodes), Len(p) = 2, Len(q) = 2,
                   p[1] = q[1], p[2] = q[2]
            PROVE  p = q
        <5>1. p = [i \in 1..2 |-> p[i]] /\ q = [i \in 1..2 |-> q[i]]
          BY <4>1
        <5>2. \A i \in 1..2 : p[i] = q[i]
          BY <4>1
        <5> QED BY <5>1, <5>2
      <4>2. /\ Append(<<Root>>, Area) \in Seq(Nodes) /\ Len(Append(<<Root>>, Area)) = 2
            /\ Append(<<Root>>, Area)[1] = Root /\ Append(<<Root>>, Area)[2] = Area
        OBVIOUS
      <4>3. /\ <<Root, Area>> \in Seq(Nodes) /\ Len(<<Root, Area>>) = 2
            /\ <<Root, Area>>[1] = Root /\ <<Root, Area>>[2] = Area
        OBVIOUS
      <4> DEFINE p == Append(<<Root>>, Area) q == <<Root, Area>>
      <4>4. /\ p \in Seq(Nodes) /\ q \in Seq(Nodes) /\ Len(p) = 2 /\ Len(q) = 2
            /\ p[1] = q[1] /\ p[2] = q[2]
        BY <4>2, <4>3
      <4>5. p = q
        <5> HIDE DEF p, q
        <5> QED BY <4>1, <4>4
      <4> QED BY <4>5
    <3>3. <<Root>> # <<>>
      OBVIOUS
    <3>4. orgNode[n].parent = Root /\ PathOf(n) = <<Root, Area>> /\ PathOf(Root) = <<Root>>
      BY <1>4, <3>1 DEF PathOf
    <3>5. Append(PathOf(Root), n) = PathOf(n)
      BY <3>1, <3>2, <3>4, Zenon
    <3>6. Placed(Root)
      BY <3>3, <3>4 DEF Placed
    <3> QED BY <3>4, <3>5, <3>6
  <2>3. PathOf(Root) = <<Root>> /\ PathOf(Area) = <<Root, Area>>
    BY <1>4 DEF PathOf
  <2> QED BY <2>2, <2>3 DEF PathsChain
<1>6. LiveHang
  <2>1. <<Root>> # <<>> /\ <<Root, Area>> # <<>>
    OBVIOUS
  <2>2. ASSUME NEW n \in Nodes, orgNode[n].alive
        PROVE  Placed(n) /\ (n # Root => orgNode[orgNode[n].parent].alive)
    BY <1>4, <2>1, <2>2 DEF Placed, PathOf
  <2> QED BY <1>4, <2>2 DEF LiveHang
<1>7. CreationsFit
  BY DEF CreationsFit, NoEditing
<1>8. RolesContained
  <2>1. Area \in ToSet(orgNode[Area].path)
    <3>1. Area = <<Root, Area>>[2] /\ 2 \in DOMAIN <<Root, Area>>
      OBVIOUS
    <3> QED BY <1>4, <3>1 DEF ToSet
  <2>2. ASSUME NEW g \in grants PROVE g.node = Area /\ g.power = 5
    BY DEF AreaOwner
  <2>3. AuthorityContained
    <3>1. 5 <= 5
      OBVIOUS
    <3>2. ASSUME NEW g \in grants
          PROVE  Area \in ToSet(orgNode[g.node].path) /\ g.power <= AreaOwner
      <4>1. g.node = Area /\ g.power <= AreaOwner
        BY <2>2, <3>1 DEF AreaOwner
      <4> HIDE DEF OrgInit
      <4> QED BY <2>1, <4>1
    <3> HIDE DEF OrgInit
    <3> QED BY <3>2 DEF AuthorityContained
  <2> QED BY <2>3 DEF RolesContained
<1> QED BY <1>3, <1>5, <1>6, <1>7, <1>8 DEF OrgInv

\* Steps that leave the rows as they are keep what is said of them.
LEMMA RowsUntouched ==
  ASSUME OrgInv, UNCHANGED orgNode
  PROVE  PathsChain' /\ LiveHang'
BY DEF OrgInv, PathsChain, LiveHang, Placed, PathOf

\* A login copies the roles there are.
LEMMA LoginStep ==
  ASSUME OrgInv, NEW u \in Users, Login(u)
  PROVE  OrgInv'
<1> USE DEF OrgInv
<1> DEFINE given == {[path |-> orgNode[g.node].path, power |-> g.power] :
                        g \in {h \in grants : h.user = u}}
<1>1. roles' = [roles EXCEPT ![u] = given] /\ UNCHANGED <<orgNode, grants, editing>>
  BY DEF Login
<1>2. \A r \in given : r \in Role /\ Area \in ToSet(r.path) /\ r.power <= AreaOwner
  <2> SUFFICES ASSUME NEW g \in grants
               PROVE  LET r == [path |-> orgNode[g.node].path, power |-> g.power]
                      IN  r \in Role /\ Area \in ToSet(r.path) /\ r.power <= AreaOwner
    OBVIOUS
  <2>1. g.node \in Nodes /\ g.power \in Powers /\ orgNode[g.node].path \in Paths
    BY DEF OrgTyped, OrgRecord
  <2>2. Area \in ToSet(orgNode[g.node].path) /\ g.power <= AreaOwner
    BY DEF RolesContained, AuthorityContained
  <2> QED BY <2>1, <2>2 DEF Role
<1> HIDE DEF given
<1>3. roles' \in [Users -> SUBSET Role]
  BY <1>1, <1>2 DEF OrgTyped
<1>4. OrgTyped'
  BY <1>1, <1>3 DEF OrgTyped
<1>5. CreationsFit'
  BY <1>1 DEF CreationsFit, Placed, PathOf, ParentOf
<1>6. RolesContained'
  BY <1>1, <1>2 DEF RolesContained, AuthorityContained, OrgTyped
<1> QED BY <1>1, <1>4, <1>5, <1>6, RowsUntouched

\* Permissions are given on nodes that the giver's roles reach.
LEMMA PermissionStep ==
  ASSUME OrgInv, NEW u \in Users,
         \/ \E v \in Users, n \in Nodes, p \in Powers : AddPermission(u, v, n, p)
         \/ \E g \in grants : RemovePermission(u, g)
  PROVE  OrgInv'
<1> USE DEF OrgInv
<1>1. UNCHANGED <<orgNode, roles, editing>>
  BY DEF AddPermission, RemovePermission
<1> DEFINE Contained ==
             /\ grants' \subseteq [user : Users, node : Nodes, power : Powers]
             /\ \A g \in grants' :
                  Area \in ToSet(orgNode[g.node].path) /\ g.power <= AreaOwner
<1>2. Contained
  <2>1. CASE \E g \in grants : RemovePermission(u, g)
    BY <2>1 DEF RemovePermission, OrgTyped, RolesContained, AuthorityContained
  <2>2. ASSUME NEW v \in Users, NEW n \in Nodes, NEW p \in Powers,
               AddPermission(u, v, n, p)
        PROVE  Contained
    <3>1. PICK r \in roles[u] : IsPrefix(r.path, PathOf(n)) /\ r.power >= p
      BY <2>2 DEF AddPermission, HoldsPower, Reaching, PathOf
    <3>2. r \in Role /\ Area \in ToSet(r.path) /\ r.power <= AreaOwner
      BY DEF OrgTyped, RolesContained
    <3>3. r.path \in Seq(Nodes) /\ PathOf(n) \in Seq(Nodes)
      <4>1. r.path \in Paths /\ PathOf(n) \in Paths
        BY <3>2 DEF Role, OrgTyped, OrgRecord, PathOf
      <4> QED BY <4>1 DEF Paths
    <3>4. Area \in ToSet(PathOf(n))
      BY <3>1, <3>2, <3>3, PrefixesAreInside
    <3>5. p <= AreaOwner
      BY <3>1, <3>2 DEF Role, Powers, AreaOwner
    <3>6. grants' = grants \cup {[user |-> v, node |-> n, power |-> p]}
      BY <2>2 DEF AddPermission
    <3> QED BY <3>4, <3>5, <3>6 DEF OrgTyped, RolesContained, AuthorityContained, PathOf
  <2> QED BY <2>1, <2>2
<1>3. OrgTyped'
  BY <1>1, <1>2 DEF OrgTyped
<1>4. CreationsFit'
  BY <1>1 DEF CreationsFit, Placed, PathOf, ParentOf
<1>5. RolesContained'
  BY <1>1, <1>2 DEF RolesContained, AuthorityContained
<1> QED BY <1>1, <1>3, <1>4, <1>5, RowsUntouched

\* A request reads a parent's path, or a parent's budget.
LEMMA ReadStep ==
  ASSUME OrgInv, NEW w \in Editors, NEW u \in Users, NEW n \in Nodes,
         \/ \E parent \in Nodes : LookUpParent(w, u, n, parent)
         \/ \E b \in Budgets : CheckBudget(w, u, n, b)
  PROVE  OrgInv'
<1> USE DEF OrgInv
<1>1. UNCHANGED <<orgNode, grants, roles>>
  BY DEF LookUpParent, CheckBudget
<1> DEFINE Fits(q) == q.pc = "create" =>
                        /\ Len(q.path) > 1 /\ Placed(ParentOf(q.path))
                        /\ q.path = Append(PathOf(ParentOf(q.path)), q.node)
           Reads(q) == editing' = [editing EXCEPT ![w] = q] /\ Fits(q)
<1>2. PICK q \in Editing : Reads(q)
  <2>1. ASSUME NEW b \in Budgets, CheckBudget(w, u, n, b)
        PROVE  \E q \in Editing : Reads(q)
    <3>1. <<>> \in Paths
      BY ShortPaths
    <3>2. [pc |-> "budget", by |-> u, node |-> n, path |-> <<>>, budget |-> b] \in Editing
      BY <3>1 DEF Editing
    <3> QED BY <2>1, <3>2 DEF CheckBudget
  <2>2. ASSUME NEW parent \in Nodes, LookUpParent(w, u, n, parent)
        PROVE  \E q \in Editing : Reads(q)
    <3> DEFINE path == Append(PathOf(parent), n)
               q == [pc |-> "create", by |-> u, node |-> n, path |-> path, budget |-> 0]
    <3>1. /\ orgNode[parent].alive /\ editing' = [editing EXCEPT ![w] = q]
      BY <2>2 DEF LookUpParent, PathOf
    <3>2. PathOf(parent) \in Seq(Nodes)
      BY DEF OrgTyped, OrgRecord, PathOf, Paths
    <3>3. /\ path \in Seq(Nodes) /\ Len(path) = Len(PathOf(parent)) + 1
          /\ \A i \in 1..Len(PathOf(parent)) : path[i] = PathOf(parent)[i]
      BY <3>2
    <3>4. Placed(parent)
      BY <3>1 DEF LiveHang
    <3>5. Len(PathOf(parent)) > 0
      BY <3>2, <3>4 DEF Placed
    <3>6. PathOf(parent)[Len(PathOf(parent))] = parent
      <4>1. CASE parent = Root
        <5>1. PathOf(parent) = <<Root>>
          BY <4>1 DEF PathsChain
        <5> QED BY <4>1, <5>1
      <4>2. CASE parent # Root
        <5>1. PathOf(parent) = Append(PathOf(orgNode[parent].parent), parent)
          BY <3>4, <4>2 DEF PathsChain
        <5>2. orgNode[parent].parent \in Nodes
          BY DEF OrgTyped, OrgRecord
        <5>3. PathOf(orgNode[parent].parent) \in Seq(Nodes)
          BY <5>2 DEF OrgTyped, OrgRecord, PathOf, Paths
        <5> QED BY <5>1, <5>3
      <4> QED BY <4>1, <4>2
    <3> HIDE DEF path
    <3>7. path \in Paths
      BY <3>3 DEF Paths
    <3>8. ParentOf(path) = parent
      BY <3>2, <3>3, <3>5, <3>6 DEF ParentOf
    <3>9. q \in Editing
      BY <3>7 DEF Editing
    <3>10. Len(q.path) > 1 /\ q.path = Append(PathOf(parent), q.node)
           /\ ParentOf(q.path) = parent
      BY <3>2, <3>3, <3>5, <3>8 DEF path
    <3> HIDE DEF q
    <3> QED BY <3>1, <3>4, <3>9, <3>10
  <2> QED BY <2>1, <2>2
<1>3. OrgTyped'
  BY <1>1, <1>2 DEF OrgTyped
<1>4. CreationsFit'
  <2> SUFFICES ASSUME NEW v \in Editors, editing'[v].pc = "create"
               PROVE  LET q2 == editing'[v] IN
                        /\ Len(q2.path) > 1 /\ Placed(ParentOf(q2.path))
                        /\ q2.path = Append(PathOf(ParentOf(q2.path)), q2.node)
    BY <1>1 DEF CreationsFit, Placed, PathOf, ParentOf
  <2>1. CASE v = w
    BY <1>2, <2>1 DEF OrgTyped
  <2>2. CASE v # w
    BY <1>2, <2>2 DEF OrgTyped, CreationsFit
  <2> QED BY <2>1, <2>2
<1>5. RolesContained'
  BY <1>1 DEF RolesContained, AuthorityContained
<1> QED BY <1>1, <1>3, <1>4, <1>5, RowsUntouched

\* A row appears, under the path that was read.
LEMMA InsertStep ==
  ASSUME OrgInv, NEW w \in Editors, InsertNode(w)
  PROVE  OrgInv'
<1> USE DEF OrgInv
<1>0. PICK q \in Editing : q = editing[w]
  BY DEF OrgTyped
<1> DEFINE n == q.node
           parent == ParentOf(q.path)
           added == [alive |-> TRUE, parent |-> parent, path |-> q.path, budget |-> 0]
<1>1. /\ q.pc = "create" /\ editing' = [editing EXCEPT ![w] = NoEditing]
      /\ UNCHANGED <<grants, roles>>
      /\ \/ /\ orgNode[parent].alive /\ orgNode[n] = Missing
            /\ orgNode' = [orgNode EXCEPT ![n] = added]
         \/ orgNode' = orgNode
  BY <1>0 DEF InsertNode
<1>2. q \in Editing /\ n \in Nodes
  BY DEF Editing
<1>3. /\ Len(q.path) > 1 /\ Placed(parent) /\ q.path = Append(PathOf(parent), n)
      /\ q.path \in Paths /\ q.path \in Seq(Nodes)
  BY <1>0, <1>1, <1>2 DEF CreationsFit, Editing, Paths
<1>4. parent \in Nodes
  BY <1>3 DEF ParentOf
<1>5. NoEditing \in Editing /\ NoEditing.pc = "idle"
  BY ShortPaths DEF NoEditing, Editing
<1>6. editing' \in [Editors -> Editing]
  BY <1>1, <1>5 DEF OrgTyped
<1>7. CASE orgNode' = orgNode
  <2>1. CreationsFit'
    BY <1>1, <1>5, <1>7 DEF CreationsFit, OrgTyped, Placed, PathOf, ParentOf
  <2>2. RolesContained' /\ OrgTyped'
    BY <1>1, <1>6, <1>7 DEF RolesContained, AuthorityContained, OrgTyped
  <2> QED BY <1>7, <2>1, <2>2, RowsUntouched
<1>8. CASE /\ orgNode[parent].alive /\ orgNode[n] = Missing
           /\ orgNode' = [orgNode EXCEPT ![n] = added]
  <2>1. ~Placed(n) /\ n # Root /\ n # Area /\ n # parent
    <3>1. ~Placed(n) /\ ~orgNode[n].alive
      BY <1>8 DEF Placed, PathOf, Missing
    <3>2. Placed(Root) /\ Placed(Area)
      <4>1. <<Root>> # <<>> /\ <<Root, Area>> # <<>>
        OBVIOUS
      <4> QED BY <4>1 DEF PathsChain, Placed
    <3> QED BY <1>3, <3>1, <3>2
  <2>2. added \in OrgRecord /\ added.alive /\ added.parent = parent /\ added.path = q.path
    BY <1>3, <1>4 DEF OrgRecord
  <2> HIDE DEF added, parent, n
  <2>3. /\ orgNode' \in [Nodes -> OrgRecord]
        /\ orgNode'[n] = added
        /\ \A m \in Nodes \ {n} : orgNode'[m] = orgNode[m]
    BY <1>2, <1>8, <2>2 DEF OrgTyped
  <2>4. \A m \in Nodes : Placed(m) => m # n /\ Placed(m)' /\ PathOf(m)' = PathOf(m)
    BY <2>1, <2>3 DEF Placed, PathOf
  <2>5. PathOf(n)' = q.path /\ Placed(n)'
    BY <1>3, <2>2, <2>3 DEF PathOf, Placed
  <2>6. OrgTyped'
    BY <1>1, <1>6, <2>3 DEF OrgTyped
  <2>7. PathsChain'
    <3>1. PathOf(Root)' = <<Root>> /\ PathOf(Area)' = <<Root, Area>>
      BY <2>1, <2>3 DEF PathsChain, PathOf
    <3>2. ASSUME NEW m \in Nodes, Placed(m)', m # Root
          PROVE  /\ orgNode'[orgNode'[m].parent].path # <<>>
                 /\ orgNode'[m].path = Append(orgNode'[orgNode'[m].parent].path, m)
      <4>1. CASE m = n
        <5>1. orgNode'[m].parent = parent
          BY <2>2, <2>3, <4>1
        <5>2. Placed(parent)' /\ PathOf(parent)' = PathOf(parent)
          BY <1>3, <1>4, <2>4
        <5> QED BY <1>3, <2>5, <4>1, <5>1, <5>2 DEF PathOf, Placed
      <4>2. CASE m # n
        <5>1. Placed(m) /\ orgNode'[m] = orgNode[m]
          BY <2>3, <3>2, <4>2 DEF Placed, PathOf
        <5>2. Placed(orgNode[m].parent) /\ PathOf(m) = Append(PathOf(orgNode[m].parent), m)
          BY <3>2, <5>1 DEF PathsChain
        <5>3. orgNode[m].parent \in Nodes
          BY DEF OrgTyped, OrgRecord
        <5> DEFINE o == orgNode[m].parent
        <5>4. orgNode'[o].path = orgNode[o].path
          BY <2>4, <5>2, <5>3 DEF PathOf
        <5> QED BY <5>1, <5>2, <5>4 DEF PathOf, Placed
      <4> QED BY <4>1, <4>2
    <3> QED BY <3>1, <3>2 DEF PathsChain, PathOf, Placed
  <2>8. LiveHang'
    <3>1. ASSUME NEW m \in Nodes, orgNode'[m].alive
          PROVE  Placed(m)' /\ (m # Root => orgNode'[orgNode'[m].parent].alive)
      <4>1. CASE m = n
        BY <1>4, <1>8, <2>1, <2>2, <2>3, <2>5, <4>1 DEF parent
      <4>2. CASE m # n
        <5>1. orgNode'[m] = orgNode[m]
          BY <2>3, <4>2
        <5>2. Placed(m) /\ (m # Root => orgNode[orgNode[m].parent].alive)
          BY <3>1, <5>1 DEF LiveHang
        <5>3. orgNode[m].parent \in Nodes
          BY DEF OrgTyped, OrgRecord
        <5>4. m # Root => orgNode[m].parent # n
          BY <5>2, <2>1, <5>3 DEF LiveHang
        <5> QED BY <2>3, <2>4, <5>1, <5>2, <5>3, <5>4
      <4> QED BY <4>1, <4>2
    <3>2. orgNode'[Root].alive
      BY <2>1, <2>3 DEF LiveHang
    <3> QED BY <3>1, <3>2 DEF LiveHang
  <2>9. CreationsFit'
    <3> SUFFICES ASSUME NEW v \in Editors, editing'[v].pc = "create"
                 PROVE  LET p == editing'[v] IN
                          /\ Len(p.path) > 1 /\ orgNode'[ParentOf(p.path)].path # <<>>
                          /\ p.path = Append(orgNode'[ParentOf(p.path)].path, p.node)
      BY DEF CreationsFit, Placed, PathOf, ParentOf
    <3>1. v # w /\ editing'[v] = editing[v]
      BY <1>1, <1>5 DEF OrgTyped
    <3>2. LET p == editing[v] IN
            /\ Len(p.path) > 1 /\ Placed(ParentOf(p.path))
            /\ p.path = Append(PathOf(ParentOf(p.path)), p.node)
      BY <3>1 DEF CreationsFit
    <3>3. ParentOf(editing[v].path) \in Nodes
      <4>1. editing[v].path \in Seq(Nodes)
        BY DEF OrgTyped, Editing, Paths
      <4> QED BY <3>2, <4>1 DEF ParentOf
    <3> DEFINE o == ParentOf(editing[v].path)
    <3>4. orgNode'[o].path = orgNode[o].path
      BY <2>4, <3>2, <3>3 DEF PathOf
    <3> QED BY <3>1, <3>2, <3>4 DEF Placed, PathOf
  <2>10. RolesContained'
    <3>1. ASSUME NEW g \in grants PROVE orgNode'[g.node].path = orgNode[g.node].path
      <4>1. g.node \in Nodes /\ Area \in ToSet(PathOf(g.node))
        BY DEF OrgTyped, RolesContained, AuthorityContained, PathOf
      <4>2. PathOf(g.node) # <<>>
        BY <4>1 DEF ToSet
      <4> QED BY <2>4, <4>1, <4>2 DEF Placed, PathOf
    <3> QED BY <1>1, <3>1 DEF RolesContained, AuthorityContained
  <2> QED BY <2>6, <2>7, <2>8, <2>9, <2>10
<1> QED BY <1>1, <1>7, <1>8

\* Steps that keep the paths and parents of all rows.
LEMMA PathsStay ==
  ASSUME OrgInv, orgNode' \in [Nodes -> OrgRecord], UNCHANGED roles,
         \A n \in Nodes : orgNode'[n].path = orgNode[n].path
                            /\ orgNode'[n].parent = orgNode[n].parent,
         grants' \subseteq grants,
         \A w \in Editors : editing'[w].pc = "create" => editing'[w] = editing[w],
         editing' \in [Editors -> Editing]
  PROVE  OrgTyped' /\ PathsChain' /\ CreationsFit' /\ RolesContained'
<1> USE DEF OrgInv
<1>1. OrgTyped'
  BY DEF OrgTyped
<1>2. \A n \in Nodes : PathOf(n)' = PathOf(n) /\ (Placed(n)' <=> Placed(n))
  BY DEF PathOf, Placed
<1>3. PathsChain'
  <2>1. \A n \in Nodes : orgNode[n].parent \in Nodes
    BY DEF OrgTyped, OrgRecord
  <2>3. ASSUME NEW n \in Nodes, orgNode'[n].path # <<>>, n # Root
        PROVE  /\ orgNode'[orgNode'[n].parent].path # <<>>
               /\ orgNode'[n].path = Append(orgNode'[orgNode'[n].parent].path, n)
    <3>1. Placed(orgNode[n].parent) /\ PathOf(n) = Append(PathOf(orgNode[n].parent), n)
      BY <2>3, <1>2 DEF PathsChain, Placed, PathOf
    <3> QED BY <2>1, <3>1 DEF Placed, PathOf
  <2>5. orgNode'[Root].path = <<Root>> /\ orgNode'[Area].path = <<Root, Area>>
    BY DEF PathsChain, PathOf
  <2> QED BY <2>3, <2>5 DEF PathsChain, Placed, PathOf
<1>4. CreationsFit'
  <2> SUFFICES ASSUME NEW v \in Editors, editing'[v].pc = "create"
               PROVE  LET p == editing'[v] IN
                        /\ Len(p.path) > 1 /\ orgNode'[ParentOf(p.path)].path # <<>>
                        /\ p.path = Append(orgNode'[ParentOf(p.path)].path, p.node)
    BY DEF CreationsFit, Placed, PathOf, ParentOf
  <2>1. editing'[v] = editing[v]
    OBVIOUS
  <2>2. LET p == editing[v] IN
          /\ Len(p.path) > 1 /\ Placed(ParentOf(p.path))
          /\ p.path = Append(PathOf(ParentOf(p.path)), p.node)
    BY <2>1 DEF CreationsFit
  <2>3. ParentOf(editing[v].path) \in Nodes
    <3>1. editing[v].path \in Seq(Nodes)
      BY DEF OrgTyped, Editing, Paths
    <3> QED BY <2>2, <3>1 DEF ParentOf
  <2> QED BY <2>1, <2>2, <2>3 DEF Placed, PathOf
<1>5. RolesContained'
  <2>1. \A g \in grants' : g \in grants /\ g.node \in Nodes
    BY DEF OrgTyped
  <2> QED BY <2>1 DEF RolesContained, AuthorityContained
<1> QED BY <1>1, <1>3, <1>4, <1>5

\* A budget is no part of a path.
LEMMA WriteBudgetStep ==
  ASSUME OrgInv, NEW w \in Editors, WriteBudget(w)
  PROVE  OrgInv'
<1> USE DEF OrgInv
<1> DEFINE q == editing[w]
<1>1. /\ orgNode' = [orgNode EXCEPT ![q.node].budget =
                       IF orgNode[q.node].alive THEN q.budget ELSE @]
      /\ editing' = [editing EXCEPT ![w] = NoEditing]
      /\ UNCHANGED <<grants, roles>>
  BY DEF WriteBudget
<1>2. q \in Editing
  BY DEF OrgTyped
<1>3. NoEditing \in Editing /\ NoEditing.pc = "idle"
  BY ShortPaths DEF NoEditing, Editing
<1>7. ASSUME NEW n \in Nodes, NEW b \in Budgets \cup {0}
      PROVE  /\ [orgNode[n] EXCEPT !.budget = b] \in OrgRecord
             /\ [orgNode[n] EXCEPT !.budget = b].path = orgNode[n].path
             /\ [orgNode[n] EXCEPT !.budget = b].parent = orgNode[n].parent
             /\ [orgNode[n] EXCEPT !.budget = b].alive = orgNode[n].alive
  BY DEF OrgTyped, OrgRecord
<1>8. PICK b \in Budgets \cup {0} :
        orgNode' = [orgNode EXCEPT ![q.node] = [orgNode[q.node] EXCEPT !.budget = b]]
  <2>1. q.budget \in Budgets \cup {0} /\ orgNode[q.node].budget \in Budgets \cup {0}
    BY <1>2 DEF Editing, OrgTyped, OrgRecord
  <2> QED BY <1>1, <2>1
<1>9. q.node \in Nodes
  BY <1>2 DEF Editing
<1>4. orgNode' \in [Nodes -> OrgRecord]
  BY <1>7, <1>8, <1>9 DEF OrgTyped
<1>5. \A n \in Nodes : /\ orgNode'[n].path = orgNode[n].path
                       /\ orgNode'[n].parent = orgNode[n].parent
                       /\ orgNode'[n].alive = orgNode[n].alive
  BY <1>7, <1>8, <1>9 DEF OrgTyped
<1>6. /\ editing' \in [Editors -> Editing]
      /\ \A v \in Editors : editing'[v].pc = "create" => editing'[v] = editing[v]
  BY <1>1, <1>3 DEF OrgTyped
<1>10. OrgTyped' /\ PathsChain' /\ CreationsFit' /\ RolesContained'
  BY <1>1, <1>4, <1>5, <1>6, PathsStay
<1>11. LiveHang'
  <2>1. \A n \in Nodes : orgNode[n].parent \in Nodes
    BY DEF OrgTyped, OrgRecord
  <2> QED BY <1>5, <2>1 DEF LiveHang, Placed, PathOf
<1> QED BY <1>10, <1>11

\* The cascade leaves no live child behind and does not reach the root.
LEMMA DeleteStep ==
  ASSUME OrgInv, NEW u \in Users, NEW n \in Nodes, DeleteNode(u, n)
  PROVE  OrgInv'
<1> USE DEF OrgInv
<1> DEFINE gone == Subtree(n)
<1>1. /\ orgNode[n].alive /\ n # Root
      /\ orgNode' = [m \in Nodes |-> IF m \in gone THEN [orgNode[m] EXCEPT !.alive = FALSE]
                                     ELSE orgNode[m]]
      /\ grants' \subseteq grants
      /\ UNCHANGED <<roles, editing>>
  BY DEF DeleteNode
<1>2. /\ gone \subseteq Nodes
      /\ \A m \in Nodes \ {Root} : orgNode[m].alive /\ orgNode[m].parent \in gone => m \in gone
  BY DEF Subtree, HoldsChildren, OrgTyped, OrgRecord
<1>7. Root \notin gone
  <2>1. HoldsChildren(Nodes \ {Root}) /\ n \in Nodes \ {Root}
    BY <1>1 DEF HoldsChildren
  <2> QED BY <2>1 DEF Subtree
<1> HIDE DEF gone
<1>3. /\ orgNode' \in [Nodes -> OrgRecord]
      /\ \A m \in Nodes : /\ orgNode'[m].path = orgNode[m].path
                          /\ orgNode'[m].parent = orgNode[m].parent
                          /\ orgNode'[m].alive <=> orgNode[m].alive /\ m \notin gone
  <2>1. ASSUME NEW m \in Nodes
        PROVE  LET r == [orgNode[m] EXCEPT !.alive = FALSE]
               IN  /\ r \in OrgRecord /\ r.path = orgNode[m].path
                   /\ r.parent = orgNode[m].parent /\ r.alive = FALSE
    <3>1. orgNode[m] \in OrgRecord
      BY DEF OrgTyped
    <3> QED BY <3>1 DEF OrgRecord
  <2>2. ASSUME NEW m \in Nodes
        PROVE  orgNode'[m] = IF m \in gone THEN [orgNode[m] EXCEPT !.alive = FALSE]
                             ELSE orgNode[m]
    BY <1>1
  <2>3. ASSUME NEW m \in Nodes
        PROVE  /\ orgNode'[m] \in OrgRecord
               /\ orgNode'[m].path = orgNode[m].path
               /\ orgNode'[m].parent = orgNode[m].parent
               /\ orgNode'[m].alive <=> orgNode[m].alive /\ m \notin gone
    <3>1. orgNode[m] \in OrgRecord
      BY DEF OrgTyped
    <3> QED BY <2>1, <2>2, <3>1
  <2>4. orgNode' = [m \in Nodes |-> orgNode'[m]]
    BY <1>1, <2>2
  <2> QED BY <2>3, <2>4
<1>4. OrgTyped' /\ PathsChain' /\ CreationsFit' /\ RolesContained'
  BY <1>1, <1>3, PathsStay DEF OrgTyped
<1>8. LiveHang'
  <2>1. \A m \in Nodes : orgNode[m].parent \in Nodes
    BY DEF OrgTyped, OrgRecord
  <2> QED BY <1>2, <1>3, <1>7, <2>1 DEF LiveHang, Placed, PathOf
<1> QED BY <1>4, <1>8

\* A live node hangs under a live parent by the path it stores, although paths
\* are computed from rows read earlier and deletions cascade in between
\* (create_node, delete_node), and no role that an area owner and his appointees
\* hand on leaves the area (add_permission, can_access).
THEOREM TreeIsSound == OrgSpec => [](OrgTypeOK /\ TreeSound)
<1>1. OrgInv /\ [OrgNext]_orgVars => OrgInv'
  <2> SUFFICES ASSUME OrgInv, [OrgNext]_orgVars PROVE OrgInv'
    OBVIOUS
  <2>1. CASE UNCHANGED orgVars
    BY <2>1 DEF orgVars, OrgInv, OrgTyped, PathsChain, LiveHang, CreationsFit,
                RolesContained, AuthorityContained, Placed, PathOf, ParentOf
  <2>2. CASE OrgNext
    BY <2>2, LoginStep, PermissionStep, ReadStep, InsertStep, WriteBudgetStep, DeleteStep
       DEF OrgNext
  <2> QED BY <2>1, <2>2
<1> QED BY OrgStarts, <1>1, OrgInvImplies, PTL DEF OrgSpec

HIDE OrgTreeAssumption

---------------------------------------------------------------------------
(* The MCP registry.  A ping inserts what is new and updates what is there *)
(* but for the switch.                                                     *)

ServerRow == [url : ServerUrls \cup {NoUrl}, enabled : BOOLEAN,
              status : {"none", "pending", "active", "error"},
              count : 0..Cardinality(ToolNames)]
ToolRows == [ToolNames -> {"absent", "on", "off"}]
PingRow == [pc : {"asked", "answered", "done"}, of : Servers, url : ServerUrls,
            ok : BOOLEAN, tools : SUBSET ToolNames]

McpInv ==
    /\ McpTypeOK
    /\ ping \in [Pings -> PingRow \cup {IdlePing}]

\* A ping under way is not the idle one.
LEMMA IdleIsIdle == IdlePing.pc = "idle" /\ \A r \in PingRow : r.pc # "idle"
BY DEF IdlePing, PingRow

\* Counts of tools have a bound.
LEMMA ToolCounts ==
  ASSUME NEW T \in SUBSET ToolNames
  PROVE  Cardinality(T) \in 0..Cardinality(ToolNames)
<1>1. IsFiniteSet(ToolNames)
  BY McpAssumption
<1>2. IsFiniteSet(T) /\ Cardinality(T) =< Cardinality(ToolNames)
  BY <1>1, FS_Subset
<1>3. Cardinality(T) \in Nat /\ Cardinality(ToolNames) \in Nat
  BY <1>1, <1>2, FS_CardinalityType
<1> QED BY <1>2, <1>3

\* At first there are no servers.
LEMMA McpStart == McpInit => McpInv
<1> SUFFICES ASSUME McpInit PROVE McpInv
  OBVIOUS
<1>0. 0 \in 0..Cardinality(ToolNames)
  <2>1. Cardinality(ToolNames) \in Nat
    BY McpAssumption, FS_CardinalityType
  <2> QED BY <2>1
<1>1. NoServer \in ServerRow
  BY <1>0 DEF NoServer, ServerRow
<1>2. ping \in [Pings -> PingRow \cup {IdlePing}] /\ \A p \in Pings : ping[p].pc = "idle"
  BY IdleIsIdle DEF McpInit
<1>3. McpTypeOK
  BY <1>1, <1>2 DEF McpInit, McpTypeOK, ServerRow
<1> QED BY <1>2, <1>3 DEF McpInv

\* What a ping may be, from what the type invariant says of one that asked.
LEMMA PingsTyped ==
  ASSUME ping \in [Pings -> PingRow \cup {IdlePing}]
  PROVE  \A p \in Pings : ping[p].pc # "idle" => ping[p] \in PingRow
BY IdleIsIdle

\* Administrators: rows, switches, grants; and what an address offers.
LEMMA McpAdmin ==
  ASSUME McpInv,
         \/ \E s \in Servers :
               \/ \E u \in ServerUrls : CreateServer(s, u)
               \/ UpdateServer(s) \/ DeleteServer(s)
               \/ \E n \in ToolNames : UpdateTool(s, n)
               \/ \E t \in Teams : GrantAccess(s, t) \/ RevokeAccess(s, t)
         \/ \E u \in ServerUrls : ChangeOffer(u)
  PROVE  McpInv'
<1>1. UNCHANGED ping
  BY DEF CreateServer, UpdateServer, DeleteServer, UpdateTool, GrantAccess, RevokeAccess,
         ChangeOffer
<1>2. /\ server \in [Servers -> ServerRow] /\ tool \in [Servers -> ToolRows]
      /\ access \in SUBSET (Servers \X Teams)
      /\ offer \in [ServerUrls -> SUBSET ToolNames]
  BY DEF McpInv, McpTypeOK, ServerRow, ToolRows
<1>3. NoServer \in ServerRow /\ 0 \in 0..Cardinality(ToolNames)
  <2>1. Cardinality(ToolNames) \in Nat
    BY McpAssumption, FS_CardinalityType
  <2> QED BY <2>1 DEF NoServer, ServerRow
<1>4. server' \in [Servers -> ServerRow]
  <2>1. ASSUME NEW s \in Servers, NEW u \in ServerUrls, CreateServer(s, u)
        PROVE  server' \in [Servers -> ServerRow]
    <3>1. [url |-> u, status |-> "pending", enabled |-> TRUE, count |-> 0] \in ServerRow
      BY <1>3 DEF ServerRow
    <3> QED BY <1>2, <2>1, <3>1 DEF CreateServer
  <2>2. ASSUME NEW s \in Servers, UpdateServer(s)
        PROVE  server' \in [Servers -> ServerRow]
    <3>1. ASSUME NEW u \in ServerUrls PROVE [server[s] EXCEPT !.url = u] \in ServerRow
      BY <1>2 DEF ServerRow
    <3>2. [server[s] EXCEPT !.enabled = ~@] \in ServerRow
      BY <1>2 DEF ServerRow
    <3> QED BY <1>2, <2>2, <3>1, <3>2 DEF UpdateServer
  <2>3. ASSUME NEW s \in Servers, DeleteServer(s)
        PROVE  server' \in [Servers -> ServerRow]
    BY <1>2, <1>3, <2>3 DEF DeleteServer
  <2> QED BY <1>2, <2>1, <2>2, <2>3 DEF UpdateTool, GrantAccess, RevokeAccess, ChangeOffer
<1>5. tool' \in [Servers -> ToolRows]
  <2>1. ASSUME NEW s \in Servers, DeleteServer(s)
        PROVE  tool' \in [Servers -> ToolRows]
    <3>1. [n \in ToolNames |-> "absent"] \in ToolRows
      BY DEF ToolRows
    <3> QED BY <1>2, <2>1, <3>1 DEF DeleteServer
  <2>2. ASSUME NEW s \in Servers, NEW n \in ToolNames, UpdateTool(s, n)
        PROVE  tool' \in [Servers -> ToolRows]
    <3>1. PICK to \in {"on", "off"} : tool' = [tool EXCEPT ![s][n] = to]
      BY <2>2 DEF UpdateTool
    <3>2. [tool[s] EXCEPT ![n] = to] \in ToolRows
      BY <1>2 DEF ToolRows
    <3>3. tool' = [tool EXCEPT ![s] = [tool[s] EXCEPT ![n] = to]]
      BY <3>1
    <3> QED BY <1>2, <3>2, <3>3
  <2> QED BY <1>2, <2>1, <2>2
          DEF CreateServer, UpdateServer, GrantAccess, RevokeAccess, ChangeOffer
<1>6. /\ access' \in SUBSET (Servers \X Teams)
      /\ offer' \in [ServerUrls -> SUBSET ToolNames]
  <2>1. access' \subseteq access \cup (Servers \X Teams)
    <3>1. ASSUME NEW s \in Servers, NEW t \in Teams, GrantAccess(s, t) \/ RevokeAccess(s, t)
          PROVE  access' \subseteq access \cup (Servers \X Teams)
      BY <3>1 DEF GrantAccess, RevokeAccess
    <3>2. ASSUME NEW s \in Servers, DeleteServer(s)
          PROVE  access' \subseteq access \cup (Servers \X Teams)
      BY <3>2 DEF DeleteServer
    <3> QED BY <3>1, <3>2 DEF CreateServer, UpdateServer, UpdateTool, ChangeOffer
  <2>2. \/ UNCHANGED offer
        \/ \E u \in ServerUrls, found \in SUBSET ToolNames :
              offer' = [offer EXCEPT ![u] = found]
    BY DEF CreateServer, UpdateServer, DeleteServer, UpdateTool, GrantAccess,
           RevokeAccess, ChangeOffer
  <2> QED BY <1>2, <2>1, <2>2
<1> QED BY <1>1, <1>4, <1>5, <1>6 DEF McpInv, McpTypeOK, ServerRow, ToolRows

\* Each step of a ping preserves the invariant.
LEMMA McpPing ==
  ASSUME McpInv, NEW p \in Pings,
         \/ \E s \in Servers : ReadServer(p, s)
         \/ AskServer(p) \/ RecordPing(p)
  PROVE  McpInv'
<1>1. UNCHANGED <<access, offer>>
  BY DEF ReadServer, AskServer, RecordPing
<1>2. /\ server \in [Servers -> ServerRow] /\ tool \in [Servers -> ToolRows]
      /\ offer \in [ServerUrls -> SUBSET ToolNames]
      /\ ping \in [Pings -> PingRow \cup {IdlePing}]
  BY DEF McpInv, McpTypeOK, ServerRow, ToolRows
<1>3. ping[p].pc # "idle" => ping[p] \in PingRow
  BY <1>2, PingsTyped
<1>4. \E n \in PingRow : ping' = [ping EXCEPT ![p] = n]
  <2>1. ASSUME NEW s \in Servers, ReadServer(p, s)
        PROVE  \E n \in PingRow : ping' = [ping EXCEPT ![p] = n]
    <3>1. server[s].url \in ServerUrls
      BY <1>2, <2>1 DEF ReadServer, Registered, ServerRow
    <3>2. [pc |-> "asked", of |-> s, url |-> server[s].url, ok |-> FALSE, tools |-> {}]
             \in PingRow
      BY <3>1 DEF PingRow
    <3> QED BY <2>1, <3>2 DEF ReadServer
  <2>2. CASE AskServer(p)
    <3>1. PICK ok \in BOOLEAN, found \in {{}, offer[ping[p].url]} :
            ping' = [ping EXCEPT ![p].pc = "answered", ![p].ok = ok,
                                 ![p].tools = IF ok THEN found ELSE {}]
      BY <2>2 DEF AskServer
    <3>2. ping[p] \in PingRow /\ found \subseteq ToolNames
      BY <1>2, <1>3, <2>2 DEF AskServer, PingRow
    <3> DEFINE n == [ping[p] EXCEPT !.pc = "answered", !.ok = ok,
                                    !.tools = IF ok THEN found ELSE {}]
    <3>3. n \in PingRow
      BY <3>2 DEF PingRow
    <3>4. ping' = [ping EXCEPT ![p] = n]
      BY <3>1
    <3> QED BY <3>3, <3>4
  <2>3. CASE RecordPing(p)
    <3>1. [ping[p] EXCEPT !.pc = "done"] \in PingRow
      BY <1>3, <2>3 DEF RecordPing, PingRow
    <3> QED BY <2>3, <3>1 DEF RecordPing
  <2> QED BY <2>1, <2>2, <2>3
<1>5. ping' \in [Pings -> PingRow \cup {IdlePing}]
  BY <1>2, <1>4
<1>6. server' \in [Servers -> ServerRow] /\ tool' \in [Servers -> ToolRows]
  <2>1. CASE RecordPing(p) /\ Registered(ping[p].of)
    <3> DEFINE s == ping[p].of
               kept == [n \in ToolNames |->
                         IF n \in ping[p].tools /\ tool[s][n] = "absent" THEN "on"
                         ELSE tool[s][n]]
               new == [server[s] EXCEPT
                        !.status = IF ping[p].ok THEN "active" ELSE "error",
                        !.count = IF ping[p].tools # {} THEN Cardinality(ping[p].tools)
                                  ELSE Cardinality(Present(s))]
    <3>1. s \in Servers /\ ping[p].tools \subseteq ToolNames
      BY <1>3, <2>1 DEF RecordPing, PingRow
    <3>2. kept \in ToolRows
      BY <1>2, <3>1 DEF ToolRows
    <3>3. Cardinality(ping[p].tools) \in 0..Cardinality(ToolNames)
      BY <3>1, ToolCounts
    <3>4. Cardinality(Present(s)) \in 0..Cardinality(ToolNames)
      BY ToolCounts DEF Present
    <3>5. server[s] \in ServerRow
      BY <1>2, <3>1
    <3>6. new \in ServerRow
      BY <3>3, <3>4, <3>5 DEF ServerRow
    <3>7. tool' = [tool EXCEPT ![s] = kept] /\ server' = [server EXCEPT ![s] = new]
      BY <1>2, <2>1, <3>1 DEF RecordPing
    <3> HIDE DEF s, kept, new
    <3> QED BY <1>2, <3>2, <3>6, <3>7
  <2>2. CASE UNCHANGED <<server, tool>>
    BY <1>2, <2>2
  <2> QED BY <2>1, <2>2 DEF ReadServer, AskServer, RecordPing
<1>7. McpTypeOK'
  BY <1>1, <1>5, <1>6, PingsTyped, IdleIsIdle
     DEF McpInv, McpTypeOK, ServerRow, ToolRows, PingRow
<1> QED BY <1>5, <1>7 DEF McpInv

\* Each step of the registry preserves the invariant.
LEMMA McpStep == McpInv /\ [McpNext]_mcpVars => McpInv'
<1> SUFFICES ASSUME McpInv, [McpNext]_mcpVars PROVE McpInv'
  OBVIOUS
<1>1. CASE UNCHANGED mcpVars
  BY <1>1 DEF mcpVars, McpInv, McpTypeOK
<1>2. CASE McpNext
  BY <1>2, McpAdmin, McpPing DEF McpNext
<1> QED BY <1>1, <1>2

\* The tables mcp_servers and mcp_tools hold only what routers/mcp.py writes.
THEOREM McpTypeCorrect == McpSpec => []McpTypeOK
<1>1. McpInv => McpTypeOK
  BY DEF McpInv
<1> QED BY McpStart, McpStep, <1>1, PTL DEF McpSpec

\* The one ping that writes tools leaves a tool alone that is there.
LEMMA SwitchesAreKept ==
  ASSUME McpInv, McpNext, NEW s \in Servers, NEW n \in ToolNames,
         tool[s][n] = "off", tool'[s][n] # "off"
  PROVE  UpdateTool(s, n) \/ DeleteServer(s)
<1>1. tool \in [Servers -> ToolRows]
  BY DEF McpInv, McpTypeOK, ToolRows
<1>2. ASSUME NEW r \in Servers, DeleteServer(r), r # s PROVE FALSE
  BY <1>1, <1>2 DEF DeleteServer
<1>3. ASSUME NEW r \in Servers, NEW m \in ToolNames, UpdateTool(r, m), r # s \/ m # n
      PROVE  FALSE
  <2>1. PICK to \in {"on", "off"} : tool' = [tool EXCEPT ![r][m] = to]
    BY <1>3 DEF UpdateTool
  <2>2. tool'[s][n] = tool[s][n]
    BY <1>1, <1>3, <2>1 DEF ToolRows
  <2> QED BY <2>2
<1>4. ASSUME NEW p \in Pings, RecordPing(p) PROVE FALSE
  <2> DEFINE t == ping[p].of
  <2>1. tool' = [tool EXCEPT ![t] = [m \in ToolNames |->
                   IF m \in ping[p].tools /\ @[m] = "absent" THEN "on" ELSE @[m]]]
        \/ UNCHANGED tool
    BY <1>4 DEF RecordPing
  <2>2. tool'[s][n] = tool[s][n]
    BY <1>1, <2>1 DEF ToolRows
  <2> QED BY <2>2
<1>5. ~UNCHANGED tool
  OBVIOUS
<1> QED BY <1>2, <1>3, <1>4, <1>5
        DEF McpNext, CreateServer, UpdateServer, ReadServer, GrantAccess, RevokeAccess,
            AskServer, ChangeOffer

\* However pings, edited addresses and deletions overlap, nobody but an
\* administrator switches on a tool that was switched off (ping_server,
\* update_tool).
THEOREM ToolsStayOff == McpSpec => ToolStaysOff
<1>1. McpInv /\ [McpNext]_mcpVars =>
        [\A s \in Servers, n \in ToolNames :
           tool[s][n] = "off" /\ tool'[s][n] # "off" =>
              UpdateTool(s, n) \/ DeleteServer(s)]_mcpVars
  BY SwitchesAreKept
<1> QED BY McpStart, McpStep, <1>1, PTL DEF McpSpec, ToolStaysOff

---------------------------------------------------------------------------
(* The start of a replica.  The seed is one transaction, so what there is  *)
(* of it is the whole, but for what was deleted.                           *)

Seeded == rules = SeedRules \ removed
PastGuardrails == {"models", "key", "root", "rootless", "servers", "serving"}
PastKey == {"root", "rootless", "servers", "serving"}

\* The seed is all there, but for what was deleted, once any of it is, and
\* whenever a replica has come past it.
SeededWhole ==
    /\ rules # {} => Seeded
    /\ \A r \in Instances : progress[r] \in PastGuardrails => Seeded

KeyComesFirst == \A r \in Instances : progress[r] \in PastKey => signingKey # "none"

StartupInv == StartupTypeOK /\ SeededWhole /\ KeyComesFirst

\* At first nothing is seeded.
LEMMA StartupStarts == StartupInit => StartupInv
<1> SUFFICES ASSUME StartupInit PROVE StartupInv
  OBVIOUS
<1>0. 0 \in 0..MaxStarts /\ 0 \in 0..MaxEdits
  BY StartupAssumption
<1>1. StartupTypeOK
  BY <1>0 DEF StartupInit, StartupTypeOK, Stages, Entries
<1> QED BY <1>1 DEF StartupInit, StartupInv, SeededWhole, KeyComesFirst,
                    PastGuardrails, PastKey

\* A replica on its way.
LEMMA StartupReplica ==
  ASSUME StartupInv, NEW r \in Instances,
         \/ Boot(r) \/ CountRules(r) \/ SeedGuardrails(r) \/ SeedRegistry(r)
         \/ MakeKey(r) \/ FindRoot(r) \/ MakeRoot(r) \/ SeedMcpServers(r) \/ Stop(r)
  PROVE  StartupInv'
<1> USE DEF StartupInv
<1>1. PICK s \in Stages : To(r, s)
  BY DEF Boot, CountRules, SeedGuardrails, SeedRegistry, MakeKey, FindRoot, MakeRoot,
         SeedMcpServers, Stop, Stages
<1>2. /\ progress' \in [Instances -> Stages]
      /\ progress' = [progress EXCEPT ![r] = s]
      /\ progress'[r] = s
      /\ \A q \in Instances \ {r} : progress'[q] = progress[q]
  BY <1>1 DEF To, StartupTypeOK
<1>3. (starts \in [Instances -> 0..MaxStarts])'
  <2>1. CASE Boot(r)
    <3>1. starts[r] + 1 \in 0..MaxStarts
      BY <2>1, StartupAssumption DEF Boot, StartupTypeOK
    <3> QED BY <2>1, <3>1 DEF Boot, StartupTypeOK
  <2>2. CASE UNCHANGED starts
    BY <2>2 DEF StartupTypeOK
  <2> QED BY <2>1, <2>2 DEF CountRules, SeedGuardrails, SeedRegistry, MakeKey,
              FindRoot, MakeRoot, SeedMcpServers, Stop
<1>4. (models \in [SeedModels -> Entries] /\ servers \in [SeedServers -> Entries])'
  <2>1. Filled(models) \in [SeedModels -> Entries]
    BY DEF StartupTypeOK, Filled, Entries
  <2>2. Filled(servers) \in [SeedServers -> Entries]
    BY DEF StartupTypeOK, Filled, Entries
  <2>3. models' \in {models, Filled(models)} /\ servers' \in {servers, Filled(servers)}
    BY DEF Boot, CountRules, SeedGuardrails, SeedRegistry, MakeKey, FindRoot, MakeRoot,
           SeedMcpServers, Stop
  <2> QED BY <2>1, <2>2, <2>3 DEF StartupTypeOK
<1>5. (roots \in Nat /\ edits \in 0..MaxEdits)'
  BY DEF Boot, CountRules, SeedGuardrails, SeedRegistry, MakeKey, FindRoot, MakeRoot,
         SeedMcpServers, Stop, StartupTypeOK
<1>6. /\ (signingKey \in {"none", "stored", "lost"})'
      /\ signingKey # "none" => signingKey' # "none"
  BY DEF Boot, CountRules, SeedGuardrails, SeedRegistry, MakeKey, FindRoot, MakeRoot,
         SeedMcpServers, Stop, StartupTypeOK
<1>7. \/ UNCHANGED <<rules, removed>>
      \/ rules' = SeedRules /\ removed' = {}
  BY DEF Boot, CountRules, SeedGuardrails, SeedRegistry, MakeKey, FindRoot, MakeRoot,
         SeedMcpServers, Stop
<1>8. StartupTypeOK'
  BY <1>2, <1>3, <1>4, <1>5, <1>6, <1>7 DEF StartupTypeOK
<1>9. SeededWhole'
  <2>1. CASE UNCHANGED <<rules, removed>>
    <3>1. s \in PastGuardrails => progress[r] \in PastGuardrails \/ rules # {} \/ Seeded
      <4>1. progress'[r] \in PastGuardrails => progress[r] \in PastGuardrails \/ rules # {}
            \/ SeedGuardrails(r)
        BY <1>2 DEF Boot, CountRules, SeedRegistry, MakeKey, FindRoot, MakeRoot,
           SeedMcpServers, Stop, PastGuardrails, To, StartupTypeOK
      <4>2. SeedGuardrails(r) /\ rules = {} => SeedRules = {} /\ removed = {}
        BY <2>1 DEF SeedGuardrails
      <4> QED BY <4>1, <4>2, <1>2 DEF Seeded
    <3> QED BY <2>1, <3>1, <1>2 DEF SeededWhole, Seeded
  <2>2. CASE rules' = SeedRules /\ removed' = {}
    BY <2>2 DEF SeededWhole, Seeded
  <2> QED BY <1>7, <2>1, <2>2
<1>10. KeyComesFirst'
  <2>1. s \in PastKey => progress[r] \in PastKey \/ signingKey' # "none"
    BY <1>2 DEF Boot, CountRules, SeedGuardrails, SeedRegistry, MakeKey, FindRoot,
           MakeRoot, SeedMcpServers, Stop, PastKey, To, StartupTypeOK
  <2> QED BY <1>2, <1>6, <2>1 DEF KeyComesFirst
<1> QED BY <1>8, <1>9, <1>10

\* An administrator's change.
LEMMA StartupEdit ==
  ASSUME StartupInv,
         \/ \E g \in SeedRules : DeleteRule(g)
         \/ \E m \in SeedModels : ChangeModel(m)
         \/ \E s \in SeedServers : ChangeServer(s)
  PROVE  StartupInv'
<1> USE DEF StartupInv
<1>1. UNCHANGED <<progress, starts, signingKey, roots>> /\ Edit
  BY DEF DeleteRule, ChangeModel, ChangeServer
<1>2. (edits \in 0..MaxEdits)'
  BY <1>1, StartupAssumption DEF Edit, StartupTypeOK
<1>3. (models \in [SeedModels -> Entries] /\ servers \in [SeedServers -> Entries])'
  BY DEF DeleteRule, ChangeModel, ChangeServer, StartupTypeOK
<1>4. \/ UNCHANGED <<rules, removed>>
      \/ \E g \in rules : rules' = rules \ {g} /\ removed' = removed \cup {g}
  BY DEF DeleteRule, ChangeModel, ChangeServer
<1>5. (rules \subseteq SeedRules /\ removed \subseteq SeedRules)'
  BY <1>4 DEF StartupTypeOK
<1>6. StartupTypeOK'
  BY <1>1, <1>2, <1>3, <1>5 DEF StartupTypeOK
<1>7. Seeded => Seeded'
  BY <1>4 DEF Seeded
<1>8. SeededWhole'
  BY <1>1, <1>4, <1>7 DEF SeededWhole, StartupTypeOK
<1>9. KeyComesFirst'
  BY <1>1 DEF KeyComesFirst
<1> QED BY <1>6, <1>8, <1>9

\* Redis drops the key, or a request for it makes another.
LEMMA StartupKey ==
  ASSUME StartupInv, LoseKey \/ RemakeKey
  PROVE  StartupInv'
<1>1. /\ UNCHANGED <<progress, starts, rules, models, servers, roots, edits, removed>>
      /\ signingKey' \in {"stored", "lost"}
  BY DEF LoseKey, RemakeKey
<1> QED BY <1>1 DEF StartupInv, StartupTypeOK, SeededWhole, KeyComesFirst, Seeded

\* For any replicas, seeds and edits, and a crash before any step, a replica that
\* serves has every default guardrail nobody deleted since, and a signing key was
\* made before it served, which only Redis may have dropped (lifespan,
\* _seed_guardrails, get_or_create_signing_key).
THEOREM ServingIsSeeded == StartupSpec => [](StartupTypeOK /\ ServingMeansSeeded)
<1>1. StartupInv /\ [StartupNext]_startupVars => StartupInv'
  <2> SUFFICES ASSUME StartupInv, [StartupNext]_startupVars PROVE StartupInv'
    OBVIOUS
  <2>1. CASE UNCHANGED startupVars
    BY <2>1 DEF startupVars, StartupInv, StartupTypeOK, SeededWhole, KeyComesFirst, Seeded
  <2>2. CASE StartupNext
    BY <2>2, StartupReplica, StartupEdit, StartupKey DEF StartupNext
  <2> QED BY <2>1, <2>2
<1>2. StartupInv => StartupTypeOK /\ ServingMeansSeeded
  BY DEF StartupInv, ServingMeansSeeded, Served, SeededWhole, KeyComesFirst, Seeded,
         PastGuardrails, PastKey
<1> QED BY StartupStarts, <1>1, <1>2, PTL DEF StartupSpec

---------------------------------------------------------------------------
(* Provider keys.  A save holds the rows of the providers it has written,  *)
(* so at most one pushes keys of a provider.                               *)

SaveRow == [at : SaveStages, replica : Admins \cup {NoSave},
            body : SUBSET Providers, todo : SUBSET Providers,
            patched : SUBSET Deployments]

\* Between its upsert and the end of its push, a save holds the row.
HoldsItsRow ==
    \A s \in Saves : save[s].at \in {"extra", "push"} =>
        save[s].todo # {} /\ locked[Current(s)] = s

\* Whoever holds a row is under way, and done with it or at it.
RowsHaveSaves ==
    \A p \in Providers, s \in Saves : locked[p] = s =>
        /\ s \in Ongoing /\ p \in save[s].body
        /\ p \in save[s].todo => save[s].at \in {"extra", "push"} /\ p = Current(s)

TodoOfTheForm == \A s \in Saves : save[s].todo \subseteq save[s].body

\* What the deployments serve: the table's key where no save holds the row, the
\* holder's once it is done with the provider, and on the way there the holder's
\* wherever it has been.
StoredIsServed ==
    \A p \in Providers \ broken : locked[p] = NoSave =>
        \A d \in Listed(p) : served[<<p, d>>] = storedKey[p]
PushedIsServed ==
    \A p \in Providers \ broken, s \in Saves :
        locked[p] = s /\ p \notin save[s].todo =>
            \A d \in Listed(p) : served[<<p, d>>] = s
PatchedIsServed ==
    \A s \in Saves : save[s].at = "push" /\ Current(s) \notin broken =>
        \A d \in save[s].patched : served[<<Current(s), d>>] = s

RowsSound == HoldsItsRow /\ RowsHaveSaves /\ TodoOfTheForm
ServedSound == StoredIsServed /\ PushedIsServed /\ PatchedIsServed
ProviderInv == ProviderTypeOK /\ RowsSound /\ ServedSound

\* The next provider of a save is one that it has still to do.
LEMMA LeastIsIn ==
  ASSUME NEW T, T \subseteq Nat, T # {} PROVE Min(T) \in T
<1> DEFINE R == OpToRel(<, Nat)
<1>1. IsWellFoundedOn(R, Nat)
  BY NatLessThanWellFounded
<1>2. \A x, y \in Nat : y < x => <<y, x>> \in R
  BY DEF OpToRel
<1> HIDE DEF R
<1>3. PICK x \in T : \A y \in T : ~(<<y, x>> \in R)
  BY <1>1, WFMin
<1>4. ASSUME NEW y \in T PROVE x =< y
  <2>1. x \in Nat /\ y \in Nat /\ ~(y < x)
    BY <1>2, <1>3
  <2> QED BY <2>1
<1> QED BY <1>4 DEF Min

\* The provider a save is at is one it has still to do.
LEMMA CurrentIsTodo ==
  ASSUME ProviderTypeOK, NEW s \in Saves, save[s].todo # {}
  PROVE  Current(s) \in save[s].todo /\ Current(s) \in Providers
<1>1. save[s].todo \subseteq Providers
  BY DEF ProviderTypeOK
<1>2. save[s].todo \subseteq Nat
  BY <1>1, ProviderAssumption
<1> QED BY <1>1, <1>2, LeastIsIn DEF Current

\* The names the admin service patches are deployments.
LEMMA ListedAreDeployments == \A p \in Providers : Listed(p) \subseteq Deployments
BY DEF Listed

\* At first no key is stored and no save under way.
LEMMA ProviderStart == ProviderInit => ProviderInv
<1> SUFFICES ASSUME ProviderInit PROVE ProviderInv
  OBVIOUS
<1>1. NewSave \in SaveRow /\ NewSave.at = "new" /\ NewSave.todo = {}
  BY DEF NewSave, SaveRow, SaveStages
<1>2. ProviderTypeOK
  BY <1>1 DEF ProviderInit, ProviderTypeOK, SaveRow, KeyOrNone
<1>3. RowsSound /\ ServedSound
  BY <1>1, ProviderAssumption, ListedAreDeployments
     DEF ProviderInit, RowsSound, ServedSound, HoldsItsRow, RowsHaveSaves, TodoOfTheForm,
         StoredIsServed, PushedIsServed, PatchedIsServed
<1> QED BY <1>2, <1>3 DEF ProviderInv

\* A step of one save that leaves the rows' locks and its list alone: the
\* parts of the invariant about rows still hold.
LEMMA RowsStay ==
  ASSUME RowsSound, NEW s \in Saves, NEW n \in SaveRow,
         save \in [Saves -> SaveRow], UNCHANGED locked,
         save' = [save EXCEPT ![s] = n],
         n.todo = save[s].todo, n.body = save[s].body,
         n.at \in {"extra", "push"}, save[s].at \in {"extra", "push"}
  PROVE  RowsSound'
<1>1. /\ save'[s] = n /\ Current(s)' = Current(s)
      /\ \A t \in Saves \ {s} : save'[t] = save[t] /\ Current(t)' = Current(t)
  BY DEF Current
<1>2. \A t \in Saves : /\ save'[t].todo = save[t].todo /\ save'[t].body = save[t].body
                       /\ Current(t)' = Current(t)
                       /\ save'[t].at \in {"extra", "push"} <=> save[t].at \in {"extra", "push"}
                       /\ t \in Ongoing' <=> t \in Ongoing
  BY <1>1 DEF Ongoing
<1>3. HoldsItsRow'
  BY <1>2 DEF HoldsItsRow, RowsSound
<1>4. RowsHaveSaves'
  BY <1>2 DEF RowsHaveSaves, RowsSound
<1>5. TodoOfTheForm'
  BY <1>2 DEF TodoOfTheForm, RowsSound
<1> QED BY <1>3, <1>4, <1>5 DEF RowsSound

\* A form begins a save that holds no row.
LEMMA ProviderSubmit ==
  ASSUME ProviderInv, NEW s \in Saves, NEW r \in Admins, NEW body \in SUBSET Providers,
         SubmitForm(s, r, body)
  PROVE  ProviderInv'
<1> DEFINE n == [NewSave EXCEPT !.at = "upsert", !.replica = r, !.body = body, !.todo = body]
<1>1. /\ n \in SaveRow /\ n.at = "upsert" /\ n.body = body /\ n.todo = body
      /\ save[s].at = "new" /\ save' = [save EXCEPT ![s] = n]
      /\ UNCHANGED <<locked, storedKey, environ, served, late, broken, probed>>
  BY DEF SubmitForm, NewSave, SaveRow, SaveStages
<1>2. save \in [Saves -> SaveRow]
  BY DEF ProviderInv, ProviderTypeOK, SaveRow
<1> HIDE DEF n
<1>3. /\ save' \in [Saves -> SaveRow] /\ save'[s] = n
      /\ \A t \in Saves \ {s} : save'[t] = save[t] /\ Current(t)' = Current(t)
  BY <1>1, <1>2 DEF Current
<1>4. ProviderTypeOK'
  BY <1>1, <1>3 DEF ProviderInv, ProviderTypeOK, SaveRow
<1>5. \A p \in Providers : locked[p] # s
  BY <1>1 DEF ProviderInv, RowsSound, RowsHaveSaves, Ongoing
<1>6. RowsSound'
  BY <1>1, <1>3, <1>5
     DEF ProviderInv, RowsSound, HoldsItsRow, RowsHaveSaves, TodoOfTheForm, Ongoing
<1>7. ServedSound'
  BY <1>1, <1>3, <1>5
     DEF ProviderInv, ServedSound, StoredIsServed, PushedIsServed, PatchedIsServed
<1> QED BY <1>4, <1>6, <1>7 DEF ProviderInv

\* A save waits for the row that another save holds.
LEMMA ProviderUpsert ==
  ASSUME ProviderInv, NEW s \in Saves, UpsertKey(s)
  PROVE  ProviderInv'
<1> DEFINE p == Current(s)
           n == [save[s] EXCEPT !.at = "extra"]
<1>1. /\ save[s].at = "upsert" /\ save[s].todo # {} /\ locked[p] = NoSave
      /\ locked' = [locked EXCEPT ![p] = s]
      /\ environ' = [environ EXCEPT ![save[s].replica][p] = s]
      /\ save' = [save EXCEPT ![s] = n]
      /\ UNCHANGED <<storedKey, served, late, broken, probed>>
  BY DEF UpsertKey
<1>2. save \in [Saves -> SaveRow] /\ locked \in [Providers -> KeyOrNone]
  BY DEF ProviderInv, ProviderTypeOK, SaveRow
<1>3. /\ n \in SaveRow /\ n.at = "extra" /\ n.todo = save[s].todo /\ n.body = save[s].body
  BY <1>2 DEF SaveRow, SaveStages
<1>4. p \in save[s].todo /\ p \in Providers
  BY <1>1, CurrentIsTodo DEF ProviderInv
<1> HIDE DEF n
<1>5. /\ save' \in [Saves -> SaveRow] /\ save'[s] = n /\ Current(s)' = p
      /\ \A t \in Saves \ {s} : save'[t] = save[t] /\ Current(t)' = Current(t)
  BY <1>1, <1>2, <1>3 DEF Current
<1> HIDE DEF p
<1>6. /\ locked' \in [Providers -> KeyOrNone] /\ locked'[p] = s
      /\ \A q \in Providers \ {p} : locked'[q] = locked[q]
  BY <1>1, <1>2, <1>4 DEF KeyOrNone
<1>7. (environ \in [Admins -> [Providers -> KeyOrNone]])'
  BY <1>1 DEF ProviderInv, ProviderTypeOK, KeyOrNone
<1>8. ProviderTypeOK'
  BY <1>1, <1>5, <1>6, <1>7 DEF ProviderInv, ProviderTypeOK, SaveRow
<1>9. s # NoSave
  BY ProviderAssumption
<1>10. HoldsItsRow'
  <2>1. \A t \in Saves : t # s /\ save[t].at \in {"extra", "push"} => Current(t) # p
    BY <1>1 , ProviderAssumption DEF ProviderInv, RowsSound, HoldsItsRow
  <2>2. \A t \in Saves : save[t].at \in {"extra", "push"} => Current(t) \in Providers
    BY CurrentIsTodo DEF ProviderInv, RowsSound, HoldsItsRow
  <2> QED BY <2>1, <2>2, <1>3, <1>1, <1>5, <1>6 DEF ProviderInv, RowsSound, HoldsItsRow
<1>11. RowsHaveSaves'
  BY <1>1, <1>3, <1>4, <1>5, <1>6
     DEF ProviderInv, RowsSound, RowsHaveSaves, TodoOfTheForm, Ongoing
<1>12. TodoOfTheForm'
  BY <1>3, <1>5 DEF ProviderInv, RowsSound, TodoOfTheForm
<1>13. StoredIsServed'
  BY <1>1, <1>6, <1>9 DEF ProviderInv, ServedSound, StoredIsServed
<1>14. PushedIsServed'
  BY <1>1, <1>3, <1>4, <1>5, <1>6 DEF ProviderInv, ServedSound, PushedIsServed
<1>15. PatchedIsServed'
  BY <1>1, <1>3, <1>5 DEF ProviderInv, ServedSound, PatchedIsServed
<1> QED BY <1>8, <1>10, <1>11, <1>12, <1>13, <1>14, <1>15
        DEF ProviderInv, RowsSound, ServedSound

\* A key that LiteLLM accepts beside the deployments changes none of them.
LEMMA ProviderAccept ==
  ASSUME ProviderInv, NEW s \in Saves, AcceptExtra(s)
  PROVE  ProviderInv'
<1> DEFINE n == [save[s] EXCEPT !.at = "push", !.patched = {}]
<1>1. /\ save[s].at = "extra" /\ save' = [save EXCEPT ![s] = n]
      /\ broken' = broken \ {Current(s)}
      /\ UNCHANGED <<locked, storedKey, environ, served, late, probed>>
  BY DEF AcceptExtra
<1>2. save \in [Saves -> SaveRow]
  BY DEF ProviderInv, ProviderTypeOK, SaveRow
<1>3. /\ n \in SaveRow /\ n.at = "push" /\ n.todo = save[s].todo
      /\ n.body = save[s].body /\ n.patched = {}
  BY <1>2 DEF SaveRow, SaveStages
<1>4. locked[Current(s)] = s /\ Current(s) \in save[s].todo /\ s # NoSave
  BY <1>1, CurrentIsTodo, ProviderAssumption DEF ProviderInv, RowsSound, HoldsItsRow
<1> HIDE DEF n
<1>5. /\ save' \in [Saves -> SaveRow] /\ save'[s] = n /\ Current(s)' = Current(s)
      /\ \A t \in Saves \ {s} : save'[t] = save[t] /\ Current(t)' = Current(t)
  BY <1>1, <1>2, <1>3 DEF Current
<1>6. ProviderTypeOK'
  BY <1>1, <1>5 DEF ProviderInv, ProviderTypeOK, SaveRow
<1>7. RowsSound'
  BY <1>1, <1>2, <1>3, RowsStay DEF ProviderInv
<1>8. StoredIsServed'
  BY <1>1, <1>4 DEF ProviderInv, ServedSound, StoredIsServed
<1>9. PushedIsServed'
  BY <1>1, <1>3, <1>4, <1>5 DEF ProviderInv, ServedSound, PushedIsServed
<1>10. PatchedIsServed'
  BY <1>1, <1>3, <1>4, <1>5
     DEF ProviderInv, RowsSound, HoldsItsRow, ServedSound, PatchedIsServed
<1> QED BY <1>6, <1>7, <1>8, <1>9, <1>10 DEF ProviderInv, ServedSound

\* A deployment takes the key, or refuses it.
LEMMA ProviderPatch ==
  ASSUME ProviderInv, NEW s \in Saves, NEW d \in Deployments,
         PatchDeployment(s, d) \/ PatchRefused(s, d)
  PROVE  ProviderInv'
<1> DEFINE p == Current(s)
           n == [save[s] EXCEPT !.patched = @ \cup {d}]
<1>1. /\ save[s].at = "push" /\ save' = [save EXCEPT ![s] = n]
      /\ UNCHANGED <<locked, storedKey, environ, late, probed>>
      /\ \/ served' = [served EXCEPT ![<<p, d>>] = s] /\ UNCHANGED broken
         \/ UNCHANGED served /\ broken' = broken \cup {p}
  BY DEF PatchDeployment, PatchRefused, PushFails
<1>2. save \in [Saves -> SaveRow] /\ served \in [Providers \X Deployments -> KeyOrNone]
  BY DEF ProviderInv, ProviderTypeOK, SaveRow
<1>3. /\ n \in SaveRow /\ n.at = "push" /\ n.todo = save[s].todo
      /\ n.body = save[s].body /\ n.patched = save[s].patched \cup {d}
  BY <1>1, <1>2 DEF SaveRow, SaveStages
<1>4. locked[p] = s /\ p \in save[s].todo /\ p \in Providers /\ s # NoSave
  BY <1>1, CurrentIsTodo, ProviderAssumption DEF ProviderInv, RowsSound, HoldsItsRow
<1> HIDE DEF n
<1>5. /\ save' \in [Saves -> SaveRow] /\ save'[s] = n /\ Current(s)' = p
      /\ \A t \in Saves \ {s} : save'[t] = save[t] /\ Current(t)' = Current(t)
  BY <1>1, <1>2, <1>3 DEF Current
<1>6. RowsSound'
  BY <1>1, <1>2, <1>3, RowsStay DEF ProviderInv
<1>7. \A t \in Saves \ {s} : save[t].at = "push" => Current(t) # p /\ Current(t) \in Providers
  BY <1>4, CurrentIsTodo DEF ProviderInv, RowsSound, HoldsItsRow
<1> HIDE DEF p
<1>8. /\ served' \in [Providers \X Deployments -> KeyOrNone]
      /\ \A q \in Providers \ {p}, e \in Deployments : served'[<<q, e>>] = served[<<q, e>>]
      /\ \A e \in Deployments \ {d} : served'[<<p, e>>] = served[<<p, e>>]
      /\ p \notin broken' => served'[<<p, d>>] = s
  BY <1>1, <1>2, <1>4 DEF KeyOrNone
<1>9. broken \subseteq broken' /\ broken' \subseteq Providers
  BY <1>1, <1>4 DEF ProviderInv, ProviderTypeOK
<1>10. ProviderTypeOK'
  BY <1>1, <1>5, <1>8, <1>9 DEF ProviderInv, ProviderTypeOK, SaveRow
<1>11. StoredIsServed'
  BY <1>1, <1>4, <1>8, <1>9, ListedAreDeployments DEF ProviderInv, ServedSound, StoredIsServed
<1>12. PushedIsServed'
  BY <1>1, <1>3, <1>4, <1>5, <1>8, <1>9, ListedAreDeployments
     DEF ProviderInv, ServedSound, PushedIsServed
<1>13. PatchedIsServed'
  <2> SUFFICES ASSUME NEW t \in Saves, save'[t].at = "push", Current(t)' \notin broken',
                      NEW e \in save'[t].patched
               PROVE  served'[<<Current(t)', e>>] = t
    BY DEF PatchedIsServed
  <2>1. e \in Deployments
    BY <1>5 DEF SaveRow
  <2>2. CASE t = s
    <3>1. e = d \/ e \in save[s].patched
      BY <2>2, <1>3, <1>5
    <3>2. p \notin broken'
      BY <2>2, <1>5
    <3>3. e \in save[s].patched => served[<<p, e>>] = s
      BY <3>2, <1>1, <1>9 DEF ProviderInv, ServedSound, PatchedIsServed, p
    <3> QED BY <2>1, <2>2, <3>1, <3>2, <3>3, <1>5, <1>8
  <2>3. CASE t # s
    BY <2>1, <2>3, <1>5, <1>7, <1>8, <1>9 DEF ProviderInv, ServedSound, PatchedIsServed
  <2> QED BY <2>2, <2>3
<1> QED BY <1>6, <1>10, <1>11, <1>12, <1>13 DEF ProviderInv, ServedSound

\* The push of one provider is over, one way or the other.
LEMMA ProviderPushEnds ==
  ASSUME ProviderInv, NEW s \in Saves,
         \/ \E d \in Deployments : PatchTimesOut(s, d)
         \/ InfoFails(s) \/ EndPush(s)
  PROVE  ProviderInv'
<1> DEFINE p == Current(s)
           n == [save[s] EXCEPT !.at = "upsert", !.todo = @ \ {p}]
<1>1. /\ save[s].at = "push" /\ save' = [save EXCEPT ![s] = n]
      /\ UNCHANGED <<locked, storedKey, environ, served, probed>>
      /\ \/ Listed(p) \subseteq save[s].patched /\ UNCHANGED broken
         \/ broken' = broken \cup {p}
  BY DEF PatchTimesOut, InfoFails, EndPush, NextProvider, PushFails, ToPatch
<1>2. save \in [Saves -> SaveRow]
  BY DEF ProviderInv, ProviderTypeOK, SaveRow
<1>3. /\ n \in SaveRow /\ n.at = "upsert" /\ n.todo = save[s].todo \ {p}
      /\ n.body = save[s].body
  BY <1>2 DEF SaveRow, SaveStages
<1>4. locked[p] = s /\ p \in save[s].todo /\ p \in Providers /\ s # NoSave
  BY <1>1, CurrentIsTodo, ProviderAssumption DEF ProviderInv, RowsSound, HoldsItsRow
<1> HIDE DEF n
<1>5. /\ save' \in [Saves -> SaveRow] /\ save'[s] = n
      /\ \A t \in Saves \ {s} : save'[t] = save[t] /\ Current(t)' = Current(t)
  BY <1>1, <1>2, <1>3 DEF Current
<1>6. late' \subseteq (Providers \X Deployments) \X Saves
  BY <1>4 DEF PatchTimesOut, InfoFails, EndPush, ProviderInv, ProviderTypeOK
<1>7. p \notin broken' => \A d \in Listed(p) : served[<<p, d>>] = s
  BY <1>1 DEF ProviderInv, ServedSound, PatchedIsServed
<1>8. RowsHaveSaves'
  <2> SUFFICES ASSUME NEW q \in Providers, NEW t \in Saves, locked'[q] = t
               PROVE  /\ t \in Ongoing' /\ q \in save'[t].body
                      /\ q \in save'[t].todo =>
                            save'[t].at \in {"extra", "push"} /\ q = Current(t)'
    BY DEF RowsHaveSaves
  <2>1. /\ t \in Ongoing /\ q \in save[t].body
        /\ q \in save[t].todo => save[t].at \in {"extra", "push"} /\ q = Current(t)
    BY <1>1 DEF ProviderInv, RowsSound, RowsHaveSaves
  <2>2. CASE t = s
    BY <2>1, <2>2, <1>3, <1>5 DEF Ongoing
  <2>3. CASE t # s
    BY <2>1, <2>3, <1>5 DEF Ongoing
  <2> QED BY <2>2, <2>3
<1> HIDE DEF p
<1>9. broken \subseteq broken' /\ broken' \subseteq Providers
  BY <1>1, <1>4 DEF ProviderInv, ProviderTypeOK
<1>10. ProviderTypeOK'
  BY <1>1, <1>5, <1>6, <1>9 DEF ProviderInv, ProviderTypeOK, SaveRow
<1>11. HoldsItsRow' /\ TodoOfTheForm'
  BY <1>1, <1>3, <1>5 DEF ProviderInv, RowsSound, HoldsItsRow, TodoOfTheForm
<1>12. StoredIsServed'
  BY <1>1, <1>9 DEF ProviderInv, ServedSound, StoredIsServed
<1>13. PushedIsServed'
  <2> SUFFICES ASSUME NEW q \in Providers \ broken', NEW t \in Saves,
                      locked'[q] = t, q \notin save'[t].todo
               PROVE  \A d \in Listed(q) : served[<<q, d>>] = t
    BY <1>1 DEF PushedIsServed
  <2>1. CASE t = s /\ q = p
    BY <2>1, <1>7
  <2>2. CASE ~(t = s /\ q = p)
    <3>1. q \notin save[t].todo /\ q \notin broken /\ locked[q] = t
      BY <2>2, <1>1, <1>3, <1>5, <1>9
    <3> QED BY <3>1 DEF ProviderInv, ServedSound, PushedIsServed
  <2> QED BY <2>1, <2>2
<1>14. PatchedIsServed'
  BY <1>1, <1>3, <1>5, <1>9 DEF ProviderInv, ServedSound, PatchedIsServed
<1> QED BY <1>8, <1>10, <1>11, <1>12, <1>13, <1>14
        DEF ProviderInv, RowsSound, ServedSound

\* LiteLLM applies a patch whose caller has gone.
LEMMA ProviderLate ==
  ASSUME ProviderInv, NEW l \in late, ApplyLate(l)
  PROVE  ProviderInv'
<1>1. PICK p \in Providers, d \in Deployments, s \in Saves : l = <<<<p, d>>, s>>
  BY DEF ProviderInv, ProviderTypeOK
<1>2. l[1] = <<p, d>> /\ l[2] = s /\ l[1][1] = p
  BY <1>1
<1>3. /\ UNCHANGED <<save, locked, storedKey, environ, probed>>
      /\ late' \subseteq late
      /\ \/ served' = [served EXCEPT ![<<p, d>>] = s] /\ broken' = broken \cup {p}
         \/ UNCHANGED <<served, broken>>
  BY <1>2 DEF ApplyLate
<1>4. /\ (served \in [Providers \X Deployments -> KeyOrNone])'
      /\ \A q \in Providers \ broken', e \in Deployments : served'[<<q, e>>] = served[<<q, e>>]
      /\ broken \subseteq broken' /\ broken' \subseteq Providers
  <2>1. /\ served \in [Providers \X Deployments -> KeyOrNone] /\ broken \subseteq Providers
        /\ s \in KeyOrNone
    BY DEF ProviderInv, ProviderTypeOK, KeyOrNone
  <2>2. CASE served' = [served EXCEPT ![<<p, d>>] = s] /\ broken' = broken \cup {p}
    <3>1. \A x \in Providers \X Deployments : x # <<p, d>> => served'[x] = served[x]
      BY <2>1, <2>2
    <3>2. served' \in [Providers \X Deployments -> KeyOrNone]
      BY <2>1, <2>2
    <3> QED BY <2>1, <2>2, <3>1, <3>2
  <2>3. CASE UNCHANGED <<served, broken>>
    BY <2>1, <2>3
  <2> QED BY <1>3, <2>2, <2>3
<1>5. ProviderTypeOK'
  BY <1>3, <1>4 DEF ProviderInv, ProviderTypeOK
<1>6. RowsSound'
  BY <1>3 DEF ProviderInv, RowsSound, HoldsItsRow, RowsHaveSaves, TodoOfTheForm, Ongoing,
              Current
<1>7. StoredIsServed' /\ PushedIsServed'
  BY <1>3, <1>4, ListedAreDeployments DEF ProviderInv, ServedSound, StoredIsServed, PushedIsServed
<1>8. PatchedIsServed'
  <2> SUFFICES ASSUME NEW t \in Saves, save[t].at = "push", Current(t) \notin broken',
                      NEW e \in save[t].patched
               PROVE  served'[<<Current(t), e>>] = t
    BY <1>3 DEF PatchedIsServed, Current
  <2>1. Current(t) \in Providers /\ e \in Deployments
    BY CurrentIsTodo DEF ProviderInv, ProviderTypeOK, RowsSound, HoldsItsRow
  <2>2. served[<<Current(t), e>>] = t
    BY <1>4 DEF ProviderInv, ServedSound, PatchedIsServed
  <2> QED BY <2>1, <2>2, <1>4
<1> QED BY <1>5, <1>6, <1>7, <1>8 DEF ProviderInv, ServedSound

\* A commit gives up the rows of a save that has nothing more to do.
LEMMA ProviderCommit ==
  ASSUME ProviderInv, NEW s \in Saves, CommitSave(s)
  PROVE  ProviderInv'
<1> DEFINE n == [save[s] EXCEPT !.at = "saved"]
<1>1. /\ save[s].at = "upsert" /\ save[s].todo = {} /\ save' = [save EXCEPT ![s] = n]
      /\ storedKey' = [p \in Providers |-> IF locked[p] = s THEN s ELSE storedKey[p]]
      /\ locked' = [p \in Providers |-> IF locked[p] = s THEN NoSave ELSE locked[p]]
      /\ UNCHANGED <<environ, served, late, broken, probed>>
  BY DEF CommitSave, Committed, Unlocked
<1>2. save \in [Saves -> SaveRow] /\ locked \in [Providers -> KeyOrNone]
  BY DEF ProviderInv, ProviderTypeOK, SaveRow
<1>3. n \in SaveRow /\ n.at = "saved" /\ n.todo = {} /\ n.body = save[s].body
  BY <1>1, <1>2 DEF SaveRow, SaveStages
<1> HIDE DEF n
<1>4. /\ save' \in [Saves -> SaveRow] /\ save'[s] = n
      /\ \A t \in Saves \ {s} : save'[t] = save[t] /\ Current(t)' = Current(t)
  BY <1>1, <1>2, <1>3 DEF Current
<1>5. (locked \in [Providers -> KeyOrNone] /\ storedKey \in [Providers -> KeyOrNone])'
  BY <1>1, <1>2 DEF ProviderInv, ProviderTypeOK, KeyOrNone
<1>6. ProviderTypeOK'
  BY <1>1, <1>4, <1>5 DEF ProviderInv, ProviderTypeOK, SaveRow
<1>7. \A p \in Providers, t \in Saves : locked'[p] = t => t # s /\ locked[p] = t
  BY <1>1, ProviderAssumption
<1>8. HoldsItsRow'
  <2> SUFFICES ASSUME NEW t \in Saves, save'[t].at \in {"extra", "push"}
               PROVE  save'[t].todo # {} /\ locked'[Current(t)'] = t
    BY DEF HoldsItsRow
  <2>1. t # s /\ save'[t] = save[t] /\ Current(t)' = Current(t)
    BY <1>3, <1>4
  <2>2. save[t].todo # {} /\ locked[Current(t)] = t
    BY <2>1 DEF ProviderInv, RowsSound, HoldsItsRow
  <2>3. Current(t) \in Providers
    BY <2>2, CurrentIsTodo DEF ProviderInv
  <2> QED BY <2>1, <2>2, <2>3, <1>1
<1>9. RowsHaveSaves'
  BY <1>4, <1>7 DEF ProviderInv, RowsSound, RowsHaveSaves, Ongoing
<1>10. TodoOfTheForm'
  BY <1>3, <1>4 DEF ProviderInv, RowsSound, TodoOfTheForm
<1>11. StoredIsServed'
  <2> SUFFICES ASSUME NEW p \in Providers \ broken, locked'[p] = NoSave
               PROVE  \A d \in Listed(p) : served[<<p, d>>] = storedKey'[p]
    BY <1>1 DEF StoredIsServed
  <2>1. CASE locked[p] = s
    BY <2>1, <1>1 DEF ProviderInv, ServedSound, PushedIsServed
  <2>2. CASE locked[p] # s
    BY <2>2, <1>1 DEF ProviderInv, ServedSound, StoredIsServed
  <2> QED BY <2>1, <2>2
<1>12. PushedIsServed'
  BY <1>1, <1>4, <1>7 DEF ProviderInv, ServedSound, PushedIsServed
<1>13. PatchedIsServed'
  BY <1>1, <1>3, <1>4 DEF ProviderInv, ServedSound, PatchedIsServed
<1> QED BY <1>6, <1>8, <1>9, <1>10, <1>11, <1>12, <1>13
        DEF ProviderInv, RowsSound, ServedSound

\* A rollback leaves its providers to the next push.
LEMMA ProviderRollback ==
  ASSUME ProviderInv, NEW S \in SUBSET Saves, Rollback(S, "refused"),
         (environ \in [Admins -> [Providers -> KeyOrNone]])',
         UNCHANGED <<storedKey, served, late, probed>>
  PROVE  ProviderInv'
<1>1. save \in [Saves -> SaveRow] /\ locked \in [Providers -> KeyOrNone]
  BY DEF ProviderInv, ProviderTypeOK, SaveRow
<1>2. /\ save' = [s \in Saves |-> IF s \in S THEN [save[s] EXCEPT !.at = "refused"]
                                  ELSE save[s]]
      /\ locked' = [p \in Providers |-> IF locked[p] \in S THEN NoSave ELSE locked[p]]
      /\ broken' = broken \cup {p \in Providers : locked[p] \in S}
  BY DEF Rollback
<1>3. \A s \in Saves : /\ [save[s] EXCEPT !.at = "refused"] \in SaveRow
                       /\ [save[s] EXCEPT !.at = "refused"].at = "refused"
                       /\ [save[s] EXCEPT !.at = "refused"].todo = save[s].todo
                       /\ [save[s] EXCEPT !.at = "refused"].body = save[s].body
  BY <1>1 DEF SaveRow, SaveStages
<1>4. /\ save' \in [Saves -> SaveRow]
      /\ \A s \in S : /\ save'[s].at = "refused" /\ save'[s].todo = save[s].todo
                      /\ save'[s].body = save[s].body
      /\ \A s \in Saves \ S : save'[s] = save[s] /\ Current(s)' = Current(s)
  BY <1>1, <1>2, <1>3 DEF Current
<1>5. (locked \in [Providers -> KeyOrNone] /\ broken \subseteq Providers)'
  BY <1>1, <1>2 DEF ProviderInv, ProviderTypeOK, KeyOrNone
<1>6. ProviderTypeOK'
  BY <1>4, <1>5 DEF ProviderInv, ProviderTypeOK, SaveRow
<1>7. \A p \in Providers, t \in Saves : locked'[p] = t => t \notin S /\ locked[p] = t
  BY <1>2, ProviderAssumption
<1>8. HoldsItsRow'
  <2> SUFFICES ASSUME NEW t \in Saves, save'[t].at \in {"extra", "push"}
               PROVE  save'[t].todo # {} /\ locked'[Current(t)'] = t
    BY DEF HoldsItsRow
  <2>1. t \notin S /\ save'[t] = save[t] /\ Current(t)' = Current(t)
    BY <1>4
  <2>2. save[t].todo # {} /\ locked[Current(t)] = t
    BY <2>1 DEF ProviderInv, RowsSound, HoldsItsRow
  <2>3. Current(t) \in Providers
    BY <2>2, CurrentIsTodo DEF ProviderInv
  <2> QED BY <2>1, <2>2, <2>3, <1>2
<1>9. RowsHaveSaves'
  BY <1>4, <1>7 DEF ProviderInv, RowsSound, RowsHaveSaves, Ongoing
<1>10. TodoOfTheForm'
  BY <1>4 DEF ProviderInv, RowsSound, TodoOfTheForm
<1>11. StoredIsServed'
  BY <1>2 DEF ProviderInv, ServedSound, StoredIsServed
<1>12. PushedIsServed'
  BY <1>2, <1>4, <1>7 DEF ProviderInv, ServedSound, PushedIsServed
<1>13. PatchedIsServed'
  BY <1>2, <1>4 DEF ProviderInv, ServedSound, PatchedIsServed
<1> QED BY <1>6, <1>8, <1>9, <1>10, <1>11, <1>12, <1>13
        DEF ProviderInv, RowsSound, ServedSound

\* A save that fails or dies leaves its providers broken.
LEMMA ProviderCrash ==
  ASSUME ProviderInv,
         \/ \E s \in Saves : RefuseExtra(s)
         \/ \E r \in Admins : CrashReplica(r)
  PROVE  ProviderInv'
<1>1. PICK S \in SUBSET Saves : Rollback(S, "refused")
  BY DEF RefuseExtra, CrashReplica, Ongoing
<1>2. UNCHANGED <<storedKey, served, late, probed>>
  BY DEF RefuseExtra, CrashReplica
<1>3. (environ \in [Admins -> [Providers -> KeyOrNone]])'
  <2>1. environ \in [Admins -> [Providers -> KeyOrNone]]
    BY DEF ProviderInv, ProviderTypeOK
  <2>2. ASSUME NEW r \in Admins,
               environ' = [environ EXCEPT ![r] = [p \in Providers |-> NoSave]]
        PROVE  environ' \in [Admins -> [Providers -> KeyOrNone]]
    <3>1. [p \in Providers |-> NoSave] \in [Providers -> KeyOrNone]
      BY DEF KeyOrNone
    <3> QED BY <2>1, <2>2, <3>1
  <2> QED BY <2>1, <2>2 DEF RefuseExtra, CrashReplica
<1> QED BY <1>1, <1>2, <1>3, ProviderRollback

\* A probe reads.
LEMMA ProviderProbe ==
  ASSUME ProviderInv, NEW r \in Admins, NEW p \in Providers, Probe(r, p)
  PROVE  ProviderInv'
<1>1. UNCHANGED <<save, locked, storedKey, environ, served, late, broken>>
  BY DEF Probe
<1>2. probed' \in KeyOrNone
  BY DEF Probe, KeyInHand, ProviderInv, ProviderTypeOK
<1> QED BY <1>1, <1>2
        DEF ProviderInv, ProviderTypeOK, RowsSound, HoldsItsRow, RowsHaveSaves,
            TodoOfTheForm, ServedSound, StoredIsServed, PushedIsServed, PatchedIsServed,
            Ongoing, Current

\* LiteLLM restarts: the keys of every provider are to be pushed again.
LEMMA ProviderRestart ==
  ASSUME ProviderInv, RestartLiteLLM
  PROVE  ProviderInv'
<1>1. /\ served' = [x \in Providers \X Deployments |-> NoSave]
      /\ late' = {} /\ broken' = Providers
      /\ UNCHANGED <<save, locked, storedKey, environ, probed>>
  BY DEF RestartLiteLLM
<1>2. ProviderTypeOK'
  BY <1>1 DEF ProviderInv, ProviderTypeOK, KeyOrNone
<1>3. RowsSound'
  BY <1>1 DEF ProviderInv, RowsSound, HoldsItsRow, RowsHaveSaves, TodoOfTheForm, Ongoing,
              Current
<1>4. \A s \in Saves : save[s].at = "push" => Current(s)' \in Providers
  BY <1>1, CurrentIsTodo DEF ProviderInv, RowsSound, HoldsItsRow, Current
<1>5. ServedSound'
  BY <1>1, <1>4 DEF ServedSound, StoredIsServed, PushedIsServed, PatchedIsServed
<1> QED BY <1>2, <1>3, <1>5 DEF ProviderInv

\* However saves, crashes, refused and late pushes overlap, the listed deployments
\* of a provider no save is under way for, and that since its last push none has
\* failed for and no restart of LiteLLM has undone, call it with the key the table
\* holds (save_provider_keys, _push_to_litellm).
THEOREM ServedKeysAreStored == ProviderSpec => [](ProviderTypeOK /\ ServedKeyIsStored)
<1>1. ProviderInv /\ [ProviderNext]_settingsVars => ProviderInv'
  <2> SUFFICES ASSUME ProviderInv, [ProviderNext]_settingsVars PROVE ProviderInv'
    OBVIOUS
  <2>1. CASE UNCHANGED settingsVars
    BY <2>1 DEF settingsVars, ProviderInv, ProviderTypeOK, RowsSound, HoldsItsRow,
            RowsHaveSaves, TodoOfTheForm, ServedSound, StoredIsServed, PushedIsServed,
            PatchedIsServed, Ongoing, Current
  <2>2. CASE ProviderNext
    BY <2>2, ProviderSubmit, ProviderUpsert, ProviderAccept, ProviderPatch,
       ProviderPushEnds, ProviderLate, ProviderCommit, ProviderCrash, ProviderProbe,
       ProviderRestart
       DEF ProviderNext
  <2> QED BY <2>1, <2>2
<1>2. ProviderInv => ProviderTypeOK /\ ServedKeyIsStored
  <2> SUFFICES ASSUME ProviderInv, NEW p \in Providers, p \notin broken,
                      \A s \in Ongoing : p \notin save[s].body
               PROVE  \A d \in Listed(p) : served[<<p, d>>] = storedKey[p]
    BY DEF ProviderInv, ServedKeyIsStored
  <2>1. locked[p] = NoSave
    BY DEF ProviderInv, ProviderTypeOK, KeyOrNone, RowsSound, RowsHaveSaves
  <2> QED BY <2>1 DEF ProviderInv, ServedSound, StoredIsServed
<1> QED BY ProviderStart, <1>1, <1>2, PTL DEF ProviderSpec

---------------------------------------------------------------------------
(* Event feeds.  What is queued for a stream is in the order of the        *)
(* events, and newer than the snapshot.                                    *)

WatchRow == [at : WatchStages, run : Statuses, inbox : Seq(FeedEvents),
             shown : 0..2, heard : BOOLEAN]
NotifyRow == [at : {"new", "bumped", "read", "written", "over"}, mine : Nat]
ListenRow == [at : {"new", "version", "live"}, told : Nat, inbox : Seq(Nat)]

\* What waits in an inbox, for a stream that shows rank n while the node is at
\* rank top: nothing the node has not done, and no start behind a finish.
Ordered(q, n, top) ==
    \A i \in 1..Len(q) :
        /\ q[i] = "node.finished" => top = 2
        /\ q[i] = "node.started" =>
             top >= 1 /\ n =< 1 /\ \A j \in 1..Len(q) : j < i => q[j] # "node.finished"

InOrder(r) ==
    /\ r.shown =< nodeStatus
    /\ Ordered(r.inbox, r.shown, nodeStatus)
    /\ r.at \in {"new", "status", "snapshot"} => r.inbox = <<>>

StreamsInOrder == \A w \in Watchers : InOrder(watch[w])

\* The node's row follows the worker.
NodeFollows ==
    /\ worker \in {"unclaimed", "claimed"} => nodeStatus # 2
    /\ worker \in {"running", "executing", "logged"} => nodeStatus = 1
    /\ worker \in {"finished", "told", "closed"} => nodeStatus = 2

FeedsInv == FeedsTypeOK /\ NodeFollows /\ StreamsInOrder

\* An event published now is newer than what is queued.
LEMMA OrderedAppend ==
  ASSUME NEW q \in Seq(FeedEvents), NEW n \in 0..2, NEW top \in 0..2, NEW e \in FeedEvents,
         Ordered(q, n, top),
         e = "node.finished" => top = 2,
         e = "node.started" => top = 1 /\ n =< 1
  PROVE  Append(q, e) \in Seq(FeedEvents) /\ Ordered(Append(q, e), n, top)
<1>1. /\ Append(q, e) \in Seq(FeedEvents) /\ Len(Append(q, e)) = Len(q) + 1 /\ Len(q) \in Nat
      /\ \A i \in 1..Len(q) : Append(q, e)[i] = q[i]
      /\ Append(q, e)[Len(q) + 1] = e
  OBVIOUS
<1> DEFINE p == Append(q, e)
<1> HIDE DEF p
<1>2. ASSUME NEW i \in 1..Len(p), p[i] = "node.finished" PROVE top = 2
  BY <1>1, <1>2 DEF Ordered, p
<1>3. ASSUME NEW i \in 1..Len(p), p[i] = "node.started"
      PROVE  /\ top >= 1 /\ n =< 1
             /\ \A j \in 1..Len(p) : j < i => p[j] # "node.finished"
  <2>1. CASE i = Len(q) + 1
    <3>1. top = 1 /\ n =< 1
      BY <1>1, <1>3, <2>1 DEF p
    <3>2. \A j \in 1..Len(p) : p[j] # "node.finished"
      BY <1>2, <3>1
    <3> QED BY <3>1, <3>2
  <2>2. CASE i # Len(q) + 1
    <3>1. i \in 1..Len(q) /\ q[i] = "node.started"
      BY <1>1, <1>3, <2>2 DEF p
    <3>2. \A j \in 1..Len(p) : j < i => j \in 1..Len(q) /\ p[j] = q[j]
      BY <1>1, <3>1 DEF p
    <3> QED BY <3>1, <3>2 DEF Ordered
  <2> QED BY <2>1, <2>2
<1> QED BY <1>1, <1>2, <1>3 DEF Ordered, p

\* The oldest event queued is no older than what the stream shows.
LEMMA OrderedForward ==
  ASSUME NEW q \in Seq(FeedEvents), q # <<>>, NEW n \in 0..2, NEW top \in 0..2, n =< top,
         Ordered(q, n, top)
  PROVE  /\ Tail(q) \in Seq(FeedEvents) /\ Head(q) \in FeedEvents
         /\ Shows(Head(q), n) \in 0..2 /\ Shows(Head(q), n) >= n
         /\ Shows(Head(q), n) =< top
         /\ Ordered(Tail(q), Shows(Head(q), n), top)
<1>1. /\ Tail(q) \in Seq(FeedEvents) /\ Head(q) \in FeedEvents /\ Len(q) \in Nat \ {0}
      /\ Len(Tail(q)) = Len(q) - 1 /\ Head(q) = q[1] /\ 1 \in 1..Len(q)
      /\ \A i \in 1..Len(Tail(q)) : Tail(q)[i] = q[i + 1] /\ i + 1 \in 1..Len(q)
  BY HeadTailProperties, EmptySeq
<1> DEFINE p == Tail(q)
<1>2. \A i \in 1..Len(q) : /\ q[i] = "node.finished" => top = 2
                           /\ q[i] = "node.started" => top >= 1 /\ n =< 1
  BY DEF Ordered
<1>3. /\ Shows(Head(q), n) \in 0..2 /\ Shows(Head(q), n) >= n
      /\ Shows(Head(q), n) =< top
  BY <1>1, <1>2 DEF Shows
<1> HIDE DEF p
<1>4. ASSUME NEW i \in 1..Len(p), p[i] = "node.started"
      PROVE  /\ top >= 1 /\ Shows(Head(q), n) =< 1
             /\ \A j \in 1..Len(p) : j < i => p[j] # "node.finished"
  <2>1. i + 1 \in 1..Len(q) /\ q[i + 1] = "node.started" /\ 1 < i + 1
    BY <1>1, <1>4 DEF p
  <2>2. \A j \in 1..Len(q) : j < i + 1 => q[j] # "node.finished"
    BY <2>1 DEF Ordered
  <2>3. q[1] # "node.finished" /\ n =< 1
    BY <1>1, <1>2, <2>1, <2>2
  <2>4. Shows(Head(q), n) =< 1
    BY <1>1, <2>3 DEF Shows
  <2>5. ASSUME NEW j \in 1..Len(p), j < i PROVE p[j] # "node.finished"
    <3>1. j + 1 \in 1..Len(q) /\ j + 1 < i + 1 /\ p[j] = q[j + 1]
      BY <1>1, <2>5 DEF p
    <3> QED BY <2>2, <3>1
  <2> QED BY <1>2, <2>1, <2>4, <2>5
<1>5. \A i \in 1..Len(p) : p[i] = "node.finished" => top = 2
  BY <1>1, <1>2 DEF p
<1> QED BY <1>1, <1>3, <1>4, <1>5 DEF Ordered, p

\* At first nothing is queued or shown.
LEMMA FeedsStart == FeedsInit => FeedsInv
<1> SUFFICES ASSUME FeedsInit PROVE FeedsInv
  OBVIOUS
<1>1. NewWatch \in WatchRow /\ NewWatch.shown = 0 /\ NewWatch.inbox = <<>>
  BY DEF NewWatch, WatchRow, WatchStages, Statuses
<1>2. 0 \in 0..MaxWorkerCrashes
  BY EventFeedsAssumption
<1>3. <<>> \in Seq(Nat)
  OBVIOUS
<1>4. watch \in [Watchers -> WatchRow] /\ notify \in [Notifiers -> NotifyRow]
      /\ listen \in [Listeners -> ListenRow]
  BY <1>1, <1>3 DEF FeedsInit, NotifyRow, ListenRow
<1>5. FeedsTypeOK
  BY <1>2, <1>4 DEF FeedsInit, FeedsTypeOK, WatchRow, NotifyRow, ListenRow, Statuses, WorkerStages
<1>6. Ordered(<<>>, 0, 0)
  BY DEF Ordered
<1>7. NodeFollows /\ StreamsInOrder
  BY <1>1, <1>6 DEF FeedsInit, NodeFollows, StreamsInOrder, InOrder
<1> QED BY <1>5, <1>7 DEF FeedsInv

\* The worker and who cancels: what their steps say of the node and the streams.
Producer ==
    \/ FetchRun \/ MarkNodeRunning \/ NodeStarted \/ NodeLog \/ FinalizeNode \/ NodeFinished
    \/ MarkRunFinished \/ RunFinished \/ WorkerCrash \/ CancelRun \/ AnnounceCancel

\* Worker and cancellation queue events and show none.
LEMMA ProducerStep ==
  ASSUME FeedsInv, Producer, UNCHANGED configVars
  PROVE  /\ FeedsInv'
         /\ \A w \in Watchers : watch'[w].shown = watch[w].shown /\ watch[w].shown \in 0..2
<1> USE DEF FeedsInv
<1>1. /\ watch \in [Watchers -> WatchRow] /\ nodeStatus \in 0..2 /\ worker \in WorkerStages
      /\ run \in Statuses /\ workerCrashes \in 0..MaxWorkerCrashes
      /\ MaxWorkerCrashes \in Nat
  BY EventFeedsAssumption DEF FeedsTypeOK, WatchRow
<1>2. /\ run' \in Statuses /\ worker' \in WorkerStages
      /\ canceller' \in {"none", "cancelled", "told"}
  BY <1>1 DEF Producer, FetchRun, MarkNodeRunning, NodeStarted, NodeLog, FinalizeNode, NodeFinished,
              MarkRunFinished, RunFinished, WorkerCrash, CancelRun, AnnounceCancel,
              FeedsTypeOK, Statuses, WorkerStages
<1>3. workerCrashes' \in 0..MaxWorkerCrashes
  <2>1. CASE WorkerCrash
    <3>1. workerCrashes + 1 \in 0..MaxWorkerCrashes
      BY <1>1, <2>1 DEF WorkerCrash
    <3> QED BY <2>1, <3>1 DEF WorkerCrash
  <2>2. CASE UNCHANGED workerCrashes
    BY <1>1, <2>2
  <2> QED BY <2>1, <2>2 DEF Producer, FetchRun, MarkNodeRunning, NodeStarted, NodeLog, FinalizeNode,
              NodeFinished, MarkRunFinished, RunFinished, CancelRun, AnnounceCancel
<1>4. nodeStatus' \in 0..2 /\ nodeStatus =< nodeStatus' /\ NodeFollows'
  <2>1. CASE MarkNodeRunning
    BY <1>1, <2>1 DEF MarkNodeRunning, NodeFollows
  <2>2. CASE FinalizeNode
    BY <1>1, <2>2 DEF FinalizeNode, NodeFollows
  <2>3. CASE UNCHANGED nodeStatus /\ Producer
    <3>1. NodeFollows'
      BY <2>3 DEF Producer, FetchRun, MarkNodeRunning, NodeStarted, NodeLog, FinalizeNode,
              NodeFinished, MarkRunFinished, RunFinished, WorkerCrash, CancelRun,
              AnnounceCancel, NodeFollows
    <3> QED BY <1>1, <2>3, <3>1
  <2> QED BY <2>1, <2>2, <2>3 DEF Producer, FetchRun, NodeStarted, NodeLog, NodeFinished,
              MarkRunFinished, RunFinished, WorkerCrash, CancelRun, AnnounceCancel
<1>5. \/ UNCHANGED watch
      \/ \E e \in FeedEvents : /\ PublishEvent(e) /\ UNCHANGED nodeStatus
                               /\ e = "node.started" => nodeStatus = 1
                               /\ e = "node.finished" => nodeStatus = 2
  BY DEF Producer, FetchRun, MarkNodeRunning, NodeStarted, NodeLog, FinalizeNode,
         NodeFinished, MarkRunFinished, RunFinished, WorkerCrash, CancelRun,
         AnnounceCancel, NodeFollows, FeedEvents
<1>6. /\ watch' \in [Watchers -> WatchRow] /\ StreamsInOrder'
      /\ \A w \in Watchers : watch'[w].shown = watch[w].shown /\ watch[w].shown \in 0..2
  <2>0. \A w \in Watchers : watch[w].shown \in 0..2
    BY <1>1 DEF WatchRow
  <2>1. CASE UNCHANGED watch
    <3>1. ASSUME NEW w \in Watchers PROVE InOrder(watch[w])'
      <4>1. /\ watch[w].shown =< nodeStatus /\ Ordered(watch[w].inbox, watch[w].shown, nodeStatus)
            /\ watch[w].shown \in 0..2
            /\ watch[w].at \in {"new", "status", "snapshot"} => watch[w].inbox = <<>>
        BY <2>0 DEF StreamsInOrder, InOrder
      <4>2. Ordered(watch[w].inbox, watch[w].shown, nodeStatus')
        BY <4>1, <1>1, <1>4 DEF Ordered
      <4> QED BY <4>1, <4>2, <2>1, <1>1, <1>4 DEF InOrder
    <3> QED BY <2>0, <2>1, <3>1, <1>1 DEF StreamsInOrder
  <2>2. ASSUME NEW e \in FeedEvents, watch' = Announced(e), UNCHANGED nodeStatus,
               e = "node.started" => nodeStatus = 1,
               e = "node.finished" => nodeStatus = 2
        PROVE  /\ watch' \in [Watchers -> WatchRow] /\ StreamsInOrder'
               /\ \A w \in Watchers : watch'[w].shown = watch[w].shown
    <3>1. ASSUME NEW w \in Watchers
          PROVE  /\ watch'[w] \in WatchRow /\ InOrder(watch[w])'
                 /\ watch'[w].shown = watch[w].shown
      <4>1. CASE watch[w].at # "live"
        BY <4>1, <2>2, <1>1 DEF Announced, StreamsInOrder, InOrder
      <4>2. CASE watch[w].at = "live"
        <5>1. watch'[w] = [watch[w] EXCEPT !.inbox = Append(@, e)]
          BY <2>2, <4>2 DEF Announced
        <5>2. /\ watch[w] \in WatchRow /\ watch[w].inbox \in Seq(FeedEvents)
              /\ watch[w].shown \in 0..2
              /\ watch[w].shown =< nodeStatus /\ Ordered(watch[w].inbox, watch[w].shown, nodeStatus)
          BY <1>1 DEF WatchRow, StreamsInOrder, InOrder
        <5>3. /\ Append(watch[w].inbox, e) \in Seq(FeedEvents)
              /\ Ordered(Append(watch[w].inbox, e), watch[w].shown, nodeStatus)
          BY <5>2, <2>2, <1>1, OrderedAppend
        <5>4. /\ watch'[w] \in WatchRow /\ watch'[w].shown = watch[w].shown
              /\ watch'[w].at = "live" /\ watch'[w].inbox = Append(watch[w].inbox, e)
          BY <5>1, <5>2, <5>3, <4>2 DEF WatchRow
        <5> QED BY <5>2, <5>3, <5>4, <2>2 DEF InOrder
      <4> QED BY <4>1, <4>2
    <3> QED BY <3>1, <2>2 DEF Announced, StreamsInOrder
  <2> QED BY <2>0, <2>1, <2>2, <1>5 DEF PublishEvent
<1>7. FeedsTypeOK'
  BY <1>2, <1>3, <1>4, <1>6 DEF FeedsTypeOK, WatchRow, configVars
<1> QED BY <1>4, <1>6, <1>7

\* A stream's own step shows nothing older.
LEMMA WatcherStep ==
  ASSUME FeedsInv, NEW w \in Watchers, UNCHANGED configVars,
         \/ ReadStatus(w) \/ SendSnapshot(w) \/ SubscribeRun(w) \/ ForwardEvent(w)
         \/ Hangup(w)
  PROVE  /\ FeedsInv'
         /\ \A v \in Watchers :
              watch[v].heard /\ watch'[v].heard => watch'[v].shown >= watch[v].shown
<1> USE DEF FeedsInv
<1>1. /\ watch \in [Watchers -> WatchRow] /\ nodeStatus \in 0..2 /\ run \in Statuses
  BY DEF FeedsTypeOK, WatchRow
<1>2. UNCHANGED <<run, nodeStatus, worker, canceller, workerCrashes>>
  BY DEF ReadStatus, SendSnapshot, SubscribeRun, ForwardEvent, Hangup, WatchStep
<1>3. /\ watch[w] \in WatchRow /\ watch[w].inbox \in Seq(FeedEvents)
      /\ watch[w].shown \in 0..2
      /\ watch[w].shown =< nodeStatus /\ Ordered(watch[w].inbox, watch[w].shown, nodeStatus)
      /\ watch[w].at \in {"new", "status", "snapshot"} => watch[w].inbox = <<>>
  BY <1>1 DEF WatchRow, StreamsInOrder, InOrder
<1>4. \A n \in 0..2 : Ordered(<<>>, n, nodeStatus)
  BY DEF Ordered
<1>5. \E n \in WatchRow : /\ watch' = [watch EXCEPT ![w] = n] /\ InOrder(n)
                          /\ n.heard => n.shown >= watch[w].shown
  <2>1. CASE ReadStatus(w)
    <3> DEFINE n == [watch[w] EXCEPT !.at = "status", !.run = run]
    <3>1. /\ n \in WatchRow /\ n.shown = watch[w].shown /\ n.inbox = watch[w].inbox
          /\ watch[w].inbox = <<>>
      BY <2>1, <1>1, <1>3 DEF ReadStatus, WatchRow, WatchStages
    <3>2. watch' = [watch EXCEPT ![w] = n]
      BY <2>1 DEF ReadStatus, WatchStep
    <3> HIDE DEF n
    <3>3. InOrder(n) /\ n.shown >= watch[w].shown
      BY <3>1, <1>3 DEF InOrder
    <3> QED BY <3>1, <3>2, <3>3
  <2>2. CASE SendSnapshot(w)
    <3> DEFINE n == [watch[w] EXCEPT !.at = "snapshot", !.shown = nodeStatus, !.heard = TRUE]
    <3>1. n \in WatchRow /\ n.shown = nodeStatus /\ n.inbox = <<>>
      BY <2>2, <1>1, <1>3 DEF SendSnapshot, WatchRow, WatchStages
    <3>2. watch' = [watch EXCEPT ![w] = n]
      BY <2>2 DEF SendSnapshot, WatchStep
    <3>3. Ordered(<<>>, nodeStatus, nodeStatus) /\ nodeStatus =< nodeStatus
      BY <1>1, <1>4
    <3>4. InOrder(n)
      BY <3>1, <3>3 DEF InOrder
    <3>5. n.shown >= watch[w].shown
      BY <3>1, <1>1, <1>3
    <3> QED BY <3>1, <3>2, <3>4, <3>5
  <2>3. CASE SubscribeRun(w)
    <3> DEFINE n == [watch[w] EXCEPT !.at = "live"]
    <3>1. /\ n \in WatchRow /\ n.shown = watch[w].shown /\ n.inbox = watch[w].inbox
          /\ n.at = "live"
      BY <1>3 DEF WatchRow, WatchStages
    <3>2. watch' = [watch EXCEPT ![w] = n]
      BY <2>3 DEF SubscribeRun, WatchStep
    <3> HIDE DEF n
    <3>3. InOrder(n) /\ n.shown >= watch[w].shown
      BY <3>1, <1>3 DEF InOrder
    <3> QED BY <3>1, <3>2, <3>3
  <2>4. CASE ForwardEvent(w)
    <3> DEFINE e == Head(watch[w].inbox)
               n == [watch[w] EXCEPT !.inbox = Tail(@), !.shown = Shows(e, @),
                                     !.at = IF e = "run.finished" THEN "ended" ELSE @]
    <3>1. watch[w].inbox # <<>> /\ watch[w].at = "live" /\ watch' = [watch EXCEPT ![w] = n]
      BY <2>4 DEF ForwardEvent, WatchStep
    <3>2. /\ Tail(watch[w].inbox) \in Seq(FeedEvents)
          /\ Shows(e, watch[w].shown) \in 0..2
          /\ Shows(e, watch[w].shown) >= watch[w].shown
          /\ Shows(e, watch[w].shown) =< nodeStatus
          /\ Ordered(Tail(watch[w].inbox), Shows(e, watch[w].shown), nodeStatus)
      BY <3>1, <1>1, <1>3, OrderedForward
    <3> HIDE DEF e
    <3>3. /\ n.shown = Shows(e, watch[w].shown) /\ n.inbox = Tail(watch[w].inbox)
          /\ n.at \in {"ended", "live"}
      BY <1>3, <3>1 DEF WatchRow
    <3>4. n \in WatchRow
      BY <1>3, <3>1, <3>2 DEF WatchRow, WatchStages
    <3> HIDE DEF n
    <3> QED BY <3>1, <3>2, <3>3, <3>4 DEF InOrder
  <2>5. CASE Hangup(w)
    <3> DEFINE n == [NewWatch EXCEPT !.at = "ended"]
    <3>0. /\ NewWatch \in WatchRow /\ NewWatch.shown = 0 /\ NewWatch.inbox = <<>>
          /\ ~NewWatch.heard
      BY DEF NewWatch, WatchRow, WatchStages, Statuses
    <3>1. n \in WatchRow /\ n.shown = 0 /\ n.inbox = <<>> /\ ~n.heard
      BY <3>0 DEF WatchRow, WatchStages
    <3>2. watch' = [watch EXCEPT ![w] = n]
      BY <2>5 DEF Hangup, WatchStep
    <3>3. InOrder(n)
      BY <3>1, <1>1, <1>4 DEF InOrder
    <3> QED BY <3>1, <3>2, <3>3
  <2> QED BY <2>1, <2>2, <2>3, <2>4, <2>5
<1>6. PICK n \in WatchRow : /\ watch' = [watch EXCEPT ![w] = n] /\ InOrder(n)
                            /\ n.heard => n.shown >= watch[w].shown
  BY <1>5
<1>7. /\ watch' \in [Watchers -> WatchRow] /\ watch'[w] = n
      /\ \A v \in Watchers \ {w} : watch'[v] = watch[v]
  BY <1>1, <1>6
<1>8. StreamsInOrder'
  BY <1>2, <1>6, <1>7 DEF StreamsInOrder, InOrder
<1>9. FeedsTypeOK' /\ NodeFollows'
  BY <1>2, <1>7 DEF FeedsTypeOK, WatchRow, configVars, NodeFollows
<1>10. \A v \in Watchers : watch[v].shown \in 0..2
  BY <1>1 DEF WatchRow
<1> QED BY <1>6, <1>7, <1>8, <1>9, <1>10

\* The stream of the configuration shares nothing with that of a run.
LEMMA ConfigStep ==
  ASSUME FeedsInv, ConfigFeedNext
  PROVE  FeedsInv'
<1> USE DEF FeedsInv
<1>1. UNCHANGED <<run, nodeStatus, worker, canceller, workerCrashes, watch>>
  BY DEF ConfigFeedNext, runVars
<1>2. /\ blobVersion \in Nat /\ blob \in Nat /\ notify \in [Notifiers -> NotifyRow]
      /\ listen \in [Listeners -> ListenRow]
  BY DEF FeedsTypeOK, NotifyRow, ListenRow
<1>3. (/\ blobVersion \in Nat /\ blob \in Nat /\ notify \in [Notifiers -> NotifyRow]
       /\ listen \in [Listeners -> ListenRow])'
  <2>1. ASSUME NEW n \in Notifiers
        PROVE  /\ notify[n].mine \in Nat
               /\ [at |-> "bumped", mine |-> blobVersion + 1] \in NotifyRow
               /\ \A to \in {"read", "written", "over"} : [notify[n] EXCEPT !.at = to] \in NotifyRow
    BY <1>2 DEF NotifyRow
  <2>2. ASSUME NEW n \in Notifiers, BumpVersion(n)
        PROVE  blobVersion' \in Nat /\ notify' \in [Notifiers -> NotifyRow]
               /\ UNCHANGED <<blob, listen>>
    <3>1. blobVersion + 1 \in Nat
      BY <1>2
    <3> QED BY <1>2, <2>1, <2>2, <3>1 DEF BumpVersion
  <2>3. ASSUME NEW n \in Notifiers, ReadBlob(n) \/ NotifyFails(n)
        PROVE  notify' \in [Notifiers -> NotifyRow] /\ UNCHANGED <<blobVersion, blob, listen>>
    BY <1>2, <2>1, <2>3 DEF ReadBlob, NotifyFails, Notify
  <2>4. ASSUME NEW n \in Notifiers, WriteBlob(n)
        PROVE  notify' \in [Notifiers -> NotifyRow] /\ blob' \in Nat
               /\ UNCHANGED <<blobVersion, listen>>
    BY <1>2, <2>1, <2>4 DEF WriteBlob, Notify
  <2>5. ASSUME NEW n \in Notifiers, PublishVersion(n)
        PROVE  /\ notify' \in [Notifiers -> NotifyRow] /\ listen' \in [Listeners -> ListenRow]
               /\ UNCHANGED <<blobVersion, blob>>
    <3>1. ASSUME NEW l \in Listeners
          PROVE  [listen[l] EXCEPT !.inbox = Append(@, notify[n].mine)] \in ListenRow
      <4>1. listen[l] \in ListenRow /\ listen[l].inbox \in Seq(Nat)
        BY <1>2 DEF ListenRow
      <4>2. \A q \in Seq(Nat), x \in Nat : Append(q, x) \in Seq(Nat)
        OBVIOUS
      <4>3. Append(listen[l].inbox, notify[n].mine) \in Seq(Nat)
        BY <2>1, <4>1, <4>2
      <4> QED BY <4>1, <4>3 DEF ListenRow
    <3>2. listen' \in [Listeners -> ListenRow]
      BY <1>2, <2>5, <3>1 DEF PublishVersion
    <3> QED BY <1>2, <2>1, <2>5, <3>2 DEF PublishVersion, Notify
  <2>6. ASSUME NEW l \in Listeners, Connect(l) \/ SubscribeConfig(l) \/ ForwardVersion(l)
        PROVE  listen' \in [Listeners -> ListenRow] /\ UNCHANGED <<blobVersion, blob, notify>>
    <3>1. listen[l] \in ListenRow /\ listen[l].inbox \in Seq(Nat)
      BY <1>2 DEF ListenRow
    <3>2. CASE Connect(l)
      <4>1. [listen[l] EXCEPT !.at = "version", !.told = blobVersion] \in ListenRow
        BY <1>2, <3>1 DEF ListenRow
      <4>2. listen' = [listen EXCEPT ![l] =
                         [listen[l] EXCEPT !.at = "version", !.told = blobVersion]]
        BY <3>2 DEF Connect
      <4> QED BY <1>2, <3>2, <4>1, <4>2 DEF Connect
    <3>3. CASE SubscribeConfig(l)
      <4>1. [listen[l] EXCEPT !.at = "live"] \in ListenRow
        BY <3>1 DEF ListenRow
      <4> QED BY <1>2, <3>3, <4>1 DEF SubscribeConfig
    <3>4. CASE ForwardVersion(l)
      <4>1. Head(listen[l].inbox) \in Nat /\ Tail(listen[l].inbox) \in Seq(Nat)
        BY <3>1, <3>4, HeadTailProperties DEF ForwardVersion
      <4> DEFINE n == [listen[l] EXCEPT !.told = Head(listen[l].inbox),
                                        !.inbox = Tail(listen[l].inbox)]
      <4>2. n \in ListenRow
        BY <3>1, <4>1 DEF ListenRow
      <4>3. listen' = [listen EXCEPT ![l] = n]
        BY <3>4 DEF ForwardVersion
      <4> QED BY <1>2, <3>4, <4>2, <4>3 DEF ForwardVersion
    <3> QED BY <2>6, <3>2, <3>3, <3>4
  <2> QED BY <1>2, <2>2, <2>3, <2>4, <2>5, <2>6 DEF ConfigFeedNext
<1>4. FeedsTypeOK'
  BY <1>1, <1>3 DEF FeedsTypeOK, NotifyRow, ListenRow
<1> QED BY <1>1, <1>4 DEF NodeFollows, StreamsInOrder, InOrder

\* Each step preserves the invariant and shows nothing older.
LEMMA FeedsStep ==
  FeedsInv /\ [FeedsNext]_feedVars =>
      /\ FeedsInv'
      /\ [\A w \in Watchers : watch[w].heard /\ watch'[w].heard =>
            watch'[w].shown >= watch[w].shown]_feedVars
<1> SUFFICES ASSUME FeedsInv, [FeedsNext]_feedVars
             PROVE  /\ FeedsInv'
                    /\ UNCHANGED feedVars \/ \A w \in Watchers :
                          watch[w].heard /\ watch'[w].heard => watch'[w].shown >= watch[w].shown
  OBVIOUS
<1>1. CASE UNCHANGED feedVars
  BY <1>1 DEF feedVars, FeedsInv, FeedsTypeOK, NodeFollows, StreamsInOrder, InOrder
<1>2. CASE RunFeedNext
  <2>1. CASE Producer /\ UNCHANGED configVars
    BY <2>1, ProducerStep
  <2>2. CASE ~Producer
    BY <1>2, <2>2, WatcherStep DEF RunFeedNext, Producer
  <2> QED BY <1>2, <2>1, <2>2 DEF RunFeedNext
<1>3. CASE ConfigFeedNext
  <2>1. \A w \in Watchers : watch'[w].shown = watch[w].shown /\ watch[w].shown \in 0..2
    BY <1>3 DEF ConfigFeedNext, runVars, FeedsInv, FeedsTypeOK
  <2> QED BY <1>3, <2>1, ConfigStep
<1> QED BY <1>1, <1>2, <1>3 DEF FeedsNext

\* No fairness is needed for that.
LEMMA FeedsAreSafe ==
  FeedsInit /\ [][FeedsNext]_feedVars => []FeedsTypeOK /\ NeverBackwards
<1>1. FeedsInv => FeedsTypeOK
  BY DEF FeedsInv
<1> QED BY FeedsStart, FeedsStep, <1>1, PTL DEF NeverBackwards

\* However events, snapshots and subscriptions interleave, a stream never shows a
\* node at an earlier stage than it showed before (stream_run_events).
THEOREM StreamsNeverGoBack == FeedsSpec => []FeedsTypeOK /\ NeverBackwards
BY FeedsAreSafe, PTL DEF FeedsSpec

---------------------------------------------------------------------------
(* Local groups.  A membership needs its group, its account and its        *)
(* commit.                                                                 *)

USE LocalGroupsAssumption

Profile == [status : {"none", "active", "suspended"}, password : {"none", "sso", "script"}]
ScriptRow == [pc : {"idle", "write", "enrol", "bind"}, who : Emails, group : Named,
              bond : Bonds, status : {"none", "active", "suspended"},
              reactivate : BOOLEAN, joins : BOOLEAN]
RemovalRow == [pc : {"idle", "delete"}, group : Groups, rows : SUBSET Bindings]
Read == {{}} \cup {{gs} : gs \in SUBSET Groups}

\* The type invariant, with its record sets named.
LEMMA GroupsAreTyped ==
  GroupsTypeOK <=>
    /\ profile \in [Emails -> Profile]
    /\ groups \subseteq Named \cup minted /\ minted \subseteq Minted
    /\ members \subseteq groups \X {p \in Emails : profile[p] # NoAccount}
    /\ bindings \subseteq Bindings
    /\ rolesHeld \in [Emails -> SUBSET Bonds]
    /\ signing \in [Emails -> Read]
    /\ \A p \in Emails : profile[p] = NoAccount => rolesHeld[p] = {} /\ signing[p] = {}
    /\ script \in [Scripts -> ScriptRow]
    /\ removal \in [Removals -> RemovalRow]
BY DEF GroupsTypeOK, Profile, ScriptRow, RemovalRow, Read

\* The idle script and the idle removal are rows.
LEMMA NobodyIsTyped == NoScript \in ScriptRow /\ NoRemoval \in RemovalRow
BY DEF NoScript, ScriptRow, NoRemoval, RemovalRow, Groups

\* At first there is no group; an account may exist by single sign-on.
LEMMA GroupsStart == GroupsInit => GroupsTypeOK
<1> SUFFICES ASSUME GroupsInit PROVE GroupsTypeOK
  OBVIOUS
<1>1. profile \in [Emails -> Profile]
  BY DEF GroupsInit, NoAccount, Profile
<1>2. {} \in Read
  BY DEF Read
<1> QED BY <1>1, <1>2, NobodyIsTyped, GroupsAreTyped DEF GroupsInit

\* The steps of the script before it commits.
LEMMA ScriptStep ==
  ASSUME GroupsTypeOK, NEW s \in Scripts,
         \/ \E p \in Emails, g \in Named, b \in Bonds, force, reactivate \in BOOLEAN :
               RunScript(s, p, g, b, force, reactivate)
         \/ WriteAccount(s) \/ Enrol(s) \/ AbandonScript(s)
  PROVE  GroupsTypeOK'
<1>1. /\ script \in [Scripts -> ScriptRow] /\ script[s] \in ScriptRow
      /\ profile \in [Emails -> Profile]
  BY GroupsAreTyped
<1>2. \E n \in ScriptRow : script' = [script EXCEPT ![s] = n]
  <2>1. ASSUME NEW p \in Emails, NEW g \in Named, NEW b \in Bonds, NEW force \in BOOLEAN,
               NEW reactivate \in BOOLEAN, RunScript(s, p, g, b, force, reactivate)
        PROVE  \E n \in ScriptRow : script' = [script EXCEPT ![s] = n]
    <3>1. profile[p].status \in {"none", "active", "suspended"}
      BY <1>1 DEF Profile
    <3>2. [pc |-> "write", who |-> p, group |-> g, bond |-> b, status |-> profile[p].status,
           reactivate |-> reactivate, joins |-> FALSE] \in ScriptRow
      BY <3>1 DEF ScriptRow
    <3> QED BY <2>1, <3>2 DEF RunScript
  <2>2. CASE WriteAccount(s)
    <3>1. [script[s] EXCEPT !.pc = "enrol"] \in ScriptRow
      BY <1>1 DEF ScriptRow
    <3> QED BY <2>2, <3>1, NobodyIsTyped DEF WriteAccount, Leave
  <2>3. CASE Enrol(s)
    <3> DEFINE j == <<script[s].group, script[s].who>> \notin members
               n == [[script[s] EXCEPT !.pc = "bind"] EXCEPT !.joins = j]
    <3>1. n \in ScriptRow
      <4>1. j \in BOOLEAN
        OBVIOUS
      <4> QED BY <1>1, <4>1 DEF ScriptRow
    <3>2. script' = [script EXCEPT ![s] = n]
      BY <1>1, <2>3 DEF Enrol, ScriptRow
    <3> HIDE DEF n
    <3> QED BY <3>1, <3>2
  <2>4. CASE AbandonScript(s)
    BY <2>4, NobodyIsTyped DEF AbandonScript, Leave
  <2> QED BY <2>1, <2>2, <2>3, <2>4
<1>3. UNCHANGED <<profile, groups, minted, members, bindings, rolesHeld, signing, removal>>
  BY DEF RunScript, WriteAccount, Enrol, AbandonScript
<1>4. script' \in [Scripts -> ScriptRow]
  BY <1>1, <1>2
<1> QED BY <1>3, <1>4 DEF GroupsTypeOK, ScriptRow, Groups, Bindings

\* The commit makes the account before anybody is a member.
LEMMA ScriptCommits ==
  ASSUME GroupsTypeOK, NEW s \in Scripts, BindAndCommit(s)
  PROVE  GroupsTypeOK'
<1>1. PICK q \in ScriptRow : q = script[s]
  BY GroupsAreTyped
<1>2. q.who \in Emails /\ q.group \in Named /\ q.bond \in Bonds
  BY DEF ScriptRow
<1> DEFINE a == [status |-> "active", password |-> "script"]
<1>3. a \in Profile /\ a # NoAccount
  BY DEF Profile, NoAccount
<1>4. profile' = [profile EXCEPT ![q.who] = a]
  BY <1>1 DEF BindAndCommit
<1> HIDE DEF a
<1>5. /\ profile' \in [Emails -> Profile]
      /\ \A p \in Emails : profile[p] # NoAccount => profile'[p] # NoAccount
      /\ profile'[q.who] # NoAccount
  BY <1>2, <1>3, <1>4, GroupsAreTyped
<1>6. groups' \subseteq Named \cup minted' /\ minted' \subseteq Minted /\ groups \subseteq groups'
  BY <1>1, <1>2, GroupsAreTyped DEF BindAndCommit
<1>7. members' \subseteq groups' \X {p \in Emails : profile'[p] # NoAccount}
  <2>1. members \subseteq groups \X {p \in Emails : profile[p] # NoAccount}
    BY GroupsAreTyped
  <2>2. \/ members' = members
        \/ members' = members \cup {<<q.group, q.who>>} /\ q.group \in groups'
    BY <1>1 DEF BindAndCommit
  <2> QED BY <1>2, <1>5, <1>6, <2>1, <2>2
<1>8. bindings' \subseteq Bindings
  BY <1>1, <1>2, GroupsAreTyped DEF BindAndCommit, Bindings, Groups
<1>9. script' \in [Scripts -> ScriptRow] /\ UNCHANGED <<rolesHeld, signing, removal>>
  BY NobodyIsTyped, GroupsAreTyped DEF BindAndCommit, Leave
<1>10. (rolesHeld \in [Emails -> SUBSET Bonds] /\ signing \in [Emails -> Read]
        /\ removal \in [Removals -> RemovalRow])'
  BY <1>9, GroupsAreTyped DEF Read, RemovalRow, Groups, Bindings
<1>11. \A p \in Emails : profile'[p] = NoAccount => rolesHeld'[p] = {} /\ signing'[p] = {}
  BY <1>5, <1>9, GroupsAreTyped
<1> QED BY <1>5, <1>6, <1>7, <1>8, <1>9, <1>10, <1>11
        DEF GroupsTypeOK, Profile, ScriptRow, RemovalRow, Read, NoAccount

\* The handlers of local_groups.py.
LEMMA HandlerSteps ==
  ASSUME GroupsTypeOK,
         \/ \E g \in Groups : \/ CreateGroup(g)
                              \/ \E b \in Bonds : BindGroup(g, b)
                              \/ \E p \in Emails : AddMember(g, p)
                              \/ \E d \in Removals : DeleteBindings(d, g)
         \/ \E m \in members : RemoveMember(m)
         \/ \E d \in Removals : DeleteGroup(d)
  PROVE  GroupsTypeOK'
<1>1. UNCHANGED <<profile, rolesHeld, signing, script>>
  BY DEF CreateGroup, BindGroup, AddMember, DeleteBindings, RemoveMember, DeleteGroup
<1>2. groups' \subseteq Named \cup minted' /\ minted' \subseteq Minted
  BY GroupsAreTyped DEF CreateGroup, BindGroup, AddMember, DeleteBindings, RemoveMember,
                        DeleteGroup
<1>3. members' \subseteq groups' \X {p \in Emails : profile[p] # NoAccount}
  <2>1. members \subseteq groups \X {p \in Emails : profile[p] # NoAccount}
    BY GroupsAreTyped
  <2>2. CASE \E g \in Groups, p \in Emails : AddMember(g, p)
    BY <2>1, <2>2 DEF AddMember
  <2>3. CASE members' \subseteq members /\ groups \subseteq groups'
    BY <2>1, <2>3
  <2>4. CASE \E d \in Removals : DeleteGroup(d)
    BY <2>1, <2>4 DEF DeleteGroup
  <2> QED BY <2>2, <2>3, <2>4 DEF CreateGroup, BindGroup, DeleteBindings, RemoveMember
<1>4. bindings' \subseteq Bindings
  BY GroupsAreTyped DEF CreateGroup, BindGroup, AddMember, DeleteBindings, RemoveMember,
                        DeleteGroup, Bindings
<1>5. removal' \in [Removals -> RemovalRow]
  <2>1. removal \in [Removals -> RemovalRow] /\ bindings \subseteq Bindings
    BY GroupsAreTyped
  <2>2. ASSUME NEW g \in Groups, NEW d \in Removals, DeleteBindings(d, g)
        PROVE  removal' \in [Removals -> RemovalRow]
    <3>1. [pc |-> "delete", group |-> g, rows |-> {r \in bindings : r.group = g}] \in RemovalRow
      BY <2>1 DEF RemovalRow
    <3> QED BY <2>1, <2>2, <3>1 DEF DeleteBindings
  <2> QED BY <2>1, <2>2, NobodyIsTyped
          DEF CreateGroup, BindGroup, AddMember, RemoveMember, DeleteGroup
<1> QED BY <1>1, <1>2, <1>3, <1>4, <1>5
        DEF GroupsTypeOK, RemovalRow, Groups, Bindings, NoAccount

\* The handlers of unified_auth.py.
LEMMA LoginSteps ==
  ASSUME GroupsTypeOK, NEW p \in Emails,
         \/ \E st \in {"active", "suspended"} : SetAccountStatus(p, st)
         \/ ReadGroups(p) \/ ReadRoles(p)
  PROVE  GroupsTypeOK'
<1>1. UNCHANGED <<groups, minted, members, bindings, script, removal>>
  BY DEF SetAccountStatus, ReadGroups, ReadRoles
<1>2. profile \in [Emails -> Profile] /\ rolesHeld \in [Emails -> SUBSET Bonds]
      /\ signing \in [Emails -> Read] /\ bindings \subseteq Bindings
      /\ groups \subseteq Groups
  BY GroupsAreTyped DEF Groups
<1>3. /\ profile' \in [Emails -> Profile]
      /\ \A q \in Emails : profile'[q] = NoAccount <=> profile[q] = NoAccount
  <2>1. ASSUME NEW st \in {"active", "suspended"}, SetAccountStatus(p, st)
        PROVE  /\ profile' \in [Emails -> Profile]
               /\ \A q \in Emails : profile'[q] = NoAccount <=> profile[q] = NoAccount
    <3> DEFINE n == [profile[p] EXCEPT !.status = st]
    <3>1. n \in Profile /\ n.status = st
      BY <1>2 DEF Profile
    <3>2. n # NoAccount /\ profile[p] # NoAccount
      BY <2>1, <3>1 DEF NoAccount, SetAccountStatus
    <3>3. profile' = [profile EXCEPT ![p] = n]
      BY <2>1 DEF SetAccountStatus
    <3> HIDE DEF n
    <3> QED BY <1>2, <3>1, <3>2, <3>3
  <2> QED BY <1>2, <2>1 DEF ReadGroups, ReadRoles
<1>4. rolesHeld' \in [Emails -> SUBSET Bonds]
  BY <1>2 DEF SetAccountStatus, ReadGroups, ReadRoles, Bindings
<1>5. signing' \in [Emails -> Read]
  <2>1. {} \in Read /\ {{g \in groups : <<g, p>> \in members}} \in Read
    BY <1>2 DEF Read
  <2> QED BY <1>2, <2>1 DEF SetAccountStatus, ReadGroups, ReadRoles
<1>6. \A q \in Emails : profile'[q] = NoAccount => rolesHeld'[q] = {} /\ signing'[q] = {}
  <2>1. profile[p] # NoAccount
    BY <1>2, GroupsAreTyped DEF SetAccountStatus, ReadGroups, ReadRoles, NoAccount
  <2>2. \A q \in Emails \ {p} : rolesHeld'[q] = rolesHeld[q] /\ signing'[q] = signing[q]
    BY <1>2 DEF SetAccountStatus, ReadGroups, ReadRoles
  <2> QED BY <1>3, <2>1, <2>2, GroupsAreTyped
<1>7. members' \subseteq groups' \X {q \in Emails : profile'[q] # NoAccount}
  <2>1. {q \in Emails : profile'[q] # NoAccount} = {q \in Emails : profile[q] # NoAccount}
    BY <1>3
  <2> QED BY <1>1, <2>1, GroupsAreTyped
<1>8. (script \in [Scripts -> ScriptRow] /\ removal \in [Removals -> RemovalRow]
       /\ groups \subseteq Named \cup minted /\ minted \subseteq Minted
       /\ bindings \subseteq Bindings)'
  BY <1>1, GroupsAreTyped
<1> QED BY <1>3, <1>4, <1>5, <1>6, <1>7, <1>8
        DEF GroupsTypeOK, Profile, ScriptRow, RemovalRow, Read, NoAccount

\* However runs of the script, deletions of groups and logins overlap, members are
\* accounts of groups there are (the foreign keys of migration 0033), and only an
\* account has roles (create_local_account, delete_group, login).
THEOREM MembersHaveGroups == GroupsSpec => []GroupsTypeOK
<1>1. GroupsTypeOK /\ [GroupsNext]_groupVars => GroupsTypeOK'
  <2> SUFFICES ASSUME GroupsTypeOK, [GroupsNext]_groupVars PROVE GroupsTypeOK'
    OBVIOUS
  <2>1. CASE UNCHANGED groupVars
    BY <2>1 DEF groupVars, GroupsTypeOK
  <2>2. CASE \E s \in Scripts : Provisioning(s)
    BY <2>2, ScriptStep, ScriptCommits DEF Provisioning
  <2>3. CASE GroupsNext
    BY <2>2, <2>3, HandlerSteps, LoginSteps DEF GroupsNext
  <2> QED BY <2>1, <2>3
<1> QED BY GroupsStart, <1>1, PTL DEF GroupsSpec

HIDE LocalGroupsAssumption

---------------------------------------------------------------------------
(* The registry of agents.  Each query of a resolution ranks only what the *)
(* answer has not listed yet.                                              *)

USE AgentRegistryAssumption

CallOps == {"none", "register", "heartbeat", "deregister", "lookup", "resolve"}
RegistryCall == [op : CallOps, slug : Slugs, at : CallStages, row : Agent \cup {NoAgent},
                 answer : {s \in Seq(Slugs) : IsInjective(s)}, shown : SUBSET Slugs]
RegistryTyped ==
    /\ agents \in [Slugs -> Agent \cup {NoAgent}]
    /\ online \subseteq Slugs /\ seeding \subseteq Slugs
    /\ call \in [Calls -> RegistryCall]

\* A finite set has an order, and SetToSeq gives one.
LEMMA SetsHaveOrders ==
  ASSUME NEW S, IsFiniteSet(S)
  PROVE  /\ SetToSeq(S) \in Seq(S) /\ IsInjective(SetToSeq(S))
         /\ DOMAIN SetToSeq(S) = 1..Cardinality(S) /\ Cardinality(S) \in Nat
         /\ \A i \in 1..Cardinality(S) : SetToSeq(S)[i] \in S
<1>1. Cardinality(S) \in Nat /\ ExistsBijection(1..Cardinality(S), S)
  BY FS_CardinalityType
<1>2. \E f \in [1..Cardinality(S) -> S] : IsInjective(f)
  BY <1>1 DEF ExistsBijection, Bijection, Injection
<1>3. SetToSeq(S) \in [1..Cardinality(S) -> S] /\ IsInjective(SetToSeq(S))
  BY <1>2 DEF SetToSeq
<1> QED BY <1>1, <1>3

\* A ranking continues an answer with what it has not listed.
LEMMA RankedListsOnce ==
  ASSUME NEW answer \in Seq(Slugs), IsInjective(answer), NEW found \in SUBSET Slugs
  PROVE  Ranked(answer, found) \in Seq(Slugs) /\ IsInjective(Ranked(answer, found))
<1> DEFINE S == found \ Range(answer)
           o == SetToSeq(S)
           r == answer \o o
<1>1. IsFiniteSet(S)
  BY FS_Subset
<1>2. /\ o \in Seq(S) /\ IsInjective(o) /\ DOMAIN o = 1..Len(o) /\ Len(o) \in Nat
      /\ \A i \in 1..Len(o) : o[i] \in S
  <2>1. o \in Seq(S) /\ IsInjective(o) /\ DOMAIN o = 1..Cardinality(S) /\ Cardinality(S) \in Nat
        /\ \A i \in 1..Cardinality(S) : o[i] \in S
    BY <1>1, SetsHaveOrders
  <2> HIDE DEF o
  <2>2. Len(o) = Cardinality(S)
    BY <2>1, LenProperties
  <2> QED BY <2>1, <2>2
<1>3. o \in Seq(Slugs)
  BY <1>2
<1>4. DOMAIN answer = 1..Len(answer) /\ Len(answer) \in Nat
  BY LenProperties
<1>5. \A i \in 1..Len(o) : \A j \in 1..Len(answer) : o[i] # answer[j]
  BY <1>2, <1>4 DEF Range
<1> HIDE DEF o, S
<1>6. /\ r \in Seq(Slugs) /\ DOMAIN r = 1..Len(answer) + Len(o)
      /\ \A i \in 1..Len(answer) + Len(o) :
           r[i] = IF i <= Len(answer) THEN answer[i] ELSE o[i - Len(answer)]
  BY <1>3, <1>4, ConcatProperties, LenProperties
<1> HIDE DEF r
<1>7. ASSUME NEW i \in DOMAIN r, NEW j \in DOMAIN r, r[i] = r[j] PROVE i = j
  <2>1. i \in Nat /\ j \in Nat /\ i \in 1..Len(answer) + Len(o) /\ j \in 1..Len(answer) + Len(o)
    BY <1>2, <1>4, <1>6
  <2>2. \A k \in 1..Len(answer) + Len(o) : k > Len(answer) =>
          k - Len(answer) \in 1..Len(o) /\ r[k] = o[k - Len(answer)]
    BY <1>2, <1>4, <1>6
  <2>3. \A k \in 1..Len(answer) + Len(o) : k <= Len(answer) =>
          k \in 1..Len(answer) /\ r[k] = answer[k]
    BY <1>2, <1>4, <1>6
  <2>4. CASE i <= Len(answer) /\ j <= Len(answer)
    BY <1>4, <1>7, <2>1, <2>3, <2>4 DEF IsInjective
  <2>5. CASE i <= Len(answer) /\ j > Len(answer)
    BY <1>5, <1>7, <2>1, <2>2, <2>3, <2>5
  <2>6. CASE i > Len(answer) /\ j <= Len(answer)
    BY <1>5, <1>7, <2>1, <2>2, <2>3, <2>6
  <2>7. CASE i > Len(answer) /\ j > Len(answer)
    <3>1. i - Len(answer) = j - Len(answer)
      BY <1>2, <1>7, <2>1, <2>2, <2>7 DEF IsInjective
    <3> QED BY <1>4, <2>1, <3>1
  <2> QED BY <1>4, <2>1, <2>4, <2>5, <2>6, <2>7
<1>8. r = Ranked(answer, found)
  BY DEF r, o, S, Ranked
<1> QED BY <1>6, <1>7, <1>8 DEF IsInjective

\* At first no agent is registered and no call under way.
LEMMA RegistryStarts == RegistryInit => RegistryTyped
<1>1. <<>> \in Seq(Slugs) /\ IsInjective(<<>>)
  BY EmptySeq DEF IsInjective
<1>2. NewCall \in RegistryCall
  BY <1>1 DEF NewCall, RegistryCall, CallOps, CallStages
<1> QED BY <1>2 DEF RegistryInit, RegistryTyped

\* A call that goes on, whatever it does with rows and heartbeats.
LEMMA CallMoves ==
  ASSUME RegistryTyped, NEW c \in Calls, NEW n \in RegistryCall,
         call' = [call EXCEPT ![c] = n],
         agents' \in [Slugs -> Agent \cup {NoAgent}],
         online' \in SUBSET Slugs, seeding' \in SUBSET Slugs
  PROVE  RegistryTyped'
BY DEF RegistryTyped

\* A call that begins, or takes the first ranking, has its answer in order.
LEMMA NewCallStep ==
  ASSUME RegistryTyped, NEW c \in Calls,
         \/ ResolveExact(c)
         \/ \E s \in Slugs : VerifyToken(c, s) \/ FindBeating(c, s) \/ Unlist(c, s)
                             \/ ReadRow(c, s)
  PROVE  RegistryTyped'
<1>1. call[c] \in RegistryCall
  BY DEF RegistryTyped
<1> USE DEF RegistryTyped
<1>2. CASE ResolveExact(c)
  <2> DEFINE z == Ranked(<<>>, Exact)
             n == [[[call[c] EXCEPT !.op = "resolve"] EXCEPT !.at = "exact"] EXCEPT !.answer = z]
  <2>1. z \in Seq(Slugs) /\ IsInjective(z)
    <3>1. <<>> \in Seq(Slugs) /\ IsInjective(<<>>) /\ Exact \in SUBSET Slugs
      BY EmptySeq DEF IsInjective, Exact
    <3> QED BY <3>1, RankedListsOnce
  <2> HIDE DEF z
  <2>2. n \in RegistryCall
    BY <1>1, <2>1 DEF RegistryCall, CallOps, CallStages
  <2>3. call' = [call EXCEPT ![c] = n]
    BY <1>1, <1>2 DEF ResolveExact, RegistryCall, z
  <2> HIDE DEF n
  <2> QED BY <1>2, <2>2, <2>3, CallMoves DEF ResolveExact
<1>3. ASSUME NEW s \in Slugs, VerifyToken(c, s) PROVE RegistryTyped'
  <2>1. PICK a \in Agent :
          call' = [call EXCEPT ![c].op = "register", ![c].slug = s,
                               ![c].at = "verified", ![c].row = a]
    BY <1>3 DEF VerifyToken
  <2> DEFINE n == [[[[call[c] EXCEPT !.op = "register"] EXCEPT !.slug = s]
                     EXCEPT !.at = "verified"] EXCEPT !.row = a]
  <2>2. n \in RegistryCall
    BY <1>1 DEF RegistryCall, CallOps, CallStages
  <2>3. call' = [call EXCEPT ![c] = n]
    BY <1>1, <2>1 DEF RegistryCall
  <2> HIDE DEF n
  <2> QED BY <1>3, <2>2, <2>3, CallMoves DEF VerifyToken
<1>4. ASSUME NEW s \in Slugs, FindBeating(c, s) PROVE RegistryTyped'
  <2> DEFINE n == [[call[c] EXCEPT !.op = "heartbeat"] EXCEPT !.slug = s]
  <2>2. n \in RegistryCall
    BY <1>1 DEF RegistryCall, CallOps, CallStages
  <2>3. call' = [call EXCEPT ![c] = n]
    BY <1>1, <1>4 DEF RegistryCall, FindBeating, Ask
  <2> HIDE DEF n
  <2> QED BY <1>4, <2>2, <2>3, CallMoves DEF FindBeating
<1>5. ASSUME NEW s \in Slugs, Unlist(c, s) PROVE RegistryTyped'
  <2> DEFINE n == [[[call[c] EXCEPT !.op = "deregister"] EXCEPT !.slug = s]
                     EXCEPT !.at = "unlisted"]
  <2>2. n \in RegistryCall
    BY <1>1 DEF RegistryCall, CallOps, CallStages
  <2>3. call' = [call EXCEPT ![c] = n]
    BY <1>1, <1>5 DEF RegistryCall, Unlist
  <2> HIDE DEF n
  <2> QED BY <1>5, <2>2, <2>3, CallMoves DEF Unlist, Put
<1>6. ASSUME NEW s \in Slugs, ReadRow(c, s) PROVE RegistryTyped'
  <2> DEFINE n == [[[[call[c] EXCEPT !.op = "lookup"] EXCEPT !.slug = s]
                     EXCEPT !.at = "row"] EXCEPT !.row = agents[s]]
  <2>2. n \in RegistryCall
    BY <1>1 DEF RegistryCall, CallOps, CallStages
  <2>3. call' = [call EXCEPT ![c] = n]
    BY <1>1, <1>6 DEF RegistryCall, ReadRow
  <2> HIDE DEF n
  <2> QED BY <1>6, <2>2, <2>3, CallMoves DEF ReadRow
<1> QED BY <1>2, <1>3, <1>4, <1>5, <1>6

\* The other steps of a call leave its answer an injective sequence.
LEMMA CallStep ==
  ASSUME RegistryTyped, NEW c \in Calls,
         \/ RegisterAgent(c) \/ CheckRelayToken(c) \/ Beat(c) \/ Silence(c)
         \/ ReadOnline(c) \/ ResolveCapable(c) \/ ResolveAlike(c)
  PROVE  RegistryTyped'
<1>1. call[c] \in RegistryCall
  BY DEF RegistryTyped
<1>2. /\ call[c].slug \in Slugs /\ call[c].row \in Agent \cup {NoAgent}
      /\ call[c].answer \in Seq(Slugs) /\ IsInjective(call[c].answer)
  BY <1>1 DEF RegistryCall
<1> USE DEF RegistryTyped
<1>3. \A stage \in CallStages : [call[c] EXCEPT !.at = stage] \in RegistryCall
  BY <1>1 DEF RegistryCall
<1>4. CASE RegisterAgent(c) \/ CheckRelayToken(c) \/ Beat(c) \/ Silence(c)
  <2>1. PICK stage \in CallStages : call' = [call EXCEPT ![c].at = stage]
    BY <1>4 DEF RegisterAgent, CheckRelayToken, Beat, Silence, Goto, CallStages
  <2>2. call' = [call EXCEPT ![c] = [call[c] EXCEPT !.at = stage]]
    BY <2>1
  <2>3. /\ agents' \in [Slugs -> Agent \cup {NoAgent}]
        /\ online' \in SUBSET Slugs /\ seeding' \in SUBSET Slugs
    BY <1>2, <1>4 DEF RegisterAgent, CheckRelayToken, Beat, Silence, Put
  <2> QED BY <1>3, <2>2, <2>3, CallMoves
<1>5. CASE ReadOnline(c)
  <2> DEFINE z == <<call[c].slug>>
             n == [[[call[c] EXCEPT !.at = "answered"] EXCEPT !.answer = z]
                     EXCEPT !.shown = {call[c].slug} \cap online]
  <2>1. z \in Seq(Slugs) /\ IsInjective(z)
    BY <1>2 DEF IsInjective
  <2>2. call' = [call EXCEPT ![c] = n]
    BY <1>1, <1>5 DEF RegistryCall, ReadOnline
  <2> HIDE DEF z
  <2>3. n \in RegistryCall
    BY <1>1, <2>1 DEF RegistryCall, CallStages
  <2> HIDE DEF n
  <2> QED BY <1>5, <2>2, <2>3, CallMoves DEF ReadOnline
<1>6. CASE ResolveCapable(c)
  <2> DEFINE z == Ranked(call[c].answer, Capable)
             n == [[call[c] EXCEPT !.at = "capable"] EXCEPT !.answer = z]
  <2>1. z \in Seq(Slugs) /\ IsInjective(z)
    BY <1>2, RankedListsOnce DEF Capable
  <2>2. call' = [call EXCEPT ![c] = n]
    BY <1>1, <1>6 DEF RegistryCall, ResolveCapable
  <2> HIDE DEF z
  <2>3. n \in RegistryCall
    BY <1>1, <2>1 DEF RegistryCall, CallStages
  <2> HIDE DEF n
  <2> QED BY <1>6, <2>2, <2>3, CallMoves DEF ResolveCapable
<1>7. CASE ResolveAlike(c)
  <2> DEFINE z == Ranked(call[c].answer, Alike)
             n == [[[call[c] EXCEPT !.at = "answered"] EXCEPT !.answer = z]
                     EXCEPT !.shown = Range(z) \cap online]
  <2>1. z \in Seq(Slugs) /\ IsInjective(z)
    BY <1>2, RankedListsOnce DEF Alike
  <2>2. call' = [call EXCEPT ![c] = n]
    BY <1>1, <1>7 DEF RegistryCall, ResolveAlike
  <2> HIDE DEF z
  <2>3. n \in RegistryCall
    BY <1>1, <2>1 DEF RegistryCall, CallStages
  <2> HIDE DEF n
  <2> QED BY <1>7, <2>2, <2>3, CallMoves DEF ResolveAlike
<1> QED BY <1>4, <1>5, <1>6, <1>7

\* However registrations, seeds and heartbeats change the rows between the three
\* queries of a resolution, the answer lists an agent once (resolve_agent).
THEOREM AgentsAreListedOnce == RegistrySpec => []RegistryTypeOK
<1>1. RegistryTyped /\ [RegistryNext]_registryVars => RegistryTyped'
  <2> SUFFICES ASSUME RegistryTyped, [RegistryNext]_registryVars PROVE RegistryTyped'
    OBVIOUS
  <2>1. CASE UNCHANGED registryVars
    BY <2>1 DEF registryVars, RegistryTyped
  <2>2. ASSUME NEW s \in Slugs, GoOffline(s) \/ FindMissing(s) \/ SeedAgent(s)
        PROVE  RegistryTyped'
    BY <2>2 DEF GoOffline, FindMissing, SeedAgent, Put, RegistryTyped
  <2>3. CASE RegistryNext
    BY <2>2, <2>3, NewCallStep, CallStep DEF RegistryNext
  <2> QED BY <2>1, <2>3
<1>2. RegistryTyped => RegistryTypeOK
  BY DEF RegistryTyped, RegistryTypeOK, RegistryCall, CallOps
<1> QED BY RegistryStarts, <1>1, <1>2, PTL DEF RegistrySpec

HIDE AgentRegistryAssumption

---------------------------------------------------------------------------
(* Badges.  What a run of the classifier is about to award was earned by a *)
(* session that is classified, and stays so.                               *)

USE AchievementsAssumption

TraceRow == [count : Counts \cup {NewTrace.count}, idle : BOOLEAN, kind : Kinds \cup {"null"}]
PassRow == [pc : {"idle", "award", "commit"}, due : SUBSET (Staff \X Badges)]

\* A badge, stored or about to be, that a type was needed for has its session.
Earned(a) ==
    a[2] \notin {"first_step", "tool_user"} =>
        \E t \in Talks : owner[t] = a[1] /\ talk[t].kind \in Agentic
DueIsEarned == \A r \in Passes : \A a \in pass[r].due : Earned(a)
BadgeInv == AchievementsTypeOK /\ DueIsEarned

\* At first nobody has a badge.
LEMMA BadgesStart == AchievementsInit => BadgeInv
<1> SUFFICES ASSUME AchievementsInit PROVE BadgeInv
  OBVIOUS
<1>1. NewTrace \in TraceRow
  BY DEF NewTrace, TraceRow
<1>2. NoPass \in PassRow /\ NoPass.due = {}
  BY DEF NoPass, PassRow
<1>3. talk \in [Talks -> TraceRow] /\ pass \in [Passes -> PassRow]
  BY <1>1, <1>2 DEF AchievementsInit
<1> QED BY <1>2, <1>3 DEF AchievementsInit, BadgeInv, AchievementsTypeOK, DueIsEarned,
                         TraceRow, PassRow

\* Sessions are classified once: what earns a badge stays.
LEMMA TalksMove ==
  ASSUME BadgeInv, talk' \in [Talks -> TraceRow], pass' \in [Passes -> PassRow],
         \A t \in Talks : talk[t].kind # "null" => talk'[t].kind = talk[t].kind,
         UNCHANGED <<owner, begun, badge>>,
         \A r \in Passes : pass'[r].due \subseteq pass[r].due
  PROVE  BadgeInv'
<1>1. ASSUME NEW a, Earned(a)
      PROVE  a[2] \notin {"first_step", "tool_user"} =>
               \E t \in Talks : owner[t] = a[1] /\ talk'[t].kind \in Agentic
  BY <1>1 DEF Earned, Agentic
<1>2. AchievementsTypeOK'
  <2>1. \A a \in badge : a[2] \notin {"first_step", "tool_user"} =>
          \E t \in Talks : owner'[t] = a[1] /\ talk'[t].kind \in Agentic
    BY <1>1 DEF BadgeInv, AchievementsTypeOK, Earned
  <2> QED BY <2>1 DEF BadgeInv, AchievementsTypeOK, TraceRow, PassRow
<1>3. DueIsEarned'
  BY <1>1 DEF BadgeInv, DueIsEarned, Earned
<1> QED BY <1>2, <1>3 DEF BadgeInv

\* A request or an idle spell leaves the stored type alone.
LEMMA TalkStep ==
  ASSUME BadgeInv, NEW t \in Talks,
         FiveMinutes(t) \/ \E c \in Counts : CountRequest(t, c)
  PROVE  BadgeInv'
<1>1. talk \in [Talks -> TraceRow] /\ pass \in [Passes -> PassRow]
  BY DEF BadgeInv, AchievementsTypeOK, TraceRow, PassRow
<1>2. PICK n \in TraceRow : talk' = [talk EXCEPT ![t] = n] /\ n.kind = talk[t].kind
  <2>1. CASE FiveMinutes(t)
    <3> DEFINE n == [talk[t] EXCEPT !.idle = TRUE]
    <3>1. n \in TraceRow /\ n.kind = talk[t].kind
      BY <1>1 DEF TraceRow
    <3>2. talk' = [talk EXCEPT ![t] = n]
      BY <2>1 DEF FiveMinutes
    <3> QED BY <3>1, <3>2
  <2>2. ASSUME NEW c \in Counts, CountRequest(t, c)
        PROVE  \E n \in TraceRow : talk' = [talk EXCEPT ![t] = n] /\ n.kind = talk[t].kind
    <3> DEFINE n == [[talk[t] EXCEPT !.count = c] EXCEPT !.idle = FALSE]
    <3>1. n \in TraceRow /\ n.kind = talk[t].kind
      BY <1>1 DEF TraceRow
    <3>2. talk' = [talk EXCEPT ![t] = n]
      BY <1>1, <2>2 DEF CountRequest
    <3> HIDE DEF n
    <3> QED BY <3>1, <3>2
  <2> QED BY <2>1, <2>2
<1>3. UNCHANGED <<owner, begun, badge, pass>>
  BY DEF FiveMinutes, CountRequest
<1> QED BY <1>1, <1>2, <1>3, TalksMove

\* The classifier gives a type to sessions that have none.
LEMMA ClassifyStep ==
  ASSUME BadgeInv, NEW r \in Passes, Classify(r)
  PROVE  BadgeInv'
<1>1. talk \in [Talks -> TraceRow] /\ pass \in [Passes -> PassRow]
  BY DEF BadgeInv, AchievementsTypeOK, TraceRow, PassRow
<1>2. ASSUME NEW t \in Talks PROVE Kind(talk[t].count) \in Kinds
  BY DEF Kind, Kinds
<1>3. talk' \in [Talks -> TraceRow]
  <2>1. \A t \in Talks : [talk[t] EXCEPT !.kind = Kind(talk[t].count)] \in TraceRow
    BY <1>1, <1>2 DEF TraceRow
  <2> QED BY <1>1, <2>1 DEF Classify
<1>4. [pc |-> "award", due |-> {}] \in PassRow
  BY DEF PassRow
<1> QED BY <1>1, <1>3, <1>4, TalksMove DEF Classify

\* A streak has a day, and the day a session.
LEMMA DeservedIsEarned ==
  ASSUME NEW d \in Staff, NEW name \in Badges, Deserves(d, name),
         name \notin {"first_step", "tool_user"}
  PROVE  \E t \in Talks : owner[t] = d /\ talk[t].kind \in Agentic
<1>1. CASE name = "consistent"
  <2>1. \E day : day \in AgenticDays(d)
    BY <1>1 DEF Deserves, Streak
  <2> QED BY <2>1 DEF AgenticDays, TracesOf
<1>2. CASE name = "going_agentic"
  BY <1>2 DEF Deserves, TracesOf, Agentic
<1>3. CASE name = "autonomous"
  BY <1>3 DEF Deserves, TracesOf, Agentic
<1> QED BY <1>1, <1>2, <1>3 DEF Badges

\* A pass selects by stored types, awards what it selected, or is lost.
LEMMA PassStep ==
  ASSUME BadgeInv, NEW r \in Passes,
         SelectDeserving(r) \/ CommitAwards(r) \/ LosePass(r)
  PROVE  BadgeInv'
<1>1. talk \in [Talks -> TraceRow] /\ pass \in [Passes -> PassRow]
  BY DEF BadgeInv, AchievementsTypeOK, TraceRow, PassRow
<1>2. UNCHANGED <<talk, owner, begun>>
  BY DEF SelectDeserving, CommitAwards, LosePass
<1>3. PICK n \in PassRow : /\ pass' = [pass EXCEPT ![r] = n]
                           /\ \A a \in n.due : Earned(a)
  <2>1. CASE SelectDeserving(r)
    <3> DEFINE due == {a \in Staff \X Badges : a \notin badge /\ Deserves(a[1], a[2])}
    <3>1. \A a \in due : Earned(a)
      BY DeservedIsEarned DEF Earned
    <3>2. [pc |-> "commit", due |-> due] \in PassRow
      BY DEF PassRow
    <3> QED BY <2>1, <3>1, <3>2 DEF SelectDeserving
  <2>2. CASE CommitAwards(r) \/ LosePass(r)
    <3>1. NoPass \in PassRow /\ NoPass.due = {}
      BY DEF NoPass, PassRow
    <3> QED BY <2>2, <3>1 DEF CommitAwards, LosePass
  <2> QED BY <2>1, <2>2
<1>4. \A a \in badge' : a \in Staff \X Badges /\ Earned(a)
  <2>1. \A a \in badge : a \in Staff \X Badges /\ Earned(a)
    BY DEF BadgeInv, AchievementsTypeOK, Earned
  <2>2. badge' = badge \/ badge' = badge \cup pass[r].due
    BY DEF SelectDeserving, CommitAwards, LosePass
  <2>3. \A a \in pass[r].due : a \in Staff \X Badges /\ Earned(a)
    BY <1>1 DEF BadgeInv, DueIsEarned, PassRow
  <2> QED BY <2>1, <2>2, <2>3
<1>5. pass' \in [Passes -> PassRow]
  BY <1>1, <1>3
<1>6. AchievementsTypeOK'
  BY <1>1, <1>2, <1>4, <1>5 DEF BadgeInv, AchievementsTypeOK, TraceRow, PassRow, Earned
<1>7. DueIsEarned'
  <2>1. \A q \in Passes : \A a \in pass'[q].due : Earned(a)
    BY <1>1, <1>3 DEF BadgeInv, DueIsEarned
  <2> QED BY <1>2, <2>1 DEF DueIsEarned, Earned
<1> QED BY <1>6, <1>7 DEF BadgeInv

\* However runs of the classifier overlap with requests and die, a badge for a type
\* has a session stored with that type (classify_sessions, award_achievements).
THEOREM BadgesAreEarned == AchievementsSpec => []AchievementsTypeOK
<1>1. BadgeInv /\ [AchievementsNext]_achievementVars => BadgeInv'
  <2> SUFFICES ASSUME BadgeInv, [AchievementsNext]_achievementVars PROVE BadgeInv'
    OBVIOUS
  <2>1. CASE UNCHANGED achievementVars
    BY <2>1 DEF achievementVars, BadgeInv, AchievementsTypeOK, DueIsEarned, Earned
  <2>2. CASE AchievementsNext
    BY <2>2, TalkStep, ClassifyStep, PassStep DEF AchievementsNext
  <2> QED BY <2>1, <2>2
<1>2. BadgeInv => AchievementsTypeOK
  BY DEF BadgeInv
<1> QED BY BadgesStart, <1>1, <1>2, PTL DEF AchievementsSpec

HIDE AchievementsAssumption
=============================================================================
