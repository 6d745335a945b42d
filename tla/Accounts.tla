----------------------------- MODULE Accounts -----------------------------
(***************************************************************************)
(* How accounts of the admin service come to be: registration, accepting   *)
(* an invitation, the first single sign-on and SCIM provisioning each      *)
(* SELECT an address from users and then INSERT it, in requests of their   *)
(* own; only the UNIQUE constraint on the address decides between them.    *)
(* SCIM keeps an address as the directory spells it, everyone else lowers  *)
(* its case, so one person may answer to two rows.                         *)
(***************************************************************************)
EXTENDS Integers

CONSTANTS
    People,       \* who is invited, provisioned or registers
    Joiners,      \* requests that try to create an account
    Invitations   \* rows of user_invitations, each created at most once

VARIABLES
    row,        \* users: status and whose password each address has
    invitation, \* user_invitations: status and invited person
    joiner      \* progress of each request that creates an account

accountVars == <<row, invitation, joiner>>

Spellings == {"lower", "mixed"}
Addresses == People \X Spellings
NoRow == [status |-> "absent", owner |-> "nobody"]
NoInvitation(p) == [status |-> "absent", person |-> p]
NoJoiner(p) == [pc |-> "idle", person |-> p, by |-> "none"]

AccountsTypeOK ==
    /\ row \in [Addresses -> [status : {"absent", "active", "suspended"},
                              owner : Joiners \cup {"nobody", "scim"}]]
    /\ invitation \in [Invitations ->
                          [status : {"absent", "open", "lapsed", "accepted", "deleted"},
                           person : People]]
    /\ joiner \in [Joiners -> [pc : {"idle", "invited", "free", "joined", "refused"},
                               person : People,
                               by : Invitations \cup {"none", "sso"}]]

AccountsInit ==
    /\ row = [a \in Addresses |-> NoRow]
    /\ \E p \in People :
          /\ invitation = [i \in Invitations |-> NoInvitation(p)]
          /\ joiner = [j \in Joiners |-> NoJoiner(p)]

Address(p) == <<p, "lower">>
Taken(a) == row[a].status # "absent"
Step(j, pc) == joiner' = [joiner EXCEPT ![j].pc = pc]

---------------------------------------------------------------------------
(* Invitations.                                                            *)

\* create_invitation asks nothing of the address; a bulk upload skips an
\* address with an account or a pending invitation.
Open(i, p) ==
    /\ invitation[i].status = "absent"
    /\ invitation' = [invitation EXCEPT ![i] = [status |-> "open", person |-> p]]

Invite(i, p) == Open(i, p) /\ UNCHANGED <<row, joiner>>

BulkInvite(i, p) ==
    /\ ~Taken(Address(p))
    /\ \A k \in Invitations : ~ /\ invitation[k].person = p
                                /\ invitation[k].status \in {"open", "lapsed"}
    /\ Open(i, p)
    /\ UNCHANGED <<row, joiner>>

Lapse(i) ==
    /\ invitation[i].status = "open"
    /\ invitation' = [invitation EXCEPT ![i].status = "lapsed"]
    /\ UNCHANGED <<row, joiner>>

\* DELETE ... WHERE accepted_at IS NULL.
RevokeInvitation(i) ==
    /\ invitation[i].status \in {"open", "lapsed"}
    /\ invitation' = [invitation EXCEPT ![i].status = "deleted"]
    /\ UNCHANGED <<row, joiner>>

---------------------------------------------------------------------------
(* Creating an account.                                                    *)

\* accept_invitation: SELECT the open invitation of the token.
PresentInvitation(j, i) ==
    /\ joiner[j].pc = "idle"
    /\ invitation[i].status = "open"
    /\ joiner' = [joiner EXCEPT ![j] = [pc |-> "invited", by |-> i,
                                        person |-> invitation[i].person]]
    /\ UNCHANGED <<row, invitation>>

\* SELECT id FROM users WHERE email: 409 when it is there.
CheckInvited(j) ==
    /\ joiner[j].pc = "invited"
    /\ Step(j, IF Taken(Address(joiner[j].person)) THEN "refused" ELSE "free")
    /\ UNCHANGED <<row, invitation>>

\* register: the same SELECT, without an invitation.
CheckRegistered(j, p) ==
    /\ joiner[j].pc = "idle"
    /\ joiner' = [joiner EXCEPT ![j] =
          [pc |-> IF Taken(Address(p)) THEN "refused" ELSE "free",
           person |-> p, by |-> "none"]]
    /\ UNCHANGED <<row, invitation>>

\* oidc_callback: an active account signs in, a suspended one is refused, an
\* unknown address is given an account without a password.
SignOn(j, p) ==
    /\ joiner[j].pc = "idle"
    /\ joiner' = [joiner EXCEPT ![j] =
          [pc |-> CASE row[Address(p)].status = "active" -> "joined"
                    [] row[Address(p)].status = "suspended" -> "refused"
                    [] OTHER -> "free",
           person |-> p, by |-> "sso"]]
    /\ UNCHANGED <<row, invitation>>

\* INSERT INTO users, UNIQUE (email): a second insert fails the request (500).
InsertIgnoringUnique(j) ==
    /\ joiner[j].pc = "free"
    /\ row' = [row EXCEPT ![Address(joiner[j].person)] = [status |-> "active", owner |-> j]]
    /\ Step(j, "joined")
    /\ UNCHANGED invitation

Insert(j) ==
    LET a == Address(joiner[j].person) IN
    /\ joiner[j].pc = "free"
    /\ \/ /\ Taken(a)
          /\ Step(j, "refused")
          /\ UNCHANGED <<row, invitation>>
       \/ /\ ~Taken(a)
          /\ row' = [row EXCEPT ![a] = [status |-> "active", owner |-> j]]
          /\ Step(j, "joined")
          \* UPDATE ... SET accepted_at: no row is touched when it was deleted.
          /\ invitation' = [i \in Invitations |->
                IF i = joiner[j].by /\ invitation[i].status # "deleted"
                THEN [invitation[i] EXCEPT !.status = "accepted"]
                ELSE invitation[i]]

---------------------------------------------------------------------------
(* SCIM.                                                                   *)

\* POST /Users: an address that is there is answered as if just created.
Provision(p, spelling, status) ==
    /\ ~Taken(<<p, spelling>>)
    /\ row' = [row EXCEPT ![<<p, spelling>>] = [status |-> status, owner |-> "scim"]]
    /\ UNCHANGED <<invitation, joiner>>

\* PUT /Users/{id} and the administrator's set_user_status; PATCH can only
\* reactivate, what it does to deactivate is rolled back.
SetStatus(a, status) ==
    /\ Taken(a)
    /\ row[a].status # status
    /\ row' = [row EXCEPT ![a].status = status]
    /\ UNCHANGED <<invitation, joiner>>

AccountsNext ==
    \/ \E i \in Invitations : \/ \E p \in People : Invite(i, p) \/ BulkInvite(i, p)
                              \/ Lapse(i) \/ RevokeInvitation(i)
    \/ \E j \in Joiners : \/ \E i \in Invitations : PresentInvitation(j, i)
                          \/ \E p \in People : CheckRegistered(j, p) \/ SignOn(j, p)
                          \/ CheckInvited(j) \/ Insert(j)
    \/ \E status \in {"active", "suspended"} :
          \/ \E p \in People, s \in Spellings : Provision(p, s, status)
          \/ \E a \in Addresses : SetStatus(a, status)

AccountsSpec == AccountsInit /\ [][AccountsNext]_accountVars

---------------------------------------------------------------------------
\* Whoever is told 201 by register or accept_invitation holds the account:
\* its password is the one they chose, however many requests raced for the
\* address, and nobody else was told the same.
JoinedOwnsAccount ==
    \A j \in Joiners :
        joiner[j].pc = "joined" /\ joiner[j].by # "sso"
            => row[Address(joiner[j].person)].owner = j

\* An invitation that was revoked before it was used lets nobody in
\* (docs/api/auth.md, revoke invitation).
RevokedLetsNobodyIn ==
    \A j \in Joiners, i \in Invitations :
        joiner[j].pc = "joined" /\ joiner[j].by = i => invitation[i].status # "deleted"

\* scim.py: a person whose provisioned account is deactivated can no longer
\* sign on.
DeprovisionedStaysOut ==
    [][\A j \in Joiners :
          joiner[j].pc # "joined" /\ joiner'[j].pc = "joined"
             => row[<<joiner'[j].person, "mixed">>].status # "suspended"]_accountVars
=============================================================================
