------------------------------ MODULE Accounts ------------------------------
(***************************************************************************)
(* Who may act for whom: accounts and the families of refresh tokens       *)
(* (api/app/routers/auth.py, services/auth.py), organisations, invites and *)
(* memberships (routers/orgs.py), and the licences that administrators set *)
(* (routers/billing.py, services/plans.py, core/access.py).                *)
(*                                                                         *)
(* A request is one transaction; requests overlap.  Those that read, decide *)
(* and write later go through several steps here, the others are one step. *)
(* A token or an invite may have expired at any time: it is then refused.  *)
(***************************************************************************)
EXTENDS Integers, FiniteSets

CONSTANTS
    Users,
    Orgs,
    Requests,          \* requests that can be served at once
    Nobody,
    MaxTokens,         \* bound: refresh tokens
    MaxInvites,        \* bound: invites
    MaxSeats           \* bound: the seats of a licence

TokenIds == 1..MaxTokens
InviteIds == 1..MaxInvites

ASSUME AccountsAssumption ==
    /\ Nobody \notin Users
    /\ IsFiniteSet(Requests)
    /\ {MaxTokens, MaxInvites} \subseteq Nat
    /\ MaxSeats \in Nat \ {0}

VARIABLES
    account,     \* a user's row, verified or not
    tokens,      \* refresh_tokens
    orgs,        \* orgs, with what licence_state says of them
    memberships,
    invites,     \* org_invites
    request,
    raced,       \* history: families a reuse and a rotation were at together
    crowded      \* history: organisations that were overbooked

authVars == <<account, tokens, raced>>
orgVars == <<orgs, memberships, invites, crowded>>
vars == <<account, tokens, orgs, memberships, invites, request, raced, crowded>>

-----------------------------------------------------------------------------
(* Types *)

Roles == {"owner", "member"}

(* A refresh token; a family is named by its first token, 0 is no token.   *)
Token ==
    [family : TokenIds \cup {0}, user : Users \cup {Nobody}, revoked : BOOLEAN,
     replacedBy : TokenIds \cup {0}, reused : BOOLEAN]

NoToken ==
    [family |-> 0, user |-> Nobody, revoked |-> FALSE, replacedBy |-> 0, reused |-> FALSE]

OrgRow ==
    [creator : Users \cup {Nobody}, seats : 1..MaxSeats,
     licence : {"active", "grace", "read_only"}]

Membership ==
    [org : Orgs, user : Users, role : Roles]

Invite ==
    [org : Orgs, user : Users, role : Roles, accepted : BOOLEAN]

NoInvite == [org |-> "none"]

Request ==
    [pc : {"idle", "lock", "revoke", "update", "rotate", "commit", "count", "invite",
           "join", "accept"},
     token   : TokenIds \cup {0},
     targets : SUBSET TokenIds,              \* rows an UPDATE has found
     locks   : SUBSET TokenIds,
     writes  : [TokenIds -> Token],          \* not committed
     user    : Users \cup {Nobody},
     org     : Orgs \cup {"none"},
     seats   : 0..MaxSeats,                  \* as loaded
     invite  : InviteIds \cup {0},
     joins   : BOOLEAN]                      \* no membership was found

Idle ==
    [pc |-> "idle", token |-> 0, targets |-> {}, locks |-> {},
     writes |-> [t \in TokenIds |-> NoToken], user |-> Nobody, org |-> "none",
     seats |-> 0, invite |-> 0, joins |-> FALSE]

TypeOK ==
    /\ account \in [Users -> {"none", "unverified", "verified"}]
    /\ tokens \in [TokenIds -> Token]
    /\ \A t \in TokenIds : tokens[t].family = 0 <=> tokens[t] = NoToken
    /\ orgs \in [Orgs -> OrgRow]
    /\ memberships \subseteq Membership
    /\ invites \in [InviteIds -> Invite \cup {NoInvite}]
    /\ request \in [Requests -> Request]
    /\ raced \subseteq TokenIds
    /\ crowded \subseteq Orgs

Init ==
    /\ account = [u \in Users |-> "none"]
    /\ tokens = [t \in TokenIds |-> NoToken]
    /\ orgs = [o \in Orgs |-> [creator |-> Nobody, seats |-> 1, licence |-> "active"]]
    /\ memberships = {}
    /\ invites = [i \in InviteIds |-> NoInvite]
    /\ request = [r \in Requests |-> Idle]
    /\ raced = {}
    /\ crowded = {}

Becomes(r, state) == request' = [request EXCEPT ![r] = state]

(* An error answer or a crash: the transaction is rolled back.             *)
Fail(r) ==
    /\ request[r].pc # "idle"
    /\ Becomes(r, Idle)
    /\ UNCHANGED <<authVars, orgVars>>

-----------------------------------------------------------------------------
(* Accounts *)

Signup(u) ==
    /\ account[u] = "none"
    /\ account' = [account EXCEPT ![u] = "unverified"]
    /\ UNCHANGED <<tokens, raced, orgVars, request>>

VerifyEmail(u) ==
    /\ account[u] = "unverified"
    /\ account' = [account EXCEPT ![u] = "verified"]
    /\ UNCHANGED <<tokens, raced, orgVars, request>>

(* Ids no token has or is about to have.                                   *)
FreeTokens ==
    {t \in TokenIds : tokens[t] = NoToken /\ \A r \in Requests : request[r].writes[t] = NoToken}

FreeToken == CHOOSE t \in FreeTokens : TRUE

(* Mutant: a login gives its token no family.                              *)
IssuedAlone(t, family, user) ==
    [NoToken EXCEPT !.family = family, !.user = user]

(* create_refresh_token, _issue_pair; a login starts a family.             *)
Issued(t, family, user) ==
    [NoToken EXCEPT !.family = IF family = 0 THEN t ELSE family, !.user = user]

Login(u) ==
    /\ account[u] = "verified"
    /\ FreeTokens # {}
    /\ tokens' = [tokens EXCEPT ![FreeToken] = Issued(FreeToken, 0, u)]
    /\ UNCHANGED <<account, raced, orgVars, request>>

-----------------------------------------------------------------------------
(* refresh *)

FamilyOf(r) == tokens[request[r].token].family

Family(f) == {t \in TokenIds : tokens[t].family = f}

Locked(r, T) == \E q \in Requests \ {r} : request[q].locks \cap T # {}

(* A client presents any token it was given, the last one or an old one.   *)
StartRefresh(r, t) ==
    /\ request[r].pc = "idle"
    /\ tokens[t] # NoToken
    /\ Becomes(r, [Idle EXCEPT !.pc = "lock", !.token = t])
    /\ UNCHANGED <<authVars, orgVars>>

(* Two requests are at a family, and one of them has found a reuse.        *)
Race(r, f) ==
    raced' = IF \E q \in Requests \ {r} :
                   /\ request[q].pc \in {"revoke", "update", "rotate", "commit"}
                   /\ FamilyOf(q) = f
             THEN raced \cup {f}
             ELSE raced

(* Mutant: the row is read without a lock.                                 *)
ReadToken(r) ==
    LET me == request[r] IN
    /\ me.pc = "lock"
    /\ Becomes(r, [me EXCEPT !.pc = IF tokens[me.token].revoked THEN "revoke" ELSE "rotate"])
    /\ Race(r, tokens[me.token].family)
    /\ UNCHANGED <<account, tokens, orgVars>>

(* SELECT ... FOR UPDATE: the row as it is once nobody else has it.        *)
LockToken(r) ==
    LET me == request[r]
        t == me.token
    IN
    /\ me.pc = "lock"
    /\ ~Locked(r, {t})
    /\ Becomes(r, [me EXCEPT !.locks = {t},
                             !.pc = IF tokens[t].revoked THEN "revoke" ELSE "rotate"])
    /\ Race(r, tokens[t].family)
    /\ UNCHANGED <<account, tokens, orgVars>>

(* Mutant: only the token itself and the one that replaced it.             *)
FindReplacement(r) ==
    LET me == request[r] IN
    /\ me.pc = "revoke"
    /\ Becomes(r, [me EXCEPT !.pc = "update",
                             !.targets = {me.token, tokens[me.token].replacedBy} \ {0}])
    /\ UNCHANGED <<authVars, orgVars>>

(* A revoked token came back: the UPDATE of its family finds the rows that *)
(* are committed when it starts, and then waits for those that are locked. *)
FindFamily(r) ==
    LET me == request[r] IN
    /\ me.pc = "revoke"
    /\ Becomes(r, [me EXCEPT !.pc = "update", !.targets = Family(FamilyOf(r))])
    /\ UNCHANGED <<authVars, orgVars>>

RevokeFamily(r) ==
    LET me == request[r] IN
    /\ me.pc = "update"
    /\ ~Locked(r, me.targets)
    /\ Becomes(r, [me EXCEPT !.pc = "commit", !.locks = me.targets,
           !.writes = [t \in TokenIds |->
               IF t \in me.targets
               THEN [tokens[t] EXCEPT !.revoked = TRUE, !.reused = TRUE]
               ELSE me.writes[t]]])
    /\ UNCHANGED <<authVars, orgVars>>

(* The token is replaced by a child in its family.                         *)
Rotate(r) ==
    LET me == request[r]
        t == me.token
        child == FreeToken
    IN
    /\ me.pc = "rotate"
    /\ FreeTokens # {}
    /\ Becomes(r, [me EXCEPT !.pc = "commit",
           !.writes[t] = [tokens[t] EXCEPT !.revoked = TRUE, !.replacedBy = child],
           !.writes[child] = Issued(child, tokens[t].family, tokens[t].user)])
    /\ UNCHANGED <<authVars, orgVars>>

CommitRefresh(r) ==
    LET me == request[r] IN
    /\ me.pc = "commit"
    /\ tokens' = [t \in TokenIds |->
                     IF me.writes[t] # NoToken THEN me.writes[t] ELSE tokens[t]]
    /\ Becomes(r, Idle)
    /\ UNCHANGED <<account, raced, orgVars>>

-----------------------------------------------------------------------------
(* Organisations and licences *)

Exists(o) == orgs[o].creator # Nobody

Member(o, u) == {m \in memberships : m.org = o /\ m.user = u}

Members(o) == {m \in memberships : m.org = o}

Open(o) == {i \in InviteIds : invites[i] # NoInvite /\ invites[i].org = o /\ ~invites[i].accepted}

CreateOrg(u, o) ==
    /\ account[u] = "verified"
    /\ ~Exists(o)
    /\ orgs' = [orgs EXCEPT ![o].creator = u]
    /\ memberships' = memberships \cup {[org |-> o, user |-> u, role |-> "owner"]}
    /\ UNCHANGED <<authVars, invites, crowded, request>>

(* licence_state as time passes.                                           *)
LicenceRunsOut(o) ==
    /\ Exists(o)
    /\ orgs[o].licence # "read_only"
    /\ orgs' = [orgs EXCEPT ![o].licence = IF @ = "active" THEN "grace" ELSE "read_only"]
    /\ UNCHANGED <<authVars, memberships, invites, crowded, request>>

(* Requests that have counted the members and go on to make an invite.     *)
Inviting(o) == {r \in Requests : request[r].pc = "invite" /\ request[r].org = o}

(* Seats that are taken, or promised by an invite.                         *)
Booked(o) == Cardinality(Members(o)) + Cardinality(Open(o)) + Cardinality(Inviting(o))

(* An administrator may sell fewer seats than are booked.                  *)
SetLicence(o, seats, licence) ==
    /\ Exists(o)
    /\ orgs' = [orgs EXCEPT ![o].seats = seats, ![o].licence = licence]
    /\ crowded' = IF seats < Booked(o) THEN crowded \cup {o} ELSE crowded
    /\ UNCHANGED <<authVars, memberships, invites, request>>

-----------------------------------------------------------------------------
(* invite_member *)

(* The organisation is loaded with the owner's membership.                 *)
StartInvite(r, u, o) ==
    /\ request[r].pc = "idle"
    /\ [org |-> o, user |-> u, role |-> "owner"] \in memberships
    /\ orgs[o].licence # "read_only"
    /\ Becomes(r, [Idle EXCEPT !.pc = "count", !.user = u, !.org = o,
                               !.seats = orgs[o].seats])
    /\ UNCHANGED <<authVars, orgVars>>

(* Mutant: the last seat is counted as free when it is taken.              *)
SeatFreeAtLimit(o, seats) == Cardinality(Members(o)) <= seats

SeatFree(o, seats) == Cardinality(Members(o)) < seats

(* The count sees members only: invites that are open or being made do not *)
(* count, nor do seats that were sold off since the organisation was read. *)
Overbooks(o, seats) ==
    /\ Booked(o) >= orgs[o].seats
    /\ Open(o) # {} \/ Inviting(o) # {} \/ seats > orgs[o].seats

CountMembers(r) ==
    LET me == request[r] IN
    /\ me.pc = "count"
    /\ SeatFree(me.org, me.seats)
    /\ Becomes(r, [me EXCEPT !.pc = "invite"])
    /\ crowded' = IF Overbooks(me.org, me.seats) THEN crowded \cup {me.org} ELSE crowded
    /\ UNCHANGED <<authVars, orgs, memberships, invites>>

SaveInvite(r, invitee, as) ==
    LET me == request[r]
        free == {i \in InviteIds : invites[i] = NoInvite}
    IN
    /\ me.pc = "invite"
    /\ free # {}
    /\ invites' = [invites EXCEPT ![CHOOSE i \in free : TRUE] =
                      [org |-> me.org, user |-> invitee, role |-> as, accepted |-> FALSE]]
    /\ Becomes(r, Idle)
    /\ UNCHANGED <<authVars, orgs, memberships, crowded>>

-----------------------------------------------------------------------------
(* accept_invite *)

StartAccept(r, u, i) ==
    /\ request[r].pc = "idle"
    /\ account[u] = "verified"
    /\ invites[i] # NoInvite
    /\ invites[i].user = u
    /\ ~invites[i].accepted
    /\ Becomes(r, [Idle EXCEPT !.pc = "join", !.user = u, !.org = invites[i].org,
                               !.invite = i])
    /\ UNCHANGED <<authVars, orgVars>>

FindMembership(r) ==
    LET me == request[r] IN
    /\ me.pc = "join"
    /\ Becomes(r, [me EXCEPT !.pc = "accept", !.joins = Member(me.org, me.user) = {}])
    /\ UNCHANGED <<authVars, orgVars>>

(* Mutant: the table has no unique constraint.                             *)
MayJoinAgain(me) == TRUE

(* The table takes one membership of a user in an organisation; a request  *)
(* that finds one where it saw none fails, with its invite.                *)
MayJoin(me) == me.joins => Member(me.org, me.user) = {}

SaveAccept(r) ==
    LET me == request[r]
        joined == [org |-> me.org, user |-> me.user, role |-> invites[me.invite].role]
    IN
    /\ me.pc = "accept"
    /\ MayJoin(me)
    /\ memberships' = IF me.joins THEN memberships \cup {joined} ELSE memberships
    /\ invites' = [invites EXCEPT ![me.invite].accepted = TRUE]
    /\ Becomes(r, Idle)
    /\ UNCHANGED <<authVars, orgs, crowded>>

-----------------------------------------------------------------------------

AuthStep(r) ==
    \/ \E t \in TokenIds : StartRefresh(r, t)
    \/ LockToken(r) \/ FindFamily(r) \/ RevokeFamily(r) \/ Rotate(r) \/ CommitRefresh(r)

OrgStep(r) ==
    \/ \E u \in Users, o \in Orgs : StartInvite(r, u, o)
    \/ CountMembers(r)
    \/ \E u \in Users, as \in Roles : SaveInvite(r, u, as)
    \/ \E u \in Users, i \in InviteIds : StartAccept(r, u, i)
    \/ FindMembership(r) \/ SaveAccept(r)

Admin ==
    \/ \E u \in Users, o \in Orgs : CreateOrg(u, o)
    \/ \E o \in Orgs : LicenceRunsOut(o)
    \/ \E o \in Orgs, n \in 1..MaxSeats, licence \in {"active", "grace", "read_only"} :
          SetLicence(o, n, licence)

Next ==
    \/ \E u \in Users : Signup(u) \/ VerifyEmail(u) \/ Login(u)
    \/ \E r \in Requests : AuthStep(r) \/ OrgStep(r) \/ Fail(r)
    \/ Admin

Spec == Init /\ [][Next]_vars

-----------------------------------------------------------------------------
(* Properties *)

(* A client that refreshes twice at once, retries a refresh whose answer   *)
(* was lost or goes back to an old token does not split its session: at    *)
(* any time at most one token of a family is not revoked.                  *)
OneLiveTokenPerFamily ==
    \A t, u \in TokenIds :
        \/ t = u \/ tokens[t].family # tokens[u].family
        \/ tokens[t] = NoToken \/ tokens[t].revoked \/ tokens[u].revoked

(* A token that comes back after it was revoked ends its family: no token  *)
(* of it is left to refresh with, unless another refresh of the family was *)
(* under way.                                                              *)
ReuseEndsTheFamily ==
    \A t, u \in TokenIds :
        \/ ~tokens[t].reused \/ tokens[t].family \in raced
        \/ tokens[u].family # tokens[t].family
        \/ tokens[u].revoked

(* A user is at most once a member of an organisation: its creator as its  *)
(* owner, any other in a role that an invite the user accepted gave, and   *)
(* who accepted an invite is a member, also when a user accepts two        *)
(* invites at once.                                                        *)
MembershipsWereAccepted ==
    \A o \in Orgs, u \in Users :
        LET accepted == {i \in InviteIds :
                            /\ invites[i] # NoInvite /\ invites[i].accepted
                            /\ invites[i].org = o /\ invites[i].user = u}
            granted == IF u = orgs[o].creator THEN {"owner"}
                       ELSE {invites[i].role : i \in accepted}
        IN
        /\ Cardinality(Member(o, u)) = IF granted = {} THEN 0 ELSE 1
        /\ \A m \in Member(o, u) : m.role \in granted

(* An organisation has a seat for every member and for every invite that   *)
(* is open, although members are counted when an invite is made and seats  *)
(* are taken when it is accepted, and also when several invites are open   *)
(* or made at once: as long as it was not sold fewer seats than are booked *)
(* and no invite was made, on a count of members alone, when the seats     *)
(* were booked already.                                                    *)
SeatsSuffice ==
    \A o \in Orgs :
        o \notin crowded =>
            Cardinality(Members(o)) + Cardinality(Open(o)) <= orgs[o].seats
=============================================================================
