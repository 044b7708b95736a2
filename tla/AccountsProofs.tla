--------------------------- MODULE AccountsProofs ---------------------------
(***************************************************************************)
(* Theorems about Accounts, for any users, organisations, numbers of       *)
(* concurrent requests and bounds.                                         *)
(***************************************************************************)
EXTENDS Accounts, FiniteSetTheorems, TLAPS

-----------------------------------------------------------------------------
(* Type correctness *)

NoWrites == [t \in TokenIds |-> NoToken]

LEMMA NoTokenTyped == NoToken \in Token
  BY DEF NoToken, Token

LEMMA IdleTyped == Idle \in Request
  BY AccountsAssumption, NoTokenTyped DEF Idle, Request

LEMMA InitTyped == Init => TypeOK
  <1> SUFFICES ASSUME Init PROVE TypeOK
    OBVIOUS
  <1>1. tokens \in [TokenIds -> Token]
    BY NoTokenTyped DEF Init
  <1>2. \A t \in TokenIds : tokens[t].family = 0 <=> tokens[t] = NoToken
    BY DEF Init, NoToken
  <1>3. orgs \in [Orgs -> OrgRow]
    BY AccountsAssumption DEF Init, OrgRow
  <1>4. request \in [Requests -> Request]
    BY IdleTyped DEF Init
  <1>5. invites \in [InviteIds -> Invite \cup {NoInvite}]
    BY DEF Init
  <1> QED
    BY <1>1, <1>2, <1>3, <1>4, <1>5 DEF Init, TypeOK

(* A request that moves on, while every table stays as it is.              *)
LEMMA MovesTyped ==
  ASSUME TypeOK, NEW r \in Requests, NEW q \in Request, Becomes(r, q),
         UNCHANGED <<account, tokens, orgVars>>, raced' \subseteq TokenIds
  PROVE  TypeOK'
  BY DEF TypeOK, Becomes, orgVars

LEMMA FreeTokenFound ==
  ASSUME FreeTokens # {}
  PROVE  /\ FreeToken \in TokenIds
         /\ tokens[FreeToken] = NoToken
         /\ \A r \in Requests : request[r].writes[FreeToken] = NoToken
  BY DEF FreeToken, FreeTokens

LEMMA IssuedTyped ==
  ASSUME NEW t \in TokenIds, NEW f \in TokenIds \cup {0}, NEW u \in Users \cup {Nobody}
  PROVE  /\ Issued(t, f, u) \in Token
         /\ Issued(t, f, u).family = IF f = 0 THEN t ELSE f
         /\ Issued(t, f, u).family # 0
         /\ Issued(t, f, u) # NoToken
         /\ ~Issued(t, f, u).revoked
         /\ ~Issued(t, f, u).reused
  <1> DEFINE g == IF f = 0 THEN t ELSE f
  <1>1. g \in TokenIds /\ g # 0
    BY DEF TokenIds
  <1>2. NoToken.family = 0 /\ ~NoToken.revoked /\ ~NoToken.reused
    BY DEF NoToken
  <1>3. Issued(t, f, u) = [NoToken EXCEPT !.family = g, !.user = u]
    BY DEF Issued
  <1> HIDE DEF g
  <1>4. /\ Issued(t, f, u) \in Token
        /\ Issued(t, f, u).family = g
        /\ Issued(t, f, u).revoked = NoToken.revoked
        /\ Issued(t, f, u).reused = NoToken.reused
    BY <1>1, <1>3, NoTokenTyped DEF Token
  <1>5. Issued(t, f, u) # NoToken
    BY <1>1, <1>2, <1>4
  <1> QED
    BY <1>1, <1>2, <1>4, <1>5 DEF g

-----------------------------------------------------------------------------
(* The inductive invariant of refreshes *)

(* From its SELECT ... FOR UPDATE to its commit a refresh is at a family.  *)
Refreshing == {"revoke", "update", "rotate", "commit"}

At(r) == request[r].pc \in Refreshing

(* The token that was presented is there.                                  *)
Presented(r) ==
    request[r].pc \in Refreshing \cup {"lock"} =>
        request[r].token \in TokenIds /\ tokens[request[r].token] # NoToken

(* A request has nothing to write before its last step, no rows to revoke  *)
(* before it looks for them, and no locks before it takes one.             *)
Quiet(r) ==
    /\ ~At(r) => request[r].locks = {}
    /\ request[r].pc \notin {"update", "commit"} => request[r].targets = {}
    /\ request[r].pc # "commit" => request[r].writes = NoWrites

(* The locks are on its token and on others of the family.                 *)
Holds(r) ==
    At(r) => /\ request[r].token \in request[r].locks
             /\ request[r].locks \subseteq Family(FamilyOf(r))

(* What was decided about the token, and about the family, still holds.    *)
Judged(r) ==
    /\ request[r].pc = "rotate" => ~tokens[request[r].token].revoked
    /\ request[r].pc = "update" => /\ request[r].token \in request[r].targets
                                   /\ request[r].targets \subseteq Family(FamilyOf(r))

(* What a commit writes: the token revoked and a live child of its family, *)
(* where there was no token ...                                            *)
Rotates(r) ==
    LET me == request[r] IN
    /\ ~tokens[me.token].revoked
    /\ me.writes[me.token].revoked
    /\ me.writes[me.token].family = FamilyOf(r)
    /\ me.writes[me.token].reused = tokens[me.token].reused
    /\ \E child \in TokenIds :
         /\ tokens[child] = NoToken
         /\ me.writes[child] # NoToken
         /\ me.writes[child].family = FamilyOf(r)
         /\ ~me.writes[child].reused
         /\ \A x \in TokenIds \ {me.token, child} : me.writes[x] = NoToken

(* ... or its targets, all revoked.                                        *)
Revokes(r) ==
    LET me == request[r] IN
    /\ me.token \in me.targets
    /\ me.targets = me.locks
    /\ \A x \in me.targets : /\ me.writes[x].revoked
                             /\ me.writes[x].family = FamilyOf(r)
    /\ \A x \in TokenIds \ me.targets : me.writes[x] = NoToken

Commits(r) == request[r].pc = "commit" => Rotates(r) \/ Revokes(r)

(* The targets are the whole family unless somebody else is at it.         *)
Whole(r) ==
    At(r) /\ request[r].token \in request[r].targets /\ FamilyOf(r) \notin raced =>
        request[r].targets = Family(FamilyOf(r))

RequestInv(r) ==
    Presented(r) /\ Quiet(r) /\ Holds(r) /\ Judged(r) /\ Commits(r) /\ Whole(r)

(* No two requests lock, or write, one row.                                *)
Apart ==
    \A r, q \in Requests : r # q =>
        /\ request[r].locks \cap request[q].locks = {}
        /\ \A x \in TokenIds : request[r].writes[x] = NoToken \/ request[q].writes[x] = NoToken

(* Two requests that are at a family are known to be.                      *)
Known ==
    \A r, q \in Requests :
        r # q /\ At(r) /\ At(q) /\ FamilyOf(r) = FamilyOf(q) => FamilyOf(r) \in raced

(* The first token of a family is there, so a login starts a new one.      *)
FamiliesNamed ==
    \A t \in TokenIds : tokens[t] # NoToken => tokens[tokens[t].family] # NoToken

RefreshInv ==
    /\ TypeOK
    /\ \A r \in Requests : RequestInv(r)
    /\ Apart
    /\ Known
    /\ FamiliesNamed
    /\ OneLiveTokenPerFamily
    /\ ReuseEndsTheFamily

LEMMA InitInv == Init => RefreshInv
  <1> SUFFICES ASSUME Init PROVE RefreshInv
    OBVIOUS
  <1>1. \A r \in Requests : /\ request[r].pc = "idle" /\ request[r].locks = {}
                            /\ request[r].targets = {} /\ request[r].writes = NoWrites
    BY DEF Init, Idle, NoWrites
  <1>2. \A t \in TokenIds : tokens[t] = NoToken /\ ~tokens[t].reused
    BY DEF Init, NoToken
  <1>3. \A r \in Requests : RequestInv(r)
    BY <1>1 DEF RequestInv, Presented, Quiet, Holds, Judged, Commits, Whole, At, Refreshing
  <1>4. Apart /\ Known
    BY <1>1 DEF Apart, Known, At, Refreshing, NoWrites
  <1> QED
    BY <1>2, <1>3, <1>4, InitTyped DEF RefreshInv, FamiliesNamed, OneLiveTokenPerFamily, ReuseEndsTheFamily

LEMMA FamilyTyped ==
  ASSUME TypeOK, NEW t \in TokenIds
  PROVE  /\ tokens[t] \in Token
         /\ tokens[t].family \in TokenIds \cup {0}
         /\ tokens[t].family = 0 <=> tokens[t] = NoToken
         /\ 0 \notin TokenIds
  BY DEF TypeOK, Token, TokenIds

(* Whatever another request or a login does to tokens that are not there,  *)
(* or not locked, a request keeps what it relies on.                       *)
LEMMA OthersKeep ==
  ASSUME RefreshInv, NEW q \in Requests, request'[q] = request[q],
         \A x \in TokenIds : tokens[x] # NoToken =>
             tokens'[x] # NoToken /\ tokens'[x].family = tokens[x].family,
         \A x \in request[q].locks : tokens'[x] = tokens[x],
         \A x \in TokenIds : request[q].writes[x] # NoToken /\ tokens[x] = NoToken =>
             tokens'[x] = NoToken,
         raced \subseteq raced',
         \A x \in TokenIds :
             At(q) /\ tokens[x] = NoToken /\ tokens'[x] # NoToken /\ tokens'[x].family = FamilyOf(q)
                 => FamilyOf(q) \in raced
  PROVE  RequestInv(q)' /\ (At(q) => FamilyOf(q)' = FamilyOf(q))
  <1> DEFINE me == request[q]
  <1>0. RequestInv(q) /\ TypeOK /\ me \in Request /\ me.locks \subseteq TokenIds
        /\ me.targets \subseteq TokenIds
    BY DEF RefreshInv, TypeOK, Request
  <1>1. Presented(q)' /\ Quiet(q)'
    BY <1>0 DEF RequestInv, Presented, Quiet, At
  <1>2. ASSUME At(q)
        PROVE  /\ me.token \in TokenIds /\ me.token \in me.locks
               /\ tokens'[me.token] = tokens[me.token]
               /\ FamilyOf(q)' = FamilyOf(q)
               /\ FamilyOf(q) # 0 /\ FamilyOf(q) = tokens[me.token].family
    BY <1>0, <1>2, FamilyTyped DEF RequestInv, Presented, Holds, At, FamilyOf
  <1>3. ASSUME At(q), NEW x \in TokenIds, tokens[x].family = FamilyOf(q)
        PROVE  tokens[x] # NoToken /\ tokens'[x].family = FamilyOf(q)
    BY <1>0, <1>2, <1>3, FamilyTyped
  <1>4. ASSUME At(q) PROVE Family(FamilyOf(q)) \subseteq Family(FamilyOf(q))'
    BY <1>2, <1>3, <1>4 DEF Family
  <1>5. Holds(q)'
    BY <1>0, <1>2, <1>4 DEF RequestInv, Holds, At
  <1>6. Judged(q)'
    BY <1>0, <1>2, <1>4 DEF RequestInv, Judged, At, Refreshing
  <1>7. Commits(q)'
    <2> SUFFICES ASSUME me.pc = "commit" PROVE Rotates(q)' \/ Revokes(q)'
      BY DEF Commits
    <2>1. At(q)
      BY DEF At, Refreshing
    <2>2. CASE Rotates(q)
      <3>1. PICK child \in TokenIds :
              /\ tokens[child] = NoToken
              /\ me.writes[child] # NoToken
              /\ me.writes[child].family = FamilyOf(q)
              /\ ~me.writes[child].reused
              /\ \A x \in TokenIds \ {me.token, child} : me.writes[x] = NoToken
        BY <2>2 DEF Rotates
      <3>2. tokens'[child] = NoToken
        BY <3>1
      <3> QED
        BY <1>2, <2>1, <2>2, <3>1, <3>2 DEF Rotates
    <2>3. CASE Revokes(q)
      BY <1>2, <2>1, <2>3 DEF Revokes
    <2> QED
      BY <1>0, <2>2, <2>3 DEF RequestInv, Commits
  <1>8. Whole(q)'
    <2> SUFFICES ASSUME At(q), me.token \in me.targets, FamilyOf(q)' \notin raced'
                 PROVE  me.targets = Family(FamilyOf(q))'
      BY DEF Whole, At
    <2>1. FamilyOf(q) \notin raced
      BY <1>2
    <2>2. me.targets = Family(FamilyOf(q))
      BY <1>0, <2>1 DEF RequestInv, Whole
    <2>3. ASSUME NEW x \in TokenIds, tokens'[x].family = FamilyOf(q)
          PROVE  tokens[x].family = FamilyOf(q)
      <3>1. CASE tokens[x] # NoToken
        BY <2>3, <3>1
      <3>2. CASE tokens[x] = NoToken /\ tokens'[x] = NoToken
        BY <1>0, <2>3, <3>2
      <3>3. CASE tokens[x] = NoToken /\ tokens'[x] # NoToken
        BY <2>1, <2>3, <3>3
      <3> QED
        BY <3>1, <3>2, <3>3
    <2>4. Family(FamilyOf(q))' \subseteq Family(FamilyOf(q))
      BY <1>2, <2>3 DEF Family
    <2> QED
      BY <1>4, <2>2, <2>4
  <1> QED
    BY <1>1, <1>2, <1>5, <1>6, <1>7, <1>8 DEF RequestInv

(* A request that moves on while tokens stay: the others keep what they    *)
(* have, and the invariant rests on the request alone.                     *)
LEMMA Moves ==
  ASSUME RefreshInv, NEW r \in Requests, NEW q \in Request, Becomes(r, q),
         TypeOK', tokens' = tokens, raced \subseteq raced',
         RequestInv(r)',
         \A p \in Requests \ {r} :
             /\ q.locks \cap request[p].locks = {}
             /\ \A x \in TokenIds : q.writes[x] = NoToken \/ request[p].writes[x] = NoToken
             /\ At(r)' /\ At(p) /\ FamilyOf(r)' = FamilyOf(p) => FamilyOf(p) \in raced'
  PROVE  RefreshInv'
  <1>0. request'[r] = q /\ \A p \in Requests \ {r} : request'[p] = request[p]
    BY DEF RefreshInv, TypeOK, Becomes
  <1>1. \A p \in Requests \ {r} : RequestInv(p)' /\ (At(p) => FamilyOf(p)' = FamilyOf(p))
    BY <1>0, OthersKeep
  <1>2. Apart'
    BY <1>0 DEF RefreshInv, Apart
  <1>3. Known'
    <2> SUFFICES ASSUME NEW a \in Requests, NEW b \in Requests, a # b,
                        At(a)', At(b)', FamilyOf(a)' = FamilyOf(b)'
                 PROVE  FamilyOf(a)' \in raced'
      BY DEF Known
    <2>1. \A p \in Requests \ {r} : At(p)' <=> At(p)
      BY <1>0 DEF At
    <2>2. CASE a # r /\ b # r
      BY <1>1, <2>1, <2>2 DEF RefreshInv, Known
    <2>3. CASE a = r
      BY <1>1, <2>1, <2>3
    <2>4. CASE b = r
      BY <1>1, <2>1, <2>4
    <2> QED
      BY <2>2, <2>3, <2>4
  <1>4. FamiliesNamed' /\ OneLiveTokenPerFamily' /\ ReuseEndsTheFamily'
    BY DEF RefreshInv, FamiliesNamed, OneLiveTokenPerFamily, ReuseEndsTheFamily, TypeOK
  <1> QED
    BY <1>1, <1>2, <1>3, <1>4 DEF RefreshInv

(* A request that is at no family, or ends.                                *)
LEMMA MovesElsewhere ==
  ASSUME RefreshInv, NEW r \in Requests, NEW q \in Request, Becomes(r, q),
         TypeOK', tokens' = tokens, raced' = raced,
         q.pc \notin Refreshing, q.locks = {}, q.targets = {}, q.writes = NoWrites,
         q.pc = "lock" => q.token \in TokenIds /\ tokens[q.token] # NoToken
  PROVE  RefreshInv'
  <1>0. request'[r] = q
    BY DEF RefreshInv, TypeOK, Becomes
  <1>1. RequestInv(r)' /\ ~At(r)'
    BY <1>0 DEF RequestInv, Presented, Quiet, Holds, Judged, Commits, Whole, At, Refreshing
  <1> QED
    BY <1>1, Moves DEF NoWrites

LEMMA IdleEmpty ==
  /\ Idle.pc = "idle" /\ Idle.locks = {} /\ Idle.targets = {} /\ Idle.writes = NoWrites
  /\ Idle.pc \notin Refreshing
  BY DEF Idle, NoWrites, Refreshing

LEMMA FailKeeps ==
  ASSUME RefreshInv, NEW r \in Requests, Fail(r)
  PROVE  RefreshInv'
  <1>1. TypeOK'
    BY IdleTyped, MovesTyped DEF RefreshInv, Fail, authVars, TypeOK
  <1> QED
    BY <1>1, IdleTyped, IdleEmpty, MovesElsewhere DEF Fail, authVars

(* Neither tokens nor requests are touched.                                *)
LEMMA NothingMoves ==
  ASSUME RefreshInv, TypeOK', UNCHANGED <<tokens, raced, request>>
  PROVE  RefreshInv'
  BY DEF RefreshInv, RequestInv, Presented, Quiet, Holds, Judged, Commits, Rotates, Revokes, Whole,
         At, FamilyOf, Family, Apart, Known, FamiliesNamed, OneLiveTokenPerFamily,
         ReuseEndsTheFamily

LEMMA AdminKeeps ==
  ASSUME RefreshInv, Admin
  PROVE  RefreshInv'
  <1>0. TypeOK
    BY DEF RefreshInv
  <1>1. TypeOK'
    <2>1. ASSUME NEW u \in Users, NEW o \in Orgs, CreateOrg(u, o) PROVE TypeOK'
      BY <1>0, <2>1 DEF CreateOrg, TypeOK, OrgRow, Membership, Roles, authVars
    <2>2. ASSUME NEW o \in Orgs, LicenceRunsOut(o) PROVE TypeOK'
      BY <1>0, <2>2 DEF LicenceRunsOut, TypeOK, OrgRow, authVars
    <2>3. ASSUME NEW o \in Orgs, NEW n \in 1..MaxSeats,
                 NEW licence \in {"active", "grace", "read_only"}, SetLicence(o, n, licence)
          PROVE  TypeOK'
      BY ZenonT(60), <1>0, <2>3 DEF SetLicence, TypeOK, OrgRow, authVars
    <2> QED
      BY <2>1, <2>2, <2>3 DEF Admin
  <1>2. UNCHANGED <<tokens, raced, request>>
    BY DEF Admin, CreateOrg, LicenceRunsOut, SetLicence, authVars
  <1> QED
    BY <1>1, <1>2, NothingMoves

LEMMA AccountKeeps ==
  ASSUME RefreshInv, NEW u \in Users, Signup(u) \/ VerifyEmail(u)
  PROVE  RefreshInv'
  <1>1. TypeOK'
    BY DEF RefreshInv, TypeOK, Signup, VerifyEmail, orgVars
  <1> QED
    BY <1>1, NothingMoves DEF Signup, VerifyEmail

-----------------------------------------------------------------------------
(* The inductive invariant of organisations *)

(* A request for an organisation is about one that exists, an acceptance   *)
(* about an invite of the user, and who does not join is a member already. *)
Addressed(r) ==
    LET me == request[r] IN
    /\ me.pc \in {"count", "invite", "join", "accept"} =>
          me.org \in Orgs /\ me.user \in Users /\ Exists(me.org)
    /\ me.pc \in {"join", "accept"} =>
          /\ me.invite \in InviteIds
          /\ invites[me.invite] # NoInvite
          /\ invites[me.invite].org = me.org
          /\ invites[me.invite].user = me.user
    /\ me.pc = "accept" /\ ~me.joins => Member(me.org, me.user) # {}

Accepted(i) == invites[i] # NoInvite /\ invites[i].accepted

(* What a membership rests on.                                             *)
GrantedTo(m) ==
    IF m.user = orgs[m.org].creator THEN m.role = "owner"
    ELSE \E i \in InviteIds : /\ Accepted(i)
                              /\ invites[i].org = m.org
                              /\ invites[i].user = m.user
                              /\ invites[i].role = m.role

OrgsInv ==
    /\ \A r \in Requests : Addressed(r)
    /\ \A i \in InviteIds : invites[i] # NoInvite => Exists(invites[i].org)
    /\ \A m \in memberships : Exists(m.org) /\ GrantedTo(m)
    /\ \A m, n \in memberships : m.org = n.org /\ m.user = n.user => m = n
    /\ \A o \in Orgs : Exists(o) => Member(o, orgs[o].creator) # {}
    /\ \A i \in InviteIds : Accepted(i) => Member(invites[i].org, invites[i].user) # {}

(* Both halves.                                                            *)
IInv == RefreshInv /\ OrgsInv

LEMMA OrgStepKeeps ==
  ASSUME RefreshInv, OrgsInv, NEW r \in Requests, OrgStep(r)
  PROVE  RefreshInv'
  <1> DEFINE me == request[r]
  <1>0. /\ TypeOK /\ me \in Request /\ Idle \in Request /\ Addressed(r)
        /\ me.pc \notin {"update", "commit"} \cup Refreshing =>
              me.locks = {} /\ me.targets = {} /\ me.writes = NoWrites
    BY IdleTyped DEF RefreshInv, OrgsInv, TypeOK, RequestInv, Quiet, At, Refreshing
  <1>1. ASSUME NEW u \in Users, NEW o \in Orgs, StartInvite(r, u, o) PROVE RefreshInv'
    <2> DEFINE q == [Idle EXCEPT !.pc = "count", !.user = u, !.org = o, !.seats = orgs[o].seats]
    <2>1. orgs[o].seats \in 0..MaxSeats
      BY <1>0, AccountsAssumption DEF TypeOK, OrgRow
    <2>2. q \in Request
      BY <1>0, <2>1 DEF Request
    <2>3. q.pc = "count" /\ q.locks = {} /\ q.targets = {} /\ q.writes = NoWrites
      BY <1>0, IdleEmpty DEF Request
    <2>4. Becomes(r, q) /\ UNCHANGED <<account, tokens, orgVars, raced>>
      BY <1>1 DEF StartInvite, authVars
    <2>5. TypeOK'
      BY <1>0, <2>2, <2>4, MovesTyped DEF TypeOK
    <2> HIDE DEF q
    <2> QED
      BY <2>2, <2>3, <2>4, <2>5, MovesElsewhere DEF Refreshing
  <1>2. CASE CountMembers(r)
    <2> DEFINE q == [me EXCEPT !.pc = "invite"]
    <2>1. q \in Request /\ q.pc = "invite" /\ q.locks = {} /\ q.targets = {} /\ q.writes = NoWrites
      BY <1>0, <1>2 DEF Request, CountMembers, Refreshing
    <2>2. Becomes(r, q) /\ UNCHANGED <<account, tokens, raced, orgs, memberships, invites>>
      BY <1>2 DEF CountMembers, authVars
    <2>3. crowded' \subseteq Orgs
      BY <1>0, <1>2 DEF CountMembers, TypeOK, Addressed
    <2>4. TypeOK'
      BY <1>0, <2>1, <2>2, <2>3 DEF TypeOK, Becomes
    <2> HIDE DEF q
    <2> QED
      BY <2>1, <2>2, <2>4, MovesElsewhere DEF Refreshing
  <1>3. ASSUME NEW u \in Users, NEW as \in Roles, SaveInvite(r, u, as) PROVE RefreshInv'
    <2> DEFINE i == CHOOSE n \in {m \in InviteIds : invites[m] = NoInvite} : TRUE
               new == [org |-> me.org, user |-> u, role |-> as, accepted |-> FALSE]
    <2>1. new \in Invite
      BY <1>0, <1>3 DEF SaveInvite, Addressed, Invite
    <2>2. invites' = [invites EXCEPT ![i] = new]
      BY <1>3 DEF SaveInvite
    <2>3. Becomes(r, Idle) /\ UNCHANGED <<account, tokens, raced, orgs, memberships, crowded>>
      BY <1>3 DEF SaveInvite, authVars
    <2> HIDE DEF i, new
    <2>4. TypeOK'
      BY <1>0, <2>1, <2>2, <2>3 DEF TypeOK, Becomes
    <2> QED
      BY <1>0, <2>3, <2>4, IdleEmpty, MovesElsewhere
  <1>4. ASSUME NEW u \in Users, NEW i \in InviteIds, StartAccept(r, u, i) PROVE RefreshInv'
    <2> DEFINE q == [Idle EXCEPT !.pc = "join", !.user = u, !.org = invites[i].org, !.invite = i]
    <2>1. invites[i].org \in Orgs
      BY <1>0, <1>4 DEF StartAccept, TypeOK, Invite
    <2>2. q \in Request
      BY <1>0, <2>1 DEF Request
    <2>3. q.pc = "join" /\ q.locks = {} /\ q.targets = {} /\ q.writes = NoWrites
      BY <1>0, IdleEmpty DEF Request
    <2>4. Becomes(r, q) /\ UNCHANGED <<account, tokens, orgVars, raced>>
      BY <1>4 DEF StartAccept, authVars
    <2> HIDE DEF q
    <2>5. TypeOK'
      BY <1>0, <2>2, <2>4, MovesTyped DEF TypeOK
    <2> QED
      BY <2>2, <2>3, <2>4, <2>5, MovesElsewhere DEF Refreshing
  <1>5. CASE FindMembership(r)
    <2> DEFINE b == Member(me.org, me.user) = {}
               q == [me EXCEPT !.pc = "accept", !.joins = b]
    <2>1. b \in BOOLEAN
      OBVIOUS
    <2>2. Becomes(r, q) /\ UNCHANGED <<account, tokens, orgVars, raced>>
      BY <1>5 DEF FindMembership, authVars
    <2> HIDE DEF b
    <2>3. q \in Request /\ q.pc = "accept" /\ q.locks = {} /\ q.targets = {} /\ q.writes = NoWrites
      BY <1>0, <1>5, <2>1 DEF Request, FindMembership, Refreshing
    <2> HIDE DEF q
    <2>4. TypeOK'
      BY <1>0, <2>2, <2>3, MovesTyped DEF TypeOK
    <2> QED
      BY <2>2, <2>3, <2>4, MovesElsewhere DEF Refreshing
  <1>6. CASE SaveAccept(r)
    <2>1. /\ me.org \in Orgs /\ me.user \in Users /\ me.invite \in InviteIds
          /\ invites[me.invite] \in Invite
      BY <1>0, <1>6 DEF SaveAccept, Addressed, TypeOK
    <2>2. memberships' \subseteq Membership
      BY <1>0, <1>6, <2>1 DEF SaveAccept, TypeOK, Membership, Invite
    <2>3. invites' \in [InviteIds -> Invite \cup {NoInvite}]
      BY <1>0, <1>6, <2>1 DEF SaveAccept, TypeOK, Invite
    <2>4. Becomes(r, Idle) /\ UNCHANGED <<account, tokens, raced, orgs, crowded>>
      BY <1>6 DEF SaveAccept, authVars
    <2>5. TypeOK'
      BY <1>0, <2>2, <2>3, <2>4 DEF TypeOK, Becomes
    <2> QED
      BY <1>0, <2>4, <2>5, IdleEmpty, MovesElsewhere
  <1> QED
    BY <1>1, <1>2, <1>3, <1>4, <1>5, <1>6 DEF OrgStep

-----------------------------------------------------------------------------
(* Refreshes and logins keep their invariant *)

LEMMA LockedAreThere ==
  ASSUME RefreshInv, NEW q \in Requests, NEW x \in request[q].locks
  PROVE  /\ x \in TokenIds /\ tokens[x] # NoToken /\ At(q)
         /\ tokens[x].family = FamilyOf(q)
  <1>1. TypeOK /\ RequestInv(q)
    BY DEF RefreshInv
  <1>2. At(q) /\ x \in Family(FamilyOf(q))
    BY <1>1 DEF RequestInv, Quiet, Holds
  <1>3. request[q].token \in TokenIds /\ tokens[request[q].token] # NoToken
    BY <1>1, <1>2 DEF RequestInv, Presented, At
  <1> QED
    BY <1>1, <1>2, <1>3, FamilyTyped DEF Family, FamilyOf

(* A request writes rows it locks, and rows that are not there.            *)
LEMMA WrittenAreLocked ==
  ASSUME RefreshInv, NEW q \in Requests, NEW x \in TokenIds,
         request[q].writes[x] # NoToken
  PROVE  At(q) /\ (x \in request[q].locks \/ tokens[x] = NoToken)
  <1>1. request[q].pc = "commit" /\ RequestInv(q)
    BY DEF RefreshInv, RequestInv, Quiet, NoWrites
  <1>2. At(q)
    BY <1>1 DEF At, Refreshing
  <1> QED
    BY <1>1, <1>2 DEF RequestInv, Commits, Rotates, Revokes, Holds

LEMMA LoginKeeps ==
  ASSUME RefreshInv, NEW u \in Users, Login(u)
  PROVE  RefreshInv'
  <1> DEFINE t == FreeToken
  <1>0. TypeOK
    BY DEF RefreshInv
  <1>1. /\ t \in TokenIds /\ tokens[t] = NoToken
        /\ \A r \in Requests : request[r].writes[t] = NoToken
    BY FreeTokenFound DEF Login
  <1> DEFINE new == Issued(t, 0, u)
  <1>2. /\ new \in Token /\ new.family = t /\ new.family # 0 /\ new # NoToken
        /\ ~new.revoked /\ ~new.reused
    BY <1>1, IssuedTyped
  <1>3. /\ tokens' = [tokens EXCEPT ![t] = new]
        /\ UNCHANGED <<account, raced, orgVars, request>>
    BY DEF Login
  <1> HIDE DEF t, new
  <1>4. /\ tokens'[t] = new
        /\ \A x \in TokenIds \ {t} : tokens'[x] = tokens[x]
    BY <1>0, <1>1, <1>3 DEF TypeOK
  <1>5. TypeOK'
    BY <1>0, <1>1, <1>2, <1>3 DEF TypeOK, orgVars
  <1>6. \A x \in TokenIds : tokens[x].family # t
    BY <1>0, <1>1, FamilyTyped DEF RefreshInv, FamiliesNamed
  <1>7. ASSUME NEW q \in Requests
        PROVE  RequestInv(q)' /\ (At(q) => FamilyOf(q)' = FamilyOf(q))
    <2>1. \A x \in TokenIds : tokens[x] # NoToken =>
             tokens'[x] # NoToken /\ tokens'[x].family = tokens[x].family
      BY <1>1, <1>4
    <2>2. \A x \in request[q].locks : tokens'[x] = tokens[x]
      BY <1>1, <1>4, LockedAreThere
    <2>3. \A x \in TokenIds : request[q].writes[x] # NoToken /\ tokens[x] = NoToken =>
             tokens'[x] = NoToken
      BY <1>1, <1>4
    <2>4. At(q) => FamilyOf(q) # t
      BY <1>6 DEF RefreshInv, RequestInv, Presented, At, FamilyOf
    <2>5. \A x \in TokenIds :
             At(q) /\ tokens[x] = NoToken /\ tokens'[x] # NoToken /\ tokens'[x].family = FamilyOf(q)
                 => FamilyOf(q) \in raced
      BY <1>2, <1>4, <2>4
    <2> QED
      BY <1>3, <2>1, <2>2, <2>3, <2>5, OthersKeep
  <1>8. Apart' /\ Known'
    BY <1>3, <1>7 DEF RefreshInv, Apart, Known, At
  <1>9. FamiliesNamed'
    BY <1>0, <1>1, <1>2, <1>4, FamilyTyped DEF RefreshInv, FamiliesNamed
  <1>10. OneLiveTokenPerFamily'
    BY <1>2, <1>4, <1>6 DEF RefreshInv, OneLiveTokenPerFamily
  <1>11. ReuseEndsTheFamily'
    BY <1>2, <1>3, <1>4, <1>6 DEF RefreshInv, ReuseEndsTheFamily
  <1> QED
    BY <1>5, <1>7, <1>8, <1>9, <1>10, <1>11 DEF RefreshInv

LEMMA StartRefreshKeeps ==
  ASSUME RefreshInv, NEW r \in Requests, NEW t \in TokenIds, StartRefresh(r, t)
  PROVE  RefreshInv'
  <1> DEFINE q == [Idle EXCEPT !.pc = "lock", !.token = t]
  <1>1. /\ q \in Request /\ q.pc = "lock" /\ q.token = t
        /\ q.locks = {} /\ q.targets = {} /\ q.writes = NoWrites
    BY IdleTyped, IdleEmpty DEF Request
  <1>2. /\ Becomes(r, q) /\ tokens[t] # NoToken
        /\ UNCHANGED <<account, tokens, orgVars, raced>>
    BY DEF StartRefresh, authVars
  <1> HIDE DEF q
  <1>3. TypeOK'
    BY <1>1, <1>2, MovesTyped DEF RefreshInv, TypeOK
  <1> QED
    BY <1>1, <1>2, <1>3, MovesElsewhere DEF Refreshing

LEMMA LockTokenKeeps ==
  ASSUME RefreshInv, NEW r \in Requests, LockToken(r)
  PROVE  RefreshInv'
  <1> DEFINE me == request[r]
             t == me.token
             f == tokens[t].family
             pc == IF tokens[t].revoked THEN "revoke" ELSE "rotate"
             q == [me EXCEPT !.locks = {t}, !.pc = pc]
  <1>0. TypeOK /\ me \in Request /\ RequestInv(r) /\ me.pc = "lock"
    BY DEF RefreshInv, TypeOK, LockToken
  <1>1. /\ t \in TokenIds /\ tokens[t] # NoToken
        /\ me.locks = {} /\ me.targets = {} /\ me.writes = NoWrites
    BY <1>0 DEF RequestInv, Presented, Quiet, At, Refreshing
  <1>2. Becomes(r, q) /\ ~Locked(r, {t}) /\ UNCHANGED <<account, tokens, orgVars>>
    BY <1>0 DEF LockToken
  <1>3. raced \subseteq raced' /\ raced' \subseteq TokenIds
        /\ \A p \in Requests \ {r} : At(p) /\ FamilyOf(p) = f => f \in raced'
    <2>1. f \in TokenIds
      BY <1>0, <1>1, FamilyTyped
    <2>2. Race(r, f)
      BY DEF LockToken
    <2>3. raced' = raced \/ raced' = raced \cup {f}
      BY <2>2 DEF Race
    <2>4. raced' = raced =>
            \/ f \in raced
            \/ ~\E p \in Requests \ {r} : At(p) /\ FamilyOf(p) = f
      BY <2>2 DEF Race, At, Refreshing
    <2> QED
      BY <1>0, <2>1, <2>3, <2>4 DEF TypeOK
  <1>4. /\ q \in Request /\ q.pc \in {"revoke", "rotate"} /\ q.token = t
        /\ q.locks = {t} /\ q.targets = {} /\ q.writes = NoWrites
        /\ q.pc = "rotate" => ~tokens[t].revoked
    BY <1>0, <1>1 DEF Request
  <1> HIDE DEF q, pc
  <1>5. TypeOK' /\ request'[r] = q
    BY <1>0, <1>2, <1>3, <1>4, MovesTyped DEF TypeOK, Becomes
  <1>6. At(r)' /\ FamilyOf(r)' = f
    BY <1>2, <1>4, <1>5 DEF At, Refreshing, FamilyOf
  <1>7. RequestInv(r)'
    BY <1>1, <1>2, <1>4, <1>5, <1>6
    DEF RequestInv, Presented, Quiet, Holds, Judged, Commits, Whole, Family
  <1>8. ASSUME NEW p \in Requests \ {r}
        PROVE  /\ q.locks \cap request[p].locks = {}
               /\ \A x \in TokenIds : q.writes[x] = NoToken \/ request[p].writes[x] = NoToken
               /\ At(r)' /\ At(p) /\ FamilyOf(r)' = FamilyOf(p) => FamilyOf(p) \in raced'
    BY <1>2, <1>3, <1>4, <1>6 DEF Locked, NoWrites
  <1> QED
    BY <1>2, <1>3, <1>4, <1>5, <1>7, <1>8, Moves

LEMMA FindFamilyKeeps ==
  ASSUME RefreshInv, NEW r \in Requests, FindFamily(r)
  PROVE  RefreshInv'
  <1> DEFINE me == request[r]
             F == Family(FamilyOf(r))
             q == [me EXCEPT !.pc = "update", !.targets = F]
  <1>0. TypeOK /\ me \in Request /\ RequestInv(r) /\ me.pc = "revoke" /\ At(r)
    BY DEF RefreshInv, TypeOK, FindFamily, At, Refreshing
  <1>1. Becomes(r, q) /\ UNCHANGED <<account, tokens, raced, orgVars>>
    BY DEF FindFamily, authVars
  <1>2. F \subseteq TokenIds /\ me.token \in F
    BY <1>0 DEF Family, FamilyOf, RequestInv, Presented, At
  <1> HIDE DEF F
  <1>3. /\ q \in Request /\ q.pc = "update" /\ q.token = me.token
        /\ q.locks = me.locks /\ q.targets = F /\ q.writes = NoWrites
    BY <1>0, <1>2 DEF Request, RequestInv, Quiet
  <1> HIDE DEF q
  <1>4. TypeOK' /\ request'[r] = q
    BY <1>0, <1>1, <1>3, MovesTyped DEF TypeOK, Becomes
  <1>5. At(r)' /\ FamilyOf(r)' = FamilyOf(r) /\ F = Family(FamilyOf(r))'
    BY <1>1, <1>3, <1>4 DEF At, Refreshing, FamilyOf, F, Family
  <1>6. Presented(r)' /\ Quiet(r)' /\ Holds(r)' /\ Judged(r)'
    <2>1. Presented(r)' /\ Quiet(r)'
      BY <1>0, <1>1, <1>3, <1>4, <1>5 DEF RequestInv, Presented, Quiet, At
    <2>2. Holds(r)'
      BY <1>0, <1>3, <1>4, <1>5 DEF RequestInv, Holds, F
    <2>3. Judged(r)'
      BY <1>2, <1>3, <1>4, <1>5 DEF Judged
    <2> QED
      BY <2>1, <2>2, <2>3
  <1>7. Commits(r)' /\ Whole(r)'
    BY <1>3, <1>4, <1>5 DEF Commits, Whole
  <1>8. ASSUME NEW p \in Requests \ {r}
        PROVE  /\ q.locks \cap request[p].locks = {}
               /\ \A x \in TokenIds : q.writes[x] = NoToken \/ request[p].writes[x] = NoToken
               /\ At(r)' /\ At(p) /\ FamilyOf(r)' = FamilyOf(p) => FamilyOf(p) \in raced'
    BY <1>0, <1>1, <1>3, <1>5 DEF RefreshInv, Apart, Known, NoWrites
  <1> QED
    BY <1>1, <1>3, <1>4, <1>6, <1>7, <1>8, Moves DEF RequestInv

LEMMA RevokeFamilyKeeps ==
  ASSUME RefreshInv, NEW r \in Requests, RevokeFamily(r)
  PROVE  RefreshInv'
  <1> DEFINE me == request[r]
             T == me.targets
             W == [x \in TokenIds |-> IF x \in T
                                      THEN [tokens[x] EXCEPT !.revoked = TRUE, !.reused = TRUE]
                                      ELSE me.writes[x]]
             q == [me EXCEPT !.pc = "commit", !.locks = T, !.writes = W]
  <1>0. /\ TypeOK /\ me \in Request /\ RequestInv(r) /\ me.pc = "update" /\ At(r)
        /\ me.token \in TokenIds /\ tokens[me.token] # NoToken
    BY DEF RefreshInv, TypeOK, RevokeFamily, At, Refreshing, RequestInv, Presented
  <1>1. Becomes(r, q) /\ ~Locked(r, T) /\ UNCHANGED <<account, tokens, raced, orgVars>>
    BY DEF RevokeFamily, authVars
  <1>2. me.token \in T /\ T \subseteq Family(FamilyOf(r)) /\ T \subseteq TokenIds
    BY <1>0 DEF RequestInv, Judged, Request
  <1>3. /\ \A x \in T : W[x] \in Token /\ W[x].revoked /\ W[x].family = FamilyOf(r)
        /\ \A x \in TokenIds \ T : W[x] = NoToken
    <2>1. me.writes = NoWrites
      BY <1>0 DEF RequestInv, Quiet
    <2>2. ASSUME NEW x \in T
          PROVE  W[x] \in Token /\ W[x].revoked /\ W[x].family = FamilyOf(r)
      <3>1. tokens[x] \in Token /\ tokens[x].family = FamilyOf(r)
        BY <1>0, <1>2 DEF TypeOK, Family
      <3>2. W[x] = [tokens[x] EXCEPT !.revoked = TRUE, !.reused = TRUE]
        BY <1>2
      <3> QED
        BY ZenonT(60), <3>1, <3>2 DEF Token
    <2> QED
      BY <2>1, <2>2 DEF NoWrites
  <1>4. W \in [TokenIds -> Token]
    BY <1>3, NoTokenTyped DEF Request
  <1> HIDE DEF W
  <1>5. /\ q \in Request /\ q.pc = "commit" /\ q.token = me.token
        /\ q.locks = T /\ q.targets = T /\ q.writes = W
    BY <1>0, <1>2, <1>4 DEF Request
  <1> HIDE DEF q
  <1>6. TypeOK' /\ request'[r] = q
    BY <1>0, <1>1, <1>5, MovesTyped DEF TypeOK, Becomes
  <1>7. At(r)' /\ FamilyOf(r)' = FamilyOf(r) /\ Family(FamilyOf(r))' = Family(FamilyOf(r))
    BY <1>1, <1>5, <1>6 DEF At, Refreshing, FamilyOf, Family
  <1>8. Presented(r)' /\ Quiet(r)' /\ Holds(r)' /\ Judged(r)'
    BY <1>0, <1>1, <1>2, <1>5, <1>6, <1>7
    DEF RequestInv, Presented, Quiet, Holds, Judged
  <1>9. Commits(r)'
    BY <1>1, <1>2, <1>3, <1>5, <1>6, <1>7 DEF Commits, Revokes
  <1>10. Whole(r)'
    BY <1>0, <1>1, <1>2, <1>5, <1>6, <1>7 DEF RequestInv, Whole
  <1>11. ASSUME NEW p \in Requests \ {r}
         PROVE  q.locks \cap request[p].locks = {}
    BY <1>1, <1>5 DEF Locked
  <1>12. ASSUME NEW p \in Requests \ {r}, NEW x \in TokenIds
         PROVE  q.writes[x] = NoToken \/ request[p].writes[x] = NoToken
    <2> SUFFICES ASSUME x \in T PROVE request[p].writes[x] = NoToken
      BY <1>3, <1>5
    <2>1. tokens[x] # NoToken /\ x \notin request[p].locks
      BY <1>0, <1>2, <1>5, <1>11, FamilyTyped DEF Family, FamilyOf
    <2> QED
      BY <2>1, WrittenAreLocked
  <1>13. ASSUME NEW p \in Requests \ {r}
         PROVE  At(r)' /\ At(p) /\ FamilyOf(r)' = FamilyOf(p) => FamilyOf(p) \in raced'
    BY <1>0, <1>1, <1>7 DEF RefreshInv, Known
  <1> QED
    BY <1>1, <1>5, <1>6, <1>8, <1>9, <1>10, <1>11, <1>12, <1>13, Moves DEF RequestInv

LEMMA RotateKeeps ==
  ASSUME RefreshInv, NEW r \in Requests, Rotate(r)
  PROVE  RefreshInv'
  <1> DEFINE me == request[r]
             t == me.token
             child == FreeToken
             old == [tokens[t] EXCEPT !.revoked = TRUE, !.replacedBy = child]
             new == Issued(child, tokens[t].family, tokens[t].user)
             q == [me EXCEPT !.pc = "commit", !.writes[t] = old, !.writes[child] = new]
  <1>0. /\ TypeOK /\ me \in Request /\ RequestInv(r) /\ me.pc = "rotate" /\ At(r)
        /\ t \in TokenIds /\ tokens[t] # NoToken /\ ~tokens[t].revoked
    BY DEF RefreshInv, TypeOK, Rotate, At, Refreshing, RequestInv, Presented, Judged
  <1>1. /\ child \in TokenIds /\ tokens[child] = NoToken
        /\ \A p \in Requests : request[p].writes[child] = NoToken
    BY FreeTokenFound DEF Rotate
  <1>2. child # t
    BY <1>0, <1>1
  <1>3. tokens[t] \in Token /\ tokens[t].user \in Users \cup {Nobody}
    BY <1>0 DEF TypeOK, Token
  <1>4. /\ new \in Token /\ new.family = tokens[t].family /\ new # NoToken
        /\ ~new.revoked /\ ~new.reused
    BY <1>0, <1>1, <1>3, FamilyTyped, IssuedTyped
  <1>5. Becomes(r, q) /\ UNCHANGED <<account, tokens, raced, orgVars>>
    BY DEF Rotate, authVars
  <1> HIDE DEF child, new
  <1>6. old \in Token /\ old.revoked /\ old.family = tokens[t].family
        /\ old.reused = tokens[t].reused
    BY <1>1, <1>3 DEF Token
  <1> HIDE DEF old
  <1>7. me.targets = {} /\ me.writes = NoWrites
    BY <1>0 DEF RequestInv, Quiet
  <1>8. /\ q \in Request /\ q.pc = "commit" /\ q.token = t /\ q.locks = me.locks
        /\ q.targets = {}
        /\ q.writes[t] = old /\ q.writes[child] = new
        /\ \A x \in TokenIds \ {t, child} : q.writes[x] = NoToken
    BY <1>0, <1>1, <1>2, <1>4, <1>6, <1>7 DEF Request, NoWrites
  <1> HIDE DEF q
  <1>9. TypeOK' /\ request'[r] = q
    BY <1>0, <1>5, <1>8, MovesTyped DEF TypeOK, Becomes
  <1>10. At(r)' /\ FamilyOf(r)' = FamilyOf(r) /\ Family(FamilyOf(r))' = Family(FamilyOf(r))
         /\ FamilyOf(r) = tokens[t].family
    BY <1>5, <1>8, <1>9 DEF At, Refreshing, FamilyOf, Family
  <1>11. Presented(r)' /\ Quiet(r)' /\ Judged(r)' /\ Whole(r)'
    BY <1>0, <1>5, <1>8, <1>9, <1>10 DEF Presented, Quiet, Judged, Whole
  <1>12. Holds(r)'
    BY <1>0, <1>8, <1>9, <1>10 DEF RequestInv, Holds
  <1>13. Commits(r)'
    <2>1. Rotates(r)'
      BY <1>0, <1>1, <1>4, <1>5, <1>6, <1>8, <1>9, <1>10 DEF Rotates
    <2> QED
      BY <2>1 DEF Commits
  <1>14. ASSUME NEW p \in Requests \ {r}
         PROVE  q.locks \cap request[p].locks = {}
    BY <1>8 DEF RefreshInv, Apart
  <1>15. ASSUME NEW p \in Requests \ {r}, NEW x \in TokenIds
         PROVE  q.writes[x] = NoToken \/ request[p].writes[x] = NoToken
    <2>1. CASE x = child
      BY <1>1, <2>1
    <2>2. CASE x = t
      <3>1. t \notin request[p].locks
        BY <1>0 DEF RefreshInv, Apart, RequestInv, Holds
      <3> QED
        BY <1>0, <2>2, <3>1, WrittenAreLocked
    <2> QED
      BY <1>8, <2>1, <2>2
  <1>16. ASSUME NEW p \in Requests \ {r}
         PROVE  At(r)' /\ At(p) /\ FamilyOf(r)' = FamilyOf(p) => FamilyOf(p) \in raced'
    BY <1>0, <1>5, <1>10 DEF RefreshInv, Known
  <1> QED
    BY <1>5, <1>8, <1>9, <1>11, <1>12, <1>13, <1>14, <1>15, <1>16, Moves DEF RequestInv

LEMMA CommitRefreshKeeps ==
  ASSUME RefreshInv, NEW r \in Requests, CommitRefresh(r)
  PROVE  RefreshInv'
  <1> DEFINE me == request[r]
             t == me.token
             f == FamilyOf(r)
  <1>0. /\ TypeOK /\ me \in Request /\ RequestInv(r) /\ me.pc = "commit" /\ At(r)
        /\ t \in TokenIds /\ tokens[t] # NoToken
        /\ t \in me.locks /\ me.locks \subseteq Family(f)
    BY DEF RefreshInv, TypeOK, CommitRefresh, At, Refreshing, RequestInv, Presented, Holds
  <1>1. /\ \A x \in TokenIds :
              tokens'[x] = IF me.writes[x] # NoToken THEN me.writes[x] ELSE tokens[x]
        /\ tokens' \in [TokenIds -> Token]
    BY <1>0 DEF CommitRefresh, TypeOK, Request
  <1>2. Becomes(r, Idle) /\ UNCHANGED <<account, raced, orgVars>>
    BY DEF CommitRefresh
  <1>3. request'[r] = Idle /\ \A q \in Requests \ {r} : request'[q] = request[q]
    BY <1>0, <1>2 DEF TypeOK, Becomes
  <1>4. f = tokens[t].family /\ f \in TokenIds /\ f # 0 /\ f # NoToken.family
    BY <1>0, FamilyTyped DEF FamilyOf, NoToken
  <1>5. ASSUME NEW x \in TokenIds, me.writes[x] # NoToken
        PROVE  /\ me.writes[x].family = f
               /\ x \in me.locks \/ tokens[x] = NoToken
               /\ tokens[x] # NoToken => me.writes[x].revoked /\ tokens[x].family = f
    <2>1. x \in me.locks \/ tokens[x] = NoToken
      BY <1>5, WrittenAreLocked
    <2>2. tokens[x] # NoToken => tokens[x].family = f
      BY <1>0, <2>1 DEF Family
    <2>3. CASE Rotates(r)
      BY <1>0, <1>5, <2>1, <2>2, <2>3 DEF Rotates
    <2>4. CASE Revokes(r)
      BY <1>0, <1>5, <2>1, <2>2, <2>4 DEF Revokes
    <2> QED
      BY <1>0, <2>3, <2>4 DEF RequestInv, Commits
  <1>6. \A x \in TokenIds : tokens[x] # NoToken =>
            /\ tokens'[x] # NoToken /\ tokens'[x].family = tokens[x].family
            /\ tokens[x].revoked => tokens'[x].revoked
    BY <1>1, <1>5
  <1>7. \A x \in TokenIds : tokens[x] = NoToken /\ tokens'[x] # NoToken =>
            tokens'[x].family = f /\ me.writes[x] # NoToken
    BY <1>1, <1>5
  <1>8. TypeOK'
    <2>1. \A x \in TokenIds : tokens'[x].family = 0 <=> tokens'[x] = NoToken
      BY <1>0, <1>1, <1>4, <1>5, FamilyTyped DEF NoToken
    <2> QED
      BY <1>0, <1>1, <1>2, <2>1, IdleTyped DEF TypeOK, Becomes, orgVars
  <1>9. ASSUME NEW q \in Requests \ {r}
        PROVE  RequestInv(q)' /\ (At(q) => FamilyOf(q)' = FamilyOf(q))
    <2>1. \A x \in request[q].locks : tokens'[x] = tokens[x]
      <3> SUFFICES ASSUME NEW x \in request[q].locks PROVE tokens'[x] = tokens[x]
        OBVIOUS
      <3>1. x \in TokenIds /\ tokens[x] # NoToken
        BY LockedAreThere
      <3>2. x \notin me.locks
        BY DEF RefreshInv, Apart
      <3> QED
        BY <1>1, <1>5, <3>1, <3>2
    <2>2. \A x \in TokenIds : request[q].writes[x] # NoToken /\ tokens[x] = NoToken =>
             tokens'[x] = NoToken
      BY <1>7 DEF RefreshInv, Apart
    <2>3. \A x \in TokenIds :
             At(q) /\ tokens[x] = NoToken /\ tokens'[x] # NoToken /\ tokens'[x].family = FamilyOf(q)
                 => FamilyOf(q) \in raced
      BY <1>0, <1>7 DEF RefreshInv, Known
    <2> QED
      BY <1>2, <1>3, <1>6, <2>1, <2>2, <2>3, OthersKeep
  <1>10. RequestInv(r)' /\ ~At(r)'
    BY <1>3, IdleEmpty
    DEF RequestInv, Presented, Quiet, Holds, Judged, Commits, Whole, At, Refreshing
  <1>11. Apart'
    BY <1>3, IdleEmpty DEF RefreshInv, Apart, NoWrites
  <1>12. Known'
    BY <1>2, <1>3, <1>9, <1>10 DEF RefreshInv, Known, At
  <1>13. FamiliesNamed'
    <2> SUFFICES ASSUME NEW x \in TokenIds, tokens'[x] # NoToken
                 PROVE  tokens'[tokens'[x].family] # NoToken
      BY DEF FamiliesNamed
    <2>1. tokens[f] # NoToken
      BY <1>0, <1>4 DEF RefreshInv, FamiliesNamed
    <2>2. CASE tokens[x] = NoToken
      BY <1>4, <1>6, <1>7, <2>1, <2>2
    <2>3. CASE tokens[x] # NoToken
      <3>1. tokens[x].family \in TokenIds /\ tokens[tokens[x].family] # NoToken
        BY <1>0, <2>3, FamilyTyped DEF RefreshInv, FamiliesNamed
      <3> QED
        BY <1>6, <2>3, <3>1
    <2> QED
      BY <2>2, <2>3
  <1>14. OneLiveTokenPerFamily'
    <2> SUFFICES ASSUME NEW x \in TokenIds, NEW y \in TokenIds, x # y,
                        tokens'[x].family = tokens'[y].family,
                        tokens'[x] # NoToken, ~tokens'[x].revoked, ~tokens'[y].revoked
                 PROVE  FALSE
      BY DEF OneLiveTokenPerFamily
    <2>1. tokens'[y] # NoToken
      BY <1>8 DEF TypeOK
    <2>2. CASE tokens[x] # NoToken /\ tokens[y] # NoToken
      BY <1>6, <2>2 DEF RefreshInv, OneLiveTokenPerFamily
    <2>3. ASSUME NEW a \in TokenIds, NEW b \in TokenIds, a # b,
                 tokens[a] = NoToken, tokens'[a] # NoToken,
                 ~tokens'[a].revoked, ~tokens'[b].revoked, tokens'[b] # NoToken,
                 tokens'[b].family = tokens'[a].family
          PROVE  FALSE
      <3>1. me.writes[a] # NoToken /\ tokens'[b].family = f
        BY <1>7, <2>3
      <3>2. ~Revokes(r)
        BY <1>1, <2>3, <3>1 DEF Revokes
      <3>3. Rotates(r)
        BY <1>0, <3>2 DEF RequestInv, Commits
      <3>4. \A x1 \in TokenIds \ {t, a} : me.writes[x1] = NoToken
        BY <1>0, <2>3, <3>1, <3>3 DEF Rotates
      <3>5. b # t
        BY <1>0, <1>1, <2>3, <3>3, FamilyTyped DEF Rotates, NoToken
      <3>6. tokens'[b] = tokens[b]
        BY <1>1, <2>3, <3>4, <3>5
      <3>7. tokens[t].revoked \/ tokens[b].revoked
        BY <1>0, <1>4, <3>1, <3>5, <3>6 DEF RefreshInv, OneLiveTokenPerFamily
      <3> QED
        BY <2>3, <3>3, <3>6, <3>7 DEF Rotates
    <2> QED
      BY <2>1, <2>2, <2>3
  <1>15. ReuseEndsTheFamily'
    <2> SUFFICES ASSUME NEW x \in TokenIds, NEW y \in TokenIds,
                        tokens'[x].reused, tokens'[x].family \notin raced,
                        tokens'[y].family = tokens'[x].family
                 PROVE  tokens'[y].revoked
      BY <1>2 DEF ReuseEndsTheFamily
    <2>1. tokens'[x] # NoToken /\ tokens'[y] # NoToken
      BY <1>8 DEF TypeOK, NoToken
    <2>2. CASE tokens'[x].family # f
      BY <1>1, <1>5, <1>7, <2>1, <2>2 DEF RefreshInv, ReuseEndsTheFamily
    <2>3. CASE tokens'[x].family = f /\ Revokes(r)
      <3>1. me.targets = Family(f)
        BY <1>0, <2>3 DEF RequestInv, Whole, Revokes
      <3>2. tokens[y] # NoToken
        BY <1>4, <1>7, <2>1, <2>3, <3>1 DEF Revokes, Family
      <3>3. y \in me.targets
        BY <1>6, <2>3, <3>1, <3>2 DEF Family
      <3>4. me.writes[y].revoked
        BY <2>3, <3>3 DEF Revokes
      <3> QED
        BY <1>1, <3>4 DEF NoToken
    <2>4. CASE tokens'[x].family = f /\ Rotates(r)
      <3>1. \A z \in TokenIds : tokens[z].family = f => ~tokens[z].reused
        BY <1>0, <1>4, <2>4 DEF RefreshInv, ReuseEndsTheFamily, Rotates
      <3>2. tokens[x].family = f => ~tokens[x].reused
        BY <3>1
      <3>3. ~tokens[t].reused
        BY <1>0, <1>4, <3>1
      <3>4. CASE x = t
        BY <1>1, <2>4, <3>3, <3>4 DEF Rotates
      <3>5. CASE x # t /\ me.writes[x] # NoToken
        BY <1>1, <2>4, <3>5 DEF Rotates
      <3>6. CASE me.writes[x] = NoToken
        BY <1>1, <2>4, <3>2, <3>6
      <3> QED
        BY <3>4, <3>5, <3>6
    <2> QED
      BY <1>0, <2>2, <2>3, <2>4 DEF RequestInv, Commits
  <1> QED
    BY <1>8, <1>9, <1>10, <1>11, <1>12, <1>13, <1>14, <1>15 DEF RefreshInv

LEMMA AuthStepKeeps ==
  ASSUME RefreshInv, NEW r \in Requests, AuthStep(r)
  PROVE  RefreshInv'
  BY StartRefreshKeeps, LockTokenKeeps, FindFamilyKeeps, RevokeFamilyKeeps, RotateKeeps,
     CommitRefreshKeeps DEF AuthStep

-----------------------------------------------------------------------------
(* Organisations keep their invariant *)

LEMMA InitOrgs == Init => OrgsInv
  <1> SUFFICES ASSUME Init PROVE OrgsInv
    OBVIOUS
  <1>1. \A r \in Requests : Addressed(r)
    BY IdleEmpty DEF Init, Addressed
  <1>2. memberships = {} /\ (\A i \in InviteIds : invites[i] = NoInvite)
        /\ \A o \in Orgs : ~Exists(o)
    BY DEF Init, Exists
  <1> QED
    BY <1>1, <1>2 DEF OrgsInv, Accepted

(* A step of a request that leaves organisations, memberships and invites  *)
(* alone rests on what it knows itself.                                    *)
LEMMA OrgsRest ==
  ASSUME TypeOK, OrgsInv, NEW r \in Requests, NEW q \in Request, Becomes(r, q),
         UNCHANGED <<orgs, memberships, invites>>, Addressed(r)'
  PROVE  OrgsInv'
  <1>1. \A p \in Requests \ {r} : request'[p] = request[p]
    BY DEF TypeOK, Becomes
  <1>2. \A p \in Requests \ {r} : Addressed(p)'
    BY <1>1 DEF OrgsInv, Addressed, Exists, Member
  <1> QED
    BY <1>2 DEF OrgsInv, Exists, Member, Accepted, GrantedTo

LEMMA IdleAddressed ==
  ASSUME NEW r, request'[r].pc \notin {"count", "invite", "join", "accept"}
  PROVE  Addressed(r)'
  BY DEF Addressed

LEMMA AuthStepKeepsOrgs ==
  ASSUME TypeOK, TypeOK', OrgsInv, NEW r \in Requests, AuthStep(r) \/ Fail(r)
  PROVE  OrgsInv'
  <1>1. UNCHANGED <<orgs, memberships, invites>>
    BY DEF AuthStep, StartRefresh, LockToken, FindFamily, RevokeFamily, Rotate, CommitRefresh,
           Fail, orgVars
  <1>2. PICK q : Becomes(r, q) /\ q.pc \notin {"count", "invite", "join", "accept"}
    <2> DEFINE Out(q) == Becomes(r, q) /\ q.pc \notin {"count", "invite", "join", "accept"}
               me == request[r]
    <2>0. me \in Request /\ Idle \in Request /\ Idle.pc = "idle"
      BY IdleTyped DEF TypeOK, Idle
    <2>1. ASSUME NEW t \in TokenIds, StartRefresh(r, t) PROVE \E q : Out(q)
      <3> WITNESS [Idle EXCEPT !.pc = "lock", !.token = t]
      <3> QED
        BY <2>0, <2>1 DEF StartRefresh, Request
    <2>2. CASE LockToken(r)
      <3> DEFINE pc == IF tokens[me.token].revoked THEN "revoke" ELSE "rotate"
      <3> WITNESS [me EXCEPT !.locks = {me.token}, !.pc = pc]
      <3>1. Becomes(r, [me EXCEPT !.locks = {me.token}, !.pc = pc])
        BY <2>2 DEF LockToken
      <3> QED
        BY <2>0, <3>1 DEF Request
    <2>3. CASE FindFamily(r)
      <3> WITNESS [me EXCEPT !.pc = "update", !.targets = Family(FamilyOf(r))]
      <3> QED
        BY <2>0, <2>3 DEF FindFamily, Request
    <2>4. CASE RevokeFamily(r) \/ Rotate(r)
      <3> WITNESS request'[r]
      <3>1. request'[r].pc = "commit"
        <4>1. CASE RevokeFamily(r)
          BY <2>0, <4>1 DEF RevokeFamily, Becomes, TypeOK, Request
        <4>2. CASE Rotate(r)
          BY <2>0, <4>2 DEF Rotate, Becomes, TypeOK, Request
        <4> QED
          BY <2>4, <4>1, <4>2
      <3>2. Becomes(r, request'[r])
        BY <2>4 DEF RevokeFamily, Rotate, Becomes, TypeOK
      <3> QED
        BY <3>1, <3>2
    <2>5. CASE CommitRefresh(r) \/ Fail(r)
      <3> WITNESS Idle
      <3> QED
        BY <2>0, <2>5 DEF CommitRefresh, Fail
    <2> QED
      BY <2>1, <2>2, <2>3, <2>4, <2>5 DEF AuthStep
  <1>3. request'[r] = q /\ q \in Request
    BY <1>2 DEF TypeOK, Becomes
  <1> QED
    BY <1>1, <1>2, <1>3, OrgsRest, IdleAddressed

LEMMA OrgStepKeepsOrgs ==
  ASSUME TypeOK, TypeOK', OrgsInv, NEW r \in Requests, OrgStep(r)
  PROVE  OrgsInv'
  <1> DEFINE me == request[r]
  <1>0. me \in Request /\ Idle \in Request /\ Addressed(r)
    BY IdleTyped DEF TypeOK, OrgsInv
  <1>1. ASSUME NEW u \in Users, NEW o \in Orgs, StartInvite(r, u, o) PROVE OrgsInv'
    <2> DEFINE q == [Idle EXCEPT !.pc = "count", !.user = u, !.org = o, !.seats = orgs[o].seats]
    <2>1. q.pc = "count" /\ q.user = u /\ q.org = o
      BY <1>0 DEF Request
    <2>2. Becomes(r, q) /\ UNCHANGED <<orgs, memberships, invites>>
      BY <1>1 DEF StartInvite, orgVars
    <2>3. Exists(o)
      BY <1>1 DEF StartInvite, OrgsInv
    <2> HIDE DEF q
    <2>4. request'[r] = q /\ q \in Request
      BY <2>2 DEF TypeOK, Becomes
    <2>5. Addressed(r)'
      BY <2>1, <2>2, <2>3, <2>4 DEF Addressed, Exists
    <2> QED
      BY <2>2, <2>4, <2>5, OrgsRest
  <1>2. CASE CountMembers(r)
    <2> DEFINE q == [me EXCEPT !.pc = "invite"]
    <2>1. q.pc = "invite" /\ q.user = me.user /\ q.org = me.org /\ me.pc = "count"
      BY <1>0, <1>2 DEF Request, CountMembers
    <2>2. Becomes(r, q) /\ UNCHANGED <<orgs, memberships, invites>>
      BY <1>2 DEF CountMembers
    <2> HIDE DEF q
    <2>3. request'[r] = q /\ q \in Request
      BY <2>2 DEF TypeOK, Becomes
    <2>4. Addressed(r)'
      BY <1>0, <2>1, <2>2, <2>3 DEF Addressed, Exists
    <2> QED
      BY <2>2, <2>3, <2>4, OrgsRest
  <1>3. ASSUME NEW u \in Users, NEW as \in Roles, SaveInvite(r, u, as) PROVE OrgsInv'
    <2> DEFINE i == CHOOSE n \in {m \in InviteIds : invites[m] = NoInvite} : TRUE
               new == [org |-> me.org, user |-> u, role |-> as, accepted |-> FALSE]
    <2>1. i \in InviteIds /\ invites[i] = NoInvite
      BY <1>3 DEF SaveInvite
    <2>2. invites' = [invites EXCEPT ![i] = new] /\ Becomes(r, Idle)
          /\ UNCHANGED <<orgs, memberships>>
      BY <1>3 DEF SaveInvite
    <2>3. ~new.accepted /\ new.org = me.org /\ Exists(me.org)
      BY <1>0, <1>3 DEF SaveInvite, Addressed
    <2> HIDE DEF i, new
    <2>4. invites'[i] = new /\ \A n \in InviteIds \ {i} : invites'[n] = invites[n]
      BY <2>1, <2>2 DEF TypeOK
    <2>5. \A p \in Requests : Addressed(p)'
      <3> SUFFICES ASSUME NEW p \in Requests PROVE Addressed(p)'
        OBVIOUS
      <3>1. CASE p = r
        BY <1>0, <2>2, <3>1, IdleEmpty, IdleAddressed DEF TypeOK, Becomes
      <3>2. CASE p # r
        <4>1. request'[p] = request[p] /\ Addressed(p)
          BY <2>2, <3>2 DEF TypeOK, Becomes, OrgsInv
        <4> QED
          BY <2>1, <2>2, <2>4, <4>1 DEF Addressed, Exists, Member
      <3> QED
        BY <3>1, <3>2
    <2>6. \A m \in memberships : GrantedTo(m) => GrantedTo(m)'
      BY <2>1, <2>2, <2>4 DEF GrantedTo, Accepted
    <2> QED
      BY <2>1, <2>2, <2>3, <2>4, <2>5, <2>6 DEF OrgsInv, Exists, Accepted, Member
  <1>4. ASSUME NEW u \in Users, NEW i \in InviteIds, StartAccept(r, u, i) PROVE OrgsInv'
    <2> DEFINE q == [Idle EXCEPT !.pc = "join", !.user = u, !.org = invites[i].org, !.invite = i]
    <2>1. q.pc = "join" /\ q.user = u /\ q.org = invites[i].org /\ q.invite = i
      BY <1>0 DEF Request
    <2>2. Becomes(r, q) /\ UNCHANGED <<orgs, memberships, invites>>
      BY <1>4 DEF StartAccept, orgVars
    <2>3. /\ invites[i] # NoInvite /\ invites[i].user = u
          /\ invites[i].org \in Orgs /\ Exists(invites[i].org)
      BY <1>4 DEF StartAccept, OrgsInv, TypeOK, Invite
    <2> HIDE DEF q
    <2>4. request'[r] = q /\ q \in Request
      BY <2>2 DEF TypeOK, Becomes
    <2>5. Addressed(r)'
      BY <2>1, <2>2, <2>3, <2>4 DEF Addressed, Exists
    <2> QED
      BY <2>2, <2>4, <2>5, OrgsRest
  <1>5. CASE FindMembership(r)
    <2> DEFINE b == Member(me.org, me.user) = {}
               q == [me EXCEPT !.pc = "accept", !.joins = b]
    <2>1. /\ q.pc = "accept" /\ q.user = me.user /\ q.org = me.org
          /\ q.invite = me.invite /\ q.joins = b /\ me.pc = "join"
      BY <1>0, <1>5 DEF Request, FindMembership
    <2>2. Becomes(r, q) /\ UNCHANGED <<orgs, memberships, invites>>
      BY <1>5 DEF FindMembership, orgVars
    <2> HIDE DEF q
    <2>3. request'[r] = q /\ q \in Request
      BY <2>2 DEF TypeOK, Becomes
    <2>4. Addressed(r)'
      BY <1>0, <2>1, <2>2, <2>3 DEF Addressed, Exists, Member
    <2> QED
      BY <2>2, <2>3, <2>4, OrgsRest
  <1>6. CASE SaveAccept(r)
    <2> DEFINE i == me.invite
               joined == [org |-> me.org, user |-> me.user, role |-> invites[i].role]
    <2>1. /\ me.pc = "accept" /\ i \in InviteIds /\ invites[i] \in Invite
          /\ me.org \in Orgs /\ Exists(me.org)
          /\ invites[i] # NoInvite /\ invites[i].org = me.org /\ invites[i].user = me.user
          /\ ~me.joins => Member(me.org, me.user) # {}
      BY <1>0, <1>6 DEF SaveAccept, Addressed, TypeOK
    <2>2. /\ me.joins => Member(me.org, me.user) = {}
          /\ memberships' = IF me.joins THEN memberships \cup {joined} ELSE memberships
          /\ invites' = [invites EXCEPT ![i].accepted = TRUE]
          /\ Becomes(r, Idle) /\ orgs' = orgs
      BY <1>6 DEF SaveAccept, MayJoin
    <2>a. joined.org = me.org /\ joined.user = me.user /\ joined.role = invites[i].role
      OBVIOUS
    <2> HIDE DEF joined
    <2>3. PICK o, u, j : /\ o = me.org /\ u = me.user /\ j = joined
                         /\ j.org = o /\ j.user = u /\ j.role = invites[i].role
      BY <2>a, Zenon
    <2>4. /\ \A n \in InviteIds \ {i} : invites'[n] = invites[n]
          /\ invites'[i] # NoInvite /\ invites'[i].accepted
          /\ invites'[i].org = me.org /\ invites'[i].user = me.user
          /\ invites'[i].role = invites[i].role
      <3>1. invites'[i] = [invites[i] EXCEPT !.accepted = TRUE]
            /\ \A n \in InviteIds \ {i} : invites'[n] = invites[n]
        BY <2>1, <2>2 DEF TypeOK
      <3>2. invites'[i] \in Invite
        BY <2>1, <3>1 DEF Invite
      <3>3. invites'[i] # NoInvite
        BY <2>1, <3>1 DEF Invite, NoInvite
      <3> QED
        BY <2>1, <3>1, <3>3 DEF Invite
    <2>5. \A p \in Requests : Addressed(p)'
      <3> SUFFICES ASSUME NEW p \in Requests PROVE Addressed(p)'
        OBVIOUS
      <3>1. CASE p = r
        BY <1>0, <2>2, <3>1, IdleEmpty, IdleAddressed DEF TypeOK, Becomes
      <3>2. CASE p # r
        <4>1. request'[p] = request[p] /\ Addressed(p)
          BY <2>2, <3>2 DEF TypeOK, Becomes, OrgsInv
        <4>2. memberships \subseteq memberships'
          BY <2>2
        <4>3. \A a, b : Member(a, b) # {} => Member(a, b)' # {}
          BY <4>2 DEF Member
        <4> QED
          BY <2>1, <2>2, <2>4, <4>1, <4>3 DEF Addressed, Exists
      <3> QED
        BY <3>1, <3>2
    <2>6. \A m : GrantedTo(m) => GrantedTo(m)'
      BY SMTT(30), <2>1, <2>2, <2>4 DEF GrantedTo, Accepted
    <2>7. me.joins => GrantedTo(j)'
      <3> SUFFICES ASSUME me.joins PROVE GrantedTo(j)'
        OBVIOUS
      <3>1. u # orgs[o].creator
        BY <2>1, <2>2, <2>3 DEF OrgsInv
      <3> QED
        BY <2>1, <2>2, <2>3, <2>4, <3>1 DEF GrantedTo, Accepted
    <2>8. \A m \in memberships' : Exists(m.org)' /\ GrantedTo(m)'
      BY <2>1, <2>2, <2>3, <2>6, <2>7 DEF OrgsInv, Exists
    <2>9. \A m, n \in memberships' : m.org = n.org /\ m.user = n.user => m = n
      BY <2>2, <2>3 DEF OrgsInv, Member
    <2>10. Member(o, u)' # {}
      BY <2>1, <2>2, <2>3 DEF Member
    <2>11. \A n \in InviteIds : Accepted(n)' => Member(invites[n].org, invites[n].user)' # {}
      BY <2>2, <2>3, <2>4, <2>10 DEF OrgsInv, Accepted, Member
    <2>12. \A n \in InviteIds : invites'[n] # NoInvite => Exists(invites[n].org)'
      BY <2>1, <2>2, <2>4 DEF OrgsInv, Exists
    <2>13. \A g \in Orgs : Exists(g)' => Member(g, orgs[g].creator)' # {}
      BY <2>2 DEF OrgsInv, Exists, Member
    <2> QED
      BY <2>5, <2>8, <2>9, <2>11, <2>12, <2>13 DEF OrgsInv
  <1> QED
    BY <1>1, <1>2, <1>3, <1>4, <1>5, <1>6 DEF OrgStep

LEMMA AdminKeepsOrgs ==
  ASSUME TypeOK, OrgsInv, Admin
  PROVE  OrgsInv'
  <1>1. ASSUME NEW u \in Users, NEW o \in Orgs, CreateOrg(u, o) PROVE OrgsInv'
    <2> DEFINE owner == [org |-> o, user |-> u, role |-> "owner"]
    <2>1. /\ ~Exists(o) /\ UNCHANGED <<invites, request>>
          /\ memberships' = memberships \cup {owner}
          /\ orgs' = [orgs EXCEPT ![o].creator = u]
      BY <1>1 DEF CreateOrg
    <2>2. owner.org = o /\ owner.user = u /\ owner.role = "owner"
      OBVIOUS
    <2> HIDE DEF owner
    <2>3. orgs'[o].creator = u /\ \A g \in Orgs \ {o} : orgs'[g] = orgs[g]
      BY <2>1 DEF TypeOK, OrgRow
    <2>4. Exists(o)'
      BY <2>3, AccountsAssumption DEF Exists
    <2>5. \A g \in Orgs : Exists(g) => g # o /\ Exists(g)'
      BY <2>1, <2>3 DEF Exists
    <2>6. \A m \in memberships : m.org \in Orgs /\ m.org # o
      BY <2>1 DEF OrgsInv, TypeOK, Membership
    <2>7. \A i \in InviteIds : invites[i] # NoInvite => invites[i].org \in Orgs
      BY DEF TypeOK, Invite
    <2>8. \A r \in Requests : Addressed(r)'
      BY <2>1, <2>5 DEF OrgsInv, Addressed, Member
    <2>9. \A m \in memberships : GrantedTo(m)'
      BY <2>1, <2>3, <2>6 DEF OrgsInv, GrantedTo, Accepted
    <2>10. GrantedTo(owner)'
      BY <2>2, <2>3 DEF GrantedTo, owner
    <2>11. \A m \in memberships' : Exists(m.org)' /\ GrantedTo(m)'
      BY <2>1, <2>2, <2>4, <2>5, <2>6, <2>9, <2>10 DEF OrgsInv, owner
    <2>12. \A m, n \in memberships' : m.org = n.org /\ m.user = n.user => m = n
      BY <2>1, <2>2, <2>6 DEF OrgsInv
    <2>13. \A g \in Orgs : Exists(g)' => Member(g, orgs[g].creator)' # {}
      BY <2>1, <2>2, <2>3 DEF OrgsInv, Exists, Member
    <2>14. \A i \in InviteIds : invites'[i] # NoInvite => Exists(invites[i].org)'
      BY <2>1, <2>5, <2>7 DEF OrgsInv
    <2>15. \A i \in InviteIds : Accepted(i)' => Member(invites[i].org, invites[i].user)' # {}
      BY <2>1 DEF OrgsInv, Accepted, Member
    <2> QED
      BY <2>8, <2>11, <2>12, <2>13, <2>14, <2>15 DEF OrgsInv
  <1>2. ASSUME \A o \in Orgs : orgs'[o].creator = orgs[o].creator,
               UNCHANGED <<memberships, invites, request>>
        PROVE  OrgsInv'
    <2>1. \A m \in memberships : m.org \in Orgs
      BY DEF TypeOK, Membership
    <2>2. \A i \in InviteIds : invites[i] # NoInvite => invites[i].org \in Orgs
      BY DEF TypeOK, Invite
    <2>3. \A o \in Orgs : Exists(o)' <=> Exists(o)
      BY <1>2 DEF Exists
    <2>4. \A r \in Requests : Addressed(r)'
      BY <1>2, <2>3 DEF OrgsInv, Addressed, Member
    <2>5. \A m \in memberships : GrantedTo(m)'
      BY <1>2, <2>1 DEF OrgsInv, GrantedTo, Accepted
    <2> QED
      BY <1>2, <2>1, <2>2, <2>3, <2>4, <2>5 DEF OrgsInv, Member, Accepted
  <1>3. ASSUME NEW o \in Orgs, LicenceRunsOut(o) PROVE OrgsInv'
    BY <1>2, <1>3 DEF LicenceRunsOut, TypeOK, OrgRow
  <1>4. ASSUME NEW o \in Orgs, NEW n \in 1..MaxSeats,
               NEW licence \in {"active", "grace", "read_only"}, SetLicence(o, n, licence)
        PROVE  OrgsInv'
    BY <1>2, <1>4 DEF SetLicence, TypeOK, OrgRow
  <1> QED
    BY <1>1, <1>3, <1>4 DEF Admin

-----------------------------------------------------------------------------
(* Theorems *)

(* The invariant is inductive.                                             *)
THEOREM AccountsInductive == Spec => []IInv
  <1>1. Init => IInv
    BY InitInv, InitOrgs DEF IInv
  <1>2. IInv /\ [Next]_vars => IInv'
    <2> SUFFICES ASSUME IInv, [Next]_vars PROVE IInv'
      OBVIOUS
    <2>0. RefreshInv /\ OrgsInv /\ TypeOK
      BY DEF IInv, RefreshInv
    <2>1. ASSUME NEW u \in Users, Signup(u) \/ VerifyEmail(u) \/ Login(u) PROVE IInv'
      <3>1. RefreshInv'
        BY <2>0, <2>1, AccountKeeps, LoginKeeps
      <3>2. UNCHANGED <<orgVars, request>>
        BY <2>1 DEF Signup, VerifyEmail, Login
      <3>3. OrgsInv'
        BY <2>0, <3>2 DEF OrgsInv, Addressed, Exists, Member, Accepted, GrantedTo, orgVars
      <3> QED
        BY <3>1, <3>3 DEF IInv
    <2>2. ASSUME NEW r \in Requests, AuthStep(r) \/ OrgStep(r) \/ Fail(r) PROVE IInv'
      <3>1. RefreshInv'
        BY <2>0, <2>2, AuthStepKeeps, OrgStepKeeps, FailKeeps
      <3>2. TypeOK'
        BY <3>1 DEF RefreshInv
      <3>3. OrgsInv'
        BY <2>0, <2>2, <3>2, AuthStepKeepsOrgs, OrgStepKeepsOrgs
      <3> QED
        BY <3>1, <3>3 DEF IInv
    <2>3. CASE Admin
      BY <2>0, <2>3, AdminKeeps, AdminKeepsOrgs DEF IInv
    <2>4. CASE UNCHANGED vars
      <3>1. TypeOK'
        BY <2>0, <2>4 DEF TypeOK, vars
      <3>2. RefreshInv'
        BY <2>0, <2>4, <3>1, NothingMoves DEF vars
      <3>3. OrgsInv'
        BY <2>0, <2>4 DEF OrgsInv, Addressed, Exists, Member, Accepted, GrantedTo, vars
      <3> QED
        BY <3>2, <3>3 DEF IInv
    <2> QED
      BY <2>1, <2>2, <2>3, <2>4 DEF Next
  <1> QED
    BY <1>1, <1>2, PTL DEF Spec

(* Every variable keeps its type.                                          *)
THEOREM AccountsTyped == Spec => []TypeOK
  <1>1. IInv => TypeOK
    BY DEF IInv, RefreshInv
  <1> QED
    BY <1>1, AccountsInductive, PTL

(* However many refreshes of a family overlap, are repeated or fail, at    *)
(* most one of its tokens is not revoked.                                  *)
THEOREM OneTokenIsLive == Spec => []OneLiveTokenPerFamily
  <1>1. IInv => OneLiveTokenPerFamily
    BY DEF IInv, RefreshInv
  <1> QED
    BY <1>1, AccountsInductive, PTL

(* A reuse ends its family unless another refresh was at the family.       *)
THEOREM ReuseIsFinal == Spec => []ReuseEndsTheFamily
  <1>1. IInv => ReuseEndsTheFamily
    BY DEF IInv, RefreshInv
  <1> QED
    BY <1>1, AccountsInductive, PTL

(* Nobody is a member twice, or without having created the organisation or *)
(* accepted an invite to it, and whoever did is a member.                  *)
THEOREM MembersWereInvited == Spec => []MembershipsWereAccepted
  <1>1. IInv => MembershipsWereAccepted
    <2> SUFFICES ASSUME IInv, NEW o \in Orgs, NEW u \in Users
                 PROVE  LET accepted == {i \in InviteIds :
                                            /\ invites[i] # NoInvite /\ invites[i].accepted
                                            /\ invites[i].org = o /\ invites[i].user = u}
                            granted == IF u = orgs[o].creator THEN {"owner"}
                                       ELSE {invites[i].role : i \in accepted}
                        IN /\ Cardinality(Member(o, u)) = IF granted = {} THEN 0 ELSE 1
                           /\ \A m \in Member(o, u) : m.role \in granted
      BY DEF MembershipsWereAccepted
    <2> DEFINE accepted == {i \in InviteIds :
                               /\ invites[i] # NoInvite /\ invites[i].accepted
                               /\ invites[i].org = o /\ invites[i].user = u}
               granted == IF u = orgs[o].creator THEN {"owner"}
                          ELSE {invites[i].role : i \in accepted}
    <2>1. \A m \in Member(o, u) : m.role \in granted
      BY DEF IInv, OrgsInv, GrantedTo, Accepted, Member
    <2>2. granted # {} => Member(o, u) # {}
      <3>1. CASE u = orgs[o].creator
        BY <3>1, AccountsAssumption DEF IInv, OrgsInv, Exists
      <3>2. CASE u # orgs[o].creator
        BY <3>2 DEF IInv, OrgsInv, Accepted
      <3> QED
        BY <3>1, <3>2
    <2>3. \A m, n \in Member(o, u) : m = n
      BY DEF IInv, OrgsInv, Member
    <2> HIDE DEF granted
    <2>4. CASE granted = {}
      <3>1. Member(o, u) = {}
        BY <2>1, <2>4
      <3> QED
        BY <2>1, <2>4, <3>1, FS_EmptySet DEF granted
    <2>5. CASE granted # {}
      <3>1. PICK m : Member(o, u) = {m}
        BY <2>2, <2>3, <2>5
      <3>2. Cardinality(Member(o, u)) = 1
        BY <3>1, FS_Singleton
      <3> QED
        BY <2>1, <2>5, <3>2 DEF granted
    <2> QED
      BY <2>4, <2>5
  <1> QED
    BY <1>1, AccountsInductive, PTL

-----------------------------------------------------------------------------
(* Seats *)

(* An organisation that was never overbooked has the seats that are booked. *)
SeatsInv ==
    \A o \in Orgs :
        IsFiniteSet(Members(o)) /\ (o \notin crowded => Booked(o) <= orgs[o].seats)

LEMMA OneMore ==
  ASSUME NEW S, IsFiniteSet(S), NEW x
  PROVE  /\ IsFiniteSet(S \cup {x})
         /\ Cardinality(S \cup {x}) <= Cardinality(S) + 1
         /\ Cardinality(S \cup {x}) \in Nat
  <1>1. Cardinality(S) \in Nat
    BY FS_CardinalityType
  <1>2. /\ IsFiniteSet(S \cup {x})
        /\ Cardinality(S \cup {x}) = IF x \in S THEN Cardinality(S) ELSE Cardinality(S) + 1
    BY FS_AddElement
  <1> QED
    BY <1>1, <1>2

LEMMA BookedTyped ==
  ASSUME NEW o \in Orgs, IsFiniteSet(Members(o))
  PROVE  /\ IsFiniteSet(Open(o)) /\ IsFiniteSet(Inviting(o))
         /\ Cardinality(Members(o)) \in Nat
         /\ Cardinality(Open(o)) \in Nat
         /\ Cardinality(Inviting(o)) \in Nat
         /\ Booked(o) \in Nat
  <1>1. IsFiniteSet(InviteIds)
    BY AccountsAssumption, FS_Interval DEF InviteIds
  <1>2. IsFiniteSet(Open(o))
    BY <1>1, FS_Subset DEF Open
  <1>3. IsFiniteSet(Inviting(o))
    BY AccountsAssumption, FS_Subset DEF Inviting
  <1>4. /\ Cardinality(Members(o)) \in Nat
        /\ Cardinality(Open(o)) \in Nat
        /\ Cardinality(Inviting(o)) \in Nat
    BY <1>2, <1>3, FS_CardinalityType
  <1> QED
    BY <1>2, <1>3, <1>4 DEF Booked

(* The members stay, or others than these, and no more is promised.        *)
LEMMA NoMoreBooked ==
  ASSUME NEW o \in Orgs, IsFiniteSet(Members(o)), Members(o)' = Members(o),
         Open(o)' \subseteq Open(o), Inviting(o)' \subseteq Inviting(o)
  PROVE  Booked(o)' \in Nat /\ Booked(o)' <= Booked(o)
  <1>1. /\ IsFiniteSet(Open(o)) /\ IsFiniteSet(Inviting(o))
        /\ Cardinality(Members(o)) \in Nat
        /\ Cardinality(Open(o)) \in Nat
        /\ Cardinality(Inviting(o)) \in Nat
    BY BookedTyped
  <1>2. /\ IsFiniteSet(Open(o)') /\ IsFiniteSet(Inviting(o)')
        /\ Cardinality(Open(o)') <= Cardinality(Open(o))
        /\ Cardinality(Inviting(o)') <= Cardinality(Inviting(o))
    BY <1>1, FS_Subset
  <1>3. Cardinality(Open(o)') \in Nat /\ Cardinality(Inviting(o)') \in Nat
    BY <1>2, FS_CardinalityType
  <1> QED
    BY <1>1, <1>2, <1>3 DEF Booked

(* A step that promises nothing and takes no seat away.                    *)
LEMMA SeatsRest ==
  ASSUME TypeOK, TypeOK', SeatsInv, NEW o \in Orgs,
         Members(o)' = Members(o), Open(o)' \subseteq Open(o),
         Inviting(o)' \subseteq Inviting(o),
         o \in crowded => o \in crowded',
         o \notin crowded' => orgs[o].seats <= orgs'[o].seats
  PROVE  IsFiniteSet(Members(o))' /\ (o \notin crowded' => Booked(o)' <= orgs'[o].seats)
  <1>1. IsFiniteSet(Members(o)) /\ (o \notin crowded => Booked(o) <= orgs[o].seats)
    BY DEF SeatsInv
  <1>2. Booked(o)' \in Nat /\ Booked(o)' <= Booked(o) /\ Booked(o) \in Nat
    BY <1>1, NoMoreBooked, BookedTyped
  <1>3. orgs[o].seats \in Int /\ orgs'[o].seats \in Int
    BY AccountsAssumption DEF TypeOK, OrgRow
  <1> QED
    BY <1>1, <1>2, <1>3

(* A request moves on without a promise.                                   *)
LEMMA RequestRests ==
  ASSUME TypeOK, TypeOK', SeatsInv, UNCHANGED <<orgs, memberships, invites, crowded>>,
         NEW r \in Requests, NEW q, Becomes(r, q), q.pc # "invite"
  PROVE  SeatsInv'
  <1>1. request'[r] = q /\ \A p \in Requests \ {r} : request'[p] = request[p]
    BY DEF TypeOK, Becomes
  <1> SUFFICES ASSUME NEW o \in Orgs
               PROVE  IsFiniteSet(Members(o))' /\ (o \notin crowded' => Booked(o)' <= orgs'[o].seats)
    BY DEF SeatsInv
  <1>2. Members(o)' = Members(o) /\ Open(o)' = Open(o)
    BY DEF Members, Open
  <1>3. Inviting(o)' \subseteq Inviting(o)
    BY <1>1 DEF Inviting
  <1>4. orgs[o].seats <= orgs'[o].seats
    BY AccountsAssumption DEF TypeOK, OrgRow
  <1> QED
    BY <1>2, <1>3, <1>4, SeatsRest

(* No seat is taken away, except from the crowded.                         *)
LEMMA SeatsStay ==
  ASSUME TypeOK, TypeOK', SeatsInv, UNCHANGED <<memberships, invites, request>>,
         crowded \subseteq crowded',
         \A o \in Orgs : o \notin crowded' => orgs[o].seats <= orgs'[o].seats
  PROVE  SeatsInv'
  <1> SUFFICES ASSUME NEW o \in Orgs
               PROVE  IsFiniteSet(Members(o))' /\ (o \notin crowded' => Booked(o)' <= orgs'[o].seats)
    BY DEF SeatsInv
  <1>1. Members(o)' = Members(o) /\ Open(o)' = Open(o) /\ Inviting(o)' = Inviting(o)
    BY DEF Members, Open, Inviting
  <1> QED
    BY <1>1, SeatsRest

(* Every step of a refresh, every failure.                                 *)
LEMMA AuthStepKeepsSeats ==
  ASSUME TypeOK, TypeOK', SeatsInv, NEW r \in Requests, AuthStep(r) \/ Fail(r)
  PROVE  SeatsInv'
  <1> DEFINE me == request[r]
  <1>0. me \in Request /\ Idle \in Request /\ Idle.pc = "idle"
    BY IdleTyped DEF TypeOK, Idle
  <1>1. UNCHANGED <<orgs, memberships, invites, crowded>>
    BY DEF AuthStep, StartRefresh, LockToken, FindFamily, RevokeFamily, Rotate, CommitRefresh,
           Fail, orgVars
  <1>2. request'[r].pc # "invite" /\ Becomes(r, request'[r])
    <2>1. ASSUME NEW t \in TokenIds, StartRefresh(r, t)
          PROVE request'[r].pc = "lock" /\ Becomes(r, request'[r])
      BY <1>0, <2>1 DEF StartRefresh, Request, Becomes, TypeOK
    <2>2. CASE LockToken(r)
      <3> DEFINE pc == IF tokens[me.token].revoked THEN "revoke" ELSE "rotate"
      <3>1. Becomes(r, [me EXCEPT !.locks = {me.token}, !.pc = pc])
        BY <2>2 DEF LockToken
      <3> QED
        BY <1>0, <3>1 DEF Request, Becomes, TypeOK
    <2>3. CASE FindFamily(r)
      BY <1>0, <2>3 DEF FindFamily, Request, Becomes, TypeOK
    <2>4. CASE RevokeFamily(r)
      <3> DEFINE w == [t \in TokenIds |->
                          IF t \in me.targets
                          THEN [tokens[t] EXCEPT !.revoked = TRUE, !.reused = TRUE]
                          ELSE me.writes[t]]
                 q == [me EXCEPT !.pc = "commit", !.locks = me.targets, !.writes = w]
      <3>1. Becomes(r, q)
        BY <2>4 DEF RevokeFamily
      <3> HIDE DEF w
      <3>2. q.pc = "commit"
        BY <1>0 DEF Request
      <3> HIDE DEF q
      <3> QED
        BY <3>1, <3>2 DEF Becomes, TypeOK
    <2>5. CASE Rotate(r)
      <3> DEFINE t == me.token
                 q == [me EXCEPT !.pc = "commit",
                          !.writes[t] = [tokens[t] EXCEPT !.revoked = TRUE, !.replacedBy = FreeToken],
                          !.writes[FreeToken] = Issued(FreeToken, tokens[t].family, tokens[t].user)]
      <3>1. Becomes(r, q)
        BY <2>5 DEF Rotate
      <3>2. q.pc = "commit"
        BY <1>0 DEF Request
      <3> HIDE DEF q
      <3> QED
        BY <3>1, <3>2 DEF Becomes, TypeOK
    <2>6. CASE CommitRefresh(r) \/ Fail(r)
      BY <1>0, <2>6 DEF CommitRefresh, Fail, Becomes, TypeOK
    <2> QED
      BY <2>1, <2>2, <2>3, <2>4, <2>5, <2>6 DEF AuthStep
  <1> QED
    BY <1>1, <1>2, RequestRests

(* A count of the members that finds a seat free leaves one for the invite, *)
(* or the organisation is crowded from then on.                            *)
LEMMA CountMembersKeepsSeats ==
  ASSUME TypeOK, TypeOK', OrgsInv, SeatsInv, NEW r \in Requests, CountMembers(r)
  PROVE  SeatsInv'
  <1> DEFINE me == request[r]
             q == [me EXCEPT !.pc = "invite"]
  <1>1. me \in Request /\ me.pc = "count"
    BY DEF TypeOK, CountMembers
  <1>2. me.org \in Orgs /\ me.seats \in Int
    BY <1>1, AccountsAssumption DEF OrgsInv, Addressed, Request
  <1>3. q.pc = "invite" /\ q.org = me.org
    BY <1>1 DEF Request
  <1>4. request'[r] = q /\ \A p \in Requests \ {r} : request'[p] = request[p]
    BY DEF TypeOK, CountMembers, Becomes
  <1>5. UNCHANGED <<orgs, memberships, invites>> /\ Cardinality(Members(me.org)) < me.seats
    BY DEF CountMembers, SeatFree
  <1>6. /\ crowded \subseteq crowded'
        /\ me.org \notin crowded' => ~Overbooks(me.org, me.seats)
    BY DEF CountMembers
  <1> HIDE DEF q
  <1> SUFFICES ASSUME NEW o \in Orgs
               PROVE  IsFiniteSet(Members(o))' /\ (o \notin crowded' => Booked(o)' <= orgs'[o].seats)
    BY DEF SeatsInv
  <1>7. Members(o)' = Members(o) /\ Open(o)' = Open(o)
    BY <1>5 DEF Members, Open
  <1>8. orgs'[o] = orgs[o] /\ orgs[o].seats \in Int
    BY <1>5, AccountsAssumption DEF TypeOK, OrgRow
  <1>9. CASE o # me.org
    <2>1. Inviting(o)' \subseteq Inviting(o)
      BY <1>3, <1>4, <1>9 DEF Inviting
    <2> QED
      BY <1>6, <1>7, <1>8, <2>1, SeatsRest
  <1>10. CASE o = me.org
    <2>1. IsFiniteSet(Members(o))
      BY DEF SeatsInv
    <2>2. /\ IsFiniteSet(Inviting(o)) /\ Cardinality(Inviting(o)) \in Nat
          /\ Cardinality(Members(o)) \in Nat /\ Cardinality(Open(o)) \in Nat
      BY <2>1, BookedTyped
    <2>3. r \notin Inviting(o)
      BY <1>1 DEF Inviting
    <2>4. Inviting(o)' = Inviting(o) \cup {r}
      BY <1>3, <1>4, <1>10 DEF Inviting
    <2>5. Cardinality(Inviting(o)') = Cardinality(Inviting(o)) + 1
      BY <2>2, <2>3, <2>4, FS_AddElement
    <2>6. Booked(o)' = Booked(o) + 1 /\ Booked(o) \in Nat
      BY <1>7, <2>2, <2>5 DEF Booked
    <2>7. ASSUME o \notin crowded' PROVE Booked(o) < orgs[o].seats
      <3>1. CASE Booked(o) < orgs[o].seats
        BY <3>1
      <3>2. CASE Open(o) = {} /\ Inviting(o) = {} /\ me.seats <= orgs[o].seats
        <4>1. Cardinality(Open(o)) = 0 /\ Cardinality(Inviting(o)) = 0
          BY <3>2, FS_EmptySet
        <4> QED
          BY <1>2, <1>5, <1>8, <1>10, <2>2, <3>2, <4>1 DEF Booked
      <3> QED
        BY <1>2, <1>6, <1>8, <1>10, <2>6, <2>7, <3>1, <3>2 DEF Overbooks
    <2> QED
      BY <1>7, <1>8, <2>1, <2>6, <2>7
  <1> QED
    BY <1>9, <1>10

(* The invite takes the place of the promise to make it.                   *)
LEMMA SaveInviteKeepsSeats ==
  ASSUME TypeOK, TypeOK', SeatsInv, NEW r \in Requests, NEW u \in Users, NEW as \in Roles,
         SaveInvite(r, u, as)
  PROVE  SeatsInv'
  <1> DEFINE me == request[r]
             i == CHOOSE n \in {m \in InviteIds : invites[m] = NoInvite} : TRUE
             new == [org |-> me.org, user |-> u, role |-> as, accepted |-> FALSE]
  <1>1. i \in InviteIds /\ invites[i] = NoInvite
    BY DEF SaveInvite
  <1>2. /\ invites' = [invites EXCEPT ![i] = new] /\ Becomes(r, Idle)
        /\ UNCHANGED <<orgs, memberships, crowded>> /\ me.pc = "invite"
    BY DEF SaveInvite
  <1>3. new.org = me.org
    OBVIOUS
  <1> HIDE DEF i, new
  <1>4. invites'[i] = new /\ \A n \in InviteIds \ {i} : invites'[n] = invites[n]
    BY <1>1, <1>2 DEF TypeOK
  <1>5. request'[r] = Idle /\ \A p \in Requests \ {r} : request'[p] = request[p]
    BY <1>2 DEF TypeOK, Becomes
  <1>6. Idle.pc = "idle"
    BY DEF Idle
  <1> SUFFICES ASSUME NEW o \in Orgs
               PROVE  IsFiniteSet(Members(o))' /\ (o \notin crowded' => Booked(o)' <= orgs'[o].seats)
    BY DEF SeatsInv
  <1>7. Members(o)' = Members(o)
    BY <1>2 DEF Members
  <1>8. orgs'[o] = orgs[o] /\ orgs[o].seats \in Int
    BY <1>2, AccountsAssumption DEF TypeOK, OrgRow
  <1>9. CASE o # me.org
    <2>1. Open(o)' \subseteq Open(o)
      BY <1>3, <1>4, <1>9 DEF Open
    <2>2. Inviting(o)' \subseteq Inviting(o)
      BY <1>5, <1>6 DEF Inviting
    <2> QED
      BY <1>2, <1>7, <1>8, <2>1, <2>2, SeatsRest
  <1>10. CASE o = me.org
    <2>1. IsFiniteSet(Members(o)) /\ (o \notin crowded => Booked(o) <= orgs[o].seats)
      BY DEF SeatsInv
    <2>2. /\ IsFiniteSet(Inviting(o)) /\ Cardinality(Inviting(o)) \in Nat
          /\ IsFiniteSet(Open(o)) /\ Cardinality(Open(o)) \in Nat
          /\ Cardinality(Members(o)) \in Nat
      BY <2>1, BookedTyped
    <2>3. r \in Inviting(o) /\ Inviting(o)' = Inviting(o) \ {r}
      BY <1>2, <1>5, <1>6, <1>10 DEF Inviting
    <2>4. Cardinality(Inviting(o)') = Cardinality(Inviting(o)) - 1
      BY <2>2, <2>3, FS_RemoveElement
    <2>5. Open(o)' \subseteq Open(o) \cup {i}
      BY <1>4 DEF Open
    <2>6. /\ IsFiniteSet(Open(o) \cup {i})
          /\ Cardinality(Open(o) \cup {i}) <= Cardinality(Open(o)) + 1
          /\ Cardinality(Open(o) \cup {i}) \in Nat
      BY <2>2, OneMore
    <2>7. /\ Cardinality(Open(o)') <= Cardinality(Open(o) \cup {i})
          /\ Cardinality(Open(o)') \in Nat
      BY <2>5, <2>6, FS_Subset, FS_CardinalityType
    <2>8. Booked(o)' <= Booked(o) /\ Booked(o) \in Nat /\ Booked(o)' \in Int
      BY <1>7, <2>2, <2>4, <2>6, <2>7 DEF Booked
    <2> QED
      BY <1>2, <1>7, <1>8, <2>1, <2>8
  <1> QED
    BY <1>9, <1>10

(* Who joins takes the seat that the open invite promised: an invite that  *)
(* was accepted before has made the user a member already.                 *)
LEMMA SaveAcceptKeepsSeats ==
  ASSUME TypeOK, TypeOK', OrgsInv, SeatsInv, NEW r \in Requests, SaveAccept(r)
  PROVE  SeatsInv'
  <1> DEFINE me == request[r]
             i == me.invite
             joined == [org |-> me.org, user |-> me.user, role |-> invites[i].role]
  <1>1. /\ me.pc = "accept" /\ i \in InviteIds /\ invites[i] \in Invite
        /\ me.org \in Orgs /\ invites[i] # NoInvite
        /\ invites[i].org = me.org /\ invites[i].user = me.user
    BY DEF SaveAccept, OrgsInv, Addressed, TypeOK
  <1>2. /\ me.joins => Member(me.org, me.user) = {}
        /\ memberships' = IF me.joins THEN memberships \cup {joined} ELSE memberships
        /\ invites' = [invites EXCEPT ![i].accepted = TRUE]
        /\ Becomes(r, Idle) /\ UNCHANGED <<orgs, crowded>>
    BY DEF SaveAccept, MayJoin
  <1>3. joined.org = me.org
    OBVIOUS
  <1> HIDE DEF joined
  <1>4. invites'[i].accepted /\ \A n \in InviteIds \ {i} : invites'[n] = invites[n]
    <2>1. invites'[i] = [invites[i] EXCEPT !.accepted = TRUE]
          /\ \A n \in InviteIds \ {i} : invites'[n] = invites[n]
      BY <1>1, <1>2 DEF TypeOK
    <2> QED
      BY <1>1, <2>1 DEF Invite
  <1>5. me.joins => i \in Open(me.org)
    BY <1>1, <1>2 DEF OrgsInv, Accepted, Open
  <1>6. request'[r] = Idle /\ \A p \in Requests \ {r} : request'[p] = request[p]
    BY <1>2 DEF TypeOK, Becomes
  <1>7. Idle.pc = "idle"
    BY DEF Idle
  <1> SUFFICES ASSUME NEW o \in Orgs
               PROVE  IsFiniteSet(Members(o))' /\ (o \notin crowded' => Booked(o)' <= orgs'[o].seats)
    BY DEF SeatsInv
  <1>8. IsFiniteSet(Members(o)) /\ (o \notin crowded => Booked(o) <= orgs[o].seats)
    BY DEF SeatsInv
  <1>9. Open(o)' \subseteq Open(o) \ {i}
    BY <1>4 DEF Open
  <1>10. Inviting(o)' \subseteq Inviting(o)
    BY <1>6, <1>7 DEF Inviting
  <1>11. orgs'[o] = orgs[o] /\ orgs[o].seats \in Int
    BY <1>2, AccountsAssumption DEF TypeOK, OrgRow
  <1>12. CASE ~me.joins \/ o # me.org
    <2>1. Members(o)' = Members(o)
      BY <1>2, <1>3, <1>12 DEF Members
    <2> QED
      BY <1>2, <1>9, <1>10, <1>11, <2>1, SeatsRest
  <1>13. CASE me.joins /\ o = me.org
    <2>1. /\ IsFiniteSet(Inviting(o)) /\ Cardinality(Inviting(o)) \in Nat
          /\ IsFiniteSet(Open(o)) /\ Cardinality(Open(o)) \in Nat
          /\ Cardinality(Members(o)) \in Nat
      BY <1>8, BookedTyped
    <2>2. Members(o)' = Members(o) \cup {joined}
      BY <1>2, <1>3, <1>13 DEF Members
    <2>3. /\ IsFiniteSet(Members(o)')
          /\ Cardinality(Members(o)') <= Cardinality(Members(o)) + 1
          /\ Cardinality(Members(o)') \in Nat
      BY <1>8, <2>2, OneMore
    <2>4. /\ IsFiniteSet(Open(o) \ {i})
          /\ Cardinality(Open(o) \ {i}) = Cardinality(Open(o)) - 1
      BY <1>5, <1>13, <2>1, FS_RemoveElement
    <2>5. /\ Cardinality(Open(o)') <= Cardinality(Open(o)) - 1
          /\ Cardinality(Open(o)') \in Nat
      BY <1>9, <2>4, FS_Subset, FS_CardinalityType
    <2>6. /\ Cardinality(Inviting(o)') <= Cardinality(Inviting(o))
          /\ Cardinality(Inviting(o)') \in Nat
      BY <1>10, <2>1, FS_Subset, FS_CardinalityType
    <2>7. Booked(o)' <= Booked(o) /\ Booked(o) \in Nat /\ Booked(o)' \in Nat
      BY <2>1, <2>3, <2>5, <2>6 DEF Booked
    <2> QED
      BY <1>2, <1>8, <1>11, <2>3, <2>7
  <1> QED
    BY <1>12, <1>13

LEMMA OrgStepKeepsSeats ==
  ASSUME TypeOK, TypeOK', OrgsInv, SeatsInv, NEW r \in Requests, OrgStep(r)
  PROVE  SeatsInv'
  <1> DEFINE me == request[r]
  <1>0. me \in Request /\ Idle \in Request
    BY IdleTyped DEF TypeOK
  <1>1. ASSUME NEW u \in Users, NEW o \in Orgs, StartInvite(r, u, o) PROVE SeatsInv'
    <2> DEFINE q == [Idle EXCEPT !.pc = "count", !.user = u, !.org = o, !.seats = orgs[o].seats]
    <2>1. q.pc = "count"
      BY <1>0 DEF Request
    <2>2. Becomes(r, q) /\ UNCHANGED <<orgs, memberships, invites, crowded>>
      BY <1>1 DEF StartInvite, orgVars
    <2> HIDE DEF q
    <2> QED
      BY <2>1, <2>2, RequestRests
  <1>2. ASSUME NEW u \in Users, NEW i \in InviteIds, StartAccept(r, u, i) PROVE SeatsInv'
    <2> DEFINE q == [Idle EXCEPT !.pc = "join", !.user = u, !.org = invites[i].org, !.invite = i]
    <2>1. q.pc = "join"
      BY <1>0 DEF Request
    <2>2. Becomes(r, q) /\ UNCHANGED <<orgs, memberships, invites, crowded>>
      BY <1>2 DEF StartAccept, orgVars
    <2> HIDE DEF q
    <2> QED
      BY <2>1, <2>2, RequestRests
  <1>3. CASE FindMembership(r)
    <2> DEFINE b == Member(me.org, me.user) = {}
               q == [me EXCEPT !.pc = "accept", !.joins = b]
    <2>1. q.pc = "accept"
      BY <1>0 DEF Request
    <2>2. Becomes(r, q) /\ UNCHANGED <<orgs, memberships, invites, crowded>>
      BY <1>3 DEF FindMembership, orgVars
    <2> HIDE DEF q
    <2> QED
      BY <2>1, <2>2, RequestRests
  <1> QED
    BY <1>1, <1>2, <1>3, CountMembersKeepsSeats, SaveInviteKeepsSeats, SaveAcceptKeepsSeats
       DEF OrgStep

LEMMA AdminKeepsSeats ==
  ASSUME TypeOK, TypeOK', OrgsInv, SeatsInv, Admin
  PROVE  SeatsInv'
  <1>0. \A o \in Orgs : orgs[o].seats \in Nat \ {0} /\ orgs[o] \in OrgRow
    BY AccountsAssumption DEF TypeOK, OrgRow
  <1>1. ASSUME NEW u \in Users, NEW g \in Orgs, CreateOrg(u, g) PROVE SeatsInv'
    <2> DEFINE owner == [org |-> g, user |-> u, role |-> "owner"]
    <2>1. /\ ~Exists(g) /\ UNCHANGED <<invites, request, crowded>>
          /\ memberships' = memberships \cup {owner}
          /\ orgs' = [orgs EXCEPT ![g].creator = u]
      BY <1>1 DEF CreateOrg
    <2>2. owner.org = g
      OBVIOUS
    <2> HIDE DEF owner
    <2>3. \A o \in Orgs : orgs'[o].seats = orgs[o].seats
      BY <1>0, <2>1 DEF TypeOK, OrgRow
    <2> SUFFICES ASSUME NEW o \in Orgs
                 PROVE  IsFiniteSet(Members(o))' /\ (o \notin crowded' => Booked(o)' <= orgs'[o].seats)
      BY DEF SeatsInv
    <2>4. Open(o)' = Open(o) /\ Inviting(o)' = Inviting(o)
      BY <2>1 DEF Open, Inviting
    <2>5. CASE o # g
      <3>1. Members(o)' = Members(o)
        BY <2>1, <2>2, <2>5 DEF Members
      <3>2. orgs[o].seats <= orgs'[o].seats
        BY <1>0, <2>3
      <3> QED
        BY <2>1, <2>4, <3>1, <3>2, SeatsRest
    <2>6. CASE o = g
      <3>1. Members(o) = {} /\ Open(o) = {}
        BY <2>1, <2>6 DEF OrgsInv, Members, Open
      <3>2. Inviting(o) = {}
        BY <2>1, <2>6 DEF OrgsInv, Addressed, Inviting
      <3>3. Members(o)' = {owner}
        BY <2>1, <2>2, <2>6, <3>1 DEF Members
      <3>4. IsFiniteSet(Members(o)') /\ Cardinality(Members(o)') = 1
        BY <3>3, FS_Singleton
      <3>5. Cardinality(Open(o)') = 0 /\ Cardinality(Inviting(o)') = 0
        BY <2>4, <3>1, <3>2, FS_EmptySet
      <3>6. Booked(o)' = 1
        BY <3>4, <3>5 DEF Booked
      <3>7. orgs'[o].seats \in Nat \ {0}
        BY <1>0, <2>3
      <3> QED
        BY <3>4, <3>6, <3>7
    <2> QED
      BY <2>5, <2>6
  <1>2. ASSUME NEW g \in Orgs, LicenceRunsOut(g) PROVE SeatsInv'
    <2>1. \A o \in Orgs : orgs'[o].seats = orgs[o].seats
      BY <1>0, <1>2 DEF LicenceRunsOut, TypeOK, OrgRow
    <2>2. UNCHANGED <<memberships, invites, crowded, request>>
      BY <1>2 DEF LicenceRunsOut
    <2>3. \A o \in Orgs : orgs[o].seats <= orgs'[o].seats
      BY <1>0, <2>1
    <2> QED
      BY <2>2, <2>3, SeatsStay
  <1>3. ASSUME NEW g \in Orgs, NEW n \in 1..MaxSeats,
               NEW licence \in {"active", "grace", "read_only"}, SetLicence(g, n, licence)
        PROVE  SeatsInv'
    <2>1. \A o \in Orgs : orgs'[o].seats = IF o = g THEN n ELSE orgs[o].seats
      BY <1>0, <1>3 DEF SetLicence, TypeOK, OrgRow
    <2>2. UNCHANGED <<memberships, invites, request>>
      BY <1>3 DEF SetLicence
    <2>3. /\ crowded \subseteq crowded'
          /\ g \notin crowded' => ~(n < Booked(g))
      BY <1>3 DEF SetLicence
    <2> SUFFICES ASSUME NEW o \in Orgs
                 PROVE  IsFiniteSet(Members(o))' /\ (o \notin crowded' => Booked(o)' <= orgs'[o].seats)
      BY DEF SeatsInv
    <2>4. /\ Members(o)' = Members(o) /\ Open(o)' = Open(o)
          /\ Inviting(o)' = Inviting(o)
      BY <2>2 DEF Members, Open, Inviting
    <2>5. IsFiniteSet(Members(o)) /\ (o \notin crowded => Booked(o) <= orgs[o].seats)
      BY DEF SeatsInv
    <2>6. Booked(o) \in Nat /\ n \in Int
      BY <2>5, BookedTyped
    <2>7. Booked(o)' = Booked(o)
      BY <2>4 DEF Booked
    <2> QED
      BY <2>1, <2>3, <2>4, <2>5, <2>6, <2>7
  <1> QED
    BY <1>1, <1>2, <1>3 DEF Admin

(* Whatever is booked has a seat.                                          *)
THEOREM SeatsInductive == Spec => []SeatsInv
  <1>1. Init => SeatsInv
    <2> SUFFICES ASSUME Init, NEW o \in Orgs
                 PROVE  IsFiniteSet(Members(o)) /\ Booked(o) <= orgs[o].seats
      BY DEF SeatsInv
    <2>1. Members(o) = {} /\ Open(o) = {} /\ orgs[o].seats = 1
      BY DEF Init, Members, Open
    <2>2. Inviting(o) = {}
      BY IdleEmpty DEF Init, Inviting
    <2> QED
      BY <2>1, <2>2, FS_EmptySet DEF Booked
  <1>2. IInv /\ IInv' /\ SeatsInv /\ [Next]_vars => SeatsInv'
    <2> SUFFICES ASSUME IInv, IInv', SeatsInv, [Next]_vars PROVE SeatsInv'
      OBVIOUS
    <2>0. OrgsInv /\ TypeOK /\ TypeOK'
      BY DEF IInv, RefreshInv
    <2>a. ASSUME UNCHANGED <<orgs, memberships, invites, crowded, request>> PROVE SeatsInv'
      <3>1. \A o \in Orgs : orgs[o].seats <= orgs'[o].seats
        BY <2>0, <2>a, AccountsAssumption DEF TypeOK, OrgRow
      <3> QED
        BY <2>0, <2>a, <3>1, SeatsStay
    <2>1. ASSUME NEW u \in Users, Signup(u) \/ VerifyEmail(u) \/ Login(u) PROVE SeatsInv'
      <3>1. UNCHANGED <<orgs, memberships, invites, crowded, request>>
        BY <2>1 DEF Signup, VerifyEmail, Login, orgVars
      <3> QED
        BY <3>1, <2>a
    <2>2. ASSUME NEW r \in Requests, AuthStep(r) \/ OrgStep(r) \/ Fail(r) PROVE SeatsInv'
      BY <2>0, <2>2, AuthStepKeepsSeats, OrgStepKeepsSeats
    <2>3. CASE Admin
      BY <2>0, <2>3, AdminKeepsSeats
    <2>4. CASE UNCHANGED vars
      BY <2>4, <2>a DEF vars
    <2> QED
      BY <2>1, <2>2, <2>3, <2>4 DEF Next
  <1> QED
    BY <1>1, <1>2, AccountsInductive, PTL DEF Spec

(* However many invites are made and accepted at once, an organisation has *)
(* a seat for every member and every open invite, unless it was sold fewer *)
(* seats than are booked or an invite was made when they were all booked.  *)
THEOREM MembersHaveSeats == Spec => []SeatsSuffice
  <1>1. TypeOK /\ SeatsInv => SeatsSuffice
    <2> SUFFICES ASSUME TypeOK, SeatsInv, NEW o \in Orgs, o \notin crowded
                 PROVE  Cardinality(Members(o)) + Cardinality(Open(o)) <= orgs[o].seats
      BY DEF SeatsSuffice
    <2>1. IsFiniteSet(Members(o)) /\ Booked(o) <= orgs[o].seats
      BY DEF SeatsInv
    <2>2. /\ Cardinality(Members(o)) \in Nat
          /\ Cardinality(Open(o)) \in Nat
          /\ Cardinality(Inviting(o)) \in Nat
      BY <2>1, BookedTyped
    <2>3. orgs[o].seats \in Int
      BY AccountsAssumption DEF TypeOK, OrgRow
    <2> QED
      BY <2>1, <2>2, <2>3 DEF Booked
  <1> QED
    BY <1>1, SeatsInductive, AccountsTyped, PTL
=============================================================================
