--------------------------- MODULE SemanticProofs ---------------------------
(***************************************************************************)
(* Theorems about Semantic, for any queries, plans, quotas, numbers of     *)
(* concurrent requests and rebuilds, and any bounds.                       *)
(***************************************************************************)
EXTENDS Semantic, MetricsProofs

-----------------------------------------------------------------------------
(* Arithmetic *)

LEMMA Bounds ==
  /\ Period \in Nat /\ Period > 0
  /\ QuotaTtl \in Nat /\ QuotaTtl >= Period
  /\ CacheTtl \in Nat /\ MaxBuilds \in Nat /\ MaxUses \in Nat /\ MaxOutput \in Nat
  /\ MaxDocuments \in Nat /\ MaxTokens \in Nat /\ MaxNow \in Nat
  BY SemanticAssumption

LEMMA PeriodBounds ==
  ASSUME NEW n \in Nat
  PROVE  /\ n \div Period \in Nat
         /\ Period * (n \div Period) <= n
         /\ n < Period * (n \div Period) + Period
  BY Bounds

(* An instant is in a period or before it when it is before its end.       *)
LEMMA PeriodEnds ==
  ASSUME NEW n \in Nat, NEW p \in Nat
  PROVE  n \div Period <= p <=> n < Period * (p + 1)
  <1>1. CASE n \div Period <= p
    <2>1. Period * (n \div Period) <= Period * p
      BY <1>1, PeriodBounds, Bounds
    <2> QED
      BY <1>1, <2>1, PeriodBounds, Bounds
  <1>2. CASE n \div Period > p
    <2>1. Period * (n \div Period) >= Period * (p + 1)
      BY <1>2, PeriodBounds, Bounds
    <2> QED
      BY <1>2, <2>1, PeriodBounds, Bounds
  <1> QED
    BY <1>1, <1>2, PeriodBounds

LEMMA PeriodsAdvance ==
  ASSUME NEW n \in Nat, NEW m \in Nat, n <= m
  PROVE  n \div Period <= m \div Period
  <1>1. m < Period * ((m \div Period) + 1)
    BY PeriodEnds, PeriodBounds
  <1>2. n < Period * ((m \div Period) + 1)
    BY <1>1, PeriodBounds, Bounds
  <1> QED
    BY <1>2, PeriodEnds, PeriodBounds

LEMMA PeriodOfNow ==
  ASSUME NEW n \in Times
  PROVE  n \div Period \in Periods
  BY PeriodBounds, PeriodsAdvance, Bounds DEF Times, Periods

-----------------------------------------------------------------------------
(* Type correctness.  What a request says of itself is typed only together *)
(* with how far it came: it knows its query, and the quota it consumes is  *)
(* one of its kind.                                                        *)

Metering == {"period", "count", "expire"}
Unqueried == {"idle", "meter", "estimate", "charge"}

Coherent(me, time) ==
    /\ me.pc \in Metering => /\ me.kind \in DOMAIN Metered
                             /\ me.quotas < Len(Metered[me.kind])
    /\ me.pc \notin Unqueried => me.query \in Queries
    /\ me.period <= time \div Period

Typed == TypeOK /\ \A r \in Requests : Coherent(request[r], now)

LEMMA TiersTyped == Explore \in Tiers /\ Tiers \subseteq Nat
  BY SemanticAssumption

LEMMA LimitTyped ==
  ASSUME NEW t \in Tiers, NEW q \in Quotas \cup {Tokens}
  PROVE  Limit[t][q] \in Nat
  BY SemanticAssumption

LEMMA IdleTyped == Idle \in Request
  BY PeriodOfNow, PeriodBounds, TiersTyped, Bounds DEF Idle, Request, Periods

LEMMA NoEntryTyped == NoEntry \in Entry
  BY Bounds DEF NoEntry, Entry

LEMMA NoUseTyped == NoUse \in [used : Nat, expires : 0..Forever]
  BY Bounds DEF NoUse, Forever

LEMMA InitTyped == Init => Typed
  <1> SUFFICES ASSUME Init PROVE Typed
    OBVIOUS
  <1>1. request \in [Requests -> Request]
    BY IdleTyped DEF Init
  <1>2. cache \in [CacheKeys -> Entry]
    BY NoEntryTyped DEF Init
  <1>3. counter \in [QuotaKeys -> [used : Nat, expires : 0..Forever]]
    BY NoUseTyped DEF Init
  <1>4. rebuild \in [Workers -> Rebuild]
    BY DEF Init, Rebuild
  <1>5. now \in Times /\ documents \in 0..MaxDocuments /\ built \in 0..MaxBuilds
    BY Bounds DEF Init, Times
  <1>6. granted \in [QuotaKeys -> Nat] /\ usage \in [Periods -> 0..MaxTokens]
        /\ ceiling \in [Periods -> Nat]
    BY Bounds DEF Init
  <1>7. TypeOK
    BY <1>1, <1>2, <1>3, <1>4, <1>5, <1>6, TiersTyped DEF Init, TypeOK
  <1>8. ASSUME NEW r \in Requests PROVE Coherent(request[r], now)
    <2>1. request[r] = Idle /\ now = 0
      BY DEF Init
    <2> QED
      BY <2>1, PeriodBounds DEF Coherent, Idle, Metering, Unqueried
  <1> QED
    BY <1>7, <1>8 DEF Typed

(* A request that moves on while everything else stays as it is.           *)
LEMMA MovesTyped ==
  ASSUME Typed, NEW r \in Requests, NEW q \in Request, Becomes(r, q), Coherent(q, now),
         UNCHANGED <<now, pinned, built, basis, tier, rebuild>>,
         cache' \in [CacheKeys -> Entry],
         counter' \in [QuotaKeys -> [used : Nat, expires : 0..Forever]],
         granted' \in [QuotaKeys -> Nat],
         lost' \subseteq CacheKeys,
         strayed' \subseteq QuotaKeys,
         documents' \in 0..MaxDocuments,
         usage' \in [Periods -> 0..MaxTokens],
         ceiling' \in [Periods -> Nat],
         unseen' \subseteq Periods
  PROVE  Typed'
  <1>1. TypeOK'
    BY DEF Typed, TypeOK, Becomes
  <1>2. ASSUME NEW s \in Requests PROVE Coherent(request'[s], now)
    BY DEF Becomes, Typed, TypeOK
  <1>3. \A s \in Requests : Coherent(request[s], now)'
    BY <1>2 DEF Coherent
  <1> QED
    BY <1>1, <1>3 DEF Typed

(* A request that moves on, and nothing else.                              *)
LEMMA OnlyMoves ==
  ASSUME Typed, NEW r \in Requests, NEW q \in Request, Becomes(r, q), Coherent(q, now),
         UNCHANGED <<now, published, tier, cache, quotaVars, rebuild, lost>>
  PROVE  Typed'
  BY MovesTyped DEF Typed, TypeOK, published, quotaVars, tokenVars

(* What happens beside the requests.                                       *)
LEMMA RequestsStay ==
  ASSUME Typed, UNCHANGED request, TypeOK', now' >= now
  PROVE  Typed'
  <1>1. ASSUME NEW s \in Requests PROVE Coherent(request[s], now')
    <2>1. now \in Nat /\ now' \in Nat /\ request[s] \in Request
      BY DEF Typed, TypeOK, Times
    <2>2. now \div Period <= now' \div Period
      BY <2>1, PeriodsAdvance
    <2>3. request[s].period \in Nat
      BY <2>1, PeriodBounds, Bounds DEF Request, Periods
    <2>4. now \div Period \in Nat /\ now' \div Period \in Nat
      BY <2>1, PeriodBounds
    <2>5. Coherent(request[s], now)
      BY DEF Typed
    <2> QED
      BY <2>2, <2>3, <2>4, <2>5 DEF Coherent
  <1> QED
    BY <1>1 DEF Typed, Coherent

LEMMA RequestTyped ==
  ASSUME Typed, NEW r \in Requests
  PROVE  /\ request[r] \in Request
         /\ Coherent(request[r], now)
         /\ request[r].tier \in Tiers
         /\ request[r].period \in Periods
         /\ request[r].period \in Nat
         /\ now \in Nat
         /\ now \div Period \in Nat
         /\ request[r].period <= now \div Period
  <1>1. request[r] \in Request /\ Coherent(request[r], now) /\ now \in Nat
    BY DEF Typed, TypeOK, Times
  <1>2. request[r].tier \in Tiers /\ request[r].period \in Periods
    BY <1>1 DEF Request
  <1>3. now \div Period \in Nat
    BY <1>1, PeriodBounds
  <1>4. MaxNow \div Period \in Nat
    BY PeriodBounds, Bounds
  <1> QED
    BY <1>1, <1>2, <1>3, <1>4 DEF Coherent, Periods

LEMMA IdleCoherent ==
  ASSUME Typed
  PROVE  Coherent(Idle, now)
  <1>1. now \in Nat
    BY DEF Typed, TypeOK, Times
  <1> QED
    BY <1>1, PeriodBounds DEF Coherent, Idle, Metering, Unqueried

LEMMA AllowedFits ==
  ASSUME NEW t, NEW q \in Queries
  PROVE  /\ Allowed(t, q) \subseteq Measures
         /\ \A m \in Allowed(t, q) : MeasureTier[m] <= t
  <1>1. q.measures \subseteq Measures
    BY SemanticAssumption
  <1> QED
    BY <1>1 DEF Allowed

LEMMA ReadingTyped ==
  ASSUME NEW me \in Request, me.query \in Queries
  PROVE  /\ Reading(me) \in Request
         /\ Reading(me).pc = "read"
         /\ Reading(me).query = me.query
         /\ Reading(me).period = me.period
         /\ Reading(me).kind = me.kind
         /\ Reading(me).tier = me.tier
         /\ Reading(me).rows = me.rows
         /\ Reading(me).named = me.named
         /\ Reading(me).todo = Allowed(me.tier, me.query)
  <1> DEFINE todo == Allowed(me.tier, me.query)
  <1>1. todo \subseteq Measures
    BY AllowedFits
  <1>2. Reading(me) = [me EXCEPT !.pc = "read", !.todo = todo]
    BY DEF Reading
  <1> HIDE DEF todo
  <1>3. /\ Reading(me) \in Request
        /\ Reading(me).pc = "read"
        /\ Reading(me).query = me.query
        /\ Reading(me).period = me.period
        /\ Reading(me).kind = me.kind
        /\ Reading(me).tier = me.tier
        /\ Reading(me).rows = me.rows
        /\ Reading(me).named = me.named
        /\ Reading(me).todo = todo
    BY <1>1, <1>2 DEF Request
  <1> QED
    BY <1>3 DEF todo

LEMMA QuotaKeyTyped ==
  ASSUME Typed, NEW r \in Requests, request[r].pc \in Metering
  PROVE  /\ request[r].kind \in DOMAIN Metered
         /\ request[r].quotas + 1 \in 1..Len(Metered[request[r].kind])
         /\ Len(Metered[request[r].kind]) \in 1..2
         /\ QuotaKey(request[r])[1] \in Quotas
         /\ QuotaKey(request[r])[2] = request[r].tier
         /\ QuotaKey(request[r])[3] = request[r].period
         /\ QuotaKey(request[r]) \in QuotaKeys
         /\ Limit[QuotaKey(request[r])[2]][QuotaKey(request[r])[1]] \in Nat
  <1> DEFINE me == request[r]
             s  == Metered[me.kind]
             i  == me.quotas + 1
  <1>1. me \in Request /\ Coherent(me, now) /\ me.tier \in Tiers /\ me.period \in Periods
    BY RequestTyped
  <1>2. me.quotas \in 0..2
    BY <1>1 DEF Request
  <1>3. me.kind \in DOMAIN Metered /\ me.quotas < Len(s)
    BY <1>1 DEF Coherent
  <1>4. s \in Seq(Quotas) /\ Len(s) \in 1..2
    BY <1>3, SemanticAssumption
  <1>5. i \in 1..Len(s)
    BY <1>2, <1>3, <1>4
  <1>6. s[i] \in Quotas
    <2> HIDE DEF s, i
    <2> QED
      BY <1>4, <1>5
  <1>7. QuotaKey(me) = <<s[i], me.tier, me.period>>
    BY DEF QuotaKey
  <1>8. QuotaKey(me) \in QuotaKeys
    <2> HIDE DEF s, i
    <2> QED
      BY <1>1, <1>6, <1>7 DEF QuotaKeys
  <1>9. Limit[me.tier][s[i]] \in Nat
    <2> HIDE DEF s, i
    <2> QED
      BY <1>1, <1>6, LimitTyped
  <1> QED
    BY <1>3, <1>4, <1>5, <1>6, <1>7, <1>8, <1>9

(* What comes of a use that was counted.                                   *)
AfterUse(r) == [request[r] EXCEPT !.quotas = @ + 1]

Onwards(r) ==
    IF AfterUse(r).quotas < Len(Metered[AfterUse(r).kind])
    THEN [AfterUse(r) EXCEPT !.pc = "period"]
    ELSE IF AfterUse(r).kind = "nlq" THEN [AfterUse(r) EXCEPT !.pc = "translate"]
    ELSE Reading(AfterUse(r))

LEMMA OnwardsTyped ==
  ASSUME Typed, NEW r \in Requests, request[r].pc \in Metering
  PROVE  /\ Onwards(r) \in Request
         /\ Coherent(Onwards(r), now)
         /\ Onwards(r).pc \in {"period", "translate", "read"}
         /\ Onwards(r).tier = request[r].tier
         /\ Onwards(r).kind = request[r].kind
         /\ Onwards(r).query = request[r].query
         /\ Onwards(r).rows = request[r].rows
         /\ Onwards(r).named = request[r].named
         /\ Onwards(r).todo \in {request[r].todo, Allowed(request[r].tier, request[r].query)}
  <1> DEFINE me == request[r]
             a  == AfterUse(r)
             n  == Len(Metered[me.kind])
  <1>1. me \in Request /\ Coherent(me, now)
    BY RequestTyped
  <1>2. me.quotas \in 0..2 /\ n \in 1..2 /\ me.quotas + 1 \in 1..n
    BY <1>1, QuotaKeyTyped DEF Request
  <1>3. me.query \in Queries
    BY <1>1 DEF Coherent, Unqueried, Metering
  <1>4. /\ a \in Request /\ a.pc = me.pc /\ a.quotas = me.quotas + 1 /\ a.kind = me.kind
        /\ a.query = me.query /\ a.tier = me.tier /\ a.period = me.period
        /\ a.rows = me.rows /\ a.named = me.named /\ a.todo = me.todo
    <2> HIDE DEF n
    <2> QED
      BY <1>1, <1>2 DEF Request, AfterUse
  <1>5. me.period <= now \div Period
    BY RequestTyped
  <1> HIDE DEF a
  <1>6. CASE a.quotas < n
    <2>1. Onwards(r) = [a EXCEPT !.pc = "period"]
      BY <1>4, <1>6 DEF Onwards, a
    <2> QED
      BY <1>1, <1>3, <1>4, <1>5, <1>6, <2>1, QuotaKeyTyped
      DEF Request, Coherent, Metering, Unqueried
  <1>7. CASE ~(a.quotas < n) /\ a.kind = "nlq"
    <2>1. Onwards(r) = [a EXCEPT !.pc = "translate"]
      BY <1>4, <1>7 DEF Onwards, a
    <2> QED
      BY <1>1, <1>3, <1>4, <1>5, <2>1 DEF Request, Coherent, Metering, Unqueried
  <1>8. CASE ~(a.quotas < n) /\ a.kind # "nlq"
    <2>1. Onwards(r) = Reading(a)
      BY <1>4, <1>8 DEF Onwards, a
    <2>2. Coherent(Onwards(r), now)
      BY <1>3, <1>4, <1>5, <2>1, ReadingTyped DEF Coherent, Metering, Unqueried
    <2> QED
      BY <1>3, <1>4, <2>1, <2>2, ReadingTyped
  <1> QED
    BY <1>6, <1>7, <1>8

LEMMA ConsumedMeans ==
  ASSUME NEW r \in Requests, NEW k, NEW used, Consumed(r, k, used)
  PROVE  \/ /\ ~Grants(k[2], k[1], used)
            /\ Becomes(r, Idle)
            /\ UNCHANGED granted
         \/ /\ Grants(k[2], k[1], used)
            /\ Becomes(r, Onwards(r))
            /\ granted' = [granted EXCEPT ![k] = @ + 1]
  BY DEF Consumed, Onwards, AfterUse

LEMMA ConsumedTyped ==
  ASSUME Typed, NEW r \in Requests, request[r].pc \in Metering,
         NEW k \in QuotaKeys, NEW used, Consumed(r, k, used)
  PROVE  /\ \E q \in Request : Becomes(r, q) /\ Coherent(q, now)
         /\ granted' \in [QuotaKeys -> Nat]
  <1>1. granted \in [QuotaKeys -> Nat]
    BY DEF Typed, TypeOK
  <1>2. granted' \in [QuotaKeys -> Nat]
    BY <1>1, ConsumedMeans
  <1>3. \E q \in Request : Becomes(r, q) /\ Coherent(q, now)
    BY ConsumedMeans, IdleTyped, IdleCoherent, OnwardsTyped
  <1> QED
    BY <1>2, <1>3

(* The steps of a query.                                                   *)
LEMMA QueriesTyped ==
  ASSUME Typed, NEW r \in Requests,
         \/ \E q \in Queries : StartWeb(r, q) \/ Translate(r, q)
         \/ LookupCache(r)
         \/ \E m \in Measures : ReadMeasure(r, m)
         \/ EndQuery(r) \/ StoreAnswer(r) \/ EndRequest(r)
  PROVE  Typed'
  <1> DEFINE me == request[r]
  <1>1. /\ me \in Request /\ Coherent(me, now) /\ me.period \in Nat
        /\ me.period <= now \div Period /\ now \in Nat
    BY RequestTyped
  <1>2. /\ tier \in Tiers /\ cache \in [CacheKeys -> Entry] /\ built \in 0..MaxBuilds
        /\ now \in Times /\ lost \subseteq CacheKeys
    BY DEF Typed, TypeOK
  <1>3. CASE \E q \in Queries : StartWeb(r, q)
    <2>1. PICK q \in Queries : StartWeb(r, q)
      BY <1>3
    <2> DEFINE next == [Idle EXCEPT !.pc = "lookup", !.kind = "web", !.query = q, !.tier = tier]
    <2>2. next \in Request /\ Coherent(next, now)
      BY <1>2, IdleTyped, IdleCoherent DEF Request, Coherent, Idle, Metering, Unqueried
    <2> QED
      BY <2>1, <2>2, OnlyMoves DEF StartWeb
  <1>4. CASE \E q \in Queries : Translate(r, q)
    <2>1. PICK q \in Queries : Translate(r, q)
      BY <1>4
    <2> DEFINE at == [me EXCEPT !.query = q]
    <2>2. at \in Request /\ at.query = q /\ at.period = me.period
      BY <1>1 DEF Request
    <2>3. Reading(at) \in Request /\ Coherent(Reading(at), now)
      BY <1>1, <2>2, ReadingTyped DEF Coherent, Metering, Unqueried
    <2> QED
      BY <2>1, <2>3, OnlyMoves DEF Translate
  <1>5. CASE LookupCache(r)
    <2> DEFINE k == KeyOf(me.tier, me.query)
               hit == [me EXCEPT !.pc = "done", !.rows = cache[k].rows, !.named = cache[k].named]
    <2>1. me.query \in Queries
      BY <1>1, <1>5 DEF LookupCache, Coherent, Unqueried
    <2>2. cache[k] \in Entry
      BY <1>1, <1>2, <2>1, RequestTyped DEF KeyOf, CacheKeys
    <2>3. hit \in Request /\ Coherent(hit, now)
      BY <1>1, <2>1, <2>2 DEF Request, Entry, Coherent, Metering, Unqueried
    <2>4. Reading(me) \in Request /\ Coherent(Reading(me), now)
      BY <1>1, <2>1, ReadingTyped DEF Coherent, Metering, Unqueried
    <2> QED
      BY <1>5, <2>3, <2>4, OnlyMoves DEF LookupCache
  <1>6. CASE \E m \in Measures : ReadMeasure(r, m)
    <2>1. PICK m \in Measures : ReadMeasure(r, m)
      BY <1>6
    <2> DEFINE next == [me EXCEPT !.todo = @ \ {m},
                                  !.rows = @ \cup {[measure |-> m, build |-> built]}]
    <2>2. [measure |-> m, build |-> built] \in Row
      BY <1>2 DEF Row
    <2>3. next \in Request /\ Coherent(next, now)
      BY <1>1, <2>2 DEF Request, Coherent
    <2> QED
      BY <2>1, <2>3, OnlyMoves DEF ReadMeasure
  <1>7. ASSUME me.pc = "read"
        PROVE  /\ me.query \in Queries
               /\ Answer(me) \in Request /\ Coherent(Answer(me), now)
               /\ Answer(me).named \in BOOLEAN
    <2>1. me.query \in Queries
      BY <1>1, <1>7 DEF Coherent, Unqueried
    <2>2. Names(me.tier, me.query) \in BOOLEAN
      BY <2>1, SemanticAssumption DEF Names, CompanyGated
    <2> QED
      BY <1>1, <1>7, <2>1, <2>2 DEF Answer, Request, Coherent, Metering, Unqueried
  <1>8. CASE EndQuery(r)
    BY <1>7, <1>8, OnlyMoves DEF EndQuery
  <1>9. CASE StoreAnswer(r)
    <2> DEFINE k == KeyOf(me.tier, me.query)
               entry == [rows |-> me.rows, named |-> Answer(me).named,
                         expires |-> now + CacheTtl,
                         late |-> \E row \in me.rows : row.build # built]
    <2>1. me.pc = "read" /\ cache' = [cache EXCEPT ![k] = entry] /\ lost' = lost \ {k}
      BY <1>9 DEF StoreAnswer
    <2>2. now + CacheTtl \in 0..(MaxNow + CacheTtl)
      BY <1>2, Bounds DEF Times
    <2>3. (\E row \in me.rows : row.build # built) \in BOOLEAN
      OBVIOUS
    <2>4. entry \in Entry
      BY <1>1, <1>7, <2>1, <2>2, <2>3 DEF Entry, Request
    <2>5. cache' \in [CacheKeys -> Entry] /\ lost' \subseteq CacheKeys
      <3> HIDE DEF entry, k
      <3> QED
        BY <1>2, <2>1, <2>4
    <2> QED
      BY <1>7, <1>9, <2>1, <2>5, MovesTyped
      DEF StoreAnswer, Typed, TypeOK, published, quotaVars, tokenVars
  <1>10. CASE EndRequest(r)
    BY <1>10, OnlyMoves, IdleTyped, IdleCoherent DEF EndRequest
  <1> QED
    BY <1>3, <1>4, <1>5, <1>6, <1>8, <1>9, <1>10

(* The steps of a metered request up to its query.                         *)
LEMMA UsesTyped ==
  ASSUME Typed, NEW r \in Requests,
         \/ \E kind \in DOMAIN Metered, q \in Queries : StartMetered(r, kind, q)
         \/ NamePeriod(r) \/ CountUse(r) \/ ExpireCounter(r)
  PROVE  Typed'
  <1> DEFINE me == request[r]
             k == QuotaKey(me)
  <1>1. /\ me \in Request /\ Coherent(me, now) /\ me.period \in Nat
        /\ me.period <= now \div Period /\ now \in Nat
    BY RequestTyped
  <1>2. /\ tier \in Tiers /\ now \in Times /\ strayed \subseteq QuotaKeys
        /\ counter \in [QuotaKeys -> [used : Nat, expires : 0..Forever]]
        /\ now \div Period \in Periods /\ now \div Period \in Nat
    BY PeriodOfNow, RequestTyped DEF Typed, TypeOK
  <1>3. CASE \E kind \in DOMAIN Metered, q \in Queries : StartMetered(r, kind, q)
    <2>1. PICK kind \in DOMAIN Metered, q \in Queries : StartMetered(r, kind, q)
      BY <1>3
    <2> DEFINE next == [Idle EXCEPT !.pc = "period", !.kind = kind, !.query = q, !.tier = tier]
    <2>2. next \in Request /\ next.quotas = 0 /\ next.kind = kind /\ next.query = q
          /\ next.period = Idle.period /\ next.pc = "period"
      BY <1>2, IdleTyped DEF Request, Idle
    <2>3. 0 < Len(Metered[kind])
      <3>1. Len(Metered[kind]) \in 1..2
        BY SemanticAssumption
      <3> QED
        BY <3>1
    <2>4. Coherent(next, now)
      <3>1. Idle.period <= now \div Period
        BY IdleCoherent DEF Coherent
      <3> HIDE DEF next
      <3>2. next.quotas < Len(Metered[next.kind])
        BY <2>2, <2>3
      <3>3. next.period <= now \div Period
        BY <2>2, <3>1
      <3> QED
        BY <2>2, <3>2, <3>3 DEF Coherent
    <2> QED
      BY <2>1, <2>2, <2>4, OnlyMoves DEF StartMetered
  <1>4. CASE NamePeriod(r)
    <2> DEFINE next == [me EXCEPT !.pc = "count", !.period = now \div Period]
    <2>1. me.pc = "period" /\ Becomes(r, next)
      BY <1>4 DEF NamePeriod
    <2>2. /\ next \in Request /\ next.pc = "count" /\ next.period = now \div Period
          /\ next.kind = me.kind /\ next.quotas = me.quotas /\ next.query = me.query
      BY <1>1, <1>2 DEF Request
    <2>3. Coherent(next, now)
      <3> HIDE DEF next
      <3> QED
        BY <1>1, <1>2, <2>1, <2>2 DEF Coherent, Metering, Unqueried
    <2> QED
      BY <1>4, <2>1, <2>2, <2>3, OnlyMoves DEF NamePeriod
  <1>5. CASE CountUse(r)
    <2> DEFINE used == counter[k].used + 1
               entry == [used |-> used,
                         expires |-> IF used = 1 THEN Forever ELSE counter[k].expires]
    <2>1. /\ me.pc = "count"
          /\ counter' = [counter EXCEPT ![k] = entry]
          /\ strayed' = IF me.period # now \div Period THEN strayed \cup {k} ELSE strayed
          /\ IF used = 1
             THEN Becomes(r, [me EXCEPT !.pc = "expire"]) /\ UNCHANGED granted
             ELSE Consumed(r, k, used)
      BY <1>5 DEF CountUse
    <2>2. k \in QuotaKeys /\ me.pc \in Metering
      BY <2>1, QuotaKeyTyped DEF Metering
    <2>3. entry \in [used : Nat, expires : 0..Forever]
      BY <1>2, <2>2, Bounds DEF Forever
    <2>4. /\ counter' \in [QuotaKeys -> [used : Nat, expires : 0..Forever]]
          /\ strayed' \subseteq QuotaKeys
      <3> HIDE DEF entry, k
      <3> QED
        BY <1>2, <2>1, <2>2, <2>3
    <2>5. CASE used = 1
      <3>1. [me EXCEPT !.pc = "expire"] \in Request /\ Coherent([me EXCEPT !.pc = "expire"], now)
        BY <1>1, <2>1 DEF Request, Coherent, Metering, Unqueried
      <3> QED
        BY <1>5, <2>1, <2>4, <2>5, <3>1, MovesTyped
        DEF CountUse, Typed, TypeOK, published, tokenVars
    <2>6. CASE used # 1
      <3>1. /\ \E q \in Request : Becomes(r, q) /\ Coherent(q, now)
            /\ granted' \in [QuotaKeys -> Nat]
        BY <2>1, <2>2, <2>6, ConsumedTyped
      <3> QED
        BY <1>5, <2>4, <3>1, MovesTyped DEF CountUse, Typed, TypeOK, published, tokenVars
    <2> QED
      BY <2>5, <2>6
  <1>6. CASE ExpireCounter(r)
    <2>1. /\ me.pc = "expire"
          /\ counter' = [counter EXCEPT ![k].expires = now + QuotaTtl]
          /\ Consumed(r, k, 1)
      BY <1>6 DEF ExpireCounter
    <2>2. k \in QuotaKeys /\ me.pc \in Metering
      BY <2>1, QuotaKeyTyped DEF Metering
    <2>3. now + QuotaTtl \in 0..Forever
      BY <1>2, Bounds DEF Forever, Times
    <2>4. counter' \in [QuotaKeys -> [used : Nat, expires : 0..Forever]]
      <3> HIDE DEF k
      <3> QED
        BY <1>2, <2>1, <2>2, <2>3
    <2>5. /\ \E q \in Request : Becomes(r, q) /\ Coherent(q, now)
          /\ granted' \in [QuotaKeys -> Nat]
      BY <2>1, <2>2, ConsumedTyped
    <2> QED
      BY <1>6, <2>4, <2>5, MovesTyped DEF ExpireCounter, Typed, TypeOK, published, tokenVars
  <1> QED
    BY <1>3, <1>4, <1>5, <1>6

(* The steps of a mapping run.                                             *)
LEMMA MappingTyped ==
  ASSUME Typed, NEW r \in Requests,
         \/ StartMapping(r) \/ SumUsage(r) \/ EstimateTokens(r)
         \/ \E output \in 0..MaxOutput : ChargeTokens(r, output)
  PROVE  Typed'
  <1> DEFINE me == request[r]
  <1>1. /\ me \in Request /\ Coherent(me, now) /\ me.period \in Periods
        /\ me.tier \in Tiers /\ me.input \in 0..MaxDocuments
    BY RequestTyped DEF Request
  <1>2. /\ tier \in Tiers /\ now \div Period \in Periods /\ now \div Period \in Nat
        /\ usage \in [Periods -> 0..MaxTokens] /\ ceiling \in [Periods -> Nat]
        /\ unseen \subseteq Periods /\ documents \in 0..MaxDocuments
    BY PeriodOfNow, PeriodBounds DEF Typed, TypeOK, Times
  <1>3. CASE StartMapping(r)
    <2> DEFINE next == [Idle EXCEPT !.pc = "meter", !.kind = "map", !.tier = tier,
                                    !.period = now \div Period]
    <2>1. next \in Request /\ next.pc = "meter" /\ next.period = now \div Period
      BY <1>2, IdleTyped DEF Request
    <2>2. Coherent(next, now)
      <3> HIDE DEF next
      <3> QED
        BY <1>2, <2>1 DEF Coherent, Metering, Unqueried
    <2> QED
      BY <1>3, <2>1, <2>2, OnlyMoves DEF StartMapping
  <1>4. CASE SumUsage(r)
    <2> DEFINE next == [me EXCEPT !.pc = "estimate", !.used = usage[now \div Period]]
    <2>1. next \in Request /\ Coherent(next, now)
      <3>1. usage[now \div Period] \in Nat
        BY <1>2, Bounds
      <3>2. next \in Request /\ next.pc = "estimate" /\ next.period = me.period
        BY <1>1, <3>1 DEF Request
      <3> HIDE DEF next
      <3> QED
        BY <1>1, <3>2 DEF Coherent, Metering, Unqueried
    <2>2. unseen' \subseteq Periods /\ Becomes(r, next)
      BY <1>1, <1>2, <1>4 DEF SumUsage
    <2> QED
      BY <1>4, <2>1, <2>2, MovesTyped DEF SumUsage, Typed, TypeOK, published
  <1>5. CASE EstimateTokens(r)
    <2> DEFINE next == [me EXCEPT !.pc = "charge", !.input = documents]
               most == Max({ceiling[me.period], Limit[me.tier][Tokens]})
    <2>1. next \in Request /\ Coherent(next, now)
      BY <1>1, <1>2 DEF Request, Coherent, Metering, Unqueried
    <2>2. most \in Nat
      BY <1>1, <1>2, LimitTyped, MaxOfTwo
    <2>3. \E q \in Request : Becomes(r, q) /\ Coherent(q, now)
      BY <1>5, <2>1, IdleTyped, IdleCoherent DEF EstimateTokens
    <2>4. ceiling' \in [Periods -> Nat]
      <3>1. ceiling' \in {ceiling, [ceiling EXCEPT ![me.period] = most]}
        BY <1>5 DEF EstimateTokens
      <3> HIDE DEF most
      <3> QED
        BY <1>2, <2>2, <3>1
    <2> QED
      BY <1>5, <2>3, <2>4, MovesTyped DEF EstimateTokens, Typed, TypeOK, published
  <1>6. CASE \E output \in 0..MaxOutput : ChargeTokens(r, output)
    <2>1. PICK output \in 0..MaxOutput : ChargeTokens(r, output)
      BY <1>6
    <2> DEFINE total == usage[me.period] + me.input + output
    <2>2. total \in 0..MaxTokens
      BY <1>1, <1>2, <2>1, Bounds DEF ChargeTokens
    <2>3. usage' \in [Periods -> 0..MaxTokens] /\ unseen' \subseteq Periods
      <3>1. usage' = [usage EXCEPT ![me.period] = total]
            /\ unseen' \in {unseen, unseen \cup {me.period}}
        BY <2>1 DEF ChargeTokens
      <3> HIDE DEF total
      <3> QED
        BY <1>1, <1>2, <2>2, <3>1
    <2> QED
      BY <2>1, <2>3, MovesTyped, IdleTyped, IdleCoherent
      DEF ChargeTokens, Typed, TypeOK, published
  <1> QED
    BY <1>3, <1>4, <1>5, <1>6

(* The steps of a rebuild.                                                 *)
LEMMA RebuildsTyped ==
  ASSUME Typed, NEW w \in Workers, Work(w)
  PROVE  Typed'
  <1> DEFINE me == rebuild[w]
  <1>1. /\ me \in Rebuild /\ rebuild \in [Workers -> Rebuild]
        /\ cache \in [CacheKeys -> Entry] /\ built \in 0..MaxBuilds
        /\ pinned \in Disclosures \cup Corrections /\ lost \subseteq CacheKeys
    BY DEF Typed, TypeOK
  <1>2. ASSUME NEW next \in Rebuild, Works(w, next),
               UNCHANGED <<now, pinned, tier, counter, granted, strayed, tokenVars, request>>,
               built' \in 0..MaxBuilds, basis' \in Disclosures \cup Corrections,
               cache' \in [CacheKeys -> Entry], lost' \subseteq CacheKeys
        PROVE  Typed'
    <2>1. rebuild' \in [Workers -> Rebuild]
      BY <1>1, <1>2 DEF Works
    <2>2. TypeOK'
      BY <1>2, <2>1 DEF Typed, TypeOK, tokenVars
    <2>3. now' >= now
      BY <1>2 DEF Typed, TypeOK, Times
    <2> QED
      BY <1>2, <2>2, <2>3, RequestsStay
  <1>3. CASE StartRebuild(w)
    <2>1. [me EXCEPT !.pc = "commit", !.snap = pinned] \in Rebuild
      BY <1>1 DEF Rebuild
    <2> QED
      BY <1>2, <1>3, <2>1 DEF StartRebuild, Typed, TypeOK, published, quotaVars
  <1>4. CASE CommitRebuild(w)
    <2>1. [me EXCEPT !.pc = "invalidate"] \in Rebuild /\ me.snap \in Disclosures \cup Corrections
      BY <1>1 DEF Rebuild
    <2>2. built + 1 \in 0..MaxBuilds
      BY <1>1, <1>4, Bounds DEF CommitRebuild
    <2> QED
      BY <1>2, <1>4, <2>1, <2>2 DEF CommitRebuild, Typed, TypeOK, quotaVars
  <1>5. CASE StartScan(w)
    <2>1. [me EXCEPT !.pc = "scan", !.todo = {k \in CacheKeys : Live(k)}] \in Rebuild
      BY <1>1 DEF Rebuild
    <2> QED
      BY <1>2, <1>5, <2>1 DEF StartScan, Typed, TypeOK, published, quotaVars
  <1>6. CASE \E K \in SUBSET CacheKeys : ScanPage(w, K)
    <2>1. PICK K \in SUBSET CacheKeys : ScanPage(w, K)
      BY <1>6
    <2>2. [me EXCEPT !.todo = @ \ K] \in Rebuild
      BY <1>1 DEF Rebuild
    <2>3. cache' \in [CacheKeys -> Entry] /\ lost' \subseteq CacheKeys
      BY <1>1, <2>1, NoEntryTyped DEF ScanPage
    <2> QED
      BY <1>2, <2>1, <2>2, <2>3 DEF ScanPage, Typed, TypeOK, published, quotaVars
  <1>7. CASE EndScan(w)
    <2>1. [me EXCEPT !.pc = "idle"] \in Rebuild
      BY <1>1 DEF Rebuild
    <2> QED
      BY <1>2, <1>7, <2>1 DEF EndScan, Typed, TypeOK, published, quotaVars
  <1>8. CASE FailRebuild(w)
    <2>1. [me EXCEPT !.pc = "idle", !.todo = {}] \in Rebuild /\ me.todo \subseteq CacheKeys
      BY <1>1 DEF Rebuild
    <2>2. lost' \subseteq CacheKeys
      BY <1>1, <1>8, <2>1 DEF FailRebuild
    <2> QED
      BY <1>2, <1>8, <2>1, <2>2 DEF FailRebuild, Typed, TypeOK, published, quotaVars
  <1> QED
    BY <1>3, <1>4, <1>5, <1>6, <1>7, <1>8 DEF Work

(* The clock, the plan, what is pinned, and documents.                     *)
LEMMA WorldTyped ==
  ASSUME Typed,
         \/ Tick
         \/ \E t \in Tiers : ChangePlan(t)
         \/ \E values \in Corrections : Publish(values)
         \/ \E size \in 1..MaxDocuments : UploadDocument(size)
  PROVE  Typed'
  <1>1. now \in Nat /\ now \in Times /\ documents \in 0..MaxDocuments
    BY DEF Typed, TypeOK, Times
  <1>2. CASE Tick
    <2>1. now' \in Times /\ now' >= now
      BY <1>1, <1>2, Bounds DEF Tick, Times
    <2>2. cache' \in [CacheKeys -> Entry] /\ lost' \subseteq CacheKeys
      BY <1>2, NoEntryTyped DEF Tick, Typed, TypeOK
    <2>3. counter' \in [QuotaKeys -> [used : Nat, expires : 0..Forever]]
      BY <1>2, NoUseTyped DEF Tick, Typed, TypeOK
    <2>4. TypeOK'
      BY <1>2, <2>1, <2>2, <2>3 DEF Tick, Typed, TypeOK, published, tokenVars
    <2> QED
      BY <1>2, <2>1, <2>4, RequestsStay DEF Tick
  <1>3. CASE \E t \in Tiers : ChangePlan(t)
    <2>1. TypeOK'
      BY <1>3 DEF ChangePlan, Typed, TypeOK, published, quotaVars, tokenVars
    <2> QED
      BY <1>1, <1>3, <2>1, RequestsStay DEF ChangePlan
  <1>4. CASE \E values \in Corrections : Publish(values)
    <2>1. TypeOK'
      BY <1>4 DEF Publish, Typed, TypeOK, quotaVars, tokenVars
    <2> QED
      BY <1>1, <1>4, <2>1, RequestsStay DEF Publish
  <1>5. CASE \E size \in 1..MaxDocuments : UploadDocument(size)
    <2>1. documents' \in 0..MaxDocuments
      BY <1>1, <1>5, Bounds DEF UploadDocument
    <2>2. TypeOK'
      BY <1>5, <2>1 DEF UploadDocument, Typed, TypeOK, published
    <2> QED
      BY <1>1, <1>5, <2>2, RequestsStay DEF UploadDocument
  <1> QED
    BY <1>2, <1>3, <1>4, <1>5

LEMMA StepsTyped == Typed /\ [Next]_vars => Typed'
  <1> SUFFICES ASSUME Typed, [Next]_vars PROVE Typed'
    OBVIOUS
  <1>1. CASE UNCHANGED vars
    <2>1. TypeOK'
      BY <1>1 DEF Typed, TypeOK, vars
    <2>2. request' = request /\ now' >= now
      BY <1>1 DEF Typed, TypeOK, vars, Times
    <2> QED
      BY <2>1, <2>2, RequestsStay
  <1>2. CASE \E r \in Requests : Serve(r)
    BY <1>2, QueriesTyped, UsesTyped, MappingTyped DEF Serve
  <1>3. CASE \E w \in Workers : Work(w)
    BY <1>3, RebuildsTyped
  <1> QED
    BY <1>1, <1>2, <1>3, WorldTyped DEF Next

(* The stronger types, with what a request knows by how far it came.       *)
THEOREM TypedAlways == Spec => []Typed
  BY InitTyped, StepsTyped, PTL DEF Spec

(* Types are kept, whatever is asked, mapped and rebuilt at the same time. *)
THEOREM SemanticTyped == Spec => []TypeOK
  <1>1. Typed => TypeOK
    BY DEF Typed
  <1> QED
    BY <1>1, TypedAlways, PTL

-----------------------------------------------------------------------------
(* What a plan is shown.  What a request has read and is still to read are *)
(* for its plan, and so is what is cached under a plan.                    *)

Fits(t, rows) == \A row \in rows : MeasureTier[row.measure] <= t

FitsRequest(me) ==
    /\ Fits(me.tier, me.rows)
    /\ \A m \in me.todo : MeasureTier[m] <= me.tier
    /\ me.named => me.tier # Explore

FitsEntry(k, entry) == Fits(k[1], entry.rows) /\ (entry.named => k[1] # Explore)

PlanKept ==
    /\ \A r \in Requests : FitsRequest(request[r])
    /\ \A k \in CacheKeys : FitsEntry(k, cache[k])

LEMMA IdleFits == FitsRequest(Idle)
  BY DEF FitsRequest, Fits, Idle

LEMMA NoEntryFits ==
  ASSUME NEW k
  PROVE  FitsEntry(k, NoEntry)
  BY DEF FitsEntry, Fits, NoEntry

LEMMA InitFits == Init => PlanKept
  BY IdleFits, NoEntryFits DEF Init, PlanKept

LEMMA ReadingFits ==
  ASSUME NEW me \in Request, me.query \in Queries, FitsRequest(me)
  PROVE  FitsRequest(Reading(me))
  BY ReadingTyped, AllowedFits DEF FitsRequest, Fits

LEMMA OnwardsFits ==
  ASSUME Typed, NEW r \in Requests, request[r].pc \in Metering, FitsRequest(request[r])
  PROVE  FitsRequest(Onwards(r))
  <1>1. request[r].query \in Queries
    BY RequestTyped DEF Coherent, Metering, Unqueried
  <1> QED
    BY <1>1, OnwardsTyped, AllowedFits DEF FitsRequest, Fits

LEMMA AnswerFits ==
  ASSUME NEW me \in Request, me.query \in Queries, FitsRequest(me)
  PROVE  /\ FitsRequest(Answer(me))
         /\ Answer(me).rows = me.rows
         /\ Answer(me).tier = me.tier
         /\ Answer(me).named => me.tier # Explore
  <1>1. Names(me.tier, me.query) \in BOOLEAN
    BY SemanticAssumption DEF Names, CompanyGated
  <1>2. Names(me.tier, me.query) => me.tier # Explore
    BY DEF Names, CompanyGated
  <1> DEFINE names == Names(me.tier, me.query)
  <1>3. Answer(me) = [me EXCEPT !.pc = "done", !.named = names]
    BY DEF Answer
  <1> HIDE DEF names
  <1>4. /\ Answer(me).rows = me.rows /\ Answer(me).tier = me.tier
        /\ Answer(me).todo = me.todo /\ Answer(me).named = names
    BY <1>3 DEF Request
  <1> QED
    BY <1>2, <1>4 DEF FitsRequest, names

(* A request that moves on and leaves the cache alone.                     *)
LEMMA MovesFit ==
  ASSUME Typed, PlanKept, NEW r \in Requests, NEW q, FitsRequest(q), Becomes(r, q),
         UNCHANGED cache
  PROVE  PlanKept'
  <1>1. ASSUME NEW s \in Requests PROVE FitsRequest(request'[s])
    BY DEF Becomes, Typed, TypeOK, PlanKept
  <1> QED
    BY <1>1 DEF PlanKept, FitsRequest

LEMMA ServesFit ==
  ASSUME Typed, PlanKept, NEW r \in Requests, Serve(r)
  PROVE  PlanKept'
  <1> DEFINE me == request[r]
             k == KeyOf(me.tier, me.query)
  <1>1. me \in Request /\ Coherent(me, now) /\ me.tier \in Tiers /\ FitsRequest(me)
    BY RequestTyped DEF PlanKept
  <1>2. tier \in Tiers
    BY DEF Typed, TypeOK
  <1>3. CASE StartMapping(r)
    <2>1. FitsRequest([Idle EXCEPT !.pc = "meter", !.kind = "map", !.tier = tier,
                                   !.period = now \div Period])
      BY DEF FitsRequest, Fits, Idle
    <2> QED
      BY <1>3, <2>1, MovesFit DEF StartMapping
  <1>4. CASE SumUsage(r)
    <2>1. FitsRequest([me EXCEPT !.pc = "estimate", !.used = usage[now \div Period]])
      BY <1>1 DEF FitsRequest, Request
    <2> QED
      BY <1>4, <2>1, MovesFit DEF SumUsage
  <1>5. CASE EstimateTokens(r)
    <2>1. FitsRequest([me EXCEPT !.pc = "charge", !.input = documents])
      BY <1>1 DEF FitsRequest, Request
    <2>2. Becomes(r, [me EXCEPT !.pc = "charge", !.input = documents]) \/ Becomes(r, Idle)
      BY <1>5 DEF EstimateTokens
    <2> QED
      BY <1>5, <2>1, <2>2, IdleFits, MovesFit DEF EstimateTokens
  <1>6. CASE \E output \in 0..MaxOutput : ChargeTokens(r, output)
    BY <1>6, IdleFits, MovesFit DEF ChargeTokens
  <1>7. CASE \E q \in Queries : StartWeb(r, q)
    <2>1. PICK q \in Queries : StartWeb(r, q)
      BY <1>7
    <2>2. FitsRequest([Idle EXCEPT !.pc = "lookup", !.kind = "web", !.query = q, !.tier = tier])
      BY DEF FitsRequest, Fits, Idle
    <2> QED
      BY <2>1, <2>2, MovesFit DEF StartWeb
  <1>8. CASE \E kind \in DOMAIN Metered, q \in Queries : StartMetered(r, kind, q)
    <2>1. PICK kind \in DOMAIN Metered, q \in Queries : StartMetered(r, kind, q)
      BY <1>8
    <2>2. FitsRequest([Idle EXCEPT !.pc = "period", !.kind = kind, !.query = q, !.tier = tier])
      BY DEF FitsRequest, Fits, Idle
    <2> QED
      BY <2>1, <2>2, MovesFit DEF StartMetered
  <1>9. CASE LookupCache(r)
    <2> DEFINE hit == [me EXCEPT !.pc = "done", !.rows = cache[k].rows, !.named = cache[k].named]
    <2>1. me.query \in Queries
      BY <1>1, <1>9 DEF LookupCache, Coherent, Unqueried
    <2>2. k \in CacheKeys /\ k[1] = me.tier
      BY <1>1, <2>1 DEF KeyOf, CacheKeys
    <2>3. FitsEntry(k, cache[k])
      BY <2>2 DEF PlanKept
    <2>4. /\ hit.rows = cache[k].rows /\ hit.named = cache[k].named
          /\ hit.todo = me.todo /\ hit.tier = me.tier
      <3> HIDE DEF k
      <3> QED
        BY <1>1 DEF Request
    <2>5. FitsRequest(hit)
      <3> HIDE DEF k, hit
      <3> QED
        BY <1>1, <2>2, <2>3, <2>4 DEF FitsRequest, FitsEntry
    <2>6. Becomes(r, hit) \/ Becomes(r, Reading(me))
      BY <1>9 DEF LookupCache
    <2>7. FitsRequest(Reading(me))
      BY <1>1, <2>1, ReadingFits
    <2> QED
      BY <1>9, <2>5, <2>6, <2>7, MovesFit DEF LookupCache
  <1>10. CASE \E m \in Measures : ReadMeasure(r, m)
    <2>1. PICK m \in Measures : ReadMeasure(r, m)
      BY <1>10
    <2> DEFINE row == [measure |-> m, build |-> built]
               next == [me EXCEPT !.todo = @ \ {m}, !.rows = @ \cup {row}]
    <2>2. m \in me.todo /\ Becomes(r, next) /\ UNCHANGED cache
      BY <2>1 DEF ReadMeasure
    <2>3. MeasureTier[row.measure] <= me.tier
      BY <1>1, <2>2 DEF FitsRequest
    <2>4. FitsRequest(next)
      <3> HIDE DEF row
      <3> QED
        BY <1>1, <2>3 DEF FitsRequest, Fits, Request
    <2> QED
      BY <2>2, <2>4, MovesFit
  <1>11. CASE EndQuery(r)
    <2>1. me.query \in Queries
      BY <1>1, <1>11 DEF EndQuery, Coherent, Unqueried
    <2> QED
      BY <1>1, <1>11, <2>1, AnswerFits, MovesFit DEF EndQuery
  <1>12. CASE StoreAnswer(r)
    <2>1. me.query \in Queries
      BY <1>1, <1>12 DEF StoreAnswer, Coherent, Unqueried
    <2>2. k \in CacheKeys /\ k[1] = me.tier
      BY <1>1, <2>1 DEF KeyOf, CacheKeys
    <2> DEFINE entry == [rows |-> me.rows, named |-> Answer(me).named,
                         expires |-> now + CacheTtl,
                         late |-> \E row \in me.rows : row.build # built]
    <2>3. FitsEntry(k, entry)
      <3>1. entry.rows = me.rows /\ entry.named = Answer(me).named
        OBVIOUS
      <3> HIDE DEF entry, k
      <3> QED
        BY <1>1, <2>1, <2>2, <3>1, AnswerFits DEF FitsEntry, FitsRequest
    <2>4. cache' = [cache EXCEPT ![k] = entry] /\ Becomes(r, Answer(me))
      BY <1>12 DEF StoreAnswer
    <2>5. ASSUME NEW j \in CacheKeys PROVE FitsEntry(j, cache'[j])
      <3> HIDE DEF entry, k
      <3> QED
        BY <2>2, <2>3, <2>4 DEF PlanKept, Typed, TypeOK
    <2>6. ASSUME NEW s \in Requests PROVE FitsRequest(request'[s])
      BY <1>1, <2>1, <2>4, AnswerFits DEF Becomes, Typed, TypeOK, PlanKept
    <2> QED
      BY <2>5, <2>6 DEF PlanKept, FitsEntry, FitsRequest
  <1>13. CASE EndRequest(r)
    BY <1>13, IdleFits, MovesFit DEF EndRequest
  <1>14. CASE NamePeriod(r)
    <2>1. FitsRequest([me EXCEPT !.pc = "count", !.period = now \div Period])
      BY <1>1 DEF FitsRequest, Request
    <2> QED
      BY <1>14, <2>1, MovesFit DEF NamePeriod
  <1>15. CASE CountUse(r)
    <2>1. FitsRequest([me EXCEPT !.pc = "expire"])
      BY <1>1 DEF FitsRequest, Request
    <2>2. me.pc \in Metering /\ cache' = cache
      BY <1>15 DEF CountUse, Metering
    <2>3. \/ Becomes(r, [me EXCEPT !.pc = "expire"])
          \/ Consumed(r, QuotaKey(me), counter[QuotaKey(me)].used + 1)
      BY <1>15 DEF CountUse
    <2>4. \E q : FitsRequest(q) /\ Becomes(r, q)
      BY <1>1, <2>1, <2>2, <2>3, ConsumedMeans, IdleFits, OnwardsFits
    <2> QED
      BY <2>2, <2>4, MovesFit
  <1>16. CASE ExpireCounter(r)
    <2>1. me.pc \in Metering /\ cache' = cache /\ Consumed(r, QuotaKey(me), 1)
      BY <1>16 DEF ExpireCounter, Metering
    <2>2. \E q : FitsRequest(q) /\ Becomes(r, q)
      BY <1>1, <2>1, ConsumedMeans, IdleFits, OnwardsFits
    <2> QED
      BY <2>1, <2>2, MovesFit
  <1>17. CASE \E q \in Queries : Translate(r, q)
    <2>1. PICK q \in Queries : Translate(r, q)
      BY <1>17
    <2> DEFINE at == [me EXCEPT !.query = q]
    <2>2. at \in Request /\ at.query = q /\ FitsRequest(at)
      BY <1>1 DEF Request, FitsRequest
    <2> QED
      BY <2>1, <2>2, ReadingFits, MovesFit DEF Translate
  <1> QED
    BY <1>3, <1>4, <1>5, <1>6, <1>7, <1>8, <1>9, <1>10, <1>11, <1>12, <1>13, <1>14, <1>15,
       <1>16, <1>17
    DEF Serve

LEMMA StepsFit == Typed /\ PlanKept /\ [Next]_vars => PlanKept'
  <1> SUFFICES ASSUME Typed, PlanKept, [Next]_vars PROVE PlanKept'
    OBVIOUS
  <1>1. CASE UNCHANGED vars
    BY <1>1 DEF vars, PlanKept, FitsRequest, FitsEntry
  <1>2. ASSUME UNCHANGED request,
               \A k \in CacheKeys : cache'[k] \in {cache[k], NoEntry}
        PROVE  PlanKept'
    <2>1. ASSUME NEW k \in CacheKeys PROVE FitsEntry(k, cache'[k])
      BY <1>2, NoEntryFits DEF PlanKept
    <2> QED
      BY <1>2, <2>1 DEF PlanKept, FitsRequest, FitsEntry
  <1>3. CASE Tick
    BY <1>2, <1>3 DEF Tick
  <1>4. CASE \E t \in Tiers : ChangePlan(t)
    BY <1>2, <1>4 DEF ChangePlan
  <1>5. CASE \E values \in Corrections : Publish(values)
    BY <1>2, <1>5 DEF Publish
  <1>6. CASE \E size \in 1..MaxDocuments : UploadDocument(size)
    BY <1>2, <1>6 DEF UploadDocument
  <1>7. CASE \E r \in Requests : Serve(r)
    BY <1>7, ServesFit
  <1>8. CASE \E w \in Workers : Work(w)
    BY <1>2, <1>8
    DEF Work, StartRebuild, CommitRebuild, StartScan, ScanPage, EndScan, FailRebuild
  <1> QED
    BY <1>1, <1>3, <1>4, <1>5, <1>6, <1>7, <1>8 DEF Next

(* No answer, computed or cached, shows a plan more than the plan is for.  *)
THEOREM AnswersFit == Spec => []AnswersFitThePlan
  <1>1. PlanKept => AnswersFitThePlan
    BY DEF PlanKept, FitsRequest, Fits, AnswersFitThePlan
  <1> QED
    BY <1>1, InitFits, StepsFit, TypedAlways, PTL DEF Spec

-----------------------------------------------------------------------------
(* The cache.  Only a rebuild that scans has keys to delete.               *)

CacheKept ==
    /\ CachedAnswersAreCurrent
    /\ \A w \in Workers : rebuild[w].todo # {} => rebuild[w].pc = "scan"

Current(k) ==
    \/ ~Live(k) \/ cache[k].late \/ k \in lost
    \/ \A row \in cache[k].rows : row.build = built
    \/ \E w \in Workers : rebuild[w].pc = "invalidate" \/ k \in rebuild[w].todo

LEMMA CurrentMeans == CachedAnswersAreCurrent <=> \A k \in CacheKeys : Current(k)
  BY DEF CachedAnswersAreCurrent, Current

LEMMA InitCurrent == Init => CacheKept
  <1> SUFFICES ASSUME Init PROVE CacheKept
    OBVIOUS
  <1>1. \A k \in CacheKeys : ~Live(k)
    BY DEF Init, Live
  <1>2. \A w \in Workers : rebuild[w].todo = {}
    BY DEF Init
  <1> QED
    BY <1>1, <1>2 DEF CacheKept, CachedAnswersAreCurrent

(* A step of a request that does not store an answer, or of the world.     *)
LEMMA CacheStays ==
  ASSUME CacheKept, UNCHANGED <<cache, lost, built, rebuild>>
  PROVE  CacheKept'
  <1>1. \A k \in CacheKeys : Current(k) => Current(k)'
    BY DEF Current, Live
  <1>2. \A k \in CacheKeys : Current(k)'
    BY <1>1, CurrentMeans DEF CacheKept
  <1>3. CachedAnswersAreCurrent'
    BY <1>2 DEF CachedAnswersAreCurrent, Current
  <1> QED
    BY <1>3 DEF CacheKept

LEMMA TickKeepsCache ==
  ASSUME Typed, CacheKept, Tick
  PROVE  CacheKept'
  <1>1. /\ \A k \in CacheKeys : cache'[k] \in {cache[k], NoEntry}
        /\ lost' = {k \in lost : cache'[k] # NoEntry}
        /\ UNCHANGED <<built, rebuild>>
    BY DEF Tick, published
  <1>2. ASSUME NEW k \in CacheKeys PROVE Current(k)'
    <2>1. Current(k)
      BY CurrentMeans DEF CacheKept
    <2>2. CASE cache'[k] = NoEntry
      BY <2>2 DEF Current, Live
    <2>3. CASE cache'[k] = cache[k] /\ cache'[k] # NoEntry
      <3>1. k \in lost => k \in lost'
        BY <1>1, <2>3
      <3> QED
        BY <1>1, <2>1, <2>3, <3>1 DEF Current, Live
    <2> QED
      BY <1>1, <2>2, <2>3
  <1>3. CachedAnswersAreCurrent'
    BY <1>2 DEF CachedAnswersAreCurrent, Current
  <1> QED
    BY <1>1, <1>3 DEF CacheKept

(* What is stored is of this build, or is known to be late.                *)
LEMMA StoreKeepsCache ==
  ASSUME Typed, CacheKept, NEW r \in Requests, StoreAnswer(r)
  PROVE  CacheKept'
  <1> DEFINE me == request[r]
             j == KeyOf(me.tier, me.query)
             late == \E row \in me.rows : row.build # built
             entry == [rows |-> me.rows, named |-> Answer(me).named,
                       expires |-> now + CacheTtl, late |-> late]
  <1>1. /\ cache' = [cache EXCEPT ![j] = entry]
        /\ lost' = lost \ {j}
        /\ UNCHANGED <<built, rebuild>>
    BY DEF StoreAnswer, published
  <1>2. entry.rows = me.rows /\ entry.late = late
    OBVIOUS
  <1>3. late \/ \A row \in me.rows : row.build = built
    OBVIOUS
  <1>4. cache \in [CacheKeys -> Entry]
    BY DEF Typed, TypeOK
  <1> HIDE DEF entry, j, late
  <1>5. ASSUME NEW k \in CacheKeys PROVE Current(k)'
    <2>1. Current(k)
      BY CurrentMeans DEF CacheKept
    <2>2. CASE k = j
      <3>1. cache'[k] = entry
        BY <1>1, <1>4, <2>2
      <3>2. entry.late \/ \A row \in entry.rows : row.build = built
        BY <1>2, <1>3
      <3> QED
        BY <1>1, <3>1, <3>2 DEF Current
    <2>3. CASE k # j
      <3>1. cache'[k] = cache[k] /\ (k \in lost => k \in lost')
        BY <1>1, <1>4, <2>3
      <3> QED
        BY <1>1, <2>1, <3>1 DEF Current, Live
    <2> QED
      BY <2>2, <2>3
  <1>6. CachedAnswersAreCurrent'
    BY <1>5 DEF CachedAnswersAreCurrent, Current
  <1> QED
    BY <1>1, <1>6 DEF CacheKept

(* A key that a scan does not come to, or that a failed one left, is lost. *)
LEMMA WorkKeepsCache ==
  ASSUME Typed, CacheKept, NEW w \in Workers, Work(w)
  PROVE  CacheKept'
  <1> DEFINE me == rebuild[w]
  <1>1. /\ me \in Rebuild /\ rebuild \in [Workers -> Rebuild]
        /\ cache \in [CacheKeys -> Entry] /\ lost \subseteq CacheKeys
        /\ me.todo # {} => me.pc = "scan"
        /\ \A v \in Workers : rebuild[v].todo # {} => rebuild[v].pc = "scan"
        /\ \A k \in CacheKeys : Current(k)
    BY CurrentMeans DEF Typed, TypeOK, CacheKept
  (* The state of one rebuild changes; the others still promise as before. *)
  <1>2. ASSUME NEW next, Works(w, next), next.todo # {} => next.pc = "scan",
               \A k \in CacheKeys :
                  \/ ~Live(k)' \/ cache'[k].late \/ k \in lost'
                  \/ \A row \in cache'[k].rows : row.build = built'
                  \/ next.pc = "invalidate" \/ k \in next.todo
                  \/ \E v \in Workers \ {w} : rebuild[v].pc = "invalidate" \/ k \in rebuild[v].todo
        PROVE  CacheKept'
    <2>1. rebuild'[w] = next /\ \A v \in Workers \ {w} : rebuild'[v] = rebuild[v]
      BY <1>1, <1>2 DEF Works
    <2>2. \A v \in Workers : rebuild'[v].todo # {} => rebuild'[v].pc = "scan"
      BY <1>1, <1>2, <2>1
    <2>3. ASSUME NEW k \in CacheKeys PROVE Current(k)'
      BY <1>2, <2>1 DEF Current
    <2>4. CachedAnswersAreCurrent'
      BY <2>3 DEF CachedAnswersAreCurrent, Current
    <2> QED
      BY <2>2, <2>4 DEF CacheKept
  <1>3. CASE StartRebuild(w)
    <2> DEFINE next == [me EXCEPT !.pc = "commit", !.snap = pinned]
    <2>1. me.todo = {} /\ me.pc = "idle"
      BY <1>1, <1>3 DEF StartRebuild
    <2>2. next.todo = {} /\ Works(w, next) /\ UNCHANGED <<cache, lost, built>>
      BY <1>1, <1>3, <2>1 DEF StartRebuild, Rebuild, published
    <2> HIDE DEF next
    <2> QED
      BY <1>1, <1>2, <2>1, <2>2 DEF Current, Live
  <1>4. CASE CommitRebuild(w)
    <2> DEFINE next == [me EXCEPT !.pc = "invalidate"]
    <2>1. me.todo = {}
      BY <1>1, <1>4 DEF CommitRebuild
    <2>2. next.todo = {} /\ next.pc = "invalidate" /\ Works(w, next)
      BY <1>1, <1>4, <2>1 DEF CommitRebuild, Rebuild
    <2> HIDE DEF next
    <2> QED
      BY <1>2, <2>2
  <1>5. CASE StartScan(w)
    <2> DEFINE next == [me EXCEPT !.pc = "scan", !.todo = {k \in CacheKeys : Live(k)}]
    <2>1. /\ next.todo = {k \in CacheKeys : Live(k)} /\ next.pc = "scan" /\ Works(w, next)
          /\ UNCHANGED <<cache, lost, built>>
      BY <1>1, <1>5 DEF StartScan, Rebuild, published
    <2>2. \A k \in CacheKeys : Live(k)' => k \in next.todo
      BY <2>1 DEF Live
    <2> HIDE DEF next
    <2> QED
      BY <1>2, <2>1, <2>2
  <1>6. CASE \E K \in SUBSET CacheKeys : ScanPage(w, K)
    <2>1. PICK K \in SUBSET CacheKeys : ScanPage(w, K)
      BY <1>6
    <2> DEFINE next == [me EXCEPT !.todo = @ \ K]
    <2>2. /\ me.pc = "scan" /\ next.pc = "scan" /\ next.todo = me.todo \ K /\ Works(w, next)
          /\ built' = built /\ lost' = lost \ K
          /\ cache' = [k \in CacheKeys |-> IF k \in K THEN NoEntry ELSE cache[k]]
      BY <1>1, <2>1 DEF ScanPage, Rebuild, published
    <2> HIDE DEF next
    <2>3. ASSUME NEW k \in CacheKeys
          PROVE  \/ ~Live(k)' \/ cache'[k].late \/ k \in lost'
                 \/ \A row \in cache'[k].rows : row.build = built'
                 \/ next.pc = "invalidate" \/ k \in next.todo
                 \/ \E v \in Workers \ {w} : rebuild[v].pc = "invalidate" \/ k \in rebuild[v].todo
      <3>1. CASE k \in K
        BY <2>2, <3>1 DEF Live
      <3>2. CASE k \notin K
        <4>1. cache'[k] = cache[k] /\ (k \in lost => k \in lost')
              /\ (k \in me.todo => k \in next.todo)
          BY <2>2, <3>2
        <4>2. Current(k)
          BY <1>1
        <4> QED
          BY <2>2, <4>1, <4>2 DEF Current, Live
      <3> QED
        BY <3>1, <3>2
    <2> QED
      BY <1>2, <2>2, <2>3
  <1>7. CASE EndScan(w)
    <2> DEFINE next == [me EXCEPT !.pc = "idle"]
    <2>1. /\ me.todo = {} /\ me.pc = "scan" /\ next.todo = {} /\ Works(w, next)
          /\ UNCHANGED <<cache, lost, built>>
      BY <1>1, <1>7 DEF EndScan, Rebuild, published
    <2> HIDE DEF next
    <2> QED
      BY <1>1, <1>2, <2>1 DEF Current, Live
  <1>8. CASE FailRebuild(w)
    <2> DEFINE next == [me EXCEPT !.pc = "idle", !.todo = {}]
    <2>1. /\ next.todo = {} /\ Works(w, next) /\ UNCHANGED <<cache, built>>
          /\ me.pc \in {"commit", "invalidate", "scan"}
      BY <1>1, <1>8 DEF FailRebuild, Rebuild, published
    <2>2. /\ me.pc = "commit" => lost' = lost
          /\ me.pc = "invalidate" => lost' = {k \in CacheKeys : Live(k)}
          /\ me.pc = "scan" => lost' = lost \cup {k \in me.todo : Live(k)}
      BY <1>8 DEF FailRebuild
    <2> HIDE DEF next
    <2>3. ASSUME NEW k \in CacheKeys
          PROVE  \/ ~Live(k)' \/ cache'[k].late \/ k \in lost'
                 \/ \A row \in cache'[k].rows : row.build = built'
                 \/ \E v \in Workers \ {w} : rebuild[v].pc = "invalidate" \/ k \in rebuild[v].todo
      <3>1. Current(k) /\ Live(k)' = Live(k)
        BY <1>1, <2>1 DEF Live
      <3>2. CASE me.pc = "commit"
        <4>1. me.todo = {} /\ lost' = lost
          BY <1>1, <2>2, <3>2
        <4> QED
          BY <2>1, <3>1, <3>2, <4>1 DEF Current
      <3>3. CASE me.pc = "invalidate"
        BY <2>2, <3>1, <3>3
      <3>4. CASE me.pc = "scan"
        <4>1. k \in me.todo /\ Live(k) => k \in lost'
          BY <2>2, <3>4
        <4>2. k \in lost => k \in lost'
          BY <2>2, <3>4
        <4> QED
          BY <2>1, <3>1, <3>4, <4>1, <4>2 DEF Current
      <3> QED
        BY <2>1, <3>2, <3>3, <3>4
    <2> QED
      BY <1>2, <2>1, <2>3
  <1> QED
    BY <1>3, <1>4, <1>5, <1>6, <1>7, <1>8 DEF Work

LEMMA StepsCurrent == Typed /\ CacheKept /\ [Next]_vars => CacheKept'
  <1> SUFFICES ASSUME Typed, CacheKept, [Next]_vars PROVE CacheKept'
    OBVIOUS
  <1>1. CASE UNCHANGED vars
    BY <1>1, CacheStays DEF vars
  <1>2. CASE \E t \in Tiers : ChangePlan(t)
    BY <1>2, CacheStays DEF ChangePlan, published
  <1>3. CASE \E values \in Corrections : Publish(values)
    BY <1>3, CacheStays DEF Publish
  <1>4. CASE \E size \in 1..MaxDocuments : UploadDocument(size)
    BY <1>4, CacheStays DEF UploadDocument, published
  <1>5. ASSUME NEW r \in Requests, Serve(r) PROVE CacheKept'
    <2>1. CASE StoreAnswer(r)
      BY <2>1, StoreKeepsCache
    <2>2. CASE ~StoreAnswer(r)
      <3>1. UNCHANGED <<cache, lost, built, rebuild>>
        BY <1>5, <2>2
        DEF Serve, StartMapping, SumUsage, EstimateTokens, ChargeTokens, StartWeb, StartMetered,
            LookupCache, ReadMeasure, EndQuery, EndRequest, NamePeriod, CountUse, ExpireCounter,
            Translate, published
      <3> QED
        BY <3>1, CacheStays
    <2> QED
      BY <2>1, <2>2
  <1> QED
    BY <1>1, <1>2, <1>3, <1>4, <1>5, TickKeepsCache, WorkKeepsCache DEF Next

(* A cached answer is of the last rebuild, or some rebuild is still to     *)
(* clear it, or it is known to have missed its invalidation.               *)
THEOREM CachedAnswersCurrent == Spec => []CachedAnswersAreCurrent
  <1>1. CacheKept => CachedAnswersAreCurrent
    BY DEF CacheKept
  <1> QED
    BY <1>1, InitCurrent, StepsCurrent, TypedAlways, PTL DEF Spec

-----------------------------------------------------------------------------
(* Quotas.  A counter is used before it is given its expiry; until then    *)
(* the use is pending.                                                     *)

Pending(r, k) == request[r].pc = "expire" /\ QuotaKey(request[r]) = k

AllowedUses(k) == Limit[k[2]][k[1]]

(* What is known of a counter that no late use came to.  One use at most   *)
(* is pending at a time, and it is not granted yet; the counter has every  *)
(* granted use while its period lasts, and does not expire before.         *)
CounterKept(k) ==
    /\ \A r, s \in Requests : Pending(r, k) /\ Pending(s, k) => r = s
    /\ granted[k] <= AllowedUses(k)
    /\ now \div Period <= k[3] => granted[k] <= counter[k].used
    /\ \A r \in Requests :
          Pending(r, k) => /\ AllowedUses(k) > 0 => granted[k] < AllowedUses(k)
                           /\ now \div Period <= k[3] => granted[k] < counter[k].used
    /\ counter[k].used > 0 => counter[k].expires >= Period * (k[3] + 1)

CountersKept == \A k \in QuotaKeys : k \in strayed \/ CounterKept(k)

LEMMA QuotaKeysTyped ==
  ASSUME NEW k \in QuotaKeys
  PROVE  /\ k[3] \in Nat
         /\ AllowedUses(k) \in Nat
         /\ Period * (k[3] + 1) \in Nat
  <1>1. k[1] \in Quotas /\ k[2] \in Tiers /\ k[3] \in Periods
    BY DEF QuotaKeys
  <1>2. k[3] \in Nat
    BY <1>1, PeriodBounds, Bounds DEF Periods
  <1>3. Period * (k[3] + 1) \in Nat
    BY <1>2, Bounds
  <1> QED
    BY <1>1, <1>2, <1>3, LimitTyped DEF AllowedUses

LEMMA CounterTyped ==
  ASSUME Typed, NEW k \in QuotaKeys
  PROVE  /\ counter[k].used \in Nat
         /\ counter[k].expires \in Nat
         /\ granted[k] \in Nat
         /\ now \in Nat
         /\ now \div Period \in Nat
  <1>1. /\ counter[k] \in [used : Nat, expires : 0..Forever]
        /\ granted[k] \in Nat /\ now \in Nat
    BY DEF Typed, TypeOK, Times
  <1>2. Forever \in Nat
    BY Bounds DEF Forever
  <1> QED
    BY <1>1, <1>2, PeriodBounds

LEMMA InitCounters == Init => CountersKept
  <1> SUFFICES ASSUME Init, NEW k \in QuotaKeys PROVE CounterKept(k)
    BY DEF CountersKept
  <1>1. /\ granted[k] = 0 /\ counter[k] = NoUse
        /\ \A r \in Requests : request[r].pc = "idle"
    BY DEF Init, Idle
  <1>2. counter[k].used = 0
    BY <1>1 DEF NoUse
  <1>3. \A r \in Requests : ~Pending(r, k)
    BY <1>1 DEF Pending
  <1> QED
    BY <1>1, <1>2, <1>3, QuotaKeysTyped DEF CounterKept

(* No use of the counter is counted or granted, and no new one is pending. *)
LEMMA CounterStays ==
  ASSUME Typed, NEW k \in QuotaKeys, CounterKept(k),
         UNCHANGED <<now, counter[k], granted[k]>>,
         \A r \in Requests : Pending(r, k)' => Pending(r, k)
  PROVE  CounterKept(k)'
  BY DEF CounterKept, AllowedUses

LEMMA CountersStay ==
  ASSUME Typed, CountersKept, UNCHANGED <<now, counter, granted, strayed>>,
         \A k \in QuotaKeys, r \in Requests : Pending(r, k)' => Pending(r, k)
  PROVE  CountersKept'
  BY CounterStays DEF CountersKept

(* An expired counter is one of a period that is over.                     *)
LEMMA TickKeepsCounters ==
  ASSUME Typed, CountersKept, Tick
  PROVE  CountersKept'
  <1>1. /\ now' = now + 1 /\ UNCHANGED <<granted, strayed, request>>
        /\ counter' = [k \in QuotaKeys |-> IF counter[k].expires > now' THEN counter[k] ELSE NoUse]
    BY DEF Tick
  <1> SUFFICES ASSUME NEW k \in QuotaKeys, k \notin strayed PROVE CounterKept(k)'
    BY <1>1 DEF CountersKept
  <1> DEFINE e == Period * (k[3] + 1)
  <1>2. CounterKept(k)
    BY DEF CountersKept
  <1>3. /\ counter[k].used \in Nat /\ counter[k].expires \in Nat /\ granted[k] \in Nat
        /\ now \in Nat /\ now' \in Nat /\ k[3] \in Nat /\ e \in Nat /\ AllowedUses(k) \in Nat
    BY <1>1, CounterTyped, QuotaKeysTyped
  <1>4. now \div Period \in Nat /\ now' \div Period \in Nat
    BY <1>3, PeriodBounds
  <1>5. now' \div Period <= k[3] => now' < e
    BY <1>3, PeriodEnds
  <1>6. now' \div Period <= k[3] => now \div Period <= k[3]
    BY <1>1, <1>3, <1>4, PeriodsAdvance
  <1>7. \A r \in Requests : Pending(r, k)' <=> Pending(r, k)
    BY <1>1 DEF Pending, QuotaKey
  <1>8. CASE counter'[k] = counter[k]
    BY <1>1, <1>2, <1>6, <1>7, <1>8 DEF CounterKept, AllowedUses
  <1>9. CASE counter'[k] # counter[k]
    <2>1. counter'[k].used = 0 /\ ~(counter[k].expires > now')
      BY <1>1, <1>9 DEF NoUse
    <2>2. counter[k].used > 0 => counter[k].expires >= e
      BY <1>2 DEF CounterKept
    <2> HIDE DEF e
    <2>3. now' \div Period <= k[3] => counter[k].used = 0
      BY <1>3, <1>5, <2>1, <2>2
    <2>4. \A r \in Requests : Pending(r, k) => ~(now' \div Period <= k[3])
      BY <1>2, <1>3, <1>6, <2>3 DEF CounterKept
    <2>5. now' \div Period <= k[3] => granted[k] <= 0
      BY <1>2, <1>3, <1>6, <2>3 DEF CounterKept
    <2> QED
      BY <1>1, <1>2, <1>7, <2>1, <2>4, <2>5 DEF CounterKept, AllowedUses
  <1> QED
    BY <1>8, <1>9

(* After its use is settled, a request has none pending.                   *)
LEMMA SettledMeans ==
  ASSUME Typed, NEW r \in Requests, request[r].pc \in Metering,
         NEW j, NEW used, Consumed(r, j, used)
  PROVE  /\ \A k : ~Pending(r, k)'
         /\ \A s \in Requests \ {r} : \A k : Pending(s, k)' <=> Pending(s, k)
  <1>1. request \in [Requests -> Request]
    BY DEF Typed, TypeOK
  <1>2. PICK q : Becomes(r, q) /\ q.pc # "expire"
    BY ConsumedMeans, OnwardsTyped DEF Idle
  <1> QED
    BY <1>1, <1>2 DEF Becomes, Pending

LEMMA GrantsMeans ==
  ASSUME NEW k
  PROVE  \A used : Grants(k[2], k[1], used) <=> AllowedUses(k) > 0 /\ used <= AllowedUses(k)
  BY DEF Grants, AllowedUses

LEMMA CountKeepsCounters ==
  ASSUME Typed, CountersKept, NEW r \in Requests, CountUse(r)
  PROVE  CountersKept'
  <1> DEFINE me == request[r]
  <1>0. PICK j \in QuotaKeys : j = QuotaKey(me)
    BY QuotaKeyTyped DEF CountUse, Metering
  <1> DEFINE used == counter[j].used + 1
             first == [me EXCEPT !.pc = "expire"]
             entry == [used |-> used, expires |-> IF used = 1 THEN Forever ELSE counter[j].expires]
  <1>1. /\ me.pc = "count" /\ me.pc \in Metering
        /\ counter' = [counter EXCEPT ![j] = entry]
        /\ strayed' = IF me.period # now \div Period THEN strayed \cup {j} ELSE strayed
        /\ IF used = 1
           THEN Becomes(r, first) /\ UNCHANGED granted
           ELSE Consumed(r, j, used)
        /\ now' = now
    BY <1>0 DEF CountUse, Metering
  <1>2. /\ request \in [Requests -> Request] /\ me \in Request
        /\ counter \in [QuotaKeys -> [used : Nat, expires : 0..Forever]]
        /\ granted \in [QuotaKeys -> Nat] /\ j[3] = me.period
        /\ \A k : ~Pending(r, k)
    BY <1>0, <1>1, QuotaKeyTyped DEF Typed, TypeOK, Pending
  <1>3. QuotaKey(first) = j /\ first.pc = "expire"
    BY <1>0, <1>2 DEF QuotaKey, Request
  <1>4. entry.used = used /\ entry.expires = IF used = 1 THEN Forever ELSE counter[j].expires
    OBVIOUS
  <1>5. /\ counter[j].used \in Nat /\ counter[j].expires \in Nat /\ granted[j] \in Nat
        /\ now \in Nat /\ now \div Period \in Nat /\ AllowedUses(j) \in Nat /\ j[3] \in Nat
    BY <1>2, CounterTyped, QuotaKeysTyped
  <1> HIDE DEF first, entry
  <1>6. ASSUME NEW k \in QuotaKeys, k # j, k \notin strayed'
        PROVE  CounterKept(k)'
    <2>1. k \notin strayed
      BY <1>1, <1>6
    <2>2. counter'[k] = counter[k] /\ granted'[k] = granted[k]
      BY <1>1, <1>2, <1>6, ConsumedMeans
    <2>3. \A s \in Requests : Pending(s, k)' => Pending(s, k)
      <3>1. CASE used = 1
        <4>1. request'[r] = first /\ \A s \in Requests \ {r} : request'[s] = request[s]
          BY <1>1, <1>2, <3>1 DEF Becomes
        <4> QED
          BY <1>3, <1>6, <4>1 DEF Pending
      <3>2. CASE used # 1
        BY <1>1, <3>2, SettledMeans
      <3> QED
        BY <3>1, <3>2
    <2>4. CounterKept(k)
      BY <2>1 DEF CountersKept
    <2> QED
      BY <1>1, <2>2, <2>3, <2>4, CounterStays
  <1>7. ASSUME j \notin strayed'
        PROVE  CounterKept(j)'
    <2>1. CounterKept(j) /\ j[3] = now \div Period
      BY <1>1, <1>2, <1>7 DEF CountersKept
    <2>2. granted[j] <= counter[j].used /\ now' \div Period <= j[3]
      BY <1>1, <1>5, <2>1 DEF CounterKept
    <2>3. counter'[j] = entry
      BY <1>1, <1>2
    <2>4. AllowedUses(j)' = AllowedUses(j)
      BY DEF AllowedUses
    <2>5. CASE used = 1
      <3>1. granted[j] = 0 /\ granted' = granted
        BY <1>1, <1>5, <2>2, <2>5
      <3>2. \A s \in Requests : ~Pending(s, j)
        <4>1. ~(granted[j] < counter[j].used)
          BY <1>5, <2>5, <3>1
        <4> QED
          BY <1>1, <2>1, <2>2, <4>1 DEF CounterKept
      <3>3. request'[r] = first /\ \A s \in Requests \ {r} : request'[s] = request[s]
        BY <1>1, <1>2, <2>5 DEF Becomes
      <3>4. \A s \in Requests : Pending(s, j)' => s = r
        BY <3>2, <3>3 DEF Pending
      <3>5. Forever >= Period * (j[3] + 1)
        <4>1. now <= MaxNow
          BY DEF Typed, TypeOK, Times
        <4>2. Period * (j[3] + 1) = Period * j[3] + Period
          BY <1>5, Bounds
        <4>3. Period * j[3] <= now
          BY <1>5, <2>1, PeriodBounds
        <4>4. Period * j[3] \in Nat
          BY <1>5, Bounds
        <4> QED
          BY <1>5, <4>1, <4>2, <4>3, <4>4, Bounds DEF Forever
      <3> QED
        BY <1>4, <1>5, <2>3, <2>4, <2>5, <3>1, <3>4, <3>5 DEF CounterKept
    <2>6. CASE used # 1
      <3>1. /\ \A s \in Requests : Pending(s, j)' => Pending(s, j)
            /\ Consumed(r, j, used)
        BY <1>1, <2>6, SettledMeans
      <3>2. \/ granted'[j] = granted[j]
            \/ granted'[j] = granted[j] + 1 /\ AllowedUses(j) > 0 /\ used <= AllowedUses(j)
        BY <1>2, <3>1, ConsumedMeans, GrantsMeans
      <3>3. counter'[j].used = counter[j].used + 1 /\ counter'[j].expires = counter[j].expires
        BY <1>4, <2>3, <2>6
      <3>4. \A s \in Requests : Pending(s, j) => granted[j] < counter[j].used
        BY <1>1, <2>1, <2>2 DEF CounterKept
      <3>5. granted'[j] <= AllowedUses(j)
        BY <1>5, <2>1, <2>2, <3>2 DEF CounterKept
      <3>6. granted'[j] <= counter'[j].used
        BY <1>5, <2>2, <3>2, <3>3
      <3>7. ASSUME NEW s \in Requests, Pending(s, j)'
            PROVE  /\ AllowedUses(j) > 0 => granted'[j] < AllowedUses(j)
                   /\ granted'[j] < counter'[j].used
        <4>1. /\ Pending(s, j) /\ granted[j] < counter[j].used
              /\ AllowedUses(j) > 0 => granted[j] < AllowedUses(j)
          BY <2>1, <3>1, <3>4, <3>7 DEF CounterKept
        <4> QED
          BY <1>5, <3>2, <3>3, <4>1
      <3>8. counter'[j].used > 0 => counter'[j].expires >= Period * (j[3] + 1)
        BY <1>5, <2>1, <2>6, <3>3 DEF CounterKept
      <3>9. \A s, t \in Requests : Pending(s, j)' /\ Pending(t, j)' => s = t
        BY <2>1, <3>1 DEF CounterKept
      <3> QED
        BY <2>4, <3>5, <3>6, <3>7, <3>8, <3>9 DEF CounterKept
    <2> QED
      BY <2>5, <2>6
  <1> QED
    BY <1>6, <1>7 DEF CountersKept

LEMMA ExpiryKeepsCounters ==
  ASSUME Typed, CountersKept, NEW r \in Requests, ExpireCounter(r)
  PROVE  CountersKept'
  <1> DEFINE me == request[r]
  <1>0. PICK j \in QuotaKeys : j = QuotaKey(me)
    BY QuotaKeyTyped DEF ExpireCounter, Metering
  <1> DEFINE e == Period * (j[3] + 1)
  <1>1. /\ me.pc = "expire" /\ me.pc \in Metering
        /\ counter' = [counter EXCEPT ![j].expires = now + QuotaTtl]
        /\ Consumed(r, j, 1)
        /\ now' = now /\ strayed' = strayed
    BY <1>0 DEF ExpireCounter, Metering
  <1>2. /\ counter \in [QuotaKeys -> [used : Nat, expires : 0..Forever]]
        /\ granted \in [QuotaKeys -> Nat] /\ j[3] = me.period
        /\ me.period <= now \div Period
    BY <1>0, <1>1, QuotaKeyTyped, RequestTyped DEF Typed, TypeOK
  <1>3. /\ counter[j].used \in Nat /\ granted[j] \in Nat /\ now \in Nat
        /\ now \div Period \in Nat /\ AllowedUses(j) \in Nat /\ j[3] \in Nat /\ e \in Nat
    BY <1>2, CounterTyped, QuotaKeysTyped
  <1>4. Pending(r, j)
    BY <1>0, <1>1 DEF Pending
  <1>5. /\ \A k : ~Pending(r, k)'
        /\ \A s \in Requests : \A k : Pending(s, k)' => Pending(s, k)
    BY <1>1, SettledMeans
  <1>6. now + QuotaTtl >= e
    <2>1. e = Period * j[3] + Period /\ Period * j[3] \in Nat
      BY <1>3, Bounds
    <2>2. Period * j[3] <= Period * (now \div Period)
      BY <1>2, <1>3, Bounds
    <2> HIDE DEF e
    <2>3. Period * (now \div Period) <= now /\ Period * (now \div Period) \in Nat
      BY <1>3, PeriodBounds, Bounds
    <2> QED
      BY <1>3, <2>1, <2>2, <2>3, Bounds
  <1>7. ASSUME NEW k \in QuotaKeys, k # j, k \notin strayed
        PROVE  CounterKept(k)'
    <2>1. counter'[k] = counter[k] /\ granted'[k] = granted[k]
      BY <1>1, <1>2, <1>7, ConsumedMeans
    <2>2. CounterKept(k)
      BY <1>7 DEF CountersKept
    <2> QED
      BY <1>1, <1>5, <2>1, <2>2, CounterStays
  <1>8. ASSUME j \notin strayed
        PROVE  CounterKept(j)'
    <2>1. CounterKept(j)
      BY <1>2, <1>8 DEF CountersKept
    <2>2. \A s \in Requests : ~Pending(s, j)'
      BY <1>4, <1>5, <2>1 DEF CounterKept
    <2>3. counter'[j].used = counter[j].used /\ counter'[j].expires = now + QuotaTtl
      BY <1>1, <1>2
    <2>4. \/ granted'[j] = granted[j]
          \/ granted'[j] = granted[j] + 1 /\ AllowedUses(j) > 0
      BY <1>1, <1>2, ConsumedMeans, GrantsMeans
    <2>5. /\ granted[j] <= AllowedUses(j)
          /\ AllowedUses(j) > 0 => granted[j] < AllowedUses(j)
          /\ now \div Period <= j[3] => granted[j] < counter[j].used
      BY <1>4, <2>1 DEF CounterKept
    <2>6. granted'[j] <= AllowedUses(j)
      BY <1>3, <2>4, <2>5
    <2>7. now' \div Period <= j[3] => granted'[j] <= counter'[j].used
      BY <1>1, <1>3, <2>3, <2>4, <2>5
    <2>8. AllowedUses(j)' = AllowedUses(j)
      BY DEF AllowedUses
    <2> QED
      BY <1>6, <2>2, <2>3, <2>6, <2>7, <2>8 DEF CounterKept
  <1> QED
    BY <1>1, <1>7, <1>8 DEF CountersKept

(* A request that moves on to no use.                                      *)
LEMMA MovesKeepCounters ==
  ASSUME Typed, CountersKept, NEW r \in Requests, NEW q, Becomes(r, q), q.pc # "expire",
         UNCHANGED <<now, counter, granted, strayed>>
  PROVE  CountersKept'
  <1>1. \A s \in Requests : request'[s] = q \/ request'[s] = request[s]
    BY DEF Becomes, Typed, TypeOK
  <1>2. \A k \in QuotaKeys, s \in Requests : Pending(s, k)' => Pending(s, k)
    BY <1>1 DEF Pending
  <1> QED
    BY <1>2, CountersStay

LEMMA ServesKeepCounters ==
  ASSUME Typed, CountersKept, NEW r \in Requests, Serve(r)
  PROVE  CountersKept'
  <1> DEFINE me == request[r]
             k == KeyOf(me.tier, me.query)
             uncounted == UNCHANGED <<now, counter, granted, strayed>>
  <1>1. me \in Request /\ Coherent(me, now)
    BY RequestTyped
  <1>2. Idle.pc = "idle"
    BY DEF Idle
  <1>3. CASE StartMapping(r)
    <2>1. [Idle EXCEPT !.pc = "meter", !.kind = "map", !.tier = tier,
                       !.period = now \div Period].pc = "meter"
      BY DEF Idle
    <2> QED
      BY <1>3, <2>1, MovesKeepCounters DEF StartMapping, quotaVars
  <1>4. CASE SumUsage(r)
    <2>1. [me EXCEPT !.pc = "estimate", !.used = usage[now \div Period]].pc = "estimate"
      BY <1>1 DEF Request
    <2> QED
      BY <1>4, <2>1, MovesKeepCounters DEF SumUsage
  <1>5. CASE EstimateTokens(r)
    <2>1. [me EXCEPT !.pc = "charge", !.input = documents].pc = "charge"
      BY <1>1 DEF Request
    <2>2. Becomes(r, [me EXCEPT !.pc = "charge", !.input = documents]) \/ Becomes(r, Idle)
      BY <1>5 DEF EstimateTokens
    <2> QED
      BY <1>2, <1>5, <2>1, <2>2, MovesKeepCounters DEF EstimateTokens
  <1>6. CASE \E output \in 0..MaxOutput : ChargeTokens(r, output)
    BY <1>2, <1>6, MovesKeepCounters DEF ChargeTokens
  <1>7. CASE \E q \in Queries : StartWeb(r, q)
    <2>1. PICK q \in Queries : StartWeb(r, q)
      BY <1>7
    <2>2. [Idle EXCEPT !.pc = "lookup", !.kind = "web", !.query = q, !.tier = tier].pc = "lookup"
      BY DEF Idle
    <2> QED
      BY <2>1, <2>2, MovesKeepCounters DEF StartWeb, quotaVars
  <1>8. CASE \E kind \in DOMAIN Metered, q \in Queries : StartMetered(r, kind, q)
    <2>1. PICK kind \in DOMAIN Metered, q \in Queries : StartMetered(r, kind, q)
      BY <1>8
    <2>2. [Idle EXCEPT !.pc = "period", !.kind = kind, !.query = q, !.tier = tier].pc = "period"
      BY DEF Idle
    <2> QED
      BY <2>1, <2>2, MovesKeepCounters DEF StartMetered, quotaVars
  <1>9. CASE LookupCache(r)
    <2> DEFINE hit == [me EXCEPT !.pc = "done", !.rows = cache[k].rows, !.named = cache[k].named]
    <2>1. hit.pc = "done"
      BY <1>1 DEF Request
    <2>2. me.query \in Queries
      BY <1>1, <1>9 DEF LookupCache, Coherent, Unqueried
    <2>3. Reading(me).pc = "read"
      BY <1>1, <2>2, ReadingTyped
    <2>4. Becomes(r, hit) \/ Becomes(r, Reading(me))
      BY <1>9 DEF LookupCache
    <2> HIDE DEF hit
    <2> QED
      BY <1>9, <2>1, <2>3, <2>4, MovesKeepCounters DEF LookupCache, quotaVars
  <1>10. CASE \E m \in Measures : ReadMeasure(r, m)
    <2>1. PICK m \in Measures : ReadMeasure(r, m)
      BY <1>10
    <2> DEFINE next == [me EXCEPT !.todo = @ \ {m},
                                  !.rows = @ \cup {[measure |-> m, build |-> built]}]
    <2>2. next.pc = "read" /\ Becomes(r, next) /\ uncounted
      BY <1>1, <2>1 DEF ReadMeasure, Request, quotaVars
    <2> HIDE DEF next
    <2> QED
      BY <2>2, MovesKeepCounters
  <1>11. CASE EndQuery(r) \/ StoreAnswer(r)
    <2>1. Answer(me).pc = "done"
      BY <1>1 DEF Answer, Request
    <2>2. Becomes(r, Answer(me)) /\ uncounted
      BY <1>11 DEF EndQuery, StoreAnswer, quotaVars
    <2> QED
      BY <2>1, <2>2, MovesKeepCounters
  <1>12. CASE EndRequest(r)
    BY <1>2, <1>12, MovesKeepCounters DEF EndRequest, quotaVars
  <1>13. CASE NamePeriod(r)
    <2>1. [me EXCEPT !.pc = "count", !.period = now \div Period].pc = "count"
      BY <1>1 DEF Request
    <2> QED
      BY <1>13, <2>1, MovesKeepCounters DEF NamePeriod, quotaVars
  <1>14. CASE \E q \in Queries : Translate(r, q)
    <2>1. PICK q \in Queries : Translate(r, q)
      BY <1>14
    <2> DEFINE at == [me EXCEPT !.query = q]
    <2>2. at \in Request /\ at.query = q
      BY <1>1 DEF Request
    <2>3. Reading(at).pc = "read"
      BY <2>2, ReadingTyped
    <2> QED
      BY <2>1, <2>3, MovesKeepCounters DEF Translate, quotaVars
  <1> QED
    BY <1>3, <1>4, <1>5, <1>6, <1>7, <1>8, <1>9, <1>10, <1>11, <1>12, <1>13, <1>14,
       CountKeepsCounters, ExpiryKeepsCounters
    DEF Serve

LEMMA StepsKeepCounters == Typed /\ CountersKept /\ [Next]_vars => CountersKept'
  <1> SUFFICES ASSUME Typed, CountersKept, [Next]_vars PROVE CountersKept'
    OBVIOUS
  <1>1. ASSUME UNCHANGED <<now, counter, granted, strayed, request>> PROVE CountersKept'
    BY <1>1, CountersStay DEF Pending
  <1>2. CASE UNCHANGED vars
    BY <1>1, <1>2 DEF vars
  <1>3. CASE \E t \in Tiers : ChangePlan(t)
    BY <1>1, <1>3 DEF ChangePlan, quotaVars
  <1>4. CASE \E values \in Corrections : Publish(values)
    BY <1>1, <1>4 DEF Publish, quotaVars
  <1>5. CASE \E size \in 1..MaxDocuments : UploadDocument(size)
    BY <1>1, <1>5 DEF UploadDocument
  <1>6. CASE \E w \in Workers : Work(w)
    BY <1>1, <1>6
    DEF Work, StartRebuild, CommitRebuild, StartScan, ScanPage, EndScan, FailRebuild, quotaVars
  <1> QED
    BY <1>2, <1>3, <1>4, <1>5, <1>6, TickKeepsCounters, ServesKeepCounters DEF Next

-----------------------------------------------------------------------------
(* Tokens.  A run that was let in fits what its month may use, with what   *)
(* was used when it was summed up.                                         *)

Charged(p) ==
    usage[p] = 0 \/ (ceiling[p] > 0 /\ usage[p] <= ceiling[p] + MaxOutput)

Fitting(me) ==
    me.pc = "charge" => /\ ceiling[me.period] > 0
                        /\ me.used + me.input <= ceiling[me.period]

TokensKept ==
    /\ \A p \in Periods : p \in unseen \/ Charged(p)
    /\ \A r \in Requests : Fitting(request[r])

LEMMA InitTokens == Init => TokensKept
  <1> SUFFICES ASSUME Init PROVE TokensKept
    OBVIOUS
  <1>1. ASSUME NEW p \in Periods PROVE Charged(p)
    <2>1. usage[p] = 0 /\ ceiling[p] = 0
      BY DEF Init
    <2> QED
      BY <2>1, Bounds DEF Charged
  <1>2. ASSUME NEW r \in Requests PROVE Fitting(request[r])
    <2>1. request[r].pc = "idle"
      BY DEF Init, Idle
    <2> QED
      BY <2>1 DEF Fitting
  <1> QED
    BY <1>1, <1>2 DEF TokensKept

(* A request that moves on to no charge and charges nothing.               *)
LEMMA MovesKeepTokens ==
  ASSUME Typed, TokensKept, NEW r \in Requests, NEW q, Becomes(r, q), q.pc # "charge",
         UNCHANGED <<usage, ceiling>>, unseen \subseteq unseen'
  PROVE  TokensKept'
  <1>1. ASSUME NEW s \in Requests, request'[s].pc = "charge" PROVE request'[s] = request[s]
    BY <1>1 DEF Becomes, Typed, TypeOK
  <1>2. \A p \in Periods : p \in unseen' \/ Charged(p)'
    BY DEF TokensKept, Charged
  <1>3. ASSUME NEW s \in Requests PROVE Fitting(request[s])'
    BY <1>1 DEF TokensKept, Fitting
  <1> QED
    BY <1>2, <1>3 DEF TokensKept

LEMMA EstimateKeepsTokens ==
  ASSUME Typed, TokensKept, NEW r \in Requests, EstimateTokens(r)
  PROVE  TokensKept'
  <1> DEFINE me == request[r]
             next == [me EXCEPT !.pc = "charge", !.input = documents]
             limit == Limit[me.tier][Tokens]
  <1>1. /\ me \in Request /\ me.tier \in Tiers /\ me.period \in Periods /\ me.used \in Nat
    BY RequestTyped DEF Request
  <1>2. /\ ceiling \in [Periods -> Nat] /\ usage \in [Periods -> 0..MaxTokens]
        /\ documents \in 0..MaxDocuments /\ request \in [Requests -> Request]
    BY DEF Typed, TypeOK
  <1>3. UNCHANGED <<usage, unseen>>
    BY DEF EstimateTokens
  <1>4. CASE Becomes(r, Idle) /\ UNCHANGED ceiling
    BY <1>3, <1>4, MovesKeepTokens DEF Idle
  <1>5. CASE /\ Grants(me.tier, Tokens, me.used + documents)
             /\ Becomes(r, next)
             /\ ceiling' = [ceiling EXCEPT ![me.period] = Max({@, limit})]
    <2> DEFINE most == Max({ceiling[me.period], limit})
    <2>1. limit \in Nat /\ limit > 0 /\ me.used + documents <= limit
      BY <1>1, <1>5, LimitTyped DEF Grants
    <2>2. most \in Nat /\ most >= ceiling[me.period] /\ most >= limit
      BY <1>1, <1>2, <2>1, MaxOfTwo
    <2>3. ceiling' = [ceiling EXCEPT ![me.period] = most]
      BY <1>5
    <2> HIDE DEF most, limit
    <2>4. \A p \in Periods : ceiling'[p] \in Nat /\ ceiling'[p] >= ceiling[p]
      BY <1>1, <1>2, <2>2, <2>3
    <2>5. ASSUME NEW p \in Periods, p \notin unseen PROVE Charged(p)'
      <3>1. Charged(p) /\ usage[p] \in Nat /\ ceiling[p] \in Nat
        BY <1>2, <2>5, Bounds DEF TokensKept
      <3> QED
        BY <1>3, <2>4, <3>1, Bounds DEF Charged
    <2>6. /\ next.pc = "charge" /\ next.period = me.period /\ next.used = me.used
          /\ next.input = documents
      BY <1>1 DEF Request
    <2>7. request'[r] = next /\ \A s \in Requests \ {r} : request'[s] = request[s]
      BY <1>2, <1>5 DEF Becomes
    <2> HIDE DEF next
    <2>8. Fitting(request[r])'
      <3>1. ceiling'[me.period] = most
        BY <1>1, <1>2, <2>3
      <3> QED
        BY <1>1, <1>2, <2>1, <2>2, <2>6, <2>7, <3>1, Bounds DEF Fitting
    <2>9. ASSUME NEW s \in Requests, s # r PROVE Fitting(request[s])'
      <3>1. /\ request'[s] = request[s] /\ request[s] \in Request /\ Fitting(request[s])
        BY <1>2, <2>7, <2>9 DEF TokensKept
      <3>2. request[s].period \in Periods /\ request[s].used \in Nat /\ request[s].input \in Nat
        BY <3>1, Bounds DEF Request
      <3>3. /\ ceiling[request[s].period] \in Nat
            /\ ceiling'[request[s].period] \in Nat
            /\ ceiling'[request[s].period] >= ceiling[request[s].period]
        BY <1>2, <2>4, <3>2
      <3> QED
        BY <3>1, <3>2, <3>3 DEF Fitting
    <2> QED
      BY <1>3, <2>5, <2>8, <2>9 DEF TokensKept
  <1> QED
    BY <1>4, <1>5 DEF EstimateTokens

LEMMA ChargeKeepsTokens ==
  ASSUME Typed, TokensKept, NEW r \in Requests, NEW output \in 0..MaxOutput,
         ChargeTokens(r, output)
  PROVE  TokensKept'
  <1> DEFINE me == request[r]
             total == usage[me.period] + me.input + output
  <1>1. /\ me \in Request /\ me.period \in Periods /\ me.used \in Nat /\ me.input \in Nat
        /\ output \in Nat /\ output <= MaxOutput
    BY RequestTyped, Bounds DEF Request
  <1>2. /\ ceiling \in [Periods -> Nat] /\ usage \in [Periods -> 0..MaxTokens]
        /\ request \in [Requests -> Request] /\ ceiling[me.period] \in Nat
        /\ usage[me.period] \in Nat
    BY <1>1, Bounds DEF Typed, TypeOK
  <1>3. /\ me.pc = "charge" /\ Becomes(r, Idle) /\ UNCHANGED ceiling
        /\ usage' = [usage EXCEPT ![me.period] = total]
        /\ unseen' = IF usage[me.period] # me.used THEN unseen \cup {me.period} ELSE unseen
    BY DEF ChargeTokens
  <1>4. ceiling[me.period] > 0 /\ me.used + me.input <= ceiling[me.period]
    BY <1>3 DEF TokensKept, Fitting
  <1>5. ASSUME NEW p \in Periods, p \notin unseen' PROVE Charged(p)'
    <2>1. p \notin unseen
      BY <1>3, <1>5
    <2>2. CASE p = me.period
      <3>1. usage[p] = me.used /\ usage'[p] = total
        BY <1>2, <1>3, <1>5, <2>2
      <3>2. total <= ceiling[me.period] + MaxOutput
        BY <1>1, <1>2, <1>4, <2>2, <3>1, Bounds
      <3> QED
        BY <1>3, <1>4, <2>2, <3>1, <3>2 DEF Charged
    <2>3. CASE p # me.period
      <3>1. usage'[p] = usage[p] /\ Charged(p)
        BY <1>2, <1>3, <2>1, <2>3 DEF TokensKept
      <3> QED
        BY <1>3, <3>1 DEF Charged
    <2> QED
      BY <2>2, <2>3
  <1>6. ASSUME NEW s \in Requests PROVE Fitting(request[s])'
    <2>1. request'[s] = Idle \/ request'[s] = request[s]
      BY <1>2, <1>3 DEF Becomes
    <2> QED
      BY <1>3, <2>1 DEF TokensKept, Fitting, Idle
  <1> QED
    BY <1>5, <1>6 DEF TokensKept

LEMMA ServesKeepTokens ==
  ASSUME Typed, TokensKept, NEW r \in Requests, Serve(r)
  PROVE  TokensKept'
  <1> DEFINE me == request[r]
             k == KeyOf(me.tier, me.query)
             uncharged == UNCHANGED <<usage, ceiling, unseen>>
  <1>1. me \in Request /\ Coherent(me, now)
    BY RequestTyped
  <1>2. Idle.pc = "idle"
    BY DEF Idle
  <1>3. CASE StartMapping(r)
    <2>1. [Idle EXCEPT !.pc = "meter", !.kind = "map", !.tier = tier,
                       !.period = now \div Period].pc = "meter"
      BY DEF Idle
    <2> QED
      BY <1>3, <2>1, MovesKeepTokens DEF StartMapping, quotaVars, tokenVars
  <1>4. CASE SumUsage(r)
    <2>1. [me EXCEPT !.pc = "estimate", !.used = usage[now \div Period]].pc = "estimate"
      BY <1>1 DEF Request
    <2>2. unseen \subseteq unseen'
      BY <1>4 DEF SumUsage
    <2> QED
      BY <1>4, <2>1, <2>2, MovesKeepTokens DEF SumUsage
  <1>5. CASE \E q \in Queries : StartWeb(r, q)
    <2>1. PICK q \in Queries : StartWeb(r, q)
      BY <1>5
    <2>2. [Idle EXCEPT !.pc = "lookup", !.kind = "web", !.query = q, !.tier = tier].pc = "lookup"
      BY DEF Idle
    <2> QED
      BY <2>1, <2>2, MovesKeepTokens DEF StartWeb, quotaVars, tokenVars
  <1>6. CASE \E kind \in DOMAIN Metered, q \in Queries : StartMetered(r, kind, q)
    <2>1. PICK kind \in DOMAIN Metered, q \in Queries : StartMetered(r, kind, q)
      BY <1>6
    <2>2. [Idle EXCEPT !.pc = "period", !.kind = kind, !.query = q, !.tier = tier].pc = "period"
      BY DEF Idle
    <2> QED
      BY <2>1, <2>2, MovesKeepTokens DEF StartMetered, quotaVars, tokenVars
  <1>7. CASE LookupCache(r)
    <2> DEFINE hit == [me EXCEPT !.pc = "done", !.rows = cache[k].rows, !.named = cache[k].named]
    <2>1. hit.pc = "done"
      BY <1>1 DEF Request
    <2>2. me.query \in Queries
      BY <1>1, <1>7 DEF LookupCache, Coherent, Unqueried
    <2>3. Reading(me).pc = "read"
      BY <1>1, <2>2, ReadingTyped
    <2>4. (Becomes(r, hit) \/ Becomes(r, Reading(me))) /\ uncharged
      BY <1>7 DEF LookupCache, quotaVars, tokenVars
    <2> HIDE DEF hit
    <2> QED
      BY <2>1, <2>3, <2>4, MovesKeepTokens
  <1>8. CASE \E m \in Measures : ReadMeasure(r, m)
    <2>1. PICK m \in Measures : ReadMeasure(r, m)
      BY <1>8
    <2> DEFINE next == [me EXCEPT !.todo = @ \ {m},
                                  !.rows = @ \cup {[measure |-> m, build |-> built]}]
    <2>2. next.pc = "read" /\ Becomes(r, next) /\ uncharged
      BY <1>1, <2>1 DEF ReadMeasure, Request, quotaVars, tokenVars
    <2> HIDE DEF next
    <2> QED
      BY <2>2, MovesKeepTokens
  <1>9. CASE EndQuery(r) \/ StoreAnswer(r)
    <2>1. Answer(me).pc = "done"
      BY <1>1 DEF Answer, Request
    <2>2. Becomes(r, Answer(me)) /\ uncharged
      BY <1>9 DEF EndQuery, StoreAnswer, quotaVars, tokenVars
    <2> QED
      BY <2>1, <2>2, MovesKeepTokens
  <1>10. CASE EndRequest(r)
    BY <1>2, <1>10, MovesKeepTokens DEF EndRequest, quotaVars, tokenVars
  <1>11. CASE NamePeriod(r)
    <2>1. [me EXCEPT !.pc = "count", !.period = now \div Period].pc = "count"
      BY <1>1 DEF Request
    <2> QED
      BY <1>11, <2>1, MovesKeepTokens DEF NamePeriod, quotaVars, tokenVars
  <1>12. ASSUME NEW j, NEW used, Consumed(r, j, used), me.pc \in Metering, uncharged
         PROVE  TokensKept'
    <2>1. \E q : Becomes(r, q) /\ q.pc # "charge"
      BY <1>2, <1>12, ConsumedMeans, OnwardsTyped
    <2> QED
      BY <1>12, <2>1, MovesKeepTokens
  <1>13. CASE CountUse(r)
    <2>1. [me EXCEPT !.pc = "expire"].pc = "expire"
      BY <1>1 DEF Request
    <2>2. /\ \/ Becomes(r, [me EXCEPT !.pc = "expire"])
             \/ Consumed(r, QuotaKey(me), counter[QuotaKey(me)].used + 1)
          /\ me.pc \in Metering /\ uncharged
      BY <1>13 DEF CountUse, Metering, tokenVars
    <2> QED
      BY <1>12, <2>1, <2>2, MovesKeepTokens
  <1>14. CASE ExpireCounter(r)
    <2>1. Consumed(r, QuotaKey(me), 1) /\ me.pc \in Metering /\ uncharged
      BY <1>14 DEF ExpireCounter, Metering, tokenVars
    <2> QED
      BY <1>12, <2>1
  <1>15. CASE \E q \in Queries : Translate(r, q)
    <2>1. PICK q \in Queries : Translate(r, q)
      BY <1>15
    <2> DEFINE at == [me EXCEPT !.query = q]
    <2>2. at \in Request /\ at.query = q
      BY <1>1 DEF Request
    <2>3. Reading(at).pc = "read"
      BY <2>2, ReadingTyped
    <2> QED
      BY <2>1, <2>3, MovesKeepTokens DEF Translate, quotaVars, tokenVars
  <1> QED
    BY <1>3, <1>4, <1>5, <1>6, <1>7, <1>8, <1>9, <1>10, <1>11, <1>13, <1>14, <1>15,
       EstimateKeepsTokens, ChargeKeepsTokens
    DEF Serve

LEMMA StepsKeepTokens == Typed /\ TokensKept /\ [Next]_vars => TokensKept'
  <1> SUFFICES ASSUME Typed, TokensKept, [Next]_vars PROVE TokensKept'
    OBVIOUS
  <1>1. ASSUME UNCHANGED <<usage, ceiling, unseen, request>> PROVE TokensKept'
    BY <1>1 DEF TokensKept, Charged, Fitting
  <1>2. CASE UNCHANGED vars
    BY <1>1, <1>2 DEF vars
  <1>3. CASE Tick
    BY <1>1, <1>3 DEF Tick, tokenVars
  <1>4. CASE \E t \in Tiers : ChangePlan(t)
    BY <1>1, <1>4 DEF ChangePlan, quotaVars, tokenVars
  <1>5. CASE \E values \in Corrections : Publish(values)
    BY <1>1, <1>5 DEF Publish, quotaVars, tokenVars
  <1>6. CASE \E size \in 1..MaxDocuments : UploadDocument(size)
    BY <1>1, <1>6 DEF UploadDocument
  <1>7. CASE \E w \in Workers : Work(w)
    BY <1>1, <1>7
    DEF Work, StartRebuild, CommitRebuild, StartScan, ScanPage, EndScan, FailRebuild, quotaVars,
        tokenVars
  <1> QED
    BY <1>2, <1>3, <1>4, <1>5, <1>6, <1>7, ServesKeepTokens DEF Next

(* No plan is granted more uses of a quota than its limit in a period that *)
(* no use came to late, and no month is charged with more tokens than the  *)
(* plans of its runs allow and one run puts out.                           *)
THEOREM QuotasKept == Spec => []QuotasAreKept
  <1>1. CountersKept /\ TokensKept => QuotasAreKept
    BY DEF CountersKept, CounterKept, TokensKept, Charged, QuotasAreKept, AllowedUses
  <1> QED
    BY <1>1, InitCounters, StepsKeepCounters, InitTokens, StepsKeepTokens, TypedAlways, PTL
    DEF Spec

-----------------------------------------------------------------------------
(* The numbers.  Whatever is published meanwhile, the tables are those of  *)
(* the last rebuild, all of them computed from what it had found pinned.   *)

TablesAreTheirBuilds == tables = Tables(basis)

LEMMA StepsKeepTables == TablesAreTheirBuilds /\ [Next]_vars => TablesAreTheirBuilds'
  <1> SUFFICES ASSUME TablesAreTheirBuilds, [Next]_vars PROVE TablesAreTheirBuilds'
    OBVIOUS
  <1>1. ASSUME UNCHANGED <<tables, basis>> PROVE TablesAreTheirBuilds'
    BY <1>1 DEF TablesAreTheirBuilds
  <1>2. CASE UNCHANGED vars
    BY <1>1, <1>2 DEF vars
  <1>3. CASE Tick
    BY <1>1, <1>3 DEF Tick, published
  <1>4. CASE \E t \in Tiers : ChangePlan(t)
    BY <1>1, <1>4 DEF ChangePlan, published
  <1>5. CASE \E values \in Corrections : Publish(values)
    BY <1>1, <1>5 DEF Publish
  <1>6. CASE \E size \in 1..MaxDocuments : UploadDocument(size)
    BY <1>1, <1>6 DEF UploadDocument, published
  <1>7. ASSUME NEW w \in Workers, CommitRebuild(w) PROVE TablesAreTheirBuilds'
    BY <1>7 DEF CommitRebuild, TablesAreTheirBuilds
  <1>8. CASE \E w \in Workers : Work(w)
    BY <1>1, <1>7, <1>8
    DEF Work, StartRebuild, StartScan, ScanPage, EndScan, FailRebuild, published
  <1>9. ASSUME NEW r \in Requests, Serve(r) PROVE TablesAreTheirBuilds'
    <2>1. CASE StartMapping(r) \/ SumUsage(r) \/ EstimateTokens(r)
      BY <1>1, <2>1 DEF StartMapping, SumUsage, EstimateTokens, published
    <2>2. CASE \E output \in 0..MaxOutput : ChargeTokens(r, output)
      BY <1>1, <2>2 DEF ChargeTokens, published
    <2>3. CASE \E q \in Queries : StartWeb(r, q) \/ Translate(r, q)
      BY <1>1, <2>3 DEF StartWeb, Translate, published
    <2>4. CASE \E kind \in DOMAIN Metered, q \in Queries : StartMetered(r, kind, q)
      BY <1>1, <2>4 DEF StartMetered, published
    <2>5. CASE LookupCache(r) \/ (\E m \in Measures : ReadMeasure(r, m)) \/ EndQuery(r)
      BY <1>1, <2>5 DEF LookupCache, ReadMeasure, EndQuery, published
    <2>6. CASE StoreAnswer(r) \/ EndRequest(r) \/ NamePeriod(r) \/ CountUse(r)
               \/ ExpireCounter(r)
      BY <1>1, <2>6 DEF StoreAnswer, EndRequest, NamePeriod, CountUse, ExpireCounter, published
    <2> QED
      BY <1>9, <2>1, <2>2, <2>3, <2>4, <2>5, <2>6 DEF Serve
  <1> QED
    BY <1>2, <1>3, <1>4, <1>5, <1>6, <1>8, <1>9 DEF Next

(* For any filings and any scoring file: what contradicts itself, and what *)
(* is computed from it, is not published, and everything else is.          *)
THEOREM WithheldAlways == Spec => []WithheldStaysUnpublished
  <1>1. Init => TablesAreTheirBuilds
    BY Zenon DEF Init, TablesAreTheirBuilds
  <1>2. TablesAreTheirBuilds => WithheldStaysUnpublished
    BY MetricsOfFiling, KeptKeys DEF TablesAreTheirBuilds, WithheldStaysUnpublished
  <1> QED
    BY <1>1, <1>2, StepsKeepTables, PTL DEF Spec

(* What the proof of the scores and percentiles asks of the values: no text *)
(* is so long that a single shared phrase of it is lost in the rounding.    *)
TextsAreShort == \A values \in Disclosures \cup Corrections, f \in Filings : FewPhrases(values[f])

LEMMA TablesCompare ==
  ASSUME FewCompanies, TextsAreShort, basis \in Disclosures \cup Corrections, TablesAreTheirBuilds
  PROVE  ComparisonsArePublished
  <1>1. Sound(basis) /\ \A f \in Filings : FewPhrases(basis[f])
    BY DisclosureAssumption DEF Sound, TextsAreShort
  <1>2. tables = Tables(basis)
    BY DEF TablesAreTheirBuilds
  <1>3. \A a, b \in tables.metrics :
           a = b \/ a.company # b.company \/ a.fy # b.fy \/ a.key # b.key
    BY <1>2, MetricsUnique
  <1>4. Filed(basis) = {f \in Filings : basis[f].present # {}}
    BY DEF Filed
  <1>5. tables.scores \in [{f \in Filings : basis[f].present # {}} ->
                             [{"completeness", "substance", "assurance"} -> 0..Full]]
    BY <1>1, <1>2, <1>4, ScoresTyped, Zenon
  <1>6. ASSUME NEW f \in DOMAIN tables.scores
        PROVE  KeepsOriginality(basis[f], tables.scores[f].substance, basis)
    <2>1. f \in Filed(basis) /\ f \in Filings
      BY <1>4, <1>5
    <2> QED
      BY <1>1, <1>2, <2>1, OriginalityIsKept
  <1>7. ASSUME NEW a \in tables.metrics PROVE WellCompared(a, tables.metrics)
    BY <1>1, <1>2, MetricsCompared, Zenon
  <1> QED
    BY <1>3, <1>5, <1>6, <1>7, Zenon DEF ComparisonsArePublished

(* The numbers beside a metric are about published metrics, and the scores  *)
(* of a filing are those of what is pinned of it: what Rebuild computes     *)
(* from any values, with no more companies than a percentile has steps.     *)
THEOREM ComparedAlways ==
  ASSUME FewCompanies, TextsAreShort
  PROVE  Spec => []ComparisonsArePublished
  <1>1. Init => TablesAreTheirBuilds
    BY Zenon DEF Init, TablesAreTheirBuilds
  <1>2. TypeOK /\ TablesAreTheirBuilds => ComparisonsArePublished
    BY TablesCompare DEF TypeOK
  <1> QED
    BY <1>1, <1>2, StepsKeepTables, SemanticTyped, PTL DEF Spec
=============================================================================
