------------------------------ MODULE Semantic ------------------------------
(***************************************************************************)
(* How the public numbers are served: the rebuild that materialises them   *)
(* and then clears the cache (worker/score), queries that are answered     *)
(* from the cache or one statement per measure (routers/semantic.py,       *)
(* services/semantic.py), and the metered ones (routers/nlq.py,            *)
(* routers/research.py, the board PDF) with their quotas in Redis          *)
(* (services/quotas.py).  The mapping runs of the Studio                   *)
(* (routers/studio.py) are under a quota too, the sum of rows they insert. *)
(*                                                                         *)
(* `built' counts the rebuilds that committed; what a statement reads is   *)
(* named by the build it comes from, so the content of the tables and the  *)
(* timing of the answers can be stated apart.                              *)
(***************************************************************************)
EXTENDS Metrics

CONSTANTS
    Disclosures,       \* what may be pinned to begin with
    Corrections,       \* what may be pinned later
    Queries,           \* records [measures, company]
    Tiers,             \* plans, as Nat: TIER_ORDER
    MeasureTier,       \* the least plan a measure is for
    Metered,           \* kinds of metered requests, each with its quotas
    LeastTier,         \* the least plan a kind is for
    Limit,             \* plans.yaml: Limit[tier][quota]
    MaxOutput,         \* bound: tokens a mapping run puts out
    CacheTtl,          \* 300 s
    Period,            \* a day, a month, a minute
    QuotaTtl,          \* how long a counter lives after its first use
    Requests, Workers,
    MaxBuilds,         \* bound: rebuilds
    MaxUses,           \* bound: uses of one counter
    MaxDocuments,      \* bound: the size of all documents, in tokens
    MaxTokens,         \* bound: usage of a period
    MaxNow             \* bound: the clock

Explore == 0
Measures == DOMAIN MeasureTier
Quotas == UNION {{Metered[k][i] : i \in DOMAIN Metered[k]} : k \in DOMAIN Metered}
Tokens == "studio_tokens_per_month"
Times == 0..MaxNow
Periods == 0..(MaxNow \div Period)
Forever == MaxNow + QuotaTtl + 1

ASSUME SemanticAssumption ==
    /\ Explore \in Tiers /\ Tiers \subseteq Nat
    /\ MeasureTier \in [Measures -> Tiers]
    /\ Queries \subseteq [measures : SUBSET Measures, company : BOOLEAN]
    /\ \A k \in DOMAIN Metered : Metered[k] \in Seq(Quotas) /\ Len(Metered[k]) \in 1..2
    /\ DOMAIN Metered \cap {"web", "map", "none"} = {}
    /\ LeastTier \in [DOMAIN Metered -> Tiers]
    /\ Limit \in [Tiers -> [Quotas \cup {Tokens} -> Nat]]
    /\ {CacheTtl, MaxBuilds, MaxUses, MaxOutput, MaxDocuments, MaxTokens, MaxNow} \subseteq Nat
    /\ Period \in Nat \ {0}
    /\ QuotaTtl \in Nat /\ QuotaTtl >= Period

ASSUME DisclosureAssumption ==
    \A values \in Disclosures \cup Corrections, f \in Filings : IsPinned(values[f])

VARIABLES
    now,
    pinned,      \* the values of the pinned rows
    tables,      \* metrics, shared phrases and scores
    built,       \* how many rebuilds committed
    basis,       \* history: the values the last of them found pinned
    tier,        \* the plan of the organisation that asks
    cache,       \* Redis: answers
    counter,     \* Redis: uses of a quota in a period
    documents,   \* studio_docs: the size of all, in tokens
    usage,       \* studio_token_usage: the sum of the rows of a period
    request,
    rebuild,
    granted,     \* history: uses that were granted
    lost,        \* history: answers an invalidation did not come to
    strayed,     \* history: counters of a period a use came to after its end
    ceiling,     \* history: of a period, the most a plan let its mapping runs use
    unseen       \* history: periods charged with what no check had seen

vars == <<now, pinned, tables, built, basis, tier, cache, counter, documents, usage, request,
          rebuild, granted, lost, strayed, ceiling, unseen>>
published == <<pinned, tables, built, basis>>
tokenVars == <<documents, usage, ceiling, unseen>>
quotaVars == <<counter, granted, strayed, tokenVars>>

-----------------------------------------------------------------------------
(* Types *)

Row == [measure : Measures, build : 0..MaxBuilds]

(* A cached response; `late' if a rebuild committed while it was computed. *)
Entry ==
    [rows : SUBSET Row, named : BOOLEAN, expires : 0..(MaxNow + CacheTtl), late : BOOLEAN]

NoEntry == [rows |-> {}, named |-> FALSE, expires |-> 0, late |-> FALSE]

(* query_cache_key                                                         *)
CacheKeys == Tiers \X Queries

QuotaKeys == Quotas \X Tiers \X Periods

NoUse == [used |-> 0, expires |-> 0]

Request ==
    [pc     : {"idle", "lookup", "read", "period", "count", "expire", "translate",
               "meter", "estimate", "charge", "done"},
     kind   : DOMAIN Metered \cup {"web", "map", "none"},
     query  : Queries \cup {<<>>},
     tier   : Tiers,
     quotas : 0..2,                       \* quotas that were consumed
     period : Periods,
     used   : Nat,                        \* tokens of the period, when they were summed
     input  : 0..MaxDocuments,            \* tokens of the documents
     todo   : SUBSET Measures,
     rows   : SUBSET Row,
     named  : BOOLEAN]                    \* the rows name companies

Idle ==
    [pc |-> "idle", kind |-> "none", query |-> <<>>, tier |-> Explore, quotas |-> 0,
     period |-> 0, used |-> 0, input |-> 0, todo |-> {}, rows |-> {}, named |-> FALSE]

Rebuild ==
    [pc : {"idle", "commit", "invalidate", "scan"}, snap : Disclosures \cup Corrections,
     todo : SUBSET CacheKeys]

(* What is in the tables is the matter of ComparisonsArePublished.          *)
TypeOK ==
    /\ now \in Times
    /\ pinned \in Disclosures \cup Corrections
    /\ built \in 0..MaxBuilds
    /\ basis \in Disclosures \cup Corrections
    /\ tier \in Tiers
    /\ cache \in [CacheKeys -> Entry]
    /\ counter \in [QuotaKeys -> [used : Nat, expires : 0..Forever]]
    /\ request \in [Requests -> Request]
    /\ rebuild \in [Workers -> Rebuild]
    /\ granted \in [QuotaKeys -> Nat]
    /\ lost \subseteq CacheKeys
    /\ strayed \subseteq QuotaKeys
    /\ documents \in 0..MaxDocuments
    /\ usage \in [Periods -> 0..MaxTokens]
    /\ ceiling \in [Periods -> Nat]
    /\ unseen \subseteq Periods

Init ==
    /\ now = 0
    /\ pinned \in Disclosures
    /\ tables = Tables(pinned)
    /\ built = 0
    /\ basis = pinned
    /\ tier \in Tiers
    /\ cache = [k \in CacheKeys |-> NoEntry]
    /\ counter = [k \in QuotaKeys |-> NoUse]
    /\ request = [r \in Requests |-> Idle]
    /\ rebuild = [w \in Workers |-> [pc |-> "idle", snap |-> pinned, todo |-> {}]]
    /\ granted = [k \in QuotaKeys |-> 0]
    /\ lost = {}
    /\ strayed = {}
    /\ documents = 0
    /\ usage = [p \in Periods |-> 0]
    /\ ceiling = [p \in Periods |-> 0]
    /\ unseen = {}

Becomes(r, state) == request' = [request EXCEPT ![r] = state]

Live(k) == cache[k] # NoEntry

(* Redis drops what expires.                                               *)
Tick ==
    /\ now < MaxNow
    /\ now' = now + 1
    /\ cache' = [k \in CacheKeys |-> IF cache[k].expires > now' THEN cache[k] ELSE NoEntry]
    /\ counter' = [k \in QuotaKeys |-> IF counter[k].expires > now' THEN counter[k] ELSE NoUse]
    /\ lost' = {k \in lost : cache'[k] # NoEntry}
    /\ UNCHANGED <<published, tier, granted, strayed, tokenVars, request, rebuild>>

(* change_plan                                                             *)
ChangePlan(t) ==
    /\ t # tier
    /\ tier' = t
    /\ UNCHANGED <<now, published, cache, quotaVars, request, rebuild, lost>>

-----------------------------------------------------------------------------
(* Rebuilds *)

(* A publication or a review changes what is pinned.                       *)
Publish(values) ==
    /\ pinned # values
    /\ pinned' = values
    /\ UNCHANGED <<now, tables, built, basis, tier, cache, quotaVars, request, rebuild, lost>>

Works(w, state) == rebuild' = [rebuild EXCEPT ![w] = state]

StartRebuild(w) ==
    /\ rebuild[w].pc = "idle"
    /\ Works(w, [rebuild[w] EXCEPT !.pc = "commit", !.snap = pinned])
    /\ UNCHANGED <<now, published, tier, cache, quotaVars, request, lost>>

CommitRebuild(w) ==
    /\ rebuild[w].pc = "commit"
    /\ built < MaxBuilds
    /\ tables' = Tables(rebuild[w].snap)
    /\ built' = built + 1
    /\ basis' = rebuild[w].snap
    /\ Works(w, [rebuild[w] EXCEPT !.pc = "invalidate"])
    /\ UNCHANGED <<now, pinned, tier, cache, quotaVars, request, lost>>

(* A SCAN returns every key that is there from its beginning to its end,   *)
(* page by page, and perhaps some that come meanwhile.                     *)
StartScan(w) ==
    /\ rebuild[w].pc = "invalidate"
    /\ Works(w, [rebuild[w] EXCEPT !.pc = "scan", !.todo = {k \in CacheKeys : Live(k)}])
    /\ UNCHANGED <<now, published, tier, cache, quotaVars, request, lost>>

ScanPage(w, K) ==
    /\ rebuild[w].pc = "scan"
    /\ rebuild[w].todo \cap K # {}
    /\ K \subseteq rebuild[w].todo \cup {k \in CacheKeys : Live(k)}
    /\ cache' = [k \in CacheKeys |-> IF k \in K THEN NoEntry ELSE cache[k]]
    /\ lost' = lost \ K
    /\ Works(w, [rebuild[w] EXCEPT !.todo = @ \ K])
    /\ UNCHANGED <<now, published, tier, quotaVars, request>>

(* Mutant: the cursor of the first page is not followed.                   *)
EndScanEarly(w) ==
    /\ rebuild[w].pc = "scan"
    /\ Works(w, [rebuild[w] EXCEPT !.pc = "idle", !.todo = {}])
    /\ UNCHANGED <<now, published, tier, cache, quotaVars, request, lost>>

EndScan(w) ==
    /\ rebuild[w].pc = "scan"
    /\ rebuild[w].todo = {}
    /\ Works(w, [rebuild[w] EXCEPT !.pc = "idle"])
    /\ UNCHANGED <<now, published, tier, cache, quotaVars, request, lost>>

(* A crash, or Redis does not answer: the tables stay as they are.         *)
FailRebuild(w) ==
    LET me == rebuild[w] IN
    /\ me.pc # "idle"
    /\ lost' = CASE me.pc = "commit" -> lost
                 [] me.pc = "invalidate" -> {k \in CacheKeys : Live(k)}
                 [] OTHER -> lost \cup {k \in me.todo : Live(k)}
    /\ Works(w, [me EXCEPT !.pc = "idle", !.todo = {}])
    /\ UNCHANGED <<now, published, tier, cache, quotaVars, request>>

-----------------------------------------------------------------------------
(* Queries *)

(* execute_query: gated measures are left out, and a query that names      *)
(* companies gets nothing without a paid plan.                             *)
CompanyGated(t, q) == q.company /\ t = Explore

Allowed(t, q) ==
    IF CompanyGated(t, q) THEN {} ELSE {m \in q.measures : MeasureTier[m] <= t}

Names(t, q) == q.company /\ ~CompanyGated(t, q)

Reading(me) == [me EXCEPT !.pc = "read", !.todo = Allowed(me.tier, me.query)]

StartWeb(r, q) ==
    /\ request[r].pc = "idle"
    /\ Becomes(r, [Idle EXCEPT !.pc = "lookup", !.kind = "web", !.query = q, !.tier = tier])
    /\ UNCHANGED <<now, published, tier, cache, quotaVars, rebuild, lost>>

(* Mutant: the key does not name the plan.                                 *)
KeyOfQuery(t, q) == <<Explore, q>>

KeyOf(t, q) == <<t, q>>

LookupCache(r) ==
    LET me == request[r]
        k == KeyOf(me.tier, me.query)
    IN
    /\ me.pc = "lookup"
    /\ Becomes(r, IF Live(k)
                  THEN [me EXCEPT !.pc = "done", !.rows = cache[k].rows, !.named = cache[k].named]
                  ELSE Reading(me))
    /\ UNCHANGED <<now, published, tier, cache, quotaVars, rebuild, lost>>

(* One statement per measure, each seeing what is committed by then.       *)
ReadMeasure(r, m) ==
    LET me == request[r] IN
    /\ me.pc = "read"
    /\ m \in me.todo
    /\ Becomes(r, [me EXCEPT !.todo = @ \ {m},
                             !.rows = @ \cup {[measure |-> m, build |-> built]}])
    /\ UNCHANGED <<now, published, tier, cache, quotaVars, rebuild, lost>>

Answer(me) == [me EXCEPT !.pc = "done", !.named = Names(me.tier, me.query)]

EndQuery(r) ==
    LET me == request[r] IN
    /\ me.pc = "read" /\ me.kind # "web"
    /\ me.todo = {}
    /\ Becomes(r, Answer(me))
    /\ UNCHANGED <<now, published, tier, cache, quotaVars, rebuild, lost>>

(* Whatever happened since the query began, its answer is cached.          *)
StoreAnswer(r) ==
    LET me == request[r]
        k == KeyOf(me.tier, me.query)
    IN
    /\ me.pc = "read" /\ me.kind = "web"
    /\ me.todo = {}
    /\ cache' = [cache EXCEPT ![k] =
                    [rows |-> me.rows, named |-> Answer(me).named, expires |-> now + CacheTtl,
                     late |-> \E row \in me.rows : row.build # built]]
    /\ lost' = lost \ {k}
    /\ Becomes(r, Answer(me))
    /\ UNCHANGED <<now, published, tier, quotaVars, rebuild>>

(* The answer is sent, or an error or a crash ends the request.            *)
EndRequest(r) ==
    /\ request[r].pc # "idle"
    /\ Becomes(r, Idle)
    /\ UNCHANGED <<now, published, tier, cache, quotaVars, rebuild, lost>>

-----------------------------------------------------------------------------
(* Quotas *)

(* authenticate_api_key, peer_board_pdf                                    *)
Admitted(kind) == LeastTier[kind] <= tier

StartMetered(r, kind, q) ==
    /\ request[r].pc = "idle"
    /\ Admitted(kind)
    /\ Becomes(r, [Idle EXCEPT !.pc = "period", !.kind = kind, !.query = q, !.tier = tier])
    /\ UNCHANGED <<now, published, tier, cache, quotaVars, rebuild, lost>>

(* Mutant: the key names the instant.                                      *)
NamePeriodExact(r) ==
    /\ request[r].pc = "period"
    /\ Becomes(r, [request[r] EXCEPT !.pc = "count", !.period = now])
    /\ UNCHANGED <<now, published, tier, cache, quotaVars, rebuild, lost>>

(* period_key                                                              *)
NamePeriod(r) ==
    /\ request[r].pc = "period"
    /\ Becomes(r, [request[r] EXCEPT !.pc = "count", !.period = now \div Period])
    /\ UNCHANGED <<now, published, tier, cache, quotaVars, rebuild, lost>>

QuotaKey(me) == <<Metered[me.kind][me.quotas + 1], me.tier, me.period>>

(* Mutant: the use itself is not counted.                                  *)
GrantedBefore(t, quota, used) == used - 1 <= Limit[t][quota]

(* enforce_quota                                                           *)
Grants(t, quota, used) == Limit[t][quota] > 0 /\ used <= Limit[t][quota]

(* On to the next quota, or to the query; a refusal ends the request, and  *)
(* stays counted.                                                          *)
Consumed(r, k, used) ==
    LET me == [request[r] EXCEPT !.quotas = @ + 1] IN
    IF ~Grants(k[2], k[1], used)
    THEN Becomes(r, Idle) /\ UNCHANGED granted
    ELSE /\ granted' = [granted EXCEPT ![k] = @ + 1]
         /\ Becomes(r, IF me.quotas < Len(Metered[me.kind])
                       THEN [me EXCEPT !.pc = "period"]
                       ELSE IF me.kind = "nlq" THEN [me EXCEPT !.pc = "translate"]
                       ELSE Reading(me))

(* INCRBY; a key that was not there is to be given its expiry next.        *)
CountUse(r) ==
    LET me == request[r]
        k == QuotaKey(me)
        used == counter[k].used + 1
    IN
    /\ me.pc = "count"
    /\ used <= MaxUses
    /\ counter' = [counter EXCEPT ![k] =
                      [used |-> used, expires |-> IF used = 1 THEN Forever ELSE @.expires]]
    /\ strayed' = IF me.period # now \div Period THEN strayed \cup {k} ELSE strayed
    /\ IF used = 1
       THEN Becomes(r, [me EXCEPT !.pc = "expire"]) /\ UNCHANGED granted
       ELSE Consumed(r, k, used)
    /\ UNCHANGED <<now, published, tier, cache, tokenVars, rebuild, lost>>

ExpireCounter(r) ==
    LET k == QuotaKey(request[r]) IN
    /\ request[r].pc = "expire"
    /\ counter' = [counter EXCEPT ![k].expires = now + QuotaTtl]
    /\ Consumed(r, k, 1)
    /\ UNCHANGED <<now, published, tier, cache, strayed, tokenVars, rebuild, lost>>

(* The model makes a query of a question, any query, or refuses.           *)
Translate(r, q) ==
    /\ request[r].pc = "translate"
    /\ Becomes(r, Reading([request[r] EXCEPT !.query = q]))
    /\ UNCHANGED <<now, published, tier, cache, quotaVars, rebuild, lost>>

-----------------------------------------------------------------------------
(* Mapping runs *)

UploadDocument(size) ==
    /\ documents + size <= MaxDocuments
    /\ documents' = documents + size
    /\ UNCHANGED <<now, published, tier, cache, counter, granted, strayed, usage, ceiling, unseen,
                   request, rebuild, lost>>

(* The row that will be inserted has the time its transaction began.       *)
StartMapping(r) ==
    /\ request[r].pc = "idle"
    /\ Becomes(r, [Idle EXCEPT !.pc = "meter", !.kind = "map", !.tier = tier,
                               !.period = now \div Period])
    /\ UNCHANGED <<now, published, tier, cache, quotaVars, rebuild, lost>>

(* What this month's rows sum up to.                                       *)
SumUsage(r) ==
    LET me == request[r]
        month == now \div Period
    IN
    /\ me.pc = "meter"
    /\ Becomes(r, [me EXCEPT !.pc = "estimate", !.used = usage[month]])
    /\ unseen' = IF month # me.period THEN unseen \cup {me.period} ELSE unseen
    /\ UNCHANGED <<now, published, tier, cache, counter, granted, strayed, documents, usage,
                   ceiling, rebuild, lost>>

(* The documents are read and the run is let in or refused.                *)
EstimateTokens(r) ==
    LET me == request[r] IN
    /\ me.pc = "estimate"
    /\ IF Grants(me.tier, Tokens, me.used + documents)
       THEN /\ Becomes(r, [me EXCEPT !.pc = "charge", !.input = documents])
            /\ ceiling' = [ceiling EXCEPT ![me.period] = Max({@, Limit[me.tier][Tokens]})]
       ELSE Becomes(r, Idle) /\ UNCHANGED ceiling
    /\ UNCHANGED <<now, published, tier, cache, counter, granted, strayed, documents, usage, unseen,
                   rebuild, lost>>

(* Proposals and the run's own row are committed; what the run put out was *)
(* in no check.                                                            *)
ChargeTokens(r, output) ==
    LET me == request[r]
        p == me.period
        total == usage[p] + me.input + output
    IN
    /\ me.pc = "charge"
    /\ total <= MaxTokens
    /\ usage' = [usage EXCEPT ![p] = total]
    /\ unseen' = IF usage[p] # me.used THEN unseen \cup {p} ELSE unseen
    /\ Becomes(r, Idle)
    /\ UNCHANGED <<now, published, tier, cache, counter, granted, strayed, documents, ceiling,
                   rebuild, lost>>

-----------------------------------------------------------------------------

Serve(r) ==
    \/ StartMapping(r) \/ SumUsage(r) \/ EstimateTokens(r)
    \/ \E output \in 0..MaxOutput : ChargeTokens(r, output)
    \/ \E q \in Queries : StartWeb(r, q)
    \/ \E kind \in DOMAIN Metered, q \in Queries : StartMetered(r, kind, q)
    \/ LookupCache(r) \/ (\E m \in Measures : ReadMeasure(r, m)) \/ EndQuery(r)
    \/ StoreAnswer(r) \/ EndRequest(r)
    \/ NamePeriod(r) \/ CountUse(r) \/ ExpireCounter(r)
    \/ \E q \in Queries : Translate(r, q)

Work(w) ==
    \/ StartRebuild(w) \/ CommitRebuild(w) \/ StartScan(w)
    \/ (\E K \in SUBSET CacheKeys : ScanPage(w, K))
    \/ EndScan(w) \/ FailRebuild(w)

Next ==
    \/ Tick
    \/ \E t \in Tiers : ChangePlan(t)
    \/ \E values \in Corrections : Publish(values)
    \/ \E size \in 1..MaxDocuments : UploadDocument(size)
    \/ \E r \in Requests : Serve(r)
    \/ \E w \in Workers : Work(w)

Spec == Init /\ [][Next]_vars

-----------------------------------------------------------------------------
(* Properties *)

(* A metric is published when it can be computed and nothing it rests on   *)
(* breaks an identity or is negative, and only then.                       *)
WithheldStaysUnpublished ==
    \A f \in Filings :
        LET all == Candidates(basis[f].number) IN
        {m.key : m \in {n \in tables.metrics : n.company = f[1] /\ n.fy = f[2]}} =
        {k \in DOMAIN all : RestsOn(k) \cap Implausible(all) = {}}

(* A filing has one row of a metric and, if anything of it is pinned,      *)
(* three scores from 0 to 100.  What is published beside a metric is about *)
(* published metrics only, and a filing loses originality only to phrases  *)
(* that enough companies use.                                              *)
ComparisonsArePublished ==
    /\ \A a, b \in tables.metrics :
          a = b \/ a.company # b.company \/ a.fy # b.fy \/ a.key # b.key
    /\ tables.scores \in [{f \in Filings : basis[f].present # {}} ->
                            [{"completeness", "substance", "assurance"} -> 0..Full]]
    /\ \A f \in DOMAIN tables.scores :
          KeepsOriginality(basis[f], tables.scores[f].substance, basis)
    /\ \A a \in tables.metrics : WellCompared(a, tables.metrics)

(* An answer, also one from the cache, has no measure that the plan of the *)
(* request is not for, and names no company to a visitor.                  *)
AnswersFitThePlan ==
    \A r \in Requests :
        LET me == request[r] IN
        me.pc = "done" => /\ \A row \in me.rows : MeasureTier[row.measure] <= me.tier
                          /\ me.named => me.tier # Explore

(* A cached answer that can be served shows the numbers as they are        *)
(* published, every measure of the same rebuild, unless a rebuild          *)
(* committed while it was computed, its invalidation is still to come to   *)
(* it, or was lost.                                                        *)
CachedAnswersAreCurrent ==
    \A k \in CacheKeys :
        \/ ~Live(k) \/ cache[k].late \/ k \in lost
        \/ \A row \in cache[k].rows : row.build = built
        \/ \E w \in Workers : rebuild[w].pc = "invalidate" \/ k \in rebuild[w].todo

(* A plan is granted no more uses of a quota in a period than its limit,   *)
(* although the counter is kept by two calls and expires by itself, unless *)
(* a use came to a counter when its period was over.  Nor do mapping runs  *)
(* use more tokens in a month than the plans they ran under allow and one  *)
(* of them puts out, unless a run was charged to the month after another   *)
(* had summed it up, or began in it and summed up the next.                *)
QuotasAreKept ==
    /\ \A k \in QuotaKeys : k \in strayed \/ granted[k] <= Limit[k[2]][k[1]]
    /\ \A p \in Periods :
          \/ p \in unseen \/ usage[p] = 0
          \/ ceiling[p] > 0 /\ usage[p] <= ceiling[p] + MaxOutput
=============================================================================
