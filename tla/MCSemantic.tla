----------------------------- MODULE MCSemantic -----------------------------
(***************************************************************************)
(* Three companies, one of them with two years, and a scoring file in      *)
(* which a metric rests on another one that an identity may withhold; two  *)
(* requests and one worker.  Numbers, cache, counters and mapping runs are *)
(* explored one at a time: the numbers from every disclosure, without      *)
(* requests; the cache after them, and the quotas without a rebuild.       *)
(***************************************************************************)
EXTENDS Semantic, TLC

MCFilings == {<<"c1", 1>>, <<"c1", 2>>, <<"c2", 2>>, <<"c3", 2>>}
MCSector == [c \in {"c1", "c2", "c3"} |-> IF c = "c3" THEN "mining" ELSE "cement"]
MCAdditive == <<[key |-> "both", addends |-> {"part", "total"}]>>
MCDerived == {[key |-> "intensity", numerators |-> {"both"}, denominator |-> "turnover"]}
MCIdentities == {[total |-> "total", parts |-> {"part"}]}

MCSignalWeight == [quantified |-> 35, dated |-> 25, method |-> 20]
MCAssuranceWeight == [stated |-> 40, core |-> 35, lineage |-> 25]

(* A filing with the numbers of some fields and a text of some phrases.    *)
Filed(number, phrases, signals, untraced) ==
    LET present == DOMAIN number \cup {"note"} IN
    [present |-> present, number |-> number,
     text |-> [k \in {"note"} |-> [phrases |-> phrases, signals |-> signals]],
     assured |-> signals # {}, traced |-> present \ untraced]

Told(p, t, v) == [part |-> p, total |-> t, turnover |-> v]

Nothing ==
    [present |-> {}, number |-> <<>>, text |-> <<>>, assured |-> FALSE, traced |-> {}]

(* Plain filings of two sizes, one that breaks the identity, one with a    *)
(* negative and one with no turnover, and one that leaves the total out;   *)
(* a phrase is in one text or more, of one company or of several.          *)
(* The filing of the first year has only changes to give to.               *)
MCPlain == Filed(Told(1, 1, 1), {"a"}, {}, {})
MCBroken == Filed(Told(1, 2, 1), {"a", "b", "c"}, {"dated"}, {"part"})
MCFiled ==
    {MCPlain, MCBroken,
     Filed(Told(2, 2, 1), {"a", "b"}, {"quantified", "dated", "method"}, {}),
     Filed(Told(1, 1, -1), {"b"}, {"method"}, {"part", "note"}),
     Filed(Told(1, 1, 0), {}, {}, {}),
     Filed([part |-> 1, turnover |-> 1], {"a", "d"}, {"quantified"}, {})}

(* Everything is withdrawn.                                                *)
MCCorrections == [MCFilings -> {Nothing}]
MCDisclosures ==
    {d \in [MCFilings -> MCFiled] : d[<<"c1", 1>>] \in {MCPlain, MCBroken}} \cup MCCorrections

MCMeasureTier == [m \in {"completeness", "intensity"} |-> IF m = "intensity" THEN 1 ELSE 0]
Plain == [measures |-> {"completeness", "intensity"}, company |-> FALSE]
MCQueries ==
    {Plain,
     [measures |-> {"completeness"}, company |-> TRUE]}
MCMetered == [dataset |-> <<"minute", "exports">>, nlq |-> <<"day">>]
MCLeastTier == [dataset |-> 1, nlq |-> Explore]
MCLimit ==
    [t \in Tiers |-> [q \in Quotas \cup {Tokens} |->
        CASE q = "minute" -> 2 [] q = Tokens -> 2 * t [] OTHER -> 1]]

Unasked == \A r \in Requests : request[r] = Idle
Unbuilt == built = 0 /\ \A w \in Workers : rebuild[w].pc = "idle"
Unused == \A k \in QuotaKeys : counter[k] = NoUse
Answered == {k \in CacheKeys : cache[k] # NoEntry}
Settled == pinned \in MCCorrections /\ basis \in MCCorrections

Unmapped ==
    /\ documents = 0 /\ unseen = {}
    /\ \A p \in Periods : usage[p] = 0 /\ ceiling[p] = 0
Kinds(kinds) == \A r \in Requests : request[r].kind \in kinds \cup {"none"}

OneQuarter ==
    \/ Unasked /\ Unused /\ Unmapped /\ Answered = {} /\ now = 0 /\ tier = Explore /\ lost = {}
    \/ /\ Settled /\ Unused /\ Unmapped /\ now <= 1 /\ Cardinality(Answered) <= 1
       /\ Kinds({"web"})
    \/ /\ Settled /\ Unbuilt /\ Answered = {} /\ Unmapped
       /\ Kinds({IF tier = Explore THEN "nlq" ELSE "dataset"})
       /\ \A r \in Requests : request[r].query \in {<<>>, Plain} \/ request[r].pc \in {"read", "done"}
    \/ Settled /\ Unbuilt /\ Answered = {} /\ Unused /\ Kinds({"map"})

(* The plan changes with the cache and the documents only.                 *)
StaysInOneQuarter ==
    /\ OneQuarter'
    /\ \/ tier' = tier
       \/ Unused /\ Kinds({"web", "map"})

Symmetry == Permutations(Requests)
=============================================================================
