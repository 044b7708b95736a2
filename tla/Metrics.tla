------------------------------- MODULE Metrics -------------------------------
(***************************************************************************)
(* What a rebuild computes from the pinned values (worker/score/metrics.py *)
(* and the pure part of materialize.py): candidates, the screens that      *)
(* withhold what contradicts itself, percentiles, year-on-year changes,    *)
(* phrases that companies share, and the three scores of a filing.         *)
(*                                                                         *)
(* A filing is a company and a year.  What is pinned of it is a record:    *)
(* the fields that are present, those with a number and those with a text, *)
(* the fields with a source to show, and whether an assurance is stated.   *)
(* A text is its runs of eight words and the signals the patterns of       *)
(* narrative_signals find.  Decimals are integers here: a quotient is      *)
(* taken of values that divide, percentiles and scores count               *)
(* ten-thousandths.                                                        *)
(***************************************************************************)
EXTENDS Integers, Sequences, FiniteSets, FiniteSetsExt, SequencesExt

CONSTANTS
    Filings,           \* pairs of a company and a year
    Sector,            \* the sector of a company
    Fields,            \* fields that can be pinned
    CoreFields,
    Additive,          \* scoring.yaml: sequence of [key, addends]
    Derived,           \* scoring.yaml: set of [key, numerators, denominator]
    Identities,        \* scoring.yaml: set of [total, parts]
    NonNegative,       \* scoring.yaml
    Tolerance,         \* scoring.yaml: plausibility tolerance, in hundredths
    Scale,             \* scoring.yaml: denominator_scale
    MinimumSectorSize,
    SignalWeight,      \* scoring.yaml: of each signal, in hundredths
    OriginalityWeight, \* scoring.yaml, in hundredths
    SharingCompanies,  \* scoring.yaml: boilerplate_company_threshold
    AssuranceWeight    \* scoring.yaml: [stated, core, lineage], in hundredths

MetricKeys ==
    Fields \cup {Additive[i].key : i \in DOMAIN Additive} \cup {d.key : d \in Derived}

ASSUME MetricsAssumption ==
    /\ Filings \subseteq (DOMAIN Sector) \X Int
    /\ IsFiniteSet(DOMAIN Sector)
    /\ CoreFields \subseteq Fields
    /\ IsFiniteSet(MetricKeys)
    /\ Cardinality(MetricKeys) = Cardinality(Fields) + Len(Additive) + Cardinality(Derived)
    /\ Len(Additive) \in Nat /\ DOMAIN Additive = 1..Len(Additive)
    /\ NonNegative \subseteq MetricKeys
    /\ {Tolerance, Scale, MinimumSectorSize, SharingCompanies} \subseteq Nat

ASSUME WeightsAssumption ==
    /\ IsFiniteSet(DOMAIN SignalWeight)
    /\ \A k \in DOMAIN SignalWeight : SignalWeight[k] \in Nat
    /\ OriginalityWeight \in Nat
    /\ OriginalityWeight + MapThenSumSet(LAMBDA k : SignalWeight[k], DOMAIN SignalWeight) = 100
    /\ AssuranceWeight \in [stated : Nat, core : Nat, lineage : Nat]
    /\ AssuranceWeight.stated + AssuranceWeight.core + AssuranceWeight.lineage = 100

-----------------------------------------------------------------------------
(* Candidates *)

SumOf(values, keys) == MapThenSumSet(LAMBDA k : values[k], keys)

Known(values, keys) == keys \subseteq DOMAIN values

(* An additive metric counts as a value for those after it.                *)
Add(values, a) ==
    IF Known(values, a.addends)
    THEN [k \in DOMAIN values \cup {a.key} |->
             IF k = a.key THEN SumOf(values, a.addends) ELSE values[k]]
    ELSE values

WithAdditive(values) == FoldLeft(Add, values, Additive)

Quotient(n, d) == IF d < 0 THEN (-n) \div (-d) ELSE n \div d

Computable(values) ==
    {d \in Derived : /\ Known(values, d.numerators \cup {d.denominator})
                     /\ values[d.denominator] # 0}

(* Everything that can be told of a filing.                                *)
Candidates(values) ==
    LET base == WithAdditive(values)
        derived == Computable(base)
        Of(k) == CHOOSE d \in derived : d.key = k
    IN [k \in DOMAIN base \cup {d.key : d \in derived} |->
           IF k \in DOMAIN base THEN base[k]
           ELSE Quotient(SumOf(base, Of(k).numerators) * Scale, base[Of(k).denominator])]

-----------------------------------------------------------------------------
(* Screens *)

Magnitude(n) == IF n < 0 THEN -n ELSE n

Broken(values, identity) ==
    /\ Known(values, identity.parts \cup {identity.total})
    /\ LET total == values[identity.total] IN
       100 * Magnitude(total - SumOf(values, identity.parts))
           > Tolerance * Max({Magnitude(total), 1})

(* The keys that fail a screen themselves.                                 *)
Implausible(values) ==
    {i.total : i \in {j \in Identities : Broken(values, j)}}
    \cup {k \in NonNegative \cap DOMAIN values : values[k] < 0}

(* The keys computed from a key.                                           *)
Dependents(k) ==
    {Additive[i].key : i \in {j \in DOMAIN Additive : k \in Additive[j].addends}}
    \cup {d.key : d \in {e \in Derived : k \in e.numerators \cup {e.denominator}}}

(* Mutant: what is computed from a withheld metric stays.                  *)
ClosureOfNone(keys) == keys

(* The keys, what is computed from them, and so on.                        *)
Closure(keys) ==
    LET steps[n \in 0..Cardinality(MetricKeys)] ==
            IF n = 0 THEN keys
            ELSE steps[n - 1] \cup UNION {Dependents(k) : k \in steps[n - 1]}
    IN steps[Cardinality(MetricKeys)]

Kept(values) ==
    LET all == Candidates(values)
        blocked == Closure(Implausible(all))
    IN [k \in DOMAIN all \ blocked |-> all[k]]

-----------------------------------------------------------------------------
(* Percentiles and changes *)

RoundHalfEven(n, d) ==
    LET q == n \div d r == n % d IN
    IF 2 * r > d \/ (2 * r = d /\ q % 2 = 1) THEN q + 1 ELSE q

(* All of it: 100 percent.                                                 *)
Full == 1000000

(* Mutant: a tie counts as below.                                          *)
PercentileOfTies(value, cohort) ==
    IF Cardinality(cohort) <= 1 THEN Full
    ELSE RoundHalfEven(Full * Cardinality({r \in cohort : r.value <= value}),
                       Cardinality(cohort) - 1)

(* The mean rank among ties, over a cohort of rows.                        *)
Percentile(value, cohort) ==
    LET below == Cardinality({r \in cohort : r.value < value})
        equal == Cardinality({r \in cohort : r.value = value})
        n == Cardinality(cohort)
    IN IF n <= 1 THEN Full
       ELSE RoundHalfEven(Full * (2 * below + equal - 1), 2 * (n - 1))

(* The candidates of all filings that are kept.                            *)
Rows(pinned) ==
    UNION {LET kept == Kept(pinned[f].number) IN
           {[company |-> f[1], fy |-> f[2], key |-> k, value |-> kept[k]] : k \in DOMAIN kept}
           : f \in Filings}

(* A row of metrics; an empty set stands for NULL.                         *)
Materialized(row, rows) ==
    LET all == {r \in rows : r.fy = row.fy /\ r.key = row.key}
        sector == {r \in all : Sector[r.company] = Sector[row.company]}
        previous == {r \in rows : /\ r.company = row.company /\ r.key = row.key
                                  /\ r.fy = row.fy - 1}
    IN [company |-> row.company, fy |-> row.fy, key |-> row.key, value |-> row.value,
        sector |-> IF Cardinality(sector) >= MinimumSectorSize
                   THEN {Percentile(row.value, sector)} ELSE {},
        all |-> Percentile(row.value, all),
        yoy |-> {row.value - r.value : r \in previous}]

-----------------------------------------------------------------------------
(* Phrases and scores *)

Phrases(filing) == UNION {filing.text[k].phrases : k \in DOMAIN filing.text}

Signals(filing) == UNION {filing.text[k].signals : k \in DOMAIN filing.text}

(* What may be pinned of a filing.                                         *)
IsPinned(filing) ==
    /\ filing.present \subseteq Fields
    /\ filing.traced \subseteq filing.present
    /\ DOMAIN filing.number \subseteq Fields
    /\ filing.number \in [DOMAIN filing.number -> Int]
    /\ IsFiniteSet(Phrases(filing))
    /\ Signals(filing) \subseteq DOMAIN SignalWeight

Sharing(pinned, phrase) == {f[1] : f \in {g \in Filings : phrase \in Phrases(pinned[g])}}

(* Boilerplate: whatever the year, a company counts once.                  *)
Shared(pinned) ==
    {p \in UNION {Phrases(pinned[f]) : f \in Filings} :
        Cardinality(Sharing(pinned, p)) >= SharingCompanies}

(* completeness_score: a core field counts twice.                          *)
Completeness(present) ==
    LET Weight(keys) == Cardinality(keys) + Cardinality(keys \cap CoreFields)
        possible == Weight(Fields)
    IN IF possible = 0 THEN 0 ELSE RoundHalfEven(Full * Weight(present), possible)

(* substance_score: the signals, and what is not boilerplate; a filing     *)
(* without a phrase has none that is.                                      *)
Substance(filing, shared) ==
    LET own == Phrases(filing)
        count == Max({1, Cardinality(own)})
        original == count - Cardinality(own \cap shared)
    IN RoundHalfEven(10000 * (SumOf(SignalWeight, Signals(filing)) * count
                              + OriginalityWeight * original), count)

(* assurance_readiness_score                                               *)
Assurance(filing) ==
    LET core == Max({1, Cardinality(CoreFields)})
        count == Max({1, Cardinality(filing.present)})
        stated == IF filing.assured THEN AssuranceWeight.stated * core * count ELSE 0
    IN RoundHalfEven(10000 * (stated
           + AssuranceWeight.core * Cardinality(filing.present \cap CoreFields) * count
           + AssuranceWeight.lineage * Cardinality(filing.traced) * core), core * count)

(* What a rebuild leaves in metrics, shared_phrases and scores; a filing   *)
(* with nothing pinned has no scores.                                      *)
Tables(pinned) ==
    LET rows == Rows(pinned)
        shared == Shared(pinned)
    IN [metrics |-> {Materialized(r, rows) : r \in rows},
        shared |-> {[phrase |-> p, companies |-> Cardinality(Sharing(pinned, p))] : p \in shared},
        scores |-> [f \in {g \in Filings : pinned[g].present # {}} |->
                       [completeness |-> Completeness(pinned[f].present),
                        substance |-> Substance(pinned[f], shared),
                        assurance |-> Assurance(pinned[f])]]]

-----------------------------------------------------------------------------
(* What a metric rests on *)

(* The sources of its formula, itself included.                            *)
Sources(k) ==
    {k} \cup UNION ({Additive[i].addends : i \in {j \in DOMAIN Additive : Additive[j].key = k}}
                    \cup {d.numerators \cup {d.denominator} : d \in {e \in Derived : e.key = k}})

(* Its sources, theirs and theirs.                                         *)
RestsOn(k) == UNION {Sources(s) : s \in UNION {Sources(t) : t \in Sources(k)}}

(* scoring.yaml goes no deeper: a derived metric is nobody's source.       *)
ASSUME ScoringAssumption ==
    /\ Cardinality(MetricKeys) >= 3
    /\ \A k \in MetricKeys : UNION {Sources(s) : s \in RestsOn(k)} \subseteq RestsOn(k)

-----------------------------------------------------------------------------
(* What the tables promise *)

(* The numbers beside a metric compare it with metrics of the table only:  *)
(* its percentile orders it as its value does among those of its year,     *)
(* from 0 for the lowest alone to 100 for the highest, there is one in the *)
(* sector when that is large enough, and its change is from its metric of  *)
(* the year before.                                                        *)
WellCompared(a, metrics) ==
    LET cohort == {b \in metrics : b.fy = a.fy /\ b.key = a.key}
        sector == {b \in cohort : Sector[b.company] = Sector[a.company]}
        earlier == {b \in metrics : b.company = a.company /\ b.key = a.key
                                    /\ b.fy = a.fy - 1}
    IN
    /\ a.all \in 0..Full
    /\ \A b \in cohort : a.value < b.value <=> a.all < b.all
    /\ \A p, q \in a.sector : p = q
    /\ a.sector # {} <=> Cardinality(sector) >= MinimumSectorSize
    /\ \A b \in sector, p \in a.sector : \A q \in b.sector : a.value < b.value <=> p < q
    /\ (\A b \in cohort \ {a} : b.value > a.value) /\ cohort # {a} => a.all = 0
    /\ (\A b \in cohort \ {a} : b.value < a.value) => a.all = Full
    /\ a.yoy = {a.value - b.value : b \in earlier}

(* The companies whose texts have a phrase, in any year.                   *)
Users(pinned, phrase) ==
    {c \in DOMAIN Sector : \E f \in Filings : f[1] = c /\ phrase \in Phrases(pinned[f])}

(* A filing keeps its originality unless enough companies use a phrase of  *)
(* it: a company may repeat its own every year.                            *)
KeepsOriginality(filing, substance, pinned) ==
    substance = 10000 * (SumOf(SignalWeight, Signals(filing)) + OriginalityWeight) <=>
    \A p \in Phrases(filing) : Cardinality(Users(pinned, p)) < SharingCompanies
=============================================================================
