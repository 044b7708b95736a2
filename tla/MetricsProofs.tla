--------------------------- MODULE MetricsProofs ---------------------------
(***************************************************************************)
(* Facts about what a rebuild computes (Tables), for any scoring file and  *)
(* any pinned values: the closure of what is withheld meets every metric   *)
(* that rests on it, sums and candidates are integers, rounding and        *)
(* percentiles keep the order of values, a metric is compared with metrics *)
(* of the same table, and scores are percentages that lose originality to  *)
(* shared phrases only.                                                    *)
(***************************************************************************)
EXTENDS Metrics, LeastElements

-----------------------------------------------------------------------------
(* The closure of what is withheld *)

(* The first n rounds of Closure.                                          *)
IsClosing(f, keys, n) ==
    f = [i \in 0..n |->
            IF i = 0 THEN keys
            ELSE f[i - 1] \cup UNION {Dependents(k) : k \in f[i - 1]}]

LEMMA ClosingExists ==
  ASSUME NEW keys, NEW n \in Nat
  PROVE  \E f : IsClosing(f, keys, n)
  <1> DEFINE Missing == {m \in Nat : ~\E f : IsClosing(f, keys, m)}
  <1> SUFFICES ASSUME Missing # {} PROVE FALSE
    OBVIOUS
  <1>1. PICK m \in Missing : \A k \in Missing : m <= k
    <2>1. Missing \subseteq Nat
      OBVIOUS
    <2> HIDE DEF Missing
    <2> QED
      BY <2>1, LeastNatural
  <1>2. m \in Nat /\ ~\E f : IsClosing(f, keys, m)
    OBVIOUS
  <1>3. CASE m = 0
    <2>1. IsClosing([i \in 0..0 |-> keys], keys, m)
      BY <1>3 DEF IsClosing
    <2> QED
      BY <1>2, <2>1
  <1>4. CASE m # 0
    <2>1. m - 1 \in Nat /\ m \in Nat
      BY <1>2, <1>4
    <2>2. PICK f : IsClosing(f, keys, m - 1)
      <3>1. m - 1 \notin Missing
        <4> HIDE DEF Missing
        <4> QED
          BY <1>1, <2>1
      <3> QED
        BY <2>1, <3>1
    <2> DEFINE last == f[m - 1] \cup UNION {Dependents(k) : k \in f[m - 1]}
               g == [i \in 0..m |-> IF i = m THEN last ELSE f[i]]
    <2>3. ASSUME NEW i \in 0..m
          PROVE  g[i] = IF i = 0 THEN keys
                        ELSE g[i - 1] \cup UNION {Dependents(k) : k \in g[i - 1]}
      <3>1. CASE i = m
        <4>1. g[i] = last /\ i # 0
          BY <1>4, <3>1
        <4>2. g[i - 1] = f[m - 1]
          BY <2>1, <3>1
        <4> QED
          BY <3>1, <4>1, <4>2
      <3>2. CASE i # m
        <4>1. i \in 0..(m - 1) /\ g[i] = f[i]
          BY <2>1, <3>2
        <4>2. i # 0 => g[i - 1] = f[i - 1]
          BY <2>1, <3>2
        <4> HIDE DEF g
        <4>3. f[i] = IF i = 0 THEN keys
                     ELSE f[i - 1] \cup UNION {Dependents(k) : k \in f[i - 1]}
          BY <2>2, <4>1 DEF IsClosing
        <4> QED
          BY <4>1, <4>2, <4>3
      <3> QED
        BY <3>1, <3>2
    <2>4. IsClosing(g, keys, m)
      BY <2>3 DEF IsClosing
    <2> QED
      BY <1>2, <2>4
  <1> QED
    BY <1>3, <1>4

(* Closure(keys) is the last of the rounds.                                *)
LEMMA ClosureMeans ==
  ASSUME NEW keys
  PROVE  \E f : /\ IsClosing(f, keys, Cardinality(MetricKeys))
                /\ Closure(keys) = f[Cardinality(MetricKeys)]
  <1> DEFINE n == Cardinality(MetricKeys)
             steps == CHOOSE f : IsClosing(f, keys, n)
  <1>1. n \in Nat
    BY MetricsAssumption, FS_CardinalityType
  <1>2. IsClosing(steps, keys, n)
    <2>1. \E f : IsClosing(f, keys, n)
      BY <1>1, ClosingExists
    <2> QED
      BY <2>1
  <1>3. Closure(keys) = steps[n]
    BY DEF Closure, IsClosing
  <1> QED
    BY <1>2, <1>3

LEMMA ClosingStep ==
  ASSUME NEW n \in Nat, NEW keys, NEW f, IsClosing(f, keys, n), NEW i \in 0..n
  PROVE  f[i] = IF i = 0 THEN keys
                ELSE f[i - 1] \cup UNION {Dependents(k) : k \in f[i - 1]}
  BY DEF IsClosing

LEMMA ClosingGrows ==
  ASSUME NEW n \in Nat, NEW keys, NEW f, IsClosing(f, keys, n), NEW i \in 0..n
  PROVE  f[i] \subseteq f[n]
  <1> DEFINE Fails == {m \in 0..n : i <= m /\ ~(f[i] \subseteq f[m])}
  <1> SUFFICES ASSUME Fails # {} PROVE FALSE
    OBVIOUS
  <1>1. PICK m \in Fails : \A k \in Fails : m <= k
    <2>1. Fails \subseteq Nat
      OBVIOUS
    <2> HIDE DEF Fails
    <2> QED
      BY <2>1, LeastNatural
  <1>2. m \in 0..n /\ i <= m /\ ~(f[i] \subseteq f[m]) /\ m # i
    OBVIOUS
  <1>3. m - 1 \in 0..n /\ i <= m - 1 /\ m # 0 /\ m - 1 \notin Fails
    <2>1. m - 1 \in 0..n /\ i <= m - 1 /\ m # 0 /\ ~(m <= m - 1)
      BY <1>2
    <2> HIDE DEF Fails
    <2> QED
      BY <1>1, <2>1
  <1>4. f[i] \subseteq f[m - 1]
    BY <1>3
  <1>5. f[m - 1] \subseteq f[m]
    <2>1. f[m] = IF m = 0 THEN keys
                 ELSE f[m - 1] \cup UNION {Dependents(k) : k \in f[m - 1]}
      BY <1>2 DEF IsClosing
    <2> QED
      BY <1>3, <2>1
  <1> QED
    BY <1>2, <1>4, <1>5

LEMMA SourceOrSelf ==
  ASSUME NEW j, NEW k
  PROVE  k \in Sources(j) <=> k = j \/ j \in Dependents(k)
  <1> DEFINE A(i) == k \in Additive[i].addends /\ Additive[i].key = j
             D(d) == k \in d.numerators \cup {d.denominator} /\ d.key = j
  <1>1. k \in Sources(j) <=> \/ k = j
                             \/ \E i \in DOMAIN Additive : A(i)
                             \/ \E d \in Derived : D(d)
    <2>1. k \in UNION {Additive[i].addends : i \in {c \in DOMAIN Additive : Additive[c].key = j}}
          <=> \E i \in DOMAIN Additive : A(i)
      OBVIOUS
    <2>2. k \in UNION {d.numerators \cup {d.denominator} : d \in {e \in Derived : e.key = j}}
          <=> \E d \in Derived : D(d)
      OBVIOUS
    <2> DEFINE X == {Additive[i].addends : i \in {c \in DOMAIN Additive : Additive[c].key = j}}
               Y == {d.numerators \cup {d.denominator} : d \in {e \in Derived : e.key = j}}
    <2>3. Sources(j) = {j} \cup UNION (X \cup Y)
      BY DEF Sources
    <2> HIDE DEF A, D, X, Y
    <2>4. k \in Sources(j) <=> k = j \/ k \in UNION X \/ k \in UNION Y
      BY <2>3
    <2> QED
      BY <2>1, <2>2, <2>4 DEF X, Y
  <1>2. j \in Dependents(k) <=> \/ \E i \in DOMAIN Additive : A(i)
                                \/ \E d \in Derived : D(d)
    <2>1. j \in {Additive[i].key : i \in {c \in DOMAIN Additive : k \in Additive[c].addends}}
          <=> \E i \in DOMAIN Additive : A(i)
      OBVIOUS
    <2>2. j \in {d.key : d \in {e \in Derived : k \in e.numerators \cup {e.denominator}}}
          <=> \E d \in Derived : D(d)
      OBVIOUS
    <2> HIDE DEF A, D
    <2> QED
      BY <2>1, <2>2 DEF Dependents
  <1> HIDE DEF A, D
  <1> QED
    BY <1>1, <1>2

LEMMA DependentsAreMetrics ==
  ASSUME NEW k
  PROVE  Dependents(k) \subseteq MetricKeys
  BY Zenon DEF Dependents, MetricKeys

LEMMA ClosingSpreads ==
  ASSUME NEW n \in Nat, NEW keys, NEW f, IsClosing(f, keys, n), NEW i \in 0..n, i < n,
         NEW k \in f[i], NEW j, k \in Sources(j)
  PROVE  j \in f[i + 1]
  <1>1. i + 1 \in 0..n /\ i + 1 # 0 /\ (i + 1) - 1 = i
    OBVIOUS
  <1>2. f[i + 1] = f[i] \cup UNION {Dependents(c) : c \in f[i]}
    BY <1>1 DEF IsClosing
  <1>3. k = j \/ j \in Dependents(k)
    BY SourceOrSelf
  <1> QED
    BY <1>2, <1>3

(* What a source rests on, a metric rests on.                              *)
LEMMA RestsFurther ==
  ASSUME NEW k, NEW j \in Dependents(k)
  PROVE  RestsOn(k) \subseteq RestsOn(j)
  <1>1. j \in MetricKeys /\ k \in Sources(j)
    BY DependentsAreMetrics, SourceOrSelf
  <1>2. UNION {Sources(s) : s \in RestsOn(j)} \subseteq RestsOn(j)
    BY <1>1, ScoringAssumption
  <1> SUFFICES ASSUME NEW a \in RestsOn(k) PROVE a \in RestsOn(j)
    OBVIOUS
  <1>3. PICK s \in UNION {Sources(t) : t \in Sources(k)} : a \in Sources(s)
    BY DEF RestsOn
  <1>4. s \in RestsOn(j)
    BY <1>1, Zenon DEF RestsOn
  <1> QED
    BY <1>2, <1>3, <1>4

(* A metric is withheld when one of those it rests on is.                  *)
LEMMA ClosureMeets ==
  ASSUME NEW keys, NEW j
  PROVE  j \in Closure(keys) <=> RestsOn(j) \cap keys # {}
  <1> DEFINE n == Cardinality(MetricKeys)
  <1>1. PICK f : IsClosing(f, keys, n) /\ Closure(keys) = f[n]
    BY ClosureMeans
  <1>2. n \in Nat /\ n >= 3
    BY MetricsAssumption, ScoringAssumption, FS_CardinalityType
  <1> HIDE DEF n
  <1>3. f[0] = keys
    BY <1>1, <1>2 DEF IsClosing
  <1>4. ASSUME NEW a \in keys, a \in RestsOn(j)
        PROVE  j \in f[n]
    <2>1. PICK t, s : t \in Sources(j) /\ s \in Sources(t) /\ a \in Sources(s)
      BY <1>4, Zenon DEF RestsOn
    <2>2. a \in f[0] /\ 0 \in 0..n /\ 0 < n
      BY <1>2, <1>3
    <2>3. s \in f[0 + 1]
      BY <1>1, <1>2, <2>1, <2>2, ClosingSpreads
    <2>4. 1 \in 0..n /\ 1 < n /\ s \in f[1]
      BY <1>2, <2>3
    <2>5. t \in f[1 + 1]
      BY <1>1, <1>2, <2>1, <2>4, ClosingSpreads
    <2>6. 2 \in 0..n /\ 2 < n /\ t \in f[2]
      BY <1>2, <2>5
    <2>7. j \in f[2 + 1]
      BY <1>1, <1>2, <2>1, <2>6, ClosingSpreads
    <2>8. 3 \in 0..n /\ j \in f[3]
      BY <1>2, <2>7
    <2> QED
      BY <1>1, <1>2, <2>8, ClosingGrows
  <1>5. ASSUME NEW i \in 0..n, NEW k \in f[i], RestsOn(k) \cap keys = {}
        PROVE  FALSE
    <2> DEFINE Fails == {m \in 0..n : \E c \in f[m] : RestsOn(c) \cap keys = {}}
    <2>1. PICK m \in Fails : \A l \in Fails : m <= l
      <3>1. Fails \subseteq Nat /\ Fails # {}
        BY <1>2, <1>5
      <3> HIDE DEF Fails
      <3> QED
        BY <3>1, LeastNatural
    <2>2. PICK c \in f[m] : RestsOn(c) \cap keys = {}
      OBVIOUS
    <2>3. m \in 0..n /\ m # 0
      <3>1. m # 0
        <4>1. c \in Sources(c)
          BY SourceOrSelf
        <4>2. c \in RestsOn(c)
          BY <4>1, Zenon DEF RestsOn
        <4> QED
          BY <1>3, <2>2, <4>2
      <3> QED
        BY <3>1
    <2>4. m - 1 \in 0..n /\ m - 1 \notin Fails
      <3>1. m - 1 \in 0..n /\ ~(m <= m - 1)
        BY <1>2, <2>3
      <3> HIDE DEF Fails
      <3> QED
        BY <2>1, <3>1
    <2>5. f[m] = f[m - 1] \cup UNION {Dependents(d) : d \in f[m - 1]}
      BY <1>1, <1>2, <2>3 DEF IsClosing
    <2>6. PICK d \in f[m - 1] : c = d \/ c \in Dependents(d)
      BY <2>2, <2>5
    <2>7. RestsOn(d) \cap keys # {}
      BY <2>4, <2>6
    <2>8. RestsOn(d) \subseteq RestsOn(c)
      BY <2>6, RestsFurther
    <2> QED
      BY <2>2, <2>7, <2>8
  <1>6. n \in 0..n
    BY <1>2
  <1> QED
    BY <1>1, <1>4, <1>5, <1>6

-----------------------------------------------------------------------------
(* Rows of metrics *)

LEMMA KeptKeys ==
  ASSUME NEW values
  PROVE  DOMAIN Kept(values) =
         {k \in DOMAIN Candidates(values) :
             RestsOn(k) \cap Implausible(Candidates(values)) = {}}
  <1> DEFINE all == Candidates(values)
             blocked == Closure(Implausible(all))
  <1>1. DOMAIN Kept(values) = DOMAIN all \ blocked
    BY DEF Kept
  <1>2. \A k : k \in blocked <=> RestsOn(k) \cap Implausible(all) # {}
    BY ClosureMeets
  <1> QED
    BY <1>1, <1>2

(* The metrics of a filing are what is kept of it.                         *)
LEMMA MetricsOfFiling ==
  ASSUME NEW values, NEW f \in Filings
  PROVE  {m.key : m \in {n \in Tables(values).metrics : n.company = f[1] /\ n.fy = f[2]}} =
         DOMAIN Kept(values[f].number)
  <1> DEFINE rows == Rows(values)
             Of(g) == LET kept == Kept(values[g].number) IN
                      {[company |-> g[1], fy |-> g[2], key |-> k, value |-> kept[k]] :
                          k \in DOMAIN kept}
  <1>1. Tables(values).metrics = {Materialized(r, rows) : r \in rows}
    BY DEF Tables
  <1>2. \A r : /\ Materialized(r, rows).company = r.company
                /\ Materialized(r, rows).fy = r.fy
                /\ Materialized(r, rows).key = r.key
    BY DEF Materialized
  <1>3. rows = UNION {Of(g) : g \in Filings}
    BY DEF Rows
  <1>4. ASSUME NEW g \in Filings, g[1] = f[1], g[2] = f[2]
        PROVE  g = f
    BY <1>4, MetricsAssumption
  <1>5. ASSUME NEW k \in DOMAIN Kept(values[f].number)
        PROVE  \E r \in rows : r.company = f[1] /\ r.fy = f[2] /\ r.key = k
    <2> DEFINE r == [company |-> f[1], fy |-> f[2], key |-> k,
                     value |-> Kept(values[f].number)[k]]
    <2>1. r \in Of(f)
      OBVIOUS
    <2> HIDE DEF Of
    <2>2. r \in rows
      BY <1>3, <2>1
    <2>3. r.company = f[1] /\ r.fy = f[2] /\ r.key = k
      OBVIOUS
    <2> HIDE DEF r, rows
    <2> QED
      BY <2>2, <2>3
  <1>6. ASSUME NEW r \in rows, r.company = f[1], r.fy = f[2]
        PROVE  r.key \in DOMAIN Kept(values[f].number)
    <2>1. PICK g \in Filings : r \in Of(g)
      <3> HIDE DEF Of
      <3> QED
        BY <1>3
    <2>2. PICK k \in DOMAIN Kept(values[g].number) :
               r = [company |-> g[1], fy |-> g[2], key |-> k,
                    value |-> Kept(values[g].number)[k]]
      BY <2>1
    <2>3. g = f /\ r.key = k
      BY <1>4, <1>6, <2>2
    <2> QED
      BY <2>2, <2>3
  <1> DEFINE ms == Tables(values).metrics
             keys == DOMAIN Kept(values[f].number)
  <1> HIDE DEF rows, keys
  <1>7. ASSUME NEW k \in keys
        PROVE  \E n \in ms : n.company = f[1] /\ n.fy = f[2] /\ n.key = k
    <2>1. PICK r \in rows : r.company = f[1] /\ r.fy = f[2] /\ r.key = k
      BY <1>5, <1>7 DEF keys
    <2>2. Materialized(r, rows) \in ms
      BY <1>1, <2>1
    <2> QED
      BY <1>2, <2>1, <2>2
  <1>8. ASSUME NEW n \in ms, n.company = f[1], n.fy = f[2]
        PROVE  n.key \in keys
    <2>1. PICK r \in rows : n = Materialized(r, rows)
      BY <1>1, <1>8
    <2> QED
      BY <1>2, <1>6, <1>8, <2>1 DEF keys
  <1>9. {m.key : m \in {n \in ms : n.company = f[1] /\ n.fy = f[2]}} = keys
    <2> HIDE DEF ms
    <2> QED
      BY <1>7, <1>8
  <1> QED
    BY <1>9 DEF keys

-----------------------------------------------------------------------------
(* Sums.  The order in which numbers are added makes no difference.        *)

IsSum(f, values, keys) ==
    f = [T \in SUBSET keys |->
            IF T = {} THEN 0
            ELSE values[CHOOSE x \in T : TRUE] + f[T \ {CHOOSE x \in T : TRUE}]]

Numbers(values, keys) == IsFiniteSet(keys) /\ \A k \in keys : values[k] \in Int

LEMMA SumMeans ==
  ASSUME NEW values, NEW keys
  PROVE  SumOf(values, keys) = (CHOOSE f : IsSum(f, values, keys))[keys]
  BY Zenon DEF SumOf, MapThenSumSet, MapThenFoldSet, IsSum

LEMMA SumsExist ==
  ASSUME NEW values, NEW keys, Numbers(values, keys)
  PROVE  \E f \in [SUBSET keys -> Int] : IsSum(f, values, keys)
  <1> DEFINE pick == [T \in SUBSET keys |-> CHOOSE x \in T : TRUE]
             step == [p \in keys \X Int |-> values[p[1]] + p[2]]
  <1>1. Picks(pick, keys)
    BY DEF Picks
  <1>2. step \in [keys \X Int -> Int] /\ 0 \in Int /\ IsFiniteSet(keys)
    <2>1. ASSUME NEW p \in keys \X Int PROVE values[p[1]] + p[2] \in Int
      <3>1. PICK a \in Int : a = values[p[1]]
        BY DEF Numbers
      <3> QED
        BY <3>1
    <2> QED
      BY <2>1 DEF Numbers
  <1>3. \A k \in keys, n \in Int : step[<<k, n>>] = values[k] + n
    OBVIOUS
  <1> HIDE DEF step
  <1>4. PICK f \in [SUBSET keys -> Int] : IsFold(f, keys, 0, pick, step)
    <2> HIDE DEF pick
    <2> QED
      BY <1>1, <1>2, FoldExists
  <1>5. ASSUME NEW T \in SUBSET keys
        PROVE  f[T] = IF T = {} THEN 0
                      ELSE values[CHOOSE x \in T : TRUE] + f[T \ {CHOOSE x \in T : TRUE}]
    <2>1. f[T] = IF T = {} THEN 0 ELSE step[<<pick[T], f[T \ {pick[T]}]>>]
      BY <1>4 DEF IsFold
    <2>2. pick[T] = CHOOSE x \in T : TRUE
      OBVIOUS
    <2>3. T # {} => pick[T] \in keys /\ f[T \ {pick[T]}] \in Int
      BY <1>1, <1>4 DEF Picks
    <2> HIDE DEF pick
    <2>4. T # {} => step[<<pick[T], f[T \ {pick[T]}]>>] = values[pick[T]] + f[T \ {pick[T]}]
      BY <1>3, <2>3
    <2> QED
      BY <2>1, <2>2, <2>4
  <1>6. IsSum(f, values, keys)
    <2>1. f = [T \in SUBSET keys |-> f[T]]
      BY <1>4
    <2> QED
      BY <1>5, <2>1, Zenon DEF IsSum
  <1> QED
    BY <1>4, <1>6

LEMMA SumsAgree ==
  ASSUME NEW values, NEW keys, IsFiniteSet(keys), NEW A \in SUBSET keys,
         NEW f, IsSum(f, values, keys), NEW g, IsSum(g, values, A), NEW U \in SUBSET A
  PROVE  f[U] = g[U]
  <1> DEFINE Fails == {T \in SUBSET A : f[T] # g[T]}
  <1> SUFFICES ASSUME Fails # {} PROVE FALSE
    OBVIOUS
  <1>1. PICK T \in Fails : \A R \in Fails : R \subseteq T => R = T
    <2>1. Fails \subseteq FiniteSubsetsOf(keys)
      BY FS_Subset DEF FiniteSubsetsOf
    <2> HIDE DEF Fails
    <2> QED
      BY <2>1, LeastFiniteSet
  <1> DEFINE x == CHOOSE k \in T : TRUE
  <1>2. T \in SUBSET A /\ T \in SUBSET keys /\ f[T] # g[T]
    OBVIOUS
  <1>3. /\ f[T] = IF T = {} THEN 0 ELSE values[x] + f[T \ {x}]
        /\ g[T] = IF T = {} THEN 0 ELSE values[x] + g[T \ {x}]
    BY <1>2 DEF IsSum
  <1>4. T # {} /\ x \in T
    BY <1>2, <1>3
  <1> HIDE DEF x
  <1>5. f[T \ {x}] = g[T \ {x}]
    <2>1. T \ {x} \notin Fails
      <3>1. T \ {x} \subseteq T /\ T \ {x} # T
        BY <1>4
      <3> HIDE DEF Fails
      <3> QED
        BY <1>1, <3>1
    <2> QED
      BY <2>1
  <1> QED
    BY <1>2, <1>3, <1>4, <1>5

(* One function gives the sums of all subsets.                             *)
LEMMA SumIs ==
  ASSUME NEW values, NEW keys, IsFiniteSet(keys), NEW f, IsSum(f, values, keys),
         NEW S \in SUBSET keys
  PROVE  SumOf(values, S) = f[S]
  <1> DEFINE h == [T \in SUBSET S |-> f[T]]
             some == CHOOSE g : IsSum(g, values, S)
  <1>1. ASSUME NEW T \in SUBSET S
        PROVE  h[T] = IF T = {} THEN 0
                      ELSE values[CHOOSE x \in T : TRUE] + h[T \ {CHOOSE x \in T : TRUE}]
    <2>1. f[T] = IF T = {} THEN 0
                 ELSE values[CHOOSE x \in T : TRUE] + f[T \ {CHOOSE x \in T : TRUE}]
      BY DEF IsSum
    <2>2. h[T] = f[T] /\ h[T \ {CHOOSE x \in T : TRUE}] = f[T \ {CHOOSE x \in T : TRUE}]
      OBVIOUS
    <2> HIDE DEF h
    <2> QED
      BY <2>1, <2>2
  <1>2. h = [T \in SUBSET S |-> h[T]]
    OBVIOUS
  <1>3. IsSum(h, values, S)
    <2> HIDE DEF h
    <2> QED
      BY <1>1, <1>2, Zenon DEF IsSum
  <1>4. IsSum(some, values, S)
    <2> HIDE DEF h
    <2> QED
      BY <1>3
  <1>5. f[S] = some[S]
    <2> HIDE DEF some
    <2> QED
      BY <1>4, SumsAgree
  <1> QED
    BY <1>5, SumMeans

LEMMA SumOfNone ==
  ASSUME NEW values
  PROVE  SumOf(values, {}) = 0
  <1>1. Numbers(values, {})
    BY FS_EmptySet DEF Numbers
  <1>2. PICK f \in [SUBSET {} -> Int] : IsSum(f, values, {})
    BY <1>1, SumsExist
  <1>3. f[{}] = 0
    BY <1>2 DEF IsSum
  <1> QED
    BY <1>1, <1>2, <1>3, SumIs DEF Numbers

LEMMA SumTyped ==
  ASSUME NEW values, NEW keys, Numbers(values, keys)
  PROVE  SumOf(values, keys) \in Int
  <1>1. PICK f \in [SUBSET keys -> Int] : IsSum(f, values, keys)
    BY SumsExist
  <1>2. IsFiniteSet(keys) /\ keys \in SUBSET keys
    BY DEF Numbers
  <1>3. SumOf(values, keys) = f[keys]
    BY <1>1, <1>2, SumIs
  <1> QED
    BY <1>1, <1>3

LEMMA FewerNumbers ==
  ASSUME NEW values, NEW keys, Numbers(values, keys), NEW S \in SUBSET keys
  PROVE  Numbers(values, S)
  BY FS_Subset DEF Numbers

(* A sum whose first number is the chosen one.                             *)
LEMMA SumFirst ==
  ASSUME NEW values, NEW keys, Numbers(values, keys), keys # {}
  PROVE  \E x \in keys : SumOf(values, keys) = values[x] + SumOf(values, keys \ {x})
  <1>1. PICK f \in [SUBSET keys -> Int] : IsSum(f, values, keys)
    BY SumsExist
  <1>2. IsFiniteSet(keys)
    BY DEF Numbers
  <1> DEFINE x == CHOOSE k \in keys : TRUE
  <1>3. x \in keys
    OBVIOUS
  <1>4. f[keys] = values[x] + f[keys \ {x}]
    BY <1>1 DEF IsSum
  <1> HIDE DEF x
  <1>5. SumOf(values, keys) = f[keys] /\ SumOf(values, keys \ {x}) = f[keys \ {x}]
    BY <1>1, <1>2, SumIs
  <1> QED
    BY <1>3, <1>4, <1>5

LEMMA SumAny ==
  ASSUME NEW values, NEW keys, Numbers(values, keys), NEW x \in keys
  PROVE  SumOf(values, keys) = values[x] + SumOf(values, keys \ {x})
  <1> DEFINE Right(S) == \A y \in S : SumOf(values, S) = values[y] + SumOf(values, S \ {y})
             Fails == {S \in SUBSET keys : ~Right(S)}
  <1> SUFFICES ASSUME Fails # {} PROVE FALSE
    <2>1. keys \notin Fails
      OBVIOUS
    <2> QED
      BY <2>1
  <1>1. PICK S \in Fails : \A R \in Fails : R \subseteq S => R = S
    <2>1. Fails \subseteq FiniteSubsetsOf(keys)
      BY FS_Subset DEF FiniteSubsetsOf, Numbers
    <2> HIDE DEF Fails
    <2> QED
      BY <2>1, LeastFiniteSet
  <1>2. S \in SUBSET keys /\ ~Right(S)
    OBVIOUS
  <1>3. \A R \in SUBSET S : R # S => Right(R)
    <2> SUFFICES ASSUME NEW R \in SUBSET S, R # S PROVE Right(R)
      OBVIOUS
    <2>1. R \notin Fails /\ R \in SUBSET keys
      <3> HIDE DEF Fails
      <3> QED
        BY <1>1, <1>2
    <2> HIDE DEF Right
    <2> QED
      BY <2>1
  <1>4. PICK y \in S : SumOf(values, S) # values[y] + SumOf(values, S \ {y})
    BY <1>2
  <1>5. PICK z \in S : SumOf(values, S) = values[z] + SumOf(values, S \ {z})
    BY <1>2, <1>4, FewerNumbers, SumFirst
  <1>6. y # z
    BY <1>4, <1>5
  <1> DEFINE R == S \ {y, z}
  <1>7. /\ (S \ {y}) \ {z} = R /\ (S \ {z}) \ {y} = R
        /\ z \in S \ {y} /\ y \in S \ {z}
        /\ S \ {y} \in SUBSET S /\ S \ {y} # S /\ S \ {z} \in SUBSET S /\ S \ {z} # S
    BY <1>6
  <1>8. SumOf(values, S \ {y}) = values[z] + SumOf(values, R)
    <2>1. Right(S \ {y})
      <3> HIDE DEF Right
      <3> QED
        BY <1>3, <1>7
    <2> QED
      BY <1>7, <2>1
  <1>9. SumOf(values, S \ {z}) = values[y] + SumOf(values, R)
    <2>1. Right(S \ {z})
      <3> HIDE DEF Right
      <3> QED
        BY <1>3, <1>7
    <2> QED
      BY <1>7, <2>1
  <1>10. PICK a \in Int : a = SumOf(values, R)
    BY <1>2, FewerNumbers, SumTyped
  <1>11. PICK v \in Int, w \in Int : v = values[y] /\ w = values[z]
    BY <1>2 DEF Numbers
  <1> QED
    BY <1>4, <1>5, <1>8, <1>9, <1>10, <1>11

(* More naturals make no smaller sum.                                      *)
LEMMA SumMore ==
  ASSUME NEW values, NEW keys, IsFiniteSet(keys), \A k \in keys : values[k] \in Nat,
         NEW S \in SUBSET keys
  PROVE  /\ SumOf(values, keys) \in Nat /\ SumOf(values, S) \in Nat
         /\ SumOf(values, S) <= SumOf(values, keys)
  <1>1. Numbers(values, keys)
    BY DEF Numbers
  <1> DEFINE Right(T) == \A R \in SUBSET T : /\ SumOf(values, T) \in Nat
                                             /\ SumOf(values, R) \in Nat
                                             /\ SumOf(values, R) <= SumOf(values, T)
             Fails == {T \in SUBSET keys : ~Right(T)}
  <1> SUFFICES ASSUME Fails # {} PROVE FALSE
    <2>1. Right(keys)
      <3> HIDE DEF Right
      <3> QED
        OBVIOUS
    <2> QED
      BY <2>1
  <1>2. PICK T \in Fails : \A R \in Fails : R \subseteq T => R = T
    <2>1. Fails \subseteq FiniteSubsetsOf(keys)
      BY FS_Subset DEF FiniteSubsetsOf
    <2> HIDE DEF Fails
    <2> QED
      BY <2>1, LeastFiniteSet
  <1>3. T \in SUBSET keys /\ ~Right(T)
    OBVIOUS
  <1>4. \A x \in T : Right(T \ {x})
    <2> SUFFICES ASSUME NEW x \in T PROVE Right(T \ {x})
      OBVIOUS
    <2>1. T \ {x} \notin Fails /\ T \ {x} \in SUBSET keys
      <3> HIDE DEF Fails
      <3> QED
        BY <1>2, <1>3
    <2> HIDE DEF Right
    <2> QED
      BY <2>1
  <1>5. \A x \in T : \E v \in Nat : /\ v = values[x]
                                    /\ SumOf(values, T) = v + SumOf(values, T \ {x})
    BY <1>1, <1>3, FewerNumbers, SumAny
  <1>6. SumOf(values, T) \in Nat
    <2>1. CASE T = {}
      BY <2>1, SumOfNone
    <2>2. ASSUME NEW x \in T PROVE SumOf(values, T) \in Nat
      <3>1. SumOf(values, T \ {x}) \in Nat
        BY <1>4
      <3> QED
        BY <1>5, <3>1
    <2> QED
      BY <2>1, <2>2
  <1>7. ASSUME NEW R \in SUBSET T
        PROVE  SumOf(values, R) \in Nat /\ SumOf(values, R) <= SumOf(values, T)
    <2>1. CASE R = T
      BY <1>6, <2>1
    <2>2. CASE R # T
      <3>1. PICK x \in T : R \in SUBSET (T \ {x})
        BY <2>2
      <3>2. /\ SumOf(values, T \ {x}) \in Nat /\ SumOf(values, R) \in Nat
            /\ SumOf(values, R) <= SumOf(values, T \ {x})
        BY <1>4, <3>1
      <3> QED
        BY <1>5, <3>2
    <2> QED
      BY <2>1, <2>2
  <1> QED
    BY <1>3, <1>6, <1>7

-----------------------------------------------------------------------------
(* Candidates *)

(* Numbers of some metrics.                                                *)
Told == UNION {[K -> Int] : K \in SUBSET MetricKeys}

LEMMA ToldMeans ==
  ASSUME NEW v \in Told
  PROVE  /\ DOMAIN v \subseteq MetricKeys /\ v = [k \in DOMAIN v |-> v[k]]
         /\ \A k \in DOMAIN v : v[k] \in Int
         /\ IsFiniteSet(DOMAIN v)
  <1>1. PICK K \in SUBSET MetricKeys : v \in [K -> Int]
    BY DEF Told
  <1>2. DOMAIN v = K
    BY <1>1
  <1> QED
    BY <1>1, <1>2, FS_Subset, MetricsAssumption

LEMMA ToldIs ==
  ASSUME NEW K \in SUBSET MetricKeys, NEW v, v \in [K -> Int]
  PROVE  v \in Told
  BY DEF Told

LEMMA SumOfTold ==
  ASSUME NEW v \in Told, NEW keys, Known(v, keys)
  PROVE  SumOf(v, keys) \in Int
  <1>1. Numbers(v, keys)
    BY ToldMeans, FS_Subset DEF Known, Numbers
  <1> QED
    BY <1>1, SumTyped

LEMMA AddTyped ==
  ASSUME NEW v \in Told, NEW i \in DOMAIN Additive
  PROVE  Add(v, Additive[i]) \in Told
  <1> DEFINE a == Additive[i]
             K == DOMAIN v \cup {a.key}
             w == [k \in K |-> IF k = a.key THEN SumOf(v, a.addends) ELSE v[k]]
  <1>1. CASE ~Known(v, a.addends)
    BY <1>1 DEF Add
  <1>2. CASE Known(v, a.addends)
    <2>1. a.key \in MetricKeys
      BY Zenon DEF MetricKeys
    <2>2. K \in SUBSET MetricKeys
      BY <2>1, ToldMeans
    <2>3. SumOf(v, a.addends) \in Int
      BY <1>2, SumOfTold
    <2>4. \A k \in DOMAIN v : v[k] \in Int
      BY ToldMeans
    <2> HIDE DEF a
    <2>5. w \in [K -> Int]
      BY <2>3, <2>4
    <2>6. Add(v, a) = w
      BY <1>2, Zenon DEF Add
    <2> HIDE DEF K, w
    <2> QED
      BY <2>2, <2>5, <2>6, ToldIs DEF a
  <1> QED
    BY <1>1, <1>2

LEMMA LastExists ==
  ASSUME NEW n \in Nat, NEW S \in SUBSET (1..n), S # {}
  PROVE  Max(S) \in S
  <1> DEFINE T == {n - i : i \in S}
  <1>1. T \subseteq Nat /\ T # {}
    <2>1. \A i \in S : n - i \in Nat
      OBVIOUS
    <2>2. T \subseteq Nat
      BY <2>1
    <2>3. PICK i \in S : TRUE
      OBVIOUS
    <2>4. n - i \in T
      OBVIOUS
    <2> QED
      BY <2>2, <2>4
  <1>2. PICK t \in T : \A u \in T : t <= u
    <2> HIDE DEF T
    <2> QED
      BY <1>1, LeastNatural
  <1>3. PICK i \in S : t = n - i
    OBVIOUS
  <1>4. \A j \in S : i >= j
    <2> SUFFICES ASSUME NEW j \in S PROVE i >= j
      OBVIOUS
    <2>1. n - i <= n - j
      BY <1>2, <1>3
    <2> QED
      BY <2>1
  <1> QED
    BY <1>4 DEF Max

(* The fold that WithAdditive is.                                          *)
IsAdding(f, values) ==
    f = [T \in SUBSET DOMAIN Additive |->
            IF T = {} THEN values ELSE Add(f[T \ {Max(T)}], Additive[Max(T)])]

LEMMA AddingMeans ==
  ASSUME NEW values
  PROVE  WithAdditive(values) = (CHOOSE f : IsAdding(f, values))[DOMAIN Additive]
  BY Zenon DEF WithAdditive, FoldLeft, MapThenFoldSet, IsAdding

LEMMA AddingTyped ==
  ASSUME NEW values \in Told
  PROVE  WithAdditive(values) \in Told
  <1> DEFINE S == DOMAIN Additive
             pick == [T \in SUBSET S |-> Max(T)]
             step == [p \in S \X Told |-> Add(p[2], Additive[p[1]])]
             some == CHOOSE f : IsAdding(f, values)
  <1>1. IsFiniteSet(S) /\ \A T \in SUBSET S : T # {} => Max(T) \in T
    <2>1. PICK n \in Nat : S = 1..n
      BY MetricsAssumption
    <2> HIDE DEF S
    <2>2. IsFiniteSet(S)
      BY <2>1, FS_Interval
    <2>3. \A T \in SUBSET (1..n) : T # {} => Max(T) \in T
      BY LastExists
    <2> QED
      BY <2>1, <2>2, <2>3
  <1>2. Picks(pick, S)
    BY <1>1 DEF Picks
  <1>3. step \in [S \X Told -> Told]
    BY AddTyped
  <1>4. \A i \in S, v \in Told : step[<<i, v>>] = Add(v, Additive[i])
    OBVIOUS
  <1> HIDE DEF step
  <1>5. PICK f \in [SUBSET S -> Told] : IsFold(f, S, values, pick, step)
    <2> HIDE DEF pick, S
    <2> QED
      BY <1>1, <1>2, <1>3, FoldExists
  <1>6. ASSUME NEW T \in SUBSET S
        PROVE  f[T] = IF T = {} THEN values ELSE Add(f[T \ {Max(T)}], Additive[Max(T)])
    <2>1. f[T] = IF T = {} THEN values ELSE step[<<pick[T], f[T \ {pick[T]}]>>]
      BY <1>5 DEF IsFold
    <2>2. pick[T] = Max(T)
      OBVIOUS
    <2>3. T # {} => pick[T] \in S /\ f[T \ {pick[T]}] \in Told
      BY <1>2, <1>5 DEF Picks
    <2> HIDE DEF pick
    <2>4. T # {} => step[<<pick[T], f[T \ {pick[T]}]>>]
                    = Add(f[T \ {pick[T]}], Additive[pick[T]])
      BY <1>4, <2>3
    <2> QED
      BY <2>1, <2>2, <2>4
  <1>7. IsAdding(f, values)
    <2>1. f = [T \in SUBSET S |-> f[T]]
      BY <1>5
    <2> QED
      BY <1>6, <2>1, Zenon DEF IsAdding
  <1>8. IsAdding(some, values)
    BY <1>7
  <1> HIDE DEF some
  <1> DEFINE Fails == {T \in SUBSET S : f[T] # some[T]}
  <1>9. ASSUME Fails # {} PROVE FALSE
    <2>1. PICK T \in Fails : \A R \in Fails : R \subseteq T => R = T
      <3>1. Fails \subseteq FiniteSubsetsOf(S)
        BY <1>1, FS_Subset DEF FiniteSubsetsOf
      <3> HIDE DEF Fails, S
      <3> QED
        BY <1>9, <3>1, LeastFiniteSet
    <2>2. T \in SUBSET S /\ f[T] # some[T]
      OBVIOUS
    <2>3. some[T] = IF T = {} THEN values ELSE Add(some[T \ {Max(T)}], Additive[Max(T)])
      BY <1>8, <2>2 DEF IsAdding
    <2>4. T # {}
      BY <1>6, <2>2, <2>3
    <2>5. T \ {Max(T)} \notin Fails
      <3>1. T \ {Max(T)} \subseteq T /\ T \ {Max(T)} # T
        BY <1>1, <2>2, <2>4
      <3> HIDE DEF Fails
      <3> QED
        BY <2>1, <3>1
    <2>6. f[T \ {Max(T)}] = some[T \ {Max(T)}]
      BY <2>2, <2>5
    <2> QED
      BY <1>6, <2>2, <2>3, <2>4, <2>6
  <1>10. f[S] = some[S] /\ f[S] \in Told
    BY <1>5, <1>9
  <1> QED
    BY <1>10, AddingMeans DEF some

LEMMA QuotientTyped ==
  ASSUME NEW n \in Int, NEW d \in Int, d # 0
  PROVE  Quotient(n, d) \in Int
  <1>1. CASE d < 0
    <2>1. -n \in Int /\ -d \in Nat /\ -d > 0
      BY <1>1
    <2>2. (-n) \div (-d) \in Int
      BY <2>1
    <2> QED
      BY <1>1, <2>2 DEF Quotient
  <1>2. CASE d > 0
    BY <1>2 DEF Quotient
  <1> QED
    BY <1>1, <1>2

LEMMA CandidatesTyped ==
  ASSUME NEW values \in Told
  PROVE  Candidates(values) \in Told
  <1> DEFINE base == WithAdditive(values)
             derived == Computable(base)
             Of(k) == CHOOSE d \in derived : d.key = k
             K == DOMAIN base \cup {d.key : d \in derived}
             Value(k) == IF k \in DOMAIN base THEN base[k]
                         ELSE Quotient(SumOf(base, Of(k).numerators) * Scale,
                                       base[Of(k).denominator])
  <1>1. base \in Told
    BY AddingTyped
  <1>2. Candidates(values) = [k \in K |-> Value(k)]
    BY Zenon DEF Candidates
  <1> HIDE DEF base
  <1>3. \A d \in derived : /\ d \in Derived
                           /\ Known(base, d.numerators \cup {d.denominator})
                           /\ base[d.denominator] # 0
    BY DEF Computable
  <1> HIDE DEF derived
  <1>4. K \in SUBSET MetricKeys
    <2>1. \A d \in derived : d.key \in MetricKeys
      BY <1>3 DEF MetricKeys
    <2> QED
      BY <1>1, <2>1, ToldMeans
  <1>5. ASSUME NEW k \in K PROVE Value(k) \in Int
    <2>1. CASE k \in DOMAIN base
      BY <1>1, <2>1, ToldMeans
    <2>2. CASE k \notin DOMAIN base
      <3>1. Of(k) \in derived
        BY <2>2
      <3> DEFINE d == Of(k)
      <3>2. d \in derived
        BY <3>1
      <3>3. Value(k) = Quotient(SumOf(base, d.numerators) * Scale, base[d.denominator])
        BY <2>2
      <3> HIDE DEF d, Value
      <3>4. Known(base, d.numerators) /\ base[d.denominator] \in Int /\ base[d.denominator] # 0
        BY <1>1, <1>3, <3>2, ToldMeans DEF Known
      <3>5. PICK m \in Int : m = SumOf(base, d.numerators)
        BY <1>1, <3>4, SumOfTold
      <3>6. m * Scale \in Int
        BY MetricsAssumption
      <3> QED
        BY <3>3, <3>4, <3>5, <3>6, QuotientTyped
    <2> QED
      BY <2>1, <2>2
  <1> HIDE DEF Value, K
  <1>6. [k \in K |-> Value(k)] \in [K -> Int]
    BY <1>5
  <1> QED
    BY <1>2, <1>4, <1>6, ToldIs

LEMMA KeptTyped ==
  ASSUME NEW values \in Told
  PROVE  \A k \in DOMAIN Kept(values) : Kept(values)[k] \in Int
  <1>1. \A k \in DOMAIN Candidates(values) : Candidates(values)[k] \in Int
    BY CandidatesTyped, ToldMeans
  <1> QED
    BY <1>1 DEF Kept

-----------------------------------------------------------------------------
(* Rounding *)

LEMMA RoundMeans ==
  ASSUME NEW n \in Nat, NEW d \in Nat \ {0}
  PROVE  \E q \in Nat : /\ RoundHalfEven(n, d) = q
                        /\ 2 * (d * q) - d <= 2 * n
                        /\ 2 * n <= 2 * (d * q) + d
  <1> DEFINE q == n \div d
             r == n % d
  <1>1. q \in Nat /\ r \in Nat /\ r < d /\ n = d * q + r
    OBVIOUS
  <1>2. d * (q + 1) = d * q + d
    BY <1>1
  <1>3. PICK m \in Nat : m = d * q
    BY <1>1
  <1>4. RoundHalfEven(n, d) = IF 2 * r > d \/ (2 * r = d /\ q % 2 = 1) THEN q + 1 ELSE q
    BY Zenon DEF RoundHalfEven
  <1> HIDE DEF q, r
  <1>5. CASE 2 * r > d \/ (2 * r = d /\ q % 2 = 1)
    <2>1. RoundHalfEven(n, d) = q + 1
      BY <1>4, <1>5
    <2>2. 2 * (d * (q + 1)) - d <= 2 * n /\ 2 * n <= 2 * (d * (q + 1)) + d
      <3>1. d * (q + 1) = m + d /\ n = m + r
        BY <1>1, <1>2, <1>3
      <3>2. 2 * (m + d) - d <= 2 * (m + r) /\ 2 * (m + r) <= 2 * (m + d) + d
        BY <1>1, <1>3, <1>5
      <3> QED
        BY <3>1, <3>2
    <2> QED
      BY <1>1, <2>1, <2>2
  <1>6. CASE ~(2 * r > d \/ (2 * r = d /\ q % 2 = 1))
    <2>1. RoundHalfEven(n, d) = q
      BY <1>4, <1>6
    <2>2. 2 * (d * q) - d <= 2 * n /\ 2 * n <= 2 * (d * q) + d
      <3>1. 2 * m - d <= 2 * (m + r) /\ 2 * (m + r) <= 2 * m + d
        BY <1>1, <1>3, <1>6
      <3> QED
        BY <1>1, <1>3, <3>1
    <2> QED
      BY <1>1, <2>1, <2>2
  <1> QED
    BY <1>5, <1>6

(* What is a number of wholes stays, and what is no more rounds to no more. *)
LEMMA RoundExact ==
  ASSUME NEW m \in Nat, NEW d \in Nat \ {0}
  PROVE  RoundHalfEven(d * m, d) = m
  <1>1. d * m \in Nat
    OBVIOUS
  <1>2. PICK q \in Nat : /\ RoundHalfEven(d * m, d) = q
                         /\ 2 * (d * q) - d <= 2 * (d * m)
                         /\ 2 * (d * m) <= 2 * (d * q) + d
    BY <1>1, RoundMeans
  <1>3. CASE q < m
    <2>1. d * m >= d * (q + 1) /\ d * (q + 1) = d * q + d
      BY <1>3
    <2> QED
      BY <1>1, <1>2, <2>1
  <1>4. CASE m < q
    <2>1. d * q >= d * (m + 1) /\ d * (m + 1) = d * m + d
      BY <1>4
    <2> QED
      BY <1>1, <1>2, <2>1
  <1> QED
    BY <1>2, <1>3, <1>4

LEMMA RoundBounded ==
  ASSUME NEW n \in Nat, NEW d \in Nat \ {0}, NEW m \in Nat, n <= d * m
  PROVE  RoundHalfEven(n, d) \in 0..m
  <1>1. PICK q \in Nat : /\ RoundHalfEven(n, d) = q
                         /\ 2 * (d * q) - d <= 2 * n
                         /\ 2 * n <= 2 * (d * q) + d
    BY RoundMeans
  <1>2. CASE m < q
    <2>1. d * q >= d * (m + 1) /\ d * (m + 1) = d * m + d
      BY <1>2
    <2> QED
      BY <1>1, <2>1
  <1> QED
    BY <1>1, <1>2

(* More than a whole more rounds to more.                                  *)
LEMMA RoundMore ==
  ASSUME NEW n \in Nat, NEW d \in Nat \ {0}, NEW m \in Nat, n + d < m
  PROVE  RoundHalfEven(n, d) < RoundHalfEven(m, d)
  <1>1. PICK q \in Nat : /\ RoundHalfEven(n, d) = q
                         /\ 2 * (d * q) - d <= 2 * n
    BY RoundMeans
  <1>2. PICK p \in Nat : /\ RoundHalfEven(m, d) = p
                         /\ 2 * m <= 2 * (d * p) + d
    BY RoundMeans
  <1>3. d * q < d * p
    BY <1>1, <1>2
  <1>4. CASE p <= q
    <2>1. d * p <= d * q
      BY <1>4
    <2> QED
      BY <1>3, <2>1
  <1> QED
    BY <1>1, <1>2, <1>4

-----------------------------------------------------------------------------
(* Percentiles *)

LEMMA FullPositive == Full \in Nat /\ Full > 0
  BY DEF Full

Below(value, cohort) == {r \in cohort : r.value < value}
Equal(value, cohort) == {r \in cohort : r.value = value}

(* The mean rank, twice.                                                   *)
Rank(value, cohort) ==
    2 * Cardinality(Below(value, cohort)) + Cardinality(Equal(value, cohort)) - 1

Comparable(cohort) == IsFiniteSet(cohort) /\ \A r \in cohort : r.value \in Int

LEMMA PercentileMeans ==
  ASSUME NEW cohort, NEW value
  PROVE  Percentile(value, cohort) =
         IF Cardinality(cohort) <= 1 THEN Full
         ELSE RoundHalfEven(Full * Rank(value, cohort), 2 * (Cardinality(cohort) - 1))
  BY Zenon DEF Percentile, Rank, Below, Equal

LEMMA RankBounds ==
  ASSUME NEW cohort, Comparable(cohort), NEW r \in cohort
  PROVE  \E b \in Nat, e \in Nat, n \in Nat :
            /\ b = Cardinality(Below(r.value, cohort))
            /\ e = Cardinality(Equal(r.value, cohort))
            /\ n = Cardinality(cohort)
            /\ e >= 1 /\ b + e <= n
            /\ Rank(r.value, cohort) = 2 * b + e - 1
  <1> DEFINE B == Below(r.value, cohort)
             E == Equal(r.value, cohort)
  <1>1. /\ IsFiniteSet(cohort) /\ B \cup E \in SUBSET cohort /\ B \in SUBSET cohort
        /\ E \in SUBSET cohort /\ r \in E /\ B \cap E = {}
    BY DEF Comparable, Below, Equal
  <1>2. Rank(r.value, cohort) = 2 * Cardinality(B) + Cardinality(E) - 1
    BY DEF Rank
  <1> HIDE DEF B, E
  <1>3. IsFiniteSet(B) /\ IsFiniteSet(E) /\ Cardinality(B \cup E) <= Cardinality(cohort)
    BY <1>1, FS_Subset
  <1>4. Cardinality(B \cup E) = Cardinality(B) + Cardinality(E) - 0
    BY <1>1, <1>3, FS_Union, FS_EmptySet
  <1>5. Cardinality(B) \in Nat /\ Cardinality(E) \in Nat /\ Cardinality(cohort) \in Nat
    BY <1>1, <1>3, FS_CardinalityType
  <1>6. Cardinality(E) # 0
    BY <1>1, <1>3, FS_EmptySet
  <1>7. Cardinality(E) >= 1 /\ Cardinality(B) + Cardinality(E) <= Cardinality(cohort)
    BY <1>3, <1>4, <1>5, <1>6
  <1> QED
    BY <1>2, <1>5, <1>7 DEF B, E

LEMMA RanksOrder ==
  ASSUME NEW cohort, Comparable(cohort), NEW r \in cohort, NEW s \in cohort, r.value < s.value
  PROVE  /\ Rank(r.value, cohort) \in Nat /\ Rank(s.value, cohort) \in Nat
         /\ Rank(r.value, cohort) + 2 <= Rank(s.value, cohort)
         /\ Cardinality(cohort) > 1
  <1>1. PICK b \in Nat, e \in Nat, n \in Nat :
            /\ b = Cardinality(Below(r.value, cohort))
            /\ e = Cardinality(Equal(r.value, cohort))
            /\ n = Cardinality(cohort)
            /\ e >= 1 /\ b + e <= n
            /\ Rank(r.value, cohort) = 2 * b + e - 1
    BY RankBounds
  <1>2. PICK c \in Nat, f \in Nat, m \in Nat :
            /\ c = Cardinality(Below(s.value, cohort))
            /\ f = Cardinality(Equal(s.value, cohort))
            /\ m = Cardinality(cohort)
            /\ f >= 1 /\ c + f <= m
            /\ Rank(s.value, cohort) = 2 * c + f - 1
    BY RankBounds
  <1> DEFINE B == Below(r.value, cohort)
             E == Equal(r.value, cohort)
             C == Below(s.value, cohort)
  <1>3. /\ IsFiniteSet(cohort) /\ B \in SUBSET cohort /\ E \in SUBSET cohort
        /\ C \in SUBSET cohort /\ B \cap E = {}
    BY DEF Comparable, Below, Equal
  <1>4. B \cup E \in SUBSET C
    BY DEF Comparable, Below, Equal
  <1> HIDE DEF B, E, C
  <1>5. IsFiniteSet(B) /\ IsFiniteSet(E) /\ IsFiniteSet(C)
    BY <1>3, FS_Subset
  <1>6. Cardinality(B \cup E) = Cardinality(B) + Cardinality(E) - 0
    BY <1>3, <1>5, FS_Union, FS_EmptySet
  <1>7. Cardinality(B \cup E) <= Cardinality(C)
    BY <1>4, <1>5, FS_Subset
  <1>8. b + e <= c
    BY <1>1, <1>2, <1>6, <1>7 DEF B, E, C
  <1> QED
    BY <1>1, <1>2, <1>8

LEMMA PercentileTyped ==
  ASSUME NEW cohort, Comparable(cohort), NEW r \in cohort
  PROVE  Percentile(r.value, cohort) \in 0..Full
  <1>1. PICK b \in Nat, e \in Nat, n \in Nat :
            /\ n = Cardinality(cohort)
            /\ e >= 1 /\ b + e <= n
            /\ Rank(r.value, cohort) = 2 * b + e - 1
    BY RankBounds
  <1>2. CASE n <= 1
    BY <1>1, <1>2, PercentileMeans, FullPositive
  <1>3. CASE n > 1
    <2>1. PICK k \in Nat : k = 2 * b + e - 1 /\ k <= 2 * (n - 1)
      BY <1>1, <1>3
    <2>2. PICK d \in Nat \ {0} : d = 2 * (n - 1)
      BY <1>3
    <2>3. Full * k \in Nat /\ Full * k <= d * Full
      BY <2>1, <2>2, FullPositive
    <2>4. Percentile(r.value, cohort) = RoundHalfEven(Full * k, d)
      BY <1>1, <1>3, <2>1, <2>2, PercentileMeans
    <2> QED
      BY <2>3, <2>4, RoundBounded, FullPositive
  <1> QED
    BY <1>1, <1>2, <1>3

(* Among no more than a million rows a higher value has a higher           *)
(* percentile, whatever rounding does.                                     *)
LEMMA PercentilesAscend ==
  ASSUME NEW cohort, Comparable(cohort), Cardinality(cohort) <= Full,
         NEW r \in cohort, NEW s \in cohort, r.value < s.value
  PROVE  Percentile(r.value, cohort) < Percentile(s.value, cohort)
  <1>1. PICK j \in Nat, k \in Nat : /\ j = Rank(r.value, cohort) /\ k = Rank(s.value, cohort)
                                    /\ j + 2 <= k /\ Cardinality(cohort) > 1
    BY RanksOrder
  <1>2. PICK n \in Nat : n = Cardinality(cohort)
    BY FS_CardinalityType DEF Comparable
  <1>3. PICK d \in Nat \ {0} : d = 2 * (n - 1) /\ d < 2 * Full
    BY <1>1, <1>2 DEF Full
  <1>4. Full * j \in Nat /\ Full * k \in Nat /\ Full * j + d < Full * k
    BY <1>1, <1>3, FullPositive
  <1>5. /\ Percentile(r.value, cohort) = RoundHalfEven(Full * j, d)
        /\ Percentile(s.value, cohort) = RoundHalfEven(Full * k, d)
    BY <1>1, <1>2, <1>3, PercentileMeans
  <1> QED
    BY <1>4, <1>5, RoundMore

LEMMA PercentilesOrder ==
  ASSUME NEW cohort, Comparable(cohort), Cardinality(cohort) <= Full,
         NEW r \in cohort, NEW s \in cohort
  PROVE  r.value < s.value <=> Percentile(r.value, cohort) < Percentile(s.value, cohort)
  <1>1. r.value \in Int /\ s.value \in Int
    BY DEF Comparable
  <1>2. CASE r.value = s.value
    <2>1. Percentile(r.value, cohort) = Percentile(s.value, cohort)
      BY <1>2
    <2>2. Percentile(s.value, cohort) \in 0..Full
      BY PercentileTyped
    <2> QED
      BY <1>1, <1>2, <2>1, <2>2, FullPositive
  <1>3. CASE s.value < r.value
    <2>1. Percentile(s.value, cohort) < Percentile(r.value, cohort)
      BY <1>3, PercentilesAscend
    <2>2. Percentile(s.value, cohort) \in 0..Full /\ Percentile(r.value, cohort) \in 0..Full
      BY PercentileTyped
    <2> QED
      BY <1>1, <1>3, <2>1, <2>2, FullPositive
  <1> QED
    BY <1>1, <1>2, <1>3, PercentilesAscend

LEMMA LowestIsZero ==
  ASSUME NEW cohort, Comparable(cohort), NEW r \in cohort, cohort # {r},
         \A s \in cohort \ {r} : s.value > r.value
  PROVE  Percentile(r.value, cohort) = 0
  <1>1. Below(r.value, cohort) = {} /\ Equal(r.value, cohort) = {r}
    BY DEF Below, Equal, Comparable
  <1>2. Rank(r.value, cohort) = 0
    <2>1. /\ Cardinality(Below(r.value, cohort)) = 0
          /\ Cardinality(Equal(r.value, cohort)) = 1
      BY <1>1, FS_EmptySet, FS_Singleton
    <2> QED
      BY <2>1 DEF Rank
  <1>3. PICK s \in cohort : s # r
    OBVIOUS
  <1>4. PICK n \in Nat : n = Cardinality(cohort) /\ n > 1
    <2>1. r.value < s.value
      BY <1>3 DEF Comparable
    <2>2. Cardinality(cohort) > 1
      BY <2>1, RanksOrder
    <2> QED
      BY <2>2, FS_CardinalityType DEF Comparable
  <1>5. PICK d \in Nat \ {0} : d = 2 * (n - 1)
    BY <1>4
  <1>6. Percentile(r.value, cohort) = RoundHalfEven(d * 0, d)
    <2>1. Full * 0 = d * 0
      BY <1>5, FullPositive
    <2> QED
      BY <1>2, <1>4, <1>5, <2>1, PercentileMeans
  <1> QED
    BY <1>6, RoundExact

LEMMA HighestIsHundred ==
  ASSUME NEW cohort, Comparable(cohort), NEW r \in cohort,
         \A s \in cohort \ {r} : s.value < r.value
  PROVE  Percentile(r.value, cohort) = Full
  <1>1. Below(r.value, cohort) = cohort \ {r} /\ Equal(r.value, cohort) = {r}
    BY DEF Below, Equal, Comparable
  <1>2. PICK n \in Nat : n = Cardinality(cohort) /\ Cardinality(cohort \ {r}) = n - 1
    BY FS_RemoveElement, FS_CardinalityType DEF Comparable
  <1>3. CASE n <= 1
    BY <1>2, <1>3, PercentileMeans
  <1>4. CASE n > 1
    <2>1. Rank(r.value, cohort) = 2 * (n - 1)
      <3>1. /\ Cardinality(Below(r.value, cohort)) = n - 1
            /\ Cardinality(Equal(r.value, cohort)) = 1
        BY <1>1, <1>2, FS_Singleton
      <3> QED
        BY <3>1 DEF Rank
    <2>2. PICK d \in Nat \ {0} : d = 2 * (n - 1)
      BY <1>4
    <2>3. Percentile(r.value, cohort) = RoundHalfEven(d * Full, d)
      <3>1. Full * (2 * (n - 1)) = d * Full
        BY <2>2, FullPositive
      <3> QED
        BY <1>2, <1>4, <2>1, <2>2, <3>1, PercentileMeans
    <2> QED
      BY <2>3, RoundExact, FullPositive
  <1> QED
    BY <1>2, <1>3, <1>4

-----------------------------------------------------------------------------
(* Rows that are compared *)

Sound(values) == \A f \in Filings : IsPinned(values[f])

LEMMA NumbersTold ==
  ASSUME NEW values, Sound(values), NEW f \in Filings
  PROVE  values[f].number \in Told
  <1>1. /\ DOMAIN values[f].number \in SUBSET MetricKeys
        /\ values[f].number \in [DOMAIN values[f].number -> Int]
    BY Zenon DEF Sound, IsPinned, MetricKeys
  <1> QED
    BY <1>1, ToldIs

RowOf(values, f, k) ==
    [company |-> f[1], fy |-> f[2], key |-> k, value |-> Kept(values[f].number)[k]]

LEMMA RowMeans ==
  ASSUME NEW values, NEW r \in Rows(values)
  PROVE  \E f \in Filings : \E k \in DOMAIN Kept(values[f].number) : r = RowOf(values, f, k)
  BY Zenon DEF Rows, RowOf

LEMMA RowTyped ==
  ASSUME NEW values, Sound(values), NEW r \in Rows(values)
  PROVE  r.company \in DOMAIN Sector /\ r.value \in Int
  <1>1. PICK f \in Filings : \E k \in DOMAIN Kept(values[f].number) : r = RowOf(values, f, k)
    BY RowMeans
  <1>2. PICK k \in DOMAIN Kept(values[f].number) : r = RowOf(values, f, k)
    BY <1>1
  <1>3. Kept(values[f].number)[k] \in Int
    BY <1>2, NumbersTold, KeptTyped
  <1>4. f[1] \in DOMAIN Sector
    BY MetricsAssumption
  <1>5. r.company = f[1] /\ r.value = Kept(values[f].number)[k]
    BY <1>2 DEF RowOf
  <1> QED
    BY <1>3, <1>4, <1>5

LEMMA RowsUnique ==
  ASSUME NEW values, NEW r \in Rows(values), NEW s \in Rows(values),
         r.company = s.company, r.fy = s.fy, r.key = s.key
  PROVE  r = s
  <1>1. PICK f \in Filings : \E k \in DOMAIN Kept(values[f].number) : r = RowOf(values, f, k)
    BY RowMeans
  <1>2. PICK k \in DOMAIN Kept(values[f].number) : r = RowOf(values, f, k)
    BY <1>1
  <1>3. PICK g \in Filings : \E l \in DOMAIN Kept(values[g].number) : s = RowOf(values, g, l)
    BY RowMeans
  <1>4. PICK l \in DOMAIN Kept(values[g].number) : s = RowOf(values, g, l)
    BY <1>3
  <1>5. k = l /\ f[1] = g[1] /\ f[2] = g[2]
    BY <1>2, <1>4 DEF RowOf
  <1>6. f = g
    BY <1>5, MetricsAssumption
  <1> QED
    BY <1>2, <1>4, <1>5, <1>6

Cohort(r, rows) == {s \in rows : s.fy = r.fy /\ s.key = r.key}
SectorCohort(r, rows) == {s \in Cohort(r, rows) : Sector[s.company] = Sector[r.company]}
Earlier(r, rows) ==
    {s \in rows : s.company = r.company /\ s.key = r.key /\ s.fy = r.fy - 1}

LEMMA CohortMeans ==
  ASSUME NEW values, Sound(values), NEW r \in Rows(values),
         NEW C \in SUBSET Cohort(r, Rows(values))
  PROVE  Comparable(C) /\ Cardinality(C) <= Cardinality(DOMAIN Sector)
  <1> DEFINE f == [s \in C |-> s.company]
  <1>1. \A s \in C : s \in Rows(values) /\ s.fy = r.fy /\ s.key = r.key
    BY DEF Cohort
  <1>2. \A s \in C : s.company \in DOMAIN Sector /\ s.value \in Int
    BY <1>1, RowTyped
  <1>3. \A s, t \in C : s.company = t.company => s = t
    BY <1>1, RowsUnique
  <1>4. f \in Injection(C, DOMAIN Sector)
    <2>1. f \in [C -> DOMAIN Sector] /\ \A s \in C : f[s] = s.company
      BY <1>2
    <2>2. \A s, t \in C : f[s] = f[t] => s = t
      BY <1>3, <2>1
    <2> HIDE DEF f
    <2>3. DOMAIN f = C
      BY <2>1
    <2> QED
      BY <2>1, <2>2, <2>3 DEF Injection, IsInjective
  <1>5. IsFiniteSet(C) /\ Cardinality(C) <= Cardinality(DOMAIN Sector)
    <2>1. IsFiniteSet(DOMAIN Sector)
      BY MetricsAssumption
    <2> HIDE DEF f
    <2> QED
      BY <1>4, <2>1, FS_Injection
  <1> QED
    BY <1>2, <1>5 DEF Comparable

LEMMA MaterializedMeans ==
  ASSUME NEW r, NEW rows
  PROVE  LET m == Materialized(r, rows) IN
         /\ m.company = r.company /\ m.fy = r.fy /\ m.key = r.key /\ m.value = r.value
         /\ m.all = Percentile(r.value, Cohort(r, rows))
         /\ m.sector = IF Cardinality(SectorCohort(r, rows)) >= MinimumSectorSize
                       THEN {Percentile(r.value, SectorCohort(r, rows))} ELSE {}
         /\ m.yoy = {r.value - s.value : s \in Earlier(r, rows)}
  <1>1. Materialized(r, rows) =
           [company |-> r.company, fy |-> r.fy, key |-> r.key, value |-> r.value,
            sector |-> IF Cardinality(SectorCohort(r, rows)) >= MinimumSectorSize
                       THEN {Percentile(r.value, SectorCohort(r, rows))} ELSE {},
            all |-> Percentile(r.value, Cohort(r, rows)),
            yoy |-> {r.value - s.value : s \in Earlier(r, rows)}]
    BY Zenon DEF Materialized, Cohort, SectorCohort, Earlier
  <1> QED
    BY <1>1

LEMMA MetricIsRow ==
  ASSUME NEW values
  PROVE  /\ \A r \in Rows(values) : Materialized(r, Rows(values)) \in Tables(values).metrics
         /\ \A m \in Tables(values).metrics :
               \E r \in Rows(values) : m = Materialized(r, Rows(values))
  <1>1. Tables(values).metrics = {Materialized(r, Rows(values)) : r \in Rows(values)}
    BY DEF Tables
  <1> QED
    BY <1>1

(* A metric is of the company, year and key of its row.                    *)
LEMMA MaterializedKey ==
  ASSUME NEW r, NEW rows
  PROVE  /\ Materialized(r, rows).company = r.company
         /\ Materialized(r, rows).fy = r.fy
         /\ Materialized(r, rows).key = r.key
  BY Zenon, MaterializedMeans

(* Materialising is one to one.                                            *)
LEMMA MaterializedOnce ==
  ASSUME NEW values, NEW r \in Rows(values), NEW s \in Rows(values),
         Materialized(r, Rows(values)) = Materialized(s, Rows(values))
  PROVE  r = s
  <1> DEFINE Mat(q) == Materialized(q, Rows(values))
  <1>1. \A q : Mat(q).company = q.company /\ Mat(q).fy = q.fy /\ Mat(q).key = q.key
    BY MaterializedKey, Zenon
  <1>2. Mat(r) = Mat(s)
    OBVIOUS
  <1> HIDE DEF Mat
  <1>3. r.company = s.company /\ r.fy = s.fy /\ r.key = s.key
    BY <1>1, <1>2
  <1> QED
    BY <1>3, RowsUnique

LEMMA MetricsUnique ==
  ASSUME NEW values, NEW a \in Tables(values).metrics, NEW b \in Tables(values).metrics,
         a.company = b.company, a.fy = b.fy, a.key = b.key
  PROVE  a = b
  <1>1. PICK r \in Rows(values), s \in Rows(values) :
             a = Materialized(r, Rows(values)) /\ b = Materialized(s, Rows(values))
    BY MetricIsRow
  <1>2. r.company = s.company /\ r.fy = s.fy /\ r.key = s.key
    BY <1>1, MaterializedKey, Zenon
  <1> QED
    BY <1>1, <1>2, RowsUnique

(* The metrics a metric is compared with are those of the rows its row is  *)
(* compared with.                                                          *)
LEMMA CohortsMatch ==
  ASSUME NEW values, NEW r \in Rows(values), NEW a, a = Materialized(r, Rows(values))
  PROVE  LET R == Rows(values)
             M == Tables(values).metrics
         IN
         /\ \A s \in Cohort(r, R) : /\ Materialized(s, R) \in Cohort(a, M)
                                    /\ Cohort(s, R) = Cohort(r, R)
         /\ \A b \in Cohort(a, M) : \E s \in Cohort(r, R) : b = Materialized(s, R)
         /\ \A s \in SectorCohort(r, R) : /\ Materialized(s, R) \in SectorCohort(a, M)
                                          /\ SectorCohort(s, R) = SectorCohort(r, R)
         /\ \A b \in SectorCohort(a, M) : \E s \in SectorCohort(r, R) : b = Materialized(s, R)
         /\ \A s \in Earlier(r, R) : Materialized(s, R) \in Earlier(a, M)
         /\ \A b \in Earlier(a, M) : \E s \in Earlier(r, R) : b = Materialized(s, R)
  <1> DEFINE R == Rows(values)
             M == Tables(values).metrics
             Mat(s) == Materialized(s, R)
  <1>1. \A s \in R : Mat(s) \in M
    BY MetricIsRow
  <1>2. \A b \in M : \E s \in R : b = Mat(s)
    BY MetricIsRow
  <1>3. \A s \in R : /\ Mat(s).company = s.company /\ Mat(s).fy = s.fy
                     /\ Mat(s).key = s.key
    BY MaterializedMeans
  <1>4. a = Mat(r) /\ r \in R
    OBVIOUS
  <1> HIDE DEF R, M, Mat
  <1>5. a.company = r.company /\ a.fy = r.fy /\ a.key = r.key
    BY <1>3, <1>4
  <1>6. \A s \in Cohort(r, R) : Mat(s) \in Cohort(a, M) /\ Cohort(s, R) = Cohort(r, R)
    BY <1>1, <1>3, <1>5 DEF Cohort
  <1>7. \A b \in Cohort(a, M) : \E s \in Cohort(r, R) : b = Mat(s)
    BY <1>2, <1>3, <1>5 DEF Cohort
  <1>8. \A s \in SectorCohort(r, R) : /\ Mat(s) \in SectorCohort(a, M)
                                      /\ SectorCohort(s, R) = SectorCohort(r, R)
    <2> SUFFICES ASSUME NEW s \in SectorCohort(r, R)
                 PROVE  /\ Mat(s) \in SectorCohort(a, M)
                        /\ SectorCohort(s, R) = SectorCohort(r, R)
      OBVIOUS
    <2>1. s \in Cohort(r, R) /\ Sector[s.company] = Sector[r.company]
      BY DEF SectorCohort
    <2>2. s \in R
      BY <2>1 DEF Cohort
    <2> QED
      BY <1>3, <1>5, <1>6, <2>1, <2>2 DEF SectorCohort
  <1>9. \A b \in SectorCohort(a, M) : \E s \in SectorCohort(r, R) : b = Mat(s)
    <2> SUFFICES ASSUME NEW b \in SectorCohort(a, M)
                 PROVE  \E s \in SectorCohort(r, R) : b = Mat(s)
      OBVIOUS
    <2>1. PICK s \in Cohort(r, R) : b = Mat(s)
      BY <1>7 DEF SectorCohort
    <2>2. s \in R
      BY <2>1 DEF Cohort
    <2> QED
      BY <1>3, <1>5, <2>1, <2>2 DEF SectorCohort
  <1>10. \A s \in Earlier(r, R) : Mat(s) \in Earlier(a, M)
    BY <1>1, <1>3, <1>5 DEF Earlier
  <1>11. \A b \in Earlier(a, M) : \E s \in Earlier(r, R) : b = Mat(s)
    BY <1>2, <1>3, <1>5 DEF Earlier
  <1> QED
    BY <1>6, <1>7, <1>8, <1>9, <1>10, <1>11 DEF R, M, Mat

LEMMA SectorsAsLarge ==
  ASSUME NEW values, Sound(values), NEW r \in Rows(values), NEW a,
         a = Materialized(r, Rows(values))
  PROVE  Cardinality(SectorCohort(a, Tables(values).metrics)) =
         Cardinality(SectorCohort(r, Rows(values)))
  <1> DEFINE R == Rows(values)
             S == SectorCohort(r, R)
             T == SectorCohort(a, Tables(values).metrics)
             f == [s \in S |-> Materialized(s, R)]
  <1>1. \A s \in S : Materialized(s, R) \in T
    BY CohortsMatch
  <1>2. \A b \in T : \E s \in S : b = Materialized(s, R)
    BY CohortsMatch
  <1>3. \A s, t \in S : Materialized(s, R) = Materialized(t, R) => s = t
    <2> SUFFICES ASSUME NEW s \in S, NEW t \in S, Materialized(s, R) = Materialized(t, R)
                 PROVE  s = t
      OBVIOUS
    <2>1. s \in R /\ t \in R
      BY DEF SectorCohort, Cohort
    <2>2. \A u \in S : LET m == Materialized(u, R) IN
                        m.company = u.company /\ m.fy = u.fy /\ m.key = u.key
      BY MaterializedMeans
    <2> HIDE DEF R
    <2>3. s.company = t.company /\ s.fy = t.fy /\ s.key = t.key
      BY <2>2
    <2> QED
      BY <2>1, <2>3, RowsUnique DEF R
  <1>4. IsFiniteSet(S)
    <2>1. S \in SUBSET Cohort(r, R)
      BY DEF SectorCohort
    <2> HIDE DEF S
    <2> QED
      BY <2>1, CohortMeans DEF Comparable
  <1> HIDE DEF S, T, R
  <1>5. f \in Bijection(S, T)
    <2>1. f \in [S -> T] /\ \A s \in S : f[s] = Materialized(s, R)
      BY <1>1
    <2>2. \A s, t \in S : f[s] = f[t] => s = t
      BY <1>3, <2>1
    <2>3. \A b \in T : \E s \in S : f[s] = b
      BY <1>2, <2>1
    <2> HIDE DEF f
    <2>4. DOMAIN f = S
      BY <2>1
    <2>5. f \in Injection(S, T)
      BY <2>1, <2>2, <2>4 DEF Injection, IsInjective
    <2>6. f \in Surjection(S, T)
      BY <2>1, <2>3 DEF Surjection
    <2> QED
      BY <2>5, <2>6 DEF Bijection
  <1>6. ExistsBijection(S, T)
    BY <1>5, Zenon DEF ExistsBijection
  <1>7. Cardinality(T) = Cardinality(S)
    BY <1>4, <1>6, FS_Bijection
  <1> QED
    BY <1>7 DEF S, T, R

(* No more companies than a percentile has steps.                          *)
FewCompanies == Cardinality(DOMAIN Sector) <= Full

LEMMA CohortsAreFew ==
  ASSUME FewCompanies, NEW values, Sound(values), NEW r \in Rows(values),
         NEW C \in SUBSET Cohort(r, Rows(values))
  PROVE  Comparable(C) /\ Cardinality(C) <= Full
  <1>1. Comparable(C) /\ Cardinality(C) <= Cardinality(DOMAIN Sector)
    BY CohortMeans
  <1>2. Cardinality(C) \in Nat /\ Cardinality(DOMAIN Sector) \in Nat
    BY <1>1, MetricsAssumption, FS_CardinalityType DEF Comparable
  <1> QED
    BY <1>1, <1>2, FullPositive DEF FewCompanies

LEMMA MetricsCompared ==
  ASSUME FewCompanies, NEW values, Sound(values), NEW a \in Tables(values).metrics
  PROVE  WellCompared(a, Tables(values).metrics)
  <1> DEFINE R == Rows(values)
             M == Tables(values).metrics
             Mat(s) == Materialized(s, R)
  <1>1. PICK r \in R : a = Mat(r)
    BY MetricIsRow
  <1> DEFINE C == Cohort(r, R)
             S == SectorCohort(r, R)
  <1>2. r \in C /\ r \in S /\ C \in SUBSET R /\ S \in SUBSET C
    BY DEF Cohort, SectorCohort
  <1>3. Comparable(C) /\ Cardinality(C) <= Full
    <2> HIDE DEF C
    <2> QED
      BY CohortsAreFew DEF C
  <1>4. Comparable(S) /\ Cardinality(S) <= Full
    <2> HIDE DEF S
    <2> QED
      BY <1>2, CohortsAreFew
  <1>5. /\ \A s \in C : Mat(s) \in Cohort(a, M) /\ Cohort(s, R) = C
        /\ \A b \in Cohort(a, M) : \E s \in C : b = Mat(s)
        /\ \A b \in SectorCohort(a, M) : \E s \in S : b = Mat(s)
        /\ \A s \in S : SectorCohort(s, R) = S
        /\ \A s \in Earlier(r, R) : Mat(s) \in Earlier(a, M)
        /\ \A b \in Earlier(a, M) : \E s \in Earlier(r, R) : b = Mat(s)
    BY <1>1, CohortsMatch
  <1>6. \A s \in R : /\ Mat(s).value = s.value
                     /\ Mat(s).company = s.company /\ Mat(s).fy = s.fy /\ Mat(s).key = s.key
                     /\ Mat(s).all = Percentile(s.value, Cohort(s, R))
                     /\ Mat(s).sector =
                           IF Cardinality(SectorCohort(s, R)) >= MinimumSectorSize
                           THEN {Percentile(s.value, SectorCohort(s, R))} ELSE {}
                     /\ Mat(s).yoy = {s.value - t.value : t \in Earlier(s, R)}
    BY MaterializedMeans
  <1>7. \A s \in R : Mat(s) = a => s = r
    BY <1>1, MaterializedOnce
  <1>8. Cardinality(SectorCohort(a, M)) = Cardinality(S)
    BY <1>1, SectorsAsLarge
  <1> HIDE DEF R, M, Mat, C, S
  <1>9. a.value = r.value /\ a.all = Percentile(r.value, C)
    BY <1>1, <1>2, <1>5, <1>6
  <1>10. \A s \in C : Mat(s).value = s.value /\ Mat(s).all = Percentile(s.value, C)
    BY <1>2, <1>5, <1>6
  <1>11. \A s \in S : \A p \in Mat(s).sector : p = Percentile(s.value, S)
    <2> SUFFICES ASSUME NEW s \in S PROVE \A p \in Mat(s).sector : p = Percentile(s.value, S)
      OBVIOUS
    <2>1. s \in R /\ SectorCohort(s, R) = S
      BY <1>2, <1>5
    <2> QED
      BY <1>6, <2>1
  <1>12. a.all \in 0..Full
    BY <1>2, <1>3, <1>9, PercentileTyped
  <1>13. \A b \in Cohort(a, M) : a.value < b.value <=> a.all < b.all
    <2> SUFFICES ASSUME NEW b \in Cohort(a, M)
                 PROVE  a.value < b.value <=> a.all < b.all
      OBVIOUS
    <2>1. PICK s \in C : b = Mat(s)
      BY <1>5
    <2>2. r.value < s.value <=> Percentile(r.value, C) < Percentile(s.value, C)
      BY <1>2, <1>3, PercentilesOrder
    <2> QED
      BY <1>9, <1>10, <2>1, <2>2
  <1>14. \A p \in a.sector : p = Percentile(r.value, S)
    BY <1>1, <1>2, <1>11
  <1>15. a.sector # {} <=> Cardinality(SectorCohort(a, M)) >= MinimumSectorSize
    <2>1. a.sector = IF Cardinality(S) >= MinimumSectorSize
                     THEN {Percentile(r.value, S)} ELSE {}
      BY <1>1, <1>2, <1>6 DEF S
    <2> QED
      BY <1>8, <2>1
  <1>16. \A b \in SectorCohort(a, M), p \in a.sector : \A q \in b.sector :
            a.value < b.value <=> p < q
    <2> SUFFICES ASSUME NEW b \in SectorCohort(a, M), NEW p \in a.sector, NEW q \in b.sector
                 PROVE  a.value < b.value <=> p < q
      OBVIOUS
    <2>1. PICK s \in S : b = Mat(s)
      BY <1>5
    <2>2. p = Percentile(r.value, S) /\ q = Percentile(s.value, S)
      BY <1>11, <1>14, <2>1
    <2>3. r.value < s.value <=> Percentile(r.value, S) < Percentile(s.value, S)
      BY <1>2, <1>4, PercentilesOrder
    <2>4. b.value = s.value
      BY <1>2, <1>10, <2>1
    <2> QED
      BY <1>9, <2>2, <2>3, <2>4
  <1>17. ASSUME \A b \in Cohort(a, M) \ {a} : b.value > a.value, Cohort(a, M) # {a}
         PROVE  a.all = 0
    <2>1. \A s \in C \ {r} : s.value > r.value
      BY <1>2, <1>5, <1>7, <1>9, <1>10, <1>17
    <2>2. C # {r}
      <3>1. a \in Cohort(a, M)
        BY <1>1, <1>2, <1>5
      <3> QED
        BY <1>1, <1>5, <1>17, <3>1
    <2> QED
      BY <1>2, <1>3, <1>9, <2>1, <2>2, LowestIsZero
  <1>18. ASSUME \A b \in Cohort(a, M) \ {a} : b.value < a.value
         PROVE  a.all = Full
    <2>1. \A s \in C \ {r} : s.value < r.value
      BY <1>2, <1>5, <1>7, <1>9, <1>10, <1>18
    <2> QED
      BY <1>2, <1>3, <1>9, <2>1, HighestIsHundred
  <1>19. a.yoy = {a.value - b.value : b \in Earlier(a, M)}
    <2>1. a.yoy = {r.value - s.value : s \in Earlier(r, R)}
      BY <1>1, <1>6
    <2>2. \A s \in Earlier(r, R) : Mat(s).value = s.value
      BY <1>6 DEF Earlier
    <2> QED
      BY <1>5, <1>9, <2>1, <2>2
  <1>20. /\ Cohort(a, M) = {b \in M : b.fy = a.fy /\ b.key = a.key}
         /\ SectorCohort(a, M) = {b \in Cohort(a, M) : Sector[b.company] = Sector[a.company]}
         /\ Earlier(a, M) = {b \in M : b.company = a.company /\ b.key = a.key
                                       /\ b.fy = a.fy - 1}
    BY Zenon DEF Cohort, SectorCohort, Earlier
  <1>21. WellCompared(a, M)
    <2>1. \A p, q \in a.sector : p = q
      BY <1>14
    <2> QED
      BY <1>12, <1>13, <1>15, <1>16, <1>17, <1>18, <1>19, <1>20, <2>1, Zenon DEF WellCompared
  <1> QED
    BY <1>21 DEF M

-----------------------------------------------------------------------------
(* Scores *)

LEMMA MaxOfTwo ==
  ASSUME NEW a \in Nat, NEW b \in Nat
  PROVE  /\ Max({a, b}) \in {a, b}
         /\ Max({a, b}) >= a
         /\ Max({a, b}) >= b
  <1>1. \E x \in {a, b} : \A y \in {a, b} : x >= y
    OBVIOUS
  <1> QED
    BY <1>1 DEF Max

LEMMA FieldsFinite ==
  ASSUME NEW keys \in SUBSET Fields
  PROVE  /\ IsFiniteSet(keys) /\ Cardinality(keys) \in Nat
         /\ Cardinality(keys \cap CoreFields) \in Nat
         /\ Cardinality(keys) <= Cardinality(Fields)
         /\ Cardinality(keys \cap CoreFields) <= Cardinality(CoreFields)
  <1>1. IsFiniteSet(Fields)
    <2>1. Fields \in SUBSET MetricKeys
      BY DEF MetricKeys
    <2> QED
      BY <2>1, MetricsAssumption, FS_Subset
  <1>2. IsFiniteSet(CoreFields)
    BY <1>1, MetricsAssumption, FS_Subset
  <1>3. IsFiniteSet(keys) /\ Cardinality(keys) <= Cardinality(Fields)
    BY <1>1, FS_Subset
  <1>4. IsFiniteSet(keys \cap CoreFields)
        /\ Cardinality(keys \cap CoreFields) <= Cardinality(CoreFields)
    BY <1>2, FS_Subset
  <1> QED
    BY <1>3, <1>4, FS_CardinalityType

LEMMA CompletenessTyped ==
  ASSUME NEW present \in SUBSET Fields
  PROVE  Completeness(present) \in 0..Full
  <1> DEFINE Weight(keys) == Cardinality(keys) + Cardinality(keys \cap CoreFields)
  <1>1. Fields \cap CoreFields = CoreFields
    BY MetricsAssumption
  <1>2. PICK p \in Nat, c \in Nat : p = Cardinality(present)
                                    /\ c = Cardinality(present \cap CoreFields)
    BY FieldsFinite
  <1>3. PICK q \in Nat, d \in Nat : q = Cardinality(Fields)
                                    /\ d = Cardinality(Fields \cap CoreFields)
    BY FieldsFinite
  <1>4. p <= q /\ c <= d
    BY <1>1, <1>2, <1>3, FieldsFinite
  <1>5. Completeness(present) =
           IF q + d = 0 THEN 0 ELSE RoundHalfEven(Full * (p + c), q + d)
    BY <1>2, <1>3 DEF Completeness
  <1>6. CASE q + d = 0
    BY <1>5, <1>6, FullPositive
  <1>7. CASE q + d # 0
    <2>1. PICK n \in Nat \ {0} : n = q + d /\ p + c <= n
      BY <1>4, <1>7
    <2>2. PICK m \in Nat : m = p + c /\ m <= n
      BY <2>1
    <2>3. Full * m \in Nat /\ Full * m <= n * Full
      BY <2>2, FullPositive
    <2>4. RoundHalfEven(Full * m, n) \in 0..Full
      BY <2>3, FullPositive, RoundBounded
    <2> QED
      BY <1>5, <1>7, <2>1, <2>2, <2>4
  <1> QED
    BY <1>6, <1>7

(* What a text tells by its signals.                                       *)
LEMMA ToldBySignals ==
  ASSUME NEW filing, IsPinned(filing)
  PROVE  /\ SumOf(SignalWeight, Signals(filing)) \in Nat
         /\ SumOf(SignalWeight, Signals(filing)) + OriginalityWeight <= 100
  <1>1. /\ IsFiniteSet(DOMAIN SignalWeight) /\ OriginalityWeight \in Nat
        /\ \A k \in DOMAIN SignalWeight : SignalWeight[k] \in Nat
    BY WeightsAssumption
  <1>2. Signals(filing) \in SUBSET DOMAIN SignalWeight
    BY DEF IsPinned
  <1>3. OriginalityWeight + SumOf(SignalWeight, DOMAIN SignalWeight) = 100
    BY WeightsAssumption DEF SumOf
  <1>4. /\ SumOf(SignalWeight, DOMAIN SignalWeight) \in Nat
        /\ SumOf(SignalWeight, Signals(filing)) \in Nat
        /\ SumOf(SignalWeight, Signals(filing)) <= SumOf(SignalWeight, DOMAIN SignalWeight)
    BY <1>1, <1>2, SumMore
  <1> QED
    BY <1>1, <1>3, <1>4

(* What the score counts: the signals, the phrases and those shared.       *)
IsSubstance(filing, shared, told, count, dull) ==
    /\ told = SumOf(SignalWeight, Signals(filing))
    /\ told + OriginalityWeight <= 100
    /\ dull <= count
    /\ count \in {1, Cardinality(Phrases(filing))}
    /\ dull = 0 <=> Phrases(filing) \cap shared = {}
    /\ Substance(filing, shared) =
          RoundHalfEven(10000 * (told * count + OriginalityWeight * (count - dull)), count)

LEMMA SubstanceMeans ==
  ASSUME NEW filing, IsPinned(filing), NEW shared
  PROVE  \E told \in Nat, count \in Nat \ {0}, dull \in Nat :
            IsSubstance(filing, shared, told, count, dull)
  <1> DEFINE own == Phrases(filing)
             count == Max({1, Cardinality(own)})
             dull == Cardinality(own \cap shared)
             told == SumOf(SignalWeight, Signals(filing))
  <1>1. IsFiniteSet(own)
    BY DEF IsPinned
  <1>2. IsFiniteSet(own \cap shared) /\ dull <= Cardinality(own)
    BY <1>1, FS_Subset
  <1>3. Cardinality(own) \in Nat /\ dull \in Nat
    BY <1>1, <1>2, FS_CardinalityType
  <1>4. dull = 0 <=> own \cap shared = {}
    BY <1>2, FS_EmptySet
  <1>5. count \in {1, Cardinality(own)} /\ count >= 1 /\ count >= Cardinality(own)
    BY <1>3, MaxOfTwo
  <1>6. Substance(filing, shared) =
           RoundHalfEven(10000 * (told * count + OriginalityWeight * (count - dull)), count)
    BY DEF Substance
  <1>7. told \in Nat /\ told + OriginalityWeight <= 100
    BY ToldBySignals
  <1> HIDE DEF own, count, dull, told
  <1>8. count \in Nat \ {0} /\ dull <= count
    BY <1>2, <1>3, <1>5
  <1> QED
    <2>1. IsSubstance(filing, shared, told, count, dull)
      BY <1>4, <1>5, <1>6, <1>7, <1>8 DEF own, dull, told, IsSubstance
    <2> QED
      BY <1>3, <1>7, <1>8, <2>1

LEMMA Spread ==
  ASSUME NEW t \in Nat, NEW w \in Nat, NEW c \in Nat, NEW k \in Nat, k <= c
  PROVE  /\ w * k \in Nat /\ (t + w) * c \in Nat
         /\ t * c + w * (c - k) = (t + w) * c - w * k
         /\ w * k <= w * c
  <1>1. (t + w) * c = t * c + w * c
    OBVIOUS
  <1>2. w * (c - k) = w * c - w * k
    OBVIOUS
  <1>3. w * (c - k) \in Nat /\ w * k \in Nat /\ w * c \in Nat /\ t * c \in Nat
    OBVIOUS
  <1> QED
    BY <1>1, <1>2, <1>3

LEMMA SubstanceTyped ==
  ASSUME NEW filing, IsPinned(filing), NEW shared
  PROVE  Substance(filing, shared) \in 0..Full
  <1>1. PICK told \in Nat, count \in Nat \ {0}, dull \in Nat :
            IsSubstance(filing, shared, told, count, dull)
    BY SubstanceMeans
  <1>0. /\ told + OriginalityWeight <= 100
        /\ dull <= count
        /\ Substance(filing, shared) =
              RoundHalfEven(10000 * (told * count + OriginalityWeight * (count - dull)), count)
    BY <1>1 DEF IsSubstance
  <1>2. PICK w \in Nat : w = OriginalityWeight
    BY WeightsAssumption
  <1> DEFINE n == told * count + w * (count - dull)
  <1>3. n \in Nat /\ n <= (told + w) * count
    <2>1. /\ w * dull \in Nat /\ (told + w) * count \in Nat
          /\ n = (told + w) * count - w * dull
      BY <1>0, Spread
    <2>2. n \in Nat
      <3>1. count - dull \in Nat
        BY <1>0
      <3> QED
        BY <3>1
    <2> HIDE DEF n
    <2> QED
      BY <2>1, <2>2
  <1>4. (told + w) * count <= 100 * count
    BY <1>0, <1>2
  <1>5. Substance(filing, shared) = RoundHalfEven(10000 * n, count)
    BY <1>0, <1>2
  <1> HIDE DEF n
  <1>6. n <= 100 * count
    <2>1. (told + w) * count \in Nat
      OBVIOUS
    <2> QED
      BY <1>3, <1>4, <2>1
  <1>7. 10000 * n \in Nat /\ 10000 * n <= count * Full
    BY <1>3, <1>6 DEF Full
  <1> QED
    BY <1>5, <1>7, FullPositive, RoundBounded

(* Rounding does not hide that a phrase is shared, unless a text has too   *)
(* many of them for one to count.                                          *)
LEMMA SubstanceExact ==
  ASSUME NEW filing, IsPinned(filing), NEW shared,
         Cardinality(Phrases(filing)) < 20000 * OriginalityWeight, OriginalityWeight > 0
  PROVE  Substance(filing, shared) =
            10000 * (SumOf(SignalWeight, Signals(filing)) + OriginalityWeight)
         <=> Phrases(filing) \cap shared = {}
  <1>1. PICK told \in Nat, count \in Nat \ {0}, dull \in Nat :
            IsSubstance(filing, shared, told, count, dull)
    BY SubstanceMeans
  <1>0. /\ told = SumOf(SignalWeight, Signals(filing))
        /\ dull <= count
        /\ count \in {1, Cardinality(Phrases(filing))}
        /\ dull = 0 <=> Phrases(filing) \cap shared = {}
        /\ Substance(filing, shared) =
              RoundHalfEven(10000 * (told * count + OriginalityWeight * (count - dull)), count)
    BY <1>1 DEF IsSubstance
  <1>2. PICK w \in Nat : w = OriginalityWeight /\ w > 0
    BY WeightsAssumption
  <1>3. count < 20000 * w
    BY <1>0, <1>2
  <1> DEFINE n == told * count + w * (count - dull)
  <1>4. /\ w * dull \in Nat /\ (told + w) * count \in Nat
        /\ n = (told + w) * count - w * dull /\ n \in Nat
    <2>1. /\ w * dull \in Nat /\ (told + w) * count \in Nat
          /\ n = (told + w) * count - w * dull
      BY <1>0, Spread
    <2>2. n \in Nat
      <3>1. count - dull \in Nat
        BY <1>0
      <3> QED
        BY <3>1
    <2> QED
      BY <2>1, <2>2
  <1>5. Substance(filing, shared) = RoundHalfEven(10000 * n, count)
    BY <1>0, <1>2
  <1> HIDE DEF n
  <1> DEFINE whole == 10000 * (told + w)
  <1>6. whole \in Nat /\ count * whole = 10000 * ((told + w) * count)
    OBVIOUS
  <1> HIDE DEF whole
  <1>7. CASE dull = 0
    <2>1. 10000 * n = count * whole
      BY <1>4, <1>6, <1>7
    <2>2. Substance(filing, shared) = whole
      BY <1>5, <1>6, <2>1, RoundExact
    <2> QED
      BY <1>0, <1>2, <1>7, <2>2 DEF whole
  <1>8. CASE dull # 0
    <2>1. w * dull >= w
      BY <1>2, <1>8
    <2>2. PICK q \in Nat : /\ RoundHalfEven(10000 * n, count) = q
                           /\ 2 * (count * q) - count <= 2 * (10000 * n)
      BY <1>4, RoundMeans
    <2>3. ASSUME q = whole PROVE FALSE
      <3>1. PICK total \in Nat, lost \in Nat :
               total = (told + w) * count /\ lost = w * dull
        BY <1>4
      <3>2. 2 * (10000 * total) - count <= 2 * (10000 * (total - lost))
        BY <1>4, <1>6, <2>2, <2>3, <3>1
      <3>3. 20000 * lost <= count
        BY <3>2
      <3> QED
        BY <1>2, <1>3, <2>1, <3>1, <3>3
    <2>4. Substance(filing, shared) # whole
      BY <1>5, <2>2, <2>3
    <2> QED
      BY <1>0, <1>2, <1>8, <2>4 DEF whole
  <1> QED
    BY <1>7, <1>8

LEMMA AssuranceTyped ==
  ASSUME NEW filing, IsPinned(filing)
  PROVE  Assurance(filing) \in 0..Full
  <1> DEFINE core == Max({1, Cardinality(CoreFields)})
             count == Max({1, Cardinality(filing.present)})
             c == Cardinality(filing.present \cap CoreFields)
             t == Cardinality(filing.traced)
  <1>1. /\ filing.present \in SUBSET Fields /\ filing.traced \in SUBSET filing.present
        /\ CoreFields \in SUBSET Fields
    BY MetricsAssumption DEF IsPinned
  <1>2. /\ Cardinality(CoreFields) \in Nat /\ Cardinality(filing.present) \in Nat
        /\ c \in Nat /\ c <= Cardinality(CoreFields)
    BY <1>1, FieldsFinite
  <1>3. t \in Nat /\ t <= Cardinality(filing.present)
    <2>1. IsFiniteSet(filing.present)
      BY <1>1, FieldsFinite
    <2> QED
      BY <1>1, <2>1, FS_Subset, FS_CardinalityType
  <1>4. core \in Nat \ {0} /\ core >= Cardinality(CoreFields)
    BY <1>2, MaxOfTwo
  <1>5. count \in Nat \ {0} /\ count >= Cardinality(filing.present)
    BY <1>2, MaxOfTwo
  <1>6. PICK x \in Nat, y \in Nat, z \in Nat :
            /\ x = AssuranceWeight.stated /\ y = AssuranceWeight.core
            /\ z = AssuranceWeight.lineage /\ x + y + z = 100
    BY WeightsAssumption
  <1>7. Assurance(filing) =
           RoundHalfEven(10000 * ((IF filing.assured THEN x * core * count ELSE 0)
                                  + y * c * count + z * t * core), core * count)
    BY <1>6 DEF Assurance
  <1> HIDE DEF core, count, c, t
  <1>8. c <= core /\ t <= count
    BY <1>2, <1>3, <1>4, <1>5
  <1>9. PICK d \in Nat \ {0} : d = core * count
    BY <1>4, <1>5
  <1>10. PICK m \in Nat : /\ m = IF filing.assured THEN x * core * count ELSE 0
                          /\ m <= x * d
    <2>1. x * core * count = x * d /\ x * d \in Nat
      BY <1>4, <1>5, <1>9
    <2> QED
      BY <2>1
  <1>11. PICK n \in Nat : n = y * c * count /\ n <= y * d
    <2>1. c * count \in Nat /\ c * count <= d
      BY <1>2, <1>4, <1>5, <1>8, <1>9
    <2>2. y * (c * count) <= y * d /\ y * (c * count) \in Nat
      BY <2>1
    <2>3. y * c * count = y * (c * count)
      BY <1>2, <1>5
    <2> QED
      BY <2>2, <2>3
  <1>12. PICK o \in Nat : o = z * t * core /\ o <= z * d
    <2>1. t * core \in Nat /\ t * core <= d
      BY <1>3, <1>4, <1>5, <1>8, <1>9
    <2>2. z * (t * core) <= z * d /\ z * (t * core) \in Nat
      BY <2>1
    <2>3. z * t * core = z * (t * core)
      BY <1>3, <1>4
    <2> QED
      BY <2>2, <2>3
  <1>13. m + n + o <= 100 * d
    <2>1. x * d + y * d + z * d = (x + y + z) * d
      OBVIOUS
    <2>2. x * d \in Nat /\ y * d \in Nat /\ z * d \in Nat
      OBVIOUS
    <2> QED
      BY <1>6, <1>10, <1>11, <1>12, <2>1, <2>2
  <1>14. 10000 * (m + n + o) \in Nat /\ 10000 * (m + n + o) <= d * Full
    BY <1>13 DEF Full
  <1>15. Assurance(filing) = RoundHalfEven(10000 * (m + n + o), d)
    BY <1>7, <1>9, <1>10, <1>11, <1>12
  <1> QED
    BY <1>14, <1>15, FullPositive, RoundBounded

(* The scores of a filing.                                                  *)
Filed(values) == {f \in Filings : values[f].present # {}}

LEMMA ScoresMean ==
  ASSUME NEW values, NEW f \in Filed(values)
  PROVE  /\ Tables(values).scores[f] =
               [completeness |-> Completeness(values[f].present),
                substance |-> Substance(values[f], Shared(values)),
                assurance |-> Assurance(values[f])]
         /\ Tables(values).scores[f].substance = Substance(values[f], Shared(values))
  BY DEF Tables, Filed

LEMMA ScoresTyped ==
  ASSUME NEW values, Sound(values)
  PROVE  Tables(values).scores \in
            [Filed(values) -> [{"completeness", "substance", "assurance"} -> 0..Full]]
  <1>1. ASSUME NEW f \in Filed(values)
        PROVE  Tables(values).scores[f] \in
                  [{"completeness", "substance", "assurance"} -> 0..Full]
    <2>1. IsPinned(values[f])
      BY DEF Filed, Sound
    <2>2. values[f].present \in SUBSET Fields
      BY <2>1 DEF IsPinned
    <2>3. PICK x \in 0..Full, y \in 0..Full, z \in 0..Full :
             /\ x = Completeness(values[f].present)
             /\ y = Substance(values[f], Shared(values))
             /\ z = Assurance(values[f])
      BY <2>1, <2>2, CompletenessTyped, SubstanceTyped, AssuranceTyped
    <2>4. Tables(values).scores[f] = [completeness |-> x, substance |-> y, assurance |-> z]
      BY <2>3, ScoresMean
    <2> DEFINE Score == 0..Full
    <2>5. x \in Score /\ y \in Score /\ z \in Score
      OBVIOUS
    <2> HIDE DEF Score
    <2>6. [completeness |-> x, substance |-> y, assurance |-> z] \in
             [{"completeness", "substance", "assurance"} -> Score]
      BY <2>5
    <2> QED
      BY <2>4, <2>6 DEF Score
  <1>2. Tables(values).scores = [f \in Filed(values) |-> Tables(values).scores[f]]
    BY DEF Tables, Filed
  <1> QED
    BY <1>1, <1>2

LEMMA SharedByMany ==
  ASSUME NEW values, NEW f \in Filings, NEW p \in Phrases(values[f])
  PROVE  p \in Shared(values) <=> ~(Cardinality(Users(values, p)) < SharingCompanies)
  <1>1. Sharing(values, p) = Users(values, p)
    <2>1. \A g \in Filings : g[1] \in DOMAIN Sector
      BY MetricsAssumption
    <2> QED
      BY <2>1, Zenon DEF Sharing, Users
  <1>2. Cardinality(Users(values, p)) \in Nat
    <2>1. Users(values, p) \in SUBSET DOMAIN Sector
      BY DEF Users
    <2> QED
      BY <2>1, MetricsAssumption, FS_Subset, FS_CardinalityType
  <1>3. p \in Shared(values) <=> Cardinality(Sharing(values, p)) >= SharingCompanies
    BY Zenon DEF Shared
  <1>4. SharingCompanies \in Nat
    BY MetricsAssumption
  <1> QED
    BY <1>1, <1>2, <1>3, <1>4

(* So many phrases that the loss of one rounds to nothing.                  *)
FewPhrases(filing) == Cardinality(Phrases(filing)) < 20000 * OriginalityWeight

LEMMA OriginalityIsKept ==
  ASSUME NEW values, Sound(values), NEW f \in Filed(values), FewPhrases(values[f])
  PROVE  KeepsOriginality(values[f], Tables(values).scores[f].substance, values)
  <1>1. IsPinned(values[f]) /\ f \in Filings
    BY DEF Filed, Sound
  <1>2. OriginalityWeight > 0
    <2>1. Cardinality(Phrases(values[f])) \in Nat
      BY <1>1, FS_CardinalityType DEF IsPinned
    <2>2. OriginalityWeight \in Nat
      BY WeightsAssumption
    <2> QED
      BY <2>1, <2>2 DEF FewPhrases
  <1>3. Substance(values[f], Shared(values)) =
           10000 * (SumOf(SignalWeight, Signals(values[f])) + OriginalityWeight)
        <=> Phrases(values[f]) \cap Shared(values) = {}
    BY <1>1, <1>2, SubstanceExact DEF FewPhrases
  <1>4. Phrases(values[f]) \cap Shared(values) = {} <=>
           \A p \in Phrases(values[f]) : Cardinality(Users(values, p)) < SharingCompanies
    BY <1>1, SharedByMany
  <1>5. Tables(values).scores[f].substance = Substance(values[f], Shared(values))
    BY ScoresMean
  <1> QED
    BY <1>3, <1>4, <1>5 DEF KeepsOriginality
=============================================================================
