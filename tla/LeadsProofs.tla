---------------------------- MODULE LeadsProofs ----------------------------
(***************************************************************************)
(* Theorems about Leads, for any users, organisations, signals, weights    *)
(* and windows, any number of overlapping sessions, and any bounds.        *)
(***************************************************************************)
EXTENDS Leads, LeastElements

LEMMA Constants ==
  /\ Nobody \notin Users /\ NoOrg \notin Orgs
  /\ {WindowDays, Threshold, SuppressionDays, FallbackScore, RetentionDays} \subseteq Nat
  /\ {MaxLeads, MaxActs, MaxSessions, MaxDay} \subseteq Nat
  /\ IsFiniteSet(Names) /\ DeepDive \in Names
  /\ Weight \in [Names -> Nat] /\ MaxOccurrences \in [Names -> Nat]
  BY LeadsAssumption

-----------------------------------------------------------------------------
(* Scores *)

LEMMA LesserTyped ==
  ASSUME NEW a \in Nat, NEW b \in Nat
  PROVE  Min({a, b}) \in Nat
  <1>1. \E x \in {a, b} : \A y \in {a, b} : x =< y
    <2>1. a <= b \/ b <= a
      OBVIOUS
    <2> QED
      BY <2>1
  <1>2. Min({a, b}) \in {a, b}
    BY <1>1 DEF Min
  <1> QED
    BY <1>2

LEMMA LeastFree ==
  ASSUME NEW S, S \subseteq Nat, S # {}
  PROVE  Min(S) \in S
  BY LeastNatural DEF Min

LEMMA MatchedTyped ==
  ASSUME NEW E, IsFiniteSet(E), NEW n
  PROVE  Matched(E, n) \in Nat
  <1>1. IsFiniteSet({e \in E : e.name = n /\ e.day >= today - WindowDays})
    BY FS_Subset
  <1> QED
    BY <1>1, FS_CardinalityType DEF Matched

LEMMA WorthTyped ==
  ASSUME NEW E, IsFiniteSet(E), NEW n \in Names
  PROVE  Worth(E, n) \in Nat
  <1>1. PICK a \in Nat : a = Weight[n]
    BY Constants
  <1>2. PICK b \in Nat : b = Min({Matched(E, n), MaxOccurrences[n]})
    BY Constants, MatchedTyped, LesserTyped
  <1>3. Worth(E, n) = a * b
    BY <1>1, <1>2 DEF Worth
  <1>4. a * b \in Nat
    OBVIOUS
  <1> QED
    BY <1>3, <1>4

(* The sums of up to k names.                                              *)
Few(k) == {N \in SUBSET Names : Cardinality(N) <= k}

IsSum(E, sum, D) ==
    sum = [N \in D |->
              IF N = {} THEN 0
              ELSE Worth(E, CHOOSE n \in N : TRUE) + sum[N \ {CHOOSE n \in N : TRUE}]]

LEMMA FewerByOne ==
  ASSUME NEW k \in Nat, NEW N \in Few(k + 1), N # {}, NEW n \in N
  PROVE  N \ {n} \in Few(k) /\ n \in Names
  <1>1. N \subseteq Names /\ IsFiniteSet(N) /\ Cardinality(N) <= k + 1
    BY Constants, FS_Subset DEF Few
  <1>2. PICK c \in Nat : c = Cardinality(N)
    BY <1>1, FS_CardinalityType
  <1>3. Cardinality(N \ {n}) = c - 1
    BY <1>1, <1>2, FS_RemoveElement
  <1>4. c - 1 <= k
    BY <1>1, <1>2
  <1> QED
    BY <1>1, <1>3, <1>4 DEF Few

LEMMA SumsExist ==
  ASSUME NEW E, IsFiniteSet(E), NEW k \in Nat
  PROVE  \E sum \in [Few(k) -> Nat] : IsSum(E, sum, Few(k))
  <1> DEFINE Exists(j) == \E sum \in [Few(j) -> Nat] : IsSum(E, sum, Few(j))
             Fails == {j \in Nat : ~Exists(j)}
  <1> SUFFICES ASSUME Fails # {} PROVE FALSE
    OBVIOUS
  <1>1. PICK m \in Fails : \A j \in Fails : m <= j
    <2>1. Fails \subseteq Nat
      OBVIOUS
    <2> HIDE DEF Fails
    <2> QED
      BY <2>1, LeastNatural
  <1>2. m \in Nat /\ ~Exists(m)
    OBVIOUS
  <1>3. CASE m = 0
    <2> DEFINE sum == [N \in Few(0) |-> 0]
    <2>1. \A N \in Few(0) : N = {}
      <3> SUFFICES ASSUME NEW N \in Few(0) PROVE N = {}
        OBVIOUS
      <3>1. IsFiniteSet(N) /\ Cardinality(N) <= 0
        BY Constants, FS_Subset DEF Few
      <3>2. Cardinality(N) \in Nat
        BY <3>1, FS_CardinalityType
      <3> QED
        BY <3>1, <3>2, FS_EmptySet
    <2>2. IsSum(E, sum, Few(0)) /\ sum \in [Few(0) -> Nat]
      BY <2>1 DEF IsSum
    <2> QED
      BY <1>2, <1>3, <2>2
  <1>4. CASE m # 0
    <2>1. PICK k0 \in Nat : m = k0 + 1
      <3>1. m - 1 \in Nat /\ m = (m - 1) + 1
        BY <1>2, <1>4
      <3> QED
        BY <3>1
    <2>2. PICK less \in [Few(k0) -> Nat] : IsSum(E, less, Few(k0))
      <3>1. k0 \notin Fails
        <4>1. ~(m <= k0)
          BY <2>1
        <4> HIDE DEF Fails
        <4> QED
          BY <1>1, <4>1
      <3> QED
        BY <3>1
    <2> DEFINE Value(N) == IF N = {} THEN 0
                           ELSE Worth(E, CHOOSE n \in N : TRUE)
                                + less[N \ {CHOOSE n \in N : TRUE}]
               sum == [N \in Few(m) |-> Value(N)]
    <2>3. \A N \in Few(m) : N # {} => /\ (CHOOSE n \in N : TRUE) \in Names
                                      /\ N \ {CHOOSE n \in N : TRUE} \in Few(k0)
      BY <2>1, FewerByOne
    <2>4. \A N \in Few(m) : Value(N) \in Nat
      <3> SUFFICES ASSUME NEW N \in Few(m), N # {} PROVE Value(N) \in Nat
        OBVIOUS
      <3>1. PICK a \in Nat : a = Worth(E, CHOOSE n \in N : TRUE)
        BY <2>3, WorthTyped
      <3>2. PICK b \in Nat : b = less[N \ {CHOOSE n \in N : TRUE}]
        BY <2>2, <2>3
      <3>3. Value(N) = a + b
        BY <3>1, <3>2
      <3> QED
        BY <3>3
    <2>5. \A N \in Few(k0) : N \in Few(m) /\ less[N] = Value(N)
      <3> SUFFICES ASSUME NEW N \in Few(k0) PROVE N \in Few(m) /\ less[N] = Value(N)
        OBVIOUS
      <3>1. less[N] = Value(N)
        BY <2>2 DEF IsSum
      <3>2. Cardinality(N) <= k0 /\ Cardinality(N) \in Nat /\ N \in SUBSET Names
        BY Constants, FS_Subset, FS_CardinalityType DEF Few
      <3>3. Cardinality(N) <= m
        BY <2>1, <3>2
      <3> QED
        BY <3>1, <3>2, <3>3 DEF Few
    <2>6. \A N \in Few(k0) : sum[N] = less[N]
      BY <2>5
    <2>7. IsSum(E, sum, Few(m))
      <3>1. \A N \in Few(m) : N # {} => sum[N \ {CHOOSE n \in N : TRUE}]
                                        = less[N \ {CHOOSE n \in N : TRUE}]
        BY <2>3, <2>6
      <3>2. \A N \in Few(m) : Value(N) = IF N = {} THEN 0
                                        ELSE Worth(E, CHOOSE n \in N : TRUE)
                                             + sum[N \ {CHOOSE n \in N : TRUE}]
        <4> SUFFICES ASSUME NEW N \in Few(m), N # {}
                     PROVE  Value(N) = Worth(E, CHOOSE n \in N : TRUE)
                                       + sum[N \ {CHOOSE n \in N : TRUE}]
          OBVIOUS
        <4>1. Value(N) = Worth(E, CHOOSE n \in N : TRUE) + less[N \ {CHOOSE n \in N : TRUE}]
          OBVIOUS
        <4> HIDE DEF sum, Value
        <4> QED
          BY <3>1, <4>1
      <3>3. sum = [N \in Few(m) |-> Value(N)]
        OBVIOUS
      <3> HIDE DEF Value, sum
      <3> QED
        BY <3>2, <3>3 DEF IsSum
    <2>8. sum \in [Few(m) -> Nat]
      BY <2>4
    <2> QED
      BY <1>2, <2>7, <2>8
  <1> QED
    BY <1>3, <1>4

(* A score is a number.                                                    *)
LEMMA ScoreTyped ==
  ASSUME NEW E, IsFiniteSet(E)
  PROVE  Score(E) \in Nat
  <1>1. Cardinality(Names) \in Nat
    BY Constants, FS_CardinalityType
  <1>2. Few(Cardinality(Names)) = SUBSET Names
    <2> SUFFICES ASSUME NEW N \in SUBSET Names PROVE Cardinality(N) <= Cardinality(Names)
      BY DEF Few
    <2> QED
      BY Constants, FS_Subset
  <1>3. PICK some \in [SUBSET Names -> Nat] : IsSum(E, some, SUBSET Names)
    <2>1. PICK c \in Nat : c = Cardinality(Names)
      BY <1>1
    <2>2. Few(c) = SUBSET Names
      BY <1>2, <2>1
    <2>3. \E f \in [Few(c) -> Nat] : IsSum(E, f, Few(c))
      BY SumsExist
    <2> QED
      BY <2>2, <2>3
  <1> DEFINE sum == CHOOSE f : IsSum(E, f, SUBSET Names)
  <1>4. Score(E) = sum[Names]
    BY DEF Score, IsSum
  <1>5. IsSum(E, sum, SUBSET Names)
    BY <1>3
  <1> HIDE DEF sum
  <1>6. \A N \in SUBSET Names : N # {} => sum[N] = Worth(E, CHOOSE n \in N : TRUE)
                                                   + sum[N \ {CHOOSE n \in N : TRUE}]
    BY <1>5 DEF IsSum
  <1>7. sum[{}] = 0
    BY <1>5 DEF IsSum
  <1> DEFINE Fails == {N \in SUBSET Names : sum[N] \notin Nat}
  <1>8. CASE Fails = {}
    BY <1>4, <1>8
  <1>9. CASE Fails # {}
    <2>1. PICK N \in Fails : \A M \in Fails : M \subseteq N => M = N
      <3>1. Fails \subseteq FiniteSubsetsOf(Names)
        BY Constants, FS_Subset DEF FiniteSubsetsOf
      <3> HIDE DEF Fails
      <3> QED
        BY <1>9, <3>1, LeastFiniteSet
    <2>2. N \in SUBSET Names /\ sum[N] \notin Nat /\ N # {}
      <3>1. N \in SUBSET Names /\ sum[N] \notin Nat
        OBVIOUS
      <3> QED
        <4>1. 0 \in Nat
          OBVIOUS
        <4> QED
          BY <1>7, <3>1, <4>1, Zenon
    <2>3. PICK n \in N : n = CHOOSE m \in N : TRUE
      BY <2>2
    <2>4. N \ {n} \notin Fails
      <3> HIDE DEF Fails
      <3> QED
        BY <2>1
    <2>5. PICK b \in Nat : b = sum[N \ {n}]
      BY <2>2, <2>4
    <2>6. PICK a \in Nat : a = Worth(E, n)
      BY <2>2, WorthTyped
    <2>7. sum[N] = a + b
      BY <1>6, <2>2, <2>3, <2>5, <2>6
    <2> QED
      BY <2>2, <2>7
  <1> QED
    BY <1>8, <1>9

-----------------------------------------------------------------------------
(* Numbers of events *)

LEMMA NumberTyped ==
  ASSUME NEW E, IsFiniteSet(E), NEW n, NEW d
  PROVE  Number(E, n, d) \in Nat
  <1>1. IsFiniteSet({e \in E : e.name = n /\ e.day = d})
    BY FS_Subset
  <1> QED
    BY <1>1, FS_CardinalityType DEF Number

LEMMA NumberOfNone ==
  ASSUME NEW E, NEW n, NEW d, \A e \in E : ~(e.name = n /\ e.day = d)
  PROVE  Number(E, n, d) = 0
  <1>1. {e \in E : e.name = n /\ e.day = d} = {}
    OBVIOUS
  <1> QED
    BY <1>1, FS_EmptySet DEF Number

LEMMA NumberOfSome ==
  ASSUME NEW E, IsFiniteSet(E), NEW n, NEW d, NEW e \in E, e.name = n, e.day = d
  PROVE  Number(E, n, d) # 0
  <1>1. IsFiniteSet({f \in E : f.name = n /\ f.day = d})
    BY FS_Subset
  <1>2. {f \in E : f.name = n /\ f.day = d} # {}
    OBVIOUS
  <1> QED
    BY <1>1, <1>2, FS_EmptySet DEF Number

LEMMA NumberOfOne ==
  ASSUME NEW e, NEW n, NEW d, e.name = n, e.day = d
  PROVE  Number({e}, n, d) = 1
  <1>1. {f \in {e} : f.name = n /\ f.day = d} = {e}
    OBVIOUS
  <1> QED
    BY <1>1, FS_Singleton DEF Number

LEMMA NumberOfUnion ==
  ASSUME NEW E, IsFiniteSet(E), NEW F, IsFiniteSet(F), E \cap F = {}, NEW n, NEW d
  PROVE  Number(E \cup F, n, d) = Number(E, n, d) + Number(F, n, d)
  <1> DEFINE S == {e \in E : e.name = n /\ e.day = d}
             T == {e \in F : e.name = n /\ e.day = d}
  <1>1. {e \in E \cup F : e.name = n /\ e.day = d} = S \cup T
    OBVIOUS
  <1>2. S \cap T = {}
    OBVIOUS
  <1>3. IsFiniteSet(S) /\ IsFiniteSet(T)
    BY FS_Subset
  <1>4. Number(E, n, d) = Cardinality(S) /\ Number(F, n, d) = Cardinality(T)
        /\ Number(E \cup F, n, d) = Cardinality(S \cup T)
    BY <1>1 DEF Number
  <1> HIDE DEF S, T
  <1>5. Cardinality(S \cup T) = Cardinality(S) + Cardinality(T) - 0
    BY <1>2, <1>3, FS_Union, FS_EmptySet
  <1>6. Cardinality(S) \in Nat /\ Cardinality(T) \in Nat
    BY <1>3, FS_CardinalityType
  <1> QED
    BY <1>4, <1>5, <1>6

LEMMA NumberOfRest ==
  ASSUME NEW E, IsFiniteSet(E), NEW F, F \subseteq E, NEW n, NEW d
  PROVE  /\ Number(E \ F, n, d) = Number(E, n, d) - Number(F, n, d)
         /\ Number(F, n, d) <= Number(E, n, d)
  <1>1. IsFiniteSet(F) /\ IsFiniteSet(E \ F)
    BY FS_Subset
  <1>2. (E \ F) \cap F = {} /\ (E \ F) \cup F = E
    OBVIOUS
  <1>3. Number(E, n, d) = Number(E \ F, n, d) + Number(F, n, d)
    <2> DEFINE G == E \ F
    <2>1. IsFiniteSet(G) /\ G \cap F = {} /\ G \cup F = E
      BY <1>1, <1>2
    <2> HIDE DEF G
    <2>2. Number(G \cup F, n, d) = Number(G, n, d) + Number(F, n, d)
      BY <1>1, <2>1, NumberOfUnion
    <2>3. Number(E, n, d) = Number(G, n, d) + Number(F, n, d)
      BY <2>1, <2>2
    <2> QED
      BY <2>3 DEF G
  <1>4. PICK a \in Nat : a = Number(E, n, d)
    BY NumberTyped
  <1>5. PICK b \in Nat : b = Number(F, n, d)
    BY <1>1, NumberTyped
  <1>6. PICK c \in Nat : c = Number(E \ F, n, d)
    BY <1>1, NumberTyped
  <1>7. a = c + b
    BY <1>3, <1>4, <1>5, <1>6
  <1>8. c = a - b /\ b <= a
    BY <1>7
  <1> QED
    BY <1>4, <1>5, <1>6, <1>8

(* A history that changes hands keeps its events' names and days.          *)
Handed(E, user, anon) ==
    (E \ {e \in E : e.owner = anon}) \cup
    {[e EXCEPT !.owner = user] : e \in {e \in E : e.owner = anon}}

HandedOn(e, user, anon) == IF e.owner = anon THEN [e EXCEPT !.owner = user] ELSE e

LEMMA HandedOnKeeps ==
  ASSUME NEW e \in Event, NEW user \in Users, NEW anon
  PROVE  /\ HandedOn(e, user, anon) \in Event
         /\ HandedOn(e, user, anon).id = e.id
         /\ HandedOn(e, user, anon).name = e.name
         /\ HandedOn(e, user, anon).day = e.day
  BY DEF HandedOn, Event

LEMMA HandedIs ==
  ASSUME NEW E, NEW user, NEW anon
  PROVE  Handed(E, user, anon) = {HandedOn(e, user, anon) : e \in E}
  <1>1. ASSUME NEW f \in Handed(E, user, anon)
        PROVE  f \in {HandedOn(e, user, anon) : e \in E}
    <2>1. CASE f \in E /\ f.owner # anon
      BY <2>1 DEF HandedOn
    <2>2. ASSUME NEW e \in E, e.owner = anon, f = [e EXCEPT !.owner = user]
          PROVE  f \in {HandedOn(g, user, anon) : g \in E}
      <3>1. f = HandedOn(e, user, anon)
        BY <2>2 DEF HandedOn
      <3> QED
        BY <3>1
    <2> QED
      BY <2>1, <2>2 DEF Handed
  <1>2. ASSUME NEW e \in E
        PROVE  HandedOn(e, user, anon) \in Handed(E, user, anon)
    BY DEF HandedOn, Handed
  <1> QED
    BY <1>1, <1>2

LEMMA HandedKeeps ==
  ASSUME NEW E \in SUBSET Event, IsFiniteSet(E), \A e, f \in E : e.id = f.id => e = f,
         NEW user \in Users, NEW anon
  PROVE  /\ Handed(E, user, anon) \subseteq Event
         /\ IsFiniteSet(Handed(E, user, anon))
         /\ \A e, f \in Handed(E, user, anon) : e.id = f.id => e = f
         /\ \A e \in Handed(E, user, anon) : \E f \in E : f.id = e.id
         /\ \A n, d : Number(Handed(E, user, anon), n, d) = Number(E, n, d)
  <1> DEFINE H == Handed(E, user, anon)
             On(e) == HandedOn(e, user, anon)
  <1>1. H = {On(e) : e \in E}
    BY HandedIs
  <1>2. \A e \in E : On(e) \in Event /\ On(e).id = e.id /\ On(e).name = e.name /\ On(e).day = e.day
    BY HandedOnKeeps
  <1> HIDE DEF H, On
  <1>3. H \subseteq Event /\ \A e \in H : \E f \in E : f.id = e.id
    BY <1>1, <1>2
  <1>4. \A e, f \in H : e.id = f.id => e = f
    <2> SUFFICES ASSUME NEW e \in H, NEW f \in H, e.id = f.id PROVE e = f
      OBVIOUS
    <2>1. PICK e0 \in E : e = On(e0)
      BY <1>1
    <2>2. PICK f0 \in E : f = On(f0)
      BY <1>1
    <2>3. e0.id = f0.id
      BY <1>2, <2>1, <2>2
    <2> QED
      BY <2>1, <2>2, <2>3
  <1>5. IsFiniteSet(H)
    <2> DEFINE map == [e \in E |-> On(e)]
    <2>1. map \in Surjection(E, H)
      BY <1>1 DEF Surjection
    <2> HIDE DEF map
    <2> QED
      BY <2>1, FS_Surjection
  <1>6. ASSUME NEW n, NEW d PROVE Number(H, n, d) = Number(E, n, d)
    <2> DEFINE S == {e \in E : e.name = n /\ e.day = d}
               T == {e \in H : e.name = n /\ e.day = d}
               map == [e \in S |-> On(e)]
    <2>1. \A e \in S : map[e] \in T
      BY <1>1, <1>2
    <2>2. map \in [S -> T]
      BY <2>1
    <2>3. ASSUME NEW e \in S, NEW f \in S, map[e] = map[f] PROVE e = f
      <3>1. On(e) = On(f) /\ e \in E /\ f \in E
        BY <2>3
      <3>2. e.id = f.id
        BY <1>2, <3>1
      <3> QED
        BY <3>1, <3>2
    <2>4. \A t \in T : \E e \in S : map[e] = t
      <3> SUFFICES ASSUME NEW t \in T PROVE \E e \in S : map[e] = t
        OBVIOUS
      <3>1. PICK e \in E : t = On(e)
        BY <1>1
      <3>2. e \in S
        BY <1>2, <3>1
      <3> QED
        BY <3>1, <3>2
    <2>5. IsFiniteSet(S)
      BY FS_Subset
    <2>6. Number(H, n, d) = Cardinality(T) /\ Number(E, n, d) = Cardinality(S)
      BY DEF Number
    <2> HIDE DEF map, S, T
    <2>7. map \in Bijection(S, T)
      BY <2>2, <2>3, <2>4 DEF Bijection, Injection, Surjection, IsInjective
    <2> QED
      BY <2>5, <2>6, <2>7, FS_Bijection DEF ExistsBijection
  <1> QED
    BY <1>3, <1>4, <1>5, <1>6 DEF H

-----------------------------------------------------------------------------
(* Sessions and their rows *)

Alike(a, b) == a.status = b.status /\ a.user = b.user /\ a.org = b.org /\ a.routed = b.routed

Working == {"flush", "check", "mail", "hook", "mark"}
Settled == {"check", "mail", "hook", "mark"}
Sending == {"mail", "hook", "mark"}

(* What a session's own state says at each of its stops.                   *)
Situated(me) ==
    /\ me.pc = "idle" => me = Idle
    /\ me.pc \in {"ask", "user"} \cup Working => me.user \in Users
    /\ me.pc = "ask" => me.kind = "deepdive" /\ me.request = {}
    /\ me.pc = "delete" <=> me.kind = "retention"
    /\ me.kind = "deepdive" => me.todo = {}
    /\ me.kind # "deepdive" => me.request = {}
    /\ \A e, f \in me.request : e = f
    /\ me.pc \in Working => /\ me.lead \in LeadIds
                            /\ Alike(me.row, me.seen)
                            /\ me.row.user = me.user /\ me.row.status # "none"
    /\ me.pc \in Settled => me.row = me.seen
    /\ me.pc \in Sending => me.row.routed = Never

LEMMA NoLeadTyped == NoLead \in Lead /\ Never \notin Nat
  BY DEF NoLead, Lead, Never

LEMMA DaysTyped == Days \subseteq Nat /\ Never \notin Days
  BY Constants DEF Days, Never

LEMMA NoCountsTyped ==
  NoCounts \in [Names -> [Days -> Nat]] /\ \A n \in Names, d \in Days : NoCounts[n][d] = 0
  BY DEF NoCounts

LEMMA IdleTyped ==
  /\ Idle \in Session
  /\ Idle.pc = "idle" /\ Idle.kind = "none" /\ Idle.user = Nobody /\ Idle.request = {}
  /\ Idle.todo = {} /\ Idle.optedOut = {} /\ Idle.lead = 0 /\ Idle.counts = NoCounts
  /\ \A l \in LeadIds : Idle.mine[l] = NoLead
  <1> DEFINE mine == [l \in LeadIds |-> NoLead]
  <1>1. mine \in [LeadIds -> Lead] /\ \A l \in LeadIds : mine[l] = NoLead
    BY NoLeadTyped
  <1>2. Idle = [kind |-> "none", pc |-> "idle", todo |-> {}, user |-> Nobody,
                optedOut |-> {}, request |-> {}, lead |-> 0, seen |-> NoLead, row |-> NoLead,
                mine |-> mine, mailed |-> FALSE, hooked |-> FALSE, counts |-> NoCounts]
    BY DEF Idle
  <1> HIDE DEF mine
  <1> QED
    BY <1>1, <1>2, NoLeadTyped, NoCountsTyped DEF Session

LEMMA IdleSituated == Situated(Idle)
  BY IdleTyped DEF Situated, Working, Settled, Sending

LEMMA SeenTyped ==
  ASSUME session \in [Sessions -> Session], leads \in [LeadIds -> Lead],
         NEW s \in Sessions, NEW l \in LeadIds
  PROVE  Seen(s, l) \in Lead
  BY DEF Seen, Wrote, Session

LEMMA WroteMeans ==
  ASSUME NEW s, NEW l \in LeadIds
  PROVE  /\ l \in Wrote(s) <=> session[s].mine[l] # NoLead
         /\ session[s].mine[l] # NoLead => Seen(s, l) = session[s].mine[l]
         /\ session[s].mine[l] = NoLead => Seen(s, l) = leads[l]
  BY DEF Seen, Wrote

(* The columns an UPDATE leaves alone keep what the session sees there.    *)
LEMMA FlushedMeans ==
  ASSUME NEW s, NEW l, NEW seen \in Lead, NEW new \in Lead, Seen(s, l) \in Lead
  PROVE  LET row == Flushed(s, l, seen, new) IN
         /\ row \in Lead
         /\ row.status = IF new.status # seen.status THEN new.status ELSE Seen(s, l).status
         /\ row.user = IF new.user # seen.user THEN new.user ELSE Seen(s, l).user
         /\ row.org = IF new.org # seen.org THEN new.org ELSE Seen(s, l).org
         /\ row.routed = IF new.routed # seen.routed THEN new.routed ELSE Seen(s, l).routed
  <1>1. PICK r \in Lead : r = Seen(s, l)
    OBVIOUS
  <1> DEFINE Of(k) == IF new[k] # seen[k] THEN new[k] ELSE r[k]
             row == [status |-> Of("status"), user |-> Of("user"), org |-> Of("org"),
                     score |-> Of("score"), instant |-> Of("instant"), routed |-> Of("routed")]
  <1>2. DOMAIN new = {"status", "user", "org", "score", "instant", "routed"}
    BY DEF Lead
  <1>3. Flushed(s, l, seen, new) = [k \in DOMAIN new |-> Of(k)]
    BY <1>1 DEF Flushed
  <1>4. row = [k \in DOMAIN new |-> Of(k)]
    <2> HIDE DEF Of
    <2> QED
      BY <1>2
  <1>5. row \in Lead
    BY DEF Lead
  <1>6. Flushed(s, l, seen, new) = row
    BY <1>3, <1>4
  <1> QED
    BY <1>1, <1>5, <1>6

LEMMA FlushedAlike ==
  ASSUME NEW s, NEW l, NEW seen \in Lead, NEW new \in Lead, Seen(s, l) \in Lead,
         Alike(new, seen)
  PROVE  Flushed(s, l, seen, new) \in Lead /\ Alike(Flushed(s, l, seen, new), Seen(s, l))
  BY FlushedMeans DEF Alike

LEMMA FlushedSame ==
  ASSUME NEW s, NEW l, NEW seen \in Lead, Seen(s, l) \in Lead
  PROVE  Flushed(s, l, seen, seen) = Seen(s, l)
  <1>1. DOMAIN seen = {"status", "user", "org", "score", "instant", "routed"}
    BY DEF Lead
  <1>2. Seen(s, l) = [k \in DOMAIN seen |-> Seen(s, l)[k]]
    BY <1>1 DEF Lead
  <1> QED
    BY <1>2 DEF Flushed

-----------------------------------------------------------------------------
(* Types.  Events and the events of open requests have ids of their own,   *)
(* given out in order, and no user erases more events than were written.   *)

Identified ==
    /\ IsFiniteSet(events)
    /\ \A e \in events : e.id <= used.acts
    /\ \A s \in Sessions : \A e \in session[s].request :
         /\ e.id <= used.acts
         /\ \A f \in events : e.id # f.id
         /\ \A t \in Sessions \ {s} : \A f \in session[t].request : e.id # f.id

Counted == \A n \in Names, d \in Days : Number(events, n, d) <= written[n][d]

Typed ==
    /\ TypeOK
    /\ \A s \in Sessions : Situated(session[s])
    /\ Identified
    /\ Counted

LEMMA SessionTyped ==
  ASSUME Typed, NEW s \in Sessions
  PROVE  session[s] \in Session /\ Situated(session[s])
  BY DEF Typed, TypeOK

(* What a session is about to write is new.                                *)
LEMMA RequestIsNew ==
  ASSUME Typed, NEW s \in Sessions
  PROVE  events \cap session[s].request = {}
  <1>1. \A e \in session[s].request, f \in events : e.id # f.id
    BY DEF Typed, Identified
  <1> QED
    BY <1>1

LEMMA RowsTyped ==
  ASSUME Typed, NEW s \in Sessions, NEW l \in LeadIds
  PROVE  leads[l] \in Lead /\ session[s].mine[l] \in Lead /\ Seen(s, l) \in Lead
  <1>1. session[s].mine[l] \in Lead /\ leads[l] \in Lead
    BY SessionTyped DEF Typed, TypeOK, Session
  <1>2. session \in [Sessions -> Session] /\ leads \in [LeadIds -> Lead]
    BY DEF Typed, TypeOK
  <1> QED
    BY <1>1, <1>2, SeenTyped

LEMMA InitTyped == Init => Typed
  <1> SUFFICES ASSUME Init PROVE Typed
    OBVIOUS
  <1>1. TypeOK
    BY Constants, NoLeadTyped, NoCountsTyped, IdleTyped DEF Init, TypeOK, Days
  <1>2. \A s \in Sessions : Situated(session[s])
    BY IdleSituated DEF Init
  <1>3. Identified
    BY FS_EmptySet, IdleTyped DEF Init, Identified
  <1>4. Counted
    <2> SUFFICES ASSUME NEW n \in Names, NEW d \in Days PROVE Number({}, n, d) <= NoCounts[n][d]
      BY DEF Init, Counted
    <2>1. Number({}, n, d) = 0
      BY NumberOfNone
    <2> QED
      BY <2>1, NoCountsTyped
  <1> QED
    BY <1>1, <1>2, <1>3, <1>4 DEF Typed

LEMMA Moves ==
  ASSUME session \in [Sessions -> Session], NEW s \in Sessions, NEW next, Becomes(s, next)
  PROVE  session'[s] = next /\ \A t \in Sessions \ {s} : session'[t] = session[t]
  BY DEF Becomes

(* What most steps leave alone.                                            *)
Steady(me, next) ==
    /\ next \in Session /\ Situated(next)
    /\ next.kind = me.kind /\ next.optedOut = me.optedOut /\ next.counts = me.counts

(* A session has gone on to a user it had not come to, or to its end.      *)
Turned(me, next) ==
    /\ Steady(me, next)
    /\ next.request = me.request
    /\ next.pc \in {"user", "commit"}
    /\ next.pc = "user" => next.user \in me.todo

LEMMA ContinueMeans ==
  ASSUME NEW s, NEW me \in Session, Continue(s, me), me.kind # "retention",
         me.kind = "deepdive" => me.todo = {},
         me.kind # "deepdive" => me.request = {},
         \A e, f \in me.request : e = f
  PROVE  \E next : Becomes(s, next) /\ Turned(me, next) /\ next.mine = me.mine
  <1> DEFINE rest == [me EXCEPT !.lead = 0, !.seen = NoLead, !.row = NoLead,
                                !.mailed = FALSE, !.hooked = FALSE]
  <1>1. /\ rest \in Session /\ rest.kind = me.kind /\ rest.optedOut = me.optedOut
        /\ rest.request = me.request /\ rest.mine = me.mine /\ rest.counts = me.counts
    BY NoLeadTyped DEF Session
  <1>2. \/ me.todo = {} /\ Becomes(s, [rest EXCEPT !.user = Nobody, !.pc = "commit"])
        \/ \E user \in me.todo :
             Becomes(s, [rest EXCEPT !.user = user, !.todo = me.todo \ {user}, !.pc = "user"])
    <2>1. rest.todo = me.todo
      BY DEF Session
    <2> QED
      BY <2>1 DEF Continue
  <1> HIDE DEF rest
  <1>3. CASE me.todo = {} /\ Becomes(s, [rest EXCEPT !.user = Nobody, !.pc = "commit"])
    <2> DEFINE next == [rest EXCEPT !.user = Nobody, !.pc = "commit"]
    <2>1. /\ next \in Session /\ next.pc = "commit" /\ next.todo = rest.todo
          /\ next.kind = me.kind /\ next.optedOut = me.optedOut
          /\ next.request = me.request /\ next.mine = me.mine /\ next.counts = me.counts
      BY <1>1 DEF Session
    <2>2. rest.todo = {}
      BY <1>3 DEF rest, Session
    <2>3. Becomes(s, next)
      BY <1>3
    <2> HIDE DEF next
    <2>4. Situated(next)
      BY <2>1, <2>2 DEF Situated, Working, Settled, Sending
    <2> QED
      BY <2>1, <2>3, <2>4 DEF Turned, Steady
  <1>4. ASSUME NEW user \in me.todo,
               Becomes(s, [rest EXCEPT !.user = user, !.todo = me.todo \ {user}, !.pc = "user"])
        PROVE  \E next : Becomes(s, next) /\ Turned(me, next) /\ next.mine = me.mine
    <2> DEFINE next == [rest EXCEPT !.user = user, !.todo = me.todo \ {user}, !.pc = "user"]
    <2>1. /\ next \in Session /\ next.pc = "user" /\ next.user = user /\ next.user \in Users
          /\ next.kind = me.kind /\ next.optedOut = me.optedOut /\ next.todo \subseteq me.todo
          /\ next.request = me.request /\ next.mine = me.mine /\ next.counts = me.counts
      BY <1>1 DEF Session
    <2>2. Becomes(s, next)
      BY <1>4
    <2> HIDE DEF next
    <2>3. Situated(next)
      BY <2>1 DEF Situated, Working, Settled, Sending
    <2> QED
      BY <2>1, <2>2, <2>3 DEF Turned, Steady
  <1> QED
    BY <1>2, <1>3, <1>4

(* A session has begun and has done nothing yet.                           *)
Started(next) ==
    /\ next \in Session /\ Situated(next)
    /\ next.pc \in {"user", "commit", "ask", "delete"}
    /\ next.request = {}
    /\ \A l \in LeadIds : next.mine[l] = NoLead

LEMMA StartHourlyMeans ==
  ASSUME Typed, NEW s \in Sessions, StartHourly(s)
  PROVE  \E next : Becomes(s, next) /\ Started(next) /\ next.kind = "hourly"
  <1>1. PICK me \in Session : me = [Idle EXCEPT !.kind = "hourly", !.todo = Users,
                                                !.optedOut = optedOut]
    BY IdleTyped DEF Session, Typed, TypeOK
  <1>2. me.kind = "hourly" /\ me.request = {} /\ \A l \in LeadIds : me.mine[l] = NoLead
    BY <1>1, IdleTyped DEF Session
  <1>3. Continue(s, me)
    BY <1>1 DEF StartHourly
  <1>4. PICK next : Becomes(s, next) /\ Turned(me, next) /\ next.mine = me.mine
    BY <1>2, <1>3, ContinueMeans
  <1> QED
    BY <1>2, <1>4 DEF Turned, Steady, Started

LEMMA StartDeepDiveMeans ==
  ASSUME Typed, NEW s \in Sessions, NEW user \in Users, StartDeepDive(s, user)
  PROVE  \E next : /\ Becomes(s, next) /\ Started(next)
                   /\ next.kind = "deepdive" /\ next.pc = "ask" /\ next.user = user
                   /\ next.optedOut = optedOut
  <1>1. PICK next \in Session : next = [Idle EXCEPT !.kind = "deepdive", !.pc = "ask",
                                                    !.user = user, !.optedOut = optedOut]
    BY IdleTyped DEF Session, Typed, TypeOK
  <1>2. /\ next.kind = "deepdive" /\ next.pc = "ask" /\ next.user = user
        /\ next.optedOut = optedOut /\ next.request = {} /\ next.todo = {}
        /\ \A l \in LeadIds : next.mine[l] = NoLead
    BY <1>1, IdleTyped DEF Session
  <1>3. Situated(next)
    BY <1>2 DEF Situated, Working, Settled, Sending
  <1>4. Becomes(s, next)
    BY <1>1 DEF StartDeepDive
  <1> QED
    BY <1>2, <1>3, <1>4 DEF Started

LEMMA StartRetentionMeans ==
  ASSUME Typed, NEW s \in Sessions, StartRetention(s)
  PROVE  \E next : /\ Becomes(s, next) /\ Started(next)
                   /\ next.kind = "retention" /\ next.pc = "delete"
                   /\ \A n \in Names, d \in Days : next.counts[n][d] = Number(Expired, n, d)
  <1> DEFINE counts == [n \in Names |-> [d \in Days |-> Number(Expired, n, d)]]
  <1>1. counts \in [Names -> [Days -> Nat]]
        /\ \A n \in Names, d \in Days : counts[n][d] = Number(Expired, n, d)
    <2>1. IsFiniteSet(Expired)
      BY FS_Subset DEF Expired, Typed, Identified
    <2> QED
      BY <2>1, NumberTyped
  <1>2. Becomes(s, [Idle EXCEPT !.kind = "retention", !.pc = "delete", !.counts = counts])
    BY DEF StartRetention
  <1> HIDE DEF counts
  <1>3. PICK next \in Session :
          next = [Idle EXCEPT !.kind = "retention", !.pc = "delete", !.counts = counts]
    BY <1>1, IdleTyped DEF Session
  <1>4. /\ next.kind = "retention" /\ next.pc = "delete" /\ next.counts = counts
        /\ next.request = {} /\ \A l \in LeadIds : next.mine[l] = NoLead
    BY <1>3, IdleTyped DEF Session
  <1>5. Situated(next)
    BY <1>4 DEF Situated, Working, Settled, Sending
  <1>6. Becomes(s, next)
    BY <1>2, <1>3
  <1>7. \A n \in Names, d \in Days : next.counts[n][d] = Number(Expired, n, d)
    BY <1>1, <1>4
  <1>8. Started(next)
    BY <1>4, <1>5 DEF Started
  <1> QED
    BY <1>4, <1>6, <1>7, <1>8

LEMMA ActMeans ==
  ASSUME Typed, Act
  PROVE  /\ used.acts \in Nat /\ used.acts < MaxActs
         /\ used' = [used EXCEPT !.acts = used.acts + 1]
         /\ used'.acts = used.acts + 1
         /\ used' \in [acts : 0..MaxActs, sessions : 0..MaxSessions]
  BY Constants DEF Act, Typed, TypeOK

LEMMA OpenMeans ==
  ASSUME Typed, NEW s \in Sessions, Open(s)
  PROVE  /\ session[s].pc = "idle" /\ session[s] = Idle
         /\ used'.acts = used.acts
         /\ used' \in [acts : 0..MaxActs, sessions : 0..MaxSessions]
  BY SMTT(30), SessionTyped, Constants DEF Open, Typed, TypeOK, Situated

LEMMA NewEventTyped ==
  ASSUME Typed, Act, NEW owner \in Users \cup Browsers, NEW name \in Names, NEW day \in Days
  PROVE  /\ NewEvent(owner, name, day) \in Event
         /\ NewEvent(owner, name, day).id = used.acts + 1
         /\ NewEvent(owner, name, day).owner = owner
         /\ NewEvent(owner, name, day).name = name
         /\ NewEvent(owner, name, day).day = day
  BY ActMeans, Constants DEF NewEvent, Event, EventIds

LEMMA AskDeepDiveMeans ==
  ASSUME Typed, NEW s \in Sessions, AskDeepDive(s)
  PROVE  \E next :
           /\ Becomes(s, next) /\ Steady(session[s], next)
           /\ session[s].pc = "ask" /\ next.pc = "user"
           /\ next.user = session[s].user /\ next.mine = session[s].mine
           /\ \/ /\ next.user \in optedOut
                 /\ next.request = {} /\ used' = used
              \/ /\ next.user \notin optedOut
                 /\ next.request = {NewEvent(next.user, DeepDive, today)} /\ Act
  <1> DEFINE me == session[s]
  <1>1. me \in Session /\ Situated(me) /\ me.pc = "ask"
    BY SessionTyped DEF AskDeepDive
  <1>2. me.kind = "deepdive" /\ me.user \in Users /\ me.todo = {} /\ me.request = {}
    BY <1>1 DEF Situated
  <1>3. CASE /\ me.user \in optedOut
             /\ Becomes(s, [me EXCEPT !.pc = "user"])
             /\ UNCHANGED used
    <2> HIDE DEF me
    <2>1. PICK next \in Session : next = [me EXCEPT !.pc = "user"]
      BY <1>1 DEF Session
    <2>2. /\ next.pc = "user" /\ next.user = me.user /\ next.mine = me.mine
          /\ next.request = {} /\ next.kind = me.kind /\ next.optedOut = me.optedOut
          /\ next.counts = me.counts /\ next.todo = {}
      BY <1>1, <1>2, <2>1 DEF Session
    <2>3. Steady(me, next)
      BY <1>2, <2>2 DEF Steady, Situated, Working, Settled, Sending
    <2> QED
      BY <1>1, <1>3, <2>1, <2>2, <2>3 DEF me
  <1>4. CASE /\ me.user \notin optedOut /\ Act
             /\ Becomes(s, [me EXCEPT !.pc = "user",
                                      !.request = {NewEvent(me.user, DeepDive, today)}])
    <2>1. PICK e \in Event : e = NewEvent(me.user, DeepDive, today)
      BY <1>2, <1>4, NewEventTyped, Constants DEF Typed, TypeOK
    <2> HIDE DEF me
    <2>2. PICK next \in Session : next = [me EXCEPT !.pc = "user", !.request = {e}]
      BY <1>1 DEF Session
    <2>3. /\ next.pc = "user" /\ next.user = me.user /\ next.mine = me.mine
          /\ next.request = {e} /\ next.kind = me.kind /\ next.optedOut = me.optedOut
          /\ next.counts = me.counts /\ next.todo = {}
      BY <1>1, <1>2, <2>2 DEF Session
    <2>4. Steady(me, next)
      BY <1>2, <2>3 DEF Steady, Situated, Working, Settled, Sending
    <2> QED
      BY <1>1, <1>4, <2>1, <2>2, <2>3, <2>4 DEF me
  <1> QED
    BY <1>3, <1>4 DEF AskDeepDive

(* A session has put a new lead in a free row.                             *)
Inserted(me, next, l, row) ==
    /\ Steady(me, next)
    /\ next.request = me.request
    /\ next.pc = "check" /\ next.user = me.user /\ next.lead = l /\ next.row = row
    /\ next.mine = [me.mine EXCEPT ![l] = row]
    /\ row \in Lead /\ row.status = "new" /\ row.user = me.user /\ row.routed = Never

LEMMA InsertMeans ==
  ASSUME Typed, NEW s \in Sessions, NEW row \in Lead, Insert(s, row),
         session[s].pc = "user", row.status = "new", row.user = session[s].user,
         row.routed = Never
  PROVE  \E next, l : /\ l \in Free /\ Becomes(s, next)
                      /\ Inserted(session[s], next, l, row)
                      /\ sent' = [sent EXCEPT ![l] = {}]
  <1> DEFINE me == session[s]
  <1>1. me \in Session /\ Situated(me) /\ me.user \in Users
    BY SessionTyped DEF Situated
  <1>2. Min(Free) \in Free /\ Free \subseteq LeadIds
    <2>1. Free \subseteq Nat /\ Free # {}
      BY Constants DEF Free, LeadIds, Insert
    <2> QED
      BY <2>1, LeastFree DEF Free
  <1>3. PICK l \in Free : l = Min(Free)
    BY <1>2
  <1> HIDE DEF me
  <1>4. PICK mine \in [LeadIds -> Lead] : mine = [me.mine EXCEPT ![l] = row]
    BY <1>1 DEF Session
  <1>5. PICK next \in Session :
          next = [me EXCEPT !.pc = "check", !.lead = l, !.seen = row, !.row = row, !.mine = mine]
    BY <1>1, <1>2, <1>4 DEF Session
  <1>6. Becomes(s, next) /\ sent' = [sent EXCEPT ![l] = {}]
    BY <1>1, <1>3, <1>4, <1>5 DEF Insert, me, Session
  <1>7. /\ next.pc = "check" /\ next.user = me.user /\ next.lead = l
        /\ next.row = row /\ next.seen = row /\ next.mine = mine /\ next.todo = me.todo
        /\ next.request = me.request /\ next.kind = me.kind
        /\ next.optedOut = me.optedOut /\ next.counts = me.counts
    BY <1>1, <1>5 DEF Session
  <1>8. me.pc = "user"
    BY DEF me
  <1>9. Situated(next)
    BY <1>1, <1>2, <1>7, <1>8 DEF Situated, Working, Settled, Sending, Alike, me
  <1>10. Inserted(me, next, l, row)
    BY <1>4, <1>7, <1>9 DEF Inserted, Steady, me
  <1> QED
    BY <1>6, <1>10 DEF me

(* A session has taken up a lead it saw as `row'.                          *)
Picked(me, next, l, row) ==
    /\ Steady(me, next)
    /\ next.request = me.request /\ next.mine = me.mine
    /\ next.pc = "flush" /\ next.user = me.user /\ next.lead = l
    /\ Alike(next.row, row) /\ Alike(next.seen, row)

(* A user gives no signal, or asked not to be tracked.                     *)
Quiet(s) ==
    \/ session[s].user \in session[s].optedOut
    \/ \A n \in Names : Matched(SignalsOf(s, session[s].user), n) = 0

LEMMA SignalsTyped ==
  ASSUME Typed, NEW s \in Sessions, NEW user
  PROVE  IsFiniteSet(SignalsOf(s, user))
  <1>1. IsFiniteSet(OwnedBy(user))
    BY FS_Subset DEF OwnedBy, Typed, Identified
  <1>2. IsFiniteSet(session[s].request)
    <2>1. \A e, f \in session[s].request : e = f
      BY SessionTyped DEF Situated
    <2>2. session[s].request = {} \/ \E e : session[s].request = {e}
      BY <2>1
    <2> QED
      BY ZenonT(60), <2>2, FS_EmptySet, FS_Singleton
  <1> QED
    BY <1>1, <1>2, FS_Union DEF SignalsOf

LEMMA ScoredTyped ==
  ASSUME Typed, NEW s \in Sessions, session[s].pc = "user",
         NEW org \in {NoOrg, Org[session[s].user]}, NEW score \in Nat, NEW instant \in BOOLEAN
  PROVE  LET row == [NoLead EXCEPT !.status = "new", !.user = session[s].user, !.org = org,
                                   !.score = score, !.instant = instant]
         IN  row \in Lead /\ row.status = "new" /\ row.user = session[s].user
             /\ row.routed = Never /\ row.org = org
  <1>1. session[s].user \in Users
    BY SessionTyped DEF Situated
  <1>2. org \in Orgs \cup {NoOrg}
    <2>1. Org \in [Users -> Orgs \cup {NoOrg}]
      BY LeadsAssumption
    <2> QED
      BY <1>1, <2>1
  <1> QED
    BY <1>1, <1>2 DEF NoLead, Lead

LEMMA PickMeans ==
  ASSUME NEW me \in Session, Situated(me), me.pc = "user", NEW l \in LeadIds,
         NEW row \in Lead, row.user = me.user, row.status \in {"new", "routed"},
         NEW score \in Nat, NEW instant \in BOOLEAN,
         NEW next, next = [me EXCEPT !.pc = "flush", !.lead = l, !.seen = row,
                                     !.row = [row EXCEPT !.score = score, !.instant = instant]]
  PROVE  Picked(me, next, l, row)
  <1>1. PICK new \in Lead : new = [row EXCEPT !.score = score, !.instant = instant]
    BY DEF Lead
  <1>2. Alike(new, row)
    BY <1>1 DEF Alike, Lead
  <1>3. next = [me EXCEPT !.pc = "flush", !.lead = l, !.seen = row, !.row = new]
    BY <1>1
  <1>4. /\ next \in Session
        /\ next.pc = "flush" /\ next.user = me.user /\ next.lead = l
        /\ next.row = new /\ next.seen = row /\ next.mine = me.mine /\ next.todo = me.todo
        /\ next.request = me.request /\ next.kind = me.kind
        /\ next.optedOut = me.optedOut /\ next.counts = me.counts
    BY ZenonT(60), <1>3 DEF Session
  <1>5. Alike(row, row)
    BY DEF Alike
  <1>6. Situated(next)
    <2>1. me.user \in Users /\ next.row.user = me.user /\ next.row.status # "none"
          /\ Alike(next.row, next.seen)
      BY <1>2, <1>4 DEF Situated, Alike
    <2> QED
      BY <1>4, <2>1 DEF Situated, Working, Settled, Sending
  <1> QED
    BY <1>2, <1>4, <1>5, <1>6 DEF Picked, Steady

LEMMA ScoreUserMeans ==
  ASSUME Typed, NEW s \in Sessions, ScoreUser(s)
  PROVE  /\ session[s].pc = "user" /\ session[s].user \in Users
         /\ \/ \E next : /\ Becomes(s, next) /\ Turned(session[s], next)
                         /\ next.mine = session[s].mine /\ sent' = sent
            \/ \E next, l, row :
                 /\ l \in Free /\ Becomes(s, next)
                 /\ Inserted(session[s], next, l, row)
                 /\ sent' = [sent EXCEPT ![l] = {}]
                 /\ \/ OpenLeads(s, session[s].user) = {}
                    \/ /\ session[s].kind = "deepdive" /\ Quiet(s)
                       /\ session[s].user \notin session[s].optedOut
            \/ \E next, l : /\ l \in OpenLeads(s, session[s].user) /\ Becomes(s, next)
                            /\ Picked(session[s], next, l, Seen(s, l))
                            /\ sent' = sent
  <1> DEFINE me == session[s]
             E == SignalsOf(s, me.user)
  <1>1. me \in Session /\ Situated(me) /\ me.pc = "user"
    BY SessionTyped DEF ScoreUser
  <1>2. /\ me.user \in Users /\ me.kind # "retention"
        /\ me.kind = "deepdive" => me.todo = {}
        /\ me.kind # "deepdive" => me.request = {}
        /\ \A e, f \in me.request : e = f
    BY <1>1 DEF Situated
  <1>3. PICK score \in Nat : score = Score(E)
    BY SignalsTyped, ScoreTyped
  <1>4. PICK instant \in BOOLEAN : instant = IsInstant(E)
    <2>1. IsInstant(E) \in BOOLEAN
      <3>1. IsInstant(E) <=> Matched(E, DeepDive) > 0
        BY DEF IsInstant
      <3> QED
        BY DEF IsInstant
    <2> QED
      BY <2>1, Zenon
  <1> DEFINE Row(org, points, at) ==
               [NoLead EXCEPT !.status = "new", !.user = me.user, !.org = org,
                              !.score = points, !.instant = at]
  <1>5. CASE Continue(s, me) /\ UNCHANGED sent
    BY <1>1, <1>2, <1>5, ContinueMeans
  <1>6. ASSUME NEW org \in {NoOrg, Org[me.user]}, Quiet(s), me.kind = "deepdive",
               me.user \notin me.optedOut,
               Insert(s, [Row(Org[me.user], score, instant) EXCEPT !.org = org,
                                                !.score = FallbackScore, !.instant = TRUE])
        PROVE  \E next, l, row :
                 /\ l \in Free /\ Becomes(s, next) /\ Inserted(me, next, l, row)
                 /\ sent' = [sent EXCEPT ![l] = {}]
    <2>1. [Row(Org[me.user], score, instant) EXCEPT !.org = org, !.score = FallbackScore,
                                                    !.instant = TRUE]
          = Row(org, FallbackScore, TRUE)
      BY DEF NoLead
    <2>2. Insert(s, Row(org, FallbackScore, TRUE))
      BY <1>6, <2>1
    <2>3. FallbackScore \in Nat
      BY Constants
    <2>4. /\ Row(org, FallbackScore, TRUE) \in Lead
          /\ Row(org, FallbackScore, TRUE).status = "new"
          /\ Row(org, FallbackScore, TRUE).user = me.user
          /\ Row(org, FallbackScore, TRUE).routed = Never
      BY ZenonT(60), <1>1, <2>3, ScoredTyped
    <2> HIDE DEF Row
    <2> QED
      BY <1>1, <2>2, <2>4, InsertMeans
  <1>7. ASSUME Insert(s, Row(Org[me.user], score, instant))
        PROVE  \E next, l, row :
                 /\ l \in Free /\ Becomes(s, next) /\ Inserted(me, next, l, row)
                 /\ sent' = [sent EXCEPT ![l] = {}]
    <2>1. /\ Row(Org[me.user], score, instant) \in Lead
          /\ Row(Org[me.user], score, instant).status = "new"
          /\ Row(Org[me.user], score, instant).user = me.user
          /\ Row(Org[me.user], score, instant).routed = Never
      BY ZenonT(60), <1>1, ScoredTyped
    <2> HIDE DEF Row
    <2> QED
      BY <1>1, <1>7, <2>1, InsertMeans
  <1>8. ASSUME NEW l \in OpenLeads(s, me.user),
               Becomes(s, [me EXCEPT !.pc = "flush", !.lead = l, !.seen = Seen(s, l),
                                     !.row = [Seen(s, l) EXCEPT !.score = score,
                                                                !.instant = instant]])
        PROVE  \E next : Becomes(s, next) /\ Picked(me, next, l, Seen(s, l))
    <2>1. l \in LeadIds /\ Seen(s, l).user = me.user /\ Seen(s, l).status \in {"new", "routed"}
      BY DEF OpenLeads
    <2>2. Seen(s, l) \in Lead
      BY <2>1, RowsTyped
    <2> HIDE DEF me
    <2> QED
      BY <1>1, <1>8, <2>1, <2>2, PickMeans
  <1>9. /\ Row(Org[me.user], score, instant).score = score
        /\ Row(Org[me.user], score, instant).instant = instant
    BY DEF NoLead
  <1>10. \/ Continue(s, me) /\ UNCHANGED sent
         \/ /\ Quiet(s) /\ me.kind = "deepdive" /\ me.user \notin me.optedOut
            /\ \E org \in {NoOrg, Org[me.user]} :
                 Insert(s, [Row(Org[me.user], score, instant) EXCEPT !.org = org,
                                  !.score = FallbackScore, !.instant = TRUE])
         \/ OpenLeads(s, me.user) = {} /\ Insert(s, Row(Org[me.user], score, instant))
         \/ /\ \E l \in OpenLeads(s, me.user) :
                 Becomes(s, [me EXCEPT !.pc = "flush", !.lead = l, !.seen = Seen(s, l),
                                       !.row = [Seen(s, l) EXCEPT !.score = score,
                                                                  !.instant = instant]])
            /\ UNCHANGED sent
    <2>1. ScoreUser(s)
      OBVIOUS
    <2> QED
      BY <1>3, <1>4, <1>9, <2>1, Zenon DEF ScoreUser, Quiet
  <1> HIDE DEF Row
  <1> QED
    BY <1>1, <1>2, <1>5, <1>6, <1>7, <1>8, <1>10

(* A session goes on with its lead.                                        *)
GoesOn(me, next) ==
    /\ Steady(me, next)
    /\ next.request = me.request
    /\ next.user = me.user /\ next.lead = me.lead /\ next.row = me.row

LEMMA WorkingTyped ==
  ASSUME Typed, NEW s \in Sessions, session[s].pc \in Working
  PROVE  LET me == session[s] IN
         /\ me.lead \in LeadIds /\ me.user \in Users
         /\ me.row \in Lead /\ me.seen \in Lead /\ Alike(me.row, me.seen)
         /\ me.row.user = me.user /\ me.row.status # "none"
         /\ me.pc # "flush" => me.row = me.seen
         /\ me.pc \in Sending => me.row.routed = Never
         /\ Seen(s, me.lead) \in Lead
         /\ me.kind # "retention"
         /\ me.kind = "deepdive" => me.todo = {}
         /\ me.kind # "deepdive" => me.request = {}
         /\ \A e, f \in me.request : e = f
  <1>1. session[s] \in Session /\ Situated(session[s])
    BY SessionTyped
  <1> QED
    BY <1>1, RowsTyped DEF Situated, Working, Settled, Sending, Session

(* An UPDATE has been sent, if a column changed, with the row locked.      *)
Sends(s, next, row) ==
    /\ GoesOn(session[s], next)
    /\ session[s].pc = "flush" /\ next.pc = "check"
    /\ row \in Lead /\ Alike(row, Seen(s, session[s].lead))
    /\ \/ next.mine = session[s].mine
       \/ /\ ~Locked(s, session[s].lead)
          /\ next.mine = [session[s].mine EXCEPT ![session[s].lead] = row]

LEMMA FlushLeadMeans ==
  ASSUME Typed, NEW s \in Sessions, FlushLead(s)
  PROVE  \E next, row : Becomes(s, next) /\ Sends(s, next, row)
  <1> DEFINE me == session[s]
  <1>1. me \in Session /\ Situated(me) /\ me.pc = "flush" /\ me.pc \in Working
    BY SessionTyped DEF FlushLead, Working
  <1>2. PICK row \in Lead : /\ row = Flushed(s, me.lead, me.seen, me.row)
                            /\ Alike(row, Seen(s, me.lead))
    BY <1>1, WorkingTyped, FlushedAlike
  <1>3. PICK mine : mine = IF me.row = me.seen THEN me.mine ELSE [me.mine EXCEPT ![me.lead] = row]
    OBVIOUS
  <1>4. mine \in [LeadIds -> Lead]
    BY <1>1, <1>2, <1>3 DEF Session
  <1>5. /\ me.lead \in LeadIds /\ me.user \in Users /\ me.row \in Lead /\ me.row.user = me.user
        /\ me.row.status # "none" /\ Alike(me.row, me.row)
    BY <1>1, WorkingTyped DEF Alike
  <1>6. Becomes(s, [me EXCEPT !.pc = "check", !.seen = me.row, !.mine = mine])
    <2>1. Becomes(s, [me EXCEPT !.pc = "check", !.seen = me.row,
                                !.mine[me.lead] =
                                   IF me.row = me.seen THEN me.mine[me.lead]
                                   ELSE Flushed(s, me.lead, me.seen, me.row)])
      BY DEF FlushLead
    <2>2. [me.mine EXCEPT ![me.lead] = IF me.row = me.seen THEN me.mine[me.lead]
                                       ELSE Flushed(s, me.lead, me.seen, me.row)] = mine
      BY <1>1, <1>2, <1>3 DEF Session
    <2>3. [me EXCEPT !.pc = "check", !.seen = me.row,
                     !.mine[me.lead] = IF me.row = me.seen THEN me.mine[me.lead]
                                       ELSE Flushed(s, me.lead, me.seen, me.row)]
          = [me EXCEPT !.pc = "check", !.seen = me.row, !.mine = mine]
      BY <1>1, <2>2 DEF Session
    <2> QED
      BY <2>1, <2>3
  <1>7. me.row # me.seen => ~Locked(s, me.lead)
    BY DEF FlushLead
  <1> HIDE DEF me
  <1>8. PICK next \in Session : next = [me EXCEPT !.pc = "check", !.seen = me.row, !.mine = mine]
    BY <1>1, <1>4, <1>5 DEF Session
  <1>9. /\ next.pc = "check" /\ next.user = me.user /\ next.lead = me.lead
        /\ next.row = me.row /\ next.seen = me.row /\ next.mine = mine /\ next.todo = me.todo
        /\ next.request = me.request /\ next.kind = me.kind
        /\ next.optedOut = me.optedOut /\ next.counts = me.counts
    BY <1>1, <1>8 DEF Session
  <1>10. Situated(next)
    BY <1>1, <1>5, <1>9 DEF Situated, Working, Settled, Sending
  <1>11. GoesOn(me, next)
    BY <1>9, <1>10 DEF GoesOn, Steady
  <1>12. Becomes(s, next)
    BY <1>6, <1>8
  <1>13. \/ next.mine = me.mine
         \/ ~Locked(s, me.lead) /\ next.mine = [me.mine EXCEPT ![me.lead] = row]
    BY <1>3, <1>7, <1>9
  <1> QED
    BY <1>1, <1>2, <1>9, <1>11, <1>12, <1>13 DEF me, Sends

LEMMA CheckRouteMeans ==
  ASSUME Typed, NEW s \in Sessions, CheckRoute(s)
  PROVE  /\ session[s].pc = "check"
         /\ \/ /\ RoutingEligible(s) /\ channels # {}
               /\ \E next : /\ Becomes(s, next) /\ GoesOn(session[s], next)
                            /\ next.pc = "mail" /\ next.mine = session[s].mine
               /\ raced' = IF session[s].row.org # NoOrg
                              /\ \E t \in Sessions \ {s} : Routes(t, session[s].row.org)
                           THEN raced \cup {session[s].row.org}
                           ELSE raced
            \/ /\ \E next : /\ Becomes(s, next) /\ Turned(session[s], next)
                            /\ next.mine = session[s].mine
               /\ raced' = raced
  <1> DEFINE me == session[s]
  <1>1. me \in Session /\ Situated(me) /\ me.pc = "check" /\ me.pc \in Working
    BY SessionTyped DEF CheckRoute, Working
  <1>2. /\ me.kind # "retention"
        /\ me.kind = "deepdive" => me.todo = {}
        /\ me.kind # "deepdive" => me.request = {}
        /\ \A e, f \in me.request : e = f
    BY <1>1, WorkingTyped
  <1>3. CASE RoutingEligible(s) /\ channels # {}
    <2>1. Becomes(s, [me EXCEPT !.pc = "mail"]) /\ me.row.routed = Never
      BY <1>3 DEF CheckRoute, RoutingEligible
    <2> HIDE DEF me
    <2>2. PICK next \in Session : next = [me EXCEPT !.pc = "mail"]
      BY <1>1 DEF Session
    <2>3. /\ next.pc = "mail" /\ next.user = me.user /\ next.lead = me.lead
          /\ next.row = me.row /\ next.seen = me.seen /\ next.mine = me.mine
          /\ next.request = me.request /\ next.kind = me.kind /\ next.todo = me.todo
          /\ next.optedOut = me.optedOut /\ next.counts = me.counts
      BY <1>1, <2>2 DEF Session
    <2>4. GoesOn(me, next)
      BY <1>1, <2>1, <2>3 DEF GoesOn, Steady, Situated, Working, Settled, Sending
    <2>5. raced' = IF session[s].row.org # NoOrg
                      /\ \E t \in Sessions \ {s} : Routes(t, session[s].row.org)
                   THEN raced \cup {session[s].row.org}
                   ELSE raced
      BY <1>3 DEF CheckRoute
    <2>6. \E n : Becomes(s, n) /\ GoesOn(me, n) /\ n.pc = "mail" /\ n.mine = me.mine
      BY <2>1, <2>2, <2>3, <2>4
    <2> QED
      BY <1>1, <1>3, <2>5, <2>6, Zenon DEF me
  <1>4. CASE ~(RoutingEligible(s) /\ channels # {})
    <2>1. Continue(s, me) /\ raced' = raced
      BY <1>4 DEF CheckRoute
    <2> QED
      BY <1>1, <1>2, <2>1, ContinueMeans
  <1> QED
    BY <1>3, <1>4

LEMMA SendMailMeans ==
  ASSUME Typed, NEW s \in Sessions, SendMail(s)
  PROVE  /\ session[s].pc = "mail"
         /\ \E next : \E ok \in BOOLEAN :
              /\ Becomes(s, next) /\ GoesOn(session[s], next)
              /\ next.pc = (IF "hook" \in channels THEN "hook" ELSE "mark")
              /\ next.mine = session[s].mine /\ next.mailed = ok
              /\ sent' = [sent EXCEPT ![session[s].lead] = IF ok THEN @ \cup {"mail"} ELSE @]
  <1> DEFINE me == session[s]
             stop == IF "hook" \in channels THEN "hook" ELSE "mark"
  <1>1. me \in Session /\ Situated(me) /\ me.pc = "mail"
    BY SessionTyped DEF SendMail
  <1>2. PICK ok \in BOOLEAN :
          /\ Becomes(s, [me EXCEPT !.pc = stop, !.mailed = ok])
          /\ sent' = [sent EXCEPT ![me.lead] = IF ok THEN @ \cup {"mail"} ELSE @]
    BY DEF SendMail
  <1>0. stop \in {"hook", "mark"} /\ stop = (IF "hook" \in channels THEN "hook" ELSE "mark")
    OBVIOUS
  <1> HIDE DEF me, stop
  <1>3. PICK next \in Session : next = [me EXCEPT !.pc = stop, !.mailed = ok]
    BY <1>0, <1>1 DEF Session
  <1>4. /\ next.pc = stop /\ next.user = me.user /\ next.lead = me.lead
        /\ next.row = me.row /\ next.seen = me.seen /\ next.mine = me.mine
        /\ next.request = me.request /\ next.kind = me.kind /\ next.todo = me.todo
        /\ next.optedOut = me.optedOut /\ next.counts = me.counts
    BY <1>1, <1>3 DEF Session
  <1>5. next.mailed = ok
    BY <1>1, <1>3, Zenon DEF Session
  <1>6. GoesOn(me, next)
    BY <1>0, <1>1, <1>4 DEF GoesOn, Steady, Situated, Working, Settled, Sending
  <1> QED
    BY <1>0, <1>1, <1>2, <1>3, <1>4, <1>5, <1>6, Zenon DEF me

LEMMA PostWebhookMeans ==
  ASSUME Typed, NEW s \in Sessions, PostWebhook(s)
  PROVE  /\ session[s].pc = "hook"
         /\ \E next : \E ok \in BOOLEAN :
              /\ Becomes(s, next) /\ GoesOn(session[s], next)
              /\ next.pc = "mark" /\ next.mine = session[s].mine
              /\ next.mailed = session[s].mailed /\ next.hooked = ok
              /\ sent' = [sent EXCEPT ![session[s].lead] = IF ok THEN @ \cup {"hook"} ELSE @]
  <1> DEFINE me == session[s]
  <1>1. me \in Session /\ Situated(me) /\ me.pc = "hook"
    BY SessionTyped DEF PostWebhook
  <1>2. PICK ok \in BOOLEAN :
          /\ Becomes(s, [me EXCEPT !.pc = "mark", !.hooked = ok])
          /\ sent' = [sent EXCEPT ![me.lead] = IF ok THEN @ \cup {"hook"} ELSE @]
    BY DEF PostWebhook
  <1> HIDE DEF me
  <1>3. PICK next \in Session : next = [me EXCEPT !.pc = "mark", !.hooked = ok]
    BY <1>1 DEF Session
  <1>4. /\ next.pc = "mark" /\ next.user = me.user /\ next.lead = me.lead
        /\ next.row = me.row /\ next.seen = me.seen /\ next.mine = me.mine
        /\ next.request = me.request /\ next.kind = me.kind /\ next.todo = me.todo
        /\ next.optedOut = me.optedOut /\ next.counts = me.counts
    BY <1>1, <1>3 DEF Session
  <1>5. next.hooked = ok /\ next.mailed = me.mailed
    BY <1>1, <1>3, Zenon DEF Session
  <1>6. GoesOn(me, next)
    BY <1>1, <1>4 DEF GoesOn, Steady, Situated, Working, Settled, Sending
  <1> QED
    BY <1>1, <1>2, <1>3, <1>4, <1>5, <1>6, Zenon DEF me

(* The UPDATE after an attempt: the columns as they are, or those of a     *)
(* lead that was delivered.                                                *)
MarkedRow(s, row) ==
    LET seen == Seen(s, session[s].lead) IN
    /\ row \in Lead
    /\ row.user = seen.user /\ row.org = seen.org
    /\ \/ row.status = seen.status /\ row.routed = seen.routed
       \/ /\ Delivered(session[s])
          /\ row.routed = today /\ row.status \in {"routed", seen.status}

LEMMA MarkRoutedMeans ==
  ASSUME Typed, NEW s \in Sessions, MarkRouted(s)
  PROVE  /\ session[s].pc = "mark"
         /\ ~Locked(s, session[s].lead)
         /\ \E next, row :
              /\ Becomes(s, next) /\ Turned(session[s], next)
              /\ MarkedRow(s, row)
              /\ next.mine = [session[s].mine EXCEPT ![session[s].lead] = row]
  <1> DEFINE me == session[s]
             attempted == IF Delivered(me)
                          THEN [me.row EXCEPT !.status = "routed", !.routed = today]
                          ELSE me.row
  <1>1. /\ me \in Session /\ Situated(me) /\ me.pc = "mark"
        /\ me.pc \in Working /\ me.pc \in Sending /\ ~Locked(s, me.lead)
    BY SessionTyped DEF MarkRouted, Working, Sending
  <1>2. /\ me.row \in Lead /\ me.row = me.seen /\ me.row.routed = Never
        /\ Seen(s, me.lead) \in Lead /\ me.lead \in LeadIds
        /\ me.kind # "retention"
        /\ me.kind = "deepdive" => me.todo = {}
        /\ me.kind # "deepdive" => me.request = {}
        /\ \A e, f \in me.request : e = f
    BY <1>1, WorkingTyped
  <1>3. PICK row : row = Flushed(s, me.lead, me.seen, attempted)
    OBVIOUS
  <1>4. MarkedRow(s, row)
    <2>1. CASE ~Delivered(me)
      <3>1. row = Seen(s, me.lead)
        BY <1>2, <1>3, <2>1, FlushedSame
      <3> QED
        BY <1>2, <3>1 DEF MarkedRow
    <2>2. CASE Delivered(me)
      <3>1. PICK new : new = [me.row EXCEPT !.status = "routed", !.routed = today]
        OBVIOUS
      <3>2. /\ new \in Lead /\ new.status = "routed" /\ new.routed = today
            /\ new.user = me.row.user /\ new.org = me.row.org
        <4>1. today \in Days
          BY DEF Typed, TypeOK
        <4> QED
          BY <1>2, <3>1, <4>1 DEF Lead
      <3>3. row = Flushed(s, me.lead, me.seen, new)
        BY <1>3, <2>2, <3>1
      <3>4. /\ row \in Lead
            /\ row.status = IF "routed" # me.seen.status THEN "routed"
                            ELSE Seen(s, me.lead).status
            /\ row.user = Seen(s, me.lead).user
            /\ row.org = Seen(s, me.lead).org
            /\ row.routed = IF today # Never THEN today ELSE Seen(s, me.lead).routed
        BY <1>2, <3>2, <3>3, FlushedMeans
      <3>5. today # Never
        BY DaysTyped DEF Typed, TypeOK
      <3> QED
        BY <2>2, <3>4, <3>5 DEF MarkedRow
    <2> QED
      BY <2>1, <2>2
  <1>5. PICK mine \in [LeadIds -> Lead] : mine = [me.mine EXCEPT ![me.lead] = row]
    BY <1>1, <1>4 DEF Session, MarkedRow
  <1>6. Continue(s, [me EXCEPT !.mine[me.lead] = row])
    BY <1>3 DEF MarkRouted
  <1>7. [me EXCEPT !.mine[me.lead] = row] = [me EXCEPT !.mine = mine]
    BY <1>1, <1>5 DEF Session
  <1>8. Continue(s, [me EXCEPT !.mine = mine])
    BY <1>6, <1>7
  <1> HIDE DEF me, attempted
  <1>9. PICK marked \in Session : marked = [me EXCEPT !.mine = mine]
    BY <1>1, <1>5 DEF Session
  <1>10. /\ marked.todo = me.todo /\ marked.request = me.request /\ marked.mine = mine
         /\ marked.kind = me.kind /\ marked.optedOut = me.optedOut /\ marked.counts = me.counts
    BY <1>1, <1>9 DEF Session
  <1>11. Continue(s, marked)
    BY <1>8, <1>9
  <1>12. PICK next : Becomes(s, next) /\ Turned(marked, next) /\ next.mine = marked.mine
    <2>1. /\ marked.kind # "retention"
          /\ marked.kind = "deepdive" => marked.todo = {}
          /\ marked.kind # "deepdive" => marked.request = {}
          /\ \A e, f \in marked.request : e = f
      BY <1>2, <1>10 DEF me
    <2> QED
      BY <1>11, <2>1, ContinueMeans
  <1>13. Turned(me, next) /\ next.mine = mine
    BY <1>10, <1>12 DEF Turned, Steady
  <1> QED
    BY <1>1, <1>4, <1>5, <1>12, <1>13 DEF me

(* The steps that leave events alone.                                      *)
LEMMA MovesIdentified ==
  ASSUME Typed, NEW s \in Sessions, NEW next, Becomes(s, next), next \in Session,
         events' = events, used'.acts \in Nat, used.acts <= used'.acts,
         \A e \in next.request : \/ e \in session[s].request
                                 \/ e.id = used.acts + 1 /\ used'.acts = used.acts + 1
  PROVE  Identified'
  <1>1. session'[s] = next /\ \A t \in Sessions \ {s} : session'[t] = session[t]
    BY Moves DEF Typed, TypeOK
  <1>2. used.acts \in Nat
    BY Constants DEF Typed, TypeOK
  <1>3. \A t \in Sessions : \A e \in session[t].request : e.id \in Nat
    BY SessionTyped, Constants DEF Session, Event, EventIds
  <1>4. \A e \in events : e.id \in Nat
    BY Constants DEF Typed, TypeOK, Event, EventIds
  <1>5. \A e \in events : e.id <= used'.acts
    <2> SUFFICES ASSUME NEW e \in events PROVE e.id <= used'.acts
      OBVIOUS
    <2>1. e.id <= used.acts
      BY DEF Typed, Identified
    <2> QED
      BY <1>2, <1>4, <2>1
  <1>6. ASSUME NEW t \in Sessions, NEW e \in session'[t].request
        PROVE  /\ e.id <= used'.acts
               /\ \A f \in events : e.id # f.id
               /\ \A u \in Sessions \ {t} : \A f \in session'[u].request : e.id # f.id
    <2>1. CASE e \in session[t].request
      <3>1. e.id <= used.acts /\ e.id \in Nat
        BY <1>3, <2>1 DEF Typed, Identified
      <3>2. e.id <= used'.acts
        BY <1>2, <3>1
      <3>3. ASSUME NEW u \in Sessions \ {t}, NEW f \in session'[u].request PROVE e.id # f.id
        <4>1. CASE f \in session[u].request
          BY <2>1, <4>1 DEF Typed, Identified
        <4>2. CASE f \notin session[u].request
          <5>1. u = s /\ f \in next.request
            BY <1>1, <4>2
          <5>2. f.id = used.acts + 1
            BY <4>2, <5>1
          <5> QED
            BY <1>2, <3>1, <5>2
        <4> QED
          BY <4>1, <4>2
      <3> QED
        BY <2>1, <3>2, <3>3 DEF Typed, Identified
    <2>2. CASE e \notin session[t].request
      <3>1. t = s /\ e \in next.request
        BY <1>1, <2>2
      <3>2. e.id = used.acts + 1 /\ used'.acts = used.acts + 1
        BY <2>2, <3>1
      <3>3. ASSUME NEW f \in events PROVE e.id # f.id
        <4>1. f.id <= used.acts /\ f.id \in Nat
          BY <1>4 DEF Typed, Identified
        <4> QED
          BY <1>2, <3>2, <4>1
      <3>4. ASSUME NEW u \in Sessions \ {t}, NEW f \in session'[u].request PROVE e.id # f.id
        <4>1. f \in session[u].request
          BY <1>1, <3>1
        <4>2. f.id <= used.acts /\ f.id \in Nat
          BY <1>3, <4>1 DEF Typed, Identified
        <4> QED
          BY <1>2, <3>2, <4>2
      <3> QED
        BY <1>2, <3>2, <3>3, <3>4
    <2> QED
      BY <2>1, <2>2
  <1> QED
    BY <1>5, <1>6 DEF Identified, Typed

LEMMA MovesTyped ==
  ASSUME Typed, NEW s \in Sessions, NEW next, Becomes(s, next),
         next \in Session, Situated(next),
         UNCHANGED <<today, base, written, blurred>>,
         used' \in [acts : 0..MaxActs, sessions : 0..MaxSessions], used.acts <= used'.acts,
         sent' \in [LeadIds -> SUBSET {"mail", "hook"}], raced' \subseteq Users \cup Orgs,
         \A e \in next.request : \/ e \in session[s].request
                                 \/ e.id = used.acts + 1 /\ used'.acts = used.acts + 1
  PROVE  Typed'
  <1>1. events' = events /\ used'.acts \in Nat
    BY Constants DEF base
  <1>2. Identified'
    BY <1>1, MovesIdentified
  <1>3. session' \in [Sessions -> Session]
    BY DEF Becomes, Typed, TypeOK
  <1>4. \A t \in Sessions : Situated(session'[t])
    BY Moves DEF Typed, TypeOK
  <1>5. TypeOK'
    BY <1>3 DEF base, Typed, TypeOK
  <1>6. Counted'
    BY DEF base, Typed, Counted
  <1> QED
    BY <1>2, <1>4, <1>5, <1>6 DEF Typed

(* Events are written and erased; sessions are as they were.               *)
LEMMA IngestTyped ==
  ASSUME Typed, NEW owner \in Users \cup Browsers, NEW name \in Names, NEW day \in Days,
         IngestEvent(owner, name, day)
  PROVE  Typed'
  <1>1. PICK e \in Event : e = NewEvent(owner, name, day)
    BY NewEventTyped DEF IngestEvent
  <1>2. e.id = used.acts + 1 /\ e.name = name /\ e.day = day
    BY <1>1, NewEventTyped DEF IngestEvent
  <1>3. /\ used.acts \in Nat /\ used'.acts = used.acts + 1
        /\ used' \in [acts : 0..MaxActs, sessions : 0..MaxSessions]
    BY ActMeans DEF IngestEvent
  <1>4. /\ events' = events \cup {e}
        /\ written' = [written EXCEPT ![name][day] = @ + 1]
        /\ UNCHANGED <<today, aggregates, leads, optedOut, session, sent, raced, channels>>
        /\ blurred' \subseteq Names \X Days
    BY <1>1 DEF IngestEvent, Blurs, Typed, TypeOK, Event
  <1>5. \A f \in events : f.id \in Nat /\ f.id <= used.acts
    BY Constants DEF Typed, TypeOK, Identified, Event, EventIds
  <1>6. \A t \in Sessions : \A f \in session[t].request : f.id \in Nat /\ f.id <= used.acts
    BY SessionTyped, Constants DEF Typed, Identified, Session, Event, EventIds
  <1>7. e \notin events /\ IsFiniteSet(events') /\ events' \subseteq Event
        /\ \A f, g \in events' : f.id = g.id => f = g
    <2>1. \A f \in events : f.id # e.id
      BY <1>2, <1>3, <1>5
    <2>2. IsFiniteSet(events \cup {e})
      BY FS_AddElement DEF Typed, Identified
    <2> QED
      BY <1>1, <1>4, <2>1, <2>2 DEF Typed, TypeOK
  <1>8. Identified'
    <2>1. \A f \in events' : f.id <= used'.acts
      <3> SUFFICES ASSUME NEW f \in events' PROVE f.id <= used'.acts
        OBVIOUS
      <3>1. f \in events \/ f = e
        BY <1>4
      <3> QED
        BY <1>2, <1>3, <1>5, <3>1
    <2>2. ASSUME NEW t \in Sessions, NEW f \in session[t].request
          PROVE  /\ f.id <= used'.acts
                 /\ \A g \in events' : f.id # g.id
      <3>1. f.id # e.id /\ f.id <= used'.acts
        BY <1>2, <1>3, <1>6
      <3> QED
        BY <1>4, <3>1 DEF Typed, Identified
    <2> QED
      BY <1>4, <1>7, <2>1, <2>2 DEF Typed, Identified
  <1>9. written' \in [Names -> [Days -> Nat]]
    <2>1. written[name][day] + 1 \in Nat
      BY DEF Typed, TypeOK
    <2> QED
      BY <1>4, <2>1 DEF Typed, TypeOK
  <1>10. Counted'
    <2> SUFFICES ASSUME NEW n \in Names, NEW d \in Days
                 PROVE  Number(events \cup {e}, n, d) <= written'[n][d]
      BY <1>4 DEF Counted
    <2>1. Number(events, n, d) \in Nat /\ written[n][d] \in Nat
          /\ Number(events, n, d) <= written[n][d]
      BY NumberTyped DEF Typed, TypeOK, Identified, Counted
    <2>2. Number(events \cup {e}, n, d) = Number(events, n, d) + Number({e}, n, d)
      <3>1. events \cap {e} = {} /\ IsFiniteSet({e}) /\ IsFiniteSet(events)
        BY <1>7, FS_Singleton DEF Typed, Identified
      <3> QED
        BY <3>1, NumberOfUnion
    <2>3. CASE n = name /\ d = day
      <3>1. written'[n][d] = written[n][d] + 1
        BY <1>4, <2>3 DEF Typed, TypeOK
      <3>2. Number({e}, n, d) = 1
        BY <1>2, <2>3, NumberOfOne
      <3> QED
        BY <2>1, <2>2, <3>1, <3>2
    <2>4. CASE ~(n = name /\ d = day)
      <3>1. written'[n][d] = written[n][d]
        BY <1>4, <2>4 DEF Typed, TypeOK
      <3>2. Number({e}, n, d) = 0
        BY <1>2, <2>4, NumberOfNone
      <3> QED
        BY <2>1, <2>2, <3>1, <3>2
    <2> QED
      BY <2>3, <2>4
  <1>11. TypeOK'
    BY <1>3, <1>4, <1>7, <1>9 DEF Typed, TypeOK
  <1> QED
    BY <1>4, <1>8, <1>10, <1>11 DEF Typed

LEMMA MergeTyped ==
  ASSUME Typed, NEW user \in Users, NEW anon \in Browsers, MergeHistory(user, anon)
  PROVE  Typed'
  <1>1. events' = Handed(events, user, anon)
    BY DEF MergeHistory, Handed, OwnedBy
  <1>2. /\ used.acts \in Nat /\ used'.acts = used.acts + 1
        /\ used' \in [acts : 0..MaxActs, sessions : 0..MaxSessions]
        /\ UNCHANGED <<today, aggregates, leads, optedOut, session, sent, written, blurred, raced,
                       channels>>
    BY ActMeans DEF MergeHistory, histories
  <1>3. /\ events' \subseteq Event /\ IsFiniteSet(events')
        /\ \A e, f \in events' : e.id = f.id => e = f
        /\ \A e \in events' : \E f \in events : f.id = e.id
        /\ \A n, d : Number(events', n, d) = Number(events, n, d)
    BY <1>1, HandedKeeps DEF Typed, TypeOK, Identified
  <1>4. \A e \in events : e.id \in Nat /\ e.id <= used.acts
    BY Constants DEF Typed, TypeOK, Identified, Event, EventIds
  <1>5. \A t \in Sessions : \A f \in session[t].request : f.id \in Nat /\ f.id <= used.acts
    BY SessionTyped, Constants DEF Typed, Identified, Session, Event, EventIds
  <1>6. Identified'
    <2>1. \A e \in events' : e.id <= used'.acts
      BY <1>2, <1>3, <1>4
    <2>2. ASSUME NEW t \in Sessions, NEW e \in session[t].request
          PROVE  e.id <= used'.acts /\ \A f \in events' : e.id # f.id
      <3>1. e.id <= used'.acts
        BY <1>2, <1>5
      <3>2. \A f \in events : e.id # f.id
        BY DEF Typed, Identified
      <3> QED
        BY <1>3, <3>1, <3>2
    <2> QED
      BY <1>2, <1>3, <2>1, <2>2 DEF Typed, Identified
  <1>7. Counted'
    BY <1>2, <1>3 DEF Typed, Counted
  <1>8. TypeOK'
    BY <1>2, <1>3 DEF Typed, TypeOK
  <1> QED
    BY <1>2, <1>6, <1>7, <1>8 DEF Typed

LEMMA FewerIdentified ==
  ASSUME Typed, events' \subseteq events, used'.acts \in Nat, used.acts <= used'.acts,
         session' = session \/ \E s \in Sessions : Becomes(s, Idle)
  PROVE  /\ Identified' /\ events' \subseteq Event
         /\ \A e, f \in events' : e.id = f.id => e = f
         /\ session' \in [Sessions -> Session]
         /\ \A t \in Sessions : Situated(session'[t])
  <1>1. IsFiniteSet(events')
    BY FS_Subset DEF Typed, Identified
  <1>2. \A e \in events : e.id \in Nat /\ e.id <= used.acts
    BY Constants DEF Typed, TypeOK, Identified, Event, EventIds
  <1>3. \A t \in Sessions : \A f \in session[t].request : f.id \in Nat /\ f.id <= used.acts
    BY SessionTyped, Constants DEF Typed, Identified, Session, Event, EventIds
  <1>4. used.acts \in Nat
    BY Constants DEF Typed, TypeOK
  <1>5. \A t \in Sessions : session'[t].request \subseteq session[t].request
    BY ZenonT(60), Moves, IdleTyped DEF Typed, TypeOK
  <1>6. session' \in [Sessions -> Session] /\ \A t \in Sessions : Situated(session'[t])
    <2>1. CASE session' = session
      BY <2>1 DEF Typed, TypeOK
    <2>2. CASE \E s \in Sessions : Becomes(s, Idle)
      BY <2>2, Moves, IdleTyped, IdleSituated DEF Becomes, Typed, TypeOK
    <2> QED
      BY <2>1, <2>2
  <1>7. \A e \in events' : e.id <= used'.acts
    <2> SUFFICES ASSUME NEW e \in events' PROVE e.id <= used'.acts
      OBVIOUS
    <2>1. e \in events
      OBVIOUS
    <2> QED
      BY <1>2, <1>4, <2>1
  <1>8. ASSUME NEW t \in Sessions, NEW e \in session'[t].request
        PROVE  /\ e.id <= used'.acts
               /\ \A f \in events' : e.id # f.id
               /\ \A u \in Sessions \ {t} : \A f \in session'[u].request : e.id # f.id
    <2>1. e \in session[t].request
      BY <1>5
    <2>2. e.id <= used'.acts
      BY <1>3, <1>4, <2>1
    <2>3. \A f \in events' : e.id # f.id
      BY <2>1 DEF Typed, Identified
    <2>4. \A u \in Sessions \ {t} : \A f \in session'[u].request : e.id # f.id
      BY <1>5, <2>1 DEF Typed, Identified
    <2> QED
      BY <2>2, <2>3, <2>4
  <1>9. Identified'
    BY <1>1, <1>7, <1>8 DEF Identified
  <1> QED
    BY <1>6, <1>9 DEF Typed, TypeOK

LEMMA EraseTyped ==
  ASSUME Typed, NEW user \in Users, Erase(user)
  PROVE  /\ events' \subseteq events
         /\ written' \in [Names -> [Days -> Nat]]
         /\ blurred' \subseteq Names \X Days
         /\ Counted'
         /\ \A n \in Names, d \in Days :
              /\ Number(events', n, d) = Number(events, n, d) - Number(OwnedBy(user), n, d)
              /\ written'[n][d] = written[n][d] - Number(OwnedBy(user), n, d)
  <1>1. OwnedBy(user) \subseteq events /\ events' = events \ OwnedBy(user)
        /\ written' = Erased(OwnedBy(user)) /\ Blurs(OwnedBy(user))
    BY DEF Erase, OwnedBy
  <1>2. blurred' \subseteq Names \X Days
    BY <1>1 DEF Blurs, Typed, TypeOK, Event
  <1>3. IsFiniteSet(events) /\ IsFiniteSet(OwnedBy(user))
    BY <1>1, FS_Subset DEF Typed, Identified
  <1>4. ASSUME NEW n \in Names, NEW d \in Days
        PROVE  /\ Number(events', n, d) = Number(events, n, d) - Number(OwnedBy(user), n, d)
               /\ written'[n][d] = written[n][d] - Number(OwnedBy(user), n, d)
               /\ written[n][d] - Number(OwnedBy(user), n, d) \in Nat
               /\ Number(events', n, d) <= written'[n][d]
    <2>1. PICK a \in Nat : a = Number(events, n, d)
      BY <1>3, NumberTyped
    <2>2. PICK b \in Nat : b = Number(OwnedBy(user), n, d)
      BY <1>3, NumberTyped
    <2>3. PICK w \in Nat : w = written[n][d]
      BY DEF Typed, TypeOK
    <2>4. Number(events', n, d) = a - b /\ b <= a
      BY <1>1, <1>3, <2>1, <2>2, NumberOfRest
    <2>5. a <= w
      BY <2>1, <2>3 DEF Typed, Counted
    <2>6. written'[n][d] = w - b
      BY <1>1, <2>2, <2>3 DEF Erased
    <2> QED
      BY <2>1, <2>2, <2>3, <2>4, <2>5, <2>6
  <1>5. written' = [n \in Names |-> [d \in Days |-> written[n][d] - Number(OwnedBy(user), n, d)]]
    BY <1>1 DEF Erased
  <1>6. written' \in [Names -> [Days -> Nat]]
    BY <1>4, <1>5
  <1> QED
    BY <1>1, <1>2, <1>4, <1>6 DEF Counted

LEMMA PrivacyTyped ==
  ASSUME Typed, NEW user \in Users,
         PrivacyDelete(user) \/ \E enabled \in BOOLEAN : PrivacyPreference(user, enabled)
  PROVE  Typed'
  <1>1. /\ Act /\ session' = session
        /\ UNCHANGED <<today, aggregates, leads, sent, channels>>
        /\ optedOut' \subseteq Users /\ raced' \subseteq Users \cup Orgs
        /\ (Erase(user) \/ UNCHANGED <<events, written, blurred>>)
    BY DEF PrivacyDelete, PrivacyPreference, Typed, TypeOK
  <1>2. /\ used.acts \in Nat /\ used'.acts = used.acts + 1
        /\ used' \in [acts : 0..MaxActs, sessions : 0..MaxSessions]
    BY <1>1, ActMeans
  <1>3. /\ events' \subseteq events
        /\ written' \in [Names -> [Days -> Nat]]
        /\ blurred' \subseteq Names \X Days
        /\ Counted'
    <2>1. CASE Erase(user)
      BY <2>1, EraseTyped
    <2>2. CASE UNCHANGED <<events, written, blurred>>
      BY <2>2 DEF Typed, TypeOK, Counted
    <2> QED
      BY <1>1, <2>1, <2>2
  <1>4. /\ Identified' /\ events' \subseteq Event
        /\ \A e, f \in events' : e.id = f.id => e = f
        /\ session' \in [Sessions -> Session]
        /\ \A t \in Sessions : Situated(session'[t])
    BY <1>1, <1>2, <1>3, FewerIdentified
  <1>5. TypeOK'
    BY <1>1, <1>2, <1>3, <1>4 DEF Typed, TypeOK
  <1> QED
    BY <1>3, <1>4, <1>5 DEF Typed

LEMMA RestTyped ==
  ASSUME Typed,
         \/ Tick
         \/ \E l \in LeadIds, status \in {"qualified", "closed"} : UpdateOutcome(l, status)
         \/ \E s \in Sessions : FailSession(s) \/ DeleteExpired(s)
  PROVE  Typed'
  <1>1. /\ used'.acts \in Nat /\ used.acts <= used'.acts
        /\ used' \in [acts : 0..MaxActs, sessions : 0..MaxSessions]
        /\ UNCHANGED <<optedOut, sent, written, blurred, channels>>
    <2>1. CASE \E l \in LeadIds, status \in {"qualified", "closed"} : UpdateOutcome(l, status)
      BY <2>1, ActMeans DEF UpdateOutcome
    <2>2. CASE Tick \/ \E s \in Sessions : FailSession(s) \/ DeleteExpired(s)
      BY <2>2, Constants DEF Tick, FailSession, DeleteExpired, base, histories, Typed, TypeOK
    <2> QED
      BY <2>1, <2>2
  <1>2. /\ events' \subseteq events /\ today' \in Days
        /\ (session' = session \/ \E s \in Sessions : Becomes(s, Idle))
        /\ raced' \subseteq Users \cup Orgs
    <2>1. CASE \E l \in LeadIds, status \in {"qualified", "closed"} : UpdateOutcome(l, status)
      <3>1. PICK l \in LeadIds : /\ leads[l] # NoLead /\ UNCHANGED <<events, today, session>>
                                 /\ raced' = IF \E t \in Sessions : leads[l].user \in Handles(t)
                                             THEN raced \cup {leads[l].user}
                                             ELSE raced
        BY <2>1 DEF UpdateOutcome
      <3>2. ASSUME NEW t \in Sessions, leads[l].user \in Handles(t)
            PROVE  leads[l].user \in Users
        BY <3>2 DEF Handles, Typed, TypeOK, Lead
      <3> QED
        BY <3>1, <3>2 DEF Typed, TypeOK
    <2>2. CASE Tick
      BY SMTT(30), <2>2, Constants DEF Tick, base, histories, Typed, TypeOK, Days
    <2>3. CASE \E s \in Sessions : FailSession(s) \/ DeleteExpired(s)
      BY <2>3 DEF FailSession, DeleteExpired, base, histories, Typed, TypeOK, Expired
    <2> QED
      BY <2>1, <2>2, <2>3
  <1>3. leads' \in [LeadIds -> Lead]
    <2>1. CASE \E l \in LeadIds, status \in {"qualified", "closed"} : UpdateOutcome(l, status)
      <3>1. PICK l \in LeadIds, status \in {"qualified", "closed"} :
              leads' = [leads EXCEPT ![l] = [leads[l] EXCEPT !.status = status]]
        BY <2>1 DEF UpdateOutcome
      <3>2. leads[l] \in Lead
        BY DEF Typed, TypeOK
      <3>3. [leads[l] EXCEPT !.status = status] \in Lead
        BY <3>2 DEF Lead
      <3> QED
        BY <3>1, <3>3 DEF Typed, TypeOK
    <2>2. CASE Tick \/ \E s \in Sessions : FailSession(s) \/ DeleteExpired(s)
      BY <2>2 DEF Tick, FailSession, DeleteExpired, base, Typed, TypeOK
    <2> QED
      BY <2>1, <2>2
  <1>4. aggregates' \in [Names -> [Days -> Nat]]
    <2>1. ASSUME NEW s \in Sessions, DeleteExpired(s)
          PROVE  aggregates' \in [Names -> [Days -> Nat]]
      <3>1. session[s].counts \in [Names -> [Days -> Nat]]
        BY SessionTyped DEF Session
      <3> QED
        BY <2>1, <3>1 DEF DeleteExpired, Typed, TypeOK
    <2>2. CASE \A s \in Sessions : ~DeleteExpired(s)
      BY <2>2 DEF Tick, FailSession, UpdateOutcome, base, Typed, TypeOK
    <2> QED
      BY <2>1, <2>2
  <1>5. /\ Identified' /\ events' \subseteq Event
        /\ \A e, f \in events' : e.id = f.id => e = f
        /\ session' \in [Sessions -> Session]
        /\ \A t \in Sessions : Situated(session'[t])
    BY <1>1, <1>2, FewerIdentified
  <1>6. Counted'
    <2> SUFFICES ASSUME NEW n \in Names, NEW d \in Days
                 PROVE  Number(events', n, d) <= written'[n][d]
      BY DEF Counted
    <2>1. PICK a \in Nat : a = Number(events, n, d)
      BY NumberTyped DEF Typed, Identified
    <2>2. PICK w \in Nat : w = written[n][d]
      BY DEF Typed, TypeOK
    <2>3. PICK b \in Nat : b = Number(events', n, d)
      BY <1>5, NumberTyped DEF Identified
    <2>4. b <= a
      BY <1>2, <2>1, <2>3, NumberOfRest DEF Typed, Identified
    <2>5. a <= w
      BY <2>1, <2>2 DEF Typed, Counted
    <2> QED
      BY <1>1, <2>2, <2>3, <2>4, <2>5
  <1>7. TypeOK'
    BY <1>1, <1>2, <1>3, <1>4, <1>5 DEF Typed, TypeOK
  <1> QED
    BY <1>5, <1>6, <1>7 DEF Typed

LEMMA CommitTyped ==
  ASSUME Typed, NEW s \in Sessions, Commit(s)
  PROVE  Typed'
  <1> DEFINE R == session[s].request
  <1>1. /\ leads' = [l \in LeadIds |-> Seen(s, l)]
        /\ events' = events \cup R
        /\ written' = [n \in Names |-> [d \in Days |-> written[n][d] + Number(R, n, d)]]
        /\ Blurs(R) /\ Becomes(s, Idle)
        /\ UNCHANGED <<today, aggregates, optedOut, used, sent, raced, channels>>
    BY DEF Commit
  <1>2. R \subseteq Event /\ IsFiniteSet(R) /\ events \cap R = {}
        /\ \A e, f \in R : e = f
    <2>1. session[s] \in Session /\ \A e, f \in R : e = f
      BY SessionTyped DEF Situated
    <2>2. R = {} \/ \E e : R = {e}
      BY <2>1
    <2>3. IsFiniteSet(R)
      BY <2>2, FS_EmptySet, FS_Singleton
    <2>4. events \cap R = {}
      BY RequestIsNew
    <2> QED
      BY <2>1, <2>3, <2>4 DEF Session
  <1>3. used.acts \in Nat
    BY Constants DEF Typed, TypeOK
  <1>4. session'[s] = Idle /\ \A t \in Sessions \ {s} : session'[t] = session[t]
    BY <1>1, Moves DEF Typed, TypeOK
  <1>5. session' \in [Sessions -> Session] /\ \A t \in Sessions : Situated(session'[t])
    BY <1>1, <1>4, IdleTyped, IdleSituated DEF Becomes, Typed, TypeOK
  <1>6. /\ events' \subseteq Event /\ IsFiniteSet(events')
        /\ \A e, f \in events' : e.id = f.id => e = f
    <2>1. IsFiniteSet(events \cup R)
      BY <1>2, FS_Union DEF Typed, Identified
    <2>2. \A e \in R : \A f \in events : e.id # f.id
      BY DEF Typed, Identified
    <2> QED
      BY <1>1, <1>2, <2>1, <2>2 DEF Typed, TypeOK
  <1>7. Identified'
    <2>1. \A e \in events' : e.id <= used'.acts
      BY <1>1 DEF Typed, Identified
    <2>2. ASSUME NEW t \in Sessions, NEW e \in session'[t].request
          PROVE  /\ e.id <= used'.acts
                 /\ \A f \in events' : e.id # f.id
                 /\ \A u \in Sessions \ {t} : \A f \in session'[u].request : e.id # f.id
      <3>1. t # s /\ e \in session[t].request
        BY <1>4, IdleTyped
      <3>2. \A u \in Sessions : session'[u].request \subseteq session[u].request
        BY <1>4, IdleTyped
      <3>3. \A f \in R : e.id # f.id
        BY <3>1 DEF Typed, Identified
      <3> QED
        BY <1>1, <3>1, <3>2, <3>3 DEF Typed, Identified
    <2> QED
      BY <1>6, <2>1, <2>2 DEF Identified
  <1>8. /\ written' \in [Names -> [Days -> Nat]]
        /\ Counted'
    <2>1. ASSUME NEW n \in Names, NEW d \in Days
          PROVE  /\ written[n][d] + Number(R, n, d) \in Nat
                 /\ Number(events', n, d) <= written[n][d] + Number(R, n, d)
      <3>1. PICK a \in Nat : a = Number(events, n, d)
        BY NumberTyped DEF Typed, Identified
      <3>2. PICK b \in Nat : b = Number(R, n, d)
        BY <1>2, NumberTyped
      <3>3. PICK w \in Nat : w = written[n][d]
        BY DEF Typed, TypeOK
      <3>4. Number(events', n, d) = a + b
        BY <1>1, <1>2, <3>1, <3>2, NumberOfUnion DEF Typed, Identified
      <3>5. a <= w
        BY <3>1, <3>3 DEF Typed, Counted
      <3> QED
        BY <3>2, <3>3, <3>4, <3>5
    <2> QED
      BY <1>1, <2>1 DEF Counted
  <1>9. leads' \in [LeadIds -> Lead]
    BY <1>1, RowsTyped
  <1>10. blurred' \subseteq Names \X Days
    BY <1>1, <1>2 DEF Blurs, Typed, TypeOK, Event
  <1>11. TypeOK'
    BY <1>1, <1>5, <1>6, <1>8, <1>9, <1>10 DEF Typed, TypeOK
  <1> QED
    BY <1>5, <1>7, <1>8, <1>11 DEF Typed

LEMMA StepsTyped ==
  ASSUME Typed, NEW s \in Sessions, Step(s)
  PROVE  Typed'
  <1> DEFINE me == session[s]
  <1>1. /\ used \in [acts : 0..MaxActs, sessions : 0..MaxSessions]
        /\ used.acts \in Nat /\ used.acts <= used.acts
        /\ sent \in [LeadIds -> SUBSET {"mail", "hook"}]
        /\ raced \subseteq Users \cup Orgs
    BY Constants DEF Typed, TypeOK
  <1>2. CASE StartHourly(s) \/ StartRetention(s) \/ \E user \in Users : StartDeepDive(s, user)
    <2>1. PICK next : Becomes(s, next) /\ Started(next)
      BY <1>2, StartHourlyMeans, StartRetentionMeans, StartDeepDiveMeans
    <2>2. Open(s) /\ UNCHANGED <<today, base, histories>>
      BY <1>2 DEF StartHourly, StartRetention, StartDeepDive
    <2>3. /\ used'.acts = used.acts
          /\ used' \in [acts : 0..MaxActs, sessions : 0..MaxSessions]
      BY <2>2, OpenMeans
    <2>4. /\ next \in Session /\ Situated(next)
          /\ \A e \in next.request : e \in me.request
      BY <2>1 DEF Started
    <2> QED
      BY <1>1, <2>1, <2>2, <2>3, <2>4, MovesTyped DEF histories
  <1>3. CASE AskDeepDive(s)
    <2>1. PICK next : /\ Becomes(s, next) /\ Steady(me, next)
                      /\ \/ next.request = {} /\ used' = used
                         \/ next.request = {NewEvent(next.user, DeepDive, today)} /\ Act
      BY <1>3, AskDeepDiveMeans
    <2>2. UNCHANGED <<today, base, histories>>
      BY <1>3 DEF AskDeepDive
    <2>3. used.acts <= used'.acts /\ used' \in [acts : 0..MaxActs, sessions : 0..MaxSessions]
      BY <1>1, <2>1, ActMeans
    <2>4. \A e \in next.request : e.id = used.acts + 1 /\ used'.acts = used.acts + 1
      BY <2>1, ActMeans DEF NewEvent
    <2>5. next \in Session /\ Situated(next)
      BY <2>1 DEF Steady
    <2> QED
      BY <1>1, <2>1, <2>2, <2>3, <2>4, <2>5, MovesTyped DEF histories
  <1>4. ASSUME NEW next, Becomes(s, next), Steady(me, next), next.request = me.request,
               UNCHANGED <<today, base, used, written, blurred>>,
               sent' \in [LeadIds -> SUBSET {"mail", "hook"}],
               raced' \subseteq Users \cup Orgs
        PROVE  Typed'
    BY <1>1, <1>4, MovesTyped DEF Steady
  <1>5. CASE ScoreUser(s)
    <2>1. PICK next : /\ Becomes(s, next) /\ Steady(me, next) /\ next.request = me.request
                      /\ (sent' = sent \/ \E l \in Free : sent' = [sent EXCEPT ![l] = {}])
      BY <1>5, ScoreUserMeans DEF Turned, Inserted, Picked
    <2>2. sent' \in [LeadIds -> SUBSET {"mail", "hook"}]
      BY <1>1, <2>1
    <2>3. UNCHANGED <<today, base, used, written, blurred>> /\ raced' \subseteq Users \cup Orgs
      <3>1. me.user \in Users
        BY <1>5, ScoreUserMeans
      <3> QED
        BY <1>1, <1>5, <3>1 DEF ScoreUser, Contends
    <2> QED
      BY <1>4, <2>1, <2>2, <2>3
  <1>6. CASE FlushLead(s)
    <2>1. PICK next : Becomes(s, next) /\ GoesOn(me, next)
      BY <1>6, FlushLeadMeans DEF Sends
    <2>2. UNCHANGED <<today, base, used, histories>>
      BY <1>6 DEF FlushLead
    <2> QED
      BY <1>1, <1>4, <2>1, <2>2 DEF GoesOn, histories
  <1>7. CASE CheckRoute(s)
    <2>1. PICK next : Becomes(s, next) /\ Steady(me, next) /\ next.request = me.request
      BY <1>7, CheckRouteMeans DEF GoesOn, Turned
    <2>2. UNCHANGED <<today, base, used, sent, written, blurred>>
      BY <1>7 DEF CheckRoute
    <2>3. raced' \subseteq Users \cup Orgs
      <3>1. me.row.org \in Orgs \cup {NoOrg}
        BY SessionTyped DEF Session, Lead
      <3> QED
        BY <1>1, <1>7, <3>1, CheckRouteMeans
    <2> QED
      BY <1>1, <1>4, <2>1, <2>2, <2>3
  <1>8. CASE SendMail(s)
    <2>1. PICK next : \E ok \in BOOLEAN :
              /\ Becomes(s, next) /\ GoesOn(me, next)
              /\ sent' = [sent EXCEPT ![me.lead] = IF ok THEN @ \cup {"mail"} ELSE @]
      BY <1>8, SendMailMeans
    <2>2. UNCHANGED <<today, base, used, written, blurred, raced>>
      BY <1>8 DEF SendMail
    <2>3. sent' \in [LeadIds -> SUBSET {"mail", "hook"}]
      BY <1>1, <2>1
    <2> QED
      BY <1>1, <1>4, <2>1, <2>2, <2>3 DEF GoesOn
  <1>9. CASE PostWebhook(s)
    <2>1. PICK next : \E ok \in BOOLEAN :
              /\ Becomes(s, next) /\ GoesOn(me, next)
              /\ sent' = [sent EXCEPT ![me.lead] = IF ok THEN @ \cup {"hook"} ELSE @]
      BY <1>9, PostWebhookMeans
    <2>2. UNCHANGED <<today, base, used, written, blurred, raced>>
      BY <1>9 DEF PostWebhook
    <2>3. sent' \in [LeadIds -> SUBSET {"mail", "hook"}]
      BY <1>1, <2>1
    <2> QED
      BY <1>1, <1>4, <2>1, <2>2, <2>3 DEF GoesOn
  <1>10. CASE MarkRouted(s)
    <2>1. PICK next : Becomes(s, next) /\ Turned(me, next)
      BY <1>10, MarkRoutedMeans
    <2>2. UNCHANGED <<today, base, used, histories>>
      BY <1>10 DEF MarkRouted
    <2> QED
      BY <1>1, <1>4, <2>1, <2>2 DEF Turned, histories
  <1>11. CASE Commit(s)
    BY <1>11, CommitTyped
  <1>12. CASE FailSession(s) \/ DeleteExpired(s)
    BY <1>12, RestTyped
  <1> QED
    BY <1>2, <1>3, <1>5, <1>6, <1>7, <1>8, <1>9, <1>10, <1>11, <1>12 DEF Step

(* Typed is inductive.                                                     *)
THEOREM TypedAlways == Spec => []Typed
  <1>1. Typed /\ [Next]_vars => Typed'
    <2> SUFFICES ASSUME Typed, [Next]_vars PROVE Typed'
      OBVIOUS
    <2>1. CASE UNCHANGED vars
      BY <2>1 DEF vars, Typed, TypeOK, Identified, Counted
    <2>2. CASE \E s \in Sessions : Step(s)
      BY <2>2, StepsTyped
    <2>3. CASE Visit
      BY <2>3, IngestTyped, MergeTyped, PrivacyTyped DEF Visit
    <2>4. CASE \/ Tick
               \/ \E l \in LeadIds, status \in {"qualified", "closed"} : UpdateOutcome(l, status)
      BY <2>4, RestTyped
    <2> QED
      BY <2>1, <2>2, <2>3, <2>4 DEF Next
  <1> QED
    BY <1>1, InitTyped, PTL DEF Spec

(* Every variable keeps its type: a score is a number, a session has a     *)
(* user and a lead where it needs them, an event's id stays its own, also  *)
(* when a history changes hands.                                           *)
THEOREM LeadsTyped == Spec => []TypeOK
  BY TypedAlways, PTL DEF Typed

-----------------------------------------------------------------------------
(* Retention.  The events of a day are either all there, and none of them  *)
(* is counted, or all counted and gone; and a retention run that is about  *)
(* to write its counts writes nothing, or what the aggregate stands for.   *)

Account(n, d) ==
    /\ \/ aggregates[n][d] = 0 /\ Number(events, n, d) = written[n][d]
       \/ Number(events, n, d) = 0 /\ aggregates[n][d] = written[n][d]
    /\ d >= Cutoff => aggregates[n][d] = 0
    /\ \A s \in Sessions : session[s].pc = "delete" =>
         \/ /\ session[s].counts[n][d] = 0
            /\ d < Cutoff => Number(events, n, d) = 0
         \/ session[s].counts[n][d] = written[n][d] /\ d < Cutoff

AccountsKept ==
    \A n \in Names, d \in Days : <<n, d>> \notin blurred => Account(n, d)

LEMMA CutoffTyped ==
  ASSUME Typed
  PROVE  Cutoff \in Int /\ today \in Nat /\ Days \subseteq Nat
  BY Constants DEF Typed, TypeOK, Cutoff, Days

LEMMA AccountsHold ==
  ASSUME Typed, AccountsKept
  PROVE  EventsAreAccounted
  <1> SUFFICES ASSUME NEW n \in Names, NEW d \in Days, <<n, d>> \notin blurred
               PROVE  written[n][d] = aggregates[n][d] + Number(events, n, d)
    BY DEF EventsAreAccounted
  <1>1. written[n][d] \in Nat /\ aggregates[n][d] \in Nat
    BY DEF Typed, TypeOK
  <1>2. \/ aggregates[n][d] = 0 /\ Number(events, n, d) = written[n][d]
        \/ Number(events, n, d) = 0 /\ aggregates[n][d] = written[n][d]
    BY DEF AccountsKept, Account
  <1> QED
    BY <1>1, <1>2

LEMMA InitAccounts == Init => AccountsKept
  <1> SUFFICES ASSUME Init, NEW n \in Names, NEW d \in Days PROVE Account(n, d)
    BY DEF AccountsKept
  <1>1. Number(events, n, d) = 0
    BY NumberOfNone DEF Init
  <1>2. aggregates[n][d] = 0 /\ written[n][d] = 0
    BY NoCountsTyped DEF Init
  <1>3. \A s \in Sessions : session[s].pc # "delete"
    BY IdleTyped DEF Init
  <1> QED
    BY <1>1, <1>2, <1>3 DEF Account

(* Before its retention, a day's events and their number go together.      *)
LEMMA Rewrites ==
  ASSUME Typed, NEW n \in Names, NEW d \in Days, Account(n, d),
         aggregates' = aggregates, today' = today,
         \A t \in Sessions : session'[t].pc = "delete" => session'[t] = session[t],
         \/ /\ d >= Cutoff
            /\ Number(events, n, d) = written[n][d] => Number(events', n, d) = written'[n][d]
         \/ Number(events', n, d) = Number(events, n, d) /\ written'[n][d] = written[n][d]
  PROVE  Account(n, d)'
  <1>1. Cutoff' = Cutoff /\ Cutoff \in Int /\ d \in Int
    BY CutoffTyped DEF Cutoff
  <1>2. CASE /\ d >= Cutoff
             /\ Number(events, n, d) = written[n][d] => Number(events', n, d) = written'[n][d]
    <2>1. ~(d < Cutoff)
      BY <1>1, <1>2
    <2>2. aggregates[n][d] = 0 /\ Number(events, n, d) = written[n][d]
      BY <1>2 DEF Account
    <2>3. \A t \in Sessions : session'[t].pc = "delete" => session'[t].counts[n][d] = 0
      BY <2>1 DEF Account
    <2> QED
      BY <1>1, <1>2, <2>1, <2>2, <2>3 DEF Account
  <1>3. CASE Number(events', n, d) = Number(events, n, d) /\ written'[n][d] = written[n][d]
    BY <1>1, <1>3 DEF Account
  <1> QED
    BY <1>2, <1>3

(* What happens to events past their retention is noted.                   *)
LEMMA BlursNote ==
  ASSUME Typed, NEW E \in SUBSET Event, Blurs(E), NEW n \in Names, NEW d \in Days,
         <<n, d>> \notin blurred'
  PROVE  /\ <<n, d>> \notin blurred
         /\ d >= Cutoff \/ Number(E, n, d) = 0
  <1>1. <<n, d>> \notin blurred
    BY DEF Blurs
  <1>2. ASSUME d < Cutoff PROVE Number(E, n, d) = 0
    <2>1. ASSUME NEW e \in E, e.name = n, e.day = d PROVE FALSE
      <3>1. <<e.name, e.day>> \in blurred'
        BY <1>2, <2>1 DEF Blurs
      <3> QED
        BY <2>1, <3>1
    <2> QED
      BY <2>1, NumberOfNone
  <1> QED
    BY <1>1, <1>2, CutoffTyped

LEMMA VisitAccounts ==
  ASSUME Typed, AccountsKept, Visit
  PROVE  AccountsKept'
  <1> SUFFICES ASSUME NEW n \in Names, NEW d \in Days, <<n, d>> \notin blurred'
               PROVE  Account(n, d)'
    BY DEF AccountsKept
  <1>1. ASSUME NEW owner \in Users \cup Browsers, NEW name \in Names, NEW day \in Days,
               IngestEvent(owner, name, day)
        PROVE  Account(n, d)'
    <2>1. PICK e \in Event : e = NewEvent(owner, name, day)
      BY <1>1, NewEventTyped DEF IngestEvent
    <2>2. e.name = name /\ e.day = day /\ e.id = used.acts + 1
      BY <1>1, <2>1, NewEventTyped DEF IngestEvent
    <2>3. /\ events' = events \cup {e} /\ Blurs({e})
          /\ written' = [written EXCEPT ![name][day] = @ + 1]
          /\ UNCHANGED <<today, aggregates, session>>
      BY <1>1, <2>1 DEF IngestEvent
    <2>4. <<n, d>> \notin blurred /\ (d >= Cutoff \/ Number({e}, n, d) = 0)
      BY <2>3, BlursNote
    <2>5. Number(events', n, d) = Number(events, n, d) + Number({e}, n, d)
      <3>1. e \notin events
        <4>1. \A f \in events : f.id \in Nat /\ f.id <= used.acts
          BY Constants DEF Typed, TypeOK, Identified, Event, EventIds
        <4>2. used.acts \in Nat
          BY Constants DEF Typed, TypeOK
        <4> QED
          BY <2>2, <4>1, <4>2
      <3>2. IsFiniteSet(events) /\ IsFiniteSet({e}) /\ events \cap {e} = {}
        BY <3>1, FS_Singleton DEF Typed, Identified
      <3> QED
        BY <2>3, <3>2, NumberOfUnion
    <2>6. written'[n][d] = written[n][d] + Number({e}, n, d) /\ Number({e}, n, d) \in Nat
      <3>1. written[n][d] \in Nat
        BY DEF Typed, TypeOK
      <3>2. CASE n = name /\ d = day
        <4>1. Number({e}, n, d) = 1
          BY <2>2, <3>2, NumberOfOne
        <4> QED
          BY <2>3, <3>1, <3>2, <4>1 DEF Typed, TypeOK
      <3>3. CASE ~(n = name /\ d = day)
        <4>1. Number({e}, n, d) = 0
          BY <2>2, <3>3, NumberOfNone
        <4> QED
          BY <2>3, <3>1, <3>3, <4>1 DEF Typed, TypeOK
      <3> QED
        BY <3>2, <3>3
    <2>7. Number(events, n, d) \in Nat /\ written[n][d] \in Nat
      BY NumberTyped DEF Typed, TypeOK, Identified
    <2>8. \/ /\ d >= Cutoff
             /\ Number(events, n, d) = written[n][d] => Number(events', n, d) = written'[n][d]
          \/ Number(events', n, d) = Number(events, n, d) /\ written'[n][d] = written[n][d]
      BY <2>4, <2>5, <2>6, <2>7
    <2> QED
      BY <2>3, <2>4, <2>8, Rewrites DEF AccountsKept
  <1>2. ASSUME NEW user \in Users, NEW anon \in Browsers, MergeHistory(user, anon)
        PROVE  Account(n, d)'
    <2>1. events' = Handed(events, user, anon)
      BY <1>2 DEF MergeHistory, Handed, OwnedBy
    <2>2. Number(events', n, d) = Number(events, n, d)
      BY <2>1, HandedKeeps DEF Typed, TypeOK, Identified
    <2>3. UNCHANGED <<today, aggregates, session, written, blurred>>
      BY <1>2 DEF MergeHistory, histories
    <2> QED
      BY <2>2, <2>3, Rewrites DEF AccountsKept
  <1>3. ASSUME NEW user \in Users, Erase(user), UNCHANGED <<today, aggregates, session>>
        PROVE  Account(n, d)'
    <2>1. OwnedBy(user) \in SUBSET Event /\ IsFiniteSet(OwnedBy(user)) /\ Blurs(OwnedBy(user))
      BY <1>3, FS_Subset DEF Erase, OwnedBy, Typed, TypeOK, Identified
    <2>2. <<n, d>> \notin blurred /\ (d >= Cutoff \/ Number(OwnedBy(user), n, d) = 0)
      BY <2>1, BlursNote
    <2>3. /\ Number(events', n, d) = Number(events, n, d) - Number(OwnedBy(user), n, d)
          /\ written'[n][d] = written[n][d] - Number(OwnedBy(user), n, d)
      BY <1>3, EraseTyped
    <2>4. /\ Number(events, n, d) \in Nat /\ written[n][d] \in Nat
          /\ Number(OwnedBy(user), n, d) \in Nat
      BY <2>1, NumberTyped DEF Typed, TypeOK, Identified
    <2>5. \/ /\ d >= Cutoff
             /\ Number(events, n, d) = written[n][d] => Number(events', n, d) = written'[n][d]
          \/ Number(events', n, d) = Number(events, n, d) /\ written'[n][d] = written[n][d]
      BY <2>2, <2>3, <2>4
    <2> QED
      BY <1>3, <2>2, <2>5, Rewrites DEF AccountsKept
  <1>4. ASSUME UNCHANGED <<events, written, blurred, today, aggregates, session>>
        PROVE  Account(n, d)'
    BY <1>4, Rewrites DEF AccountsKept
  <1>5. ASSUME NEW user \in Users, PrivacyDelete(user) PROVE Account(n, d)'
    BY <1>3, <1>5 DEF PrivacyDelete
  <1>6. ASSUME NEW user \in Users, NEW enabled \in BOOLEAN, PrivacyPreference(user, enabled)
        PROVE  Account(n, d)'
    BY <1>3, <1>4, <1>6 DEF PrivacyPreference
  <1> QED
    BY <1>1, <1>2, <1>5, <1>6 DEF Visit

LEMMA ExpiredNumber ==
  ASSUME Typed, NEW n, NEW d \in Days
  PROVE  Number(Expired, n, d) = IF d < Cutoff THEN Number(events, n, d) ELSE 0
  <1>1. CASE d < Cutoff
    <2>1. {e \in Expired : e.name = n /\ e.day = d} = {e \in events : e.name = n /\ e.day = d}
      BY <1>1 DEF Expired
    <2> QED
      BY <1>1, <2>1 DEF Number
  <1>2. CASE ~(d < Cutoff)
    <2>1. \A e \in Expired : ~(e.name = n /\ e.day = d)
      BY <1>2 DEF Expired
    <2> QED
      BY <1>2, <2>1, NumberOfNone
  <1> QED
    BY <1>1, <1>2

LEMMA RetentionAccounts ==
  ASSUME Typed, AccountsKept, NEW s \in Sessions, StartRetention(s) \/ DeleteExpired(s)
  PROVE  AccountsKept'
  <1> SUFFICES ASSUME NEW n \in Names, NEW d \in Days, <<n, d>> \notin blurred'
               PROVE  Account(n, d)'
    BY DEF AccountsKept
  <1>1. UNCHANGED <<today, written, blurred>> /\ Cutoff' = Cutoff
    BY DEF StartRetention, DeleteExpired, base, histories, Cutoff
  <1>2. Account(n, d)
    BY <1>1 DEF AccountsKept
  <1>3. /\ Cutoff \in Int /\ d \in Int /\ Number(events, n, d) \in Nat
        /\ written[n][d] \in Nat /\ aggregates[n][d] \in Nat
    BY CutoffTyped, NumberTyped DEF Typed, TypeOK, Identified
  <1>4. CASE StartRetention(s)
    <2>1. PICK next : /\ Becomes(s, next)
                      /\ \A m \in Names, b \in Days : next.counts[m][b] = Number(Expired, m, b)
      BY <1>4, StartRetentionMeans
    <2>2. session'[s] = next /\ \A t \in Sessions \ {s} : session'[t] = session[t]
      BY <2>1, Moves DEF Typed, TypeOK
    <2>3. UNCHANGED <<events, aggregates>>
      BY <1>4 DEF StartRetention, base
    <2>4. next.counts[n][d] = IF d < Cutoff THEN Number(events, n, d) ELSE 0
      BY <2>1, ExpiredNumber
    <2>5. \/ next.counts[n][d] = 0 /\ (d < Cutoff => Number(events, n, d) = 0)
          \/ next.counts[n][d] = written[n][d] /\ d < Cutoff
      BY <1>2, <2>4 DEF Account
    <2> QED
      BY <1>1, <1>2, <2>2, <2>3, <2>5 DEF Account
  <1>5. CASE DeleteExpired(s)
    <2>1. /\ session[s].pc = "delete" /\ Becomes(s, Idle)
          /\ events' = events \ Expired
          /\ aggregates'[n][d] = IF session[s].counts[n][d] = 0 THEN aggregates[n][d]
                                 ELSE session[s].counts[n][d]
      BY <1>5 DEF DeleteExpired
    <2>2. \A t \in Sessions : session'[t].pc = "delete" => session'[t] = session[t]
      BY <2>1, Moves, IdleTyped DEF Typed, TypeOK
    <2>3. Number(events', n, d) = IF d < Cutoff THEN 0 ELSE Number(events, n, d)
      <3>1. Expired \subseteq events
        BY DEF Expired
      <3>2. Number(events', n, d) = Number(events, n, d) - Number(Expired, n, d)
        BY <2>1, <3>1, NumberOfRest DEF Typed, Identified
      <3> QED
        BY <1>3, <3>2, ExpiredNumber
    <2>4. \/ session[s].counts[n][d] = 0 /\ (d < Cutoff => Number(events, n, d) = 0)
          \/ session[s].counts[n][d] = written[n][d] /\ d < Cutoff
      BY <1>2, <2>1 DEF Account
    <2>5. CASE d < Cutoff
      <3>1. aggregates'[n][d] = written[n][d]
        <4>1. CASE session[s].counts[n][d] = 0 /\ Number(events, n, d) = 0
          BY <1>2, <2>1, <4>1 DEF Account
        <4>2. CASE session[s].counts[n][d] = written[n][d]
          <5>1. CASE written[n][d] = 0
            BY <1>2, <2>1, <4>2, <5>1 DEF Account
          <5>2. CASE written[n][d] # 0
            BY <2>1, <4>2, <5>2
          <5> QED
            BY <5>1, <5>2
        <4> QED
          BY <2>4, <2>5, <4>1, <4>2
      <3>2. Number(events', n, d) = 0 /\ ~(d >= Cutoff)
        BY <1>3, <2>3, <2>5
      <3> QED
        BY <1>1, <1>2, <2>2, <3>1, <3>2 DEF Account
    <2>6. CASE ~(d < Cutoff)
      <3>1. aggregates'[n][d] = aggregates[n][d] /\ Number(events', n, d) = Number(events, n, d)
        BY <2>1, <2>3, <2>4, <2>6
      <3> QED
        BY <1>1, <1>2, <2>2, <2>6, <3>1 DEF Account
    <2> QED
      BY <2>5, <2>6
  <1> QED
    BY <1>4, <1>5

LEMMA CommitAccounts ==
  ASSUME Typed, AccountsKept, NEW s \in Sessions, Commit(s)
  PROVE  AccountsKept'
  <1> SUFFICES ASSUME NEW n \in Names, NEW d \in Days, <<n, d>> \notin blurred'
               PROVE  Account(n, d)'
    BY DEF AccountsKept
  <1> DEFINE R == session[s].request
  <1>1. /\ events' = events \cup R /\ Blurs(R) /\ Becomes(s, Idle)
        /\ written' = [m \in Names |-> [b \in Days |-> written[m][b] + Number(R, m, b)]]
        /\ UNCHANGED <<today, aggregates>>
    BY DEF Commit
  <1>2. R \in SUBSET Event /\ IsFiniteSet(R) /\ events \cap R = {}
    <2>1. session[s] \in Session /\ \A e, f \in R : e = f
      BY SessionTyped DEF Situated
    <2>2. R = {} \/ \E e : R = {e}
      BY <2>1
    <2>3. IsFiniteSet(R)
      BY <2>2, FS_EmptySet, FS_Singleton
    <2>4. events \cap R = {}
      BY RequestIsNew
    <2> QED
      BY <2>1, <2>3, <2>4 DEF Session
  <1> HIDE DEF R
  <1>3. <<n, d>> \notin blurred /\ (d >= Cutoff \/ Number(R, n, d) = 0)
    BY <1>1, <1>2, BlursNote
  <1>4. /\ Number(events', n, d) = Number(events, n, d) + Number(R, n, d)
        /\ written'[n][d] = written[n][d] + Number(R, n, d)
    BY <1>1, <1>2, NumberOfUnion DEF Typed, Identified
  <1>5. Number(events, n, d) \in Nat /\ written[n][d] \in Nat /\ Number(R, n, d) \in Nat
    BY <1>2, NumberTyped DEF Typed, TypeOK, Identified
  <1>6. \/ /\ d >= Cutoff
           /\ Number(events, n, d) = written[n][d] => Number(events', n, d) = written'[n][d]
        \/ Number(events', n, d) = Number(events, n, d) /\ written'[n][d] = written[n][d]
    BY <1>3, <1>4, <1>5
  <1>7. \A t \in Sessions : session'[t].pc = "delete" => session'[t] = session[t]
    BY <1>1, Moves, IdleTyped DEF Typed, TypeOK
  <1> QED
    BY <1>1, <1>3, <1>6, <1>7, Rewrites DEF AccountsKept

(* A session that is no retention run.                                     *)
LEMMA OtherAccounts ==
  ASSUME Typed, AccountsKept, NEW s \in Sessions, Step(s),
         ~StartRetention(s), ~DeleteExpired(s), ~Commit(s)
  PROVE  AccountsKept'
  <1>1. UNCHANGED <<today, events, aggregates, written, blurred>>
    BY DEF Step, StartHourly, StartDeepDive, AskDeepDive, ScoreUser, FlushLead, CheckRoute,
           SendMail, PostWebhook, MarkRouted, FailSession, base, histories
  <1>2. \E next : Becomes(s, next) /\ next.pc # "delete"
    <2>1. CASE StartHourly(s)
      BY <2>1, StartHourlyMeans DEF Started, Situated
    <2>2. CASE \E user \in Users : StartDeepDive(s, user)
      BY <2>2, StartDeepDiveMeans
    <2>3. CASE AskDeepDive(s)
      BY <2>3, AskDeepDiveMeans
    <2>4. CASE ScoreUser(s)
      BY <2>4, ScoreUserMeans DEF Turned, Inserted, Picked
    <2>5. CASE FlushLead(s)
      BY <2>5, FlushLeadMeans DEF Sends
    <2>6. CASE CheckRoute(s)
      BY <2>6, CheckRouteMeans DEF Turned
    <2>7. CASE SendMail(s)
      BY <2>7, SendMailMeans
    <2>8. CASE PostWebhook(s)
      BY <2>8, PostWebhookMeans
    <2>9. CASE MarkRouted(s)
      BY <2>9, MarkRoutedMeans DEF Turned
    <2>10. CASE FailSession(s)
      BY <2>10, IdleTyped DEF FailSession
    <2> QED
      BY <2>1, <2>2, <2>3, <2>4, <2>5, <2>6, <2>7, <2>8, <2>9, <2>10 DEF Step
  <1>3. \A t \in Sessions : session'[t].pc = "delete" => session'[t] = session[t]
    BY <1>2, Moves DEF Typed, TypeOK
  <1>4. ASSUME NEW n \in Names, NEW d \in Days, <<n, d>> \notin blurred PROVE Account(n, d)'
    BY <1>1, <1>3, <1>4, Rewrites DEF AccountsKept
  <1> QED
    BY <1>1, <1>4 DEF AccountsKept

LEMMA TickAccounts ==
  ASSUME Typed, AccountsKept, Tick
  PROVE  AccountsKept'
  <1> SUFFICES ASSUME NEW n \in Names, NEW d \in Days, <<n, d>> \notin blurred'
               PROVE  Account(n, d)'
    BY DEF AccountsKept
  <1>1. /\ today' = today + 1 /\ \A s \in Sessions : session[s].pc = "idle"
        /\ UNCHANGED <<events, aggregates, session, written, blurred>>
    BY DEF Tick, base, histories
  <1>2. Cutoff' = Cutoff + 1
    BY <1>1, CutoffTyped, Constants DEF Cutoff
  <1>3. d >= Cutoff' => d >= Cutoff
    BY <1>2, CutoffTyped
  <1> QED
    BY <1>1, <1>3 DEF AccountsKept, Account

(* Retention forgets events and keeps their number, for any number of      *)
(* overlapping and failing retention runs, any window and any history that *)
(* is merged, erased or written meanwhile, but past retention.             *)
THEOREM EventsAccounted == Spec => []EventsAreAccounted
  <1>1. Typed /\ AccountsKept /\ [Next]_vars => AccountsKept'
    <2> SUFFICES ASSUME Typed, AccountsKept, [Next]_vars PROVE AccountsKept'
      OBVIOUS
    <2>1. CASE UNCHANGED vars
      BY <2>1 DEF vars, AccountsKept, Account, Cutoff
    <2>2. ASSUME NEW s \in Sessions, Step(s) PROVE AccountsKept'
      BY <2>2, RetentionAccounts, CommitAccounts, OtherAccounts
    <2>3. CASE \E l \in LeadIds, status \in {"qualified", "closed"} : UpdateOutcome(l, status)
      <3>1. UNCHANGED <<today, events, aggregates, session, written, blurred>>
        BY <2>3 DEF UpdateOutcome
      <3> QED
        BY <3>1 DEF AccountsKept, Account, Cutoff
    <2> QED
      BY <2>1, <2>2, <2>3, VisitAccounts, TickAccounts DEF Next
  <1> QED
    BY <1>1, InitAccounts, AccountsHold, TypedAlways, PTL DEF Spec

-----------------------------------------------------------------------------
(* Rows.  A row is nobody's or somebody's for good; a session writes what  *)
(* no other has written, and the lead it works on is there.                *)

Proper(r) == r = NoLead \/ (r.status # "none" /\ r.user \in Users)

Same(a, b) == a.user = b.user /\ a.org = b.org

(* What a session that has written `mine' sees of a lead.                  *)
View(mine, l) == IF mine[l] # NoLead THEN mine[l] ELSE leads[l]

Holds(s, l) == session[s].mine[l] # NoLead

RowsKept ==
    /\ \A l \in LeadIds : Proper(leads[l])
    /\ \A s \in Sessions, l \in LeadIds :
         /\ Proper(session[s].mine[l])
         /\ Holds(s, l) /\ leads[l] # NoLead => Same(session[s].mine[l], leads[l])
         /\ Holds(s, l) => \A t \in Sessions \ {s} : ~Holds(t, l)
    /\ \A s \in Sessions : session[s].pc \in Working =>
         /\ Seen(s, session[s].lead) # NoLead
         /\ Same(Seen(s, session[s].lead), session[s].row)

LEMMA SeenView ==
  ASSUME NEW s, NEW l \in LeadIds
  PROVE  Seen(s, l) = View(session[s].mine, l)
  BY WroteMeans DEF View

LEMMA NotLocked ==
  ASSUME NEW s, NEW l \in LeadIds, ~Locked(s, l)
  PROVE  \A t \in Sessions \ {s} : ~Holds(t, l)
  BY WroteMeans DEF Locked, Holds

LEMMA FreeMeans ==
  ASSUME NEW l \in Free
  PROVE  l \in LeadIds /\ leads[l] = NoLead /\ \A t \in Sessions : ~Holds(t, l)
  BY DEF Free, Holds

(* What a session sees of its lead, as a row of that user.                 *)
LEMMA LeadSeen ==
  ASSUME Typed, RowsKept, NEW s \in Sessions, NEW l \in LeadIds
  PROVE  /\ Proper(Seen(s, l))
         /\ leads[l] # NoLead => Seen(s, l) # NoLead /\ Same(Seen(s, l), leads[l])
  BY WroteMeans DEF RowsKept, Holds, Same

LEMMA AlikeIsReal ==
  ASSUME NEW a \in Lead, NEW b \in Lead, Alike(a, b), b # NoLead, Proper(b)
  PROVE  a # NoLead /\ Proper(a) /\ Same(a, b)
  <1>1. b.status # "none" /\ b.user \in Users
    BY DEF Proper
  <1>2. a.status = b.status /\ a.user = b.user /\ a.org = b.org
    BY DEF Alike
  <1>3. NoLead.status = "none"
    BY DEF NoLead
  <1> QED
    BY <1>1, <1>2, <1>3 DEF Proper, Same

LEMMA InitRows == Init => RowsKept
  BY IdleTyped DEF Init, RowsKept, Proper, Holds, Working

(* A step of one session that commits nothing.                             *)
LEMMA RowsMove ==
  ASSUME Typed, RowsKept, NEW s \in Sessions, NEW next, Becomes(s, next), leads' = leads,
         \A l \in LeadIds : /\ Proper(next.mine[l])
                            /\ next.mine[l] # NoLead =>
                                 /\ leads[l] # NoLead => Same(next.mine[l], leads[l])
                                 /\ \A t \in Sessions \ {s} : ~Holds(t, l),
         next.pc \in Working => /\ next.lead \in LeadIds
                                /\ View(next.mine, next.lead) # NoLead
                                /\ Same(View(next.mine, next.lead), next.row)
  PROVE  RowsKept'
  <1>1. session'[s] = next /\ \A t \in Sessions \ {s} : session'[t] = session[t]
    BY Moves DEF Typed, TypeOK
  <1>2. ASSUME NEW t \in Sessions, NEW l \in LeadIds
        PROVE  /\ Proper(session'[t].mine[l])
               /\ session'[t].mine[l] # NoLead =>
                    /\ leads[l] # NoLead => Same(session'[t].mine[l], leads[l])
                    /\ \A u \in Sessions \ {t} : session'[u].mine[l] = NoLead
    <2>1. CASE t = s
      BY <1>1, <2>1 DEF Holds
    <2>2. CASE t # s
      <3>1. session'[t] = session[t]
        BY <1>1, <2>2
      <3>2. session[t].mine[l] # NoLead => next.mine[l] = NoLead
        BY <2>2 DEF Holds
      <3> QED
        BY <1>1, <3>1, <3>2 DEF RowsKept, Holds
    <2> QED
      BY <2>1, <2>2
  <1>3. ASSUME NEW t \in Sessions, session'[t].pc \in Working
        PROVE  /\ session'[t].lead \in LeadIds
               /\ View(session'[t].mine, session'[t].lead) # NoLead
               /\ Same(View(session'[t].mine, session'[t].lead), session'[t].row)
    <2>1. CASE t = s
      BY <1>1, <1>3, <2>1
    <2>2. CASE t # s
      <3>1. session'[t] = session[t]
        BY <1>1, <2>2
      <3>2. session[t].lead \in LeadIds
        BY <1>3, <3>1, WorkingTyped
      <3> QED
        BY <1>3, <3>1, <3>2, SeenView DEF RowsKept
    <2> QED
      BY <2>1, <2>2
  <1>4. ASSUME NEW t \in Sessions, session'[t].pc \in Working
        PROVE  (/\ Seen(t, session[t].lead) # NoLead
                /\ Same(Seen(t, session[t].lead), session[t].row))'
    BY <1>3, <1>4 DEF Seen, Wrote, View
  <1> QED
    BY <1>2, <1>4 DEF RowsKept, Holds

(* A session that writes a row it may write.                               *)
LEMMA RowsWrite ==
  ASSUME Typed, RowsKept, NEW s \in Sessions, NEW next, Becomes(s, next), leads' = leads,
         NEW l \in LeadIds, NEW row \in Lead, next.mine = [session[s].mine EXCEPT ![l] = row],
         row # NoLead, Proper(row), leads[l] # NoLead => Same(row, leads[l]),
         \A t \in Sessions \ {s} : ~Holds(t, l),
         next.pc \in Working => next.lead = l /\ Same(row, next.row)
  PROVE  RowsKept'
  <1>1. \A k \in LeadIds : next.mine[k] = IF k = l THEN row ELSE session[s].mine[k]
    BY SessionTyped DEF Session
  <1>2. \A k \in LeadIds : /\ Proper(next.mine[k])
                           /\ next.mine[k] # NoLead =>
                                /\ leads[k] # NoLead => Same(next.mine[k], leads[k])
                                /\ \A t \in Sessions \ {s} : ~Holds(t, k)
    BY <1>1 DEF RowsKept, Holds
  <1>3. View(next.mine, l) = row
    BY <1>1 DEF View
  <1> QED
    BY <1>2, <1>3, RowsMove

(* A session that writes nothing, and goes on to a lead that is there.     *)
LEMMA RowsRest ==
  ASSUME Typed, RowsKept, NEW s \in Sessions, NEW next, Becomes(s, next), leads' = leads,
         next.mine = session[s].mine,
         next.pc \in Working => /\ next.lead \in LeadIds
                                /\ Seen(s, next.lead) # NoLead
                                /\ Same(Seen(s, next.lead), next.row)
  PROVE  RowsKept'
  <1>1. \A l \in LeadIds : /\ Proper(next.mine[l])
                           /\ next.mine[l] # NoLead =>
                                /\ leads[l] # NoLead => Same(next.mine[l], leads[l])
                                /\ \A t \in Sessions \ {s} : ~Holds(t, l)
    BY DEF RowsKept, Holds
  <1>2. next.pc \in Working => /\ next.lead \in LeadIds
                               /\ View(next.mine, next.lead) # NoLead
                               /\ Same(View(next.mine, next.lead), next.row)
    BY SeenView
  <1> QED
    BY <1>1, <1>2, RowsMove

(* A session that has nothing, any more or yet.                            *)
LEMMA RowsDrop ==
  ASSUME Typed, RowsKept, NEW s \in Sessions, NEW next, Becomes(s, next), leads' = leads,
         \A l \in LeadIds : next.mine[l] = NoLead, next.pc \notin Working
  PROVE  RowsKept'
  <1>1. \A l \in LeadIds : Proper(next.mine[l])
    BY DEF Proper
  <1> QED
    BY <1>1, RowsMove

LEMMA CommittedRow ==
  ASSUME Typed, RowsKept, NEW s \in Sessions, Commit(s), NEW l \in LeadIds
  PROVE  /\ leads'[l] = Seen(s, l)
         /\ ~Holds(s, l) => leads'[l] = leads[l]
         /\ \A t \in Sessions \ {s} : Holds(t, l) => leads'[l] = leads[l]
         /\ leads[l] # NoLead => leads'[l] # NoLead /\ Same(leads'[l], leads[l])
  <1>1. leads'[l] = Seen(s, l)
    BY DEF Commit
  <1> QED
    BY <1>1, LeadSeen, WroteMeans DEF RowsKept, Holds

LEMMA RowsCommit ==
  ASSUME Typed, RowsKept, NEW s \in Sessions, Commit(s)
  PROVE  RowsKept'
  <1>1. session'[s] = Idle /\ \A t \in Sessions \ {s} : session'[t] = session[t]
    BY Moves DEF Commit, Typed, TypeOK
  <1>2. \A l \in LeadIds : Proper(leads'[l])
    BY CommittedRow, LeadSeen
  <1>3. ASSUME NEW t \in Sessions, NEW l \in LeadIds
        PROVE  /\ Proper(session'[t].mine[l])
               /\ session'[t].mine[l] # NoLead =>
                    /\ leads'[l] # NoLead => Same(session'[t].mine[l], leads'[l])
                    /\ \A u \in Sessions \ {t} : session'[u].mine[l] = NoLead
    <2>1. CASE t = s
      BY <1>1, <2>1, IdleTyped DEF Proper
    <2>2. CASE t # s
      <3>1. session'[t] = session[t]
        BY <1>1, <2>2
      <3>2. Holds(t, l) => leads'[l] = leads[l]
        BY <2>2, CommittedRow
      <3>3. Holds(t, l) => \A u \in Sessions \ {t} : session'[u].mine[l] = NoLead
        BY <1>1, IdleTyped DEF RowsKept, Holds
      <3> QED
        BY <3>1, <3>2, <3>3 DEF RowsKept, Holds
    <2> QED
      BY <2>1, <2>2
  <1>4. ASSUME NEW t \in Sessions, session'[t].pc \in Working
        PROVE  (/\ Seen(t, session[t].lead) # NoLead
                /\ Same(Seen(t, session[t].lead), session[t].row))'
    <2>1. t # s /\ session'[t] = session[t]
      BY <1>1, <1>4, IdleTyped DEF Working
    <2>2. PICK l \in LeadIds : l = session[t].lead
      BY <1>4, <2>1, WorkingTyped
    <2>3. Seen(t, l) # NoLead /\ Same(Seen(t, l), session[t].row)
      BY <1>4, <2>1, <2>2 DEF RowsKept
    <2>4. \/ Holds(t, l) /\ Seen(t, l) = session[t].mine[l]
          \/ /\ ~Holds(t, l) /\ leads[l] # NoLead
             /\ leads'[l] # NoLead /\ Same(leads'[l], session[t].row)
      <3>1. CASE Holds(t, l)
        BY <3>1, WroteMeans DEF Holds
      <3>2. CASE ~Holds(t, l)
        <4>1. Seen(t, l) = leads[l]
          BY <3>2, WroteMeans DEF Holds
        <4>2. leads'[l] # NoLead /\ Same(leads'[l], leads[l])
          BY <2>3, <4>1, CommittedRow
        <4> QED
          BY <2>3, <3>2, <4>1, <4>2 DEF Same
      <3> QED
        BY <3>1, <3>2
    <2> QED
      BY <2>1, <2>2, <2>3, <2>4 DEF Seen, Wrote, Holds
  <1> QED
    BY <1>2, <1>3, <1>4 DEF RowsKept, Holds

LEMMA RowsOutcome ==
  ASSUME Typed, RowsKept, NEW l \in LeadIds, NEW status \in {"qualified", "closed"},
         UpdateOutcome(l, status)
  PROVE  RowsKept'
  <1>1. /\ leads[l] # NoLead /\ \A t \in Sessions : ~Holds(t, l)
        /\ leads' = [leads EXCEPT ![l] = [leads[l] EXCEPT !.status = status]]
        /\ session' = session
    BY WroteMeans DEF UpdateOutcome, Holds
  <1>2. PICK row \in Lead : row = [leads[l] EXCEPT !.status = status]
    <2>1. leads[l] \in Lead
      BY DEF Typed, TypeOK
    <2> QED
      BY <2>1 DEF Lead
  <1>3. /\ row.status = status /\ Same(row, leads[l]) /\ row # NoLead /\ Proper(row)
    <2>1. leads[l] \in Lead /\ leads[l].user \in Users
      BY <1>1 DEF Typed, TypeOK, RowsKept, Proper
    <2>2. row.status = status /\ row.user = leads[l].user /\ row.org = leads[l].org
      BY <1>2, <2>1 DEF Lead
    <2> QED
      BY <2>1, <2>2 DEF Same, Proper, NoLead
  <1>4. \A k \in LeadIds : leads'[k] = IF k = l THEN row ELSE leads[k]
    BY <1>1, <1>2 DEF Typed, TypeOK
  <1>5. ASSUME NEW t \in Sessions, session'[t].pc \in Working
        PROVE  (/\ Seen(t, session[t].lead) # NoLead
                /\ Same(Seen(t, session[t].lead), session[t].row))'
    <2>1. PICK k \in LeadIds : k = session[t].lead
      BY <1>1, <1>5, WorkingTyped
    <2>2. Seen(t, k) # NoLead /\ Same(Seen(t, k), session[t].row)
      BY <1>1, <1>5, <2>1 DEF RowsKept
    <2>3. CASE k # l
      BY <1>1, <1>4, <2>1, <2>2, <2>3 DEF Seen, Wrote
    <2>4. CASE k = l
      <3>1. session[t].mine[k] = NoLead /\ Seen(t, k) = leads[l]
        BY <1>1, <2>4, WroteMeans DEF Holds
      <3>2. Same(row, session[t].row)
        BY <1>3, <2>2, <3>1 DEF Same
      <3> QED
        BY <1>1, <1>3, <1>4, <2>1, <2>4, <3>1, <3>2 DEF Seen, Wrote
    <2> QED
      BY <2>3, <2>4
  <1> QED
    BY <1>1, <1>3, <1>4, <1>5 DEF RowsKept, Holds

(* What a session has flushed, or marked, is a row of the lead it works on. *)
LEMMA LeadWritten ==
  ASSUME Typed, RowsKept, NEW s \in Sessions, session[s].pc \in Working, NEW row \in Lead,
         Same(row, Seen(s, session[s].lead)),
         row.status = Seen(s, session[s].lead).status \/ row.status # "none"
  PROVE  /\ row # NoLead /\ Proper(row)
         /\ leads[session[s].lead] # NoLead => Same(row, leads[session[s].lead])
         /\ Same(row, session[s].row)
  <1>1. PICK l \in LeadIds : l = session[s].lead
    BY WorkingTyped
  <1>2. PICK seen \in Lead : seen = Seen(s, l)
    BY RowsTyped
  <1>3. /\ seen # NoLead /\ Proper(seen) /\ Same(seen, session[s].row)
        /\ leads[l] # NoLead => Same(seen, leads[l])
    BY <1>1, <1>2, LeadSeen DEF RowsKept
  <1>4. row.status # "none" /\ row.user \in Users
    BY <1>1, <1>2, <1>3 DEF Proper, Same
  <1>5. NoLead.status = "none"
    BY DEF NoLead
  <1> QED
    BY <1>1, <1>2, <1>3, <1>4, <1>5 DEF Same, Proper

LEMMA StepsRows ==
  ASSUME Typed, RowsKept, NEW s \in Sessions, Step(s)
  PROVE  RowsKept'
  <1> DEFINE me == session[s]
  <1>1. CASE Commit(s)
    BY <1>1, RowsCommit
  <1>2. CASE \/ StartHourly(s) \/ StartRetention(s) \/ FailSession(s) \/ DeleteExpired(s)
             \/ \E user \in Users : StartDeepDive(s, user)
    <2>1. leads' = leads
      BY <1>2 DEF StartHourly, StartRetention, FailSession, DeleteExpired, StartDeepDive, base
    <2>2. PICK next : /\ Becomes(s, next) /\ next.pc \notin Working
                      /\ \A l \in LeadIds : next.mine[l] = NoLead
      <3>1. CASE StartHourly(s) \/ StartRetention(s) \/ \E user \in Users : StartDeepDive(s, user)
        BY <3>1, StartHourlyMeans, StartRetentionMeans, StartDeepDiveMeans DEF Started, Working
      <3>2. CASE FailSession(s) \/ DeleteExpired(s)
        BY <3>2, IdleTyped DEF FailSession, DeleteExpired, Working
      <3> QED
        BY <1>2, <3>1, <3>2
    <2> QED
      BY <2>1, <2>2, RowsDrop
  <1>3. CASE \/ AskDeepDive(s) \/ ScoreUser(s) \/ FlushLead(s) \/ CheckRoute(s)
             \/ SendMail(s) \/ PostWebhook(s) \/ MarkRouted(s)
    <2>1. leads' = leads
      BY <1>3 DEF AskDeepDive, ScoreUser, FlushLead, CheckRoute, SendMail, PostWebhook,
                  MarkRouted, base
    <2>2. ASSUME NEW next, Becomes(s, next), Turned(me, next), next.mine = me.mine
          PROVE  RowsKept'
      BY <2>1, <2>2, RowsRest DEF Turned, Working
    <2>3. ASSUME NEW next, Becomes(s, next), GoesOn(me, next), next.mine = me.mine,
                 me.pc \in Working
          PROVE  RowsKept'
      BY <2>1, <2>3, RowsRest, WorkingTyped DEF GoesOn, RowsKept
    <2>4. CASE AskDeepDive(s)
      <3>1. PICK next : Becomes(s, next) /\ next.mine = me.mine /\ next.pc = "user"
        BY <2>4, AskDeepDiveMeans
      <3> QED
        BY <2>1, <3>1, RowsRest DEF Working
    <2>5. ASSUME NEW next, NEW l \in Free, NEW row, Becomes(s, next),
                 Inserted(me, next, l, row), me.user \in Users
          PROVE  RowsKept'
      <3>1. /\ l \in LeadIds /\ leads[l] = NoLead /\ \A t \in Sessions : ~Holds(t, l)
        BY FreeMeans
      <3>2. /\ row \in Lead /\ row # NoLead /\ Proper(row) /\ next.lead = l
            /\ next.mine = [me.mine EXCEPT ![l] = row] /\ next.row = row
        BY <2>5 DEF Inserted, Proper, NoLead
      <3> QED
        BY <2>1, <2>5, <3>1, <3>2, RowsWrite DEF Same
    <2>6. ASSUME NEW next, NEW l \in OpenLeads(s, me.user), Becomes(s, next),
                 Picked(me, next, l, Seen(s, l))
          PROVE  RowsKept'
      <3>1. l \in LeadIds /\ Seen(s, l) # NoLead
        BY DEF OpenLeads, NoLead
      <3> QED
        BY <2>1, <2>6, <3>1, RowsRest DEF Picked, Alike, Same
    <2>7. CASE ScoreUser(s)
      BY <2>2, <2>5, <2>6, <2>7, ScoreUserMeans
    <2>8. CASE FlushLead(s)
      <3>0. PICK next, row : Becomes(s, next) /\ Sends(s, next, row)
        BY <2>8, FlushLeadMeans
      <3>1. /\ Becomes(s, next) /\ GoesOn(me, next) /\ me.pc = "flush"
            /\ row \in Lead /\ Alike(row, Seen(s, me.lead))
            /\ \/ next.mine = me.mine
               \/ ~Locked(s, me.lead) /\ next.mine = [me.mine EXCEPT ![me.lead] = row]
        BY <3>0 DEF Sends
      <3>2. me.pc \in Working /\ me.lead \in LeadIds
        BY <3>1, WorkingTyped DEF Working
      <3>3. CASE next.mine = me.mine
        BY <2>3, <3>1, <3>2, <3>3
      <3>4. CASE ~Locked(s, me.lead) /\ next.mine = [me.mine EXCEPT ![me.lead] = row]
        <4>1. \A t \in Sessions \ {s} : ~Holds(t, me.lead)
          BY <3>2, <3>4, NotLocked
        <4>2. Same(row, Seen(s, me.lead)) /\ row.status = Seen(s, me.lead).status
          BY <3>1 DEF Alike, Same
        <4>3. /\ row # NoLead /\ Proper(row)
              /\ leads[me.lead] # NoLead => Same(row, leads[me.lead])
              /\ Same(row, me.row)
          BY <3>1, <3>2, <4>2, LeadWritten
        <4>4. next.lead = me.lead /\ next.row = me.row
          BY <3>1 DEF GoesOn
        <4> QED
          BY <2>1, <3>1, <3>2, <3>4, <4>1, <4>3, <4>4, RowsWrite
      <3> QED
        BY <3>1, <3>3, <3>4
    <2>9. CASE CheckRoute(s)
      BY <2>2, <2>3, <2>9, CheckRouteMeans DEF Working
    <2>10. CASE SendMail(s) \/ PostWebhook(s)
      BY <2>3, <2>10, SendMailMeans, PostWebhookMeans DEF Working
    <2>11. CASE MarkRouted(s)
      <3>1. PICK next, row :
              /\ Becomes(s, next) /\ Turned(me, next) /\ me.pc = "mark"
              /\ ~Locked(s, me.lead) /\ MarkedRow(s, row)
              /\ next.mine = [me.mine EXCEPT ![me.lead] = row]
        BY ZenonT(60), <2>11, MarkRoutedMeans
      <3>2. me.pc \in Working /\ me.lead \in LeadIds
        BY <3>1, WorkingTyped DEF Working
      <3>3. \A t \in Sessions \ {s} : ~Holds(t, me.lead)
        BY <3>1, <3>2, NotLocked
      <3>4. /\ row \in Lead /\ Same(row, Seen(s, me.lead))
            /\ row.status = Seen(s, me.lead).status \/ row.status # "none"
        BY <3>1 DEF MarkedRow, Same
      <3>5. /\ row # NoLead /\ Proper(row)
            /\ leads[me.lead] # NoLead => Same(row, leads[me.lead])
        BY <3>2, <3>4, LeadWritten
      <3>6. next.pc \notin Working
        BY <3>1 DEF Turned, Working
      <3> QED
        BY <2>1, <3>1, <3>2, <3>3, <3>4, <3>5, <3>6, RowsWrite
    <2> QED
      BY <1>3, <2>4, <2>7, <2>8, <2>9, <2>10, <2>11
  <1> QED
    BY <1>1, <1>2, <1>3 DEF Step

LEMMA StutterRows ==
  ASSUME RowsKept, UNCHANGED <<leads, session>>
  PROVE  RowsKept'
  BY DEF RowsKept, Holds, Seen, Wrote

(* No two sessions hold a write of one row, a row keeps its user and       *)
(* organisation, and the lead that a session works on is there.            *)
THEOREM RowsAlways == Spec => []RowsKept
  <1>1. Typed /\ RowsKept /\ [Next]_vars => RowsKept'
    <2> SUFFICES ASSUME Typed, RowsKept, [Next]_vars PROVE RowsKept'
      OBVIOUS
    <2>1. CASE UNCHANGED vars \/ Tick \/ Visit
      BY <2>1, StutterRows DEF vars, Tick, Visit, IngestEvent, MergeHistory, PrivacyDelete,
                               PrivacyPreference, base
    <2> QED
      BY <2>1, StepsRows, RowsOutcome DEF Next
  <1> QED
    BY <1>1, InitRows, TypedAlways, PTL DEF Spec

-----------------------------------------------------------------------------
(* Routing.  A routed_at, committed or not, is of a lead that was sent     *)
(* every way the settings configure, and a session remembers truly what it *)
(* sent of its lead.                                                       *)

SentKept ==
    /\ \A l \in LeadIds : sent[l] \subseteq channels
    /\ \A l \in LeadIds : leads[l].routed # Never => channels # {} /\ sent[l] = channels
    /\ \A s \in Sessions, l \in LeadIds :
         session[s].mine[l].routed # Never => channels # {} /\ sent[l] = channels
    /\ \A s \in Sessions :
         /\ session[s].pc \in Sending => channels # {}
         /\ session[s].pc = "hook" => "hook" \in channels
         /\ session[s].pc \in {"hook", "mark"} /\ session[s].mailed =>
              "mail" \in sent[session[s].lead]
         /\ session[s].pc = "mark" /\ session[s].hooked /\ "hook" \in channels =>
              "hook" \in sent[session[s].lead]

LEMMA NoLeadUnrouted == NoLead.routed = Never /\ NoLead.status = "none" /\ NoLead.user = Nobody
  BY DEF NoLead

LEMMA InitSent == Init => SentKept
  BY IdleTyped, NoLeadUnrouted DEF Init, SentKept, Sending

LEMMA SentMove ==
  ASSUME Typed, RowsKept, SentKept, Typed', NEW s \in Sessions, NEW next, Becomes(s, next),
         leads' = leads, channels' = channels,
         \A l \in LeadIds : sent'[l] \subseteq channels,
         next.pc \in Sending => channels # {},
         next.pc = "hook" => "hook" \in channels,
         \A l \in LeadIds : sent[l] \subseteq sent'[l] \/ l \in Free,
         \A l \in LeadIds : next.mine[l].routed # Never => channels # {} /\ sent'[l] = channels,
         next.pc \in {"hook", "mark"} /\ next.mailed => "mail" \in sent'[next.lead],
         next.pc = "mark" /\ next.hooked /\ "hook" \in channels => "hook" \in sent'[next.lead]
  PROVE  SentKept'
  <1>1. session'[s] = next /\ \A t \in Sessions \ {s} : session'[t] = session[t]
    BY Moves DEF Typed, TypeOK
  <1>2. \A l \in LeadIds : sent'[l] \subseteq channels
    OBVIOUS
  <1>7. ASSUME NEW l \in LeadIds, l \notin Free, channels # {}, sent[l] = channels
        PROVE  channels # {} /\ sent'[l] = channels
    <2>1. sent[l] \subseteq sent'[l]
      BY <1>7
    <2>2. sent'[l] \subseteq channels
      BY <1>2
    <2>3. \A x : x \in sent'[l] <=> x \in channels
      BY <1>7, <2>1, <2>2
    <2>4. sent'[l] = channels
      BY <2>3
    <2> QED
      BY <1>7, <2>4
  <1>3. ASSUME NEW l \in LeadIds, leads'[l].routed # Never
        PROVE  channels # {} /\ sent'[l] = channels
    <2>1. leads[l].routed # Never
      BY <1>3
    <2>2. l \notin Free
      BY <2>1, FreeMeans, NoLeadUnrouted
    <2>3. channels # {} /\ sent[l] = channels
      BY <2>1 DEF SentKept
    <2> QED
      BY <1>7, <2>2, <2>3
  <1>4. ASSUME NEW t \in Sessions, NEW l \in LeadIds, session'[t].mine[l].routed # Never
        PROVE  channels # {} /\ sent'[l] = channels
    <2>1. CASE t = s
      BY <1>1, <1>4, <2>1
    <2>2. CASE t # s
      <3>1. session[t].mine[l].routed # Never
        BY <1>1, <1>4, <2>2
      <3>2. l \notin Free
        BY <3>1, FreeMeans, NoLeadUnrouted DEF Holds
      <3>3. channels # {} /\ sent[l] = channels
        BY <3>1 DEF SentKept
      <3> QED
        BY <1>7, <3>2, <3>3
    <2> QED
      BY <2>1, <2>2
  <1>6. ASSUME NEW t \in Sessions
        PROVE  /\ session'[t].pc \in Sending => channels # {}
               /\ session'[t].pc = "hook" => "hook" \in channels
    BY <1>1 DEF SentKept
  <1>5. ASSUME NEW t \in Sessions
        PROVE  /\ session'[t].pc \in {"hook", "mark"} /\ session'[t].mailed =>
                    "mail" \in sent'[session'[t].lead]
               /\ session'[t].pc = "mark" /\ session'[t].hooked /\ "hook" \in channels =>
                    "hook" \in sent'[session'[t].lead]
    <2>1. CASE t = s
      BY <1>1, <2>1
    <2>2. CASE t # s /\ session[t].pc \in {"hook", "mark"}
      <3>1. session[t].pc \in Working /\ session'[t] = session[t]
        BY <1>1, <2>2 DEF Working
      <3>2. session[t].lead \in LeadIds /\ Seen(t, session[t].lead) # NoLead
        BY <3>1, WorkingTyped DEF RowsKept
      <3>3. session[t].lead \notin Free
        BY <3>2, FreeMeans, WroteMeans DEF Holds
      <3>4. sent[session[t].lead] \subseteq sent'[session[t].lead]
        BY <3>2, <3>3
      <3> QED
        BY <3>1, <3>4 DEF SentKept
    <2>3. CASE t # s /\ session[t].pc \notin {"hook", "mark"}
      BY <1>1, <2>3
    <2> QED
      BY <2>1, <2>2, <2>3
  <1> QED
    BY <1>2, <1>3, <1>4, <1>5, <1>6 DEF SentKept

LEMMA SeenSent ==
  ASSUME SentKept, NEW s \in Sessions, NEW l \in LeadIds, Seen(s, l).routed # Never
  PROVE  channels # {} /\ sent[l] = channels
  BY WroteMeans DEF SentKept

LEMMA StepsSent ==
  ASSUME Typed, RowsKept, SentKept, NEW s \in Sessions, Step(s), Typed'
  PROVE  SentKept'
  <1> DEFINE me == session[s]
  <1>0. me \in Session /\ \A l \in LeadIds : me.mine[l].routed # Never => channels # {} /\ sent[l] = channels
    BY SessionTyped DEF SentKept
  <1>c. channels' = channels
    BY DEF Step, StartHourly, StartDeepDive, AskDeepDive, ScoreUser, FlushLead, CheckRoute, SendMail,
           PostWebhook, MarkRouted, Commit, FailSession, StartRetention, DeleteExpired, base
  <1>s. \A l \in LeadIds : sent[l] \subseteq channels
    BY DEF SentKept
  <1>1. CASE Commit(s)
    <2>1. session'[s] = Idle /\ \A t \in Sessions \ {s} : session'[t] = session[t]
      BY <1>1, Moves DEF Commit, Typed, TypeOK
    <2>2. sent' = sent /\ \A l \in LeadIds : leads'[l] = Seen(s, l)
      BY <1>1 DEF Commit
    <2>3. \A l \in LeadIds : leads'[l].routed # Never => channels # {} /\ sent[l] = channels
      BY <2>2, SeenSent
    <2> QED
      BY <1>c, <2>1, <2>2, <2>3, IdleTyped, NoLeadUnrouted DEF SentKept, Sending
  <1>2. CASE \/ StartHourly(s) \/ StartRetention(s) \/ FailSession(s) \/ DeleteExpired(s)
             \/ \E user \in Users : StartDeepDive(s, user)
    <2>1. leads' = leads /\ sent' = sent
      BY <1>2 DEF StartHourly, StartRetention, FailSession, DeleteExpired, StartDeepDive,
                  base, histories
    <2>2. PICK next : /\ Becomes(s, next) /\ next.pc \notin {"mail", "hook", "mark"}
                      /\ \A l \in LeadIds : next.mine[l] = NoLead
      <3>1. CASE StartHourly(s) \/ StartRetention(s) \/ \E user \in Users : StartDeepDive(s, user)
        BY <3>1, StartHourlyMeans, StartRetentionMeans, StartDeepDiveMeans DEF Started
      <3>2. CASE FailSession(s) \/ DeleteExpired(s)
        BY <3>2, IdleTyped DEF FailSession, DeleteExpired
      <3> QED
        BY <1>2, <3>1, <3>2
    <2> QED
      BY <1>c, <1>s, <2>1, <2>2, SentMove, NoLeadUnrouted DEF Sending
  <1>3. ASSUME NEW next, Becomes(s, next), next.mine = me.mine, leads' = leads, sent' = sent,
               next.pc \notin {"hook", "mark"},
               next.pc = "mail" => channels # {}
        PROVE  SentKept'
    BY <1>0, <1>c, <1>s, <1>3, SentMove DEF Sending
  <1>4. CASE AskDeepDive(s)
    <2>1. leads' = leads /\ sent' = sent
      BY <1>4 DEF AskDeepDive, base, histories
    <2> QED
      BY <1>3, <1>4, <2>1, AskDeepDiveMeans
  <1>5. CASE ScoreUser(s)
    <2>1. leads' = leads
      BY <1>5 DEF ScoreUser, base
    <2>2. ASSUME NEW next, NEW l \in Free, NEW row, Becomes(s, next),
                 Inserted(me, next, l, row), sent' = [sent EXCEPT ![l] = {}]
          PROVE  SentKept'
      <3>1. /\ next.mine = [me.mine EXCEPT ![l] = row] /\ row.routed = Never
            /\ next.pc = "check"
        BY <2>2 DEF Inserted
      <3>2. \A k \in LeadIds : k # l => sent'[k] = sent[k]
        BY <2>2 DEF Typed, TypeOK
      <3>3. \A k \in LeadIds : next.mine[k].routed # Never => k # l /\ me.mine[k].routed # Never
        BY <1>0, <3>1 DEF Session
      <3>4. \A k \in LeadIds : sent[k] \subseteq sent'[k] \/ k \in Free
        BY <2>2, <3>2
      <3>5. \A k \in LeadIds : next.mine[k].routed # Never => channels # {} /\ sent'[k] = channels
        BY <1>0, <3>2, <3>3
      <3>6. Becomes(s, next) /\ next.pc \notin {"mail", "hook", "mark"}
        BY <2>2, <3>1
      <3>7. \A k \in LeadIds : sent'[k] \subseteq channels
        BY <1>s, <2>2, <3>2 DEF Typed, TypeOK
      <3> HIDE DEF me
      <3> QED
        BY <1>c, <2>1, <3>4, <3>5, <3>6, <3>7, SentMove DEF Sending
    <2>3. CASE \E next : /\ Becomes(s, next) /\ Turned(me, next)
                         /\ next.mine = me.mine /\ sent' = sent
      BY <1>3, <2>1, <2>3 DEF Turned
    <2>4. CASE \E next, l : /\ Becomes(s, next) /\ Picked(me, next, l, Seen(s, l))
                            /\ sent' = sent
      BY <1>3, <2>1, <2>4 DEF Picked
    <2>5. CASE \E next, l, row : /\ l \in Free /\ Becomes(s, next)
                                 /\ Inserted(me, next, l, row)
                                 /\ sent' = [sent EXCEPT ![l] = {}]
      <3>1. PICK next, l, row : /\ l \in Free /\ Becomes(s, next)
                                /\ Inserted(me, next, l, row)
                                /\ sent' = [sent EXCEPT ![l] = {}]
        BY <2>5
      <3> QED
        BY <2>2, <3>1
    <2>6. \/ \E next : /\ Becomes(s, next) /\ Turned(me, next)
                        /\ next.mine = me.mine /\ sent' = sent
          \/ \E next, l, row : /\ l \in Free /\ Becomes(s, next)
                                /\ Inserted(me, next, l, row)
                                /\ sent' = [sent EXCEPT ![l] = {}]
          \/ \E next, l : /\ Becomes(s, next) /\ Picked(me, next, l, Seen(s, l))
                           /\ sent' = sent
      <3>1. me = session[s]
        OBVIOUS
      <3> HIDE DEF me
      <3> QED
        BY <1>5, <3>1, ScoreUserMeans, Zenon
    <2> QED
      BY <2>3, <2>4, <2>5, <2>6
  <1>6. ASSUME NEW next, NEW row, NEW l \in LeadIds, Becomes(s, next), leads' = leads,
               sent' = sent, next.mine = [me.mine EXCEPT ![l] = row],
               row.routed # Never => channels # {} /\ sent[l] = channels,
               next.pc \notin {"mail", "hook", "mark"}
        PROVE  SentKept'
    <2>1. \A k \in LeadIds : next.mine[k] = IF k = l THEN row ELSE me.mine[k]
      BY <1>0, <1>6 DEF Session
    <2>2. \A k \in LeadIds : next.mine[k].routed # Never => channels # {} /\ sent'[k] = channels
      BY <1>0, <1>6, <2>1
    <2>3. \A k \in LeadIds : sent[k] \subseteq sent'[k] \/ k \in Free
      BY <1>6
    <2> HIDE DEF me
    <2> QED
      BY <1>c, <1>s, <1>6, <2>2, <2>3, SentMove DEF Sending
  <1>7. CASE FlushLead(s)
    <2>1. PICK next, row : Becomes(s, next) /\ Sends(s, next, row)
      BY <1>7, FlushLeadMeans
    <2>2. leads' = leads /\ sent' = sent
      BY <1>7 DEF FlushLead, base, histories
    <2>3. me.lead \in LeadIds /\ next.pc = "check"
      BY <2>1, WorkingTyped DEF Sends, Working
    <2>4. CASE next.mine = me.mine
      BY <1>3, <2>1, <2>2, <2>3, <2>4
    <2>5. CASE next.mine = [me.mine EXCEPT ![me.lead] = row]
      <3>1. row.routed # Never => channels # {} /\ sent[me.lead] = channels
        BY <2>1, <2>3, SeenSent DEF Sends, Alike
      <3> QED
        BY <1>6, <2>1, <2>2, <2>3, <2>5, <3>1
    <2> QED
      BY <2>1, <2>4, <2>5 DEF Sends
  <1>8. CASE CheckRoute(s)
    <2>1. leads' = leads /\ sent' = sent
      BY <1>8 DEF CheckRoute, base
    <2> QED
      BY <1>3, <1>8, <2>1, CheckRouteMeans DEF Turned
  <1>9. CASE SendMail(s)
    <2>1. leads' = leads
      BY <1>9 DEF SendMail, base
    <2>2. me.lead \in LeadIds /\ me.pc = "mail"
      BY <1>9, SendMailMeans, WorkingTyped DEF Working
    <2>3. PICK next : \E ok \in BOOLEAN :
            /\ Becomes(s, next) /\ GoesOn(me, next)
            /\ next.pc = (IF "hook" \in channels THEN "hook" ELSE "mark")
            /\ next.mine = me.mine /\ next.mailed = ok
            /\ sent' = [sent EXCEPT ![me.lead] = IF ok THEN @ \cup {"mail"} ELSE @]
      BY <1>9, SendMailMeans
    <2>4. \A l \in LeadIds : sent[l] \subseteq sent'[l]
      BY <2>2, <2>3 DEF Typed, TypeOK
    <2>5. next.mailed => "mail" \in sent'[next.lead]
      BY <2>2, <2>3 DEF Typed, TypeOK, GoesOn
    <2>9. channels # {} /\ "mail" \in channels
      BY <2>2 DEF SentKept, Sending, Typed, TypeOK, Configurations
    <2>6. \A l \in LeadIds : sent'[l] \subseteq channels
      BY <1>s, <2>2, <2>3, <2>9 DEF Typed, TypeOK
    <2>7. \A l \in LeadIds : next.mine[l].routed # Never => channels # {} /\ sent'[l] = channels
      BY <1>0, <2>3, <2>4, <2>6
    <2>8. /\ Becomes(s, next) /\ next.pc \in {"hook", "mark"}
          /\ next.pc = "hook" <=> "hook" \in channels
      BY <2>3
    <2> QED
      BY <1>c, <2>1, <2>4, <2>5, <2>6, <2>7, <2>8, <2>9, SentMove
  <1>10. CASE PostWebhook(s)
    <2>1. leads' = leads
      BY <1>10 DEF PostWebhook, base
    <2>2. me.lead \in LeadIds /\ me.pc = "hook"
      BY <1>10, PostWebhookMeans, WorkingTyped DEF Working
    <2>3. PICK next : \E ok \in BOOLEAN :
            /\ Becomes(s, next) /\ GoesOn(me, next)
            /\ next.pc = "mark" /\ next.mine = me.mine
            /\ next.mailed = me.mailed /\ next.hooked = ok
            /\ sent' = [sent EXCEPT ![me.lead] = IF ok THEN @ \cup {"hook"} ELSE @]
      BY <1>10, PostWebhookMeans
    <2>4. \A l \in LeadIds : sent[l] \subseteq sent'[l]
      BY <2>2, <2>3 DEF Typed, TypeOK
    <2>5. next.hooked => "hook" \in sent'[next.lead]
      BY <2>2, <2>3 DEF Typed, TypeOK, GoesOn
    <2>6. next.mailed => "mail" \in sent'[next.lead]
      <3>1. me.mailed => "mail" \in sent[me.lead]
        BY <2>2 DEF SentKept
      <3> QED
        BY <2>2, <2>3, <2>4, <3>1 DEF GoesOn
    <2>10. channels # {} /\ "hook" \in channels
      BY <2>2 DEF SentKept
    <2>7. \A l \in LeadIds : sent'[l] \subseteq channels
      BY <1>s, <2>2, <2>3, <2>10 DEF Typed, TypeOK
    <2>8. \A l \in LeadIds : next.mine[l].routed # Never => channels # {} /\ sent'[l] = channels
      BY <1>0, <2>3, <2>4, <2>7
    <2>9. Becomes(s, next) /\ next.pc = "mark"
      BY <2>3
    <2> QED
      BY <1>c, <2>1, <2>4, <2>5, <2>6, <2>7, <2>8, <2>9, <2>10, SentMove
  <1>11. CASE MarkRouted(s)
    <2>1. PICK next, row :
            /\ Becomes(s, next) /\ Turned(me, next) /\ me.pc = "mark"
            /\ ~Locked(s, me.lead) /\ MarkedRow(s, row)
            /\ next.mine = [me.mine EXCEPT ![me.lead] = row]
      BY ZenonT(60), <1>11, MarkRoutedMeans
    <2>2. leads' = leads /\ sent' = sent
      BY <1>11 DEF MarkRouted, base, histories
    <2>3. me.lead \in LeadIds /\ next.pc \notin {"mail", "hook", "mark"}
      BY <2>1, WorkingTyped DEF Turned, Working
    <2>4. row.routed # Never => channels # {} /\ sent[me.lead] = channels
      <3>1. CASE row.routed = Seen(s, me.lead).routed
        BY <2>3, <3>1, SeenSent
      <3>2. CASE Delivered(me)
        <4>1. /\ "mail" \in sent[me.lead]
              /\ "hook" \in channels => "hook" \in sent[me.lead]
          BY <2>1, <3>2 DEF Delivered, SentKept
        <4>2. channels # {} /\ channels \subseteq {"mail", "hook"}
          BY <2>1 DEF SentKept, Sending, Typed, TypeOK, Configurations
        <4> QED
          BY <1>s, <2>3, <4>1, <4>2
      <3> QED
        BY <2>1, <3>1, <3>2 DEF MarkedRow
    <2> QED
      BY <1>6, <2>1, <2>2, <2>3, <2>4
  <1> QED
    BY <1>1, <1>2, <1>4, <1>5, <1>7, <1>8, <1>9, <1>10, <1>11 DEF Step

(* A lead that counts as routed was sent every way the settings configure, *)
(* for any settings and any number of sessions that route, fail or are     *)
(* rolled back, and although a session may write its lead's row long after *)
(* it loaded it.                                                           *)
THEOREM RoutedWereSent == Spec => []RoutedLeadsWereSent
  <1>1. Typed /\ RowsKept /\ SentKept /\ [Next]_vars /\ Typed' => SentKept'
    <2> SUFFICES ASSUME Typed, RowsKept, SentKept, [Next]_vars, Typed' PROVE SentKept'
      OBVIOUS
    <2>1. CASE UNCHANGED vars \/ Tick \/ Visit
      <3>1. UNCHANGED <<leads, session, sent, channels>>
        BY <2>1 DEF vars, Tick, Visit, IngestEvent, MergeHistory, PrivacyDelete,
                    PrivacyPreference, base, histories
      <3> QED
        BY <3>1 DEF SentKept, Sending
    <2>2. ASSUME NEW l \in LeadIds, NEW status \in {"qualified", "closed"},
                 UpdateOutcome(l, status)
          PROVE  SentKept'
      <3>1. /\ leads' = [leads EXCEPT ![l] = [leads[l] EXCEPT !.status = status]]
            /\ UNCHANGED <<session, sent, channels>>
        BY <2>2 DEF UpdateOutcome
      <3>2. \A k \in LeadIds : leads'[k].routed = leads[k].routed
        BY <3>1 DEF Typed, TypeOK, Lead
      <3> QED
        BY <3>1, <3>2 DEF SentKept
    <2> QED
      BY <2>1, <2>2, StepsSent DEF Next
  <1>2. SentKept => RoutedLeadsWereSent
    BY DEF SentKept, RoutedLeadsWereSent
  <1> QED
    BY <1>1, <1>2, InitSent, TypedAlways, RowsAlways, PTL DEF Spec

-----------------------------------------------------------------------------
(* Suppression.  Of an organisation that two sessions did not decide on at *)
(* once, what is committed and what each session sees was routed far       *)
(* apart, and at most one session is about to route, or has routed, a lead *)
(* of it.  No day passes while a session is open.                          *)

(* When a row of the organisation was routed.                              *)
When(r, o) == IF r.org = o THEN r.routed ELSE Never

Far(a, b) ==
    a = Never \/ b = Never \/ a - b > SuppressionDays \/ b - a > SuppressionDays

Past(d) == d = Never \/ d < today - SuppressionDays

(* A row that a session sees is routed as it was, or by the session today. *)
Fresh(a, b) == a.routed = b.routed \/ (a.routed = today /\ b.routed = Never)

(* The session is about to route, or has routed, a lead of the             *)
(* organisation.                                                           *)
Routing(s, o) ==
    \/ session[s].pc \in Sending /\ session[s].row.org = o
    \/ \E l \in LeadIds : When(Seen(s, l), o) # When(leads[l], o)

Spaced(o) ==
    /\ \A l, k \in LeadIds : l = k \/ Far(When(leads[l], o), When(leads[k], o))
    /\ \A s \in Sessions, l, k \in LeadIds :
         l = k \/ Far(When(Seen(s, l), o), When(Seen(s, k), o))
    /\ \A s \in Sessions : session[s].pc \in Sending /\ session[s].row.org = o =>
         \A k \in LeadIds \ {session[s].lead} : Past(When(Seen(s, k), o))
    /\ \A s, t \in Sessions : s = t \/ ~Routing(s, o) \/ ~Routing(t, o)

GapsKept ==
    /\ \A s \in Sessions, l \in LeadIds : Fresh(Seen(s, l), leads[l])
    /\ \A s \in Sessions : session[s].pc \in Working /\ session[s].row.routed = Never =>
         leads[session[s].lead].routed \in {Never, today}
    /\ \A o \in Orgs \ raced : Spaced(o)

LEMMA WhenTyped ==
  ASSUME NEW r \in Lead, NEW o
  PROVE  When(r, o) \in Days \cup {Never}
  BY DEF When, Lead

LEMMA InitGaps == Init => GapsKept
  <1> SUFFICES ASSUME Init PROVE GapsKept
    OBVIOUS
  <1>1. \A s \in Sessions : session[s] = Idle
    BY DEF Init
  <1>2. \A l \in LeadIds : leads[l] = NoLead
    BY DEF Init
  <1>3. \A s \in Sessions, l \in LeadIds : Seen(s, l) = NoLead
    BY <1>1, <1>2, IdleTyped, WroteMeans
  <1>4. \A s \in Sessions : session[s].pc \notin Working /\ session[s].pc \notin Sending
    BY <1>1, IdleTyped DEF Working, Sending
  <1>5. \A o : When(NoLead, o) = Never
    BY NoLeadUnrouted DEF When
  <1>6. \A o : Spaced(o)
    BY <1>2, <1>3, <1>4, <1>5 DEF Spaced, Far, Routing
  <1> QED
    BY <1>2, <1>3, <1>4, <1>6 DEF GapsKept, Fresh

(* A step of one session that commits nothing: what the others see stays.  *)
LEMMA SeenNext ==
  ASSUME Typed, NEW s \in Sessions, NEW next, Becomes(s, next), leads' = leads
  PROVE  /\ session'[s] = next
         /\ \A t \in Sessions \ {s} : session'[t] = session[t]
         /\ \A l \in LeadIds : Seen(s, l)' = View(next.mine, l)
         /\ \A t \in Sessions \ {s}, l \in LeadIds : Seen(t, l)' = Seen(t, l)
  <1>1. session'[s] = next /\ \A t \in Sessions \ {s} : session'[t] = session[t]
    BY Moves DEF Typed, TypeOK
  <1>2. ASSUME NEW l \in LeadIds PROVE Seen(s, l)' = View(next.mine, l)
    BY <1>1 DEF Seen, Wrote, View
  <1>3. ASSUME NEW t \in Sessions \ {s}, NEW l \in LeadIds PROVE Seen(t, l)' = Seen(t, l)
    BY <1>1 DEF Seen, Wrote
  <1> QED
    BY <1>1, <1>2, <1>3

LEMMA GapsStep ==
  ASSUME Typed, GapsKept, NEW s \in Sessions, NEW next, Becomes(s, next),
         leads' = leads, today' = today, raced \subseteq raced',
         \A l \in LeadIds : Fresh(View(next.mine, l), leads[l]),
         next.pc \in Working /\ next.row.routed = Never =>
             leads[next.lead].routed \in {Never, today},
         \A o \in Orgs \ raced' :
           /\ \A l, k \in LeadIds :
                l = k \/ Far(When(View(next.mine, l), o), When(View(next.mine, k), o))
           /\ next.pc \in Sending /\ next.row.org = o =>
                \A k \in LeadIds \ {next.lead} : Past(When(View(next.mine, k), o))
           /\ \/ /\ ~(next.pc \in Sending /\ next.row.org = o)
                 /\ \A l \in LeadIds : When(View(next.mine, l), o) = When(leads[l], o)
              \/ Routing(s, o)
              \/ \A t \in Sessions \ {s} : ~Routing(t, o)
  PROVE  GapsKept'
  <1>1. /\ session'[s] = next
        /\ \A t \in Sessions \ {s} : session'[t] = session[t]
        /\ \A l \in LeadIds : Seen(s, l)' = View(next.mine, l)
        /\ \A t \in Sessions \ {s}, l \in LeadIds : Seen(t, l)' = Seen(t, l)
    BY SeenNext
  <1>2. ASSUME NEW t \in Sessions, NEW l \in LeadIds PROVE Fresh(Seen(t, l), leads[l])'
    <2>1. CASE t = s
      BY <1>1, <2>1 DEF Fresh
    <2>2. CASE t # s
      BY <1>1, <2>2 DEF Fresh, GapsKept
    <2> QED
      BY <2>1, <2>2
  <1>3. ASSUME NEW t \in Sessions, session'[t].pc \in Working, session'[t].row.routed = Never
        PROVE  leads'[session'[t].lead].routed \in {Never, today'}
    BY <1>1, <1>3 DEF GapsKept
  <1>4. ASSUME NEW o \in Orgs \ raced' PROVE Spaced(o)'
    <2>1. Spaced(o)
      BY DEF GapsKept
    <2>2. ASSUME NEW l \in LeadIds, NEW k \in LeadIds, l # k
          PROVE  Far(When(leads[l], o), When(leads[k], o))'
      BY <2>1, <2>2 DEF Spaced, Far, When
    <2>3. ASSUME NEW t \in Sessions, NEW l \in LeadIds, NEW k \in LeadIds, l # k
          PROVE  Far(When(Seen(t, l), o), When(Seen(t, k), o))'
      <3>1. CASE t = s
        BY <1>1, <2>3, <3>1 DEF Far, When
      <3>2. CASE t # s
        BY <1>1, <2>1, <2>3, <3>2 DEF Far, When, Spaced
      <3> QED
        BY <3>1, <3>2
    <2>4. ASSUME NEW t \in Sessions, (session[t].pc \in Sending /\ session[t].row.org = o)',
                 NEW k \in LeadIds, k # session'[t].lead
          PROVE  Past(When(Seen(t, k), o))'
      <3>1. CASE t = s
        BY <1>1, <2>4, <3>1 DEF Past, When
      <3>2. CASE t # s
        BY <1>1, <2>1, <2>4, <3>2 DEF Past, When, Spaced
      <3> QED
        BY <3>1, <3>2
    <2>5. ASSUME NEW t \in Sessions \ {s} PROVE Routing(t, o)' = Routing(t, o)
      BY <1>1 DEF Routing, When
    <2>6. ASSUME Routing(s, o)' PROVE \A t \in Sessions \ {s} : ~Routing(t, o)
      <3>1. ~(/\ ~(next.pc \in Sending /\ next.row.org = o)
              /\ \A l \in LeadIds : When(View(next.mine, l), o) = When(leads[l], o))
        BY <1>1, <2>6 DEF Routing, When
      <3>2. \A t \in Sessions : Routing(s, o) => t = s \/ ~Routing(t, o)
        BY <2>1 DEF Spaced
      <3> QED
        BY <3>1, <3>2
    <2>7. ASSUME NEW t \in Sessions, NEW u \in Sessions, t # u
          PROVE  ~Routing(t, o)' \/ ~Routing(u, o)'
      <3>1. CASE t # s /\ u # s
        BY <2>1, <2>5, <2>7, <3>1 DEF Spaced
      <3>2. CASE t = s
        BY <2>5, <2>6, <2>7, <3>2
      <3>3. CASE u = s
        BY <2>5, <2>6, <2>7, <3>3
      <3> QED
        BY <3>1, <3>2, <3>3
    <2> QED
      BY <2>2, <2>3, <2>4, <2>7 DEF Spaced
  <1> QED
    BY <1>2, <1>3, <1>4 DEF GapsKept

(* Two rows that suppression does not tell apart.                          *)
Equal(a, b) == a.routed = b.routed /\ (b.routed = Never \/ a.org = b.org)

LEMMA EqualWhen ==
  ASSUME NEW a, NEW b, Equal(a, b), NEW o
  PROVE  When(a, o) = When(b, o)
  BY DEF Equal, When

(* A step that leaves what its session sees.                               *)
LEMMA GapsStay ==
  ASSUME Typed, GapsKept, NEW s \in Sessions, NEW next, Becomes(s, next),
         leads' = leads, today' = today, raced \subseteq raced',
         \A l \in LeadIds : Equal(View(next.mine, l), Seen(s, l)),
         next.pc \in Working /\ next.row.routed = Never =>
             leads[next.lead].routed \in {Never, today},
         next.pc \in Sending => /\ session[s].pc \in Sending
                                /\ next.row = session[s].row /\ next.lead = session[s].lead
  PROVE  GapsKept'
  <1>1. \A l \in LeadIds : Fresh(View(next.mine, l), leads[l])
    BY DEF GapsKept, Fresh, Equal
  <1>2. ASSUME NEW l \in LeadIds, NEW o
        PROVE  When(View(next.mine, l), o) = When(Seen(s, l), o)
    BY EqualWhen
  <1>3. ASSUME NEW o \in Orgs \ raced'
        PROVE  /\ \A l, k \in LeadIds :
                    l = k \/ Far(When(View(next.mine, l), o), When(View(next.mine, k), o))
               /\ next.pc \in Sending /\ next.row.org = o =>
                    \A k \in LeadIds \ {next.lead} : Past(When(View(next.mine, k), o))
               /\ \/ /\ ~(next.pc \in Sending /\ next.row.org = o)
                     /\ \A l \in LeadIds : When(View(next.mine, l), o) = When(leads[l], o)
                  \/ Routing(s, o)
                  \/ \A t \in Sessions \ {s} : ~Routing(t, o)
    <2>1. Spaced(o)
      BY DEF GapsKept
    <2>2. \A l, k \in LeadIds :
            l = k \/ Far(When(View(next.mine, l), o), When(View(next.mine, k), o))
      BY <1>2, <2>1 DEF Spaced
    <2>3. next.pc \in Sending /\ next.row.org = o =>
            \A k \in LeadIds \ {next.lead} : Past(When(View(next.mine, k), o))
      BY <1>2, <2>1 DEF Spaced
    <2>4. CASE next.pc \in Sending /\ next.row.org = o
      BY <2>2, <2>3, <2>4 DEF Routing
    <2>5. CASE \E l \in LeadIds : When(View(next.mine, l), o) # When(leads[l], o)
      <3>1. Routing(s, o)
        BY <1>2, <2>5 DEF Routing
      <3> QED
        BY <2>2, <2>3, <3>1
    <2> QED
      BY <2>2, <2>3, <2>4, <2>5
  <1> QED
    BY <1>1, <1>3, GapsStep

(* A session that writes nothing.                                          *)
LEMMA SeenStays ==
  ASSUME NEW s, NEW next, next.mine = session[s].mine, NEW l \in LeadIds
  PROVE  Equal(View(next.mine, l), Seen(s, l))
  BY SeenView DEF Equal

(* A row that another session may be routing has not been routed before,   *)
(* or was routed today.                                                    *)
LEMMA NotBefore ==
  ASSUME GapsKept, NEW s \in Sessions, NEW l \in LeadIds, Seen(s, l).routed = Never
  PROVE  leads[l].routed = Never
  <1>1. Fresh(Seen(s, l), leads[l])
    BY DEF GapsKept
  <1>2. today # Never \/ leads[l].routed = Never
    BY <1>1 DEF Fresh
  <1> QED
    BY <1>1 DEF Fresh

(* A session that knows of no other that is routing a lead of the          *)
(* organisation.                                                           *)
LEMMA RoutesSeen ==
  ASSUME Typed, RowsKept, GapsKept, NEW t \in Sessions, NEW o \in Orgs, Routing(t, o)
  PROVE  Routes(t, o)
  <1>1. CASE session[t].pc \in Sending /\ session[t].row.org = o
    BY <1>1 DEF Routes, Sending
  <1>2. ASSUME NEW l \in LeadIds, When(Seen(t, l), o) # When(leads[l], o) PROVE Routes(t, o)
    <2>1. l \in Wrote(t) /\ Seen(t, l) = session[t].mine[l] /\ Holds(t, l)
      BY <1>2 DEF Seen, Wrote, Holds
    <2>2. Fresh(session[t].mine[l], leads[l])
      BY <2>1 DEF GapsKept
    <2>3. CASE leads[l] # NoLead
      <3>1. session[t].mine[l].org = leads[l].org
        BY <2>1, <2>3 DEF RowsKept, Same
      <3>2. leads[l].org = o /\ session[t].mine[l].routed # leads[l].routed
        BY <1>2, <2>1, <3>1 DEF When
      <3>3. session[t].mine[l].routed # Never
        BY <2>2, <3>2, DaysTyped DEF Fresh, Typed, TypeOK
      <3> QED
        BY <2>1, <3>1, <3>2, <3>3 DEF Routes
    <2>4. CASE leads[l] = NoLead
      <3>1. When(leads[l], o) = Never
        BY <2>4, NoLeadUnrouted DEF When
      <3>2. session[t].mine[l].org = o /\ session[t].mine[l].routed # Never
        BY <1>2, <2>1, <3>1 DEF When
      <3> QED
        BY <2>1, <3>2 DEF Routes
    <2> QED
      BY <2>3, <2>4
  <1> QED
    BY <1>1, <1>2 DEF Routing

(* The decision to route.                                                  *)
LEMMA CheckGaps ==
  ASSUME Typed, RowsKept, GapsKept, NEW s \in Sessions, session[s].pc = "check",
         NEW next, Becomes(s, next), GoesOn(session[s], next), next.mine = session[s].mine,
         RoutingEligible(s), leads' = leads, today' = today,
         raced' = IF session[s].row.org # NoOrg
                     /\ \E t \in Sessions \ {s} : Routes(t, session[s].row.org)
                  THEN raced \cup {session[s].row.org}
                  ELSE raced
  PROVE  GapsKept'
  <1> DEFINE me == session[s]
  <1>1. next.row = me.row /\ next.lead = me.lead /\ me.pc \in Working /\ me.lead \in LeadIds
    BY WorkingTyped DEF GoesOn, Working
  <1>2. \A l \in LeadIds : View(next.mine, l) = Seen(s, l)
    BY SeenView
  <1>3. \A l \in LeadIds : Fresh(View(next.mine, l), leads[l])
    BY <1>2 DEF GapsKept
  <1>4. next.row.routed = Never => leads[next.lead].routed \in {Never, today}
    BY <1>1 DEF GapsKept
  <1>5. ASSUME NEW o \in Orgs \ raced'
        PROVE  /\ \A l, k \in LeadIds :
                    l = k \/ Far(When(View(next.mine, l), o), When(View(next.mine, k), o))
               /\ next.pc \in Sending /\ next.row.org = o =>
                    \A k \in LeadIds \ {next.lead} : Past(When(View(next.mine, k), o))
               /\ \/ /\ ~(next.pc \in Sending /\ next.row.org = o)
                     /\ \A l \in LeadIds : When(View(next.mine, l), o) = When(leads[l], o)
                  \/ Routing(s, o)
                  \/ \A t \in Sessions \ {s} : ~Routing(t, o)
    <2>1. Spaced(o) /\ o # NoOrg
      BY Constants DEF GapsKept
    <2>2. \A l, k \in LeadIds :
            l = k \/ Far(When(View(next.mine, l), o), When(View(next.mine, k), o))
      BY <1>2, <2>1 DEF Spaced
    <2>3. CASE me.row.org = o
      <3>1. \A t \in Sessions \ {s} : ~Routes(t, o)
        BY <2>1, <2>3
      <3>2. \A t \in Sessions \ {s} : ~Routing(t, o)
        BY <3>1, RoutesSeen
      <3>3. ASSUME NEW k \in LeadIds \ {me.lead} PROVE Past(When(Seen(s, k), o))
        <4>1. ~(/\ Seen(s, k).org = o /\ Seen(s, k).routed # Never
                /\ Seen(s, k).routed >= today - SuppressionDays)
          BY <2>1, <2>3 DEF RoutingEligible, RecentlyRouted
        <4>2. Seen(s, k).routed \in Days \cup {Never}
          BY RowsTyped DEF Lead
        <4>3. today \in Int /\ SuppressionDays \in Int /\ Days \subseteq Int /\ Never \in Int
          BY Constants DEF Typed, TypeOK, Days, Never
        <4>4. PICK p \in Int : p = today - SuppressionDays
          BY <4>3
        <4>5. PICK d \in Int : d = Seen(s, k).routed
          BY <4>2, <4>3
        <4>6. Seen(s, k).org = o => d = Never \/ d < p
          BY <4>1, <4>4, <4>5
        <4> QED
          BY <4>4, <4>5, <4>6 DEF Past, When
      <3> QED
        BY <1>1, <1>2, <2>2, <3>2, <3>3
    <2>4. CASE me.row.org # o
      <3>1. Routing(s, o) \/ \A l \in LeadIds : When(View(next.mine, l), o) = When(leads[l], o)
        BY <1>2 DEF Routing
      <3> QED
        BY <1>1, <2>2, <2>4, <3>1
    <2> QED
      BY <2>3, <2>4
  <1>6. raced \subseteq raced'
    OBVIOUS
  <1> QED
    BY <1>3, <1>4, <1>5, <1>6, GapsStep

(* The lead is marked after the attempt to send it.                        *)
LEMMA MarkGaps ==
  ASSUME Typed, RowsKept, GapsKept, NEW s \in Sessions, session[s].pc = "mark",
         NEW next, NEW row, Becomes(s, next), Turned(session[s], next),
         MarkedRow(s, row), next.mine = [session[s].mine EXCEPT ![session[s].lead] = row],
         leads' = leads, today' = today, raced' = raced
  PROVE  GapsKept'
  <1> DEFINE me == session[s]
             lead == me.lead
  <1>1. /\ lead \in LeadIds /\ me.pc \in Working /\ me.pc \in Sending
        /\ me.row.routed = Never /\ me.mine \in [LeadIds -> Lead]
    BY WorkingTyped, SessionTyped DEF Working, Sending, Session
  <1>2. next.pc \notin Working /\ next.pc \notin Sending
    BY DEF Turned, Working, Sending
  <1>3. /\ row \in Lead /\ row.user = Seen(s, lead).user /\ row.org = Seen(s, lead).org
        /\ row.routed = Seen(s, lead).routed \/ row.routed = today
    BY DEF MarkedRow
  <1>4. row.org = me.row.org /\ row # NoLead
    <2>1. Seen(s, lead) # NoLead /\ Same(Seen(s, lead), me.row) /\ Proper(Seen(s, lead))
      BY <1>1, LeadSeen DEF RowsKept
    <2>2. Seen(s, lead).user \in Users
      BY <2>1 DEF Proper
    <2> QED
      BY <1>3, <2>1, <2>2, Constants, NoLeadUnrouted DEF Same
  <1>5. leads[lead].routed \in {Never, today} /\ Seen(s, lead).routed \in {Never, today}
    BY <1>1 DEF GapsKept, Fresh
  <1>6. \A l \in LeadIds : View(next.mine, l) = IF l = lead THEN row ELSE Seen(s, l)
    BY <1>1, <1>4, SeenView DEF View
  <1> HIDE DEF me, lead
  <1>7. CASE row.routed = Seen(s, lead).routed
    <2>1. \A l \in LeadIds : Equal(View(next.mine, l), Seen(s, l))
      BY <1>3, <1>6, <1>7 DEF Equal
    <2> QED
      BY <1>2, <2>1, GapsStay
  <1>8. CASE row.routed = today
    <2>1. \A l \in LeadIds : Fresh(View(next.mine, l), leads[l])
      BY <1>5, <1>6, <1>8 DEF GapsKept, Fresh
    <2>2. ASSUME NEW o \in Orgs \ raced
          PROVE  /\ \A l, k \in LeadIds :
                      l = k \/ Far(When(View(next.mine, l), o), When(View(next.mine, k), o))
                 /\ \/ \A l \in LeadIds : When(View(next.mine, l), o) = When(leads[l], o)
                    \/ Routing(s, o)
      <3>1. Spaced(o)
        BY DEF GapsKept
      <3>2. CASE row.org = o
        <4>1. session[s].pc \in Sending /\ session[s].row.org = o
          BY <1>1, <1>4, <3>2 DEF me
        <4>2. Routing(s, o)
          BY <4>1 DEF Routing
        <4>3. \A k \in LeadIds \ {lead} : Past(When(Seen(s, k), o))
          BY <3>1, <4>1 DEF Spaced, me, lead
        <4>4. When(row, o) = today
          BY <1>8, <3>2 DEF When
        <4>5. \A k \in LeadIds \ {lead} : Far(today, When(Seen(s, k), o))
                                          /\ Far(When(Seen(s, k), o), today)
          <5> SUFFICES ASSUME NEW k \in LeadIds \ {lead}
                       PROVE  /\ Far(today, When(Seen(s, k), o))
                              /\ Far(When(Seen(s, k), o), today)
            OBVIOUS
          <5>1. today \in Int /\ SuppressionDays \in Int /\ Days \subseteq Int /\ Never \in Int
            BY Constants DEF Typed, TypeOK, Days, Never
          <5>2. PICK d \in Int : d = When(Seen(s, k), o)
            BY <5>1, WhenTyped, RowsTyped
          <5>3. d = Never \/ d < today - SuppressionDays
            BY <4>3, <5>2 DEF Past
          <5>4. d = Never \/ today - d > SuppressionDays
            BY <5>1, <5>3
          <5> QED
            BY <5>2, <5>4 DEF Far
        <4>6. ASSUME NEW l \in LeadIds, NEW k \in LeadIds, l # k
              PROVE  Far(When(View(next.mine, l), o), When(View(next.mine, k), o))
          <5>1. CASE l = lead
            BY <1>6, <4>4, <4>5, <4>6, <5>1
          <5>2. CASE k = lead
            BY <1>6, <4>4, <4>5, <4>6, <5>2
          <5>3. CASE l # lead /\ k # lead
            BY <1>6, <3>1, <4>6, <5>3 DEF Spaced
          <5> QED
            BY <5>1, <5>2, <5>3
        <4> QED
          BY <4>2, <4>6
      <3>3. CASE row.org # o
        <4>1. \A l \in LeadIds : When(View(next.mine, l), o) = When(Seen(s, l), o)
          BY <1>3, <1>6, <3>3 DEF When
        <4> QED
          BY <3>1, <4>1 DEF Spaced, Routing
      <3> QED
        BY <3>2, <3>3
    <2> QED
      BY <1>2, <2>1, <2>2, GapsStep
  <1> QED
    BY <1>3, <1>7, <1>8

(* What a session wrote becomes what everybody sees.                       *)
LEMMA CommitSeen ==
  ASSUME Typed, RowsKept, NEW s \in Sessions, Commit(s)
  PROVE  /\ \A l \in LeadIds : leads'[l] = Seen(s, l) /\ Seen(s, l)' = Seen(s, l)
         /\ \A t \in Sessions \ {s}, l \in LeadIds :
              Seen(t, l)' = IF Holds(t, l) THEN session[t].mine[l] ELSE Seen(s, l)
         /\ \A t \in Sessions \ {s}, l \in LeadIds :
              Holds(t, l) => Seen(s, l) = leads[l] /\ Seen(t, l) = session[t].mine[l]
         /\ session'[s] = Idle
         /\ \A t \in Sessions \ {s} : session'[t] = session[t]
  <1>1. /\ session'[s] = Idle
        /\ \A t \in Sessions \ {s} : session'[t] = session[t]
        /\ \A l \in LeadIds : leads'[l] = Seen(s, l)
    BY Moves DEF Commit, Typed, TypeOK
  <1>2. ASSUME NEW l \in LeadIds PROVE Seen(s, l)' = Seen(s, l)
    BY <1>1, IdleTyped DEF Seen, Wrote
  <1>3. ASSUME NEW t \in Sessions \ {s}, NEW l \in LeadIds
        PROVE  Seen(t, l)' = IF Holds(t, l) THEN session[t].mine[l] ELSE Seen(s, l)
    <2>1. Seen(t, l)' = IF Holds(t, l) THEN session[t].mine[l] ELSE leads'[l]
      BY <1>1 DEF Seen, Wrote, Holds
    <2> QED
      BY <1>1, <2>1
  <1>4. ASSUME NEW t \in Sessions \ {s}, NEW l \in LeadIds, Holds(t, l)
        PROVE  Seen(s, l) = leads[l] /\ Seen(t, l) = session[t].mine[l]
    <2>1. ~Holds(s, l)
      BY <1>4 DEF RowsKept
    <2> QED
      BY <1>4, <2>1, WroteMeans DEF Holds
  <1> QED
    BY <1>1, <1>2, <1>3, <1>4

LEMMA CommitGaps ==
  ASSUME Typed, RowsKept, GapsKept, NEW s \in Sessions, Commit(s)
  PROVE  GapsKept'
  <1>1. today' = today /\ raced' = raced /\ session'[s].pc = "idle"
    BY CommitSeen, IdleTyped DEF Commit
  <1>2. ASSUME NEW t \in Sessions, NEW l \in LeadIds PROVE Fresh(Seen(t, l), leads[l])'
    <2>1. CASE t = s
      BY <2>1, CommitSeen DEF Fresh
    <2>2. CASE t # s /\ Holds(t, l)
      <3>1. Seen(t, l)' = Seen(t, l) /\ leads'[l] = leads[l]
        BY <2>2, CommitSeen
      <3> QED
        BY <1>1, <3>1 DEF GapsKept, Fresh
    <2>3. CASE t # s /\ ~Holds(t, l)
      BY <2>3, CommitSeen DEF Fresh
    <2> QED
      BY <2>1, <2>2, <2>3
  <1>3. ASSUME NEW t \in Sessions, session'[t].pc \in Working, session'[t].row.routed = Never
        PROVE  leads'[session'[t].lead].routed \in {Never, today'}
    <2>1. session'[t] = session[t]
      BY <1>1, <1>3, CommitSeen DEF Working
    <2>2. session[t].lead \in LeadIds /\ leads[session[t].lead].routed \in {Never, today}
      BY <1>3, <2>1, WorkingTyped DEF GapsKept
    <2>3. Fresh(Seen(s, session[t].lead), leads[session[t].lead])
      BY <2>2 DEF GapsKept
    <2> QED
      BY <1>1, <2>1, <2>2, <2>3, CommitSeen DEF Fresh
  <1>4. ASSUME NEW o \in Orgs \ raced' PROVE Spaced(o)'
    <2>1. Spaced(o)
      BY <1>1 DEF GapsKept
    <2>2. ASSUME NEW l \in LeadIds, NEW k \in LeadIds, l # k
          PROVE  Far(When(leads[l], o), When(leads[k], o))'
      BY <2>1, <2>2, CommitSeen DEF Spaced, Far, When
    <2>3. ASSUME NEW t \in Sessions \ {s}
          PROVE  \/ \A l \in LeadIds : When(Seen(t, l), o)' = When(Seen(s, l), o)
                 \/ /\ Routing(t, o)
                    /\ \A l \in LeadIds : When(Seen(t, l), o)' = When(Seen(t, l), o)
      <3>1. CASE Routing(t, o)
        <4>1. \A l \in LeadIds : When(Seen(s, l), o) = When(leads[l], o)
          BY <2>1, <3>1 DEF Spaced, Routing
        <4>2. ASSUME NEW l \in LeadIds PROVE When(Seen(t, l), o)' = When(Seen(t, l), o)
          <5>1. CASE Holds(t, l)
            BY <5>1, CommitSeen DEF When
          <5>2. CASE ~Holds(t, l)
            <6>1. Seen(t, l) = leads[l] /\ Seen(t, l)' = Seen(s, l)
              BY <5>2, CommitSeen, WroteMeans DEF Holds
            <6> QED
              BY <4>1, <6>1 DEF When
          <5> QED
            BY <5>1, <5>2
        <4> QED
          BY <3>1, <4>2
      <3>2. CASE ~Routing(t, o)
        <4>1. ASSUME NEW l \in LeadIds PROVE When(Seen(t, l), o)' = When(Seen(s, l), o)
          <5>1. CASE Holds(t, l)
            <6>1. Seen(t, l)' = Seen(t, l) /\ Seen(s, l) = leads[l]
              BY <5>1, CommitSeen
            <6>2. When(Seen(t, l), o) = When(leads[l], o)
              BY <3>2 DEF Routing
            <6> QED
              BY <6>1, <6>2 DEF When
          <5>2. CASE ~Holds(t, l)
            BY <5>2, CommitSeen DEF When
          <5> QED
            BY <5>1, <5>2
        <4> QED
          BY <4>1
      <3> QED
        BY <3>1, <3>2
    <2>4. ASSUME NEW t \in Sessions, NEW l \in LeadIds, NEW k \in LeadIds, l # k
          PROVE  Far(When(Seen(t, l), o), When(Seen(t, k), o))'
      <3>1. CASE t = s
        BY <2>1, <2>4, <3>1, CommitSeen DEF Spaced, Far, When
      <3>2. CASE t # s
        <4>1. Far(When(Seen(t, l), o)', When(Seen(t, k), o)')
          BY <2>1, <2>3, <2>4, <3>2 DEF Spaced
        <4> QED
          BY <4>1 DEF Far
      <3> QED
        BY <3>1, <3>2
    <2>5. ASSUME NEW t \in Sessions, (session[t].pc \in Sending /\ session[t].row.org = o)',
                 NEW k \in LeadIds, k # session'[t].lead
          PROVE  Past(When(Seen(t, k), o))'
      <3>1. t # s /\ session'[t] = session[t]
        BY <1>1, <2>5, CommitSeen DEF Sending
      <3>2. \A u \in Sessions \ {t} : ~Routing(u, o)
        BY <2>1, <2>5, <3>1 DEF Spaced, Routing
      <3>3. When(Seen(s, k), o) = When(leads[k], o)
        BY <3>1, <3>2 DEF Routing
      <3>4. When(Seen(t, k), o)' = When(Seen(t, k), o)
        <4>1. CASE Holds(t, k)
          BY <3>1, <4>1, CommitSeen DEF When
        <4>2. CASE ~Holds(t, k)
          <5>1. Seen(t, k) = leads[k] /\ Seen(t, k)' = Seen(s, k)
            BY <3>1, <4>2, CommitSeen, WroteMeans DEF Holds
          <5> QED
            BY <3>3, <5>1 DEF When
        <4> QED
          BY <4>1, <4>2
      <3>5. Past(When(Seen(t, k), o))
        BY <2>1, <2>5, <3>1 DEF Spaced
      <3> QED
        BY <1>1, <3>4, <3>5 DEF Past
    <2>6. ~Routing(s, o)'
      BY <1>1, CommitSeen DEF Routing, When, Sending
    <2>7. ASSUME NEW t \in Sessions \ {s}, Routing(t, o)' PROVE Routing(t, o)
      <3>1. CASE session[t].pc \in Sending /\ session[t].row.org = o
        BY <3>1 DEF Routing
      <3>2. ASSUME NEW l \in LeadIds, When(Seen(t, l), o)' # When(leads[l], o)'
            PROVE  Routing(t, o)
        <4>1. CASE Holds(t, l)
          <5>1. Seen(t, l)' = Seen(t, l) /\ leads'[l] = leads[l]
            BY <4>1, CommitSeen
          <5> QED
            BY <3>2, <5>1 DEF Routing, When
        <4>2. CASE ~Holds(t, l)
          <5>1. Seen(t, l)' = leads'[l]
            BY <4>2, CommitSeen
          <5> QED
            BY <3>2, <5>1 DEF When
        <4> QED
          BY <4>1, <4>2
      <3>3. session'[t] = session[t]
        BY CommitSeen
      <3>4. CASE (session[t].pc \in Sending /\ session[t].row.org = o)'
        BY <3>1, <3>3, <3>4
      <3>5. CASE \E l \in LeadIds : When(Seen(t, l), o)' # When(leads[l], o)'
        BY <3>2, <3>5
      <3> QED
        BY <2>7, <3>4, <3>5 DEF Routing
    <2>8. ASSUME NEW t \in Sessions, NEW u \in Sessions, t # u
          PROVE  ~Routing(t, o)' \/ ~Routing(u, o)'
      BY <2>1, <2>6, <2>7, <2>8 DEF Spaced
    <2> QED
      BY <2>2, <2>4, <2>5, <2>8 DEF Spaced
  <1> QED
    BY <1>2, <1>3, <1>4 DEF GapsKept

(* A desk gives a lead an outcome; nothing that suppression reads changes. *)
LEMMA RestGaps ==
  ASSUME Typed, GapsKept, today' = today, session' = session, raced \subseteq raced',
         \A l \in LeadIds : leads'[l].org = leads[l].org /\ leads'[l].routed = leads[l].routed
  PROVE  GapsKept'
  <1>1. \A s \in Sessions, l \in LeadIds :
          /\ (Seen(s, l)').org = Seen(s, l).org
          /\ (Seen(s, l)').routed = Seen(s, l).routed
    BY DEF Seen, Wrote
  <1>2. \A o : \A l \in LeadIds : When(leads[l], o)' = When(leads[l], o)
    BY DEF When
  <1>3. \A o : \A s \in Sessions, l \in LeadIds : When(Seen(s, l), o)' = When(Seen(s, l), o)
    BY <1>1 DEF When
  <1>4. ASSUME NEW o, Spaced(o) PROVE Spaced(o)'
    <2>1. \A s \in Sessions : Routing(s, o)' = Routing(s, o)
      BY <1>2, <1>3 DEF Routing
    <2>2. \A l, k \in LeadIds : l = k \/ Far(When(leads[l], o), When(leads[k], o))'
      BY <1>2, <1>4 DEF Spaced, Far
    <2>3. \A s \in Sessions, l, k \in LeadIds :
            l = k \/ Far(When(Seen(s, l), o), When(Seen(s, k), o))'
      BY <1>3, <1>4 DEF Spaced, Far
    <2>4. \A s \in Sessions : (session[s].pc \in Sending /\ session[s].row.org = o)' =>
            \A k \in LeadIds \ {session'[s].lead} : Past(When(Seen(s, k), o))'
      BY <1>3, <1>4 DEF Spaced, Past
    <2> QED
      BY <1>4, <2>1, <2>2, <2>3, <2>4 DEF Spaced
  <1>5. \A s \in Sessions, l \in LeadIds : Fresh(Seen(s, l), leads[l])'
    BY <1>1 DEF GapsKept, Fresh
  <1>6. \A s \in Sessions : (session[s].pc \in Working /\ session[s].row.routed = Never)' =>
          leads'[session'[s].lead].routed \in {Never, today'}
    BY WorkingTyped DEF GapsKept
  <1> QED
    BY <1>4, <1>5, <1>6 DEF GapsKept

LEMMA TickGaps ==
  ASSUME Typed, GapsKept, Tick
  PROVE  GapsKept'
  <1>1. /\ UNCHANGED <<leads, session, raced>>
        /\ \A s \in Sessions : session[s] = Idle
    BY SessionTyped DEF Tick, base, histories, Situated
  <1>2. \A s \in Sessions, l \in LeadIds : Seen(s, l)' = leads[l] /\ Seen(s, l) = leads[l]
    BY <1>1, IdleTyped DEF Seen, Wrote
  <1>3. \A s \in Sessions : session[s].pc \notin Working /\ session[s].pc \notin Sending
    BY <1>1, IdleTyped DEF Working, Sending
  <1>4. ASSUME NEW o, Spaced(o) PROVE Spaced(o)'
    <2>1. \A s \in Sessions : ~Routing(s, o)'
      BY <1>1, <1>2, <1>3 DEF Routing, When
    <2>2. \A l, k \in LeadIds : l = k \/ Far(When(leads[l], o), When(leads[k], o))'
      BY <1>1, <1>4 DEF Spaced, Far, When
    <2>3. \A s \in Sessions, l, k \in LeadIds :
            l = k \/ Far(When(Seen(s, l), o), When(Seen(s, k), o))'
      BY <1>2, <1>4 DEF Spaced, Far, When
    <2> QED
      BY <1>1, <1>3, <2>1, <2>2, <2>3 DEF Spaced
  <1> QED
    BY <1>1, <1>2, <1>3, <1>4 DEF GapsKept, Fresh

(* A session that starts, or gives up what it wrote.                       *)
LEMMA GapsDrop ==
  ASSUME Typed, GapsKept, NEW s \in Sessions, NEW next, Becomes(s, next),
         leads' = leads, today' = today, raced' = raced, next.pc \notin Working,
         \A l \in LeadIds : next.mine[l] = NoLead
  PROVE  GapsKept'
  <1>1. \A l \in LeadIds : View(next.mine, l) = leads[l]
    BY DEF View
  <1>2. next.pc \notin Sending
    BY DEF Working, Sending
  <1>3. \A l \in LeadIds : Fresh(View(next.mine, l), leads[l])
    BY <1>1 DEF Fresh
  <1>4. ASSUME NEW o \in Orgs \ raced'
        PROVE  /\ \A l, k \in LeadIds :
                    l = k \/ Far(When(View(next.mine, l), o), When(View(next.mine, k), o))
               /\ \A l \in LeadIds : When(View(next.mine, l), o) = When(leads[l], o)
    BY <1>1 DEF GapsKept, Spaced
  <1> QED
    BY <1>2, <1>3, <1>4, GapsStep

LEMMA ScoreGaps ==
  ASSUME Typed, RowsKept, GapsKept, NEW s \in Sessions, ScoreUser(s)
  PROVE  GapsKept'
  <1> DEFINE me == session[s]
  <1>1. leads' = leads /\ today' = today /\ raced \subseteq raced'
    BY DEF ScoreUser, Contends, base
  <1>2. me.mine \in [LeadIds -> Lead]
    BY SessionTyped DEF Session
  <1>3. ASSUME NEW next, Becomes(s, next), Turned(me, next), next.mine = me.mine
        PROVE  GapsKept'
    <2>1. next.pc \notin Working /\ next.pc \notin Sending
      BY <1>3 DEF Turned, Working, Sending
    <2> QED
      BY <1>1, <1>3, <2>1, SeenStays, GapsStay
  <1>4. ASSUME NEW next, NEW l \in Free, NEW row, Becomes(s, next), Inserted(me, next, l, row)
        PROVE  GapsKept'
    <2>1. /\ next.mine = [me.mine EXCEPT ![l] = row] /\ row.routed = Never
          /\ next.pc = "check" /\ next.lead = l /\ row.status = "new"
      BY <1>4 DEF Inserted
    <2>2. l \in LeadIds /\ leads[l] = NoLead /\ me.mine[l] = NoLead
      BY FreeMeans DEF Holds
    <2>3. \A k \in LeadIds : View(next.mine, k) = IF k = l THEN row ELSE Seen(s, k)
      BY <1>2, <2>1, <2>2, SeenView, NoLeadUnrouted DEF View
    <2>4. Seen(s, l).routed = Never
      BY <2>2, SeenView, NoLeadUnrouted DEF View
    <2>5. \A k \in LeadIds : Equal(View(next.mine, k), Seen(s, k))
      BY <2>1, <2>3, <2>4 DEF Equal
    <2>6. leads[next.lead].routed = Never /\ next.pc \notin Sending
      BY <2>1, <2>2, NoLeadUnrouted DEF Sending
    <2> HIDE DEF me
    <2> QED
      BY <1>1, <1>4, <2>5, <2>6, GapsStay
  <1>5. ASSUME NEW next, NEW l \in LeadIds, Becomes(s, next), Picked(me, next, l, Seen(s, l))
        PROVE  GapsKept'
    <2>1. /\ next.mine = me.mine /\ next.pc = "flush" /\ next.lead = l
          /\ next.row.routed = Seen(s, l).routed
      BY <1>5 DEF Picked, Alike
    <2>2. next.row.routed = Never => leads[next.lead].routed = Never
      BY <2>1, NotBefore
    <2>3. next.pc \notin Sending
      BY <2>1 DEF Sending
    <2> QED
      BY <1>1, <1>5, <2>1, <2>2, <2>3, SeenStays, GapsStay
  <1>6. \/ \E next : Becomes(s, next) /\ Turned(me, next) /\ next.mine = me.mine
        \/ \E next, l, row : l \in Free /\ Becomes(s, next) /\ Inserted(me, next, l, row)
        \/ \E next, l : /\ l \in LeadIds /\ Becomes(s, next)
                        /\ Picked(me, next, l, Seen(s, l))
    BY ScoreUserMeans DEF OpenLeads
  <1> QED
    BY <1>3, <1>4, <1>5, <1>6

LEMMA FlushGaps ==
  ASSUME Typed, RowsKept, GapsKept, NEW s \in Sessions, FlushLead(s)
  PROVE  GapsKept'
  <1> DEFINE me == session[s]
  <1>1. PICK next, row : Becomes(s, next) /\ Sends(s, next, row)
    BY FlushLeadMeans
  <1>2. leads' = leads /\ today' = today /\ raced' = raced
    BY DEF FlushLead, base, histories
  <1>3. /\ GoesOn(me, next) /\ me.pc = "flush" /\ next.pc = "check"
        /\ row \in Lead /\ Alike(row, Seen(s, me.lead))
        /\ next.mine = me.mine \/ next.mine = [me.mine EXCEPT ![me.lead] = row]
    BY <1>1 DEF Sends
  <1>4. /\ me.lead \in LeadIds /\ me.mine \in [LeadIds -> Lead] /\ me.pc \in Working
    BY <1>3, WorkingTyped, SessionTyped DEF Working, Session
  <1>5. row # NoLead
    <2>1. Seen(s, me.lead) # NoLead /\ Proper(Seen(s, me.lead)) /\ Seen(s, me.lead) \in Lead
      BY <1>4, LeadSeen, RowsTyped DEF RowsKept
    <2> QED
      BY <1>3, <2>1, AlikeIsReal
  <1>6. \A l \in LeadIds : Equal(View(next.mine, l), Seen(s, l))
    <2>1. CASE next.mine = me.mine
      BY <2>1, SeenStays
    <2>2. CASE next.mine = [me.mine EXCEPT ![me.lead] = row]
      <3>1. \A l \in LeadIds : View(next.mine, l) = IF l = me.lead THEN row ELSE Seen(s, l)
        BY <1>4, <1>5, <2>2, SeenView DEF View
      <3> QED
        BY <1>3, <3>1 DEF Equal, Alike
    <2> QED
      BY <1>3, <2>1, <2>2
  <1>7. next.row = me.row /\ next.lead = me.lead /\ next.pc \notin Sending
    BY <1>3 DEF GoesOn, Sending
  <1>8. next.row.routed = Never => leads[next.lead].routed \in {Never, today}
    BY <1>4, <1>7 DEF GapsKept
  <1> HIDE DEF me
  <1> QED
    BY <1>1, <1>2, <1>6, <1>7, <1>8, GapsStay

LEMMA SendGaps ==
  ASSUME Typed, RowsKept, GapsKept, NEW s \in Sessions, session[s].pc \in Sending,
         NEW next, Becomes(s, next), GoesOn(session[s], next), next.mine = session[s].mine,
         leads' = leads, today' = today, raced' = raced
  PROVE  GapsKept'
  <1>1. next.row = session[s].row /\ next.lead = session[s].lead
    BY DEF GoesOn
  <1>2. session[s].pc \in Working
    BY DEF Working, Sending
  <1>3. next.row.routed = Never => leads[next.lead].routed \in {Never, today}
    BY <1>1, <1>2 DEF GapsKept
  <1>4. \A l \in LeadIds : Equal(View(next.mine, l), Seen(s, l))
    BY SeenStays
  <1> QED
    BY <1>1, <1>3, <1>4, GapsStay

LEMMA StepsGaps ==
  ASSUME Typed, RowsKept, GapsKept, NEW s \in Sessions, Step(s)
  PROVE  GapsKept'
  <1> DEFINE me == session[s]
  <1>1. CASE \/ StartHourly(s) \/ StartRetention(s) \/ FailSession(s) \/ DeleteExpired(s)
             \/ \E user \in Users : StartDeepDive(s, user)
    <2>1. leads' = leads /\ today' = today /\ raced' = raced
      BY <1>1 DEF StartHourly, StartRetention, FailSession, DeleteExpired, StartDeepDive,
                  base, histories
    <2>2. PICK next : /\ Becomes(s, next) /\ next.pc \notin Working
                      /\ \A l \in LeadIds : next.mine[l] = NoLead
      <3>1. CASE StartHourly(s) \/ StartRetention(s) \/ \E user \in Users : StartDeepDive(s, user)
        BY <3>1, StartHourlyMeans, StartRetentionMeans, StartDeepDiveMeans DEF Started, Working
      <3>2. CASE FailSession(s) \/ DeleteExpired(s)
        BY <3>2, IdleTyped DEF FailSession, DeleteExpired, Working
      <3> QED
        BY <1>1, <3>1, <3>2
    <2> QED
      BY <2>1, <2>2, GapsDrop
  <1>2. ASSUME NEW next, Becomes(s, next), next.mine = me.mine, leads' = leads,
               today' = today, raced' = raced, next.pc \notin Working
        PROVE  GapsKept'
    <2>1. next.pc \notin Sending
      BY <1>2 DEF Working, Sending
    <2> QED
      BY <1>2, <2>1, SeenStays, GapsStay
  <1>3. CASE AskDeepDive(s)
    <2>1. leads' = leads /\ today' = today /\ raced' = raced
      BY <1>3 DEF AskDeepDive, base, histories
    <2>2. PICK next : Becomes(s, next) /\ next.mine = me.mine /\ next.pc = "user"
      BY <1>3, AskDeepDiveMeans
    <2>3. next.pc \notin Working
      BY <2>2 DEF Working
    <2> QED
      BY <1>2, <2>1, <2>2, <2>3
  <1>4. CASE CheckRoute(s)
    <2>1. leads' = leads /\ today' = today
      BY <1>4 DEF CheckRoute, base
    <2>2. CASE /\ RoutingEligible(s)
               /\ \E next : /\ Becomes(s, next) /\ GoesOn(me, next)
                            /\ next.pc = "mail" /\ next.mine = me.mine
               /\ raced' = IF me.row.org # NoOrg
                              /\ \E t \in Sessions \ {s} : Routes(t, me.row.org)
                           THEN raced \cup {me.row.org}
                           ELSE raced
      BY <1>4, <2>1, <2>2, CheckRouteMeans, CheckGaps
    <2>3. CASE /\ \E next : Becomes(s, next) /\ Turned(me, next) /\ next.mine = me.mine
               /\ raced' = raced
      <3>1. PICK next : Becomes(s, next) /\ Turned(me, next) /\ next.mine = me.mine
        BY <2>3
      <3>2. next.pc \notin Working
        BY <3>1 DEF Turned, Working
      <3> QED
        BY <1>2, <2>1, <2>3, <3>1, <3>2
    <2> QED
      BY <1>4, <2>2, <2>3, CheckRouteMeans
  <1>5. CASE SendMail(s) \/ PostWebhook(s)
    <2>1. leads' = leads /\ today' = today /\ raced' = raced
      BY <1>5 DEF SendMail, PostWebhook, base
    <2>2. me.pc \in Sending
      BY <1>5 DEF SendMail, PostWebhook, Sending
    <2>3. PICK next : Becomes(s, next) /\ GoesOn(me, next) /\ next.mine = me.mine
      BY <1>5, SendMailMeans, PostWebhookMeans
    <2> QED
      BY <2>1, <2>2, <2>3, SendGaps
  <1>6. CASE MarkRouted(s)
    <2>1. leads' = leads /\ today' = today /\ raced' = raced
      BY <1>6 DEF MarkRouted, base, histories
    <2> QED
      BY <1>6, <2>1, MarkRoutedMeans, MarkGaps
  <1> QED
    BY <1>1, <1>3, <1>4, <1>5, <1>6, ScoreGaps, FlushGaps, CommitGaps DEF Step

(* Two leads of an organisation are routed more than the suppression's     *)
(* days apart, for any number of sessions, also by one run and by a        *)
(* deep-dive request, unless two sessions decided to route for the         *)
(* organisation before either of them committed.                           *)
THEOREM OrganisationsSuppressed == Spec => []OrganisationsAreSuppressed
  <1>1. Typed /\ RowsKept /\ GapsKept /\ [Next]_vars => GapsKept'
    <2> SUFFICES ASSUME Typed, RowsKept, GapsKept, [Next]_vars PROVE GapsKept'
      OBVIOUS
    <2>1. CASE UNCHANGED vars \/ Visit
      <3>1. UNCHANGED <<today, leads, session>> /\ raced \subseteq raced'
        BY <2>1 DEF vars, Visit, IngestEvent, MergeHistory, PrivacyDelete,
                    PrivacyPreference, base, histories
      <3> QED
        BY <3>1, RestGaps
    <2>2. ASSUME NEW l \in LeadIds, NEW status \in {"qualified", "closed"},
                 UpdateOutcome(l, status)
          PROVE  GapsKept'
      <3>1. /\ leads' = [leads EXCEPT ![l] = [leads[l] EXCEPT !.status = status]]
            /\ UNCHANGED <<today, session>> /\ raced \subseteq raced'
        BY <2>2 DEF UpdateOutcome
      <3>2. \A k \in LeadIds : leads'[k].org = leads[k].org /\ leads'[k].routed = leads[k].routed
        BY <3>1 DEF Typed, TypeOK, Lead
      <3> QED
        BY <3>1, <3>2, RestGaps
    <2> QED
      BY <2>1, <2>2, StepsGaps, TickGaps DEF Next
  <1>2. Typed /\ GapsKept => OrganisationsAreSuppressed
    <2> SUFFICES ASSUME Typed, GapsKept, NEW l \in LeadIds, NEW k \in LeadIds, l # k,
                        leads[l].org # NoOrg, leads[l].org = leads[k].org,
                        leads[l].org \notin raced
                 PROVE  Far(leads[l].routed, leads[k].routed)
      BY DEF OrganisationsAreSuppressed, Far
    <2>1. leads[l].org \in Orgs
      BY DEF Typed, TypeOK, Lead
    <2>2. Spaced(leads[l].org)
      BY <2>1 DEF GapsKept
    <2> QED
      BY <2>2 DEF Spaced, When
  <1> QED
    BY <1>1, <1>2, InitGaps, TypedAlways, RowsAlways, PTL DEF Spec

-----------------------------------------------------------------------------
(* Open leads.  A deep-dive request has a signal, its own event, unless    *)
(* the user's preference changed after it loaded the user.  So a session   *)
(* opens a lead only for a user of whom it sees none open; and of a user   *)
(* whom no two sessions were at at once, what a session sees is what       *)
(* everybody else sees, but for its own rows.                              *)

Asked(me) ==
    /\ \A e \in me.request : e.name = DeepDive /\ e.day = today
    /\ me.pc = "ask" /\ me.user \notin raced =>
         (me.user \in optedOut <=> me.user \in me.optedOut)
    /\ me.pc = "user" /\ me.kind = "deepdive" /\ me.request = {} =>
         me.user \in me.optedOut \cup raced

AskedKept == \A s \in Sessions : Asked(session[s])

LEMMA AskedIdle == Asked(Idle)
  BY IdleTyped DEF Asked

LEMMA InitAsked == Init => AskedKept
  BY AskedIdle DEF Init, AskedKept

LEMMA AskedMove ==
  ASSUME Typed, AskedKept, NEW s \in Sessions, NEW next, Becomes(s, next),
         today' = today, optedOut' = optedOut, raced \subseteq raced',
         \A e \in next.request : e.name = DeepDive /\ e.day = today,
         next.pc = "ask" => (next.user \in optedOut <=> next.user \in next.optedOut),
         next.pc = "user" /\ next.kind = "deepdive" /\ next.request = {} =>
             next.user \in next.optedOut \cup raced
  PROVE  AskedKept'
  <1>1. session'[s] = next /\ \A t \in Sessions \ {s} : session'[t] = session[t]
    BY Moves DEF Typed, TypeOK
  <1>2. ASSUME NEW t \in Sessions PROVE Asked(session[t])'
    <2>1. CASE t = s
      BY <1>1, <2>1 DEF Asked
    <2>2. CASE t # s
      <3>1. Asked(session[t]) /\ session'[t] = session[t]
        BY <1>1, <2>2 DEF AskedKept
      <3> QED
        BY <3>1 DEF Asked
    <2> QED
      BY <2>1, <2>2
  <1> QED
    BY <1>2 DEF AskedKept

LEMMA StepsAsked ==
  ASSUME Typed, AskedKept, NEW s \in Sessions, Step(s)
  PROVE  AskedKept'
  <1> DEFINE me == session[s]
  <1>1. today' = today /\ optedOut' = optedOut /\ raced \subseteq raced'
    BY DEF Step, StartHourly, StartDeepDive, AskDeepDive, ScoreUser, Contends, FlushLead,
           CheckRoute, SendMail, PostWebhook, MarkRouted, Commit, FailSession,
           StartRetention, DeleteExpired, base, histories
  <1>2. Situated(me) /\ Asked(me)
    BY SessionTyped DEF AskedKept
  <1>3. ASSUME NEW next, Becomes(s, next), next.request = {}, next.pc \notin {"ask", "user"}
        PROVE  AskedKept'
    BY <1>1, <1>3, AskedMove
  <1>4. ASSUME NEW next, Becomes(s, next), next.request = me.request,
               next.pc \notin {"ask", "user"}
        PROVE  AskedKept'
    BY <1>1, <1>2, <1>4, AskedMove DEF Asked
  <1>5. ASSUME NEW next, Becomes(s, next), Turned(me, next)
        PROVE  AskedKept'
    <2>1. /\ next.request = me.request /\ next.kind = me.kind /\ next.pc # "ask"
          /\ next.pc = "user" => next.user \in me.todo
      BY <1>5 DEF Turned, Steady
    <2>2. ~(next.pc = "user" /\ next.kind = "deepdive")
      BY <1>2, <2>1 DEF Situated
    <2>3. \A e \in next.request : e.name = DeepDive /\ e.day = today
      BY <1>2, <2>1 DEF Asked
    <2> HIDE DEF me
    <2> QED
      BY <1>1, <1>5, <2>1, <2>2, <2>3, AskedMove
  <1>6. CASE StartHourly(s) \/ StartRetention(s)
    <2>1. PICK next : /\ Becomes(s, next) /\ Started(next) /\ next.kind # "deepdive"
      BY <1>6, StartHourlyMeans, StartRetentionMeans
    <2>2. next.request = {} /\ next.pc # "ask"
      BY <2>1 DEF Started, Situated
    <2> QED
      BY <1>1, <2>1, <2>2, AskedMove
  <1>7. CASE \E user \in Users : StartDeepDive(s, user)
    <2>1. PICK next : /\ Becomes(s, next) /\ Started(next) /\ next.pc = "ask"
                      /\ next.optedOut = optedOut
      BY <1>7, StartDeepDiveMeans
    <2>2. next.request = {}
      BY <2>1 DEF Started
    <2> QED
      BY <1>1, <2>1, <2>2, AskedMove
  <1>8. CASE AskDeepDive(s)
    <2>1. PICK next :
            /\ Becomes(s, next) /\ Steady(me, next)
            /\ me.pc = "ask" /\ next.pc = "user" /\ next.user = me.user
            /\ \/ /\ next.user \in optedOut
                  /\ next.request = {}
               \/ next.request = {NewEvent(next.user, DeepDive, today)}
      BY <1>8, AskDeepDiveMeans
    <2>2. next.optedOut = me.optedOut
      BY <2>1 DEF Steady
    <2>3. \A e \in next.request : e.name = DeepDive /\ e.day = today
      BY <2>1 DEF NewEvent
    <2>4. next.request = {} => next.user \in next.optedOut \cup raced
      BY <1>2, <2>1, <2>2 DEF Asked
    <2> HIDE DEF me
    <2> QED
      BY <1>1, <2>1, <2>3, <2>4, AskedMove
  <1>9. CASE ScoreUser(s)
    <2>1. \/ \E next : Becomes(s, next) /\ Turned(me, next)
          \/ \E next : /\ Becomes(s, next) /\ next.request = me.request
                       /\ next.pc \in {"check", "flush"}
      BY <1>9, ScoreUserMeans DEF Inserted, Picked
    <2> QED
      BY <1>4, <1>5, <2>1
  <1>10. CASE FlushLead(s) \/ SendMail(s) \/ PostWebhook(s)
    <2>1. PICK next : /\ Becomes(s, next) /\ next.request = me.request
                      /\ next.pc \in {"check", "hook", "mark"}
      <3>1. CASE FlushLead(s)
        BY <3>1, FlushLeadMeans DEF Sends, GoesOn
      <3>2. CASE SendMail(s)
        BY <3>2, SendMailMeans DEF GoesOn
      <3>3. CASE PostWebhook(s)
        BY <3>3, PostWebhookMeans DEF GoesOn
      <3> QED
        BY <1>10, <3>1, <3>2, <3>3
    <2> QED
      BY <1>4, <2>1
  <1>11. CASE CheckRoute(s) \/ MarkRouted(s)
    <2>1. \/ \E next : Becomes(s, next) /\ Turned(me, next)
          \/ \E next : Becomes(s, next) /\ next.request = me.request /\ next.pc = "mail"
      BY <1>11, CheckRouteMeans, MarkRoutedMeans DEF GoesOn
    <2> QED
      BY <1>4, <1>5, <2>1
  <1>12. CASE Commit(s) \/ FailSession(s) \/ DeleteExpired(s)
    <2>1. Becomes(s, Idle)
      BY <1>12 DEF Commit, FailSession, DeleteExpired
    <2> QED
      BY <1>3, <2>1, IdleTyped
  <1> QED
    BY <1>6, <1>7, <1>8, <1>9, <1>10, <1>11, <1>12 DEF Step

LEMMA OtherAsked ==
  ASSUME Typed, AskedKept,
         \/ Tick \/ Visit \/ UNCHANGED vars
         \/ \E l \in LeadIds, status \in {"qualified", "closed"} : UpdateOutcome(l, status)
  PROVE  AskedKept'
  <1>1. ASSUME today' = today, optedOut' = optedOut, session' = session, raced \subseteq raced'
        PROVE  AskedKept'
    BY <1>1 DEF AskedKept, Asked
  <1>2. CASE Tick
    <2>1. \A s \in Sessions : session'[s] = Idle
      BY <1>2, SessionTyped DEF Tick, Situated
    <2>2. Idle.request = {} /\ Idle.pc = "idle"
      BY IdleTyped
    <2> QED
      BY <2>1, <2>2 DEF AskedKept, Asked
  <1>3. ASSUME NEW user \in Users, NEW enabled \in BOOLEAN, PrivacyPreference(user, enabled)
        PROVE  AskedKept'
    <2>1. /\ today' = today /\ session' = session /\ raced \subseteq raced'
          /\ \A u : u # user => (u \in optedOut' <=> u \in optedOut)
          /\ (\E s \in Sessions : user \in Handles(s)) => user \in raced'
      BY <1>3 DEF PrivacyPreference
    <2>2. ASSUME NEW s \in Sessions PROVE Asked(session[s])'
      <3>1. Asked(session[s])
        BY DEF AskedKept
      <3>2. session[s].user = user => user \in raced'
        <4>1. user # Nobody
          BY Constants
        <4> QED
          BY <2>1, <4>1 DEF Handles
      <3> QED
        BY <2>1, <3>1, <3>2 DEF Asked
    <2> QED
      BY <2>2 DEF AskedKept
  <1>4. CASE UNCHANGED vars
    BY <1>1, <1>4 DEF vars
  <1>5. CASE Visit
    <2>1. CASE \/ \E owner \in Users \cup Browsers, name \in Names, day \in Days :
                    IngestEvent(owner, name, day)
               \/ \E user \in Users, anon \in Browsers : MergeHistory(user, anon)
               \/ \E user \in Users : PrivacyDelete(user)
      BY <1>1, <2>1 DEF IngestEvent, MergeHistory, PrivacyDelete, histories
    <2> QED
      BY <1>3, <1>5, <2>1 DEF Visit
  <1>6. CASE \E l \in LeadIds, status \in {"qualified", "closed"} : UpdateOutcome(l, status)
    BY <1>1, <1>6 DEF UpdateOutcome
  <1> QED
    BY <1>2, <1>4, <1>5, <1>6

LEMMA AskedAlways == Spec => []AskedKept
  <1>1. Typed /\ AskedKept /\ [Next]_vars => AskedKept'
    BY StepsAsked, OtherAsked DEF Next
  <1> QED
    BY <1>1, InitAsked, TypedAlways, PTL DEF Spec

(* An open lead of the user.                                               *)
OpenOf(r, u) == r.user = u /\ r.status \in {"new", "routed"}

(* The session works on a lead of the user, or has written one.            *)
Stirs(me, u) ==
    \/ me.pc \in Working /\ me.user = u
    \/ \E l \in LeadIds : me.mine[l].user = u

Lone(u) ==
    /\ \A l, k \in LeadIds : l = k \/ ~OpenOf(leads[l], u) \/ ~OpenOf(leads[k], u)
    /\ \A s \in Sessions, l, k \in LeadIds :
         l = k \/ ~OpenOf(Seen(s, l), u) \/ ~OpenOf(Seen(s, k), u)
    /\ \A s \in Sessions : session[s].pc \in Working /\ session[s].user = u =>
         OpenOf(Seen(s, session[s].lead), u)
    /\ \A s, t \in Sessions : s = t \/ ~Stirs(session[s], u) \/ ~Stirs(session[t], u)

LonesKept == \A u \in Users \ raced : Lone(u)

LEMMA InitLones == Init => LonesKept
  <1> SUFFICES ASSUME Init, NEW u \in Users PROVE Lone(u)
    BY DEF LonesKept
  <1>1. \A s \in Sessions : session[s] = Idle
    BY DEF Init
  <1>2. \A l \in LeadIds : leads[l] = NoLead
    BY DEF Init
  <1>3. \A s \in Sessions, l \in LeadIds : Seen(s, l) = NoLead
    BY <1>1, <1>2, IdleTyped, WroteMeans
  <1>4. \A s \in Sessions : session[s].pc \notin Working
    BY <1>1, IdleTyped DEF Working
  <1>5. ~OpenOf(NoLead, u) /\ NoLead.user # u
    BY NoLeadUnrouted, Constants DEF OpenOf
  <1>6. \A s \in Sessions, l \in LeadIds : session[s].mine[l] = NoLead
    BY <1>1, IdleTyped
  <1> QED
    BY <1>2, <1>3, <1>4, <1>5, <1>6 DEF Lone, Stirs

(* A session that works on a user's lead, or has written one, is at the    *)
(* user's leads.                                                           *)
LEMMA StirsHandles ==
  ASSUME NEW s \in Sessions, NEW u \in Users, Stirs(session[s], u)
  PROVE  u \in Handles(s)
  <1>1. u # Nobody /\ NoLead.user = Nobody
    BY Constants, NoLeadUnrouted
  <1>2. CASE session[s].user = u
    BY <1>1, <1>2 DEF Handles
  <1>3. ASSUME NEW l \in LeadIds, session[s].mine[l].user = u PROVE u \in Handles(s)
    <2>1. l \in Wrote(s)
      BY <1>1, <1>3 DEF Wrote
    <2> QED
      BY <1>1, <1>3, <2>1 DEF Handles
  <1> QED
    BY <1>2, <1>3 DEF Stirs

LEMMA LoneStep ==
  ASSUME Typed, LonesKept, NEW s \in Sessions, NEW next, Becomes(s, next),
         leads' = leads, raced \subseteq raced',
         \A u \in Users \ raced' :
           /\ \A l, k \in LeadIds :
                \/ l = k
                \/ ~OpenOf(View(next.mine, l), u)
                \/ ~OpenOf(View(next.mine, k), u)
           /\ next.pc \in Working /\ next.user = u =>
                next.lead \in LeadIds /\ OpenOf(View(next.mine, next.lead), u)
           /\ \/ ~Stirs(next, u)
              \/ Stirs(session[s], u)
              \/ \A t \in Sessions \ {s} : ~Stirs(session[t], u)
  PROVE  LonesKept'
  <1>1. /\ session'[s] = next
        /\ \A t \in Sessions \ {s} : session'[t] = session[t]
        /\ \A l \in LeadIds : Seen(s, l)' = View(next.mine, l)
        /\ \A t \in Sessions \ {s}, l \in LeadIds : Seen(t, l)' = Seen(t, l)
    BY SeenNext
  <1> SUFFICES ASSUME NEW u \in Users \ raced' PROVE Lone(u)'
    BY DEF LonesKept
  <1>2. Lone(u)
    BY DEF LonesKept
  <1>3. ASSUME NEW l \in LeadIds, NEW k \in LeadIds, l # k
        PROVE  ~OpenOf(leads'[l], u) \/ ~OpenOf(leads'[k], u)
    BY <1>2, <1>3 DEF Lone
  <1>4. ASSUME NEW t \in Sessions, NEW l \in LeadIds, NEW k \in LeadIds, l # k
        PROVE  ~OpenOf(Seen(t, l)', u) \/ ~OpenOf(Seen(t, k)', u)
    <2>1. CASE t = s
      BY <1>1, <1>4, <2>1
    <2>2. CASE t # s
      BY <1>1, <1>2, <1>4, <2>2 DEF Lone
    <2> QED
      BY <2>1, <2>2
  <1>5. ASSUME NEW t \in Sessions, session'[t].pc \in Working, session'[t].user = u
        PROVE  OpenOf(Seen(t, session[t].lead), u)'
    <2>1. CASE t = s
      <3>1. Seen(s, session[s].lead)' = View(next.mine, next.lead)
        BY <1>1, <1>5, <2>1 DEF Seen, Wrote, View
      <3> QED
        BY <1>1, <1>5, <2>1, <3>1 DEF OpenOf
    <2>2. CASE t # s
      <3>1. session'[t] = session[t] /\ session[t].pc \in Working
        BY <1>1, <1>5, <2>2
      <3>2. session[t].lead \in LeadIds
        BY <3>1, WorkingTyped
      <3>3. Seen(t, session[t].lead)' = Seen(t, session[t].lead)
        BY <3>1 DEF Seen, Wrote
      <3> QED
        BY <1>2, <1>5, <3>1, <3>3 DEF Lone, OpenOf
    <2> QED
      BY <2>1, <2>2
  <1>6. ASSUME NEW t \in Sessions, NEW v \in Sessions, t # v
        PROVE  ~Stirs(session'[t], u) \/ ~Stirs(session'[v], u)
    <2>1. CASE t # s /\ v # s
      BY <1>1, <1>2, <1>6, <2>1 DEF Lone
    <2>2. CASE t = s
      BY <1>1, <1>2, <1>6, <2>2 DEF Lone
    <2>3. CASE v = s
      BY <1>1, <1>2, <1>6, <2>3 DEF Lone
    <2> QED
      BY <2>1, <2>2, <2>3
  <1>7. \A l, k \in LeadIds : l = k \/ ~OpenOf(leads[l], u)' \/ ~OpenOf(leads[k], u)'
    BY <1>3 DEF OpenOf
  <1>8. \A t \in Sessions, l, k \in LeadIds :
          l = k \/ ~OpenOf(Seen(t, l), u)' \/ ~OpenOf(Seen(t, k), u)'
    BY <1>4 DEF OpenOf
  <1>9. \A t, v \in Sessions : t = v \/ ~Stirs(session[t], u)' \/ ~Stirs(session[v], u)'
    BY <1>6 DEF Stirs
  <1> QED
    BY <1>5, <1>7, <1>8, <1>9 DEF Lone

(* A step that opens no lead and stirs no other user.                      *)
LEMMA LoneStay ==
  ASSUME Typed, LonesKept, NEW s \in Sessions, NEW next, Becomes(s, next),
         leads' = leads, raced \subseteq raced',
         \A u \in Users \ raced :
           /\ \A l \in LeadIds : OpenOf(View(next.mine, l), u) => OpenOf(Seen(s, l), u)
           /\ next.pc \in Working /\ next.user = u =>
                next.lead \in LeadIds /\ OpenOf(View(next.mine, next.lead), u)
           /\ Stirs(next, u) => Stirs(session[s], u)
  PROVE  LonesKept'
  <1>1. ASSUME NEW u \in Users \ raced'
        PROVE  /\ \A l, k \in LeadIds :
                    \/ l = k
                    \/ ~OpenOf(View(next.mine, l), u)
                    \/ ~OpenOf(View(next.mine, k), u)
               /\ next.pc \in Working /\ next.user = u =>
                    next.lead \in LeadIds /\ OpenOf(View(next.mine, next.lead), u)
               /\ Stirs(next, u) => Stirs(session[s], u)
    BY DEF LonesKept, Lone
  <1> QED
    BY <1>1, LoneStep

(* A session that starts, or gives up what it wrote.                       *)
LEMMA LoneDrop ==
  ASSUME Typed, LonesKept, NEW s \in Sessions, NEW next, Becomes(s, next),
         leads' = leads, raced \subseteq raced', next.pc \notin Working,
         \A l \in LeadIds : next.mine[l] = NoLead
  PROVE  LonesKept'
  <1>1. \A l \in LeadIds : View(next.mine, l) = leads[l]
    BY DEF View
  <1>2. ASSUME NEW u \in Users \ raced'
        PROVE  /\ \A l, k \in LeadIds :
                    \/ l = k
                    \/ ~OpenOf(View(next.mine, l), u)
                    \/ ~OpenOf(View(next.mine, k), u)
               /\ ~Stirs(next, u)
    <2>1. NoLead.user # u
      BY NoLeadUnrouted, Constants
    <2> QED
      BY <1>1, <2>1 DEF LonesKept, Lone, Stirs
  <1> QED
    BY <1>2, LoneStep

(* A deep-dive request of a tracked user is not quiet.                     *)
LEMMA RequestIsHeard ==
  ASSUME Typed, AskedKept, NEW s \in Sessions, session[s].pc = "user",
         session[s].kind = "deepdive", Quiet(s),
         session[s].user \notin session[s].optedOut
  PROVE  session[s].user \in raced
  <1> DEFINE me == session[s]
             E == SignalsOf(s, me.user)
  <1>1. Asked(me) /\ IsFiniteSet(E)
    BY SignalsTyped DEF AskedKept
  <1>2. ASSUME NEW e \in me.request PROVE FALSE
    <2>1. e \in E /\ e.name = DeepDive /\ e.day = today
      BY <1>1 DEF Asked, SignalsOf
    <2>2. e.day >= today - WindowDays
      BY <2>1, Constants DEF Typed, TypeOK, Days
    <2>3. IsFiniteSet({f \in E : f.name = DeepDive /\ f.day >= today - WindowDays})
      BY <1>1, FS_Subset
    <2>4. {f \in E : f.name = DeepDive /\ f.day >= today - WindowDays} # {}
      BY <2>1, <2>2
    <2>5. Matched(E, DeepDive) # 0
      BY <2>3, <2>4, FS_EmptySet DEF Matched
    <2> QED
      BY <2>5, Constants DEF Quiet
  <1> QED
    BY <1>1, <1>2 DEF Asked

LEMMA ScoreLones ==
  ASSUME Typed, RowsKept, AskedKept, LonesKept, NEW s \in Sessions, ScoreUser(s)
  PROVE  LonesKept'
  <1> DEFINE me == session[s]
  <1>1. /\ leads' = leads /\ raced \subseteq raced'
        /\ (\E t \in Sessions \ {s} : me.user \in Handles(t)) => me.user \in raced'
        /\ me.pc = "user" /\ me.user \in Users
    BY ScoreUserMeans DEF ScoreUser, Contends, base
  <1>2. me.mine \in [LeadIds -> Lead]
    BY SessionTyped DEF Session
  <1>3. me.user \notin raced' => \A t \in Sessions \ {s} : ~Stirs(session[t], me.user)
    BY <1>1, StirsHandles
  <1>4. ASSUME NEW next, Becomes(s, next), Turned(me, next), next.mine = me.mine
        PROVE  LonesKept'
    <2>1. next.pc \notin Working
      BY <1>4 DEF Turned, Working
    <2>2. \A l \in LeadIds : View(next.mine, l) = Seen(s, l)
      BY <1>4, SeenView
    <2>3. \A u : Stirs(next, u) => Stirs(me, u)
      BY <1>4, <2>1 DEF Stirs
    <2> QED
      BY <1>1, <1>4, <2>1, <2>2, <2>3, LoneStay
  <1>5. ASSUME NEW next, NEW l \in Free, NEW row, Becomes(s, next), Inserted(me, next, l, row),
               me.user \notin raced => OpenLeads(s, me.user) = {}
        PROVE  LonesKept'
    <2>1. /\ next.mine = [me.mine EXCEPT ![l] = row] /\ row.user = me.user
          /\ next.pc = "check" /\ next.lead = l /\ row.status = "new" /\ next.user = me.user
      BY <1>5 DEF Inserted
    <2>2. l \in LeadIds /\ leads[l] = NoLead /\ me.mine[l] = NoLead
      BY FreeMeans DEF Holds
    <2>3. \A k \in LeadIds : View(next.mine, k) = IF k = l THEN row ELSE Seen(s, k)
      BY <1>2, <2>1, <2>2, SeenView, NoLeadUnrouted DEF View
    <2>4. \A k \in LeadIds : next.mine[k] = IF k = l THEN row ELSE me.mine[k]
      BY <1>2, <2>1
    <2>5. me.user \notin raced => \A k \in LeadIds : ~OpenOf(Seen(s, k), me.user)
      BY <1>5 DEF OpenLeads, OpenOf
    <2>6. OpenOf(row, me.user) /\ \A u : u # me.user => ~OpenOf(row, u)
      BY <2>1 DEF OpenOf
    <2> HIDE DEF me
    <2>7. ASSUME NEW u \in Users \ raced'
          PROVE  /\ \A j, k \in LeadIds :
                      \/ j = k
                      \/ ~OpenOf(View(next.mine, j), u)
                      \/ ~OpenOf(View(next.mine, k), u)
                 /\ next.pc \in Working /\ next.user = u =>
                      next.lead \in LeadIds /\ OpenOf(View(next.mine, next.lead), u)
                 /\ \/ ~Stirs(next, u)
                    \/ Stirs(session[s], u)
                    \/ \A t \in Sessions \ {s} : ~Stirs(session[t], u)
      <3>1. CASE u = me.user
        BY <1>1, <1>3, <2>1, <2>2, <2>3, <2>5, <2>6, <3>1
      <3>2. CASE u # me.user
        <4>1. \A j \in LeadIds : OpenOf(View(next.mine, j), u) => OpenOf(Seen(s, j), u)
          BY <2>3, <2>6, <3>2
        <4>2. \A j, k \in LeadIds : j = k \/ ~OpenOf(Seen(s, j), u) \/ ~OpenOf(Seen(s, k), u)
          BY <1>1 DEF LonesKept, Lone
        <4>3. Stirs(next, u) => Stirs(me, u)
          BY <2>1, <2>4, <3>2 DEF Stirs
        <4> QED
          BY <2>1, <3>2, <4>1, <4>2, <4>3 DEF me
      <3> QED
        BY <3>1, <3>2
    <2> QED
      BY <1>1, <1>5, <2>7, LoneStep
  <1>6. ASSUME NEW next, NEW l \in OpenLeads(s, me.user), Becomes(s, next),
               Picked(me, next, l, Seen(s, l))
        PROVE  LonesKept'
    <2>1. /\ next.mine = me.mine /\ next.pc = "flush" /\ next.lead = l
          /\ next.user = me.user
      BY <1>6 DEF Picked
    <2>2. l \in LeadIds /\ OpenOf(Seen(s, l), me.user)
      BY DEF OpenLeads, OpenOf
    <2>3. \A k \in LeadIds : View(next.mine, k) = Seen(s, k)
      BY <2>1, SeenView
    <2>4. \A u : u # me.user => (Stirs(next, u) => Stirs(me, u))
      BY <2>1 DEF Stirs
    <2> HIDE DEF me
    <2>5. ASSUME NEW u \in Users \ raced'
          PROVE  /\ \A j, k \in LeadIds :
                      \/ j = k
                      \/ ~OpenOf(View(next.mine, j), u)
                      \/ ~OpenOf(View(next.mine, k), u)
                 /\ next.pc \in Working /\ next.user = u =>
                      next.lead \in LeadIds /\ OpenOf(View(next.mine, next.lead), u)
                 /\ \/ ~Stirs(next, u)
                    \/ Stirs(session[s], u)
                    \/ \A t \in Sessions \ {s} : ~Stirs(session[t], u)
      <3>1. \A j, k \in LeadIds : j = k \/ ~OpenOf(Seen(s, j), u) \/ ~OpenOf(Seen(s, k), u)
        BY <1>1 DEF LonesKept, Lone
      <3>2. \/ ~Stirs(next, u) \/ Stirs(me, u)
            \/ \A t \in Sessions \ {s} : ~Stirs(session[t], u)
        BY <1>3, <2>4
      <3> QED
        BY <2>1, <2>2, <2>3, <3>1, <3>2 DEF me
    <2> QED
      BY <1>1, <1>6, <2>5, LoneStep
  <1>7. CASE \E next : Becomes(s, next) /\ Turned(me, next) /\ next.mine = me.mine
    BY <1>4, <1>7
  <1>8. CASE \E next, l, row :
               /\ l \in Free /\ Becomes(s, next) /\ Inserted(me, next, l, row)
               /\ \/ OpenLeads(s, me.user) = {}
                  \/ me.kind = "deepdive" /\ Quiet(s) /\ me.user \notin me.optedOut
    <2>1. PICK next, l, row :
            /\ l \in Free /\ Becomes(s, next) /\ Inserted(me, next, l, row)
            /\ \/ OpenLeads(s, me.user) = {}
               \/ me.kind = "deepdive" /\ Quiet(s) /\ me.user \notin me.optedOut
      BY <1>8
    <2>2. me.user \notin raced => OpenLeads(s, me.user) = {}
      BY <1>1, <2>1, RequestIsHeard
    <2> QED
      BY <1>5, <2>1, <2>2
  <1>9. CASE \E next, l : /\ l \in OpenLeads(s, me.user) /\ Becomes(s, next)
                          /\ Picked(me, next, l, Seen(s, l))
    BY <1>6, <1>9
  <1> QED
    BY <1>7, <1>8, <1>9, ScoreUserMeans

LEMMA FlushLones ==
  ASSUME Typed, RowsKept, LonesKept, NEW s \in Sessions, FlushLead(s)
  PROVE  LonesKept'
  <1> DEFINE me == session[s]
  <1>1. PICK next, row : Becomes(s, next) /\ Sends(s, next, row)
    BY FlushLeadMeans
  <1>2. leads' = leads /\ raced' = raced
    BY DEF FlushLead, base, histories
  <1>3. /\ GoesOn(me, next) /\ me.pc = "flush" /\ next.pc = "check"
        /\ row \in Lead /\ Alike(row, Seen(s, me.lead))
        /\ next.mine = me.mine \/ next.mine = [me.mine EXCEPT ![me.lead] = row]
    BY <1>1 DEF Sends
  <1>4. /\ me.lead \in LeadIds /\ me.mine \in [LeadIds -> Lead] /\ me.pc \in Working
        /\ me.row.user = me.user
    BY <1>3, WorkingTyped, SessionTyped DEF Working, Session
  <1>5. row # NoLead /\ row.user = me.user
    <2>1. /\ Seen(s, me.lead) # NoLead /\ Proper(Seen(s, me.lead)) /\ Seen(s, me.lead) \in Lead
          /\ Same(Seen(s, me.lead), me.row)
      BY <1>4, LeadSeen, RowsTyped DEF RowsKept
    <2> QED
      BY <1>3, <1>4, <2>1, AlikeIsReal DEF Same
  <1>6. next.user = me.user /\ next.lead = me.lead
    BY <1>3 DEF GoesOn
  <1>7. \A l \in LeadIds :
          /\ View(next.mine, l) = Seen(s, l) \/ (l = me.lead /\ View(next.mine, l) = row)
          /\ next.mine[l] = me.mine[l] \/ next.mine[l].user = me.user
    <2>1. CASE next.mine = me.mine
      BY <2>1, SeenView
    <2>2. CASE next.mine = [me.mine EXCEPT ![me.lead] = row]
      BY <1>4, <1>5, <2>2, SeenView DEF View
    <2> QED
      BY <1>3, <2>1, <2>2
  <1>8. \A l \in LeadIds : \A u : OpenOf(View(next.mine, l), u) <=> OpenOf(Seen(s, l), u)
    BY <1>3, <1>7 DEF OpenOf, Alike
  <1>9. \A u : Stirs(next, u) => Stirs(me, u)
    BY <1>4, <1>6, <1>7 DEF Stirs
  <1>10. ASSUME NEW u \in Users \ raced, next.user = u
         PROVE  OpenOf(View(next.mine, next.lead), u)
    <2>1. OpenOf(Seen(s, me.lead), u)
      BY <1>4, <1>6, <1>10 DEF LonesKept, Lone
    <2> QED
      BY <1>4, <1>6, <1>8, <2>1
  <1> HIDE DEF me
  <1>11. me = session[s]
    BY DEF me
  <1> QED
    BY <1>1, <1>2, <1>4, <1>6, <1>8, <1>9, <1>10, <1>11, LoneStay

LEMMA SendLones ==
  ASSUME Typed, RowsKept, LonesKept, NEW s \in Sessions, session[s].pc \in Working,
         NEW next, Becomes(s, next), GoesOn(session[s], next), next.mine = session[s].mine,
         leads' = leads, raced \subseteq raced'
  PROVE  LonesKept'
  <1>1. next.user = session[s].user /\ next.lead = session[s].lead
    BY DEF GoesOn
  <1>2. session[s].lead \in LeadIds
    BY WorkingTyped
  <1>3. \A l \in LeadIds : View(next.mine, l) = Seen(s, l)
    BY SeenView
  <1>4. \A u : Stirs(next, u) => Stirs(session[s], u)
    BY <1>1 DEF Stirs
  <1>5. \A u \in Users \ raced : next.user = u => OpenOf(View(next.mine, next.lead), u)
    BY <1>1, <1>2, <1>3 DEF LonesKept, Lone
  <1> QED
    BY <1>1, <1>2, <1>3, <1>4, <1>5, LoneStay

LEMMA TurnLones ==
  ASSUME Typed, LonesKept, NEW s \in Sessions, NEW next, Becomes(s, next),
         next.pc \notin Working, next.mine = session[s].mine,
         leads' = leads, raced \subseteq raced'
  PROVE  LonesKept'
  <1>1. \A l \in LeadIds : View(next.mine, l) = Seen(s, l)
    BY SeenView
  <1>2. \A u : Stirs(next, u) => Stirs(session[s], u)
    BY DEF Stirs
  <1> QED
    BY <1>1, <1>2, LoneStay

(* A lead that is marked was open before.                                  *)
LEMMA MarkLones ==
  ASSUME Typed, RowsKept, LonesKept, NEW s \in Sessions, session[s].pc = "mark",
         NEW next, NEW row, Becomes(s, next), Turned(session[s], next),
         MarkedRow(s, row), next.mine = [session[s].mine EXCEPT ![session[s].lead] = row],
         leads' = leads, raced' = raced
  PROVE  LonesKept'
  <1> DEFINE me == session[s]
  <1>1. /\ me.lead \in LeadIds /\ me.pc \in Working /\ me.mine \in [LeadIds -> Lead]
        /\ me.row.user = me.user /\ me.user \in Users
    BY WorkingTyped, SessionTyped DEF Working, Session
  <1>2. next.pc \notin Working
    BY DEF Turned, Working
  <1>3. row.user = me.user /\ row # NoLead
    <2>1. Seen(s, me.lead) # NoLead /\ Same(Seen(s, me.lead), me.row)
      BY <1>1 DEF RowsKept
    <2>2. row.user = me.user
      BY <1>1, <2>1 DEF MarkedRow, Same
    <2> QED
      BY <1>1, <2>2, Constants, NoLeadUnrouted
  <1>4. \A l \in LeadIds :
          /\ View(next.mine, l) = IF l = me.lead THEN row ELSE Seen(s, l)
          /\ next.mine[l] = IF l = me.lead THEN row ELSE me.mine[l]
    BY <1>1, <1>3, SeenView DEF View
  <1>5. \A u : Stirs(next, u) => Stirs(me, u)
    BY <1>1, <1>2, <1>3, <1>4 DEF Stirs
  <1>6. ASSUME NEW u \in Users \ raced, NEW l \in LeadIds, OpenOf(View(next.mine, l), u)
        PROVE  OpenOf(Seen(s, l), u)
    <2>1. CASE l = me.lead
      <3>1. u = me.user
        BY <1>3, <1>4, <1>6, <2>1 DEF OpenOf
      <3> QED
        BY <1>1, <2>1, <3>1 DEF LonesKept, Lone
    <2>2. CASE l # me.lead
      BY <1>4, <1>6, <2>2
    <2> QED
      BY <2>1, <2>2
  <1> HIDE DEF me
  <1>7. me = session[s]
    BY DEF me
  <1> QED
    BY <1>2, <1>5, <1>6, <1>7, LoneStay

LEMMA CommitLones ==
  ASSUME Typed, RowsKept, LonesKept, NEW s \in Sessions, Commit(s)
  PROVE  LonesKept'
  <1>1. raced' = raced /\ session'[s].pc = "idle"
    BY CommitSeen, IdleTyped DEF Commit
  <1> SUFFICES ASSUME NEW u \in Users \ raced PROVE Lone(u)'
    BY <1>1 DEF LonesKept
  <1>2. Lone(u) /\ NoLead.user # u
    BY NoLeadUnrouted, Constants DEF LonesKept
  <1>3. ASSUME NEW l \in LeadIds, NEW k \in LeadIds, l # k
        PROVE  ~OpenOf(leads'[l], u) \/ ~OpenOf(leads'[k], u)
    BY <1>2, <1>3, CommitSeen DEF Lone
  (* A session that is at the user's leads sees them as before: the one    *)
  (* that commits wrote none of them.                                      *)
  <1>4. ASSUME NEW t \in Sessions \ {s}, Stirs(session[t], u), NEW l \in LeadIds
        PROVE  OpenOf(Seen(t, l)', u) <=> OpenOf(Seen(t, l), u)
    <2>1. \A k \in LeadIds : session[s].mine[k].user # u
      BY <1>2, <1>4 DEF Lone, Stirs
    <2>2. CASE Holds(t, l)
      BY <2>2, CommitSeen
    <2>3. CASE ~Holds(t, l)
      <3>1. Seen(t, l)' = Seen(s, l) /\ Seen(t, l) = leads[l]
        BY <2>3, CommitSeen, WroteMeans DEF Holds
      <3>2. CASE Holds(s, l)
        <4>1. Seen(s, l) = session[s].mine[l]
          BY <3>2, WroteMeans DEF Holds
        <4>2. leads[l] = NoLead \/ leads[l].user = session[s].mine[l].user
          BY <3>2 DEF RowsKept, Same
        <4> QED
          BY <1>2, <2>1, <3>1, <4>1, <4>2 DEF OpenOf
      <3>3. CASE ~Holds(s, l)
        BY <3>1, <3>3, WroteMeans DEF Holds
      <3> QED
        BY <3>2, <3>3
    <2> QED
      BY <2>2, <2>3
  (* Any other sees what was committed.                                    *)
  <1>5. ASSUME NEW t \in Sessions \ {s}, ~Stirs(session[t], u), NEW l \in LeadIds,
               OpenOf(Seen(t, l)', u)
        PROVE  OpenOf(Seen(s, l), u)
    <2>1. session[t].mine[l].user # u
      BY <1>5 DEF Stirs
    <2>2. ~Holds(t, l)
      BY <1>5, <2>1, CommitSeen DEF OpenOf
    <2> QED
      BY <1>5, <2>2, CommitSeen
  <1>6. ASSUME NEW t \in Sessions, NEW l \in LeadIds, NEW k \in LeadIds, l # k
        PROVE  ~OpenOf(Seen(t, l)', u) \/ ~OpenOf(Seen(t, k)', u)
    <2>1. CASE t = s
      BY <1>2, <1>6, <2>1, CommitSeen DEF Lone
    <2>2. CASE t # s /\ Stirs(session[t], u)
      <3>1. ~OpenOf(Seen(t, l), u) \/ ~OpenOf(Seen(t, k), u)
        BY <1>2, <1>6 DEF Lone
      <3> QED
        BY <1>4, <2>2, <3>1
    <2>3. CASE t # s /\ ~Stirs(session[t], u)
      <3>1. ~OpenOf(Seen(s, l), u) \/ ~OpenOf(Seen(s, k), u)
        BY <1>2, <1>6 DEF Lone
      <3> QED
        BY <1>5, <2>3, <3>1
    <2> QED
      BY <2>1, <2>2, <2>3
  <1>7. ASSUME NEW t \in Sessions, session'[t].pc \in Working, session'[t].user = u
        PROVE  OpenOf(Seen(t, session[t].lead)', u)
    <2>1. t # s /\ session'[t] = session[t]
      BY <1>1, <1>7, CommitSeen DEF Working
    <2>2. Stirs(session[t], u)
      BY <1>7, <2>1 DEF Stirs
    <2>3. PICK l \in LeadIds : l = session[t].lead
      BY <1>7, <2>1, WorkingTyped
    <2>4. OpenOf(Seen(t, l), u)
      BY <1>2, <1>7, <2>1, <2>3 DEF Lone
    <2>5. session'[t].lead = l
      BY <2>1, <2>3
    <2>6. OpenOf(Seen(t, l)', u)
      BY <1>4, <2>1, <2>2, <2>4
    <2>7. Seen(t, session[t].lead)' = Seen(t, l)'
      BY <2>5 DEF Seen, Wrote
    <2> QED
      BY <2>6, <2>7
  <1>8. \A t \in Sessions \ {s} : Stirs(session[t], u)' <=> Stirs(session[t], u)
    BY CommitSeen DEF Stirs
  <1>9. ~Stirs(session[s], u)'
    BY <1>2, CommitSeen, IdleTyped DEF Stirs, Working
  <1>10. \A t, v \in Sessions : t = v \/ ~Stirs(session[t], u)' \/ ~Stirs(session[v], u)'
    BY <1>2, <1>8, <1>9 DEF Lone
  <1>11. \A l, k \in LeadIds : l = k \/ ~OpenOf(leads[l], u)' \/ ~OpenOf(leads[k], u)'
    BY <1>3 DEF OpenOf
  <1>12. \A t \in Sessions, l, k \in LeadIds :
          l = k \/ ~OpenOf(Seen(t, l), u)' \/ ~OpenOf(Seen(t, k), u)'
    BY <1>6 DEF OpenOf
  <1>13. \A t \in Sessions : (session[t].pc \in Working /\ session[t].user = u)' =>
           OpenOf(Seen(t, session[t].lead), u)'
    BY <1>7 DEF OpenOf
  <1> QED
    BY <1>10, <1>11, <1>12, <1>13 DEF Lone

(* A desk qualifies or closes a lead, and notes a session that was at its  *)
(* user's leads.                                                           *)
LEMMA OutcomeLones ==
  ASSUME Typed, RowsKept, LonesKept, NEW l \in LeadIds, NEW status \in {"qualified", "closed"},
         UpdateOutcome(l, status)
  PROVE  LonesKept'
  <1>1. /\ leads' = [leads EXCEPT ![l] = [leads[l] EXCEPT !.status = status]]
        /\ session' = session /\ raced \subseteq raced'
        /\ (\E s \in Sessions : leads[l].user \in Handles(s)) => leads[l].user \in raced'
        /\ \A s \in Sessions : l \notin Wrote(s)
    BY DEF UpdateOutcome
  <1>2. \A k \in LeadIds : \A u : OpenOf(leads'[k], u) <=> k # l /\ OpenOf(leads[k], u)
    BY <1>1 DEF Typed, TypeOK, Lead, OpenOf
  <1>3. ASSUME NEW s \in Sessions, NEW k \in LeadIds, NEW u
        PROVE  OpenOf(Seen(s, k)', u) <=> k # l /\ OpenOf(Seen(s, k), u)
    <2>1. CASE k \in Wrote(s)
      <3>1. Seen(s, k)' = Seen(s, k) /\ k # l
        BY <1>1, <2>1 DEF Seen, Wrote
      <3> QED
        BY <3>1
    <2>2. CASE k \notin Wrote(s)
      <3>1. Seen(s, k)' = leads'[k] /\ Seen(s, k) = leads[k]
        BY <1>1, <2>2 DEF Seen, Wrote
      <3> QED
        BY <1>2, <3>1
    <2> QED
      BY <2>1, <2>2
  <1> SUFFICES ASSUME NEW u \in Users \ raced' PROVE Lone(u)'
    BY DEF LonesKept
  <1>4. Lone(u)
    BY <1>1 DEF LonesKept
  <1>5. ASSUME NEW s \in Sessions, session[s].pc \in Working, session[s].user = u
        PROVE  OpenOf(Seen(s, session[s].lead)', u)
    <2>1. PICK k \in LeadIds : k = session[s].lead
      BY <1>5, WorkingTyped
    <2>2. OpenOf(Seen(s, k), u)
      BY <1>4, <1>5, <2>1 DEF Lone
    <2>3. k # l
      <3>1. ASSUME k = l PROVE FALSE
        <4>1. leads[l].user = u
          BY <1>1, <2>2, <3>1 DEF OpenOf, Seen
        <4>2. u \in Handles(s)
          BY <1>5, StirsHandles DEF Stirs
        <4> QED
          BY <1>1, <4>1, <4>2
      <3> QED
        BY <3>1
    <2>4. OpenOf(Seen(s, k)', u)
      BY <1>3, <2>2, <2>3
    <2>5. Seen(s, session[s].lead)' = Seen(s, k)'
      BY <1>1, <2>1 DEF Seen, Wrote
    <2> QED
      BY <2>4, <2>5
  <1>6. \A k, j \in LeadIds : k = j \/ ~OpenOf(leads[k], u)' \/ ~OpenOf(leads[j], u)'
    BY <1>2, <1>4 DEF Lone, OpenOf
  <1>7. \A s \in Sessions, k, j \in LeadIds :
          k = j \/ ~OpenOf(Seen(s, k)', u) \/ ~OpenOf(Seen(s, j)', u)
    BY <1>3, <1>4 DEF Lone
  <1>8. \A s \in Sessions, k, j \in LeadIds :
          k = j \/ ~OpenOf(Seen(s, k), u)' \/ ~OpenOf(Seen(s, j), u)'
    BY <1>7 DEF OpenOf
  <1>9. \A s, t \in Sessions : s = t \/ ~Stirs(session[s], u)' \/ ~Stirs(session[t], u)'
    BY <1>1, <1>4 DEF Lone, Stirs
  <1>10. \A s \in Sessions : (session[s].pc \in Working /\ session[s].user = u)' =>
           OpenOf(Seen(s, session[s].lead), u)'
    BY <1>1, <1>5 DEF OpenOf
  <1> QED
    BY <1>6, <1>8, <1>9, <1>10 DEF Lone

LEMMA StepsLones ==
  ASSUME Typed, RowsKept, AskedKept, LonesKept, NEW s \in Sessions, Step(s)
  PROVE  LonesKept'
  <1> DEFINE me == session[s]
  <1>1. CASE \/ StartHourly(s) \/ StartRetention(s) \/ FailSession(s) \/ DeleteExpired(s)
             \/ \E user \in Users : StartDeepDive(s, user)
    <2>1. leads' = leads /\ raced' = raced
      BY <1>1 DEF StartHourly, StartRetention, FailSession, DeleteExpired, StartDeepDive,
                  base, histories
    <2>2. PICK next : /\ Becomes(s, next) /\ next.pc \notin Working
                      /\ \A l \in LeadIds : next.mine[l] = NoLead
      <3>1. CASE StartHourly(s) \/ StartRetention(s) \/ \E user \in Users : StartDeepDive(s, user)
        BY <3>1, StartHourlyMeans, StartRetentionMeans, StartDeepDiveMeans DEF Started, Working
      <3>2. CASE FailSession(s) \/ DeleteExpired(s)
        BY <3>2, IdleTyped DEF FailSession, DeleteExpired, Working
      <3> QED
        BY <1>1, <3>1, <3>2
    <2> QED
      BY <2>1, <2>2, LoneDrop
  <1>2. CASE AskDeepDive(s)
    <2>1. leads' = leads /\ raced' = raced
      BY <1>2 DEF AskDeepDive, base, histories
    <2>2. PICK next : Becomes(s, next) /\ next.mine = me.mine /\ next.pc = "user"
      BY <1>2, AskDeepDiveMeans
    <2>3. next.pc \notin Working
      BY <2>2 DEF Working
    <2> QED
      BY <2>1, <2>2, <2>3, TurnLones
  <1>3. CASE CheckRoute(s)
    <2>1. leads' = leads /\ raced \subseteq raced' /\ me.pc \in Working
      BY <1>3 DEF CheckRoute, base, Working
    <2>2. \/ \E next : Becomes(s, next) /\ GoesOn(me, next) /\ next.mine = me.mine
          \/ \E next : Becomes(s, next) /\ Turned(me, next) /\ next.mine = me.mine
      BY <1>3, CheckRouteMeans
    <2>3. CASE \E next : Becomes(s, next) /\ GoesOn(me, next) /\ next.mine = me.mine
      BY <2>1, <2>3, SendLones
    <2>4. CASE \E next : Becomes(s, next) /\ Turned(me, next) /\ next.mine = me.mine
      BY <2>1, <2>4, TurnLones DEF Turned, Working
    <2> QED
      BY <2>2, <2>3, <2>4
  <1>4. CASE SendMail(s) \/ PostWebhook(s)
    <2>1. leads' = leads /\ raced \subseteq raced' /\ me.pc \in Working
      BY <1>4 DEF SendMail, PostWebhook, base, Working
    <2>2. PICK next : Becomes(s, next) /\ GoesOn(me, next) /\ next.mine = me.mine
      BY <1>4, SendMailMeans, PostWebhookMeans
    <2> QED
      BY <2>1, <2>2, SendLones
  <1>5. CASE MarkRouted(s)
    <2>1. leads' = leads /\ raced' = raced
      BY <1>5 DEF MarkRouted, base, histories
    <2> QED
      BY <1>5, <2>1, MarkRoutedMeans, MarkLones
  <1> QED
    BY <1>1, <1>2, <1>3, <1>4, <1>5, ScoreLones, FlushLones, CommitLones DEF Step

(* A user has one open lead at a time, for any number of sessions, unless  *)
(* two sessions, or a session and a desk that closes the lead or the       *)
(* user's own choice, were at the user's leads at once.                    *)
THEOREM UsersHaveOneOpenLead == Spec => []OneOpenLead
  <1>1. Typed /\ RowsKept /\ AskedKept /\ LonesKept /\ [Next]_vars => LonesKept'
    <2> SUFFICES ASSUME Typed, RowsKept, AskedKept, LonesKept, [Next]_vars PROVE LonesKept'
      OBVIOUS
    <2>1. CASE UNCHANGED vars \/ Tick \/ Visit
      <3>1. leads' = leads /\ session' = session /\ raced \subseteq raced'
        BY <2>1 DEF vars, Tick, Visit, IngestEvent, MergeHistory, PrivacyDelete,
                    PrivacyPreference, base, histories
      <3>2. ASSUME NEW u, Lone(u) PROVE Lone(u)'
        BY <3>1, <3>2 DEF Lone, Stirs, OpenOf, Seen, Wrote
      <3> QED
        BY <3>1, <3>2 DEF LonesKept
    <2> QED
      BY <2>1, StepsLones, OutcomeLones DEF Next
  <1>2. Typed /\ RowsKept /\ LonesKept => OneOpenLead
    <2> SUFFICES ASSUME Typed, RowsKept, LonesKept, NEW l \in LeadIds, NEW k \in LeadIds,
                        l # k, leads[l].user = leads[k].user, leads[l].user \notin raced,
                        leads[l].status \in {"new", "routed"},
                        leads[k].status \in {"new", "routed"}
                 PROVE  FALSE
      BY DEF OneOpenLead
    <2>1. leads[l] # NoLead /\ leads[l].user \in Users
      BY NoLeadUnrouted DEF RowsKept, Proper
    <2>2. Lone(leads[l].user)
      BY <2>1 DEF LonesKept
    <2> QED
      BY <2>2 DEF Lone, OpenOf
  <1> QED
    BY <1>1, <1>2, InitLones, TypedAlways, RowsAlways, AskedAlways, PTL DEF Spec
=============================================================================
