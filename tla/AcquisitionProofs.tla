------------------------- MODULE AcquisitionProofs -------------------------
(***************************************************************************)
(* Theorems about Acquisition, for any registry, companies, artifacts,     *)
(* answers of the portal, numbers of overlapping sessions, and any bounds. *)
(***************************************************************************)
EXTENDS Acquisition, LeastElements, SequenceTheorems

-----------------------------------------------------------------------------
(* What a batch selects *)

LEMMA RegistryTyped ==
  /\ Registry \in Seq(Companies)
  /\ Len(Registry) \in Nat
  /\ DOMAIN Registry = 1..Len(Registry)
  /\ \A i \in 1..Len(Registry) : Registry[i] \in Companies
  <1>1. Registry \in Seq(Companies)
    BY AcquisitionAssumption
  <1> QED
    BY <1>1, LenProperties, ElementOfSeq

(* Known up to the first n companies.                                      *)
IsKnown(f, n) ==
    f = [i \in 0..n |->
            IF i = 0 THEN << >>
            ELSE IF companies[Registry[i]] = "absent" THEN f[i - 1]
            ELSE Append(f[i - 1], Registry[i])]

LEMMA KnownExists ==
  ASSUME NEW n \in 0..Len(Registry)
  PROVE  \E f \in [0..n -> Seq(Companies)] : IsKnown(f, n)
  <1> DEFINE Exists(m) == \E f \in [0..m -> Seq(Companies)] : IsKnown(f, m)
             Missing == {m \in 0..Len(Registry) : ~Exists(m)}
  <1> SUFFICES ASSUME Missing # {} PROVE FALSE
    OBVIOUS
  <1>1. PICK m \in Missing : \A k \in Missing : m <= k
    <2>1. Missing \subseteq Nat
      OBVIOUS
    <2> HIDE DEF Missing
    <2> QED
      BY <2>1, LeastNatural
  <1>2. m \in 0..Len(Registry) /\ ~Exists(m)
    OBVIOUS
  <1>3. CASE m = 0
    <2> DEFINE f == [i \in 0..0 |-> << >>]
    <2>1. f \in [0..m -> Seq(Companies)] /\ IsKnown(f, m)
      BY <1>3, EmptySeq DEF IsKnown
    <2> QED
      BY <1>2, <2>1
  <1>4. CASE m # 0
    <2>1. m - 1 \in 0..Len(Registry) /\ m \in 1..Len(Registry) /\ m \in Nat
      BY <1>2, <1>4, RegistryTyped
    <2>2. PICK f \in [0..(m - 1) -> Seq(Companies)] : IsKnown(f, m - 1)
      <3>1. m - 1 \notin Missing
        <4> HIDE DEF Missing
        <4> QED
          BY <1>1, <2>1
      <3> QED
        BY <2>1, <3>1
    <2> DEFINE last == IF companies[Registry[m]] = "absent" THEN f[m - 1]
                       ELSE Append(f[m - 1], Registry[m])
               g == [i \in 0..m |-> IF i = m THEN last ELSE f[i]]
    <2>3. last \in Seq(Companies)
      BY <2>1, RegistryTyped
    <2>4. g \in [0..m -> Seq(Companies)]
      <3> HIDE DEF last
      <3> QED
        BY <2>1, <2>3
    <2>5. IsKnown(g, m)
      <3>1. ASSUME NEW i \in 0..m
            PROVE  g[i] = IF i = 0 THEN << >>
                          ELSE IF companies[Registry[i]] = "absent" THEN g[i - 1]
                          ELSE Append(g[i - 1], Registry[i])
        <4>1. CASE i = m
          <5>1. g[i] = last /\ i # 0
            BY <1>4, <4>1
          <5>2. g[i - 1] = f[m - 1]
            BY <2>1, <4>1
          <5> QED
            BY <4>1, <5>1, <5>2
        <4>2. CASE i # m
          <5>1. i \in 0..(m - 1) /\ g[i] = f[i]
            BY <2>1, <4>2
          <5>2. i # 0 => g[i - 1] = f[i - 1]
            BY <2>1, <4>2
          <5> HIDE DEF g
          <5>3. f[i] = IF i = 0 THEN << >>
                       ELSE IF companies[Registry[i]] = "absent" THEN f[i - 1]
                       ELSE Append(f[i - 1], Registry[i])
            BY <2>2, <5>1 DEF IsKnown
          <5> QED
            BY <5>1, <5>2, <5>3
        <4> QED
          BY <4>1, <4>2
      <3> QED
        BY <3>1 DEF IsKnown
    <2> QED
      BY <1>2, <2>4, <2>5
  <1> QED
    BY <1>3, <1>4

LEMMA KnownMeans ==
  ASSUME NEW i \in 0..Len(Registry)
  PROVE  Known[i] = IF i = 0 THEN << >>
                    ELSE IF companies[Registry[i]] = "absent" THEN Known[i - 1]
                    ELSE Append(Known[i - 1], Registry[i])
  <1>1. \E f : IsKnown(f, Len(Registry))
    <2>1. Len(Registry) \in 0..Len(Registry)
      BY RegistryTyped
    <2> QED
      BY <2>1, KnownExists
  <1>2. Known = CHOOSE f : IsKnown(f, Len(Registry))
    BY DEF Known, IsKnown
  <1>3. IsKnown(Known, Len(Registry))
    BY <1>1, <1>2
  <1> QED
    BY <1>3 DEF IsKnown

(* What is known of the registry is a part of it, companies with a row.    *)
LEMMA KnownTyped ==
  ASSUME NEW n \in 0..Len(Registry)
  PROVE  Known[n] \in Seq(Companies)
  <1> DEFINE Missing == {m \in 0..Len(Registry) : Known[m] \notin Seq(Companies)}
  <1> SUFFICES ASSUME Missing # {} PROVE FALSE
    OBVIOUS
  <1>1. PICK m \in Missing : \A k \in Missing : m <= k
    <2>1. Missing \subseteq Nat
      OBVIOUS
    <2> HIDE DEF Missing
    <2> QED
      BY <2>1, LeastNatural
  <1>2. m \in 0..Len(Registry) /\ Known[m] \notin Seq(Companies)
    OBVIOUS
  <1>3. CASE m = 0
    BY <1>2, <1>3, KnownMeans, EmptySeq
  <1>4. CASE m # 0
    <2>1. m - 1 \in 0..Len(Registry) /\ m \in 1..Len(Registry)
      BY <1>2, <1>4, RegistryTyped
    <2>2. m - 1 \notin Missing
      <3> HIDE DEF Missing
      <3> QED
        BY <1>1, <2>1
    <2>3. Known[m - 1] \in Seq(Companies)
      BY <2>1, <2>2
    <2> HIDE DEF Missing
    <2>4. Known[m] \in {Known[m - 1], Append(Known[m - 1], Registry[m])}
      BY <1>2, <1>4, KnownMeans
    <2>5. Append(Known[m - 1], Registry[m]) \in Seq(Companies)
      BY <2>1, <2>3, RegistryTyped, AppendProperties
    <2> QED
      BY <1>2, <2>3, <2>4, <2>5
  <1> QED
    BY <1>3, <1>4

(* A slice of the registry, in its order, and nothing beyond it.           *)
LEMMA SelectedMeans ==
  ASSUME NEW mode, NEW from \in Nat, NEW limit \in Nat
  PROVE  LET chosen == Selected(mode, from, limit) IN
         /\ chosen \in Seq(Companies)
         /\ Len(chosen) \in Nat
         /\ mode # "refresh" =>
               \A j \in 1..Len(chosen) : /\ from + j \in 1..Len(Registry)
                                         /\ chosen[j] = Registry[from + j]
  <1> DEFINE n == IF from + limit < Len(Registry) THEN from + limit ELSE Len(Registry)
             all == Known[Len(Registry)]
             m == IF limit < Len(all) THEN limit ELSE Len(all)
  <1>1. n \in Nat /\ n <= Len(Registry)
    BY RegistryTyped
  <1>2. CASE mode # "refresh"
    <2>1. Selected(mode, from, limit) = SubSeq(Registry, from + 1, n)
      BY <1>2 DEF Selected
    <2> HIDE DEF n
    <2>2. \A i \in (from + 1)..n : Registry[i] \in Companies
      BY <1>1, RegistryTyped
    <2>3. from + 1 \in Int /\ n \in Int
      BY <1>1
    <2>4. /\ SubSeq(Registry, from + 1, n) \in Seq(Companies)
          /\ Len(SubSeq(Registry, from + 1, n)) =
                IF from + 1 <= n THEN n - (from + 1) + 1 ELSE 0
          /\ \A i \in 1..(n - (from + 1) + 1) :
                SubSeq(Registry, from + 1, n)[i] = Registry[(from + 1) + i - 1]
      BY <2>2, <2>3, SubSeqProperties
    <2>5. \A j \in 1..Len(SubSeq(Registry, from + 1, n)) :
             /\ from + j \in 1..Len(Registry)
             /\ SubSeq(Registry, from + 1, n)[j] = Registry[from + j]
      <3> SUFFICES ASSUME NEW j \in 1..Len(SubSeq(Registry, from + 1, n))
                   PROVE  /\ from + j \in 1..Len(Registry)
                          /\ SubSeq(Registry, from + 1, n)[j] = Registry[from + j]
        OBVIOUS
      <3>1. from + 1 <= n /\ j \in 1..(n - (from + 1) + 1)
        BY <1>1, <2>4
      <3>2. (from + 1) + j - 1 = from + j
        BY <3>1
      <3> QED
        BY <1>1, <2>4, <3>1, <3>2, RegistryTyped
    <2>6. Len(SubSeq(Registry, from + 1, n)) \in Nat
      BY <2>4, LenProperties
    <2> QED
      BY <2>1, <2>4, <2>5, <2>6
  <1>3. CASE mode = "refresh"
    <2>1. Selected(mode, from, limit) = SubSeq(all, 1, m)
      BY <1>3 DEF Selected
    <2>2. all \in Seq(Companies) /\ Len(all) \in Nat
      <3>1. Len(Registry) \in 0..Len(Registry)
        BY RegistryTyped
      <3> QED
        BY <3>1, KnownTyped, LenProperties
    <2> HIDE DEF all
    <2>3. m \in Nat /\ m <= Len(all)
      BY <2>2
    <2> HIDE DEF m
    <2>4. \A i \in 1..m : all[i] \in Companies
      BY <2>2, <2>3, ElementOfSeq
    <2>5. SubSeq(all, 1, m) \in Seq(Companies)
      BY <2>3, <2>4, SubSeqProperties
    <2> QED
      BY <1>3, <2>1, <2>5, LenProperties
  <1> QED
    BY <1>2, <1>3

-----------------------------------------------------------------------------
(* Type correctness, with how far each session came: a session that works  *)
(* has a role, a batch is at the first company of those left to it, a      *)
(* session that stores has something to store, and the company of a task   *)
(* has a row.                                                              *)

Shaped(me) ==
    /\ me.role = "none" <=> me.pc \in {"idle", "aborted"}
    /\ me.pc = "company" => me.role = "batch"
    /\ me.role = "batch" /\ me.todo = << >> => me.pc = "company"
    /\ me.role = "batch" /\ me.todo # << >> => me.company = Head(me.todo)
    /\ me.pc \in {"fetch", "cursor"} => me.role = "task"
    /\ me.pc \in {"lookup", "put", "save", "write"} => me.content # NoContent

Typed ==
    /\ TypeOK
    /\ \A s \in Sessions :
          /\ Shaped(session[s])
          /\ session[s].role = "task" => companies[session[s].company] # "absent"

LEMMA SomeTyped ==
  /\ (CHOOSE c \in Companies : TRUE) \in Companies
  /\ (CHOOSE n \in Names : TRUE) \in Names
  BY AcquisitionAssumption

LEMMA BoundsTyped == MaxAttempts \in Nat /\ MaxAttempts >= 1 /\ MaxSessions \in Nat
  BY AcquisitionAssumption

LEMMA ContentsTyped ==
  NoContent \notin Contents /\ Brought \subseteq Contents /\ Instances \subseteq Contents
  BY AcquisitionAssumption

LEMMA KeysAreKeys ==
  ASSUME NEW k \in Key
  PROVE  k # NoKey /\ k.of \in Companies
  <1>1. DOMAIN k = {"of", "by", "name"}
    BY DEF Key
  <1>2. DOMAIN NoKey = {"of"}
    BY DEF NoKey
  <1> QED
    BY <1>1, <1>2 DEF Key

LEMMA NoFilingTyped ==
  /\ NoFiling \in Filing
  /\ NoFiling.status = "none" /\ NoFiling.raw = NoKey /\ NoFiling.checksum = NoContent
  BY DEF NoFiling, Filing

LEMMA IdleTyped == Idle \in Session /\ Shaped(Idle) /\ Idle.role = "none"
  <1>1. Idle \in Session
    BY SomeTyped, BoundsTyped, NoFilingTyped, EmptySeq DEF Idle, Session, Cursor
  <1>2. Shaped(Idle) /\ Idle.role = "none"
    BY DEF Idle, Shaped
  <1> QED
    BY <1>1, <1>2

LEMMA NoRunTyped == NoRun \in Run
  BY DEF NoRun, Run

(* The run of a batch that sets out.                                       *)
Started(chosen) ==
    [NoRun EXCEPT !.status = "running", !.discovered = Len(chosen), !.selected = Range(chosen)]

LEMMA StartedTyped ==
  ASSUME NEW chosen \in Seq(Companies)
  PROVE  LET new == Started(chosen) IN
         /\ new \in Run
         /\ new.status = "running" /\ new.discovered = Len(chosen)
         /\ new.parsed = 0 /\ new.missing = 0 /\ new.fetched = 0
         /\ \A c : c \in new.selected <=> \E j \in 1..Len(chosen) : chosen[j] = c
  <1>1. PICK n \in Nat : n = Len(chosen)
    BY LenProperties
  <1>2. PICK S : S = Range(chosen)
    OBVIOUS
  <1>3. \A c : c \in S <=> \E j \in 1..n : chosen[j] = c
    BY <1>1, <1>2, LenProperties DEF Range
  <1>4. S \in SUBSET Companies
    BY <1>1, <1>3, ElementOfSeq
  <1>5. Started(chosen) = [NoRun EXCEPT !.status = "running", !.discovered = n, !.selected = S]
    BY <1>1, <1>2 DEF Started
  <1>6. /\ Started(chosen) \in Run
        /\ Started(chosen).status = "running" /\ Started(chosen).discovered = n
        /\ Started(chosen).selected = S
        /\ Started(chosen).parsed = 0 /\ Started(chosen).missing = 0
        /\ Started(chosen).fetched = 0
    <2>1. NoRun \in Run /\ NoRun.parsed = 0 /\ NoRun.missing = 0 /\ NoRun.fetched = 0
      BY NoRunTyped DEF NoRun
    <2> QED
      BY <1>1, <1>4, <1>5, <2>1 DEF Run
  <1> QED
    BY <1>1, <1>3, <1>6

(* The counts of a run after one company more.                             *)
Counted(run) ==
    {[run EXCEPT !.missing = @ + 1], [run EXCEPT !.fetched = @ + 1, !.parsed = @ + 1]}

LEMMA CountedTyped ==
  ASSUME NEW run \in Run, NEW new \in Counted(run)
  PROVE  /\ new \in Run
         /\ new.status = run.status /\ new.discovered = run.discovered
         /\ new.selected = run.selected /\ new.settled = run.settled
         /\ \/ /\ new.missing = run.missing + 1 /\ new.parsed = run.parsed
               /\ new.fetched = run.fetched
            \/ /\ new.missing = run.missing /\ new.parsed = run.parsed + 1
               /\ new.fetched = run.fetched + 1
  <1>1. PICK m \in Nat, p \in Nat, f \in Nat :
          m = run.missing + 1 /\ p = run.parsed + 1 /\ f = run.fetched + 1
    BY DEF Run
  <1>2. \/ new = [run EXCEPT !.missing = m]
        \/ new = [run EXCEPT !.fetched = f, !.parsed = p]
    BY <1>1 DEF Counted
  <1>3. CASE new = [run EXCEPT !.missing = m]
    BY <1>1, <1>3 DEF Run
  <1>4. CASE new = [run EXCEPT !.fetched = f, !.parsed = p]
    BY <1>1, <1>4 DEF Run
  <1> QED
    BY <1>2, <1>3, <1>4

LEMMA SettlingTyped ==
  ASSUME NEW run \in Run, NEW c \in Companies, NEW row
  PROVE  LET new == Settling(run, c, row) IN
         /\ new \in Run
         /\ new.status = run.status /\ new.discovered = run.discovered
         /\ new.parsed = run.parsed /\ new.missing = run.missing /\ new.fetched = run.fetched
         /\ new.selected = run.selected /\ run.settled \subseteq new.settled
         /\ row.status \in {"parsed", "missing"} => c \in new.settled
  <1>1. PICK T \in SUBSET Companies : T = run.settled \cup {c}
    BY DEF Run
  <1>2. CASE row.status \in {"parsed", "missing"}
    <2>1. Settling(run, c, row) = [run EXCEPT !.settled = T]
      BY <1>1, <1>2 DEF Settling
    <2> QED
      BY <1>1, <2>1 DEF Run
  <1>3. CASE row.status \notin {"parsed", "missing"}
    BY <1>3 DEF Settling
  <1> QED
    BY <1>2, <1>3

(* What a batch's run becomes with the company it has just written.        *)
LEMMA RunsSettled ==
  ASSUME NEW s \in Sessions, RecordMissing(s) \/ WriteFacts(s), session[s].role = "batch"
  PROVE  \E run \in Counted(runs[s]) :
            runs' = [runs EXCEPT ![s] = Settling(run, session[s].company,
                                                 filings'[session[s].company])]
  <1>1. CASE RecordMissing(s)
    <2>1. PICK run : run = [runs[s] EXCEPT !.missing = @ + 1]
      OBVIOUS
    <2>2. Counts(s, run)
      BY <1>1, <2>1 DEF RecordMissing
    <2> QED
      BY <2>1, <2>2 DEF Counted, Counts
  <1>2. CASE WriteFacts(s)
    <2>1. PICK run : run = [runs[s] EXCEPT !.fetched = @ + 1, !.parsed = @ + 1]
      OBVIOUS
    <2>2. Counts(s, run)
      BY <1>2, <2>1 DEF WriteFacts
    <2> QED
      BY <2>1, <2>2 DEF Counted, Counts
  <1> QED
    BY <1>1, <1>2

LEMMA FlushedTyped ==
  ASSUME NEW row \in Filing, NEW seen \in Filing, NEW new \in Filing
  PROVE  LET f == Flushed(row, seen, new) IN
         /\ f \in Filing
         /\ f.status = IF new.status # seen.status THEN new.status ELSE row.status
         /\ f.raw = IF new.raw # seen.raw THEN new.raw ELSE row.raw
         /\ f.checksum = IF new.checksum # seen.checksum THEN new.checksum ELSE row.checksum
         /\ f.error = IF new.error # seen.error THEN new.error ELSE row.error
  <1>1. DOMAIN row = {"status", "raw", "checksum", "error"}
    BY DEF Filing
  <1> DEFINE f == Flushed(row, seen, new)
  <1>2. f = [k \in {"status", "raw", "checksum", "error"} |->
               IF new[k] # seen[k] THEN new[k] ELSE row[k]]
    BY <1>1 DEF Flushed
  <1>3. f = [status   |-> IF new.status # seen.status THEN new.status ELSE row.status,
             raw      |-> IF new.raw # seen.raw THEN new.raw ELSE row.raw,
             checksum |-> IF new.checksum # seen.checksum THEN new.checksum ELSE row.checksum,
             error    |-> IF new.error # seen.error THEN new.error ELSE row.error]
    BY <1>2
  <1> HIDE DEF f
  <1>4. f \in Filing
    BY <1>3 DEF Filing
  <1> QED
    BY <1>3, <1>4 DEF f

LEMMA WithStatusTyped ==
  ASSUME NEW row \in Filing, NEW status \in {"missing", "error"}
  PROVE  LET new == WithStatus(row, status) IN
         /\ new \in Filing
         /\ new.status = status /\ new.raw = row.raw /\ new.checksum = row.checksum
  <1>1. PICK wrong \in BOOLEAN : wrong = (status = "error")
    OBVIOUS
  <1>2. WithStatus(row, status) = [row EXCEPT !.status = status, !.error = wrong]
    BY <1>1, Zenon DEF WithStatus
  <1> QED
    BY <1>2 DEF Filing

LEMMA SeedTyped ==
  ASSUME NEW c \in Companies
  PROVE  SeedKey(c) \in Key /\ SeedKey(c).of = c
  BY SomeTyped DEF SeedKey, Key

LEMMA InitTyped == Init => Typed
  <1> SUFFICES ASSUME Init PROVE Typed
    OBVIOUS
  <1>1. PICK corpus \in Corpora :
          LET known == {c \in Companies : corpus[c] # NoContent} IN
          /\ companies = [c \in Companies |-> IF c \in known THEN "cin" ELSE "absent"]
          /\ filings = [c \in Companies |->
               IF c \in known
               THEN [status |-> "parsed", raw |-> SeedKey(c), checksum |-> corpus[c],
                     error |-> FALSE]
               ELSE NoFiling]
          /\ objects = [k \in Key |-> IF k.of \in known /\ k = SeedKey(k.of)
                                      THEN corpus[k.of] ELSE NoContent]
          /\ facts = [c \in Companies |->
               IF corpus[c] \in Instances THEN corpus[c] ELSE NoContent]
          /\ pages = [c \in Companies |->
               IF corpus[c] \in Instances THEN NoContent ELSE corpus[c]]
    BY DEF Init
  <1>2. corpus \in [Companies -> Contents \cup {NoContent}]
    BY AcquisitionAssumption
  <1>3. companies \in [Companies -> {"absent", "isin", "cin"}]
    BY <1>1
  <1>4. filings \in [Companies -> Filing]
    <2>1. ASSUME NEW c \in Companies
          PROVE  [status |-> "parsed", raw |-> SeedKey(c), checksum |-> corpus[c],
                  error |-> FALSE] \in Filing
      BY <1>2, SeedTyped DEF Filing
    <2> QED
      BY <1>1, <2>1, NoFilingTyped
  <1>5. objects \in [Key -> Contents \cup {NoContent}]
    BY <1>1, <1>2, KeysAreKeys
  <1>6. runs \in [Sessions -> Run] /\ session \in [Sessions -> Session]
    BY NoRunTyped, IdleTyped DEF Init
  <1>7. cursors \in [Companies -> Cursor] /\ offset \in Nat /\ opened \in 0..MaxSessions
    BY BoundsTyped DEF Init, Cursor
  <1>8. TypeOK
    BY <1>1, <1>2, <1>3, <1>4, <1>5, <1>6, <1>7 DEF Init, TypeOK
  <1>9. \A s \in Sessions : Shaped(session[s]) /\ session[s].role = "none"
    BY IdleTyped DEF Init, Idle
  <1> QED
    BY <1>8, <1>9 DEF Typed

LEMMA SessionTyped ==
  ASSUME Typed, NEW s \in Sessions
  PROVE  LET me == session[s] IN
         /\ me \in Session
         /\ Shaped(me)
         /\ me.company \in Companies
         /\ me.seen \in Filing
         /\ me.content \in Contents \cup {NoContent}
         /\ me.todo \in Seq(Companies)
         /\ me.offset \in Nat
         /\ filings[me.company] \in Filing
         /\ KeyOf(me) \in Key /\ KeyOf(me).of = me.company
         /\ runs[s] \in Run
  <1>1. session[s] \in Session /\ Shaped(session[s]) /\ runs[s] \in Run
    BY DEF Typed, TypeOK
  <1>2. KeyOf(session[s]) \in Key /\ KeyOf(session[s]).of = session[s].company
    BY <1>1 DEF KeyOf, Key, Session
  <1>3. session[s].company \in Companies
    BY <1>1 DEF Session
  <1>4. filings[session[s].company] \in Filing
    BY <1>3 DEF Typed, TypeOK
  <1> QED
    BY <1>1, <1>2, <1>3, <1>4 DEF Session

(* The states a session comes to.                                          *)
LEMMA MovesTyped ==
  ASSUME Typed, NEW s \in Sessions, NEW q \in Session, Shaped(q), Becomes(s, q),
         companies' \in [Companies -> {"absent", "isin", "cin"}],
         \A c \in Companies : companies[c] # "absent" => companies'[c] # "absent",
         q.role = "task" => companies[q.company] # "absent",
         filings' \in [Companies -> Filing],
         objects' \in [Key -> Contents \cup {NoContent}],
         facts' \in [Companies -> Instances \cup {NoContent}],
         pages' \in [Companies -> (Contents \ Instances) \cup {NoContent}],
         offset' \in Nat, skipped' \in SUBSET Nat,
         cursors' \in [Companies -> Cursor], runs' \in [Sessions -> Run],
         opened' \in 0..MaxSessions, disturbed' \in SUBSET Companies
  PROVE  Typed'
  <1>1. session' \in [Sessions -> Session]
    BY DEF Typed, TypeOK, Becomes
  <1>2. TypeOK'
    BY <1>1 DEF TypeOK
  <1>3. ASSUME NEW t \in Sessions
        PROVE  /\ Shaped(session'[t])
               /\ session'[t].role = "task" => companies'[session'[t].company] # "absent"
    BY DEF Becomes, Typed, TypeOK, Session
  <1> QED
    BY <1>2, <1>3 DEF Typed, Shaped

(* The next company of a batch, or its end.                                *)
NextCompany(me) ==
    LET next == [Idle EXCEPT !.role = "batch", !.pc = "company", !.todo = Tail(me.todo),
                             !.mode = me.mode, !.offset = me.offset]
    IN  IF Tail(me.todo) = << >> THEN next ELSE [next EXCEPT !.company = Head(Tail(me.todo))]

LEMMA OnwardMeans ==
  ASSUME NEW s \in Sessions, Onward(s)
  PROVE  /\ Becomes(s, NextCompany(session[s]))
         /\ IF Tail(session[s].todo) = << >>
            THEN UNCHANGED disturbed
            ELSE Enter(s, Head(Tail(session[s].todo)))
  BY DEF Onward, NextCompany

LEMMA NextCompanyTyped ==
  ASSUME NEW me \in Session, me.todo # << >>
  PROVE  LET next == NextCompany(me) IN
         /\ next \in Session /\ Shaped(next)
         /\ next.role = "batch" /\ next.pc = "company"
         /\ next.todo = Tail(me.todo) /\ Len(next.todo) = Len(me.todo) - 1
         /\ \A j \in 1..Len(next.todo) : next.todo[j] = me.todo[j + 1]
         /\ next.mode = me.mode /\ next.offset = me.offset
         /\ next.seen = NoFiling /\ next.content = NoContent
         /\ next.todo # << >> => next.company = Head(next.todo)
  <1> DEFINE rest == Tail(me.todo)
             at == IF rest = << >> THEN Idle.company ELSE Head(rest)
             base == [Idle EXCEPT !.role = "batch", !.pc = "company", !.todo = rest,
                                  !.mode = me.mode, !.offset = me.offset]
  <1>1. me.todo \in Seq(Companies) /\ me.offset \in Nat
        /\ me.mode \in {"initial", "next", "refresh"}
    BY DEF Session
  <1>2. /\ rest \in Seq(Companies) /\ Len(rest) = Len(me.todo) - 1
        /\ \A j \in 1..Len(rest) : rest[j] = me.todo[j + 1]
    BY <1>1, HeadTailProperties
  <1>3. at \in Companies
    BY <1>2, IdleTyped, HeadTailProperties DEF Session
  <1>4. NextCompany(me) = IF rest = << >> THEN base ELSE [base EXCEPT !.company = at]
    BY DEF NextCompany
  <1>5. (rest # << >> => at = Head(rest)) /\ (rest = << >> => at = Idle.company)
    OBVIOUS
  <1> HIDE DEF rest, at
  <1> DEFINE next == NextCompany(me)
  <1>6. /\ next \in Session /\ next.role = "batch" /\ next.pc = "company" /\ next.todo = rest
        /\ next.mode = me.mode /\ next.offset = me.offset /\ next.company = at
        /\ next.seen = Idle.seen /\ next.content = Idle.content
    <2>1. /\ base \in Session /\ base.role = "batch" /\ base.pc = "company" /\ base.todo = rest
          /\ base.mode = me.mode /\ base.offset = me.offset /\ base.company = Idle.company
          /\ base.seen = Idle.seen /\ base.content = Idle.content
      BY ZenonT(60), <1>1, <1>2, IdleTyped DEF Session
    <2> HIDE DEF base
    <2>2. CASE rest = << >>
      BY <1>4, <1>5, <2>1, <2>2
    <2>3. CASE rest # << >>
      <3>1. next = [base EXCEPT !.company = at]
        BY <1>4, <2>3
      <3> HIDE DEF next
      <3> QED
        BY <1>3, <2>1, <3>1 DEF Session
    <2> QED
      BY <2>2, <2>3
  <1>7. Idle.seen = NoFiling /\ Idle.content = NoContent
    BY DEF Idle
  <1> HIDE DEF next
  <1>8. Shaped(next)
    BY <1>5, <1>6 DEF Shaped
  <1> QED
    BY <1>2, <1>5, <1>6, <1>7, <1>8 DEF next, rest

(* What a session becomes when it is done.                                 *)
Finished(me) == IF me.role = "batch" THEN NextCompany(me) ELSE Idle

LEMMA DoneMeans ==
  ASSUME Typed, NEW s \in Sessions, session[s].pc # "company", Done(s)
  PROVE  /\ Becomes(s, Finished(session[s]))
         /\ Finished(session[s]) \in Session /\ Shaped(Finished(session[s]))
         /\ session[s].role = "batch" => session[s].todo # << >>
         /\ disturbed \subseteq disturbed' /\ disturbed' \in SUBSET Companies
  <1> DEFINE me == session[s]
  <1>1. me \in Session /\ Shaped(me) /\ disturbed \subseteq Companies
    BY SessionTyped DEF Typed, TypeOK
  <1>2. CASE me.role = "batch"
    <2>1. me.todo # << >>
      BY <1>1, <1>2 DEF Shaped
    <2>2. Becomes(s, NextCompany(me))
          /\ (UNCHANGED disturbed \/ (Tail(me.todo) # << >> /\ Enter(s, Head(Tail(me.todo)))))
      BY <1>2, OnwardMeans DEF Done
    <2>3. Tail(me.todo) # << >> => Head(Tail(me.todo)) \in Companies
      <3>1. Tail(me.todo) \in Seq(Companies)
        BY <1>1, <2>1, HeadTailProperties DEF Session
      <3> QED
        BY <3>1, HeadTailProperties
    <2>4. disturbed \subseteq disturbed' /\ disturbed' \in SUBSET Companies
      BY <1>1, <2>2, <2>3 DEF Enter
    <2> QED
      BY <1>1, <1>2, <2>1, <2>2, <2>4, NextCompanyTyped DEF Finished
  <1>3. CASE me.role # "batch"
    BY <1>1, <1>3, IdleTyped DEF Done, Finished
  <1> QED
    BY <1>2, <1>3

LEMMA LeaveMeans ==
  ASSUME Typed, NEW s \in Sessions, Leave(s)
  PROVE  /\ disturbed \subseteq disturbed'
         /\ disturbed' \in SUBSET Companies
         /\ session[s].pc = "save" => session[s].company \in disturbed'
  BY SessionTyped DEF Leave, Typed, TypeOK

LEMMA EnterMeans ==
  ASSUME Typed, NEW s \in Sessions, NEW c \in Companies, Enter(s, c)
  PROVE  /\ disturbed \subseteq disturbed'
         /\ disturbed' \in SUBSET Companies
         /\ \A t \in Sessions \ {s} : WorksOn(t, c) => c \in disturbed'
  BY DEF Enter, Typed, TypeOK

(* The opening of a session.                                               *)
LEMMA StartOffsetTyped ==
  ASSUME Typed, NEW mode \in {"initial", "next", "refresh"}, NEW start \in Starts
  PROVE  StartOffset(mode, start) \in Nat
  BY AcquisitionAssumption DEF StartOffset, Typed, TypeOK

FirstCompany(mode, from, chosen) ==
    [Idle EXCEPT !.role = "batch", !.pc = "company", !.mode = mode,
                 !.offset = from, !.todo = chosen,
                 !.company = IF chosen = << >> THEN @ ELSE Head(chosen)]

LEMMA StartBatchMeans ==
  ASSUME Typed, NEW s \in Sessions, NEW mode \in {"initial", "next", "refresh"},
         NEW limit \in Limits, NEW start \in Starts, StartBatch(s, mode, limit, start),
         NEW from, from = StartOffset(mode, start),
         NEW chosen, chosen = Selected(mode, from, limit)
  PROVE  /\ Becomes(s, FirstCompany(mode, from, chosen))
         /\ from \in Nat /\ limit \in Nat
         /\ chosen \in Seq(Companies) /\ Len(chosen) \in Nat
         /\ chosen # << >> => Head(chosen) \in Companies /\ Enter(s, Head(chosen))
         /\ disturbed \subseteq disturbed' /\ disturbed' \in SUBSET Companies
  <1>1. from \in Nat
    BY StartOffsetTyped
  <1>2. limit \in Nat
    BY AcquisitionAssumption
  <1>3. chosen \in Seq(Companies) /\ Len(chosen) \in Nat
    BY <1>1, <1>2, SelectedMeans
  <1>4. chosen # << >> => Head(chosen) \in Companies
    BY <1>3, HeadTailProperties
  <1>5. /\ Becomes(s, FirstCompany(mode, from, chosen))
        /\ chosen # << >> => Enter(s, Head(chosen))
        /\ chosen = << >> => disturbed' = disturbed
    BY DEF StartBatch, FirstCompany
  <1>6. disturbed \subseteq disturbed' /\ disturbed' \in SUBSET Companies
    <2>1. CASE chosen = << >>
      BY <1>5, <2>1 DEF Typed, TypeOK
    <2>2. CASE chosen # << >>
      BY <1>4, <1>5, <2>2, EnterMeans
    <2> QED
      BY <2>1, <2>2
  <1> QED
    BY <1>1, <1>2, <1>3, <1>4, <1>5, <1>6

LEMMA FirstCompanyTyped ==
  ASSUME NEW mode \in {"initial", "next", "refresh"}, NEW from \in Nat,
         NEW chosen \in Seq(Companies), NEW first, first = FirstCompany(mode, from, chosen)
  PROVE  /\ first \in Session /\ Shaped(first)
         /\ first.role = "batch" /\ first.pc = "company" /\ first.todo = chosen
         /\ first.mode = mode /\ first.offset = from
         /\ first.seen = NoFiling /\ first.content = NoContent
         /\ chosen # << >> => first.company = Head(chosen)
  <1> DEFINE at == IF chosen = << >> THEN Idle.company ELSE Head(chosen)
  <1>1. at \in Companies /\ (chosen # << >> => at = Head(chosen))
    BY IdleTyped, HeadTailProperties DEF Session
  <1>2. first = [Idle EXCEPT !.role = "batch", !.pc = "company", !.mode = mode,
                             !.offset = from, !.todo = chosen, !.company = at]
    BY DEF FirstCompany
  <1>3. Idle.seen = NoFiling /\ Idle.content = NoContent
    BY DEF Idle
  <1>9. Idle \in Session
    BY IdleTyped
  <1>4. /\ first \in Session /\ first.role = "batch" /\ first.pc = "company"
        /\ first.todo = chosen /\ first.mode = mode /\ first.offset = from
        /\ first.seen = NoFiling /\ first.content = NoContent /\ first.company = at
    <2> HIDE DEF at
    <2> QED
      BY ZenonT(60), <1>1, <1>2, <1>3, <1>9 DEF Session
  <1>5. Shaped(first)
    BY <1>1, <1>4 DEF Shaped
  <1> QED
    BY <1>1, <1>4, <1>5

LEMMA OpenMeans ==
  ASSUME Typed, NEW s \in Sessions, Open(s)
  PROVE  /\ opened' \in 0..MaxSessions
         /\ session[s].pc \in {"idle", "aborted"}
         /\ session[s].role = "none"
  BY SessionTyped, BoundsTyped DEF Open, Typed, TypeOK, Shaped

LEMMA BeginsTyped ==
  ASSUME Typed, NEW s \in Sessions, Begin(s)
  PROVE  Typed'
  <1>1. CASE \E mode \in {"initial", "next", "refresh"}, limit \in Limits, start \in Starts :
               StartBatch(s, mode, limit, start)
    <2>1. PICK mode \in {"initial", "next", "refresh"}, limit \in Limits, start \in Starts :
            StartBatch(s, mode, limit, start)
      BY <1>1
    <2> DEFINE from == StartOffset(mode, start)
               chosen == Selected(mode, from, limit)
               first == FirstCompany(mode, from, chosen)
    <2>2. /\ Becomes(s, first) /\ from \in Nat /\ chosen \in Seq(Companies)
          /\ Len(chosen) \in Nat /\ disturbed' \in SUBSET Companies
          /\ runs' = [runs EXCEPT ![s] = Started(chosen)]
      <3>1. from = StartOffset(mode, start) /\ chosen = Selected(mode, from, limit)
        OBVIOUS
      <3>2. first = FirstCompany(mode, from, chosen)
        OBVIOUS
      <3> HIDE DEF from, chosen, first
      <3> QED
        <4>1. /\ Becomes(s, first) /\ from \in Nat /\ chosen \in Seq(Companies)
              /\ Len(chosen) \in Nat /\ disturbed' \in SUBSET Companies
          BY <2>1, <3>1, <3>2, StartBatchMeans
        <4>2. runs' = [runs EXCEPT ![s] = Started(chosen)]
          BY <2>1, <3>1 DEF StartBatch, Started
        <4> QED
          BY <4>1, <4>2
    <2> HIDE DEF from, chosen
    <2>3. first \in Session /\ Shaped(first) /\ first.role = "batch"
      <3>1. from \in Nat /\ chosen \in Seq(Companies) /\ first = FirstCompany(mode, from, chosen)
        BY <2>2
      <3> HIDE DEF first
      <3> QED
        BY ONLY <3>1, FirstCompanyTyped, mode \in {"initial", "next", "refresh"}
    <2>4. runs' \in [Sessions -> Run]
      <3>1. Started(chosen) \in Run
        BY <2>2, StartedTyped
      <3> QED
        BY <2>2, <3>1 DEF Typed, TypeOK
    <2>5. skipped' \in SUBSET Nat
      <3>1. start # Default => start \in Nat
        BY AcquisitionAssumption
      <3> QED
        BY <2>1, <3>1 DEF StartBatch, Typed, TypeOK
    <2>6. opened' \in 0..MaxSessions
      BY <2>1, OpenMeans DEF StartBatch
    <2>7. UNCHANGED <<companies, filings, objects, facts, pages, offset, cursors>>
      BY <2>1 DEF StartBatch, stored
    <2> HIDE DEF first
    <2> QED
      BY <2>2, <2>3, <2>4, <2>5, <2>6, <2>7, MovesTyped DEF Typed, TypeOK
  <1>2. CASE \E c \in Touched : StartTask(s, c)
    <2>1. PICK c \in Touched : StartTask(s, c)
      BY <1>2
    <2> DEFINE next == [Idle EXCEPT !.role = "task", !.pc = "fetch", !.company = c]
    <2>2. c \in Companies
      BY AcquisitionAssumption
    <2>3. next \in Session /\ Shaped(next) /\ next.company = c
      BY <2>2, IdleTyped DEF Session, Shaped
    <2>4. /\ Becomes(s, next) /\ companies[c] # "absent"
          /\ UNCHANGED <<companies, filings, objects, facts, pages, offset, skipped, cursors, runs>>
      BY <2>1 DEF StartTask, stored
    <2>5. opened' \in 0..MaxSessions /\ disturbed' \in SUBSET Companies
      BY <2>1, <2>2, OpenMeans, EnterMeans DEF StartTask
    <2> HIDE DEF next
    <2> QED
      BY <2>3, <2>4, <2>5, MovesTyped DEF Typed, TypeOK
  <1>3. CASE \E c \in Touched : StartUpload(s, c)
    <2>1. PICK c \in Touched : StartUpload(s, c)
      BY <1>3
    <2>2. PICK name \in Names, content \in Brought :
            Becomes(s, [Idle EXCEPT !.role = "upload", !.pc = "lookup", !.company = c,
                                    !.by = companies[c], !.name = name,
                                    !.content = content])
      BY <2>1 DEF StartUpload
    <2> DEFINE next == [Idle EXCEPT !.role = "upload", !.pc = "lookup", !.company = c,
                                    !.by = companies[c], !.name = name,
                                    !.content = content]
    <2>3. c \in Companies /\ content \in Contents /\ content # NoContent
      BY AcquisitionAssumption
    <2>4. companies[c] \in {"isin", "cin"}
      BY <2>1, <2>3 DEF StartUpload, Typed, TypeOK
    <2>5. next \in Session /\ next.role = "upload" /\ next.pc = "lookup"
          /\ next.content = content
      BY <2>3, <2>4, IdleTyped DEF Session
    <2>6. Shaped(next)
      <3> HIDE DEF next
      <3> QED
        BY <2>3, <2>5 DEF Shaped
    <2>7. /\ Becomes(s, next)
          /\ UNCHANGED <<companies, filings, objects, facts, pages, offset, skipped, cursors, runs>>
      BY <2>1, <2>2 DEF StartUpload, stored
    <2>8. opened' \in 0..MaxSessions /\ disturbed' \in SUBSET Companies
      BY <2>1, <2>3, OpenMeans, EnterMeans DEF StartUpload
    <2> HIDE DEF next
    <2> QED
      BY <2>5, <2>6, <2>7, <2>8, MovesTyped DEF Typed, TypeOK
  <1>4. CASE \E c \in Touched : StartParse(s, c)
    <2>1. PICK c \in Touched : StartParse(s, c)
      BY <1>4
    <2> DEFINE next == [Idle EXCEPT !.role = "parse", !.pc = "read", !.company = c,
                                    !.seen = filings[c]]
    <2>2. c \in Companies
      BY AcquisitionAssumption
    <2>3. filings[c] \in Filing
      BY <2>2 DEF Typed, TypeOK
    <2>4. next \in Session /\ Shaped(next) /\ next.role = "parse"
      BY <2>2, <2>3, IdleTyped DEF Session, Shaped
    <2>5. /\ Becomes(s, next)
          /\ UNCHANGED <<companies, filings, objects, facts, pages, offset, skipped, cursors, runs>>
      BY <2>1 DEF StartParse, stored
    <2>6. opened' \in 0..MaxSessions /\ disturbed' \in SUBSET Companies
      BY <2>1, <2>2, OpenMeans, EnterMeans DEF StartParse
    <2> HIDE DEF next
    <2> QED
      BY <2>4, <2>5, <2>6, MovesTyped DEF Typed, TypeOK
  <1> QED
    BY <1>1, <1>2, <1>3, <1>4 DEF Begin

LEMMA FailsTyped ==
  ASSUME Typed, NEW s \in Sessions, Fails(s) \/ Crash(s)
  PROVE  Typed'
  <1> DEFINE me == session[s]
  <1>1. /\ me \in Session /\ Shaped(me) /\ me.company \in Companies
        /\ filings[me.company] \in Filing /\ me.todo \in Seq(Companies)
    BY SessionTyped
  <1>2. CASE FailBatch(s)
    <2> DEFINE next == [Idle EXCEPT !.pc = "aborted", !.todo = me.todo]
    <2>1. next \in Session /\ next.pc = "aborted" /\ next.role = Idle.role
      BY <1>1, IdleTyped DEF Session
    <2>2. Shaped(next)
      <3> HIDE DEF next
      <3> QED
        BY <2>1, IdleTyped DEF Shaped
    <2>3. /\ Becomes(s, next) /\ Leave(s)
          /\ UNCHANGED <<companies, filings, objects, facts, pages, offset, skipped, cursors, runs,
                        opened>>
      BY <1>2 DEF FailBatch, stored
    <2>4. disturbed' \in SUBSET Companies
      BY <2>3, LeaveMeans
    <2> HIDE DEF next
    <2> QED
      BY <2>1, <2>2, <2>3, <2>4, IdleTyped, MovesTyped DEF Typed, TypeOK
  <1>3. CASE FailTask(s)
    <2> DEFINE next == Retried(me)
    <2>1. me.attempt < MaxAttempts =>
            next \in Session /\ Shaped(next) /\ next.company = me.company
      <3> SUFFICES ASSUME me.attempt < MaxAttempts
                   PROVE  next \in Session /\ Shaped(next) /\ next.company = me.company
        OBVIOUS
      <3>1. me.attempt + 1 \in 1..MaxAttempts
        BY <1>1, BoundsTyped DEF Session
      <3>2. /\ next \in Session /\ next.role = "task" /\ next.pc = "fetch"
            /\ next.company = me.company
        BY <1>1, <3>1, IdleTyped DEF Session, Retried
      <3> HIDE DEF next
      <3> QED
        BY <3>2 DEF Shaped
    <2>2. filings' \in [Companies -> Filing]
      <3>1. WithStatus(filings[me.company], "error") \in Filing
        BY <1>1, WithStatusTyped
      <3> QED
        BY <1>1, <1>3, <3>1 DEF FailTask, Typed, TypeOK
    <2>3. \/ Becomes(s, next) /\ me.attempt < MaxAttempts
          \/ Becomes(s, Idle)
      BY <1>3 DEF FailTask
    <2>4. /\ me.role = "task" /\ Leave(s)
          /\ UNCHANGED <<companies, objects, facts, pages, offset, skipped, cursors, runs, opened>>
      BY <1>3 DEF FailTask
    <2>5. disturbed' \in SUBSET Companies
      BY <2>4, LeaveMeans
    <2>6. companies[me.company] # "absent"
      BY <2>4 DEF Typed
    <2> HIDE DEF next
    <2>7. CASE Becomes(s, next) /\ me.attempt < MaxAttempts
      BY <2>1, <2>2, <2>4, <2>5, <2>6, <2>7, MovesTyped DEF Typed, TypeOK
    <2>8. CASE Becomes(s, Idle)
      BY <2>2, <2>4, <2>5, <2>8, IdleTyped, MovesTyped DEF Typed, TypeOK
    <2> QED
      BY <2>3, <2>7, <2>8
  <1>4. CASE FailRequest(s) \/ Crash(s)
    <2>1. /\ Becomes(s, Idle) /\ Leave(s)
          /\ UNCHANGED <<companies, filings, objects, facts, pages, offset, skipped, cursors, runs,
                        opened>>
      BY <1>4 DEF FailRequest, Crash, stored
    <2>2. disturbed' \in SUBSET Companies
      BY <2>1, LeaveMeans
    <2> QED
      BY <2>1, <2>2, IdleTyped, MovesTyped DEF Typed, TypeOK
  <1> QED
    BY <1>2, <1>3, <1>4 DEF Fails

(* What the portal lists has a name and an artifact.                       *)
LEMMA ListedTyped ==
  ASSUME NEW c \in Companies, NEW listing \in Listings[c], NEW item \in Latest(listing)
  PROVE  item.name \in Names /\ item.content \in Contents /\ item.content # NoContent
  <1>1. listing \subseteq Item
    <2>1. Listings \in [Companies -> SUBSET SUBSET Item]
      BY AcquisitionAssumption
    <2> QED
      BY <2>1
  <1>2. item \in Item
    BY <1>1 DEF Latest, Candidates
  <1> QED
    BY <1>2, ContentsTyped DEF Item

(* The states a session of the next steps comes to: what it loaded or      *)
(* fetched is noted, and the rest of it stays.                             *)
LEMMA RegisterMeans ==
  ASSUME Typed, NEW s \in Sessions, RegisterCompany(s)
  PROVE  \E q \in Session :
           /\ Becomes(s, q) /\ Shaped(q)
           /\ q.role = session[s].role /\ q.todo = session[s].todo
           /\ q.mode = session[s].mode /\ q.offset = session[s].offset
           /\ q.company = session[s].company /\ q.pc \in {"missing", "lookup"}
           /\ q.seen = session[s].seen
           /\ session[s].role = "batch" /\ session[s].pc = "company"
           /\ session[s].todo # << >>
           /\ companies' \in [Companies -> {"absent", "isin", "cin"}]
  <1> DEFINE me == session[s]
             by == IF companies[me.company] = "absent" THEN "isin" ELSE companies[me.company]
  <1>1. /\ me \in Session /\ Shaped(me) /\ me.company \in Companies
        /\ me.role = "batch" /\ me.pc = "company" /\ me.todo # << >>
    BY SessionTyped DEF RegisterCompany
  <1>2. by \in {"isin", "cin"}
    BY <1>1 DEF Typed, TypeOK
  <1>3. companies' = [companies EXCEPT ![me.company] = by]
    BY DEF RegisterCompany
  <1>4. PICK listing \in Listings[me.company] :
          \/ Becomes(s, [me EXCEPT !.pc = "missing", !.by = by])
          \/ \E item \in Latest(listing) :
               Becomes(s, [me EXCEPT !.pc = "lookup", !.by = by, !.name = item.name,
                                     !.content = item.content])
    BY DEF RegisterCompany
  <1> HIDE DEF by
  <1>5. companies' \in [Companies -> {"absent", "isin", "cin"}]
    BY <1>1, <1>2, <1>3 DEF Typed, TypeOK
  <1>6. CASE Becomes(s, [me EXCEPT !.pc = "missing", !.by = by])
    <2> DEFINE next == [me EXCEPT !.pc = "missing", !.by = by]
    <2> HIDE DEF me
    <2>1. /\ next \in Session /\ next.pc = "missing" /\ next.role = me.role
          /\ next.todo = me.todo /\ next.mode = me.mode /\ next.offset = me.offset
          /\ next.company = me.company /\ next.seen = me.seen
      BY <1>1, <1>2 DEF Session
    <2>2. Becomes(s, next)
      BY <1>6
    <2> HIDE DEF next
    <2>3. Shaped(next)
      BY <1>1, <2>1 DEF Shaped
    <2> QED
      BY <1>1, <1>5, <2>1, <2>2, <2>3 DEF me
  <1>7. CASE \E item \in Latest(listing) :
               Becomes(s, [me EXCEPT !.pc = "lookup", !.by = by, !.name = item.name,
                                     !.content = item.content])
    <2>1. PICK item \in Latest(listing) :
            Becomes(s, [me EXCEPT !.pc = "lookup", !.by = by, !.name = item.name,
                                  !.content = item.content])
      BY <1>7
    <2>2. item.name \in Names /\ item.content \in Contents /\ item.content # NoContent
      BY <1>1, ListedTyped
    <2> DEFINE next == [me EXCEPT !.pc = "lookup", !.by = by, !.name = item.name,
                                  !.content = item.content]
    <2> HIDE DEF me
    <2>3. /\ next \in Session /\ next.pc = "lookup" /\ next.role = me.role
          /\ next.todo = me.todo /\ next.mode = me.mode /\ next.offset = me.offset
          /\ next.company = me.company /\ next.seen = me.seen /\ next.content = item.content
      BY <1>1, <1>2, <2>2 DEF Session
    <2>4. Becomes(s, next)
      BY <2>1
    <2> HIDE DEF next
    <2>5. Shaped(next)
      BY <1>1, <2>2, <2>3 DEF Shaped
    <2> QED
      BY <1>1, <1>5, <2>3, <2>4, <2>5 DEF me
  <1> QED
    BY <1>4, <1>6, <1>7

(* A session that goes on with the company it is at.                       *)
LEMMA GoesOnTyped ==
  ASSUME NEW me \in Session, Shaped(me), me.pc \notin {"idle", "aborted", "company"},
         NEW pc \in {"missing", "lookup", "put", "save", "read", "write"},
         NEW content \in Contents \cup {NoContent},
         pc \in {"lookup", "put", "save", "write"} => content # NoContent,
         NEW next \in Session,
         next.pc = pc, next.role = me.role, next.todo = me.todo,
         next.company = me.company, next.content = content
  PROVE  Shaped(next)
  BY DEF Shaped

Seeing(me, pc, seen) == [me EXCEPT !.pc = pc, !.seen = seen]
Reading(me, content) == [me EXCEPT !.pc = "write", !.content = content]

LEMMA SeesTyped ==
  ASSUME NEW me \in Session, Shaped(me), me.pc \notin {"idle", "aborted", "company"},
         NEW pc \in {"missing", "lookup", "put", "save", "read", "write"},
         NEW seen \in Filing,
         pc \in {"lookup", "put", "save", "write"} => me.content # NoContent,
         NEW next, next = Seeing(me, pc, seen)
  PROVE  /\ next \in Session /\ Shaped(next)
         /\ next.pc = pc /\ next.seen = seen
         /\ next.role = me.role /\ next.todo = me.todo /\ next.mode = me.mode
         /\ next.offset = me.offset /\ next.company = me.company
         /\ next.content = me.content /\ KeyOf(next) = KeyOf(me)
  <1>1. /\ next \in Session /\ next.pc = pc /\ next.seen = seen
        /\ next.role = me.role /\ next.todo = me.todo /\ next.mode = me.mode
        /\ next.offset = me.offset /\ next.company = me.company
        /\ next.content = me.content /\ next.by = me.by /\ next.name = me.name
    BY DEF Session, Seeing
  <1>2. me.content \in Contents \cup {NoContent}
    BY DEF Session
  <1> QED
    BY <1>1, <1>2, GoesOnTyped DEF KeyOf

LEMMA GoesToTyped ==
  ASSUME NEW me \in Session, Shaped(me), me.pc \notin {"idle", "aborted", "company"},
         NEW pc \in {"missing", "lookup", "put", "save", "read", "write"},
         pc \in {"lookup", "put", "save", "write"} => me.content # NoContent,
         NEW next, next = [me EXCEPT !.pc = pc]
  PROVE  /\ next \in Session /\ Shaped(next)
         /\ next.pc = pc /\ next.seen = me.seen
         /\ next.role = me.role /\ next.todo = me.todo /\ next.mode = me.mode
         /\ next.offset = me.offset /\ next.company = me.company
         /\ next.content = me.content /\ KeyOf(next) = KeyOf(me)
  <1>1. /\ next \in Session /\ next.pc = pc /\ next.seen = me.seen
        /\ next.role = me.role /\ next.todo = me.todo /\ next.mode = me.mode
        /\ next.offset = me.offset /\ next.company = me.company
        /\ next.content = me.content /\ next.by = me.by /\ next.name = me.name
    BY DEF Session
  <1>2. me.content \in Contents \cup {NoContent}
    BY DEF Session
  <1> QED
    BY <1>1, <1>2, GoesOnTyped DEF KeyOf

LEMMA ReadsTyped ==
  ASSUME NEW me \in Session, Shaped(me), me.pc = "read",
         NEW content \in Contents, NEW next, next = Reading(me, content)
  PROVE  /\ next \in Session /\ Shaped(next)
         /\ next.pc = "write" /\ next.seen = me.seen
         /\ next.role = me.role /\ next.todo = me.todo /\ next.mode = me.mode
         /\ next.offset = me.offset /\ next.company = me.company
         /\ next.content = content /\ content # NoContent
  <1>1. /\ next \in Session /\ next.pc = "write" /\ next.seen = me.seen
        /\ next.role = me.role /\ next.todo = me.todo /\ next.mode = me.mode
        /\ next.offset = me.offset /\ next.company = me.company
        /\ next.content = content
    BY DEF Session, Reading
  <1> QED
    BY <1>1, ContentsTyped, GoesOnTyped

LEMMA FetchMeans ==
  ASSUME Typed, NEW s \in Sessions, FetchArtifact(s)
  PROVE  \E q \in Session :
           /\ Becomes(s, q) /\ Shaped(q) /\ q.pc = "cursor"
           /\ q.role = session[s].role /\ q.todo = session[s].todo
           /\ q.company = session[s].company /\ q.seen = session[s].seen
           /\ q.mode = session[s].mode /\ q.offset = session[s].offset
  <1> DEFINE me == session[s]
             c == me.company
  <1>1. /\ me \in Session /\ Shaped(me) /\ c \in Companies /\ me.pc = "fetch"
    BY SessionTyped DEF FetchArtifact
  <1>2. PICK outcome \in Outcomes(cursors[c]), name \in Names, content \in Brought :
          Becomes(s, [me EXCEPT !.pc = "cursor", !.by = companies[c],
                                !.known = cursors[c], !.cursor = outcome[2],
                                !.name = name,
                                !.content = IF outcome[1] = "artifact" THEN content
                                            ELSE NoContent])
    BY DEF FetchArtifact
  <1> DEFINE next == [me EXCEPT !.pc = "cursor", !.by = companies[c],
                                !.known = cursors[c], !.cursor = outcome[2],
                                !.name = name,
                                !.content = IF outcome[1] = "artifact" THEN content
                                            ELSE NoContent]
  <1>3. outcome[2] \in Cursor
    <2>1. outcome \in {"artifact", "no artifact"} \X {"artifact url"}
          \/ outcome \in {<<"no artifact", "page checked">>}
      BY DEF Outcomes
    <2>2. CASE outcome \in {"artifact", "no artifact"} \X {"artifact url"}
      <3>1. outcome[2] \in {"artifact url"}
        BY <2>2
      <3> QED
        BY <3>1 DEF Cursor
    <2>3. CASE outcome \in {<<"no artifact", "page checked">>}
      <3>1. outcome = <<"no artifact", "page checked">>
        BY <2>3
      <3>2. <<"no artifact", "page checked">>[2] = "page checked"
        OBVIOUS
      <3> QED
        BY <3>1, <3>2, Zenon DEF Cursor
    <2> QED
      BY <2>1, <2>2, <2>3
  <1>4. cursors[c] \in Cursor
    BY <1>1 DEF Typed, TypeOK
  <1>5. companies[c] \in {"isin", "cin"}
    BY <1>1 DEF Typed, TypeOK, Shaped
  <1>6. (IF outcome[1] = "artifact" THEN content ELSE NoContent) \in Contents \cup {NoContent}
    BY ContentsTyped
  <1>7. /\ next \in Session /\ next.pc = "cursor" /\ next.role = me.role
        /\ next.todo = me.todo /\ next.company = me.company /\ next.seen = me.seen
        /\ next.mode = me.mode /\ next.offset = me.offset
    BY <1>1, <1>3, <1>4, <1>5, <1>6 DEF Session
  <1>8. Becomes(s, next)
    BY <1>2
  <1> HIDE DEF next
  <1>9. Shaped(next)
    BY <1>1, <1>7 DEF Shaped
  <1> QED
    BY <1>7, <1>8, <1>9

(* A session that ends, or a batch that goes on to its next company.       *)
LEMMA FinishedTyped ==
  ASSUME Typed, NEW s \in Sessions, session[s].pc # "company", Done(s),
         companies' \in [Companies -> {"absent", "isin", "cin"}],
         \A c \in Companies : companies[c] # "absent" => companies'[c] # "absent",
         filings' \in [Companies -> Filing],
         objects' \in [Key -> Contents \cup {NoContent}],
         facts' \in [Companies -> Instances \cup {NoContent}],
         pages' \in [Companies -> (Contents \ Instances) \cup {NoContent}],
         offset' \in Nat, skipped' \in SUBSET Nat,
         cursors' \in [Companies -> Cursor], runs' \in [Sessions -> Run],
         opened' \in 0..MaxSessions
  PROVE  Typed'
  <1> DEFINE next == Finished(session[s])
  <1>1. /\ Becomes(s, next) /\ next \in Session /\ Shaped(next)
        /\ disturbed' \in SUBSET Companies
    BY DoneMeans
  <1>2. next.role # "task"
    <2>1. CASE session[s].role = "batch"
      <3>1. session[s].todo # << >> /\ session[s] \in Session
        BY <2>1, DoneMeans, SessionTyped
      <3>2. next = NextCompany(session[s])
        BY <2>1 DEF Finished
      <3> HIDE DEF next
      <3> QED
        BY <3>1, <3>2, NextCompanyTyped
    <2>2. CASE session[s].role # "batch"
      BY <2>2, IdleTyped DEF Finished
    <2> QED
      BY <2>1, <2>2
  <1> HIDE DEF next
  <1> QED
    BY <1>1, <1>2, MovesTyped

(* The row a store commits.                                                *)
SavedRow(me, row) ==
    IF me.seen = NoFiling THEN Fetched(me) ELSE Flushed(row, me.seen, Fetched(me))

LEMMA FetchedTyped ==
  ASSUME NEW me \in Session
  PROVE  /\ Fetched(me) \in Filing
         /\ Fetched(me).status = "fetched" /\ Fetched(me).raw = KeyOf(me)
         /\ Fetched(me).checksum = me.content
  <1>1. KeyOf(me) \in Key
    BY DEF KeyOf, Key, Session
  <1> QED
    BY <1>1 DEF Fetched, Filing, Session

LEMMA SavedMeans ==
  ASSUME Typed, NEW s \in Sessions, SaveFiling(s)
  PROVE  \E row \in Filing :
           /\ row = SavedRow(session[s], filings[session[s].company])
           /\ session[s].pc = "save"
           /\ session[s].seen = NoFiling => filings[session[s].company] = NoFiling
           /\ filings' = [filings EXCEPT ![session[s].company] = row]
           /\ IF session[s].role = "batch"
              THEN /\ Becomes(s, [session[s] EXCEPT !.pc = "read", !.seen = row])
                   /\ UNCHANGED disturbed
              ELSE Done(s)
  <1> DEFINE me == session[s]
             row == SavedRow(me, filings[me.company])
  <1>1. me \in Session /\ me.seen \in Filing /\ filings[me.company] \in Filing
    BY SessionTyped
  <1>2. row \in Filing
    BY <1>1, FetchedTyped, FlushedTyped DEF SavedRow
  <1>3. /\ me.pc = "save"
        /\ me.seen = NoFiling => filings[me.company] = NoFiling
        /\ filings' = [filings EXCEPT ![me.company] = row]
        /\ IF me.role = "batch"
           THEN Becomes(s, [me EXCEPT !.pc = "read", !.seen = row]) /\ UNCHANGED disturbed
           ELSE Done(s)
    BY DEF SaveFiling, SavedRow
  <1> HIDE DEF row
  <1> QED
    BY <1>2, <1>3 DEF row

LEMMA StepsTyped ==
  ASSUME Typed, NEW s \in Sessions, Step(s)
  PROVE  Typed'
  <1> DEFINE me == session[s]
             c == me.company
  <1>1. /\ me \in Session /\ Shaped(me) /\ c \in Companies /\ filings[c] \in Filing
        /\ me.seen \in Filing /\ me.content \in Contents \cup {NoContent}
        /\ KeyOf(me) \in Key /\ runs[s] \in Run /\ me.offset \in Nat
    BY SessionTyped
  <1>2. CASE RegisterCompany(s)
    <2>1. UNCHANGED <<filings, objects, facts, pages, offset, skipped, cursors, runs, opened,
                      disturbed>>
      BY <1>2 DEF RegisterCompany
    <2>2. \A k \in Companies : companies[k] # "absent" => companies'[k] # "absent"
      BY <1>1, <1>2 DEF RegisterCompany, Typed, TypeOK
    <2> QED
      BY <1>2, <2>1, <2>2, RegisterMeans, MovesTyped DEF Typed, TypeOK
  <1>3. CASE FinishBatch(s)
    <2>1. /\ Becomes(s, Idle)
          /\ UNCHANGED <<companies, filings, objects, facts, pages, skipped, cursors, opened, disturbed>>
      BY <1>3 DEF FinishBatch, stored
    <2>2. runs' \in [Sessions -> Run]
      <3>1. [runs[s] EXCEPT !.status = "completed"] \in Run
        BY <1>1 DEF Run
      <3> QED
        BY <1>3, <3>1 DEF FinishBatch, Typed, TypeOK
    <2>3. offset' \in Nat
      BY <1>1, <1>3 DEF FinishBatch, Typed, TypeOK, Run
    <2> QED
      BY <2>1, <2>2, <2>3, IdleTyped, MovesTyped DEF Typed, TypeOK
  <1>4. CASE RecordMissing(s)
    <2>1. /\ Done(s) /\ me.pc = "missing"
          /\ UNCHANGED <<companies, objects, facts, pages, offset, skipped, cursors, opened>>
      BY <1>4 DEF RecordMissing
    <2>2. filings' \in [Companies -> Filing]
      <3>1. WithStatus(filings[c], "missing") \in Filing
        BY <1>1, WithStatusTyped
      <3> QED
        BY <1>4, <3>1 DEF RecordMissing, Typed, TypeOK
    <2>3. runs' \in [Sessions -> Run]
      <3>1. CASE me.role = "batch"
        <4>1. PICK run \in Counted(runs[s]) :
                runs' = [runs EXCEPT ![s] = Settling(run, c, filings'[c])]
          BY <1>4, <3>1, RunsSettled
        <4>2. Settling(run, c, filings'[c]) \in Run
          BY <1>1, CountedTyped, SettlingTyped
        <4> QED
          BY <4>1, <4>2 DEF Typed, TypeOK
      <3>2. CASE me.role # "batch"
        BY <1>4, <3>2 DEF RecordMissing, Counts, Typed, TypeOK
      <3> QED
        BY <3>1, <3>2
    <2> QED
      BY <2>1, <2>2, <2>3, FinishedTyped DEF Typed, TypeOK
  <1>5. CASE LookupFiling(s)
    <2> DEFINE reading == [me EXCEPT !.pc = "read", !.seen = filings[c]]
               putting == [me EXCEPT !.pc = "put", !.seen = filings[c]]
    <2>1. /\ me.pc = "lookup"
          /\ UNCHANGED <<companies, filings, objects, facts, pages, offset, skipped, cursors, runs,
                         opened>>
          /\ \/ Done(s)
             \/ Becomes(s, reading) /\ UNCHANGED disturbed
             \/ Becomes(s, putting) /\ UNCHANGED disturbed
      BY <1>5 DEF LookupFiling, stored
    <2>2. me.content # NoContent
      BY <1>1, <2>1 DEF Shaped
    <2>3. CASE Done(s)
      BY <2>1, <2>3, FinishedTyped DEF Typed, TypeOK
    <2>4. CASE Becomes(s, reading) /\ UNCHANGED disturbed
      <3>1. reading = Seeing(me, "read", filings[c])
        BY DEF Seeing
      <3> HIDE DEF reading
      <3>2. reading \in Session /\ Shaped(reading)
            /\ reading.role = me.role /\ reading.company = c
        BY <1>1, <2>1, <2>2, <3>1, SeesTyped
      <3> QED
        BY <2>1, <2>4, <3>2, MovesTyped DEF Typed, TypeOK
    <2>5. CASE Becomes(s, putting) /\ UNCHANGED disturbed
      <3>1. putting = Seeing(me, "put", filings[c])
        BY DEF Seeing
      <3> HIDE DEF putting
      <3>2. putting \in Session /\ Shaped(putting)
            /\ putting.role = me.role /\ putting.company = c
        BY <1>1, <2>1, <2>2, <3>1, SeesTyped
      <3> QED
        BY <2>1, <2>5, <3>2, MovesTyped DEF Typed, TypeOK
    <2> QED
      BY <2>1, <2>3, <2>4, <2>5
  <1>6. CASE PutObject(s)
    <2> DEFINE saving == [me EXCEPT !.pc = "save"]
    <2>1. /\ me.pc = "put" /\ Becomes(s, saving)
          /\ objects' = [objects EXCEPT ![KeyOf(me)] = me.content]
          /\ UNCHANGED <<companies, filings, facts, pages, offset, skipped, cursors, runs, opened,
                         disturbed>>
      BY <1>6 DEF PutObject
    <2>2. me.content # NoContent
      BY <1>1, <2>1 DEF Shaped
    <2>3. saving \in Session /\ Shaped(saving) /\ saving.role = me.role /\ saving.company = c
      BY <1>1, <2>1, <2>2, GoesToTyped
    <2>4. objects' \in [Key -> Contents \cup {NoContent}]
      BY <1>1, <2>1 DEF Typed, TypeOK
    <2> HIDE DEF saving
    <2> QED
      BY <2>1, <2>3, <2>4, MovesTyped DEF Typed, TypeOK
  <1>7. CASE SaveFiling(s)
    <2>1. PICK row \in Filing :
            /\ me.pc = "save"
            /\ filings' = [filings EXCEPT ![c] = row]
            /\ Done(s) \/ (Becomes(s, [me EXCEPT !.pc = "read", !.seen = row])
                           /\ UNCHANGED disturbed)
      BY <1>7, SavedMeans
    <2>2. UNCHANGED <<companies, objects, facts, pages, offset, skipped, cursors, runs, opened>>
      BY <1>7 DEF SaveFiling
    <2>3. filings' \in [Companies -> Filing]
      BY <1>1, <2>1 DEF Typed, TypeOK
    <2>4. CASE Done(s)
      BY <2>1, <2>2, <2>3, <2>4, FinishedTyped DEF Typed, TypeOK
    <2>5. CASE Becomes(s, [me EXCEPT !.pc = "read", !.seen = row]) /\ UNCHANGED disturbed
      <3> DEFINE reading == [me EXCEPT !.pc = "read", !.seen = row]
      <3>1. reading = Seeing(me, "read", row)
        BY DEF Seeing
      <3>2. Becomes(s, reading) /\ UNCHANGED disturbed
        BY <2>5
      <3> HIDE DEF reading
      <3>3. reading \in Session /\ Shaped(reading)
            /\ reading.role = me.role /\ reading.company = c
        BY <1>1, <2>1, <3>1, SeesTyped
      <3> QED
        BY <2>2, <2>3, <3>2, <3>3, MovesTyped DEF Typed, TypeOK
    <2> QED
      BY <2>1, <2>4, <2>5
  <1>8. CASE ReadArtifact(s)
    <2> DEFINE content == objects[me.seen.raw]
               writing == [me EXCEPT !.pc = "write", !.content = content]
    <2>1. /\ me.pc = "read" /\ Becomes(s, writing)
          /\ UNCHANGED <<companies, filings, objects, facts, pages, offset, skipped, cursors, runs,
                         opened, disturbed>>
      BY <1>8 DEF ReadArtifact, stored
    <2>2. content \in Contents
      <3>1. me.seen.raw \in Key /\ content # NoContent
        BY <1>1, <1>8 DEF ReadArtifact, Parseable, Filing
      <3> QED
        BY <3>1 DEF Typed, TypeOK
    <2>3. writing = Reading(me, content)
      BY DEF Reading
    <2> HIDE DEF content, writing
    <2>4. writing \in Session /\ Shaped(writing)
          /\ writing.role = me.role /\ writing.company = c
      BY <1>1, <2>1, <2>2, <2>3, ReadsTyped
    <2> QED
      BY <2>1, <2>4, MovesTyped DEF Typed, TypeOK
  <1>9. CASE WriteFacts(s)
    <2>1. /\ Done(s) /\ me.pc = "write"
          /\ UNCHANGED <<objects, offset, skipped, cursors, opened>>
      BY <1>9 DEF WriteFacts
    <2>2. filings' \in [Companies -> Filing]
      <3> DEFINE parsed == [me.seen EXCEPT !.status = "parsed"]
      <3>1. parsed \in Filing
        BY <1>1 DEF Filing
      <3>2. filings' = [filings EXCEPT ![c] = Flushed(filings[c], me.seen, parsed)]
        BY <1>9 DEF WriteFacts
      <3> HIDE DEF parsed
      <3>3. Flushed(filings[c], me.seen, parsed) \in Filing
        BY <1>1, <3>1, FlushedTyped
      <3> QED
        BY <3>2, <3>3 DEF Typed, TypeOK
    <2>3. /\ facts' \in [Companies -> Instances \cup {NoContent}]
          /\ pages' \in [Companies -> (Contents \ Instances) \cup {NoContent}]
      <3>1. me.content \in Contents
        BY <1>1, <2>1 DEF Shaped
      <3>2. \/ /\ me.content \in Instances
               /\ facts' = [facts EXCEPT ![c] = me.content] /\ pages' = pages
            \/ /\ me.content \notin Instances
               /\ pages' = [pages EXCEPT ![c] = me.content] /\ facts' = facts
        BY <1>9 DEF WriteFacts
      <3> QED
        BY <3>1, <3>2 DEF Typed, TypeOK
    <2>4. /\ companies' \in [Companies -> {"absent", "isin", "cin"}]
          /\ \A k \in Companies : companies[k] # "absent" => companies'[k] # "absent"
      BY <1>1, <1>9 DEF WriteFacts, Typed, TypeOK
    <2>5. runs' \in [Sessions -> Run]
      <3>1. CASE me.role = "batch"
        <4>1. PICK run \in Counted(runs[s]) :
                runs' = [runs EXCEPT ![s] = Settling(run, c, filings'[c])]
          BY <1>9, <3>1, RunsSettled
        <4>2. Settling(run, c, filings'[c]) \in Run
          BY <1>1, CountedTyped, SettlingTyped
        <4> QED
          BY <4>1, <4>2 DEF Typed, TypeOK
      <3>2. CASE me.role # "batch"
        BY <1>9, <3>2 DEF WriteFacts, Counts, Typed, TypeOK
      <3> QED
        BY <3>1, <3>2
    <2> QED
      BY <2>1, <2>2, <2>3, <2>4, <2>5, FinishedTyped DEF Typed, TypeOK
  <1>10. CASE FetchArtifact(s)
    <2>1. UNCHANGED <<companies, filings, objects, facts, pages, offset, skipped, cursors, runs, opened,
                      disturbed>>
      BY <1>10 DEF FetchArtifact, stored
    <2>2. me.role = "task" => companies[c] # "absent"
      BY DEF Typed
    <2> QED
      BY <1>10, <2>1, <2>2, FetchMeans, MovesTyped DEF Typed, TypeOK
  <1>11. CASE SaveCursor(s)
    <2> DEFINE pc == IF me.content = NoContent THEN "missing" ELSE "lookup"
               next == [me EXCEPT !.pc = pc]
    <2>1. /\ me.pc = "cursor" /\ Becomes(s, next)
          /\ UNCHANGED <<companies, filings, objects, facts, pages, offset, skipped, runs, opened,
                         disturbed>>
      BY <1>11 DEF SaveCursor, stored
    <2>2. pc \in {"missing", "lookup"} /\ (pc = "lookup" => me.content # NoContent)
      OBVIOUS
    <2> HIDE DEF pc
    <2>3. next \in Session /\ Shaped(next) /\ next.role = me.role /\ next.company = c
      BY <1>1, <2>1, <2>2, GoesToTyped
    <2>4. cursors' \in [Companies -> Cursor]
      <3>1. me.cursor \in Cursor
        BY <1>1 DEF Session
      <3> QED
        BY <1>1, <1>11, <3>1 DEF SaveCursor, Typed, TypeOK
    <2>5. me.role = "task" => companies[c] # "absent"
      BY DEF Typed
    <2> HIDE DEF next
    <2> QED
      BY <2>1, <2>3, <2>4, <2>5, MovesTyped DEF Typed, TypeOK
  <1> QED
    BY <1>2, <1>3, <1>4, <1>5, <1>6, <1>7, <1>8, <1>9, <1>10, <1>11 DEF Step

(* Typed is inductive.                                                     *)
THEOREM TypedAlways == Spec => []Typed
  <1>1. Typed /\ [Next]_vars => Typed'
    <2> SUFFICES ASSUME Typed, [Next]_vars PROVE Typed'
      OBVIOUS
    <2>1. CASE UNCHANGED vars
      BY <2>1 DEF vars, stored, Typed, TypeOK, Shaped
    <2>2. ASSUME NEW s \in Sessions, Begin(s) \/ Step(s) \/ Fails(s) \/ Crash(s)
          PROVE  Typed'
      BY <2>2, BeginsTyped, StepsTyped, FailsTyped
    <2> QED
      BY <2>1, <2>2 DEF Next
  <1> QED
    BY <1>1, InitTyped, PTL DEF Spec

(* Every variable keeps its type: the counts of a run stay numbers, an     *)
(* object is an artifact or nothing, a session's rows are rows.            *)
THEOREM AcquisitionTyped == Spec => []TypeOK
  BY TypedAlways, PTL DEF Typed

-----------------------------------------------------------------------------
(* Rows, artifacts and facts: what a session loaded may be old by now, but *)
(* no row ever loses its artifact, so that an UPDATE of some of a row's    *)
(* columns leaves it with one.                                             *)

(* The artifact that is shown of a filing, by its kind.                    *)
Shows(content, fact, page) ==
    IF content \in Instances THEN fact = content ELSE page = content

Sane(row) ==
    /\ row.status \in {"fetched", "parsed"} => row.raw # NoKey
    /\ (row.raw = NoKey) = (row.checksum = NoContent)

Backed(row, objs, fact, page) ==
    /\ Sane(row)
    /\ row.raw # NoKey => objs[row.raw] # NoContent
    /\ fact # NoContent \/ page # NoContent => row.raw # NoKey

Holds(me, row, objs) ==
    /\ Sane(me.seen)
    /\ me.seen.raw # NoKey => row.raw # NoKey
    /\ me.pc = "save" => objs[KeyOf(me)] # NoContent
    /\ me.pc = "write" => me.seen.raw # NoKey

ArtifactsKept ==
    /\ \A c \in Companies : Backed(filings[c], objects, facts[c], pages[c])
    /\ \A s \in Sessions : Holds(session[s], filings[session[s].company], objects)

LEMMA ArtifactsInit == Init => ArtifactsKept
  <1> SUFFICES ASSUME Init PROVE ArtifactsKept
    OBVIOUS
  <1>1. PICK corpus \in Corpora :
          LET known == {c \in Companies : corpus[c] # NoContent} IN
          /\ filings = [c \in Companies |->
               IF c \in known
               THEN [status |-> "parsed", raw |-> SeedKey(c), checksum |-> corpus[c],
                     error |-> FALSE]
               ELSE NoFiling]
          /\ objects = [k \in Key |-> IF k.of \in known /\ k = SeedKey(k.of)
                                      THEN corpus[k.of] ELSE NoContent]
          /\ facts = [c \in Companies |->
               IF corpus[c] \in Instances THEN corpus[c] ELSE NoContent]
          /\ pages = [c \in Companies |->
               IF corpus[c] \in Instances THEN NoContent ELSE corpus[c]]
    BY DEF Init
  <1>2. ASSUME NEW c \in Companies PROVE Backed(filings[c], objects, facts[c], pages[c])
    <2>1. CASE corpus[c] # NoContent
      <3>1. filings[c] = [status |-> "parsed", raw |-> SeedKey(c), checksum |-> corpus[c],
                          error |-> FALSE]
        BY <1>1, <2>1
      <3>2. filings[c].raw = SeedKey(c) /\ filings[c].checksum = corpus[c]
        BY <3>1
      <3>3. SeedKey(c) \in Key /\ SeedKey(c).of = c /\ SeedKey(c) # NoKey
        BY SeedTyped, KeysAreKeys
      <3>4. objects[SeedKey(c)] = corpus[c]
        BY <1>1, <2>1, <3>3
      <3> QED
        BY <2>1, <3>2, <3>3, <3>4 DEF Backed, Sane
    <2>2. CASE corpus[c] = NoContent
      <3>1. filings[c] = NoFiling /\ facts[c] = NoContent
        BY <1>1, <2>2
      <3>2. pages[c] = NoContent
        BY <1>1, <2>2
      <3> QED
        BY <3>1, <3>2, NoFilingTyped DEF Backed, Sane
    <2> QED
      BY <2>1, <2>2
  <1>3. ASSUME NEW s \in Sessions
        PROVE  Holds(session[s], filings[session[s].company], objects)
    <2>1. session[s].seen = NoFiling /\ session[s].pc = "idle"
      BY DEF Init, Idle
    <2> QED
      BY <2>1, NoFilingTyped DEF Holds, Sane
  <1> QED
    BY <1>2, <1>3 DEF ArtifactsKept

(* What a step has to keep.                                                *)
LEMMA ArtifactsMove ==
  ASSUME Typed, Typed', ArtifactsKept, NEW s \in Sessions, NEW q \in Session, Becomes(s, q),
         \A c \in Companies : Backed(filings'[c], objects', facts'[c], pages'[c]),
         \A c \in Companies : filings[c].raw # NoKey => filings'[c].raw # NoKey,
         \A k \in Key : objects[k] # NoContent => objects'[k] # NoContent,
         Holds(q, filings'[q.company], objects')
  PROVE  ArtifactsKept'
  <1>1. ASSUME NEW t \in Sessions
        PROVE  Holds(session'[t], filings'[session'[t].company], objects')
    <2>1. CASE t = s
      BY <2>1 DEF Becomes, Typed, TypeOK
    <2>2. CASE t # s
      <3>1. session'[t] = session[t]
        BY <2>2 DEF Becomes, Typed, TypeOK
      <3>2. KeyOf(session[t]) \in Key /\ session[t].company \in Companies
        BY SessionTyped
      <3>3. Holds(session[t], filings[session[t].company], objects)
        BY DEF ArtifactsKept
      <3> QED
        BY <3>1, <3>2, <3>3 DEF Holds
    <2> QED
      BY <2>1, <2>2
  <1> QED
    BY <1>1 DEF ArtifactsKept, Backed, Sane, Holds, KeyOf

(* A session that starts on a company afresh has loaded nothing.           *)
LEMMA FreshHolds ==
  ASSUME NEW q \in Session, q.seen = NoFiling, q.pc \notin {"save", "write"},
         NEW row, NEW objs
  PROVE  Holds(q, row, objs)
  BY NoFilingTyped DEF Holds, Sane

LEMMA IdleFields ==
  Idle.seen = NoFiling /\ Idle.content = NoContent /\ Idle.pc = "idle" /\ Idle.role = "none"
  BY DEF Idle

LEMMA FinishedFields ==
  ASSUME NEW me \in Session, me.role = "batch" => me.todo # << >>,
         NEW next, next = Finished(me)
  PROVE  /\ next \in Session
         /\ next.seen = NoFiling /\ next.content = NoContent /\ next.pc \in {"idle", "company"}
         /\ me.role # "batch" => next.pc = "idle" /\ next.role = "none"
         /\ me.role = "batch" => next = NextCompany(me)
  BY IdleFields, IdleTyped, NextCompanyTyped DEF Finished

LEMMA ArtifactsStay ==
  ASSUME Typed, Typed', ArtifactsKept, NEW s \in Sessions, NEW q \in Session, Becomes(s, q),
         UNCHANGED <<filings, objects, facts, pages>>,
         Holds(q, filings[q.company], objects)
  PROVE  ArtifactsKept'
  <1>1. /\ \A c \in Companies : Backed(filings'[c], objects', facts'[c], pages'[c])
        /\ \A c \in Companies : filings[c].raw # NoKey => filings'[c].raw # NoKey
        /\ \A k \in Key : objects[k] # NoContent => objects'[k] # NoContent
        /\ Holds(q, filings'[q.company], objects')
    BY DEF ArtifactsKept
  <1> QED
    BY <1>1, ArtifactsMove

LEMMA BeginsArtifacts ==
  ASSUME Typed, Typed', ArtifactsKept, NEW s \in Sessions, Begin(s)
  PROVE  ArtifactsKept'
  <1>1. CASE \E mode \in {"initial", "next", "refresh"}, limit \in Limits, start \in Starts :
               StartBatch(s, mode, limit, start)
    <2>1. PICK mode \in {"initial", "next", "refresh"}, limit \in Limits, start \in Starts :
            StartBatch(s, mode, limit, start)
      BY <1>1
    <2> DEFINE from == StartOffset(mode, start)
               chosen == Selected(mode, from, limit)
               first == FirstCompany(mode, from, chosen)
    <2>2. /\ Becomes(s, first) /\ from \in Nat /\ chosen \in Seq(Companies)
      <3>1. /\ from = StartOffset(mode, start) /\ chosen = Selected(mode, from, limit)
            /\ first = FirstCompany(mode, from, chosen)
        OBVIOUS
      <3> HIDE DEF from, chosen, first
      <3> QED
        BY <2>1, <3>1, StartBatchMeans
    <2>3. UNCHANGED <<filings, objects, facts, pages>>
      BY <2>1 DEF StartBatch, stored
    <2> HIDE DEF from, chosen
    <2>4. first \in Session /\ first.seen = NoFiling /\ first.pc = "company"
      BY <2>2, FirstCompanyTyped
    <2> HIDE DEF first
    <2> QED
      BY <2>2, <2>3, <2>4, FreshHolds, ArtifactsStay
  <1>2. CASE \E c \in Touched : StartTask(s, c) \/ StartUpload(s, c)
    <2>1. PICK c \in Touched : StartTask(s, c) \/ StartUpload(s, c)
      BY <1>2
    <2>2. \E q : Becomes(s, q) /\ q.seen = Idle.seen /\ q.pc \in {"fetch", "lookup"}
      <3>1. CASE StartTask(s, c)
        <4> DEFINE next == [Idle EXCEPT !.role = "task", !.pc = "fetch", !.company = c]
        <4>1. Becomes(s, next)
          BY <3>1 DEF StartTask
        <4>2. next.seen = Idle.seen /\ next.pc = "fetch"
          BY IdleTyped DEF Session
        <4> HIDE DEF next
        <4> QED
          BY <4>1, <4>2
      <3>2. CASE StartUpload(s, c)
        <4>1. PICK name \in Names, content \in Brought :
                Becomes(s, [Idle EXCEPT !.role = "upload", !.pc = "lookup", !.company = c,
                                        !.by = companies[c], !.name = name,
                                        !.content = content])
          BY <3>2 DEF StartUpload
        <4> DEFINE next == [Idle EXCEPT !.role = "upload", !.pc = "lookup", !.company = c,
                                        !.by = companies[c], !.name = name,
                                        !.content = content]
        <4>2. next.seen = Idle.seen /\ next.pc = "lookup"
          BY IdleTyped DEF Session
        <4>3. Becomes(s, next)
          BY <4>1
        <4> HIDE DEF next
        <4> QED
          BY <4>2, <4>3
      <3> QED
        BY <2>1, <3>1, <3>2
    <2>3. PICK q : Becomes(s, q) /\ q.seen = NoFiling /\ q.pc \in {"fetch", "lookup"}
      BY <2>2, IdleFields
    <2>4. q \in Session
      BY <2>3 DEF Becomes, Typed, TypeOK
    <2>5. UNCHANGED <<filings, objects, facts, pages>>
      BY <2>1 DEF StartTask, StartUpload, stored
    <2> QED
      BY <2>3, <2>4, <2>5, FreshHolds, ArtifactsStay
  <1>3. CASE \E c \in Touched : StartParse(s, c)
    <2>1. PICK c \in Touched : StartParse(s, c)
      BY <1>3
    <2> DEFINE next == [Idle EXCEPT !.role = "parse", !.pc = "read", !.company = c,
                                    !.seen = filings[c]]
    <2>2. c \in Companies
      BY AcquisitionAssumption
    <2>3. filings[c] \in Filing
      BY <2>2 DEF Typed, TypeOK
    <2>4. /\ next \in Session /\ next.pc = "read" /\ next.company = c
          /\ next.seen = filings[c]
      BY <2>2, <2>3, IdleTyped DEF Session
    <2>5. Becomes(s, next) /\ UNCHANGED <<filings, objects, facts, pages>>
      BY <2>1 DEF StartParse, stored
    <2>6. Sane(filings[c])
      BY <2>2 DEF ArtifactsKept, Backed
    <2> HIDE DEF next
    <2>7. Holds(next, filings[next.company], objects)
      BY <2>4, <2>6 DEF Holds
    <2> QED
      BY <2>4, <2>5, <2>7, ArtifactsStay
  <1> QED
    BY <1>1, <1>2, <1>3 DEF Begin

(* Another status of a row whose artifact stays.                           *)
LEMMA WithStatusBacked ==
  ASSUME NEW row \in Filing, NEW objs, NEW fact, NEW page,
         Backed(row, objs, fact, page),
         NEW status \in {"missing", "error"}, NEW new, new = WithStatus(row, status)
  PROVE  Backed(new, objs, fact, page) /\ new.raw = row.raw /\ new \in Filing
  BY WithStatusTyped DEF Backed, Sane

LEMMA FailsArtifacts ==
  ASSUME Typed, Typed', ArtifactsKept, NEW s \in Sessions, Fails(s) \/ Crash(s)
  PROVE  ArtifactsKept'
  <1> DEFINE me == session[s]
             c == me.company
  <1>1. me \in Session /\ c \in Companies /\ filings[c] \in Filing
    BY SessionTyped
  <1>2. CASE ~FailTask(s)
    <2>1. UNCHANGED <<filings, objects, facts, pages>>
      BY <1>2 DEF Fails, FailBatch, FailRequest, Crash, stored
    <2>2. \E q : Becomes(s, q) /\ q.seen = Idle.seen /\ q.pc \in {"idle", "aborted"}
      <3>1. CASE FailBatch(s)
        <4> DEFINE next == [Idle EXCEPT !.pc = "aborted", !.todo = me.todo]
        <4>1. next.seen = Idle.seen /\ next.pc = "aborted"
          BY IdleTyped DEF Session
        <4>2. Becomes(s, next)
          BY <3>1 DEF FailBatch
        <4> HIDE DEF next
        <4> QED
          BY <4>1, <4>2
      <3>2. CASE FailRequest(s) \/ Crash(s)
        BY <3>2, IdleFields DEF FailRequest, Crash
      <3> QED
        BY <1>2, <3>1, <3>2 DEF Fails
    <2>3. PICK q : Becomes(s, q) /\ q.seen = NoFiling /\ q.pc \in {"idle", "aborted"}
      BY <2>2, IdleFields
    <2>4. q \in Session
      BY <2>3 DEF Becomes, Typed, TypeOK
    <2> QED
      BY <2>1, <2>3, <2>4, FreshHolds, ArtifactsStay
  <1>3. CASE FailTask(s)
    <2>1. \E q : Becomes(s, q) /\ q.seen = Idle.seen /\ q.pc \in {"idle", "fetch"}
      <3>1. Retried(me).seen = Idle.seen /\ Retried(me).pc = "fetch"
        BY IdleTyped DEF Retried, Session
      <3> QED
        BY <1>3, <3>1, IdleFields DEF FailTask
    <2>2. PICK q : Becomes(s, q) /\ q.seen = NoFiling /\ q.pc \in {"idle", "fetch"}
      BY <2>1, IdleFields
    <2>3. q \in Session
      BY <2>2 DEF Becomes, Typed, TypeOK
    <2>4. /\ UNCHANGED <<objects, facts, pages>>
          /\ filings' \in {filings, [filings EXCEPT ![c] = WithStatus(filings[c], "error")]}
      BY <1>3 DEF FailTask
    <2>5. ASSUME NEW k \in Companies
          PROVE  /\ Backed(filings'[k], objects', facts'[k], pages'[k])
                 /\ filings[k].raw # NoKey => filings'[k].raw # NoKey
      <3>1. Backed(filings[k], objects, facts[k], pages[k])
        BY DEF ArtifactsKept
      <3>2. CASE k = c /\ filings' = [filings EXCEPT ![c] = WithStatus(filings[c], "error")]
        <4>1. filings'[k] = WithStatus(filings[k], "error") /\ filings[k] \in Filing
          BY <1>1, <3>2 DEF Typed, TypeOK
        <4> QED
          BY <2>4, <3>1, <4>1, WithStatusBacked
      <3>3. CASE ~(k = c /\ filings' = [filings EXCEPT ![c] = WithStatus(filings[c], "error")])
        <4>1. filings'[k] = filings[k]
          BY <2>4, <3>3 DEF Typed, TypeOK
        <4> QED
          BY <2>4, <3>1, <4>1
      <3> QED
        BY <3>2, <3>3
    <2> QED
      BY <2>2, <2>3, <2>4, <2>5, FreshHolds, ArtifactsMove
  <1> QED
    BY <1>2, <1>3

LEMMA SavedBacked ==
  ASSUME NEW me \in Session, NEW row \in Filing, NEW objs, NEW fact, NEW page,
         Backed(row, objs, fact, page), Holds(me, row, objs),
         me.pc = "save", me.content # NoContent,
         NEW new, new = SavedRow(me, row)
  PROVE  Backed(new, objs, fact, page) /\ Sane(new) /\ new.raw # NoKey
  <1>1. /\ Fetched(me) \in Filing /\ Fetched(me).status = "fetched"
        /\ Fetched(me).raw = KeyOf(me) /\ Fetched(me).checksum = me.content
    BY FetchedTyped
  <1>2. KeyOf(me) # NoKey
    <2>1. KeyOf(me) \in Key
      BY DEF KeyOf, Key, Session
    <2> QED
      BY <2>1, KeysAreKeys
  <1>3. me.seen \in Filing
    BY DEF Session
  <1>4. CASE me.seen = NoFiling
    BY <1>1, <1>2, <1>4 DEF SavedRow, Backed, Sane, Holds
  <1>5. CASE me.seen # NoFiling
    <2>1. new = Flushed(row, me.seen, Fetched(me))
      BY <1>5 DEF SavedRow
    <2>2. /\ new.status = IF "fetched" # me.seen.status THEN "fetched" ELSE row.status
          /\ new.raw = IF KeyOf(me) # me.seen.raw THEN KeyOf(me) ELSE row.raw
          /\ new.checksum = IF me.content # me.seen.checksum THEN me.content ELSE row.checksum
      BY <1>1, <1>3, <2>1, FlushedTyped
    <2>3. new.raw # NoKey
      BY <1>2, <2>2 DEF Holds
    <2>4. new.checksum # NoContent
      BY <2>2 DEF Holds, Backed, Sane
    <2> QED
      BY <2>2, <2>3, <2>4 DEF Backed, Sane, Holds
  <1> QED
    BY <1>4, <1>5

(* The row a parse commits has the artifact of the row that is there.      *)
ParsedRow(me, row) == Flushed(row, me.seen, [me.seen EXCEPT !.status = "parsed"])

LEMMA ParsedMeans ==
  ASSUME NEW me \in Session, NEW row \in Filing, NEW new, new = ParsedRow(me, row)
  PROVE  /\ new \in Filing
         /\ new.raw = row.raw /\ new.checksum = row.checksum
         /\ new.status = IF "parsed" # me.seen.status THEN "parsed" ELSE row.status
  <1> DEFINE parsed == [me.seen EXCEPT !.status = "parsed"]
  <1>1. me.seen \in Filing
    BY DEF Session
  <1>2. /\ parsed \in Filing /\ parsed.status = "parsed" /\ parsed.raw = me.seen.raw
        /\ parsed.checksum = me.seen.checksum
    BY <1>1 DEF Filing
  <1>3. new = Flushed(row, me.seen, parsed)
    BY DEF ParsedRow
  <1> HIDE DEF parsed
  <1> QED
    BY <1>1, <1>2, <1>3, FlushedTyped

LEMMA ParsedBacked ==
  ASSUME NEW me \in Session, NEW row \in Filing, NEW objs, NEW fact, NEW page,
         Backed(row, objs, fact, page), Holds(me, row, objs), me.pc = "write",
         NEW new, new = ParsedRow(me, row)
  PROVE  new.raw # NoKey /\ \A f, p : Backed(new, objs, f, p)
  BY ParsedMeans DEF Backed, Sane, Holds

(* The effects of the actions that commit a row, and where they leave s.   *)
LEMMA WriteMeans ==
  ASSUME Typed, NEW s \in Sessions, WriteFacts(s)
  PROVE  LET me == session[s]
             c == me.company
         IN  /\ me.pc = "write" /\ Done(s)
             /\ IF me.content \in Instances
                THEN facts' = [facts EXCEPT ![c] = me.content] /\ pages' = pages
                ELSE pages' = [pages EXCEPT ![c] = me.content] /\ facts' = facts
             /\ filings' = [filings EXCEPT ![c] = ParsedRow(me, filings[c])]
             /\ UNCHANGED <<objects, offset, skipped, cursors, opened>>
  BY SessionTyped DEF WriteFacts, ParsedRow, Typed, TypeOK

LEMMA StepsArtifacts ==
  ASSUME Typed, Typed', ArtifactsKept, NEW s \in Sessions, Step(s)
  PROVE  ArtifactsKept'
  <1> DEFINE me == session[s]
             c == me.company
             rest == Finished(me)
  <1>1. /\ me \in Session /\ Shaped(me) /\ c \in Companies /\ filings[c] \in Filing
        /\ me.seen \in Filing /\ KeyOf(me) \in Key
    BY SessionTyped
  <1>2. Holds(me, filings[c], objects) /\ Backed(filings[c], objects, facts[c], pages[c])
    BY <1>1 DEF ArtifactsKept
  <1>3. ASSUME me.pc # "company", Done(s)
        PROVE  /\ Becomes(s, rest) /\ rest \in Session
               /\ \A row, objs : Holds(rest, row, objs)
    <2>1. Becomes(s, rest) /\ (me.role = "batch" => me.todo # << >>)
      BY <1>3, DoneMeans
    <2>2. rest = Finished(me)
      OBVIOUS
    <2> HIDE DEF rest
    <2>3. rest \in Session /\ rest.seen = NoFiling /\ rest.pc \in {"idle", "company"}
      BY <1>1, <2>1, <2>2, FinishedFields
    <2> QED
      BY <2>1, <2>3, FreshHolds
  <1> HIDE DEF rest
  <1>4. CASE RegisterCompany(s) \/ FetchArtifact(s) \/ SaveCursor(s)
    <2>1. UNCHANGED <<filings, objects, facts, pages>>
      BY <1>4 DEF RegisterCompany, FetchArtifact, SaveCursor, stored
    <2>2. \E q \in Session : /\ Becomes(s, q) /\ q.seen = me.seen /\ q.company = c
                             /\ q.pc \notin {"save", "write"}
      <3>1. CASE RegisterCompany(s)
        BY <3>1, RegisterMeans
      <3>2. CASE FetchArtifact(s)
        BY <3>2, FetchMeans
      <3>3. CASE SaveCursor(s)
        <4> DEFINE pc == IF me.content = NoContent THEN "missing" ELSE "lookup"
                   next == [me EXCEPT !.pc = pc]
        <4>1. Becomes(s, next) /\ me.pc = "cursor"
          BY <3>3 DEF SaveCursor
        <4>2. pc \in {"missing", "lookup"} /\ (pc = "lookup" => me.content # NoContent)
          OBVIOUS
        <4> HIDE DEF pc
        <4>3. next \in Session /\ next.pc = pc /\ next.seen = me.seen /\ next.company = c
          BY <1>1, <4>1, <4>2, GoesToTyped
        <4> HIDE DEF next
        <4> QED
          BY <4>1, <4>2, <4>3
      <3> QED
        BY <1>4, <3>1, <3>2, <3>3
    <2>3. PICK q \in Session : /\ Becomes(s, q) /\ q.seen = me.seen /\ q.company = c
                               /\ q.pc \notin {"save", "write"}
      BY <2>2
    <2>4. Holds(q, filings[q.company], objects)
      BY <1>2, <2>3 DEF Holds
    <2> QED
      BY <2>1, <2>3, <2>4, ArtifactsStay
  <1>5. CASE FinishBatch(s)
    <2>1. Becomes(s, Idle) /\ UNCHANGED <<filings, objects, facts, pages>>
      BY <1>5 DEF FinishBatch, stored
    <2> QED
      BY <2>1, IdleTyped, IdleFields, FreshHolds, ArtifactsStay
  <1>6. CASE RecordMissing(s)
    <2>1. /\ me.pc = "missing" /\ Done(s)
          /\ filings' = [filings EXCEPT ![c] = WithStatus(filings[c], "missing")]
          /\ UNCHANGED <<objects, facts, pages>>
      BY <1>6 DEF RecordMissing
    <2>2. /\ Backed(WithStatus(filings[c], "missing"), objects, facts[c], pages[c])
          /\ WithStatus(filings[c], "missing").raw = filings[c].raw
      BY <1>1, <1>2, WithStatusBacked
    <2>3. ASSUME NEW k \in Companies
          PROVE  /\ Backed(filings'[k], objects', facts'[k], pages'[k])
                 /\ filings[k].raw # NoKey => filings'[k].raw # NoKey
      BY <2>1, <2>2 DEF ArtifactsKept, Typed, TypeOK
    <2> QED
      BY <1>3, <2>1, <2>3, ArtifactsMove
  <1>7. CASE LookupFiling(s)
    <2> DEFINE reading == Seeing(me, "read", filings[c])
               putting == Seeing(me, "put", filings[c])
    <2>1. /\ me.pc = "lookup" /\ UNCHANGED <<filings, objects, facts, pages>>
          /\ Done(s) \/ Becomes(s, reading) \/ Becomes(s, putting)
      BY <1>7 DEF LookupFiling, stored, Seeing
    <2>2. me.content # NoContent
      BY <1>1, <2>1 DEF Shaped
    <2>3. CASE Done(s)
      BY <1>3, <2>1, <2>3, ArtifactsStay
    <2>4. CASE Becomes(s, reading)
      <3>1. reading = Seeing(me, "read", filings[c])
        OBVIOUS
      <3> HIDE DEF reading
      <3>2. /\ reading \in Session /\ reading.pc = "read" /\ reading.seen = filings[c]
            /\ reading.company = c
        BY <1>1, <2>1, <2>2, <3>1, SeesTyped
      <3>3. Holds(reading, filings[reading.company], objects)
        BY <1>2, <3>2 DEF Holds, Backed
      <3> QED
        BY <2>1, <2>4, <3>2, <3>3, ArtifactsStay
    <2>5. CASE Becomes(s, putting)
      <3>1. putting = Seeing(me, "put", filings[c])
        OBVIOUS
      <3> HIDE DEF putting
      <3>2. /\ putting \in Session /\ putting.pc = "put" /\ putting.seen = filings[c]
            /\ putting.company = c
        BY <1>1, <2>1, <2>2, <3>1, SeesTyped
      <3>3. Holds(putting, filings[putting.company], objects)
        BY <1>2, <3>2 DEF Holds, Backed
      <3> QED
        BY <2>1, <2>5, <3>2, <3>3, ArtifactsStay
    <2> QED
      BY <2>1, <2>3, <2>4, <2>5
  <1>8. CASE PutObject(s)
    <2> DEFINE saving == [me EXCEPT !.pc = "save"]
    <2>1. /\ me.pc = "put" /\ Becomes(s, saving)
          /\ objects' = [objects EXCEPT ![KeyOf(me)] = me.content]
          /\ UNCHANGED <<filings, facts, pages>>
      BY <1>8 DEF PutObject
    <2>2. me.content # NoContent
      BY <1>1, <2>1 DEF Shaped
    <2>3. /\ saving \in Session /\ saving.pc = "save" /\ saving.seen = me.seen
          /\ saving.company = c /\ KeyOf(saving) = KeyOf(me)
      BY <1>1, <2>1, <2>2, GoesToTyped
    <2> HIDE DEF saving
    <2>4. \A k \in Key : objects[k] # NoContent => objects'[k] # NoContent
      BY <1>1, <2>1, <2>2 DEF Typed, TypeOK
    <2>5. objects'[KeyOf(me)] # NoContent
      BY <1>1, <2>1, <2>2 DEF Typed, TypeOK
    <2>6. Holds(saving, filings'[saving.company], objects')
      BY <1>2, <2>1, <2>3, <2>5 DEF Holds
    <2>7. ASSUME NEW k \in Companies
          PROVE  /\ Backed(filings'[k], objects', facts'[k], pages'[k])
                 /\ filings[k].raw # NoKey => filings'[k].raw # NoKey
      <3>1. filings[k].raw # NoKey => filings[k].raw \in Key
        BY DEF Typed, TypeOK, Filing
      <3> QED
        BY <2>1, <2>4, <3>1 DEF ArtifactsKept, Backed
    <2> QED
      BY <2>1, <2>3, <2>4, <2>6, <2>7, ArtifactsMove
  <1>9. CASE SaveFiling(s)
    <2>1. PICK row \in Filing :
            /\ row = SavedRow(me, filings[c])
            /\ me.pc = "save"
            /\ filings' = [filings EXCEPT ![c] = row]
            /\ Done(s) \/ Becomes(s, Seeing(me, "read", row))
      BY <1>9, SavedMeans DEF Seeing
    <2>2. UNCHANGED <<objects, facts, pages>>
      BY <1>9 DEF SaveFiling
    <2>3. me.content # NoContent
      BY <1>1, <2>1 DEF Shaped
    <2>4. Backed(row, objects, facts[c], pages[c]) /\ Sane(row) /\ row.raw # NoKey
      BY <1>1, <1>2, <2>1, <2>3, SavedBacked
    <2>5. ASSUME NEW k \in Companies
          PROVE  /\ Backed(filings'[k], objects', facts'[k], pages'[k])
                 /\ filings[k].raw # NoKey => filings'[k].raw # NoKey
      BY <2>1, <2>2, <2>4 DEF ArtifactsKept, Typed, TypeOK
    <2>6. CASE Done(s)
      BY <1>3, <2>1, <2>2, <2>5, <2>6, ArtifactsMove
    <2>7. CASE Becomes(s, Seeing(me, "read", row))
      <3> DEFINE reading == Seeing(me, "read", row)
      <3>1. reading = Seeing(me, "read", row)
        OBVIOUS
      <3> HIDE DEF reading
      <3>2. /\ reading \in Session /\ reading.pc = "read" /\ reading.seen = row
            /\ reading.company = c
        BY <1>1, <2>1, <2>3, <3>1, SeesTyped
      <3>3. filings'[c] = row
        BY <1>1, <2>1 DEF Typed, TypeOK
      <3>4. Holds(reading, filings'[reading.company], objects')
        BY <2>4, <3>2, <3>3 DEF Holds
      <3> QED
        BY <2>2, <2>5, <2>7, <3>1, <3>2, <3>4, ArtifactsMove
    <2> QED
      BY <2>1, <2>6, <2>7
  <1>10. CASE ReadArtifact(s)
    <2> DEFINE writing == Reading(me, objects[me.seen.raw])
    <2>1. /\ me.pc = "read" /\ Becomes(s, writing) /\ Parseable(me.seen)
          /\ UNCHANGED <<filings, objects, facts, pages>>
      BY <1>10 DEF ReadArtifact, stored, Reading
    <2>2. writing.pc = "write" /\ writing.seen = me.seen /\ writing.company = c
          /\ writing \in Session
      <3>1. writing.pc = "write" /\ writing.seen = me.seen /\ writing.company = c
        BY <1>1 DEF Session, Reading
      <3>2. writing \in Session
        BY <2>1 DEF Becomes, Typed, TypeOK
      <3> QED
        BY <3>1, <3>2
    <2> HIDE DEF writing
    <2>3. Holds(writing, filings[writing.company], objects)
      BY <1>2, <2>1, <2>2 DEF Holds, Parseable
    <2> QED
      BY <2>1, <2>2, <2>3, ArtifactsStay
  <1>11. CASE WriteFacts(s)
    <2>1. /\ me.pc = "write" /\ Done(s) /\ UNCHANGED objects
          /\ \A k \in Companies \ {c} : facts'[k] = facts[k] /\ pages'[k] = pages[k]
          /\ filings' = [filings EXCEPT ![c] = ParsedRow(me, filings[c])]
      <3>1. facts' \in {facts, [facts EXCEPT ![c] = me.content]}
            /\ pages' \in {pages, [pages EXCEPT ![c] = me.content]}
        BY <1>11, WriteMeans
      <3> QED
        BY <1>11, <3>1, WriteMeans DEF Typed, TypeOK
    <2>2. /\ \A f, p : Backed(ParsedRow(me, filings[c]), objects, f, p)
          /\ ParsedRow(me, filings[c]).raw # NoKey
      BY <1>1, <1>2, <2>1, ParsedBacked
    <2>3. ASSUME NEW k \in Companies
          PROVE  /\ Backed(filings'[k], objects', facts'[k], pages'[k])
                 /\ filings[k].raw # NoKey => filings'[k].raw # NoKey
      BY <2>1, <2>2 DEF ArtifactsKept, Typed, TypeOK
    <2> QED
      BY <1>3, <2>1, <2>3, ArtifactsMove
  <1> QED
    BY <1>4, <1>5, <1>6, <1>7, <1>8, <1>9, <1>10, <1>11 DEF Step

LEMMA ArtifactsStep ==
  ASSUME Typed, Typed', ArtifactsKept, [Next]_vars
  PROVE  ArtifactsKept'
  <1>1. CASE UNCHANGED vars
    BY <1>1 DEF vars, stored, ArtifactsKept, Backed, Sane, Holds, KeyOf
  <1>2. ASSUME NEW s \in Sessions, Begin(s) \/ Step(s) \/ Fails(s) \/ Crash(s)
        PROVE  ArtifactsKept'
    BY <1>2, BeginsArtifacts, StepsArtifacts, FailsArtifacts
  <1> QED
    BY <1>1, <1>2 DEF Next

(* A row that points to an artifact points to one that is there, whatever  *)
(* fails between the put, the commit and the parse, and in whatever order  *)
(* sessions that loaded an older row commit theirs.                        *)
THEOREM ArtifactsFirst == Spec => []ArtifactsPrecedeRows
  <1>1. Typed /\ Typed' /\ ArtifactsKept /\ [Next]_vars => ArtifactsKept'
    BY ArtifactsStep
  <1>2. ArtifactsKept => ArtifactsPrecedeRows
    BY DEF ArtifactsKept, Backed, Sane, ArtifactsPrecedeRows
  <1> QED
    BY <1>1, <1>2, ArtifactsInit, TypedAlways, PTL DEF Spec

-----------------------------------------------------------------------------
(* Batches: what a batch has counted and what it has left make up what it  *)
(* selected, and what it has left is the registry from where it is.        *)

(* No filings row is ever deleted.                                         *)
LEMMA RowsStay ==
  ASSUME Typed, ArtifactsKept, NEW s \in Sessions, Begin(s) \/ Step(s) \/ Fails(s) \/ Crash(s),
         NEW k \in Companies, filings[k] # NoFiling
  PROVE  filings'[k] # NoFiling
  <1> DEFINE me == session[s]
             c == me.company
  <1>1. /\ me \in Session /\ Shaped(me) /\ c \in Companies /\ filings[c] \in Filing
    BY SessionTyped
  <1>2. Holds(me, filings[c], objects) /\ Backed(filings[c], objects, facts[c], pages[c])
    BY <1>1 DEF ArtifactsKept
  <1>3. CASE SaveFiling(s)
    <2>1. PICK row \in Filing :
            /\ row = SavedRow(me, filings[c])
            /\ me.pc = "save"
            /\ filings' = [filings EXCEPT ![c] = row]
      BY <1>3, SavedMeans
    <2>2. row.raw # NoKey
      <3>1. me.content # NoContent
        BY <1>1, <2>1 DEF Shaped
      <3> QED
        BY <1>1, <1>2, <2>1, <3>1, SavedBacked
    <2> QED
      BY <2>1, <2>2, NoFilingTyped DEF Typed, TypeOK
  <1>4. CASE WriteFacts(s)
    <2>1. /\ me.pc = "write"
          /\ filings' = [filings EXCEPT ![c] = ParsedRow(me, filings[c])]
      BY <1>4, WriteMeans
    <2>2. ParsedRow(me, filings[c]).raw # NoKey
      BY <1>1, <1>2, <2>1, ParsedBacked
    <2> QED
      BY <2>1, <2>2, NoFilingTyped DEF Typed, TypeOK
  <1>5. CASE RecordMissing(s)
    <2>1. filings' = [filings EXCEPT ![c] = WithStatus(filings[c], "missing")]
      BY <1>5 DEF RecordMissing
    <2>2. WithStatus(filings[c], "missing").status = "missing"
      BY <1>1, WithStatusTyped
    <2> QED
      BY <2>1, <2>2, NoFilingTyped DEF Typed, TypeOK
  <1>6. CASE FailTask(s)
    <2>1. filings' \in {filings, [filings EXCEPT ![c] = WithStatus(filings[c], "error")]}
      BY <1>6 DEF FailTask
    <2>2. WithStatus(filings[c], "error").status = "error"
      BY <1>1, WithStatusTyped
    <2> QED
      BY <2>1, <2>2, NoFilingTyped DEF Typed, TypeOK
  <1>7. CASE ~(SaveFiling(s) \/ WriteFacts(s) \/ RecordMissing(s) \/ FailTask(s))
    <2>1. UNCHANGED filings
      BY <1>7 DEF Begin, StartBatch, StartTask, StartUpload, StartParse, Step, RegisterCompany,
         FinishBatch, LookupFiling, PutObject, ReadArtifact, FetchArtifact, SaveCursor, Fails,
         FailBatch, FailRequest, Crash, stored
    <2> QED
      BY <2>1
  <1> QED
    BY <1>3, <1>4, <1>5, <1>6, <1>7

(* What a step may be to a batch: it is none of one, stays at its company, *)
(* settles it and goes on, starts, or ends.                                *)
Elsewhere(q) == q.role # "batch" /\ UNCHANGED <<runs, offset, skipped>>

Stays(s, q) ==
    /\ q.role = session[s].role /\ q.todo = session[s].todo
    /\ q.mode = session[s].mode /\ q.offset = session[s].offset
    /\ UNCHANGED <<runs, offset, skipped>>

Advances(s, q) ==
    /\ session[s].role = "batch" /\ session[s].todo # << >>
    /\ RecordMissing(s) \/ WriteFacts(s)
    /\ q = NextCompany(session[s])
    /\ \E run \in Counted(runs[s]) :
         runs' = [runs EXCEPT ![s] = Settling(run, session[s].company,
                                              filings'[session[s].company])]
    /\ filings'[session[s].company] # NoFiling
    /\ UNCHANGED <<offset, skipped>>

SetsOut(s, q) ==
    \E mode \in {"initial", "next", "refresh"}, limit \in Limits, start \in Starts :
        /\ StartBatch(s, mode, limit, start)
        /\ q = FirstCompany(mode, StartOffset(mode, start),
                            Selected(mode, StartOffset(mode, start), limit))

Ends(s, q) == FinishBatch(s) /\ q = Idle

Journeys(s, q) == Elsewhere(q) \/ Stays(s, q) \/ Advances(s, q) \/ SetsOut(s, q) \/ Ends(s, q)

LEMMA JourneyFails ==
  ASSUME Typed, NEW s \in Sessions, Fails(s) \/ Crash(s)
  PROVE  \E q : Becomes(s, q) /\ Elsewhere(q)
  <1> DEFINE me == session[s]
  <1>1. UNCHANGED <<runs, offset, skipped>>
    BY DEF Fails, FailBatch, FailTask, FailRequest, Crash
  <1>2. CASE FailBatch(s)
    <2> DEFINE next == [Idle EXCEPT !.pc = "aborted", !.todo = me.todo]
    <2>1. next.role = Idle.role
      BY IdleTyped DEF Session
    <2>2. Becomes(s, next)
      BY <1>2 DEF FailBatch
    <2> HIDE DEF next
    <2> QED
      BY <1>1, <2>1, <2>2, IdleFields DEF Elsewhere
  <1>3. CASE FailTask(s)
    <2>1. Retried(me).role = "task"
      BY IdleTyped DEF Retried, Session
    <2> QED
      BY <1>1, <1>3, <2>1, IdleFields DEF FailTask, Elsewhere
  <1>4. CASE FailRequest(s) \/ Crash(s)
    BY <1>1, <1>4, IdleFields DEF FailRequest, Crash, Elsewhere
  <1> QED
    BY <1>2, <1>3, <1>4 DEF Fails

LEMMA JourneyBegins ==
  ASSUME Typed, NEW s \in Sessions, Begin(s)
  PROVE  \E q : Becomes(s, q) /\ (Elsewhere(q) \/ SetsOut(s, q))
  <1>1. CASE \E mode \in {"initial", "next", "refresh"}, limit \in Limits, start \in Starts :
               StartBatch(s, mode, limit, start)
    <2>1. PICK mode \in {"initial", "next", "refresh"}, limit \in Limits, start \in Starts :
            StartBatch(s, mode, limit, start)
      BY <1>1
    <2> DEFINE from == StartOffset(mode, start)
               chosen == Selected(mode, from, limit)
               first == FirstCompany(mode, from, chosen)
    <2>2. Becomes(s, first)
      BY <2>1 DEF StartBatch, FirstCompany
    <2>3. SetsOut(s, first)
      BY <2>1 DEF SetsOut
    <2> QED
      BY <2>2, <2>3
  <1>2. CASE \E c \in Touched : StartTask(s, c) \/ StartUpload(s, c) \/ StartParse(s, c)
    <2>1. PICK c \in Touched : StartTask(s, c) \/ StartUpload(s, c) \/ StartParse(s, c)
      BY <1>2
    <2>2. UNCHANGED <<runs, offset, skipped>>
      BY <2>1 DEF StartTask, StartUpload, StartParse
    <2>3. CASE StartTask(s, c)
      <3> DEFINE next == [Idle EXCEPT !.role = "task", !.pc = "fetch", !.company = c]
      <3>1. Becomes(s, next)
        BY <2>3 DEF StartTask
      <3>2. next.role = "task"
        BY IdleTyped DEF Session
      <3> HIDE DEF next
      <3> QED
        BY <2>2, <3>1, <3>2 DEF Elsewhere
    <2>4. CASE StartUpload(s, c)
      <3>1. PICK name \in Names, content \in Brought :
              Becomes(s, [Idle EXCEPT !.role = "upload", !.pc = "lookup", !.company = c,
                                      !.by = companies[c], !.name = name,
                                      !.content = content])
        BY <2>4 DEF StartUpload
      <3> DEFINE next == [Idle EXCEPT !.role = "upload", !.pc = "lookup", !.company = c,
                                      !.by = companies[c], !.name = name,
                                      !.content = content]
      <3>2. Becomes(s, next)
        BY <3>1
      <3>3. next.role = "upload"
        BY IdleTyped DEF Session
      <3> HIDE DEF next
      <3> QED
        BY <2>2, <3>2, <3>3 DEF Elsewhere
    <2>5. CASE StartParse(s, c)
      <3> DEFINE next == [Idle EXCEPT !.role = "parse", !.pc = "read", !.company = c,
                                      !.seen = filings[c]]
      <3>1. Becomes(s, next)
        BY <2>5 DEF StartParse
      <3>2. next.role = "parse"
        BY IdleTyped DEF Session
      <3> HIDE DEF next
      <3> QED
        BY <2>2, <3>1, <3>2 DEF Elsewhere
    <2> QED
      BY <2>1, <2>3, <2>4, <2>5
  <1> QED
    BY <1>1, <1>2 DEF Begin

LEMMA JourneyDone ==
  ASSUME Typed, Typed', ArtifactsKept, NEW s \in Sessions, RecordMissing(s) \/ WriteFacts(s)
  PROVE  \E q : Becomes(s, q) /\ (Elsewhere(q) \/ Advances(s, q))
  <1> DEFINE me == session[s]
             c == me.company
             rest == Finished(me)
  <1>1. /\ me \in Session /\ c \in Companies /\ filings[c] \in Filing
        /\ me.pc \in {"missing", "write"} /\ Done(s)
        /\ UNCHANGED <<offset, skipped>>
    BY SessionTyped DEF RecordMissing, WriteFacts
  <1>2. Becomes(s, rest) /\ (me.role = "batch" => me.todo # << >>)
    BY <1>1, DoneMeans
  <1>3. CASE me.role # "batch"
    <2>1. runs' = runs
      BY <1>3 DEF Counts, RecordMissing, WriteFacts
    <2>2. rest = Idle
      BY <1>3 DEF Finished
    <2> HIDE DEF rest
    <2> QED
      BY <1>1, <1>2, <2>1, <2>2, IdleFields DEF Elsewhere
  <1>4. CASE me.role = "batch"
    <2>1. \E run \in Counted(runs[s]) :
             runs' = [runs EXCEPT ![s] = Settling(run, c, filings'[c])]
      BY <1>4, RunsSettled
    <2>2. filings'[c] # NoFiling
      <3>1. CASE RecordMissing(s)
        <4>1. filings' = [filings EXCEPT ![c] = WithStatus(filings[c], "missing")]
          BY <3>1 DEF RecordMissing
        <4>2. WithStatus(filings[c], "missing").status = "missing"
          BY <1>1, WithStatusTyped
        <4> QED
          BY <1>1, <4>1, <4>2, NoFilingTyped DEF Typed, TypeOK
      <3>2. CASE WriteFacts(s)
        <4>1. /\ me.pc = "write"
              /\ filings' = [filings EXCEPT ![c] = ParsedRow(me, filings[c])]
          BY <3>2, WriteMeans
        <4>2. Holds(me, filings[c], objects) /\ Backed(filings[c], objects, facts[c], pages[c])
          BY <1>1 DEF ArtifactsKept
        <4>3. ParsedRow(me, filings[c]).raw # NoKey
          BY <1>1, <4>1, <4>2, ParsedBacked
        <4> QED
          BY <1>1, <4>1, <4>3, NoFilingTyped DEF Typed, TypeOK
      <3> QED
        BY <3>1, <3>2
    <2>3. rest = NextCompany(me)
      BY <1>4 DEF Finished
    <2> HIDE DEF rest
    <2> QED
      BY <1>1, <1>2, <1>4, <2>1, <2>2, <2>3 DEF Advances
  <1> QED
    BY <1>3, <1>4

LEMMA JourneyStays ==
  ASSUME Typed, NEW s \in Sessions,
         \/ LookupFiling(s) \/ PutObject(s) \/ SaveFiling(s)
         \/ ReadArtifact(s) \/ SaveCursor(s)
  PROVE  \E q : Becomes(s, q) /\ (Elsewhere(q) \/ Stays(s, q))
  <1> DEFINE me == session[s]
             c == me.company
  <1>1. me \in Session /\ Shaped(me) /\ UNCHANGED <<runs, offset, skipped>>
    BY SessionTyped DEF LookupFiling, PutObject, SaveFiling, ReadArtifact, SaveCursor
  <1>2. ASSUME NEW pc, NEW seen, Becomes(s, Seeing(me, pc, seen))
        PROVE  \E q : Becomes(s, q) /\ Stays(s, q)
    <2> DEFINE q == Seeing(me, pc, seen)
    <2>1. /\ q.role = me.role /\ q.todo = me.todo /\ q.mode = me.mode /\ q.offset = me.offset
      BY <1>1 DEF Seeing, Session
    <2> HIDE DEF q
    <2>2. Stays(s, q)
      BY <1>1, <2>1 DEF Stays
    <2> QED
      BY <1>2, <2>2 DEF q
  <1>3. ASSUME NEW pc, Becomes(s, [me EXCEPT !.pc = pc])
        PROVE  \E q : Becomes(s, q) /\ Stays(s, q)
    <2> DEFINE q == [me EXCEPT !.pc = pc]
    <2>1. /\ q.role = me.role /\ q.todo = me.todo /\ q.mode = me.mode /\ q.offset = me.offset
      BY <1>1 DEF Session
    <2> HIDE DEF q
    <2>2. Stays(s, q)
      BY <1>1, <2>1 DEF Stays
    <2> QED
      BY <1>3, <2>2 DEF q
  <1>4. ASSUME me.role # "batch", me.pc # "company", Done(s)
        PROVE  \E q : Becomes(s, q) /\ Elsewhere(q)
    BY <1>1, <1>4, IdleFields DEF Done, Elsewhere
  <1>5. CASE LookupFiling(s)
    <2>1. /\ me.pc = "lookup"
          /\ \/ me.role # "batch" /\ Done(s)
             \/ Becomes(s, Seeing(me, "read", filings[c]))
             \/ Becomes(s, Seeing(me, "put", filings[c]))
      BY <1>5 DEF LookupFiling, Seeing
    <2>2. CASE me.role # "batch" /\ Done(s)
      BY <1>4, <2>1, <2>2
    <2>3. CASE ~(me.role # "batch" /\ Done(s))
      BY <1>2, <2>1, <2>3
    <2> QED
      BY <2>2, <2>3
  <1>6. CASE PutObject(s)
    <2>1. Becomes(s, [me EXCEPT !.pc = "save"])
      BY <1>6 DEF PutObject
    <2> QED
      BY <1>3, <2>1
  <1>7. CASE SaveFiling(s)
    <2>1. PICK row \in Filing :
            /\ me.pc = "save"
            /\ \/ me.role # "batch" /\ Done(s)
               \/ Becomes(s, Seeing(me, "read", row))
      BY <1>7, SavedMeans DEF Seeing
    <2>2. CASE me.role # "batch" /\ Done(s)
      BY <1>4, <2>1, <2>2
    <2>3. CASE ~(me.role # "batch" /\ Done(s))
      BY <1>2, <2>1, <2>3
    <2> QED
      BY <2>2, <2>3
  <1>8. CASE ReadArtifact(s)
    <2> DEFINE q == Reading(me, objects[me.seen.raw])
    <2>1. Becomes(s, q)
      BY <1>8 DEF ReadArtifact, Reading
    <2>2. /\ q.role = me.role /\ q.todo = me.todo /\ q.mode = me.mode /\ q.offset = me.offset
      BY <1>1 DEF Session, Reading
    <2> HIDE DEF q
    <2> QED
      BY <1>1, <2>1, <2>2 DEF Stays
  <1>9. CASE SaveCursor(s)
    <2>1. Becomes(s, [me EXCEPT !.pc = IF me.content = NoContent THEN "missing" ELSE "lookup"])
      BY <1>9 DEF SaveCursor
    <2> QED
      BY <1>3, <2>1
  <1> QED
    BY <1>5, <1>6, <1>7, <1>8, <1>9

LEMMA JourneyMeans ==
  ASSUME Typed, Typed', ArtifactsKept, NEW s \in Sessions,
         Begin(s) \/ Step(s) \/ Fails(s) \/ Crash(s)
  PROVE  \E q \in Session : Becomes(s, q) /\ Journeys(s, q)
  <1>1. CASE FinishBatch(s)
    <2>1. Becomes(s, Idle) /\ Ends(s, Idle)
      BY <1>1 DEF FinishBatch, Ends
    <2> QED
      BY <2>1, IdleTyped DEF Journeys
  <1>2. CASE RegisterCompany(s) \/ FetchArtifact(s)
    <2>1. UNCHANGED <<runs, offset, skipped>>
      BY <1>2 DEF RegisterCompany, FetchArtifact
    <2> QED
      BY <1>2, <2>1, RegisterMeans, FetchMeans DEF Journeys, Stays
  <1>3. \/ \E q \in Session : Becomes(s, q) /\ Journeys(s, q)
        \/ \E q : Becomes(s, q) /\ Journeys(s, q)
    BY <1>1, <1>2, JourneyBegins, JourneyFails, JourneyDone, JourneyStays DEF Step, Journeys
  <1>4. ASSUME NEW q, Becomes(s, q), Journeys(s, q)
        PROVE  q \in Session
    BY <1>4 DEF Becomes, Typed, TypeOK
  <1> QED
    BY <1>3, <1>4

(* The counts of a run and what is left of its batch.                      *)
RunKept(me, run) ==
    /\ me.role = "batch" =>
          /\ run.status = "running"
          /\ run.discovered = run.parsed + run.missing + Len(me.todo)
    /\ run.status = "completed" => run.discovered = run.parsed + run.missing
    /\ run.fetched = run.parsed

(* A place of the registry that is settled, or that a --start jumped over. *)
Behind(i) == i \in skipped \/ (i \in DOMAIN Registry => filings[Registry[i]] # NoFiling)

(* How far a batch came.                                                   *)
Reached(me, run) == me.offset + run.discovered - Len(me.todo)

RestKept(me, run) ==
    me.role = "batch" /\ me.mode # "refresh" =>
        \A j \in 1..Len(me.todo) :
            /\ Reached(me, run) + j \in 1..Len(Registry)
            /\ me.todo[j] = Registry[Reached(me, run) + j]

NoneLeft(me, run) ==
    me.role = "batch" /\ me.mode # "refresh" => \A i \in 1..Reached(me, run) : Behind(i)

BatchesKept ==
    /\ \A i \in 1..offset : Behind(i)
    /\ \A s \in Sessions : /\ RunKept(session[s], runs[s])
                           /\ RestKept(session[s], runs[s])
                           /\ NoneLeft(session[s], runs[s])

LEMMA BatchesInit == Init => BatchesKept
  <1> SUFFICES ASSUME Init PROVE BatchesKept
    OBVIOUS
  <1>1. ASSUME NEW s \in Sessions
        PROVE  session[s].role = "none" /\ runs[s] = NoRun
    BY IdleFields DEF Init
  <1>2. NoRun.status = "none" /\ NoRun.fetched = NoRun.parsed
    BY DEF NoRun
  <1>3. \A i \in 1..offset : Behind(i)
    BY DEF Init
  <1> QED
    BY <1>1, <1>2, <1>3 DEF BatchesKept, RunKept, RestKept, NoneLeft

LEMMA BatchesMove ==
  ASSUME Typed, Typed', ArtifactsKept, BatchesKept,
         NEW s \in Sessions, Begin(s) \/ Step(s) \/ Fails(s) \/ Crash(s),
         NEW q \in Session, Becomes(s, q),
         NEW run, runs' = [runs EXCEPT ![s] = run],
         skipped \subseteq skipped',
         RunKept(q, run), RestKept(q, run), NoneLeft(q, run)',
         \A i \in 1..offset' : Behind(i)'
  PROVE  BatchesKept'
  <1>1. session'[s] = q /\ runs'[s] = run
    BY DEF Becomes, Typed, TypeOK
  <1>2. ASSUME NEW i, Behind(i) PROVE Behind(i)'
    <2>1. i \in DOMAIN Registry => Registry[i] \in Companies
      BY RegistryTyped
    <2> QED
      BY <1>2, <2>1, RowsStay DEF Behind
  <1>3. ASSUME NEW t \in Sessions
        PROVE  (RunKept(session[t], runs[t]) /\ RestKept(session[t], runs[t])
                /\ NoneLeft(session[t], runs[t]))'
    <2>1. CASE t = s
      BY <1>1, <2>1 DEF RunKept, RestKept, NoneLeft, Reached
    <2>2. CASE t # s
      <3>1. session'[t] = session[t] /\ runs'[t] = runs[t]
        BY <2>2 DEF Becomes, Typed, TypeOK
      <3>2. RunKept(session[t], runs[t]) /\ RestKept(session[t], runs[t])
            /\ NoneLeft(session[t], runs[t])
        BY DEF BatchesKept
      <3> QED
        BY <1>2, <3>1, <3>2 DEF RunKept, RestKept, NoneLeft, Reached
    <2> QED
      BY <2>1, <2>2
  <1> QED
    BY <1>3 DEF BatchesKept

LEMMA BatchesStep ==
  ASSUME Typed, Typed', ArtifactsKept, BatchesKept,
         NEW s \in Sessions, Begin(s) \/ Step(s) \/ Fails(s) \/ Crash(s)
  PROVE  BatchesKept'
  <1>1. PICK q \in Session : Becomes(s, q) /\ Journeys(s, q)
    BY JourneyMeans
  <1>2. PICK me \in Session : me = session[s] /\ Shaped(me)
    BY SessionTyped
  <1>3. PICK run \in Run : run = runs[s]
    BY SessionTyped
  <1>4. /\ me.offset \in Nat /\ me.todo \in Seq(Companies) /\ Len(me.todo) \in Nat
        /\ run.discovered \in Nat /\ run.parsed \in Nat /\ run.missing \in Nat
        /\ run.fetched \in Nat
    BY LenProperties DEF Session, Run
  <1>5. RunKept(me, run) /\ RestKept(me, run) /\ NoneLeft(me, run)
    BY <1>2, <1>3 DEF BatchesKept
  <1>6. ASSUME skipped \subseteq skipped', NEW i, Behind(i) PROVE Behind(i)'
    <2>1. i \in DOMAIN Registry => Registry[i] \in Companies
      BY RegistryTyped
    <2> QED
      BY <1>6, <2>1, RowsStay DEF Behind
  <1>7. CASE Elsewhere(q)
    <2>1. /\ q.role # "batch" /\ runs' = [runs EXCEPT ![s] = run] /\ skipped' = skipped
          /\ offset' = offset
      BY <1>3, <1>7 DEF Elsewhere, Typed, TypeOK
    <2>2. RunKept(q, run) /\ RestKept(q, run) /\ NoneLeft(q, run)'
      BY <1>5, <2>1 DEF RunKept, RestKept, NoneLeft
    <2>3. \A i \in 1..offset' : Behind(i)'
      BY <1>6, <2>1 DEF BatchesKept
    <2> QED
      BY <1>1, <2>1, <2>2, <2>3, BatchesMove
  <1>8. CASE Stays(s, q)
    <2>1. /\ runs' = [runs EXCEPT ![s] = run] /\ skipped' = skipped /\ offset' = offset
          /\ q.role = me.role /\ q.todo = me.todo /\ q.mode = me.mode /\ q.offset = me.offset
      BY <1>2, <1>3, <1>8 DEF Stays, Typed, TypeOK
    <2>2. RunKept(q, run) /\ RestKept(q, run)
      BY <1>5, <2>1 DEF RunKept, RestKept, Reached
    <2>3. NoneLeft(q, run)'
      <3>1. Reached(q, run) = Reached(me, run)
        BY <2>1 DEF Reached
      <3> QED
        BY <1>5, <1>6, <2>1, <3>1 DEF NoneLeft, Reached
    <2>4. \A i \in 1..offset' : Behind(i)'
      BY <1>6, <2>1 DEF BatchesKept
    <2> QED
      BY <1>1, <2>1, <2>2, <2>3, <2>4, BatchesMove
  <1>9. CASE Advances(s, q)
    <2>12. PICK counted \in Counted(run) :
              runs' = [runs EXCEPT ![s] = Settling(counted, me.company, filings'[me.company])]
      BY <1>2, <1>3, <1>9 DEF Advances
    <2>13. PICK new : new = Settling(counted, me.company, filings'[me.company])
      OBVIOUS
    <2>1. runs' = [runs EXCEPT ![s] = new]
      BY <2>12, <2>13
    <2>2. /\ me.role = "batch" /\ me.todo # << >> /\ skipped' = skipped /\ offset' = offset
          /\ filings'[me.company] # NoFiling /\ q = NextCompany(me)
      BY <1>2, <1>9 DEF Advances
    <2>3. /\ q.role = "batch" /\ Len(q.todo) = Len(me.todo) - 1
          /\ \A j \in 1..Len(q.todo) : q.todo[j] = me.todo[j + 1]
          /\ q.mode = me.mode /\ q.offset = me.offset
      BY <2>2, NextCompanyTyped
    <2>4. /\ new.status = run.status /\ new.discovered = run.discovered
          /\ \/ /\ new.missing = run.missing + 1 /\ new.parsed = run.parsed
                /\ new.fetched = run.fetched
             \/ /\ new.missing = run.missing /\ new.parsed = run.parsed + 1
                /\ new.fetched = run.fetched + 1
      <3>1. me.company \in Companies
        BY DEF Session
      <3> QED
        BY <2>12, <2>13, <3>1, CountedTyped, SettlingTyped
    <2>5. Len(me.todo) >= 1
      BY <1>4, <2>2, EmptySeq
    <2>11. PICK n \in Nat : n = Len(q.todo) /\ n + 1 = Len(me.todo)
      BY <1>4, <2>3, <2>5
    <2>6. RunKept(q, new)
      <3>1. /\ run.status = "running" /\ run.fetched = run.parsed
            /\ run.discovered = run.parsed + run.missing + (n + 1)
        BY <1>5, <2>2, <2>11 DEF RunKept
      <3>2. new.discovered = new.parsed + new.missing + n /\ new.fetched = new.parsed
        <4>1. PICK p \in Nat : p = run.parsed
          BY <1>4
        <4>2. PICK m \in Nat : m = run.missing
          BY <1>4
        <4>3. new.discovered = p + m + (n + 1)
          BY <2>4, <3>1, <4>1, <4>2
        <4>4. p + m + (n + 1) = p + (m + 1) + n /\ p + m + (n + 1) = (p + 1) + m + n
          OBVIOUS
        <4>5. \/ new.missing = m + 1 /\ new.parsed = p
              \/ new.missing = m /\ new.parsed = p + 1
          BY <2>4, <4>1, <4>2
        <4>6. new.discovered = new.parsed + new.missing + n
          BY <4>3, <4>4, <4>5
        <4>7. new.fetched = new.parsed
          BY <2>4, <3>1
        <4> QED
          BY <4>6, <4>7
      <3> QED
        BY <2>3, <2>4, <2>11, <3>1, <3>2 DEF RunKept
    <2>7. Reached(q, new) = Reached(me, run) + 1 /\ Reached(me, run) \in Int
      <3>1. Reached(q, new) = me.offset + run.discovered - n
        BY <2>3, <2>4, <2>11 DEF Reached
      <3>2. Reached(me, run) = me.offset + run.discovered - (n + 1)
        BY <2>11 DEF Reached
      <3> QED
        BY <1>4, <3>1, <3>2
    <2>8. RestKept(q, new)
      <3> SUFFICES ASSUME q.mode # "refresh", NEW j \in 1..Len(q.todo)
                   PROVE  /\ Reached(q, new) + j \in 1..Len(Registry)
                          /\ q.todo[j] = Registry[Reached(q, new) + j]
        BY DEF RestKept
      <3>1. j + 1 \in 1..Len(me.todo) /\ Reached(me, run) + (j + 1) = Reached(q, new) + j
        BY <2>7, <2>11
      <3>2. /\ Reached(me, run) + (j + 1) \in 1..Len(Registry)
            /\ me.todo[j + 1] = Registry[Reached(me, run) + (j + 1)]
        BY <1>5, <2>2, <2>3, <3>1 DEF RestKept
      <3> QED
        BY <2>3, <3>1, <3>2
    <2>9. NoneLeft(q, new)'
      <3> SUFFICES ASSUME q.mode # "refresh", NEW i \in 1..Reached(q, new) PROVE Behind(i)'
        BY DEF NoneLeft, Reached
      <3>1. CASE i <= Reached(me, run)
        <4>1. i \in 1..Reached(me, run)
          BY <2>7, <3>1
        <4>2. Behind(i)
          BY <1>5, <2>2, <2>3, <4>1 DEF NoneLeft
        <4> QED
          BY <1>6, <2>2, <4>2
      <3>2. CASE i > Reached(me, run)
        <4>1. i = Reached(me, run) + 1
          BY <2>7, <3>2
        <4>2. 1 \in 1..Len(me.todo)
          BY <1>4, <2>5
        <4>3. me.todo[1] = Registry[Reached(me, run) + 1]
          BY <1>5, <2>2, <2>3, <4>2 DEF RestKept
        <4>4. me.company = me.todo[1]
          BY <1>2, <2>2 DEF Shaped
        <4> QED
          BY <2>2, <4>1, <4>3, <4>4 DEF Behind
      <3> QED
        BY <2>7, <3>1, <3>2
    <2>10. \A i \in 1..offset' : Behind(i)'
      BY <1>6, <2>2 DEF BatchesKept
    <2> QED
      BY <1>1, <2>1, <2>2, <2>6, <2>8, <2>9, <2>10, BatchesMove
  <1>10. CASE SetsOut(s, q)
    <2>1. PICK mode \in {"initial", "next", "refresh"}, limit \in Limits, start \in Starts :
            /\ StartBatch(s, mode, limit, start)
            /\ q = FirstCompany(mode, StartOffset(mode, start),
                                Selected(mode, StartOffset(mode, start), limit))
      BY <1>10 DEF SetsOut
    <2>2. PICK from : from = StartOffset(mode, start)
      OBVIOUS
    <2>3. PICK chosen : chosen = Selected(mode, from, limit)
      OBVIOUS
    <2>4. /\ from \in Nat /\ limit \in Nat /\ chosen \in Seq(Companies) /\ Len(chosen) \in Nat
      BY <2>1, <2>2, <2>3, StartBatchMeans
    <2>5. PICK new : new = Started(chosen)
      OBVIOUS
    <2>6. /\ new.status = "running" /\ new.discovered = Len(chosen)
          /\ new.parsed = 0 /\ new.missing = 0 /\ new.fetched = 0
      BY <2>4, <2>5, StartedTyped
    <2>7. /\ runs' = [runs EXCEPT ![s] = new] /\ offset' = offset
          /\ skipped' = IF mode # "refresh" /\ start # Default
                        THEN skipped \cup 1..start ELSE skipped
      BY <2>1, <2>2, <2>3, <2>5 DEF StartBatch, Started
    <2>8. /\ q.role = "batch" /\ q.todo = chosen /\ q.mode = mode /\ q.offset = from
      BY <2>1, <2>2, <2>3, <2>4, FirstCompanyTyped
    <2>9. RunKept(q, new)
      BY <2>4, <2>6, <2>8 DEF RunKept
    <2>10. Reached(q, new) = from
      BY <2>4, <2>6, <2>8 DEF Reached
    <2>11. RestKept(q, new)
      <3>1. mode # "refresh" => \A j \in 1..Len(chosen) :
               from + j \in 1..Len(Registry) /\ chosen[j] = Registry[from + j]
        BY <2>3, <2>4, SelectedMeans
      <3> QED
        BY <2>8, <2>10, <3>1 DEF RestKept
    <2>12. NoneLeft(q, new)'
      <3> SUFFICES ASSUME mode # "refresh", NEW i \in 1..from PROVE Behind(i)'
        BY <2>8, <2>10 DEF NoneLeft, Reached
      <3>1. CASE start # Default
        <4>1. from = start
          BY <2>2, <3>1 DEF StartOffset
        <4> QED
          BY <2>7, <3>1, <4>1 DEF Behind
      <3>2. CASE start = Default /\ mode = "next"
        <4>1. from = offset
          BY <2>2, <3>2 DEF StartOffset
        <4> QED
          BY <1>6, <2>7, <3>2, <4>1 DEF BatchesKept
      <3>3. CASE start = Default /\ mode # "next"
        <4>1. from = 0
          BY <2>2, <3>3 DEF StartOffset
        <4> QED
          BY <4>1
      <3> QED
        BY <3>1, <3>2, <3>3
    <2>13. \A i \in 1..offset' : Behind(i)'
      BY <1>6, <2>7 DEF BatchesKept
    <2> QED
      BY <1>1, <2>7, <2>9, <2>11, <2>12, <2>13, BatchesMove
  <1>11. CASE Ends(s, q)
    <2>1. PICK new : new = [run EXCEPT !.status = "completed"]
      OBVIOUS
    <2>2. /\ new.status = "completed" /\ new.discovered = run.discovered
          /\ new.parsed = run.parsed /\ new.missing = run.missing /\ new.fetched = run.fetched
      BY <2>1 DEF Run
    <2>3. /\ me.role = "batch" /\ me.todo = << >> /\ q = Idle /\ skipped' = skipped
          /\ runs' = [runs EXCEPT ![s] = new]
          /\ offset' = IF me.mode \in {"initial", "next"} THEN me.offset + run.discovered
                       ELSE offset
      BY <1>2, <1>3, <1>11, <2>1 DEF Ends, FinishBatch, Typed, TypeOK
    <2>4. Len(me.todo) = 0
      BY <2>3
    <2>5. q.role # "batch"
      BY <2>3, IdleFields
    <2>6. RunKept(q, new) /\ RestKept(q, new) /\ NoneLeft(q, new)'
      BY <1>4, <1>5, <2>2, <2>3, <2>4, <2>5 DEF RunKept, RestKept, NoneLeft
    <2>7. \A i \in 1..offset' : Behind(i)'
      <3>1. CASE me.mode \in {"initial", "next"}
        <4>1. offset' = Reached(me, run)
          BY <1>4, <2>3, <2>4, <3>1 DEF Reached
        <4>2. \A i \in 1..Reached(me, run) : Behind(i)
          BY <1>5, <2>3, <3>1 DEF NoneLeft
        <4> QED
          BY <1>6, <2>3, <4>1, <4>2
      <3>2. CASE me.mode \notin {"initial", "next"}
        BY <1>6, <2>3, <3>2 DEF BatchesKept
      <3> QED
        BY <3>1, <3>2
    <2> QED
      BY <1>1, <2>3, <2>6, <2>7, BatchesMove
  <1> QED
    BY <1>1, <1>7, <1>8, <1>9, <1>10, <1>11 DEF Journeys

LEMMA BatchesStutter ==
  ASSUME BatchesKept, UNCHANGED vars
  PROVE  BatchesKept'
  BY DEF BatchesKept, RunKept, RestKept, NoneLeft, Reached, Behind, vars, stored

(* Counters, cursor and what a batch has left belong together.             *)
THEOREM BatchesAlways == Spec => []BatchesKept
  <1>1. /\ Typed /\ Typed' /\ ArtifactsKept /\ BatchesKept /\ [Next]_vars
        => ArtifactsKept' /\ BatchesKept'
    <2> SUFFICES ASSUME Typed, Typed', ArtifactsKept, BatchesKept, [Next]_vars
                 PROVE  ArtifactsKept' /\ BatchesKept'
      OBVIOUS
    <2>1. CASE UNCHANGED vars
      BY <2>1, BatchesStutter, ArtifactsStep
    <2>2. ASSUME NEW s \in Sessions, Begin(s) \/ Step(s) \/ Fails(s) \/ Crash(s)
          PROVE  BatchesKept'
      BY <2>2, BatchesStep
    <2> QED
      BY <2>1, <2>2, ArtifactsStep DEF Next
  <1> QED
    BY <1>1, ArtifactsInit, BatchesInit, TypedAlways, PTL DEF Spec

(* `next' leaves nobody out: whatever batches fail, crash or overlap, the  *)
(* companies of the registry before the cursor have a row, but for those a *)
(* --start jumped over.                                                    *)
THEOREM CursorWithoutGap == Spec => []CursorLeavesNoGap
  <1>1. BatchesKept => CursorLeavesNoGap
    BY DEF BatchesKept, Behind, CursorLeavesNoGap
  <1> QED
    BY <1>1, BatchesAlways, PTL

-----------------------------------------------------------------------------
(* A company no two sessions were at: whoever is at it has its row as it   *)
(* is, its artifact is the object of its row unless a store is just about  *)
(* to commit another, and a parse has read what it is about to write.      *)

At(me, c) ==
    /\ me.pc \notin {"idle", "aborted"}
    /\ me.role = "batch" => me.todo # << >>
    /\ me.company = c

Fresh(me, row, objs) ==
    /\ me.pc \in {"put", "save", "read", "write"} => me.seen = row
    /\ me.pc = "save" => objs[KeyOf(me)] = me.content
    /\ me.pc = "write" => me.content = row.checksum

Stored(row, objs) == row.raw # NoKey => objs[row.raw] = row.checksum

Undisturbed(c) ==
    /\ \A s, t \in Sessions : At(session[s], c) /\ At(session[t], c) => s = t
    /\ \A s \in Sessions : At(session[s], c) => Fresh(session[s], filings[c], objects)
    /\ (\A s \in Sessions : At(session[s], c) => session[s].pc # "save")
       => Stored(filings[c], objects)
    /\ filings[c].status = "parsed" => Shows(filings[c].checksum, facts[c], pages[c])

CurrentKept ==
    /\ \A c \in Companies : filings[c].raw # NoKey => filings[c].raw.of = c
    /\ \A c \in Companies \ disturbed : Undisturbed(c)

LEMMA WorksOnMeans ==
  ASSUME NEW s, NEW c
  PROVE  WorksOn(s, c) <=> At(session[s], c)
  BY DEF WorksOn, At

LEMMA CurrentInit == Init => CurrentKept
  <1> SUFFICES ASSUME Init PROVE CurrentKept
    OBVIOUS
  <1>1. PICK corpus \in Corpora :
          LET known == {c \in Companies : corpus[c] # NoContent} IN
          /\ filings = [c \in Companies |->
               IF c \in known
               THEN [status |-> "parsed", raw |-> SeedKey(c), checksum |-> corpus[c],
                     error |-> FALSE]
               ELSE NoFiling]
          /\ objects = [k \in Key |-> IF k.of \in known /\ k = SeedKey(k.of)
                                      THEN corpus[k.of] ELSE NoContent]
          /\ facts = [c \in Companies |->
               IF corpus[c] \in Instances THEN corpus[c] ELSE NoContent]
          /\ pages = [c \in Companies |->
               IF corpus[c] \in Instances THEN NoContent ELSE corpus[c]]
    BY DEF Init
  <1>2. \A s \in Sessions : session[s].pc = "idle"
    BY IdleFields DEF Init
  <1>3. ASSUME NEW c \in Companies
        PROVE  /\ filings[c].raw # NoKey => filings[c].raw.of = c
               /\ Stored(filings[c], objects)
               /\ filings[c].status = "parsed" => Shows(filings[c].checksum, facts[c], pages[c])
    <2>1. CASE corpus[c] # NoContent
      <3>1. filings[c] = [status |-> "parsed", raw |-> SeedKey(c), checksum |-> corpus[c],
                          error |-> FALSE]
        BY <1>1, <2>1
      <3>2. filings[c].raw = SeedKey(c) /\ filings[c].checksum = corpus[c]
        BY <3>1
      <3>3. SeedKey(c) \in Key /\ SeedKey(c).of = c /\ SeedKey(c) # NoKey
        BY SeedTyped, KeysAreKeys
      <3>4. objects[SeedKey(c)] = corpus[c]
        BY <1>1, <2>1, <3>3
      <3>5. Shows(corpus[c], facts[c], pages[c])
        BY <1>1 DEF Shows
      <3> QED
        BY <3>2, <3>3, <3>4, <3>5 DEF Stored
    <2>2. CASE corpus[c] = NoContent
      <3>1. filings[c] = NoFiling
        BY <1>1, <2>2
      <3> QED
        BY <3>1, NoFilingTyped DEF Stored
    <2> QED
      BY <2>1, <2>2
  <1> QED
    BY <1>2, <1>3 DEF CurrentKept, Undisturbed, At

LEMMA DisturbedGrows ==
  ASSUME Typed, NEW s \in Sessions, Begin(s) \/ Step(s) \/ Fails(s) \/ Crash(s)
  PROVE  disturbed \subseteq disturbed'
  <1>1. CASE Begin(s)
    <2>1. Touched \subseteq Companies
      BY AcquisitionAssumption
    <2> QED
      BY <1>1, <2>1, StartBatchMeans, EnterMeans DEF Begin, StartTask, StartUpload, StartParse
  <1>2. CASE Fails(s) \/ Crash(s)
    BY <1>2, LeaveMeans DEF Fails, FailBatch, FailTask, FailRequest, Crash
  <1>3. CASE Step(s)
    <2>1. \/ UNCHANGED disturbed
          \/ Done(s) /\ session[s].pc # "company"
      BY <1>3 DEF Step, RegisterCompany, FinishBatch, RecordMissing, LookupFiling, PutObject,
         SaveFiling, ReadArtifact, WriteFacts, FetchArtifact, SaveCursor
    <2> QED
      BY <2>1, DoneMeans
  <1> QED
    BY <1>1, <1>2, <1>3

LEMMA OneNext ==
  ASSUME Typed, NEW s \in Sessions, NEW q, NEW p, Becomes(s, q), Becomes(s, p)
  PROVE  q = p
  BY DEF Becomes, Typed, TypeOK

(* A session that begins: where it is, and who else is there.              *)
LEMMA ArrivesBegin ==
  ASSUME Typed, Typed', NEW s \in Sessions, Begin(s),
         NEW q \in Session, Becomes(s, q), NEW c \in Companies, At(q, c)
  PROVE  /\ \A t \in Sessions \ {s} : At(session[t], c) => c \in disturbed'
         /\ q.pc \notin {"put", "save", "write"}
         /\ q.pc = "read" => q.seen = filings[c]
  <1>1. CASE \E mode \in {"initial", "next", "refresh"}, limit \in Limits, start \in Starts :
               StartBatch(s, mode, limit, start)
    <2>1. PICK mode \in {"initial", "next", "refresh"}, limit \in Limits, start \in Starts :
            StartBatch(s, mode, limit, start)
      BY <1>1
    <2>2. PICK from : from = StartOffset(mode, start)
      OBVIOUS
    <2>3. PICK chosen : chosen = Selected(mode, from, limit)
      OBVIOUS
    <2>4. /\ from \in Nat /\ chosen \in Seq(Companies)
          /\ Becomes(s, FirstCompany(mode, from, chosen))
          /\ chosen # << >> => Enter(s, Head(chosen))
      BY <2>1, <2>2, <2>3, StartBatchMeans
    <2>5. q = FirstCompany(mode, from, chosen)
      BY <2>4, OneNext
    <2>6. /\ q.role = "batch" /\ q.pc = "company" /\ q.todo = chosen
          /\ chosen # << >> => q.company = Head(chosen)
      BY <2>4, <2>5, FirstCompanyTyped
    <2>7. Enter(s, c)
      BY <2>4, <2>6 DEF At
    <2> QED
      BY <2>6, <2>7, EnterMeans, WorksOnMeans
  <1>2. CASE \E k \in Touched : StartTask(s, k) \/ StartUpload(s, k) \/ StartParse(s, k)
    <2>1. PICK k \in Touched : StartTask(s, k) \/ StartUpload(s, k) \/ StartParse(s, k)
      BY <1>2
    <2>2. k \in Companies
      BY AcquisitionAssumption
    <2>3. /\ q.company = k /\ q.pc \in {"fetch", "lookup", "read"}
          /\ q.pc = "read" => q.seen = filings[k]
      <3>1. CASE StartTask(s, k)
        <4> DEFINE next == [Idle EXCEPT !.role = "task", !.pc = "fetch", !.company = k]
        <4>1. Becomes(s, next)
          BY <3>1 DEF StartTask
        <4>2. next.pc = "fetch" /\ next.company = k
          BY IdleTyped DEF Session
        <4> HIDE DEF next
        <4>3. q = next
          BY <4>1, OneNext
        <4> QED
          BY <4>2, <4>3
      <3>2. CASE StartUpload(s, k)
        <4>1. PICK name \in Names, content \in Brought :
                Becomes(s, [Idle EXCEPT !.role = "upload", !.pc = "lookup", !.company = k,
                                        !.by = companies[k], !.name = name,
                                        !.content = content])
          BY <3>2 DEF StartUpload
        <4> DEFINE next == [Idle EXCEPT !.role = "upload", !.pc = "lookup", !.company = k,
                                        !.by = companies[k], !.name = name,
                                        !.content = content]
        <4>2. Becomes(s, next)
          BY <4>1
        <4>3. next.pc = "lookup" /\ next.company = k
          BY IdleTyped DEF Session
        <4> HIDE DEF next
        <4>4. q = next
          BY <4>2, OneNext
        <4> QED
          BY <4>3, <4>4
      <3>3. CASE StartParse(s, k)
        <4> DEFINE next == [Idle EXCEPT !.role = "parse", !.pc = "read", !.company = k,
                                        !.seen = filings[k]]
        <4>1. Becomes(s, next)
          BY <3>3 DEF StartParse
        <4>2. next.pc = "read" /\ next.company = k /\ next.seen = filings[k]
          BY IdleTyped DEF Session
        <4> HIDE DEF next
        <4>3. q = next
          BY <4>1, OneNext
        <4> QED
          BY <4>2, <4>3
      <3> QED
        BY <2>1, <3>1, <3>2, <3>3
    <2>4. k = c
      BY <2>3 DEF At
    <2>5. Enter(s, c)
      BY <2>1, <2>4 DEF StartTask, StartUpload, StartParse
    <2> QED
      BY <2>3, <2>4, <2>5, EnterMeans, WorksOnMeans
  <1> QED
    BY <1>1, <1>2 DEF Begin

(* A session that is done, or that fails, and the company it is at next.   *)
LEMMA ArrivesDone ==
  ASSUME Typed, Typed', NEW s \in Sessions, Done(s), session[s].pc # "company",
         NEW q \in Session, Becomes(s, q), NEW c \in Companies, At(q, c)
  PROVE  /\ \A t \in Sessions \ {s} : At(session[t], c) => c \in disturbed'
         /\ q.pc = "company"
  <1>1. PICK me \in Session : me = session[s]
    BY SessionTyped
  <1>2. Becomes(s, Finished(me)) /\ (me.role = "batch" => me.todo # << >>)
    BY <1>1, DoneMeans
  <1>3. q = Finished(me)
    BY <1>2, OneNext
  <1>4. me.role = "batch"
    BY <1>3, IdleFields DEF Finished, At
  <1>5. q = NextCompany(me)
    BY <1>3, <1>4 DEF Finished
  <1>6. /\ q.role = "batch" /\ q.pc = "company" /\ q.todo = Tail(me.todo)
        /\ q.todo # << >> => q.company = Head(q.todo)
    BY <1>2, <1>4, <1>5, NextCompanyTyped
  <1>7. Onward(s)
    BY <1>1, <1>4 DEF Done
  <1>8. Enter(s, c)
    BY <1>1, <1>6, <1>7, OnwardMeans DEF At
  <1> QED
    BY <1>6, <1>8, EnterMeans, WorksOnMeans

(* A session works at its own company only.                                *)
LEMMA AtOwn ==
  ASSUME Typed, NEW s \in Sessions, session[s].pc \notin {"idle", "aborted", "company"}
  PROVE  At(session[s], session[s].company)
  BY SessionTyped DEF At, Shaped

LEMMA RowsElsewhere ==
  ASSUME Typed, NEW s \in Sessions, Begin(s) \/ Step(s) \/ Fails(s) \/ Crash(s),
         NEW c \in Companies, ~At(session[s], c)
  PROVE  /\ filings'[c] = filings[c] /\ facts'[c] = facts[c] /\ pages'[c] = pages[c]
         /\ \A k \in Key : k.of = c => objects'[k] = objects[k]
  <1> DEFINE me == session[s]
  <1>1. /\ me.company \in Companies /\ Shaped(me) /\ KeyOf(me) \in Key
        /\ KeyOf(me).of = me.company
    BY SessionTyped
  <1>2. CASE RecordMissing(s) \/ SaveFiling(s) \/ WriteFacts(s) \/ PutObject(s)
    <2>1. me.company # c
      <3>1. me.pc \notin {"idle", "aborted", "company"}
        BY <1>2 DEF RecordMissing, SaveFiling, WriteFacts, PutObject
      <3> QED
        BY <3>1, AtOwn
    <2> QED
      BY <1>1, <1>2, <2>1
      DEF RecordMissing, SaveFiling, WriteFacts, PutObject, Typed, TypeOK
  <1>3. CASE FailTask(s)
    <2>1. me.role = "task"
      BY <1>3 DEF FailTask
    <2>2. me.company # c
      BY <1>1, <2>1, AtOwn DEF Shaped
    <2> QED
      BY <1>1, <1>3, <2>2 DEF FailTask, Typed, TypeOK
  <1>4. CASE ~(RecordMissing(s) \/ SaveFiling(s) \/ WriteFacts(s) \/ PutObject(s) \/ FailTask(s))
    <2>1. UNCHANGED <<filings, objects, facts, pages>>
      BY <1>4 DEF Begin, StartBatch, StartTask, StartUpload, StartParse, Step, RegisterCompany,
         FinishBatch, LookupFiling, ReadArtifact, FetchArtifact, SaveCursor, Fails,
         FailBatch, FailRequest, Crash, stored
    <2> QED
      BY <2>1
  <1> QED
    BY <1>2, <1>3, <1>4

LEMMA UndisturbedOwn ==
  ASSUME Typed, NEW s \in Sessions, NEW q \in Session, Becomes(s, q),
         NEW c \in Companies, Undisturbed(c), At(session[s], c),
         At(q, c) => Fresh(q, filings'[c], objects'),
         ~(At(q, c) /\ q.pc = "save") => Stored(filings'[c], objects'),
         filings'[c].status = "parsed" => Shows(filings'[c].checksum, facts'[c], pages'[c])
  PROVE  Undisturbed(c)'
  <1>1. \A t \in Sessions \ {s} : ~At(session[t], c) /\ session'[t] = session[t]
    BY DEF Undisturbed, Becomes, Typed, TypeOK
  <1>2. session'[s] = q
    BY DEF Becomes, Typed, TypeOK
  <1>3. \A t \in Sessions : At(session'[t], c) => t = s
    BY <1>1
  <1> QED
    BY <1>2, <1>3 DEF Undisturbed, At, Fresh, Stored, KeyOf

LEMMA UndisturbedElsewhere ==
  ASSUME Typed, CurrentKept, NEW s \in Sessions,
         Begin(s) \/ Step(s) \/ Fails(s) \/ Crash(s),
         NEW q \in Session, Becomes(s, q),
         NEW c \in Companies, Undisturbed(c), ~At(session[s], c),
         At(q, c) => \A t \in Sessions \ {s} : ~At(session[t], c),
         At(q, c) => q.pc \notin {"put", "save", "write"},
         At(q, c) /\ q.pc = "read" => q.seen = filings[c]
  PROVE  Undisturbed(c)'
  <1>1. /\ filings'[c] = filings[c] /\ facts'[c] = facts[c] /\ pages'[c] = pages[c]
        /\ \A k \in Key : k.of = c => objects'[k] = objects[k]
    BY RowsElsewhere
  <1>2. session'[s] = q /\ \A t \in Sessions \ {s} : session'[t] = session[t]
    BY DEF Becomes, Typed, TypeOK
  <1>3. \A t, u \in Sessions : At(session'[t], c) /\ At(session'[u], c) => t = u
    BY <1>2 DEF Undisturbed
  <1>4. ASSUME NEW t \in Sessions, At(session'[t], c)
        PROVE  Fresh(session'[t], filings'[c], objects')
    <2>1. CASE t = s
      BY <1>1, <1>2, <1>4, <2>1 DEF Fresh
    <2>2. CASE t # s
      <3>1. session'[t] = session[t]
        BY <1>2, <2>2
      <3>2. Fresh(session[t], filings[c], objects)
        BY <1>4, <3>1 DEF Undisturbed
      <3>3. KeyOf(session[t]) \in Key /\ KeyOf(session[t]).of = c
        BY <1>4, <3>1, SessionTyped DEF At
      <3> QED
        BY <1>1, <3>1, <3>2, <3>3 DEF Fresh
    <2> QED
      BY <2>1, <2>2
  <1>5. ASSUME \A t \in Sessions : At(session'[t], c) => session'[t].pc # "save"
        PROVE  Stored(filings'[c], objects')
    <2>1. \A t \in Sessions : At(session[t], c) => session[t].pc # "save"
      BY <1>2, <1>5
    <2>2. Stored(filings[c], objects)
      BY <2>1 DEF Undisturbed
    <2>3. filings[c].raw # NoKey => filings[c].raw \in Key /\ filings[c].raw.of = c
      BY DEF CurrentKept, Typed, TypeOK, Filing
    <2> QED
      BY <1>1, <2>2, <2>3 DEF Stored
  <1>6. filings'[c].status = "parsed" => Shows(filings'[c].checksum, facts'[c], pages'[c])
    BY <1>1 DEF Undisturbed
  <1> QED
    BY <1>3, <1>4, <1>5, <1>6 DEF Undisturbed, At, Fresh, Stored, KeyOf

(* Where a session may come to be at a company it was not at.              *)
LEMMA Arrives ==
  ASSUME Typed, Typed', NEW s \in Sessions, Begin(s) \/ Step(s) \/ Fails(s) \/ Crash(s),
         NEW q \in Session, Becomes(s, q), NEW c \in Companies, At(q, c), ~At(session[s], c)
  PROVE  /\ \A t \in Sessions \ {s} : At(session[t], c) => c \in disturbed'
         /\ q.pc \notin {"put", "save", "write"}
         /\ q.pc = "read" => q.seen = filings[c]
  <1>1. PICK me \in Session : me = session[s] /\ Shaped(me)
    BY SessionTyped
  <1>2. CASE Begin(s)
    BY <1>2, ArrivesBegin
  <1>3. CASE session[s].pc # "company" /\ Done(s)
    BY <1>3, ArrivesDone
  <1>4. ASSUME NEW p, Becomes(s, p), p.role = me.role, p.todo = me.todo,
               p.company = me.company, me.pc \notin {"idle", "aborted"}
        PROVE  FALSE
    <2>1. p = q
      BY <1>4, OneNext
    <2> QED
      BY <1>1, <1>4, <2>1 DEF At
  <1>5. CASE RegisterCompany(s) \/ FetchArtifact(s)
    <2>1. me.pc \notin {"idle", "aborted"}
      BY <1>1, <1>5 DEF RegisterCompany, FetchArtifact
    <2> QED
      BY <1>1, <1>4, <1>5, <2>1, RegisterMeans, FetchMeans
  <1>6. CASE FinishBatch(s) \/ FailRequest(s) \/ Crash(s)
    <2>1. Becomes(s, Idle)
      BY <1>6 DEF FinishBatch, FailRequest, Crash
    <2>2. q = Idle
      BY <2>1, OneNext
    <2> QED
      BY <2>2, IdleFields DEF At
  <1>7. CASE FailBatch(s)
    <2> DEFINE next == [Idle EXCEPT !.pc = "aborted", !.todo = session[s].todo]
    <2>1. next.pc = "aborted"
      BY IdleTyped DEF Session
    <2>2. Becomes(s, next)
      BY <1>7 DEF FailBatch
    <2> HIDE DEF next
    <2>3. q = next
      BY <2>2, OneNext
    <2> QED
      BY <2>1, <2>3 DEF At
  <1>8. CASE FailTask(s)
    <2>1. /\ me.role = "task"
          /\ Becomes(s, Retried(me)) \/ Becomes(s, Idle)
      BY <1>1, <1>8 DEF FailTask
    <2>2. q = Retried(me) \/ q = Idle
      BY <2>1, OneNext
    <2>3. Retried(me).company = me.company /\ Retried(me).role = "task"
      BY IdleTyped DEF Retried, Session
    <2>4. me.pc \notin {"idle", "aborted"}
      BY <1>1, <2>1 DEF Shaped
    <2> QED
      BY <1>1, <2>1, <2>2, <2>3, <2>4, IdleFields DEF At
  <1>9. CASE /\ \/ LookupFiling(s) \/ PutObject(s) \/ SaveFiling(s)
                \/ ReadArtifact(s) \/ SaveCursor(s)
             /\ ~(session[s].pc # "company" /\ Done(s))
    <2>1. /\ me.pc \in {"lookup", "put", "save", "read", "cursor"}
          /\ \/ \E pc, seen : Becomes(s, Seeing(me, pc, seen))
             \/ \E pc : Becomes(s, [me EXCEPT !.pc = pc])
             \/ \E content : Becomes(s, Reading(me, content))
      <3>1. CASE LookupFiling(s)
        BY <1>1, <1>9, <3>1 DEF LookupFiling, Seeing
      <3>2. CASE PutObject(s)
        BY <1>1, <3>2 DEF PutObject
      <3>3. CASE SaveFiling(s)
        BY <1>1, <1>9, <3>3 DEF SaveFiling, Seeing
      <3>4. CASE ReadArtifact(s)
        BY <1>1, <3>4 DEF ReadArtifact, Reading
      <3>5. CASE SaveCursor(s)
        BY <1>1, <3>5 DEF SaveCursor
      <3> QED
        BY <1>9, <3>1, <3>2, <3>3, <3>4, <3>5
    <2>2. CASE \E pc, seen : Becomes(s, Seeing(me, pc, seen))
      <3>1. PICK pc, seen : Becomes(s, Seeing(me, pc, seen))
        BY <2>2
      <3>2. /\ Seeing(me, pc, seen).role = me.role /\ Seeing(me, pc, seen).todo = me.todo
            /\ Seeing(me, pc, seen).company = me.company
        BY DEF Seeing, Session
      <3> QED
        BY <1>4, <2>1, <3>1, <3>2
    <2>3. CASE \E pc : Becomes(s, [me EXCEPT !.pc = pc])
      <3>1. PICK pc : Becomes(s, [me EXCEPT !.pc = pc])
        BY <2>3
      <3> DEFINE p == [me EXCEPT !.pc = pc]
      <3>2. p.role = me.role /\ p.todo = me.todo /\ p.company = me.company
        BY DEF Session
      <3>3. Becomes(s, p)
        BY <3>1
      <3> HIDE DEF p
      <3> QED
        BY <1>4, <2>1, <3>2, <3>3
    <2>4. CASE \E content : Becomes(s, Reading(me, content))
      <3>1. PICK content : Becomes(s, Reading(me, content))
        BY <2>4
      <3>2. /\ Reading(me, content).role = me.role /\ Reading(me, content).todo = me.todo
            /\ Reading(me, content).company = me.company
        BY DEF Reading, Session
      <3> QED
        BY <1>4, <2>1, <3>1, <3>2
    <2> QED
      BY <2>1, <2>2, <2>3, <2>4
  <1>10. (RecordMissing(s) \/ WriteFacts(s)) => session[s].pc # "company" /\ Done(s)
    BY DEF RecordMissing, WriteFacts
  <1> QED
    BY <1>2, <1>3, <1>5, <1>6, <1>7, <1>8, <1>9, <1>10 DEF Step, Fails

(* What a session does to the company it is at.                            *)
LEMMA AtWork ==
  ASSUME Typed, Typed', ArtifactsKept, CurrentKept, NEW s \in Sessions,
         Begin(s) \/ Step(s) \/ Fails(s) \/ Crash(s),
         NEW q \in Session, Becomes(s, q),
         NEW c \in Companies, Undisturbed(c), At(session[s], c), c \notin disturbed'
  PROVE  /\ At(q, c) => Fresh(q, filings'[c], objects')
         /\ ~(At(q, c) /\ q.pc = "save") => Stored(filings'[c], objects')
         /\ filings'[c].status = "parsed" => Shows(filings'[c].checksum, facts'[c], pages'[c])
  <1>1. PICK me \in Session : me = session[s] /\ Shaped(me)
    BY SessionTyped
  <1>2. /\ me.company = c /\ me.pc \notin {"idle", "aborted"}
        /\ me.role = "batch" => me.todo # << >>
        /\ filings[c] \in Filing /\ me.seen \in Filing /\ KeyOf(me) \in Key
        /\ me.content \in Contents \cup {NoContent}
    BY <1>1, SessionTyped DEF At
  <1>3. Fresh(me, filings[c], objects)
    BY <1>1 DEF Undisturbed
  <1>4. me.pc # "save" => Stored(filings[c], objects)
    BY <1>1 DEF Undisturbed
  <1>5. filings[c].status = "parsed" => Shows(filings[c].checksum, facts[c], pages[c])
    BY DEF Undisturbed
  <1>6. ASSUME q.pc \notin {"put", "save", "read", "write"}, NEW row, NEW objs
        PROVE  Fresh(q, row, objs)
    BY <1>6 DEF Fresh
  <1>7. ASSUME me.pc # "company", Done(s)
        PROVE  q.pc \in {"idle", "company"}
    <2>1. Becomes(s, Finished(me))
      BY <1>1, <1>7, DoneMeans
    <2>2. q = Finished(me)
      BY <2>1, OneNext
    <2> QED
      BY <1>2, <2>2, FinishedFields
  <1>8. CASE Begin(s)
    <2>1. Open(s)
      BY <1>8 DEF Begin, StartBatch, StartTask, StartUpload, StartParse
    <2> QED
      BY <1>1, <1>2, <2>1, OpenMeans
  <1>9. CASE Fails(s) \/ Crash(s)
    <2>1. Leave(s) /\ objects' = objects /\ facts' = facts /\ pages' = pages
      BY <1>9 DEF Fails, FailBatch, FailTask, FailRequest, Crash, stored
    <2>2. me.pc # "save"
      BY <1>1, <1>2, <2>1, LeaveMeans
    <2>3. /\ filings'[c].raw = filings[c].raw /\ filings'[c].checksum = filings[c].checksum
          /\ filings'[c].status \in {filings[c].status, "error"}
      <3>1. CASE FailTask(s)
        <4>1. filings' \in {filings, [filings EXCEPT ![c] = WithStatus(filings[c], "error")]}
          BY <1>1, <1>2, <3>1 DEF FailTask
        <4>2. CASE filings' = [filings EXCEPT ![c] = WithStatus(filings[c], "error")]
          <5>1. filings'[c] = WithStatus(filings[c], "error")
            BY <4>2 DEF Typed, TypeOK
          <5> QED
            BY <1>2, <5>1, WithStatusTyped
        <4> QED
          BY <4>1, <4>2
      <3>2. CASE ~FailTask(s)
        <4>1. filings' = filings
          BY <1>9, <3>2 DEF Fails, FailBatch, FailRequest, Crash, stored
        <4> QED
          BY <4>1
      <3> QED
        BY <3>1, <3>2
    <2>4. q.pc \in {"idle", "aborted", "fetch"}
      <3>1. CASE FailBatch(s)
        <4> DEFINE next == [Idle EXCEPT !.pc = "aborted", !.todo = session[s].todo]
        <4>1. next.pc = "aborted"
          BY IdleTyped DEF Session
        <4>2. Becomes(s, next)
          BY <3>1 DEF FailBatch
        <4> HIDE DEF next
        <4>3. q = next
          BY <4>2, OneNext
        <4> QED
          BY <4>1, <4>3
      <3>2. CASE FailTask(s)
        <4>1. Becomes(s, Retried(me)) \/ Becomes(s, Idle)
          BY <1>1, <3>2 DEF FailTask
        <4>2. q = Retried(me) \/ q = Idle
          BY <4>1, OneNext
        <4>3. Retried(me).pc = "fetch"
          BY IdleTyped DEF Retried, Session
        <4> QED
          BY <4>2, <4>3, IdleFields
      <3>3. CASE FailRequest(s) \/ Crash(s)
        <4>1. q = Idle
          BY <3>3, OneNext DEF FailRequest, Crash
        <4> QED
          BY <4>1, IdleFields
      <3> QED
        BY <1>9, <3>1, <3>2, <3>3 DEF Fails
    <2> QED
      BY <1>4, <1>5, <1>6, <2>1, <2>2, <2>3, <2>4 DEF Stored
  <1>10. CASE RegisterCompany(s) \/ FetchArtifact(s) \/ SaveCursor(s)
    <2>1. UNCHANGED <<filings, objects, facts, pages>> /\ me.pc \in {"company", "fetch", "cursor"}
      BY <1>1, <1>10 DEF RegisterCompany, FetchArtifact, SaveCursor, stored
    <2>2. q.pc \in {"missing", "lookup", "cursor"}
      <3>1. CASE RegisterCompany(s) \/ FetchArtifact(s)
        BY <3>1, RegisterMeans, FetchMeans, OneNext
      <3>2. CASE SaveCursor(s)
        <4> DEFINE p == [me EXCEPT !.pc = IF me.content = NoContent THEN "missing" ELSE "lookup"]
        <4>1. Becomes(s, p)
          BY <1>1, <3>2 DEF SaveCursor
        <4>2. p.pc \in {"missing", "lookup"}
          BY DEF Session
        <4> HIDE DEF p
        <4>3. q = p
          BY <4>1, OneNext
        <4> QED
          BY <4>2, <4>3
      <3> QED
        BY <1>10, <3>1, <3>2
    <2> QED
      BY <1>4, <1>5, <1>6, <2>1, <2>2
  <1>11. CASE FinishBatch(s)
    BY <1>1, <1>2, <1>11 DEF FinishBatch
  <1>12. CASE RecordMissing(s)
    <2>1. /\ me.pc = "missing" /\ Done(s) /\ UNCHANGED <<objects, facts, pages>>
          /\ filings' = [filings EXCEPT ![c] = WithStatus(filings[c], "missing")]
      BY <1>1, <1>2, <1>12 DEF RecordMissing
    <2>2. filings'[c] = WithStatus(filings[c], "missing")
      BY <2>1 DEF Typed, TypeOK
    <2>3. /\ filings'[c].raw = filings[c].raw /\ filings'[c].checksum = filings[c].checksum
          /\ filings'[c].status = "missing"
      BY <1>2, <2>2, WithStatusTyped
    <2> QED
      BY <1>4, <1>6, <1>7, <2>1, <2>3 DEF Stored
  <1>13. CASE LookupFiling(s)
    <2>1. /\ me.pc = "lookup" /\ UNCHANGED <<filings, objects, facts, pages>>
          /\ \/ Done(s)
             \/ Becomes(s, Seeing(me, "read", filings[c]))
             \/ Becomes(s, Seeing(me, "put", filings[c]))
      BY <1>1, <1>2, <1>13 DEF LookupFiling, stored, Seeing
    <2>2. CASE Done(s)
      BY <1>4, <1>5, <1>6, <1>7, <2>1, <2>2
    <2>3. CASE \/ Becomes(s, Seeing(me, "read", filings[c]))
               \/ Becomes(s, Seeing(me, "put", filings[c]))
      <3>1. q = Seeing(me, "read", filings[c]) \/ q = Seeing(me, "put", filings[c])
        BY <2>3, OneNext
      <3>2. q.pc \in {"read", "put"} /\ q.seen = filings[c]
        BY <3>1 DEF Seeing, Session
      <3>3. Fresh(q, filings'[c], objects')
        BY <2>1, <3>2 DEF Fresh
      <3> QED
        BY <1>4, <1>5, <2>1, <3>2, <3>3
    <2> QED
      BY <2>1, <2>2, <2>3
  <1>14. CASE PutObject(s)
    <2> DEFINE p == [me EXCEPT !.pc = "save"]
    <2>1. /\ me.pc = "put" /\ Becomes(s, p) /\ UNCHANGED <<filings, facts, pages>>
          /\ objects' = [objects EXCEPT ![KeyOf(me)] = me.content]
      BY <1>1, <1>14 DEF PutObject
    <2>2. me.content # NoContent
      BY <1>1, <2>1 DEF Shaped
    <2>3. /\ p.pc = "save" /\ p.seen = me.seen /\ p.content = me.content
          /\ KeyOf(p) = KeyOf(me) /\ p.company = c /\ p.role = me.role /\ p.todo = me.todo
      BY <1>1, <1>2, <2>1, <2>2, GoesToTyped
    <2> HIDE DEF p
    <2>4. q = p
      BY <2>1, OneNext
    <2>5. objects'[KeyOf(me)] = me.content
      BY <1>2, <2>1 DEF Typed, TypeOK
    <2>6. Fresh(q, filings'[c], objects')
      BY <1>3, <2>1, <2>3, <2>4, <2>5 DEF Fresh
    <2>7. At(q, c) /\ q.pc = "save"
      BY <1>2, <2>3, <2>4 DEF At
    <2> QED
      BY <1>5, <2>1, <2>6, <2>7
  <1>15. CASE SaveFiling(s)
    <2>1. PICK row \in Filing :
            /\ row = SavedRow(me, filings[c])
            /\ me.pc = "save"
            /\ filings' = [filings EXCEPT ![c] = row]
            /\ Done(s) \/ Becomes(s, Seeing(me, "read", row))
      BY <1>1, <1>2, <1>15, SavedMeans DEF Seeing
    <2>2. filings'[c] = row /\ objects' = objects
      BY <1>15, <2>1 DEF SaveFiling, Typed, TypeOK
    <2>3. me.seen = filings[c] /\ objects[KeyOf(me)] = me.content
      BY <1>3, <2>1 DEF Fresh
    <2>4. row.status = "fetched" /\ row.raw = KeyOf(me) /\ row.checksum = me.content
      <3>1. /\ Fetched(me) \in Filing /\ Fetched(me).status = "fetched"
            /\ Fetched(me).raw = KeyOf(me) /\ Fetched(me).checksum = me.content
        BY FetchedTyped
      <3>2. CASE me.seen = NoFiling
        BY <2>1, <3>1, <3>2 DEF SavedRow
      <3>3. CASE me.seen # NoFiling
        <4>1. row = Flushed(filings[c], me.seen, Fetched(me))
          BY <2>1, <3>3 DEF SavedRow
        <4> QED
          BY <1>2, <2>3, <3>1, <4>1, FlushedTyped
      <3> QED
        BY <3>2, <3>3
    <2>5. Stored(filings'[c], objects')
      BY <2>2, <2>3, <2>4 DEF Stored
    <2>6. Fresh(q, filings'[c], objects')
      <3>1. CASE Done(s)
        BY <1>6, <1>7, <2>1, <3>1
      <3>2. CASE Becomes(s, Seeing(me, "read", row))
        <4>1. q = Seeing(me, "read", row)
          BY <3>2, OneNext
        <4>2. q.pc = "read" /\ q.seen = row
          BY <4>1 DEF Seeing, Session
        <4> QED
          BY <2>2, <4>2 DEF Fresh
      <3> QED
        BY <2>1, <3>1, <3>2
    <2> QED
      BY <2>2, <2>4, <2>5, <2>6
  <1>16. CASE ReadArtifact(s)
    <2>1. /\ me.pc = "read" /\ Becomes(s, Reading(me, objects[me.seen.raw]))
          /\ Parseable(me.seen) /\ UNCHANGED <<filings, objects, facts, pages>>
      BY <1>1, <1>16 DEF ReadArtifact, stored, Reading
    <2>2. PICK content : content = objects[me.seen.raw]
      OBVIOUS
    <2>3. q = Reading(me, content)
      BY <2>1, <2>2, OneNext
    <2>4. q.pc = "write" /\ q.seen = me.seen /\ q.content = content
      BY <2>3 DEF Reading, Session
    <2>5. me.seen = filings[c]
      BY <1>3, <2>1 DEF Fresh
    <2>6. content = filings[c].checksum
      BY <1>4, <2>1, <2>2, <2>5 DEF Stored, Parseable
    <2>7. Fresh(q, filings'[c], objects')
      BY <2>1, <2>4, <2>5, <2>6 DEF Fresh
    <2> QED
      BY <1>4, <1>5, <2>1, <2>4, <2>7
  <1>17. CASE WriteFacts(s)
    <2>1. /\ me.pc = "write" /\ Done(s) /\ UNCHANGED objects
          /\ IF me.content \in Instances
             THEN facts' = [facts EXCEPT ![c] = me.content] /\ pages' = pages
             ELSE pages' = [pages EXCEPT ![c] = me.content] /\ facts' = facts
          /\ filings' = [filings EXCEPT ![c] = ParsedRow(me, filings[c])]
      BY <1>1, <1>2, <1>17, WriteMeans
    <2>2. filings'[c] = ParsedRow(me, filings[c])
      BY <2>1 DEF Typed, TypeOK
    <2>5. Shows(me.content, facts'[c], pages'[c])
      BY <2>1 DEF Shows, Typed, TypeOK
    <2>3. filings'[c].raw = filings[c].raw /\ filings'[c].checksum = filings[c].checksum
      BY <1>2, <2>2, ParsedMeans
    <2>4. me.content = filings[c].checksum
      BY <1>3, <2>1 DEF Fresh
    <2> QED
      BY <1>4, <1>6, <1>7, <2>1, <2>3, <2>4, <2>5 DEF Stored
  <1> QED
    BY <1>8, <1>9, <1>10, <1>11, <1>12, <1>13, <1>14, <1>15, <1>16, <1>17 DEF Step

(* An artifact lies under its own company's key.                           *)
LEMMA RawsOwn ==
  ASSUME Typed, Typed', CurrentKept, NEW s \in Sessions,
         Begin(s) \/ Step(s) \/ Fails(s) \/ Crash(s),
         NEW c \in Companies, filings'[c].raw # NoKey
  PROVE  filings'[c].raw.of = c
  <1> DEFINE me == session[s]
  <1>1. /\ me \in Session /\ me.company \in Companies /\ filings[me.company] \in Filing
        /\ KeyOf(me).of = me.company /\ me.seen \in Filing
    BY SessionTyped
  <1>2. filings[c].raw # NoKey => filings[c].raw.of = c
    BY DEF CurrentKept
  <1>3. CASE filings'[c].raw = filings[c].raw
    BY <1>2, <1>3
  <1>4. CASE SaveFiling(s)
    <2>1. PICK row \in Filing :
            /\ row = SavedRow(me, filings[me.company])
            /\ filings' = [filings EXCEPT ![me.company] = row]
      BY <1>4, SavedMeans
    <2>2. row.raw \in {KeyOf(me), filings[me.company].raw}
      <3>1. Fetched(me) \in Filing /\ Fetched(me).raw = KeyOf(me)
        BY <1>1, FetchedTyped
      <3> QED
        BY <1>1, <2>1, <3>1, FlushedTyped DEF SavedRow
    <2> QED
      BY <1>1, <1>2, <2>1, <2>2 DEF Typed, TypeOK
  <1>5. CASE ~SaveFiling(s)
    <2>1. \/ filings' = filings
          \/ filings' = [filings EXCEPT ![me.company] = WithStatus(filings[me.company], "missing")]
          \/ filings' = [filings EXCEPT ![me.company] = WithStatus(filings[me.company], "error")]
          \/ filings' = [filings EXCEPT ![me.company] = ParsedRow(me, filings[me.company])]
      BY <1>5, WriteMeans
      DEF Begin, StartBatch, StartTask, StartUpload, StartParse, Step, RegisterCompany,
         FinishBatch, RecordMissing, LookupFiling, PutObject, ReadArtifact, FetchArtifact,
         SaveCursor, Fails, FailBatch, FailTask, FailRequest, Crash, stored
    <2>2. /\ WithStatus(filings[me.company], "missing").raw = filings[me.company].raw
          /\ WithStatus(filings[me.company], "error").raw = filings[me.company].raw
          /\ ParsedRow(me, filings[me.company]).raw = filings[me.company].raw
      BY <1>1, WithStatusTyped, ParsedMeans
    <2>3. filings'[c].raw = filings[c].raw
      BY <1>1, <2>1, <2>2 DEF Typed, TypeOK
    <2> QED
      BY <1>3, <2>3
  <1> QED
    BY <1>4, <1>5

LEMMA CurrentStep ==
  ASSUME Typed, Typed', ArtifactsKept, CurrentKept, NEW s \in Sessions,
         Begin(s) \/ Step(s) \/ Fails(s) \/ Crash(s)
  PROVE  CurrentKept'
  <1>1. PICK q \in Session : Becomes(s, q)
    BY JourneyMeans
  <1>2. ASSUME NEW c \in Companies, c \notin disturbed' PROVE Undisturbed(c)'
    <2>1. Undisturbed(c)
      BY <1>2, DisturbedGrows DEF CurrentKept
    <2>2. CASE At(session[s], c)
      BY <1>1, <1>2, <2>1, <2>2, AtWork, UndisturbedOwn
    <2>3. CASE ~At(session[s], c)
      BY <1>1, <1>2, <2>1, <2>3, Arrives, UndisturbedElsewhere
    <2> QED
      BY <2>2, <2>3
  <1> QED
    BY <1>2, RawsOwn DEF CurrentKept

(* A company no two sessions were at is as its row says.                   *)
THEOREM CurrentAlways == Spec => [](ArtifactsKept /\ CurrentKept)
  <1>1. /\ Typed /\ Typed' /\ ArtifactsKept /\ CurrentKept /\ [Next]_vars
        => ArtifactsKept' /\ CurrentKept'
    <2> SUFFICES ASSUME Typed, Typed', ArtifactsKept, CurrentKept, [Next]_vars
                 PROVE  ArtifactsKept' /\ CurrentKept'
      OBVIOUS
    <2>1. CASE UNCHANGED vars
      BY <2>1, ArtifactsStep
      DEF CurrentKept, Undisturbed, At, Fresh, Stored, KeyOf, vars, stored
    <2>2. ASSUME NEW s \in Sessions, Begin(s) \/ Step(s) \/ Fails(s) \/ Crash(s)
          PROVE  CurrentKept'
      BY <2>2, CurrentStep
    <2> QED
      BY <2>1, <2>2, ArtifactsStep DEF Next
  <1> QED
    BY <1>1, ArtifactsInit, CurrentInit, TypedAlways, PTL DEF Spec

(* A parsed filing shows the facts, or the pages, of the artifact its row  *)
(* names, for a company no two sessions worked on at once and whose stores *)
(* all came to their commit.                                               *)
THEOREM FactsCurrent == Spec => []ParsedFactsAreCurrent
  <1>1. CurrentKept => ParsedFactsAreCurrent
    BY DEF CurrentKept, Undisturbed, Shows, ParsedFactsAreCurrent
  <1> QED
    BY <1>1, CurrentAlways, PTL

-----------------------------------------------------------------------------
(* What becomes of the companies a batch selected: one that is no longer   *)
(* before it has a row, which the batch left parsed or missing unless the  *)
(* company was disturbed.                                                  *)

Gone(run, c) == filings[c] # NoFiling /\ (c \in run.settled \/ c \in disturbed)

ChosenIn(me, run) ==
    /\ me.role = "batch" =>
          \A c \in run.selected : Gone(run, c) \/ \E j \in 1..Len(me.todo) : me.todo[j] = c
    /\ run.status = "completed" => \A c \in run.selected : Gone(run, c)

ChosenKept == \A s \in Sessions : ChosenIn(session[s], runs[s])

LEMMA ChosenInit == Init => ChosenKept
  <1> SUFFICES ASSUME Init, NEW s \in Sessions PROVE ChosenIn(session[s], runs[s])
    BY DEF ChosenKept
  <1>1. session[s].role = "none" /\ runs[s] = NoRun
    BY IdleFields DEF Init
  <1>2. NoRun.status = "none"
    BY DEF NoRun
  <1> QED
    BY <1>1, <1>2 DEF ChosenIn

LEMMA GoneStays ==
  ASSUME Typed, ArtifactsKept, NEW s \in Sessions, Begin(s) \/ Step(s) \/ Fails(s) \/ Crash(s),
         NEW run \in Run, NEW new, run.settled \subseteq new.settled,
         NEW c \in run.selected, Gone(run, c)
  PROVE  Gone(new, c)'
  <1>1. c \in Companies
    BY DEF Run
  <1>2. filings'[c] # NoFiling
    BY <1>1, RowsStay DEF Gone
  <1>3. disturbed \subseteq disturbed'
    BY DisturbedGrows
  <1> QED
    BY <1>2, <1>3 DEF Gone

(* What a batch has just written is settled.                               *)
LEMMA WrittenSettles ==
  ASSUME Typed, CurrentKept, NEW s \in Sessions, RecordMissing(s) \/ WriteFacts(s),
         session[s].company \notin disturbed
  PROVE  filings'[session[s].company].status \in {"parsed", "missing"}
  <1> DEFINE me == session[s]
             c == me.company
  <1>1. /\ me \in Session /\ c \in Companies /\ filings[c] \in Filing
    BY SessionTyped
  <1>2. CASE RecordMissing(s)
    <2>1. filings' = [filings EXCEPT ![c] = WithStatus(filings[c], "missing")]
      BY <1>2 DEF RecordMissing
    <2> QED
      BY <1>1, <2>1, WithStatusTyped DEF Typed, TypeOK
  <1>3. CASE WriteFacts(s)
    <2>1. me.pc = "write" /\ filings' = [filings EXCEPT ![c] = ParsedRow(me, filings[c])]
      BY <1>3, WriteMeans
    <2>2. At(me, c)
      BY <2>1, AtOwn
    <2>3. me.seen = filings[c]
      BY <1>1, <2>1, <2>2 DEF CurrentKept, Undisturbed, Fresh
    <2> QED
      BY <1>1, <2>1, <2>3, ParsedMeans DEF Typed, TypeOK
  <1> QED
    BY <1>2, <1>3

LEMMA ChosenMove ==
  ASSUME Typed, Typed', ArtifactsKept, ChosenKept,
         NEW s \in Sessions, Begin(s) \/ Step(s) \/ Fails(s) \/ Crash(s),
         NEW q \in Session, Becomes(s, q),
         NEW run, runs' = [runs EXCEPT ![s] = run], ChosenIn(q, run)'
  PROVE  ChosenKept'
  <1>1. session'[s] = q /\ runs'[s] = run
    BY DEF Becomes, Typed, TypeOK
  <1>2. ASSUME NEW t \in Sessions PROVE ChosenIn(session[t], runs[t])'
    <2>1. CASE t = s
      BY <1>1, <2>1 DEF ChosenIn, Gone
    <2>2. CASE t # s
      <3>1. session'[t] = session[t] /\ runs'[t] = runs[t]
        BY <2>2 DEF Becomes, Typed, TypeOK
      <3>2. runs[t] \in Run /\ ChosenIn(session[t], runs[t])
        BY SessionTyped DEF ChosenKept
      <3>3. \A c \in runs[t].selected : Gone(runs[t], c) => Gone(runs[t], c)'
        <4>1. PICK run1 : run1 = runs[t]
          OBVIOUS
        <4>2. \A c \in run1.selected : Gone(run1, c) => Gone(run1, c)'
          BY <3>2, <4>1, GoneStays
        <4> QED
          BY <3>1, <4>1, <4>2 DEF Gone
      <3> QED
        BY <3>1, <3>2, <3>3 DEF ChosenIn, Gone
    <2> QED
      BY <2>1, <2>2
  <1> QED
    BY <1>2 DEF ChosenKept

LEMMA ChosenStep ==
  ASSUME Typed, Typed', ArtifactsKept, BatchesKept, CurrentKept, ChosenKept,
         NEW s \in Sessions, Begin(s) \/ Step(s) \/ Fails(s) \/ Crash(s)
  PROVE  ChosenKept'
  <1>1. PICK q \in Session : Becomes(s, q) /\ Journeys(s, q)
    BY JourneyMeans
  <1>2. PICK me \in Session : me = session[s] /\ Shaped(me)
    BY SessionTyped
  <1>3. PICK run \in Run : run = runs[s]
    BY SessionTyped
  <1>4. ChosenIn(me, run) /\ RunKept(me, run)
    BY <1>2, <1>3 DEF ChosenKept, BatchesKept
  <1>5. \A c \in run.selected : Gone(run, c) => Gone(run, c)'
    BY GoneStays
  <1>6. me.todo \in Seq(Companies) /\ Len(me.todo) \in Nat
    BY LenProperties DEF Session
  <1>7. CASE Elsewhere(q)
    <2>1. q.role # "batch" /\ runs' = [runs EXCEPT ![s] = run]
      BY <1>3, <1>7 DEF Elsewhere, Typed, TypeOK
    <2>2. ChosenIn(q, run)'
      BY <1>4, <1>5, <2>1 DEF ChosenIn, Gone
    <2> QED
      BY <1>1, <2>1, <2>2, ChosenMove
  <1>8. CASE Stays(s, q)
    <2>1. q.role = me.role /\ q.todo = me.todo /\ runs' = [runs EXCEPT ![s] = run]
      BY <1>2, <1>3, <1>8 DEF Stays, Typed, TypeOK
    <2>2. ChosenIn(q, run)'
      BY <1>4, <1>5, <2>1 DEF ChosenIn, Gone
    <2> QED
      BY <1>1, <2>1, <2>2, ChosenMove
  <1>9. CASE Advances(s, q)
    <2>1. PICK counted \in Counted(run) :
             runs' = [runs EXCEPT ![s] = Settling(counted, me.company, filings'[me.company])]
      BY <1>2, <1>3, <1>9 DEF Advances
    <2>2. PICK new : new = Settling(counted, me.company, filings'[me.company])
      OBVIOUS
    <2>3. /\ runs' = [runs EXCEPT ![s] = new]
          /\ me.role = "batch" /\ me.todo # << >> /\ q = NextCompany(me)
          /\ filings'[me.company] # NoFiling
          /\ RecordMissing(s) \/ WriteFacts(s)
      BY <1>2, <1>9, <2>1, <2>2 DEF Advances
    <2>4. /\ q.role = "batch" /\ Len(q.todo) = Len(me.todo) - 1
          /\ \A j \in 1..Len(q.todo) : q.todo[j] = me.todo[j + 1]
      BY <2>3, NextCompanyTyped
    <2>5. /\ new.status = run.status /\ new.selected = run.selected
          /\ run.settled \subseteq new.settled
          /\ filings'[me.company].status \in {"parsed", "missing"} => me.company \in new.settled
      <3>1. me.company \in Companies
        BY DEF Session
      <3> QED
        BY <2>1, <2>2, <3>1, CountedTyped, SettlingTyped
    <2>6. run.status = "running"
      BY <1>4, <2>3 DEF RunKept
    <2>7. Gone(new, me.company)'
      <3>1. me.company \notin disturbed => filings'[me.company].status \in {"parsed", "missing"}
        BY <1>2, <2>3, WrittenSettles
      <3>2. disturbed \subseteq disturbed'
        BY DisturbedGrows
      <3> QED
        BY <2>3, <2>5, <3>1, <3>2 DEF Gone
    <2>8. me.company = me.todo[1]
      BY <1>2, <2>3 DEF Shaped
    <2>9. ASSUME NEW c \in run.selected
          PROVE  Gone(new, c)' \/ \E j \in 1..Len(q.todo) : q.todo[j] = c
      <3>1. CASE Gone(run, c)
        BY <2>5, <3>1, GoneStays
      <3>2. CASE \E j \in 1..Len(me.todo) : me.todo[j] = c
        <4>1. PICK j \in 1..Len(me.todo) : me.todo[j] = c
          BY <3>2
        <4>2. CASE j = 1
          <5>1. c = me.company
            BY <2>8, <4>1, <4>2
          <5> QED
            BY <2>7, <5>1
        <4>3. CASE j # 1
          <5>1. j - 1 \in 1..Len(q.todo) /\ (j - 1) + 1 = j
            BY <1>6, <2>4, <4>3
          <5>2. q.todo[j - 1] = c
            BY <2>4, <4>1, <5>1
          <5> QED
            BY <5>1, <5>2
        <4> QED
          BY <4>2, <4>3
      <3> QED
        BY <1>4, <2>3, <3>1, <3>2 DEF ChosenIn
    <2>10. ChosenIn(q, new)'
      BY <2>5, <2>6, <2>9 DEF ChosenIn, Gone
    <2> QED
      BY <1>1, <2>3, <2>10, ChosenMove
  <1>10. CASE SetsOut(s, q)
    <2>1. PICK mode \in {"initial", "next", "refresh"}, limit \in Limits, start \in Starts :
            /\ StartBatch(s, mode, limit, start)
            /\ q = FirstCompany(mode, StartOffset(mode, start),
                                Selected(mode, StartOffset(mode, start), limit))
      BY <1>10 DEF SetsOut
    <2>2. PICK from : from = StartOffset(mode, start)
      OBVIOUS
    <2>3. PICK chosen : chosen = Selected(mode, from, limit)
      OBVIOUS
    <2>4. from \in Nat /\ limit \in Nat /\ chosen \in Seq(Companies)
      BY <2>1, <2>2, <2>3, StartBatchMeans
    <2>5. PICK new : new = Started(chosen)
      OBVIOUS
    <2>6. /\ new.status = "running"
          /\ \A c : c \in new.selected <=> \E j \in 1..Len(chosen) : chosen[j] = c
      BY <2>4, <2>5, StartedTyped
    <2>7. runs' = [runs EXCEPT ![s] = new]
      BY <2>1, <2>2, <2>3, <2>5 DEF StartBatch, Started
    <2>8. q.role = "batch" /\ q.todo = chosen
      BY <2>1, <2>2, <2>3, <2>4, FirstCompanyTyped
    <2>9. ChosenIn(q, new)'
      BY <2>6, <2>8 DEF ChosenIn
    <2> QED
      BY <1>1, <2>7, <2>9, ChosenMove
  <1>11. CASE Ends(s, q)
    <2>1. PICK new : new = [run EXCEPT !.status = "completed"]
      OBVIOUS
    <2>2. new.selected = run.selected /\ new.settled = run.settled
      BY <2>1 DEF Run
    <2>3. /\ me.role = "batch" /\ me.todo = << >> /\ q = Idle
          /\ runs' = [runs EXCEPT ![s] = new]
      BY <1>2, <1>3, <1>11, <2>1 DEF Ends, FinishBatch, Typed, TypeOK
    <2>4. \A c \in run.selected : Gone(run, c)
      BY <1>4, <2>3 DEF ChosenIn
    <2>5. q.role # "batch"
      BY <2>3, IdleFields
    <2>6. \A c \in new.selected : Gone(new, c)'
      BY <1>5, <2>2, <2>4 DEF Gone
    <2>7. ChosenIn(q, new)'
      BY <2>5, <2>6 DEF ChosenIn
    <2> QED
      BY <1>1, <2>3, <2>7, ChosenMove
  <1> QED
    BY <1>1, <1>7, <1>8, <1>9, <1>10, <1>11 DEF Journeys

(* A completed run's counts add up to what it selected, and each company   *)
(* it selected has a row, which the run left parsed or missing unless the  *)
(* company was disturbed.                                                  *)
THEOREM RunsAddUp == Spec => []CompletedRunsAddUp
  <1>1. /\ Typed /\ Typed' /\ ArtifactsKept /\ BatchesKept /\ CurrentKept /\ ChosenKept
        /\ [Next]_vars
        => ChosenKept'
    <2> SUFFICES ASSUME Typed, Typed', ArtifactsKept, BatchesKept, CurrentKept, ChosenKept,
                        [Next]_vars
                 PROVE  ChosenKept'
      OBVIOUS
    <2>1. CASE UNCHANGED vars
      BY <2>1 DEF ChosenKept, ChosenIn, Gone, vars, stored
    <2>2. ASSUME NEW s \in Sessions, Begin(s) \/ Step(s) \/ Fails(s) \/ Crash(s)
          PROVE  ChosenKept'
      BY <2>2, ChosenStep
    <2> QED
      BY <2>1, <2>2 DEF Next
  <1>2. BatchesKept /\ ChosenKept => CompletedRunsAddUp
    <2> SUFFICES ASSUME BatchesKept, ChosenKept, NEW s \in Sessions, runs[s].status = "completed"
                 PROVE  /\ runs[s].discovered = runs[s].parsed + runs[s].missing
                        /\ runs[s].fetched = runs[s].parsed
                        /\ \A c \in runs[s].selected : filings[c] # NoFiling
                        /\ runs[s].selected \ disturbed \subseteq runs[s].settled
      BY DEF CompletedRunsAddUp
    <2>1. \A c \in runs[s].selected : Gone(runs[s], c)
      BY DEF ChosenKept, ChosenIn
    <2> QED
      BY <2>1 DEF BatchesKept, RunKept, Gone
  <1> QED
    BY <1>1, <1>2, BatchesAlways, CurrentAlways, ChosenInit, TypedAlways,
       PTL DEF Spec
=============================================================================
