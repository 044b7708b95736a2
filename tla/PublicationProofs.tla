------------------------- MODULE PublicationProofs -------------------------
(***************************************************************************)
(* Theorems about Publication, for any fields, mappings, families, numbers *)
(* of reviewers, publications, rebuilds and extractions, and any bounds.   *)
(***************************************************************************)
EXTENDS Publication, FiniteSetTheorems, TLAPS

-----------------------------------------------------------------------------
(* Type correctness *)

LEMMA SomeField == (CHOOSE f \in Fields : TRUE) \in Fields
  BY PublicationAssumption

LEMMA IdleReviewTyped == IdleReview \in ReviewRequest
  BY SomeField, PublicationAssumption
  DEF IdleReview, ReviewRequest, NoStat, Stat, Versions, Error, NoPin, Pin

LEMMA IdlePublicationTyped == IdlePublication \in Publication
  BY SomeField, PublicationAssumption
  DEF IdlePublication, Publication, Nothing, Error, Fact

LEMMA IdleRebuildTyped == IdleRebuild \in Rebuild
  BY PublicationAssumption DEF IdleRebuild, Rebuild, NoPin, Pin, Error

LEMMA IdleExtractionTyped == IdleExtraction \in Extraction
  BY PublicationAssumption DEF IdleExtraction, Extraction, Versions

LEMMA NoRowTyped == NoRow \in Row
  BY PublicationAssumption DEF NoRow, Row

LEMMA InitTyped == Init => TypeOK
  <1> SUFFICES ASSUME Init PROVE TypeOK
    OBVIOUS
  <1>1. filing \in Filing /\ facts \in [Mapped -> Fact] /\ rejected \subseteq Mapped
    BY PublicationAssumption DEF Init, Filing, Fact
  <1>2. rows \in [Fields -> [Versions -> Row]]
    BY NoRowTyped DEF Init
  <1>3. reviews \in [Fields -> [Versions -> Review]]
    BY PublicationAssumption DEF Init, Review
  <1>4. stats \in [Seeded -> Stat]
    BY PublicationAssumption DEF Init, Stat, Millionths
  <1>5. pins \in [Fields -> Pin] /\ metrics \in [Fields -> Pin]
    BY PublicationAssumption DEF Init, Pin, NoPin
  <1>6. queue \in 0..MaxQueue
    BY PublicationAssumption DEF Init
  <1>7. lost \in BOOLEAN
    BY Zenon DEF Init
  <1> QED
    BY <1>1, <1>2, <1>3, <1>4, <1>5, <1>6, <1>7, IdleReviewTyped,
       IdlePublicationTyped, IdleRebuildTyped, IdleExtractionTyped
    DEF Init, TypeOK

(* A step of one session that leaves the database alone keeps the types.   *)
LEMMA ReviewMovesTyped ==
  ASSUME TypeOK, NEW r \in Reviewers, NEW q \in ReviewRequest,
         SetReview(r, q), ReviewUnchanged
  PROVE  TypeOK'
  BY DEF TypeOK, SetReview, ReviewUnchanged, source

LEMMA PublishMovesTyped ==
  ASSUME TypeOK, NEW p \in Publishers, NEW q \in Publication,
         SetPublish(p, q), PublishUnchanged
  PROVE  TypeOK'
  BY DEF TypeOK, SetPublish, PublishUnchanged, source

LEMMA PointedToTyped ==
  ASSUME TypeOK, NEW f \in Fields, NEW v \in 0..MaxVersion
  PROVE  PointedTo(f, v) \in Pin /\ Unpinned(f) \in Pin
  <1>1. pins[f] \in Pin
    BY DEF TypeOK
  <1> QED
    BY <1>1, PublicationAssumption DEF PointedTo, Unpinned, Pin

LEMMA FilingStepTyped == TypeOK /\ FilingStep => TypeOK'
  <1> SUFFICES ASSUME TypeOK, FilingStep PROVE TypeOK'
    OBVIOUS
  <1>1. ASSUME NEW a \in {"pdf", "nse"}, NEW c \in [Mapped -> Fact],
               StoreFiling(a, c)
        PROVE  TypeOK'
    <2>1. /\ filing \in Filing
          /\ filing.stores + 1 \in 0..MaxStores
      BY <1>1, PublicationAssumption DEF StoreFiling, TypeOK, Filing
    <2>2. filing' = [filing EXCEPT !.adapter = a, !.content = c,
                       !.parsed = FALSE, !.stores = filing.stores + 1]
      BY <1>1 DEF StoreFiling
    <2>3. filing' \in Filing
      BY <2>1, <2>2 DEF Filing
    <2> QED
      BY <1>1, <2>3 DEF StoreFiling, TypeOK, sessions
  <1>2. CASE ParseFiling
    <2>1. filing \in Filing
      BY DEF TypeOK
    <2>2. ASSUME filing.adapter = "nse" PROVE filing' \in Filing
      <3>1. filing.parses + 1 \in 0..MaxParses
        BY <1>2, <2>1, <2>2, PublicationAssumption DEF ParseFiling, Filing
      <3>2. filing' = [filing EXCEPT !.parsed = TRUE,
                                     !.parses = filing.parses + 1]
        BY <1>2, <2>2 DEF ParseFiling
      <3> QED
        BY <1>2, <2>1, <2>2, <3>1, <3>2 DEF ParseFiling, Filing
    <2>3. ASSUME filing.adapter # "nse" PROVE filing' \in Filing
      BY <1>2, <2>1, <2>3 DEF ParseFiling, TypeOK, Filing
    <2>4. filing' \in Filing /\ facts' \in [Mapped -> Fact]
      BY <1>2, <2>1, <2>2, <2>3 DEF ParseFiling, TypeOK, Filing
    <2> QED
      BY <1>2, <2>4 DEF ParseFiling, TypeOK, sessions
  <1>3. ASSUME NEW f \in Rejectable, ReviewConceptMapping(f) PROVE TypeOK'
    BY <1>3, PublicationAssumption DEF ReviewConceptMapping, TypeOK, sessions
  <1>4. ASSUME NEW sample \in SUBSET Eligible, EnqueueSample(sample) PROVE TypeOK'
    <2>1. [status |-> "queued", fix |-> 0] \in Review
      BY PublicationAssumption DEF Review
    <2>2. reviews' \in [Fields -> [Versions -> Review]]
      BY <1>4, <2>1 DEF EnqueueSample, TypeOK
    <2> QED
      BY <1>4, <2>2 DEF EnqueueSample, TypeOK, sessions, source
  <1> QED
    BY <1>1, <1>2, <1>3, <1>4 DEF FilingStep

LEMMA ExtractionStepTyped ==
  ASSUME TypeOK, NEW x \in Extractors, ExtractionStep(x) PROVE TypeOK'
  <1>1. CASE StartExtraction(x)
    <2>1. PICK n \in 0..(MaxExtracted - 1) :
            extract' = [extract EXCEPT ![x] =
                         [pc |-> "commit", version |-> n + 1, missing |->
                            {f \in Fields : \A v \in Versions :
                               rows[f][v].method # "xbrl"}]]
      BY <1>1 DEF StartExtraction
    <2>2. n + 1 \in Versions
      BY PublicationAssumption DEF Versions
    <2>3. extract' \in [Extractors -> Extraction]
      BY <2>1, <2>2 DEF TypeOK, Extraction
    <2> QED
      BY <1>1, <2>3 DEF StartExtraction, TypeOK, source
  <1>2. ASSUME NEW found \in SUBSET Fields, NEW sure \in SUBSET found,
               CommitExtraction(x, found, sure)
        PROVE  TypeOK'
    <2> DEFINE new(f) == [rows[f] EXCEPT ![extract[x].version] =
                            Extracted(f \in sure)]
    <2>2. ASSUME NEW f \in Fields PROVE new(f) \in [Versions -> Row]
      <3>1. rows[f] \in [Versions -> Row]
        BY DEF TypeOK
      <3>2. Extracted(f \in sure) \in Row
        <4>1. \A b \in BOOLEAN :
                [NoRow EXCEPT !.method = "llm", !.confident = b] \in Row
          BY NoRowTyped DEF Row
        <4>2. f \in sure \/ f \notin sure
          OBVIOUS
        <4>3. (f \in sure) \in BOOLEAN
          BY <4>2
        <4> QED
          BY <4>1, <4>3, Zenon DEF Extracted
      <3> QED
        BY <3>1, <3>2
    <2>3. rows' \in [Fields -> [Versions -> Row]]
      <3>1. \/ rows' = [f \in Fields |-> IF f \in found THEN new(f) ELSE rows[f]]
            \/ rows' = rows
        BY <1>2 DEF CommitExtraction
      <3>2. [f \in Fields |-> IF f \in found THEN new(f) ELSE rows[f]]
              \in [Fields -> [Versions -> Row]]
        BY <2>2 DEF TypeOK
      <3> QED
        BY <3>1, <3>2 DEF TypeOK
    <2>4. extract' \in [Extractors -> Extraction]
      BY <1>2, IdleExtractionTyped DEF CommitExtraction, TypeOK
    <2> QED
      BY <1>2, <2>3, <2>4 DEF CommitExtraction, TypeOK, source
  <1> QED
    BY <1>1, <1>2 DEF ExtractionStep

(* The statistics an update leaves are statistics.                         *)
LEMMA WrittenStatTyped ==
  ASSUME TypeOK, NEW req \in ReviewRequest, Family[req.field] \in Seeded
  PROVE  WrittenStat(req) \in Stat
  <1>1. req.stat \in Stat /\ stats[Family[req.field]] \in Stat
    BY DEF TypeOK, ReviewRequest
  <1> DEFINE c == Counted(req)
  <1>2. c.reviewed \in Nat \ {0} /\ c.correct \in Nat
    BY <1>1 DEF Counted, Stat
  <1>3. ASSUME NEW a \in Nat, NEW b \in Nat \ {0} PROVE Rounded(a, b) \in Int
    BY DEF Rounded, Millionths
  <1>4. Rounded(c.correct, c.reviewed) \in Int
    BY <1>2, <1>3
  <1> QED
    BY <1>1, <1>2, <1>4 DEF WrittenStat, Stat

LEMMA WrittenRowTyped ==
  ASSUME TypeOK, NEW req \in ReviewRequest PROVE WrittenRow(req) \in Row
  <1>1. rows[req.field][req.about] \in Row
    BY DEF TypeOK, ReviewRequest
  <1>2. req.about \in 0..MaxVersion
    BY PublicationAssumption DEF ReviewRequest, Versions
  <1> QED
    BY <1>1, <1>2, PublicationAssumption DEF WrittenRow, Row

LEMMA WrittenReviewTyped ==
  ASSUME TypeOK, NEW req \in ReviewRequest PROVE WrittenReview(req) \in Review
  <1>1. reviews[req.field][req.about] \in Review
    BY DEF TypeOK, ReviewRequest
  <1>2. req.version \in 0..MaxVersion
    BY PublicationAssumption DEF ReviewRequest, Versions
  <1> QED
    BY <1>1, <1>2 DEF WrittenReview, Review

LEMMA FinishReviewTyped ==
  ASSUME TypeOK, NEW r \in Reviewers, FinishReview(r) PROVE TypeOK'
  <1> DEFINE req == review[r]
  <1>1. req \in ReviewRequest
    BY DEF TypeOK
  <1>2. CASE Raise(r, "Integrity")
    <2>1. [IdleReview EXCEPT !.error = "Integrity"] \in ReviewRequest
      BY IdleReviewTyped DEF ReviewRequest, Error
    <2> QED
      BY <1>2, <2>1, ReviewMovesTyped DEF Raise, ReviewUnchanged
  <1>3. CASE CommitReview(r)
    <2>1. req.field \in Fields /\ PublishedVersion(req) \in Versions
      BY <1>1 DEF ReviewRequest, PublishedVersion
    <2>2. rows' \in [Fields -> [Versions -> Row]]
      BY <1>1, <1>3, <2>1, WrittenRowTyped DEF CommitReview, TypeOK
    <2>3. reviews' \in [Fields -> [Versions -> Review]]
      BY <1>1, <1>3, <2>1, WrittenReviewTyped DEF CommitReview, TypeOK
    <2>4. stats' \in [Seeded -> Stat]
      BY <1>1, <1>3, WrittenStatTyped DEF CommitReview, TypeOK
    <2>5. pins' \in [Fields -> Pin]
      <3>1. PublishedVersion(req) \in 0..MaxVersion
        BY <2>1, PublicationAssumption DEF Versions
      <3> QED
        BY <1>3, <2>1, <3>1, PointedToTyped DEF CommitReview, TypeOK
    <2>6. review' \in [Reviewers -> ReviewRequest]
      <3>1. [req EXCEPT !.pc = "notify"] \in ReviewRequest
        BY <1>1 DEF ReviewRequest
      <3> QED
        BY <1>3, <3>1, IdleReviewTyped DEF CommitReview, SetReview, TypeOK
    <2> QED
      BY <1>3, <2>2, <2>3, <2>4, <2>5, <2>6 DEF CommitReview, TypeOK, source
  <1> QED
    BY <1>2, <1>3 DEF FinishReview

LEMMA PinReadTyped ==
  ASSUME TypeOK, NEW f \in Fields PROVE PinRead(f) \in Pin
  BY PublicationAssumption DEF TypeOK, PinRead, NoPin, Pin

LEMMA PinSeenTyped ==
  ASSUME TypeOK, NEW f \in Fields PROVE PinSeen(f) \in Nat
  BY PinReadTyped DEF PinSeen, Pin

LEMMA ReadStatTyped ==
  ASSUME TypeOK, NEW r \in Reviewers, ReadStat(r, review[r]) PROVE TypeOK'
  <1> DEFINE q1 == [review[r] EXCEPT !.pc = "count",
                                     !.stat = stats[Family[review[r].field]]]
             q2 == [IdleReview EXCEPT !.error = "TypeError"]
  <1>1. CASE Family[review[r].field] \in Seeded
    <2>1. stats[Family[review[r].field]] \in Stat
      BY <1>1 DEF TypeOK
    <2>2. q1 \in ReviewRequest
      BY ZenonT(60), <2>1 DEF TypeOK, ReviewRequest
    <2> QED
      BY <1>1, <2>2, ReviewMovesTyped DEF ReadStat
  <1>2. CASE Family[review[r].field] \notin Seeded
    <2>1. q2 \in ReviewRequest
      BY IdleReviewTyped DEF ReviewRequest, Error
    <2> QED
      BY <1>2, <2>1, ReviewMovesTyped DEF ReadStat, Raise, ReviewUnchanged
  <1> QED
    BY <1>1, <1>2

LEMMA ReviewStepTyped ==
  ASSUME TypeOK, NEW r \in Reviewers, ReviewStep(r) PROVE TypeOK'
  <1>0. review[r] \in ReviewRequest
    BY DEF TypeOK
  <1>1. ASSUME NEW f \in Fields, NEW v \in Versions,
               NEW op \in {"accept", "correct"}, StartReview(r, f, v, op)
        PROVE  TypeOK'
    <2> DEFINE q == [IdleReview EXCEPT !.pc = "lock", !.op = op, !.field = f,
                                       !.about = v]
    <2>1. q \in ReviewRequest
      BY IdleReviewTyped DEF ReviewRequest
    <2> QED
      BY <1>1, <2>1, ReviewMovesTyped DEF StartReview
  <1>2. CASE LockAccepted(r)
    BY <1>2, ReadStatTyped DEF LockAccepted
  <1>3. CASE LockCorrected(r)
    <2>1. PICK n \in 0..(MaxVersion - 1) :
            SetReview(r, [review[r] EXCEPT !.pc = "insert", !.version = n + 1])
      BY <1>3 DEF LockCorrected
    <2>2. n + 1 \in Versions
      BY PublicationAssumption DEF Versions
    <2>3. [review[r] EXCEPT !.pc = "insert", !.version = n + 1] \in ReviewRequest
      BY <1>0, <2>2 DEF ReviewRequest
    <2> QED
      BY <1>3, <2>1, <2>3, ReviewMovesTyped DEF LockCorrected
  <1>4. CASE InsertCorrection(r)
    <2>1. CASE ReadStat(r, review[r])
      BY <2>1, ReadStatTyped
    <2>2. CASE Raise(r, "Integrity")
      <3>1. [IdleReview EXCEPT !.error = "Integrity"] \in ReviewRequest
        BY IdleReviewTyped DEF ReviewRequest, Error
      <3> QED
        BY <2>2, <3>1, ReviewMovesTyped DEF Raise, ReviewUnchanged
    <2> QED
      BY <1>4, <2>1, <2>2 DEF InsertCorrection
  <1>5. CASE CountOutcome(r)
    <2> DEFINE q == [review[r] EXCEPT !.pc = "finish",
                       !.pin = PinRead(review[r].field),
                       !.allowed = Publishable(review[r])]
    <2>1. PinRead(review[r].field) \in Pin
      BY <1>0, PinReadTyped DEF ReviewRequest
    <2>2. Publishable(review[r]) \in BOOLEAN
      BY DEF Publishable
    <2>3. q \in ReviewRequest
      BY <1>0, <2>1, <2>2 DEF ReviewRequest
    <2> QED
      BY <1>5, <2>3, ReviewMovesTyped DEF CountOutcome
  <1>6. CASE FinishReview(r)
    BY <1>6, FinishReviewTyped
  <1>7. CASE NotifyReview(r)
    BY <1>7, IdleReviewTyped, PublicationAssumption
    DEF NotifyReview, SetReview, TypeOK, source
  <1>8. CASE FailReview(r)
    <2>1. lost' \in BOOLEAN
      BY <1>8 DEF FailReview
    <2> QED
      BY <1>8, <2>1, IdleReviewTyped DEF FailReview, SetReview, TypeOK, source
  <1> QED
    BY <1>1, <1>2, <1>3, <1>4, <1>5, <1>6, <1>7, <1>8 DEF ReviewStep

LEMMA AbortTyped ==
  ASSUME TypeOK, NEW p \in Publishers, NEW e \in Error, PublishUnchanged,
         SetPublish(p, [IdlePublication EXCEPT !.error = e])
  PROVE  TypeOK'
  <1>1. [IdlePublication EXCEPT !.error = e] \in Publication
    BY IdlePublicationTyped DEF Publication
  <1> QED
    BY <1>1, PublishMovesTyped

LEMMA DropRejectedTyped ==
  ASSUME TypeOK, NEW p \in Publishers, DropRejected(p) PROVE TypeOK'
  <1> DEFINE q1 == [IdlePublication EXCEPT !.error = "ForeignKey"]
             q2 == [publish[p] EXCEPT !.pc = "facts"]
             gone == {f \in Mapped \ publish[p].active :
                        pins[f].version # 0 /\ filing.adapter = "nse"}
  <1>1. q1 \in Publication
    BY IdlePublicationTyped DEF Publication, Error
  <1>2. q2 \in Publication
    <2>1. publish[p] \in Publication
      BY DEF TypeOK
    <2> QED
      BY <2>1 DEF Publication
  <1>3. publish' \in [Publishers -> Publication]
    <2>1. SetPublish(p, q1) \/ SetPublish(p, q2)
      BY DEF DropRejected
    <2> QED
      BY <1>1, <1>2, <2>1 DEF SetPublish, TypeOK
  <1>4. pins' \in [Fields -> Pin]
    <2>1. \/ pins' = pins
          \/ pins' = [f \in Fields |-> IF f \in gone THEN Unpinned(f) ELSE pins[f]]
      BY DEF DropRejected
    <2>2. \A f \in Fields : pins[f] \in Pin /\ Unpinned(f) \in Pin
      BY PublicationAssumption DEF TypeOK, Unpinned, Pin
    <2> QED
      BY <2>1, <2>2 DEF TypeOK
  <1>5. lost' \in BOOLEAN
    <2>1. (\E f \in gone : Referenced(f)) \/ ~(\E f \in gone : Referenced(f))
      OBVIOUS
    <2> QED
      BY <2>1, Zenon DEF DropRejected, TypeOK
  <1> QED
    BY <1>3, <1>4, <1>5 DEF DropRejected, TypeOK, source

LEMMA ReadsTyped ==
  ASSUME TypeOK, NEW p \in Publishers,
         \/ \E refresh \in BOOLEAN : StartPublication(p, refresh)
         \/ ReadFacts(p)
         \/ \E f \in Mapped : SkipMissing(p, f)
  PROVE  TypeOK'
  <1>0. publish[p] \in Publication
    BY DEF TypeOK
  <1>1. ASSUME NEW refresh \in BOOLEAN, StartPublication(p, refresh)
        PROVE  TypeOK'
    <2> DEFINE q == [IdlePublication EXCEPT
                       !.pc = IF rejected = {} THEN "facts" ELSE "reject",
                       !.refresh = refresh, !.active = Mapped \ rejected]
    <2>1. q \in Publication
      BY IdlePublicationTyped DEF Publication
    <2> QED
      BY <1>1, <2>1, PublishMovesTyped DEF StartPublication
  <1>2. CASE ReadFacts(p)
    <2> DEFINE a == IF filing.adapter = "nse" THEN publish[p].active ELSE {}
               q == [publish[p] EXCEPT !.pc = "next", !.known = facts,
                       !.parse = filing.parses, !.active = a, !.todo = a]
    <2>1. a \in SUBSET Mapped /\ facts \in [Mapped -> Fact]
          /\ filing.parses \in 0..MaxParses
      BY <1>0 DEF TypeOK, Publication, Filing
    <2> HIDE DEF a
    <2>2. q \in Publication
      BY <1>0, <2>1 DEF Publication
    <2>3. SetPublish(p, q) /\ PublishUnchanged
      BY <1>2 DEF ReadFacts, a
    <2> QED
      BY <2>2, <2>3, PublishMovesTyped
  <1>3. ASSUME NEW f \in Mapped, SkipMissing(p, f) PROVE TypeOK'
    <2> DEFINE q == [publish[p] EXCEPT !.todo = publish[p].todo \ {f}]
    <2>1. q \in Publication
      BY <1>0 DEF Publication
    <2>2. SetPublish(p, q) /\ PublishUnchanged
      BY <1>3 DEF SkipMissing
    <2> QED
      BY <2>1, <2>2, PublishMovesTyped
  <1> QED
    BY <1>1, <1>2, <1>3

LEMMA WithholdTyped ==
  ASSUME TypeOK, NEW p \in Publishers, NEW f \in Mapped, Withhold(p, f)
  PROVE  TypeOK'
  <1> DEFINE d == IF pins[f].version # 0 THEN "drop" ELSE publish[p].plan[f]
             q == [publish[p] EXCEPT
                     !.todo = publish[p].todo \ {f},
                     !.plan = [publish[p].plan EXCEPT ![f] = d]]
  <1>1. publish[p] \in Publication /\ f \in Fields
    BY PublicationAssumption DEF TypeOK
  <1>2. d \in {"keep", "drop", "pin"}
    BY <1>1 DEF Publication
  <1> HIDE DEF d
  <1>3. q \in Publication
    BY <1>1, <1>2 DEF Publication
  <1>4. CASE Referenced(f)
    BY <1>4, AbortTyped DEF Withhold, Error
  <1>5. CASE ~Referenced(f)
    <2>1. SetPublish(p, q) /\ PublishUnchanged
      BY <1>5 DEF Withhold, d
    <2> QED
      BY <1>3, <2>1, PublishMovesTyped
  <1> QED
    BY <1>4, <1>5

LEMMA ReadLatestTyped ==
  ASSUME TypeOK, NEW p \in Publishers, NEW f \in Mapped, ReadLatest(p, f)
  PROVE  TypeOK'
  <1>1. publish[p] \in Publication /\ f \in Fields
    BY PublicationAssumption DEF TypeOK
  <1>2. PICK n \in 0..MaxVersion :
          IF Reusable(f, n, publish[p].parse)
            THEN SetPublish(p, [publish[p] EXCEPT !.pc = "select", !.field = f,
                                  !.to[f] = n])
            ELSE /\ n < MaxVersion
                 /\ SetPublish(p, [publish[p] EXCEPT !.pc = "insert", !.field = f,
                                     !.to[f] = n + 1])
    BY DEF ReadLatest
  <1>3. PublishUnchanged
    BY DEF ReadLatest
  <1>4. CASE Reusable(f, n, publish[p].parse)
    <2> DEFINE q == [publish[p] EXCEPT !.pc = "select", !.field = f,
                       !.to = [publish[p].to EXCEPT ![f] = n]]
    <2>1. q \in Publication
      BY <1>1 DEF Publication
    <2>2. SetPublish(p, q)
      BY <1>2, <1>4
    <2> QED
      BY <1>3, <2>1, <2>2, PublishMovesTyped
  <1>5. CASE ~Reusable(f, n, publish[p].parse)
    <2> DEFINE q == [publish[p] EXCEPT !.pc = "insert", !.field = f,
                       !.to = [publish[p].to EXCEPT ![f] = n + 1]]
    <2>1. n + 1 \in 0..MaxVersion
      BY <1>2, <1>5, PublicationAssumption
    <2>2. q \in Publication
      BY <1>1, <2>1 DEF Publication
    <2>3. SetPublish(p, q)
      BY <1>2, <1>5
    <2> QED
      BY <1>3, <2>2, <2>3, PublishMovesTyped
  <1> QED
    BY <1>4, <1>5

LEMMA FlushesTyped ==
  ASSUME TypeOK, NEW p \in Publishers,
         InsertProvisional(p) \/ SelectPin(p) \/ FlushPin(p)
  PROVE  TypeOK'
  <1> DEFINE f == publish[p].field
  <1>1. publish[p] \in Publication /\ f \in Fields
    BY DEF TypeOK, Publication
  <1>2. CASE InsertProvisional(p)
    <2> DEFINE q == [publish[p] EXCEPT !.pc = "select",
                       !.insert = [publish[p].insert EXCEPT ![f] = publish[p].to[f]]]
    <2>1. publish[p].to[f] \in 0..MaxVersion
      BY <1>1 DEF Publication
    <2>2. q \in Publication
      BY <1>1, <2>1 DEF Publication
    <2>3. \/ SetPublish(p, q)
          \/ SetPublish(p, [IdlePublication EXCEPT !.error = "Integrity"])
      BY <1>2 DEF InsertProvisional
    <2>4. PublishUnchanged
      BY <1>2 DEF InsertProvisional
    <2> QED
      BY <2>2, <2>3, <2>4, PublishMovesTyped, AbortTyped DEF Error
  <1>3. CASE FlushPin(p)
    <2> DEFINE q == [publish[p] EXCEPT !.pc = "next",
                       !.plan = [publish[p].plan EXCEPT ![f] = "pin"],
                       !.todo = publish[p].todo \ {f}]
    <2>1. q \in Publication
      BY <1>1 DEF Publication
    <2>2. \/ SetPublish(p, q)
          \/ SetPublish(p, [IdlePublication EXCEPT !.error = "Integrity"])
      BY <1>3 DEF FlushPin
    <2>3. PublishUnchanged
      BY <1>3 DEF FlushPin
    <2> QED
      BY <2>1, <2>2, <2>3, PublishMovesTyped, AbortTyped DEF Error
  <1>4. CASE SelectPin(p)
    <2> DEFINE q1 == [publish[p] EXCEPT !.pc = "next",
                        !.todo = publish[p].todo \ {f}]
               q2 == [publish[p] EXCEPT !.pc = "pin", !.pin = PinSeen(f)]
    <2>1. q1 \in Publication
      BY <1>1 DEF Publication
    <2>2. PinSeen(f) \in Nat
      BY <1>1, PinSeenTyped
    <2>3. q2 \in Publication
      BY <1>1, <2>2 DEF Publication
    <2>4. SetPublish(p, q1) \/ SetPublish(p, q2)
      BY <1>4 DEF SelectPin
    <2>5. PublishUnchanged
      BY <1>4 DEF SelectPin
    <2> QED
      BY <2>1, <2>3, <2>4, <2>5, PublishMovesTyped
  <1> QED
    BY <1>2, <1>3, <1>4

LEMMA CommitPublicationTyped ==
  ASSUME TypeOK, NEW p \in Publishers, CommitPublication(p) PROVE TypeOK'
  <1>1. publish[p] \in Publication
    BY DEF TypeOK
  <1>2. ProvisionalRow(publish[p].parse) \in Row
    BY <1>1, PublicationAssumption DEF ProvisionalRow, Publication, Row
  <1>3. rows' \in [Fields -> [Versions -> Row]]
    BY <1>2 DEF CommitPublication, TypeOK
  <1>4. ASSUME NEW f \in Fields PROVE PlannedPin(publish[p], f) \in Pin
    <2>1. publish[p].to[f] \in 0..MaxVersion
          /\ publish[p].plan[f] \in {"keep", "drop", "pin"}
      BY <1>1 DEF Publication
    <2> QED
      BY <2>1, PointedToTyped DEF PlannedPin, TypeOK
  <1>5. pins' \in [Fields -> Pin]
    BY <1>4 DEF CommitPublication
  <1>6. publish' \in [Publishers -> Publication]
    <2>1. [IdlePublication EXCEPT !.pc = "notify"] \in Publication
      BY IdlePublicationTyped DEF Publication
    <2> QED
      BY <2>1, IdlePublicationTyped DEF CommitPublication, SetPublish, TypeOK
  <1>7. lost' \in BOOLEAN
    BY <1>1 DEF CommitPublication
  <1> QED
    BY <1>3, <1>5, <1>6, <1>7 DEF CommitPublication, TypeOK, source

LEMMA PublicationStepTyped ==
  ASSUME TypeOK, NEW p \in Publishers, PublicationStep(p) PROVE TypeOK'
  <1>1. CASE NotifyPublication(p)
    BY <1>1, IdlePublicationTyped, PublicationAssumption
    DEF NotifyPublication, SetPublish, TypeOK, source
  <1>2. CASE FailPublication(p)
    <2>1. lost' \in BOOLEAN
      BY <1>2 DEF FailPublication
    <2> QED
      BY <1>2, <2>1, IdlePublicationTyped
      DEF FailPublication, SetPublish, TypeOK, source
  <1> QED
    BY <1>1, <1>2, DropRejectedTyped, ReadsTyped, WithholdTyped,
       ReadLatestTyped, FlushesTyped, CommitPublicationTyped
    DEF PublicationStep

LEMMA EndedTyped ==
  ASSUME TypeOK, NEW w \in Workers, NEW new \in Rebuild, NEW i \in BOOLEAN,
         Ended(w, new, i)
  PROVE  rebuild' \in [Workers -> Rebuild]
  <1>1. ASSUME NEW o \in Workers, NEW b \in BOOLEAN
        PROVE  [rebuild[o] EXCEPT !.behind = rebuild[o].behind \ {w},
                                  !.blind = b] \in Rebuild
    BY DEF TypeOK, Rebuild
  <1>2. ASSUME NEW o \in Workers
        PROVE  (rebuild[o].blind \/ (i /\ rebuild[o].pc = "insert")) \in BOOLEAN
    BY DEF TypeOK, Rebuild
  <1> QED
    BY <1>1, <1>2, Zenon DEF Ended

LEMMA RebuildStepTyped ==
  ASSUME TypeOK, NEW w \in Workers, RebuildStep(w) PROVE TypeOK'
  <1>0. rebuild[w] \in Rebuild
    BY DEF TypeOK
  <1>1. CASE ReadPins(w)
    <2> DEFINE snap == [f \in Fields |-> IF pins[f].version = 0 THEN NoPin
                                                                ELSE pins[f]]
               q == [IdleRebuild EXCEPT !.pc = "delete", !.snap = snap]
    <2>1. snap \in [Fields -> Pin]
      BY PublicationAssumption DEF TypeOK, NoPin, Pin
    <2> HIDE DEF snap
    <2>2. q \in Rebuild
      BY <2>1, IdleRebuildTyped DEF Rebuild
    <2>3. SetRebuild(w, q)
      BY <1>1 DEF ReadPins, snap
    <2>4. rebuild' \in [Workers -> Rebuild]
      BY <2>2, <2>3 DEF SetRebuild, TypeOK
    <2>5. queue' \in 0..MaxQueue
      BY <1>1, PublicationAssumption DEF ReadPins, TypeOK
    <2>6. lost' \in BOOLEAN
      BY <1>1 DEF ReadPins
    <2> QED
      BY <1>1, <2>4, <2>5, <2>6 DEF ReadPins, TypeOK, source
  <1>2. CASE DeleteMetrics(w)
    <2> DEFINE b == IF metrics = NoMetrics THEN {}
                    ELSE {o \in Workers \ {w} : rebuild[o].pc = "insert"}
               q == [rebuild[w] EXCEPT !.pc = "insert", !.behind = b]
    <2>1. b \in SUBSET Workers
      OBVIOUS
    <2> HIDE DEF b
    <2>2. q \in Rebuild
      BY <1>0, <2>1 DEF Rebuild
    <2>3. SetRebuild(w, q)
      BY <1>2 DEF DeleteMetrics, b
    <2>4. rebuild' \in [Workers -> Rebuild]
      BY <2>2, <2>3 DEF SetRebuild, TypeOK
    <2> QED
      BY <1>2, <2>4 DEF DeleteMetrics, TypeOK, source
  <1>3. CASE InsertMetrics(w)
    <2> DEFINE used == {f \in Fields : rebuild[w].snap[f] # NoPin}
    <2>1. \A e \in Error : [IdleRebuild EXCEPT !.error = e] \in Rebuild
      BY IdleRebuildTyped DEF Rebuild
    <2>2. \/ \E e \in Error : Ended(w, [IdleRebuild EXCEPT !.error = e], FALSE)
          \/ Ended(w, IdleRebuild, used # {})
      BY <1>3 DEF InsertMetrics, Error
    <2>3. rebuild' \in [Workers -> Rebuild]
      <3>1. (used # {}) \in BOOLEAN
        OBVIOUS
      <3> QED
        BY <2>1, <2>2, <3>1, EndedTyped, IdleRebuildTyped
    <2>4. metrics' \in [Fields -> Pin]
      BY <1>0, <1>3 DEF InsertMetrics, TypeOK, Rebuild
    <2> QED
      BY <1>3, <2>3, <2>4 DEF InsertMetrics, TypeOK, source
  <1>4. CASE FailRebuild(w)
    <2>1. rebuild' \in [Workers -> Rebuild]
      BY <1>4, EndedTyped, IdleRebuildTyped DEF FailRebuild
    <2> QED
      BY <1>4, <2>1 DEF FailRebuild, TypeOK, source
  <1> QED
    BY <1>1, <1>2, <1>3, <1>4 DEF RebuildStep

LEMMA StepTyped == TypeOK /\ [Next]_vars => TypeOK'
  <1>1. TypeOK /\ UNCHANGED vars => TypeOK'
    BY DEF TypeOK, vars
  <1> QED
    BY <1>1, FilingStepTyped, ExtractionStepTyped, ReviewStepTyped,
       PublicationStepTyped, RebuildStepTyped DEF Next

(* Every variable keeps its type (run_extraction, complete_review,         *)
(* publish_provisional_mappings, rebuild_metrics and what they share).     *)
THEOREM TypeCorrect == Spec => []TypeOK
  BY InitTyped, StepTyped, PTL DEF Spec

-----------------------------------------------------------------------------
(* The inductive invariant *)

Safe == PublishedIsReviewed /\ PinsAreQualified /\ MetricsHaveLineage

IInv == TypeOK /\ Safe /\ SessionsInv /\ LineageInv

(* What is public is a version that exists.                                *)
LEMMA PinnedRow ==
  ASSUME IInv, NEW f \in Fields, pins[f].version # 0
  PROVE  pins[f].version \in Versions /\ ~Absent(f, pins[f].version)
  <1>1. pins[f] \in Pin
    BY DEF IInv, TypeOK
  <1>2. pins[f].version \in Versions
    BY <1>1, PublicationAssumption DEF Pin, Versions
  <1> QED
    BY <1>2 DEF IInv, Safe, PublishedIsReviewed

LEMMA InitInv == Init => IInv
  <1> SUFFICES ASSUME Init PROVE IInv
    OBVIOUS
  <1>1. Safe
    BY DEF Init, Safe, PublishedIsReviewed, PinsAreQualified,
           MetricsHaveLineage, NoPin
  <1>2. UncommittedRows
    BY DEF Init, UncommittedRows, Drafting, IdleReview, IdlePublication,
           Nothing, Versions
  <1>3. CasesHold
    BY DEF Init, CasesHold, NoRow, IdleReview
  <1>4. FactsHold
    BY DEF Init, FactsHold, IdlePublication
  <1>5. PlansHold
    BY PublicationAssumption
    DEF Init, PlansHold, PlanHolds, IdlePublication
  <1>6. LineageInv
    BY DEF Init, LineageInv, NoPin, IdleRebuild, IdlePublication
  <1> QED
    BY <1>1, <1>2, <1>3, <1>4, <1>5, <1>6, InitTyped DEF IInv, SessionsInv

(* A plan for a field is as good as the fact it came from, whatever else   *)
(* the publication has moved on to.                                        *)
LEMMA FromFactRests ==
  ASSUME NEW pub, NEW q, NEW f, FromFact(pub, f),
         q.known[f] = pub.known[f], q.to[f] = pub.to[f],
         q.insert[f] = pub.insert[f], q.parse = pub.parse
  PROVE  FromFact(q, f)
  BY DEF FromFact

LEMMA PlanPrimed ==
  ASSUME rows' = rows, NEW p, PlanHolds(publish'[p])
  PROVE  PlanHolds(publish[p])'
  <1>1. \A f : FromFact(publish'[p], f) => FromFact(publish[p], f)'
    BY DEF FromFact
  <1> QED
    BY <1>1 DEF PlanHolds

(* What publications rely on lies in the rows and in their own records.    *)
LEMMA PlansUndisturbed ==
  ASSUME PlansHold, UNCHANGED <<rows, publish>> PROVE PlansHold'
  <1> SUFFICES ASSUME NEW p \in Publishers PROVE PlanHolds(publish[p])'
    BY DEF PlansHold
  <1>1. PlanHolds(publish'[p])
    BY DEF PlansHold
  <1> QED
    BY <1>1, PlanPrimed

(* A step of a review that leaves the database alone: what its new record  *)
(* says must hold of the rows, and is nobody else's.                       *)
LEMMA ReviewMoves ==
  ASSUME IInv, TypeOK', NEW r \in Reviewers, NEW q \in ReviewRequest,
         SetReview(r, q),
         UNCHANGED <<filing, facts, rows, reviews, pins, metrics, publish,
                     rebuild>>,
         (q.op = "correct" /\ q.pc \in {"count", "finish"}) =>
           Absent(q.field, q.version) /\ ~Pending(q.field, q.version, r),
         q.pc \in {"lock", "insert", "count", "finish"} =>
           reviews[q.field][q.about].status # "absent",
         (q.pc = "finish" /\ q.allowed /\ q.op = "accept") =>
           rows[q.field][q.about].confident
  PROVE  IInv'
  <1>0. review' = [review EXCEPT ![r] = q] /\ review \in [Reviewers -> ReviewRequest]
    BY DEF SetReview, IInv, TypeOK
  <1>1. Safe'
    <2>0. Safe /\ \A f \in Fields : pins'[f].version # 0 => pins'[f] = pins[f]
      BY DEF IInv
    <2>1. PublishedIsReviewed'
      BY <2>0 DEF Safe, PublishedIsReviewed, Absent
    <2>2. PinsAreQualified'
      BY <2>0 DEF Safe, PinsAreQualified
    <2>3. MetricsHaveLineage'
      <3>1. \A f \in Fields : metrics[f] # NoPin => pins'[f] = pins[f]
        OBVIOUS
      <3> QED
        BY <2>0, <3>1 DEF Safe, MetricsHaveLineage
    <2> QED
      BY <2>1, <2>2, <2>3 DEF Safe
  <1>2. UncommittedRows'
    <2>1. ASSUME NEW s \in Reviewers, NEW f \in Fields, NEW v \in Versions,
                 Drafting(s, f, v)'
          PROVE  Absent(f, v)' /\ ~Pending(f, v, s)'
      <3>1. CASE s = r
        <4>1. q.op = "correct" /\ q.pc \in {"count", "finish"}
              /\ q.field = f /\ q.version = v
          BY <1>0, <2>1, <3>1 DEF Drafting
        <4>2. Absent(f, v) /\ ~Pending(f, v, r)
          BY <4>1
        <4> QED
          BY <1>0, <3>1, <4>2 DEF Pending, Drafting, Absent
      <3>2. CASE s # r
        <4>1. Drafting(s, f, v)
          BY <1>0, <2>1, <3>2 DEF Drafting
        <4>2. Absent(f, v) /\ ~Pending(f, v, s)
          BY <4>1 DEF IInv, SessionsInv, UncommittedRows
        <4>3. ~Drafting(r, f, v)'
          <5>1. SUFFICES ASSUME Drafting(r, f, v)' PROVE FALSE
            OBVIOUS
          <5>2. ~Pending(f, v, r)
            BY <1>0, <5>1 DEF Drafting
          <5> QED
            BY <3>2, <4>1, <5>2 DEF Pending
        <4> QED
          BY <1>0, <4>2, <4>3 DEF Pending, Drafting, Absent
      <3> QED
        BY <3>1, <3>2
    <2>2. ASSUME NEW p \in Publishers, NEW f \in Fields, NEW v \in Versions,
                 (publish[p].insert[f] = v)'
          PROVE  Absent(f, v)' /\ ~Pending(f, v, p)'
      <3>1. Absent(f, v) /\ ~Pending(f, v, p)
        BY <2>2 DEF IInv, SessionsInv, UncommittedRows
      <3>2. ~Drafting(r, f, v)'
        <4>1. SUFFICES ASSUME Drafting(r, f, v)' PROVE FALSE
          OBVIOUS
        <4>2. ~Pending(f, v, r)
          BY <1>0, <4>1 DEF Drafting
        <4> QED
          BY <2>2, <4>2, SessionsAssumption DEF Pending
      <3> QED
        BY <1>0, <3>1, <3>2 DEF Pending, Drafting, Absent
    <2> QED
      BY <2>1, <2>2 DEF UncommittedRows
  <1>3. CasesHold'
    <2>1. ASSUME NEW s \in Reviewers
          PROVE  LET req == review'[s] IN
                 /\ req.pc \in {"lock", "insert", "count", "finish"} =>
                      reviews[req.field][req.about].status # "absent"
                 /\ (req.pc = "finish" /\ req.allowed /\ req.op = "accept") =>
                      rows[req.field][req.about].confident
      <3>1. CASE s = r
        BY <1>0, <3>1
      <3>2. CASE s # r
        <4>1. review'[s] = review[s]
          BY <1>0, <3>2
        <4> QED
          BY <4>1 DEF IInv, SessionsInv, CasesHold
      <3> QED
        BY <3>1, <3>2
    <2> QED
      BY <2>1 DEF IInv, SessionsInv, CasesHold
  <1>4. FactsHold' /\ PlansHold' /\ LineageInv'
    <2>1. FactsHold' /\ LineageInv'
      BY DEF IInv, SessionsInv, FactsHold, LineageInv
    <2> QED
      BY <2>1, PlansUndisturbed DEF IInv, SessionsInv
  <1> QED
    BY <1>1, <1>2, <1>3, <1>4 DEF IInv, SessionsInv

(* The same for a publication, which may also remove pins without metrics. *)
LEMMA PublishMovesPins ==
  ASSUME IInv, TypeOK', NEW p \in Publishers, NEW q \in Publication,
         SetPublish(p, q),
         UNCHANGED <<filing, facts, rows, reviews, metrics, review, rebuild>>,
         \A f \in Fields : \/ pins'[f] = pins[f]
                           \/ pins'[f].version = 0 /\ metrics[f] = NoPin,
         \A f \in Fields, v \in Versions :
           q.insert[f] = v => Absent(f, v) /\ ~Pending(f, v, p),
         \A f \in Mapped : q.known[f] # "none" => q.parse # 0,
         PlanHolds(q),
         \A f \in Fields : q.plan[f] = "drop" => metrics[f] = NoPin
  PROVE  IInv'
  <1>0. publish' = [publish EXCEPT ![p] = q]
        /\ publish \in [Publishers -> Publication]
    BY DEF SetPublish, IInv, TypeOK
  <1>1. Safe'
    <2>1. PublishedIsReviewed'
      BY DEF IInv, Safe, PublishedIsReviewed, Absent
    <2>2. PinsAreQualified'
      BY DEF IInv, Safe, PinsAreQualified
    <2>3. MetricsHaveLineage'
      BY DEF IInv, Safe, MetricsHaveLineage
    <2> QED
      BY <2>1, <2>2, <2>3 DEF Safe
  <1>2. UncommittedRows'
    <2>1. ASSUME NEW s \in Reviewers, NEW f \in Fields, NEW v \in Versions,
                 Drafting(s, f, v)'
          PROVE  Absent(f, v)' /\ ~Pending(f, v, s)'
      <3>1. Drafting(s, f, v)
        BY <2>1 DEF Drafting
      <3>2. Absent(f, v) /\ ~Pending(f, v, s)
        BY <3>1 DEF IInv, SessionsInv, UncommittedRows
      <3>3. q.insert[f] # v
        <4>1. SUFFICES ASSUME q.insert[f] = v PROVE FALSE
          OBVIOUS
        <4>2. ~Pending(f, v, p)
          BY <4>1
        <4> QED
          BY <3>1, <4>2, SessionsAssumption DEF Pending
      <3> QED
        BY <1>0, <3>2, <3>3 DEF Pending, Drafting, Absent
    <2>2. ASSUME NEW o \in Publishers, NEW f \in Fields, NEW v \in Versions,
                 (publish[o].insert[f] = v)'
          PROVE  Absent(f, v)' /\ ~Pending(f, v, o)'
      <3>1. CASE o = p
        <4>1. Absent(f, v) /\ ~Pending(f, v, p)
          BY <1>0, <2>2, <3>1
        <4> QED
          BY <1>0, <3>1, <4>1 DEF Pending, Drafting, Absent
      <3>2. CASE o # p
        <4>1. publish[o].insert[f] = v
          BY <1>0, <2>2, <3>2
        <4>2. Absent(f, v) /\ ~Pending(f, v, o)
          BY <4>1 DEF IInv, SessionsInv, UncommittedRows
        <4>3. q.insert[f] # v
          <5>1. SUFFICES ASSUME q.insert[f] = v PROVE FALSE
            OBVIOUS
          <5>2. ~Pending(f, v, p)
            BY <5>1
          <5> QED
            BY <3>2, <4>1, <5>2 DEF Pending
        <4> QED
          BY <1>0, <4>2, <4>3 DEF Pending, Drafting, Absent
      <3> QED
        BY <3>1, <3>2
    <2> QED
      BY <2>1, <2>2 DEF UncommittedRows
  <1>3. CasesHold'
    BY DEF IInv, SessionsInv, CasesHold
  <1>4. FactsHold'
    BY <1>0 DEF IInv, SessionsInv, FactsHold
  <1>5. PlansHold'
    <2>1. ASSUME NEW o \in Publishers PROVE PlanHolds(publish[o])'
      <3>1. PlanHolds(publish'[o])
        BY <1>0 DEF IInv, SessionsInv, PlansHold
      <3>2. rows' = rows
        OBVIOUS
      <3> QED
        BY <3>1, <3>2, PlanPrimed
    <2> QED
      BY <2>1 DEF PlansHold
  <1>6. LineageInv'
    BY <1>0 DEF IInv, LineageInv
  <1> QED
    BY <1>1, <1>2, <1>3, <1>4, <1>5, <1>6 DEF IInv, SessionsInv

LEMMA PublishMoves ==
  ASSUME IInv, TypeOK', NEW p \in Publishers, NEW q \in Publication,
         SetPublish(p, q),
         UNCHANGED <<filing, facts, rows, reviews, pins, metrics, review,
                     rebuild>>,
         \A f \in Fields, v \in Versions :
           q.insert[f] = v => Absent(f, v) /\ ~Pending(f, v, p),
         \A f \in Mapped : q.known[f] # "none" => q.parse # 0,
         PlanHolds(q),
         \A f \in Fields : q.plan[f] = "drop" => metrics[f] = NoPin
  PROVE  IInv'
  BY PublishMovesPins

(* A rebuild's steps only bear on the snapshots and on the metrics.        *)
LEMMA RebuildMoves ==
  ASSUME IInv, TypeOK', UNCHANGED <<filing, facts, rows, reviews, pins, review,
                                    publish>>,
         MetricsHaveLineage',
         \A w \in Workers, f \in Fields :
           rebuild'[w].snap[f] # NoPin => rebuild'[w].snap[f].id # 0,
         \A p \in Publishers, f \in Fields :
           publish[p].plan[f] = "drop" => metrics'[f] = NoPin
  PROVE  IInv'
  <1>1. Safe'
    BY DEF IInv, Safe, PublishedIsReviewed, PinsAreQualified, Absent
  <1>2. UncommittedRows'
    BY DEF IInv, SessionsInv, UncommittedRows, Absent, Pending, Drafting
  <1>3. CasesHold'
    BY DEF IInv, SessionsInv, CasesHold
  <1>4. FactsHold' /\ PlansHold'
    BY PlansUndisturbed DEF IInv, SessionsInv, FactsHold
  <1>5. LineageInv'
    BY DEF IInv, LineageInv
  <1> QED
    BY <1>1, <1>2, <1>3, <1>4, <1>5 DEF IInv, SessionsInv

-----------------------------------------------------------------------------
(* Filings, extractions and samples *)

LEMMA StillInv ==
  ASSUME IInv, TypeOK', FactsHold',
         UNCHANGED <<rows, reviews, pins, metrics, review, publish, rebuild>>
  PROVE  IInv'
  <1>1. Safe'
    BY DEF IInv, Safe, PublishedIsReviewed, PinsAreQualified,
           MetricsHaveLineage, Absent
  <1>2. UncommittedRows'
    BY DEF IInv, SessionsInv, UncommittedRows, Absent, Pending, Drafting
  <1>3. CasesHold' /\ LineageInv'
    BY DEF IInv, SessionsInv, CasesHold, LineageInv
  <1>4. PlansHold'
    BY PlansUndisturbed DEF IInv, SessionsInv
  <1> QED
    BY <1>1, <1>2, <1>3, <1>4 DEF IInv, SessionsInv

LEMMA FilingStepInv == IInv /\ FilingStep => IInv'
  <1> SUFFICES ASSUME IInv, FilingStep PROVE IInv'
    OBVIOUS
  <1>0. TypeOK /\ TypeOK'
    BY FilingStepTyped DEF IInv
  <1>1. ASSUME NEW a \in {"pdf", "nse"}, NEW c \in [Mapped -> Fact],
               StoreFiling(a, c)
        PROVE  IInv'
    <2>1. filing'.parses = filing.parses
      BY <1>0, <1>1 DEF StoreFiling, TypeOK, Filing
    <2>2. FactsHold'
      BY <1>1, <2>1 DEF StoreFiling, IInv, SessionsInv, FactsHold, sessions
    <2> QED
      BY <1>0, <1>1, <2>2, StillInv DEF StoreFiling, sessions
  <1>2. CASE ParseFiling
    <2>1. filing.parses \in Nat
      BY <1>0, PublicationAssumption DEF TypeOK, Filing
    <2>2. filing'.parses # 0 \/ (facts' = facts /\ filing'.parses = filing.parses)
      <3>1. filing \in Filing
        BY <1>0 DEF TypeOK
      <3>2. CASE filing.adapter = "nse"
        <4>1. filing' = [filing EXCEPT !.parsed = TRUE,
                                       !.parses = filing.parses + 1]
          BY <1>2, <3>2 DEF ParseFiling
        <4>2. filing'.parses = filing.parses + 1
          BY <3>1, <4>1 DEF Filing
        <4> QED
          BY <2>1, <4>2
      <3>3. CASE filing.adapter # "nse"
        <4>1. filing' = [filing EXCEPT !.parsed = TRUE] /\ facts' = facts
          BY <1>2, <3>3 DEF ParseFiling
        <4> QED
          BY <3>1, <4>1 DEF Filing
      <3> QED
        BY <3>2, <3>3
    <2>3. FactsHold'
      BY <1>2, <2>2 DEF ParseFiling, IInv, SessionsInv, FactsHold, sessions
    <2> QED
      BY <1>0, <1>2, <2>3, StillInv DEF ParseFiling, sessions
  <1>3. ASSUME NEW f \in Rejectable, ReviewConceptMapping(f) PROVE IInv'
    <2>1. FactsHold'
      BY <1>3 DEF ReviewConceptMapping, IInv, SessionsInv, FactsHold, sessions
    <2> QED
      BY <1>0, <1>3, <2>1, StillInv DEF ReviewConceptMapping, sessions
  <1>4. ASSUME NEW sample \in SUBSET Eligible, EnqueueSample(sample) PROVE IInv'
    <2>0. UNCHANGED <<filing, facts, rows, pins, metrics, review, publish, rebuild>>
      BY <1>4 DEF EnqueueSample, source, sessions
    <2>1. ASSUME NEW f \in Fields, NEW v \in Versions
          PROVE  /\ reviews'[f][v].status # reviews[f][v].status =>
                      /\ reviews'[f][v].status = "queued"
                      /\ reviews[f][v].status = "absent"
                      /\ rows[f][v].method = "llm"
      <3>1. reviews'[f][v] = IF <<f, v>> \in sample
                               THEN [status |-> "queued", fix |-> 0]
                               ELSE reviews[f][v]
        BY <1>4 DEF EnqueueSample
      <3>2. <<f, v>> \in Eligible =>
              rows[f][v].method = "llm" /\ reviews[f][v].status = "absent"
        BY DEF Eligible
      <3> QED
        BY <3>1, <3>2
    <2>2. PublishedIsReviewed'
      <3>1. ASSUME NEW f \in Fields, pins[f].version # 0
            PROVE  /\ ~Absent(f, pins[f].version)'
                   /\ rows[f][pins[f].version].method = "llm" =>
                        reviews'[f][pins[f].version].status
                          \in {"accepted", "corrected"}
                   /\ rows[f][pins[f].version].method = "human" =>
                        reviews'[f][rows[f][pins[f].version].corrects].status
                          \in {"accepted", "corrected"}
        <4> DEFINE v == pins[f].version
        <4>1. v \in Versions
          BY <3>1, PinnedRow
        <4>2. rows[f][v].method = "human" => rows[f][v].corrects \in Versions
          BY <4>1 DEF IInv, SessionsInv, CasesHold
        <4> QED
          BY ZenonT(60), <2>0, <2>1, <3>1, <4>1, <4>2
          DEF IInv, Safe, PublishedIsReviewed, Absent
      <3> QED
        BY <2>0, <3>1 DEF PublishedIsReviewed
    <2>3. Safe'
      BY <2>0, <2>2 DEF IInv, Safe, PinsAreQualified, MetricsHaveLineage
    <2>4. UncommittedRows' /\ FactsHold' /\ LineageInv'
      BY <2>0 DEF IInv, SessionsInv, UncommittedRows, Absent, Pending, Drafting,
                  FactsHold, LineageInv
    <2>5. CasesHold'
      <3>1. \A r \in Reviewers : review[r].field \in Fields
                                 /\ review[r].about \in Versions
        BY <1>0 DEF TypeOK, ReviewRequest
      <3>2. ASSUME NEW f \in Fields, NEW v \in Versions
            PROVE  /\ reviews[f][v].status # "absent" =>
                        reviews'[f][v].status # "absent"
                   /\ reviews'[f][v].status # "absent" =>
                        rows[f][v].method = "llm"
                   /\ reviews[f][v].status \in {"accepted", "corrected"} =>
                        reviews'[f][v].status = reviews[f][v].status
        BY <2>1 DEF IInv, SessionsInv, CasesHold
      <3>3. ASSUME NEW f \in Fields, NEW v \in Versions
            PROVE  /\ rows[f][v].qa = "provisional" => rows[f][v].method = "xbrl"
                   /\ rows[f][v].method = "human" =>
                        /\ rows[f][v].corrects \in Versions
                        /\ reviews'[f][rows[f][v].corrects].status
                             \in {"accepted", "corrected"}
        BY <3>2 DEF IInv, SessionsInv, CasesHold
      <3>4. ASSUME NEW r \in Reviewers
            PROVE  /\ review[r].pc \in {"lock", "insert", "count", "finish"} =>
                        reviews'[review[r].field][review[r].about].status
                          # "absent"
                   /\ (review[r].pc = "finish" /\ review[r].allowed
                       /\ review[r].op = "accept") =>
                        rows[review[r].field][review[r].about].confident
        BY <3>1, <3>2 DEF IInv, SessionsInv, CasesHold
      <3> QED
        BY <2>0, <3>2, <3>3, <3>4 DEF CasesHold
    <2>6. PlansHold'
      BY <2>0, PlansUndisturbed DEF IInv, SessionsInv
    <2> QED
      BY <1>0, <2>3, <2>4, <2>5, <2>6 DEF IInv, SessionsInv
  <1> QED
    BY <1>1, <1>2, <1>3, <1>4 DEF FilingStep

(* A field that has a row keeps its rows when an extraction commits.       *)
LEMMA ExtractionStepInv ==
  ASSUME IInv, NEW x \in Extractors, ExtractionStep(x) PROVE IInv'
  <1>0. TypeOK /\ TypeOK'
    BY ExtractionStepTyped DEF IInv
  <1>1. CASE StartExtraction(x)
    <2>1. FactsHold'
      BY <1>1 DEF StartExtraction, IInv, SessionsInv, FactsHold, source
    <2> QED
      BY <1>0, <1>1, <2>1, StillInv DEF StartExtraction, source
  <1>2. ASSUME NEW found \in SUBSET Fields, NEW sure \in SUBSET found,
               CommitExtraction(x, found, sure)
        PROVE  IInv'
    <2>0. UNCHANGED <<filing, facts, reviews, pins, metrics, review, publish,
                      rebuild>>
      BY <1>2 DEF CommitExtraction, source
    <2>1. ASSUME NEW f \in Fields, NEW v \in Versions
          PROVE  \/ rows'[f][v] = rows[f][v]
                 \/ /\ Absent(f, v) /\ ~Pending(f, v, x)
                    /\ rows'[f][v].method = "llm"
                    /\ rows'[f][v].qa = "unreviewed"
      <3>1. CASE /\ \A g \in found : Absent(g, extract[x].version)
                 /\ f \in found /\ v = extract[x].version
        <4>1. rows'[f][v] = Extracted(f \in sure)
          BY <1>0, <1>2, <3>1 DEF CommitExtraction, TypeOK
        <4>2. Absent(f, v) /\ ~Pending(f, v, x)
          BY <1>2, <3>1 DEF CommitExtraction
        <4>3. rows'[f][v].method = "llm" /\ rows'[f][v].qa = "unreviewed"
          BY <4>1 DEF Extracted, NoRow
        <4> QED
          BY <4>2, <4>3
      <3>2. CASE ~(/\ \A g \in found : Absent(g, extract[x].version)
                   /\ f \in found /\ v = extract[x].version)
        BY <1>0, <1>2, <3>2 DEF CommitExtraction, TypeOK
      <3> QED
        BY <3>1, <3>2
    <2>2. ASSUME NEW f \in Fields, NEW v \in Versions, ~Absent(f, v)
          PROVE  rows'[f][v] = rows[f][v]
      BY <2>1, <2>2
    <2>3. \A f \in Fields : pins[f].version # 0 =>
            pins[f].version \in Versions /\ ~Absent(f, pins[f].version)
      BY PinnedRow
    <2>4. \A f \in Fields : pins[f].version # 0 =>
            rows'[f][pins[f].version] = rows[f][pins[f].version]
      BY <2>2, <2>3
    <2>5. Safe'
      BY <2>0, <2>4 DEF IInv, Safe, PublishedIsReviewed, PinsAreQualified,
                        MetricsHaveLineage, Absent
    <2>6. UncommittedRows'
      <3>1. ASSUME NEW r \in Reviewers, NEW f \in Fields, NEW v \in Versions,
                   Drafting(r, f, v)
            PROVE  Absent(f, v)'
        <4>1. Absent(f, v)
          BY <3>1 DEF IInv, SessionsInv, UncommittedRows
        <4>2. Pending(f, v, x)
          BY <3>1, SessionsAssumption DEF Pending
        <4> QED
          BY <2>1, <4>1, <4>2 DEF Absent
      <3>2. ASSUME NEW p \in Publishers, NEW f \in Fields, NEW v \in Versions,
                   publish[p].insert[f] = v
            PROVE  Absent(f, v)'
        <4>1. Absent(f, v)
          BY <3>2 DEF IInv, SessionsInv, UncommittedRows
        <4>2. Pending(f, v, x)
          BY <3>2, SessionsAssumption DEF Pending
        <4> QED
          BY <2>1, <4>1, <4>2 DEF Absent
      <3> QED
        BY <2>0, <3>1, <3>2
        DEF IInv, SessionsInv, UncommittedRows, Pending, Drafting
    <2>7. CasesHold'
      <3>1. ASSUME NEW r \in Reviewers,
                   review[r].pc \in {"lock", "insert", "count", "finish"}
            PROVE  rows'[review[r].field][review[r].about] =
                     rows[review[r].field][review[r].about]
        <4>1. review[r].field \in Fields /\ review[r].about \in Versions
          BY <1>0 DEF TypeOK, ReviewRequest
        <4>2. rows[review[r].field][review[r].about].method = "llm"
          BY <3>1, <4>1 DEF IInv, SessionsInv, CasesHold
        <4> QED
          BY <2>2, <4>1, <4>2 DEF Absent
      <3>2. ASSUME NEW f \in Fields, NEW v \in Versions
            PROVE  /\ reviews[f][v].status # "absent" => rows'[f][v].method = "llm"
                   /\ rows'[f][v].qa = "provisional" => rows'[f][v].method = "xbrl"
                   /\ rows'[f][v].method = "human" =>
                        /\ rows'[f][v].corrects \in Versions
                        /\ reviews[f][rows'[f][v].corrects].status
                             \in {"accepted", "corrected"}
        BY <2>1 DEF IInv, SessionsInv, CasesHold
      <3> QED
        BY <2>0, <3>1, <3>2 DEF IInv, SessionsInv, CasesHold
    <2>8. PlansHold'
      <3>1. ASSUME NEW p \in Publishers, NEW f \in Fields,
                   FromFact(publish[p], f)
            PROVE  FromFact(publish[p], f)'
        BY <2>0, <2>2, <3>1 DEF FromFact, Absent
      <3>2. \A p \in Publishers :
              publish[p].field \in Fields /\ publish[p].active \subseteq Fields
        BY <1>0, PublicationAssumption DEF TypeOK, Publication
      <3> QED
        BY <2>0, <3>1, <3>2 DEF IInv, SessionsInv, PlansHold, PlanHolds
    <2>9. FactsHold' /\ LineageInv'
      BY <2>0 DEF IInv, SessionsInv, FactsHold, LineageInv
    <2> QED
      BY <1>0, <2>5, <2>6, <2>7, <2>8, <2>9 DEF IInv, SessionsInv
  <1> QED
    BY <1>1, <1>2 DEF ExtractionStep

-----------------------------------------------------------------------------
(* Reviews *)

(* A request that only reads is about a case that is there.                *)
LEMMA ReadStatInv ==
  ASSUME IInv, NEW r \in Reviewers, ReadStat(r, review[r]),
         review[r].pc \in {"lock", "insert"},
         review[r].op = "correct" =>
           /\ Absent(review[r].field, review[r].version)
           /\ ~Pending(review[r].field, review[r].version, r)
  PROVE  IInv'
  <1> DEFINE q1 == [review[r] EXCEPT !.pc = "count",
                                     !.stat = stats[Family[review[r].field]]]
             q2 == [IdleReview EXCEPT !.error = "TypeError"]
  <1>0. TypeOK /\ TypeOK'
    BY ReadStatTyped DEF IInv
  <1>1. review[r] \in ReviewRequest
    BY <1>0 DEF TypeOK
  <1>2. UNCHANGED <<filing, facts, rows, reviews, pins, metrics, publish,
                    rebuild>>
    BY DEF ReadStat, ReviewUnchanged, Raise, source
  <1>3. CASE Family[review[r].field] \in Seeded
    <2>1. stats[Family[review[r].field]] \in Stat
      BY <1>0, <1>3 DEF TypeOK
    <2>2. q1 \in ReviewRequest
      BY <1>1, <2>1 DEF ReviewRequest
    <2>3. /\ q1.pc = "count" /\ q1.op = review[r].op
          /\ q1.field = review[r].field /\ q1.about = review[r].about
          /\ q1.version = review[r].version
      BY <1>1 DEF ReviewRequest
    <2>4. reviews[q1.field][q1.about].status # "absent"
      BY <2>3 DEF IInv, SessionsInv, CasesHold
    <2>5. SetReview(r, q1)
      BY <1>3 DEF ReadStat
    <2> HIDE DEF q1
    <2> QED
      BY <1>0, <1>2, <2>2, <2>3, <2>4, <2>5, ReviewMoves
  <1>4. CASE Family[review[r].field] \notin Seeded
    <2>1. q2 \in ReviewRequest /\ q2.pc = "idle"
      BY IdleReviewTyped DEF ReviewRequest, Error, IdleReview
    <2>2. SetReview(r, q2)
      BY <1>4 DEF ReadStat, Raise
    <2> HIDE DEF q2
    <2> QED
      BY <1>0, <1>2, <2>1, <2>2, ReviewMoves
  <1> QED
    BY <1>3, <1>4

LEMMA RaiseInv ==
  ASSUME IInv, TypeOK', NEW r \in Reviewers, Raise(r, "Integrity") PROVE IInv'
  <1> DEFINE q == [IdleReview EXCEPT !.error = "Integrity"]
  <1>1. q \in ReviewRequest /\ q.pc = "idle"
    BY IdleReviewTyped DEF ReviewRequest, Error, IdleReview
  <1>2. SetReview(r, q)
        /\ UNCHANGED <<filing, facts, rows, reviews, pins, metrics, publish,
                       rebuild>>
    BY DEF Raise, source
  <1> HIDE DEF q
  <1> QED
    BY <1>1, <1>2, ReviewMoves

(* The requests that only read.                                            *)
LEMMA ReviewReadsInv ==
  ASSUME IInv, TypeOK', NEW r \in Reviewers,
         \/ \E f \in Fields, v \in Versions, op \in {"accept", "correct"} :
              StartReview(r, f, v, op)
         \/ LockAccepted(r)
         \/ LockCorrected(r)
         \/ InsertCorrection(r)
         \/ CountOutcome(r)
  PROVE  IInv'
  <1>0. review[r] \in ReviewRequest
    BY DEF IInv, TypeOK
  <1>1. ASSUME NEW f \in Fields, NEW v \in Versions,
               NEW op \in {"accept", "correct"}, StartReview(r, f, v, op)
        PROVE  IInv'
    <2> DEFINE q == [IdleReview EXCEPT !.pc = "lock", !.op = op, !.field = f,
                                       !.about = v]
    <2>1. /\ q \in ReviewRequest /\ q.pc = "lock"
          /\ q.field = f /\ q.about = v
      BY IdleReviewTyped DEF ReviewRequest
    <2>2. reviews[f][v].status # "absent" /\ SetReview(r, q)
          /\ UNCHANGED <<filing, facts, rows, reviews, pins, metrics, publish,
                         rebuild>>
      BY <1>1 DEF StartReview, ReviewUnchanged, source
    <2> HIDE DEF q
    <2> QED
      BY <2>1, <2>2, ReviewMoves
  <1>2. CASE LockAccepted(r)
    BY <1>2, ReadStatInv DEF LockAccepted
  <1>3. CASE LockCorrected(r)
    <2>1. PICK n \in 0..(MaxVersion - 1) :
            SetReview(r, [review[r] EXCEPT !.pc = "insert", !.version = n + 1])
      BY <1>3 DEF LockCorrected
    <2> DEFINE q == [review[r] EXCEPT !.pc = "insert", !.version = n + 1]
    <2>2. n + 1 \in Versions
      BY PublicationAssumption DEF Versions
    <2>3. /\ q \in ReviewRequest /\ q.pc = "insert"
          /\ q.field = review[r].field /\ q.about = review[r].about
      BY <1>0, <2>2 DEF ReviewRequest
    <2>4. reviews[q.field][q.about].status # "absent"
      BY <1>3, <2>3 DEF LockCorrected, IInv, SessionsInv, CasesHold
    <2>5. UNCHANGED <<filing, facts, rows, reviews, pins, metrics, publish,
                      rebuild>>
      BY <1>3 DEF LockCorrected, ReviewUnchanged, source
    <2>6. SetReview(r, q)
      BY <2>1
    <2> HIDE DEF q
    <2> QED
      BY <2>3, <2>4, <2>5, <2>6, ReviewMoves
  <1>4. CASE InsertCorrection(r)
    BY <1>4, ReadStatInv, RaiseInv DEF InsertCorrection
  <1>5. CASE CountOutcome(r)
    <2> DEFINE q == [review[r] EXCEPT !.pc = "finish",
                       !.pin = PinRead(review[r].field),
                       !.allowed = Publishable(review[r])]
    <2>1. PinRead(review[r].field) \in Pin
      BY <1>0, PinReadTyped DEF ReviewRequest, IInv
    <2>2. Publishable(review[r]) \in BOOLEAN
      BY DEF Publishable
    <2>3. /\ q \in ReviewRequest /\ q.pc = "finish" /\ q.op = review[r].op
          /\ q.field = review[r].field /\ q.about = review[r].about
          /\ q.version = review[r].version
          /\ q.allowed = Publishable(review[r])
      BY <1>0, <2>1, <2>2 DEF ReviewRequest
    <2>4. review[r].pc = "count" /\ SetReview(r, q)
          /\ UNCHANGED <<filing, facts, rows, reviews, pins, metrics, publish,
                         rebuild>>
      BY <1>5 DEF CountOutcome, ReviewUnchanged, source
    <2> HIDE DEF q
    <2>5. reviews[q.field][q.about].status # "absent"
      BY <2>3, <2>4 DEF IInv, SessionsInv, CasesHold
    <2>6. q.op = "correct" =>
            Absent(q.field, q.version) /\ ~Pending(q.field, q.version, r)
      <3>1. q.field \in Fields /\ q.version \in Versions
        BY <2>3 DEF ReviewRequest
      <3>2. q.op = "correct" => Drafting(r, q.field, q.version)
        BY <2>3, <2>4 DEF Drafting
      <3> QED
        BY <3>1, <3>2 DEF IInv, SessionsInv, UncommittedRows
    <2>7. (q.allowed /\ q.op = "accept") => rows[q.field][q.about].confident
      BY <2>3 DEF Publishable
    <2> QED
      BY <2>3, <2>4, <2>5, <2>6, <2>7, ReviewMoves
  <1> QED
    BY <1>1, <1>2, <1>3, <1>4, <1>5

(* What the commit of a decision leaves of rows and reviews.               *)
LEMMA DecisionRows ==
  ASSUME IInv, NEW r \in Reviewers, review[r].pc = "finish", CommitReview(r),
         NEW f \in Fields, NEW v \in Versions
  PROVE  /\ \/ rows'[f][v] = rows[f][v]
            \/ /\ f = review[r].field /\ v = PublishedVersion(review[r])
               /\ rows'[f][v] = WrittenRow(review[r])
               /\ review[r].op = "accept" =>
                    /\ rows[f][v].method = "llm" /\ rows'[f][v].method = "llm"
                    /\ rows'[f][v].qa = "sampled_ok"
                    /\ rows'[f][v].confident = rows[f][v].confident
               /\ review[r].op = "correct" =>
                    /\ Absent(f, v) /\ ~Pending(f, v, r)
                    /\ rows'[f][v].method = "human"
                    /\ rows'[f][v].qa = "corrected"
                    /\ rows'[f][v].confident
                    /\ rows'[f][v].corrects = review[r].about
         /\ \/ reviews'[f][v] = reviews[f][v]
            \/ /\ f = review[r].field /\ v = review[r].about
               /\ reviews'[f][v].status \in {"accepted", "corrected"}
               /\ rows[f][v].method = "llm"
         /\ (f = review[r].field /\ v = review[r].about) =>
              reviews'[f][v].status \in {"accepted", "corrected"}
         /\ (f = review[r].field /\ v = PublishedVersion(review[r])) =>
              rows'[f][v] = WrittenRow(review[r])
  <1> DEFINE req == review[r]
  <1>0. TypeOK /\ req \in ReviewRequest
    BY DEF IInv, TypeOK
  <1>1. /\ req.field \in Fields /\ req.about \in Versions
        /\ req.version \in Versions /\ req.op \in {"accept", "correct"}
        /\ PublishedVersion(req) \in Versions
    BY <1>0 DEF ReviewRequest, PublishedVersion
  <1>2. rows[req.field][req.about].method = "llm"
    BY <1>1 DEF IInv, SessionsInv, CasesHold
  <1>3. req.op = "correct" =>
          Absent(req.field, req.version) /\ ~Pending(req.field, req.version, r)
    <2>1. req.op = "correct" => Drafting(r, req.field, req.version)
      BY DEF Drafting
    <2> QED
      BY <1>1, <2>1 DEF IInv, SessionsInv, UncommittedRows
  <1>4. IF f = req.field /\ v = PublishedVersion(req)
          THEN rows'[f][v] = WrittenRow(req)
          ELSE rows'[f][v] = rows[f][v]
    BY <1>0, <1>1 DEF CommitReview, TypeOK
  <1>5. rows[req.field][req.about] \in Row
    BY <1>0, <1>1 DEF TypeOK
  <1>6. req.op = "accept" =>
          /\ PublishedVersion(req) = req.about
          /\ WrittenRow(req).method = rows[req.field][req.about].method
          /\ WrittenRow(req).qa = "sampled_ok"
          /\ WrittenRow(req).confident = rows[req.field][req.about].confident
    BY <1>5 DEF PublishedVersion, WrittenRow, Row
  <1>7. req.op = "correct" =>
          /\ PublishedVersion(req) = req.version
          /\ WrittenRow(req).method = "human" /\ WrittenRow(req).qa = "corrected"
          /\ WrittenRow(req).confident /\ WrittenRow(req).corrects = req.about
    BY DEF PublishedVersion, WrittenRow
  <1>8. IF f = req.field /\ v = req.about
          THEN reviews'[f][v] = WrittenReview(req)
          ELSE reviews'[f][v] = reviews[f][v]
    BY <1>0, <1>1 DEF CommitReview, TypeOK
  <1>9. WrittenReview(req).status \in {"accepted", "corrected"}
    <2>1. reviews[req.field][req.about] \in Review
      BY <1>0, <1>1 DEF TypeOK
    <2> QED
      BY <1>1, <2>1 DEF WrittenReview, Review
  <1> QED
    BY <1>1, <1>2, <1>3, <1>4, <1>6, <1>7, <1>8, <1>9

LEMMA CommitReviewInv ==
  ASSUME IInv, TypeOK', NEW r \in Reviewers, review[r].pc = "finish",
         CommitReview(r)
  PROVE  IInv'
  <1> DEFINE req == review[r]
             v0 == PublishedVersion(req)
             q == IF req.allowed THEN [req EXCEPT !.pc = "notify"] ELSE IdleReview
  <1>0. TypeOK /\ req \in ReviewRequest
    BY DEF IInv, TypeOK
  <1>1. /\ req.field \in Fields /\ req.about \in Versions /\ v0 \in Versions
        /\ req.op \in {"accept", "correct"}
    BY <1>0 DEF ReviewRequest, PublishedVersion
  <1>2. UNCHANGED <<filing, facts, metrics, publish, rebuild>>
    BY DEF CommitReview, source
  <1>3. q.pc \in {"idle", "notify"}
    BY <1>0 DEF ReviewRequest, IdleReview
  <1>4. review' = [review EXCEPT ![r] = q]
    BY DEF CommitReview, SetReview
  <1> HIDE DEF q
  <1>5. ASSUME NEW f \in Fields
        PROVE  \/ pins'[f] = pins[f]
               \/ f = req.field /\ req.allowed /\ pins'[f] = PointedTo(f, v0)
    BY <1>0, <1>1 DEF CommitReview, Repoints, TypeOK
  <1>6. ASSUME NEW f \in Fields, NEW v \in Versions, ~Absent(f, v)
        PROVE  /\ rows'[f][v].method = rows[f][v].method
               /\ rows'[f][v] # rows[f][v] =>
                    /\ rows[f][v].method = "llm"
                    /\ rows'[f][v].qa = "sampled_ok"
                    /\ rows'[f][v].confident = rows[f][v].confident
    BY <1>1, <1>6, DecisionRows
  <1>7. ASSUME NEW f \in Fields, NEW v \in Versions
        PROVE  /\ rows'[f][v].method = "human" =>
                    /\ rows'[f][v].corrects \in Versions
                    /\ reviews'[f][rows'[f][v].corrects].status
                         \in {"accepted", "corrected"}
               /\ reviews'[f][v].status # "absent" => rows'[f][v].method = "llm"
               /\ rows'[f][v].qa = "provisional" => rows'[f][v].method = "xbrl"
               /\ reviews[f][v].status \in {"accepted", "corrected"} =>
                    reviews'[f][v].status \in {"accepted", "corrected"}
               /\ reviews[f][v].status # "absent" =>
                    reviews'[f][v].status # "absent"
    <2>1. /\ reviews[f][v].status \in {"accepted", "corrected"} =>
               reviews'[f][v].status \in {"accepted", "corrected"}
          /\ reviews[f][v].status # "absent" => reviews'[f][v].status # "absent"
      BY DecisionRows
    <2>2. rows'[f][v].qa = "provisional" => rows'[f][v].method = "xbrl"
      BY <1>1, DecisionRows DEF IInv, SessionsInv, CasesHold
    <2>3. reviews'[f][v].status # "absent" => rows'[f][v].method = "llm"
      <3>1. reviews'[f][v].status # "absent" => rows[f][v].method = "llm"
        BY DecisionRows DEF IInv, SessionsInv, CasesHold
      <3> QED
        BY <1>6, <3>1 DEF Absent
    <2>4. ASSUME rows'[f][v].method = "human"
          PROVE  /\ rows'[f][v].corrects \in Versions
                 /\ reviews'[f][rows'[f][v].corrects].status
                      \in {"accepted", "corrected"}
      <3>1. CASE rows'[f][v] = rows[f][v]
        <4>1. /\ rows[f][v].corrects \in Versions
              /\ reviews[f][rows[f][v].corrects].status
                   \in {"accepted", "corrected"}
          BY <2>4, <3>1 DEF IInv, SessionsInv, CasesHold
        <4> DEFINE c == rows[f][v].corrects
        <4>2. reviews'[f][c].status \in {"accepted", "corrected"}
          BY <4>1, DecisionRows
        <4> QED
          BY <3>1, <4>1, <4>2
      <3>2. CASE rows'[f][v] # rows[f][v]
        <4>1. f = req.field /\ rows'[f][v].corrects = req.about
          BY <1>1, <2>4, <3>2, DecisionRows
        <4>2. reviews'[req.field][req.about].status \in {"accepted", "corrected"}
          BY <1>1, DecisionRows
        <4> QED
          BY <1>1, <4>1, <4>2
      <3> QED
        BY <3>1, <3>2
    <2> QED
      BY <2>1, <2>2, <2>3, <2>4
  <1>8. ASSUME NEW f \in Fields, f = req.field, req.allowed,
               pins'[f] = PointedTo(f, v0)
        PROVE  /\ pins'[f].version = v0 /\ v0 \in Versions
               /\ rows'[f][v0].method \in {"llm", "human"}
               /\ rows'[f][v0].method = "llm" =>
                    reviews'[f][v0].status \in {"accepted", "corrected"}
               /\ rows'[f][v0].qa \in {"sampled_ok", "corrected"}
               /\ rows'[f][v0].confident
    <2>1. pins'[f].version = v0
      BY <1>8 DEF PointedTo
    <2>2. CASE req.op = "accept"
      <3>1. v0 = req.about
        BY <2>2 DEF PublishedVersion
      <3>2. rows[f][v0].confident
        BY <1>8, <2>2, <3>1 DEF IInv, SessionsInv, CasesHold
      <3>3. reviews'[f][v0].status \in {"accepted", "corrected"}
        BY <1>1, <1>8, <3>1, DecisionRows
      <3>4. rows[f][v0].method = "llm"
        BY <1>1, <1>8, <3>1 DEF IInv, SessionsInv, CasesHold
      <3>5. rows[f][v0] \in Row /\ rows'[f][v0] = WrittenRow(req)
        BY <1>0, <1>1, <1>8, DecisionRows DEF TypeOK
      <3>6. /\ rows'[f][v0].qa = "sampled_ok"
            /\ rows'[f][v0].method = rows[f][v0].method
            /\ rows'[f][v0].confident = rows[f][v0].confident
        BY <1>8, <2>2, <3>1, <3>5 DEF WrittenRow, Row
      <3> QED
        BY <1>1, <2>1, <3>2, <3>3, <3>4, <3>6
    <2>3. CASE req.op = "correct"
      <3>1. rows'[f][v0] = WrittenRow(req)
        BY <1>1, <1>8, DecisionRows
      <3> QED
        BY <1>1, <2>1, <2>3, <3>1 DEF WrittenRow
    <2> QED
      BY <1>1, <2>2, <2>3
  <1>9. ASSUME NEW f \in Fields, pins[f].version # 0
        PROVE  pins[f].version \in Versions /\ ~Absent(f, pins[f].version)
    BY <1>9, PinnedRow
  <1>10. PublishedIsReviewed'
    <2>1. ASSUME NEW f \in Fields, pins'[f].version # 0
          PROVE  /\ rows'[f][pins'[f].version].method # "absent"
                 /\ rows'[f][pins'[f].version].method = "llm" =>
                      reviews'[f][pins'[f].version].status
                        \in {"accepted", "corrected"}
                 /\ pins'[f].version \in Versions
      <3>1. CASE pins'[f] = pins[f]
        <4> DEFINE v == pins[f].version
        <4>1. v \in Versions /\ ~Absent(f, v)
          BY <1>9, <2>1, <3>1
        <4>2. rows'[f][v].method = rows[f][v].method
          BY <1>6, <4>1
        <4>3. rows[f][v].method = "llm" =>
                reviews[f][v].status \in {"accepted", "corrected"}
          BY <2>1, <3>1 DEF IInv, Safe, PublishedIsReviewed
        <4> QED
          BY <1>7, <3>1, <4>1, <4>2, <4>3 DEF Absent
      <3>2. CASE pins'[f] # pins[f]
        BY <1>5, <1>8, <3>2
      <3> QED
        BY <3>1, <3>2
    <2> QED
      BY <1>7, <2>1 DEF PublishedIsReviewed, Absent
  <1>11. PinsAreQualified'
    <2>1. ASSUME NEW f \in Fields, pins'[f].version # 0
          PROVE  LET v == pins'[f].version IN
                 \/ rows'[f][v].qa \in {"sampled_ok", "corrected"}
                    /\ rows'[f][v].confident
                 \/ rows'[f][v].qa = "provisional" /\ rows'[f][v].fact # 0
      <3>1. CASE pins'[f] = pins[f]
        <4> DEFINE v == pins[f].version
        <4>1. v \in Versions /\ ~Absent(f, v)
          BY <1>9, <2>1, <3>1
        <4>2. \/ rows[f][v].qa \in {"sampled_ok", "corrected"}
                 /\ rows[f][v].confident
              \/ rows[f][v].qa = "provisional" /\ rows[f][v].fact # 0
          BY <2>1, <3>1 DEF IInv, Safe, PinsAreQualified
        <4>3. CASE rows'[f][v] = rows[f][v]
          BY <3>1, <4>2, <4>3
        <4>4. CASE rows'[f][v] # rows[f][v]
          <5>1. /\ rows[f][v].method = "llm" /\ rows'[f][v].qa = "sampled_ok"
                /\ rows'[f][v].confident = rows[f][v].confident
            BY <1>6, <4>1, <4>4
          <5>2. rows[f][v].qa # "provisional"
            BY <4>1, <5>1 DEF IInv, SessionsInv, CasesHold
          <5> QED
            BY <3>1, <4>2, <5>1, <5>2
        <4> QED
          BY <4>3, <4>4
      <3>2. CASE pins'[f] # pins[f]
        BY <1>5, <1>8, <3>2
      <3> QED
        BY <3>1, <3>2
    <2> QED
      BY <2>1 DEF PinsAreQualified
  <1>12. /\ MetricsHaveLineage'
         /\ \A f \in Fields : pins'[f].version # 0 => pins'[f].id # 0
    <2>1. ASSUME NEW f \in Fields
          PROVE  /\ metrics[f] # NoPin =>
                      pins'[f].version # 0 /\ pins'[f].id = metrics[f].id
                 /\ pins'[f].version # 0 => pins'[f].id # 0
      <3>1. /\ metrics[f] # NoPin =>
                 pins[f].version # 0 /\ pins[f].id = metrics[f].id
            /\ pins[f].version # 0 => pins[f].id # 0
            /\ pins[f] \in Pin
        BY <1>0 DEF IInv, Safe, MetricsHaveLineage, LineageInv, TypeOK
      <3>2. v0 # 0
        BY <1>1 DEF Versions
      <3>3. CASE pins'[f] = PointedTo(f, v0)
        BY <3>1, <3>2, <3>3 DEF PointedTo, Pin
      <3> QED
        BY <1>5, <3>1, <3>3
    <2> QED
      BY <1>2, <2>1 DEF MetricsHaveLineage
  <1>13. UncommittedRows'
    <2>0. review \in [Reviewers -> ReviewRequest]
      BY <1>0 DEF TypeOK
    <2>1. ASSUME NEW s \in Reviewers, NEW f \in Fields, NEW v \in Versions,
                 Drafting(s, f, v)'
          PROVE  s # r /\ Drafting(s, f, v)
      BY <1>3, <1>4, <2>0, <2>1 DEF Drafting
    <2>2. ASSUME NEW me, NEW f \in Fields, NEW v \in Versions,
                 ~Pending(f, v, me)
          PROVE  ~Pending(f, v, me)'
      BY <1>2, <2>1, <2>2 DEF Pending
    <2>3. ASSUME NEW f \in Fields, NEW v \in Versions, Absent(f, v),
                 Pending(f, v, r)
          PROVE  Absent(f, v)'
      BY <1>1, <2>3, DecisionRows DEF Absent
    <2>4. ASSUME NEW s \in Reviewers, NEW f \in Fields, NEW v \in Versions,
                 Drafting(s, f, v)'
          PROVE  Absent(f, v)' /\ ~Pending(f, v, s)'
      <3>1. Drafting(s, f, v) /\ s # r
        BY <2>1, <2>4
      <3>2. Absent(f, v) /\ ~Pending(f, v, s) /\ Pending(f, v, r)
        BY <3>1 DEF IInv, SessionsInv, UncommittedRows, Pending
      <3> QED
        BY <2>2, <2>3, <3>2
    <2>5. ASSUME NEW p \in Publishers, NEW f \in Fields, NEW v \in Versions,
                 (publish[p].insert[f] = v)'
          PROVE  Absent(f, v)' /\ ~Pending(f, v, p)'
      <3>1. publish[p].insert[f] = v
        BY <1>2, <2>5
      <3>2. Absent(f, v) /\ ~Pending(f, v, p) /\ Pending(f, v, r)
        BY <3>1, SessionsAssumption DEF IInv, SessionsInv, UncommittedRows, Pending
      <3> QED
        BY <2>2, <2>3, <3>2
    <2> QED
      BY <2>4, <2>5 DEF UncommittedRows
  <1>14. CasesHold'
    <2>1. ASSUME NEW s \in Reviewers
          PROVE  LET o == review'[s] IN
                 /\ o.pc \in {"lock", "insert", "count", "finish"} =>
                      reviews'[o.field][o.about].status # "absent"
                 /\ (o.pc = "finish" /\ o.allowed /\ o.op = "accept") =>
                      rows'[o.field][o.about].confident
      <3>1. CASE s = r
        <4>1. review'[s] = q
          BY <1>0, <1>4, <3>1 DEF TypeOK
        <4> QED
          BY <1>3, <4>1
      <3>2. CASE s # r
        <4> DEFINE o == review[s]
        <4>1. review'[s] = o
          BY <1>0, <1>4, <3>2 DEF TypeOK
        <4>2. o.field \in Fields /\ o.about \in Versions
          BY <1>0 DEF TypeOK, ReviewRequest
        <4>3. o.pc \in {"lock", "insert", "count", "finish"} =>
                /\ reviews[o.field][o.about].status # "absent"
                /\ rows[o.field][o.about].method = "llm"
          BY <4>2 DEF IInv, SessionsInv, CasesHold
        <4>4. (o.pc = "finish" /\ o.allowed /\ o.op = "accept") =>
                rows[o.field][o.about].confident
          BY DEF IInv, SessionsInv, CasesHold
        <4>5. rows[o.field][o.about].method = "llm" =>
                (rows[o.field][o.about].confident =>
                   rows'[o.field][o.about].confident)
          BY <1>6, <4>2 DEF Absent
        <4> HIDE DEF o
        <4> QED
          BY <1>7, <4>1, <4>2, <4>3, <4>4, <4>5
      <3> QED
        BY <3>1, <3>2
    <2> QED
      BY <1>7, <2>1 DEF CasesHold
  <1>15. PlansHold'
    <2>1. ASSUME NEW p \in Publishers, NEW f \in Fields, FromFact(publish[p], f)
          PROVE  FromFact(publish[p], f)'
      <3> DEFINE v == publish[p].to[f]
      <3>1. CASE publish[p].insert[f] = v
        BY <1>2, <2>1, <3>1 DEF FromFact
      <3>2. CASE publish[p].insert[f] # v
        <4>1. v \in Versions /\ rows[f][v].method = "xbrl"
          BY <2>1, <3>2 DEF FromFact
        <4>2. rows'[f][v] = rows[f][v]
          BY <1>6, <4>1 DEF Absent
        <4> QED
          BY <1>2, <2>1, <3>2, <4>2 DEF FromFact
      <3> QED
        BY <3>1, <3>2
    <2>2. \A p \in Publishers :
            publish[p].field \in Fields /\ publish[p].active \subseteq Fields
      BY <1>0, PublicationAssumption DEF TypeOK, Publication
    <2> QED
      BY <1>2, <2>1, <2>2 DEF IInv, SessionsInv, PlansHold, PlanHolds
  <1>16. FactsHold' /\ LineageInv'
    BY <1>2, <1>12 DEF IInv, SessionsInv, FactsHold, LineageInv
  <1> QED
    BY <1>10, <1>11, <1>12, <1>13, <1>14, <1>15, <1>16
    DEF IInv, Safe, SessionsInv

LEMMA ReviewStepInv ==
  ASSUME IInv, NEW r \in Reviewers, ReviewStep(r) PROVE IInv'
  <1>0. TypeOK'
    BY ReviewStepTyped DEF IInv
  <1>1. CASE FinishReview(r)
    BY <1>0, <1>1, CommitReviewInv, RaiseInv DEF FinishReview
  <1>2. CASE NotifyReview(r) \/ FailReview(r)
    <2>1. SetReview(r, IdleReview)
          /\ UNCHANGED <<filing, facts, rows, reviews, pins, metrics, publish,
                         rebuild>>
      BY <1>2 DEF NotifyReview, FailReview, source
    <2>2. IdleReview.pc = "idle"
      BY DEF IdleReview
    <2> QED
      BY <1>0, <2>1, <2>2, IdleReviewTyped, ReviewMoves
  <1> QED
    BY <1>0, <1>1, <1>2, ReviewReadsInv DEF ReviewStep

-----------------------------------------------------------------------------
(* Publications *)

(* A publication that ends, or has not read anything yet, claims nothing.  *)
LEMMA FreshPlan ==
  ASSUME NEW q \in Publication, q.insert = Nothing, q.todo = {},
         q.known = [f \in Mapped |-> "none"],
         q.plan = [f \in Fields |-> "keep"],
         q.pc \in {"idle", "reject", "facts", "notify"}
  PROVE  /\ PlanHolds(q)
         /\ \A f \in Fields, v \in Versions : q.insert[f] # v
         /\ \A f \in Mapped : q.known[f] = "none"
         /\ \A f \in Fields : q.plan[f] # "drop"
  BY DEF PlanHolds, Nothing, Versions

LEMMA FreshMoves ==
  ASSUME IInv, TypeOK', NEW p \in Publishers, NEW q \in Publication,
         SetPublish(p, q), q.insert = Nothing, q.todo = {},
         q.known = [f \in Mapped |-> "none"],
         q.plan = [f \in Fields |-> "keep"],
         q.pc \in {"idle", "reject", "facts", "notify"},
         UNCHANGED <<filing, facts, rows, reviews, pins, metrics, review,
                     rebuild>>
  PROVE  IInv'
  BY FreshPlan, PublishMoves

(* What IInv says of one publication.                                      *)
LEMMA Plan ==
  ASSUME IInv, NEW p \in Publishers
  PROVE  /\ publish[p] \in Publication
         /\ \A f \in Fields, v \in Versions :
              publish[p].insert[f] = v => Absent(f, v) /\ ~Pending(f, v, p)
         /\ \A f \in Mapped : publish[p].known[f] # "none" => publish[p].parse # 0
         /\ PlanHolds(publish[p])
         /\ \A f \in Fields : publish[p].plan[f] = "drop" => metrics[f] = NoPin
  BY DEF IInv, TypeOK, SessionsInv, UncommittedRows, FactsHold, PlansHold,
         LineageInv

LEMMA AbortInv ==
  ASSUME IInv, TypeOK', NEW p \in Publishers, NEW e \in Error, PublishUnchanged,
         SetPublish(p, [IdlePublication EXCEPT !.error = e])
  PROVE  IInv'
  <1> DEFINE q == [IdlePublication EXCEPT !.error = e]
  <1>1. /\ q \in Publication /\ q.pc = "idle" /\ q.insert = Nothing
        /\ q.todo = {} /\ q.known = [f \in Mapped |-> "none"]
        /\ q.plan = [f \in Fields |-> "keep"]
    BY IdlePublicationTyped DEF Publication, IdlePublication
  <1>2. SetPublish(p, q)
        /\ UNCHANGED <<filing, facts, rows, reviews, pins, metrics, review,
                       rebuild>>
    BY DEF PublishUnchanged, source
  <1> HIDE DEF q
  <1> QED
    BY <1>1, <1>2, FreshMoves

LEMMA StartPublicationInv ==
  ASSUME IInv, TypeOK', NEW p \in Publishers, NEW refresh \in BOOLEAN,
         StartPublication(p, refresh)
  PROVE  IInv'
  <1> DEFINE q == [IdlePublication EXCEPT
                     !.pc = IF rejected = {} THEN "facts" ELSE "reject",
                     !.refresh = refresh, !.active = Mapped \ rejected]
  <1>1. /\ q \in Publication /\ q.pc \in {"facts", "reject"}
        /\ q.insert = Nothing
        /\ q.todo = {} /\ q.known = [f \in Mapped |-> "none"]
        /\ q.plan = [f \in Fields |-> "keep"]
    <2>1. /\ rejected \in SUBSET Mapped /\ Mapped \ rejected \in SUBSET Mapped
          /\ (IF rejected = {} THEN "facts" ELSE "reject") \in {"facts", "reject"}
      BY DEF IInv, TypeOK
    <2>2. q \in Publication /\ q.pc \in {"facts", "reject"}
      BY <2>1, IdlePublicationTyped DEF Publication
    <2>3. /\ q.insert = IdlePublication.insert /\ q.todo = IdlePublication.todo
          /\ q.known = IdlePublication.known /\ q.plan = IdlePublication.plan
      BY IdlePublicationTyped DEF Publication
    <2> QED
      BY <2>2, <2>3 DEF IdlePublication
  <1>2. SetPublish(p, q)
        /\ UNCHANGED <<filing, facts, rows, reviews, pins, metrics, review,
                       rebuild>>
    BY DEF StartPublication, PublishUnchanged, source
  <1> HIDE DEF q
  <1> QED
    BY <1>1, <1>2, FreshMoves

LEMMA ReadFactsInv ==
  ASSUME IInv, TypeOK', NEW p \in Publishers, ReadFacts(p) PROVE IInv'
  <1> DEFINE pub == publish[p]
             a == IF filing.adapter = "nse" THEN pub.active ELSE {}
             q == [pub EXCEPT !.pc = "next", !.known = facts,
                     !.parse = filing.parses, !.active = a, !.todo = a]
  <1>0. /\ pub \in Publication /\ pub.pc = "facts" /\ PlanHolds(pub)
        /\ facts \in [Mapped -> Fact] /\ filing.parses \in 0..MaxParses
        /\ a \in SUBSET Mapped
    BY Plan DEF ReadFacts, IInv, TypeOK, Filing, Publication
  <1> HIDE DEF a
  <1>1. /\ q \in Publication /\ q.pc = "next" /\ q.insert = pub.insert
        /\ q.todo = a /\ q.active = a /\ q.known = facts
        /\ q.parse = filing.parses /\ q.plan = pub.plan /\ q.to = pub.to
    BY <1>0 DEF Publication
  <1>2. SetPublish(p, q)
        /\ UNCHANGED <<filing, facts, rows, reviews, pins, metrics, review,
                       rebuild>>
    BY DEF ReadFacts, a, PublishUnchanged, source
  <1> HIDE DEF q
  <1>3. pub.plan = [f \in Fields |-> "keep"]
    BY <1>0 DEF PlanHolds
  <1>4. PlanHolds(q)
    BY <1>0, <1>1, <1>3, PublicationAssumption DEF PlanHolds
  <1>5. \A f \in Mapped : q.known[f] # "none" => q.parse # 0
    BY <1>1 DEF IInv, SessionsInv, FactsHold
  <1>6. \A f \in Fields : q.plan[f] # "drop"
    BY <1>1, <1>3
  <1>7. \A f \in Fields, v \in Versions :
          q.insert[f] = v => Absent(f, v) /\ ~Pending(f, v, p)
    BY <1>1, Plan
  <1> QED
    BY <1>1, <1>2, <1>4, <1>5, <1>6, <1>7, PublishMoves

(* A field the publication is done with without planning anything.         *)
LEMMA SkipMissingInv ==
  ASSUME IInv, TypeOK', NEW p \in Publishers, NEW g \in Mapped,
         SkipMissing(p, g)
  PROVE  IInv'
  <1> DEFINE pub == publish[p]
             q == [pub EXCEPT !.todo = pub.todo \ {g}]
  <1>0. pub \in Publication /\ PlanHolds(pub) /\ pub.pc = "next"
        /\ pub.known[g] = "none"
    BY Plan DEF SkipMissing
  <1>1. /\ q \in Publication /\ q.pc = "next" /\ q.insert = pub.insert
        /\ q.todo = pub.todo \ {g} /\ q.active = pub.active
        /\ q.known = pub.known /\ q.parse = pub.parse /\ q.plan = pub.plan
        /\ q.to = pub.to
    BY <1>0 DEF Publication
  <1>2. SetPublish(p, q)
        /\ UNCHANGED <<filing, facts, rows, reviews, pins, metrics, review,
                       rebuild>>
    BY DEF SkipMissing, PublishUnchanged, source
  <1> HIDE DEF q
  <1>3. PlanHolds(q)
    <2>1. \A f \in q.todo : q.plan[f] = "keep"
      BY <1>0, <1>1 DEF PlanHolds
    <2>2. ASSUME NEW f, FromFact(pub, f) PROVE FromFact(q, f)
      BY <1>1, <2>2, FromFactRests
    <2>3. \A f \in Fields : q.plan[f] = "pin" => FromFact(q, f)
      BY <1>0, <1>1, <2>2 DEF PlanHolds
    <2>4. \A f \in q.active \ q.todo :
            q.known[f] = "clear" => q.plan[f] # "drop" /\ FromFact(q, f)
      BY <1>0, <1>1, <2>2 DEF PlanHolds
    <2> QED
      BY <1>1, <2>1, <2>3, <2>4 DEF PlanHolds
  <1> QED
    BY <1>1, <1>2, <1>3, Plan, PublishMoves

LEMMA WithholdInv ==
  ASSUME IInv, TypeOK', NEW p \in Publishers, NEW g \in Mapped, Withhold(p, g)
  PROVE  IInv'
  <1> DEFINE pub == publish[p]
             d == IF pins[g].version # 0 THEN "drop" ELSE pub.plan[g]
             q == [pub EXCEPT !.todo = pub.todo \ {g},
                              !.plan = [pub.plan EXCEPT ![g] = d]]
  <1>0. /\ pub \in Publication /\ PlanHolds(pub) /\ pub.pc = "next"
        /\ pub.known[g] = "unresolved" /\ g \in pub.todo /\ g \in Fields
    BY Plan, PublicationAssumption DEF Withhold
  <1>1. CASE Referenced(g)
    BY <1>1, AbortInv DEF Withhold, Error
  <1>2. CASE ~Referenced(g)
    <2>0. d \in {"keep", "drop"}
      BY <1>0 DEF PlanHolds
    <2>1. d = "drop" => metrics[g] = NoPin
      <3>1. pub.plan[g] # "drop"
        BY <1>0 DEF PlanHolds
      <3>2. pins[g].version # 0 => metrics[g] = NoPin
        BY <1>0, <1>2 DEF Referenced, IInv, Safe, MetricsHaveLineage
      <3> QED
        BY <3>1, <3>2
    <2>2. SetPublish(p, q)
          /\ UNCHANGED <<filing, facts, rows, reviews, pins, metrics, review,
                         rebuild>>
      BY <1>2 DEF Withhold, PublishUnchanged, source
    <2> HIDE DEF d
    <2>3. /\ q \in Publication /\ q.pc = "next" /\ q.insert = pub.insert
          /\ q.todo = pub.todo \ {g} /\ q.active = pub.active
          /\ q.known = pub.known /\ q.parse = pub.parse
          /\ q.plan = [pub.plan EXCEPT ![g] = d] /\ q.to = pub.to
      BY <1>0, <2>0 DEF Publication
    <2> HIDE DEF q
    <2>4. \A f \in Fields : q.plan[f] = IF f = g THEN d ELSE pub.plan[f]
      BY <1>0, <2>3 DEF Publication
    <2>5. PlanHolds(q)
      <3>1. \A f \in q.todo : q.plan[f] = "keep"
        BY <1>0, <2>3, <2>4, PublicationAssumption DEF PlanHolds, Publication
      <3>2. ASSUME NEW f \in Fields, q.plan[f] = "pin" PROVE FromFact(q, f)
        <4>1. pub.plan[f] = "pin"
          BY <2>0, <2>4, <3>2
        <4>2. FromFact(pub, f)
          BY <1>0, <4>1 DEF PlanHolds
        <4> QED
          BY <2>3, <4>2, FromFactRests
      <3>3. ASSUME NEW f \in q.active \ q.todo, q.known[f] = "clear"
            PROVE  q.plan[f] # "drop" /\ FromFact(q, f)
        <4>1. f # g /\ f \in pub.active \ pub.todo /\ f \in Fields
          BY <1>0, <2>3, <3>3, PublicationAssumption DEF Publication
        <4>2. pub.plan[f] # "drop" /\ FromFact(pub, f)
          BY <1>0, <2>3, <3>3, <4>1 DEF PlanHolds
        <4>3. FromFact(q, f)
          BY <2>3, <4>2 DEF FromFact
        <4> QED
          BY <2>4, <4>1, <4>2, <4>3
      <3> QED
        BY <2>3, <3>1, <3>2, <3>3 DEF PlanHolds
    <2>6. \A f \in Fields : q.plan[f] = "drop" => metrics[f] = NoPin
      BY <2>1, <2>4, Plan
    <2>7. /\ \A f \in Fields, v \in Versions :
               q.insert[f] = v => Absent(f, v) /\ ~Pending(f, v, p)
          /\ \A f \in Mapped : q.known[f] # "none" => q.parse # 0
      BY <2>3, Plan
    <2>8. q \in Publication
      BY <2>3
    <2> QED
      BY <2>2, <2>5, <2>6, <2>7, <2>8, PublishMoves
  <1> QED
    BY <1>1, <1>2

LEMMA ReadLatestInv ==
  ASSUME IInv, TypeOK', NEW p \in Publishers, NEW g \in Mapped,
         ReadLatest(p, g)
  PROVE  IInv'
  <1> DEFINE pub == publish[p]
  <1>0. /\ pub \in Publication /\ PlanHolds(pub) /\ pub.pc = "next"
        /\ pub.known[g] = "clear" /\ g \in pub.todo /\ g \in Fields
        /\ pub.plan[g] = "keep"
    BY Plan, PublicationAssumption DEF ReadLatest, PlanHolds
  <1>1. PICK n \in 0..MaxVersion :
          IF Reusable(g, n, pub.parse)
            THEN SetPublish(p, [pub EXCEPT !.pc = "select", !.field = g,
                                  !.to[g] = n])
            ELSE /\ n < MaxVersion
                 /\ SetPublish(p, [pub EXCEPT !.pc = "insert", !.field = g,
                                     !.to[g] = n + 1])
    BY DEF ReadLatest
  <1>2. UNCHANGED <<filing, facts, rows, reviews, pins, metrics, review, rebuild>>
    BY DEF ReadLatest, PublishUnchanged, source
  <1>5. \A f \in pub.active \ pub.todo :
          f \in Fields /\ f # g /\ (pub.known[f] = "clear" => FromFact(pub, f))
    BY <1>0, PublicationAssumption DEF PlanHolds, Publication
  <1>3. CASE Reusable(g, n, pub.parse)
    <2> DEFINE q == [pub EXCEPT !.pc = "select", !.field = g,
                       !.to = [pub.to EXCEPT ![g] = n]]
    <2>1. /\ q \in Publication /\ q.pc = "select" /\ q.field = g
          /\ q.insert = pub.insert /\ q.todo = pub.todo
          /\ q.active = pub.active /\ q.known = pub.known
          /\ q.parse = pub.parse /\ q.plan = pub.plan
          /\ q.to = [pub.to EXCEPT ![g] = n]
      BY <1>0 DEF Publication
    <2>2. SetPublish(p, q)
      BY <1>1, <1>3
    <2> HIDE DEF q
    <2>3. \A f \in Fields : q.to[f] = IF f = g THEN n ELSE pub.to[f]
      BY <1>0, <2>1 DEF Publication
    <2>4. FromFact(q, g)
      <3>1. n \in Versions /\ rows[g][n].qa = "provisional"
            /\ rows[g][n].fact = pub.parse
        BY <1>3, PublicationAssumption DEF Reusable, Versions
      <3>2. rows[g][n].method = "xbrl"
        BY <1>0, <3>1 DEF IInv, SessionsInv, CasesHold
      <3> QED
        BY <1>0, <2>1, <2>3, <3>1, <3>2 DEF FromFact
    <2>5. PlanHolds(q)
      <3>1. ASSUME NEW f \in Fields, q.plan[f] = "pin" PROVE FromFact(q, f)
        <4>1. f # g /\ FromFact(pub, f)
          BY <1>0, <2>1, <3>1 DEF PlanHolds
        <4> QED
          BY <2>1, <2>3, <4>1, FromFactRests
      <3>2. q.to[g] \in Versions
        BY <2>4 DEF FromFact
      <3>3. \A f \in pub.active \ pub.todo :
              pub.known[f] = "clear" => FromFact(q, f)
        BY <1>5, <2>1, <2>3 DEF FromFact
      <3> QED
        BY <1>0, <2>1, <2>4, <3>1, <3>2, <3>3 DEF PlanHolds
    <2> QED
      BY <1>2, <2>1, <2>2, <2>5, Plan, PublishMoves
  <1>4. CASE ~Reusable(g, n, pub.parse)
    <2> DEFINE q == [pub EXCEPT !.pc = "insert", !.field = g,
                       !.to = [pub.to EXCEPT ![g] = n + 1]]
    <2>0. n + 1 \in 0..MaxVersion /\ n + 1 \in Versions
      BY <1>1, <1>4, PublicationAssumption DEF Versions
    <2>1. /\ q \in Publication /\ q.pc = "insert" /\ q.field = g
          /\ q.insert = pub.insert /\ q.todo = pub.todo
          /\ q.active = pub.active /\ q.known = pub.known
          /\ q.parse = pub.parse /\ q.plan = pub.plan
          /\ q.to = [pub.to EXCEPT ![g] = n + 1]
      BY <1>0, <2>0 DEF Publication
    <2>2. SetPublish(p, q)
      BY <1>1, <1>4
    <2> HIDE DEF q
    <2>3. \A f \in Fields : q.to[f] = IF f = g THEN n + 1 ELSE pub.to[f]
      BY <1>0, <2>1 DEF Publication
    <2>4. PlanHolds(q)
      <3>1. ASSUME NEW f \in Fields, q.plan[f] = "pin" PROVE FromFact(q, f)
        <4>1. f # g /\ FromFact(pub, f)
          BY <1>0, <2>1, <3>1 DEF PlanHolds
        <4> QED
          BY <2>1, <2>3, <4>1, FromFactRests
      <3>2. q.to[g] \in Versions
        BY <1>0, <2>0, <2>3
      <3>3. \A f \in pub.active \ pub.todo :
              pub.known[f] = "clear" => FromFact(q, f)
        BY <1>5, <2>1, <2>3 DEF FromFact
      <3> QED
        BY <1>0, <2>1, <3>1, <3>2, <3>3 DEF PlanHolds
    <2> QED
      BY <1>2, <2>1, <2>2, <2>4, Plan, PublishMoves
  <1> QED
    BY <1>3, <1>4

LEMMA InsertProvisionalInv ==
  ASSUME IInv, TypeOK', NEW p \in Publishers, InsertProvisional(p) PROVE IInv'
  <1> DEFINE pub == publish[p]
             g == pub.field
             q == [pub EXCEPT !.pc = "select",
                     !.insert = [pub.insert EXCEPT ![g] = pub.to[g]]]
  <1>0. /\ pub \in Publication /\ PlanHolds(pub) /\ pub.pc = "insert"
        /\ g \in Fields /\ g \in Mapped /\ pub.to[g] \in Versions
        /\ g \in pub.todo /\ pub.known[g] = "clear" /\ pub.plan[g] = "keep"
        /\ ~Pending(g, pub.to[g], p)
    BY Plan DEF InsertProvisional, PlanHolds, Publication
  <1>1. \/ Absent(g, pub.to[g]) /\ SetPublish(p, q)
        \/ SetPublish(p, [IdlePublication EXCEPT !.error = "Integrity"])
    BY DEF InsertProvisional
  <1>2. PublishUnchanged
    BY DEF InsertProvisional
  <1>3. CASE Absent(g, pub.to[g]) /\ SetPublish(p, q)
    <2>0. pub.to[g] \in 0..MaxVersion
      BY <1>0 DEF Publication
    <2>1. /\ q \in Publication /\ q.pc = "select" /\ q.field = g
          /\ q.insert = [pub.insert EXCEPT ![g] = pub.to[g]]
          /\ q.todo = pub.todo
          /\ q.active = pub.active /\ q.known = pub.known
          /\ q.parse = pub.parse /\ q.plan = pub.plan /\ q.to = pub.to
      BY <1>0, <2>0 DEF Publication
    <2> HIDE DEF q
    <2>2. \A f \in Fields : q.insert[f] = IF f = g THEN pub.to[g] ELSE pub.insert[f]
      BY <1>0, <2>1 DEF Publication
    <2>3. PlanHolds(q)
      <3>1. ASSUME NEW f \in Fields, q.plan[f] = "pin" PROVE FromFact(q, f)
        <4>1. FromFact(pub, f)
          BY <1>0, <2>1, <3>1 DEF PlanHolds
        <4> QED
          BY <2>1, <2>2, <4>1 DEF FromFact
      <3>2. FromFact(q, g)
        BY <1>0, <2>1, <2>2 DEF FromFact
      <3>3. ASSUME NEW f \in pub.active \ pub.todo, pub.known[f] = "clear"
            PROVE  FromFact(q, f)
        <4>1. f \in Fields /\ f # g /\ FromFact(pub, f)
          BY <1>0, <3>3, PublicationAssumption DEF PlanHolds, Publication
        <4> QED
          BY <2>1, <2>2, <4>1 DEF FromFact
      <3> QED
        BY <1>0, <2>1, <3>1, <3>2, <3>3 DEF PlanHolds
    <2>4. \A f \in Fields, v \in Versions :
            q.insert[f] = v => Absent(f, v) /\ ~Pending(f, v, p)
      BY <1>0, <1>3, <2>2, Plan
    <2>5. UNCHANGED <<filing, facts, rows, reviews, pins, metrics, review,
                      rebuild>>
      BY <1>2 DEF PublishUnchanged, source
    <2>6. /\ \A f \in Mapped : q.known[f] # "none" => q.parse # 0
          /\ \A f \in Fields : q.plan[f] = "drop" => metrics[f] = NoPin
      BY <2>1, Plan
    <2>7. q \in Publication /\ SetPublish(p, q)
      BY <1>3, <2>1
    <2> QED
      BY <2>3, <2>4, <2>5, <2>6, <2>7, PublishMoves
  <1>4. CASE SetPublish(p, [IdlePublication EXCEPT !.error = "Integrity"])
    BY <1>2, <1>4, AbortInv DEF Error
  <1> QED
    BY <1>1, <1>3, <1>4

LEMMA SelectPinInv ==
  ASSUME IInv, TypeOK', NEW p \in Publishers, SelectPin(p) PROVE IInv'
  <1> DEFINE pub == publish[p]
             g == pub.field
             q1 == [pub EXCEPT !.pc = "next", !.todo = pub.todo \ {g}]
             q2 == [pub EXCEPT !.pc = "pin", !.pin = PinSeen(g)]
  <1>0. /\ pub \in Publication /\ PlanHolds(pub) /\ pub.pc = "select"
        /\ g \in Fields /\ FromFact(pub, g) /\ g \in pub.todo
    BY Plan DEF SelectPin, PlanHolds, Publication
  <1>1. SetPublish(p, q1) \/ SetPublish(p, q2)
    BY DEF SelectPin
  <1>2. UNCHANGED <<filing, facts, rows, reviews, pins, metrics, review, rebuild>>
    BY DEF SelectPin, PublishUnchanged, source
  <1>3. CASE SetPublish(p, q1)
    <2>1. /\ q1 \in Publication /\ q1.pc = "next" /\ q1.insert = pub.insert
          /\ q1.todo = pub.todo \ {g} /\ q1.active = pub.active
          /\ q1.known = pub.known /\ q1.parse = pub.parse
          /\ q1.plan = pub.plan /\ q1.to = pub.to
      BY <1>0 DEF Publication
    <2> HIDE DEF q1
    <2>2. \A f \in Fields : FromFact(pub, f) => FromFact(q1, f)
      BY <2>1 DEF FromFact
    <2>3. q1.active \subseteq Fields
      BY <2>1, <1>0, PublicationAssumption DEF Publication
    <2>4. PlanHolds(q1)
      BY <1>0, <2>1, <2>2, <2>3 DEF PlanHolds
    <2> QED
      BY <1>2, <1>3, <2>1, <2>4, Plan, PublishMoves
  <1>4. CASE SetPublish(p, q2)
    <2>0. PinSeen(g) \in Nat
      BY <1>0, PinSeenTyped DEF IInv
    <2>1. /\ q2 \in Publication /\ q2.pc = "pin" /\ q2.field = g
          /\ q2.insert = pub.insert
          /\ q2.todo = pub.todo /\ q2.active = pub.active
          /\ q2.known = pub.known /\ q2.parse = pub.parse
          /\ q2.plan = pub.plan /\ q2.to = pub.to
      BY <1>0, <2>0 DEF Publication
    <2> HIDE DEF q2
    <2>2. \A f \in Fields : FromFact(pub, f) => FromFact(q2, f)
      BY <2>1 DEF FromFact
    <2>3. q2.active \subseteq Fields
      BY <2>1, <1>0, PublicationAssumption DEF Publication
    <2>4. PlanHolds(q2)
      BY <1>0, <2>1, <2>2, <2>3 DEF PlanHolds
    <2> QED
      BY <1>2, <1>4, <2>1, <2>4, Plan, PublishMoves
  <1> QED
    BY <1>1, <1>3, <1>4

LEMMA FlushPinInv ==
  ASSUME IInv, TypeOK', NEW p \in Publishers, FlushPin(p) PROVE IInv'
  <1> DEFINE pub == publish[p]
             g == pub.field
             q == [pub EXCEPT !.pc = "next",
                     !.plan = [pub.plan EXCEPT ![g] = "pin"],
                     !.todo = pub.todo \ {g}]
  <1>0. /\ pub \in Publication /\ PlanHolds(pub) /\ pub.pc = "pin"
        /\ g \in Fields /\ FromFact(pub, g)
    BY Plan DEF FlushPin, PlanHolds, Publication
  <1>1. \/ SetPublish(p, q)
        \/ SetPublish(p, [IdlePublication EXCEPT !.error = "Integrity"])
    BY DEF FlushPin
  <1>2. PublishUnchanged
    BY DEF FlushPin
  <1>3. CASE SetPublish(p, q)
    <2>1. /\ q \in Publication /\ q.pc = "next" /\ q.insert = pub.insert
          /\ q.todo = pub.todo \ {g} /\ q.active = pub.active
          /\ q.known = pub.known /\ q.parse = pub.parse
          /\ q.plan = [pub.plan EXCEPT ![g] = "pin"] /\ q.to = pub.to
      BY <1>0 DEF Publication
    <2> HIDE DEF q
    <2>2. \A f \in Fields : q.plan[f] = IF f = g THEN "pin" ELSE pub.plan[f]
      BY <1>0, <2>1 DEF Publication
    <2>3. PlanHolds(q)
      <3>1. \A f \in q.todo : q.plan[f] = "keep"
        BY <1>0, <2>1, <2>2, PublicationAssumption DEF PlanHolds, Publication
      <3>2. \A f \in Fields : q.plan[f] = "pin" => FromFact(q, f)
        <4>1. \A f \in Fields : q.plan[f] = "pin" => FromFact(pub, f)
          BY <1>0, <2>2 DEF PlanHolds
        <4>2. \A f \in Fields : FromFact(pub, f) => FromFact(q, f)
          BY <2>1 DEF FromFact
        <4> QED
          BY <4>1, <4>2
      <3>3. ASSUME NEW f \in q.active \ q.todo, q.known[f] = "clear"
            PROVE  q.plan[f] # "drop" /\ FromFact(q, f)
        <4>1. f \in Fields /\ (f = g \/ f \in pub.active \ pub.todo)
          BY <1>0, <2>1, <3>3, PublicationAssumption DEF Publication
        <4>2. FromFact(pub, f) /\ (f # g => pub.plan[f] # "drop")
          BY <1>0, <2>1, <3>3, <4>1 DEF PlanHolds
        <4>3. FromFact(q, f)
          BY <2>1, <4>2 DEF FromFact
        <4> QED
          BY <2>2, <4>1, <4>2, <4>3
      <3> QED
        BY <2>1, <3>1, <3>2, <3>3 DEF PlanHolds
    <2>4. \A f \in Fields : q.plan[f] = "drop" => metrics[f] = NoPin
      BY <2>2, Plan
    <2>5. UNCHANGED <<filing, facts, rows, reviews, pins, metrics, review,
                      rebuild>>
      BY <1>2 DEF PublishUnchanged, source
    <2>6. /\ \A f \in Fields, v \in Versions :
               q.insert[f] = v => Absent(f, v) /\ ~Pending(f, v, p)
          /\ \A f \in Mapped : q.known[f] # "none" => q.parse # 0
      BY <2>1, Plan
    <2>7. q \in Publication /\ SetPublish(p, q)
      BY <1>3, <2>1
    <2> QED
      BY <2>3, <2>4, <2>5, <2>6, <2>7, PublishMoves
  <1>4. CASE SetPublish(p, [IdlePublication EXCEPT !.error = "Integrity"])
    BY <1>2, <1>4, AbortInv DEF Error
  <1> QED
    BY <1>1, <1>3, <1>4

LEMMA DropRejectedInv ==
  ASSUME IInv, TypeOK', NEW p \in Publishers, DropRejected(p) PROVE IInv'
  <1> DEFINE pub == publish[p]
             gone == {f \in Mapped \ pub.active :
                        pins[f].version # 0 /\ filing.adapter = "nse"}
             q == [pub EXCEPT !.pc = "facts"]
             e == [IdlePublication EXCEPT !.error = "ForeignKey"]
  <1>0. pub \in Publication /\ pub.pc = "reject" /\ PlanHolds(pub)
    BY Plan DEF DropRejected
  <1>1. UNCHANGED <<filing, facts, rows, reviews, metrics, review, rebuild>>
    BY DEF DropRejected, source
  <1>2. CASE \E f \in gone : Referenced(f)
    <2>1. /\ e \in Publication /\ e.pc = "idle" /\ e.insert = Nothing
          /\ e.todo = {} /\ e.known = [f \in Mapped |-> "none"]
          /\ e.plan = [f \in Fields |-> "keep"]
      BY IdlePublicationTyped DEF Publication, IdlePublication, Error
    <2>2. SetPublish(p, e) /\ pins' = pins
      BY <1>2 DEF DropRejected
    <2> HIDE DEF e
    <2> QED
      BY <1>1, <2>1, <2>2, FreshMoves
  <1>3. CASE ~\E f \in gone : Referenced(f)
    <2>1. /\ q \in Publication /\ q.pc = "facts" /\ q.insert = pub.insert
          /\ q.todo = pub.todo /\ q.active = pub.active /\ q.known = pub.known
          /\ q.parse = pub.parse /\ q.plan = pub.plan /\ q.to = pub.to
      BY <1>0 DEF Publication
    <2>2. /\ SetPublish(p, q)
          /\ pins' = [f \in Fields |-> IF f \in gone THEN Unpinned(f) ELSE pins[f]]
      BY <1>3 DEF DropRejected
    <2> HIDE DEF q
    <2>3. ASSUME NEW f \in Fields
          PROVE  \/ pins'[f] = pins[f]
                 \/ pins'[f].version = 0 /\ metrics[f] = NoPin
      <3>1. CASE f \in gone
        <4>1. pins'[f].version = 0
          BY <2>2, <3>1 DEF Unpinned
        <4>2. metrics[f] = NoPin
          BY <1>3, <3>1 DEF Referenced, IInv, Safe, MetricsHaveLineage
        <4> QED
          BY <4>1, <4>2
      <3>2. CASE f \notin gone
        BY <2>2, <3>2
      <3> QED
        BY <3>1, <3>2
    <2>4. PlanHolds(q)
      <3>1. /\ pub.plan = [f \in Fields |-> "keep"]
            /\ \A f \in pub.todo : pub.plan[f] = "keep"
        BY <1>0 DEF PlanHolds
      <3>2. \A f \in Fields : q.plan[f] # "pin"
        BY <2>1, <3>1
      <3> HIDE DEF pub
      <3> QED
        BY <2>1, <3>1, <3>2 DEF PlanHolds
    <2>5. /\ \A f \in Fields, v \in Versions :
               q.insert[f] = v => Absent(f, v) /\ ~Pending(f, v, p)
          /\ \A f \in Mapped : q.known[f] # "none" => q.parse # 0
          /\ \A f \in Fields : q.plan[f] = "drop" => metrics[f] = NoPin
      BY <2>1, Plan
    <2> QED
      BY <1>1, <2>1, <2>2, <2>3, <2>4, <2>5, PublishMovesPins
  <1> QED
    BY <1>2, <1>3

(* What the commit of a publication leaves of the rows and the pins.       *)
LEMMA CommittedRows ==
  ASSUME IInv, NEW p \in Publishers, CommitPublication(p),
         NEW f \in Fields, NEW v \in Versions
  PROVE  IF publish[p].insert[f] = v
           THEN /\ Absent(f, v) /\ ~Pending(f, v, p)
                /\ rows'[f][v].method = "xbrl"
                /\ rows'[f][v].qa = "provisional"
                /\ rows'[f][v].fact = publish[p].parse
           ELSE rows'[f][v] = rows[f][v]
  <1>1. rows'[f][v] = IF publish[p].insert[f] = v
                        THEN ProvisionalRow(publish[p].parse) ELSE rows[f][v]
    BY DEF CommitPublication
  <1> QED
    BY <1>1, Plan DEF ProvisionalRow

LEMMA CommittedPins ==
  ASSUME IInv, NEW p \in Publishers, CommitPublication(p), NEW f \in Fields
  PROVE  \/ publish[p].plan[f] = "keep" /\ pins'[f] = pins[f]
         \/ /\ publish[p].plan[f] = "drop"
            /\ pins'[f].version = 0 /\ metrics[f] = NoPin
         \/ LET v == publish[p].to[f] IN
            /\ publish[p].plan[f] = "pin"
            /\ v \in Versions /\ pins'[f] = PointedTo(f, v)
            /\ pins'[f].version = v
            /\ rows'[f][v].method = "xbrl" /\ rows'[f][v].qa = "provisional"
            /\ rows'[f][v].fact = publish[p].parse /\ publish[p].parse # 0
  <1> DEFINE pub == publish[p]
  <1>0. pub \in Publication /\ PlanHolds(pub)
        /\ pub.plan[f] \in {"keep", "drop", "pin"}
    BY Plan DEF Publication
  <1>1. pins'[f] = PlannedPin(pub, f)
    BY DEF CommitPublication
  <1>2. CASE pub.plan[f] = "keep"
    BY <1>1, <1>2 DEF PlannedPin
  <1>3. CASE pub.plan[f] = "drop"
    BY <1>1, <1>3, Plan DEF PlannedPin, Unpinned
  <1>4. CASE pub.plan[f] = "pin"
    <2>1. pins'[f] = PointedTo(f, pub.to[f])
      BY <1>1, <1>4 DEF PlannedPin
    <2>2. FromFact(pub, f)
      BY <1>0, <1>4 DEF PlanHolds
    <2>3. f \in Mapped /\ pub.known[f] = "clear" /\ pub.to[f] \in Versions
      BY <2>2 DEF FromFact
    <2>4. pub.parse # 0
      BY <2>3, Plan
    <2>5. /\ rows'[f][pub.to[f]].method = "xbrl"
          /\ rows'[f][pub.to[f]].qa = "provisional"
          /\ rows'[f][pub.to[f]].fact = pub.parse
      BY <2>2, <2>3, CommittedRows DEF FromFact
    <2>6. pins'[f].version = pub.to[f]
      BY <2>1 DEF PointedTo
    <2> QED
      BY <1>4, <2>1, <2>3, <2>4, <2>5, <2>6
  <1> QED
    BY <1>0, <1>2, <1>3, <1>4

LEMMA CommitPublicationInv ==
  ASSUME IInv, TypeOK', NEW p \in Publishers, CommitPublication(p) PROVE IInv'
  <1> DEFINE pub == publish[p]
             q == IF pub.refresh THEN [IdlePublication EXCEPT !.pc = "notify"]
                                 ELSE IdlePublication
  <1>0. TypeOK /\ publish \in [Publishers -> Publication]
    BY DEF IInv, TypeOK
  <1>1. UNCHANGED <<filing, facts, reviews, metrics, review, rebuild>>
    BY DEF CommitPublication, source
  <1>2. publish' = [publish EXCEPT ![p] = q]
    BY DEF CommitPublication, SetPublish
  <1>3. /\ q \in Publication /\ q.pc \in {"idle", "notify"} /\ q.insert = Nothing
        /\ q.todo = {} /\ q.known = [f \in Mapped |-> "none"]
        /\ q.plan = [f \in Fields |-> "keep"]
    BY IdlePublicationTyped DEF Publication, IdlePublication
  <1> HIDE DEF q
  <1>4. ASSUME NEW f \in Fields, NEW v \in Versions, ~Absent(f, v)
        PROVE  rows'[f][v] = rows[f][v]
    BY <1>4, CommittedRows
  <1>5. ASSUME NEW f \in Fields, pins[f].version # 0
        PROVE  /\ pins[f].version \in Versions
               /\ rows'[f][pins[f].version] = rows[f][pins[f].version]
    <2>1. pins[f].version \in Versions /\ ~Absent(f, pins[f].version)
      BY <1>5, PinnedRow
    <2> QED
      BY <1>4, <2>1
  <1>6. PublishedIsReviewed'
    <2>1. ASSUME NEW f \in Fields, pins'[f].version # 0
          PROVE  /\ rows'[f][pins'[f].version].method # "absent"
                 /\ rows'[f][pins'[f].version].method = "llm" =>
                      reviews[f][pins'[f].version].status
                        \in {"accepted", "corrected"}
                 /\ rows'[f][pins'[f].version].method = "human" =>
                      reviews[f][rows'[f][pins'[f].version].corrects].status
                        \in {"accepted", "corrected"}
      <3>1. CASE pins'[f] = pins[f]
        BY <1>5, <2>1, <3>1 DEF IInv, Safe, PublishedIsReviewed, Absent
      <3>2. CASE pins'[f] # pins[f]
        BY <2>1, <3>2, CommittedPins
      <3> QED
        BY <3>1, <3>2
    <2> QED
      BY <1>1, <2>1 DEF PublishedIsReviewed, Absent
  <1>7. PinsAreQualified'
    <2>1. ASSUME NEW f \in Fields, pins'[f].version # 0
          PROVE  LET v == pins'[f].version IN
                 \/ rows'[f][v].qa \in {"sampled_ok", "corrected"}
                    /\ rows'[f][v].confident
                 \/ rows'[f][v].qa = "provisional" /\ rows'[f][v].fact # 0
      <3>1. CASE pins'[f] = pins[f]
        BY <1>5, <2>1, <3>1 DEF IInv, Safe, PinsAreQualified
      <3>2. CASE pins'[f] # pins[f]
        BY <2>1, <3>2, CommittedPins
      <3> QED
        BY <3>1, <3>2
    <2> QED
      BY <2>1 DEF PinsAreQualified
  <1>8. /\ MetricsHaveLineage'
        /\ \A f \in Fields : pins'[f].version # 0 => pins'[f].id # 0
    <2>1. ASSUME NEW f \in Fields
          PROVE  /\ metrics[f] # NoPin =>
                      pins'[f].version # 0 /\ pins'[f].id = metrics[f].id
                 /\ pins'[f].version # 0 => pins'[f].id # 0
      <3>1. /\ metrics[f] # NoPin =>
                 pins[f].version # 0 /\ pins[f].id = metrics[f].id
            /\ pins[f].version # 0 => pins[f].id # 0
            /\ pins[f] \in Pin
        BY <1>0 DEF IInv, Safe, MetricsHaveLineage, LineageInv, TypeOK
      <3>2. CASE pins'[f] = pins[f]
        BY <3>1, <3>2
      <3>3. CASE pins'[f].version = 0 /\ metrics[f] = NoPin
        BY <3>3
      <3>4. ASSUME NEW v \in Versions, pins'[f] = PointedTo(f, v)
            PROVE  /\ pins'[f].version # 0
                   /\ pins[f].version # 0 => pins'[f].id = pins[f].id
                   /\ pins'[f].id # 0
        BY <3>1, <3>4 DEF PointedTo, Pin, Versions
      <3> QED
        BY <3>1, <3>2, <3>3, <3>4, CommittedPins
    <2> QED
      BY <1>1, <2>1 DEF MetricsHaveLineage
  <1>9. UncommittedRows'
    <2>1. ASSUME NEW o \in Publishers, NEW f \in Fields, NEW v \in Versions,
                 (publish[o].insert[f] = v)'
          PROVE  o # p /\ publish[o].insert[f] = v
      <3>1. o # p
        <4>1. SUFFICES ASSUME o = p PROVE FALSE
          OBVIOUS
        <4>2. publish'[p].insert[f] = 0
          BY <1>0, <1>2, <1>3 DEF Nothing
        <4> QED
          BY <2>1, <4>1, <4>2 DEF Versions
      <3> QED
        BY <1>0, <1>2, <2>1, <3>1
    <2>2. ASSUME NEW me, NEW f \in Fields, NEW v \in Versions,
                 ~Pending(f, v, me)
          PROVE  ~Pending(f, v, me)'
      BY <1>1, <2>1, <2>2 DEF Pending, Drafting
    <2>3. ASSUME NEW f \in Fields, NEW v \in Versions, Absent(f, v),
                 Pending(f, v, p)
          PROVE  Absent(f, v)'
      BY <2>3, CommittedRows DEF Absent
    <2>4. ASSUME NEW s \in Reviewers, NEW f \in Fields, NEW v \in Versions,
                 Drafting(s, f, v)'
          PROVE  Absent(f, v)' /\ ~Pending(f, v, s)'
      <3>1. Drafting(s, f, v)
        BY <1>1, <2>4 DEF Drafting
      <3>2. Absent(f, v) /\ ~Pending(f, v, s)
        BY <3>1 DEF IInv, SessionsInv, UncommittedRows
      <3>3. Pending(f, v, p)
        BY <3>1, SessionsAssumption DEF Pending
      <3> QED
        BY <2>2, <2>3, <3>2, <3>3
    <2>5. ASSUME NEW o \in Publishers, NEW f \in Fields, NEW v \in Versions,
                 (publish[o].insert[f] = v)'
          PROVE  Absent(f, v)' /\ ~Pending(f, v, o)'
      <3>1. publish[o].insert[f] = v /\ o # p
        BY <2>1, <2>5
      <3>2. Absent(f, v) /\ ~Pending(f, v, o)
        BY <3>1, Plan
      <3>3. Pending(f, v, p)
        BY <3>1 DEF Pending
      <3> QED
        BY <2>2, <2>3, <3>2, <3>3
    <2> QED
      BY <2>4, <2>5 DEF UncommittedRows
  <1>10. CasesHold'
    <2>1. ASSUME NEW r \in Reviewers,
                 review[r].pc \in {"lock", "insert", "count", "finish"}
          PROVE  rows'[review[r].field][review[r].about] =
                   rows[review[r].field][review[r].about]
      <3>1. review[r].field \in Fields /\ review[r].about \in Versions
        BY <1>0 DEF TypeOK, ReviewRequest
      <3>2. rows[review[r].field][review[r].about].method = "llm"
        BY <2>1, <3>1 DEF IInv, SessionsInv, CasesHold
      <3> QED
        BY <1>4, <3>1, <3>2 DEF Absent
    <2>2. ASSUME NEW f \in Fields, NEW v \in Versions
          PROVE  /\ reviews[f][v].status # "absent" => rows'[f][v].method = "llm"
                 /\ rows'[f][v].qa = "provisional" => rows'[f][v].method = "xbrl"
                 /\ rows'[f][v].method = "human" =>
                      /\ rows'[f][v].corrects \in Versions
                      /\ reviews[f][rows'[f][v].corrects].status
                           \in {"accepted", "corrected"}
      BY CommittedRows DEF IInv, SessionsInv, CasesHold, Absent
    <2> QED
      BY <1>1, <2>1, <2>2 DEF IInv, SessionsInv, CasesHold
  <1>11. PlansHold'
    <2>1. ASSUME NEW o \in Publishers PROVE PlanHolds(publish[o])'
      <3>1. CASE o = p
        <4>1. publish'[o] = q
          BY <1>0, <1>2, <3>1
        <4> QED
          BY <1>3, <4>1 DEF PlanHolds
      <3>2. CASE o # p
        <4>1. publish'[o] = publish[o]
          BY <1>0, <1>2, <3>2
        <4>2. ASSUME NEW f \in Fields, FromFact(publish[o], f)
              PROVE  FromFact(publish[o], f)'
          <5>1. CASE publish[o].insert[f] = publish[o].to[f]
            BY <4>1, <4>2, <5>1 DEF FromFact
          <5>2. CASE publish[o].insert[f] # publish[o].to[f]
            <6>1. rows'[f][publish[o].to[f]] = rows[f][publish[o].to[f]]
              BY <1>4, <4>2, <5>2 DEF FromFact, Absent
            <6> QED
              BY <4>1, <4>2, <5>2, <6>1 DEF FromFact
          <5> QED
            BY <5>1, <5>2
        <4>3. publish[o].field \in Fields /\ PlanHolds(publish[o])
              /\ publish[o].active \subseteq Fields
          BY Plan, PublicationAssumption DEF Publication
        <4> QED
          BY <4>1, <4>2, <4>3 DEF PlanHolds
      <3> QED
        BY <3>1, <3>2
    <2> QED
      BY <2>1 DEF PlansHold
  <1>12. FactsHold' /\ LineageInv'
    <2>1. ASSUME NEW o \in Publishers
          PROVE  \/ publish'[o] = q
                 \/ publish'[o] = publish[o]
      BY <1>0, <1>2
    <2>2. FactsHold'
      BY <1>1, <1>3, <2>1 DEF IInv, SessionsInv, FactsHold
    <2>3. LineageInv'
      BY <1>1, <1>3, <1>8, <2>1 DEF IInv, LineageInv
    <2> QED
      BY <2>2, <2>3
  <1> QED
    BY <1>6, <1>7, <1>8, <1>9, <1>10, <1>11, <1>12 DEF IInv, Safe, SessionsInv

LEMMA PublicationStepInv ==
  ASSUME IInv, NEW p \in Publishers, PublicationStep(p) PROVE IInv'
  <1>0. TypeOK'
    BY PublicationStepTyped DEF IInv
  <1>1. CASE NotifyPublication(p) \/ FailPublication(p)
    <2>1. SetPublish(p, IdlePublication)
          /\ UNCHANGED <<filing, facts, rows, reviews, pins, metrics, review,
                         rebuild>>
      BY <1>1 DEF NotifyPublication, FailPublication, source
    <2>2. /\ IdlePublication.pc = "idle" /\ IdlePublication.insert = Nothing
          /\ IdlePublication.todo = {}
          /\ IdlePublication.known = [f \in Mapped |-> "none"]
          /\ IdlePublication.plan = [f \in Fields |-> "keep"]
      BY DEF IdlePublication
    <2> QED
      BY <1>0, <2>1, <2>2, IdlePublicationTyped, FreshMoves
  <1> QED
    BY <1>0, <1>1, StartPublicationInv, DropRejectedInv, ReadFactsInv,
       SkipMissingInv, WithholdInv, ReadLatestInv, InsertProvisionalInv,
       SelectPinInv, FlushPinInv, CommitPublicationInv
    DEF PublicationStep

-----------------------------------------------------------------------------
(* Rebuilds, and the theorems *)

LEMMA EndedSnaps ==
  ASSUME IInv, NEW w \in Workers, NEW new \in Rebuild, NEW i,
         Ended(w, new, i), \A f \in Fields : new.snap[f] = NoPin
  PROVE  \A o \in Workers, f \in Fields :
           rebuild'[o].snap[f] # NoPin => rebuild'[o].snap[f].id # 0
  <1> SUFFICES ASSUME NEW o \in Workers, NEW f \in Fields,
                      rebuild'[o].snap[f] # NoPin
               PROVE  rebuild'[o].snap[f].id # 0
    OBVIOUS
  <1>1. CASE o = w
    BY <1>1 DEF Ended
  <1>2. CASE o # w
    <2>1. rebuild[o] \in Rebuild
      BY DEF IInv, TypeOK
    <2>2. rebuild'[o] = [rebuild[o] EXCEPT
                          !.behind = rebuild[o].behind \ {w},
                          !.blind = rebuild[o].blind
                                    \/ (i /\ rebuild[o].pc = "insert")]
      BY <1>2 DEF Ended
    <2>3. rebuild'[o].snap = rebuild[o].snap
      BY <2>1, <2>2 DEF Rebuild
    <2> QED
      BY <2>3 DEF IInv, LineageInv
  <1> QED
    BY <1>1, <1>2

LEMMA InsertMetricsInv ==
  ASSUME IInv, TypeOK', NEW w \in Workers, InsertMetrics(w) PROVE IInv'
  <1> DEFINE req == rebuild[w]
             used == {f \in Fields : req.snap[f] # NoPin}
  <1>0. TypeOK
    BY DEF IInv
  <1>1. UNCHANGED <<filing, facts, rows, reviews, pins, review, publish>>
    BY DEF InsertMetrics, source
  <1>2. \A o \in Workers, f \in Fields :
          rebuild'[o].snap[f] # NoPin => rebuild'[o].snap[f].id # 0
    <2>1. ASSUME NEW e \in Error
          PROVE  /\ [IdleRebuild EXCEPT !.error = e] \in Rebuild
                 /\ \A f \in Fields : [IdleRebuild EXCEPT !.error = e].snap[f] = NoPin
      BY IdleRebuildTyped DEF Rebuild, IdleRebuild
    <2>2. \A f \in Fields : IdleRebuild.snap[f] = NoPin
      BY DEF IdleRebuild
    <2>3. \/ \E e \in Error : Ended(w, [IdleRebuild EXCEPT !.error = e], FALSE)
          \/ Ended(w, IdleRebuild, used # {})
      BY DEF InsertMetrics, Error
    <2> QED
      BY <2>1, <2>2, <2>3, IdleRebuildTyped, EndedSnaps
  <1>3. \/ metrics' = metrics
        \/ metrics' = req.snap /\ \A f \in used : PinSeen(f) = req.snap[f].id
    BY DEF InsertMetrics
  <1>4. ASSUME NEW f \in Fields
        PROVE  \/ metrics'[f] = metrics[f]
               \/ metrics'[f] = NoPin
               \/ /\ metrics'[f] # NoPin
                  /\ pins[f].version # 0 /\ pins[f].id = metrics'[f].id
                  /\ ~PinLocked(f, w)
    <2>1. CASE metrics' = metrics
      BY <2>1
    <2>2. CASE metrics' = req.snap /\ \A g \in used : PinSeen(g) = req.snap[g].id
      <3>1. f \in used => req.snap[f].id # 0
        BY DEF IInv, LineageInv
      <3>2. f \in used => ~PinLocked(f, w)
        BY DEF InsertMetrics
      <3>3. f \in used => pins[f].version # 0 /\ pins[f].id = req.snap[f].id
        BY <2>2, <3>1 DEF PinSeen, PinRead, NoPin
      <3> QED
        BY <2>2, <3>2, <3>3
    <2> QED
      BY <1>3, <2>1, <2>2
  <1>5. MetricsHaveLineage'
    BY <1>1, <1>4 DEF IInv, Safe, MetricsHaveLineage
  <1>6. ASSUME NEW p \in Publishers, NEW f \in Fields,
               publish[p].plan[f] = "drop"
        PROVE  metrics'[f] = NoPin
    <2>1. metrics[f] = NoPin
      BY <1>6, Plan
    <2>2. PinLocked(f, w)
      BY <1>6, SessionsAssumption DEF PinLocked
    <2> QED
      BY <1>4, <2>1, <2>2
  <1> QED
    BY <1>1, <1>2, <1>5, <1>6, RebuildMoves

LEMMA RebuildStepInv ==
  ASSUME IInv, NEW w \in Workers, RebuildStep(w) PROVE IInv'
  <1>0. TypeOK /\ TypeOK'
    BY RebuildStepTyped DEF IInv
  <1>1. CASE InsertMetrics(w)
    BY <1>0, <1>1, InsertMetricsInv
  <1>2. ASSUME UNCHANGED <<filing, facts, rows, reviews, pins, review, publish,
                           metrics>>,
               \A o \in Workers, f \in Fields :
                 rebuild'[o].snap[f] # NoPin => rebuild'[o].snap[f].id # 0
        PROVE  IInv'
    <2>1. MetricsHaveLineage'
      BY <1>2 DEF IInv, Safe, MetricsHaveLineage
    <2>2. \A p \in Publishers, f \in Fields :
            publish[p].plan[f] = "drop" => metrics'[f] = NoPin
      BY <1>2 DEF IInv, LineageInv
    <2> QED
      BY <1>0, <1>2, <2>1, <2>2, RebuildMoves
  <1>3. CASE ReadPins(w)
    <2> DEFINE snap == [f \in Fields |-> IF pins[f].version = 0 THEN NoPin
                                                                ELSE pins[f]]
    <2>1. \A f \in Fields : snap[f] # NoPin => snap[f].id # 0
      BY DEF IInv, LineageInv
    <2>2. rebuild' = [rebuild EXCEPT ![w] =
                        [IdleRebuild EXCEPT !.pc = "delete", !.snap = snap]]
      BY <1>3 DEF ReadPins, SetRebuild
    <2>3. [IdleRebuild EXCEPT !.pc = "delete", !.snap = snap].snap = snap
      BY DEF IdleRebuild
    <2> HIDE DEF snap
    <2>4. \A o \in Workers, f \in Fields :
            rebuild'[o].snap[f] # NoPin => rebuild'[o].snap[f].id # 0
      BY <1>0, <2>1, <2>2, <2>3 DEF TypeOK, IInv, LineageInv
    <2> QED
      BY <1>2, <1>3, <2>4 DEF ReadPins, source
  <1>4. CASE DeleteMetrics(w)
    <2>1. PICK b : rebuild' = [rebuild EXCEPT ![w] =
                       [rebuild[w] EXCEPT !.pc = "insert", !.behind = b]]
      BY <1>4 DEF DeleteMetrics, SetRebuild
    <2>2. [rebuild[w] EXCEPT !.pc = "insert", !.behind = b].snap = rebuild[w].snap
      BY <1>0 DEF TypeOK, Rebuild
    <2>3. \A o \in Workers : rebuild'[o].snap = rebuild[o].snap
      BY <1>0, <2>1, <2>2 DEF TypeOK
    <2>4. \A o \in Workers, f \in Fields :
            rebuild'[o].snap[f] # NoPin => rebuild'[o].snap[f].id # 0
      BY <2>3 DEF IInv, LineageInv
    <2> QED
      BY <1>2, <1>4, <2>4 DEF DeleteMetrics, source
  <1>5. CASE FailRebuild(w)
    <2>1. \A f \in Fields : IdleRebuild.snap[f] = NoPin
      BY DEF IdleRebuild
    <2>2. \A o \in Workers, f \in Fields :
            rebuild'[o].snap[f] # NoPin => rebuild'[o].snap[f].id # 0
      BY <1>5, <2>1, IdleRebuildTyped, EndedSnaps DEF FailRebuild
    <2> QED
      BY <1>2, <1>5, <2>2 DEF FailRebuild, source
  <1> QED
    BY <1>1, <1>3, <1>4, <1>5 DEF RebuildStep

LEMMA StepInv == IInv /\ [Next]_vars => IInv'
  <1> SUFFICES ASSUME IInv, [Next]_vars PROVE IInv'
    OBVIOUS
  <1>1. CASE UNCHANGED vars
    <2>1. TypeOK'
      BY <1>1, StepTyped DEF IInv
    <2>2. FactsHold'
      BY <1>1 DEF vars, IInv, SessionsInv, FactsHold
    <2> QED
      BY <1>1, <2>1, <2>2, StillInv DEF vars
  <1>2. CASE Next
    BY <1>2, FilingStepInv, ExtractionStepInv, ReviewStepInv,
       PublicationStepInv, RebuildStepInv DEF Next
  <1> QED
    BY <1>1, <1>2

(* The inductive invariant: types, the safety properties, what sessions    *)
(* rely on between their steps, and what keeps the lineage of metrics      *)
(* (complete_review, publish_provisional_mappings, rebuild_metrics).       *)
THEOREM PublicationInductive == Spec => []IInv
  BY InitInv, StepInv, PTL DEF Spec

(* Whatever overlaps, no value of the language model and no correction is  *)
(* public before its review was decided (complete_review).                 *)
THEOREM OnlyReviewedIsPublic == Spec => []PublishedIsReviewed
  BY PublicationInductive, PTL DEF IInv, Safe

(* Every pin the code writes is one the trigger validate_field_version_pin *)
(* accepts (update_pin_if_publishable, publish_provisional_mappings).      *)
THEOREM OnlyQualifiedPins == Spec => []PinsAreQualified
  BY PublicationInductive, PTL DEF IInv, Safe

(* A metric's pin is there, for any number of rebuilds, publications and   *)
(* reviews at once (rebuild_metrics).                                      *)
THEOREM LineageKept == Spec => []MetricsHaveLineage
  BY PublicationInductive, PTL DEF IInv, Safe

(* What a session relies on between two of its statements, no other        *)
(* session can take from it (complete_review,                              *)
(* publish_provisional_mappings).                                          *)
THEOREM SessionsUndisturbed == Spec => []SessionsInv
  BY PublicationInductive, PTL DEF IInv

(* A pin that is about to be deleted gets no metric (rebuild_metrics).     *)
THEOREM DeletedPinsUnused == Spec => []LineageInv
  BY PublicationInductive, PTL DEF IInv

-----------------------------------------------------------------------------
(* What one publication at a time achieves *)

XbrlPinned(f) == pins[f].version # 0 /\ rows[f][pins[f].version].method = "xbrl"

(* The version the publication found public, or what a review has put in   *)
(* its place.                                                              *)
FoundOrReviewed(pub, f) ==
    pins[f].version # 0 /\ (pins[f].version = pub.to[f] \/ ~XbrlPinned(f))

(* A fact the publication is done with: one it could not resolve is not    *)
(* public or about to be withdrawn, one it could resolve is about to be    *)
(* pinned or was found public.                                             *)
Withheld(pub) ==
    pub.pc \in {"next", "insert", "select", "pin"} =>
      \A f \in pub.active \ pub.todo :
        /\ pub.known[f] = "unresolved" => pub.plan[f] = "drop" \/ ~XbrlPinned(f)
        /\ pub.known[f] = "clear" => pub.plan[f] = "pin" \/ FoundOrReviewed(pub, f)

WithheldInv == \A p \in Publishers : Withheld(publish[p])

Alone == \A p, o \in Publishers : p = o

KeptOrReviewed(f) ==
    \/ pins'[f] = pins[f] /\ (XbrlPinned(f)' => XbrlPinned(f))
    \/ pins'[f].version # 0 /\ ~XbrlPinned(f)'

(* Only publications make an XBRL value public or withdraw a pin.          *)
LEMMA OthersPinNoXbrl ==
  ASSUME IInv,
         \/ FilingStep
         \/ \E x \in Extractors : ExtractionStep(x)
         \/ \E r \in Reviewers : ReviewStep(r)
         \/ \E w \in Workers : RebuildStep(w)
         \/ UNCHANGED vars,
         NEW f \in Fields
  PROVE  KeptOrReviewed(f) /\ publish' = publish
  <1>0. TypeOK
    BY DEF IInv
  <1>1. CASE FilingStep
    BY <1>1 DEF FilingStep, StoreFiling, ParseFiling, ReviewConceptMapping,
                EnqueueSample, XbrlPinned, KeptOrReviewed, sessions, source
  <1>2. ASSUME NEW x \in Extractors, ExtractionStep(x)
        PROVE  KeptOrReviewed(f) /\ publish' = publish
    <2>1. CASE StartExtraction(x)
      BY <2>1 DEF StartExtraction, XbrlPinned, KeptOrReviewed, source
    <2>2. ASSUME NEW found \in SUBSET Fields, NEW sure \in SUBSET found,
                 CommitExtraction(x, found, sure)
          PROVE  KeptOrReviewed(f) /\ publish' = publish
      <3>1. ASSUME NEW v \in Versions
            PROVE  rows'[f][v] = rows[f][v] \/ rows'[f][v].method = "llm"
        <4>1. rows'[f][v] = rows[f][v] \/ rows'[f][v] = Extracted(f \in sure)
          BY <1>0, <2>2 DEF CommitExtraction, TypeOK
        <4> QED
          BY <4>1 DEF Extracted, NoRow
      <3>2. pins[f].version # 0 => pins[f].version \in Versions
        BY <1>0, PublicationAssumption DEF TypeOK, Pin, Versions
      <3> QED
        BY <2>2, <3>1, <3>2 DEF CommitExtraction, XbrlPinned, KeptOrReviewed
    <2> QED
      BY <1>2, <2>1, <2>2 DEF ExtractionStep
  <1>3. ASSUME NEW r \in Reviewers, ReviewStep(r)
        PROVE  KeptOrReviewed(f) /\ publish' = publish
    <2>1. CASE FinishReview(r) /\ CommitReview(r)
      <3>1. review[r].pc = "finish" /\ publish' = publish
        BY <2>1 DEF FinishReview, CommitReview
      <3>2. \/ pins'[f] = pins[f]
            \/ f = review[r].field
               /\ pins'[f] = PointedTo(f, PublishedVersion(review[r]))
        BY <1>0, <2>1 DEF CommitReview, Repoints, TypeOK, ReviewRequest
      <3>3. ASSUME NEW v \in Versions, rows'[f][v].method = "xbrl"
            PROVE  /\ rows[f][v].method = "xbrl"
                   /\ ~(f = review[r].field /\ v = PublishedVersion(review[r]))
        <4>1. review[r] \in ReviewRequest
          BY <1>0 DEF TypeOK
        <4>2. CASE f = review[r].field /\ v = PublishedVersion(review[r])
          <5>1. rows'[f][v] = WrittenRow(review[r])
            BY <2>1, <3>1, <4>2, DecisionRows
          <5>2. CASE review[r].op = "correct"
            BY <3>3, <5>1, <5>2 DEF WrittenRow
          <5>3. CASE review[r].op = "accept"
            <6>1. v = review[r].about
              BY <4>2, <5>3 DEF PublishedVersion
            <6>2. rows[f][v].method = "llm" /\ rows[f][v] \in Row
              BY <1>0, <3>1, <4>2, <6>1
              DEF IInv, SessionsInv, CasesHold, TypeOK
            <6>3. rows'[f][v] = [rows[f][v] EXCEPT !.qa = "sampled_ok"]
              BY <4>2, <5>1, <5>3, <6>1 DEF WrittenRow
            <6> QED
              BY <3>3, <6>2, <6>3 DEF Row
          <5> QED
            BY <4>1, <5>2, <5>3 DEF ReviewRequest
        <4>3. CASE ~(f = review[r].field /\ v = PublishedVersion(review[r]))
          BY <2>1, <3>1, <3>3, <4>3, DecisionRows
        <4> QED
          BY <4>2, <4>3
      <3>4. CASE pins'[f] = pins[f]
        <4>1. pins[f].version # 0 => pins[f].version \in Versions
          BY <1>0, PublicationAssumption DEF TypeOK, Pin, Versions
        <4> QED
          BY <3>1, <3>3, <3>4, <4>1 DEF XbrlPinned, KeptOrReviewed
      <3>5. CASE /\ f = review[r].field
                 /\ pins'[f] = PointedTo(f, PublishedVersion(review[r]))
        <4>1. PublishedVersion(review[r]) \in Versions
          BY <1>0 DEF TypeOK, ReviewRequest, PublishedVersion
        <4>2. pins'[f].version = PublishedVersion(review[r])
          BY <3>5 DEF PointedTo
        <4> QED
          BY <3>1, <3>3, <3>5, <4>1, <4>2, PublicationAssumption
          DEF XbrlPinned, KeptOrReviewed, Versions
      <3> QED
        BY <3>2, <3>4, <3>5
    <2>2. CASE UNCHANGED <<rows, pins, publish>>
      BY <2>2 DEF XbrlPinned, KeptOrReviewed
    <2>3. (FinishReview(r) /\ CommitReview(r)) \/ UNCHANGED <<rows, pins, publish>>
      BY <1>3 DEF ReviewStep, StartReview, LockAccepted, LockCorrected,
                  InsertCorrection, CountOutcome, FinishReview, NotifyReview,
                  FailReview, ReadStat, Raise, ReviewUnchanged
    <2> QED
      BY <2>1, <2>2, <2>3
  <1>4. ASSUME NEW w \in Workers, RebuildStep(w)
        PROVE  KeptOrReviewed(f) /\ publish' = publish
    BY <1>4 DEF RebuildStep, ReadPins, DeleteMetrics, InsertMetrics,
                FailRebuild, XbrlPinned, KeptOrReviewed
  <1>5. CASE UNCHANGED vars
    BY <1>5 DEF vars, XbrlPinned, KeptOrReviewed
  <1> QED
    BY <1>1, <1>2, <1>3, <1>4, <1>5

LEMMA WithheldStep ==
  ASSUME IInv, NEW p \in Publishers, PublicationStep(p), Withheld(publish[p])
  PROVE  Withheld(publish[p])'
  <1> DEFINE pub == publish[p]
             new == publish'[p]
  <1>0. pub \in Publication /\ publish \in [Publishers -> Publication]
        /\ PlanHolds(pub)
    BY Plan DEF IInv, TypeOK
  <1> HIDE DEF new
  <1>1. ASSUME new.pc \in {"idle", "notify", "reject", "facts"}
        PROVE  Withheld(pub)'
    BY <1>1 DEF Withheld, new
  <1>2. ASSUME UNCHANGED <<rows, pins>>, NEW G \in SUBSET Mapped,
               pub.pc \in {"next", "insert", "select", "pin"},
               new.known = pub.known, new.active = pub.active,
               new.todo = pub.todo \ G,
               \A f \in pub.active \ pub.todo :
                 new.plan[f] = pub.plan[f] /\ new.to[f] = pub.to[f],
               \A f \in G :
                 /\ pub.known[f] = "unresolved" =>
                      new.plan[f] = "drop" \/ ~XbrlPinned(f)
                 /\ pub.known[f] = "clear" =>
                      new.plan[f] = "pin" \/ FoundOrReviewed(new, f)
        PROVE  Withheld(pub)'
    <2>1. ASSUME NEW f \in new.active \ new.todo
          PROVE  /\ new.known[f] = "unresolved" =>
                      new.plan[f] = "drop" \/ ~XbrlPinned(f)
                 /\ new.known[f] = "clear" =>
                      new.plan[f] = "pin" \/ FoundOrReviewed(new, f)
      <3>1. CASE f \in G
        BY <1>2, <2>1, <3>1
      <3>2. CASE f \notin G
        BY <1>2, <2>1, <3>2 DEF Withheld, FoundOrReviewed
      <3> QED
        BY <3>1, <3>2
    <2> QED
      BY <1>2, <2>1 DEF Withheld, new, XbrlPinned, FoundOrReviewed
  <1>3. ASSUME NEW refresh \in BOOLEAN, StartPublication(p, refresh)
        PROVE  Withheld(pub)'
    <2>1. new = [IdlePublication EXCEPT
                   !.pc = IF rejected = {} THEN "facts" ELSE "reject",
                   !.refresh = refresh, !.active = Mapped \ rejected]
      BY <1>0, <1>3 DEF StartPublication, SetPublish, new
    <2>2. new.pc \in {"reject", "facts"}
      BY <2>1 DEF IdlePublication
    <2> QED
      BY <1>1, <2>2
  <1>4. CASE DropRejected(p)
    <2>1. \/ new = [IdlePublication EXCEPT !.error = "ForeignKey"]
          \/ new = [pub EXCEPT !.pc = "facts"]
      BY <1>0, <1>4 DEF DropRejected, SetPublish, new
    <2>2. new.pc \in {"idle", "facts"}
      BY <1>0, <2>1 DEF IdlePublication, Publication
    <2> QED
      BY <1>1, <2>2
  <1>5. CASE ReadFacts(p)
    <2>1. new.active = new.todo
      BY <1>0, <1>5 DEF ReadFacts, SetPublish, Publication, new
    <2> QED
      BY <2>1 DEF Withheld, new
  <1>6. ASSUME NEW g \in Mapped, SkipMissing(p, g) PROVE Withheld(pub)'
    <2>1. new = [pub EXCEPT !.todo = pub.todo \ {g}]
      BY <1>0, <1>6 DEF SkipMissing, SetPublish, new
    <2>2. /\ new.known = pub.known /\ new.active = pub.active
          /\ new.todo = pub.todo \ {g} /\ new.plan = pub.plan
          /\ new.to = pub.to
      BY <1>0, <2>1 DEF Publication
    <2>3. UNCHANGED <<rows, pins>> /\ pub.pc = "next" /\ pub.known[g] = "none"
      BY <1>6 DEF SkipMissing, PublishUnchanged
    <2>4. {g} \in SUBSET Mapped
      OBVIOUS
    <2> QED
      BY <1>2, <2>2, <2>3, <2>4
  <1>7. ASSUME NEW g \in Mapped, Withhold(p, g) PROVE Withheld(pub)'
    <2> DEFINE d == IF pins[g].version # 0 THEN "drop" ELSE pub.plan[g]
    <2>0. /\ UNCHANGED <<rows, pins>> /\ pub.pc = "next" /\ g \in Fields
          /\ g \in pub.todo /\ pub.known[g] = "unresolved"
      BY <1>7, PublicationAssumption DEF Withhold, PublishUnchanged
    <2>1. \/ new = [IdlePublication EXCEPT !.error = "ForeignKey"]
          \/ new = [pub EXCEPT !.todo = pub.todo \ {g},
                               !.plan = [pub.plan EXCEPT ![g] = d]]
      BY <1>0, <1>7 DEF Withhold, SetPublish, new
    <2> HIDE DEF d
    <2>2. CASE new = [IdlePublication EXCEPT !.error = "ForeignKey"]
      BY <1>1, <2>2 DEF IdlePublication
    <2>3. CASE new = [pub EXCEPT !.todo = pub.todo \ {g},
                                 !.plan = [pub.plan EXCEPT ![g] = d]]
      <3>1. /\ new.known = pub.known /\ new.active = pub.active
            /\ new.todo = pub.todo \ {g}
            /\ new.plan = [pub.plan EXCEPT ![g] = d] /\ new.to = pub.to
        BY <1>0, <2>3 DEF Publication
      <3>2. pub.plan \in [Fields -> {"keep", "drop", "pin"}]
            /\ pub.active \subseteq Fields
        BY <1>0, PublicationAssumption DEF Publication
      <3>3. \A f \in Fields : new.plan[f] = IF f = g THEN d ELSE pub.plan[f]
        BY <3>1, <3>2
      <3>4. d = "drop" \/ ~XbrlPinned(g)
        BY DEF d, XbrlPinned
      <3>5. \A f \in pub.active \ pub.todo :
              new.plan[f] = pub.plan[f] /\ new.to[f] = pub.to[f]
        BY <2>0, <3>1, <3>2, <3>3
      <3>6. {g} \in SUBSET Mapped
        OBVIOUS
      <3>7. \A f \in {g} :
              (new.plan[f] = "drop" \/ ~XbrlPinned(f)) /\ pub.known[f] # "clear"
        BY <2>0, <3>3, <3>4
      <3> QED
        BY <1>2, <2>0, <3>1, <3>5, <3>6, <3>7
    <2> QED
      BY <2>1, <2>2, <2>3
  <1>8. ASSUME NEW g \in Mapped, ReadLatest(p, g) PROVE Withheld(pub)'
    <2>0. UNCHANGED <<rows, pins>> /\ pub.pc = "next" /\ g \in pub.todo
      BY <1>8 DEF ReadLatest, PublishUnchanged
    <2> PICK n \in 0..MaxVersion :
               IF Reusable(g, n, pub.parse)
                 THEN SetPublish(p, [pub EXCEPT !.pc = "select", !.field = g,
                                       !.to[g] = n])
                 ELSE /\ n < MaxVersion
                      /\ SetPublish(p, [pub EXCEPT !.pc = "insert", !.field = g,
                                          !.to[g] = n + 1])
      BY <1>8 DEF ReadLatest
    <2> DEFINE Same == /\ new.known = pub.known /\ new.active = pub.active
                       /\ new.todo = pub.todo /\ new.plan = pub.plan
                       /\ \E m : new.to = [pub.to EXCEPT ![g] = m]
    <2>1. ASSUME Reusable(g, n, pub.parse) PROVE Same
      <3>1. new = [pub EXCEPT !.pc = "select", !.field = g,
                              !.to = [pub.to EXCEPT ![g] = n]]
        BY <1>0, <2>1 DEF SetPublish, new
      <3> QED
        BY <1>0, <3>1 DEF Publication
    <2>4. ASSUME ~Reusable(g, n, pub.parse) PROVE Same
      <3>1. new = [pub EXCEPT !.pc = "insert", !.field = g,
                              !.to = [pub.to EXCEPT ![g] = n + 1]]
        BY <1>0, <2>4 DEF SetPublish, new
      <3> QED
        BY <1>0, <3>1 DEF Publication
    <2>2. Same
      BY <2>1, <2>4
    <2>3. new.todo = pub.todo \ {} /\ {} \in SUBSET Mapped
      BY <2>2
    <2>5. pub.to \in [Fields -> 0..MaxVersion] /\ pub.active \subseteq Fields
      BY <1>0, PublicationAssumption DEF Publication
    <2>6. \A f \in pub.active \ pub.todo :
            new.plan[f] = pub.plan[f] /\ new.to[f] = pub.to[f]
      BY <2>0, <2>2, <2>5
    <2> QED
      BY <1>2, <2>0, <2>2, <2>3, <2>6
  <1>9. CASE InsertProvisional(p)
    <2> DEFINE g == pub.field
    <2>0. UNCHANGED <<rows, pins>> /\ pub.pc = "insert"
      BY <1>9 DEF InsertProvisional, PublishUnchanged
    <2>1. \/ new = [pub EXCEPT !.pc = "select",
                      !.insert = [pub.insert EXCEPT ![g] = pub.to[g]]]
          \/ new = [IdlePublication EXCEPT !.error = "Integrity"]
      BY <1>0, <1>9 DEF InsertProvisional, SetPublish, new
    <2>2. CASE new = [IdlePublication EXCEPT !.error = "Integrity"]
      BY <1>1, <2>2 DEF IdlePublication
    <2>3. CASE new = [pub EXCEPT !.pc = "select",
                        !.insert = [pub.insert EXCEPT ![g] = pub.to[g]]]
      <3>1. /\ new.known = pub.known /\ new.active = pub.active
            /\ new.todo = pub.todo /\ new.plan = pub.plan /\ new.to = pub.to
        BY <1>0, <2>3 DEF Publication
      <3>2. new.todo = pub.todo \ {} /\ {} \in SUBSET Mapped
        BY <3>1
      <3> QED
        BY <1>2, <2>0, <3>1, <3>2
    <2> QED
      BY <2>1, <2>2, <2>3
  <1>10. CASE FlushPin(p)
    <2> DEFINE g == pub.field
    <2>0. UNCHANGED <<rows, pins>> /\ pub.pc = "pin" /\ g \in pub.todo
          /\ pub.known[g] = "clear" /\ g \in Mapped
      BY <1>0, <1>10 DEF FlushPin, PublishUnchanged, PlanHolds, Publication
    <2>1. \/ new = [pub EXCEPT !.pc = "next",
                      !.plan = [pub.plan EXCEPT ![g] = "pin"],
                      !.todo = pub.todo \ {g}]
          \/ new = [IdlePublication EXCEPT !.error = "Integrity"]
      BY <1>0, <1>10 DEF FlushPin, SetPublish, new
    <2>2. CASE new = [IdlePublication EXCEPT !.error = "Integrity"]
      BY <1>1, <2>2 DEF IdlePublication
    <2>3. CASE new = [pub EXCEPT !.pc = "next",
                        !.plan = [pub.plan EXCEPT ![g] = "pin"],
                        !.todo = pub.todo \ {g}]
      <3>1. /\ new.known = pub.known /\ new.active = pub.active
            /\ new.todo = pub.todo \ {g}
            /\ new.plan = [pub.plan EXCEPT ![g] = "pin"] /\ new.to = pub.to
        BY <1>0, <2>3 DEF Publication
      <3>2. pub.plan \in [Fields -> {"keep", "drop", "pin"}]
            /\ pub.active \subseteq Fields /\ {g} \in SUBSET Mapped
        BY <1>0, <2>0, PublicationAssumption DEF Publication
      <3>3. \A f \in Fields :
              new.plan[f] = IF f = g THEN "pin" ELSE pub.plan[f]
        BY <3>1, <3>2
      <3>4. \A f \in pub.active \ pub.todo :
              new.plan[f] = pub.plan[f] /\ new.to[f] = pub.to[f]
        BY <2>0, <3>1, <3>2, <3>3
      <3>5. \A f \in {g} : pub.known[f] = "clear" /\ new.plan[f] = "pin"
        BY <2>0, <3>2, <3>3, PublicationAssumption
      <3> QED
        BY <1>2, <2>0, <3>1, <3>2, <3>4, <3>5
    <2> QED
      BY <2>1, <2>2, <2>3
  <1>12. CASE SelectPin(p)
    <2> DEFINE g == pub.field
    <2>0. /\ UNCHANGED <<rows, pins>> /\ pub.pc = "select" /\ g \in pub.todo
          /\ pub.known[g] = "clear" /\ g \in Mapped /\ pub.to[g] \in Versions
      BY <1>0, <1>12 DEF SelectPin, PublishUnchanged, PlanHolds, Publication
    <2>1. \/ /\ PinRead(g).version = pub.to[g]
             /\ new = [pub EXCEPT !.pc = "next", !.todo = pub.todo \ {g}]
          \/ new = [pub EXCEPT !.pc = "pin", !.pin = PinSeen(g)]
      BY <1>0, <1>12 DEF SelectPin, SetPublish, new
    <2>2. CASE /\ PinRead(g).version = pub.to[g]
               /\ new = [pub EXCEPT !.pc = "next", !.todo = pub.todo \ {g}]
      <3>1. /\ new.known = pub.known /\ new.active = pub.active
            /\ new.todo = pub.todo \ {g} /\ new.plan = pub.plan
            /\ new.to = pub.to
        BY <1>0, <2>2 DEF Publication
      <3>2. pins[g].version = pub.to[g] /\ pub.to[g] # 0
        BY <2>0, <2>2 DEF PinRead, NoPin, Versions
      <3>3. \A f \in {g} : pub.known[f] = "clear" /\ FoundOrReviewed(new, f)
        BY <2>0, <3>1, <3>2 DEF FoundOrReviewed
      <3>4. {g} \in SUBSET Mapped
        BY <2>0
      <3> QED
        BY <1>2, <2>0, <3>1, <3>3, <3>4
    <2>3. CASE new = [pub EXCEPT !.pc = "pin", !.pin = PinSeen(g)]
      <3>1. /\ new.known = pub.known /\ new.active = pub.active
            /\ new.todo = pub.todo /\ new.plan = pub.plan /\ new.to = pub.to
        BY <1>0, <2>3 DEF Publication
      <3>2. new.todo = pub.todo \ {} /\ {} \in SUBSET Mapped
        BY <3>1
      <3> QED
        BY <1>2, <2>0, <3>1, <3>2
    <2> QED
      BY <2>1, <2>2, <2>3
  <1>11. CASE CommitPublication(p) \/ NotifyPublication(p) \/ FailPublication(p)
    <2>1. \/ new = [IdlePublication EXCEPT !.pc = "notify"]
          \/ new = IdlePublication
      BY <1>0, <1>11
      DEF CommitPublication, NotifyPublication, FailPublication, SetPublish, new
    <2>2. new.pc \in {"idle", "notify"}
      BY <2>1 DEF IdlePublication
    <2> QED
      BY <1>1, <2>2
  <1> QED
    BY <1>3, <1>4, <1>5, <1>6, <1>7, <1>8, <1>9, <1>10, <1>11, <1>12
    DEF PublicationStep

LEMMA WithheldInductive ==
  ASSUME Alone
  PROVE  /\ Init => WithheldInv
         /\ IInv /\ WithheldInv /\ [Next]_vars => WithheldInv'
  <1>1. Init => WithheldInv
    BY DEF Init, WithheldInv, Withheld, IdlePublication
  <1>2. ASSUME IInv, WithheldInv, [Next]_vars PROVE WithheldInv'
    <2>1. ASSUME NEW p \in Publishers, PublicationStep(p) PROVE WithheldInv'
      <3>1. Withheld(publish[p])'
        BY <1>2, <2>1, WithheldStep DEF WithheldInv
      <3>2. \A o \in Publishers : o = p
        BY DEF Alone
      <3> QED
        BY <3>1, <3>2 DEF WithheldInv
    <2>2. ASSUME \/ FilingStep
                 \/ \E x \in Extractors : ExtractionStep(x)
                 \/ \E r \in Reviewers : ReviewStep(r)
                 \/ \E w \in Workers : RebuildStep(w)
                 \/ UNCHANGED vars
          PROVE  WithheldInv'
      <3>1. ASSUME NEW p \in Publishers, NEW f \in Mapped,
                   publish'[p].pc \in {"next", "insert", "select", "pin"},
                   f \in publish'[p].active \ publish'[p].todo
            PROVE  /\ publish'[p].known[f] = "unresolved" =>
                        publish'[p].plan[f] = "drop" \/ ~XbrlPinned(f)'
                   /\ publish'[p].known[f] = "clear" =>
                        publish'[p].plan[f] = "pin"
                        \/ FoundOrReviewed(publish[p], f)'
        <4>1. publish' = publish
          BY <2>2 DEF vars, FilingStep, StoreFiling, ParseFiling,
               ReviewConceptMapping, EnqueueSample, sessions, ExtractionStep,
               StartExtraction, CommitExtraction, ReviewStep, StartReview,
               LockAccepted, LockCorrected, InsertCorrection, CountOutcome,
               FinishReview, NotifyReview, FailReview, ReadStat, Raise,
               CommitReview, ReviewUnchanged, RebuildStep, ReadPins,
               DeleteMetrics, InsertMetrics, FailRebuild
        <4>2. /\ publish[p].known[f] = "unresolved" =>
                   publish[p].plan[f] = "drop" \/ ~XbrlPinned(f)
              /\ publish[p].known[f] = "clear" =>
                   publish[p].plan[f] = "pin" \/ FoundOrReviewed(publish[p], f)
          BY <1>2, <3>1, <4>1 DEF WithheldInv, Withheld
        <4>3. f \in Fields
          BY PublicationAssumption
        <4>4. KeptOrReviewed(f)
          BY <1>2, <2>2, <4>3, OthersPinNoXbrl
        <4>5. FoundOrReviewed(publish[p], f) => FoundOrReviewed(publish[p], f)'
          BY <4>1, <4>4 DEF FoundOrReviewed, KeptOrReviewed
        <4>6. ~XbrlPinned(f) => ~XbrlPinned(f)'
          BY <4>4 DEF KeptOrReviewed
        <4> QED
          BY <4>1, <4>2, <4>5, <4>6
      <3>2. \A p \in Publishers : publish'[p].active \subseteq Mapped
        <4>1. TypeOK'
          BY <1>2, StepTyped DEF IInv
        <4> QED
          BY <4>1 DEF TypeOK, Publication
      <3> QED
        BY <3>1, <3>2 DEF WithheldInv, Withheld
    <2> QED
      BY <1>2, <2>1, <2>2 DEF Next
  <1> QED
    BY <1>1, <1>2

(* When a publication ends, every fact it read as resolvable is public, or *)
(* what a review put in its place since the publication found it public    *)
(* already, and no earlier provisional value of a fact it could not        *)
(* resolve is, as long as no two publications overlap                      *)
(* (publish_provisional_mappings).                                         *)
THEOREM PublicationDoesWhatItRead ==
  ASSUME Alone
  PROVE  Spec => PublicationIsExact
  <1>1. ASSUME IInv, WithheldInv,
               NEW p \in Publishers, NEW f \in Mapped,
               CommitPublication(p), f \in publish[p].active
        PROVE  LET v == pins'[f].version IN
               /\ publish[p].known[f] = "clear" =>
                    /\ v # 0
                    /\ \/ rows'[f][v].fact = publish[p].parse
                       \/ publish[p].plan[f] = "keep" /\ rows'[f][v].method # "xbrl"
               /\ publish[p].known[f] = "unresolved" =>
                    v = 0 \/ rows'[f][v].method # "xbrl"
    <2>0. /\ publish[p].pc = "next" /\ publish[p].todo = {} /\ f \in Fields
          /\ PlanHolds(publish[p])
      BY <1>1, Plan, PublicationAssumption DEF CommitPublication
    <2>3. ASSUME pins[f].version # 0
          PROVE  /\ pins[f].version \in Versions
                 /\ ~Absent(f, pins[f].version)
      BY SMTT(30), <1>1, <2>0, <2>3, PublicationAssumption
      DEF IInv, TypeOK, Pin, Versions, Safe, PublishedIsReviewed
    <2>4. pins[f].version # 0 =>
            rows'[f][pins[f].version] = rows[f][pins[f].version]
      BY <1>1, <2>0, <2>3, CommittedRows
    <2>1. CASE publish[p].known[f] = "clear"
      <3>1. publish[p].plan[f] # "drop" /\ FromFact(publish[p], f)
        BY <1>1, <2>0, <2>1 DEF PlanHolds
      <3>2. publish[p].plan[f] = "pin" \/ FoundOrReviewed(publish[p], f)
        BY <1>1, <2>0, <2>1 DEF WithheldInv, Withheld
      <3>3. CASE publish[p].plan[f] = "pin"
        BY <1>1, <2>0, <2>1, <3>3, CommittedPins DEF Versions
      <3>4. CASE publish[p].plan[f] = "keep"
        <4>1. pins'[f] = pins[f] /\ FoundOrReviewed(publish[p], f)
          BY <1>1, <2>0, <3>2, <3>4, CommittedPins
        <4>2. CASE pins[f].version = publish[p].to[f]
          <5>1. publish[p].insert[f] # publish[p].to[f]
            BY <1>1, <2>0, <2>3, <4>1, <4>2, Plan DEF FoundOrReviewed
          <5>2. rows[f][pins[f].version].fact = publish[p].parse
            BY <3>1, <4>2, <5>1 DEF FromFact
          <5> QED
            BY <2>1, <2>4, <4>1, <5>2 DEF FoundOrReviewed
        <4>3. CASE ~XbrlPinned(f)
          BY <2>1, <2>4, <3>4, <4>1, <4>3 DEF FoundOrReviewed, XbrlPinned
        <4> QED
          BY <4>1, <4>2, <4>3 DEF FoundOrReviewed
      <3> QED
        BY <1>1, <2>0, <3>1, <3>3, <3>4, CommittedPins
    <2>2. CASE publish[p].known[f] = "unresolved"
      <3>1. publish[p].plan[f] # "pin"
        BY <2>0, <2>2 DEF PlanHolds, FromFact
      <3>2. publish[p].plan[f] = "drop" \/ ~XbrlPinned(f)
        BY <1>1, <2>0, <2>2 DEF WithheldInv, Withheld
      <3>3. CASE publish[p].plan[f] = "drop"
        BY <1>1, <2>0, <2>2, <3>3, CommittedPins
      <3>4. CASE publish[p].plan[f] = "keep"
        <4>1. pins'[f] = pins[f] /\ ~XbrlPinned(f)
          BY <1>1, <2>0, <3>2, <3>4, CommittedPins
        <4> QED
          BY <2>2, <2>4, <4>1 DEF XbrlPinned
      <3> QED
        BY <1>1, <2>0, <3>1, <3>3, <3>4, CommittedPins
    <2> QED
      BY <2>1, <2>2
  <1>2. IInv /\ WithheldInv =>
          [\A p \in Publishers : \A f \in Mapped :
             (CommitPublication(p) /\ f \in publish[p].active) =>
               LET v == pins'[f].version IN
               /\ publish[p].known[f] = "clear" =>
                    /\ v # 0
                    /\ \/ rows'[f][v].fact = publish[p].parse
                       \/ publish[p].plan[f] = "keep" /\ rows'[f][v].method # "xbrl"
               /\ publish[p].known[f] = "unresolved" =>
                    v = 0 \/ rows'[f][v].method # "xbrl"]_vars
    BY <1>1
  <1>3. Spec => []IInv
    BY PublicationInductive
  <1>4. Spec => []WithheldInv
    <2>1. Init => WithheldInv
      BY WithheldInductive
    <2>2. IInv /\ WithheldInv /\ [Next]_vars => WithheldInv'
      BY WithheldInductive
    <2> QED
      BY <2>1, <2>2, <1>3, PTL DEF Spec
  <1> QED
    BY <1>2, <1>3, <1>4, PTL DEF PublicationIsExact

-----------------------------------------------------------------------------
(* What the rebuilds achieve.  The queue, a request or a publication that  *)
(* committed owes the pins a rebuild; unless one was lost, the rebuild     *)
(* that runs is the only one, and if none is owed it read the pins as they *)
(* are.                                                                    *)

Owed ==
    \/ queue > 0
    \/ \E r \in Reviewers : review[r].pc = "notify"
    \/ \E p \in Publishers : publish[p].pc = "notify"

Running(w) == rebuild[w].pc # "idle"

ReadAsIs(w) ==
    \A f \in Fields : rebuild[w].snap[f] = IF pins[f].version = 0 THEN NoPin
                                                                  ELSE pins[f]

SoleRebuild ==
    ~lost => \A w \in Workers : Running(w) =>
                /\ ~rebuild[w].blind
                /\ \A o \in Workers : Running(o) => o = w

Shown == \A f \in Fields : metrics[f].version = pins[f].version

SettlingInv ==
    /\ SoleRebuild
    /\ (~lost /\ ~Owed) => /\ \A w \in Workers : Running(w) => ReadAsIs(w)
                           /\ (\A w \in Workers : ~Running(w)) => Shown

(* Steps that touch no metric and no rebuild, and owe one for what they    *)
(* change about the pins.                                                  *)
LEMMA SettlingUndisturbed ==
  ASSUME SettlingInv, UNCHANGED <<metrics, rebuild>>,
         lost' \/ (~lost /\ (Owed' \/ (~Owed /\ pins' = pins)))
  PROVE  SettlingInv'
  BY DEF SettlingInv, SoleRebuild, Running, ReadAsIs, Shown

(* Whoever is not about to notify anybody leaves what is owed alone.       *)
LEMMA StillOwed ==
  ASSUME Owed, queue' = queue, UNCHANGED publish, NEW r \in Reviewers,
         NEW q \in ReviewRequest, TypeOK, SetReview(r, q),
         review[r].pc = "notify" => q.pc = "notify"
  PROVE  Owed'
  <1>1. review' \in [Reviewers -> ReviewRequest] /\ review'[r] = q
        /\ \A o \in Reviewers \ {r} : review'[o] = review[o]
    BY DEF SetReview, TypeOK
  <1> QED
    BY <1>1 DEF Owed

LEMMA PublishStillOwed ==
  ASSUME Owed, queue' = queue, UNCHANGED review, NEW p \in Publishers,
         NEW q, TypeOK, SetPublish(p, q),
         publish[p].pc = "notify" => q.pc = "notify"
  PROVE  Owed'
  <1>1. publish'[p] = q
        /\ \A o \in Publishers \ {p} : publish'[o] = publish[o]
    BY DEF SetPublish, TypeOK
  <1> QED
    BY <1>1 DEF Owed

LEMMA OthersSettle ==
  ASSUME IInv, SettlingInv,
         FilingStep \/ \E x \in Extractors : ExtractionStep(x)
  PROVE  SettlingInv'
  <1>1. UNCHANGED <<pins, metrics, queue, lost, review, publish, rebuild>>
    <2>1. ASSUME NEW a, NEW c, StoreFiling(a, c)
          PROVE  UNCHANGED <<pins, metrics, queue, lost, review, publish, rebuild>>
      <3>1. UNCHANGED <<facts, rejected, rows, reviews, stats, pins, metrics,
                        queue, lost, sessions>>
        BY <2>1, Zenon DEF StoreFiling
      <3> QED
        BY <3>1 DEF sessions
    <2>2. ASSUME NEW sample, EnqueueSample(sample)
          PROVE  UNCHANGED <<pins, metrics, queue, lost, review, publish, rebuild>>
      BY <2>2 DEF EnqueueSample, sessions
    <2>3. CASE ParseFiling \/ \E f \in Rejectable : ReviewConceptMapping(f)
      BY <2>3 DEF ParseFiling, ReviewConceptMapping, sessions
    <2>4. CASE \E x \in Extractors : ExtractionStep(x)
      BY <2>4 DEF ExtractionStep, StartExtraction, CommitExtraction
    <2> QED
      BY <2>1, <2>2, <2>3, <2>4 DEF FilingStep
  <1> QED
    BY <1>1, SettlingUndisturbed DEF Owed

(* A step of a request that has not committed yet.                         *)
LEMMA ReviewingSettles ==
  ASSUME SettlingInv, TypeOK, NEW r \in Reviewers, NEW q, SetReview(r, q),
         review[r].pc # "notify",
         UNCHANGED <<pins, metrics, queue, lost, publish, rebuild>>
  PROVE  SettlingInv'
  <1>1. \A o \in Reviewers \ {r} : review'[o] = review[o]
    BY DEF SetReview, TypeOK
  <1>2. Owed => Owed'
    BY <1>1 DEF Owed
  <1> QED
    BY <1>2, SettlingUndisturbed

LEMMA RaisedSettles ==
  ASSUME SettlingInv, TypeOK, NEW r \in Reviewers, NEW e, Raise(r, e),
         review[r].pc # "notify"
  PROVE  SettlingInv'
  <1>1. SetReview(r, [IdleReview EXCEPT !.error = e])
    BY DEF Raise
  <1>2. UNCHANGED <<pins, metrics, queue, lost, publish, rebuild>>
    BY DEF Raise
  <1> QED
    BY <1>1, <1>2, ReviewingSettles

LEMMA ReadStatSettles ==
  ASSUME SettlingInv, TypeOK, NEW r \in Reviewers, NEW req, ReadStat(r, req),
         review[r].pc # "notify"
  PROVE  SettlingInv'
  <1>1. CASE Family[req.field] \in Seeded
    <2>1. PICK q : SetReview(r, q) /\ ReviewUnchanged
      BY <1>1 DEF ReadStat
    <2> QED
      BY <2>1, ReviewingSettles DEF ReviewUnchanged
  <1>2. CASE Family[req.field] \notin Seeded
    BY <1>2, RaisedSettles DEF ReadStat
  <1> QED
    BY <1>1, <1>2

LEMMA CommitReviewSettles ==
  ASSUME SettlingInv, TypeOK, NEW r \in Reviewers, CommitReview(r),
         review[r].pc # "notify"
  PROVE  SettlingInv'
  <1>1. UNCHANGED <<metrics, queue, lost, publish, rebuild>>
    BY DEF CommitReview
  <1>2. CASE ~review[r].allowed
    <2>1. pins' = pins /\ SetReview(r, IdleReview)
      BY <1>2 DEF CommitReview, Repoints
    <2> QED
      BY <1>1, <2>1, ReviewingSettles
  <1>3. CASE review[r].allowed
    <2>1. review' = [review EXCEPT ![r] = [review[r] EXCEPT !.pc = "notify"]]
      BY <1>3 DEF CommitReview, SetReview
    <2>2. review'[r].pc = "notify"
      BY <2>1 DEF TypeOK, ReviewRequest
    <2>3. Owed'
      BY <2>2 DEF Owed
    <2> QED
      BY <1>1, <2>3, SettlingUndisturbed
  <1> QED
    BY <1>2, <1>3

LEMMA ReviewSettles ==
  ASSUME IInv, SettlingInv, NEW r \in Reviewers, ReviewStep(r)
  PROVE  SettlingInv'
  <1>0. TypeOK
    BY DEF IInv
  <1>1. ASSUME NEW f, NEW v, NEW op, StartReview(r, f, v, op)
        PROVE  SettlingInv'
    <2>1. PICK q : SetReview(r, q) /\ ReviewUnchanged
      BY <1>1 DEF StartReview
    <2> QED
      BY <1>0, <1>1, <2>1, ReviewingSettles DEF StartReview, ReviewUnchanged
  <1>2. CASE LockAccepted(r) \/ InsertCorrection(r)
    <2>1. review[r].pc # "notify"
          /\ (ReadStat(r, review[r]) \/ Raise(r, "Integrity"))
      BY <1>2 DEF LockAccepted, InsertCorrection
    <2> QED
      BY <1>0, <2>1, ReadStatSettles, RaisedSettles
  <1>3. CASE LockCorrected(r)
    <2>1. PICK q : SetReview(r, q)
      BY <1>3 DEF LockCorrected
    <2> QED
      BY <1>0, <1>3, <2>1, ReviewingSettles DEF LockCorrected, ReviewUnchanged
  <1>4. CASE CountOutcome(r)
    <2>1. PICK q : SetReview(r, q)
      BY <1>4 DEF CountOutcome
    <2> QED
      BY <1>0, <1>4, <2>1, ReviewingSettles DEF CountOutcome, ReviewUnchanged
  <1>5. CASE FinishReview(r)
    <2>1. review[r].pc # "notify" /\ (CommitReview(r) \/ Raise(r, "Integrity"))
      BY <1>5 DEF FinishReview
    <2> QED
      BY <1>0, <2>1, CommitReviewSettles, RaisedSettles
  <1>6. CASE NotifyReview(r)
    <2>1. queue \in Nat /\ queue' = queue + 1
      BY <1>0, <1>6, PublicationAssumption DEF NotifyReview, TypeOK
    <2>2. Owed'
      BY <2>1 DEF Owed
    <2> QED
      BY <1>6, <2>2, SettlingUndisturbed DEF NotifyReview
  <1>7. CASE FailReview(r)
    <2>1. CASE lost \/ review[r].pc = "notify"
      <3>1. lost'
        BY <1>7, <2>1 DEF FailReview
      <3> QED
        BY <1>7, <3>1, SettlingUndisturbed DEF FailReview
    <2>2. CASE ~lost /\ review[r].pc # "notify"
      BY <1>0, <1>7, <2>2, ReviewingSettles DEF FailReview, TypeOK
    <2> QED
      BY <2>1, <2>2
  <1> QED
    BY <1>1, <1>2, <1>3, <1>4, <1>5, <1>6, <1>7 DEF ReviewStep

(* The same for a publication.                                             *)
LEMMA PublishingSettles ==
  ASSUME SettlingInv, TypeOK, NEW p \in Publishers, NEW q, SetPublish(p, q),
         publish[p].pc # "notify",
         UNCHANGED <<pins, metrics, queue, lost, review, rebuild>>
  PROVE  SettlingInv'
  <1>1. \A o \in Publishers \ {p} : publish'[o] = publish[o]
    BY DEF SetPublish, TypeOK
  <1>2. Owed => Owed'
    BY <1>1 DEF Owed
  <1> QED
    BY <1>2, SettlingUndisturbed

LEMMA PublishStepSettles ==
  ASSUME SettlingInv, TypeOK, NEW p \in Publishers,
         \E q : SetPublish(p, q), PublishUnchanged, publish[p].pc # "notify"
  PROVE  SettlingInv'
  <1>1. UNCHANGED <<pins, metrics, queue, lost, review, rebuild>>
    BY DEF PublishUnchanged
  <1> QED
    BY <1>1, PublishingSettles

LEMMA DropRejectedSettles ==
  ASSUME SettlingInv, TypeOK, NEW p \in Publishers, DropRejected(p)
  PROVE  SettlingInv'
  <1> DEFINE gone == {f \in Mapped \ publish[p].active :
                        pins[f].version # 0 /\ filing.adapter = "nse"}
  <1>1. publish[p].pc = "reject" /\ UNCHANGED <<metrics, queue, review, rebuild>>
    BY DEF DropRejected
  <1>2. \E q : SetPublish(p, q)
    BY DEF DropRejected
  <1>3. CASE pins' = pins /\ lost' = lost
    BY <1>1, <1>2, <1>3, PublishingSettles
  <1>4. CASE ~(\E f \in gone : Referenced(f)) /\ gone # {}
    <2>1. lost'
      BY <1>4 DEF DropRejected
    <2> QED
      BY <1>1, <2>1, SettlingUndisturbed
  <1>5. CASE ~(\E f \in gone : Referenced(f)) /\ gone = {}
    <2>1. /\ lost' = (lost \/ gone # {})
          /\ pins' = [f \in Fields |-> IF f \in gone THEN Unpinned(f)
                                                     ELSE pins[f]]
      BY <1>5 DEF DropRejected
    <2> HIDE DEF gone
    <2>2. pins' = pins
      BY <1>5, <2>1 DEF TypeOK
    <2>3. lost' = lost
      BY <1>5, <2>1 DEF TypeOK
    <2> QED
      BY <1>3, <2>2, <2>3
  <1>6. CASE \E f \in gone : Referenced(f)
    BY <1>3, <1>6 DEF DropRejected
  <1> QED
    BY <1>4, <1>5, <1>6

LEMMA CommitPublicationSettles ==
  ASSUME SettlingInv, TypeOK, NEW p \in Publishers, CommitPublication(p)
  PROVE  SettlingInv'
  <1>1. /\ publish[p].pc # "notify"
        /\ UNCHANGED <<metrics, queue, review, rebuild>>
        /\ lost' = (lost \/ (~publish[p].refresh /\ pins' # pins))
    BY DEF CommitPublication
  <1>2. CASE publish[p].refresh
    <2>1. publish' = [publish EXCEPT ![p] = [IdlePublication EXCEPT !.pc = "notify"]]
      BY <1>2 DEF CommitPublication, SetPublish
    <2>2. publish'[p].pc = "notify"
      BY <2>1 DEF TypeOK, IdlePublication
    <2>3. Owed'
      BY <2>2 DEF Owed
    <2>4. lost' \/ ~lost
      BY <1>1
    <2> QED
      BY <1>1, <2>3, <2>4, SettlingUndisturbed
  <1>3. CASE ~publish[p].refresh /\ pins' # pins
    <2>1. lost'
      BY <1>1, <1>3
    <2> QED
      BY <1>1, <2>1, SettlingUndisturbed
  <1>4. CASE ~publish[p].refresh /\ pins' = pins
    <2>1. lost' = lost
      BY <1>1, <1>4 DEF TypeOK
    <2>2. SetPublish(p, IdlePublication)
      BY <1>4 DEF CommitPublication
    <2> QED
      BY <1>1, <1>4, <2>1, <2>2, PublishingSettles
  <1> QED
    BY <1>2, <1>3, <1>4

LEMMA PublicationSettles ==
  ASSUME IInv, SettlingInv, NEW p \in Publishers, PublicationStep(p)
  PROVE  SettlingInv'
  <1>0. TypeOK
    BY DEF IInv
  <1>1. CASE \E refresh \in BOOLEAN : StartPublication(p, refresh)
    <2>1. (\E q : SetPublish(p, q)) /\ PublishUnchanged /\ publish[p].pc # "notify"
      BY <1>1 DEF StartPublication
    <2> QED
      BY <1>0, <2>1, PublishStepSettles
  <1>2. CASE ReadFacts(p)
    <2>1. (\E q : SetPublish(p, q)) /\ PublishUnchanged /\ publish[p].pc # "notify"
      BY <1>2 DEF ReadFacts
    <2> QED
      BY <1>0, <2>1, PublishStepSettles
  <1>3. ASSUME NEW f \in Mapped, SkipMissing(p, f) PROVE SettlingInv'
    <2>1. (\E q : SetPublish(p, q)) /\ PublishUnchanged /\ publish[p].pc # "notify"
      BY <1>3 DEF SkipMissing
    <2> QED
      BY <1>0, <2>1, PublishStepSettles
  <1>4. ASSUME NEW f \in Mapped, Withhold(p, f) PROVE SettlingInv'
    <2>1. (\E q : SetPublish(p, q)) /\ PublishUnchanged /\ publish[p].pc # "notify"
      BY <1>4 DEF Withhold
    <2> QED
      BY <1>0, <2>1, PublishStepSettles
  <1>5. ASSUME NEW f \in Mapped, ReadLatest(p, f) PROVE SettlingInv'
    <2>1. (\E q : SetPublish(p, q)) /\ PublishUnchanged /\ publish[p].pc # "notify"
      BY <1>5 DEF ReadLatest
    <2> QED
      BY <1>0, <2>1, PublishStepSettles
  <1>6. CASE InsertProvisional(p)
    <2>1. (\E q : SetPublish(p, q)) /\ PublishUnchanged /\ publish[p].pc # "notify"
      BY <1>6 DEF InsertProvisional
    <2> QED
      BY <1>0, <2>1, PublishStepSettles
  <1>10. CASE SelectPin(p)
    <2>1. (\E q : SetPublish(p, q)) /\ PublishUnchanged /\ publish[p].pc # "notify"
      BY <1>10 DEF SelectPin
    <2> QED
      BY <1>0, <2>1, PublishStepSettles
  <1>7. CASE FlushPin(p)
    <2>1. (\E q : SetPublish(p, q)) /\ PublishUnchanged /\ publish[p].pc # "notify"
      BY <1>7 DEF FlushPin
    <2> QED
      BY <1>0, <2>1, PublishStepSettles
  <1>8. CASE NotifyPublication(p)
    <2>1. queue \in Nat /\ queue' = queue + 1
      BY <1>0, <1>8, PublicationAssumption DEF NotifyPublication, TypeOK
    <2>2. Owed'
      BY <2>1 DEF Owed
    <2> QED
      BY <1>8, <2>2, SettlingUndisturbed DEF NotifyPublication
  <1>9. CASE FailPublication(p)
    <2>1. CASE lost \/ publish[p].pc = "notify"
      <3>1. lost'
        BY <1>9, <2>1 DEF FailPublication
      <3> QED
        BY <1>9, <3>1, SettlingUndisturbed DEF FailPublication
    <2>2. CASE ~lost /\ publish[p].pc # "notify"
      BY <1>0, <1>9, <2>2, PublishingSettles DEF FailPublication, TypeOK
    <2> QED
      BY <2>1, <2>2
  <1> QED
    BY <1>0, <1>1, <1>2, <1>3, <1>4, <1>5, <1>6, <1>7, <1>8, <1>9, <1>10,
       DropRejectedSettles, CommitPublicationSettles DEF PublicationStep

(* A rebuild that starts is the only one, or a lost one is noted.          *)
LEMMA ReadPinsSettles ==
  ASSUME IInv, NEW w \in Workers, ReadPins(w)
  PROVE  SettlingInv'
  <1> DEFINE snap == [f \in Fields |-> IF pins[f].version = 0 THEN NoPin
                                                              ELSE pins[f]]
             q == [IdleRebuild EXCEPT !.pc = "delete", !.snap = snap]
  <1>1. rebuild' = [rebuild EXCEPT ![w] = q] /\ UNCHANGED pins
        /\ lost' = \E o \in Workers \ {w} : rebuild[o].pc # "idle"
    BY DEF ReadPins, SetRebuild
  <1>2. q.pc = "delete" /\ q.snap = snap /\ ~q.blind
    BY DEF IdleRebuild
  <1> HIDE DEF q
  <1>3. /\ rebuild'[w] = q
        /\ \A o \in Workers \ {w} : rebuild'[o] = rebuild[o]
    BY <1>1 DEF IInv, TypeOK
  <1>4. ASSUME ~lost', NEW o \in Workers, Running(o)' PROVE o = w
    BY <1>1, <1>3, <1>4 DEF Running
  <1>5. ReadAsIs(w)'
    BY <1>1, <1>2, <1>3 DEF ReadAsIs
  <1>6. Running(w)'
    BY <1>2, <1>3 DEF Running
  <1>7. SoleRebuild'
    <2> SUFFICES ASSUME ~lost', NEW o \in Workers, Running(o)'
                 PROVE  ~rebuild'[o].blind /\ \A i \in Workers : Running(i)' => i = o
      BY DEF SoleRebuild
    <2> QED
      BY <1>2, <1>3, <1>4
  <1> QED
    BY <1>4, <1>5, <1>6, <1>7 DEF SettlingInv

LEMMA DeleteMetricsSettles ==
  ASSUME IInv, SettlingInv, NEW w \in Workers, DeleteMetrics(w)
  PROVE  SettlingInv'
  <1> DEFINE b == IF metrics = NoMetrics THEN {}
                  ELSE {o \in Workers \ {w} : rebuild[o].pc = "insert"}
             q == [rebuild[w] EXCEPT !.pc = "insert", !.behind = b]
  <1>1. rebuild' = [rebuild EXCEPT ![w] = q] /\ rebuild[w].pc = "delete"
        /\ UNCHANGED <<pins, metrics, queue, lost, review, publish>>
    BY DEF DeleteMetrics, SetRebuild
  <1> HIDE DEF b
  <1>2. q.pc = "insert" /\ q.snap = rebuild[w].snap /\ q.blind = rebuild[w].blind
    BY DEF IInv, TypeOK, Rebuild
  <1> HIDE DEF q
  <1>3. \A o \in Workers : /\ Running(o)' <=> Running(o)
                           /\ rebuild'[o].snap = rebuild[o].snap
                           /\ rebuild'[o].blind = rebuild[o].blind
    BY <1>1, <1>2 DEF IInv, TypeOK, Running
  <1>4. Owed' <=> Owed
    BY <1>1 DEF Owed
  <1>5. SoleRebuild'
    BY <1>1, <1>3 DEF SettlingInv, SoleRebuild
  <1> QED
    BY <1>1, <1>3, <1>4, <1>5 DEF SettlingInv, ReadAsIs, Shown

(* What the end of a rebuild leaves of it and of the others.               *)
LEMMA EndedLeaves ==
  ASSUME IInv, NEW w \in Workers, NEW new, NEW i, Ended(w, new, i)
  PROVE  /\ rebuild'[w] = new
         /\ \A o \in Workers \ {w} :
              /\ rebuild'[o].pc = rebuild[o].pc
              /\ rebuild'[o].snap = rebuild[o].snap
  <1>1. \A o \in Workers : rebuild[o] \in Rebuild
    BY DEF IInv, TypeOK
  <1>2. rebuild'[w] = new
    BY DEF Ended
  <1>3. ASSUME NEW o \in Workers \ {w}
        PROVE  rebuild'[o].pc = rebuild[o].pc /\ rebuild'[o].snap = rebuild[o].snap
    <2>1. rebuild'[o] = [rebuild[o] EXCEPT
                           !.behind = @ \ {w},
                           !.blind = @ \/ (i /\ rebuild[o].pc = "insert")]
      BY <1>3 DEF Ended
    <2> QED
      BY <1>1, <1>3, <2>1 DEF Rebuild
  <1> QED
    BY <1>2, <1>3

LEMMA InsertMetricsSettles ==
  ASSUME IInv, SettlingInv, NEW w \in Workers, InsertMetrics(w)
  PROVE  SettlingInv'
  <1> DEFINE used == {f \in Fields : rebuild[w].snap[f] # NoPin}
             taken == rebuild[w].blind /\ used # {}
             dangling == \E f \in used : PinSeen(f) # rebuild[w].snap[f].id
  <1>1. Running(w) /\ UNCHANGED <<pins, queue, lost, review, publish>>
    BY DEF InsertMetrics, Running
  <1>2. CASE lost
    BY <1>1, <1>2 DEF SettlingInv, SoleRebuild
  <1>3. CASE ~lost
    <2>1. ~rebuild[w].blind /\ \A o \in Workers \ {w} : ~Running(o)
      BY <1>1, <1>3 DEF SettlingInv, SoleRebuild
    <2>2. PICK new, i : Ended(w, new, i) /\ new.pc = "idle"
      <3>1. CASE taken \/ dangling
        <4> DEFINE failed == [IdleRebuild EXCEPT !.error =
                                IF taken THEN "Integrity" ELSE "ForeignKey"]
        <4>1. Ended(w, failed, FALSE)
          BY <3>1 DEF InsertMetrics
        <4>2. failed.pc = "idle"
          BY DEF IdleRebuild
        <4> HIDE DEF failed
        <4> QED
          BY <4>1, <4>2
      <3>2. CASE ~(taken \/ dangling)
        <4>1. Ended(w, IdleRebuild, used # {})
          BY <3>2 DEF InsertMetrics
        <4> QED
          BY <4>1 DEF IdleRebuild
      <3> QED
        BY <3>1, <3>2
    <2>3. \A o \in Workers : ~Running(o)'
      BY <2>1, <2>2, EndedLeaves DEF Running
    <2>4. Owed' <=> Owed
      BY <1>1 DEF Owed
    <2>5. ASSUME ~Owed PROVE Shown'
      <3>1. ReadAsIs(w)
        BY <1>1, <1>3, <2>5 DEF SettlingInv
      <3>2. ~taken
        BY <2>1
      <3>3. ~dangling
        BY <3>1 DEF ReadAsIs, PinSeen, PinRead
      <3>4. metrics' = rebuild[w].snap
        BY <2>1, <3>2, <3>3 DEF InsertMetrics
      <3> QED
        BY <1>1, <3>1, <3>4 DEF Shown, ReadAsIs, NoPin
    <2> QED
      BY <2>3, <2>4, <2>5 DEF SettlingInv, SoleRebuild
  <1> QED
    BY <1>2, <1>3

LEMMA RebuildSettles ==
  ASSUME IInv, SettlingInv, NEW w \in Workers, RebuildStep(w)
  PROVE  SettlingInv'
  <1>1. CASE FailRebuild(w)
    <2>1. lost'
      BY <1>1 DEF FailRebuild
    <2> QED
      BY <2>1 DEF SettlingInv, SoleRebuild
  <1> QED
    BY <1>1, ReadPinsSettles, DeleteMetricsSettles, InsertMetricsSettles
    DEF RebuildStep

LEMMA SettlingInductive ==
  /\ Init => SettlingInv
  /\ IInv /\ SettlingInv /\ [Next]_vars => SettlingInv'
  <1>1. ASSUME Init PROVE SettlingInv
    BY <1>1 DEF Init, SettlingInv, SoleRebuild, Running, Shown, IdleRebuild
  <1>2. ASSUME IInv, SettlingInv, [Next]_vars PROVE SettlingInv'
    <2>1. CASE UNCHANGED vars
      BY <1>2, <2>1
      DEF vars, SettlingInv, SoleRebuild, Running, ReadAsIs, Shown, Owed
    <2>2. CASE Next
      BY <1>2, <2>2, OthersSettle, ReviewSettles, PublicationSettles,
         RebuildSettles DEF Next
    <2> QED
      BY <1>2, <2>1, <2>2
  <1> QED
    BY <1>1, <1>2

(* When nothing is on its way, no failure lost a rebuild and the last ones *)
(* did not overlap, the metrics show the pins: for any number of sessions, *)
(* rebuilds and tasks in the broker (run_rebuild, pin_changed_task).       *)
THEOREM MetricsSettle == Spec => []SettledMetricsAreCurrent
  <1>1. SettlingInv => SettledMetricsAreCurrent
    BY DEF SettlingInv, SettledMetricsAreCurrent, Quiet, Owed, Running, Shown
  <1>2. Init => SettlingInv
    BY SettlingInductive
  <1>3. IInv /\ SettlingInv /\ [Next]_vars => SettlingInv'
    BY SettlingInductive
  <1> QED
    BY <1>1, <1>2, <1>3, PublicationInductive, PTL DEF Spec

-----------------------------------------------------------------------------
(* What one reviewer at a time achieves, whatever extractions, samples and *)
(* publications go on around the reviews.                                  *)

OneReviewer == \A r, s \in Reviewers : r = s

(* A version nobody wrote is empty, and only a review marks what the       *)
(* language model found.                                                   *)
RowsPlain ==
    \A f \in Fields, v \in Versions :
        /\ Absent(f, v) => rows[f][v] = NoRow
        /\ rows[f][v].method = "llm" =>
             rows[f][v].qa \in {"unreviewed", "sampled_ok"}

(* A request that decides a review still finds it queued, its correction   *)
(* is a later version, and it counts from the statistics as they are.      *)
Deciding(req) ==
    /\ req.pc \in {"lock", "insert", "count", "finish"} =>
         reviews[req.field][req.about].status = "queued"
    /\ (req.pc \in {"insert", "count", "finish"} /\ req.op = "correct") =>
         req.version > req.about
    /\ req.pc \in {"count", "finish"} =>
         Family[req.field] \in Seeded /\ req.stat = stats[Family[req.field]]
    /\ (req.pc = "finish" /\ req.allowed) =>
         OnTarget(Counted(req).correct, Counted(req).reviewed)

ReviewsInv ==
    /\ RowsPlain
    /\ \A r \in Reviewers : Deciding(review[r])
    /\ ReviewsMatchRows

LEMMA InitReviews == Init => ReviewsInv
  <1> SUFFICES ASSUME Init PROVE ReviewsInv
    OBVIOUS
  <1>1. RowsPlain
    BY DEF Init, RowsPlain, NoRow
  <1>2. \A r \in Reviewers : Deciding(review[r])
    BY DEF Init, Deciding, IdleReview
  <1>3. ReviewsMatchRows
    BY DEF Init, ReviewsMatchRows, NoRow, Versions
  <1> QED
    BY <1>1, <1>2, <1>3 DEF ReviewsInv

LEMMA ReviewsUndisturbed ==
  ASSUME ReviewsInv, UNCHANGED <<rows, reviews, stats, review>>
  PROVE  ReviewsInv'
  <1>1. RowsPlain'
    BY DEF ReviewsInv, RowsPlain, Absent
  <1>2. ReviewsMatchRows'
    BY DEF ReviewsInv, ReviewsMatchRows
  <1>3. ASSUME NEW r \in Reviewers PROVE Deciding(review[r])'
    <2>1. Deciding(review[r])
      BY DEF ReviewsInv
    <2> QED
      BY <2>1 DEF Deciding, Counted
  <1> QED
    BY <1>1, <1>2, <1>3 DEF ReviewsInv

(* A version that somebody other than a reviewer added.                    *)
Added(new) ==
    /\ new.corrects = 0
    /\ \/ new.method = "llm" /\ new.qa = "unreviewed"
       \/ new.method = "xbrl" /\ new.qa = "provisional"

(* Extractions and publications add versions under the reviews.            *)
LEMMA AddedRows ==
  ASSUME IInv, ReviewsInv, UNCHANGED <<reviews, stats, review>>,
         \A f \in Fields, v \in Versions :
            rows'[f][v] = rows[f][v] \/ (Absent(f, v) /\ Added(rows'[f][v]))
  PROVE  ReviewsInv'
  <1>1. \A f \in Fields, v \in Versions :
          /\ rows'[f][v].corrects = rows[f][v].corrects
          /\ reviews[f][v].status # "absent" => rows'[f][v] = rows[f][v]
          /\ rows[f][v].qa # "sampled_ok" => rows'[f][v].qa # "sampled_ok"
    <2> SUFFICES ASSUME NEW f \in Fields, NEW v \in Versions,
                        Absent(f, v), Added(rows'[f][v])
                 PROVE  /\ rows'[f][v].corrects = rows[f][v].corrects
                        /\ reviews[f][v].status = "absent"
                        /\ rows'[f][v].qa # "sampled_ok"
      OBVIOUS
    <2>1. rows[f][v].corrects = 0
      BY DEF ReviewsInv, RowsPlain, NoRow
    <2>2. reviews[f][v].status = "absent"
      BY DEF IInv, SessionsInv, CasesHold, Absent
    <2> QED
      BY <2>1, <2>2 DEF Added
  <1>2. RowsPlain'
    <2> SUFFICES ASSUME NEW f \in Fields, NEW v \in Versions
                 PROVE  /\ rows'[f][v].method = "absent" => rows'[f][v] = NoRow
                        /\ rows'[f][v].method = "llm" =>
                             rows'[f][v].qa \in {"unreviewed", "sampled_ok"}
      BY DEF RowsPlain, Absent
    <2> QED
      BY DEF ReviewsInv, RowsPlain, Absent, Added
  <1>3. ReviewsMatchRows'
    <2> SUFFICES ASSUME NEW f \in Fields, NEW v \in Versions
                 PROVE  LET case == reviews[f][v] IN
                        /\ case.status \in {"absent", "queued"} =>
                             /\ rows'[f][v].qa # "sampled_ok"
                             /\ \A n \in Versions : rows'[f][n].corrects # v
                        /\ case.status = "accepted" =>
                             /\ rows'[f][v].qa = "sampled_ok"
                             /\ \A n \in Versions : rows'[f][n].corrects # v
                        /\ case.status = "corrected" =>
                             /\ rows'[f][v].qa = "unreviewed"
                             /\ {n \in Versions : rows'[f][n].corrects = v}
                                  = {case.fix}
                             /\ case.fix > v
      BY DEF ReviewsMatchRows
    <2>1. {n \in Versions : rows'[f][n].corrects = v}
            = {n \in Versions : rows[f][n].corrects = v}
      BY <1>1
    <2> QED
      BY <1>1, <2>1 DEF ReviewsInv, ReviewsMatchRows
  <1>4. ASSUME NEW r \in Reviewers PROVE Deciding(review[r])'
    <2>1. Deciding(review[r])
      BY DEF ReviewsInv
    <2> QED
      BY <2>1 DEF Deciding, Counted
  <1> QED
    BY <1>2, <1>3, <1>4 DEF ReviewsInv

(* A sample queues reviews that were not there.                            *)
LEMMA SampledReviews ==
  ASSUME IInv, ReviewsInv, NEW sample \in SUBSET Eligible, EnqueueSample(sample)
  PROVE  ReviewsInv'
  <1>1. UNCHANGED <<rows, stats, review>>
    BY DEF EnqueueSample, sessions
  <1>2. \A f \in Fields, v \in Versions :
          \/ reviews'[f][v] = reviews[f][v]
          \/ reviews[f][v].status = "absent" /\ reviews'[f][v].status = "queued"
    <2> SUFFICES ASSUME NEW f \in Fields, NEW v \in Versions
                 PROVE  \/ reviews'[f][v] = reviews[f][v]
                        \/ /\ reviews[f][v].status = "absent"
                           /\ reviews'[f][v].status = "queued"
      OBVIOUS
    <2>1. reviews'[f][v] = IF <<f, v>> \in sample
                             THEN [status |-> "queued", fix |-> 0]
                             ELSE reviews[f][v]
      BY DEF EnqueueSample
    <2>2. <<f, v>> \in sample => reviews[f][v].status = "absent"
      BY DEF Eligible
    <2> QED
      BY <2>1, <2>2
  <1>3. RowsPlain'
    BY <1>1 DEF ReviewsInv, RowsPlain, Absent
  <1>4. ReviewsMatchRows'
    BY <1>1, <1>2 DEF ReviewsInv, ReviewsMatchRows
  <1>5. ASSUME NEW r \in Reviewers PROVE Deciding(review[r])'
    <2>1. Deciding(review[r]) /\ review[r] \in ReviewRequest
      BY DEF ReviewsInv, IInv, TypeOK
    <2>2. review[r].field \in Fields /\ review[r].about \in Versions
      BY <2>1 DEF ReviewRequest
    <2> QED
      BY <1>1, <1>2, <2>1, <2>2 DEF Deciding, Counted
  <1> QED
    BY <1>3, <1>4, <1>5 DEF ReviewsInv

LEMMA FilingReviews ==
  ASSUME IInv, ReviewsInv, FilingStep PROVE ReviewsInv'
  <1>1. ASSUME NEW a, NEW c, StoreFiling(a, c)
        PROVE  UNCHANGED <<rows, reviews, stats, review>>
    <2>1. UNCHANGED <<facts, rejected, rows, reviews, stats, pins, metrics,
                      queue, lost, sessions>>
      BY <1>1, Zenon DEF StoreFiling
    <2> QED
      BY <2>1 DEF sessions
  <1>2. CASE ParseFiling \/ \E f \in Rejectable : ReviewConceptMapping(f)
    <2>1. UNCHANGED <<rows, reviews, stats, review>>
      BY <1>2 DEF ParseFiling, ReviewConceptMapping, sessions
    <2> QED
      BY <2>1, ReviewsUndisturbed
  <1> QED
    BY <1>1, <1>2, ReviewsUndisturbed, SampledReviews DEF FilingStep

LEMMA ExtractionReviews ==
  ASSUME IInv, ReviewsInv, NEW x \in Extractors, ExtractionStep(x)
  PROVE  ReviewsInv'
  <1>1. CASE StartExtraction(x)
    BY <1>1, ReviewsUndisturbed DEF StartExtraction
  <1>2. ASSUME NEW found \in SUBSET Fields, NEW sure \in SUBSET found,
               CommitExtraction(x, found, sure)
        PROVE  ReviewsInv'
    <2>1. UNCHANGED <<reviews, stats, review>>
      BY <1>2 DEF CommitExtraction
    <2>2. ASSUME NEW f \in Fields, NEW v \in Versions
          PROVE  rows'[f][v] = rows[f][v] \/ (Absent(f, v) /\ Added(rows'[f][v]))
      <3>1. \/ rows'[f][v] = rows[f][v]
            \/ Absent(f, v) /\ rows'[f][v] = Extracted(f \in sure)
        BY <1>2 DEF CommitExtraction, IInv, TypeOK
      <3>2. Added(Extracted(f \in sure))
        BY DEF Added, Extracted, NoRow
      <3> QED
        BY <3>1, <3>2
    <2> QED
      BY <2>1, <2>2, AddedRows
  <1> QED
    BY <1>1, <1>2 DEF ExtractionStep

LEMMA PublicationReviews ==
  ASSUME IInv, ReviewsInv, NEW p \in Publishers, PublicationStep(p)
  PROVE  ReviewsInv'
  <1>1. CASE CommitPublication(p)
    <2>1. UNCHANGED <<reviews, stats, review>>
      BY <1>1 DEF CommitPublication
    <2>2. ASSUME NEW f \in Fields, NEW v \in Versions
          PROVE  rows'[f][v] = rows[f][v] \/ (Absent(f, v) /\ Added(rows'[f][v]))
      <3>1. rows'[f][v] = IF publish[p].insert[f] = v
                            THEN ProvisionalRow(publish[p].parse) ELSE rows[f][v]
        BY <1>1 DEF CommitPublication
      <3>2. publish[p].insert[f] = v => Absent(f, v)
        BY <1>1, CommittedRows
      <3>3. Added(ProvisionalRow(publish[p].parse))
        BY DEF Added, ProvisionalRow
      <3> QED
        BY <3>1, <3>2, <3>3
    <2> QED
      BY <2>1, <2>2, AddedRows
  <1>2. CASE ~CommitPublication(p)
    <2>1. UNCHANGED <<rows, reviews, stats, review>>
      BY <1>2 DEF PublicationStep, StartPublication, DropRejected, ReadFacts,
                  SkipMissing, Withhold, ReadLatest, InsertProvisional,
                  SelectPin, FlushPin, NotifyPublication, FailPublication,
                  PublishUnchanged
    <2> QED
      BY <2>1, ReviewsUndisturbed
  <1> QED
    BY <1>1, <1>2

LEMMA RebuildReviews ==
  ASSUME ReviewsInv, NEW w \in Workers, RebuildStep(w) PROVE ReviewsInv'
  <1>1. UNCHANGED <<rows, reviews, stats, review>>
    BY DEF RebuildStep, ReadPins, DeleteMetrics, InsertMetrics, FailRebuild
  <1> QED
    BY <1>1, ReviewsUndisturbed

(* A step of the reviewer that commits nothing.                            *)
LEMMA ReviewingReviews ==
  ASSUME OneReviewer, IInv, ReviewsInv, NEW r \in Reviewers,
         NEW q \in ReviewRequest, SetReview(r, q),
         UNCHANGED <<rows, reviews, stats>>, Deciding(q)
  PROVE  ReviewsInv'
  <1>1. RowsPlain'
    BY DEF ReviewsInv, RowsPlain, Absent
  <1>2. ReviewsMatchRows'
    BY DEF ReviewsInv, ReviewsMatchRows
  <1>3. ASSUME NEW o \in Reviewers PROVE Deciding(review[o])'
    <2>1. review'[o] = q
      BY DEF OneReviewer, SetReview, IInv, TypeOK
    <2> QED
      BY <2>1 DEF Deciding, Counted
  <1> QED
    BY <1>1, <1>2, <1>3 DEF ReviewsInv

LEMMA RaisedReviews ==
  ASSUME OneReviewer, IInv, ReviewsInv, NEW r \in Reviewers, NEW e \in Error,
         Raise(r, e)
  PROVE  ReviewsInv'
  <1>1. PICK q \in ReviewRequest : q = [IdleReview EXCEPT !.error = e]
    BY IdleReviewTyped DEF ReviewRequest
  <1>2. q.pc = "idle"
    BY <1>1 DEF IdleReview
  <1>3. SetReview(r, q) /\ UNCHANGED <<rows, reviews, stats>>
    BY <1>1 DEF Raise
  <1> QED
    BY <1>2, <1>3, ReviewingReviews DEF Deciding

LEMMA ReadStatReviews ==
  ASSUME OneReviewer, IInv, ReviewsInv, NEW r \in Reviewers,
         ReadStat(r, review[r]),
         (review[r].pc = "lock" /\ review[r].op = "accept") \/ review[r].pc = "insert"
  PROVE  ReviewsInv'
  <1> DEFINE req == review[r]
             m == Family[req.field]
  <1>0. req \in ReviewRequest /\ Deciding(req)
    BY DEF IInv, TypeOK, ReviewsInv
  <1>1. CASE m \in Seeded
    <2>0. stats[m] \in Stat
      BY <1>1 DEF IInv, TypeOK
    <2>1. PICK q \in ReviewRequest : q = [req EXCEPT !.pc = "count", !.stat = stats[m]]
      BY <1>0, <2>0 DEF ReviewRequest
    <2>2. /\ q.pc = "count" /\ q.stat = stats[m] /\ q.field = req.field
          /\ q.about = req.about /\ q.version = req.version /\ q.op = req.op
      BY <1>0, <2>1 DEF ReviewRequest
    <2>3. SetReview(r, q) /\ UNCHANGED <<rows, reviews, stats>>
      BY <1>1, <2>1 DEF ReadStat, ReviewUnchanged
    <2>4. Deciding(q)
      BY <1>0, <1>1, <2>2 DEF Deciding
    <2> QED
      BY <2>3, <2>4, ReviewingReviews
  <1>2. CASE m \notin Seeded
    BY <1>2, RaisedReviews DEF ReadStat, Error
  <1> QED
    BY <1>1, <1>2

LEMMA LockCorrectedReviews ==
  ASSUME OneReviewer, IInv, ReviewsInv, NEW r \in Reviewers, LockCorrected(r)
  PROVE  ReviewsInv'
  <1> DEFINE req == review[r]
  <1>0. req \in ReviewRequest /\ Deciding(req) /\ req.pc = "lock"
    BY DEF IInv, TypeOK, ReviewsInv, LockCorrected
  <1>1. PICK n \in 0..(MaxVersion - 1) :
          /\ Newest(req.field, n)
          /\ SetReview(r, [req EXCEPT !.pc = "insert", !.version = n + 1])
    BY DEF LockCorrected
  <1>2. n + 1 \in Versions
    BY PublicationAssumption DEF Versions
  <1>3. PICK q \in ReviewRequest : q = [req EXCEPT !.pc = "insert", !.version = n + 1]
    BY <1>0, <1>2 DEF ReviewRequest
  <1>4. /\ q.pc = "insert" /\ q.field = req.field /\ q.about = req.about
        /\ q.version = n + 1
    BY <1>0, <1>3 DEF ReviewRequest
  <1>5. req.field \in Fields /\ req.about \in Versions
    BY <1>0 DEF ReviewRequest
  <1>6. reviews[req.field][req.about].status = "queued"
    BY <1>0 DEF Deciding
  <1>7. rows[req.field][req.about].method = "llm"
    BY <1>5, <1>6 DEF IInv, SessionsInv, CasesHold
  <1>8. ~(req.about > n)
    BY <1>1, <1>5, <1>7 DEF Newest, Absent
  <1>9. q.version > q.about
    <2>1. n \in Nat /\ req.about \in Nat
      BY <1>5, PublicationAssumption DEF Versions
    <2> QED
      BY <1>4, <1>8, <2>1
  <1>10. Deciding(q)
    BY <1>4, <1>6, <1>9 DEF Deciding
  <1>11. SetReview(r, q) /\ UNCHANGED <<rows, reviews, stats>>
    BY <1>1, <1>3 DEF LockCorrected, ReviewUnchanged
  <1> QED
    BY <1>10, <1>11, ReviewingReviews

LEMMA CountOutcomeReviews ==
  ASSUME OneReviewer, IInv, ReviewsInv, NEW r \in Reviewers, CountOutcome(r)
  PROVE  ReviewsInv'
  <1> DEFINE req == review[r]
  <1>0. req \in ReviewRequest /\ Deciding(req) /\ req.pc = "count"
    BY DEF IInv, TypeOK, ReviewsInv, CountOutcome
  <1>1. PinRead(req.field) \in Pin /\ Publishable(req) \in BOOLEAN
    BY <1>0, PinReadTyped DEF ReviewRequest, IInv, Publishable
  <1>2. PICK q \in ReviewRequest :
          q = [req EXCEPT !.pc = "finish", !.pin = PinRead(req.field),
                          !.allowed = Publishable(req)]
    BY <1>0, <1>1 DEF ReviewRequest
  <1>3. /\ q.pc = "finish" /\ q.allowed = Publishable(req)
        /\ q.field = req.field /\ q.about = req.about
        /\ q.version = req.version /\ q.op = req.op /\ q.stat = req.stat
    BY <1>0, <1>2 DEF ReviewRequest
  <1>4. Counted(q) = Counted(req)
    BY <1>3 DEF Counted
  <1>5. q.allowed => OnTarget(Counted(q).correct, Counted(q).reviewed)
    BY <1>3, <1>4 DEF Publishable
  <1>6. Deciding(q)
    BY <1>0, <1>3, <1>5 DEF Deciding
  <1>7. SetReview(r, q) /\ UNCHANGED <<rows, reviews, stats>>
    BY <1>2 DEF CountOutcome, ReviewUnchanged
  <1> QED
    BY <1>6, <1>7, ReviewingReviews

(* What a decision writes, and what it finds there.                        *)
LEMMA DecisionMeans ==
  ASSUME IInv, ReviewsInv, NEW r \in Reviewers, review[r].pc = "finish",
         CommitReview(r)
  PROVE  LET req == review[r]
             old == reviews[req.field][req.about]
             row == rows[req.field][req.about]
         IN
         /\ req.field \in Fields /\ req.about \in Versions
         /\ req.version \in Versions /\ req.op \in {"accept", "correct"}
         /\ old.status = "queued" /\ row.method = "llm" /\ row.qa = "unreviewed"
         /\ req.op = "correct" =>
              /\ req.version > req.about
              /\ rows[req.field][req.version] = NoRow
         /\ \A f \in Fields, v \in Versions :
              /\ reviews'[f][v] = IF f = req.field /\ v = req.about
                                    THEN WrittenReview(req) ELSE reviews[f][v]
              /\ rows'[f][v] = IF f = req.field /\ v = PublishedVersion(req)
                                 THEN WrittenRow(req) ELSE rows[f][v]
         /\ req.op = "accept" => /\ WrittenReview(req).status = "accepted"
                                 /\ WrittenRow(req).method = "llm"
                                 /\ WrittenRow(req).qa = "sampled_ok"
                                 /\ WrittenRow(req).corrects = row.corrects
         /\ req.op = "correct" => /\ WrittenReview(req).status = "corrected"
                                  /\ WrittenReview(req).fix = req.version
                                  /\ WrittenRow(req).method = "human"
                                  /\ WrittenRow(req).qa = "corrected"
                                  /\ WrittenRow(req).corrects = req.about
  <1> DEFINE req == review[r]
             old == reviews[req.field][req.about]
             row == rows[req.field][req.about]
  <1>0. TypeOK /\ req \in ReviewRequest /\ Deciding(req)
    BY DEF IInv, TypeOK, ReviewsInv
  <1>1. /\ req.field \in Fields /\ req.about \in Versions
        /\ req.version \in Versions /\ req.op \in {"accept", "correct"}
        /\ PublishedVersion(req) \in Versions
    BY <1>0 DEF ReviewRequest, PublishedVersion
  <1>2. old.status = "queued" /\ (req.op = "correct" => req.version > req.about)
    BY <1>0 DEF Deciding
  <1>3. row.method = "llm"
    BY <1>1, <1>2 DEF IInv, SessionsInv, CasesHold
  <1>4. row.qa = "unreviewed"
    BY <1>1, <1>2, <1>3 DEF ReviewsInv, RowsPlain, ReviewsMatchRows
  <1>5. req.op = "correct" => rows[req.field][req.version] = NoRow
    <2>1. req.op = "correct" => Drafting(r, req.field, req.version)
      BY DEF Drafting
    <2>2. req.op = "correct" => Absent(req.field, req.version)
      BY <1>1, <2>1 DEF IInv, SessionsInv, UncommittedRows
    <2> QED
      BY <1>1, <2>2 DEF ReviewsInv, RowsPlain
  <1>6. ASSUME NEW f \in Fields, NEW v \in Versions
        PROVE  /\ reviews'[f][v] = IF f = req.field /\ v = req.about
                                     THEN WrittenReview(req) ELSE reviews[f][v]
               /\ rows'[f][v] = IF f = req.field /\ v = PublishedVersion(req)
                                  THEN WrittenRow(req) ELSE rows[f][v]
    BY <1>0, <1>1 DEF CommitReview, TypeOK
  <1>7. row \in Row /\ old \in Review
    BY <1>0, <1>1 DEF TypeOK
  <1>8. req.op = "accept" => /\ WrittenReview(req).status = "accepted"
                             /\ WrittenRow(req).method = "llm"
                             /\ WrittenRow(req).qa = "sampled_ok"
                             /\ WrittenRow(req).corrects = row.corrects
    BY <1>3, <1>7 DEF WrittenReview, WrittenRow, Row, Review
  <1>9. req.op = "correct" => /\ WrittenReview(req).status = "corrected"
                              /\ WrittenReview(req).fix = req.version
                              /\ WrittenRow(req).method = "human"
                              /\ WrittenRow(req).qa = "corrected"
                              /\ WrittenRow(req).corrects = req.about
    BY DEF WrittenReview, WrittenRow
  <1> QED
    BY <1>1, <1>2, <1>3, <1>4, <1>5, <1>6, <1>8, <1>9

LEMMA AcceptedReviews ==
  ASSUME IInv, ReviewsInv, NEW r \in Reviewers, review[r].pc = "finish",
         CommitReview(r), review[r].op = "accept"
  PROVE  RowsPlain' /\ ReviewsMatchRows'
  <1> DEFINE g == review[r].field
             a == review[r].about
  <1>1. /\ g \in Fields /\ a \in Versions
        /\ reviews[g][a].status = "queued" /\ rows[g][a].method = "llm"
        /\ \A f \in Fields, v \in Versions :
             /\ ~(f = g /\ v = a) => reviews'[f][v] = reviews[f][v]
             /\ ~(f = g /\ v = a) => rows'[f][v] = rows[f][v]
        /\ reviews'[g][a].status = "accepted"
        /\ rows'[g][a].method = "llm" /\ rows'[g][a].qa = "sampled_ok"
        /\ rows'[g][a].corrects = rows[g][a].corrects
    BY DecisionMeans DEF PublishedVersion
  <1> HIDE DEF g, a
  <1>2. RowsPlain'
    <2> SUFFICES ASSUME NEW f \in Fields, NEW v \in Versions
                 PROVE  /\ rows'[f][v].method = "absent" => rows'[f][v] = NoRow
                        /\ rows'[f][v].method = "llm" =>
                             rows'[f][v].qa \in {"unreviewed", "sampled_ok"}
      BY DEF RowsPlain, Absent
    <2> QED
      BY <1>1 DEF ReviewsInv, RowsPlain, Absent
  <1>3. \A f \in Fields, v \in Versions : rows'[f][v].corrects = rows[f][v].corrects
    BY <1>1
  <1>4. \A v \in Versions : rows[g][v].corrects # a
    BY <1>1 DEF ReviewsInv, ReviewsMatchRows
  <1>5. ReviewsMatchRows'
    <2> SUFFICES ASSUME NEW f \in Fields, NEW v \in Versions
                 PROVE  LET case == reviews'[f][v] IN
                        /\ case.status \in {"absent", "queued"} =>
                             /\ rows'[f][v].qa # "sampled_ok"
                             /\ \A n \in Versions : rows'[f][n].corrects # v
                        /\ case.status = "accepted" =>
                             /\ rows'[f][v].qa = "sampled_ok"
                             /\ \A n \in Versions : rows'[f][n].corrects # v
                        /\ case.status = "corrected" =>
                             /\ rows'[f][v].qa = "unreviewed"
                             /\ {n \in Versions : rows'[f][n].corrects = v}
                                  = {case.fix}
                             /\ case.fix > v
      BY DEF ReviewsMatchRows
    <2>1. CASE f = g /\ v = a
      BY <1>1, <1>3, <1>4, <2>1
    <2>2. CASE ~(f = g /\ v = a)
      <3>1. reviews'[f][v] = reviews[f][v] /\ rows'[f][v] = rows[f][v]
        BY <1>1, <2>2
      <3>2. {n \in Versions : rows'[f][n].corrects = v}
              = {n \in Versions : rows[f][n].corrects = v}
        BY <1>3
      <3> QED
        BY <1>3, <3>1, <3>2 DEF ReviewsInv, ReviewsMatchRows
    <2> QED
      BY <2>1, <2>2
  <1> QED
    BY <1>2, <1>5

LEMMA CorrectedReviews ==
  ASSUME IInv, ReviewsInv, NEW r \in Reviewers, review[r].pc = "finish",
         CommitReview(r), review[r].op = "correct"
  PROVE  RowsPlain' /\ ReviewsMatchRows'
  <1> DEFINE g == review[r].field
             a == review[r].about
             b == review[r].version
  <1>1. /\ g \in Fields /\ a \in Versions /\ b \in Versions /\ b > a
        /\ reviews[g][a].status = "queued"
        /\ rows[g][a].method = "llm" /\ rows[g][a].qa = "unreviewed"
        /\ rows[g][b] = NoRow
        /\ \A f \in Fields, v \in Versions :
             /\ ~(f = g /\ v = a) => reviews'[f][v] = reviews[f][v]
             /\ ~(f = g /\ v = b) => rows'[f][v] = rows[f][v]
        /\ reviews'[g][a].status = "corrected" /\ reviews'[g][a].fix = b
        /\ rows'[g][b].method = "human" /\ rows'[g][b].qa = "corrected"
        /\ rows'[g][b].corrects = a
    BY DecisionMeans DEF PublishedVersion
  <1> HIDE DEF g, a, b
  <1>2. RowsPlain'
    <2> SUFFICES ASSUME NEW f \in Fields, NEW v \in Versions
                 PROVE  /\ rows'[f][v].method = "absent" => rows'[f][v] = NoRow
                        /\ rows'[f][v].method = "llm" =>
                             rows'[f][v].qa \in {"unreviewed", "sampled_ok"}
      BY DEF RowsPlain, Absent
    <2> QED
      BY <1>1 DEF ReviewsInv, RowsPlain, Absent
  <1>3. \A v \in Versions : rows[g][v].corrects # a
    BY <1>1 DEF ReviewsInv, ReviewsMatchRows
  <1>4. rows[g][b].corrects = 0 /\ a # 0 /\ a # b
    BY <1>1 DEF NoRow, Versions
  <1>5. reviews[g][b].status = "absent"
    BY <1>1 DEF IInv, SessionsInv, CasesHold, NoRow
  <1>6. ReviewsMatchRows'
    <2> SUFFICES ASSUME NEW f \in Fields, NEW v \in Versions
                 PROVE  LET case == reviews'[f][v] IN
                        /\ case.status \in {"absent", "queued"} =>
                             /\ rows'[f][v].qa # "sampled_ok"
                             /\ \A n \in Versions : rows'[f][n].corrects # v
                        /\ case.status = "accepted" =>
                             /\ rows'[f][v].qa = "sampled_ok"
                             /\ \A n \in Versions : rows'[f][n].corrects # v
                        /\ case.status = "corrected" =>
                             /\ rows'[f][v].qa = "unreviewed"
                             /\ {n \in Versions : rows'[f][n].corrects = v}
                                  = {case.fix}
                             /\ case.fix > v
      BY DEF ReviewsMatchRows
    <2>1. CASE f = g /\ v = a
      <3>1. {n \in Versions : rows'[g][n].corrects = a} = {b}
        BY <1>1, <1>3
      <3>2. rows'[g][a].qa = "unreviewed"
        BY <1>1, <1>4
      <3> QED
        BY <1>1, <2>1, <3>1, <3>2
    <2>2. CASE ~(f = g /\ v = a)
      <3>1. reviews'[f][v] = reviews[f][v]
        BY <1>1, <2>2
      <3>2. \A n \in Versions : rows'[f][n].corrects = v <=> rows[f][n].corrects = v
        <4> SUFFICES ASSUME NEW n \in Versions
                     PROVE  rows'[f][n].corrects = v <=> rows[f][n].corrects = v
          OBVIOUS
        <4>1. v # 0
          BY DEF Versions
        <4> QED
          BY <1>1, <1>4, <2>2, <4>1
      <3>3. {n \in Versions : rows'[f][n].corrects = v}
              = {n \in Versions : rows[f][n].corrects = v}
        BY <3>2
      <3>4. \/ rows'[f][v] = rows[f][v]
            \/ reviews[f][v].status = "absent" /\ rows'[f][v].qa = "corrected"
        BY <1>1, <1>5
      <3> QED
        BY <3>1, <3>2, <3>3, <3>4 DEF ReviewsInv, ReviewsMatchRows
    <2> QED
      BY <2>1, <2>2
  <1> QED
    BY <1>2, <1>6

LEMMA CommitReviewReviews ==
  ASSUME OneReviewer, IInv, ReviewsInv, NEW r \in Reviewers,
         review[r].pc = "finish", CommitReview(r)
  PROVE  ReviewsInv'
  <1>0. review[r] \in ReviewRequest
    BY DEF IInv, TypeOK
  <1>1. PICK q \in ReviewRequest :
          q.pc \in {"idle", "notify"} /\ review' = [review EXCEPT ![r] = q]
    <2>1. CASE review[r].allowed
      <3>1. PICK q \in ReviewRequest : q = [review[r] EXCEPT !.pc = "notify"]
        BY <1>0 DEF ReviewRequest
      <3> QED
        BY <1>0, <2>1, <3>1 DEF CommitReview, SetReview, ReviewRequest
    <2>2. CASE ~review[r].allowed
      BY <2>2, IdleReviewTyped DEF CommitReview, SetReview, IdleReview
    <2> QED
      BY <2>1, <2>2
  <1>2. ASSUME NEW o \in Reviewers PROVE Deciding(review[o])'
    <2>1. review'[o] = q
      BY <1>1 DEF OneReviewer, IInv, TypeOK
    <2> QED
      BY <1>1, <2>1 DEF Deciding
  <1>3. review[r].op \in {"accept", "correct"}
    BY <1>0 DEF ReviewRequest
  <1> QED
    BY <1>2, <1>3, AcceptedReviews, CorrectedReviews DEF ReviewsInv

LEMMA ReviewReviews ==
  ASSUME OneReviewer, IInv, ReviewsInv, NEW r \in Reviewers, ReviewStep(r)
  PROVE  ReviewsInv'
  <1>1. ASSUME NEW f \in Fields, NEW v \in Versions,
               NEW op \in {"accept", "correct"}, StartReview(r, f, v, op)
        PROVE  ReviewsInv'
    <2>1. PICK q \in ReviewRequest :
            q = [IdleReview EXCEPT !.pc = "lock", !.op = op, !.field = f, !.about = v]
      BY IdleReviewTyped DEF ReviewRequest
    <2>2. q.pc = "lock" /\ q.field = f /\ q.about = v
      BY <2>1, IdleReviewTyped DEF ReviewRequest
    <2>3. Deciding(q)
      BY <1>1, <2>2 DEF StartReview, Deciding
    <2>4. SetReview(r, q) /\ UNCHANGED <<rows, reviews, stats>>
      BY <1>1, <2>1 DEF StartReview, ReviewUnchanged
    <2> QED
      BY <2>3, <2>4, ReviewingReviews
  <1>2. CASE LockAccepted(r)
    BY <1>2, ReadStatReviews DEF LockAccepted
  <1>3. CASE InsertCorrection(r)
    <2>1. review[r].pc = "insert"
          /\ (ReadStat(r, review[r]) \/ Raise(r, "Integrity"))
      BY <1>3 DEF InsertCorrection
    <2> QED
      BY <2>1, ReadStatReviews, RaisedReviews DEF Error
  <1>4. CASE FinishReview(r)
    <2>1. review[r].pc = "finish" /\ (CommitReview(r) \/ Raise(r, "Integrity"))
      BY <1>4 DEF FinishReview
    <2> QED
      BY <2>1, CommitReviewReviews, RaisedReviews DEF Error
  <1>5. CASE NotifyReview(r) \/ FailReview(r)
    <2>1. SetReview(r, IdleReview) /\ UNCHANGED <<rows, reviews, stats>>
      BY <1>5 DEF NotifyReview, FailReview
    <2>2. IdleReview \in ReviewRequest /\ Deciding(IdleReview)
      BY IdleReviewTyped DEF Deciding, IdleReview
    <2> QED
      BY <2>1, <2>2, ReviewingReviews
  <1> QED
    BY <1>1, <1>2, <1>3, <1>4, <1>5, LockCorrectedReviews, CountOutcomeReviews
    DEF ReviewStep

LEMMA ReviewsInductive ==
  ASSUME OneReviewer
  PROVE  /\ Init => ReviewsInv
         /\ IInv /\ ReviewsInv /\ [Next]_vars => ReviewsInv'
  <1>1. ASSUME IInv, ReviewsInv, [Next]_vars PROVE ReviewsInv'
    <2>1. CASE UNCHANGED vars
      BY <1>1, <2>1, ReviewsUndisturbed DEF vars
    <2>2. CASE Next
      BY <1>1, <2>2, FilingReviews, ExtractionReviews, ReviewReviews,
         PublicationReviews, RebuildReviews DEF Next
    <2> QED
      BY <1>1, <2>1, <2>2
  <1> QED
    BY <1>1, InitReviews

(* With one reviewer at a time, a review, its extracted value and the      *)
(* corrected version tell one story, whatever extractions, samples and     *)
(* publications overlap with the review (complete_review).                 *)
THEOREM ReviewsTellOneStory ==
  ASSUME OneReviewer
  PROVE  Spec => []ReviewsMatchRows
  <1>1. Init => ReviewsInv
    BY ReviewsInductive
  <1>2. IInv /\ ReviewsInv /\ [Next]_vars => ReviewsInv'
    BY ReviewsInductive
  <1>3. ReviewsInv => ReviewsMatchRows
    BY DEF ReviewsInv
  <1> QED
    BY <1>1, <1>2, <1>3, PublicationInductive, PTL DEF Spec

(* Rounded is the nearest whole number of millionths.                      *)
LEMMA DivisionMeans ==
  ASSUME NEW x \in Int, NEW d \in Nat \ {0}
  PROVE  /\ x \div d \in Int
         /\ d * (x \div d) <= x
         /\ x < d * ((x \div d) + 1)
  OBVIOUS

LEMMA TimesGrows ==
  ASSUME NEW d \in Nat, NEW i \in Int, NEW j \in Int, i <= j
  PROVE  d * i <= d * j
  <1>1. PICK k \in Nat : j = i + k
    <2>1. j - i \in Nat /\ j = i + (j - i)
      OBVIOUS
    <2> QED
      BY <2>1
  <1>2. d * j = d * i + d * k
    BY <1>1
  <1>3. d * k \in Nat /\ d * i \in Int
    OBVIOUS
  <1> QED
    BY <1>2, <1>3

LEMMA RoundedExact ==
  ASSUME NEW c \in Int, NEW n \in Nat \ {0}, NEW a \in Int,
         Millionths * c = a * n
  PROVE  Rounded(c, n) = a
  <1> DEFINE x == 2 * Millionths * c + n
             d == 2 * n
             q == x \div d
  <1>1. x \in Int /\ d \in Nat \ {0} /\ n < d
    BY DEF Millionths
  <1>2. x = d * a + n /\ d * (a + 1) = d * a + d /\ d * a \in Int
    <2>1. 2 * Millionths * c = 2 * (Millionths * c)
      BY DEF Millionths
    <2>2. 2 * (a * n) = (2 * n) * a
      OBVIOUS
    <2>3. d * (a + 1) = d * a + d
      OBVIOUS
    <2> QED
      BY <2>1, <2>2, <2>3
  <1> HIDE DEF x, d
  <1>3. q \in Int /\ d * q <= x /\ x < d * (q + 1)
    BY <1>1, DivisionMeans
  <1> HIDE DEF q
  <1>4. q <= a
    <2> SUFFICES ASSUME ~(q <= a) PROVE FALSE
      OBVIOUS
    <2>1. a + 1 <= q /\ a + 1 \in Int
      BY <1>3
    <2>2. d * (a + 1) <= d * q
      BY <1>1, <1>3, <2>1, TimesGrows
    <2>3. d * q \in Int
      BY <1>1, <1>3
    <2> QED
      BY <1>1, <1>2, <1>3, <2>2, <2>3
  <1>5. a <= q
    <2> SUFFICES ASSUME ~(a <= q) PROVE FALSE
      OBVIOUS
    <2>1. q + 1 <= a /\ q + 1 \in Int
      BY <1>3
    <2>2. d * (q + 1) <= d * a
      BY <1>1, <2>1, TimesGrows
    <2>3. d * (q + 1) \in Int
      BY <1>1, <2>1
    <2> QED
      BY <1>1, <1>2, <1>3, <2>2, <2>3
  <1>6. q = a
    BY <1>3, <1>4, <1>5
  <1> QED
    BY <1>6 DEF Rounded, q, x, d

(* A family on target is on target after rounding: the target is a whole   *)
(* percentage.                                                             *)
LEMMA RoundedOnTarget ==
  ASSUME NEW c \in Int, NEW n \in Nat \ {0}, OnTarget(c, n)
  PROVE  100 * Rounded(c, n) >= Target * Millionths
  <1> DEFINE x == 2 * Millionths * c + n
             d == 2 * n
             q == x \div d
             k == 10000 * Target
  <1>0. Target \in Nat
    BY PublicationAssumption
  <1>1. x \in Int /\ d \in Nat \ {0} /\ k \in Int
    BY <1>0 DEF Millionths
  <1>2. d * k \in Int /\ d * k <= x
    <2>1. 100 * c >= Target * n /\ Target * n \in Int
      BY <1>0 DEF OnTarget
    <2>2. d * k = 20000 * (Target * n)
      BY <1>0
    <2>3. x = 20000 * (100 * c) + n
      BY DEF Millionths
    <2> QED
      BY <1>1, <2>1, <2>2, <2>3
  <1> HIDE DEF x, d
  <1>3. q \in Int /\ d * q <= x /\ x < d * (q + 1)
    BY <1>1, DivisionMeans
  <1> HIDE DEF q, k
  <1>4. k <= q
    <2> SUFFICES ASSUME ~(k <= q) PROVE FALSE
      OBVIOUS
    <2>1. q + 1 <= k /\ q + 1 \in Int
      BY <1>1, <1>3
    <2>2. d * (q + 1) <= d * k
      BY <1>1, <2>1, TimesGrows
    <2>3. d * (q + 1) \in Int
      BY <1>1, <2>1
    <2> QED
      BY <1>1, <1>2, <1>3, <2>2, <2>3
  <1>5. 100 * q >= 100 * k
    BY <1>1, <1>3, <1>4
  <1>6. 100 * k = Target * Millionths
    BY <1>0 DEF k, Millionths
  <1> QED
    BY <1>5, <1>6 DEF Rounded, q, x, d

(* The statistics of a family, and the finite sets they count.             *)
Tallied(m) ==
    /\ IsFiniteSet(Cases(m, {"accepted", "corrected"}))
    /\ IsFiniteSet(Cases(m, {"accepted"}))
    /\ stats[m].reviewed =
         Reviewed + Cardinality(Cases(m, {"accepted", "corrected"}))
    /\ stats[m].correct = Reviewed + Cardinality(Cases(m, {"accepted"}))
    /\ stats[m].reviewed # 0 =>
         stats[m].accuracy = Rounded(stats[m].correct, stats[m].reviewed)
    /\ stats[m].reviewed = 0 => stats[m].accuracy = 0

StatsInv == \A m \in Seeded : Tallied(m)

LEMMA InitStats == Init => StatsInv
  <1> SUFFICES ASSUME Init, NEW m \in Seeded PROVE Tallied(m)
    BY DEF StatsInv
  <1>1. Reviewed \in Nat
    BY PublicationAssumption
  <1>2. \A f \in Fields, v \in Versions : reviews[f][v].status = "absent"
    BY DEF Init
  <1>3. Cases(m, {"accepted", "corrected"}) = {} /\ Cases(m, {"accepted"}) = {}
    BY <1>2 DEF Cases
  <1>4. IsFiniteSet({}) /\ Cardinality({}) = 0
    BY FS_EmptySet
  <1>5. stats[m] = [reviewed |-> Reviewed, correct |-> Reviewed,
                    accuracy |-> IF Reviewed = 0 THEN 0 ELSE Millionths]
    BY DEF Init
  <1>6. Reviewed # 0 => Rounded(Reviewed, Reviewed) = Millionths
    <2>1. Millionths \in Int
      BY DEF Millionths
    <2> QED
      BY <1>1, <2>1, RoundedExact
  <1>7. /\ stats[m].reviewed = Reviewed /\ stats[m].correct = Reviewed
        /\ Reviewed # 0 => stats[m].accuracy = Millionths
        /\ Reviewed = 0 => stats[m].accuracy = 0
    BY <1>5
  <1>8. /\ IsFiniteSet(Cases(m, {"accepted", "corrected"}))
        /\ IsFiniteSet(Cases(m, {"accepted"}))
        /\ Cardinality(Cases(m, {"accepted", "corrected"})) = 0
        /\ Cardinality(Cases(m, {"accepted"})) = 0
    BY <1>3, <1>4
  <1>9. Reviewed + 0 = Reviewed
    BY <1>1
  <1> QED
    BY <1>6, <1>7, <1>8, <1>9 DEF Tallied

(* Steps that decide nothing.                                              *)
LEMMA StatsUndisturbed ==
  ASSUME StatsInv, UNCHANGED stats,
         \A f \in Fields, v \in Versions :
            \/ reviews'[f][v].status = reviews[f][v].status
            \/ /\ reviews[f][v].status = "absent"
               /\ reviews'[f][v].status = "queued"
  PROVE  StatsInv'
  <1> SUFFICES ASSUME NEW m \in Seeded PROVE Tallied(m)'
    BY DEF StatsInv
  <1>1. /\ Cases(m, {"accepted", "corrected"})' = Cases(m, {"accepted", "corrected"})
        /\ Cases(m, {"accepted"})' = Cases(m, {"accepted"})
    <2> SUFFICES ASSUME NEW status \in {{"accepted", "corrected"}, {"accepted"}}
                 PROVE  Cases(m, status)' = Cases(m, status)
      BY Zenon
    <2>1. \A f \in Fields, v \in Versions :
            reviews'[f][v].status \in status <=> reviews[f][v].status \in status
      OBVIOUS
    <2>2. \A c \in Fields \X Versions : c[1] \in Fields /\ c[2] \in Versions
      OBVIOUS
    <2> QED
      BY <2>1, <2>2 DEF Cases
  <1>2. Tallied(m)
    BY DEF StatsInv
  <1> QED
    BY <1>1, <1>2 DEF Tallied

(* A decision adds one case to those of its family.                        *)
LEMMA DecidedCases ==
  ASSUME IInv, ReviewsInv, NEW r \in Reviewers, review[r].pc = "finish",
         CommitReview(r), NEW m \in Seeded
  PROVE  LET req == review[r]
             one == <<req.field, req.about>>
             decided == Cases(m, {"accepted", "corrected"})
             accepted == Cases(m, {"accepted"})
         IN
         /\ one \notin decided /\ one \notin accepted
         /\ Cases(m, {"accepted", "corrected"})' =
              IF m = Family[req.field] THEN decided \cup {one} ELSE decided
         /\ Cases(m, {"accepted"})' =
              IF m = Family[req.field] /\ req.op = "accept"
                THEN accepted \cup {one} ELSE accepted
  <1> DEFINE g == review[r].field
             a == review[r].about
             op == review[r].op
             one == <<g, a>>
  <1>1. /\ g \in Fields /\ a \in Versions /\ op \in {"accept", "correct"}
        /\ reviews[g][a].status = "queued"
        /\ \A f \in Fields, v \in Versions :
             ~(f = g /\ v = a) => reviews'[f][v] = reviews[f][v]
        /\ op = "accept" => reviews'[g][a].status = "accepted"
        /\ op = "correct" => reviews'[g][a].status = "corrected"
    BY DecisionMeans
  <1> HIDE DEF g, a, op
  <1>2. \A c \in Fields \X Versions :
          /\ c[1] \in Fields /\ c[2] \in Versions
          /\ (c[1] = g /\ c[2] = a) <=> c = one
    OBVIOUS
  <1>3. one \in Fields \X Versions /\ one[1] = g /\ one[2] = a
    BY <1>1
  <1> HIDE DEF one
  <1>4. ASSUME NEW status \in {{"accepted", "corrected"}, {"accepted"}}
        PROVE  one \notin Cases(m, status)
    BY <1>1, <1>3 DEF Cases
  <1>5. Cases(m, {"accepted", "corrected"})' =
          IF m = Family[g] THEN Cases(m, {"accepted", "corrected"}) \cup {one}
                           ELSE Cases(m, {"accepted", "corrected"})
    <2>1. ASSUME NEW c \in Fields \X Versions
          PROVE  reviews'[c[1]][c[2]].status \in {"accepted", "corrected"} <=>
                   \/ c = one
                   \/ reviews[c[1]][c[2]].status \in {"accepted", "corrected"}
      BY <1>1, <1>2, <2>1
    <2> QED
      BY <1>3, <2>1 DEF Cases
  <1>6. Cases(m, {"accepted"})' =
          IF m = Family[g] /\ op = "accept"
            THEN Cases(m, {"accepted"}) \cup {one} ELSE Cases(m, {"accepted"})
    <2>1. ASSUME NEW c \in Fields \X Versions
          PROVE  reviews'[c[1]][c[2]].status \in {"accepted"} <=>
                   \/ c = one /\ op = "accept"
                   \/ reviews[c[1]][c[2]].status \in {"accepted"}
      BY <1>1, <1>2, <2>1
    <2> QED
      BY <1>3, <2>1 DEF Cases
  <1> QED
    BY <1>4, <1>5, <1>6 DEF g, a, op, one

(* What a decision leaves of its family's statistics.                      *)
LEMMA DecisionStat ==
  ASSUME IInv, ReviewsInv, StatsInv, NEW r \in Reviewers,
         review[r].pc = "finish", CommitReview(r)
  PROVE  LET m == Family[review[r].field]
             new == stats'[m]
         IN
         /\ m \in Seeded
         /\ stats[m] \in Stat
         /\ new.reviewed = stats[m].reviewed + 1
         /\ new.correct = stats[m].correct
                            + (IF review[r].op = "accept" THEN 1 ELSE 0)
         /\ new.accuracy = Rounded(new.correct, new.reviewed)
         /\ new.reviewed = Counted(review[r]).reviewed
         /\ new.correct = Counted(review[r]).correct
         /\ \A n \in Seeded \ {m} : stats'[n] = stats[n]
  <1> DEFINE req == review[r]
             m == Family[req.field]
             c == Counted(req)
  <1>0. req \in ReviewRequest /\ Deciding(req)
    BY DEF IInv, TypeOK, ReviewsInv
  <1>1. m \in Seeded /\ req.stat = stats[m] /\ req.op \in {"accept", "correct"}
    BY <1>0 DEF Deciding, ReviewRequest
  <1>2. stats[m] \in Stat
    BY <1>1 DEF IInv, TypeOK
  <1>3. /\ stats[m].reviewed \in Nat /\ stats[m].correct \in Nat
        /\ stats[m].accuracy \in Int
    BY <1>2 DEF Stat
  <1>4. /\ c.reviewed = stats[m].reviewed + 1
        /\ c.correct = stats[m].correct + (IF req.op = "accept" THEN 1 ELSE 0)
    BY <1>1 DEF Counted
  <1>5. stats'[m] = WrittenStat(req)
        /\ \A n \in Seeded \ {m} : stats'[n] = stats[n]
    BY <1>1 DEF CommitReview, IInv, TypeOK
  <1>6. /\ WrittenStat(req).reviewed = c.reviewed
        /\ WrittenStat(req).correct = c.correct
    BY <1>1, <1>3, <1>4 DEF WrittenStat
  <1>7. WrittenStat(req).accuracy = Rounded(c.correct, c.reviewed)
    <2>1. CASE Millionths * c.correct # stats[m].accuracy * c.reviewed
      BY <1>1, <2>1 DEF WrittenStat
    <2>2. CASE Millionths * c.correct = stats[m].accuracy * c.reviewed
      <3>1. WrittenStat(req).accuracy = stats[m].accuracy
        BY <1>1, <2>2 DEF WrittenStat
      <3>2. c.correct \in Int /\ c.reviewed \in Nat \ {0}
        BY <1>1, <1>3, <1>4
      <3> HIDE DEF c
      <3>3. Rounded(c.correct, c.reviewed) = stats[m].accuracy
        BY <1>3, <2>2, <3>2, RoundedExact
      <3> QED
        BY <3>1, <3>3
    <2> QED
      BY <2>1, <2>2
  <1> QED
    BY <1>1, <1>2, <1>4, <1>5, <1>6, <1>7

LEMMA CommitReviewStats ==
  ASSUME IInv, ReviewsInv, StatsInv, NEW r \in Reviewers,
         review[r].pc = "finish", CommitReview(r)
  PROVE  StatsInv'
  <1> SUFFICES ASSUME NEW n \in Seeded PROVE Tallied(n)'
    BY DEF StatsInv
  <1> DEFINE m == Family[review[r].field]
             one == <<review[r].field, review[r].about>>
             both == Cases(n, {"accepted", "corrected"})
             good == Cases(n, {"accepted"})
  <1>0. Tallied(n) /\ Reviewed \in Nat
    BY PublicationAssumption DEF StatsInv
  <1>1. /\ Cardinality(both) \in Nat /\ Cardinality(good) \in Nat
        /\ IsFiniteSet(both \cup {one}) /\ IsFiniteSet(good \cup {one})
        /\ one \notin both => Cardinality(both \cup {one}) = Cardinality(both) + 1
        /\ one \notin good => Cardinality(good \cup {one}) = Cardinality(good) + 1
    BY <1>0, FS_AddElement, FS_CardinalityType DEF Tallied
  <1>2. one \notin both /\ one \notin good
    BY DecidedCases
  <1>3. both' = IF n = m THEN both \cup {one} ELSE both
    BY DecidedCases
  <1>4. good' = IF n = m /\ review[r].op = "accept" THEN good \cup {one} ELSE good
    BY DecidedCases
  <1>5. CASE n # m
    <2>1. stats'[n] = stats[n]
      BY <1>5, DecisionStat
    <2>2. both' = both /\ good' = good
      BY <1>3, <1>4, <1>5
    <2> QED
      BY <1>0, <2>1, <2>2 DEF Tallied
  <1>6. CASE n = m
    <2>1. /\ stats[n] \in Stat
          /\ stats'[n].reviewed = stats[n].reviewed + 1
          /\ stats'[n].correct = stats[n].correct
                                   + (IF review[r].op = "accept" THEN 1 ELSE 0)
          /\ stats'[n].accuracy = Rounded(stats'[n].correct, stats'[n].reviewed)
      BY <1>6, DecisionStat
    <2>2. /\ stats[n].reviewed = Reviewed + Cardinality(both)
          /\ stats[n].correct = Reviewed + Cardinality(good)
          /\ IsFiniteSet(both) /\ IsFiniteSet(good)
      BY <1>0 DEF Tallied
    <2>3. both' = both \cup {one}
      BY <1>3, <1>6
    <2>4. good' = IF review[r].op = "accept" THEN good \cup {one} ELSE good
      BY <1>4, <1>6
    <2> HIDE DEF both, good, one
    <2>5. /\ IsFiniteSet(both') /\ IsFiniteSet(good')
          /\ Cardinality(both') = Cardinality(both) + 1
          /\ Cardinality(good') = Cardinality(good)
                                    + (IF review[r].op = "accept" THEN 1 ELSE 0)
      BY <1>1, <1>2, <2>2, <2>3, <2>4
    <2>6. /\ stats'[n].reviewed = Reviewed + Cardinality(both')
          /\ stats'[n].correct = Reviewed + Cardinality(good')
      BY <1>0, <1>1, <2>1, <2>2, <2>5
    <2>7. stats'[n].reviewed # 0
      BY <2>1 DEF Stat
    <2> QED
      BY <2>1, <2>5, <2>6, <2>7 DEF Tallied, both, good
  <1> QED
    BY <1>5, <1>6

LEMMA StatsInductive ==
  ASSUME OneReviewer
  PROVE  /\ Init => StatsInv
         /\ IInv /\ ReviewsInv /\ StatsInv /\ [Next]_vars => StatsInv'
  <1>1. ASSUME IInv, ReviewsInv, StatsInv, [Next]_vars PROVE StatsInv'
    <2>1. CASE UNCHANGED <<stats, reviews>>
      BY <1>1, <2>1, StatsUndisturbed
    <2>2. CASE FilingStep
      <3>1. ASSUME NEW a, NEW c, StoreFiling(a, c)
            PROVE  UNCHANGED <<stats, reviews>>
        <4>1. UNCHANGED <<facts, rejected, rows, reviews, stats, pins, metrics,
                          queue, lost, sessions>>
          BY <3>1, Zenon DEF StoreFiling
        <4> QED
          BY <4>1
      <3>2. CASE ParseFiling \/ \E f \in Rejectable : ReviewConceptMapping(f)
        BY <2>1, <3>2 DEF ParseFiling, ReviewConceptMapping
      <3>3. ASSUME NEW sample \in SUBSET Eligible, EnqueueSample(sample)
            PROVE  StatsInv'
        <4>1. stats' = stats
          BY <3>3 DEF EnqueueSample
        <4>2. ASSUME NEW f \in Fields, NEW v \in Versions
              PROVE  \/ reviews'[f][v].status = reviews[f][v].status
                     \/ /\ reviews[f][v].status = "absent"
                        /\ reviews'[f][v].status = "queued"
          <5>1. reviews'[f][v] = IF <<f, v>> \in sample
                                   THEN [status |-> "queued", fix |-> 0]
                                   ELSE reviews[f][v]
            BY <3>3 DEF EnqueueSample
          <5>2. <<f, v>> \in sample => reviews[f][v].status = "absent"
            BY <3>3 DEF Eligible
          <5> QED
            BY <5>1, <5>2
        <4> QED
          BY <1>1, <4>1, <4>2, StatsUndisturbed
      <3> QED
        BY <2>1, <2>2, <3>1, <3>2, <3>3 DEF FilingStep
    <2>3. ASSUME NEW x \in Extractors, ExtractionStep(x) PROVE StatsInv'
      BY <2>1, <2>3 DEF ExtractionStep, StartExtraction, CommitExtraction
    <2>4. ASSUME NEW r \in Reviewers, ReviewStep(r) PROVE StatsInv'
      <3>1. CASE review[r].pc = "finish" /\ CommitReview(r)
        BY <1>1, <3>1, CommitReviewStats
      <3>2. CASE ~(review[r].pc = "finish" /\ CommitReview(r))
        <4>1. UNCHANGED <<stats, reviews>>
          BY <2>4, <3>2
          DEF ReviewStep, StartReview, LockAccepted, LockCorrected,
              InsertCorrection, CountOutcome, FinishReview, NotifyReview,
              FailReview, ReadStat, Raise, ReviewUnchanged
        <4> QED
          BY <2>1, <4>1
      <3> QED
        BY <3>1, <3>2
    <2>5. ASSUME NEW p \in Publishers, PublicationStep(p) PROVE StatsInv'
      BY <2>1, <2>5
      DEF PublicationStep, StartPublication, DropRejected, ReadFacts,
          SkipMissing, Withhold, ReadLatest, InsertProvisional, SelectPin, FlushPin,
          CommitPublication, NotifyPublication, FailPublication,
          PublishUnchanged
    <2>6. ASSUME NEW w \in Workers, RebuildStep(w) PROVE StatsInv'
      BY <2>1, <2>6
      DEF RebuildStep, ReadPins, DeleteMetrics, InsertMetrics, FailRebuild
    <2>7. CASE UNCHANGED vars
      BY <2>1, <2>7 DEF vars
    <2> QED
      BY <1>1, <2>2, <2>3, <2>4, <2>5, <2>6, <2>7 DEF Next
  <1> QED
    BY <1>1, InitStats

LEMMA ReviewedAlways ==
  ASSUME OneReviewer PROVE Spec => [](IInv /\ ReviewsInv /\ StatsInv)
  <1>1. Init => ReviewsInv
    BY ReviewsInductive
  <1>2. IInv /\ ReviewsInv /\ [Next]_vars => ReviewsInv'
    BY ReviewsInductive
  <1>3. Init => StatsInv
    BY StatsInductive
  <1>4. IInv /\ ReviewsInv /\ StatsInv /\ [Next]_vars => StatsInv'
    BY StatsInductive
  <1> QED
    BY <1>1, <1>2, <1>3, <1>4, PublicationInductive, PTL DEF Spec

(* With one reviewer at a time, a family's statistics count every decided  *)
(* review of the family once and its accuracy is their ratio, rounded, for *)
(* any fields, families and number of reviews (_record_outcome).           *)
THEOREM DecisionsCounted ==
  ASSUME OneReviewer
  PROVE  Spec => []StatsCountDecisions
  <1>1. StatsInv => StatsCountDecisions
    BY DEF StatsInv, Tallied, StatsCountDecisions
  <1> QED
    BY <1>1, ReviewedAlways, PTL

(* Of all steps, only a decision makes anything public but an NSE fact.    *)
LEMMA OnlyDecisionsPublish ==
  ASSUME IInv, [Next]_vars, NEW f \in Fields,
         ~(\E r \in Reviewers :
             review[r].pc = "finish" /\ review[r].allowed /\ CommitReview(r))
  PROVE  LET v == pins'[f].version IN
         v = 0 \/ v = pins[f].version \/ rows'[f][v].method = "xbrl"
  <1> DEFINE Fits == LET v == pins'[f].version IN
                     v = 0 \/ v = pins[f].version \/ rows'[f][v].method = "xbrl"
  <1>1. CASE pins' = pins
    BY <1>1
  <1>2. CASE FilingStep \/ \E x \in Extractors : ExtractionStep(x)
    <2>1. ASSUME NEW a, NEW c, StoreFiling(a, c) PROVE pins' = pins
      <3>1. UNCHANGED <<facts, rejected, rows, reviews, stats, pins, metrics,
                        queue, lost, sessions>>
        BY <2>1, Zenon DEF StoreFiling
      <3> QED
        BY <3>1
    <2>2. CASE \E sample \in SUBSET Eligible : EnqueueSample(sample)
      BY <1>1, <2>2 DEF EnqueueSample
    <2>3. CASE ParseFiling \/ \E g \in Rejectable : ReviewConceptMapping(g)
      BY <1>1, <2>3 DEF ParseFiling, ReviewConceptMapping
    <2>4. CASE \E x \in Extractors : ExtractionStep(x)
      BY <1>1, <2>4 DEF ExtractionStep, StartExtraction, CommitExtraction
    <2> QED
      BY <1>1, <1>2, <2>1, <2>2, <2>3, <2>4 DEF FilingStep
  <1>3. ASSUME NEW r \in Reviewers, ReviewStep(r) PROVE Fits
    <2>1. pins' = pins
      BY <1>3 DEF ReviewStep, StartReview, LockAccepted, LockCorrected,
             InsertCorrection, CountOutcome, FinishReview, NotifyReview,
             FailReview, ReadStat, Raise, ReviewUnchanged, CommitReview, Repoints
    <2> QED
      BY <1>1, <2>1
  <1>4. ASSUME NEW p \in Publishers, PublicationStep(p) PROVE Fits
    <2>1. CASE CommitPublication(p)
      BY <2>1, CommittedPins
    <2>2. CASE DropRejected(p)
      <3>1. pins' = pins \/ pins'[f] = pins[f] \/ pins'[f] = Unpinned(f)
        BY <2>2 DEF DropRejected
      <3> QED
        BY <1>1, <3>1 DEF Unpinned
    <2>3. CASE ~CommitPublication(p) /\ ~DropRejected(p)
      BY <1>1, <1>4, <2>3
      DEF PublicationStep, StartPublication, ReadFacts, SkipMissing, Withhold,
          ReadLatest, InsertProvisional, SelectPin, FlushPin, NotifyPublication,
          FailPublication, PublishUnchanged
    <2> QED
      BY <2>1, <2>2, <2>3
  <1>5. ASSUME NEW w \in Workers, RebuildStep(w) PROVE Fits
    BY <1>1, <1>5
    DEF RebuildStep, ReadPins, DeleteMetrics, InsertMetrics, FailRebuild
  <1>6. CASE UNCHANGED vars
    BY <1>1, <1>6 DEF vars
  <1> QED
    BY <1>2, <1>3, <1>4, <1>5, <1>6 DEF Next

(* With one reviewer at a time, a value that a review makes public is of a *)
(* family whose recorded accuracy, with this review and after rounding, is *)
(* on target (update_pin_if_publishable, evaluate_publishability).         *)
THEOREM ReviewsPublishOnTarget ==
  ASSUME OneReviewer
  PROVE  Spec => ReviewPublishesOnTarget
  <1>1. ASSUME IInv, ReviewsInv, StatsInv, [Next]_vars, NEW f \in Fields,
               pins'[f].version # 0, pins'[f].version # pins[f].version,
               rows'[f][pins'[f].version].method # "xbrl"
        PROVE  100 * stats'[Family[f]].accuracy >= Target * Millionths
    <2>1. PICK r \in Reviewers :
            review[r].pc = "finish" /\ review[r].allowed /\ CommitReview(r)
      BY <1>1, OnlyDecisionsPublish
    <2> DEFINE req == review[r]
               c == Counted(req)
    <2>2. req \in ReviewRequest /\ Deciding(req)
      BY <1>1 DEF IInv, TypeOK, ReviewsInv
    <2>3. f = req.field
      <3>1. \/ pins' = pins
            \/ pins' = [pins EXCEPT ![req.field] =
                          PointedTo(req.field, PublishedVersion(req))]
        BY <2>1 DEF CommitReview
      <3>2. f # req.field => pins'[f] = pins[f]
        BY <1>1, <3>1 DEF IInv, TypeOK
      <3> QED
        BY <1>1, <3>2
    <2>4. OnTarget(c.correct, c.reviewed)
      BY <2>1, <2>2 DEF Deciding
    <2>5. /\ stats[Family[f]] \in Stat
          /\ stats'[Family[f]].accuracy = Rounded(c.correct, c.reviewed)
          /\ c.reviewed = stats[Family[f]].reviewed + 1
          /\ c.correct = stats[Family[f]].correct
                           + (IF req.op = "accept" THEN 1 ELSE 0)
      BY <1>1, <2>1, <2>3, DecisionStat
    <2> HIDE DEF c
    <2>6. c.correct \in Int /\ c.reviewed \in Nat \ {0}
      BY <2>5 DEF Stat
    <2>7. 100 * Rounded(c.correct, c.reviewed) >= Target * Millionths
      BY <2>4, <2>6, RoundedOnTarget
    <2> QED
      BY <2>5, <2>7
  <1>2. (IInv /\ ReviewsInv /\ StatsInv) /\ [Next]_vars =>
          [\A f \in Fields :
             LET v == pins'[f].version
                 stat == stats'[Family[f]]
             IN
             (v # 0 /\ v # pins[f].version /\ rows'[f][v].method # "xbrl") =>
                 100 * stat.accuracy >= Target * Millionths]_vars
    BY <1>1
  <1> QED
    BY <1>2, ReviewedAlways, PTL DEF Spec, ReviewPublishesOnTarget
=============================================================================
