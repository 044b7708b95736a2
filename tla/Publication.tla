---------------------------- MODULE Publication ----------------------------
(***************************************************************************)
(* From an extracted value to a public number, for one filing: extraction, *)
(* sampling and review (worker/extract/run.py, api/app/services/quality.py *)
(* and publication_policy.py), the provisional publication of NSE facts    *)
(* (worker/acquire/mappings.py), and the rebuild of the metrics the public *)
(* pages read (worker/score/materialize.py and tasks.py).                  *)
(*                                                                         *)
(* Extracted values are versioned and append-only; a pin names the version *)
(* of a field that is public; the metrics are rebuilt from the pins.       *)
(*                                                                         *)
(* A request or task is one database session under READ COMMITTED: it sees *)
(* what is committed when a statement starts, what it wrote is visible to  *)
(* the others from its commit on, and a row it wrote is locked until it    *)
(* ends.  An exception, or a crash, between two steps rolls it back.       *)
(***************************************************************************)
EXTENDS Integers, FiniteSets

CONSTANTS
    Fields,        \* field keys
    Mapped,        \* the field keys an NSE concept is mapped to
    Families,      \* field families, the unit of the accuracy statistics
    Family,        \* field_family
    Seeded,        \* families that have a quality_stats row
    Reviewed,      \* reviews such a row counts at the start, all correct
    Target,        \* publish_family_accuracy_target, in percent
    Reviewers,     \* requests that decide reviews
    Publishers,    \* runs of publish_provisional_mappings
    Workers,       \* runs of rebuild_metrics
    Extractors,    \* runs of run_extraction
    MaxVersion,    \* bound: versions of a field
    MaxExtracted,  \* bound: the last version an extraction may write
    MaxStores,     \* bound: artifacts stored for the filing
    MaxParses,     \* bound: parses of an NSE instance
    MaxPins,       \* bound: no publication starts after this many pin rows
    Rejectable,    \* bound: the field keys whose mapping may be rejected
    MaxQueue       \* bound: rebuild tasks in the broker

Versions == 1..MaxVersion
Millionths == 1000000   \* accuracy is Numeric(7, 6)

ASSUME PublicationAssumption ==
    /\ Fields # {}
    /\ Mapped \subseteq Fields
    /\ Family \in [Fields -> Families]
    /\ Seeded \subseteq Families
    /\ Reviewed \in Nat
    /\ Target \in 0..100
    /\ MaxVersion \in Nat \ {0}
    /\ MaxExtracted \in Versions
    /\ MaxStores \in Nat
    /\ MaxParses \in Nat
    /\ MaxPins \in Nat
    /\ Rejectable \subseteq Mapped
    /\ MaxQueue \in Nat

(* Sessions are told apart by their identities.                            *)
ASSUME SessionsAssumption ==
    /\ Extractors \cap (Reviewers \cup Publishers) = {}
    /\ Reviewers \cap Publishers = {}
    /\ Workers \cap Publishers = {}

VARIABLES
    filing,      \* the filings row and the raw object it points to
    facts,       \* xbrl_facts of the mapped concepts, by field key
    rejected,    \* field keys whose concept mapping was rejected
    rows,        \* extracted_fields, by field key and version
    reviews,     \* qa_reviews, by the row they are about
    stats,       \* quality_stats, by family
    pins,        \* field_version_pins, by field key
    metrics,     \* metrics: the pin each one was computed from
    queue,       \* rebuild tasks in the broker
    lost,        \* history: a rebuild the pins need was lost, or overlapped one
    review,      \* the requests that decide reviews
    publish,     \* the publications
    rebuild,     \* the rebuilds
    extract      \* the extractions

source == <<filing, facts, rejected>>
sessions == <<review, publish, rebuild, extract>>
vars == <<filing, facts, rejected, rows, reviews, stats, pins, metrics, queue,
          lost, review, publish, rebuild, extract>>

-----------------------------------------------------------------------------
(* Types *)

(* What a concept's fact gives a field: nothing, a value, or a value whose *)
(* unit or scale nothing resolves.                                         *)
Fact == {"none", "clear", "unresolved"}

Filing ==
    [adapter : {"pdf", "nse"}, parsed : BOOLEAN, content : [Mapped -> Fact],
     stores  : 0..MaxStores, parses : 0..MaxParses]

(* An extracted_fields row.  `fact' is the parse its source fact is from,  *)
(* `corrects' the version a human row replaces.                            *)
Row ==
    [method    : {"absent", "xbrl", "llm", "human"},
     qa        : {"unreviewed", "provisional", "sampled_ok", "corrected"},
     confident : BOOLEAN,
     fact      : 0..MaxParses,
     corrects  : 0..MaxVersion]

NoRow ==
    [method |-> "absent", qa |-> "unreviewed", confident |-> FALSE,
     fact |-> 0, corrects |-> 0]

(* A qa_reviews row; `fix' is the version of its corrected_field.          *)
Review ==
    [status : {"absent", "queued", "accepted", "corrected"},
     fix    : 0..MaxVersion]

Stat == [reviewed : Nat, correct : Nat, accuracy : Int]

(* A pin: the version it points to, 0 when there is no pin, and its row's  *)
(* identity, which a deleted and inserted pin does not keep.               *)
Pin == [version : 0..MaxVersion, id : Nat]
NoPin == [version |-> 0, id |-> 0]

Error == {"none", "TypeError", "Integrity", "ForeignKey"}

ReviewRequest ==
    [pc      : {"idle", "lock", "insert", "count", "finish", "notify"},
     op      : {"accept", "correct"},
     field   : Fields,
     about   : Versions,
     version : Versions,
     stat    : Stat,
     allowed : BOOLEAN,
     pin     : Pin,
     error   : Error]

Publication ==
    [pc      : {"idle", "reject", "facts", "next", "insert", "select", "pin", "notify"},
     refresh : BOOLEAN,
     active  : SUBSET Mapped,
     known   : [Mapped -> Fact],
     parse   : 0..MaxParses,
     todo    : SUBSET Mapped,
     field   : Fields,
     pin     : Nat,
     insert  : [Fields -> 0..MaxVersion],
     plan    : [Fields -> {"keep", "drop", "pin"}],
     to      : [Fields -> 0..MaxVersion],
     error   : Error]

Rebuild ==
    [pc     : {"idle", "delete", "insert"},
     snap   : [Fields -> Pin],
     behind : SUBSET Workers,
     blind  : BOOLEAN,
     error  : Error]

Extraction ==
    [pc : {"idle", "commit"}, missing : SUBSET Fields, version : Versions]

NoStat == [reviewed |-> 0, correct |-> 0, accuracy |-> 0]

IdleReview ==
    [pc |-> "idle", op |-> "accept", field |-> CHOOSE f \in Fields : TRUE,
     about |-> 1, version |-> 1, stat |-> NoStat, allowed |-> FALSE,
     pin |-> NoPin, error |-> "none"]

Nothing == [f \in Fields |-> 0]

IdlePublication ==
    [pc |-> "idle", refresh |-> FALSE, active |-> {},
     known |-> [f \in Mapped |-> "none"], parse |-> 0, todo |-> {},
     field |-> CHOOSE f \in Fields : TRUE, pin |-> 0,
     insert |-> Nothing, plan |-> [f \in Fields |-> "keep"],
     to |-> Nothing, error |-> "none"]

IdleRebuild ==
    [pc |-> "idle", snap |-> [f \in Fields |-> NoPin], behind |-> {},
     blind |-> FALSE, error |-> "none"]

IdleExtraction == [pc |-> "idle", missing |-> {}, version |-> 1]

TypeOK ==
    /\ filing \in Filing
    /\ facts \in [Mapped -> Fact]
    /\ rejected \subseteq Mapped
    /\ rows \in [Fields -> [Versions -> Row]]
    /\ reviews \in [Fields -> [Versions -> Review]]
    /\ stats \in [Seeded -> Stat]
    /\ pins \in [Fields -> Pin]
    /\ metrics \in [Fields -> Pin]
    /\ queue \in 0..MaxQueue
    /\ lost \in BOOLEAN
    /\ review \in [Reviewers -> ReviewRequest]
    /\ publish \in [Publishers -> Publication]
    /\ rebuild \in [Workers -> Rebuild]
    /\ extract \in [Extractors -> Extraction]

(* A parsed PDF filing, before its first extraction.                       *)
Init ==
    /\ filing = [adapter |-> "pdf", parsed |-> TRUE, stores |-> 0,
                 parses |-> 0, content |-> [f \in Mapped |-> "none"]]
    /\ facts = [f \in Mapped |-> "none"]
    /\ rejected = {}
    /\ rows = [f \in Fields |-> [v \in Versions |-> NoRow]]
    /\ reviews = [f \in Fields |->
                    [v \in Versions |-> [status |-> "absent", fix |-> 0]]]
    /\ stats = [m \in Seeded |->
                  [reviewed |-> Reviewed, correct |-> Reviewed,
                   accuracy |-> IF Reviewed = 0 THEN 0 ELSE Millionths]]
    /\ pins = [f \in Fields |-> NoPin]
    /\ metrics = [f \in Fields |-> NoPin]
    /\ queue = 0
    /\ lost = FALSE
    /\ review = [r \in Reviewers |-> IdleReview]
    /\ publish = [p \in Publishers |-> IdlePublication]
    /\ rebuild = [w \in Workers |-> IdleRebuild]
    /\ extract = [x \in Extractors |-> IdleExtraction]

-----------------------------------------------------------------------------
(* Rows, locks and pins *)

Absent(f, v) == rows[f][v].method = "absent"

(* max(version) of a field, 0 when it has no row.                          *)
Newest(f, n) ==
    /\ n \in 0..MaxVersion
    /\ n # 0 => ~Absent(f, n)
    /\ \A v \in Versions : v > n => Absent(f, v)

(* A corrected version that is flushed and not committed.                  *)
Drafting(r, f, v) ==
    /\ review[r].op = "correct" /\ review[r].pc \in {"count", "finish"}
    /\ review[r].field = f /\ review[r].version = v

(* Another session's uncommitted row of this version: an INSERT waits for  *)
(* the session to end before it knows whether the version is taken.        *)
Pending(f, v, me) ==
    \/ \E r \in Reviewers \ {me} : Drafting(r, f, v)
    \/ \E p \in Publishers \ {me} : publish[p].insert[f] = v

(* The locks other sessions hold: on a review and its row from the first   *)
(* flush of a decision on, on a family's statistics from their UPDATE on,  *)
(* on a pin from the flush of its deletion, insertion or repointing on.    *)
ReviewLocked(f, v, me) ==
    \E r \in Reviewers \ {me} :
        /\ review[r].pc \in {"insert", "count", "finish"}
        /\ review[r].field = f /\ review[r].about = v

StatLocked(m, me) ==
    \E r \in Reviewers \ {me} :
        review[r].pc = "finish" /\ Family[review[r].field] = m

PinLocked(f, me) ==
    \E p \in Publishers \ {me} : publish[p].plan[f] # "keep"

(* Mutant: the foreign keys of metrics and scores are gone.                *)
ReferencedNever(f) == FALSE

(* A metric refers to the pin: PostgreSQL refuses to delete the pin.       *)
Referenced(f) == pins[f].version # 0 /\ metrics[f] # NoPin
                 /\ metrics[f].id = pins[f].id

(* f's pin as a SELECT returns it, and its identity, 0 for no row.         *)
PinRead(f) == IF pins[f].version = 0 THEN NoPin ELSE pins[f]
PinSeen(f) == PinRead(f).id

(* The flush of a pin that the session saw as `seen' finds what it saw: an *)
(* INSERT no row, an UPDATE the same row.                                  *)
PinUnmoved(f, seen) == PinSeen(f) = seen

PointedTo(f, v) ==
    [version |-> v,
     id |-> IF pins[f].version = 0 THEN pins[f].id + 1 ELSE pins[f].id]

Unpinned(f) == [version |-> 0, id |-> pins[f].id]

-----------------------------------------------------------------------------
(* Filing, mapping reviews, extraction and sampling *)

(* store_filing: another adapter, or new content, puts the filing back to  *)
(* "fetched".  The PDFs of a filing and its XBRL replace one another.      *)
StoreFiling(adapter, content) ==
    /\ adapter = "pdf" => content = filing.content
    /\ <<adapter, content>> # <<filing.adapter, filing.content>>
    /\ filing.stores < MaxStores
    /\ filing' = [filing EXCEPT !.adapter = adapter, !.content = content,
                                !.parsed = FALSE, !.stores = @ + 1]
    /\ UNCHANGED <<facts, rejected, rows, reviews, stats, pins, metrics, queue,
                   lost, sessions>>

(* parse_filing: an instance's facts replace the old ones under new ids; a *)
(* PDF leaves them.  (The taxonomy's own concepts, "BRSR_<key>", do not    *)
(* occur in NSE instances: parsing adds no extracted_fields row.)          *)
ParseFiling ==
    /\ IF filing.adapter = "nse"
         THEN /\ filing.parses < MaxParses
              /\ facts' = filing.content
              /\ filing' = [filing EXCEPT !.parsed = TRUE, !.parses = @ + 1]
         ELSE /\ ~filing.parsed
              /\ filing' = [filing EXCEPT !.parsed = TRUE]
              /\ UNCHANGED facts
    /\ UNCHANGED <<rejected, rows, reviews, stats, pins, metrics, queue, lost,
                   sessions>>

(* review_concept_mapping; only the rejection of a mapping has effects.    *)
ReviewConceptMapping(f) ==
    /\ rejected' = IF f \in rejected THEN rejected \ {f} ELSE rejected \cup {f}
    /\ UNCHANGED <<filing, facts, rows, reviews, stats, pins, metrics, queue,
                   lost, sessions>>

(* run_extraction up to the first call of the language model: the fields   *)
(* without an XBRL row, and one version number for all of them.            *)
StartExtraction(x) ==
    /\ extract[x].pc = "idle"
    /\ filing.parsed
    /\ \E n \in 0..(MaxExtracted - 1) :
        /\ \A f \in Fields : \A v \in Versions : v > n => Absent(f, v)
        /\ n # 0 => \E f \in Fields : ~Absent(f, n)
        /\ extract' = [extract EXCEPT ![x] =
                        [pc |-> "commit", version |-> n + 1, missing |->
                           {f \in Fields : \A v \in Versions :
                              rows[f][v].method # "xbrl"}]]
    /\ UNCHANGED <<source, rows, reviews, stats, pins, metrics, queue, lost,
                   review, publish, rebuild>>

Extracted(confident) ==
    [NoRow EXCEPT !.method = "llm", !.confident = confident]

(* Its flush and commit: the model found `found', `sure' of them with a    *)
(* confidence that may be published.  A taken version fails all of them.   *)
CommitExtraction(x, found, sure) ==
    LET v == extract[x].version IN
    /\ extract[x].pc = "commit"
    /\ found \subseteq extract[x].missing
    /\ \A f \in found : ~Pending(f, v, x)
    /\ extract' = [extract EXCEPT ![x] = IdleExtraction]
    /\ rows' = IF \A f \in found : Absent(f, v)
                 THEN [f \in Fields |->
                        IF f \in found
                          THEN [rows[f] EXCEPT ![v] = Extracted(f \in sure)]
                          ELSE rows[f]]
                 ELSE rows
    /\ UNCHANGED <<source, reviews, stats, pins, metrics, queue, lost, review,
                   publish, rebuild>>

(* enqueue_sample: the rows of the language model nobody reviewed.         *)
Eligible ==
    {c \in Fields \X Versions :
        /\ rows[c[1]][c[2]].method = "llm"
        /\ rows[c[1]][c[2]].qa = "unreviewed"
        /\ reviews[c[1]][c[2]].status = "absent"}

SameStratum(c, d) ==
    /\ Family[c[1]] = Family[d[1]]
    /\ rows[c[1]][c[2]].confident = rows[d[1]][d[2]].confident

(* A sample takes at least one row of every stratum.                       *)
EnqueueSample(sample) ==
    /\ sample # {} /\ sample \subseteq Eligible
    /\ \A c \in Eligible : \E d \in sample : SameStratum(c, d)
    /\ reviews' = [f \in Fields |-> [v \in Versions |->
                    IF <<f, v>> \in sample
                      THEN [status |-> "queued", fix |-> 0]
                      ELSE reviews[f][v]]]
    /\ UNCHANGED <<source, rows, stats, pins, metrics, queue, lost, sessions>>

-----------------------------------------------------------------------------
(* Reviews: complete_review and decide_review *)

SetReview(r, new) == review' = [review EXCEPT ![r] = new]

(* The session rolls back; the request answers 500.                        *)
Raise(r, error) ==
    /\ SetReview(r, [IdleReview EXCEPT !.error = error])
    /\ UNCHANGED <<source, rows, reviews, stats, pins, metrics, queue, lost,
                   publish, rebuild, extract>>

ReviewUnchanged ==
    UNCHANGED <<source, rows, reviews, stats, pins, metrics, queue, lost,
                publish, rebuild, extract>>

(* Both SELECTs of complete_review: the queued review and its row.         *)
StartReview(r, f, v, op) ==
    /\ review[r].pc = "idle"
    /\ reviews[f][v].status = "queued"
    /\ SetReview(r, [IdleReview EXCEPT !.pc = "lock", !.op = op, !.field = f,
                                       !.about = v])
    /\ ReviewUnchanged

(* _record_outcome reads the family's row.  A family without one gets an   *)
(* object whose counts are None until it is flushed, and the first         *)
(* addition raises.                                                        *)
ReadStat(r, req) ==
    LET m == Family[req.field] IN
    IF m \in Seeded
      THEN /\ SetReview(r, [req EXCEPT !.pc = "count", !.stat = stats[m]])
           /\ ReviewUnchanged
      ELSE Raise(r, "TypeError")

(* An acceptance: the SELECT of the statistics flushes the updates of the  *)
(* row and of the review, which wait for their locks.                      *)
LockAccepted(r) ==
    /\ review[r].pc = "lock" /\ review[r].op = "accept"
    /\ ~ReviewLocked(review[r].field, review[r].about, r)
    /\ ReadStat(r, review[r])

(* A correction: the SELECT of max(version) flushes the reviewer's name    *)
(* into the review, which waits for its lock, and then reads.              *)
LockCorrected(r) ==
    LET req == review[r] IN
    /\ req.pc = "lock" /\ req.op = "correct"
    /\ ~ReviewLocked(req.field, req.about, r)
    /\ \E n \in 0..(MaxVersion - 1) :
        /\ Newest(req.field, n)
        /\ SetReview(r, [req EXCEPT !.pc = "insert", !.version = n + 1])
    /\ ReviewUnchanged

(* The flush of the corrected version.                                     *)
InsertCorrection(r) ==
    LET req == review[r] IN
    /\ req.pc = "insert"
    /\ ~Pending(req.field, req.version, r)
    /\ IF Absent(req.field, req.version)
         THEN ReadStat(r, req)
         ELSE Raise(r, "Integrity")

(* Mutant: a correction counts as a correct extraction.                    *)
CountedCorrect(req) ==
    [reviewed |-> req.stat.reviewed + 1, correct |-> req.stat.correct + 1]

(* The counts as this session sees them after its decision.                *)
Counted(req) ==
    [reviewed |-> req.stat.reviewed + 1,
     correct  |-> req.stat.correct + (IF req.op = "accept" THEN 1 ELSE 0)]

Rounded(correct, reviewed) ==
    (2 * Millionths * correct + reviewed) \div (2 * reviewed)

OnTarget(correct, reviewed) == 100 * correct >= Target * reviewed

(* Mutant: the policy forgets the confidence threshold.                    *)
PublishableUnsure(req) ==
    OnTarget(Counted(req).correct, Counted(req).reviewed)

(* Mutant: the policy judges the accuracy from before this review.         *)
PublishableBefore(req) ==
    /\ req.op = "accept" => rows[req.field][req.about].confident
    /\ OnTarget(req.stat.correct, req.stat.reviewed)

(* evaluate_publishability; the row is "sampled_ok" or "corrected" by now, *)
(* and a correction's confidence is 1.                                     *)
Publishable(req) ==
    /\ req.op = "accept" => rows[req.field][req.about].confident
    /\ OnTarget(Counted(req).correct, Counted(req).reviewed)

(* update_pin_if_publishable: its first SELECT flushes the statistics and  *)
(* waits for their lock; the policy judges the accuracy this session       *)
(* computed; the last SELECT reads the pin.                                *)
CountOutcome(r) ==
    LET req == review[r] IN
    /\ req.pc = "count"
    /\ ~StatLocked(Family[req.field], r)
    /\ SetReview(r, [req EXCEPT !.pc = "finish", !.pin = PinRead(req.field),
                                !.allowed = Publishable(req)])
    /\ ReviewUnchanged

(* What the UPDATE of the statistics leaves: it names reviewed_count, and  *)
(* correct_count and accuracy only when this session changed them.         *)
WrittenStat(req) ==
    LET m == Family[req.field]
        c == Counted(req)
        moved == Millionths * c.correct # req.stat.accuracy * c.reviewed
    IN  [reviewed |-> c.reviewed,
         correct  |-> IF req.op = "accept" THEN c.correct ELSE stats[m].correct,
         accuracy |-> IF moved THEN Rounded(c.correct, c.reviewed)
                               ELSE stats[m].accuracy]

PublishedVersion(req) == IF req.op = "accept" THEN req.about ELSE req.version

(* The row an acceptance marks, or the row a correction adds.              *)
WrittenRow(req) ==
    IF req.op = "accept"
      THEN [rows[req.field][req.about] EXCEPT !.qa = "sampled_ok"]
      ELSE [method |-> "human", qa |-> "corrected", confident |-> TRUE,
            fact |-> 0, corrects |-> req.about]

(* Mutant: a status the table has no name for.                             *)
WrittenReviewDone(req) ==
    [reviews[req.field][req.about] EXCEPT !.status = "done"]

(* Mutant: the review does not name its correction.                        *)
WrittenReviewUnlinked(req) ==
    IF req.op = "accept"
      THEN [reviews[req.field][req.about] EXCEPT !.status = "accepted"]
      ELSE [status |-> "corrected", fix |-> 0]

(* Mutant: the decision is not recorded in the queue.                      *)
WrittenReviewQueued(req) == reviews[req.field][req.about]

WrittenReview(req) ==
    IF req.op = "accept"
      THEN [reviews[req.field][req.about] EXCEPT !.status = "accepted"]
      ELSE [status |-> "corrected", fix |-> req.version]

(* The pin is to point elsewhere than where the session saw it: only then  *)
(* is extracted_field_id written.                                          *)
Repoints(req) == req.allowed /\ req.pin.version # PublishedVersion(req)

(* Mutant: no rebuild after a decision that moved a pin.                   *)
CommitReviewSilently(r) ==
    LET req == review[r] IN
    /\ rows' = [rows EXCEPT ![req.field][PublishedVersion(req)] = WrittenRow(req)]
    /\ reviews' = [reviews EXCEPT ![req.field][req.about] = WrittenReview(req)]
    /\ stats' = [stats EXCEPT ![Family[req.field]] = WrittenStat(req)]
    /\ pins' = IF Repoints(req)
                 THEN [pins EXCEPT ![req.field] =
                        PointedTo(req.field, PublishedVersion(req))]
                 ELSE pins
    /\ SetReview(r, IdleReview)
    /\ UNCHANGED <<source, metrics, queue, lost, publish, rebuild, extract>>

(* The flush of the pin and the commit.                                    *)
CommitReview(r) ==
    LET req == review[r] IN
    /\ rows' = [rows EXCEPT ![req.field][PublishedVersion(req)] = WrittenRow(req)]
    /\ reviews' = [reviews EXCEPT ![req.field][req.about] = WrittenReview(req)]
    /\ stats' = [stats EXCEPT ![Family[req.field]] = WrittenStat(req)]
    /\ pins' = IF Repoints(req)
                 THEN [pins EXCEPT ![req.field] =
                        PointedTo(req.field, PublishedVersion(req))]
                 ELSE pins
    /\ SetReview(r, IF req.allowed THEN [req EXCEPT !.pc = "notify"]
                                   ELSE IdleReview)
    /\ UNCHANGED <<source, metrics, queue, lost, publish, rebuild, extract>>

(* A pin that stays where it is is written if pinned_by_user_id changes,   *)
(* which is the case or not.                                               *)
FinishReview(r) ==
    LET req == review[r] IN
    /\ req.pc = "finish"
    /\ \E written \in {Repoints(req), req.allowed} :
         /\ written => ~PinLocked(req.field, r)
         /\ IF written => PinUnmoved(req.field, req.pin.id)
              THEN CommitReview(r)
              ELSE Raise(r, "Integrity")

(* pin_changed_task.delay(), after the commit.                             *)
NotifyReview(r) ==
    /\ review[r].pc = "notify"
    /\ queue < MaxQueue
    /\ queue' = queue + 1
    /\ SetReview(r, IdleReview)
    /\ UNCHANGED <<source, rows, reviews, stats, pins, metrics, lost, publish,
                   rebuild, extract>>

(* Any other failure.  Once committed, the decision stands and only its    *)
(* rebuild is lost.                                                        *)
FailReview(r) ==
    /\ review[r].pc # "idle"
    /\ SetReview(r, IdleReview)
    /\ lost' = (lost \/ review[r].pc = "notify")
    /\ UNCHANGED <<source, rows, reviews, stats, pins, metrics, queue, publish,
                   rebuild, extract>>

-----------------------------------------------------------------------------
(* publish_provisional_mappings *)

SetPublish(p, new) == publish' = [publish EXCEPT ![p] = new]

PublishUnchanged ==
    UNCHANGED <<source, rows, reviews, stats, pins, metrics, queue, lost,
                review, rebuild, extract>>

(* seed_concept_mappings returns the mappings, with their review status.   *)
(* `refresh': the callers that rebuild afterwards (nse_refresh, --publish),*)
(* not the publish command.                                                *)
StartPublication(p, refresh) ==
    /\ publish[p].pc = "idle"
    /\ \A f \in Fields : pins[f].id < MaxPins
    /\ SetPublish(p, [IdlePublication EXCEPT
                        !.pc = IF rejected = {} THEN "facts" ELSE "reject",
                        !.refresh = refresh, !.active = Mapped \ rejected])
    /\ PublishUnchanged

(* The pins of rejected mappings, deleted and committed on their own.      *)
DropRejected(p) ==
    LET gone == {f \in Mapped \ publish[p].active :
                    pins[f].version # 0 /\ filing.adapter = "nse"} IN
    /\ publish[p].pc = "reject"
    /\ \A f \in gone : ~PinLocked(f, p)
    /\ IF \E f \in gone : Referenced(f)
         THEN /\ SetPublish(p, [IdlePublication EXCEPT !.error = "ForeignKey"])
              /\ UNCHANGED <<pins, lost>>
         ELSE /\ SetPublish(p, [publish[p] EXCEPT !.pc = "facts"])
              /\ pins' = [f \in Fields |-> IF f \in gone THEN Unpinned(f)
                                                         ELSE pins[f]]
              /\ lost' = (lost \/ gone # {})
    /\ UNCHANGED <<source, rows, reviews, stats, metrics, queue, review,
                   rebuild, extract>>

(* The facts and the filings of the cohort: none when the filing is not    *)
(* an NSE one at the moment.                                               *)
ReadFacts(p) ==
    LET active == IF filing.adapter = "nse" THEN publish[p].active ELSE {} IN
    /\ publish[p].pc = "facts"
    /\ SetPublish(p, [publish[p] EXCEPT
                        !.pc = "next", !.known = facts, !.parse = filing.parses,
                        !.active = active, !.todo = active])
    /\ PublishUnchanged

(* A mapping whose fact gives nothing.                                     *)
SkipMissing(p, f) ==
    /\ publish[p].pc = "next" /\ f \in publish[p].todo
    /\ publish[p].known[f] = "none"
    /\ SetPublish(p, [publish[p] EXCEPT !.todo = @ \ {f}])
    /\ PublishUnchanged

(* A fact that cannot be resolved: its pin, if there is one, is deleted.   *)
Withhold(p, f) ==
    LET pub == publish[p] IN
    /\ pub.pc = "next" /\ f \in pub.todo
    /\ pub.known[f] = "unresolved"
    /\ ~PinLocked(f, p)
    /\ SetPublish(p,
        IF Referenced(f) THEN [IdlePublication EXCEPT !.error = "ForeignKey"]
        ELSE [pub EXCEPT !.todo = @ \ {f},
                         !.plan[f] = IF pins[f].version # 0 THEN "drop" ELSE @])
    /\ PublishUnchanged

(* Mutant: any provisional version is as good as one of this fact.         *)
ReusableAny(f, n, parse) == n # 0 /\ rows[f][n].qa = "provisional"

(* The newest version is of this very fact.                                *)
Reusable(f, n, parse) ==
    n # 0 /\ rows[f][n].qa = "provisional" /\ rows[f][n].fact = parse

(* The latest version: reused, or followed by a new one.                   *)
ReadLatest(p, f) ==
    LET pub == publish[p] IN
    /\ pub.pc = "next" /\ f \in pub.todo
    /\ pub.known[f] = "clear"
    /\ \E n \in 0..MaxVersion :
        /\ Newest(f, n)
        /\ IF Reusable(f, n, pub.parse)
             THEN SetPublish(p, [pub EXCEPT !.pc = "select", !.field = f, !.to[f] = n])
             ELSE /\ n < MaxVersion
                  /\ SetPublish(p, [pub EXCEPT !.pc = "insert", !.field = f,
                                      !.to[f] = n + 1])
    /\ PublishUnchanged

(* The flush of the new version.                                           *)
InsertProvisional(p) ==
    LET pub == publish[p]
        f == pub.field
    IN
    /\ pub.pc = "insert"
    /\ ~Pending(f, pub.to[f], p)
    /\ SetPublish(p,
        IF Absent(f, pub.to[f])
          THEN [pub EXCEPT !.pc = "select", !.insert[f] = pub.to[f]]
          ELSE [IdlePublication EXCEPT !.error = "Integrity"])
    /\ PublishUnchanged

(* The SELECT of the pin.  One that points to the version already is no    *)
(* change: nothing is flushed, and no lock keeps it there.                 *)
SelectPin(p) ==
    LET pub == publish[p]
        f == pub.field
    IN
    /\ pub.pc = "select"
    /\ SetPublish(p,
        IF PinRead(f).version = pub.to[f]
          THEN [pub EXCEPT !.pc = "next", !.todo = @ \ {f}]
          ELSE [pub EXCEPT !.pc = "pin", !.pin = PinSeen(f)])
    /\ PublishUnchanged

(* The flush of the pin, by the next query or the commit.                  *)
FlushPin(p) ==
    LET pub == publish[p]
        f == pub.field
    IN
    /\ pub.pc = "pin"
    /\ ~PinLocked(f, p)
    /\ SetPublish(p,
        IF PinUnmoved(f, pub.pin)
          THEN [pub EXCEPT !.pc = "next", !.plan[f] = "pin", !.todo = @ \ {f}]
          ELSE [IdlePublication EXCEPT !.error = "Integrity"])
    /\ PublishUnchanged

ProvisionalRow(parse) ==
    [method |-> "xbrl", qa |-> "provisional", confident |-> TRUE,
     fact |-> parse, corrects |-> 0]

PlannedPin(pub, f) ==
    CASE pub.plan[f] = "keep" -> pins[f]
      [] pub.plan[f] = "drop" -> Unpinned(f)
      [] pub.plan[f] = "pin"  -> PointedTo(f, pub.to[f])

CommitPublication(p) ==
    LET pub == publish[p] IN
    /\ pub.pc = "next" /\ pub.todo = {}
    /\ rows' = [f \in Fields |-> [v \in Versions |->
                 IF pub.insert[f] = v THEN ProvisionalRow(pub.parse)
                                      ELSE rows[f][v]]]
    /\ pins' = [f \in Fields |-> PlannedPin(pub, f)]
    /\ SetPublish(p, IF pub.refresh
                       THEN [IdlePublication EXCEPT !.pc = "notify"]
                       ELSE IdlePublication)
    /\ lost' = (lost \/ (~pub.refresh /\ pins' # pins))
    /\ UNCHANGED <<source, reviews, stats, metrics, queue, review, rebuild,
                   extract>>

(* The caller's own rebuild, taken like one from the broker.               *)
NotifyPublication(p) ==
    /\ publish[p].pc = "notify"
    /\ queue < MaxQueue
    /\ queue' = queue + 1
    /\ SetPublish(p, IdlePublication)
    /\ UNCHANGED <<source, rows, reviews, stats, pins, metrics, lost, review,
                   rebuild, extract>>

FailPublication(p) ==
    /\ publish[p].pc # "idle"
    /\ SetPublish(p, IdlePublication)
    /\ lost' = (lost \/ publish[p].pc = "notify")
    /\ UNCHANGED <<source, rows, reviews, stats, pins, metrics, queue, review,
                   rebuild, extract>>

-----------------------------------------------------------------------------
(* rebuild_metrics *)

SetRebuild(w, new) == rebuild' = [rebuild EXCEPT ![w] = new]

(* The one SELECT of pins and rows; from the broker, nightly or by hand.   *)
ReadPins(w) ==
    /\ rebuild[w].pc = "idle"
    /\ queue' = IF queue > 0 THEN queue - 1 ELSE 0
    /\ lost' = \E o \in Workers \ {w} : rebuild[o].pc # "idle"
    /\ SetRebuild(w, [IdleRebuild EXCEPT !.pc = "delete", !.snap =
                       [f \in Fields |-> IF pins[f].version = 0 THEN NoPin
                                                                ELSE pins[f]]])
    /\ UNCHANGED <<source, rows, reviews, stats, pins, metrics, review, publish,
                   extract>>

NoMetrics == [f \in Fields |-> NoPin]

(* The DELETE of all metrics and scores starts: it waits for the rebuilds  *)
(* that already deleted these rows, and sees none that they insert.        *)
DeleteMetrics(w) ==
    /\ rebuild[w].pc = "delete"
    /\ SetRebuild(w, [rebuild[w] EXCEPT
                       !.pc = "insert", !.behind =
                         IF metrics = NoMetrics THEN {}
                         ELSE {o \in Workers \ {w} : rebuild[o].pc = "insert"}])
    /\ UNCHANGED <<source, rows, reviews, stats, pins, metrics, queue, lost,
                   review, publish, extract>>

(* The end of a rebuild: nobody waits for it any more; if it inserted      *)
(* rows, no DELETE that has started will remove them.                      *)
Ended(w, new, inserted) ==
    rebuild' = [o \in Workers |->
        IF o = w THEN new
        ELSE [rebuild[o] EXCEPT
                !.behind = @ \ {w},
                !.blind = @ \/ (inserted /\ rebuild[o].pc = "insert")]]

(* The INSERTs, whose ids depend only on company, year and key, and the    *)
(* commit.  They refer to pins: they wait for those that are locked, and   *)
(* fail when one is gone.                                                  *)
InsertMetrics(w) ==
    LET req == rebuild[w]
        used == {f \in Fields : req.snap[f] # NoPin}
        taken == req.blind /\ used # {}
        dangling == \E f \in used : PinSeen(f) # req.snap[f].id
    IN
    /\ req.pc = "insert"
    /\ req.behind = {}
    /\ \A f \in used : ~PinLocked(f, w)
    /\ IF taken \/ dangling
         THEN /\ Ended(w, [IdleRebuild EXCEPT !.error =
                            IF taken THEN "Integrity" ELSE "ForeignKey"], FALSE)
              /\ UNCHANGED metrics
         ELSE /\ Ended(w, IdleRebuild, used # {})
              /\ metrics' = IF req.blind THEN metrics ELSE req.snap
    /\ UNCHANGED <<source, rows, reviews, stats, pins, queue, lost, review,
                   publish, extract>>

FailRebuild(w) ==
    /\ rebuild[w].pc # "idle"
    /\ Ended(w, IdleRebuild, FALSE)
    /\ lost' = TRUE
    /\ UNCHANGED <<source, rows, reviews, stats, pins, metrics, queue, review,
                   publish, extract>>

-----------------------------------------------------------------------------
FilingStep ==
    \/ \E a \in {"pdf", "nse"}, c \in [Mapped -> Fact] : StoreFiling(a, c)
    \/ ParseFiling
    \/ \E f \in Rejectable : ReviewConceptMapping(f)
    \/ \E sample \in SUBSET Eligible : EnqueueSample(sample)

ExtractionStep(x) ==
    \/ StartExtraction(x)
    \/ \E found \in SUBSET Fields : \E sure \in SUBSET found :
        CommitExtraction(x, found, sure)

ReviewStep(r) ==
    \/ \E f \in Fields, v \in Versions, op \in {"accept", "correct"} :
        StartReview(r, f, v, op)
    \/ LockAccepted(r) \/ LockCorrected(r) \/ InsertCorrection(r)
    \/ CountOutcome(r) \/ FinishReview(r) \/ NotifyReview(r) \/ FailReview(r)

PublicationStep(p) ==
    \/ \E refresh \in BOOLEAN : StartPublication(p, refresh)
    \/ DropRejected(p) \/ ReadFacts(p)
    \/ \E f \in Mapped : SkipMissing(p, f) \/ Withhold(p, f) \/ ReadLatest(p, f)
    \/ InsertProvisional(p) \/ SelectPin(p) \/ FlushPin(p) \/ CommitPublication(p)
    \/ NotifyPublication(p) \/ FailPublication(p)

RebuildStep(w) ==
    ReadPins(w) \/ DeleteMetrics(w) \/ InsertMetrics(w) \/ FailRebuild(w)

Next ==
    \/ FilingStep
    \/ \E x \in Extractors : ExtractionStep(x)
    \/ \E r \in Reviewers : ReviewStep(r)
    \/ \E p \in Publishers : PublicationStep(p)
    \/ \E w \in Workers : RebuildStep(w)

Spec == Init /\ [][Next]_vars

-----------------------------------------------------------------------------
(* Properties *)

(* complete_review: nothing of the language model, and no correction, is   *)
(* public before somebody decided the review of the extracted value,       *)
(* whatever reviewers, publications and extractions overlap.               *)
PublishedIsReviewed ==
    \A f \in Fields :
        LET v == pins[f].version IN
        v # 0 =>
            /\ ~Absent(f, v)
            /\ rows[f][v].method = "llm" =>
                reviews[f][v].status \in {"accepted", "corrected"}
            /\ rows[f][v].method = "human" =>
                reviews[f][rows[f][v].corrects].status
                    \in {"accepted", "corrected"}

(* The trigger validate_field_version_pin never fires: every pin the code  *)
(* writes is to a version that passed QA with the confidence to be         *)
(* published, or to a provisional version of an NSE fact.                  *)
PinsAreQualified ==
    \A f \in Fields :
        LET v == pins[f].version IN
        v # 0 =>
            \/ rows[f][v].qa \in {"sampled_ok", "corrected"}
               /\ rows[f][v].confident
            \/ rows[f][v].qa = "provisional" /\ rows[f][v].fact # 0

(* _record_outcome, one reviewer at a time: the statistics count every     *)
(* decided review of the family once, and accuracy is their ratio.         *)
Cases(m, status) ==
    {c \in Fields \X Versions :
        Family[c[1]] = m /\ reviews[c[1]][c[2]].status \in status}

StatsCountDecisions ==
    \A m \in Seeded :
        /\ stats[m].reviewed =
             Reviewed + Cardinality(Cases(m, {"accepted", "corrected"}))
        /\ stats[m].correct = Reviewed + Cardinality(Cases(m, {"accepted"}))
        /\ stats[m].reviewed # 0 =>
             stats[m].accuracy = Rounded(stats[m].correct, stats[m].reviewed)

(* complete_review, one reviewer at a time: a review, its extracted value  *)
(* and the corrected version tell one story.                               *)
ReviewsMatchRows ==
    \A f \in Fields, v \in Versions :
        LET case == reviews[f][v] IN
        /\ case.status \in {"absent", "queued"} =>
             /\ rows[f][v].qa # "sampled_ok"
             /\ \A n \in Versions : rows[f][n].corrects # v
        /\ case.status = "accepted" =>
             /\ rows[f][v].qa = "sampled_ok"
             /\ \A n \in Versions : rows[f][n].corrects # v
        /\ case.status = "corrected" =>
             /\ rows[f][v].qa = "unreviewed"
             /\ {n \in Versions : rows[f][n].corrects = v} = {case.fix}
             /\ case.fix > v

(* update_pin_if_publishable, one reviewer at a time: a value that a       *)
(* review makes public is of a family whose recorded accuracy, with this   *)
(* review, is on target.                                                   *)
ReviewPublishesOnTarget ==
    [][\A f \in Fields :
        LET v == pins'[f].version
            stat == stats'[Family[f]]
        IN
        (v # 0 /\ v # pins[f].version /\ rows'[f][v].method # "xbrl") =>
            100 * stat.accuracy >= Target * Millionths]_vars

(* run_rebuild after every change: when nothing is on its way, no failure  *)
(* lost a rebuild and the last ones did not overlap, the metrics show the  *)
(* pins.                                                                   *)
Quiet ==
    /\ queue = 0
    /\ \A r \in Reviewers : review[r].pc # "notify"
    /\ \A p \in Publishers : publish[p].pc = "idle"
    /\ \A w \in Workers : rebuild[w].pc = "idle"
    /\ ~lost

SettledMetricsAreCurrent ==
    Quiet => \A f \in Fields : metrics[f].version = pins[f].version

(* rebuild_metrics: whatever overlaps, a metric's lineage resolves: the    *)
(* pin it was computed from is there.                                      *)
MetricsHaveLineage ==
    \A f \in Fields : metrics[f] # NoPin =>
        pins[f].version # 0 /\ pins[f].id = metrics[f].id

(* publish_provisional_mappings: when a publication ends, every fact it    *)
(* read as resolvable is public, or else what a review has put in its      *)
(* place since the publication found it public and wrote no pin; and no    *)
(* earlier provisional value of a fact it could not resolve is public.     *)
PublicationIsExact ==
    [][\A p \in Publishers : \A f \in Mapped :
        (CommitPublication(p) /\ f \in publish[p].active) =>
            LET v == pins'[f].version IN
            /\ publish[p].known[f] = "clear" =>
                 /\ v # 0
                 /\ \/ rows'[f][v].fact = publish[p].parse
                    \/ publish[p].plan[f] = "keep" /\ rows'[f][v].method # "xbrl"
            /\ publish[p].known[f] = "unresolved" =>
                 v = 0 \/ rows'[f][v].method # "xbrl"]_vars

-----------------------------------------------------------------------------
(* What the sessions rely on between their steps *)

(* complete_review, publish_provisional_mappings: an uncommitted version   *)
(* is nobody else's, and stays free until its session commits it.          *)
UncommittedRows ==
    /\ \A r \in Reviewers, f \in Fields, v \in Versions :
        Drafting(r, f, v) => Absent(f, v) /\ ~Pending(f, v, r)
    /\ \A p \in Publishers, f \in Fields, v \in Versions :
        publish[p].insert[f] = v => Absent(f, v) /\ ~Pending(f, v, p)

(* enqueue_sample, complete_review: reviews are about what the language    *)
(* model found, corrections are of decided reviews, and the row a request  *)
(* decides is still the one it judged.                                     *)
CasesHold ==
    /\ \A f \in Fields, v \in Versions :
        /\ reviews[f][v].status # "absent" => rows[f][v].method = "llm"
        /\ rows[f][v].qa = "provisional" => rows[f][v].method = "xbrl"
        /\ rows[f][v].method = "human" =>
             /\ rows[f][v].corrects \in Versions
             /\ reviews[f][rows[f][v].corrects].status
                  \in {"accepted", "corrected"}
    /\ \A r \in Reviewers :
        LET req == review[r] IN
        /\ req.pc \in {"lock", "insert", "count", "finish"} =>
             reviews[req.field][req.about].status # "absent"
        /\ (req.pc = "finish" /\ req.allowed /\ req.op = "accept") =>
             rows[req.field][req.about].confident

(* parse_filing, publish_provisional_mappings: a fact is of some parse.    *)
FactsHold ==
    /\ \A f \in Mapped : facts[f] # "none" => filing.parses # 0
    /\ \A p \in Publishers, f \in Mapped :
        publish[p].known[f] # "none" => publish[p].parse # 0

(* What a publication pins, or finds pinned, is the value of the fact it   *)
(* read.                                                                   *)
FromFact(pub, f) ==
    /\ f \in Mapped /\ pub.known[f] = "clear"
    /\ pub.to[f] \in Versions
    /\ \/ pub.insert[f] = pub.to[f]
       \/ LET row == rows[f][pub.to[f]] IN
          row.method = "xbrl" /\ row.qa = "provisional" /\ row.fact = pub.parse

PlanHolds(pub) ==
    /\ pub.pc \in {"insert", "select", "pin"} =>
         /\ pub.field \in pub.todo /\ pub.known[pub.field] = "clear"
         /\ pub.to[pub.field] \in Versions
    /\ pub.pc \in {"select", "pin"} => FromFact(pub, pub.field)
    /\ \A f \in pub.todo : pub.plan[f] = "keep"
    /\ pub.pc \notin {"next", "insert", "select", "pin"} =>
         pub.plan = [f \in Fields |-> "keep"]
    /\ \A f \in Fields : pub.plan[f] = "pin" => FromFact(pub, f)
    /\ pub.pc \in {"next", "insert", "select", "pin"} =>
         \A f \in pub.active \ pub.todo :
            pub.known[f] = "clear" => pub.plan[f] # "drop" /\ FromFact(pub, f)

(* publish_provisional_mappings: between its queries nobody changes what a *)
(* publication has decided about a field.                                  *)
PlansHold == \A p \in Publishers : PlanHolds(publish[p])

SessionsInv == UncommittedRows /\ CasesHold /\ FactsHold /\ PlansHold

(* publish_provisional_mappings, rebuild_metrics: a pin that is about to   *)
(* be deleted gets no metric.                                              *)
LineageInv ==
    /\ \A f \in Fields : pins[f].version # 0 => pins[f].id # 0
    /\ \A w \in Workers, f \in Fields :
        rebuild[w].snap[f] # NoPin => rebuild[w].snap[f].id # 0
    /\ \A p \in Publishers, f \in Fields :
        publish[p].plan[f] = "drop" => metrics[f] = NoPin

=============================================================================
