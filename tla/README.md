# TLA+ models of BRSR Lens

BRSR Lens collects the sustainability filings (BRSR) of Indian companies, extracts their
fields, publishes reviewed values as metrics and scores, and lets organisations prepare
their own filing in the Filing Studio. The backend is Python: a FastAPI application
(`src/api`), Celery workers (`src/worker`), PostgreSQL, Redis and an object store.
Everything that can go wrong between those parts goes wrong in PostgreSQL under READ
COMMITTED, between two statements of a session, or between the database and something
outside its transactions. The models are about those places.

## 1. The system

| component | state it keeps | operations | talks to |
|---|---|---|---|
| Filing Studio API (`routers/studio.py`, `services/studio.py`) | filing with its revision, answers, editor lock, proposals, exports | put answer, decide proposal, bulk accept, map section, export, download | engine, mapper, export generation, object store |
| Questionnaire engine (`worker/studio/engine.py`) | none (pure) | validate value, validate filing, progress | - |
| Export generation (`worker/exportgen`) | none (pure, calls Arelle) | gate, render | object store |
| Document mapper (`worker/studio/mapper.py`) | none (pure) | propose values for a section | - |
| Acquisition (`services/acquisition.py`, `worker/acquire`) | companies, filings, cursors, NSE offset, runs | fetch, store, upload, NSE batch | portals, object store, parser |
| Parsing (`worker/parse`) | facts, pages, field versions, filing status | parse a filing | object store |
| Extraction (`worker/extract`) | field versions, LLM usage | extract a filing | LLM gateway |
| Concept mappings (`worker/acquire/mappings.py`) | mappings, field versions, pins | seed, publish provisional values | - |
| Quality (`services/quality.py`, `publication_policy.py`) | review queue, quality statistics, corrected versions, pins | sample, review, pin | scoring (queues a rebuild) |
| Scoring (`worker/score`) | metrics, scores, shared phrases | rebuild | semantic cache (invalidates) |
| Semantic API (`routers/semantic.py`, `services/semantic.py`) | Redis cache, by plan and query | query, invalidate | metrics |
| Leads and engagement (`services/leads.py`, `engagement.py`) | leads, events, aggregates | score, route, retain | e-mail, webhook |
| Authentication (`routers/auth.py`) | users, refresh tokens | sign up, verify, log in, refresh | e-mail |
| Organisations and billing (`routers/orgs.py`, `billing.py`, `plans.py`) | organisations, members, invites, licences | invite, accept, change plan | e-mail |
| Quotas and rate limits (`services/quotas.py`, `rate_limit.py`) | Redis counters | consume | - |
| NLQ, research, trust, LLM gateway | little or none | read-only queries, disputes | - |
| Frontend, operations, migrations, taxonomy data | - | - | - |

What is hard here, component by component, and what makes each correct:

* **Studio**: several tabs and users edit one filing. The editor lock is a row taken with
  `FOR UPDATE`, a decision and its answer share a transaction, exports read answers without
  any lock and write the object store outside their transaction. Correct means: writes
  belong to the holder of the lease, what is stored validates, decisions and answers stay
  together, nothing that failed the gate can be downloaded, and the staleness flag tells
  the truth.
* **Engine**: pure, with Python's `Decimal` (NaN) and conditional fields at its edges.
* **Acquisition, parsing**: long runs with many commits, an artifact put before its row,
  rows loaded long before they are written, batches that fail in the middle, Celery retries.
  Correct means: no row names an artifact that is not there, a parsed filing shows the facts
  of the artifact it names, and the cursor of the batches leaves no company out.
* **Publication** (mappings, quality, scoring): three writers of pins and field versions,
  statistics read and written without locks, a rebuild triggered after a commit. Correct
  means: a pin shows a reviewed or provisional version, metrics show the pins.
* **Metrics and the semantic API**: metrics computed from metrics that a screen may withhold,
  a cache filled while its content changes, answers gated by the plan of who asks. Correct
  means: nothing is published that rests on an implausible value, no answer exceeds its plan,
  and the cache catches up with a rebuild.
* **Leads and events**: e-mail and webhook calls in the middle of one long transaction,
  retention that replaces events by counts. Correct means: a lead counts as routed only if the
  desk was told, an organisation is not approached twice in its quiet period, no event is lost.
* **Authentication, seats, quotas**: check-then-act against concurrent requests. Correct
  means: one live token per family, members that were invited and fit the seats, no more uses
  than the plan has.

`PROJECT.json` lists every component with its files and status, and every hazard at its
line with the properties that cover it.

## 2. Modules

| module | models |
|---|---|
| `StudioEngine` | the pure functions of `engine.py` and the gate of `xbrl.py` |
| `StudioFiling` | one filing under concurrent requests; state, one action per step of each handler, mutants, properties |
| `LeasedAnswers` | what the Studio promises its editors: atomic writes under a lease |
| `MCStudioFiling` | the form and the proposals the runs use |
| `StudioFilingProofs` | the inductive invariant and the theorems |
| `Publication` | one filing from extracted value to public metric: extraction, review, provisional publication, rebuild |
| `MCPublication` | the fields and families its runs use |
| `PublicationProofs` | the inductive invariant of `Publication` and the theorems |
| `Acquisition` | NSE batches, acquisition tasks with retries, uploads and parses, for one financial year |
| `MCAcquisition` | the cohort and what the portal may list |
| `AcquisitionProofs` | the inductive invariants of `Acquisition` and the theorems |
| `Leads` | events and privacy, scoring, routing, outcomes and retention |
| `MCLeads` | the users, the signals and their weights |
| `LeadsProofs` | the inductive invariants of `Leads` and the theorems |
| `Accounts` | accounts, families of refresh tokens, organisations, invites, memberships, licences |
| `MCAccounts` | the constraint that keeps tokens and organisations apart |
| `AccountsProofs` | the inductive invariant of `Accounts` and the theorems |
| `Metrics` | what a rebuild computes, as operators: candidates, screens, percentiles, changes, scores |
| `MetricsProofs` | lemmas about those operators, for any values |
| `Semantic` | extends `Metrics`: rebuilds and invalidation, the cache, plan gates and quotas |
| `MCSemantic` | three companies, a scoring file, the queries and plans |
| `SemanticProofs` | the inductive invariants of tables, cache, gates and quotas, and the theorems |
| `LeastElements` | least numbers, least finite sets and folds: what the proofs use for induction |

`StudioFiling` builds on `StudioEngine` and is shown to implement `LeasedAnswers`; `Semantic`
builds on `Metrics`. The other modules stand for themselves and meet at the tables they
share: `Acquisition` ends where a filing is parsed, `Publication` begins with what a parse
leaves (`StoreFiling`, `ParseFiling`) and ends with the pins of the metrics, `Semantic` begins
with what is pinned.

### StudioFiling and the code

A request is a record in `edit`, `render` or `scan` with a program counter. A step is what
happens between two visible points of its session: one SELECT, one blocking statement,
one `store.put`, or the commit, at which everything the session wrote becomes visible.

| variable | code |
|---|---|
| `revision` | `studio_filings.answers_revision` |
| `answers` | `studio_answers` (value, author, review state, evidence) |
| `lock`, `lockOwner` | the `studio_editor_locks` row; the session that holds PostgreSQL's row lock on it |
| `proposals` | `studio_proposals` (review state, who decided) |
| `exports` | `studio_exports`, one entry for the rows of one call |
| `store` | the objects under `studio/{filing}/v{version}/` |
| `clock` | the servers' clock, in units of the lock's lifetime |

| steps | handler |
|---|---|
| `StartPut`, `ReadFiling`, `Stamp`, `SelectLock`, `InsertLock`, `MarkStale`, `CommitAnswer` | `put_answer`, with `write_answer` and `acquire_lock` |
| `StartDecision`, `ReadProposal`, `FlushDecision`, then the steps above, or `CommitRejection` | `decide_proposal` |
| `StartBulk`, `BulkPick`, the steps of a decision, `BulkDone` | `bulk_accept` |
| `StartMapping`, `CommitMapping` | `map_section`, `propose_for_section` |
| `StartExport`, `ExportReadFiling`, `ExportReadAnswers`, `ExportReadVersion`, `PutArtifact`, `CommitExport` | `create_exports`, `generate_exports` |
| `FailEdit`, `FailMapping`, `FailExport` | any exception, lost connection or crash |

Details that decide behaviours and are in the model:

* The session autoflushes before every query, so the UPDATE of a decided proposal runs,
  and locks its row, before the editor lock is asked for (`FlushDecision`).
* An UPDATE names only the columns whose value changed (`sets`): two decisions of one
  proposal can each leave a column of the other's.
* `acquire_lock` reads the clock before it waits (`at`). The first lock of a filing is an
  INSERT, which waits for a concurrent one and then violates the unique constraint.
* `bulk_accept` commits proposal by proposal. The session keeps no strong reference to the
  filing or the lock between two of them, so each one reads them again.
* The staleness UPDATE reaches the exports that are committed when it runs (`seen`).
* `store.put` replaces whatever the key holds and is never rolled back.
* `Decimal("NaN")` passes value validation and raises in the reconciliation.

Abstractions: text, booleans and dates are members of `Numbers`, since the engine only
compares them; the verdict of Arelle is a free choice per export; the instants of a request
are the ones at which it touches shared state.

Not modelled here: client companies, comments, `progress()`, the year-on-year warnings (an
export passes no prior year) and the gap report's contents; document uploads and the token
quota of mapping runs are in `Semantic`. None of them writes the state above. `filing.status` never
changes after creation.

### Publication and the code

Sessions are again records with a program counter: `review` (the requests that decide a
review), `publish` (runs of `publish_provisional_mappings`), `rebuild` (runs of
`rebuild_metrics`) and `extract`. What a session wrote shows in the shared variables at its
commit; until then it is in its record, and `Pending`, `ReviewLocked`, `StatLocked` and
`PinLocked` say what it makes others wait for.

| variable | code |
|---|---|
| `filing`, `facts` | `filings` (adapter, status), the raw object and `xbrl_facts` of one filing |
| `rejected` | `concept_mappings.review_status` |
| `rows` | `extracted_fields`, by field and version |
| `reviews` | `qa_reviews`, by the row they are about |
| `stats` | `quality_stats`, by family |
| `pins` | `field_version_pins`; `id` tells a deleted and inserted pin from the old one |
| `metrics` | `metrics` and `scores`: the pin each was computed from |
| `queue` | rebuild tasks in the broker |
| `lost` | history: a rebuild the pins need was lost, or overlapped another |

| steps | handler |
|---|---|
| `StoreFiling`, `ParseFiling`, `ReviewConceptMapping` | `store_filing`, `parse_filing`, `review_concept_mapping`, as a publication sees them |
| `StartExtraction`, `CommitExtraction`, `EnqueueSample` | `run_extraction`, `enqueue_sample` |
| `StartReview`, `LockAccepted` or `LockCorrected` and `InsertCorrection`, `CountOutcome`, `FinishReview`, `NotifyReview` | `decide_review` with `complete_review`, `_record_outcome`, `update_pin_if_publishable` |
| `StartPublication`, `DropRejected`, `ReadFacts`, then per field `SkipMissing`, `Withhold`, or `ReadLatest`, `InsertProvisional`, `SelectPin`, `FlushPin`, then `CommitPublication`, `NotifyPublication` | `publish_provisional_mappings` and its callers |
| `ReadPins`, `DeleteMetrics`, `InsertMetrics` | `rebuild_metrics` |
| `FailReview`, `FailPublication`, `FailRebuild` | any exception, lost connection or crash |

Details that decide behaviours and are in the model:

* Autoflush orders the locks of a review: its own row and the extracted value, then the
  family's statistics, then the pin. A correction locks the review before it reads
  `max(version)`, so two corrections of one review both succeed, the second with one more
  version; corrections of two reviews of one field collide on the unique constraint.
* The UPDATE of the statistics names `reviewed_count`, and the other two columns only when
  this session changed them, comparing the exact ratio with the rounded `Numeric(7, 6)` it
  read (`WrittenStat`).
* The policy judges the accuracy this session computed, not the one that is stored in the end.
* `_record_outcome` raises for a family without a row. Nothing in the program inserts one
  that works, so `Seeded` is the families for which an operator did.
* Assigning a pin the version it has is no change: a publication that finds its own version
  pinned sends no UPDATE and takes no lock (`SelectPin`), and a review that does writes at most
  `pinned_by_user_id` (`Repoints`, `FinishReview`).
* The pins of rejected mappings are deleted and committed before the publication reads facts.
* Deleting a pin that a metric refers to fails: the foreign keys have no ON DELETE.
* The DELETE of a rebuild waits for the rebuilds that deleted the same rows before it
  (`behind`), and does not see what they insert while it waits (`blind`); metric ids depend
  on company, year and key, so its own INSERTs then collide.

Abstractions: every field has at most one mapping, as in `nse_concept_mappings.yaml`; every
pin is referenced by a metric after a rebuild; fields of a publication are taken in any
order; facts and filings are read as one step; a confidence is whether it may be published;
the database trigger on pins is not modelled because `PinsAreQualified` shows that it never
fires. `BRSR_` concepts of the taxonomy do not occur in NSE instances, so parsing itself adds
no field version. Not modelled here: who pinned and
annotations; the numbers of the metrics and the semantic cache are in `Semantic`.

### Acquisition and the code

One financial year. A session is a batch (`ingest_nse_batch`), a task (`acquire_company_fy`),
an upload or a parse task; it keeps the rows it loaded, since SQLAlchemy writes only the columns
that changed since then (`Flushed`).

| variable | code |
|---|---|
| `companies` | `companies`: absent, registered by ISIN, or with a CIN |
| `filings` | `filings`: status, raw key, checksum, error |
| `facts`, `pages` | the instance the filing's `xbrl_facts`, and the PDF its `filing_pages`, were read from |
| `objects` | the object store, by company, identifier and file name |
| `offset` | `ingestion_state.next_offset` |
| `cursors` | `acquisition_cursors` |
| `runs` | `ingestion_runs`: status and counters; history: whom the run selected, whom it left parsed or missing |
| `skipped`, `disturbed` | history: offsets an explicit `--start` jumped over; companies two sessions were at, or whose artifact was put by a store that then failed |

| steps | handler |
|---|---|
| `StartBatch`, `RegisterCompany`, per company `RecordMissing` or a store and a parse, `FinishBatch` | `ingest_nse_batch` with `registry`, `parse_portal_response`, `_record_missing` |
| `LookupFiling`, `PutObject`, `SaveFiling` | `store_filing` |
| `StartParse`, `ReadArtifact`, `WriteFacts` | `parse_filing` |
| `StartTask`, `FetchArtifact`, `SaveCursor`, then a store or `RecordMissing` | `acquire_company_fy`, `acquire_one` with the `company_ir` adapter |
| `StartUpload`, then a store | `upload_filing` |
| `FailBatch`, `FailTask` (with Celery's retry), `FailRequest`, `Crash` | exceptions, refusals, lost workers |

Details that decide behaviours and are in the model:

* A fetch that finds the checksum of the row returns before it sets any status, whatever the
  status was.
* The object is put before the row is committed, under a key that a later revision of the
  same name shares.
* A company that a source has nothing for gets status "missing" over whatever row there was;
  artifact, checksum and facts stay.
* A parse replaces the facts if the artifact is an XBRL instance and the pages if it is a PDF,
  and leaves the other as they were.
* An exception in a batch: the rollback expires the run object, so the handler's own
  `run.error_count += 1` raises. Nothing is counted, no other company is tried, the run stays
  "running" and the offset where it was.
* The cursor of a task is committed before its artifact is stored, and once an artifact URL
  is known it is never looked for again.
* Parsing an instance that states a CIN gives the company its CIN, and with it another key.

Abstractions: a portal row is a year, whether there is a file, two dates, a name and a
content; contents are told apart by their checksums; a parse takes the row before it deletes
facts, so what follows is one step. Not modelled: the exchange adapters, which only fetch a
templated URL, HTTP sessions, CSV parsing, throttling and the text of pages and facts.

### Leads and the code

A session is a run of the hourly task over all users, a deep-dive request, or a retention run.
Each is one transaction: what it wrote is in its record (`mine`), invisible and locked until
`Commit`; what it sent is sent.

| variable | code |
|---|---|
| `events`, `aggregates` | `events`, `event_daily_aggregates` |
| `leads` | `leads`: status, user, organisation, score, instant signal, `routed_at` |
| `optedOut` | `users.analytics_opt_out` |
| `channels` | the settings `lead_routing_enabled`, `lead_webhook_url` and `lead_webhook_secret`: routing off, e-mail only, or e-mail and webhook; any of them, for a whole behaviour |
| `sent`, `written`, `blurred`, `raced` | history: what left the system for a lead; events written and not erased; days that were written or erased out of turn; users and organisations two sessions decided on at once |

| steps | handler |
|---|---|
| `IngestEvent`, `MergeHistory`, `PrivacyDelete`, `PrivacyPreference` | `ingest_events`, `merge_anonymous_history`, the privacy endpoints |
| `StartHourly`, then per user `ScoreUser`, `FlushLead`, `CheckRoute`, `SendMail`, `PostWebhook`, `MarkRouted`, and `Commit` | `_score_and_route` with `score_user_lead`, `routing_eligible`, `route_lead` |
| `StartDeepDive`, `AskDeepDive`, then the steps of one user | the deep-dive request |
| `UpdateOutcome` | `update_lead_outcome` |
| `StartRetention`, `DeleteExpired` | `enforce_event_retention` |
| `FailSession` | exceptions, deadlocks, crashes |

Users of a run are taken in any order. A failed e-mail is noted and the webhook, if one is
configured, is called all the same; a lead is routed when all that is configured went through.
The preference a session loaded with its user stays what it was for the session, except that
`persist_events` reads it again. Days pass only between sessions. Not modelled: analytics,
funnel and digest queries, which only read.

### Accounts and the code

| variable | code |
|---|---|
| `account` | `users`: none, unverified, verified |
| `tokens` | `refresh_tokens`: family, user, revoked, replaced by, reuse noticed |
| `orgs`, `memberships`, `invites` | `orgs` with `licence_state`, `org_memberships`, `org_invites` |
| `raced`, `crowded` | history: families that two requests were at when one found a reuse or judged its token; organisations that were overbooked: an invite was made when their seats were taken or promised, or they were sold fewer seats than that |

| steps | handler |
|---|---|
| `Signup`, `VerifyEmail`, `Login` | `routers/auth.py` |
| `StartRefresh`, `LockToken`, then `Rotate` or `FindFamily` and `RevokeFamily`, `CommitRefresh` | `refresh`, `create_refresh_token` |
| `CreateOrg`, `SetLicence`, `LicenceRunsOut` | `create_org`, `routers/billing.py`, `licence_state` |
| `StartInvite`, `CountMembers`, `SaveInvite` | `invite_member` |
| `StartAccept`, `FindMembership`, `SaveAccept` | `accept_invite` |
| `Fail` | error answers, rollbacks, crashes |

The `SELECT ... FOR UPDATE` of a refresh waits for the row and then sees its committed state.
The `UPDATE` that revokes a family finds the rows that are committed when it starts and then
waits for those that are locked, so a child that is inserted meanwhile is not among them: that
is what `raced` notes. Seats are counted when an invite is made and taken when it is accepted.
The count sees members only, so the last seat can be promised twice; `Booked` counts members,
open invites and invites that are being made, and `Overbooks` is when such a promise is one too
many. Passwords, token strings and expiry are abstracted: a refusal may come at any time.

### Metrics, Semantic and the code

`Metrics` has no state. `Candidates` is the additive and derived part of `metrics.py`, in the
order of `scoring.yaml`; `Implausible` and `Closure` are the identity and sign screens with
what depends on them; `Percentile` is the mean rank among ties, rounded half to even;
`Shared`, `Completeness`, `Substance` and `Assurance` are the shared phrases and the scores, a
text being its runs of eight words and the signals found in it; `Tables` is what
`rebuild_metrics` inserts. Decimals are integers: quotients are taken of values that divide, percentiles and scores count in ten-thousandths of a percent.

| variable of `Semantic` | code |
|---|---|
| `pinned`, `tables` | the pinned rows; `metrics`, `shared_phrases` and `scores` |
| `built`, `basis` | the number of rebuilds that committed, and what the last of them found pinned |
| `tier` | the plan of the organisation that asks |
| `cache`, `counter` | Redis: responses by plan and query; uses by quota, plan and period, each with its expiry |
| `documents`, `usage` | the size of all `studio_docs`, in tokens; the sum of `studio_token_usage` by month |
| `granted`, `lost`, `strayed` | history: uses that were granted; answers an invalidation did not come to; counters a use came to after their period |
| `ceiling`, `unseen` | history: of a month, the most a plan let its mapping runs use; months charged with what no check had seen |

| steps | handler |
|---|---|
| `StartRebuild`, `CommitRebuild`, `StartScan`, `ScanPage`, `EndScan`, `FailRebuild` | `run_rebuild`: `rebuild_metrics`, then `invalidate_semantic_cache` |
| `StartWeb`, `LookupCache`, `ReadMeasure` per measure, `EndQuery`, `StoreAnswer` | `semantic_query`, `execute_query` |
| `StartMetered`, per quota `NamePeriod`, `CountUse`, `ExpireCounter`, then `Translate` or the query | the NLQ, dataset and board-PDF endpoints with `enforce_quota` |
| `UploadDocument`, `StartMapping`, `SumUsage`, `EstimateTokens`, `ChargeTokens` | `upload_document`; `map_section`, as far as the token quota goes (its proposals are in `StudioFiling`) |
| `Tick`, `ChangePlan`, `Publish` | Redis' expiry, `change_plan`, what `Publication` does to pins |

What a statement reads is named by the build it comes from (`Row`), so that the content of the
tables and the age of an answer are stated apart. A SCAN returns what is there from its
beginning to its end, in any pages, and perhaps what comes meanwhile. Not modelled: the SQL of
a query (filters, grouping, order), the catalog, API keys, text of questions.

## 3. Runs

| run | module | shows |
|---|---|---|
| `studio_edit` | `MCStudioFiling` | editors: what is stored is valid and decided, and the answers implement the lease |
| `studio_export` | `MCStudioFiling` | exports: downloads passed the gate, staleness tells the truth |
| `studio_solo` | `MCStudioFiling` | what is exact without overlaps: artifacts, revision |
| `studio_live` | `MCStudioFiling` | every accepted request ends |
| `pub_review` | `MCPublication` | one reviewer: statistics, queue, rows and pins agree |
| `pub_overlap` | `MCPublication` | overlapping reviews and a publication: what is public was reviewed or is provisional, and is what the publication read unless a review moved a pin it had no need to write |
| `pub_metrics` | `MCPublication` | rebuilds: metrics refer to pins and catch up with them |
| `acquire` | `MCAcquisition` | artifacts, rows, facts, pages and offset agree, and completed runs leave nobody out |
| `acquire_abort` | `MCAcquisition` | violation: a failed company ends its batch |
| `leads` | `MCLeads` | routing, suppression and retention |
| `accounts` | `MCAccounts` | token families, memberships and seats |
| `semantic` | `MCSemantic` | numbers, cache, plan gates and quotas |

Each property of a passing run has a mutant, a definition beside the one it replaces, that a
plausible slip in that code would produce and that the run catches.

**Studio.** A form with the fields `part` and `total`, where `total` must equal `part`, and
proposals `p_total` (valid) and `p_part` (a value validation refuses). One relation, one
refusal and one acceptance are what the properties tell apart.

| run | properties | bounds |
|---|---|---|
| `studio_edit` | `TypeOK`, `StoredAnswersValid`, `AIAnswersDecided`, `DecisionsReachAnswers`, and the refinement `WritesAreLeased` | two users, two overlapping editor requests, a mapping run; `MaxRevision = 1`: no request starts after the first committed write, and two that started before it overlap with it; `MaxTime = 1 = Lifetime`: a lease can expire |
| `studio_export` | `DownloadsPassedGate`, `FreshUnlessRaced` | an editor and two overlapping exports; one committed export bounds the starts, so two in flight give a history of two |
| `studio_solo` | `ArtifactsAreOwn`, `RevisionCountsWrites` | one editor request and one export at a time; two writes, two exports, one kind of artifact |
| `studio_live` | `RequestsEnd`, under `FairSpec` | one field and one proposal, two editor requests |

The export runs stop when the bounds are reached and every request has ended
(`CHECK_DEADLOCK FALSE`): with `MaxTime = 0` and a full history nothing can start.
Symmetry is used in `studio_edit` and `studio_export`, over users and requests, which no
definition tells apart; it is not used with liveness.

**Fairness** (`FairSpec`). Weak fairness of each request's own steps: the event loop runs
what it accepted. Strong fairness of the steps that wait for a row lock: PostgreSQL grants
row locks in the order of the waiters. No fairness for clients, failures or the clock. The
other modules state safety only.

**Publication.** The field `energy`, which has an NSE concept, and `policy`, which has none.
`Reviewed = 49` reviews, all correct, with a target of 98 %: one correction leaves the family
at 98 % and on target, a second one puts it below. That is the boundary the policy has to get
right.

| run | properties | bounds |
|---|---|---|
| `pub_review` | `TypeOK`, `StatsCountDecisions`, `ReviewsMatchRows`, `ReviewPublishesOnTarget` | one reviewer, two fields of one family, extraction again and again; 3 versions, 2 of them extracted: a second correction of a field is reached |
| `pub_overlap` | `PublishedIsReviewed`, `PinsAreQualified`, `PublicationIsExact` | two reviewers, a publication, an extraction, the filing stored and parsed twice; one field, so that everybody meets on it; 3 versions |
| `pub_metrics` | `SettledMetricsAreCurrent`, `MetricsHaveLineage` | a reviewer, a publication, a mapping that can be rejected, two rebuilds, failures; 2 versions, one store, one parse, 2 pin rows, one queued rebuild |

`PublicationIsExact` is about the commit of a publication: for each fact it read as resolvable,
the public value is that of the fact. A publication that found its own version pinned wrote
no pin, so a review may have put its correction there since; that is the one exception, and
the run reaches it.
`pub_review` stops when every review is decided. Its properties are those of one reviewer at
a time, on purpose: with two, the statistics mix (hazard at `quality.py:66`) and one review can
be corrected twice (`quality.py:82`). What holds whatever overlaps is in `pub_overlap`.
`SettledMetricsAreCurrent` excepts a rebuild that was lost (a crash between commit and
`delay`, the publish command, which queues none) and overlapping rebuilds (`lost`): those
leave old metrics until the next one.

**Acquisition.** Two sessions of any kind (`MaxSessions = 2`, so every pair of a batch, a task,
an upload and a parse, overlapping or one after the other) over a cohort of two companies, of
which the first is also the one that tasks, uploads and parses are about. The portal has
nothing, only rows that do not count, an instance, or an instance and its revision under the
same name. Batches take every mode, limit 1 or 2, and an explicit start; a task is tried
twice. Two companies are what it takes for a batch to fail between them and for two
identifiers to meet; two contents of one key are what it takes to tell facts from artifact.
`acquire` checks:

* `ArtifactsPrecedeRows`: no row names an artifact that is not there, whatever fails between
  put, commit and parse.
* `CursorLeavesNoGap`: every company before the offset has a row of the year, also when
  batches fail, crash or overlap (an explicit `--start` may jump: `skipped`).
* `CompletedRunsAddUp`: in a completed run discovered = parsed + missing, every company it
  selected has a filing, and the run left it parsed or missing (`settled`), although a batch
  goes through a store, a parse and their failures, unless `disturbed`.
* `ParsedFactsAreCurrent`: a parsed filing shows the facts of the instance, or the pages of the
  PDF, that its row names. Two sessions at one company, or a store that ends between put and
  commit (`disturbed`), can break that, and the model reaches both. It does not say that
  nothing else is shown: a PDF that is parsed after an instance leaves the old facts.

The runs of `Acquisition` end when their sessions are used up (`CHECK_DEADLOCK FALSE`).

**Leads.** Two colleagues, a browser that becomes one of them, two sessions of any kind, two
events or other acts, two leads, one day boundary; every window is 0 days, so that "today" is
inside and "yesterday" outside. A gap report is worth half the threshold, a deep-dive request
routes at once: one run below the threshold, at it, and past it by the instant signal.

* `RoutedLeadsWereSent`: nobody marks a lead that the desk was not told of every way the
  settings configure, nor any while routing is off. Each configuration is explored.
* `OrganisationsAreSuppressed`: two routed leads of an organisation are far enough apart, also
  within one run, where the first is flushed and not committed. Two sessions that decide
  before either commits are excepted (`raced`): nothing in the code orders them.
* `OneOpenLead`: a user's open lead is found again by the next scoring; excepted are two
  sessions at the same user's leads (`raced`).
* `EventsAreAccounted`: what was written of a name on a day and not erased is in `events` or
  in the aggregate, also when two retention runs overlap, unless an event of that day came or
  went after its retention (`blurred`), which the aggregate's replacement does not survive.

**Accounts.** Three users, an organisation of at most three seats, two requests, four tokens
(two families, or one with three rotations), two invites. Tokens and organisations share only
the accounts and the open requests, so `TokensOrOrganisations` follows behaviours that have one
or the other. `OneLiveTokenPerFamily` and `ReuseEndsTheFamily` are about retries and duplicates
of a refresh; a reuse that overlaps another refresh of the family is excepted (`raced`), since
its UPDATE cannot see the child that is being inserted. `SeatsSuffice` is about members and open
invites together; it excepts an organisation that was sold fewer seats than are booked or
invited somebody when they were all booked (`crowded`): the code counts members and not
invites. Two invites that are open or made at once, with seats for both, are within the bounds.

**Semantic.** `StaysInOneQuarter` explores numbers, cache, counters and mapping runs apart,
which share nothing but the plan and the clock. *Numbers*: three companies, two of one sector, one with two years;
six kinds of filings, plain ones of two sizes, one that breaks an identity, one with a negative
and one with a zero denominator, one that leaves a field out, in every combination, with a
metric computed from a metric an identity may withhold, and phrases used by one company, by
one in two years, or by several. *Cache*: two requests, a rebuild that
commits, clears the cache and may fail, a change of plan, an expiry. *Counters*: two metered
requests, a request with two quotas, the end of a period and the expiry of a counter. *Mapping
runs*: two of them, a document that is uploaded meanwhile, a plan with and one without tokens,
a change between them and the end of a month.

* `WithheldStaysUnpublished`: a metric is published exactly when it can be computed and
  nothing it rests on fails a screen.
* `ComparisonsArePublished`: percentiles order as values do, from 0 to 100, sector percentiles
  are there when the published cohort is large enough, changes are from published metrics, and
  a text loses originality to phrases of enough companies only.
* `AnswersFitThePlan`: no answer, cached or not, shows a measure above the plan or names
  companies to visitors.
* `CachedAnswersAreCurrent`: a cached answer shows the last rebuild unless that committed while
  the answer was computed (`late`), is not done clearing, or failed doing so (`lost`).
* `QuotasAreKept`: no more uses granted in a period than the plan has, unless a use came to
  its counter when the period was over (`strayed`); and no more tokens in a month than a plan
  and one run's output, unless a run was charged after another had summed the month up
  (`unseen`): the code sums, checks and charges in three statements without a lock.

Symmetry in `pub_overlap`, `pub_metrics`, `leads`, `accounts` and `semantic` is over users,
reviewers, workers, sessions and requests, which no definition tells apart.

## 4. Proofs

### Studio

`StudioFilingProofs` proves, for any fields, values, form, users, proposals, artifact kinds,
numbers of concurrent requests and bounds, from `EngineAssumption` and `FilingAssumption`
only:

* `TypeCorrect`, `AnswersAlwaysValid`, `NoUndecidedAIAnswer`, `NoLostDecision`,
  `ExportsPassGate`, `StalenessTrusted`: safety properties of the runs;
* `EditorsSafe`: what a request validated and locked stays so until it commits;
* `ImplementsLease`: `Spec` implements `LeasedAnswers` with `lease <- lock`.

The argument is one inductive invariant,

    IInv == TypeOK /\ EditorsInv /\ AnswersInv /\ ExportsInv /\ FreshUnlessRaced

None of the properties is inductive alone. That a commit leaves a valid answer needs
`RequestsValid`: what a request learned at one step (value validated, proposal exists and is
for its field, decision recorded or about to be) still holds at its commit, whatever the
others did. That a commit is a legal write of the lease needs `LockHeld`: from its lock query
to its commit a request owns the row, so the lease it judged is the lease it replaces. That
the staleness flag can be trusted needs `OverlapsKnown`: an export in flight holds the
current answers or knows it was overlapped, and a committing write has seen every export
that does not know. That downloads passed the gate, with two exports of one version
overwriting each other, needs `StoreHolds`: whatever a key holds passed the gate. The proof
takes `Next` action by action for each part.

Two properties hold while requests of a kind come one at a time. They are proved as
implications of that, for any number of clients, and requests of other kinds overlap freely:

* `SoleExportsKeepTheirArtifacts`: `Spec /\ []OneExport => []ArtifactsAreOwn`. An export has a
  version no committed export has, and what it has put so far is its own, also over what a
  failed export left under the same keys (`PutsItsOwn`).
* `SoleEditsAreCounted`: `Spec /\ []OneEdit => RevisionCountsWrites`. From the moment it read the
  filing to its commit, the only open edit knows the revision (`RevisionRead`).

Checked by TLC only: `RequestsEnd`, which is liveness.

### Publication

`PublicationProofs` proves, for any fields, families, mappings, targets, numbers of
concurrent reviewers, publications, rebuilds and extractions and any bounds, from
`PublicationAssumption` and `SessionsAssumption` (session identities differ):

* `TypeCorrect`, `OnlyReviewedIsPublic`, `OnlyQualifiedPins`, `LineageKept`: the safety
  properties that hold whatever overlaps;
* `SessionsUndisturbed` and `DeletedPinsUnused`: what sessions rely on between their queries;
* `PublicationDoesWhatItRead`: `PublicationIsExact`, when at most one publication runs at a
  time (`Alone`), under any reviews, extractions, parses and rebuilds.

The inductive invariant is

    IInv == TypeOK /\ PublishedIsReviewed /\ PinsAreQualified /\ MetricsHaveLineage
            /\ SessionsInv /\ LineageInv

The three properties say what is committed; they survive a commit only because of what the
session that commits still knows to be true:

* `UncommittedRows`: a version a session has flushed is free in the database and flushed by
  nobody else, which is what the unique constraint and its waiting INSERT give. Without it a
  commit could replace a published row.
* `CasesHold`: a decided review is about a row of the language model, a correction points to
  a decided review, and the row that is being accepted is as confident as it was judged to
  be. `PublishedIsReviewed` of the pin a review moves needs all three.
* `FactsHold` and `PlansHold`: what a publication has decided about a field stays what its
  queries said: the version it points to is its own insert or a committed provisional row
  with this parse's value.
* `LineageInv`: a pin that is about to be deleted has no metric and can get none, because
  the uncommitted delete holds the row that the metric's foreign key must lock.

`PublicationIsExact` needs `Withheld` as well: a fact the publication could not resolve and
is done with is about to be dropped, or has no provisional value in public. Another
publication could publish it again in between, so this one is proved under `Alone` only;
reviews cannot (`KeptOrReviewed`): what they put in place of a pin that the publication found
pointing to its own version, and so did not write, is a reviewed value (`SelectPinInv` is what the
SELECT of the pin adds).

`MetricsSettle` proves `SettledMetricsAreCurrent` for any number of sessions, rebuilds and
queued tasks, from `SettlingInv`: while nothing was lost, at most one rebuild runs, it has not
missed a change (`SoleRebuild`) and, as long as no rebuild is owed to anybody, it read the
pins as they are, or there is none and the metrics show the pins.

Three properties hold for one reviewer session (`OneReviewer`, the hypothesis of their
theorems, since two mix the statistics), under any publications, extractions, parses and
rebuilds:

* `ReviewsTellOneStory` (`ReviewsMatchRows`), from `ReviewsInv`: a review that is being decided
  is still queued, its correction is a later version than the one it corrects, and only a
  review marks what the language model found (`RowsPlain`).
* `DecisionsCounted` (`StatsCountDecisions`), from `StatsInv`: the cases of a family are finite,
  and a decision adds exactly one to those the statistics count.
* `ReviewsPublishOnTarget` (`ReviewPublishesOnTarget`): only the end of a review publishes a
  value of the language model, the statistics it leaves are those it judged, and rounding an
  accuracy to millionths does not take it below the target.

### Accounts

`AccountsProofs` proves, for any users, organisations, numbers of concurrent requests and
bounds, from `AccountsAssumption` only, every invariant of the run: `AccountsTyped`,
`OneTokenIsLive`, `ReuseIsFinal` and `MembersWereInvited`, from the inductive invariant

    IInv == RefreshInv /\ OrgsInv

`RefreshInv` is about what a refresh holds from its `SELECT ... FOR UPDATE` to its commit:

* `Holds`, `Apart`: its locks are on its token and on others of the family, and no two
  requests lock or write one row. So what it judged (`Judged`) still holds when it writes: a
  token that is about to be rotated is not revoked by anybody else meanwhile.
* `Commits`: what it writes is either its token revoked with one live child (`Rotates`), which
  keeps one live token where there was one, or its targets, all revoked (`Revokes`).
* `Known`, `Whole`: two requests at a family are noted in `raced`, and a reuse that is alone
  has found its whole family. That is what makes reuse final.
* `FamiliesNamed`: the first token of a family is there, so a login cannot join one.

`OrgsInv` says what an organisation's rows rest on: an acceptance in flight is about an
invite of its user in an organisation that exists (`Addressed`), a membership on its
creation or an accepted invite (`GrantedTo`), an accepted invite has its membership, and a
user has one.

and `MembersHaveSeats` (`SeatsSuffice`) from `SeatsInv`: an organisation that is not `crowded`
has a seat for everything that is `Booked`: members, open invites and invites that are about
to be made. An invite that is saved, and an acceptance that joins, only turn one into the
next. All three are finitely many; for the last, `AccountsAssumption` says that there are
finitely many requests at a time.

### Acquisition

`AcquisitionProofs` proves, for any registry, companies, listings of the portal, numbers of
overlapping batches, tasks, uploads and parses and any bounds, from `AcquisitionAssumption`
only, every invariant of the run: `AcquisitionTyped`, `ArtifactsFirst`, `CursorWithoutGap`,
`RunsAddUp` and `FactsCurrent`. The invariants build on each other:

* `Typed`: types, and what a session has by how far it came (`Shaped`): a batch is at the
  first company of those left to it, the company of a task has a row.
* `ArtifactsKept`: what a session loaded may be old, and SQLAlchemy writes back only some of
  its columns; that the result still names an object needs that objects and raw keys never go
  away (`Sane`).
* `BatchesKept`: what a batch counted and what it has left make up what it selected, whom it is
  done with it has settled unless disturbed, and what it has left is the registry from where
  it is. With it a cursor that moves past a company
  moves past a row, and an aborted batch moves nothing.
* `CurrentKept`, for companies not in `disturbed`: whoever is at a company has its row as it
  is, its artifact is the object of its row unless a store is about to commit another, and a
  parse has read what it is about to write.

### Semantic

`SemanticProofs` proves, for any queries, plans, limits, numbers of concurrent requests and
rebuilds and any bounds, every invariant of the run:

* `SemanticTyped`;
* `AnswersFit`: what a request has read, and is still to read, is for its plan, and so is what
  is cached under a plan (`FitsRequest`); a plan that changes in between leaves the request at
  the plan it was let in with;
* `CachedAnswersCurrent`, which needs only that a rebuild without a scan deletes no keys: each
  step is a case of the property's own exceptions;
* `QuotasKept`: a counter is at least what was granted in its period and not yet forgotten,
  with the use that is between its `INCR` and its `EXPIRE` counted (`Pending`), so that only a
  use that comes late to its period (`strayed`) finds a fresh one; and a mapping run that was
  let in fits what its month may use with what was charged when it summed the month up, so
  that only a run that was charged unseen (`unseen`) exceeds it;
* `WithheldAlways` and `ComparedAlways`, about the numbers themselves: the tables are always
  what a rebuild computes from its `basis` (`TablesAreTheirBuilds`), and `MetricsProofs` says
  what that is, for any scoring file and any values.

The first four need `SemanticAssumption` only. The numbers need what the constants of
`Metrics` are asked: `MetricsAssumption` (finitely many companies and metrics, no key defined
twice), `WeightsAssumption` (the weights of a score add up to 100, as in `scoring.yaml`),
`ScoringAssumption` (a metric rests on no more than its sources and theirs) and
`DisclosureAssumption` (pinned values are of known fields and texts are finite).

`MetricsProofs` goes from the operators up:

* `ClosureMeets`: a metric is in the closure of the withheld keys exactly when something it
  rests on is withheld. `Closure` takes as many rounds as there are keys; `ScoringAssumption`
  says that the third adds nothing. `KeptKeys` and `MetricsOfFiling` make that the rows of a
  filing.
* `SumAny` and `SumMore`: a sum over a finite set of keys is an integer and does not depend on
  an order; `KeptTyped`: so are all candidates.
* `RoundMeans`, `RoundExact`, `RoundBounded`, `RoundMore`: rounding half to even is off by a
  half at most, keeps whole numbers and bounds, and keeps apart what is more than one apart.
  `PercentilesOrder`, `LowestIsZero`, `HighestIsHundred` follow for cohorts of rows of which
  no two are alike (`Comparable`).
* `MetricsCompared`: the cohort of a metric in the table is the cohort of its row, since
  materialising is one to one, so what was proved of rows holds of metrics (`WellCompared`).
* `CompletenessTyped`, `SubstanceTyped`, `AssuranceTyped`: scores are from 0 to 100;
  `SubstanceExact`: rounding does not hide that a phrase is shared.

`ComparedAlways` has two hypotheses, both about rounding to ten-thousandths: `FewCompanies`
(a million at most: with more, two neighbours can round to one percentile) and
`TextsAreShort` (fewer phrases than 20000 times the weight of originality, 400000 in
`scoring.yaml`: with more, one shared phrase can round to nothing). The code
rounds so, too (`quantize`), and loses the difference there.

### Leads

`LeadsProofs` proves, for any users, organisations, events, rules, numbers of overlapping
sessions and any bounds, from `LeadsAssumption` only, every invariant of the run:
`LeadsTyped`, `EventsAccounted`, `RoutedWereSent`, `OrganisationsSuppressed` and
`UsersHaveOneOpenLead`. The invariants:

* `Typed` with `Identified` and `Counted`: event identities are unique also across a session's
  uncommitted request, so numbers of events add up; nobody erases more than was written.
* `AccountsKept`: a day is either counted in `events` and has no aggregate, or was replaced; a
  retention run's counts are still right when it writes them.
* `RowsKept`: no two sessions hold uncommitted writes of one row, and a row keeps its user and
  organisation, so a session that loaded a row long ago still knows whose it is.
* `SentKept`: a row that is routed, in the table or in a session, was sent every way that is
  configured, and a session that is past one of the calls has made it.
* `GapsKept`, per organisation not in `raced`: what is committed is spaced (`Far`), what each
  session sees is spaced, whoever is about to route sees no other lead that was recently
  routed, and at most one session is `Routing`. The third is why a decision made at the check
  still holds at the UPDATE, two external calls later; the fourth why a commit does not close
  the gap of what another session sees.
* `AskedKept`, `LonesKept`, per user not in `raced`: a deep-dive request has its own event as a
  signal, so the fallback lead, which is opened without a look at open ones, is opened only
  for a user whose preference changed meanwhile; and what a session sees of a user's open
  leads is what everybody else sees, but for its own rows.

### Limits

Liveness under fairness and `ENABLED` are out of the prover's reach: `RequestsEnd` is checked
by TLC only, and is the only property of a run that no theorem states. The library's induction
theorems take an operator as a parameter, which the provers cannot instantiate.
`LeastElements` replaces them where a proof needs induction: the places where a property
fails form a set, which has a least element, and the property holds before it. That reaches
recursive functions whose definition is in a module (`Known` of `Acquisition`, `Score` of
`Leads`, `Closure` of `Metrics`) and, one level down, the folds of the community modules, whose
definition is a recursive function once its operator argument is given (`FoldExists`). It does
not reach `RECURSIVE` operators, which no module uses.

Where a model was rewritten for its proofs, it says the same: `Score` is a sum by a recursive
function instead of a fold, `Number` names the count of events of a name and day, the counts
of `Leads` are naturals without a bound in their types, `Add` and `Full` of `Metrics` name what was written
out, and `WellCompared` and `KeepsOriginality` are parts of `ComparisonsArePublished`. Two changes were corrections that a
proof asked for: the arms of `StartOffset` in `Acquisition` overlapped, and a CASE that matches
twice is either of them; and the outputs of mapping runs in `Semantic` are 0 to `MaxOutput`,
since a run may put out nothing.

## 5. Findings

The violation of a run:

* **A failed company aborts its batch** (`acquire_abort`, `worker/acquire/nse.py:356`).
  `docs/operations/NSE_BRSR_INGESTION.md:142` says "A failed company does not abort the
  remaining batch." The handler rolls back, which expires the run object, and then reads
  `run.error_count`: that raises, ends the batch, leaves the run "running" and the offset
  where it was. `CursorLeavesNoGap` shows that no company is left out because of it.

Known behaviours that the models contain and that no run is about:

* An export that overlaps a write is not marked stale (`services/studio.py:125`; the exception
  `raced` of `FreshUnlessRaced`).
* Overlapping exports share a version and its object keys (`services/studio.py:142`; excluded
  from `studio_solo`).
* A typed answer keeps the evidence of the proposal it replaces (`services/studio.py:109`).
* `NaN` passes value validation and makes the reconciliation raise
  (`worker/studio/engine.py:112`): such a filing can be neither exported nor reported on.
* A fact that no longer resolves and whose pin has metrics makes a publication fail on the
  foreign key, and the old value stays public (`worker/acquire/mappings.py:291`).
* The first review of a family without a statistics row raises (`services/quality.py:65`).
* A publication repoints a pin that a reviewer moved to a corrected version
  (`worker/acquire/mappings.py:375`), unless it read the pin before the reviewer moved it and
  found its own version there.
* Two reviewers mix a family's statistics (`services/quality.py:66`), and both may decide one
  review (`services/quality.py:82`).
* Two editors decide one proposal, and the second overwrites the decision of the first
  (`routers/studio.py:345`).
* A PDF that is parsed after an XBRL instance of the same filing leaves the instance's facts
  under a row that names the PDF and says "parsed" (`worker/parse/service.py:52`).
* An organisation can be overbooked: invites are not counted when the next one is made
  (`routers/orgs.py:69`; the exception `crowded` of `SeatsSuffice`).
* A rebuild whose queueing or whose invalidation is lost leaves old metrics or cached answers
  (`routers/quality.py:90`, `worker/score/tasks.py:34`), and so does an answer that was computed
  while a rebuild committed (`routers/semantic.py:79`).
* Two scorings of one user can open two leads (`services/leads.py:271`), and two mapping runs
  can exceed the token quota (`routers/studio.py:277`).

## 6. Plan

Done: every module with state is model-checked, and every safety property of a run is a
theorem.

Left: an abstract specification of what the public sees, which publications and reviews
refine.

## 7. Not modelled

* **Shown, never decided on**: the trust centre's pages and correction tickets, analytics,
  funnel and digest queries, the catalog and lists of metrics, invoices and contact details,
  the gap report's contents, comments, the status of a deep-dive request.
* **Text**: retrieval and quotes of the mapper, parsing of pages and instances, the patterns
  that find signals in a narrative, `merge_context` and the phrase rules of
  questions, validation of event properties.
* **External**: HTTP sessions of the portals, the LLM gateway, Arelle, e-mail, S3 signatures.
  Their callers treat them as a free choice of an outcome, and so do the models.
* **No protocol**: units, rendering, settings, logging, health probes, migrations and seeds,
  operations scripts, the frontend, taxonomy data (the CONSTANTS of `StudioEngine`).
* **Left out of modelled components**: rate limits (an INCR and an EXPIRE whose result nothing
  else depends on), API keys (a row that is there or not), client companies of the Studio,
  the exchange adapters.
