---------------------------- MODULE Acquisition ----------------------------
(***************************************************************************)
(* How a filing gets into the corpus: the NSE batches (worker/acquire/     *)
(* nse.py), the fetch of one company's report with its Celery retries      *)
(* (worker/acquire/service.py and tasks.py), the uploads of an admin, and  *)
(* the parse tasks (worker/parse/service.py), for one financial year.      *)
(*                                                                         *)
(* A raw artifact is put in the object store, outside any transaction, and *)
(* then its filings row is committed; a parse reads the object of the row  *)
(* it loaded and replaces the filing's facts, if that is an XBRL instance, *)
(* or its pages, if it is a PDF.  A session keeps the rows it loaded: an   *)
(* UPDATE names only the columns it changed from what it saw.              *)
(*                                                                         *)
(* A select that is followed at once by the commit of what it decided is   *)
(* one step; calls of the portal and of the object store end a step.  The  *)
(* UPDATE of a parse takes the row before it deletes facts, so from there  *)
(* on two parses are serial, and the rest of a parse is one step.          *)
(***************************************************************************)
EXTENDS Integers, Sequences, FiniteSets, SequencesExt

CONSTANTS
    Companies,
    Indices,       \* the index registries, NIFTY 50 first: sequences of companies
    Names,         \* file names of artifacts
    Contents,      \* artifacts, as told apart by their checksums
    Instances,     \* those that are XBRL; the others are PDF
    Identified,    \* instances that state a CorporateIdentityNumber
    Listings,      \* the portal's answers for each company: sets of Item
    TargetFY,      \* the year of the runs
    Sessions,      \* database sessions: each is a batch, a task or a request
    Corpora,       \* what was uploaded and parsed before: a content for some companies
    Limits,        \* --limit
    Starts,        \* --start: offsets, or Default
    Default,
    MaxAttempts,   \* acquisition_max_attempts
    MaxSessions,   \* bound: sessions opened in a behaviour
    Touched,       \* bound: the companies tasks, uploads and parses are about
    Brought        \* bound: the artifacts tasks and uploads bring

NoContent == "no content"
NoKey == [of |-> "no company"]

(* One row of the portal: a date is a number, 0 where the portal has none. *)
Item ==
    [fy : Nat, file : BOOLEAN, submitted : Nat, revised : Nat,
     name : Names, content : Instances]

(* registry(): the cohort order; a company of two indices keeps its first  *)
(* place.                                                                  *)
Registry ==
    FoldLeft(LAMBDA cohort, c : IF c \in Range(cohort) THEN cohort ELSE Append(cohort, c),
             << >>, FlattenSeq(Indices))

ASSUME AcquisitionAssumption ==
    /\ Registry \in Seq(Companies)
    /\ \A i, j \in DOMAIN Registry : Registry[i] = Registry[j] => i = j
    /\ Instances \subseteq Contents
    /\ Identified \subseteq Instances
    /\ Listings \in [Companies -> SUBSET SUBSET Item]
    /\ Companies # {} /\ Names # {} /\ NoContent \notin Contents
    /\ Corpora \subseteq [Companies -> Contents \cup {NoContent}]
    /\ Limits \subseteq Nat
    /\ Starts \subseteq Nat \cup {Default}
    /\ Default \notin Nat
    /\ MaxAttempts \in Nat \ {0}
    /\ MaxSessions \in Nat
    /\ Touched \subseteq Companies
    /\ Brought \subseteq Contents

VARIABLES
    companies,   \* the companies rows: absent, or by ISIN or CIN
    filings,     \* the filings row of each company
    objects,     \* the object store
    facts,       \* the instance a filing's xbrl_facts were read from
    pages,       \* the PDF its filing_pages were read from
    offset,      \* ingestion_state.next_offset
    skipped,     \* history: the offsets an explicit --start jumped over
    cursors,     \* acquisition_cursors of the company_ir adapter
    runs,        \* the ingestion_runs row of a session's last batch
    session,
    opened,      \* how many sessions were opened
    disturbed    \* history: companies two sessions worked on at once, or
                 \* whose artifact was put by a store that then failed

stored == <<companies, filings, objects, facts, pages>>
vars == <<companies, filings, objects, facts, pages, offset, skipped, cursors, runs,
          session, opened, disturbed>>

-----------------------------------------------------------------------------
(* Types *)

Key == [of : Companies, by : {"isin", "cin"}, name : Names]

(* status "none": there is no row.                                         *)
Filing ==
    [status   : {"none", "missing", "error", "fetched", "parsed"},
     raw      : Key \cup {NoKey},
     checksum : Contents \cup {NoContent},
     error    : BOOLEAN]

NoFiling ==
    [status |-> "none", raw |-> NoKey, checksum |-> NoContent, error |-> FALSE]

(* What an acquisition cursor remembers.                                   *)
Cursor == {"none", "page checked", "artifact url"}

Run ==
    [status     : {"none", "running", "completed"},
     discovered : Nat, fetched : Nat, parsed : Nat, missing : Nat,
     selected   : SUBSET Companies,    \* history: whom it was to settle
     settled    : SUBSET Companies]    \* history: whom it left parsed or missing

NoRun ==
    [status |-> "none", discovered |-> 0, fetched |-> 0, parsed |-> 0,
     missing |-> 0, selected |-> {}, settled |-> {}]

Session ==
    [role    : {"none", "batch", "task", "upload", "parse"},
     pc      : {"idle", "company", "missing", "lookup", "put", "save", "read",
                "write", "fetch", "cursor", "aborted"},
     todo    : Seq(Companies),                   \* a batch's companies, the current one first
     mode    : {"initial", "next", "refresh"},
     offset  : Nat,                              \* where the batch starts
     company : Companies,
     by      : {"isin", "cin"},                  \* company.cin, as loaded
     seen    : Filing,                           \* the filings row, as loaded
     name    : Names,
     content : Contents \cup {NoContent},        \* fetched, or read for a parse
     known   : Cursor,                           \* the cursor row, as loaded
     cursor  : Cursor,                           \* result.cursor
     attempt : 1..MaxAttempts]

Idle ==
    [role |-> "none", pc |-> "idle", todo |-> << >>, mode |-> "next",
     offset |-> 0, company |-> CHOOSE c \in Companies : TRUE, by |-> "isin",
     seen |-> NoFiling, name |-> CHOOSE n \in Names : TRUE,
     content |-> NoContent, known |-> "none", cursor |-> "none", attempt |-> 1]

TypeOK ==
    /\ companies \in [Companies -> {"absent", "isin", "cin"}]
    /\ filings \in [Companies -> Filing]
    /\ objects \in [Key -> Contents \cup {NoContent}]
    /\ facts \in [Companies -> Instances \cup {NoContent}]
    /\ pages \in [Companies -> (Contents \ Instances) \cup {NoContent}]
    /\ offset \in Nat
    /\ skipped \in SUBSET Nat
    /\ cursors \in [Companies -> Cursor]
    /\ runs \in [Sessions -> Run]
    /\ session \in [Sessions -> Session]
    /\ opened \in 0..MaxSessions
    /\ disturbed \in SUBSET Companies

(* A company of the seed data, whose report was uploaded and parsed.       *)
SeedKey(c) == [of |-> c, by |-> "cin", name |-> CHOOSE n \in Names : TRUE]

Init ==
    /\ \E corpus \in Corpora :
         LET known == {c \in Companies : corpus[c] # NoContent} IN
         /\ companies = [c \in Companies |-> IF c \in known THEN "cin" ELSE "absent"]
         /\ filings = [c \in Companies |->
              IF c \in known
              THEN [status |-> "parsed", raw |-> SeedKey(c), checksum |-> corpus[c],
                    error |-> FALSE]
              ELSE NoFiling]
         /\ objects = [k \in Key |-> IF k.of \in known /\ k = SeedKey(k.of)
                                     THEN corpus[k.of] ELSE NoContent]
         /\ facts = [c \in Companies |->
              IF corpus[c] \in Instances THEN corpus[c] ELSE NoContent]
         /\ pages = [c \in Companies |->
              IF corpus[c] \in Instances THEN NoContent ELSE corpus[c]]
    /\ offset = 0
    /\ skipped = {}
    /\ cursors = [c \in Companies |-> "none"]
    /\ runs = [s \in Sessions |-> NoRun]
    /\ session = [s \in Sessions |-> Idle]
    /\ opened = 0
    /\ disturbed = {}

-----------------------------------------------------------------------------
(* Sessions *)

(* The company a session is at work on; a batch at its end is at none.     *)
WorksOn(s, c) ==
    /\ session[s].pc \notin {"idle", "aborted"}
    /\ session[s].role = "batch" => session[s].todo # << >>
    /\ session[s].company = c

Open(s) ==
    /\ session[s].pc \in {"idle", "aborted"}
    /\ opened < MaxSessions
    /\ opened' = opened + 1

(* Two sessions on one company: `disturbed' notes it, no code sees it.     *)
Enter(s, c) ==
    disturbed' = IF \E t \in Sessions \ {s} : WorksOn(t, c)
                 THEN disturbed \cup {c}
                 ELSE disturbed

(* A store that ends after its put and before its commit.                  *)
Leave(s) ==
    disturbed' = IF session[s].pc = "save"
                 THEN disturbed \cup {session[s].company}
                 ELSE disturbed

Becomes(s, state) == session' = [session EXCEPT ![s] = state]

(* The row after an UPDATE of the columns that changed since it was loaded.*)
Flushed(row, seen, new) ==
    [k \in DOMAIN row |-> IF new[k] # seen[k] THEN new[k] ELSE row[k]]

WithStatus(row, status) == [row EXCEPT !.status = status, !.error = (status = "error")]

(* A batch is done with its current company: on to the next, or to its end.*)
Onward(s) ==
    LET todo == Tail(session[s].todo)
        next == [Idle EXCEPT !.role = "batch", !.pc = "company", !.todo = todo,
                             !.mode = session[s].mode, !.offset = session[s].offset]
    IN  IF todo = << >>
        THEN Becomes(s, next) /\ UNCHANGED disturbed
        ELSE Becomes(s, [next EXCEPT !.company = Head(todo)]) /\ Enter(s, Head(todo))

(* What a run keeps of the company whose row it has just written.          *)
Settling(run, c, row) ==
    IF row.status \in {"parsed", "missing"} THEN [run EXCEPT !.settled = @ \cup {c}] ELSE run

(* The run of a batch counts that company; what is no batch has no run.    *)
Counts(s, counted) ==
    LET c == session[s].company IN
    runs' = IF session[s].role = "batch"
            THEN [runs EXCEPT ![s] = Settling(counted, c, filings'[c])]
            ELSE runs

(* The session is done: a batch goes on, what else there is ends.          *)
Done(s) ==
    IF session[s].role = "batch"
    THEN Onward(s)
    ELSE Becomes(s, Idle) /\ UNCHANGED disturbed

-----------------------------------------------------------------------------
(* NSE batches *)

(* Those of the first i companies of the registry that have a row.         *)
Known[i \in 0..Len(Registry)] ==
    IF i = 0 THEN << >>
    ELSE IF companies[Registry[i]] = "absent" THEN Known[i - 1]
    ELSE Append(Known[i - 1], Registry[i])

Selected(mode, from, limit) ==
    IF mode = "refresh"
    THEN LET known == Known[Len(Registry)]
         IN SubSeq(known, 1, IF limit < Len(known) THEN limit ELSE Len(known))
    ELSE SubSeq(Registry, from + 1,
                IF from + limit < Len(Registry) THEN from + limit ELSE Len(Registry))

StartOffset(mode, start) ==
    CASE mode = "refresh"                      -> 0
      [] mode # "refresh" /\ start # Default   -> start
      [] mode = "next" /\ start = Default      -> offset
      [] mode = "initial" /\ start = Default   -> 0

StartBatch(s, mode, limit, start) ==
    LET from == StartOffset(mode, start)
        chosen == Selected(mode, from, limit)
    IN
    /\ Open(s)
    /\ skipped' = IF mode # "refresh" /\ start # Default
                  THEN skipped \cup 1..start
                  ELSE skipped
    /\ runs' = [runs EXCEPT ![s] = [NoRun EXCEPT !.status = "running",
                                                 !.discovered = Len(chosen),
                                                 !.selected = Range(chosen)]]
    /\ Becomes(s, [Idle EXCEPT !.role = "batch", !.pc = "company", !.mode = mode,
                               !.offset = from, !.todo = chosen,
                               !.company = IF chosen = << >> THEN @ ELSE Head(chosen)])
    /\ IF chosen = << >> THEN disturbed' = disturbed ELSE Enter(s, Head(chosen))
    /\ UNCHANGED <<stored, offset, cursors>>

(* parse_portal_response: the rows that count, and the latest of them.     *)
Candidates(listing) ==
    {item \in listing : item.fy = TargetFY /\ item.file /\ item.submitted # 0}

Dated(item) == IF item.revised # 0 THEN item.revised ELSE item.submitted

Later(a, b) ==
    Dated(a) > Dated(b) \/ (Dated(a) = Dated(b) /\ a.submitted >= b.submitted)

Latest(listing) ==
    {item \in Candidates(listing) : \A other \in Candidates(listing) : Later(item, other)}

(* The company's row is committed; then the portal is asked, and what it   *)
(* lists is downloaded.                                                    *)
RegisterCompany(s) ==
    LET me == session[s]
        by == IF companies[me.company] = "absent" THEN "isin" ELSE companies[me.company]
    IN
    /\ me.role = "batch" /\ me.pc = "company" /\ me.todo # << >>
    /\ companies' = [companies EXCEPT ![me.company] = by]
    /\ \E listing \in Listings[me.company] :
         \/ /\ Latest(listing) = {}
            /\ Becomes(s, [me EXCEPT !.pc = "missing", !.by = by])
         \/ \E item \in Latest(listing) :
              Becomes(s, [me EXCEPT !.pc = "lookup", !.by = by, !.name = item.name,
                                    !.content = item.content])
    /\ UNCHANGED <<filings, objects, facts, pages, offset, skipped, cursors, runs, opened,
                   disturbed>>

FinishBatch(s) ==
    LET me == session[s] IN
    /\ me.role = "batch" /\ me.pc = "company" /\ me.todo = << >>
    /\ runs' = [runs EXCEPT ![s].status = "completed"]
    /\ offset' = IF me.mode \in {"initial", "next"}
                 THEN me.offset + runs[s].discovered
                 ELSE offset
    /\ Becomes(s, Idle)
    /\ UNCHANGED <<stored, skipped, cursors, opened, disturbed>>

(* Mutant: the offset moves past a batch that failed.                      *)
FailBatchMovingOn(s) ==
    LET me == session[s] IN
    /\ me.role = "batch" /\ me.pc # "aborted" /\ me.todo # << >>
    /\ offset' = me.offset + runs[s].discovered
    /\ Becomes(s, [Idle EXCEPT !.pc = "aborted", !.todo = me.todo])
    /\ Leave(s)
    /\ UNCHANGED <<stored, skipped, cursors, runs, opened>>

(* Mutant: the batch goes on, and nobody counts the company that failed.   *)
FailBatchSilently(s) ==
    LET me == session[s] IN
    /\ me.role = "batch" /\ me.pc # "aborted" /\ me.todo # << >>
    /\ Onward(s)
    /\ UNCHANGED <<stored, offset, skipped, cursors, runs, opened>>

(* An exception in the work on a company.  The rollback expires the run,   *)
(* so the handler's own `run.error_count += 1' raises: nothing is counted, *)
(* no other company is tried, the offset stays and the run is "running".   *)
FailBatch(s) ==
    LET me == session[s] IN
    /\ me.role = "batch" /\ me.pc # "aborted" /\ me.todo # << >>
    /\ Becomes(s, [Idle EXCEPT !.pc = "aborted", !.todo = me.todo])
    /\ Leave(s)
    /\ UNCHANGED <<stored, offset, skipped, cursors, runs, opened>>

-----------------------------------------------------------------------------
(* A company the source has nothing for: _record_missing of a batch,       *)
(* _record_status of a task.  Whatever the row's status was, the artifact  *)
(* and the facts stay.                                                     *)

RecordMissing(s) ==
    LET me == session[s] IN
    /\ me.pc = "missing"
    /\ filings' = [filings EXCEPT ![me.company] = WithStatus(@, "missing")]
    /\ Counts(s, [runs[s] EXCEPT !.missing = @ + 1])
    /\ Done(s)
    /\ UNCHANGED <<companies, objects, facts, pages, offset, skipped, cursors, opened>>

-----------------------------------------------------------------------------
(* store_filing *)

SameArtifact(row, content) == row.checksum = content /\ row.raw # NoKey

(* The row is loaded; an artifact it already has ends the store, whatever  *)
(* the status of the row is.                                               *)
LookupFiling(s) ==
    LET me == session[s]
        row == filings[me.company]
    IN
    /\ me.pc = "lookup"
    /\ IF SameArtifact(row, me.content)
       THEN IF me.role = "batch"
            THEN Becomes(s, [me EXCEPT !.pc = "read", !.seen = row]) /\ UNCHANGED disturbed
            ELSE Done(s)
       ELSE Becomes(s, [me EXCEPT !.pc = "put", !.seen = row]) /\ UNCHANGED disturbed
    /\ UNCHANGED <<stored, offset, skipped, cursors, runs, opened>>

KeyOf(me) == [of |-> me.company, by |-> me.by, name |-> me.name]

(* Mutant: an upload that fails is taken for done.                         *)
PutObjectLost(s) ==
    /\ session[s].pc = "put"
    /\ Becomes(s, [session[s] EXCEPT !.pc = "save"])
    /\ UNCHANGED <<stored, offset, skipped, cursors, runs, opened, disturbed>>

PutObject(s) ==
    LET me == session[s] IN
    /\ me.pc = "put"
    /\ objects' = [objects EXCEPT ![KeyOf(me)] = me.content]
    /\ Becomes(s, [me EXCEPT !.pc = "save"])
    /\ UNCHANGED <<companies, filings, facts, pages, offset, skipped, cursors, runs, opened,
                   disturbed>>

(* Mutant: a new artifact leaves a row that is there in its state.         *)
FetchedKeepingStatus(me) ==
    [status |-> IF me.seen = NoFiling THEN "fetched" ELSE me.seen.status,
     raw |-> KeyOf(me), checksum |-> me.content, error |-> FALSE]

Fetched(me) ==
    [status |-> "fetched", raw |-> KeyOf(me), checksum |-> me.content, error |-> FALSE]

(* An INSERT fails when another session's row is there by now.             *)
SaveFiling(s) ==
    LET me == session[s]
        c == me.company
        row == IF me.seen = NoFiling
               THEN Fetched(me)
               ELSE Flushed(filings[c], me.seen, Fetched(me))
    IN
    /\ me.pc = "save"
    /\ me.seen = NoFiling => filings[c] = NoFiling
    /\ filings' = [filings EXCEPT ![c] = row]
    /\ IF me.role = "batch"
       THEN Becomes(s, [me EXCEPT !.pc = "read", !.seen = row]) /\ UNCHANGED disturbed
       ELSE Done(s)
    /\ UNCHANGED <<companies, objects, facts, pages, offset, skipped, cursors, runs, opened>>

-----------------------------------------------------------------------------
(* parse_filing, at the end of a company's turn in a batch or as a task *)

Parseable(row) == row.status \in {"fetched", "parsed"} /\ row.raw # NoKey

StartParse(s, c) ==
    /\ Open(s)
    /\ filings[c] # NoFiling
    /\ Becomes(s, [Idle EXCEPT !.role = "parse", !.pc = "read", !.company = c,
                               !.seen = filings[c]])
    /\ Enter(s, c)
    /\ UNCHANGED <<stored, offset, skipped, cursors, runs>>

ReadArtifact(s) ==
    LET me == session[s] IN
    /\ me.pc = "read"
    /\ Parseable(me.seen)
    /\ objects[me.seen.raw] # NoContent
    /\ Becomes(s, [me EXCEPT !.pc = "write", !.content = objects[me.seen.raw]])
    /\ UNCHANGED <<stored, offset, skipped, cursors, runs, opened, disturbed>>

(* What an instance, or a PDF, leaves replaces what the last of its kind   *)
(* left, and only that.  The status is written only if the session loaded  *)
(* another one.                                                            *)
WriteFacts(s) ==
    LET me == session[s]
        c == me.company
        parsed == [me.seen EXCEPT !.status = "parsed"]
    IN
    /\ me.pc = "write"
    /\ IF me.content \in Instances
       THEN facts' = [facts EXCEPT ![c] = me.content] /\ pages' = pages
       ELSE pages' = [pages EXCEPT ![c] = me.content] /\ facts' = facts
    /\ filings' = [filings EXCEPT ![c] = Flushed(@, me.seen, parsed)]
    /\ companies' = IF me.content \in Identified
                    THEN [companies EXCEPT ![c] = "cin"]
                    ELSE companies
    /\ Counts(s, [runs[s] EXCEPT !.fetched = @ + 1, !.parsed = @ + 1])
    /\ Done(s)
    /\ UNCHANGED <<objects, offset, skipped, cursors, opened>>

-----------------------------------------------------------------------------
(* acquire_company_fy: the company_ir source *)

StartTask(s, c) ==
    /\ Open(s)
    /\ companies[c] # "absent"
    /\ Becomes(s, [Idle EXCEPT !.role = "task", !.pc = "fetch", !.company = c])
    /\ Enter(s, c)
    /\ UNCHANGED <<stored, offset, skipped, cursors, runs>>

(* What CompanyIRAdapter.fetch returns: an artifact URL it found once is   *)
(* never looked for again, a 404 of it included.                           *)
Outcomes(cursor) ==
    {"artifact", "no artifact"} \X {"artifact url"} \cup
    (IF cursor = "artifact url" THEN {} ELSE {<<"no artifact", "page checked">>})

FetchArtifact(s) ==
    LET me == session[s]
        c == me.company
    IN
    /\ me.pc = "fetch"
    /\ \E outcome \in Outcomes(cursors[c]), name \in Names, content \in Brought :
         Becomes(s, [me EXCEPT !.pc = "cursor", !.by = companies[c],
                               !.known = cursors[c], !.cursor = outcome[2],
                               !.name = name,
                               !.content = IF outcome[1] = "artifact" THEN content
                                           ELSE NoContent])
    /\ UNCHANGED <<stored, offset, skipped, cursors, runs, opened, disturbed>>

(* The cursor is committed before the artifact is stored.                  *)
SaveCursor(s) ==
    LET me == session[s] IN
    /\ me.pc = "cursor"
    /\ me.known = "none" => cursors[me.company] = "none"
    /\ cursors' = [cursors EXCEPT ![me.company] =
                      IF me.cursor = me.known THEN @ ELSE me.cursor]
    /\ Becomes(s, [me EXCEPT !.pc = IF me.content = NoContent THEN "missing"
                                    ELSE "lookup"])
    /\ UNCHANGED <<stored, offset, skipped, runs, opened, disturbed>>

Retried(me) ==
    [Idle EXCEPT !.role = "task", !.pc = "fetch", !.company = me.company,
                 !.attempt = me.attempt + 1]

(* Mutant: one retry too many.                                             *)
FailTaskOnceMore(s) ==
    LET me == session[s] IN
    /\ me.role = "task"
    /\ \/ filings' = [filings EXCEPT ![me.company] = WithStatus(@, "error")]
       \/ filings' = filings
    /\ Becomes(s, IF me.attempt <= MaxAttempts THEN Retried(me) ELSE Idle)
    /\ Leave(s)
    /\ UNCHANGED <<companies, objects, facts, pages, offset, skipped, cursors, runs, opened>>

(* An exception: it is recorded, over whatever status the row has, or even *)
(* that fails; the task is retried unless that was its last attempt.  A    *)
(* source that is disabled is not retried.                                 *)
FailTask(s) ==
    LET me == session[s] IN
    /\ me.role = "task"
    /\ \/ filings' = [filings EXCEPT ![me.company] = WithStatus(@, "error")]
       \/ filings' = filings
    /\ \/ /\ me.attempt < MaxAttempts
          /\ Becomes(s, Retried(me))
       \/ /\ me.attempt = MaxAttempts \/ me.pc = "fetch"
          /\ Becomes(s, Idle)
    /\ Leave(s)
    /\ UNCHANGED <<companies, objects, facts, pages, offset, skipped, cursors, runs, opened>>

-----------------------------------------------------------------------------
(* upload_filing and the upload command *)

StartUpload(s, c) ==
    /\ Open(s)
    /\ companies[c] # "absent"
    /\ \E name \in Names, content \in Brought :
         Becomes(s, [Idle EXCEPT !.role = "upload", !.pc = "lookup", !.company = c,
                                 !.by = companies[c], !.name = name,
                                 !.content = content])
    /\ Enter(s, c)
    /\ UNCHANGED <<stored, offset, skipped, cursors, runs>>

(* An upload or a parse task that fails, or that its process takes along.  *)
FailRequest(s) ==
    /\ session[s].role \in {"upload", "parse"}
    /\ Becomes(s, Idle)
    /\ Leave(s)
    /\ UNCHANGED <<stored, offset, skipped, cursors, runs, opened>>

(* The worker dies: the broker does not deliver its task again.            *)
Crash(s) ==
    /\ session[s].role \in {"batch", "task"}
    /\ Becomes(s, Idle)
    /\ Leave(s)
    /\ UNCHANGED <<stored, offset, skipped, cursors, runs, opened>>

-----------------------------------------------------------------------------

Begin(s) ==
    \/ \E mode \in {"initial", "next", "refresh"}, limit \in Limits, start \in Starts :
         StartBatch(s, mode, limit, start)
    \/ \E c \in Touched : StartTask(s, c) \/ StartUpload(s, c) \/ StartParse(s, c)

(* Fails(s) stands for every exception between two commits of a session.   *)
Fails(s) == FailBatch(s) \/ FailTask(s) \/ FailRequest(s)

Step(s) ==
    \/ RegisterCompany(s) \/ FinishBatch(s) \/ RecordMissing(s)
    \/ LookupFiling(s) \/ PutObject(s) \/ SaveFiling(s)
    \/ ReadArtifact(s) \/ WriteFacts(s)
    \/ FetchArtifact(s) \/ SaveCursor(s)

Next == \E s \in Sessions : Begin(s) \/ Step(s) \/ Fails(s) \/ Crash(s)

Spec == Init /\ [][Next]_vars

-----------------------------------------------------------------------------
(* Properties *)

(* A row that points to a raw object points to one that is there, a        *)
(* filing that is fetched or parsed has one, and so has one with facts or  *)
(* pages: whatever fails between the put, the commit and the parse, a parse finds *)
(* its artifact and the public page its source.                            *)
ArtifactsPrecedeRows ==
    \A c \in Companies :
        /\ filings[c].raw # NoKey => objects[filings[c].raw] # NoContent
        /\ filings[c].status \in {"fetched", "parsed"} => filings[c].raw # NoKey
        /\ (filings[c].raw = NoKey) = (filings[c].checksum = NoContent)
        /\ facts[c] # NoContent \/ pages[c] # NoContent => filings[c].raw # NoKey

(* `next' leaves nobody out: every company of the registry before the      *)
(* cursor has a filings row of the year, be it "missing", unless an        *)
(* explicit --start jumped over it; batches that fail, crash or overlap do *)
(* not move the cursor past a company they have not settled.               *)
CursorLeavesNoGap ==
    \A i \in (1..offset) \ skipped :
        i \in DOMAIN Registry => filings[Registry[i]] # NoFiling

(* A completed run left nobody out: it went over as many companies as it   *)
(* discovered, each that it selected has a filing, and the run left that   *)
(* filing parsed or missing, unless another session worked on the company  *)
(* at the same time or a store of it ended between its put and its commit. *)
CompletedRunsAddUp ==
    \A s \in Sessions : runs[s].status = "completed" =>
        /\ runs[s].discovered = runs[s].parsed + runs[s].missing
        /\ runs[s].fetched = runs[s].parsed
        /\ \A c \in runs[s].selected : filings[c] # NoFiling
        /\ runs[s].selected \ disturbed \subseteq runs[s].settled

(* A parsed filing shows the facts, or the pages, of the artifact its row  *)
(* names, whatever revisions, failures and retries there were, as long as  *)
(* no two sessions worked on the company at once and no store ended        *)
(* between its put and its commit.  What artifacts of the other kind left  *)
(* is shown beside it.                                                     *)
ParsedFactsAreCurrent ==
    \A c \in Companies \ disturbed :
        filings[c].status = "parsed" =>
            IF filings[c].checksum \in Instances
            THEN facts[c] = filings[c].checksum
            ELSE pages[c] = filings[c].checksum

(* docs/operations/NSE_BRSR_INGESTION.md: "A failed company does not abort *)
(* the remaining batch."                                                   *)
FailureDoesNotAbortBatch ==
    \A s \in Sessions : session[s].pc = "aborted" => Len(session[s].todo) = 1
=============================================================================
