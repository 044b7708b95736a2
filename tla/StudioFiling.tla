---------------------------- MODULE StudioFiling ----------------------------
(***************************************************************************)
(* One filing of the Filing Studio while several HTTP requests work on it: *)
(* answer writes, decisions on AI proposals, bulk acceptance, mapping runs *)
(* and exports (api/app/routers/studio.py, api/app/services/studio.py).    *)
(*                                                                         *)
(* A request is one database session under READ COMMITTED.  Every SELECT   *)
(* is a step that sees what is committed at that moment; a row lock        *)
(* (SELECT ... FOR UPDATE, an UPDATE, a pending unique INSERT) lasts until *)
(* the session commits or rolls back; what a session wrote is visible to   *)
(* the others from its commit step on.  A request may fail between any two *)
(* steps, which rolls its session back and leaves the objects it already   *)
(* put in the store where they are.                                        *)
(***************************************************************************)
EXTENDS StudioEngine, Sequences

CONSTANTS
    Users, NoUser,
    Editors, NoEditor,   \* requests that write answers or decide proposals
    Exporters,           \* requests that export the filing
    Mappers,             \* requests that map documents to proposals
    PField, PValue,      \* what each proposal proposes
    Confident,           \* the proposals a bulk accept may take
    Kinds,               \* kinds of export artifact
    Lifetime,            \* lifetime of the editor lock (five minutes)
    MaxTime,             \* bound: readings of the clock
    MaxRevision,         \* bound: no editor request starts at this revision
    MaxExports           \* bound: no export starts with this many in the history

Gated == {"xbrl", "docx", "pdf"}
Decisions == {"accepted", "edited", "rejected"}

ASSUME FilingAssumption ==
    /\ Fields # {}
    /\ NoUser \notin Users
    /\ NoEditor \notin Editors
    /\ PField \in [Proposals -> Fields]
    /\ PValue \in [Proposals -> Values]
    /\ Confident \subseteq Proposals
    /\ Kinds \subseteq Gated \cup {"gap_pdf"}
    /\ Lifetime \in Nat \ {0}
    /\ MaxTime \in Nat
    /\ MaxRevision \in Nat
    /\ MaxExports \in Nat

VARIABLES
    clock,       \* the servers' clock
    revision,    \* studio_filings.answers_revision
    answers,     \* studio_answers, by field
    lock,        \* the studio_editor_locks row; user NoUser: no row
    lockOwner,   \* the session that holds the row lock on it
    proposals,   \* studio_proposals, by proposal
    exports,     \* studio_exports, one entry per committed call
    store,       \* the object store under studio/{filing}/
    edit,        \* the editor requests
    render,      \* the export requests
    scan         \* the mapping requests

database == <<revision, answers, lock, lockOwner, proposals>>
vars == <<clock, revision, answers, lock, lockOwner, proposals,
          exports, store, edit, render, scan>>

-----------------------------------------------------------------------------
(* Types *)

Snapshot == [Fields -> Answer]

LockRow == [user : Users \cup {NoUser}, expires : Nat]

Proposal ==
    [status : {"absent", "unreviewed"} \cup Decisions,
     by     : Users \cup {NoUser}]

(* One committed call of generate_exports: its rows share everything but   *)
(* the kind.  `snap' is the set of answers the artifacts were rendered     *)
(* from; `raced' is a history variable, TRUE when a write overlapped the   *)
(* call.                                                                   *)
Export ==
    [version : Nat, revision : Nat, kinds : SUBSET Kinds, ready : SUBSET Kinds,
     stale : BOOLEAN, snap : Snapshot, raced : BOOLEAN]

Object ==
    [version : Nat, kind : Kinds, snap : Snapshot, clean : BOOLEAN]

EditRequest ==
    [pc    : {"idle", "next", "filing", "proposal", "stamp", "flush", "lock",
              "insert", "write", "commit", "reject"},
     op    : {"put", "bulk"} \cup Decisions,
     user  : Users \cup {NoUser},
     field : Fields,
     value : Values \cup {NoValue},
     prop  : Proposals \cup {NoProposal},
     sets  : SUBSET {"status", "by"},
     rev   : Nat,
     at    : Nat,
     seen  : Nat,
     todo  : SUBSET Proposals]

RenderRequest ==
    [pc      : {"idle", "filing", "answers", "version", "put"},
     kinds   : SUBSET Kinds,
     rev     : Nat,
     snap    : Snapshot,
     clean   : BOOLEAN,
     version : Nat,
     todo    : SUBSET Kinds,
     raced   : BOOLEAN]

ScanRequest == [pc : {"idle", "insert"}, open : SUBSET Fields]

Blank == [f \in Fields |-> Unanswered]

IdleEdit ==
    [pc |-> "idle", op |-> "put", user |-> NoUser,
     field |-> CHOOSE f \in Fields : TRUE, value |-> NoValue,
     prop |-> NoProposal, sets |-> {}, rev |-> 0, at |-> 0, seen |-> 0,
     todo |-> {}]

IdleRender ==
    [pc |-> "idle", kinds |-> {}, rev |-> 0, snap |-> Blank, clean |-> FALSE,
     version |-> 0, todo |-> {}, raced |-> FALSE]

IdleScan == [pc |-> "idle", open |-> {}]

TypeOK ==
    /\ clock \in Nat
    /\ revision \in Nat
    /\ answers \in Snapshot
    /\ lock \in LockRow
    /\ lockOwner \in Editors \cup {NoEditor}
    /\ proposals \in [Proposals -> Proposal]
    /\ exports \in Seq(Export)
    /\ store \subseteq Object
    /\ edit \in [Editors -> EditRequest]
    /\ render \in [Exporters -> RenderRequest]
    /\ scan \in [Mappers -> ScanRequest]

Init ==
    /\ clock = 0
    /\ revision = 0
    /\ answers = Blank
    /\ lock = [user |-> NoUser, expires |-> 0]
    /\ lockOwner = NoEditor
    /\ proposals = [p \in Proposals |-> [status |-> "absent", by |-> NoUser]]
    /\ exports = <<>>
    /\ store = {}
    /\ edit = [r \in Editors |-> IdleEdit]
    /\ render = [r \in Exporters |-> IdleRender]
    /\ scan = [r \in Mappers |-> IdleScan]

-----------------------------------------------------------------------------
(* Answer writes and proposal decisions *)

Created(p) == proposals[p].status # "absent"

(* An editor request moves on and touches nothing outside itself. *)
Local == UNCHANGED <<clock, database, exports, store, render, scan>>

(* PUT /filings/{id}/answers/{field}. *)
StartPut(r, u, f, v) ==
    /\ edit[r].pc = "idle"
    /\ revision < MaxRevision
    /\ edit' = [edit EXCEPT ![r] =
                  [IdleEdit EXCEPT !.pc = "filing", !.user = u,
                                   !.field = f, !.value = v]]
    /\ Local

(* PATCH /filings/{id}/proposals/{proposal}; only an edit brings a value.  *)
StartDecision(r, u, p, d, v) ==
    /\ edit[r].pc = "idle"
    /\ revision < MaxRevision
    /\ Created(p)
    /\ d # "edited" => v = PValue[p]
    /\ edit' = [edit EXCEPT ![r] =
                  [IdleEdit EXCEPT !.pc = "filing", !.op = d, !.user = u,
                                   !.field = PField[p], !.value = v,
                                   !.prop = p]]
    /\ Local

(* POST /filings/{id}/bulk-proposals/accept. *)
StartBulk(r, u, P) ==
    /\ edit[r].pc = "idle"
    /\ revision < MaxRevision
    /\ P # {}
    /\ \A p \in P : Created(p)
    /\ edit' = [edit EXCEPT ![r] =
                  [IdleEdit EXCEPT !.pc = "next", !.op = "bulk", !.user = u,
                                   !.todo = P]]
    /\ Local

Eligible(p) == p \in Confident /\ proposals[p].status = "unreviewed"

(* The next proposal of a bulk accept: decided like a single one, in a     *)
(* transaction of its own, when it is confident enough and unreviewed.     *)
BulkPick(r, p) ==
    /\ edit[r].pc = "next"
    /\ p \in edit[r].todo
    /\ IF Eligible(p)
         THEN edit' = [edit EXCEPT ![r] =
                         [@ EXCEPT !.pc = "filing", !.prop = p,
                                   !.sets = {"status", "by"},
                                   !.field = PField[p], !.value = PValue[p],
                                   !.todo = edit[r].todo \ {p}]]
         ELSE edit' = [edit EXCEPT ![r] = [@ EXCEPT !.todo = edit[r].todo \ {p}]]
    /\ Local

BulkDone(r) ==
    /\ edit[r].pc = "next"
    /\ edit[r].todo = {}
    /\ edit' = [edit EXCEPT ![r] = IdleEdit]
    /\ Local

(* Mutant: the filing object a session loaded once is never read again.   *)
ReadFilingCached(r) ==
    /\ edit[r].pc = "filing"
    /\ edit' = [edit EXCEPT ![r].pc = IF edit[r].op \in Decisions
                                         THEN "proposal" ELSE "stamp"]
    /\ Local

(* scoped_filing: the revision this request will increment. *)
ReadFiling(r) ==
    /\ edit[r].pc = "filing"
    /\ edit' = [edit EXCEPT ![r] =
                  [@ EXCEPT !.pc = IF edit[r].op \in Decisions
                                     THEN "proposal" ELSE "stamp",
                            !.rev = revision]]
    /\ Local

Changes(q) ==
    {c \in {"status", "by"} :
        proposals[q.prop][c] # IF c = "by" THEN q.user ELSE q.op}

(* The session will update the columns that the decision changes in the    *)
(* row it read.                                                            *)
ReadProposal(r) ==
    /\ edit[r].pc = "proposal"
    /\ edit' = [edit EXCEPT ![r] =
                  [@ EXCEPT !.pc = IF edit[r].op = "rejected"
                                     THEN "reject" ELSE "stamp",
                            !.sets = Changes(edit[r])]]
    /\ Local

(* Mutant: proposals are trusted, only typed values are validated.         *)
StampUnvalidated(r) ==
    /\ edit[r].pc = "stamp"
    /\ edit' = [edit EXCEPT ![r] =
                  IF edit[r].op # "put" \/ ValidValue(edit[r].field, edit[r].value)
                    THEN [@ EXCEPT !.pc = IF edit[r].sets = {} THEN "lock" ELSE "flush",
                                   !.at = clock]
                    ELSE IdleEdit]
    /\ Local

(* validate_value (a 422 ends the request), then `now' for the lock. *)
Stamp(r) ==
    /\ edit[r].pc = "stamp"
    /\ edit' = [edit EXCEPT ![r] =
                  IF ValidValue(edit[r].field, edit[r].value)
                    THEN [@ EXCEPT !.pc = IF edit[r].sets = {} THEN "lock" ELSE "flush",
                                   !.at = clock]
                    ELSE IdleEdit]
    /\ Local

(* The autoflush before the lock query updates the proposal row, and so    *)
(* waits for a session that has updated it and not ended.                  *)
HoldsProposal(r, p) ==
    /\ edit[r].prop = p
    /\ edit[r].sets # {}
    /\ edit[r].pc \in {"lock", "insert", "write", "commit"}

ProposalFree(r) == \A q \in Editors \ {r} : ~HoldsProposal(q, edit[r].prop)

(* Mutant: the decision commits before the answer it stands for.           *)
FlushDecisionCommitted(r) ==
    /\ edit[r].pc = "flush"
    /\ ProposalFree(r)
    /\ edit' = [edit EXCEPT ![r].pc = "lock"]
    /\ proposals' = [proposals EXCEPT ![edit[r].prop].status = "accepted"]
    /\ UNCHANGED <<clock, revision, answers, lock, lockOwner, exports, store,
                   render, scan>>

FlushDecision(r) ==
    /\ edit[r].pc = "flush"
    /\ ProposalFree(r)
    /\ edit' = [edit EXCEPT ![r] = [@ EXCEPT !.pc = "lock"]]
    /\ Local

(* Mutant: the expiry comparison is turned round.                          *)
MayLockUnexpired(row, u, t) == row.user \in {NoUser, u} \/ row.expires >= t

(* acquire_lock: 409 when somebody else's lock has not expired at `now'.   *)
MayLock(row, u, t) == row.user \in {NoUser, u} \/ row.expires <= t

(* SELECT ... FOR UPDATE waits for the session that has the row locked;    *)
(* it finds nothing, and does not wait, while no lock row is committed.    *)
SelectLock(r) ==
    /\ edit[r].pc = "lock"
    /\ \/ /\ lock.user = NoUser
          /\ edit' = [edit EXCEPT ![r] = [@ EXCEPT !.pc = "insert"]]
          /\ UNCHANGED lockOwner
       \/ /\ lock.user # NoUser
          /\ lockOwner = NoEditor
          /\ IF MayLock(lock, edit[r].user, edit[r].at)
               THEN /\ edit' = [edit EXCEPT ![r] = [@ EXCEPT !.pc = "write"]]
                    /\ lockOwner' = r
               ELSE /\ edit' = [edit EXCEPT ![r] = IdleEdit]
                    /\ UNCHANGED lockOwner
    /\ UNCHANGED <<clock, revision, answers, lock, proposals, exports, store,
                   render, scan>>

(* The first lock of a filing is an INSERT: it waits for a concurrent one  *)
(* and then violates the unique constraint if that one committed.          *)
InsertLock(r) ==
    /\ edit[r].pc = "insert"
    /\ lockOwner = NoEditor
    /\ IF lock.user = NoUser
         THEN /\ edit' = [edit EXCEPT ![r] = [@ EXCEPT !.pc = "write"]]
              /\ lockOwner' = r
         ELSE /\ edit' = [edit EXCEPT ![r] = IdleEdit]
              /\ UNCHANGED lockOwner
    /\ UNCHANGED <<clock, revision, answers, lock, proposals, exports, store,
                   render, scan>>

(* Mutant: the exports of the filing are not marked.                       *)
MarkStaleForgotten(r) ==
    /\ edit[r].pc = "write"
    /\ edit' = [edit EXCEPT ![r].pc = "commit"]
    /\ Local

(* The upsert, the new revision and UPDATE studio_exports SET stale: the   *)
(* UPDATE reaches the exports committed by now.                            *)
MarkStale(r) ==
    /\ edit[r].pc = "write"
    /\ edit' = [edit EXCEPT ![r] = [@ EXCEPT !.pc = "commit",
                                             !.seen = Len(exports)]]
    /\ Local

(* Mutant: a plain write over an AI answer keeps its author.               *)
WrittenKeepingAuthor(q) ==
    [value    |-> q.value,
     author   |-> IF q.op \in {"accepted", "bulk"} THEN "ai"
                  ELSE IF answers[q.field].author = "ai" THEN "ai" ELSE "user",
     review   |-> IF q.op = "edited" THEN "edited" ELSE "accepted",
     evidence |-> IF q.op = "put" THEN answers[q.field].evidence ELSE q.prop]

(* The row a write leaves: write_answer, then what decide_proposal adds.   *)
(* A plain write keeps the evidence the row had.                           *)
Written(q) ==
    [value    |-> q.value,
     author   |-> IF q.op \in {"accepted", "bulk"} THEN "ai" ELSE "user",
     review   |-> IF q.op = "edited" THEN "edited" ELSE "accepted",
     evidence |-> IF q.op = "put" THEN answers[q.field].evidence ELSE q.prop]

(* Mutant: a bulk acceptance records its own name as the decision.         *)
DecidedAsBulk(q) ==
    [p \in Proposals |->
        [status |-> IF p = q.prop /\ "status" \in q.sets
                      THEN q.op ELSE proposals[p].status,
         by     |-> IF p = q.prop /\ "by" \in q.sets
                      THEN q.user ELSE proposals[p].by]]

(* The decision a session's commit records: an UPDATE names the columns    *)
(* that changed and leaves the others as the last commit left them.        *)
Decided(q) ==
    [p \in Proposals |->
        [status |-> IF p = q.prop /\ "status" \in q.sets
                      THEN IF q.op = "bulk" THEN "accepted" ELSE q.op
                      ELSE proposals[p].status,
         by     |-> IF p = q.prop /\ "by" \in q.sets
                      THEN q.user ELSE proposals[p].by]]

(* A request after its commit: a bulk accept goes on with the next one. *)
After(q) ==
    IF q.op = "bulk"
      THEN [IdleEdit EXCEPT !.pc = "next", !.op = "bulk", !.user = q.user,
                            !.todo = q.todo]
      ELSE IdleEdit

CommitAnswer(r) ==
    LET q == edit[r] IN
    /\ q.pc = "commit"
    /\ answers' = [answers EXCEPT ![q.field] = Written(q)]
    /\ revision' = q.rev + 1
    /\ lock' = [user |-> q.user, expires |-> q.at + Lifetime]
    /\ lockOwner' = NoEditor
    /\ proposals' = Decided(q)
    /\ exports' = [i \in DOMAIN exports |->
                     IF i <= q.seen THEN [exports[i] EXCEPT !.stale = TRUE]
                                    ELSE exports[i]]
    /\ edit' = [edit EXCEPT ![r] = After(q)]
    /\ render' = [x \in Exporters |->
                    IF render[x].pc \in {"version", "put"}
                      THEN [render[x] EXCEPT !.raced = TRUE] ELSE render[x]]
    /\ UNCHANGED <<clock, store, scan>>

(* A rejection writes no answer and needs no editor lock. *)
CommitRejection(r) ==
    /\ edit[r].pc = "reject"
    /\ edit[r].sets # {} => ProposalFree(r)
    /\ proposals' = Decided(edit[r])
    /\ edit' = [edit EXCEPT ![r] = IdleEdit]
    /\ UNCHANGED <<clock, revision, answers, lock, lockOwner, exports, store,
                   render, scan>>

(* Mutant: a failed session keeps its row lock.                            *)
FailEditLeaking(r) ==
    /\ edit[r].pc # "idle"
    /\ edit' = [edit EXCEPT ![r] = IdleEdit]
    /\ Local

(* A crash, a lost connection or an error rolls the session back.          *)
FailEdit(r) ==
    /\ edit[r].pc # "idle"
    /\ edit' = [edit EXCEPT ![r] = IdleEdit]
    /\ lockOwner' = IF lockOwner = r THEN NoEditor ELSE lockOwner
    /\ UNCHANGED <<clock, revision, answers, lock, proposals, exports, store,
                   render, scan>>

-----------------------------------------------------------------------------
(* Document mapping *)

(* map_section reads which fields a user has answered ... *)
StartMapping(r) ==
    /\ scan[r].pc = "idle"
    /\ scan' = [scan EXCEPT ![r] =
                  [pc |-> "insert",
                   open |-> {f \in Fields : answers[f].author # "user"}]]
    /\ UNCHANGED <<clock, database, exports, store, edit, render>>

(* ... and commits proposals for others, at most one per field. *)
CommitMapping(r, P) ==
    /\ scan[r].pc = "insert"
    /\ \A p \in P : ~Created(p) /\ PField[p] \in scan[r].open
    /\ \A p, q \in P : PField[p] = PField[q] => p = q
    /\ proposals' = [p \in Proposals |->
                       IF p \in P THEN [status |-> "unreviewed", by |-> NoUser]
                                  ELSE proposals[p]]
    /\ scan' = [scan EXCEPT ![r] = IdleScan]
    /\ UNCHANGED <<clock, revision, answers, lock, lockOwner, exports, store,
                   edit, render>>

FailMapping(r) ==
    /\ scan[r].pc = "insert"
    /\ scan' = [scan EXCEPT ![r] = IdleScan]
    /\ UNCHANGED <<clock, database, exports, store, edit, render>>

-----------------------------------------------------------------------------
(* Exports *)

Rendering == UNCHANGED <<clock, database, edit, scan>>

(* POST /filings/{id}/exports. *)
StartExport(r, K) ==
    /\ render[r].pc = "idle"
    /\ Len(exports) < MaxExports
    /\ K # {}
    /\ render' = [render EXCEPT ![r] =
                    [IdleRender EXCEPT !.pc = "filing", !.kinds = K]]
    /\ Rendering /\ UNCHANGED <<exports, store>>

(* scoped_filing: the revision the rows will carry. *)
ExportReadFiling(r) ==
    /\ render[r].pc = "filing"
    /\ render' = [render EXCEPT ![r] =
                    [@ EXCEPT !.pc = "answers", !.rev = revision]]
    /\ Rendering /\ UNCHANGED <<exports, store>>

(* filing_answers, and the validation and rendering of what it returned.   *)
ExportReadAnswers(r, clean) ==
    /\ render[r].pc = "answers"
    /\ render' = [render EXCEPT ![r] =
                    IF ValidationRaises(answers)
                      THEN IdleRender
                      ELSE [@ EXCEPT !.pc = "version", !.snap = answers,
                                     !.clean = clean]]
    /\ Rendering /\ UNCHANGED <<exports, store>>

Versions == {exports[i].version : i \in DOMAIN exports}

(* Mutant: the latest version, not the one after it.                       *)
LatestVersion ==
    IF exports = <<>> THEN 1
    ELSE CHOOSE v \in Versions : \A w \in Versions : w <= v

NextVersion ==
    IF exports = <<>> THEN 1
    ELSE 1 + (CHOOSE v \in Versions : \A w \in Versions : w <= v)

(* Mutant: every requested artifact is produced.                           *)
ReadyUngated(q) == q.kinds

(* A failed gate blocks the filing's documents, never the gap report.      *)
Ready(q) == IF ExportAllowed(q.snap, q.clean) THEN q.kinds ELSE q.kinds \ Gated

ExportReadVersion(r) ==
    /\ render[r].pc = "version"
    /\ render' = [render EXCEPT ![r] =
                    [@ EXCEPT !.pc = "put", !.version = NextVersion,
                              !.todo = Ready(render[r])]]
    /\ Rendering /\ UNCHANGED <<exports, store>>

(* store.put overwrites whatever the key studio/{filing}/v{version} holds. *)
Put(version, k, snap, clean) ==
    {o \in store : o.version # version \/ o.kind # k}
      \cup {[version |-> version, kind |-> k, snap |-> snap, clean |-> clean]}

PutArtifact(r, k) ==
    /\ render[r].pc = "put"
    /\ k \in render[r].todo
    /\ store' = Put(render[r].version, k, render[r].snap, render[r].clean)
    /\ render' = [render EXCEPT ![r] = [@ EXCEPT !.todo = render[r].todo \ {k}]]
    /\ Rendering /\ UNCHANGED exports

NewExport(q) ==
    [version |-> q.version, revision |-> q.rev, kinds |-> q.kinds,
     ready |-> Ready(q), stale |-> FALSE, snap |-> q.snap,
     raced |-> q.raced \/ \E r \in Editors : edit[r].pc = "commit"]

CommitExport(r) ==
    /\ render[r].pc = "put"
    /\ render[r].todo = {}
    /\ exports' = Append(exports, NewExport(render[r]))
    /\ render' = [render EXCEPT ![r] = IdleRender]
    /\ Rendering /\ UNCHANGED store

FailExport(r) ==
    /\ render[r].pc # "idle"
    /\ render' = [render EXCEPT ![r] = IdleRender]
    /\ Rendering /\ UNCHANGED <<exports, store>>

-----------------------------------------------------------------------------

Tick ==
    /\ clock < MaxTime
    /\ clock' = clock + 1
    /\ UNCHANGED <<database, exports, store, edit, render, scan>>

EditStep(r) ==
    \/ \E p \in Proposals : BulkPick(r, p)
    \/ BulkDone(r)
    \/ ReadFiling(r)
    \/ ReadProposal(r)
    \/ Stamp(r)
    \/ FlushDecision(r)
    \/ SelectLock(r)
    \/ InsertLock(r)
    \/ MarkStale(r)
    \/ CommitAnswer(r)
    \/ CommitRejection(r)

ExportStep(r) ==
    \/ ExportReadFiling(r)
    \/ \E clean \in BOOLEAN : ExportReadAnswers(r, clean)
    \/ ExportReadVersion(r)
    \/ \E k \in Kinds : PutArtifact(r, k)
    \/ CommitExport(r)

Next ==
    \/ Tick
    \/ \E r \in Editors :
        \/ \E u \in Users, f \in Fields, v \in Values : StartPut(r, u, f, v)
        \/ \E u \in Users, p \in Proposals, d \in Decisions, v \in Values :
             StartDecision(r, u, p, d, v)
        \/ \E u \in Users, P \in SUBSET Proposals : StartBulk(r, u, P)
        \/ EditStep(r)
        \/ FailEdit(r)
    \/ \E r \in Mappers :
        \/ StartMapping(r)
        \/ \E P \in SUBSET Proposals : CommitMapping(r, P)
        \/ FailMapping(r)
    \/ \E r \in Exporters :
        \/ \E K \in SUBSET Kinds : StartExport(r, K)
        \/ ExportStep(r)
        \/ FailExport(r)

Spec == Init /\ [][Next]_vars

(***************************************************************************)
(* Fairness.  The server keeps running a request it has accepted, and a    *)
(* session that waits for a row lock queues for it, so that it gets the    *)
(* lock if the lock is free again and again: PostgreSQL grants row locks   *)
(* in the order they were asked for.  Nothing makes a client send a        *)
(* request or makes one fail.                                              *)
(***************************************************************************)
Fairness ==
    \A r \in Editors :
        /\ WF_vars(EditStep(r))
        /\ SF_vars(FlushDecision(r))
        /\ SF_vars(SelectLock(r))
        /\ SF_vars(InsertLock(r))
        /\ SF_vars(CommitRejection(r))

FairSpec == Spec /\ Fairness

-----------------------------------------------------------------------------
(* Properties *)

Leased == INSTANCE LeasedAnswers
            WITH Entry <- Answer, NoEntry <- Unanswered,
                 Instants <- 0..MaxTime, lease <- lock

(* The requests, sessions and row locks behave like atomic writes under a  *)
(* lease: every committed write belongs to a user who held, took over      *)
(* after expiry, or freshly got the editor lock, and changes one field     *)
(* (acquire_lock, write_answer).                                           *)
WritesAreLeased == Leased!LeasedSpec

(* What is stored always validates, also a proposed value that validation  *)
(* had not seen before it was accepted (write_answer).                     *)
StoredAnswersValid == FieldErrors(answers) = {}

(* An AI answer carries exactly what a proposal for its field said, and    *)
(* somebody decided that proposal (decide_proposal commits the decision    *)
(* and the answer together).                                               *)
AIAnswersDecided ==
    \A f \in Answered(answers) :
        answers[f].author = "ai" =>
            \E p \in Proposals :
                /\ answers[f].evidence = p
                /\ PField[p] = f
                /\ PValue[p] = answers[f].value
                /\ proposals[p].status \in Decisions

(* A proposal recorded as accepted or edited has reached its field: a      *)
(* conflict, a failed validation or a crash undoes decision and answer     *)
(* together (decide_proposal).                                             *)
DecisionsReachAnswers ==
    \A p \in Proposals :
        proposals[p].status \in {"accepted", "edited"} =>
            PField[p] \in Answered(answers)

(* Whatever races between exports, a filing document that can be           *)
(* downloaded exists and was rendered from answers that passed the gate:   *)
(* complete, reconciled, reviewed and accepted by Arelle                   *)
(* (generate_exports, download_export).                                    *)
DownloadsPassedGate ==
    \A i \in DOMAIN exports : \A k \in exports[i].ready :
        /\ \E o \in store : o.version = exports[i].version /\ o.kind = k
        /\ k \in Gated =>
             \A o \in store :
                o.version = exports[i].version /\ o.kind = k =>
                    ExportAllowed(o.snap, o.clean)

(* The staleness flag can be trusted for every export that no write        *)
(* overlapped: not stale means rendered from the answers as they are       *)
(* (write_answer marks, generate_exports inserts).                         *)
FreshUnlessRaced ==
    \A i \in DOMAIN exports :
        ~exports[i].stale /\ ~exports[i].raced => exports[i].snap = answers

(* While one request at a time exports the filing, a committed export's    *)
(* artifacts are the ones it rendered (generate_exports).                  *)
ArtifactsAreOwn ==
    \A i \in DOMAIN exports : \A o \in store :
        o.version = exports[i].version /\ o.kind \in exports[i].ready =>
            o.snap = exports[i].snap

(* While one editor at a time works on the filing, its revision counts the *)
(* committed writes (write_answer).                                        *)
RevisionCountsWrites ==
    [][lock' # lock \/ answers' # answers => revision' = revision + 1]_vars

(* A request that was accepted ends: no session waits for ever for a       *)
(* proposal row or for the editor lock row.                                *)
RequestsEnd == \A r \in Editors : edit[r].pc # "idle" ~> edit[r].pc = "idle"

-----------------------------------------------------------------------------
(* The inductive invariant behind the properties *)

(* The owner of the editor lock row is the one request between its lock    *)
(* query and its commit, and the committed lease lets it write: nobody     *)
(* else can change the row meanwhile (acquire_lock, FOR UPDATE).           *)
LockHeld ==
    \A r \in Editors :
        /\ edit[r].pc \in {"write", "commit"} <=> lockOwner = r
        /\ edit[r].pc \in {"write", "commit"} =>
             MayLock(lock, edit[r].user, edit[r].at)

Unstamped == {"idle", "next", "filing", "proposal", "reject", "stamp"}

(* What a request knows at each step still holds: its value validated, its *)
(* proposal exists and is for its field, and a decision it will not write  *)
(* is written already (put_answer, decide_proposal, bulk_accept).          *)
RequestValid(q) ==
    /\ q.at <= MaxTime
    /\ q.pc # "idle" => q.user \in Users
    /\ q.op = "put" => q.sets = {} /\ q.prop = NoProposal
    /\ q.op \in {"put", "bulk"} => q.pc \notin {"proposal", "reject"}
    /\ q.op # "bulk" => q.pc # "next"
    /\ q.op # "put" /\ q.pc # "next" =>
         /\ q.prop \in Proposals
         /\ Created(q.prop)
         /\ q.field = PField[q.prop]
         /\ q.op \in {"accepted", "bulk"} => q.value = PValue[q.prop]
    /\ q.op = "bulk" /\ q.pc # "next" => "status" \in q.sets
    /\ q.op \in Decisions /\ q.pc \notin {"filing", "proposal"} =>
         "status" \in q.sets \/ proposals[q.prop].status \in Decisions
    /\ q.op = "rejected" => q.pc \in {"filing", "proposal", "reject"}
    /\ q.pc = "reject" => q.op = "rejected"
    /\ q.pc \notin Unstamped => ValidValue(q.field, q.value)

RequestsValid == clock <= MaxTime /\ \A r \in Editors : RequestValid(edit[r])

(* A write marks every export it can see; the ones it cannot see know that *)
(* they were overlapped, and so do the exports still being rendered        *)
(* (write_answer, generate_exports).                                       *)
OverlapsKnown ==
    /\ \A r \in Exporters :
         render[r].pc \in {"version", "put"} /\ ~render[r].raced =>
            render[r].snap = answers
    /\ \A r \in Editors : edit[r].pc = "commit" =>
         \A i \in DOMAIN exports : i > edit[r].seen => exports[i].raced

(* Whatever is overwritten in the store, what a version's key holds passed *)
(* the gate, and is there before its row is (generate_exports).            *)
StoreHolds ==
    /\ \A o \in store : o.kind \in Gated => ExportAllowed(o.snap, o.clean)
    /\ \A i \in DOMAIN exports : \A k \in exports[i].ready :
         \E o \in store : o.version = exports[i].version /\ o.kind = k
    /\ \A r \in Exporters : render[r].pc = "put" =>
         /\ render[r].todo \subseteq Ready(render[r])
         /\ \A k \in Ready(render[r]) \ render[r].todo :
              \E o \in store : o.version = render[r].version /\ o.kind = k

(* The history has a latest version for the next one to follow             *)
(* (generate_exports, SELECT max(version)).                                *)
LatestKnown ==
    exports # <<>> => \E v \in Versions : \A w \in Versions : w <= v

(* The two halves of the inductive invariant: what the editor requests     *)
(* rely on, and what the exports rely on (write_answer, generate_exports). *)
EditorsInv == LockHeld /\ RequestsValid
ExportsInv == OverlapsKnown /\ StoreHolds /\ LatestKnown

=============================================================================
