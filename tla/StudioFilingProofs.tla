------------------------- MODULE StudioFilingProofs -------------------------
(***************************************************************************)
(* Theorems about StudioFiling, for any form schema, any numbers of users, *)
(* requests and proposals, and any bounds.                                 *)
(***************************************************************************)
EXTENDS StudioFiling, SequenceTheorems, TLAPS

(* Blank rows and idle requests are of their types.                        *)
LEMMA BlankTyped == Blank \in Snapshot
  BY EngineAssumption DEF Blank, Snapshot, Unanswered, Answer, Values

LEMMA IdleEditTyped == IdleEdit \in EditRequest
  <1>1. (CHOOSE f \in Fields : TRUE) \in Fields
    BY FilingAssumption
  <1> QED
    BY <1>1 DEF IdleEdit, EditRequest

LEMMA IdleRenderTyped == IdleRender \in RenderRequest
  BY BlankTyped DEF IdleRender, RenderRequest

LEMMA InitTyped == Init => TypeOK
  <1> SUFFICES ASSUME Init PROVE TypeOK
    OBVIOUS
  <1>1. exports \in Seq(Export)
    BY DEF Init
  <1>2. lock \in LockRow /\ proposals \in [Proposals -> Proposal]
    BY DEF Init, LockRow, Proposal
  <1>3. scan \in [Mappers -> ScanRequest]
    BY DEF Init, ScanRequest, IdleScan
  <1> QED
    BY <1>1, <1>2, <1>3, BlankTyped, IdleEditTyped, IdleRenderTyped
    DEF Init, TypeOK

(* Marking entries of a history and appending one to it leave a history.   *)
LEMMA MarkedTyped ==
  ASSUME NEW s \in Seq(Export), NEW n
  PROVE  [i \in DOMAIN s |->
            IF i <= n THEN [s[i] EXCEPT !.stale = TRUE] ELSE s[i]] \in Seq(Export)
  <1> DEFINE t == [i \in DOMAIN s |->
                     IF i <= n THEN [s[i] EXCEPT !.stale = TRUE] ELSE s[i]]
  <1>1. Len(s) \in Nat /\ DOMAIN s = 1..Len(s)
    OBVIOUS
  <1>2. ASSUME NEW i \in 1..Len(s) PROVE t[i] \in Export
    <2>1. s[i] \in Export
      BY <1>1
    <2> QED
      BY <1>1, <2>1 DEF Export
  <1>3. t \in [1..Len(s) -> Export]
    BY <1>1, <1>2
  <1> QED
    BY <1>1, <1>3, SeqDef
-----------------------------------------------------------------------------
(* Type correctness *)

(* An editor request that only moves on keeps the types.                   *)
LEMMA LocalTyped ==
  ASSUME TypeOK, Local, NEW r \in Editors, NEW q \in EditRequest,
         edit' = [edit EXCEPT ![r] = q]
  PROVE  TypeOK'
  BY DEF TypeOK, Local, database

LEMMA LocalStepsTyped ==
  ASSUME TypeOK, NEW r \in Editors,
         \/ \E u \in Users, f \in Fields, v \in Values : StartPut(r, u, f, v)
         \/ \E u \in Users, p \in Proposals, d \in Decisions, v \in Values :
              StartDecision(r, u, p, d, v)
         \/ \E u \in Users, P \in SUBSET Proposals : StartBulk(r, u, P)
         \/ \E p \in Proposals : BulkPick(r, p)
         \/ BulkDone(r)
         \/ ReadFiling(r)
         \/ ReadProposal(r)
         \/ Stamp(r)
         \/ FlushDecision(r)
         \/ MarkStale(r)
  PROVE  TypeOK'
  <1> edit[r] \in EditRequest
    BY DEF TypeOK
  <1>1. ASSUME NEW u \in Users, NEW f \in Fields, NEW v \in Values,
               StartPut(r, u, f, v)
        PROVE  TypeOK'
    <2> DEFINE q == [IdleEdit EXCEPT !.pc = "filing", !.user = u,
                                     !.field = f, !.value = v]
    <2>1. q \in EditRequest
      BY IdleEditTyped DEF EditRequest
    <2> QED
      BY <1>1, <2>1, LocalTyped DEF StartPut
  <1>2. ASSUME NEW u \in Users, NEW p \in Proposals, NEW d \in Decisions,
               NEW v \in Values, StartDecision(r, u, p, d, v)
        PROVE  TypeOK'
    <2> DEFINE q == [IdleEdit EXCEPT !.pc = "filing", !.op = d, !.user = u,
                                     !.field = PField[p], !.value = v,
                                     !.prop = p]
    <2>1. q \in EditRequest
      BY IdleEditTyped, FilingAssumption DEF EditRequest
    <2> QED
      BY <1>2, <2>1, LocalTyped DEF StartDecision
  <1>3. ASSUME NEW u \in Users, NEW P \in SUBSET Proposals, StartBulk(r, u, P)
        PROVE  TypeOK'
    <2> DEFINE q == [IdleEdit EXCEPT !.pc = "next", !.op = "bulk", !.user = u,
                                     !.todo = P]
    <2>1. q \in EditRequest
      BY IdleEditTyped DEF EditRequest
    <2> QED
      BY <1>3, <2>1, LocalTyped DEF StartBulk
  <1>4. ASSUME NEW p \in Proposals, BulkPick(r, p) PROVE TypeOK'
    <2> DEFINE q1 == [edit[r] EXCEPT !.pc = "filing", !.prop = p,
                                     !.sets = {"status", "by"},
                                     !.field = PField[p], !.value = PValue[p],
                                     !.todo = edit[r].todo \ {p}]
               q2 == [edit[r] EXCEPT !.todo = edit[r].todo \ {p}]
    <2>1. /\ PField[p] \in Fields
          /\ PValue[p] \in Values
          /\ edit[r].todo \ {p} \in SUBSET Proposals
      BY FilingAssumption DEF EditRequest
    <2>3. q1 \in EditRequest
      BY <2>1 DEF EditRequest
    <2>4. q2 \in EditRequest
      BY <2>1 DEF EditRequest
    <2>2. \/ edit' = [edit EXCEPT ![r] = q1]
          \/ edit' = [edit EXCEPT ![r] = q2]
      BY <1>4 DEF BulkPick, TypeOK
    <2> QED
      BY <1>4, <2>2, <2>3, <2>4, LocalTyped DEF BulkPick
  <1>5. CASE BulkDone(r)
    BY <1>5, IdleEditTyped, LocalTyped DEF BulkDone
  <1>6. CASE ReadFiling(r)
    <2> DEFINE q == [edit[r] EXCEPT !.pc = IF edit[r].op \in Decisions
                                              THEN "proposal" ELSE "stamp",
                                    !.rev = revision]
    <2>1. q \in EditRequest
      BY DEF EditRequest, TypeOK
    <2> QED
      BY <1>6, <2>1, LocalTyped DEF ReadFiling, TypeOK
  <1>7. CASE ReadProposal(r)
    <2> DEFINE q == [edit[r] EXCEPT !.pc = IF edit[r].op = "rejected"
                                              THEN "reject" ELSE "stamp",
                                    !.sets = Changes(edit[r])]
    <2>0. edit[r] \in EditRequest /\ Changes(edit[r]) \in SUBSET {"status", "by"}
      BY DEF TypeOK, Changes
    <2>1. q \in EditRequest
      <3>1. ASSUME NEW pc \in {"reject", "stamp"},
                   NEW c \in SUBSET {"status", "by"}
            PROVE  [edit[r] EXCEPT !.pc = pc, !.sets = c] \in EditRequest
        BY <2>0 DEF EditRequest
      <3> QED
        BY <2>0, <3>1
    <2> QED
      BY <1>7, <2>1, LocalTyped DEF ReadProposal, TypeOK
  <1>8. CASE Stamp(r)
    <2> DEFINE q == [edit[r] EXCEPT !.pc = IF edit[r].sets = {} THEN "lock" ELSE "flush",
                                    !.at = clock]
    <2>1. q \in EditRequest
      BY DEF EditRequest, TypeOK
    <2>2. \/ edit' = [edit EXCEPT ![r] = q]
          \/ edit' = [edit EXCEPT ![r] = IdleEdit]
      BY <1>8 DEF Stamp, TypeOK
    <2> QED
      BY <1>8, <2>1, <2>2, IdleEditTyped, LocalTyped DEF Stamp
  <1>9. CASE FlushDecision(r)
    <2> DEFINE q == [edit[r] EXCEPT !.pc = "lock"]
    <2>1. q \in EditRequest
      BY DEF EditRequest
    <2> QED
      BY <1>9, <2>1, LocalTyped DEF FlushDecision, TypeOK
  <1>10. CASE MarkStale(r)
    <2> DEFINE q == [edit[r] EXCEPT !.pc = "commit", !.seen = Len(exports)]
    <2>1. Len(exports) \in Nat
      BY LenProperties DEF TypeOK
    <2>2. q \in EditRequest
      BY <2>1 DEF EditRequest
    <2> QED
      BY <1>10, <2>2, LocalTyped DEF MarkStale, TypeOK
  <1> QED
    BY <1>1, <1>2, <1>3, <1>4, <1>5, <1>6, <1>7, <1>8, <1>9, <1>10

LEMMA LockStepsTyped ==
  ASSUME TypeOK, NEW r \in Editors,
         SelectLock(r) \/ InsertLock(r) \/ FailEdit(r)
  PROVE  TypeOK'
  <1> DEFINE pc(x) == [edit[r] EXCEPT !.pc = x]
  <1>1. edit[r] \in EditRequest
    BY DEF TypeOK
  <1>2. pc("insert") \in EditRequest /\ pc("write") \in EditRequest
    BY <1>1 DEF EditRequest
  <1>3. \/ edit' = [edit EXCEPT ![r] = pc("insert")]
        \/ edit' = [edit EXCEPT ![r] = pc("write")]
        \/ edit' = [edit EXCEPT ![r] = IdleEdit]
    BY DEF SelectLock, InsertLock, FailEdit, TypeOK
  <1>4. lockOwner' \in Editors \cup {NoEditor}
    BY DEF SelectLock, InsertLock, FailEdit, TypeOK
  <1>5. edit' \in [Editors -> EditRequest]
    BY <1>2, <1>3, IdleEditTyped DEF TypeOK
  <1>6. UNCHANGED <<clock, revision, answers, lock, proposals, exports, store,
                    render, scan>>
    BY DEF SelectLock, InsertLock, FailEdit
  <1> QED
    BY <1>4, <1>5, <1>6 DEF TypeOK

LEMMA DecidedTyped ==
  ASSUME TypeOK, NEW q \in EditRequest, q.op = "put" => q.sets = {}
  PROVE  Decided(q) \in [Proposals -> Proposal]
  <1> SUFFICES ASSUME NEW p \in Proposals PROVE Decided(q)[p] \in Proposal
    BY DEF Decided
  <1>1. proposals[p] \in Proposal
    BY DEF TypeOK
  <1>2. q.op = "bulk" \/ q.op = "put" \/ q.op \in Decisions
    BY DEF EditRequest
  <1>3. q.user \in Users \cup {NoUser}
    BY DEF EditRequest
  <1> QED
    BY <1>1, <1>2, <1>3 DEF Decided, Proposal, Decisions

LEMMA WrittenTyped ==
  ASSUME TypeOK, NEW q \in EditRequest
  PROVE  Written(q) \in Answer
  <1>1. answers[q.field].evidence \in Proposals \cup {NoProposal}
    BY DEF TypeOK, EditRequest, Snapshot, Answer
  <1>2. q.value \in Values \cup {NoValue} /\ q.prop \in Proposals \cup {NoProposal}
    BY DEF EditRequest
  <1> QED
    BY <1>1, <1>2 DEF Written, Answer

LEMMA AfterTyped ==
  ASSUME NEW q \in EditRequest
  PROVE  After(q) \in EditRequest
  <1> DEFINE next == [IdleEdit EXCEPT !.pc = "next", !.op = "bulk",
                                      !.user = q.user, !.todo = q.todo]
  <1>1. q.user \in Users \cup {NoUser} /\ q.todo \in SUBSET Proposals
    BY DEF EditRequest
  <1>2. next \in EditRequest
    BY <1>1, IdleEditTyped DEF EditRequest
  <1>3. After(q) = next \/ After(q) = IdleEdit
    BY DEF After
  <1> QED
    BY <1>2, <1>3, IdleEditTyped

LEMMA CommitsTyped ==
  ASSUME TypeOK, RequestsValid, NEW r \in Editors,
         CommitAnswer(r) \/ CommitRejection(r)
  PROVE  TypeOK'
  <1> DEFINE q == edit[r]
  <1>1. q \in EditRequest /\ (q.op = "put" => q.sets = {})
    BY DEF TypeOK, RequestsValid, RequestValid
  <1>2. proposals' \in [Proposals -> Proposal]
    BY <1>1, DecidedTyped DEF CommitAnswer, CommitRejection
  <1>3. CASE CommitRejection(r)
    BY <1>2, <1>3, IdleEditTyped DEF CommitRejection, TypeOK
  <1>4. CASE CommitAnswer(r)
    <2>1. answers' \in Snapshot
      BY <1>1, <1>4, WrittenTyped DEF CommitAnswer, TypeOK, Snapshot
    <2>2. revision' \in Nat
      BY <1>1, <1>4 DEF CommitAnswer, EditRequest
    <2>3. lock' \in LockRow /\ lockOwner' \in Editors \cup {NoEditor}
      BY <1>1, <1>4, FilingAssumption DEF CommitAnswer, EditRequest, LockRow
    <2>4. exports' \in Seq(Export)
      BY <1>4, MarkedTyped DEF CommitAnswer, TypeOK
    <2>5. After(q) \in EditRequest
      BY <1>1, AfterTyped
    <2>6. edit' \in [Editors -> EditRequest]
      BY <1>4, <2>5 DEF CommitAnswer, TypeOK
    <2>7. render' \in [Exporters -> RenderRequest]
      <3> SUFFICES ASSUME NEW x \in Exporters PROVE render'[x] \in RenderRequest
        BY <1>4 DEF CommitAnswer
      <3>1. render[x] \in RenderRequest
        BY DEF TypeOK
      <3>2. [render[x] EXCEPT !.raced = TRUE] \in RenderRequest
        BY <3>1 DEF RenderRequest
      <3> QED
        BY <1>4, <3>1, <3>2 DEF CommitAnswer
    <2> QED
      BY <1>2, <1>4, <2>1, <2>2, <2>3, <2>4, <2>6, <2>7 DEF CommitAnswer, TypeOK
  <1> QED
    BY <1>3, <1>4

LEMMA MappingTyped ==
  ASSUME TypeOK, NEW r \in Mappers,
         \/ StartMapping(r)
         \/ \E P \in SUBSET Proposals : CommitMapping(r, P)
         \/ FailMapping(r)
  PROVE  TypeOK'
  <1>1. IdleScan \in ScanRequest
    BY DEF IdleScan, ScanRequest
  <1>2. CASE StartMapping(r)
    <2> DEFINE q == [pc |-> "insert",
                     open |-> {f \in Fields : answers[f].author # "user"}]
    <2>1. q \in ScanRequest
      BY DEF ScanRequest
    <2> QED
      BY <1>2, <2>1 DEF StartMapping, TypeOK, database
  <1>3. CASE FailMapping(r)
    BY <1>1, <1>3 DEF FailMapping, TypeOK, database
  <1>4. ASSUME NEW P \in SUBSET Proposals, CommitMapping(r, P) PROVE TypeOK'
    <2>1. proposals' \in [Proposals -> Proposal]
      <3> SUFFICES ASSUME NEW p \in Proposals PROVE proposals'[p] \in Proposal
        BY <1>4 DEF CommitMapping
      <3>1. proposals[p] \in Proposal
        BY DEF TypeOK
      <3>2. [status |-> "unreviewed", by |-> NoUser] \in Proposal
        BY DEF Proposal
      <3> QED
        BY <1>4, <3>1, <3>2 DEF CommitMapping
    <2> QED
      BY <1>1, <1>4, <2>1 DEF CommitMapping, TypeOK
  <1> QED
    BY <1>2, <1>3, <1>4

(* An export request that only moves on keeps the types.                   *)
LEMMA RenderingTyped ==
  ASSUME TypeOK, Rendering, NEW r \in Exporters, NEW q \in RenderRequest,
         render' = [render EXCEPT ![r] = q],
         exports' \in Seq(Export), store' \subseteq Object
  PROVE  TypeOK'
  BY DEF TypeOK, Rendering, database

LEMMA ReadyIsRequested ==
  ASSUME NEW q PROVE Ready(q) \subseteq q.kinds
  BY DEF Ready

LEMMA VersionsAreNat ==
  ASSUME TypeOK PROVE \A v \in Versions : v \in Nat
  <1>1. \A i \in DOMAIN exports : exports[i] \in Export
    BY DEF TypeOK
  <1>2. \A i \in DOMAIN exports : exports[i].version \in Nat
    BY <1>1 DEF Export
  <1> QED
    BY <1>2 DEF Versions

(* The next version is a number, and above every version in the history.   *)
LEMMA NextVersionTyped ==
  ASSUME TypeOK, LatestKnown PROVE NextVersion \in Nat
  <1>1. CASE exports = <<>>
    BY <1>1 DEF NextVersion
  <1>2. CASE exports # <<>>
    <2> DEFINE latest == CHOOSE v \in Versions : \A w \in Versions : w <= v
    <2>1. latest \in Versions
      BY <1>2 DEF LatestKnown
    <2>2. latest \in Nat
      BY <2>1, VersionsAreNat
    <2> QED
      BY <1>2, <2>2 DEF NextVersion
  <1> QED
    BY <1>1, <1>2

LEMMA ExportStepsTyped ==
  ASSUME TypeOK, LatestKnown, NEW r \in Exporters,
         \/ \E K \in SUBSET Kinds : StartExport(r, K)
         \/ ExportReadFiling(r)
         \/ \E clean \in BOOLEAN : ExportReadAnswers(r, clean)
         \/ ExportReadVersion(r)
         \/ FailExport(r)
  PROVE  TypeOK'
  <1> render[r] \in RenderRequest
    BY DEF TypeOK
  <1> exports \in Seq(Export) /\ store \subseteq Object
    BY DEF TypeOK
  <1>1. ASSUME NEW K \in SUBSET Kinds, StartExport(r, K) PROVE TypeOK'
    <2> DEFINE q == [IdleRender EXCEPT !.pc = "filing", !.kinds = K]
    <2>1. q \in RenderRequest
      BY IdleRenderTyped DEF RenderRequest
    <2> QED
      BY <1>1, <2>1, RenderingTyped DEF StartExport
  <1>2. CASE ExportReadFiling(r)
    <2> DEFINE q == [render[r] EXCEPT !.pc = "answers", !.rev = revision]
    <2>1. q \in RenderRequest
      BY DEF RenderRequest, TypeOK
    <2> QED
      BY <1>2, <2>1, RenderingTyped DEF ExportReadFiling, TypeOK
  <1>3. ASSUME NEW clean \in BOOLEAN, ExportReadAnswers(r, clean) PROVE TypeOK'
    <2> DEFINE q == [render[r] EXCEPT !.pc = "version", !.snap = answers,
                                      !.clean = clean]
    <2>1. q \in RenderRequest
      BY DEF RenderRequest, TypeOK
    <2>2. \/ render' = [render EXCEPT ![r] = q]
          \/ render' = [render EXCEPT ![r] = IdleRender]
      BY <1>3 DEF ExportReadAnswers, TypeOK
    <2> QED
      BY <1>3, <2>1, <2>2, IdleRenderTyped, RenderingTyped DEF ExportReadAnswers
  <1>4. CASE ExportReadVersion(r)
    <2> DEFINE q == [render[r] EXCEPT !.pc = "put", !.version = NextVersion,
                                      !.todo = Ready(render[r])]
    <2>1. Ready(render[r]) \in SUBSET Kinds
      BY ReadyIsRequested DEF RenderRequest
    <2>2. q \in RenderRequest
      BY <2>1, NextVersionTyped DEF RenderRequest
    <2> QED
      BY <1>4, <2>2, RenderingTyped DEF ExportReadVersion, TypeOK
  <1>5. CASE FailExport(r)
    BY <1>5, IdleRenderTyped, RenderingTyped DEF FailExport
  <1> QED
    BY <1>1, <1>2, <1>3, <1>4, <1>5

LEMMA NewExportTyped ==
  ASSUME NEW q \in RenderRequest PROVE NewExport(q) \in Export
  <1>1. Ready(q) \in SUBSET Kinds
    BY ReadyIsRequested DEF RenderRequest
  <1>2. (q.raced \/ \E r \in Editors : edit[r].pc = "commit") \in BOOLEAN
    OBVIOUS
  <1> QED
    BY <1>1, <1>2 DEF NewExport, Export, RenderRequest

LEMMA ArtifactStepsTyped ==
  ASSUME TypeOK, NEW r \in Exporters,
         (\E k \in Kinds : PutArtifact(r, k)) \/ CommitExport(r)
  PROVE  TypeOK'
  <1>1. render[r] \in RenderRequest /\ exports \in Seq(Export) /\ store \subseteq Object
    BY DEF TypeOK
  <1>2. ASSUME NEW k \in Kinds, PutArtifact(r, k) PROVE TypeOK'
    <2> DEFINE q == [render[r] EXCEPT !.todo = render[r].todo \ {k}]
    <2>1. q \in RenderRequest
      BY <1>1 DEF RenderRequest
    <2>2. store' \subseteq Object
      BY <1>1, <1>2 DEF PutArtifact, Put, Object, RenderRequest
    <2>3. render' = [render EXCEPT ![r] = q]
      BY <1>2 DEF PutArtifact, TypeOK
    <2> QED
      BY <1>1, <1>2, <2>1, <2>2, <2>3, RenderingTyped DEF PutArtifact
  <1>3. CASE CommitExport(r)
    <2>1. exports' \in Seq(Export)
      BY <1>1, <1>3, NewExportTyped, AppendProperties DEF CommitExport
    <2> QED
      BY <1>1, <1>3, <2>1, IdleRenderTyped, RenderingTyped DEF CommitExport
  <1> QED
    BY <1>2, <1>3

LEMMA StepTyped ==
  ASSUME TypeOK, RequestsValid, LatestKnown, [Next]_vars
  PROVE  TypeOK'
  <1>1. CASE Tick
    BY <1>1 DEF Tick, TypeOK, database
  <1>2. CASE UNCHANGED vars
    BY <1>2 DEF vars, TypeOK
  <1> QED
    BY <1>1, <1>2, LocalStepsTyped, LockStepsTyped, CommitsTyped, MappingTyped,
       ExportStepsTyped, ArtifactStepsTyped
    DEF Next, EditStep, ExportStep
-----------------------------------------------------------------------------
(* What the editor requests rely on *)

InLock == {"write", "commit"}

(* Requests that an action does not touch stay valid: proposals are never  *)
(* withdrawn and decisions on them never taken back.                       *)
LEMMA OthersStayValid ==
  ASSUME TypeOK, EditorsInv, NEW r \in Editors, NEW x \in Editors, x # r,
         NEW q, edit' = [edit EXCEPT ![r] = q],
         \A p \in Proposals :
            /\ Created(p) => proposals'[p].status # "absent"
            /\ proposals[p].status \in Decisions =>
                 proposals'[p].status \in Decisions
  PROVE  RequestValid(edit[x])'
  <1>1. edit'[x] = edit[x]
    BY DEF TypeOK
  <1>2. RequestValid(edit[x])
    BY DEF EditorsInv, RequestsValid
  <1> QED
    BY <1>1, <1>2 DEF RequestValid, Created, Decisions

(* It is enough to look at the request that steps.                         *)
LEMMA EditorStepKeeps ==
  ASSUME TypeOK, EditorsInv, NEW r \in Editors, NEW q,
         edit' = [edit EXCEPT ![r] = q],
         UNCHANGED <<clock, lock, proposals>>,
         RequestValid(q),
         \/ /\ UNCHANGED lockOwner
            /\ edit[r].pc \in InLock <=> q.pc \in InLock
            /\ q.pc \in InLock => q.user = edit[r].user /\ q.at = edit[r].at
         \/ /\ lockOwner = NoEditor /\ lockOwner' = r
            /\ q.pc \in InLock
            /\ MayLock(lock, q.user, q.at)
         \/ /\ lockOwner' = IF lockOwner = r THEN NoEditor ELSE lockOwner
            /\ q.pc \notin InLock
  PROVE  EditorsInv'
  <1>1. edit'[r] = q /\ \A x \in Editors \ {r} : edit'[x] = edit[x]
    BY DEF TypeOK
  <1>2. LockHeld'
    BY <1>1, FilingAssumption DEF EditorsInv, LockHeld, MayLock, InLock
  <1>3. RequestValid(edit[r])'
    BY <1>1 DEF RequestValid, Created
  <1>4. \A x \in Editors \ {r} : RequestValid(edit[x])'
    BY OthersStayValid DEF Created
  <1>5. clock' <= MaxTime
    BY DEF EditorsInv, RequestsValid
  <1>6. RequestsValid'
    BY <1>3, <1>4, <1>5 DEF RequestsValid
  <1> QED
    BY <1>2, <1>6 DEF EditorsInv

LEMMA IdleEditValid == RequestValid(IdleEdit)
  BY FilingAssumption DEF RequestValid, IdleEdit, Decisions, Unstamped

LEMMA StartsKeepEditors ==
  ASSUME TypeOK, EditorsInv, NEW r \in Editors,
         \/ \E u \in Users, f \in Fields, v \in Values : StartPut(r, u, f, v)
         \/ \E u \in Users, p \in Proposals, d \in Decisions, v \in Values :
              StartDecision(r, u, p, d, v)
         \/ \E u \in Users, P \in SUBSET Proposals : StartBulk(r, u, P)
  PROVE  EditorsInv'
  <1>1. ASSUME NEW u \in Users, NEW f \in Fields, NEW v \in Values,
               StartPut(r, u, f, v)
        PROVE  EditorsInv'
    <2> DEFINE q == [IdleEdit EXCEPT !.pc = "filing", !.user = u,
                                     !.field = f, !.value = v]
    <2>1. RequestValid(q)
      BY FilingAssumption DEF RequestValid, IdleEdit, Decisions, Unstamped
    <2>2. q.pc = "filing"
      BY DEF IdleEdit
    <2> QED
      BY <1>1, <2>1, <2>2, EditorStepKeeps DEF StartPut, Local, database, InLock
  <1>2. ASSUME NEW u \in Users, NEW p \in Proposals, NEW d \in Decisions,
               NEW v \in Values, StartDecision(r, u, p, d, v)
        PROVE  EditorsInv'
    <2> DEFINE q == [IdleEdit EXCEPT !.pc = "filing", !.op = d, !.user = u,
                                     !.field = PField[p], !.value = v,
                                     !.prop = p]
    <2>1. /\ q.pc = "filing" /\ q.op = d /\ q.user = u /\ q.field = PField[p]
          /\ q.value = v /\ q.prop = p /\ q.at = 0
      BY DEF IdleEdit
    <2> HIDE DEF q
    <2>3. Created(p) /\ (d # "edited" => v = PValue[p])
      BY <1>2 DEF StartDecision
    <2>2. RequestValid(q)
      BY <2>1, <2>3, FilingAssumption DEF RequestValid, Decisions, Unstamped
    <2>4. edit' = [edit EXCEPT ![r] = q]
      BY <1>2 DEF StartDecision, q
    <2>5. edit[r].pc = "idle" /\ UNCHANGED <<clock, lock, proposals, lockOwner>>
      BY <1>2 DEF StartDecision, Local, database
    <2> QED
      BY <2>1, <2>2, <2>4, <2>5, EditorStepKeeps DEF InLock
  <1>3. ASSUME NEW u \in Users, NEW P \in SUBSET Proposals, StartBulk(r, u, P)
        PROVE  EditorsInv'
    <2> DEFINE q == [IdleEdit EXCEPT !.pc = "next", !.op = "bulk", !.user = u,
                                     !.todo = P]
    <2>1. q.pc = "next" /\ q.op = "bulk" /\ q.user = u /\ q.at = 0
      BY DEF IdleEdit
    <2>2. RequestValid(q)
      BY <2>1, FilingAssumption DEF RequestValid, Decisions, Unstamped
    <2> QED
      BY <1>3, <2>1, <2>2, EditorStepKeeps DEF StartBulk, Local, database, InLock
  <1> QED
    BY <1>1, <1>2, <1>3

LEMMA LocalStepsKeepEditors ==
  ASSUME TypeOK, EditorsInv, NEW r \in Editors,
         \/ \E p \in Proposals : BulkPick(r, p)
         \/ BulkDone(r)
         \/ ReadFiling(r)
         \/ ReadProposal(r)
         \/ Stamp(r)
         \/ FlushDecision(r)
         \/ MarkStale(r)
  PROVE  EditorsInv'
  <1>1. edit[r] \in EditRequest /\ RequestValid(edit[r])
    BY DEF TypeOK, EditorsInv, RequestsValid
  <1>2. IdleEdit.pc = "idle"
    BY DEF IdleEdit
  <1>4. ASSUME NEW p \in Proposals, BulkPick(r, p) PROVE EditorsInv'
    <2> DEFINE q1 == [edit[r] EXCEPT !.pc = "filing", !.prop = p,
                                     !.sets = {"status", "by"},
                                     !.field = PField[p], !.value = PValue[p],
                                     !.todo = edit[r].todo \ {p}]
               q2 == [edit[r] EXCEPT !.todo = edit[r].todo \ {p}]
    <2>1. edit[r].pc = "next" /\ edit[r].op = "bulk"
      BY <1>1, <1>4 DEF BulkPick, RequestValid
    <2>2. CASE Eligible(p)
      <3>1. /\ q1.pc = "filing" /\ q1.op = "bulk" /\ q1.user = edit[r].user
            /\ q1.at = edit[r].at /\ q1.prop = p /\ q1.field = PField[p]
            /\ q1.value = PValue[p] /\ q1.sets = {"status", "by"}
        BY <1>1, <2>1 DEF EditRequest
      <3>2. RequestValid(q1)
        BY <1>1, <2>1, <2>2, <3>1
        DEF RequestValid, Decisions, Unstamped, Eligible, Created
      <3>3. edit' = [edit EXCEPT ![r] = q1]
        BY <1>4, <2>2 DEF BulkPick, TypeOK
      <3> QED
        BY <1>4, <2>1, <3>1, <3>2, <3>3, EditorStepKeeps
        DEF BulkPick, Local, database, InLock
    <2>3. CASE ~Eligible(p)
      <3>1. /\ q2.pc = "next" /\ q2.op = "bulk" /\ q2.user = edit[r].user
            /\ q2.at = edit[r].at
        BY <1>1, <2>1 DEF EditRequest
      <3>2. RequestValid(q2)
        BY <1>1, <2>1, <3>1 DEF RequestValid, Decisions, Unstamped
      <3>3. edit' = [edit EXCEPT ![r] = q2]
        BY <1>4, <2>3 DEF BulkPick, TypeOK
      <3> QED
        BY <1>4, <2>1, <3>1, <3>2, <3>3, EditorStepKeeps
        DEF BulkPick, Local, database, InLock
    <2> QED
      BY <2>2, <2>3
  <1>5. CASE BulkDone(r)
    BY <1>2, <1>5, IdleEditValid, EditorStepKeeps
    DEF BulkDone, Local, database, InLock
  <1>6. CASE ReadFiling(r)
    <2> DEFINE q == [edit[r] EXCEPT !.pc = IF edit[r].op \in Decisions
                                              THEN "proposal" ELSE "stamp",
                                    !.rev = revision]
    <2>1. edit[r].pc = "filing" /\ edit' = [edit EXCEPT ![r] = q]
      BY <1>6 DEF ReadFiling, TypeOK
    <2>2. /\ q.pc = IF edit[r].op \in Decisions THEN "proposal" ELSE "stamp"
          /\ q.op = edit[r].op /\ q.user = edit[r].user /\ q.at = edit[r].at
          /\ q.prop = edit[r].prop /\ q.field = edit[r].field
          /\ q.value = edit[r].value /\ q.sets = edit[r].sets
      BY <1>1 DEF EditRequest
    <2>3. RequestValid(q)
      BY <1>1, <2>1, <2>2 DEF RequestValid, EditRequest, Decisions, Unstamped
    <2> HIDE DEF q
    <2>7. q.pc \notin InLock /\ edit[r].pc \notin InLock
      BY <2>1, <2>2 DEF InLock
    <2>8. UNCHANGED <<clock, lock, proposals>> /\ UNCHANGED lockOwner
      BY <1>6 DEF ReadFiling, Local, database
    <2> QED
      BY <2>3, <2>1, <2>2, <2>7, <2>8, EditorStepKeeps
  <1>7. CASE ReadProposal(r)
    <2> DEFINE q == [edit[r] EXCEPT !.pc = IF edit[r].op = "rejected"
                                              THEN "reject" ELSE "stamp",
                                    !.sets = Changes(edit[r])]
    <2>1. edit[r].pc = "proposal" /\ edit' = [edit EXCEPT ![r] = q]
      BY <1>7 DEF ReadProposal, TypeOK
    <2>2. /\ q.pc = IF edit[r].op = "rejected" THEN "reject" ELSE "stamp"
          /\ q.op = edit[r].op /\ q.user = edit[r].user /\ q.at = edit[r].at
          /\ q.prop = edit[r].prop /\ q.field = edit[r].field
          /\ q.value = edit[r].value /\ q.sets = Changes(edit[r])
      BY <1>1 DEF EditRequest
    <2>3. edit[r].op \in Decisions
      BY <1>1, <2>1 DEF RequestValid, EditRequest, Decisions
    <2>4. "status" \in q.sets \/ proposals[q.prop].status \in Decisions
      BY <2>2, <2>3 DEF Changes
    <2>5. RequestValid(q)
      BY <1>1, <2>1, <2>2, <2>3, <2>4 DEF RequestValid, Decisions, Unstamped
    <2> HIDE DEF q
    <2>7. q.pc \notin InLock /\ edit[r].pc \notin InLock
      BY <2>1, <2>2 DEF InLock
    <2>8. UNCHANGED <<clock, lock, proposals>> /\ UNCHANGED lockOwner
      BY <1>7 DEF ReadProposal, Local, database
    <2> QED
      BY <2>5, <2>1, <2>2, <2>7, <2>8, EditorStepKeeps
  <1>8. CASE Stamp(r)
    <2> DEFINE q == [edit[r] EXCEPT !.pc = IF edit[r].sets = {} THEN "lock" ELSE "flush",
                                    !.at = clock]
    <2>1. edit[r].pc = "stamp"
      BY <1>8 DEF Stamp
    <2>2. CASE ValidValue(edit[r].field, edit[r].value)
      <3>1. /\ q.pc = IF edit[r].sets = {} THEN "lock" ELSE "flush"
            /\ q.op = edit[r].op /\ q.user = edit[r].user /\ q.at = clock
            /\ q.prop = edit[r].prop /\ q.field = edit[r].field
            /\ q.value = edit[r].value /\ q.sets = edit[r].sets
        BY <1>1 DEF EditRequest
      <3>2. edit' = [edit EXCEPT ![r] = q]
        BY <1>8, <2>2 DEF Stamp, TypeOK
      <3>3. clock <= MaxTime
        BY DEF EditorsInv, RequestsValid
      <3>4. RequestValid(q)
        BY <1>1, <2>1, <2>2, <3>1, <3>3 DEF RequestValid, Decisions, Unstamped
      <3> HIDE DEF q
      <3>7. q.pc \notin InLock /\ edit[r].pc \notin InLock
        BY <2>1, <3>1, <3>2 DEF InLock
      <3>8. UNCHANGED <<clock, lock, proposals>> /\ UNCHANGED lockOwner
        BY <1>8 DEF Stamp, Local, database
      <3> QED
        BY <3>2, <3>4, <3>7, <3>8, EditorStepKeeps
    <2>3. CASE ~ValidValue(edit[r].field, edit[r].value)
      BY <1>2, <1>8, <2>1, <2>3, IdleEditValid, EditorStepKeeps
      DEF Stamp, Local, database, InLock
    <2> QED
      BY <2>2, <2>3
  <1>9. CASE FlushDecision(r)
    <2> DEFINE q == [edit[r] EXCEPT !.pc = "lock"]
    <2>1. edit[r].pc = "flush" /\ edit' = [edit EXCEPT ![r] = q]
      BY <1>9 DEF FlushDecision, TypeOK
    <2>2. /\ q.pc = "lock"
          /\ q.op = edit[r].op /\ q.user = edit[r].user /\ q.at = edit[r].at
          /\ q.prop = edit[r].prop /\ q.field = edit[r].field
          /\ q.value = edit[r].value /\ q.sets = edit[r].sets
      BY <1>1 DEF EditRequest
    <2>3. RequestValid(q)
      BY <1>1, <2>1, <2>2 DEF RequestValid, Decisions, Unstamped
    <2> QED
      BY <1>9, <2>1, <2>2, <2>3, EditorStepKeeps
      DEF FlushDecision, Local, database, InLock
  <1>10. CASE MarkStale(r)
    <2> DEFINE q == [edit[r] EXCEPT !.pc = "commit", !.seen = Len(exports)]
    <2>1. edit[r].pc = "write" /\ edit' = [edit EXCEPT ![r] = q]
      BY <1>10 DEF MarkStale, TypeOK
    <2>2. /\ q.pc = "commit"
          /\ q.op = edit[r].op /\ q.user = edit[r].user /\ q.at = edit[r].at
          /\ q.prop = edit[r].prop /\ q.field = edit[r].field
          /\ q.value = edit[r].value /\ q.sets = edit[r].sets
      BY <1>1 DEF EditRequest
    <2>3. RequestValid(q)
      BY <1>1, <2>1, <2>2 DEF RequestValid, Decisions, Unstamped
    <2> QED
      BY <1>10, <2>1, <2>2, <2>3, EditorStepKeeps
      DEF MarkStale, Local, database, InLock
  <1> QED
    BY <1>4, <1>5, <1>6, <1>7, <1>8, <1>9, <1>10

LEMMA LockStepsKeepEditors ==
  ASSUME TypeOK, EditorsInv, NEW r \in Editors,
         SelectLock(r) \/ InsertLock(r) \/ FailEdit(r)
  PROVE  EditorsInv'
  <1> DEFINE q(c) == [edit[r] EXCEPT !.pc = c]
  <1>1. edit[r] \in EditRequest /\ RequestValid(edit[r])
    BY DEF TypeOK, EditorsInv, RequestsValid
  <1>2. IdleEdit.pc \notin InLock
    BY DEF IdleEdit, InLock
  <1>3. ASSUME NEW c \in {"insert", "write"}, edit[r].pc \in {"lock", "insert"}
        PROVE  /\ q(c).pc = c /\ q(c).user = edit[r].user /\ q(c).at = edit[r].at
               /\ RequestValid(q(c))
    <2>1. /\ q(c).pc = c
          /\ q(c).op = edit[r].op /\ q(c).user = edit[r].user /\ q(c).at = edit[r].at
          /\ q(c).prop = edit[r].prop /\ q(c).field = edit[r].field
          /\ q(c).value = edit[r].value /\ q(c).sets = edit[r].sets
      BY <1>1 DEF EditRequest
    <2> HIDE DEF q
    <2>2. RequestValid(q(c))
      BY <1>1, <1>3, <2>1 DEF RequestValid, Decisions, Unstamped
    <2> QED
      BY <2>1, <2>2
  <1>4. UNCHANGED <<clock, lock, proposals>>
    BY DEF SelectLock, InsertLock, FailEdit
  <1>5. CASE FailEdit(r)
    BY <1>2, <1>4, <1>5, IdleEditValid, EditorStepKeeps DEF FailEdit
  <1>6. CASE edit' = [edit EXCEPT ![r] = IdleEdit] /\ UNCHANGED lockOwner
             /\ edit[r].pc \in {"lock", "insert"}
    BY <1>2, <1>4, <1>6, IdleEditValid, EditorStepKeeps DEF InLock
  <1>7. CASE edit' = [edit EXCEPT ![r] = q("insert")] /\ UNCHANGED lockOwner
             /\ edit[r].pc = "lock"
    <2>1. q("insert").pc = "insert" /\ RequestValid(q("insert"))
      BY <1>3, <1>7
    <2> HIDE DEF q
    <2> QED
      BY <1>4, <1>7, <2>1, EditorStepKeeps DEF InLock
  <1>8. CASE edit' = [edit EXCEPT ![r] = q("write")] /\ lockOwner = NoEditor
             /\ lockOwner' = r /\ edit[r].pc \in {"lock", "insert"}
             /\ MayLock(lock, edit[r].user, edit[r].at)
    <2>1. /\ q("write").pc = "write" /\ RequestValid(q("write"))
          /\ q("write").user = edit[r].user /\ q("write").at = edit[r].at
      BY <1>3, <1>8
    <2> HIDE DEF q
    <2> QED
      BY <1>4, <1>8, <2>1, EditorStepKeeps DEF InLock
  <1>9. CASE SelectLock(r)
    BY <1>6, <1>7, <1>8, <1>9 DEF SelectLock, TypeOK
  <1>10. CASE InsertLock(r)
    BY <1>6, <1>8, <1>10 DEF InsertLock, TypeOK, MayLock
  <1> QED
    BY <1>5, <1>9, <1>10

(* A commit withdraws no proposal and takes no decision back.              *)
LEMMA DecidedProgress ==
  ASSUME TypeOK, NEW q, q.op = "put" => q.sets = {},
         q.op \in {"put", "bulk"} \cup Decisions, NEW p \in Proposals
  PROVE  /\ Created(p) => Decided(q)[p].status # "absent"
         /\ proposals[p].status \in Decisions => Decided(q)[p].status \in Decisions
  BY DEF Decided, Created, Decisions

LEMMA CommitsKeepEditors ==
  ASSUME TypeOK, EditorsInv, NEW r \in Editors,
         CommitAnswer(r) \/ CommitRejection(r)
  PROVE  EditorsInv'
  <1> DEFINE q == edit[r]
  <1>1. q \in EditRequest /\ RequestValid(q)
    BY DEF TypeOK, EditorsInv, RequestsValid
  <1>2. \A p \in Proposals :
           /\ Created(p) => proposals'[p].status # "absent"
           /\ proposals[p].status \in Decisions => proposals'[p].status \in Decisions
    BY <1>1, DecidedProgress DEF CommitAnswer, CommitRejection, RequestValid, EditRequest
  <1>3. edit' = [edit EXCEPT ![r] = After(q)] \/ edit' = [edit EXCEPT ![r] = IdleEdit]
    BY DEF CommitAnswer, CommitRejection
  <1>4. \A x \in Editors \ {r} : edit'[x] = edit[x] /\ RequestValid(edit[x])'
    <2>1. \A x \in Editors \ {r} : edit'[x] = edit[x]
      BY <1>3 DEF TypeOK
    <2> QED
      BY <1>2, <1>3, <2>1, OthersStayValid
  <1>5. /\ edit'[r].pc \in {"idle", "next"}
        /\ edit'[r].pc = "next" => edit'[r].op = "bulk" /\ edit'[r].user = q.user
                                    /\ q.op = "bulk" /\ edit'[r].at = 0
        /\ edit'[r].pc = "idle" => edit'[r] = IdleEdit
    <2>1. edit'[r] = After(q) \/ edit'[r] = IdleEdit
      BY <1>3 DEF TypeOK
    <2>2. IdleEdit.pc = "idle"
      BY DEF IdleEdit
    <2>3. CASE q.op = "bulk"
      <3> DEFINE next == [IdleEdit EXCEPT !.pc = "next", !.op = "bulk",
                                          !.user = q.user, !.todo = q.todo]
      <3>1. next.pc = "next" /\ next.op = "bulk" /\ next.user = q.user /\ next.at = 0
        BY DEF IdleEdit
      <3>2. After(q) = next
        BY <2>3 DEF After
      <3> HIDE DEF next
      <3> QED
        BY <2>1, <2>2, <2>3, <3>1, <3>2
    <2>4. CASE q.op # "bulk"
      BY <2>1, <2>2, <2>4 DEF After
    <2> QED
      BY <2>3, <2>4
  <1>6. RequestValid(edit[r])'
    <2>1. CASE edit'[r].pc = "idle"
      BY <1>5, <2>1, IdleEditValid, FilingAssumption
      DEF RequestValid, IdleEdit, Decisions, Unstamped
    <2>2. CASE edit'[r].pc = "next"
      <3>1. q.pc # "idle" /\ q.user \in Users
        BY <1>1 DEF CommitAnswer, CommitRejection, RequestValid
      <3> QED
        BY <1>5, <2>2, <3>1, FilingAssumption DEF RequestValid, Decisions, Unstamped
    <2> QED
      BY <1>5, <2>1, <2>2
  <1>7. RequestsValid'
    BY <1>4, <1>6 DEF EditorsInv, RequestsValid, CommitAnswer, CommitRejection
  <1>8. LockHeld'
    <2>1. CASE CommitRejection(r)
      <3>1. lockOwner # r
        BY <2>1 DEF CommitRejection, EditorsInv, LockHeld
      <3> QED
        BY <1>4, <1>5, <2>1, <3>1 DEF CommitRejection, EditorsInv, LockHeld, MayLock
    <2>2. CASE CommitAnswer(r)
      <3>1. lockOwner = r
        BY <2>2 DEF CommitAnswer, EditorsInv, LockHeld
      <3>2. \A x \in Editors : edit'[x].pc \notin {"write", "commit"}
        BY <1>4, <1>5, <3>1 DEF EditorsInv, LockHeld
      <3> QED
        BY <2>2, <3>2, FilingAssumption DEF CommitAnswer, LockHeld
    <2> QED
      BY <2>1, <2>2
  <1> QED
    BY <1>7, <1>8 DEF EditorsInv

(* Mapping runs, exports and the clock leave the editor requests valid.    *)
LEMMA OtherStepsKeepEditors ==
  ASSUME TypeOK, EditorsInv, UNCHANGED <<lock, lockOwner, edit>>,
         clock' <= MaxTime,
         \A p \in Proposals :
            /\ Created(p) => proposals'[p].status # "absent"
            /\ proposals[p].status \in Decisions =>
                 proposals'[p].status \in Decisions
  PROVE  EditorsInv'
  <1>1. LockHeld'
    BY DEF EditorsInv, LockHeld, MayLock
  <1>2. ASSUME NEW x \in Editors PROVE RequestValid(edit[x])'
    <2>1. RequestValid(edit[x])
      BY DEF EditorsInv, RequestsValid
    <2> QED
      BY <2>1 DEF RequestValid, Created, Decisions
  <1> QED
    BY <1>1, <1>2 DEF EditorsInv, RequestsValid

LEMMA StepKeepsEditors ==
  ASSUME TypeOK, EditorsInv, [Next]_vars
  PROVE  EditorsInv'
  <1> DEFINE progress ==
        \A p \in Proposals :
            /\ Created(p) => proposals'[p].status # "absent"
            /\ proposals[p].status \in Decisions =>
                 proposals'[p].status \in Decisions
  <1>1. proposals' = proposals => progress
    BY DEF Created
  <1>2. clock \in Nat /\ clock <= MaxTime
    BY DEF TypeOK, EditorsInv, RequestsValid
  <1>3. CASE Tick \/ UNCHANGED vars
    <2>1. clock' <= MaxTime
      BY <1>2, <1>3, FilingAssumption DEF Tick, vars
    <2>2. UNCHANGED <<lock, lockOwner, proposals, edit>>
      BY <1>3 DEF Tick, vars, database
    <2> QED
      BY <1>1, <2>1, <2>2, OtherStepsKeepEditors
  <1>4. ASSUME NEW r \in Mappers,
               \/ StartMapping(r)
               \/ \E P \in SUBSET Proposals : CommitMapping(r, P)
               \/ FailMapping(r)
        PROVE  EditorsInv'
    <2>1. clock' <= MaxTime /\ UNCHANGED <<lock, lockOwner, edit>>
      BY <1>2, <1>4 DEF StartMapping, CommitMapping, FailMapping, database
    <2>2. progress
      <3>1. CASE StartMapping(r) \/ FailMapping(r)
        BY <1>1, <3>1 DEF StartMapping, FailMapping, database
      <3>2. CASE \E P \in SUBSET Proposals : CommitMapping(r, P)
        BY <3>2 DEF CommitMapping, Created, Decisions
      <3> QED
        BY <1>4, <3>1, <3>2
    <2> QED
      BY <2>1, <2>2, OtherStepsKeepEditors
  <1>5. ASSUME NEW r \in Exporters,
               (\E K \in SUBSET Kinds : StartExport(r, K)) \/ ExportStep(r) \/ FailExport(r)
        PROVE  EditorsInv'
    <2>1. Rendering
      BY <1>5 DEF StartExport, ExportStep, FailExport, ExportReadFiling,
        ExportReadAnswers, ExportReadVersion, PutArtifact, CommitExport
    <2>2. clock' <= MaxTime /\ UNCHANGED <<lock, lockOwner, proposals, edit>>
      BY <1>2, <2>1 DEF Rendering, database
    <2> QED
      BY <1>1, <2>2, OtherStepsKeepEditors
  <1> QED
    BY <1>3, <1>4, <1>5, StartsKeepEditors, LocalStepsKeepEditors,
       LockStepsKeepEditors, CommitsKeepEditors
    DEF Next, EditStep

-----------------------------------------------------------------------------
(* What the exports rely on *)

(* The steps of an editor request before its commit.                       *)
LEMMA EditStepsKeepExports ==
  ASSUME TypeOK, ExportsInv, NEW r \in Editors,
         UNCHANGED <<answers, exports, store, render>>, NEW q,
         edit' = [edit EXCEPT ![r] = q],
         q.pc = "commit" => q.seen = Len(exports)
  PROVE  ExportsInv'
  <1>1. Len(exports) \in Nat /\ DOMAIN exports = 1..Len(exports)
    BY LenProperties DEF TypeOK
  <1>2. OverlapsKnown'
    BY <1>1 DEF ExportsInv, OverlapsKnown, TypeOK
  <1>3. StoreHolds'
    BY DEF ExportsInv, StoreHolds, Ready
  <1>4. LatestKnown'
    BY DEF ExportsInv, LatestKnown, Versions
  <1> QED
    BY <1>2, <1>3, <1>4 DEF ExportsInv

LEMMA EditorsKeepExports ==
  ASSUME TypeOK, ExportsInv, NEW r \in Editors,
         \/ \E u \in Users, f \in Fields, v \in Values : StartPut(r, u, f, v)
         \/ \E u \in Users, p \in Proposals, d \in Decisions, v \in Values :
              StartDecision(r, u, p, d, v)
         \/ \E u \in Users, P \in SUBSET Proposals : StartBulk(r, u, P)
         \/ \E p \in Proposals : BulkPick(r, p)
         \/ BulkDone(r)
         \/ ReadFiling(r)
         \/ ReadProposal(r)
         \/ Stamp(r)
         \/ FlushDecision(r)
         \/ SelectLock(r)
         \/ InsertLock(r)
         \/ MarkStale(r)
         \/ CommitRejection(r)
         \/ FailEdit(r)
  PROVE  ExportsInv'
  <1>1. edit[r] \in EditRequest
    BY DEF TypeOK
  <1>2. IdleEdit.pc = "idle" /\ IdleEdit \in EditRequest
    BY IdleEditTyped DEF IdleEdit
  <1>3. UNCHANGED <<answers, exports, store, render>>
    BY DEF StartPut, StartDecision, StartBulk, BulkPick, BulkDone, ReadFiling,
      ReadProposal, Stamp, FlushDecision, SelectLock, InsertLock, MarkStale,
      CommitRejection, FailEdit, Local, database
  <1>4. ASSUME NEW u \in Users, NEW f \in Fields, NEW v \in Values,
               StartPut(r, u, f, v)
        PROVE  ExportsInv'
    <2> DEFINE q == [IdleEdit EXCEPT !.pc = "filing", !.user = u,
                                     !.field = f, !.value = v]
    <2>1. q.pc = "filing" /\ edit' = [edit EXCEPT ![r] = q]
      BY <1>4 DEF StartPut, IdleEdit
    <2> HIDE DEF q
    <2> QED
      BY <1>3, <2>1, EditStepsKeepExports
  <1>5. ASSUME NEW u \in Users, NEW p \in Proposals, NEW d \in Decisions,
               NEW v \in Values, StartDecision(r, u, p, d, v)
        PROVE  ExportsInv'
    <2> DEFINE q == [IdleEdit EXCEPT !.pc = "filing", !.op = d, !.user = u,
                                     !.field = PField[p], !.value = v,
                                     !.prop = p]
    <2>1. q.pc = "filing" /\ edit' = [edit EXCEPT ![r] = q]
      BY <1>5 DEF StartDecision, IdleEdit
    <2> HIDE DEF q
    <2> QED
      BY <1>3, <2>1, EditStepsKeepExports
  <1>6. ASSUME NEW u \in Users, NEW P \in SUBSET Proposals, StartBulk(r, u, P)
        PROVE  ExportsInv'
    <2> DEFINE q == [IdleEdit EXCEPT !.pc = "next", !.op = "bulk", !.user = u,
                                     !.todo = P]
    <2>1. q.pc = "next" /\ edit' = [edit EXCEPT ![r] = q]
      BY <1>6 DEF StartBulk, IdleEdit
    <2> HIDE DEF q
    <2> QED
      BY <1>3, <2>1, EditStepsKeepExports
  <1>7. ASSUME edit' = [edit EXCEPT ![r] = IdleEdit] PROVE ExportsInv'
    BY <1>2, <1>3, <1>7, EditStepsKeepExports
  <1>8. ASSUME NEW p \in Proposals, BulkPick(r, p) PROVE ExportsInv'
    <2> DEFINE q1 == [edit[r] EXCEPT !.pc = "filing", !.prop = p,
                                     !.sets = {"status", "by"},
                                     !.field = PField[p], !.value = PValue[p],
                                     !.todo = edit[r].todo \ {p}]
               q2 == [edit[r] EXCEPT !.todo = edit[r].todo \ {p}]
    <2>1. q1.pc = "filing" /\ q2.pc = "next"
      BY <1>1, <1>8 DEF EditRequest, BulkPick
    <2>2. \/ edit' = [edit EXCEPT ![r] = q1]
          \/ edit' = [edit EXCEPT ![r] = q2]
      BY <1>8 DEF BulkPick, TypeOK
    <2> HIDE DEF q1, q2
    <2> QED
      BY <1>3, <2>1, <2>2, EditStepsKeepExports
  <1>9. CASE ReadFiling(r)
    <2> DEFINE q == [edit[r] EXCEPT !.pc = IF edit[r].op \in Decisions
                                              THEN "proposal" ELSE "stamp",
                                    !.rev = revision]
    <2>1. q.pc # "commit" /\ edit' = [edit EXCEPT ![r] = q]
      BY <1>1, <1>9 DEF ReadFiling, EditRequest, TypeOK
    <2> HIDE DEF q
    <2> QED
      BY <1>3, <2>1, EditStepsKeepExports
  <1>10. CASE ReadProposal(r)
    <2> DEFINE q == [edit[r] EXCEPT !.pc = IF edit[r].op = "rejected"
                                              THEN "reject" ELSE "stamp",
                                    !.sets = Changes(edit[r])]
    <2>1. q.pc # "commit" /\ edit' = [edit EXCEPT ![r] = q]
      BY <1>1, <1>10 DEF ReadProposal, EditRequest, TypeOK
    <2> HIDE DEF q
    <2> QED
      BY <1>3, <2>1, EditStepsKeepExports
  <1>11. CASE Stamp(r)
    <2> DEFINE q == [edit[r] EXCEPT !.pc = IF edit[r].sets = {} THEN "lock" ELSE "flush",
                                    !.at = clock]
    <2>1. q.pc # "commit"
      BY <1>1 DEF EditRequest
    <2>2. \/ edit' = [edit EXCEPT ![r] = q]
          \/ edit' = [edit EXCEPT ![r] = IdleEdit]
      BY <1>11 DEF Stamp, TypeOK
    <2> HIDE DEF q
    <2> QED
      BY <1>3, <1>7, <2>1, <2>2, EditStepsKeepExports
  <1>12. CASE FlushDecision(r) \/ SelectLock(r) \/ InsertLock(r)
    <2> DEFINE q(c) == [edit[r] EXCEPT !.pc = c]
    <2>1. \A c \in {"lock", "insert", "write"} : q(c).pc # "commit"
      BY <1>1 DEF EditRequest
    <2>2. \/ \E c \in {"lock", "insert", "write"} : edit' = [edit EXCEPT ![r] = q(c)]
          \/ edit' = [edit EXCEPT ![r] = IdleEdit]
      BY <1>12 DEF FlushDecision, SelectLock, InsertLock, TypeOK
    <2> HIDE DEF q
    <2> QED
      BY <1>3, <1>7, <2>1, <2>2, EditStepsKeepExports
  <1>13. CASE MarkStale(r)
    <2> DEFINE q == [edit[r] EXCEPT !.pc = "commit", !.seen = Len(exports)]
    <2>1. q.seen = Len(exports) /\ edit' = [edit EXCEPT ![r] = q]
      BY <1>1, <1>13 DEF MarkStale, EditRequest, TypeOK
    <2> HIDE DEF q
    <2> QED
      BY <1>3, <2>1, EditStepsKeepExports
  <1> QED
    BY <1>4, <1>5, <1>6, <1>7, <1>8, <1>9, <1>10, <1>11, <1>12, <1>13
    DEF BulkDone, CommitRejection, FailEdit

(* A commit marks the exports its request saw; the others were overlapped. *)
LEMMA CommitAnswerKeepsExports ==
  ASSUME TypeOK, ExportsInv, NEW r \in Editors, CommitAnswer(r)
  PROVE  ExportsInv' /\ FreshUnlessRaced'
  <1>1. exports \in Seq(Export) /\ Len(exports) \in Nat /\ DOMAIN exports = 1..Len(exports)
    BY LenProperties DEF TypeOK
  <1>2. DOMAIN exports' = DOMAIN exports
    BY <1>1 DEF CommitAnswer
  <1>3. ASSUME NEW i \in DOMAIN exports
        PROVE  /\ exports'[i].version = exports[i].version
               /\ exports'[i].ready = exports[i].ready
               /\ exports'[i].raced = exports[i].raced
               /\ i <= edit[r].seen => exports'[i].stale
    <2>1. exports[i] \in Export
      BY <1>1, <1>3
    <2>2. exports'[i] = IF i <= edit[r].seen THEN [exports[i] EXCEPT !.stale = TRUE]
                                             ELSE exports[i]
      BY <1>3 DEF CommitAnswer
    <2> QED
      BY <2>1, <2>2 DEF Export
  <1>4. \A x \in Exporters :
           /\ render'[x].pc = render[x].pc /\ render'[x].kinds = render[x].kinds
           /\ render'[x].snap = render[x].snap /\ render'[x].clean = render[x].clean
           /\ render'[x].version = render[x].version /\ render'[x].todo = render[x].todo
           /\ render[x].pc \in {"version", "put"} => render'[x].raced
    <2> SUFFICES ASSUME NEW x \in Exporters
                 PROVE  /\ render'[x].pc = render[x].pc /\ render'[x].kinds = render[x].kinds
                        /\ render'[x].snap = render[x].snap /\ render'[x].clean = render[x].clean
                        /\ render'[x].version = render[x].version
                        /\ render'[x].todo = render[x].todo
                        /\ render[x].pc \in {"version", "put"} => render'[x].raced
      OBVIOUS
    <2>1. render[x] \in RenderRequest
      BY DEF TypeOK
    <2>2. render'[x] = IF render[x].pc \in {"version", "put"}
                         THEN [render[x] EXCEPT !.raced = TRUE] ELSE render[x]
      BY DEF CommitAnswer
    <2> QED
      BY <2>1, <2>2 DEF RenderRequest
  <1>5. edit[r].pc = "commit" /\ store' = store
    BY DEF CommitAnswer
  <1>6. \A i \in DOMAIN exports : i > edit[r].seen => exports[i].raced
    BY <1>5 DEF ExportsInv, OverlapsKnown
  <1>7. edit[r].seen \in Nat
    BY DEF TypeOK, EditRequest
  <1>8. \A x \in Editors : edit'[x].pc = "commit" => edit[x].pc = "commit"
                                                    /\ edit'[x].seen = edit[x].seen
    <2>1. edit' = [edit EXCEPT ![r] = After(edit[r])] /\ After(edit[r]).pc # "commit"
      BY DEF CommitAnswer, After, IdleEdit
    <2> QED
      BY <2>1 DEF TypeOK
  <1>9. OverlapsKnown'
    BY <1>2, <1>3, <1>4, <1>8 DEF ExportsInv, OverlapsKnown
  <1>10. StoreHolds'
    <2>1. \A x \in Exporters : Ready(render'[x]) = Ready(render[x])
      BY <1>4 DEF Ready
    <2> QED
      BY <1>2, <1>3, <1>4, <1>5, <2>1 DEF ExportsInv, StoreHolds, Ready
  <1>11. LatestKnown'
    <2>1. Versions' = Versions
      BY <1>2, <1>3 DEF Versions
    <2>2. exports' # <<>> => exports # <<>>
      BY <1>1, <1>2
    <2> QED
      BY <2>1, <2>2 DEF ExportsInv, LatestKnown
  <1>12. FreshUnlessRaced'
    <2> SUFFICES ASSUME NEW i \in DOMAIN exports'
                 PROVE  exports'[i].stale \/ exports'[i].raced
      BY DEF FreshUnlessRaced
    <2>1. i \in Nat
      BY <1>1, <1>2
    <2> QED
      BY <1>2, <1>3, <1>6, <1>7, <2>1
  <1> QED
    BY <1>9, <1>10, <1>11, <1>12 DEF ExportsInv

(* Mapping runs and the clock leave the exports alone.                     *)
LEMMA OtherStepsKeepExports ==
  ASSUME ExportsInv, UNCHANGED <<answers, exports, store, edit, render>>
  PROVE  ExportsInv'
  <1>1. StoreHolds'
    BY DEF ExportsInv, StoreHolds, Ready
  <1> QED
    BY <1>1 DEF ExportsInv, OverlapsKnown, LatestKnown, Versions

Stored(S, v, k) == \E o \in S : o.version = v /\ o.kind = k

(* An export request that only moves on.                                   *)
LEMMA RenderStepKeepsExports ==
  ASSUME TypeOK, ExportsInv, NEW r \in Exporters, NEW q,
         render' = [render EXCEPT ![r] = q],
         UNCHANGED <<answers, exports, store, edit>>,
         q.pc \in {"version", "put"} /\ ~q.raced => q.snap = answers,
         q.pc = "put" => /\ q.todo \subseteq Ready(q)
                         /\ \A k \in Ready(q) \ q.todo : Stored(store, q.version, k)
  PROVE  ExportsInv'
  <1>1. render'[r] = q /\ \A x \in Exporters \ {r} : render'[x] = render[x]
    BY DEF TypeOK
  <1>2. OverlapsKnown'
    BY <1>1 DEF ExportsInv, OverlapsKnown
  <1>3. StoreHolds'
    BY <1>1 DEF ExportsInv, StoreHolds, Ready, Stored
  <1>4. LatestKnown'
    BY DEF ExportsInv, LatestKnown, Versions
  <1> QED
    BY <1>2, <1>3, <1>4 DEF ExportsInv

LEMMA ExportReadsKeepExports ==
  ASSUME TypeOK, ExportsInv, NEW r \in Exporters,
         \/ \E K \in SUBSET Kinds : StartExport(r, K)
         \/ ExportReadFiling(r)
         \/ \E clean \in BOOLEAN : ExportReadAnswers(r, clean)
         \/ ExportReadVersion(r)
         \/ FailExport(r)
  PROVE  ExportsInv'
  <1>1. render[r] \in RenderRequest
    BY DEF TypeOK
  <1>2. UNCHANGED <<answers, exports, store, edit>>
    BY DEF StartExport, ExportReadFiling, ExportReadAnswers, ExportReadVersion,
      FailExport, Rendering, database
  <1>3. IdleRender.pc = "idle"
    BY DEF IdleRender
  <1>4. ASSUME render' = [render EXCEPT ![r] = IdleRender] PROVE ExportsInv'
    BY <1>2, <1>3, <1>4, RenderStepKeepsExports
  <1>5. ASSUME NEW K \in SUBSET Kinds, StartExport(r, K) PROVE ExportsInv'
    <2> DEFINE q == [IdleRender EXCEPT !.pc = "filing", !.kinds = K]
    <2>1. q.pc = "filing" /\ render' = [render EXCEPT ![r] = q]
      BY <1>5 DEF StartExport, IdleRender
    <2> HIDE DEF q
    <2> QED
      BY <1>2, <2>1, RenderStepKeepsExports
  <1>6. CASE ExportReadFiling(r)
    <2> DEFINE q == [render[r] EXCEPT !.pc = "answers", !.rev = revision]
    <2>1. q.pc = "answers" /\ render' = [render EXCEPT ![r] = q]
      BY <1>1, <1>6 DEF ExportReadFiling, RenderRequest, TypeOK
    <2> HIDE DEF q
    <2> QED
      BY <1>2, <2>1, RenderStepKeepsExports
  <1>7. ASSUME NEW clean \in BOOLEAN, ExportReadAnswers(r, clean) PROVE ExportsInv'
    <2> DEFINE q == [render[r] EXCEPT !.pc = "version", !.snap = answers,
                                      !.clean = clean]
    <2>1. q.pc = "version" /\ q.snap = answers
      BY <1>1 DEF RenderRequest
    <2>2. \/ render' = [render EXCEPT ![r] = q]
          \/ render' = [render EXCEPT ![r] = IdleRender]
      BY <1>7 DEF ExportReadAnswers, TypeOK
    <2> HIDE DEF q
    <2> QED
      BY <1>2, <1>4, <2>1, <2>2, RenderStepKeepsExports
  <1>8. CASE ExportReadVersion(r)
    <2> DEFINE q == [render[r] EXCEPT !.pc = "put", !.version = NextVersion,
                                      !.todo = Ready(render[r])]
    <2>1. /\ q.pc = "put" /\ q.todo = Ready(render[r]) /\ q.raced = render[r].raced
          /\ q.snap = render[r].snap /\ q.kinds = render[r].kinds
          /\ q.clean = render[r].clean
      BY <1>1 DEF RenderRequest
    <2>2. render[r].pc = "version" /\ render' = [render EXCEPT ![r] = q]
      BY <1>8 DEF ExportReadVersion, TypeOK
    <2> HIDE DEF q
    <2>3. Ready(q) = Ready(render[r])
      BY <2>1 DEF Ready
    <2>4. ~q.raced => q.snap = answers
      BY <2>1, <2>2 DEF ExportsInv, OverlapsKnown
    <2> QED
      BY <1>2, <2>1, <2>2, <2>3, <2>4, RenderStepKeepsExports
  <1> QED
    BY <1>4, <1>5, <1>6, <1>7, <1>8 DEF FailExport

LEMMA PutArtifactKeepsExports ==
  ASSUME TypeOK, ExportsInv, NEW r \in Exporters, NEW k \in Kinds,
         PutArtifact(r, k)
  PROVE  ExportsInv'
  <1> DEFINE q == render[r]
             n == [q EXCEPT !.todo = q.todo \ {k}]
             o == [version |-> q.version, kind |-> k, snap |-> q.snap, clean |-> q.clean]
  <1>1. q \in RenderRequest /\ q.pc = "put" /\ k \in q.todo
    BY DEF TypeOK, PutArtifact
  <1>2. /\ n.pc = q.pc /\ n.kinds = q.kinds /\ n.snap = q.snap /\ n.clean = q.clean
        /\ n.version = q.version /\ n.todo = q.todo \ {k} /\ n.raced = q.raced
    BY <1>1 DEF RenderRequest
  <1>3. render'[r] = n /\ \A x \in Exporters \ {r} : render'[x] = render[x]
    BY DEF PutArtifact, TypeOK
  <1>4. o.version = q.version /\ o.kind = k /\ o.snap = q.snap /\ o.clean = q.clean
    OBVIOUS
  <1>5. store' = {x \in store : x.version # q.version \/ x.kind # k} \cup {o}
    BY DEF PutArtifact, Put
  <1>6. UNCHANGED <<answers, exports, edit>>
    BY DEF PutArtifact, Rendering, database
  <1> HIDE DEF n, o
  <1>7. \A v, c : Stored(store, v, c) => Stored(store', v, c)
    BY <1>4, <1>5 DEF Stored
  <1>8. Stored(store', q.version, k)
    BY <1>4, <1>5 DEF Stored
  <1>9. q.todo \subseteq Ready(q)
    BY <1>1 DEF ExportsInv, StoreHolds
  <1>10. k \in Gated => ExportAllowed(q.snap, q.clean)
    BY <1>1, <1>9 DEF Ready
  <1>11. \A x \in store' : x.kind \in Gated => ExportAllowed(x.snap, x.clean)
    BY <1>4, <1>5, <1>10 DEF ExportsInv, StoreHolds
  <1>12. Ready(n) = Ready(q)
    BY <1>2 DEF Ready
  <1>13. \A x \in Exporters : render'[x].pc = "put" =>
            /\ render'[x].todo \subseteq Ready(render'[x])
            /\ \A c \in Ready(render'[x]) \ render'[x].todo :
                 Stored(store', render'[x].version, c)
    <2>1. ASSUME NEW x \in Exporters \ {r}, render'[x].pc = "put"
          PROVE  /\ render[x].todo \subseteq Ready(render[x])
                 /\ \A c \in Ready(render[x]) \ render[x].todo :
                      Stored(store, render[x].version, c)
      BY <1>3, <2>1 DEF ExportsInv, StoreHolds, Stored
    <2>2. \A c \in Ready(q) \ q.todo : Stored(store, q.version, c)
      BY <1>1 DEF ExportsInv, StoreHolds, Stored
    <2>3. n.todo \subseteq Ready(n)
      BY <1>2, <1>9, <1>12
    <2>4. \A c \in Ready(n) \ n.todo : Stored(store', n.version, c)
      BY <1>2, <1>7, <1>8, <1>12, <2>2
    <2> QED
      BY <1>3, <1>7, <2>1, <2>3, <2>4
  <1>14. \A i \in DOMAIN exports : \A c \in exports[i].ready :
            Stored(store', exports[i].version, c)
    BY <1>7 DEF ExportsInv, StoreHolds, Stored
  <1>15. StoreHolds'
    BY <1>6, <1>11, <1>13, <1>14 DEF StoreHolds, Stored, Ready
  <1>16. OverlapsKnown'
    BY <1>1, <1>2, <1>3, <1>6 DEF ExportsInv, OverlapsKnown
  <1>17. LatestKnown'
    BY <1>6 DEF ExportsInv, LatestKnown, Versions
  <1> QED
    BY <1>15, <1>16, <1>17 DEF ExportsInv

(* The new entry is fresh unless a write overlapped it.                    *)
LEMMA CommitExportKeepsExports ==
  ASSUME TypeOK, ExportsInv, FreshUnlessRaced, NEW r \in Exporters,
         CommitExport(r)
  PROVE  ExportsInv' /\ FreshUnlessRaced'
  <1> DEFINE q == render[r]
             e == NewExport(q)
             n == Len(exports)
  <1>1. q \in RenderRequest /\ q.pc = "put" /\ q.todo = {}
    BY DEF TypeOK, CommitExport
  <1>2. exports \in Seq(Export) /\ n \in Nat /\ DOMAIN exports = 1..n
    BY LenProperties DEF TypeOK
  <1>3. /\ DOMAIN exports' = 1..(n + 1)
        /\ \A i \in 1..n : exports'[i] = exports[i]
        /\ exports'[n + 1] = e
    <2>1. e \in Export
      BY <1>1, NewExportTyped
    <2>2. exports' = Append(exports, e)
      BY DEF CommitExport
    <2> QED
      BY <1>2, <2>1, <2>2, AppendProperties, LenProperties
  <1>4. /\ e.version = q.version /\ e.ready = Ready(q) /\ e.snap = q.snap
        /\ q.raced => e.raced
        /\ (\E x \in Editors : edit[x].pc = "commit") => e.raced
    BY DEF NewExport
  <1>5. UNCHANGED <<answers, store, edit>>
    BY DEF CommitExport, Rendering, database
  <1>6. render'[r].pc = "idle" /\ \A x \in Exporters \ {r} : render'[x] = render[x]
    BY DEF CommitExport, IdleRender, TypeOK
  <1>7. ~e.raced => e.snap = answers
    BY <1>1, <1>4 DEF ExportsInv, OverlapsKnown
  <1> HIDE DEF e
  <1>8. OverlapsKnown'
    <2>1. \A x \in Exporters : render'[x].pc \in {"version", "put"} /\ ~render'[x].raced =>
             render'[x].snap = answers'
      BY <1>5, <1>6 DEF ExportsInv, OverlapsKnown
    <2>2. ASSUME NEW x \in Editors, edit'[x].pc = "commit", NEW i \in DOMAIN exports',
                 i > edit'[x].seen
          PROVE  exports'[i].raced
      <3>1. CASE i = n + 1
        BY <1>3, <1>4, <1>5, <2>2, <3>1
      <3>2. CASE i \in 1..n
        BY <1>2, <1>3, <1>5, <2>2, <3>2 DEF ExportsInv, OverlapsKnown
      <3> QED
        BY <1>2, <1>3, <3>1, <3>2
    <2> QED
      BY <2>1, <2>2 DEF OverlapsKnown
  <1>9. StoreHolds'
    <2>1. \A c \in Ready(q) : Stored(store, q.version, c)
      BY <1>1 DEF ExportsInv, StoreHolds, Stored
    <2>2. \A i \in DOMAIN exports' : \A c \in exports'[i].ready :
             Stored(store', exports'[i].version, c)
      <3> SUFFICES ASSUME NEW i \in DOMAIN exports', NEW c \in exports'[i].ready
                   PROVE  Stored(store', exports'[i].version, c)
        OBVIOUS
      <3>1. CASE i = n + 1
        BY <1>3, <1>4, <1>5, <2>1, <3>1
      <3>2. CASE i \in 1..n
        BY <1>2, <1>3, <1>5, <3>2 DEF ExportsInv, StoreHolds, Stored
      <3> QED
        BY <1>2, <1>3, <3>1, <3>2
    <2>3. \A x \in Exporters : render'[x].pc = "put" =>
             /\ render'[x].todo \subseteq Ready(render'[x])
             /\ \A c \in Ready(render'[x]) \ render'[x].todo :
                  Stored(store', render'[x].version, c)
      BY <1>5, <1>6 DEF ExportsInv, StoreHolds, Stored
    <2>4. \A o \in store' : o.kind \in Gated => ExportAllowed(o.snap, o.clean)
      BY <1>5 DEF ExportsInv, StoreHolds
    <2> QED
      BY <2>2, <2>3, <2>4 DEF StoreHolds, Stored, Ready
  <1>10. LatestKnown'
    <2>1. Versions' = Versions \cup {q.version}
      BY <1>2, <1>3, <1>4 DEF Versions
    <2>2. q.version \in Nat
      BY <1>1 DEF RenderRequest
    <2>3. CASE exports = <<>>
      <3>1. Versions = {}
        BY <2>3 DEF Versions
      <3> QED
        BY <2>1, <2>2, <3>1 DEF LatestKnown
    <2>4. CASE exports # <<>>
      <3>1. PICK v \in Versions : \A w \in Versions : w <= v
        BY <2>4 DEF ExportsInv, LatestKnown
      <3>2. v \in Nat /\ \A w \in Versions : w \in Nat
        BY VersionsAreNat
      <3>3. CASE q.version <= v
        BY <2>1, <3>1, <3>3 DEF LatestKnown
      <3>4. CASE v <= q.version
        <4>1. \A w \in Versions' : w <= q.version
          BY <2>1, <2>2, <3>1, <3>2, <3>4
        <4> QED
          BY <2>1, <4>1 DEF LatestKnown
      <3> QED
        BY <2>2, <3>2, <3>3, <3>4
    <2> QED
      BY <2>3, <2>4
  <1>11. FreshUnlessRaced'
    <2> SUFFICES ASSUME NEW i \in DOMAIN exports', ~exports'[i].stale, ~exports'[i].raced
                 PROVE  exports'[i].snap = answers'
      BY DEF FreshUnlessRaced
    <2>1. CASE i = n + 1
      BY <1>3, <1>4, <1>5, <1>7, <2>1
    <2>2. CASE i \in 1..n
      BY <1>2, <1>3, <1>5, <2>2 DEF FreshUnlessRaced
    <2> QED
      BY <1>2, <1>3, <2>1, <2>2
  <1> QED
    BY <1>8, <1>9, <1>10, <1>11 DEF ExportsInv

LEMMA StepKeepsExports ==
  ASSUME TypeOK, ExportsInv, FreshUnlessRaced, [Next]_vars
  PROVE  ExportsInv' /\ FreshUnlessRaced'
  <1>1. UNCHANGED <<answers, exports>> => FreshUnlessRaced'
    BY DEF FreshUnlessRaced
  <1>2. CASE Tick \/ UNCHANGED vars \/
             \E r \in Mappers :
                \/ StartMapping(r)
                \/ \E P \in SUBSET Proposals : CommitMapping(r, P)
                \/ FailMapping(r)
    <2>1. UNCHANGED <<answers, exports, store, edit, render>>
      BY <1>2 DEF Tick, vars, StartMapping, CommitMapping, FailMapping, database
    <2> QED
      BY <1>1, <2>1, OtherStepsKeepExports
  <1>3. ASSUME NEW r \in Editors,
               \/ \E u \in Users, f \in Fields, v \in Values : StartPut(r, u, f, v)
               \/ \E u \in Users, p \in Proposals, d \in Decisions, v \in Values :
                    StartDecision(r, u, p, d, v)
               \/ \E u \in Users, P \in SUBSET Proposals : StartBulk(r, u, P)
               \/ EditStep(r)
               \/ FailEdit(r)
        PROVE  ExportsInv' /\ FreshUnlessRaced'
    <2>1. CASE CommitAnswer(r)
      BY <2>1, CommitAnswerKeepsExports
    <2>2. CASE ~CommitAnswer(r)
      <3>1. UNCHANGED <<answers, exports>>
        BY <1>3, <2>2 DEF EditStep, StartPut, StartDecision, StartBulk, BulkPick,
          BulkDone, ReadFiling, ReadProposal, Stamp, FlushDecision, SelectLock,
          InsertLock, MarkStale, CommitRejection, FailEdit, Local, database
      <3>2. ExportsInv'
        BY <1>3, <2>2, EditorsKeepExports DEF EditStep
      <3> QED
        BY <1>1, <3>1, <3>2
    <2> QED
      BY <2>1, <2>2
  <1>4. ASSUME NEW r \in Exporters,
               (\E K \in SUBSET Kinds : StartExport(r, K)) \/ ExportStep(r) \/ FailExport(r)
        PROVE  ExportsInv' /\ FreshUnlessRaced'
    <2>1. CASE CommitExport(r)
      BY <2>1, CommitExportKeepsExports
    <2>2. CASE ~CommitExport(r)
      <3>1. UNCHANGED <<answers, exports>>
        BY <1>4, <2>2 DEF StartExport, ExportStep, FailExport, ExportReadFiling,
          ExportReadAnswers, ExportReadVersion, PutArtifact, Rendering, database
      <3>2. ExportsInv'
        BY <1>4, <2>2, ExportReadsKeepExports, PutArtifactKeepsExports DEF ExportStep
      <3> QED
        BY <1>1, <3>1, <3>2
    <2> QED
      BY <2>1, <2>2
  <1> QED
    BY <1>2, <1>3, <1>4 DEF Next

-----------------------------------------------------------------------------
(* The answers *)

AnswersInv == StoredAnswersValid /\ AIAnswersDecided /\ DecisionsReachAnswers

LEMMA UnansweredSteps ==
  ASSUME TypeOK, AnswersInv, UNCHANGED answers,
         \A p \in Proposals :
            /\ proposals[p].status \in Decisions =>
                 proposals'[p].status \in Decisions
            /\ proposals'[p].status \in {"accepted", "edited"} =>
                 proposals[p].status \in {"accepted", "edited"}
  PROVE  AnswersInv'
  BY DEF AnswersInv, StoredAnswersValid, AIAnswersDecided, DecisionsReachAnswers,
    FieldErrors, Answered

LEMMA CommitAnswerKeepsAnswers ==
  ASSUME TypeOK, EditorsInv, AnswersInv, NEW r \in Editors, CommitAnswer(r)
  PROVE  AnswersInv'
  <1> DEFINE q == edit[r]
             w == Written(q)
  <1>1. q \in EditRequest /\ RequestValid(q) /\ q.pc = "commit"
    BY DEF TypeOK, EditorsInv, RequestsValid, CommitAnswer
  <1>2. /\ answers'[q.field] = w
        /\ \A f \in Fields \ {q.field} : answers'[f] = answers[f]
        /\ q.field \in Fields
    BY <1>1 DEF CommitAnswer, TypeOK, Snapshot, EditRequest
  <1>3. /\ w.value = q.value
        /\ w.author = IF q.op \in {"accepted", "bulk"} THEN "ai" ELSE "user"
        /\ w.evidence = IF q.op = "put" THEN answers[q.field].evidence ELSE q.prop
    BY DEF Written
  <1>4. Answered(answers') = Answered(answers) \cup {q.field}
    BY <1>2, <1>3 DEF Answered
  <1>5. proposals' = Decided(q)
    BY DEF CommitAnswer
  <1>6. \A p \in Proposals :
           proposals[p].status \in Decisions => proposals'[p].status \in Decisions
    BY <1>1, <1>5, DecidedProgress DEF RequestValid, EditRequest
  <1>7. \A p \in Proposals \ {q.prop} : proposals'[p].status = proposals[p].status
    BY <1>5 DEF Decided
  <1> HIDE DEF w
  <1>8. StoredAnswersValid'
    <2>1. ValidValue(q.field, q.value)
      BY <1>1 DEF RequestValid, Unstamped
    <2>2. \A f \in Answered(answers) : ValidValue(f, answers[f].value)
      BY DEF AnswersInv, StoredAnswersValid, FieldErrors
    <2>3. \A f \in Answered(answers') : ValidValue(f, answers'[f].value)
      BY <1>2, <1>3, <1>4, <2>1, <2>2 DEF Answered
    <2> QED
      BY <2>3 DEF StoredAnswersValid, FieldErrors
  <1>9. AIAnswersDecided'
    <2> SUFFICES ASSUME NEW f \in Answered(answers'), answers'[f].author = "ai"
                 PROVE  \E p \in Proposals :
                          /\ answers'[f].evidence = p
                          /\ PField[p] = f
                          /\ PValue[p] = answers'[f].value
                          /\ proposals'[p].status \in Decisions
      BY DEF AIAnswersDecided
    <2>1. CASE f = q.field
      <3>1. q.op \in {"accepted", "bulk"}
        BY <1>2, <1>3, <2>1
      <3>2. /\ q.prop \in Proposals /\ PField[q.prop] = f
            /\ PValue[q.prop] = q.value
        BY <1>1, <2>1, <3>1 DEF RequestValid
      <3>3. "status" \in q.sets \/ proposals[q.prop].status \in Decisions
        BY <1>1, <3>1 DEF RequestValid, Decisions
      <3>4. proposals'[q.prop].status \in Decisions
        BY <1>5, <3>1, <3>2, <3>3 DEF Decided, Decisions
      <3> QED
        BY <1>2, <1>3, <2>1, <3>1, <3>2, <3>4
    <2>2. CASE f # q.field
      <3>1. f \in Fields /\ answers'[f] = answers[f] /\ f \in Answered(answers)
        BY <1>2, <1>4, <2>2 DEF Answered
      <3>2. PICK p \in Proposals :
               /\ answers[f].evidence = p
               /\ PField[p] = f
               /\ PValue[p] = answers[f].value
               /\ proposals[p].status \in Decisions
        BY <3>1 DEF AnswersInv, AIAnswersDecided
      <3> QED
        BY <1>6, <3>1, <3>2
    <2> QED
      BY <2>1, <2>2
  <1>10. DecisionsReachAnswers'
    <2> SUFFICES ASSUME NEW p \in Proposals,
                        proposals'[p].status \in {"accepted", "edited"}
                 PROVE  PField[p] \in Answered(answers')
      BY DEF DecisionsReachAnswers
    <2>1. CASE p = q.prop
      <3>1. q.op # "put"
        BY <1>1, <2>1, EngineAssumption DEF RequestValid
      <3>2. q.field = PField[p]
        BY <1>1, <2>1, <3>1 DEF RequestValid
      <3> QED
        BY <1>4, <3>2
    <2>2. CASE p # q.prop
      BY <1>4, <1>7, <2>2 DEF AnswersInv, DecisionsReachAnswers
    <2> QED
      BY <2>1, <2>2
  <1> QED
    BY <1>8, <1>9, <1>10 DEF AnswersInv

(* Only three actions write what is stored of a filing's answers.          *)
LEMMA Writers ==
  ASSUME [Next]_vars
  PROVE  \/ \E r \in Editors : CommitAnswer(r)
         \/ \E r \in Editors : CommitRejection(r)
         \/ \E r \in Mappers, P \in SUBSET Proposals : CommitMapping(r, P)
         \/ UNCHANGED <<answers, lock, proposals>>
  <1>1. CASE Tick \/ UNCHANGED vars
    BY <1>1 DEF Tick, vars, database
  <1>2. ASSUME NEW r \in Editors,
               \/ \E u \in Users, f \in Fields, v \in Values : StartPut(r, u, f, v)
               \/ \E u \in Users, p \in Proposals, d \in Decisions, v \in Values :
                    StartDecision(r, u, p, d, v)
               \/ \E u \in Users, P \in SUBSET Proposals : StartBulk(r, u, P)
               \/ EditStep(r) /\ ~CommitAnswer(r) /\ ~CommitRejection(r)
               \/ FailEdit(r)
        PROVE  UNCHANGED <<answers, lock, proposals>>
    BY <1>2 DEF EditStep, StartPut, StartDecision, StartBulk, BulkPick, BulkDone,
      ReadFiling, ReadProposal, Stamp, FlushDecision, SelectLock, InsertLock,
      MarkStale, FailEdit, Local, database
  <1>3. ASSUME NEW r \in Mappers, StartMapping(r) \/ FailMapping(r)
        PROVE  UNCHANGED <<answers, lock, proposals>>
    BY <1>3 DEF StartMapping, FailMapping, database
  <1>4. ASSUME NEW r \in Exporters,
               (\E K \in SUBSET Kinds : StartExport(r, K)) \/ ExportStep(r) \/ FailExport(r)
        PROVE  UNCHANGED <<answers, lock, proposals>>
    BY <1>4 DEF StartExport, ExportStep, FailExport, ExportReadFiling,
      ExportReadAnswers, ExportReadVersion, PutArtifact, CommitExport, Rendering,
      database
  <1> QED
    BY <1>1, <1>2, <1>3, <1>4 DEF Next

LEMMA StepKeepsAnswers ==
  ASSUME TypeOK, EditorsInv, AnswersInv, [Next]_vars
  PROVE  AnswersInv'
  <1>1. CASE \E r \in Editors : CommitAnswer(r)
    BY <1>1, CommitAnswerKeepsAnswers
  <1>2. CASE \E r \in Editors : CommitRejection(r)
    <2>1. PICK r \in Editors : CommitRejection(r)
      BY <1>2
    <2>2. RequestValid(edit[r]) /\ edit[r].op = "rejected"
      BY <2>1 DEF EditorsInv, RequestsValid, CommitRejection, RequestValid
    <2>3. answers' = answers /\ proposals' = Decided(edit[r])
      BY <2>1 DEF CommitRejection
    <2> QED
      BY <2>2, <2>3, UnansweredSteps DEF Decided, Decisions
  <1>3. CASE \E r \in Mappers, P \in SUBSET Proposals : CommitMapping(r, P)
    <2>1. PICK r \in Mappers, P \in SUBSET Proposals : CommitMapping(r, P)
      BY <1>3
    <2>2. answers' = answers
      BY <2>1 DEF CommitMapping
    <2>3. ASSUME NEW p \in Proposals
          PROVE  \/ proposals'[p] = proposals[p]
                 \/ proposals[p].status = "absent" /\ proposals'[p].status = "unreviewed"
      BY <2>1 DEF CommitMapping, Created
    <2> QED
      BY <2>2, <2>3, UnansweredSteps DEF Decisions
  <1>4. CASE UNCHANGED <<answers, proposals>>
    BY <1>4, UnansweredSteps
  <1> QED
    BY <1>1, <1>2, <1>3, <1>4, Writers

-----------------------------------------------------------------------------
(* Theorems *)

(* Each part needs the others: types need to know that a plain write       *)
(* carries no decision, the answers need the requests to be valid, and the *)
(* fresh exports need the overlaps to be known.                            *)
IInv == TypeOK /\ EditorsInv /\ AnswersInv /\ ExportsInv /\ FreshUnlessRaced

(* The invariant holds of a new filing and every step of every request     *)
(* keeps it.                                                               *)
THEOREM Inductive == Spec => []IInv
  <1>1. Init => IInv
    <2> SUFFICES ASSUME Init PROVE IInv
      OBVIOUS
    <2>1. TypeOK
      BY InitTyped
    <2>2. LockHeld
      BY FilingAssumption DEF Init, LockHeld, IdleEdit
    <2>3. RequestsValid
      BY IdleEditValid, FilingAssumption DEF Init, RequestsValid
    <2>4. AnswersInv
      BY DEF Init, AnswersInv, StoredAnswersValid, AIAnswersDecided,
        DecisionsReachAnswers, FieldErrors, Answered, Blank, Unanswered
    <2>5. OverlapsKnown /\ StoreHolds /\ LatestKnown /\ FreshUnlessRaced
      BY DEF Init, OverlapsKnown, StoreHolds, LatestKnown, FreshUnlessRaced,
        IdleRender, IdleEdit
    <2> QED
      BY <2>1, <2>2, <2>3, <2>4, <2>5 DEF IInv, EditorsInv, ExportsInv
  <1>2. IInv /\ [Next]_vars => IInv'
    <2> SUFFICES ASSUME IInv, [Next]_vars PROVE IInv'
      OBVIOUS
    <2>1. TypeOK'
      BY StepTyped DEF IInv, EditorsInv, ExportsInv
    <2> QED
      BY <2>1, StepKeepsEditors, StepKeepsAnswers, StepKeepsExports DEF IInv
  <1> QED
    BY <1>1, <1>2, PTL DEF Spec

(* Every variable keeps its type (models/studio.py).                       *)
THEOREM TypeCorrect == Spec => []TypeOK
  BY Inductive, PTL DEF IInv

(* The editor lock row has one owner and a lease that lets it write, and   *)
(* what every request has read stays good enough for what it writes        *)
(* (acquire_lock, write_answer, decide_proposal).                          *)
THEOREM EditorsSafe == Spec => []EditorsInv
  BY Inductive, PTL DEF IInv

(* Whatever is stored validates (write_answer).                            *)
THEOREM AnswersAlwaysValid == Spec => []StoredAnswersValid
  BY Inductive, PTL DEF IInv, AnswersInv

(* An AI answer is what a decided proposal for its field said              *)
(* (decide_proposal).                                                      *)
THEOREM NoUndecidedAIAnswer == Spec => []AIAnswersDecided
  BY Inductive, PTL DEF IInv, AnswersInv

(* A recorded acceptance has reached its field (decide_proposal).          *)
THEOREM NoLostDecision == Spec => []DecisionsReachAnswers
  BY Inductive, PTL DEF IInv, AnswersInv

(* However exports overlap each other and writes, what can be downloaded   *)
(* is there and passed the gate (generate_exports, download_export).       *)
THEOREM ExportsPassGate == Spec => []DownloadsPassedGate
  <1>1. IInv => DownloadsPassedGate
    BY DEF IInv, ExportsInv, StoreHolds, DownloadsPassedGate
  <1> QED
    BY <1>1, Inductive, PTL

(* The staleness flag is right for every export that no write overlapped   *)
(* (write_answer, generate_exports).                                       *)
THEOREM StalenessTrusted == Spec => []FreshUnlessRaced
  BY Inductive, PTL DEF IInv

(* Requests, sessions and row locks implement atomic writes under a lease  *)
(* (acquire_lock, write_answer).                                           *)
THEOREM ImplementsLease == Spec => WritesAreLeased
  <1>1. Init => Leased!LeaseInit
    BY DEF Init, Leased!LeaseInit, Blank
  <1>2. IInv /\ [Next]_vars => [Leased!LeaseNext]_<<answers, lock>>
    <2> SUFFICES ASSUME IInv, [Next]_vars
                 PROVE  Leased!LeaseNext \/ UNCHANGED <<answers, lock>>
      OBVIOUS
    <2>1. ASSUME NEW r \in Editors, CommitAnswer(r) PROVE Leased!LeaseNext
      <3> DEFINE q == edit[r]
      <3>1. q \in EditRequest /\ RequestValid(q) /\ q.pc = "commit"
        BY <2>1 DEF IInv, TypeOK, EditorsInv, RequestsValid, CommitAnswer
      <3>2. q.user \in Users /\ q.field \in Fields /\ q.at \in 0..MaxTime
        BY <3>1, FilingAssumption DEF RequestValid, EditRequest
      <3>3. Leased!Open(q.user, q.at)
        BY <2>1 DEF IInv, EditorsInv, LockHeld, MayLock, Leased!Open, CommitAnswer
      <3>4. Written(q) \in Answer
        BY <3>1, WrittenTyped DEF IInv
      <3>5. Leased!Write(q.user, q.field, q.at)
        BY <2>1, <3>3, <3>4 DEF CommitAnswer, Leased!Write
      <3> QED
        BY <3>2, <3>5 DEF Leased!LeaseNext
    <2> QED
      BY <2>1, Writers DEF CommitRejection, CommitMapping
  <1> QED
    BY <1>1, <1>2, Inductive, PTL
    DEF Spec, WritesAreLeased, Leased!LeasedSpec, Leased!leasedVars

-----------------------------------------------------------------------------
(* Requests that come one at a time *)

(* No two requests that export the filing, or that edit it, are open at    *)
(* once, however many clients there are.                                   *)
OneExport ==
    \A q, r \in Exporters : render[q].pc # "idle" /\ render[r].pc # "idle" => q = r

OneEdit ==
    \A q, r \in Editors : edit[q].pc # "idle" /\ edit[r].pc # "idle" => q = r

(* An export is given a version that no committed export has, and what it  *)
(* has put under it already is its own, also over what a failed export     *)
(* left there.                                                             *)
PutsItsOwn(r) ==
    render[r].pc = "put" =>
        /\ \A i \in DOMAIN exports : exports[i].version # render[r].version
        /\ \A o \in store :
             /\ o.version = render[r].version
             /\ o.kind \in Ready(render[r]) \ render[r].todo
             => o.snap = render[r].snap

OwnArtifacts == ArtifactsAreOwn /\ \A r \in Exporters : PutsItsOwn(r)

(* Writes mark exports stale and export requests raced, no more.           *)
LEMMA OthersKeepArtifacts ==
  ASSUME OwnArtifacts, store' = store, DOMAIN exports' = DOMAIN exports,
         \A i \in DOMAIN exports : /\ exports'[i].version = exports[i].version
                                   /\ exports'[i].ready = exports[i].ready
                                   /\ exports'[i].snap = exports[i].snap,
         \A r \in Exporters : render'[r].pc = "put" =>
            /\ render[r].pc = "put"
            /\ render'[r].version = render[r].version /\ render'[r].snap = render[r].snap
            /\ render'[r].kinds = render[r].kinds /\ render'[r].clean = render[r].clean
            /\ render'[r].todo = render[r].todo
  PROVE  OwnArtifacts'
  <1>1. ArtifactsAreOwn'
    BY DEF OwnArtifacts, ArtifactsAreOwn
  <1>2. \A r \in Exporters : PutsItsOwn(r)'
    <2> SUFFICES ASSUME NEW r \in Exporters, render'[r].pc = "put" PROVE PutsItsOwn(r)'
      BY DEF PutsItsOwn
    <2>1. Ready(render[r])' = Ready(render[r])
      BY DEF Ready
    <2>2. PutsItsOwn(r)
      BY DEF OwnArtifacts
    <2> QED
      BY <2>1, <2>2 DEF PutsItsOwn
  <1> QED
    BY <1>1, <1>2 DEF OwnArtifacts

LEMMA CommitAnswerKeepsArtifacts ==
  ASSUME TypeOK, OwnArtifacts, NEW r \in Editors, CommitAnswer(r)
  PROVE  OwnArtifacts'
  <1>1. /\ exports' = [i \in DOMAIN exports |->
                         IF i <= edit[r].seen THEN [exports[i] EXCEPT !.stale = TRUE]
                                              ELSE exports[i]]
        /\ render' = [x \in Exporters |->
                        IF render[x].pc \in {"version", "put"}
                          THEN [render[x] EXCEPT !.raced = TRUE] ELSE render[x]]
        /\ store' = store
    BY DEF CommitAnswer
  <1>2. \A i \in DOMAIN exports : exports[i] \in Export
    BY ElementOfSeq, LenProperties DEF TypeOK
  <1>3. DOMAIN exports' = DOMAIN exports
    BY <1>1
  <1>4. \A i \in DOMAIN exports : /\ exports'[i].version = exports[i].version
                                  /\ exports'[i].ready = exports[i].ready
                                  /\ exports'[i].snap = exports[i].snap
    BY <1>1, <1>2 DEF Export
  <1>5. \A x \in Exporters : render'[x].pc = "put" =>
            /\ render[x].pc = "put"
            /\ render'[x].version = render[x].version /\ render'[x].snap = render[x].snap
            /\ render'[x].kinds = render[x].kinds /\ render'[x].clean = render[x].clean
            /\ render'[x].todo = render[x].todo
    BY <1>1 DEF TypeOK, RenderRequest
  <1> QED
    BY <1>1, <1>3, <1>4, <1>5, OthersKeepArtifacts

(* The version after the latest is nobody's.                               *)
LEMMA NextVersionIsNew ==
  ASSUME TypeOK, LatestKnown
  PROVE  \A i \in DOMAIN exports : exports[i].version # NextVersion
  <1> SUFFICES ASSUME NEW i \in DOMAIN exports PROVE exports[i].version # NextVersion
    OBVIOUS
  <1>1. exports # <<>> /\ exports[i].version \in Versions
    BY DEF Versions
  <1> DEFINE v == CHOOSE n \in Versions : \A w \in Versions : w <= n
  <1>2. v \in Versions /\ \A w \in Versions : w <= v
    BY <1>1 DEF LatestKnown
  <1>3. NextVersion = 1 + v
    BY <1>1 DEF NextVersion
  <1>4. v \in Nat /\ exports[i].version \in Nat /\ exports[i].version <= v
    BY <1>1, <1>2, VersionsAreNat
  <1> HIDE DEF v
  <1> QED
    BY <1>3, <1>4

(* A request that is not putting objects yet, or stops.                    *)
LEMMA RenderStepKeepsArtifacts ==
  ASSUME TypeOK, OwnArtifacts, NEW r \in Exporters, NEW q,
         render' = [render EXCEPT ![r] = q], UNCHANGED <<exports, store>>, q.pc # "put"
  PROVE  OwnArtifacts'
  <1>1. render'[r] = q /\ \A x \in Exporters \ {r} : render'[x] = render[x]
    BY DEF TypeOK
  <1> QED
    BY <1>1, OthersKeepArtifacts

LEMMA ExportReadVersionKeepsArtifacts ==
  ASSUME TypeOK, LatestKnown, OwnArtifacts, NEW r \in Exporters, ExportReadVersion(r)
  PROVE  OwnArtifacts'
  <1> DEFINE q == [render[r] EXCEPT !.pc = "put", !.version = NextVersion,
                                    !.todo = Ready(render[r])]
  <1>1. /\ q.todo = Ready(render[r]) /\ q.kinds = render[r].kinds
        /\ q.snap = render[r].snap /\ q.clean = render[r].clean /\ q.version = NextVersion
    BY DEF TypeOK, RenderRequest
  <1>2. render' = [render EXCEPT ![r] = q] /\ UNCHANGED <<exports, store>>
    BY DEF ExportReadVersion
  <1> HIDE DEF q
  <1>3. render'[r] = q /\ \A x \in Exporters \ {r} : render'[x] = render[x]
    BY <1>2 DEF TypeOK
  <1>4. Ready(q) = Ready(render[r])
    BY <1>1 DEF Ready
  <1>5. ArtifactsAreOwn'
    BY <1>2 DEF OwnArtifacts, ArtifactsAreOwn
  <1>6. PutsItsOwn(r)'
    <2>1. Ready(render[r])' = Ready(q)
      BY <1>3 DEF Ready
    <2>2. \A i \in DOMAIN exports' : exports'[i].version # render'[r].version
      BY <1>1, <1>2, <1>3, NextVersionIsNew
    <2>3. Ready(render[r])' \ render'[r].todo = {}
      BY <1>1, <1>3, <1>4, <2>1
    <2> QED
      BY <2>2, <2>3 DEF PutsItsOwn
  <1>7. ASSUME NEW x \in Exporters \ {r} PROVE PutsItsOwn(x)'
    <2>1. PutsItsOwn(x) /\ Ready(render[x])' = Ready(render[x])
      BY <1>3 DEF OwnArtifacts, Ready
    <2> QED
      BY <1>2, <1>3, <2>1 DEF PutsItsOwn
  <1> QED
    BY <1>5, <1>6, <1>7 DEF OwnArtifacts

(* Nobody else has an object of the version the request puts.              *)
LEMMA PutArtifactKeepsArtifacts ==
  ASSUME TypeOK, OwnArtifacts, OneExport, NEW r \in Exporters, NEW k \in Kinds,
         PutArtifact(r, k)
  PROVE  OwnArtifacts'
  <1> DEFINE q == render[r]
             n == [q EXCEPT !.todo = q.todo \ {k}]
             o == [version |-> q.version, kind |-> k, snap |-> q.snap, clean |-> q.clean]
  <1>1. q \in RenderRequest /\ q.pc = "put" /\ PutsItsOwn(r)
    BY DEF TypeOK, PutArtifact, OwnArtifacts
  <1>2. /\ n.pc = q.pc /\ n.kinds = q.kinds /\ n.snap = q.snap /\ n.clean = q.clean
        /\ n.version = q.version /\ n.todo = q.todo \ {k}
    BY <1>1 DEF RenderRequest
  <1>3. render'[r] = n /\ \A x \in Exporters \ {r} : render'[x] = render[x]
    BY DEF PutArtifact, TypeOK
  <1>4. o.version = q.version /\ o.kind = k /\ o.snap = q.snap
    OBVIOUS
  <1>5. store' = {x \in store : x.version # q.version \/ x.kind # k} \cup {o}
    BY DEF PutArtifact, Put
  <1>6. exports' = exports
    BY DEF PutArtifact
  <1> HIDE DEF n, o
  <1>7. \A x \in store' : \/ x = o
                          \/ x \in store /\ (x.version # q.version \/ x.kind # k)
    BY <1>5
  <1>8. \A i \in DOMAIN exports : exports[i].version # q.version
    BY <1>1 DEF PutsItsOwn
  <1>9. ArtifactsAreOwn'
    BY <1>4, <1>6, <1>7, <1>8 DEF OwnArtifacts, ArtifactsAreOwn
  <1>10. PutsItsOwn(r)'
    <2>1. Ready(render[r])' = Ready(q)
      BY <1>2, <1>3 DEF Ready
    <2> SUFFICES ASSUME NEW x \in store', x.version = q.version,
                        x.kind \in Ready(q) \ n.todo
                 PROVE  x.snap = q.snap
      BY <1>2, <1>3, <1>6, <1>8, <2>1 DEF PutsItsOwn
    <2> QED
      BY <1>1, <1>2, <1>4, <1>7 DEF PutsItsOwn
  <1>11. \A x \in Exporters \ {r} : render'[x].pc # "put"
    BY <1>1, <1>3 DEF OneExport
  <1> QED
    BY <1>9, <1>10, <1>11 DEF OwnArtifacts, PutsItsOwn

LEMMA CommitExportKeepsArtifacts ==
  ASSUME TypeOK, OwnArtifacts, OneExport, NEW r \in Exporters, CommitExport(r)
  PROVE  OwnArtifacts'
  <1> DEFINE q == render[r]
             e == NewExport(q)
             n == Len(exports)
  <1>1. q \in RenderRequest /\ q.pc = "put" /\ q.todo = {} /\ PutsItsOwn(r)
    BY DEF TypeOK, CommitExport, OwnArtifacts
  <1>2. exports \in Seq(Export) /\ n \in Nat /\ DOMAIN exports = 1..n
    BY LenProperties DEF TypeOK
  <1>3. /\ DOMAIN exports' = 1..(n + 1)
        /\ \A i \in 1..n : exports'[i] = exports[i]
        /\ exports'[n + 1] = e
    <2>1. e \in Export
      BY <1>1, NewExportTyped
    <2>2. exports' = Append(exports, e)
      BY DEF CommitExport
    <2> QED
      BY <1>2, <2>1, <2>2, AppendProperties, LenProperties
  <1>4. e.version = q.version /\ e.ready = Ready(q) /\ e.snap = q.snap
    BY DEF NewExport
  <1>5. store' = store
    BY DEF CommitExport
  <1>6. render'[r].pc = "idle" /\ \A x \in Exporters \ {r} : render'[x] = render[x]
    BY DEF CommitExport, IdleRender, TypeOK
  <1> HIDE DEF e
  <1>7. ArtifactsAreOwn'
    <2> SUFFICES ASSUME NEW i \in DOMAIN exports', NEW o \in store,
                        o.version = exports'[i].version, o.kind \in exports'[i].ready
                 PROVE  o.snap = exports'[i].snap
      BY <1>5 DEF ArtifactsAreOwn
    <2>1. CASE i = n + 1
      BY <1>1, <1>3, <1>4, <2>1 DEF PutsItsOwn
    <2>2. CASE i \in 1..n
      BY <1>2, <1>3, <2>2 DEF OwnArtifacts, ArtifactsAreOwn
    <2> QED
      BY <1>2, <1>3, <2>1, <2>2
  <1>8. \A x \in Exporters : render'[x].pc # "put"
    BY <1>1, <1>6 DEF OneExport
  <1> QED
    BY <1>7, <1>8 DEF OwnArtifacts, PutsItsOwn

LEMMA StepKeepsArtifacts ==
  ASSUME TypeOK, LatestKnown, OwnArtifacts, OneExport, [Next]_vars
  PROVE  OwnArtifacts'
  <1>1. ASSUME UNCHANGED <<exports, store, render>> PROVE OwnArtifacts'
    BY <1>1, OthersKeepArtifacts
  <1>2. CASE Tick \/ UNCHANGED vars \/
             \E r \in Mappers :
                \/ StartMapping(r)
                \/ \E P \in SUBSET Proposals : CommitMapping(r, P)
                \/ FailMapping(r)
    BY <1>1, <1>2 DEF Tick, vars, StartMapping, CommitMapping, FailMapping
  <1>3. ASSUME NEW r \in Editors,
               \/ \E u \in Users, f \in Fields, v \in Values : StartPut(r, u, f, v)
               \/ \E u \in Users, p \in Proposals, d \in Decisions, v \in Values :
                    StartDecision(r, u, p, d, v)
               \/ \E u \in Users, P \in SUBSET Proposals : StartBulk(r, u, P)
               \/ EditStep(r)
               \/ FailEdit(r)
        PROVE  OwnArtifacts'
    <2>1. CASE CommitAnswer(r)
      BY <2>1, CommitAnswerKeepsArtifacts
    <2>2. CASE ~CommitAnswer(r)
      <3>1. UNCHANGED <<exports, store, render>>
        BY <1>3, <2>2 DEF EditStep, StartPut, StartDecision, StartBulk, BulkPick,
          BulkDone, ReadFiling, ReadProposal, Stamp, FlushDecision, SelectLock,
          InsertLock, MarkStale, CommitRejection, FailEdit, Local
      <3> QED
        BY <1>1, <3>1
    <2> QED
      BY <2>1, <2>2
  <1>4. ASSUME NEW r \in Exporters,
               (\E K \in SUBSET Kinds : StartExport(r, K)) \/ ExportStep(r) \/ FailExport(r)
        PROVE  OwnArtifacts'
    <2>0. render[r] \in RenderRequest /\ IdleRender.pc = "idle"
      BY DEF TypeOK, IdleRender
    <2>1. ASSUME render' = [render EXCEPT ![r] = IdleRender], UNCHANGED <<exports, store>>
          PROVE  OwnArtifacts'
      BY <2>0, <2>1, RenderStepKeepsArtifacts
    <2>2. ASSUME NEW K \in SUBSET Kinds, StartExport(r, K) PROVE OwnArtifacts'
      <3> DEFINE q == [IdleRender EXCEPT !.pc = "filing", !.kinds = K]
      <3>1. q.pc = "filing" /\ render' = [render EXCEPT ![r] = q]
            /\ UNCHANGED <<exports, store>>
        BY <2>2 DEF StartExport, IdleRender
      <3> HIDE DEF q
      <3> QED
        BY <3>1, RenderStepKeepsArtifacts
    <2>3. CASE ExportReadFiling(r)
      <3> DEFINE q == [render[r] EXCEPT !.pc = "answers", !.rev = revision]
      <3>1. q.pc = "answers" /\ render' = [render EXCEPT ![r] = q]
            /\ UNCHANGED <<exports, store>>
        BY <2>0, <2>3 DEF ExportReadFiling, RenderRequest, TypeOK
      <3> HIDE DEF q
      <3> QED
        BY <3>1, RenderStepKeepsArtifacts
    <2>4. ASSUME NEW clean \in BOOLEAN, ExportReadAnswers(r, clean) PROVE OwnArtifacts'
      <3> DEFINE q == [render[r] EXCEPT !.pc = "version", !.snap = answers, !.clean = clean]
      <3>1. q.pc = "version"
        BY <2>0 DEF RenderRequest
      <3>2. /\ \/ render' = [render EXCEPT ![r] = q]
               \/ render' = [render EXCEPT ![r] = IdleRender]
            /\ UNCHANGED <<exports, store>>
        BY <2>4 DEF ExportReadAnswers, TypeOK
      <3> HIDE DEF q
      <3> QED
        BY <2>1, <3>1, <3>2, RenderStepKeepsArtifacts
    <2> QED
      BY <1>4, <2>1, <2>2, <2>3, <2>4, ExportReadVersionKeepsArtifacts,
         PutArtifactKeepsArtifacts, CommitExportKeepsArtifacts
      DEF ExportStep, FailExport
  <1> QED
    BY <1>2, <1>3, <1>4 DEF Next

(* While one request at a time exports the filing, also after exports that *)
(* failed half-way, a committed export's artifacts are the ones it         *)
(* rendered, whatever the editors do meanwhile (generate_exports).         *)
THEOREM SoleExportsKeepTheirArtifacts == Spec /\ []OneExport => []ArtifactsAreOwn
  <1>1. Init => OwnArtifacts
    BY DEF Init, OwnArtifacts, ArtifactsAreOwn, PutsItsOwn, IdleRender
  <1>2. IInv /\ OneExport /\ OwnArtifacts /\ [Next]_vars => OwnArtifacts'
    BY StepKeepsArtifacts DEF IInv, ExportsInv
  <1>3. OwnArtifacts => ArtifactsAreOwn
    BY DEF OwnArtifacts
  <1> QED
    BY <1>1, <1>2, <1>3, Inductive, PTL DEF Spec

(* From its read of the filing on, a request knows the revision it will    *)
(* increment.                                                              *)
RevisionRead ==
    \A r \in Editors :
        edit[r].pc \notin {"idle", "next", "filing"} => edit[r].rev = revision

LEMMA EditStepReads ==
  ASSUME TypeOK, NEW r \in Editors, NEW q, edit' = [edit EXCEPT ![r] = q],
         RevisionRead, revision' = revision,
         q.pc \notin {"idle", "next", "filing"} => q.rev = revision
  PROVE  RevisionRead'
  BY DEF TypeOK, RevisionRead

LEMMA EditorsReadTheRevision ==
  ASSUME TypeOK, RevisionRead, OneEdit, NEW r \in Editors,
         \/ \E u \in Users, f \in Fields, v \in Values : StartPut(r, u, f, v)
         \/ \E u \in Users, p \in Proposals, d \in Decisions, v \in Values :
              StartDecision(r, u, p, d, v)
         \/ \E u \in Users, P \in SUBSET Proposals : StartBulk(r, u, P)
         \/ EditStep(r)
         \/ FailEdit(r)
  PROVE  RevisionRead'
  <1> DEFINE Early == {"idle", "next", "filing"}
  <1>1. edit[r] \in EditRequest
    BY DEF TypeOK
  <1>2. IdleEdit.pc = "idle" /\ IdleEdit \in EditRequest
    BY IdleEditTyped DEF IdleEdit
  <1>3. ASSUME NEW u \in Users, NEW f \in Fields, NEW v \in Values, StartPut(r, u, f, v)
        PROVE  RevisionRead'
    <2> DEFINE q == [IdleEdit EXCEPT !.pc = "filing", !.user = u, !.field = f, !.value = v]
    <2>1. q.pc = "filing" /\ edit' = [edit EXCEPT ![r] = q] /\ revision' = revision
      BY <1>3 DEF StartPut, IdleEdit, Local, database
    <2> HIDE DEF q
    <2> QED
      BY <2>1, EditStepReads
  <1>4. ASSUME NEW u \in Users, NEW p \in Proposals, NEW d \in Decisions,
               NEW v \in Values, StartDecision(r, u, p, d, v)
        PROVE  RevisionRead'
    <2> DEFINE q == [IdleEdit EXCEPT !.pc = "filing", !.op = d, !.user = u,
                                     !.field = PField[p], !.value = v, !.prop = p]
    <2>1. q.pc = "filing" /\ edit' = [edit EXCEPT ![r] = q] /\ revision' = revision
      BY <1>4 DEF StartDecision, IdleEdit, Local, database
    <2> HIDE DEF q
    <2> QED
      BY <2>1, EditStepReads
  <1>5. ASSUME NEW u \in Users, NEW P \in SUBSET Proposals, StartBulk(r, u, P)
        PROVE  RevisionRead'
    <2> DEFINE q == [IdleEdit EXCEPT !.pc = "next", !.op = "bulk", !.user = u, !.todo = P]
    <2>1. q.pc = "next" /\ edit' = [edit EXCEPT ![r] = q] /\ revision' = revision
      BY <1>5 DEF StartBulk, IdleEdit, Local, database
    <2> HIDE DEF q
    <2> QED
      BY <2>1, EditStepReads
  <1>6. ASSUME NEW p \in Proposals, BulkPick(r, p) PROVE RevisionRead'
    <2> DEFINE q1 == [edit[r] EXCEPT !.pc = "filing", !.prop = p,
                                     !.sets = {"status", "by"},
                                     !.field = PField[p], !.value = PValue[p],
                                     !.todo = edit[r].todo \ {p}]
               q2 == [edit[r] EXCEPT !.todo = edit[r].todo \ {p}]
    <2>1. q1.pc = "filing" /\ q2.pc = "next"
      BY <1>1, <1>6 DEF EditRequest, BulkPick
    <2>2. /\ \/ edit' = [edit EXCEPT ![r] = q1]
             \/ edit' = [edit EXCEPT ![r] = q2]
          /\ revision' = revision
      BY <1>6 DEF BulkPick, TypeOK, Local, database
    <2> HIDE DEF q1, q2
    <2> QED
      BY <2>1, <2>2, EditStepReads
  <1>7. ASSUME edit' = [edit EXCEPT ![r] = IdleEdit], revision' = revision
        PROVE  RevisionRead'
    BY <1>2, <1>7, EditStepReads
  <1>8. CASE ReadFiling(r)
    <2> DEFINE q == [edit[r] EXCEPT !.pc = IF edit[r].op \in Decisions
                                              THEN "proposal" ELSE "stamp",
                                    !.rev = revision]
    <2>1. q.rev = revision /\ edit' = [edit EXCEPT ![r] = q] /\ revision' = revision
      BY <1>1, <1>8 DEF ReadFiling, EditRequest, TypeOK, Local, database
    <2> HIDE DEF q
    <2> QED
      BY <2>1, EditStepReads
  <1>9. ASSUME NEW pc, NEW sets, NEW at, NEW seen, edit[r].pc \notin Early,
               revision' = revision,
               \/ edit' = [edit EXCEPT ![r] = [edit[r] EXCEPT !.pc = pc, !.sets = sets]]
               \/ edit' = [edit EXCEPT ![r] = [edit[r] EXCEPT !.pc = pc, !.at = at]]
               \/ edit' = [edit EXCEPT ![r] = [edit[r] EXCEPT !.pc = pc, !.seen = seen]]
               \/ edit' = [edit EXCEPT ![r] = [edit[r] EXCEPT !.pc = pc]]
        PROVE  RevisionRead'
    <2>1. edit[r].rev = revision
      BY <1>9 DEF RevisionRead
    <2>2. PICK q : edit' = [edit EXCEPT ![r] = q] /\ q.rev = edit[r].rev
      <3>1. [edit[r] EXCEPT !.pc = pc, !.sets = sets].rev = edit[r].rev
        BY <1>1 DEF EditRequest
      <3>2. [edit[r] EXCEPT !.pc = pc, !.at = at].rev = edit[r].rev
        BY <1>1 DEF EditRequest
      <3>3. [edit[r] EXCEPT !.pc = pc, !.seen = seen].rev = edit[r].rev
        BY <1>1 DEF EditRequest
      <3>4. [edit[r] EXCEPT !.pc = pc].rev = edit[r].rev
        BY <1>1 DEF EditRequest
      <3> QED
        BY <1>9, <3>1, <3>2, <3>3, <3>4, Zenon
    <2> QED
      BY <1>9, <2>1, <2>2, EditStepReads
  <1>10. CASE ReadProposal(r)
    <2> DEFINE pc == IF edit[r].op = "rejected" THEN "reject" ELSE "stamp"
               sets == Changes(edit[r])
    <2>1. /\ edit[r].pc \notin Early /\ revision' = revision
          /\ edit' = [edit EXCEPT ![r] = [edit[r] EXCEPT !.pc = pc, !.sets = sets]]
      BY <1>10 DEF ReadProposal, Local, database, TypeOK
    <2> HIDE DEF pc, sets, Early
    <2> QED
      BY <1>9, <2>1
  <1>11. CASE Stamp(r)
    <2> DEFINE pc == IF edit[r].sets = {} THEN "lock" ELSE "flush"
    <2>1. /\ edit[r].pc \notin Early /\ revision' = revision
          /\ \/ edit' = [edit EXCEPT ![r] = [edit[r] EXCEPT !.pc = pc, !.at = clock]]
             \/ edit' = [edit EXCEPT ![r] = IdleEdit]
      BY <1>11 DEF Stamp, Local, database, TypeOK
    <2> HIDE DEF pc, Early
    <2> QED
      BY <1>7, <1>9, <2>1
  <1>12. CASE FlushDecision(r) \/ SelectLock(r) \/ InsertLock(r)
    <2>1. /\ edit[r].pc \notin Early /\ revision' = revision
          /\ \/ \E pc : edit' = [edit EXCEPT ![r] = [edit[r] EXCEPT !.pc = pc]]
             \/ edit' = [edit EXCEPT ![r] = IdleEdit]
      <3>1. CASE FlushDecision(r)
        BY <3>1 DEF FlushDecision, Local, database, TypeOK
      <3>2. CASE SelectLock(r)
        BY <3>2 DEF SelectLock, TypeOK
      <3>3. CASE InsertLock(r)
        BY <3>3 DEF InsertLock, TypeOK
      <3> QED
        BY <1>12, <3>1, <3>2, <3>3
    <2> HIDE DEF Early
    <2> QED
      BY <1>7, <1>9, <2>1
  <1>13. CASE MarkStale(r)
    <2>1. /\ edit[r].pc \notin Early /\ revision' = revision
          /\ edit' = [edit EXCEPT ![r] = [edit[r] EXCEPT !.pc = "commit",
                                                         !.seen = Len(exports)]]
      BY <1>13 DEF MarkStale, Local, database, TypeOK
    <2> HIDE DEF Early
    <2> QED
      BY <1>9, <2>1
  <1>14. CASE CommitAnswer(r)
    <2>1. edit[r].pc = "commit" /\ edit' = [edit EXCEPT ![r] = After(edit[r])]
      BY <1>14 DEF CommitAnswer
    <2>2. After(edit[r]).pc \in Early
      BY <1>2 DEF After, IdleEdit
    <2>3. \A x \in Editors : edit'[x].pc \in Early
      BY <2>1, <2>2 DEF OneEdit, TypeOK
    <2> QED
      BY <2>3 DEF RevisionRead
  <1>15. CASE BulkDone(r) \/ CommitRejection(r) \/ FailEdit(r)
    BY <1>7, <1>15 DEF BulkDone, CommitRejection, FailEdit, Local, database
  <1> QED
    BY <1>3, <1>4, <1>5, <1>6, <1>8, <1>10, <1>11, <1>12, <1>13, <1>14, <1>15
    DEF EditStep

(* While one request at a time edits the filing, also after requests that  *)
(* failed, its revision counts the committed writes (write_answer).        *)
THEOREM SoleEditsAreCounted == Spec /\ []OneEdit => RevisionCountsWrites
  <1>1. Init => RevisionRead
    BY DEF Init, RevisionRead, IdleEdit
  <1>2. IInv /\ OneEdit /\ RevisionRead /\ [Next]_vars => RevisionRead'
    <2> SUFFICES ASSUME TypeOK, OneEdit, RevisionRead, [Next]_vars PROVE RevisionRead'
      BY DEF IInv
    <2>1. ASSUME NEW r \in Editors,
                 \/ \E u \in Users, f \in Fields, v \in Values : StartPut(r, u, f, v)
                 \/ \E u \in Users, p \in Proposals, d \in Decisions, v \in Values :
                      StartDecision(r, u, p, d, v)
                 \/ \E u \in Users, P \in SUBSET Proposals : StartBulk(r, u, P)
                 \/ EditStep(r)
                 \/ FailEdit(r)
          PROVE  RevisionRead'
      BY <2>1, EditorsReadTheRevision
    <2>2. CASE UNCHANGED <<edit, revision>>
      BY <2>2 DEF RevisionRead
    <2>3. ASSUME NEW r \in Mappers,
                 \/ StartMapping(r)
                 \/ \E P \in SUBSET Proposals : CommitMapping(r, P)
                 \/ FailMapping(r)
          PROVE  UNCHANGED <<edit, revision>>
      BY <2>3 DEF StartMapping, CommitMapping, FailMapping, database
    <2>4. ASSUME NEW r \in Exporters,
                 (\E K \in SUBSET Kinds : StartExport(r, K)) \/ ExportStep(r) \/ FailExport(r)
          PROVE  UNCHANGED <<edit, revision>>
      BY <2>4 DEF StartExport, ExportStep, FailExport, ExportReadFiling,
        ExportReadAnswers, ExportReadVersion, PutArtifact, CommitExport, Rendering,
        database
    <2>5. Tick \/ UNCHANGED vars => UNCHANGED <<edit, revision>>
      BY DEF Tick, vars, database
    <2> QED
      BY <2>1, <2>2, <2>3, <2>4, <2>5 DEF Next
  <1>3. RevisionRead /\ [Next]_vars =>
           [lock' # lock \/ answers' # answers => revision' = revision + 1]_vars
    <2> SUFFICES ASSUME RevisionRead, [Next]_vars, lock' # lock \/ answers' # answers
                 PROVE  revision' = revision + 1
      OBVIOUS
    <2>1. PICK r \in Editors : CommitAnswer(r)
      BY Writers DEF CommitRejection, CommitMapping
    <2> QED
      BY <2>1 DEF CommitAnswer, RevisionRead
  <1> QED
    BY <1>1, <1>2, <1>3, Inductive, PTL DEF Spec, RevisionCountsWrites
=============================================================================
