------------------------- MODULE ExtractionJobsProofs -------------------------
(***************************************************************************)
(* Proofs about ExtractionJobs, for any number of jobs, documents, workers *)
(* and request threads, either database, and any bounds.                   *)
(***************************************************************************)
EXTENDS ExtractionJobs, FiniteSetTheorems, TLAPS

USE DEF Expired, Absent

-----------------------------------------------------------------------------
(* Facts about the parts an action is built from.                           *)

\* The audit counters stay natural numbers.
LEMMA RecordType ==
    ASSUME TypeOK, NEW j \in Jobs, NEW e \in Events, Record(j, e)
    PROVE  audit' \in [Jobs -> [Events -> Nat]]
    BY DEF TypeOK, TablesOK, Record

\* A new document status keeps the documents table's type.
LEMMA SetDocType ==
    ASSUME TypeOK, NEW d \in Docs, NEW st \in DocStatus, SetDoc(d, st)
    PROVE  doc' \in [Docs -> [status: DocStatus, parsed: BOOLEAN]]
    BY DEF TypeOK, TablesOK, SetDoc

\* No step deletes a job row or moves a job to another document.
RowsPersist ==
    \A j \in Jobs : job[j].status # Absent =>
        job'[j].status # Absent /\ job'[j].doc = job[j].doc

\* A step that moves no worker keeps the workers typed.
LEMMA WorkersUnchanged ==
    ASSUME TypeOK, RowsPersist, UNCHANGED wk
    PROVE  WorkersOK'
    BY DEF TypeOK, WorkersOK, RowsPersist

\* A step that moves no request keeps the requests typed.
LEMMA RequestsUnchanged ==
    ASSUME TypeOK, RowsPersist, UNCHANGED req
    PROVE  RequestsOK'
    BY DEF TypeOK, RequestsOK, RowsPersist

\* A request that ends leaves the requests typed.
LEMMA EndRequestType ==
    ASSUME TypeOK, RowsPersist, NEW s \in Sessions, EndRequest(s)
    PROVE  RequestsOK'
<1>1. IdleRequest \in RequestState
    BY DEF IdleRequest, RequestState
<1>2. req' \in [Sessions -> RequestState]
    BY <1>1 DEF TypeOK, RequestsOK, EndRequest
<1>3. \A t \in Sessions : t # s => req'[t] = req[t]
    BY DEF TypeOK, RequestsOK, EndRequest
<1>4. req'[s].op = "idle"
    BY DEF TypeOK, RequestsOK, EndRequest, IdleRequest
<1> QED
    BY <1>2, <1>3, <1>4 DEF TypeOK, RequestsOK, RowsPersist

\* An idle worker has the type of a worker.
LEMMA IdleWorkerType == IdleWorker \in WorkerState
<1>1. 0 \in Tries
    BY BoundsAssumption DEF Tries
<1> QED
    BY <1>1 DEF IdleWorker, WorkerState

\* A worker that returns to its poll leaves the workers typed.
LEMMA EndWorkType ==
    ASSUME TypeOK, RowsPersist, NEW w \in Workers, EndWork(w)
    PROVE  WorkersOK'
<1>1. IdleWorker \in WorkerState
    BY IdleWorkerType
<1>2. wk' \in [Workers -> WorkerState]
    BY <1>1 DEF TypeOK, WorkersOK, EndWork, Move
<1>3. \A v \in Workers : v # w => wk'[v] = wk[v]
    BY DEF TypeOK, WorkersOK, EndWork, Move
<1>4. wk'[w].pc = "idle"
    BY DEF TypeOK, WorkersOK, EndWork, Move, IdleWorker
<1> QED
    BY <1>2, <1>3, <1>4 DEF TypeOK, WorkersOK, RowsPersist

\* A worker that moves on and keeps a row that exists.
LEMMA WorkerMovesType ==
    ASSUME TypeOK, RowsPersist, NEW w \in Workers, NEW u \in WorkerState,
           wk' = [wk EXCEPT ![w] = u], u.job \in Jobs, job'[u.job].status # Absent
    PROVE  WorkersOK'
<1>1. wk' \in [Workers -> WorkerState]
    BY DEF TypeOK, WorkersOK
<1>2. \A v \in Workers : v # w => wk'[v] = wk[v]
    BY DEF TypeOK, WorkersOK
<1>3. wk'[w] = u
    BY DEF TypeOK, WorkersOK
<1> QED
    BY <1>1, <1>2, <1>3 DEF TypeOK, WorkersOK, RowsPersist

\* A row that is rewritten in place.
LEMMA SetJobType ==
    ASSUME TypeOK, NEW j \in Jobs, NEW row \in JobRow, SetJob(j, row),
           row.status # Absent, row.doc \in Docs,
           job[j].status # Absent => row.doc = job[j].doc
    PROVE  /\ job' \in [Jobs -> JobRow]
           /\ \A i \in Jobs : job'[i].status # Absent => job'[i].doc \in Docs
           /\ job'[j] = row
           /\ RowsPersist
    BY DEF TypeOK, TablesOK, SetJob, RowsPersist

\* A step that leaves the job table alone keeps every row.
LEMMA SameRows ==
    ASSUME TypeOK, UNCHANGED job
    PROVE  RowsPersist
    BY DEF RowsPersist

USE DEF SetJob, Move

-----------------------------------------------------------------------------
(* Every step keeps the types.                                              *)

\* The steps of the API requests preserve the types.
LEMMA RequestTypes ==
    ASSUME TypeOK, NEW s \in Sessions, NewRequest(s) \/ RequestStep(s)
    PROVE  TypeOK'
<1>1. ASSUME NEW d \in Docs, CreateRead(s, d) PROVE TypeOK'
  <2>1. RowsPersist
    BY <1>1, SameRows DEF CreateRead
  <2>2. [IdleRequest EXCEPT !.op = "create", !.target = d, !.doc = doc[d].status]
            \in RequestState
    BY DEF TypeOK, TablesOK, RequestState, IdleRequest
  <2>3. RequestsOK'
    BY <1>1, <2>1, <2>2 DEF CreateRead, TypeOK, RequestsOK, RowsPersist, IdleRequest,
                            RequestState
  <2> QED
    BY <1>1, <2>1, <2>3, WorkersUnchanged DEF CreateRead, TypeOK, TablesOK
<1>2. CASE CreateCommit(s)
  <2>1. PICK j \in Jobs :
            /\ job[j].status = Absent
            /\ SetJob(j, [status |-> "queued", stage |-> "queued", worker |-> NoWorker,
                          attempts |-> 0, doc |-> req[s].target])
            /\ req' = [req EXCEPT ![s] = [IdleRequest EXCEPT !.op = "audit", !.job = j]]
    BY <1>2 DEF CreateCommit
  <2>2. req[s].target \in Docs
    BY <1>2 DEF CreateCommit, TypeOK, RequestsOK
  <2>3. [status |-> "queued", stage |-> "queued", worker |-> NoWorker,
         attempts |-> 0, doc |-> req[s].target] \in JobRow
    BY <2>2 DEF JobRow, JobStatus, Stages
  <2>4. /\ job' \in [Jobs -> JobRow] /\ RowsPersist /\ job'[j].status = "queued"
        /\ \A i \in Jobs : job'[i].status # Absent => job'[i].doc \in Docs
    BY <2>1, <2>2, <2>3, SetJobType
  <2>5. [IdleRequest EXCEPT !.op = "audit", !.job = j] \in RequestState
    BY DEF RequestState, IdleRequest
  <2>6. RequestsOK'
    BY <2>1, <2>4, <2>5 DEF TypeOK, RequestsOK, RowsPersist, IdleRequest, RequestState
  <2>7. doc' \in [Docs -> [status: DocStatus, parsed: BOOLEAN]]
    BY <1>2, <2>2 DEF CreateCommit, SetDoc, Flush, DocStatus, TypeOK, TablesOK
  <2>8. WorkersOK'
    BY <1>2, <2>4, WorkersUnchanged DEF CreateCommit
  <2> QED
    BY <1>2, <2>4, <2>6, <2>7, <2>8 DEF CreateCommit, TypeOK, TablesOK
<1>3. CASE CreateAudit(s)
  <2>1. RowsPersist
    BY <1>3, SameRows DEF CreateAudit
  <2>2. RequestsOK'
    BY <1>3, <2>1, EndRequestType DEF CreateAudit
  <2>3. WorkersOK'
    BY <1>3, <2>1, WorkersUnchanged DEF CreateAudit
  <2>4. req[s].job \in Jobs
    BY <1>3 DEF CreateAudit, TypeOK, RequestsOK
  <2>5. audit' \in [Jobs -> [Events -> Nat]]
    BY <1>3, <2>4, RecordType DEF CreateAudit, Events
  <2> QED
    BY <1>3, <2>2, <2>3, <2>5 DEF CreateAudit, TypeOK, TablesOK
<1>4. ASSUME NEW j \in Jobs, NEW op \in {"retry", "cancel"}, LoadJob(s, j, op),
             job[j].status # Absent,
             UNCHANGED <<job, doc, result, audit, wk, orphans, crashes>>
      PROVE  TypeOK'
  <2>1. RowsPersist
    BY <1>4, SameRows
  <2>2. job[j].doc \in Docs
    BY <1>4 DEF TypeOK, TablesOK
  <2>3. [op |-> op, job |-> j, target |-> job[j].doc, stage |-> job[j].stage,
         worker |-> job[j].worker, doc |-> doc[job[j].doc].status] \in RequestState
    BY <2>2 DEF TypeOK, TablesOK, JobRow, RequestState
  <2>4. RequestsOK'
    BY <1>4, <2>1, <2>2, <2>3 DEF LoadJob, TypeOK, RequestsOK, RowsPersist, RequestState
  <2>5. WorkersOK'
    BY <1>4, <2>1, WorkersUnchanged
  <2> QED
    BY <1>4, <2>4, <2>5 DEF TypeOK, TablesOK
<1>5. ASSUME NEW j \in Jobs, RetryRead(s, j) PROVE TypeOK'
    BY <1>4, <1>5 DEF RetryRead
<1>6. ASSUME NEW j \in Jobs, CancelRead(s, j) PROVE TypeOK'
    BY <1>4, <1>6 DEF CancelRead
<1>7. ASSUME RetryCommit(s) \/ CancelCommit(s) PROVE TypeOK'
  <2> DEFINE j == req[s].job
  <2>1. j \in Jobs /\ job[j].status # Absent /\ job[j].doc \in Docs
    BY <1>7 DEF RetryCommit, CancelCommit, TypeOK, RequestsOK, TablesOK
  <2>2. PICK st \in {"queued", "cancelled"} :
            SetJob(j, [job[j] EXCEPT !.status = st,
                                     !.stage = Flush(req[s].stage, st, @),
                                     !.worker = Flush(req[s].worker, NoWorker, @)])
    BY <1>7 DEF RetryCommit, CancelCommit
  <2>3. /\ Flush(req[s].stage, st, job[j].stage) \in Stages
        /\ Flush(req[s].worker, NoWorker, job[j].worker) \in Workers \cup {NoWorker}
        /\ job[j] \in JobRow
    BY <2>1 DEF TypeOK, TablesOK, JobRow, Flush, Stages
  <2>4. /\ job' \in [Jobs -> JobRow] /\ RowsPersist
        /\ \A i \in Jobs : job'[i].status # Absent => job'[i].doc \in Docs
    <3> DEFINE row == [job[j] EXCEPT !.status = st, !.stage = Flush(req[s].stage, st, @),
                                     !.worker = Flush(req[s].worker, NoWorker, @)]
    <3>1. row \in JobRow /\ row.status # Absent /\ row.doc = job[j].doc
      BY <2>1, <2>3 DEF JobRow, JobStatus
    <3>2. SetJob(j, row)
      BY <2>2
    <3> HIDE DEF row
    <3> QED
      BY <2>1, <3>1, <3>2, SetJobType
  <2>5. RequestsOK'
    BY <1>7, <2>4, EndRequestType DEF RetryCommit, CancelCommit
  <2>6. WorkersOK'
    BY <1>7, <2>4, WorkersUnchanged DEF RetryCommit, CancelCommit
  <2>7. audit' \in [Jobs -> [Events -> Nat]]
    BY <1>7, <2>1, RecordType DEF RetryCommit, CancelCommit, Events
  <2>8. doc' \in [Docs -> [status: DocStatus, parsed: BOOLEAN]]
    <3>1. req[s].target \in Docs
      BY <1>7 DEF RetryCommit, CancelCommit, TypeOK, RequestsOK
    <3>2. \E new \in DocStatus : SetDoc(req[s].target, new)
      BY <1>7, <3>1 DEF RetryCommit, CancelCommit, Flush, DocStatus, TypeOK, TablesOK
    <3> QED
      BY <3>1, <3>2, SetDocType
  <2> QED
    BY <1>7, <2>4, <2>5, <2>6, <2>7, <2>8 DEF RetryCommit, CancelCommit, TypeOK, TablesOK
<1>8. CASE DropRequest(s)
  <2>1. RowsPersist
    BY <1>8, SameRows DEF DropRequest
  <2> QED
    BY <1>8, <2>1, EndRequestType, WorkersUnchanged DEF DropRequest, TypeOK, TablesOK
<1> QED
    BY <1>1, <1>2, <1>3, <1>5, <1>6, <1>7, <1>8 DEF NewRequest, RequestStep

\* What a worker past its poll holds.
LEMMA WorkerHolds ==
    ASSUME TypeOK, NEW w \in Workers, wk[w].pc # "idle"
    PROVE  /\ wk[w].job \in Jobs /\ job[wk[w].job] \in JobRow
           /\ job[wk[w].job].status # Absent /\ job[wk[w].job].doc \in Docs
           /\ wk[w] \in WorkerState
           /\ doc[job[wk[w].job].doc].status \in DocStatus
    BY DEF TypeOK, TablesOK, WorkersOK, WorkerState

\* A step that rewrites columns of the job it holds, and keeps its document.
LEMMA RewriteType ==
    ASSUME TypeOK, NEW j \in Jobs, job[j].status # Absent,
           NEW st \in JobStatus \cup {Absent}, st # Absent, NEW sg \in Stages,
           SetJob(j, [job[j] EXCEPT !.status = st, !.stage = sg])
    PROVE  /\ job' \in [Jobs -> JobRow] /\ RowsPersist
           /\ \A i \in Jobs : job'[i].status # Absent => job'[i].doc \in Docs
<1> DEFINE row == [job[j] EXCEPT !.status = st, !.stage = sg]
<1>1. job[j] \in JobRow /\ job[j].doc \in Docs
    BY DEF TypeOK, TablesOK
<1>2. row \in JobRow /\ row.status = st /\ row.doc = job[j].doc
    BY <1>1 DEF JobRow
<1>3. SetJob(j, row)
    OBVIOUS
<1> HIDE DEF row
<1> QED
    BY <1>1, <1>2, <1>3, SetJobType

\* A claim of an existing job preserves the types.
LEMMA ClaimType ==
    ASSUME TypeOK, NEW w \in Workers, NEW j \in Jobs, job[j].status = "queued", Claim(w, j)
    PROVE  TypeOK'
<1> DEFINE row == ClaimedRow(w, j)
           u == [IdleWorker EXCEPT !.pc = "claimed", !.job = j,
                     !.stage = job[j].stage, !.doc = doc[job[j].doc].status]
<1>1. job[j] \in JobRow /\ job[j].doc \in Docs
    BY DEF TypeOK, TablesOK
<1>2. row \in JobRow /\ row.status = "running" /\ row.doc = job[j].doc
  <2> DEFINE n == job[j].attempts + 1
  <2>1. n \in Nat
    BY <1>1 DEF JobRow
  <2>2. row = [job[j] EXCEPT !.status = "running", !.worker = w, !.attempts = n]
    BY DEF ClaimedRow
  <2> HIDE DEF n, row
  <2> QED
    BY <1>1, <2>1, <2>2 DEF JobRow, JobStatus
<1>3. u \in WorkerState /\ u.job = j
  <2>1. IdleWorker \in WorkerState /\ job[j].stage \in Stages
        /\ doc[job[j].doc].status \in DocStatus
    BY <1>1, IdleWorkerType DEF JobRow, TypeOK, TablesOK
  <2> QED
    BY <1>1, <2>1 DEF WorkerState, Holding
<1>4. SetJob(j, row) /\ wk' = [wk EXCEPT ![w] = u]
    BY DEF Claim
<1> HIDE DEF row, u
<1>5. /\ job' \in [Jobs -> JobRow] /\ RowsPersist /\ job'[j] = row
      /\ \A i \in Jobs : job'[i].status # Absent => job'[i].doc \in Docs
    BY <1>1, <1>2, <1>4, SetJobType
<1>6. WorkersOK'
    BY <1>2, <1>3, <1>4, <1>5, WorkerMovesType
<1>7. RequestsOK'
    BY <1>5, RequestsUnchanged DEF Claim
<1> QED
    BY <1>5, <1>6, <1>7 DEF Claim, TypeOK, TablesOK

\* The steps of claim_next_job preserve the types.
LEMMA ClaimingTypes ==
    ASSUME TypeOK, NEW w \in Workers,
           ClaimPostgres(w) \/ SelectCandidate(w) \/ ClaimSqlite(w) \/ ClaimMissed(w)
    PROVE  TypeOK'
<1>1. CASE ClaimPostgres(w)
    BY <1>1, ClaimType DEF ClaimPostgres, Oldest
<1>2. CASE ClaimSqlite(w)
    BY <1>2, ClaimType, WorkerHolds DEF ClaimSqlite
<1>3. ASSUME NEW j \in Jobs, Oldest(j), NEW u \in WorkerState, u.job = j,
             wk' = [wk EXCEPT ![w] = u],
             UNCHANGED <<job, doc, result, audit, req, orphans, crashes>>
      PROVE  TypeOK'
  <2>1. RowsPersist /\ job'[j].status # Absent
    BY <1>3, SameRows DEF Oldest
  <2>2. WorkersOK'
    BY <1>3, <2>1, WorkerMovesType
  <2> QED
    BY <1>3, <2>1, <2>2, RequestsUnchanged DEF TypeOK, TablesOK
<1>4. CASE SelectCandidate(w)
  <2>1. PICK j \in Jobs :
            /\ Oldest(j)
            /\ Move(w, [IdleWorker EXCEPT !.pc = "selected", !.job = j, !.tries = 1])
    BY <1>4 DEF SelectCandidate
  <2> DEFINE u == [IdleWorker EXCEPT !.pc = "selected", !.job = j, !.tries = 1]
  <2>2. u \in WorkerState /\ u.job = j
    <3>1. 1 \in Tries
      BY BoundsAssumption DEF Tries
    <3> QED
      BY <3>1, IdleWorkerType DEF WorkerState
  <2>3. wk' = [wk EXCEPT ![w] = u]
    BY <2>1
  <2> HIDE DEF u
  <2> QED
    BY <1>3, <1>4, <2>1, <2>2, <2>3 DEF SelectCandidate
<1>5. CASE ClaimMissed(w)
  <2>1. ASSUME NEW j \in Jobs, Oldest(j), wk[w].tries < ClaimTries,
               Move(w, [wk[w] EXCEPT !.job = j, !.tries = @ + 1])
        PROVE  TypeOK'
    <3> DEFINE u == [wk[w] EXCEPT !.job = j, !.tries = @ + 1]
    <3>1. u \in WorkerState /\ u.job = j
      <4> DEFINE n == wk[w].tries + 1
      <4>1. wk[w] \in WorkerState /\ wk[w].tries \in Tries
        BY DEF TypeOK, WorkersOK, WorkerState
      <4>2. n \in Tries
        BY <2>1, <4>1, BoundsAssumption DEF Tries
      <4>3. u = [wk[w] EXCEPT !.job = j, !.tries = n]
        OBVIOUS
      <4> HIDE DEF n, u
      <4> QED
        BY <4>1, <4>2, <4>3 DEF WorkerState
    <3>2. wk' = [wk EXCEPT ![w] = u]
      BY <2>1
    <3> HIDE DEF u
    <3> QED
      BY <1>3, <1>5, <2>1, <3>1, <3>2 DEF ClaimMissed
  <2>2. ASSUME EndWork(w) PROVE TypeOK'
    BY <1>5, <2>2, EndWorkType, SameRows, RequestsUnchanged
       DEF ClaimMissed, TypeOK, TablesOK
  <2> QED
    BY <1>5, <2>1, <2>2 DEF ClaimMissed
<1> QED
    BY <1>1, <1>2, <1>4, <1>5

\* A step of a worker that rewrites its job's row, moves on to the state u and
\* leaves the requests alone.
LEMMA WorkType ==
    ASSUME TypeOK, NEW w \in Workers, wk[w].pc # "idle",
           NEW u \in WorkerState, wk' = [wk EXCEPT ![w] = u],
           u.job = wk[w].job \/ u = IdleWorker,
           /\ job' \in [Jobs -> JobRow] /\ RowsPersist
           /\ \A i \in Jobs : job'[i].status # Absent => job'[i].doc \in Docs,
           doc' \in [Docs -> [status: DocStatus, parsed: BOOLEAN]],
           result' \in [Jobs -> BOOLEAN],
           audit' \in [Jobs -> [Events -> Nat]],
           orphans' \in SUBSET (Jobs \X Workers),
           crashes' \in Nat,
           UNCHANGED req
    PROVE  TypeOK'
<1>1. RequestsOK'
    BY RequestsUnchanged
<1>2. CASE u = IdleWorker
    BY <1>1, <1>2, EndWorkType DEF EndWork, TypeOK, TablesOK
<1>3. CASE u.job = wk[w].job
  <2>1. wk[w].job \in Jobs /\ job'[u.job].status # Absent
    BY <1>3, WorkerHolds DEF RowsPersist
  <2>2. WorkersOK'
    BY <1>3, <2>1, WorkerMovesType
  <2> QED
    BY <1>1, <2>2 DEF TypeOK, TablesOK
<1> QED
    BY <1>2, <1>3

\* The steps of process_once preserve the types.
LEMMA WorkingTypes ==
    ASSUME TypeOK, NEW w \in Workers,
           \/ Start(w) \/ ParseDone(w) \/ ReportParsing(w) \/ Report(w) \/ FinalCheck(w)
           \/ Complete(w) \/ ReportCompleted(w) \/ Raise(w) \/ FailCommit(w) \/ Finalize(w)
    PROVE  TypeOK'
<1> DEFINE j == wk[w].job
           d == job[j].doc
<1>0. wk[w].pc # "idle"
    BY DEF Start, ParseDone, ReportParsing, Report, ReportedStage, FinalCheck, Complete,
           ReportCompleted, Raise, Executing, FailCommit, Finalize
<1>1. /\ j \in Jobs /\ job[j] \in JobRow /\ job[j].status # Absent /\ d \in Docs
      /\ job[j].status \in JobStatus \cup {Absent} /\ job[j].stage \in Stages
      /\ doc[d].status \in DocStatus /\ wk[w] \in WorkerState
    BY <1>0, WorkerHolds DEF JobRow
<1>t. /\ job \in [Jobs -> JobRow]
      /\ \A i \in Jobs : job[i].status # Absent => job[i].doc \in Docs
      /\ doc \in [Docs -> [status: DocStatus, parsed: BOOLEAN]]
      /\ result \in [Jobs -> BOOLEAN] /\ audit \in [Jobs -> [Events -> Nat]]
      /\ orphans \in SUBSET (Jobs \X Workers) /\ crashes \in Nat
    BY DEF TypeOK, TablesOK
\* The two shapes of a step: the row of the job stays, or it is rewritten.
<1>a. ASSUME UNCHANGED <<job, req, orphans, crashes>>, NEW u \in WorkerState, Move(w, u),
             u.job = j \/ u = IdleWorker,
             doc' \in [Docs -> [status: DocStatus, parsed: BOOLEAN]],
             UNCHANGED <<result, audit>>
      PROVE  TypeOK'
  <2>1. RowsPersist
    BY <1>a, SameRows
  <2> QED
    BY <1>0, <1>t, <1>a, <2>1, WorkType
<1>b. ASSUME NEW st \in JobStatus \cup {Absent}, st # Absent, NEW sg \in Stages,
             SetJob(j, [job[j] EXCEPT !.status = st, !.stage = sg]),
             UNCHANGED <<req, orphans, crashes>>, NEW u \in WorkerState, Move(w, u),
             u.job = j \/ u = IdleWorker,
             doc' \in [Docs -> [status: DocStatus, parsed: BOOLEAN]],
             result' \in [Jobs -> BOOLEAN], audit' \in [Jobs -> [Events -> Nat]]
      PROVE  TypeOK'
  <2>1. /\ job' \in [Jobs -> JobRow] /\ RowsPersist
        /\ \A i \in Jobs : job'[i].status # Absent => job'[i].doc \in Docs
    BY <1>1, <1>b, RewriteType
  <2> QED
    BY <1>0, <1>t, <1>b, <2>1, WorkType
<1>2. CASE Start(w)
  <2> DEFINE st == Flush(wk[w].doc, "processing", doc[d].status)
             sg == Flush(wk[w].stage, "parsing", job[j].stage)
             u == [wk[w] EXCEPT !.pc = "parsing", !.stage = Expired, !.doc = st]
  <2>1. st \in DocStatus /\ sg \in Stages
    BY <1>1 DEF Flush, DocStatus, Stages
  <2>2. SetDoc(d, st) /\ Move(w, u) /\ SetJob(j, [job[j] EXCEPT !.stage = sg])
    BY <1>2 DEF Start
  <2> HIDE DEF st, sg
  <2>3. u \in WorkerState /\ u.job = j
    BY <1>1, <2>1 DEF WorkerState, Holding
  <2>4. SetJob(j, [job[j] EXCEPT !.status = job[j].status, !.stage = sg])
    BY <1>1, <2>2 DEF JobRow
  <2>5. doc' \in [Docs -> [status: DocStatus, parsed: BOOLEAN]]
    BY <1>1, <2>1, <2>2, SetDocType
  <2> HIDE DEF u, j
  <2> QED
    BY <1>b, <1>1, <1>2, <1>t, <2>1, <2>2, <2>3, <2>4, <2>5 DEF Start
<1>3. CASE ParseDone(w)
  <2> DEFINE u == IF job[j].status = "cancelled"
                  THEN [wk[w] EXCEPT !.pc = "finalizing", !.doc = Expired]
                  ELSE [wk[w] EXCEPT !.pc = "checked", !.stage = job[j].stage,
                                     !.doc = doc[d].status]
  <2>1. u \in WorkerState /\ u.job = j
    BY <1>1 DEF WorkerState, Holding, Executing
  <2>2. Move(w, u)
    BY <1>3 DEF ParseDone
  <2>3. doc' \in [Docs -> [status: DocStatus, parsed: BOOLEAN]]
    BY <1>1, <1>3, <1>t DEF ParseDone
  <2> HIDE DEF u, j
  <2> QED
    BY <1>3, <1>a, <2>1, <2>2, <2>3 DEF ParseDone
<1>4. CASE ReportParsing(w)
  <2> DEFINE sg == Flush(wk[w].stage, "parsing", job[j].stage)
             u == [wk[w] EXCEPT !.pc = "redacting", !.stage = Expired, !.doc = Expired]
  <2>1. sg \in Stages
    BY <1>1 DEF Flush, Stages
  <2>2. Move(w, u) /\ SetJob(j, [job[j] EXCEPT !.stage = sg])
    BY <1>4 DEF ReportParsing
  <2> HIDE DEF sg
  <2>3. u \in WorkerState /\ u.job = j
    BY <1>1 DEF WorkerState, Holding, Executing
  <2>4. SetJob(j, [job[j] EXCEPT !.status = job[j].status, !.stage = sg])
    BY <1>1, <2>2 DEF JobRow
  <2> HIDE DEF u, j
  <2> QED
    BY <1>b, <1>1, <1>4, <1>t, <2>1, <2>2, <2>3, <2>4 DEF ReportParsing
<1>5. CASE Report(w)
  <2>1. PICK sg \in {"extracting", "validating", "calculating"} :
            /\ SetJob(j, [job[j] EXCEPT !.stage = sg])
            /\ Move(w, [wk[w] EXCEPT !.pc = sg])
    <3>1. wk[w].pc \in {"redacting", "extracting", "validating"}
      BY <1>5 DEF Report, ReportedStage
    <3>2. ReportedStage[wk[w].pc] \in {"extracting", "validating", "calculating"}
      BY <3>1 DEF ReportedStage
    <3> QED
      BY <1>5, <3>2 DEF Report
  <2> DEFINE u == [wk[w] EXCEPT !.pc = sg]
  <2>2. sg \in Stages /\ u \in WorkerState /\ u.job = j /\ Move(w, u)
    BY <1>1, <2>1 DEF WorkerState, Holding, Executing, Stages
  <2>3. SetJob(j, [job[j] EXCEPT !.status = job[j].status, !.stage = sg])
    BY <1>1, <2>1 DEF JobRow
  <2> HIDE DEF u, j
  <2> QED
    BY <1>b, <1>1, <1>5, <1>t, <2>2, <2>3 DEF Report
<1>6. CASE FinalCheck(w)
  <2> DEFINE u == IF job[j].status = "cancelled"
                  THEN [wk[w] EXCEPT !.pc = "finalizing"]
                  ELSE [wk[w] EXCEPT !.pc = "completing", !.status = job[j].status,
                                     !.stage = job[j].stage, !.had = result[j]]
  <2>1. u \in WorkerState /\ u.job = j
    BY <1>1, <1>t DEF WorkerState, Holding
  <2>2. Move(w, u)
    BY <1>6 DEF FinalCheck
  <2> HIDE DEF u, j
  <2> QED
    BY <1>6, <1>a, <1>t, <2>1, <2>2 DEF FinalCheck
<1>7. CASE Complete(w)
  <2> DEFINE st == Flush(wk[w].status, "completed", job[j].status)
             sg == Flush(wk[w].stage, "completed", job[j].stage)
             u == [wk[w] EXCEPT !.pc = "reporting", !.status = Expired,
                      !.stage = Expired, !.doc = "completed", !.had = FALSE]
  <2>1. st \in JobStatus \cup {Absent} /\ st # Absent /\ sg \in Stages
    BY <1>1 DEF Flush, Stages, JobStatus
  <2>2. Move(w, u) /\ SetJob(j, [job[j] EXCEPT !.status = st, !.stage = sg])
    BY <1>7 DEF Complete
  <2> HIDE DEF st, sg
  <2>3. u \in WorkerState /\ u.job = j
    BY <1>1 DEF WorkerState, Holding, DocStatus
  <2>4. doc' \in [Docs -> [status: DocStatus, parsed: BOOLEAN]]
    BY <1>1, <1>7, SetDocType DEF Complete, DocStatus
  <2>5. audit' \in [Jobs -> [Events -> Nat]]
    BY <1>1, <1>7, RecordType DEF Complete, Events
  <2>6. result' \in [Jobs -> BOOLEAN]
    BY <1>1, <1>7, <1>t DEF Complete
  <2> HIDE DEF u, j
  <2> QED
    BY <1>b, <1>7, <2>1, <2>2, <2>3, <2>4, <2>5, <2>6 DEF Complete
<1>8. CASE ReportCompleted(w)
    BY <1>8, <1>a, <1>t, IdleWorkerType DEF ReportCompleted, EndWork
<1>9. CASE Raise(w)
  <2> DEFINE u == IF job[j].status = "cancelled"
                  THEN [wk[w] EXCEPT !.pc = "finalizing", !.stage = Expired]
                  ELSE [wk[w] EXCEPT !.pc = "failing", !.status = job[j].status,
                                     !.stage = job[j].stage]
  <2>1. u \in WorkerState /\ u.job = j
    BY <1>1 DEF WorkerState, Holding
  <2>2. Move(w, u)
    BY <1>9 DEF Raise
  <2> HIDE DEF u, j
  <2> QED
    BY <1>9, <1>a, <1>t, <2>1, <2>2 DEF Raise
<1>10. CASE FailCommit(w)
  <2> DEFINE st == Flush(wk[w].status, "failed", job[j].status)
             sg == Flush(wk[w].stage, "failed", job[j].stage)
  <2>1. st \in JobStatus \cup {Absent} /\ st # Absent /\ sg \in Stages
    BY <1>1 DEF Flush, Stages, JobStatus
  <2>2. Move(w, IdleWorker) /\ SetJob(j, [job[j] EXCEPT !.status = st, !.stage = sg])
    BY <1>10 DEF FailCommit, FailedRow, EndWork
  <2> HIDE DEF st, sg
  <2>3. doc' \in [Docs -> [status: DocStatus, parsed: BOOLEAN]]
    <3>1. Flush(wk[w].doc, "failed", doc[d].status) \in DocStatus
      BY <1>1 DEF Flush, DocStatus
    <3> QED
      BY <1>1, <1>10, <3>1, SetDocType DEF FailCommit
  <2>4. audit' \in [Jobs -> [Events -> Nat]]
    BY <1>1, <1>10, RecordType DEF FailCommit, Events
  <2> HIDE DEF j
  <2> QED
    BY <1>b, <1>10, <1>t, <2>1, <2>2, <2>3, <2>4, IdleWorkerType DEF FailCommit
<1>11. CASE Finalize(w)
  <2>1. doc' \in [Docs -> [status: DocStatus, parsed: BOOLEAN]]
    <3>1. Flush(wk[w].doc, "uploaded", doc[d].status) \in DocStatus
      BY <1>1 DEF Flush, DocStatus
    <3> QED
      BY <1>1, <1>11, <3>1, SetDocType DEF Finalize
  <2> QED
    BY <1>11, <1>a, <2>1, IdleWorkerType DEF Finalize, EndWork
<1> QED
    BY <1>2, <1>3, <1>4, <1>5, <1>6, <1>7, <1>8, <1>9, <1>10, <1>11

\* A dying worker preserves the types.
LEMMA DyingTypes ==
    ASSUME TypeOK, NEW w \in Workers, Crash(w) \/ CompleteConflict(w)
    PROVE  TypeOK'
<1>1. wk[w].pc # "idle" /\ wk[w].job \in Jobs
    BY WorkerHolds DEF Crash, CompleteConflict
<1>2. Die(w) /\ RowsPersist
    BY SameRows DEF Crash, CompleteConflict, Die
<1>3. WorkersOK' /\ RequestsOK'
    BY <1>2, EndWorkType, RequestsUnchanged DEF Die
<1>4. orphans' \in SUBSET (Jobs \X Workers)
    BY <1>1, <1>2 DEF Die, TypeOK, TablesOK
<1>5. crashes' \in Nat
    BY DEF Crash, CompleteConflict, TypeOK, TablesOK
<1> QED
    BY <1>2, <1>3, <1>4, <1>5 DEF Die, TypeOK, TablesOK

\* A step that changes nothing preserves the types.
LEMMA StutterTypes ==
    ASSUME TypeOK, UNCHANGED vars
    PROVE  TypeOK'
    BY DEF TypeOK, TablesOK, WorkersOK, RequestsOK, vars

\* The initial tables, workers and requests are typed.
LEMMA InitTypes == Init => TypeOK
<1> SUFFICES ASSUME Init PROVE TypeOK
    OBVIOUS
<1>1. IdleRequest \in RequestState /\ IdleRequest.op = "idle"
    BY DEF IdleRequest, RequestState
<1>2. IdleWorker.pc = "idle"
    BY DEF IdleWorker
<1>3. TablesOK
  <2>1. [status |-> Absent, stage |-> "queued", worker |-> NoWorker, attempts |-> 0,
         doc |-> NoDoc] \in JobRow
    BY DEF JobRow, Stages
  <2>2. job \in [Jobs -> JobRow] /\ \A j \in Jobs : job[j].status = Absent
    BY <2>1 DEF Init
  <2> QED
    BY <2>2 DEF Init, TablesOK, DocStatus
<1> QED
    BY <1>1, <1>2, <1>3, IdleWorkerType DEF Init, TypeOK, WorkersOK, RequestsOK

\* Every step preserves the types.
LEMMA NextTypes == TypeOK /\ [Next]_vars => TypeOK'
<1> SUFFICES ASSUME TypeOK, [Next]_vars PROVE TypeOK'
    OBVIOUS
<1>1. ASSUME NEW w \in Workers, PollEmpty(w) PROVE TypeOK'
    BY <1>1, StutterTypes DEF PollEmpty
<1> QED
    BY <1>1, RequestTypes, ClaimingTypes, WorkingTypes, DyingTypes, StutterTypes
       DEF Next, WorkerStep

\* Every table, worker and request keeps its type: no interleaving of API
\* requests, workers and crashes of them leads a worker or a request to a row
\* that does not exist.
THEOREM TypeCorrect == Spec => []TypeOK
    BY InitTypes, NextTypes, PTL DEF Spec

-----------------------------------------------------------------------------
(* Claims never outnumber enqueues.                                         *)

\* What an audit event adds.
LEMMA RecordCounts ==
    ASSUME TypeOK, NEW j \in Jobs, NEW e \in Events, Record(j, e)
    PROVE  \A i \in Jobs, f \in Events :
               audit'[i][f] = IF i = j /\ f = e THEN audit[i][f] + 1 ELSE audit[i][f]
    BY DEF TypeOK, TablesOK, Record

\* The statement for one job, over the values it depends on.
Balanced(attempts, status, retried) ==
    attempts + (IF status = "queued" THEN 1 ELSE 0) <= 1 + retried

\* Every step keeps claims and enqueues balanced.
LEMMA ClaimedOnceStep ==
    ASSUME TypeOK, ClaimedOncePerEnqueue, [Next]_vars
    PROVE  ClaimedOncePerEnqueue'
<1> SUFFICES ASSUME NEW i \in Jobs
             PROVE  Balanced(job'[i].attempts, job'[i].status, audit'[i]["job.retried"])
    BY DEF ClaimedOncePerEnqueue, Balanced
<1>1. /\ Balanced(job[i].attempts, job[i].status, audit[i]["job.retried"])
      /\ job[i].attempts \in Nat /\ audit[i]["job.retried"] \in Nat /\ job[i] \in JobRow
    BY DEF ClaimedOncePerEnqueue, Balanced, TypeOK, TablesOK, JobRow, Events
<1> DEFINE Same == /\ job'[i].attempts = job[i].attempts
                   /\ job'[i].status = job[i].status \/ job'[i].status # "queued"
                   /\ audit'[i]["job.retried"] = audit[i]["job.retried"]
<1>2. ASSUME Same PROVE Balanced(job'[i].attempts, job'[i].status, audit'[i]["job.retried"])
    BY <1>1, <1>2 DEF Balanced
<1>3. ASSUME UNCHANGED <<job, audit>>
      PROVE  Balanced(job'[i].attempts, job'[i].status, audit'[i]["job.retried"])
    BY <1>1, <1>3
<1>4. ASSUME NEW s \in Sessions, CreateCommit(s) PROVE
          Balanced(job'[i].attempts, job'[i].status, audit'[i]["job.retried"])
  <2>1. job'[i] = job[i] \/ (job'[i].attempts = 0 /\ job'[i].status = "queued")
    BY <1>4 DEF CreateCommit, TypeOK, TablesOK
  <2>2. audit' = audit
    BY <1>4 DEF CreateCommit
  <2> QED
    BY <1>1, <2>1, <2>2 DEF Balanced
<1>5. ASSUME NEW s \in Sessions, CreateAudit(s) PROVE Same
  <2>1. req[s].job \in Jobs /\ job' = job
    BY <1>5 DEF CreateAudit, TypeOK, RequestsOK
  <2> QED
    BY <1>5, <2>1, RecordCounts DEF CreateAudit, Events
<1>6. ASSUME NEW s \in Sessions, RetryCommit(s) PROVE
          Balanced(job'[i].attempts, job'[i].status, audit'[i]["job.retried"])
  <2>1. req[s].job \in Jobs /\ job[req[s].job] \in JobRow
    BY <1>6 DEF RetryCommit, TypeOK, RequestsOK, TablesOK
  <2>2. i # req[s].job => job'[i] = job[i]
    BY <1>6, <2>1 DEF RetryCommit, TypeOK, TablesOK
  <2>3. i = req[s].job => job'[i].attempts = job[i].attempts
    BY <1>6, <2>1 DEF RetryCommit, TypeOK, TablesOK, JobRow
  <2>4. audit'[i]["job.retried"] =
            IF i = req[s].job THEN audit[i]["job.retried"] + 1 ELSE audit[i]["job.retried"]
    BY <1>6, <2>1, RecordCounts DEF RetryCommit, Events
  <2> QED
    BY <1>1, <2>2, <2>3, <2>4 DEF Balanced
<1>7. ASSUME NEW s \in Sessions, CancelCommit(s) PROVE Same
  <2>1. req[s].job \in Jobs /\ job[req[s].job] \in JobRow
    BY <1>7 DEF CancelCommit, TypeOK, RequestsOK, TablesOK
  <2>2. i # req[s].job => job'[i] = job[i]
    BY <1>7, <2>1 DEF CancelCommit, TypeOK, TablesOK
  <2>3. i = req[s].job => job'[i].attempts = job[i].attempts /\ job'[i].status = "cancelled"
    BY <1>7, <2>1 DEF CancelCommit, TypeOK, TablesOK, JobRow
  <2>4. audit'[i]["job.retried"] = audit[i]["job.retried"]
    BY <1>7, <2>1, RecordCounts DEF CancelCommit, Events
  <2> QED
    BY <2>2, <2>3, <2>4
<1>8. ASSUME NEW w \in Workers, NEW j \in Jobs, job[j].status = "queued", Claim(w, j)
      PROVE  Balanced(job'[i].attempts, job'[i].status, audit'[i]["job.retried"])
  <2>1. i # j => job'[i] = job[i]
    BY <1>8 DEF Claim, TypeOK, TablesOK
  <2>2. i = j => job'[i].attempts = job[i].attempts + 1 /\ job'[i].status = "running"
    BY <1>8, <1>1 DEF Claim, ClaimedRow, TypeOK, TablesOK, JobRow
  <2>3. audit' = audit
    BY <1>8 DEF Claim
  <2> QED
    BY <1>1, <1>8, <2>1, <2>2, <2>3 DEF Balanced
<1>9. ASSUME NEW w \in Workers, Start(w) \/ ReportParsing(w) \/ Report(w) PROVE Same
  <2>1. wk[w].job \in Jobs /\ audit' = audit
    BY <1>9, WorkerHolds DEF Start, ReportParsing, Report, ReportedStage
  <2>2. PICK sg : job' = [job EXCEPT ![wk[w].job] = [job[wk[w].job] EXCEPT !.stage = sg]]
    BY <1>9 DEF Start, ReportParsing, Report
  <2> QED
    BY <1>1, <2>1, <2>2 DEF TypeOK, TablesOK, JobRow
<1>10. ASSUME NEW w \in Workers, Complete(w) \/ FailCommit(w) PROVE Same
  <2>1. wk[w].job \in Jobs /\ job[wk[w].job] \in JobRow
    BY <1>10, WorkerHolds DEF Complete, FailCommit
  <2>a. PICK new \in {"completed", "failed"} : \E sg :
            job' = [job EXCEPT ![wk[w].job] = [job[wk[w].job] EXCEPT
                           !.status = Flush(wk[w].status, new, @), !.stage = sg]]
    <3>1. CASE Complete(w)
      BY <3>1 DEF Complete
    <3>2. CASE FailCommit(w)
      BY <3>2 DEF FailCommit, FailedRow
    <3> QED BY <1>10, <3>1, <3>2
  <2>2. PICK sg :
            job' = [job EXCEPT ![wk[w].job] = [job[wk[w].job] EXCEPT
                           !.status = Flush(wk[w].status, new, @), !.stage = sg]]
    BY <2>a
  <2>3. i # wk[w].job => job'[i] = job[i]
    BY <2>1, <2>2 DEF TypeOK, TablesOK
  <2>4. i = wk[w].job => /\ job'[i].attempts = job[i].attempts
                         /\ job'[i].status = job[i].status \/ job'[i].status # "queued"
    BY <2>1, <2>2 DEF TypeOK, TablesOK, JobRow, Flush
  <2>5. audit'[i]["job.retried"] = audit[i]["job.retried"]
    <3>1. PICK e \in {"job.completed", "job.failed"} : Record(wk[w].job, e)
      BY <1>10 DEF Complete, FailCommit
    <3>2. e \in Events /\ "job.retried" \in Events /\ e # "job.retried"
      BY DEF Events
    <3> QED BY <2>1, <3>1, <3>2, RecordCounts
  <2> QED
    BY <2>3, <2>4, <2>5
<1>11. CASE UNCHANGED vars
    BY <1>3, <1>11 DEF vars
<1>12. ASSUME NEW s \in Sessions, NewRequest(s) \/ RequestStep(s)
       PROVE  Balanced(job'[i].attempts, job'[i].status, audit'[i]["job.retried"])
    BY <1>12, <1>2, <1>3, <1>4, <1>5, <1>6, <1>7
       DEF NewRequest, RequestStep, CreateRead, RetryRead, CancelRead, DropRequest
<1>13. ASSUME NEW w \in Workers, WorkerStep(w) \/ Crash(w)
       PROVE  Balanced(job'[i].attempts, job'[i].status, audit'[i]["job.retried"])
  <2>1. CASE ClaimPostgres(w) \/ ClaimSqlite(w)
    BY <2>1, <1>8, WorkerHolds DEF ClaimPostgres, ClaimSqlite, Oldest
  <2>2. CASE \/ SelectCandidate(w) \/ ClaimMissed(w) \/ PollEmpty(w) \/ ParseDone(w)
             \/ FinalCheck(w) \/ ReportCompleted(w) \/ Raise(w) \/ Finalize(w)
             \/ Crash(w) \/ CompleteConflict(w)
    BY <2>2, <1>3 DEF SelectCandidate, ClaimMissed, PollEmpty, ParseDone, FinalCheck,
           ReportCompleted, Raise, Finalize, Crash, CompleteConflict, Die, vars
  <2> QED
    BY <1>13, <2>1, <2>2, <1>2, <1>9, <1>10 DEF WorkerStep
<1> QED
    BY <1>11, <1>12, <1>13 DEF Next

\* For any number of workers, on either database, a job is claimed at most
\* once for each time it was enqueued.
THEOREM ClaimsMatchEnqueues == Spec => []ClaimedOncePerEnqueue
<1>1. Init => ClaimedOncePerEnqueue
    BY DEF Init, ClaimedOncePerEnqueue, Events
<1>2. TypeOK /\ ClaimedOncePerEnqueue /\ [Next]_vars => ClaimedOncePerEnqueue'
    BY ClaimedOnceStep
<1> QED
    BY <1>1, <1>2, TypeCorrect, PTL DEF Spec

-----------------------------------------------------------------------------
(* A running job has its owner.  The invariant is strengthened: the owner   *)
(* will still write the job's status, because it has not read, since its    *)
(* claim, a status that makes its own outcome no change.                    *)

Works(w, j) ==
    /\ wk[w].pc \in Holding \ {"finalizing", "reporting"}
    /\ wk[w].job = j
    /\ wk[w].pc \in {"completing", "failing"} => wk[w].status = "running"

RunningJobIsWorked ==
    \A j \in Jobs : job[j].status = "running" =>
        \E w \in Workers : job[j].worker = w /\ (Works(w, j) \/ <<j, w>> \in orphans)

\* The requests: none makes a job running.
LEMMA RequestKeepsOwner ==
    ASSUME TypeOK, RunningJobIsWorked, NEW s \in Sessions, NewRequest(s) \/ RequestStep(s)
    PROVE  RunningJobIsWorked'
<1>1. UNCHANGED <<wk, orphans>>
    BY DEF NewRequest, RequestStep, CreateRead, RetryRead, CancelRead, DropRequest,
           CreateCommit, CreateAudit, RetryCommit, CancelCommit
<1>2. ASSUME NEW i \in Jobs, job'[i].status = "running"
      PROVE  job[i] = job'[i]
  <2>1. CASE CreateCommit(s)
    BY <1>2, <2>1 DEF CreateCommit, TypeOK, TablesOK
  <2>2. CASE RetryCommit(s) \/ CancelCommit(s)
    <3>1. req[s].job \in Jobs /\ job[req[s].job] \in JobRow
      BY <2>2 DEF RetryCommit, CancelCommit, TypeOK, RequestsOK, TablesOK
    <3>2. i # req[s].job => job'[i] = job[i]
      BY <2>2, <3>1 DEF RetryCommit, CancelCommit, TypeOK, TablesOK
    <3>3. job'[req[s].job].status \in {"queued", "cancelled"}
      <4>1. CASE RetryCommit(s)
        BY <4>1, <3>1 DEF RetryCommit, TypeOK, TablesOK, JobRow
      <4>2. CASE CancelCommit(s)
        BY <4>2, <3>1 DEF CancelCommit, TypeOK, TablesOK, JobRow
      <4> QED
        BY <2>2, <4>1, <4>2
    <3> QED
      BY <1>2, <3>2, <3>3
  <2> QED
    BY <2>1, <2>2 DEF NewRequest, RequestStep, CreateRead, RetryRead, CancelRead,
                      DropRequest, CreateAudit
<1> QED
    BY <1>1, <1>2 DEF RunningJobIsWorked, Works

\* A claim makes its worker the owner and takes no other job from its owner.
LEMMA ClaimKeepsOwner ==
    ASSUME TypeOK, RunningJobIsWorked, NEW w \in Workers, NEW j \in Jobs,
           wk[w].pc \in {"idle", "selected"}, Claim(w, j)
    PROVE  RunningJobIsWorked'
<1>1. job[j] \in JobRow
    BY DEF TypeOK, TablesOK
<1>2. job'[j].worker = w
    BY <1>1 DEF Claim, ClaimedRow, TypeOK, TablesOK, JobRow
<1>3. wk'[w].pc = "claimed" /\ wk'[w].job = j
    BY DEF Claim, TypeOK, WorkersOK, IdleWorker
<1>4. Works(w, j)'
    BY <1>3 DEF Works, Holding
<1>5. \A v \in Workers : v # w => wk'[v] = wk[v]
    BY DEF Claim, TypeOK, WorkersOK
<1>6. \A i \in Jobs : ~Works(w, i)
    BY DEF Works, Holding, Executing
<1>7. ASSUME NEW i \in Jobs, i # j, job'[i].status = "running"
      PROVE  \E v \in Workers : job'[i].worker = v /\ (Works(v, i)' \/ <<i, v>> \in orphans')
  <2>1. job'[i] = job[i]
    BY <1>7 DEF Claim, TypeOK, TablesOK
  <2>2. PICK v \in Workers : job[i].worker = v /\ (Works(v, i) \/ <<i, v>> \in orphans)
    BY <1>7, <2>1 DEF RunningJobIsWorked
  <2>3. <<i, v>> \in orphans => <<i, v>> \in orphans'
    BY <1>7 DEF Claim
  <2>4. Works(v, i) => Works(v, i)'
    BY <1>5, <1>6 DEF Works
  <2> QED
    BY <2>1, <2>2, <2>3, <2>4
<1> QED
    BY <1>2, <1>4, <1>7 DEF RunningJobIsWorked

\* A step of w that makes no job running and that, while its own job stays
\* running, keeps w working on it.
LEMMA WorkKeepsOwner ==
    ASSUME TypeOK, RunningJobIsWorked, NEW w \in Workers,
           \A v \in Workers : v # w => wk'[v] = wk[v],
           orphans \subseteq orphans',
           \A i \in Jobs : job'[i].status = "running" =>
               job[i].status = "running" /\ job'[i].worker = job[i].worker,
           \A i \in Jobs : Works(w, i) /\ job'[i].status = "running" =>
               Works(w, i)' \/ <<i, w>> \in orphans'
    PROVE  RunningJobIsWorked'
<1> SUFFICES ASSUME NEW i \in Jobs, job'[i].status = "running"
             PROVE  \E v \in Workers :
                        job'[i].worker = v /\ (Works(v, i)' \/ <<i, v>> \in orphans')
    BY DEF RunningJobIsWorked
<1>1. PICK v \in Workers : job[i].worker = v /\ (Works(v, i) \/ <<i, v>> \in orphans)
    BY DEF RunningJobIsWorked
<1>2. v # w /\ Works(v, i) => Works(v, i)'
    BY DEF Works
<1> QED
    BY <1>1, <1>2

\* Every step of a worker, its death included, leaves running jobs with their owners.
LEMMA WorkerKeepsOwner ==
    ASSUME TypeOK, RunningJobIsWorked, NEW w \in Workers, WorkerStep(w) \/ Crash(w)
    PROVE  RunningJobIsWorked'
<1> DEFINE j == wk[w].job
           Others == \A v \in Workers : v # w => wk'[v] = wk[v]
           Rows == \A i \in Jobs : job'[i].status = "running" =>
                       job[i].status = "running" /\ job'[i].worker = job[i].worker
           Stays == \A i \in Jobs : Works(w, i) /\ job'[i].status = "running" =>
                       Works(w, i)' \/ <<i, w>> \in orphans'
<1>q. ASSUME orphans \subseteq orphans', Others, Rows, Stays
      PROVE  RunningJobIsWorked'
    BY <1>q, WorkKeepsOwner
<1>o. ASSUME NEW u, Move(w, u) PROVE Others /\ wk'[w] = u
    BY <1>o DEF TypeOK, WorkersOK
<1>r. ASSUME UNCHANGED job PROVE Rows
    BY <1>r
\* A row of which only the stage changes.
<1>s. ASSUME j \in Jobs, NEW sg, SetJob(j, [job[j] EXCEPT !.stage = sg])
      PROVE  Rows /\ \A i \in Jobs : job'[i].status = job[i].status
    BY <1>s DEF TypeOK, TablesOK, JobRow
<1>k. \A i \in Jobs : Works(w, i) => i = j
    BY DEF Works
<1>1. CASE ClaimPostgres(w) \/ ClaimSqlite(w)
    BY <1>1, ClaimKeepsOwner, WorkerHolds DEF ClaimPostgres, ClaimSqlite
<1>2. CASE PollEmpty(w)
    BY <1>2 DEF PollEmpty, vars, RunningJobIsWorked, Works
<1>3. CASE SelectCandidate(w) \/ ClaimMissed(w)
  <2>1. \E u : Move(w, u)
    BY <1>3 DEF SelectCandidate, ClaimMissed, EndWork
  <2>2. \A i \in Jobs : ~Works(w, i)
    BY <1>3 DEF SelectCandidate, ClaimMissed, Works, Holding, Executing
  <2>3. UNCHANGED <<job, orphans>>
    BY <1>3 DEF SelectCandidate, ClaimMissed
  <2> QED
    BY <2>1, <2>2, <2>3, <1>o, <1>q, <1>r
<1>4. CASE Start(w) \/ ReportParsing(w) \/ Report(w)
  <2>1. j \in Jobs /\ wk[w] \in WorkerState
    BY <1>4, WorkerHolds DEF Start, ReportParsing, Report, ReportedStage
  <2>2. \E sg : SetJob(j, [job[j] EXCEPT !.stage = sg])
    BY <1>4 DEF Start, ReportParsing, Report
  <2>3. Others /\ wk'[w].job = j /\ wk'[w].pc \in Executing \cup {"parsing"}
    <3>1. CASE Start(w)
      <4> DEFINE u == [wk[w] EXCEPT !.pc = "parsing", !.stage = Expired,
                          !.doc = Flush(wk[w].doc, "processing", doc[job[j].doc].status)]
      <4>1. u.job = j /\ u.pc = "parsing" /\ Move(w, u)
        BY <3>1, <2>1 DEF Start, WorkerState
      <4> HIDE DEF u
      <4> QED
        BY <4>1, <1>o
    <3>2. CASE ReportParsing(w)
      BY <3>2, <2>1, <1>o DEF ReportParsing, WorkerState, Executing
    <3>3. CASE Report(w)
      <4>1. wk[w].pc \in {"redacting", "extracting", "validating"}
        BY <3>3 DEF Report, ReportedStage
      <4>2. ReportedStage[wk[w].pc] \in {"extracting", "validating", "calculating"}
        BY <4>1 DEF ReportedStage
      <4> DEFINE u == [wk[w] EXCEPT !.pc = ReportedStage[wk[w].pc]]
      <4>3. u.job = j /\ u.pc = ReportedStage[wk[w].pc] /\ Move(w, u)
        BY <3>3, <2>1 DEF Report, WorkerState
      <4> HIDE DEF u
      <4> QED
        BY <4>2, <4>3, <1>o DEF Executing
    <3> QED
      BY <1>4, <3>1, <3>2, <3>3
  <2>4. Works(w, j)'
    BY <2>3 DEF Works, Holding, Executing
  <2>5. UNCHANGED orphans
    BY <1>4 DEF Start, ReportParsing, Report
  <2> QED
    BY <2>1, <2>2, <2>3, <2>4, <2>5, <1>k, <1>q, <1>s
<1>5. CASE ParseDone(w) \/ FinalCheck(w) \/ Raise(w)
  <2>1. j \in Jobs /\ wk[w] \in WorkerState
    BY <1>5, WorkerHolds DEF ParseDone, FinalCheck, Raise, Executing
  <2>2. UNCHANGED <<job, orphans>>
    BY <1>5 DEF ParseDone, FinalCheck, Raise
  <2>3. Others
    BY <1>5, <1>o DEF ParseDone, FinalCheck, Raise
  <2>4. ASSUME NEW i \in Jobs, i = j, job[i].status = "running" PROVE Works(w, i)'
    <3>1. CASE ParseDone(w)
      <4> DEFINE u == [wk[w] EXCEPT !.pc = "checked", !.stage = job[j].stage,
                                    !.doc = doc[job[j].doc].status]
      <4>0. Move(w, u) /\ u.pc = "checked" /\ u.job = i
        BY <3>1, <2>1, <2>4 DEF ParseDone, WorkerState
      <4> HIDE DEF u
      <4>1. wk'[w].pc = "checked" /\ wk'[w].job = i
        BY <4>0, <2>4, <1>o
      <4> QED
        BY <4>1 DEF Works, Holding, Executing
    <3>2. CASE FinalCheck(w)
      <4> DEFINE u == [wk[w] EXCEPT !.pc = "completing", !.status = job[j].status,
                                    !.stage = job[j].stage, !.had = result[j]]
      <4>0. Move(w, u) /\ u.pc = "completing" /\ u.job = i /\ u.status = "running"
        BY <3>2, <2>1, <2>4 DEF FinalCheck, WorkerState
      <4> HIDE DEF u
      <4>1. wk'[w].pc = "completing" /\ wk'[w].job = i /\ wk'[w].status = "running"
        BY <4>0, <2>4, <1>o
      <4> QED
        BY <4>1 DEF Works, Holding
    <3>3. CASE Raise(w)
      <4> DEFINE u == [wk[w] EXCEPT !.pc = "failing", !.status = job[j].status,
                                    !.stage = job[j].stage]
      <4>0. Move(w, u) /\ u.pc = "failing" /\ u.job = i /\ u.status = "running"
        BY <3>3, <2>1, <2>4 DEF Raise, WorkerState
      <4> HIDE DEF u
      <4>1. wk'[w].pc = "failing" /\ wk'[w].job = i /\ wk'[w].status = "running"
        BY <4>0, <2>4, <1>o
      <4> QED
        BY <4>1 DEF Works, Holding
    <3> QED
      BY <1>5, <3>1, <3>2, <3>3
  <2>5. Rows
    BY <2>2, <1>r
  <2>6. Stays
    <3> SUFFICES ASSUME NEW i \in Jobs, Works(w, i), job'[i].status = "running"
                 PROVE  Works(w, i)'
      OBVIOUS
    <3> QED
      BY <2>2, <2>4, <1>k
  <2> QED
    BY <2>2, <2>3, <2>5, <2>6, <1>q
\* The outcome replaces "running" when the worker has seen "running"; when it
\* has not, w is not the owner.
<1>6. CASE Complete(w) \/ FailCommit(w)
  <2>1. j \in Jobs /\ job[j] \in JobRow /\ wk[w].pc \in {"completing", "failing"}
    BY <1>6, WorkerHolds DEF Complete, FailCommit
  <2>a. PICK new \in {"completed", "failed"} : \E sg :
            job' = [job EXCEPT ![j] = [job[j] EXCEPT
                           !.status = Flush(wk[w].status, new, @), !.stage = sg]]
    <3>1. CASE Complete(w)
      BY <3>1 DEF Complete
    <3>2. CASE FailCommit(w)
      BY <3>2 DEF FailCommit, FailedRow
    <3> QED BY <1>6, <3>1, <3>2
  <2>2. PICK sg :
            job' = [job EXCEPT ![j] = [job[j] EXCEPT
                           !.status = Flush(wk[w].status, new, @), !.stage = sg]]
    BY <2>a
  <2>3. \A i \in Jobs : i # j => job'[i] = job[i]
    BY <2>1, <2>2 DEF TypeOK, TablesOK
  <2>4. /\ job'[j].status = Flush(wk[w].status, new, job[j].status)
        /\ job'[j].worker = job[j].worker
    BY <2>1, <2>2 DEF TypeOK, TablesOK, JobRow
  <2>5. Rows
    BY <2>1, <2>3, <2>4 DEF Flush
  <2>6. Stays
    BY <2>1, <2>4, <1>k DEF Works, Flush
  <2>7. Others
    BY <1>6, <1>o DEF Complete, FailCommit, EndWork
  <2>8. UNCHANGED orphans
    BY <1>6 DEF Complete, FailCommit
  <2> QED
    BY <2>5, <2>6, <2>7, <2>8, <1>q
<1>7. CASE ReportCompleted(w) \/ Finalize(w)
  <2>1. \A i \in Jobs : ~Works(w, i)
    BY <1>7 DEF ReportCompleted, Finalize, Works
  <2>2. UNCHANGED <<job, orphans>> /\ EndWork(w)
    BY <1>7 DEF ReportCompleted, Finalize
  <2> QED
    BY <2>1, <2>2, <1>o, <1>q, <1>r DEF EndWork
<1>8. CASE Crash(w) \/ CompleteConflict(w)
  <2>1. Die(w)
    BY <1>8 DEF Crash, CompleteConflict
  <2>2. Others /\ Rows /\ orphans \subseteq orphans'
    BY <2>1, <1>o, <1>r DEF Die, EndWork
  <2>3. Stays
    BY <2>1 DEF Die, Works
  <2> QED
    BY <2>2, <2>3, <1>q
<1> QED
    BY <1>1, <1>2, <1>3, <1>4, <1>5, <1>6, <1>7, <1>8 DEF WorkerStep

\* No interleaving of claims, cancels, stale retries, outcomes and crashes
\* leaves a job running without the worker its row names, unless that worker
\* died while it held the job.
THEOREM RunningIsOwned == Spec => []RunningJobIsOwned
<1>1. Init => RunningJobIsWorked
    BY DEF Init, RunningJobIsWorked
<1>2. TypeOK /\ RunningJobIsWorked /\ [Next]_vars => RunningJobIsWorked'
  <2>1. ASSUME RunningJobIsWorked, UNCHANGED vars PROVE RunningJobIsWorked'
    BY <2>1 DEF vars, RunningJobIsWorked, Works
  <2> QED
    BY <2>1, RequestKeepsOwner, WorkerKeepsOwner DEF Next
<1>3. RunningJobIsWorked => RunningJobIsOwned
    BY DEF RunningJobIsWorked, RunningJobIsOwned, Works
<1> QED
    BY <1>1, <1>2, <1>3, TypeCorrect, PTL DEF Spec

-----------------------------------------------------------------------------
(* The job table is an atomic queue: the refinement mapping of Queue.       *)

Pending == {j \in Jobs : job[j].status = "queued"}
HeldBy == [w \in Workers |-> IF wk[w].pc \in Holding THEN wk[w].job ELSE NoJob]

\* How a step that rewrites one row changes the pending jobs.
LEMMA PendingAfterSetJob ==
    ASSUME TypeOK, NEW j \in Jobs, NEW row, SetJob(j, row)
    PROVE  /\ row.status = "queued" => Pending' = Pending \cup {j}
           /\ row.status # "queued" => Pending' = Pending \ {j}
           /\ row.status = job[j].status => Pending' = Pending
<1>1. job'[j] = row /\ \A i \in Jobs : i # j => job'[i] = job[i]
    BY DEF TypeOK, TablesOK
<1> QED
    BY <1>1 DEF Pending

\* How a step that moves one worker changes what is held.
LEMMA HeldAfterMove ==
    ASSUME TypeOK, NEW w \in Workers, NEW u, Move(w, u)
    PROVE  HeldBy' = [HeldBy EXCEPT ![w] = IF u.pc \in Holding THEN u.job ELSE NoJob]
<1>1. wk'[w] = u /\ \A v \in Workers : v # w => wk'[v] = wk[v]
    BY DEF TypeOK, WorkersOK
<1> DEFINE held == IF u.pc \in Holding THEN u.job ELSE NoJob
<1>2. HeldBy'[w] = held
    BY <1>1 DEF HeldBy
<1>3. \A v \in Workers : v # w => HeldBy'[v] = HeldBy[v]
    BY <1>1 DEF HeldBy
<1>4. /\ HeldBy = [v \in Workers |-> HeldBy[v]]
      /\ HeldBy' = [v \in Workers |-> HeldBy'[v]]
    BY DEF HeldBy
<1> HIDE DEF held
<1> QED
    BY <1>2, <1>3, <1>4 DEF held

\* The steps of process_once between the claim and the end keep the job.
LEMMA StaysOnJob ==
    ASSUME TypeOK, NEW w \in Workers,
           \/ Start(w) \/ ParseDone(w) \/ ReportParsing(w) \/ Report(w) \/ FinalCheck(w)
           \/ Complete(w) \/ Raise(w)
    PROVE  /\ wk[w].pc \in Holding /\ wk[w].job \in Jobs /\ job[wk[w].job] \in JobRow
           /\ \E u : Move(w, u) /\ u.pc \in Holding /\ u.job = wk[w].job
<1>1. wk[w].pc \in Holding
    BY DEF Start, ParseDone, ReportParsing, Report, ReportedStage, FinalCheck, Complete,
           Raise, Holding, Executing
<1>2. wk[w].job \in Jobs /\ job[wk[w].job] \in JobRow /\ wk[w] \in WorkerState
    BY <1>1, WorkerHolds DEF Holding, Executing
<1>3. \E u : Move(w, u) /\ u.pc \in Holding /\ u.job = wk[w].job
  <2>1. CASE Start(w)
    <3>1. PICK st : Move(w, [wk[w] EXCEPT !.pc = "parsing", !.stage = Expired, !.doc = st])
      BY <2>1 DEF Start
    <3> DEFINE u == [wk[w] EXCEPT !.pc = "parsing", !.stage = Expired, !.doc = st]
    <3>2. Move(w, u) /\ u.pc \in Holding /\ u.job = wk[w].job
      BY <1>2, <3>1 DEF WorkerState, Holding
    <3> HIDE DEF u
    <3> QED
      BY <3>2
  <2>2. CASE ParseDone(w)
    <3> DEFINE u == IF job[wk[w].job].status = "cancelled"
                    THEN [wk[w] EXCEPT !.pc = "finalizing", !.doc = Expired]
                    ELSE [wk[w] EXCEPT !.pc = "checked", !.stage = job[wk[w].job].stage,
                                       !.doc = doc[job[wk[w].job].doc].status]
    <3>1. Move(w, u)
      BY <2>2 DEF ParseDone
    <3>2. u.pc \in Holding /\ u.job = wk[w].job
      BY <1>2 DEF WorkerState, Holding, Executing
    <3> HIDE DEF u
    <3> QED
      BY <3>1, <3>2
  <2>3. CASE ReportParsing(w)
    <3> DEFINE u == [wk[w] EXCEPT !.pc = "redacting", !.stage = Expired, !.doc = Expired]
    <3>1. Move(w, u) /\ u.pc \in Holding /\ u.job = wk[w].job
      BY <1>2, <2>3 DEF ReportParsing, WorkerState, Holding, Executing
    <3> HIDE DEF u
    <3> QED
      BY <3>1
  <2>4. CASE Report(w)
    <3>1. wk[w].pc \in {"redacting", "extracting", "validating"}
      BY <2>4 DEF Report, ReportedStage
    <3>2. ReportedStage[wk[w].pc] \in {"extracting", "validating", "calculating"}
      BY <3>1 DEF ReportedStage
    <3> DEFINE u == [wk[w] EXCEPT !.pc = ReportedStage[wk[w].pc]]
    <3>3. Move(w, u)
      BY <2>4 DEF Report
    <3>4. u.pc \in Holding /\ u.job = wk[w].job
      BY <1>2, <3>2 DEF WorkerState, Holding, Executing
    <3> HIDE DEF u
    <3> QED
      BY <3>3, <3>4
  <2>5. CASE FinalCheck(w)
    <3> DEFINE u == IF job[wk[w].job].status = "cancelled"
                    THEN [wk[w] EXCEPT !.pc = "finalizing"]
                    ELSE [wk[w] EXCEPT !.pc = "completing",
                             !.status = job[wk[w].job].status,
                             !.stage = job[wk[w].job].stage, !.had = result[wk[w].job]]
    <3>1. Move(w, u)
      BY <2>5 DEF FinalCheck
    <3>2. u.pc \in Holding /\ u.job = wk[w].job
      BY <1>2 DEF WorkerState, Holding
    <3> HIDE DEF u
    <3> QED
      BY <3>1, <3>2
  <2>6. CASE Complete(w)
    <3> DEFINE u == [wk[w] EXCEPT !.pc = "reporting", !.status = Expired,
                         !.stage = Expired, !.doc = "completed", !.had = FALSE]
    <3>1. Move(w, u)
      BY <2>6 DEF Complete
    <3>2. u.pc \in Holding /\ u.job = wk[w].job
      BY <1>2 DEF WorkerState, Holding
    <3> HIDE DEF u
    <3> QED
      BY <3>1, <3>2
  <2>7. CASE Raise(w)
    <3> DEFINE u == IF job[wk[w].job].status = "cancelled"
                    THEN [wk[w] EXCEPT !.pc = "finalizing", !.stage = Expired]
                    ELSE [wk[w] EXCEPT !.pc = "failing", !.status = job[wk[w].job].status,
                                       !.stage = job[wk[w].job].stage]
    <3>1. Move(w, u)
      BY <2>7 DEF Raise
    <3>2. u.pc \in Holding /\ u.job = wk[w].job
      BY <1>2 DEF WorkerState, Holding
    <3> HIDE DEF u
    <3> QED
      BY <3>1, <3>2
  <2> QED
    BY <2>1, <2>2, <2>3, <2>4, <2>5, <2>6, <2>7
<1> QED
    BY <1>1, <1>2, <1>3

\* A worker that returns to its poll holds nothing.
LEMMA HeldAfterIdle ==
    ASSUME TypeOK, NEW w \in Workers, EndWork(w)
    PROVE  HeldBy' = [HeldBy EXCEPT ![w] = NoJob]
<1>1. IdleWorker.pc \notin Holding
    BY DEF IdleWorker, Holding, Executing
<1> QED
    BY <1>1, HeldAfterMove DEF EndWork

QueueStep == [Queue!Next]_<<Pending, HeldBy>>

\* An API request enqueues a job, withdraws one, or leaves the queue alone.
LEMMA RequestIsQueueStep ==
    ASSUME TypeOK, NEW s \in Sessions, NewRequest(s) \/ RequestStep(s)
    PROVE  QueueStep
<1>0. UNCHANGED HeldBy
    BY DEF HeldBy, NewRequest, RequestStep, CreateRead, RetryRead, CancelRead, DropRequest,
           CreateCommit, CreateAudit, RetryCommit, CancelCommit
<1>1. ASSUME NEW j \in Jobs, Pending' \in {Pending \cup {j}, Pending \ {j}}
      PROVE  QueueStep
    BY <1>0, <1>1 DEF QueueStep, Queue!Next, Queue!Enqueue, Queue!Withdraw, Pending, HeldBy
<1>2. CASE CreateCommit(s)
  <2> DEFINE row == [status |-> "queued", stage |-> "queued", worker |-> NoWorker,
                     attempts |-> 0, doc |-> req[s].target]
  <2>1. row.status = "queued" /\ \E j \in Jobs : SetJob(j, row)
    BY <1>2 DEF CreateCommit
  <2> HIDE DEF row
  <2> QED
    BY <1>1, <2>1, PendingAfterSetJob
<1>3. CASE RetryCommit(s)
  <2>1. req[s].job \in Jobs /\ job[req[s].job] \in JobRow
    BY <1>3 DEF RetryCommit, TypeOK, RequestsOK, TablesOK
  <2> DEFINE row == [job[req[s].job] EXCEPT !.status = "queued",
                        !.stage = Flush(req[s].stage, "queued", @),
                        !.worker = Flush(req[s].worker, NoWorker, @)]
  <2>2. row.status = "queued" /\ SetJob(req[s].job, row)
    BY <1>3, <2>1 DEF RetryCommit, JobRow
  <2> HIDE DEF row
  <2> QED
    BY <1>1, <2>1, <2>2, PendingAfterSetJob
<1>4. CASE CancelCommit(s)
  <2>1. req[s].job \in Jobs /\ job[req[s].job] \in JobRow
    BY <1>4 DEF CancelCommit, TypeOK, RequestsOK, TablesOK
  <2> DEFINE row == [job[req[s].job] EXCEPT !.status = "cancelled",
                        !.stage = Flush(req[s].stage, "cancelled", @),
                        !.worker = Flush(req[s].worker, NoWorker, @)]
  <2>2. row.status = "cancelled" /\ SetJob(req[s].job, row)
    BY <1>4, <2>1 DEF CancelCommit, JobRow
  <2> HIDE DEF row
  <2> QED
    BY <1>1, <2>1, <2>2, PendingAfterSetJob
<1> QED
    BY <1>0, <1>2, <1>3, <1>4 DEF QueueStep, NewRequest, RequestStep, CreateRead, RetryRead,
           CancelRead, DropRequest, CreateAudit, Pending

\* A claim takes a pending job for a worker that holds none.
LEMMA ClaimIsQueueStep ==
    ASSUME TypeOK, NEW w \in Workers, NEW j \in Jobs, job[j].status = "queued",
           wk[w].pc \in {"idle", "selected"}, Claim(w, j)
    PROVE  QueueStep
<1> DEFINE u == [IdleWorker EXCEPT !.pc = "claimed", !.job = j,
                     !.stage = job[j].stage, !.doc = doc[job[j].doc].status]
<1>1. u.pc = "claimed" /\ u.job = j /\ Move(w, u)
    BY DEF Claim, IdleWorker
<1> HIDE DEF u
<1>2. HeldBy' = [HeldBy EXCEPT ![w] = j]
    BY <1>1, HeldAfterMove DEF Holding
<1>3. ClaimedRow(w, j).status = "running"
    BY DEF ClaimedRow, TypeOK, TablesOK, JobRow
<1>4. Pending' = Pending \ {j} /\ j \in Pending
    BY <1>3, PendingAfterSetJob DEF Claim, Pending
<1>5. HeldBy[w] = NoJob
    BY DEF HeldBy, Holding, Executing
<1> QED
    BY <1>2, <1>4, <1>5 DEF QueueStep, Queue!Next, Queue!Take, Pending, HeldBy

\* Every step of a worker is a step of the queue or leaves it alone.
LEMMA WorkerIsQueueStep ==
    ASSUME TypeOK, NEW w \in Workers, WorkerStep(w) \/ Crash(w)
    PROVE  QueueStep
<1> DEFINE j == wk[w].job
<1>s. ASSUME UNCHANGED <<Pending, HeldBy>> PROVE QueueStep
    BY <1>s DEF QueueStep
\* A worker that holds its job before and after the step.
<1>h. ASSUME wk[w].pc \in Holding, NEW u, Move(w, u), u.pc \in Holding, u.job = j
      PROVE  HeldBy' = HeldBy
  <2>1. HeldBy[w] = j /\ HeldBy \in [Workers -> {HeldBy[v] : v \in Workers}]
    BY <1>h DEF HeldBy
  <2>2. HeldBy' = [HeldBy EXCEPT ![w] = j]
    BY <1>h, HeldAfterMove
  <2> QED
    BY <2>1, <2>2
<1>p. ASSUME UNCHANGED job PROVE Pending' = Pending
    BY <1>p DEF Pending
\* A worker that lets its job go.
<1>r. ASSUME wk[w].pc \in Holding, j \in Jobs, EndWork(w),
             Pending' \in {Pending, Pending \ {j}}
      PROVE  QueueStep
  <2>1. HeldBy' = [HeldBy EXCEPT ![w] = NoJob]
    BY <1>r, HeldAfterIdle
  <2>2. HeldBy[w] = j /\ j # NoJob
    BY <1>r, BoundsAssumption DEF HeldBy, Jobs, NoJob
  <2> QED
    BY <1>r, <2>1, <2>2 DEF QueueStep, Queue!Next, Queue!Release, Pending, HeldBy
<1>1. CASE ClaimPostgres(w) \/ ClaimSqlite(w)
    BY <1>1, ClaimIsQueueStep, WorkerHolds DEF ClaimPostgres, ClaimSqlite, Oldest
<1>2. CASE PollEmpty(w)
    BY <1>2, <1>s DEF PollEmpty, vars, Pending, HeldBy
<1>3. CASE SelectCandidate(w) \/ ClaimMissed(w)
  <2>1. wk[w].pc \notin Holding /\ UNCHANGED job
    BY <1>3 DEF SelectCandidate, ClaimMissed, Holding, Executing
  <2>2. \E u : Move(w, u) /\ u.pc \notin Holding
    <3>0. wk[w] \in WorkerState /\ IdleWorker.pc \notin Holding
      BY DEF TypeOK, WorkersOK, IdleWorker, Holding, Executing
    <3>1. ASSUME NEW i, Move(w, [IdleWorker EXCEPT !.pc = "selected", !.job = i, !.tries = 1])
          PROVE  \E u : Move(w, u) /\ u.pc \notin Holding
      <4> DEFINE u == [IdleWorker EXCEPT !.pc = "selected", !.job = i, !.tries = 1]
      <4>1. Move(w, u) /\ u.pc \notin Holding
        BY <3>1 DEF IdleWorker, Holding, Executing
      <4> HIDE DEF u
      <4> QED
        BY <4>1
    <3>2. ASSUME NEW i, ClaimMissed(w),
                 Move(w, [wk[w] EXCEPT !.job = i, !.tries = wk[w].tries + 1])
          PROVE  \E u : Move(w, u) /\ u.pc \notin Holding
      <4> DEFINE n == wk[w].tries + 1
                 u == [wk[w] EXCEPT !.job = i, !.tries = n]
      <4>1. Move(w, u)
        BY <3>2
      <4> HIDE DEF n
      <4>2. u.pc = "selected"
        BY <3>0, <3>2 DEF ClaimMissed, WorkerState
      <4> HIDE DEF u
      <4> QED
        BY <4>1, <4>2 DEF Holding, Executing
    <3> QED
      BY <1>3, <3>0, <3>1, <3>2 DEF SelectCandidate, ClaimMissed, EndWork
  <2>3. HeldBy' = [HeldBy EXCEPT ![w] = NoJob]
    BY <2>2, HeldAfterMove
  <2>4. HeldBy[w] = NoJob /\ HeldBy \in [Workers -> {HeldBy[v] : v \in Workers}]
    BY <2>1 DEF HeldBy
  <2>5. HeldBy' = HeldBy
    BY <2>3, <2>4
  <2> QED
    BY <2>1, <2>5, <1>p, <1>s
<1>4. CASE Start(w) \/ ReportParsing(w) \/ Report(w)
  <2>1. j \in Jobs /\ wk[w] \in WorkerState /\ wk[w].pc \in Holding /\ job[j] \in JobRow
    BY <1>4, StaysOnJob DEF TypeOK, WorkersOK
  <2>2. PICK sg : SetJob(j, [job[j] EXCEPT !.stage = sg])
    BY <1>4 DEF Start, ReportParsing, Report
  <2>3. Pending' = Pending
    <3> DEFINE row == [job[j] EXCEPT !.stage = sg]
    <3>1. row.status = job[j].status
      BY <2>1 DEF JobRow
    <3>2. SetJob(j, row)
      BY <2>2
    <3> HIDE DEF row
    <3> QED
      BY <2>1, <3>1, <3>2, PendingAfterSetJob
  <2>4. \E u : Move(w, u) /\ u.pc \in Holding /\ u.job = j
    BY <1>4, StaysOnJob
  <2> QED
    BY <2>1, <2>3, <2>4, <1>h, <1>s
<1>5. CASE ParseDone(w) \/ FinalCheck(w) \/ Raise(w)
  <2>1. j \in Jobs /\ wk[w] \in WorkerState /\ wk[w].pc \in Holding
    BY <1>5, StaysOnJob DEF TypeOK, WorkersOK
  <2>2. \E u : Move(w, u) /\ u.pc \in Holding /\ u.job = j
    BY <1>5, StaysOnJob
  <2>3. Pending' = Pending
    BY <1>5, <1>p DEF ParseDone, FinalCheck, Raise
  <2> QED
    BY <2>1, <2>2, <2>3, <1>h, <1>s
<1>6. ASSUME Complete(w) \/ FailCommit(w)
      PROVE  /\ Pending' \in {Pending, Pending \ {j}}
             /\ j \in Jobs /\ wk[w] \in WorkerState /\ wk[w].pc \in Holding
  <2>1. j \in Jobs /\ wk[w] \in WorkerState /\ wk[w].pc \in Holding /\ job[j] \in JobRow
    BY <1>6, WorkerHolds DEF Complete, FailCommit, Holding
  <2>a. PICK new \in {"completed", "failed"} : \E sg :
            SetJob(j, [job[j] EXCEPT !.status = Flush(wk[w].status, new, @), !.stage = sg])
    <3>1. CASE Complete(w)
      BY <3>1 DEF Complete
    <3>2. CASE FailCommit(w)
      BY <3>2 DEF FailCommit, FailedRow
    <3> QED BY <1>6, <3>1, <3>2
  <2>2. PICK sg :
            SetJob(j, [job[j] EXCEPT !.status = Flush(wk[w].status, new, @), !.stage = sg])
    BY <2>a
  <2> DEFINE row == [job[j] EXCEPT !.status = Flush(wk[w].status, new, @), !.stage = sg]
  <2>3. row.status \in {new, job[j].status}
    BY <2>1 DEF JobRow, Flush
  <2>4. SetJob(j, row)
    BY <2>2
  <2> HIDE DEF row
  <2> QED
    BY <2>1, <2>3, <2>4, PendingAfterSetJob
<1>7. CASE Complete(w)
  <2>1. \E u : Move(w, u) /\ u.pc \in Holding /\ u.job = j
    BY <1>7, StaysOnJob
  <2>2. HeldBy' = HeldBy
    BY <1>6, <1>7, <2>1, <1>h
  <2> QED
    BY <1>6, <1>7, <2>2 DEF QueueStep, Queue!Next, Queue!Withdraw, Pending, HeldBy
<1>8. CASE FailCommit(w)
    BY <1>6, <1>8, <1>r DEF FailCommit
<1>9. CASE ReportCompleted(w) \/ Finalize(w)
    BY <1>9, <1>p, <1>r, WorkerHolds DEF ReportCompleted, Finalize, Holding
<1>10. CASE Crash(w) \/ CompleteConflict(w)
  <2>1. Die(w) /\ Pending' = Pending /\ wk[w].pc # "idle"
    BY <1>10, <1>p DEF Crash, CompleteConflict, Die
  <2>2. CASE wk[w].pc \in Holding
    BY <2>1, <2>2, <1>r, WorkerHolds DEF Die
  <2>3. CASE wk[w].pc \notin Holding
    <3>1. HeldBy[w] = NoJob /\ HeldBy \in [Workers -> {HeldBy[v] : v \in Workers}]
      BY <2>3 DEF HeldBy
    <3>2. HeldBy' = HeldBy
      BY <2>1, <3>1, HeldAfterIdle DEF Die
    <3> QED
      BY <2>1, <3>2, <1>s
  <2> QED
    BY <2>2, <2>3
<1> QED
    BY <1>1, <1>2, <1>3, <1>4, <1>5, <1>7, <1>8, <1>9, <1>10 DEF WorkerStep

\* On either database and for any number of workers, claim_next_job and the
\* writers of status together behave as an atomic queue.
THEOREM TableIsQueue == Spec => ImplementsQueue
<1>1. Init => Queue!Init
    BY DEF Init, Queue!Init, IdleWorker, Holding, Executing
<1>2. TypeOK /\ [Next]_vars => [Queue!Next]_(Queue!queueVars)
  <2>1. ASSUME TypeOK, [Next]_vars PROVE QueueStep
    <3>1. CASE UNCHANGED vars
      BY <3>1 DEF vars, QueueStep, Pending, HeldBy
    <3> QED
      BY <2>1, <3>1, RequestIsQueueStep, WorkerIsQueueStep DEF Next
  <2> QED
    BY <2>1 DEF QueueStep, Queue!queueVars, Pending, HeldBy
<1> QED
    BY <1>1, <1>2, TypeCorrect, PTL DEF Spec, ImplementsQueue, Queue!Spec

-----------------------------------------------------------------------------
(* What a step does to one row: the facts the remaining invariants share.   *)

\* An audit trail only grows.
LEMMA AuditGrows ==
    ASSUME TypeOK, [Next]_vars, NEW i \in Jobs, NEW e \in Events
    PROVE  audit[i][e] \in Nat /\ audit'[i][e] \in Nat /\ audit[i][e] <= audit'[i][e]
<1>1. audit[i][e] \in Nat /\ audit'[i][e] \in Nat
    BY NextTypes DEF TypeOK, TablesOK
<1>2. ASSUME NEW j \in Jobs, NEW f \in Events, Record(j, f)
      PROVE  audit[i][e] <= audit'[i][e]
    BY <1>1, <1>2, RecordCounts
<1>3. CASE UNCHANGED audit
    BY <1>1, <1>3
<1>4. ASSUME NEW s \in Sessions, CreateAudit(s) \/ RetryCommit(s) \/ CancelCommit(s)
      PROVE  audit[i][e] <= audit'[i][e]
  <2>1. req[s].job \in Jobs
    BY <1>4 DEF CreateAudit, RetryCommit, CancelCommit, TypeOK, RequestsOK
  <2> QED
    BY <2>1, <1>2, <1>4 DEF CreateAudit, RetryCommit, CancelCommit, Events
<1>5. ASSUME NEW w \in Workers, Complete(w) \/ FailCommit(w)
      PROVE  audit[i][e] <= audit'[i][e]
  <2>1. wk[w].job \in Jobs
    BY <1>5, WorkerHolds DEF Complete, FailCommit
  <2> QED
    BY <2>1, <1>2, <1>5 DEF Complete, FailCommit, Events
<1>6. ASSUME NEW s \in Sessions, NewRequest(s) \/ RequestStep(s)
      PROVE  audit[i][e] <= audit'[i][e]
    BY <1>3, <1>4, <1>6 DEF NewRequest, RequestStep, CreateRead, RetryRead, CancelRead,
           DropRequest, CreateCommit
<1>7. ASSUME NEW w \in Workers, WorkerStep(w) \/ Crash(w)
      PROVE  audit[i][e] <= audit'[i][e]
    BY <1>3, <1>5, <1>7 DEF WorkerStep, ClaimPostgres, ClaimSqlite, Claim, SelectCandidate,
           ClaimMissed, PollEmpty, Start, ParseDone, ReportParsing, Report, FinalCheck,
           CompleteConflict, ReportCompleted, Raise, Finalize, Crash, Die, vars
<1> QED
    BY <1>1, <1>3, <1>6, <1>7 DEF Next, vars

\* Who changes the status of a job, and to what.
LEMMA StatusChanges ==
    ASSUME TypeOK, [Next]_vars, NEW i \in Jobs, job'[i].status # job[i].status
    PROVE  \/ \E s \in Sessions : CreateCommit(s) /\ job[i].status = Absent
                                  /\ job'[i].status = "queued"
           \/ \E s \in Sessions : RetryCommit(s) /\ req[s].job = i
                                  /\ job'[i].status = "queued"
           \/ \E s \in Sessions : CancelCommit(s) /\ req[s].job = i
                                  /\ job'[i].status = "cancelled"
           \/ \E w \in Workers : job[i].status = "queued" /\ job'[i].status = "running"
           \/ \E w \in Workers : Complete(w) /\ wk[w].job = i
                                 /\ job'[i].status = "completed"
           \/ \E w \in Workers : FailCommit(w) /\ wk[w].job = i
                                 /\ job'[i].status = "failed"
<1>0. job' # job
    OBVIOUS
<1>1. ASSUME NEW s \in Sessions, CreateCommit(s)
      PROVE  job[i].status = Absent /\ job'[i].status = "queued"
    BY <1>1 DEF CreateCommit, TypeOK, TablesOK
<1>2. ASSUME NEW s \in Sessions, RetryCommit(s)
      PROVE  req[s].job = i /\ job'[i].status = "queued"
  <2>1. req[s].job \in Jobs /\ job[req[s].job] \in JobRow
    BY <1>2 DEF RetryCommit, TypeOK, RequestsOK, TablesOK
  <2>2. i # req[s].job => job'[i] = job[i]
    BY <1>2, <2>1 DEF RetryCommit, TypeOK, TablesOK
  <2>3. job'[req[s].job].status = "queued"
    BY <1>2, <2>1 DEF RetryCommit, TypeOK, TablesOK, JobRow
  <2> QED
    BY <2>2, <2>3
<1>3. ASSUME NEW s \in Sessions, CancelCommit(s)
      PROVE  req[s].job = i /\ job'[i].status = "cancelled"
  <2>1. req[s].job \in Jobs /\ job[req[s].job] \in JobRow
    BY <1>3 DEF CancelCommit, TypeOK, RequestsOK, TablesOK
  <2>2. i # req[s].job => job'[i] = job[i]
    BY <1>3, <2>1 DEF CancelCommit, TypeOK, TablesOK
  <2>3. job'[req[s].job].status = "cancelled"
    BY <1>3, <2>1 DEF CancelCommit, TypeOK, TablesOK, JobRow
  <2> QED
    BY <2>2, <2>3
<1>4. ASSUME NEW w \in Workers, NEW j \in Jobs, job[j].status = "queued", Claim(w, j)
      PROVE  job[i].status = "queued" /\ job'[i].status = "running"
  <2>1. i # j => job'[i] = job[i]
    BY <1>4 DEF Claim, TypeOK, TablesOK
  <2>2. job'[j].status = "running"
    BY <1>4 DEF Claim, ClaimedRow, TypeOK, TablesOK, JobRow
  <2> QED
    BY <1>4, <2>1, <2>2
<1>5. ASSUME NEW w \in Workers, Start(w) \/ ReportParsing(w) \/ Report(w) PROVE FALSE
  <2>1. wk[w].job \in Jobs
    BY <1>5, WorkerHolds DEF Start, ReportParsing, Report, ReportedStage
  <2>2. PICK sg : job' = [job EXCEPT ![wk[w].job] = [job[wk[w].job] EXCEPT !.stage = sg]]
    BY <1>5 DEF Start, ReportParsing, Report
  <2> QED
    BY <2>1, <2>2 DEF TypeOK, TablesOK, JobRow
<1>6. ASSUME NEW w \in Workers, NEW new \in {"completed", "failed"}, wk[w].pc # "idle",
             NEW sg, job' = [job EXCEPT ![wk[w].job] = [job[wk[w].job] EXCEPT
                           !.status = Flush(wk[w].status, new, @), !.stage = sg]]
      PROVE  wk[w].job = i /\ job'[i].status = new
  <2>1. wk[w].job \in Jobs /\ job[wk[w].job] \in JobRow
    BY <1>6, WorkerHolds
  <2>2. i # wk[w].job => job'[i] = job[i]
    BY <1>6, <2>1 DEF TypeOK, TablesOK
  <2>3. job'[wk[w].job].status \in {job[wk[w].job].status, new}
    BY <1>6, <2>1 DEF TypeOK, TablesOK, JobRow, Flush
  <2> QED
    BY <2>2, <2>3
<1>7. ASSUME NEW w \in Workers, Complete(w)
      PROVE  wk[w].job = i /\ job'[i].status = "completed"
    BY <1>6, <1>7 DEF Complete
<1>8. ASSUME NEW w \in Workers, FailCommit(w)
      PROVE  wk[w].job = i /\ job'[i].status = "failed"
    BY <1>6, <1>8 DEF FailCommit, FailedRow
<1>9. ASSUME NEW s \in Sessions, NewRequest(s) \/ RequestStep(s)
      PROVE  CreateCommit(s) \/ RetryCommit(s) \/ CancelCommit(s)
    BY <1>0, <1>9 DEF NewRequest, RequestStep, CreateRead, RetryRead, CancelRead,
           DropRequest, CreateAudit
<1>10. ASSUME NEW w \in Workers, WorkerStep(w) \/ Crash(w)
       PROVE  \/ Complete(w) \/ FailCommit(w)
              \/ \E j \in Jobs : job[j].status = "queued" /\ Claim(w, j)
  <2>1. CASE ClaimPostgres(w) \/ ClaimSqlite(w)
    BY <2>1, WorkerHolds DEF ClaimPostgres, ClaimSqlite, Oldest
  <2>2. ~ (\/ SelectCandidate(w) \/ ClaimMissed(w) \/ PollEmpty(w) \/ ParseDone(w)
           \/ FinalCheck(w) \/ ReportCompleted(w) \/ Raise(w) \/ Finalize(w)
           \/ Crash(w) \/ CompleteConflict(w))
    BY <1>0 DEF SelectCandidate, ClaimMissed, PollEmpty, ParseDone, FinalCheck,
           ReportCompleted, Raise, Finalize, Crash, CompleteConflict, Die, vars
  <2> QED
    BY <1>10, <2>1, <2>2, <1>5 DEF WorkerStep
<1>11. ~ UNCHANGED vars
    BY <1>0 DEF vars
<1>12. CASE \E s \in Sessions : NewRequest(s) \/ RequestStep(s)
  <2>1. PICK s \in Sessions : CreateCommit(s) \/ RetryCommit(s) \/ CancelCommit(s)
    BY <1>9, <1>12
  <2> QED
    BY <2>1, <1>1, <1>2, <1>3
<1>13. CASE \E w \in Workers : WorkerStep(w) \/ Crash(w)
  <2>1. PICK w \in Workers :
            \/ Complete(w) \/ FailCommit(w)
            \/ \E j \in Jobs : job[j].status = "queued" /\ Claim(w, j)
    BY <1>10, <1>13
  <2> QED
    BY <2>1, <1>4, <1>7, <1>8
<1> QED
    BY <1>11, <1>12, <1>13 DEF Next

\* A result row is only inserted by the completing commit.
LEMMA ResultStays ==
    ASSUME TypeOK, [Next]_vars, NEW i \in Jobs
    PROVE  /\ result[i] => result'[i]
           /\ result'[i] /\ ~result[i] => \E w \in Workers : Complete(w) /\ wk[w].job = i
<1>1. CASE UNCHANGED result
    BY <1>1
<1>2. ASSUME NEW w \in Workers, Complete(w)
      PROVE  result'[i] = (result[i] \/ wk[w].job = i)
  <2>1. wk[w].job \in Jobs
    BY <1>2, WorkerHolds DEF Complete
  <2> QED
    BY <1>2, <2>1 DEF Complete, TypeOK, TablesOK
<1>3. ASSUME NEW s \in Sessions, NewRequest(s) \/ RequestStep(s) PROVE UNCHANGED result
    BY <1>3 DEF NewRequest, RequestStep, CreateRead, RetryRead, CancelRead,
           DropRequest, CreateCommit, CreateAudit, RetryCommit, CancelCommit
<1>4. ASSUME NEW w \in Workers, WorkerStep(w) \/ Crash(w)
      PROVE  UNCHANGED result \/ Complete(w)
    BY <1>4 DEF WorkerStep, ClaimPostgres, ClaimSqlite, Claim, SelectCandidate,
           ClaimMissed, PollEmpty, Start, ParseDone, ReportParsing, Report, FinalCheck,
           CompleteConflict, ReportCompleted, Raise, FailCommit, Finalize, Crash, Die, vars
<1> QED
    BY <1>1, <1>2, <1>3, <1>4 DEF Next, vars

-----------------------------------------------------------------------------
(* The trail explains the state.                                            *)

\* Each commit that sets a final status, or inserts a result, records its event.
LEMMA TrailStep ==
    ASSUME TypeOK, TrailExplainsState, [Next]_vars
    PROVE  TrailExplainsState'
<1> SUFFICES ASSUME NEW i \in Jobs
             PROVE  /\ job'[i].status = "completed" =>
                           audit'[i]["job.completed"] > 0 /\ result'[i]
                    /\ job'[i].status = "failed" => audit'[i]["job.failed"] > 0
                    /\ job'[i].status = "cancelled" => audit'[i]["job.cancelled"] > 0
                    /\ result'[i] => audit'[i]["job.completed"] > 0
    BY DEF TrailExplainsState
<1>1. \A e \in {"job.completed", "job.failed", "job.cancelled"} :
          /\ audit[i][e] \in Nat /\ audit'[i][e] \in Nat
          /\ audit[i][e] > 0 => audit'[i][e] > 0
  <2> TAKE e \in {"job.completed", "job.failed", "job.cancelled"}
  <2>1. e \in Events
    BY DEF Events
  <2>2. audit[i][e] \in Nat /\ audit'[i][e] \in Nat /\ audit[i][e] <= audit'[i][e]
    BY <2>1, AuditGrows
  <2> QED
    BY <2>2
<1>2. /\ job[i].status = "completed" => audit[i]["job.completed"] > 0 /\ result[i]
      /\ job[i].status = "failed" => audit[i]["job.failed"] > 0
      /\ job[i].status = "cancelled" => audit[i]["job.cancelled"] > 0
      /\ result[i] => audit[i]["job.completed"] > 0
    BY DEF TrailExplainsState
<1>3. ASSUME NEW w \in Workers, Complete(w), wk[w].job = i
      PROVE  audit'[i]["job.completed"] > 0 /\ result'[i]
  <2>1. audit'[i]["job.completed"] = audit[i]["job.completed"] + 1
    BY <1>3, RecordCounts DEF Complete, Events
  <2>2. result'[i]
    BY <1>3 DEF Complete, TypeOK, TablesOK
  <2> QED
    BY <2>1, <2>2, <1>1
<1>4. ASSUME NEW w \in Workers, FailCommit(w), wk[w].job = i
      PROVE  audit'[i]["job.failed"] > 0
  <2>1. audit'[i]["job.failed"] = audit[i]["job.failed"] + 1
    BY <1>4, RecordCounts DEF FailCommit, Events
  <2> QED
    BY <2>1, <1>1
<1>5. ASSUME NEW s \in Sessions, CancelCommit(s), req[s].job = i
      PROVE  audit'[i]["job.cancelled"] > 0
  <2>1. audit'[i]["job.cancelled"] = audit[i]["job.cancelled"] + 1
    BY <1>5, RecordCounts DEF CancelCommit, Events
  <2> QED
    BY <2>1, <1>1
<1>6. result'[i] => audit'[i]["job.completed"] > 0
    BY <1>1, <1>2, <1>3, ResultStays
<1>7. CASE job'[i].status = job[i].status
    BY <1>1, <1>2, <1>6, <1>7, ResultStays
<1>8. CASE job'[i].status # job[i].status
    BY <1>3, <1>4, <1>5, <1>6, <1>8, StatusChanges
<1> QED
    BY <1>7, <1>8

\* An operator who sees a job completed, failed or cancelled always finds the
\* event that made it so, in any interleaving of workers and requests.
THEOREM TrailAlwaysExplains == Spec => []TrailExplainsState
<1>1. Init => TrailExplainsState
    BY DEF Init, TrailExplainsState
<1>2. TypeOK /\ TrailExplainsState /\ [Next]_vars => TrailExplainsState'
    BY TrailStep
<1> QED
    BY <1>1, <1>2, TypeCorrect, PTL DEF Spec

-----------------------------------------------------------------------------
(* Who may revive a cancelled job.                                          *)

\* A status that leaves "cancelled" is written by a completing or failing worker
\* or by a retry: the first three ways of StatusChanges that remain.
LEMMA RevivedByStaleWrite ==
    ASSUME TypeOK, [Next]_vars, NEW i \in Jobs,
           job[i].status = "cancelled", job'[i].status # "cancelled"
    PROVE  \/ \E w \in Workers : wk[w].pc \in {"completing", "failing"} /\ wk[w].job = i
                                 /\ wk'[w].pc # wk[w].pc
           \/ \E s \in Sessions : req[s].op = "retry" /\ req[s].job = i
                                  /\ req'[s].op # "retry"
<1>1. ASSUME NEW s \in Sessions, RetryCommit(s)
      PROVE  req[s].op = "retry" /\ req'[s].op # "retry"
    BY <1>1 DEF RetryCommit, EndRequest, IdleRequest, TypeOK, RequestsOK
<1>2. ASSUME NEW w \in Workers, Complete(w)
      PROVE  wk[w].pc = "completing" /\ wk'[w].pc # wk[w].pc
  <2> DEFINE u == [wk[w] EXCEPT !.pc = "reporting", !.status = Expired,
                      !.stage = Expired, !.doc = "completed", !.had = FALSE]
  <2>1. Move(w, u) /\ u.pc = "reporting" /\ wk[w].pc = "completing"
    BY <1>2 DEF Complete, TypeOK, WorkersOK, WorkerState
  <2> HIDE DEF u
  <2> QED
    BY <2>1 DEF TypeOK, WorkersOK
<1>3. ASSUME NEW w \in Workers, FailCommit(w)
      PROVE  wk[w].pc = "failing" /\ wk'[w].pc # wk[w].pc
    BY <1>3 DEF FailCommit, EndWork, IdleWorker, TypeOK, WorkersOK
<1> QED
    BY <1>1, <1>2, <1>3, StatusChanges

\* No claim, no report of a stage and no cleanup revives a cancelled job: only the
\* ending commit of a worker, or a retry that was decided on an older read.
THEOREM OnlyStaleWritesRevive == Spec => CancelUndoneOnlyByStaleWrite
<1>1. TypeOK /\ [Next]_vars =>
        [\A j \in Jobs : job[j].status = "cancelled" /\ job'[j].status # "cancelled" =>
           \/ \E w \in Workers : wk[w].pc \in {"completing", "failing"} /\ wk[w].job = j
                                 /\ wk'[w].pc # wk[w].pc
           \/ \E s \in Sessions : req[s].op = "retry" /\ req[s].job = j
                                  /\ req'[s].op # "retry"]_vars
    BY RevivedByStaleWrite
<1> QED
    BY <1>1, TypeCorrect, PTL DEF Spec, CancelUndoneOnlyByStaleWrite

-----------------------------------------------------------------------------
(* Documents: completed ones can be reviewed, processing ones are worked on. *)

\* Who changes the status of a document to completed or to processing, and that
\* parsed text is never taken away.
LEMMA DocumentChanges ==
    ASSUME TypeOK, [Next]_vars, NEW d \in Docs
    PROVE  /\ doc[d].parsed => doc'[d].parsed
           /\ doc'[d].status = "completed" /\ doc[d].status # "completed" =>
                \E w \in Workers : Complete(w) /\ job[wk[w].job].doc = d
           /\ doc'[d].status = "processing" /\ doc[d].status # "processing" =>
                \E w \in Workers : Start(w) /\ job[wk[w].job].doc = d
<1> DEFINE Goal == /\ doc[d].parsed => doc'[d].parsed
                   /\ doc'[d].status = "completed" /\ doc[d].status # "completed" =>
                        \E w \in Workers : Complete(w) /\ job[wk[w].job].doc = d
                   /\ doc'[d].status = "processing" /\ doc[d].status # "processing" =>
                        \E w \in Workers : Start(w) /\ job[wk[w].job].doc = d
<1>1. CASE UNCHANGED doc
    BY <1>1
<1>2. ASSUME NEW c \in Docs, NEW st, SetDoc(c, st)
      PROVE  /\ doc'[d].parsed = doc[d].parsed
             /\ doc'[d].status = IF d = c THEN st ELSE doc[d].status
    BY <1>2 DEF SetDoc, TypeOK, TablesOK
\* Requests write queued or uploaded.
<1>3. ASSUME NEW s \in Sessions, CreateCommit(s) \/ RetryCommit(s) \/ CancelCommit(s)
      PROVE  Goal
  <2>1. req[s].target \in Docs
    BY <1>3 DEF CreateCommit, RetryCommit, CancelCommit, TypeOK, RequestsOK
  <2>2. PICK st \in {"queued", "uploaded", doc[req[s].target].status} :
            SetDoc(req[s].target, st)
    BY <1>3 DEF CreateCommit, RetryCommit, CancelCommit, Flush
  <2> QED
    BY <2>1, <2>2, <1>2
<1>4. ASSUME NEW w \in Workers, Start(w) PROVE Goal
  <2>1. job[wk[w].job].doc \in Docs
    BY <1>4, WorkerHolds DEF Start
  <2>2. PICK st \in {"processing", doc[job[wk[w].job].doc].status} :
            SetDoc(job[wk[w].job].doc, st)
    BY <1>4 DEF Start, Flush
  <2> QED
    BY <2>1, <2>2, <1>2, <1>4
<1>5. ASSUME NEW w \in Workers, ParseDone(w) PROVE Goal
    BY <1>5 DEF ParseDone, TypeOK, TablesOK
<1>6. ASSUME NEW w \in Workers, Complete(w) PROVE Goal
  <2>1. job[wk[w].job].doc \in Docs /\ SetDoc(job[wk[w].job].doc, "completed")
    BY <1>6, WorkerHolds DEF Complete
  <2> QED
    BY <2>1, <1>2, <1>6
<1>7. ASSUME NEW w \in Workers, FailCommit(w) \/ Finalize(w) PROVE Goal
  <2>1. job[wk[w].job].doc \in Docs
    BY <1>7, WorkerHolds DEF FailCommit, Finalize
  <2>2. PICK st \in {"failed", "uploaded", doc[job[wk[w].job].doc].status} :
            SetDoc(job[wk[w].job].doc, st)
    BY <1>7 DEF FailCommit, Finalize, Flush
  <2> QED
    BY <2>1, <2>2, <1>2
<1>8. ASSUME NEW s \in Sessions, NewRequest(s) \/ RequestStep(s) PROVE Goal
    BY <1>1, <1>3, <1>8 DEF NewRequest, RequestStep, CreateRead, RetryRead, CancelRead,
           DropRequest, CreateAudit
<1>9. ASSUME NEW w \in Workers, WorkerStep(w) \/ Crash(w) PROVE Goal
  <2>1. CASE \/ ClaimPostgres(w) \/ ClaimSqlite(w) \/ SelectCandidate(w) \/ ClaimMissed(w)
             \/ PollEmpty(w) \/ ReportParsing(w) \/ Report(w) \/ FinalCheck(w)
             \/ ReportCompleted(w) \/ Raise(w) \/ Crash(w) \/ CompleteConflict(w)
    BY <2>1, <1>1 DEF ClaimPostgres, ClaimSqlite, Claim, SelectCandidate, ClaimMissed,
           PollEmpty, ReportParsing, Report, FinalCheck, ReportCompleted, Raise, Crash,
           CompleteConflict, Die, vars
  <2> QED
    BY <1>9, <2>1, <1>4, <1>5, <1>6, <1>7 DEF WorkerStep
<1> QED
    BY <1>1, <1>8, <1>9 DEF Next, vars

\* A step moves only the worker that takes it.
LEMMA OnlyOneMoves ==
    ASSUME TypeOK, [Next]_vars, NEW v \in Workers, wk'[v] # wk[v]
    PROVE  WorkerStep(v) \/ Crash(v)
<1>1. ASSUME NEW w \in Workers, NEW u, Move(w, u) PROVE w = v
    BY <1>1 DEF TypeOK, WorkersOK
<1>2. ASSUME NEW w \in Workers, WorkerStep(w) \/ Crash(w) PROVE w = v
  <2>1. UNCHANGED wk \/ \E u : Move(w, u)
    <3>1. CASE \/ ClaimPostgres(w) \/ ClaimSqlite(w) \/ SelectCandidate(w)
               \/ ClaimMissed(w) \/ PollEmpty(w)
      BY <3>1 DEF ClaimPostgres, ClaimSqlite, Claim, SelectCandidate, ClaimMissed,
             PollEmpty, EndWork, vars
    <3>2. CASE \/ Start(w) \/ ParseDone(w) \/ ReportParsing(w) \/ Report(w)
               \/ FinalCheck(w) \/ Complete(w) \/ Raise(w)
      BY <3>2, StaysOnJob
    <3>3. CASE \/ ReportCompleted(w) \/ FailCommit(w) \/ Finalize(w) \/ Crash(w)
               \/ CompleteConflict(w)
      BY <3>3 DEF ReportCompleted, FailCommit, Finalize, Crash, CompleteConflict, Die,
             EndWork
    <3> QED
      BY <1>2, <3>1, <3>2, <3>3 DEF WorkerStep
  <2> QED
    BY <2>1, <1>1
<1>3. ASSUME NEW s \in Sessions, NewRequest(s) \/ RequestStep(s) PROVE UNCHANGED wk
    BY <1>3 DEF NewRequest, RequestStep, CreateRead, RetryRead, CancelRead,
           DropRequest, CreateCommit, CreateAudit, RetryCommit, CancelCommit
<1> QED
    BY <1>2, <1>3 DEF Next, vars

\* No step deletes a row or gives a job another document.
LEMMA RowsStay == TypeOK /\ [Next]_vars => RowsPersist
<1> SUFFICES ASSUME TypeOK, [Next]_vars PROVE RowsPersist
    OBVIOUS
<1>1. CASE UNCHANGED job
    BY <1>1, SameRows
<1>2. ASSUME NEW j \in Jobs, NEW row, SetJob(j, row), job[j].status # Absent =>
             row.status # Absent /\ row.doc = job[j].doc
      PROVE  RowsPersist
    BY <1>2 DEF RowsPersist, TypeOK, TablesOK
<1>3. ASSUME NEW s \in Sessions, CreateCommit(s) PROVE RowsPersist
    BY <1>3 DEF CreateCommit, RowsPersist, TypeOK, TablesOK
<1>4. ASSUME NEW s \in Sessions, NEW st \in {"queued", "cancelled"}, NEW sg, NEW wn,
             req[s].job \in Jobs,
             SetJob(req[s].job, [job[req[s].job] EXCEPT !.status = st, !.stage = sg,
                                                        !.worker = wn])
      PROVE  RowsPersist
    BY <1>4 DEF RowsPersist, TypeOK, TablesOK, JobRow
<1>5. ASSUME NEW s \in Sessions, RetryCommit(s) \/ CancelCommit(s) PROVE RowsPersist
  <2>1. req[s].job \in Jobs
    BY <1>5 DEF RetryCommit, CancelCommit, TypeOK, RequestsOK
  <2> QED
    BY <2>1, <1>4, <1>5 DEF RetryCommit, CancelCommit
<1>6. ASSUME NEW w \in Workers, NEW j \in Jobs, Claim(w, j) PROVE RowsPersist
    BY <1>6 DEF Claim, ClaimedRow, RowsPersist, TypeOK, TablesOK, JobRow
<1>7. ASSUME NEW w \in Workers, Start(w) \/ ReportParsing(w) \/ Report(w) PROVE RowsPersist
  <2>1. wk[w].job \in Jobs
    BY <1>7, WorkerHolds DEF Start, ReportParsing, Report, ReportedStage
  <2>2. PICK sg : job' = [job EXCEPT ![wk[w].job] = [job[wk[w].job] EXCEPT !.stage = sg]]
    BY <1>7 DEF Start, ReportParsing, Report
  <2> QED
    BY <2>1, <2>2 DEF RowsPersist, TypeOK, TablesOK, JobRow
<1>8. ASSUME NEW w \in Workers, NEW new \in {"completed", "failed"}, wk[w].pc # "idle",
             NEW sg, job' = [job EXCEPT ![wk[w].job] = [job[wk[w].job] EXCEPT
                           !.status = Flush(wk[w].status, new, @), !.stage = sg]]
      PROVE  RowsPersist
  <2>1. wk[w].job \in Jobs /\ job[wk[w].job].status # Absent
    BY <1>8, WorkerHolds
  <2> QED
    BY <1>8, <2>1 DEF RowsPersist, TypeOK, TablesOK, JobRow, Flush
<1>9. ASSUME NEW w \in Workers, Complete(w) \/ FailCommit(w) PROVE RowsPersist
    BY <1>8, <1>9 DEF Complete, FailCommit, FailedRow
<1>10. ASSUME NEW s \in Sessions, NewRequest(s) \/ RequestStep(s) PROVE RowsPersist
    BY <1>1, <1>3, <1>5, <1>10 DEF NewRequest, RequestStep, CreateRead, RetryRead, CancelRead,
           DropRequest, CreateAudit
<1>11. ASSUME NEW w \in Workers, WorkerStep(w) \/ Crash(w) PROVE RowsPersist
  <2>1. CASE ClaimPostgres(w) \/ ClaimSqlite(w)
    BY <2>1, <1>6, WorkerHolds DEF ClaimPostgres, ClaimSqlite
  <2>2. CASE \/ SelectCandidate(w) \/ ClaimMissed(w) \/ PollEmpty(w) \/ ParseDone(w)
             \/ FinalCheck(w) \/ ReportCompleted(w) \/ Raise(w) \/ Finalize(w)
             \/ Crash(w) \/ CompleteConflict(w)
    BY <2>2, <1>1 DEF SelectCandidate, ClaimMissed, PollEmpty, ParseDone, FinalCheck,
           ReportCompleted, Raise, Finalize, Crash, CompleteConflict, Die, vars
  <2> QED
    BY <1>11, <2>1, <2>2, <1>7, <1>9 DEF WorkerStep
<1> QED
    BY <1>1, <1>10, <1>11 DEF Next, vars

\* A worker past the parse works on a document whose parsed text is stored.
PastParse == Executing \cup {"completing"}

ReviewableInv ==
    /\ \A w \in Workers : wk[w].pc \in PastParse => doc[job[wk[w].job].doc].parsed
    /\ \A j \in Jobs : result[j] => job[j].status # Absent
    /\ CompletedDocumentIsReviewable

\* A worker comes past the parse by storing the parsed text, and stays there on
\* its job.
LEMMA PastParseStep ==
    ASSUME TypeOK, NEW w \in Workers, WorkerStep(w) \/ Crash(w), wk'[w].pc \in PastParse
    PROVE  /\ wk[w].pc \in Holding /\ wk'[w].job = wk[w].job
           /\ wk[w].pc \in PastParse \/ ParseDone(w)
<1> DEFINE Claiming == ClaimPostgres(w) \/ SelectCandidate(w) \/ ClaimSqlite(w)
                       \/ ClaimMissed(w) \/ PollEmpty(w)
           Ending == ReportCompleted(w) \/ FailCommit(w) \/ Finalize(w) \/ Crash(w)
                     \/ CompleteConflict(w)
<1>0. \A u : Move(w, u) => wk'[w] = u
    BY DEF TypeOK, WorkersOK
<1>1. ~Ending
  <2>1. Ending => wk'[w].pc = "idle"
    BY <1>0 DEF ReportCompleted, FailCommit, Finalize, Crash, CompleteConflict, Die,
           EndWork, IdleWorker
  <2> QED
    BY <2>1 DEF PastParse, Executing
<1>2. ~Claiming
  <2>1. ASSUME Claiming PROVE wk'[w].pc \in {"idle", "selected", "claimed"}
    <3>1. wk[w] \in WorkerState
      BY DEF TypeOK, WorkersOK
    <3>2. ASSUME NEW j, Claim(w, j) PROVE wk'[w].pc = "claimed"
      BY <3>2, <1>0 DEF Claim, IdleWorker
    <3>3. ASSUME SelectCandidate(w) PROVE wk'[w].pc = "selected"
      BY <3>3, <1>0 DEF SelectCandidate, IdleWorker
    <3>4. ASSUME ClaimMissed(w) PROVE wk'[w].pc \in {"idle", "selected"}
      <4>1. CASE EndWork(w)
        BY <4>1, <1>0 DEF EndWork, IdleWorker
      <4>2. ASSUME NEW i, NEW n, Move(w, [wk[w] EXCEPT !.job = i, !.tries = n])
            PROVE  wk'[w].pc = wk[w].pc
        BY <4>2, <3>1, <1>0 DEF WorkerState
      <4> QED
        BY <3>4, <4>1, <4>2 DEF ClaimMissed
    <3>5. PollEmpty(w) => wk'[w].pc = "idle"
      BY DEF PollEmpty, vars
    <3> QED
      BY <2>1, <3>2, <3>3, <3>4, <3>5 DEF ClaimPostgres, ClaimSqlite
  <2> QED
    BY <2>1 DEF PastParse, Executing
<1>3. ASSUME \/ Start(w) \/ ParseDone(w) \/ ReportParsing(w) \/ Report(w) \/ FinalCheck(w)
             \/ Complete(w) \/ Raise(w)
      PROVE  wk[w].pc \in Holding /\ wk'[w].job = wk[w].job
    BY <1>0, <1>3, StaysOnJob
<1>4. wk[w] \in WorkerState
    BY DEF TypeOK, WorkersOK
<1>5. ~Start(w)
  <2>1. ASSUME NEW st, Move(w, [wk[w] EXCEPT !.pc = "parsing", !.stage = Expired, !.doc = st])
        PROVE  wk'[w].pc = "parsing"
    <3> DEFINE u == [wk[w] EXCEPT !.pc = "parsing", !.stage = Expired, !.doc = st]
    <3>1. Move(w, u)
      BY <2>1
    <3>2. u.pc = "parsing"
      BY <1>4 DEF WorkerState
    <3> HIDE DEF u
    <3> QED
      BY <3>1, <3>2, <1>0
  <2>2. Start(w) => wk'[w].pc = "parsing"
    BY <2>1 DEF Start
  <2> QED
    BY <2>2 DEF PastParse, Executing
<1>6. ~Complete(w)
  <2> DEFINE u == [wk[w] EXCEPT !.pc = "reporting", !.status = Expired,
                      !.stage = Expired, !.doc = "completed", !.had = FALSE]
  <2>1. u.pc = "reporting" /\ (Complete(w) => Move(w, u))
    BY <1>4 DEF Complete, WorkerState
  <2> HIDE DEF u
  <2>2. Complete(w) => wk'[w].pc = "reporting"
    BY <2>1, <1>0
  <2> QED
    BY <2>2 DEF PastParse, Executing
<1>7. ~Raise(w)
  <2>1. Raise(w) => wk'[w].pc \in {"finalizing", "failing"}
    BY <1>0, <1>4 DEF Raise, WorkerState
  <2> QED
    BY <2>1 DEF PastParse, Executing
<1>8. ReportParsing(w) \/ Report(w) \/ FinalCheck(w) => wk[w].pc \in PastParse
    BY DEF ReportParsing, Report, ReportedStage, FinalCheck, PastParse, Executing
<1> QED
    BY <1>1, <1>2, <1>3, <1>5, <1>6, <1>7, <1>8 DEF WorkerStep

\* Every step keeps the parsed texts and the results of completed documents.
LEMMA ReviewableStep ==
    ASSUME TypeOK, ReviewableInv, [Next]_vars
    PROVE  ReviewableInv'
<1>1. RowsPersist
    BY RowsStay
<1>2. ASSUME NEW w \in Workers, wk'[w].pc \in PastParse
      PROVE  doc'[job'[wk'[w].job].doc].parsed
  <2>1. CASE wk'[w] = wk[w]
    <3>1. /\ wk[w].job \in Jobs /\ job[wk[w].job].status # Absent
          /\ job[wk[w].job].doc \in Docs
      BY <1>2, <2>1, WorkerHolds DEF PastParse, Executing
    <3>2. job'[wk[w].job].doc = job[wk[w].job].doc
      BY <1>1, <3>1 DEF RowsPersist
    <3> QED
      BY <1>2, <2>1, <3>1, <3>2, DocumentChanges DEF ReviewableInv
  <2>2. CASE wk'[w] # wk[w]
    <3>1. /\ wk[w].pc \in Holding /\ wk'[w].job = wk[w].job
          /\ wk[w].pc \in PastParse \/ ParseDone(w)
      BY <1>2, <2>2, OnlyOneMoves, PastParseStep
    <3>2. /\ wk[w].job \in Jobs /\ job[wk[w].job].status # Absent
          /\ job[wk[w].job].doc \in Docs
      BY <3>1, WorkerHolds DEF Holding, Executing
    <3>3. job'[wk[w].job].doc = job[wk[w].job].doc
      BY <1>1, <3>2 DEF RowsPersist
    <3>4. ParseDone(w) => doc'[job[wk[w].job].doc].parsed
      BY <3>2 DEF ParseDone, TypeOK, TablesOK
    <3> QED
      BY <3>1, <3>2, <3>3, <3>4, DocumentChanges DEF ReviewableInv
  <2> QED
    BY <2>1, <2>2
<1>3. ASSUME NEW w \in Workers, Complete(w)
      PROVE  /\ wk[w].job \in Jobs /\ job[wk[w].job].status # Absent
             /\ doc[job[wk[w].job].doc].parsed /\ result'[wk[w].job]
  <2>1. wk[w].pc = "completing" /\ wk[w].job \in Jobs /\ job[wk[w].job].status # Absent
    BY <1>3, WorkerHolds DEF Complete
  <2> QED
    BY <1>3, <2>1 DEF Complete, ReviewableInv, PastParse, TypeOK, TablesOK
<1>4. ASSUME NEW j \in Jobs, result'[j] PROVE job'[j].status # Absent
  <2>1. job[j].status # Absent
    BY <1>3, <1>4, ResultStays DEF ReviewableInv
  <2> QED
    BY <1>1, <2>1 DEF RowsPersist
<1>5. ASSUME NEW d \in Docs, doc'[d].status = "completed"
      PROVE  doc'[d].parsed /\ \E j \in Jobs : job'[j].doc = d /\ result'[j]
  <2>1. CASE doc[d].status = "completed"
    <3>1. doc[d].parsed /\ \E j \in Jobs : job[j].doc = d /\ result[j]
      BY <2>1 DEF ReviewableInv, CompletedDocumentIsReviewable
    <3>2. PICK j \in Jobs : job[j].doc = d /\ result[j]
      BY <3>1
    <3>3. job'[j].doc = d /\ result'[j]
      BY <1>1, <3>2, ResultStays DEF ReviewableInv, RowsPersist
    <3> QED
      BY <3>1, <3>3, DocumentChanges
  <2>2. CASE doc[d].status # "completed"
    <3>1. PICK w \in Workers : Complete(w) /\ job[wk[w].job].doc = d
      BY <1>5, <2>2, DocumentChanges
    <3>2. job'[wk[w].job].doc = d
      BY <1>1, <1>3, <3>1 DEF RowsPersist
    <3> QED
      BY <1>3, <3>1, <3>2, DocumentChanges
  <2> QED
    BY <2>1, <2>2
<1> QED
    BY <1>2, <1>4, <1>5 DEF ReviewableInv, CompletedDocumentIsReviewable

\* A document shown as completed has its parsed text and a job with a result, however
\* the jobs of the document overlap.
THEOREM CompletedAlwaysReviewable == Spec => []CompletedDocumentIsReviewable
<1>1. Init => ReviewableInv
    BY DEF Init, ReviewableInv, CompletedDocumentIsReviewable, IdleWorker, PastParse, Executing
<1>2. TypeOK /\ ReviewableInv /\ [Next]_vars => ReviewableInv'
    BY ReviewableStep
<1>3. ReviewableInv => CompletedDocumentIsReviewable
    BY DEF ReviewableInv
<1> QED
    BY <1>1, <1>2, <1>3, TypeCorrect, PTL DEF Spec

\* A worker that will still take the document out of processing: the status it has
\* loaded, if any, is not the one it is going to write.
WillSettle(w, d) ==
    /\ wk[w].pc \in Holding \ {"reporting"}
    /\ job[wk[w].job].doc = d
    /\ wk[w].doc \in {"processing", Expired}

ProcessingInv ==
    /\ \A jw \in orphans : job[jw[1]].status # Absent
    /\ \A d \in Docs : doc[d].status = "processing" =>
         \/ \E w \in Workers : WillSettle(w, d)
         \/ \E jw \in orphans : job[jw[1]].doc = d

\* What a worker's step leaves in its frame.
LEMMA FrameAfter ==
    ASSUME TypeOK, NEW w \in Workers, wk[w].pc \in Holding
    PROVE  /\ Start(w) =>
                /\ wk'[w].pc = "parsing" /\ wk'[w].job = wk[w].job
                /\ wk'[w].doc = Flush(wk[w].doc, "processing", doc[job[wk[w].job].doc].status)
                /\ doc'[job[wk[w].job].doc].status = wk'[w].doc
           /\ ParseDone(w) =>
                /\ wk'[w].pc \in {"finalizing", "checked"} /\ wk'[w].job = wk[w].job
                /\ wk'[w].doc \in {Expired, doc[job[wk[w].job].doc].status}
           /\ ReportParsing(w) \/ Report(w) \/ FinalCheck(w) \/ Raise(w) =>
                /\ wk'[w].pc \in Holding \ {"reporting"} /\ wk'[w].job = wk[w].job
                /\ wk'[w].doc \in {Expired, wk[w].doc}
<1>0. \A u : Move(w, u) => wk'[w] = u
    BY DEF TypeOK, WorkersOK
<1>1. wk[w] \in WorkerState /\ job[wk[w].job].doc \in Docs
    BY WorkerHolds DEF Holding, Executing
<1>2. ASSUME Start(w)
      PROVE  /\ wk'[w].pc = "parsing" /\ wk'[w].job = wk[w].job
             /\ wk'[w].doc = Flush(wk[w].doc, "processing", doc[job[wk[w].job].doc].status)
             /\ doc'[job[wk[w].job].doc].status = wk'[w].doc
  <2> DEFINE st == Flush(wk[w].doc, "processing", doc[job[wk[w].job].doc].status)
             u == [wk[w] EXCEPT !.pc = "parsing", !.stage = Expired, !.doc = st]
  <2>1. Move(w, u) /\ SetDoc(job[wk[w].job].doc, st)
    BY <1>2 DEF Start
  <2> HIDE DEF st
  <2>2. u.pc = "parsing" /\ u.job = wk[w].job /\ u.doc = st
    BY <1>1 DEF WorkerState
  <2> HIDE DEF u
  <2>3. wk'[w] = u
    BY <2>1, <1>0
  <2>4. doc'[job[wk[w].job].doc].status = st
    BY <2>1, <1>1 DEF SetDoc, TypeOK, TablesOK
  <2> QED
    BY <2>2, <2>3, <2>4 DEF st
<1>3. ASSUME ParseDone(w)
      PROVE  /\ wk'[w].pc \in {"finalizing", "checked"} /\ wk'[w].job = wk[w].job
             /\ wk'[w].doc \in {Expired, doc[job[wk[w].job].doc].status}
  <2> DEFINE now == doc[job[wk[w].job].doc].status
             u == [wk[w] EXCEPT !.pc = "finalizing", !.doc = Expired]
             v == [wk[w] EXCEPT !.pc = "checked", !.stage = job[wk[w].job].stage,
                                !.doc = now]
  <2>1. Move(w, u) \/ Move(w, v)
    BY <1>3 DEF ParseDone
  <2> HIDE DEF now
  <2>2. /\ u.pc = "finalizing" /\ u.job = wk[w].job /\ u.doc = Expired
        /\ v.pc = "checked" /\ v.job = wk[w].job /\ v.doc = now
    BY <1>1 DEF WorkerState
  <2> HIDE DEF u, v
  <2>3. wk'[w] = u \/ wk'[w] = v
    BY <2>1, <1>0
  <2> QED
    BY <2>2, <2>3 DEF now
<1>4. ASSUME ReportParsing(w)
      PROVE  wk'[w].pc = "redacting" /\ wk'[w].job = wk[w].job /\ wk'[w].doc = Expired
  <2> DEFINE u == [wk[w] EXCEPT !.pc = "redacting", !.stage = Expired, !.doc = Expired]
  <2>1. Move(w, u) /\ u.pc = "redacting" /\ u.job = wk[w].job /\ u.doc = Expired
    BY <1>1, <1>4 DEF ReportParsing, WorkerState
  <2> HIDE DEF u
  <2> QED
    BY <2>1, <1>0
<1>5. ASSUME Report(w)
      PROVE  /\ wk'[w].pc \in {"extracting", "validating", "calculating"}
             /\ wk'[w].job = wk[w].job /\ wk'[w].doc = wk[w].doc
  <2>1. PICK stage \in {"extracting", "validating", "calculating"} :
            Move(w, [wk[w] EXCEPT !.pc = stage])
    <3>1. wk[w].pc \in {"redacting", "extracting", "validating"}
      BY <1>5 DEF Report, ReportedStage
    <3>2. ReportedStage[wk[w].pc] \in {"extracting", "validating", "calculating"}
      BY <3>1 DEF ReportedStage
    <3> QED
      BY <1>5, <3>2 DEF Report
  <2> DEFINE u == [wk[w] EXCEPT !.pc = stage]
  <2>2. Move(w, u)
    BY <2>1
  <2>3. u.pc = stage /\ u.job = wk[w].job /\ u.doc = wk[w].doc
    BY <1>1 DEF WorkerState
  <2> HIDE DEF u
  <2> QED
    BY <2>1, <2>2, <2>3, <1>0
<1>6. ASSUME FinalCheck(w)
      PROVE  /\ wk'[w].pc \in {"finalizing", "completing"}
             /\ wk'[w].job = wk[w].job /\ wk'[w].doc = wk[w].doc
  <2> DEFINE u == [wk[w] EXCEPT !.pc = "finalizing"]
             v == [wk[w] EXCEPT !.pc = "completing", !.status = job[wk[w].job].status,
                                !.stage = job[wk[w].job].stage, !.had = result[wk[w].job]]
  <2>1. Move(w, u) \/ Move(w, v)
    BY <1>6 DEF FinalCheck
  <2>2. /\ u.pc = "finalizing" /\ u.job = wk[w].job /\ u.doc = wk[w].doc
        /\ v.pc = "completing" /\ v.job = wk[w].job /\ v.doc = wk[w].doc
    BY <1>1 DEF WorkerState
  <2> HIDE DEF u, v
  <2> QED
    BY <2>1, <2>2, <1>0
<1>7. ASSUME Raise(w)
      PROVE  /\ wk'[w].pc \in {"finalizing", "failing"}
             /\ wk'[w].job = wk[w].job /\ wk'[w].doc = wk[w].doc
  <2> DEFINE u == [wk[w] EXCEPT !.pc = "finalizing", !.stage = Expired]
             v == [wk[w] EXCEPT !.pc = "failing", !.status = job[wk[w].job].status,
                                !.stage = job[wk[w].job].stage]
  <2>1. Move(w, u) \/ Move(w, v)
    BY <1>7 DEF Raise
  <2>2. /\ u.pc = "finalizing" /\ u.job = wk[w].job /\ u.doc = wk[w].doc
        /\ v.pc = "failing" /\ v.job = wk[w].job /\ v.doc = wk[w].doc
    BY <1>1 DEF WorkerState
  <2> HIDE DEF u, v
  <2> QED
    BY <2>1, <2>2, <1>0
<1> QED
    BY <1>2, <1>3, <1>4, <1>5, <1>6, <1>7 DEF Holding, Executing

\* A worker that will settle a document still will after any step of its own, has
\* settled it, or has died.
LEMMA SettlerStep ==
    ASSUME TypeOK, RowsPersist, NEW w \in Workers, WorkerStep(w) \/ Crash(w), NEW d \in Docs,
           WillSettle(w, d), doc[d].status = "processing", doc'[d].status = "processing"
    PROVE  \/ WillSettle(w, d)'
           \/ \E jw \in orphans' : job'[jw[1]].doc = d
<1> DEFINE j == wk[w].job
<1>1. /\ wk[w].pc \in Holding /\ wk[w].pc # "reporting" /\ j \in Jobs /\ job[j].doc = d
      /\ wk[w].doc \in {"processing", Expired} /\ job[j].status # Absent
    BY WorkerHolds DEF WillSettle, Holding, Executing
<1>2. job'[j].doc = d
    BY <1>1 DEF RowsPersist
<1>3. ASSUME wk'[w].pc \in Holding \ {"reporting"}, wk'[w].job = j,
             wk'[w].doc \in {"processing", Expired}
      PROVE  WillSettle(w, d)'
    BY <1>2, <1>3 DEF WillSettle
<1>4. CASE Start(w)
  <2>1. Flush(wk[w].doc, "processing", doc[d].status) = "processing"
    BY DEF Flush
  <2> QED
    BY <1>1, <1>3, <1>4, <2>1, FrameAfter DEF Holding
<1>5. CASE ParseDone(w)
    BY <1>1, <1>3, <1>5, FrameAfter DEF Holding, Executing
<1>6. CASE ReportParsing(w) \/ Report(w) \/ FinalCheck(w) \/ Raise(w)
    BY <1>1, <1>3, <1>6, FrameAfter
<1>7. ASSUME NEW st, SetDoc(d, st) PROVE st = "processing"
    BY <1>7 DEF SetDoc, TypeOK, TablesOK
<1>8. CASE Complete(w)
    BY <1>1, <1>7, <1>8 DEF Complete
<1>9. CASE FailCommit(w)
    BY <1>1, <1>7, <1>9 DEF FailCommit, Flush
<1>10. CASE Finalize(w)
    BY <1>1, <1>7, <1>10 DEF Finalize, Flush
<1>11. CASE Crash(w) \/ CompleteConflict(w)
  <2>1. <<j, w>> \in orphans'
    BY <1>1, <1>11 DEF Crash, CompleteConflict, Die
  <2> QED
    BY <2>1, <1>2
<1>12. ~ (\/ ClaimPostgres(w) \/ SelectCandidate(w) \/ ClaimSqlite(w) \/ ClaimMissed(w)
          \/ PollEmpty(w) \/ ReportCompleted(w))
    BY <1>1 DEF ClaimPostgres, SelectCandidate, ClaimSqlite, ClaimMissed, PollEmpty,
           ReportCompleted, Holding, Executing
<1> QED
    BY <1>4, <1>5, <1>6, <1>8, <1>9, <1>10, <1>11, <1>12 DEF WorkerStep

\* The death of a worker is only forgotten when that worker claims the job again; it
\* then has loaded the document's status.
LEMMA OrphanStep ==
    ASSUME TypeOK, [Next]_vars, NEW jw \in orphans, jw \notin orphans'
    PROVE  \E w \in Workers : /\ wk'[w].pc = "claimed" /\ wk'[w].job = jw[1]
                              /\ wk'[w].doc = doc[job[jw[1]].doc].status
<1>1. ASSUME NEW w \in Workers, NEW j \in Jobs, Claim(w, j)
      PROVE  /\ wk'[w].pc = "claimed" /\ wk'[w].job = jw[1]
             /\ wk'[w].doc = doc[job[jw[1]].doc].status
  <2>1. jw = <<j, w>>
    BY <1>1 DEF Claim
  <2> DEFINE now == doc[job[j].doc].status
             u == [IdleWorker EXCEPT !.pc = "claimed", !.job = j, !.stage = job[j].stage,
                                     !.doc = now]
  <2>2. wk'[w] = u
    BY <1>1 DEF Claim, TypeOK, WorkersOK
  <2> HIDE DEF now
  <2>3. u.pc = "claimed" /\ u.job = j /\ u.doc = now
    BY DEF IdleWorker
  <2> HIDE DEF u
  <2> QED
    BY <2>1, <2>2, <2>3 DEF now
<1>2. ASSUME NEW s \in Sessions, NewRequest(s) \/ RequestStep(s) PROVE UNCHANGED orphans
    BY <1>2 DEF NewRequest, RequestStep, CreateRead, RetryRead, CancelRead,
           DropRequest, CreateCommit, CreateAudit, RetryCommit, CancelCommit
<1>3. ASSUME NEW w \in Workers, WorkerStep(w) \/ Crash(w)
      PROVE  orphans \subseteq orphans' \/ \E j \in Jobs : Claim(w, j)
  <2>1. CASE ClaimPostgres(w) \/ ClaimSqlite(w)
    BY <2>1, WorkerHolds DEF ClaimPostgres, ClaimSqlite
  <2>2. CASE Crash(w) \/ CompleteConflict(w)
    BY <2>2 DEF Crash, CompleteConflict, Die
  <2> QED
    BY <1>3, <2>1, <2>2 DEF WorkerStep, SelectCandidate, ClaimMissed, PollEmpty, Start,
           ParseDone, ReportParsing, Report, FinalCheck, Complete, ReportCompleted, Raise,
           FailCommit, Finalize, vars
<1> QED
    BY <1>1, <1>2, <1>3 DEF Next, vars

\* A worker that dies held a row that exists.
LEMMA OrphansAreRows ==
    ASSUME TypeOK, [Next]_vars, ProcessingInv
    PROVE  \A jw \in orphans' : job'[jw[1]].status # Absent
<1> SUFFICES ASSUME NEW jw \in orphans' PROVE job'[jw[1]].status # Absent
    OBVIOUS
<1>1. RowsPersist
    BY RowsStay
<1>2. jw \in orphans => job'[jw[1]].status # Absent
    BY <1>1 DEF ProcessingInv, RowsPersist, TypeOK, TablesOK
<1>3. ASSUME NEW w \in Workers, Die(w), wk[w].pc \in Holding, jw = <<wk[w].job, w>>
      PROVE  job'[jw[1]].status # Absent
    BY <1>1, <1>3, WorkerHolds DEF RowsPersist, Holding, Executing
<1>4. jw \in orphans \/ \E w \in Workers : /\ Die(w) /\ wk[w].pc \in Holding
                                           /\ jw = <<wk[w].job, w>>
  <2>1. ASSUME NEW w \in Workers, Crash(w) \/ CompleteConflict(w)
        PROVE  jw \in orphans \/ (/\ Die(w) /\ wk[w].pc \in Holding
                                  /\ jw = <<wk[w].job, w>>)
    BY <2>1 DEF Crash, CompleteConflict, Die
  <2>2. ASSUME NEW w \in Workers, WorkerStep(w) \/ Crash(w), jw \notin orphans
        PROVE  Crash(w) \/ CompleteConflict(w)
    BY <2>2 DEF WorkerStep, ClaimPostgres, ClaimSqlite, Claim, SelectCandidate, ClaimMissed,
           PollEmpty, Start, ParseDone, ReportParsing, Report, FinalCheck, Complete,
           ReportCompleted, Raise, FailCommit, Finalize, vars
  <2>3. ASSUME NEW s \in Sessions, NewRequest(s) \/ RequestStep(s) PROVE UNCHANGED orphans
    BY <2>3 DEF NewRequest, RequestStep, CreateRead, RetryRead, CancelRead,
           DropRequest, CreateCommit, CreateAudit, RetryCommit, CancelCommit
  <2> QED
    BY <2>1, <2>2, <2>3 DEF Next, vars
<1> QED
    BY <1>2, <1>3, <1>4

\* Every step keeps somebody, alive or dead, behind a document that is processing.
LEMMA ProcessingStep ==
    ASSUME TypeOK, ProcessingInv, [Next]_vars
    PROVE  ProcessingInv'
<1> SUFFICES ASSUME NEW d \in Docs, doc'[d].status = "processing"
             PROVE  \/ \E w \in Workers : WillSettle(w, d)'
                    \/ \E jw \in orphans' : job'[jw[1]].doc = d
    BY OrphansAreRows DEF ProcessingInv
<1>1. RowsPersist
    BY RowsStay
<1>2. CASE doc[d].status # "processing"
  <2>1. PICK w \in Workers : Start(w) /\ job[wk[w].job].doc = d
    BY <1>2, DocumentChanges
  <2>2. wk[w].pc \in Holding /\ wk[w].job \in Jobs /\ job[wk[w].job].status # Absent
    BY <2>1, WorkerHolds DEF Start, Holding
  <2>3. /\ wk'[w].pc = "parsing" /\ wk'[w].job = wk[w].job
        /\ wk'[w].doc = "processing"
    BY <2>1, <2>2, FrameAfter
  <2>4. job'[wk[w].job].doc = d
    BY <1>1, <2>1, <2>2 DEF RowsPersist
  <2>5. WillSettle(w, d)'
    BY <2>3, <2>4 DEF WillSettle, Holding
  <2> QED
    BY <2>5
<1>3. ASSUME doc[d].status = "processing", NEW w \in Workers, WillSettle(w, d)
      PROVE  \/ WillSettle(w, d)'
             \/ \E jw \in orphans' : job'[jw[1]].doc = d
  <2>1. CASE wk'[w] = wk[w]
    <3>1. wk[w].job \in Jobs /\ job[wk[w].job].status # Absent
      BY <1>3, WorkerHolds DEF WillSettle, Holding, Executing
    <3>2. job'[wk[w].job].doc = d
      BY <1>1, <1>3, <3>1 DEF RowsPersist, WillSettle
    <3> QED
      BY <1>3, <2>1, <3>2 DEF WillSettle
  <2>2. CASE wk'[w] # wk[w]
    BY <1>1, <1>3, <2>2, OnlyOneMoves, SettlerStep
  <2> QED
    BY <2>1, <2>2
<1>4. ASSUME doc[d].status = "processing", NEW jw \in orphans, job[jw[1]].doc = d
      PROVE  \/ \E w \in Workers : WillSettle(w, d)'
             \/ \E kw \in orphans' : job'[kw[1]].doc = d
  <2>1. job'[jw[1]].doc = d
    BY <1>1, <1>4 DEF ProcessingInv, RowsPersist, TypeOK, TablesOK
  <2>2. CASE jw \in orphans'
    BY <2>1, <2>2
  <2>3. CASE jw \notin orphans'
    <3>1. PICK w \in Workers : /\ wk'[w].pc = "claimed" /\ wk'[w].job = jw[1]
                               /\ wk'[w].doc = doc[job[jw[1]].doc].status
      BY <2>3, OrphanStep
    <3>2. WillSettle(w, d)'
      BY <1>4, <2>1, <3>1 DEF WillSettle, Holding
    <3> QED
      BY <3>2
  <2> QED
    BY <2>2, <2>3
<1> QED
    BY <1>2, <1>3, <1>4 DEF ProcessingInv

\* A document shown as processing always has a worker that is still on one of its jobs,
\* or one that died there: no way out of process_once forgets it.
THEOREM ProcessingIsWorked == Spec => []ProcessingDocumentIsWorked
<1>1. Init => ProcessingInv
    BY DEF Init, ProcessingInv
<1>2. TypeOK /\ ProcessingInv /\ [Next]_vars => ProcessingInv'
    BY ProcessingStep
<1>3. ProcessingInv => ProcessingDocumentIsWorked
    BY DEF ProcessingInv, ProcessingDocumentIsWorked, WillSettle
<1> QED
    BY <1>1, <1>2, <1>3, TypeCorrect, PTL DEF Spec

-----------------------------------------------------------------------------
(* Outcomes never outnumber attempts: a claim pays for the outcome that the *)
(* worker it starts may still commit.                                       *)

\* The workers that hold a job, and those of them that may still complete it.
BeforeResult == Executing \cup {"claimed", "parsing", "completing"}
Executors(j) == {w \in Workers : wk[w].pc \in Holding /\ wk[w].job = j}
Unfinished(j) == {w \in Workers : wk[w].pc \in BeforeResult /\ wk[w].job = j}

\* Every outcome in the trail, and every one still to come, has its attempt.
OutcomesInv ==
    \A j \in Jobs :
        /\ job[j].status = Absent => job[j].attempts = 0
        /\ IsFiniteSet(Executors(j)) /\ IsFiniteSet(Unfinished(j))
        /\ audit[j]["job.completed"] + Cardinality(Unfinished(j)) <= job[j].attempts
        /\ audit[j]["job.failed"] + Cardinality(Executors(j)) <= job[j].attempts

\* Cardinalities after a set shrinks, loses a member, or gains at most one.
LEMMA CountShrinks ==
    ASSUME NEW S, IsFiniteSet(S), NEW T \in SUBSET S
    PROVE  /\ IsFiniteSet(T) /\ Cardinality(T) \in Nat /\ Cardinality(S) \in Nat
           /\ Cardinality(T) <= Cardinality(S)
    BY FS_Subset, FS_CardinalityType

LEMMA CountLoses ==
    ASSUME NEW S, IsFiniteSet(S), NEW x \in S, NEW T \in SUBSET (S \ {x})
    PROVE  /\ IsFiniteSet(T) /\ Cardinality(T) \in Nat /\ Cardinality(S) \in Nat
           /\ Cardinality(T) + 1 <= Cardinality(S)
<1>1. IsFiniteSet(S \ {x}) /\ Cardinality(S \ {x}) = Cardinality(S) - 1
    BY FS_RemoveElement
<1>2. IsFiniteSet(T) /\ Cardinality(T) \in Nat /\ Cardinality(T) <= Cardinality(S \ {x})
    BY <1>1, CountShrinks
<1>3. Cardinality(S) \in Nat
    BY FS_CardinalityType
<1> QED
    BY <1>1, <1>2, <1>3

LEMMA CountGains ==
    ASSUME NEW S, IsFiniteSet(S), NEW x, NEW T \in SUBSET (S \cup {x})
    PROVE  /\ IsFiniteSet(T) /\ Cardinality(T) \in Nat /\ Cardinality(S) \in Nat
           /\ Cardinality(T) <= Cardinality(S) + 1
<1>1. /\ IsFiniteSet(S \cup {x})
      /\ Cardinality(S \cup {x}) = IF x \in S THEN Cardinality(S) ELSE Cardinality(S) + 1
    BY FS_AddElement
<1>2. /\ IsFiniteSet(T) /\ Cardinality(T) \in Nat /\ Cardinality(S \cup {x}) \in Nat
      /\ Cardinality(T) <= Cardinality(S \cup {x})
    BY <1>1, CountShrinks
<1>3. Cardinality(S) \in Nat
    BY FS_CardinalityType
<1> QED
    BY <1>1, <1>2, <1>3

\* Attempts are counted by the claim, and start at zero with the row.
LEMMA AttemptsChange ==
    ASSUME TypeOK, [Next]_vars, NEW i \in Jobs, job'[i].attempts # job[i].attempts
    PROVE  \/ job[i].status = Absent /\ job'[i].attempts = 0
           \/ \E w \in Workers : Claim(w, i) /\ job'[i].attempts = job[i].attempts + 1
                                 /\ job[i].status # Absent
<1>0. job' # job
    OBVIOUS
<1>1. ASSUME NEW s \in Sessions, CreateCommit(s)
      PROVE  job[i].status = Absent /\ job'[i].attempts = 0
    BY <1>1 DEF CreateCommit, TypeOK, TablesOK
<1>2. ASSUME NEW j \in Jobs, NEW st, NEW sg, NEW wn,
             SetJob(j, [job[j] EXCEPT !.status = st, !.stage = sg, !.worker = wn])
      PROVE  FALSE
    BY <1>2 DEF TypeOK, TablesOK, JobRow
<1>3. ASSUME NEW j \in Jobs, NEW st, NEW sg,
             SetJob(j, [job[j] EXCEPT !.status = st, !.stage = sg])
      PROVE  FALSE
    BY <1>3 DEF TypeOK, TablesOK, JobRow
<1>4. ASSUME NEW j \in Jobs, NEW sg, SetJob(j, [job[j] EXCEPT !.stage = sg])
      PROVE  FALSE
    BY <1>4 DEF TypeOK, TablesOK, JobRow
<1>5. ASSUME NEW w \in Workers, NEW j \in Jobs, Claim(w, j)
      PROVE  i = j /\ job'[i].attempts = job[i].attempts + 1
  <2>1. i # j => job'[i] = job[i]
    BY <1>5 DEF Claim, TypeOK, TablesOK
  <2>2. job'[j].attempts = job[j].attempts + 1
    BY <1>5 DEF Claim, ClaimedRow, TypeOK, TablesOK, JobRow
  <2> QED
    BY <2>1, <2>2
<1>6. ASSUME NEW s \in Sessions, NewRequest(s) \/ RequestStep(s) PROVE CreateCommit(s)
  <2>1. ASSUME RetryCommit(s) PROVE FALSE
    <3>1. req[s].job \in Jobs
      BY <2>1 DEF RetryCommit, TypeOK, RequestsOK
    <3> QED
      BY <2>1, <3>1, <1>2 DEF RetryCommit
  <2>2. ASSUME CancelCommit(s) PROVE FALSE
    <3>1. req[s].job \in Jobs
      BY <2>2 DEF CancelCommit, TypeOK, RequestsOK
    <3> QED
      BY <2>2, <3>1, <1>2 DEF CancelCommit
  <2> QED
    BY <1>0, <1>6, <2>1, <2>2 DEF NewRequest, RequestStep, CreateRead, RetryRead, CancelRead,
           DropRequest, CreateAudit
<1>7. ASSUME NEW w \in Workers, WorkerStep(w) \/ Crash(w)
      PROVE  \E j \in Jobs : Claim(w, j) /\ job[j].status # Absent
  <2>1. CASE ClaimPostgres(w) \/ ClaimSqlite(w)
    BY <2>1, WorkerHolds DEF ClaimPostgres, ClaimSqlite, Oldest
  <2>2. ~ (\/ SelectCandidate(w) \/ ClaimMissed(w) \/ PollEmpty(w) \/ ParseDone(w)
           \/ FinalCheck(w) \/ ReportCompleted(w) \/ Raise(w) \/ Finalize(w)
           \/ Crash(w) \/ CompleteConflict(w))
    BY <1>0 DEF SelectCandidate, ClaimMissed, PollEmpty, ParseDone, FinalCheck,
           ReportCompleted, Raise, Finalize, Crash, CompleteConflict, Die, vars
  <2>3. ASSUME Start(w) \/ ReportParsing(w) \/ Report(w) PROVE FALSE
    <3>1. wk[w].job \in Jobs
      BY <2>3, WorkerHolds DEF Start, ReportParsing, Report, ReportedStage
    <3>2. PICK sg : job' = [job EXCEPT ![wk[w].job] = [job[wk[w].job] EXCEPT !.stage = sg]]
      BY <2>3 DEF Start, ReportParsing, Report
    <3> QED
      BY <3>1, <3>2, <1>4
  <2>4. ASSUME Complete(w) \/ FailCommit(w) PROVE FALSE
    <3>1. wk[w].job \in Jobs
      BY <2>4, WorkerHolds DEF Complete, FailCommit
    <3>2. PICK st, sg : job' = [job EXCEPT ![wk[w].job] =
                                   [job[wk[w].job] EXCEPT !.status = st, !.stage = sg]]
      BY <2>4 DEF Complete, FailCommit, FailedRow
    <3> QED
      BY <3>1, <3>2, <1>3
  <2> QED
    BY <1>7, <2>1, <2>2, <2>3, <2>4 DEF WorkerStep
<1>8. ~ UNCHANGED vars
    BY <1>0 DEF vars
<1>9. CASE \E s \in Sessions : NewRequest(s) \/ RequestStep(s)
    BY <1>9, <1>6, <1>1
<1>10. CASE \E w \in Workers : WorkerStep(w) \/ Crash(w)
    BY <1>10, <1>7, <1>5
<1> QED
    BY <1>8, <1>9, <1>10 DEF Next

\* An outcome enters the trail with the worker that commits it, and that worker
\* then can commit it no more.
LEMMA OutcomeRecorded ==
    ASSUME TypeOK, [Next]_vars, NEW i \in Jobs
    PROVE  /\ \/ audit'[i]["job.completed"] = audit[i]["job.completed"]
              \/ /\ audit'[i]["job.completed"] = audit[i]["job.completed"] + 1
                 /\ \E w \in Unfinished(i) : Complete(w) /\ wk'[w].pc \notin BeforeResult
           /\ \/ audit'[i]["job.failed"] = audit[i]["job.failed"]
              \/ /\ audit'[i]["job.failed"] = audit[i]["job.failed"] + 1
                 /\ \E w \in Executors(i) : FailCommit(w) /\ wk'[w].pc \notin Holding
<1> DEFINE Same == /\ audit'[i]["job.completed"] = audit[i]["job.completed"]
                   /\ audit'[i]["job.failed"] = audit[i]["job.failed"]
<1>0. \A w \in Workers : \A u : Move(w, u) => wk'[w] = u
    BY DEF TypeOK, WorkersOK
<1>1. CASE UNCHANGED audit
    BY <1>1
<1>2. ASSUME NEW j \in Jobs, NEW e \in Events \ {"job.completed", "job.failed"}, Record(j, e)
      PROVE  Same
    BY <1>2, RecordCounts DEF Events
<1>3. ASSUME NEW s \in Sessions, CreateAudit(s) \/ RetryCommit(s) \/ CancelCommit(s)
      PROVE  Same
  <2>1. req[s].job \in Jobs
    BY <1>3 DEF CreateAudit, RetryCommit, CancelCommit, TypeOK, RequestsOK
  <2> QED
    BY <2>1, <1>2, <1>3 DEF CreateAudit, RetryCommit, CancelCommit, Events
<1>4. ASSUME NEW w \in Workers, Complete(w)
      PROVE  /\ audit'[i]["job.failed"] = audit[i]["job.failed"]
             /\ \/ audit'[i]["job.completed"] = audit[i]["job.completed"]
                \/ /\ audit'[i]["job.completed"] = audit[i]["job.completed"] + 1
                   /\ w \in Unfinished(i) /\ wk'[w].pc \notin BeforeResult
  <2>1. wk[w].job \in Jobs /\ wk[w] \in WorkerState /\ wk[w].pc = "completing"
    BY <1>4, WorkerHolds DEF Complete
  <2> DEFINE u == [wk[w] EXCEPT !.pc = "reporting", !.status = Expired,
                      !.stage = Expired, !.doc = "completed", !.had = FALSE]
  <2>2. u.pc = "reporting" /\ Move(w, u)
    BY <1>4, <2>1 DEF Complete, WorkerState
  <2> HIDE DEF u
  <2>3. wk'[w].pc = "reporting"
    BY <2>2, <1>0
  <2>4. Record(wk[w].job, "job.completed")
    BY <1>4 DEF Complete
  <2> QED
    BY <2>1, <2>3, <2>4, RecordCounts DEF Events, Unfinished, BeforeResult, Executing
<1>5. ASSUME NEW w \in Workers, FailCommit(w)
      PROVE  /\ audit'[i]["job.completed"] = audit[i]["job.completed"]
             /\ \/ audit'[i]["job.failed"] = audit[i]["job.failed"]
                \/ /\ audit'[i]["job.failed"] = audit[i]["job.failed"] + 1
                   /\ w \in Executors(i) /\ wk'[w].pc \notin Holding
  <2>1. wk[w].job \in Jobs /\ wk[w].pc = "failing" /\ wk'[w].pc = "idle"
    BY <1>0, <1>5, WorkerHolds DEF FailCommit, EndWork, IdleWorker
  <2>2. Record(wk[w].job, "job.failed")
    BY <1>5 DEF FailCommit
  <2> QED
    BY <2>1, <2>2, RecordCounts DEF Events, Executors, Holding, Executing
<1>6. ASSUME NEW s \in Sessions, NewRequest(s) \/ RequestStep(s) PROVE Same
    BY <1>1, <1>3, <1>6 DEF NewRequest, RequestStep, CreateRead, RetryRead, CancelRead,
           DropRequest, CreateCommit
<1>7. ASSUME NEW w \in Workers, WorkerStep(w) \/ Crash(w)
      PROVE  UNCHANGED audit \/ Complete(w) \/ FailCommit(w)
    BY <1>7 DEF WorkerStep, ClaimPostgres, ClaimSqlite, Claim, SelectCandidate,
           ClaimMissed, PollEmpty, Start, ParseDone, ReportParsing, Report, FinalCheck,
           CompleteConflict, ReportCompleted, Raise, Finalize, Crash, Die, vars
<1> QED
    BY <1>1, <1>4, <1>5, <1>6, <1>7 DEF Next, vars

\* Only a claim gives a worker a job, or makes one that may complete it.
LEMMA WhoHolds ==
    ASSUME TypeOK, NEW w \in Workers, WorkerStep(w) \/ Crash(w), wk'[w].pc \in Holding
    PROVE  \/ \E j \in Jobs : Claim(w, j) /\ wk'[w].job = j
           \/ /\ wk[w].pc \in Holding /\ wk'[w].job = wk[w].job
              /\ wk'[w].pc \in BeforeResult => wk[w].pc \in BeforeResult
<1>0. \A u : Move(w, u) => wk'[w] = u
    BY DEF TypeOK, WorkersOK
<1>r. wk[w] \in WorkerState
    BY DEF TypeOK, WorkersOK
<1>1. ~ (\/ ReportCompleted(w) \/ FailCommit(w) \/ Finalize(w) \/ Crash(w)
         \/ CompleteConflict(w) \/ SelectCandidate(w))
  <2>1. (\/ ReportCompleted(w) \/ FailCommit(w) \/ Finalize(w) \/ Crash(w)
         \/ CompleteConflict(w)) => wk'[w].pc = "idle"
    BY <1>0 DEF ReportCompleted, FailCommit, Finalize, Crash, CompleteConflict, Die,
           EndWork, IdleWorker
  <2>2. SelectCandidate(w) => wk'[w].pc = "selected"
    BY <1>0 DEF SelectCandidate, IdleWorker
  <2>3. "idle" \notin Holding /\ "selected" \notin Holding
    BY DEF Holding, Executing
  <2> QED
    BY <2>1, <2>2, <2>3
<1>2. ASSUME ClaimMissed(w) PROVE FALSE
  <2>1. ~ EndWork(w)
    BY <1>0 DEF EndWork, IdleWorker, Holding, Executing
  <2>2. ASSUME NEW i, NEW n, Move(w, [wk[w] EXCEPT !.job = i, !.tries = n])
        PROVE  wk'[w].pc = wk[w].pc
    <3> DEFINE u == [wk[w] EXCEPT !.job = i, !.tries = n]
    <3>1. Move(w, u) /\ u.pc = wk[w].pc
      BY <2>2, <1>r DEF WorkerState
    <3> HIDE DEF u
    <3> QED
      BY <3>1, <1>0
  <2>3. wk'[w].pc = "selected"
    BY <1>2, <2>1, <2>2 DEF ClaimMissed
  <2> QED
    BY <2>3 DEF Holding, Executing
<1>3. ~ PollEmpty(w)
    BY DEF PollEmpty, vars, Holding, Executing
<1>4. ASSUME ClaimPostgres(w) \/ ClaimSqlite(w)
      PROVE  \E j \in Jobs : Claim(w, j) /\ wk'[w].job = j
  <2>1. PICK j \in Jobs : Claim(w, j)
    BY <1>4, WorkerHolds DEF ClaimPostgres, ClaimSqlite
  <2>2. wk'[w].job = j
    BY <2>1, <1>0 DEF Claim, IdleWorker
  <2> QED
    BY <2>1, <2>2
<1>5. ASSUME \/ Start(w) \/ ParseDone(w) \/ ReportParsing(w) \/ Report(w) \/ FinalCheck(w)
             \/ Complete(w) \/ Raise(w)
      PROVE  wk[w].pc \in Holding /\ wk'[w].job = wk[w].job
    BY <1>0, <1>5, StaysOnJob
<1>6. Start(w) \/ ParseDone(w) \/ ReportParsing(w) \/ Report(w) \/ FinalCheck(w) \/ Complete(w)
      => wk[w].pc \in BeforeResult
    BY DEF Start, ParseDone, ReportParsing, Report, ReportedStage, FinalCheck, Complete,
           BeforeResult, Executing
<1>7. Raise(w) => wk'[w].pc \in {"finalizing", "failing"}
    BY <1>0, <1>r DEF Raise, WorkerState
<1>8. {"finalizing", "failing"} \cap BeforeResult = {}
    BY DEF BeforeResult, Executing
<1> QED
    BY <1>1, <1>2, <1>3, <1>4, <1>5, <1>6, <1>7, <1>8 DEF WorkerStep

\* Who executes a job after a step: who did before, and the worker that claims it.
LEMMA ExecutorsAfter ==
    ASSUME TypeOK, [Next]_vars, NEW i \in Jobs
    PROVE  /\ \A v \in Executors(i)' : v \in Executors(i) \/ Claim(v, i)
           /\ \A v \in Unfinished(i)' : v \in Unfinished(i) \/ Claim(v, i)
<1>1. ASSUME NEW v \in Workers, wk'[v].pc \in Holding, wk'[v].job = i
      PROVE  \/ Claim(v, i)
             \/ /\ wk[v].pc \in Holding /\ wk[v].job = i
                /\ wk'[v].pc \in BeforeResult => wk[v].pc \in BeforeResult
  <2>1. CASE wk'[v] = wk[v]
    BY <1>1, <2>1
  <2>2. CASE wk'[v] # wk[v]
    BY <1>1, <2>2, OnlyOneMoves, WhoHolds
  <2> QED
    BY <2>1, <2>2
<1>2. BeforeResult \subseteq Holding
    BY DEF BeforeResult, Holding
<1> QED
    BY <1>1, <1>2 DEF Executors, Unfinished

\* A claim of a job is the step of one worker, and records no outcome.
LEMMA ClaimAlone ==
    ASSUME TypeOK, NEW w \in Workers, NEW i \in Jobs, Claim(w, i)
    PROVE  /\ \A v \in Workers : Claim(v, i) => v = w
           /\ UNCHANGED audit /\ job'[i].attempts = job[i].attempts + 1
<1>1. ASSUME NEW v \in Workers, Claim(v, i)
      PROVE  job'[i].worker = v /\ job'[i].attempts = job[i].attempts + 1
  <2>1. job'[i] = ClaimedRow(v, i) /\ job[i] \in JobRow
    BY <1>1 DEF Claim, TypeOK, TablesOK
  <2> QED
    BY <2>1 DEF ClaimedRow, JobRow
<1>2. job'[i].attempts = job[i].attempts + 1
    BY <1>1
<1>3. \A v \in Workers : Claim(v, i) => v = w
    BY <1>1
<1> QED
    BY <1>2, <1>3 DEF Claim

\* Every step keeps an attempt for every outcome.
LEMMA OutcomesStep ==
    ASSUME TypeOK, OutcomesInv, [Next]_vars
    PROVE  OutcomesInv'
<1> SUFFICES ASSUME NEW i \in Jobs
             PROVE  /\ job'[i].status = Absent => job'[i].attempts = 0
                    /\ IsFiniteSet(Executors(i)') /\ IsFiniteSet(Unfinished(i)')
                    /\ audit'[i]["job.completed"] + Cardinality(Unfinished(i)')
                           <= job'[i].attempts
                    /\ audit'[i]["job.failed"] + Cardinality(Executors(i)')
                           <= job'[i].attempts
    BY DEF OutcomesInv
<1> DEFINE Ex == Executors(i)
           Un == Unfinished(i)
           done == audit[i]["job.completed"]
           fails == audit[i]["job.failed"]
<1>1. /\ IsFiniteSet(Ex) /\ IsFiniteSet(Un)
      /\ done + Cardinality(Un) <= job[i].attempts
      /\ fails + Cardinality(Ex) <= job[i].attempts
      /\ job[i].status = Absent => job[i].attempts = 0
    BY DEF OutcomesInv
<1>2. /\ job[i].attempts \in Nat /\ job'[i].attempts \in Nat
      /\ done \in Nat /\ fails \in Nat /\ done' \in Nat /\ fails' \in Nat
    BY AuditGrows, NextTypes DEF TypeOK, TablesOK, JobRow, Events
<1>3. /\ \A v \in Ex' : v \in Ex \/ Claim(v, i)
      /\ \A v \in Un' : v \in Un \/ Claim(v, i)
      /\ Ex' \subseteq Workers /\ Un' \subseteq Workers
    BY ExecutorsAfter DEF Executors, Unfinished
<1>4. job'[i].status = Absent => job[i].status = Absent
    BY RowsStay DEF RowsPersist
<1>5. CASE \E w \in Workers : Claim(w, i)
  <2>1. PICK w \in Workers : Claim(w, i)
    BY <1>5
  <2>2. /\ \A v \in Workers : Claim(v, i) => v = w
        /\ done' = done /\ fails' = fails /\ job'[i].attempts = job[i].attempts + 1
    BY <2>1, ClaimAlone
  <2>3. job'[i].status # Absent
    BY <2>1 DEF Claim, ClaimedRow, TypeOK, TablesOK, JobRow
  <2>4. Ex' \subseteq Ex \cup {w} /\ Un' \subseteq Un \cup {w}
    BY <1>3, <2>2
  <2> HIDE DEF Ex, Un, done, fails
  <2>5. /\ IsFiniteSet(Ex') /\ Cardinality(Ex') \in Nat /\ Cardinality(Ex) \in Nat
        /\ Cardinality(Ex') <= Cardinality(Ex) + 1
    BY <1>1, <2>4, CountGains
  <2>6. /\ IsFiniteSet(Un') /\ Cardinality(Un') \in Nat /\ Cardinality(Un) \in Nat
        /\ Cardinality(Un') <= Cardinality(Un) + 1
    BY <1>1, <2>4, CountGains
  <2>7. /\ done' + Cardinality(Un') <= job'[i].attempts
        /\ fails' + Cardinality(Ex') <= job'[i].attempts
    BY <1>1, <1>2, <2>2, <2>5, <2>6
  <2> QED
    BY <2>3, <2>5, <2>6, <2>7 DEF Ex, Un, done, fails
<1>6. CASE ~ \E w \in Workers : Claim(w, i)
  <2>1. Ex' \subseteq Ex /\ Un' \subseteq Un
    BY <1>3, <1>6
  <2>2. /\ job'[i].attempts >= job[i].attempts
        /\ job'[i].status = Absent => job'[i].attempts = 0
    BY <1>1, <1>2, <1>4, <1>6, AttemptsChange
  <2>3. /\ IsFiniteSet(Un') /\ Cardinality(Un') \in Nat /\ Cardinality(Un) \in Nat
        /\ done' + Cardinality(Un') <= done + Cardinality(Un)
    <3>1. CASE done' = done
      <4> HIDE DEF Un, done
      <4>1. /\ IsFiniteSet(Un') /\ Cardinality(Un') \in Nat /\ Cardinality(Un) \in Nat
            /\ Cardinality(Un') <= Cardinality(Un)
        BY <1>1, <2>1, CountShrinks
      <4> QED
        BY <1>2, <3>1, <4>1
    <3>2. CASE done' # done
      <4>1. PICK w \in Un : wk'[w].pc \notin BeforeResult /\ done' = done + 1
        BY <3>2, OutcomeRecorded
      <4>2. w \notin Un'
        BY <4>1 DEF Unfinished
      <4> HIDE DEF Un, done
      <4>3. /\ IsFiniteSet(Un') /\ Cardinality(Un') \in Nat /\ Cardinality(Un) \in Nat
            /\ Cardinality(Un') + 1 <= Cardinality(Un)
        BY <1>1, <2>1, <4>1, <4>2, CountLoses
      <4> QED
        BY <1>2, <4>1, <4>3
    <3> QED
      BY <3>1, <3>2
  <2>4. /\ IsFiniteSet(Ex') /\ Cardinality(Ex') \in Nat /\ Cardinality(Ex) \in Nat
        /\ fails' + Cardinality(Ex') <= fails + Cardinality(Ex)
    <3>1. CASE fails' = fails
      <4> HIDE DEF Ex, fails
      <4>1. /\ IsFiniteSet(Ex') /\ Cardinality(Ex') \in Nat /\ Cardinality(Ex) \in Nat
            /\ Cardinality(Ex') <= Cardinality(Ex)
        BY <1>1, <2>1, CountShrinks
      <4> QED
        BY <1>2, <3>1, <4>1
    <3>2. CASE fails' # fails
      <4>1. PICK w \in Ex : wk'[w].pc \notin Holding /\ fails' = fails + 1
        BY <3>2, OutcomeRecorded
      <4>2. w \notin Ex'
        BY <4>1 DEF Executors
      <4> HIDE DEF Ex, fails
      <4>3. /\ IsFiniteSet(Ex') /\ Cardinality(Ex') \in Nat /\ Cardinality(Ex) \in Nat
            /\ Cardinality(Ex') + 1 <= Cardinality(Ex)
        BY <1>1, <2>1, <4>1, <4>2, CountLoses
      <4> QED
        BY <1>2, <4>1, <4>3
    <3> QED
      BY <3>1, <3>2
  <2> HIDE DEF Ex, Un, done, fails
  <2>5. /\ done' + Cardinality(Un') <= job'[i].attempts
        /\ fails' + Cardinality(Ex') <= job'[i].attempts
    BY <1>1, <1>2, <2>2, <2>3, <2>4
  <2> QED
    BY <2>2, <2>3, <2>4, <2>5 DEF Ex, Un, done, fails
<1> QED
    BY <1>5, <1>6

\* The trail never holds more completions, or more failures, than claims: a
\* worker records at most one outcome of each kind per claim, however retries,
\* cancels and crashes interleave (process_once, fail_job).
THEOREM OutcomesNeverExceedAttempts == Spec => []OutcomesBoundedByAttempts
<1>1. Init => OutcomesInv
  <2> SUFFICES ASSUME Init, NEW j \in Jobs
               PROVE  /\ job[j].attempts = 0
                      /\ audit[j]["job.completed"] = 0 /\ audit[j]["job.failed"] = 0
                      /\ Executors(j) = {} /\ Unfinished(j) = {}
    BY FS_EmptySet DEF OutcomesInv
  <2> QED
    BY DEF Init, Events, IdleWorker, Executors, Unfinished, BeforeResult, Holding, Executing
<1>2. TypeOK /\ OutcomesInv /\ [Next]_vars => OutcomesInv'
    BY OutcomesStep
<1>3. TypeOK /\ OutcomesInv => OutcomesBoundedByAttempts
  <2> SUFFICES ASSUME TypeOK, OutcomesInv, NEW j \in Jobs
               PROVE  /\ audit[j]["job.completed"] <= job[j].attempts
                      /\ audit[j]["job.failed"] <= job[j].attempts
    BY DEF OutcomesBoundedByAttempts
  <2>1. /\ audit[j]["job.completed"] \in Nat /\ audit[j]["job.failed"] \in Nat
        /\ job[j].attempts \in Nat
    BY DEF TypeOK, TablesOK, JobRow, Events
  <2>2. Cardinality(Executors(j)) \in Nat /\ Cardinality(Unfinished(j)) \in Nat
    BY FS_CardinalityType DEF OutcomesInv
  <2> QED
    BY <2>1, <2>2 DEF OutcomesInv
<1> QED
    BY <1>1, <1>2, <1>3, TypeCorrect, PTL DEF Spec
=============================================================================
