---------------------------- MODULE ExtractionJobs ----------------------------
(***************************************************************************)
(* The life of an extraction job: API requests that create, retry and      *)
(* cancel jobs, the polling workers that claim and run them, and the       *)
(* database rows they share.                                               *)
(*                                                                         *)
(* Every commit is one step, and so is every read that is separated from   *)
(* the commit before it by work of its own (a provider probe, a parse, an  *)
(* extraction).  A read that directly follows a commit belongs to the step *)
(* of that commit.  The sessions of the code are SQLAlchemy sessions: an   *)
(* UPDATE contains a column only when its new value differs from the value *)
(* the session loaded, see Flush.                                          *)
(***************************************************************************)
EXTENDS Naturals, FiniteSets

CONSTANTS
    MaxJobs,      \* bound: how many jobs are ever created
    Docs,         \* uploaded documents
    Workers,      \* worker processes; a restarted worker keeps its identity
    Sessions,     \* API request threads
    Postgres,     \* TRUE: FOR UPDATE SKIP LOCKED claims; FALSE: SQLite claims
    ClaimTries,   \* range(5) of the SQLite claim loop
    MaxAttempts,  \* bound: a job with this many attempts is not retried
    MaxCancels,   \* bound: a job cancelled this many times is not cancelled again
    MaxCrashes,   \* bound: how many times a worker process dies
    NoDoc, NoWorker

ASSUME BoundsAssumption ==
    /\ MaxJobs \in Nat /\ ClaimTries \in Nat \ {0}
    /\ MaxAttempts \in Nat /\ MaxCancels \in Nat /\ MaxCrashes \in Nat
ASSUME DialectAssumption == Postgres \in BOOLEAN
ASSUME NullAssumption == NoDoc \notin Docs /\ NoWorker \notin Workers

VARIABLES
    job,      \* the extraction_jobs table
    doc,      \* the documents table
    result,   \* result[j]: job j has an extraction_results row
    audit,    \* audit[j][e]: how many events e the audit trail holds for j
    wk,       \* the local state of each worker
    req,      \* the local state of each API request thread
    orphans,  \* <<j, w>>: w died while it held its last claim of j
    crashes   \* worker deaths so far

vars == <<job, doc, result, audit, wk, req, orphans, crashes>>

-----------------------------------------------------------------------------
Jobs == 1..MaxJobs    \* primary keys; also the order of created_at
NoJob == 0
Tries == 0..ClaimTries

JobStatus == {"queued", "running", "completed", "failed", "cancelled"}
DocStatus == {"uploaded", "queued", "processing", "completed", "failed"}
Stages == {"queued", "parsing", "extracting", "validating", "calculating",
           "completed", "failed", "cancelled"}
Events == {"job.queued", "job.retried", "job.cancelled",
           "job.completed", "job.failed"}

\* A column the session has not loaded since its last commit, and the status
\* of a job id that no row has yet.
Expired == "expired"
Absent == "absent"

\* The value a column has after a session that loaded `seen` assigns `new`
\* and commits, when the row holds `now`.
Flush(seen, new, now) == IF seen = new THEN now ELSE new

\* Worker program counters.  Holding: the worker has claimed wk[w].job.
Executing == {"checked", "redacting", "extracting", "validating", "calculating"}
Holding == Executing \cup {"claimed", "parsing", "completing", "reporting",
                           "failing", "finalizing"}

IdleWorker == [pc |-> "idle", job |-> NoJob, tries |-> 0, status |-> Expired,
               stage |-> Expired, doc |-> Expired, had |-> FALSE]
IdleRequest == [op |-> "idle", job |-> NoJob, target |-> NoDoc, stage |-> Expired,
                worker |-> NoWorker, doc |-> Expired]

JobRow == [status: JobStatus \cup {Absent}, stage: Stages,
           worker: Workers \cup {NoWorker}, attempts: Nat, doc: Docs \cup {NoDoc}]
WorkerState == [pc: Holding \cup {"idle", "selected"}, job: Jobs \cup {NoJob},
                tries: Tries, status: JobStatus \cup {Absent, Expired},
                stage: Stages \cup {Expired}, doc: DocStatus \cup {Expired},
                had: BOOLEAN]
RequestState == [op: {"idle", "create", "audit", "retry", "cancel"},
                 job: Jobs \cup {NoJob}, target: Docs \cup {NoDoc},
                 stage: Stages \cup {Expired}, worker: Workers \cup {NoWorker},
                 doc: DocStatus \cup {Expired}]

\* The tables; a job row refers to a document.
TablesOK ==
    /\ job \in [Jobs -> JobRow]
    /\ doc \in [Docs -> [status: DocStatus, parsed: BOOLEAN]]
    /\ result \in [Jobs -> BOOLEAN]
    /\ audit \in [Jobs -> [Events -> Nat]]
    /\ orphans \in SUBSET (Jobs \X Workers)
    /\ crashes \in Nat
    /\ \A j \in Jobs : job[j].status # Absent => job[j].doc \in Docs

\* Workers and requests name rows that exist.
WorkersOK ==
    /\ wk \in [Workers -> WorkerState]
    /\ \A w \in Workers : wk[w].pc # "idle" =>
           wk[w].job \in Jobs /\ job[wk[w].job].status # Absent

RequestsOK ==
    /\ req \in [Sessions -> RequestState]
    /\ \A s \in Sessions :
        /\ req[s].op \in {"audit", "retry", "cancel"} =>
               req[s].job \in Jobs /\ job[req[s].job].status # Absent
        /\ req[s].op \in {"create", "retry", "cancel"} => req[s].target \in Docs

\* The types of all variables, with the references between rows and readers.
TypeOK == TablesOK /\ WorkersOK /\ RequestsOK

Init ==
    /\ job = [j \in Jobs |-> [status |-> Absent, stage |-> "queued",
                              worker |-> NoWorker, attempts |-> 0, doc |-> NoDoc]]
    /\ doc = [d \in Docs |-> [status |-> "uploaded", parsed |-> FALSE]]
    /\ result = [j \in Jobs |-> FALSE]
    /\ audit = [j \in Jobs |-> [e \in Events |-> 0]]
    /\ wk = [w \in Workers |-> IdleWorker]
    /\ req = [s \in Sessions |-> IdleRequest]
    /\ orphans = {}
    /\ crashes = 0

Record(j, e) == audit' = [audit EXCEPT ![j][e] = @ + 1]
SetJob(j, row) == job' = [job EXCEPT ![j] = row]
Move(w, u) == wk' = [wk EXCEPT ![w] = u]
SetDoc(d, st) == doc' = [doc EXCEPT ![d].status = st]
EndRequest(s) == req' = [req EXCEPT ![s] = IdleRequest]
EndWork(w) == Move(w, IdleWorker)

-----------------------------------------------------------------------------
(* API requests.  Reads first, then the provider probe, then the commit.    *)

\* create_job: the document is read; validate_job_provider may take seconds.
CreateRead(s, d) ==
    /\ req[s].op = "idle"
    /\ \E j \in Jobs : job[j].status = Absent
    /\ req' = [req EXCEPT ![s] = [IdleRequest EXCEPT !.op = "create", !.target = d,
                                                     !.doc = doc[d].status]]
    /\ UNCHANGED <<job, doc, result, audit, wk, orphans, crashes>>

\* Mutant of CreateCommit: the row is flushed and has its id, but the commit
\* is left to the transaction of the audit event.
CreateFlushed(s) ==
    /\ req[s].op = "create"
    /\ \E j \in Jobs :
        /\ job[j].status = Absent
        /\ \A k \in Jobs : k < j => job[k].status # Absent
        /\ req' = [req EXCEPT ![s] = [IdleRequest EXCEPT !.op = "audit", !.job = j]]
    /\ UNCHANGED <<job, doc, result, audit, wk, orphans, crashes>>

\* create_job: the row and the document's status are committed together.
CreateCommit(s) ==
    /\ req[s].op = "create"
    /\ \E j \in Jobs :
        /\ job[j].status = Absent
        /\ \A k \in Jobs : k < j => job[k].status # Absent
        /\ SetJob(j, [status |-> "queued", stage |-> "queued",
                       worker |-> NoWorker, attempts |-> 0, doc |-> req[s].target])
        /\ req' = [req EXCEPT ![s] = [IdleRequest EXCEPT !.op = "audit", !.job = j]]
    /\ SetDoc(req[s].target,
              Flush(req[s].doc, "queued", doc[req[s].target].status))
    /\ UNCHANGED <<result, audit, wk, orphans, crashes>>

\* create_job: the audit event is committed in a transaction of its own.
CreateAudit(s) ==
    /\ req[s].op = "audit"
    /\ Record(req[s].job, "job.queued")
    /\ EndRequest(s)
    /\ UNCHANGED <<job, doc, result, wk, orphans, crashes>>

\* The rows that retry_job and cancel_job_route load before they decide.
LoadJob(s, j, op) ==
    req' = [req EXCEPT ![s] =
              [op |-> op, job |-> j, target |-> job[j].doc, stage |-> job[j].stage,
               worker |-> job[j].worker, doc |-> doc[job[j].doc].status]]

RetryRead(s, j) ==
    /\ req[s].op = "idle"
    /\ job[j].status = "failed"
    /\ job[j].attempts < MaxAttempts
    /\ LoadJob(s, j, "retry")
    /\ UNCHANGED <<job, doc, result, audit, wk, orphans, crashes>>

RetryCommit(s) ==
    LET j == req[s].job IN
    /\ req[s].op = "retry"
    /\ SetJob(j, [job[j] EXCEPT !.status = "queued",
                                !.stage = Flush(req[s].stage, "queued", @),
                                !.worker = Flush(req[s].worker, NoWorker, @)])
    /\ SetDoc(req[s].target,
              Flush(req[s].doc, "queued", doc[req[s].target].status))
    /\ Record(j, "job.retried")
    /\ EndRequest(s)
    /\ UNCHANGED <<result, wk, orphans, crashes>>

CancelRead(s, j) ==
    /\ req[s].op = "idle"
    /\ job[j].status \in {"queued", "running"}
    /\ audit[j]["job.cancelled"] < MaxCancels
    /\ LoadJob(s, j, "cancel")
    /\ UNCHANGED <<job, doc, result, audit, wk, orphans, crashes>>

CancelCommit(s) ==
    LET j == req[s].job IN
    /\ req[s].op = "cancel"
    /\ SetJob(j, [job[j] EXCEPT !.status = "cancelled",
                                !.stage = Flush(req[s].stage, "cancelled", @),
                                !.worker = Flush(req[s].worker, NoWorker, @)])
    /\ SetDoc(req[s].target,
              IF req[s].doc \in {"queued", "processing"}
              THEN "uploaded" ELSE doc[req[s].target].status)
    /\ Record(j, "job.cancelled")
    /\ EndRequest(s)
    /\ UNCHANGED <<result, wk, orphans, crashes>>

\* The probe or the policy refuses the request, or the API process dies:
\* what is not committed is gone.
DropRequest(s) ==
    /\ req[s].op # "idle"
    /\ EndRequest(s)
    /\ UNCHANGED <<job, doc, result, audit, wk, orphans, crashes>>

-----------------------------------------------------------------------------
(* Claiming.                                                                *)

Oldest(j) == /\ job[j].status = "queued"
             /\ \A k \in Jobs : k < j => job[k].status # "queued"

\* Mutants of ClaimedRow: the UPDATE forgets attempt_count, or worker_id.
ClaimedUncounted(w, j) == [job[j] EXCEPT !.status = "running", !.worker = w]
ClaimedUnnamed(w, j) == [job[j] EXCEPT !.status = "running", !.attempts = @ + 1]

ClaimedRow(w, j) ==
    [job[j] EXCEPT !.status = "running", !.worker = w, !.attempts = @ + 1]

\* The claiming UPDATE, its commit, and the rows process_once loads next.
Claim(w, j) ==
    /\ SetJob(j, ClaimedRow(w, j))
    /\ Move(w, [IdleWorker EXCEPT !.pc = "claimed", !.job = j,
                     !.stage = job[j].stage, !.doc = doc[job[j].doc].status])
    /\ orphans' = orphans \ {<<j, w>>}
    /\ UNCHANGED <<doc, result, audit, req, crashes>>

\* PostgreSQL: the row lock makes the SELECT and the UPDATE one step.
ClaimPostgres(w) ==
    /\ Postgres
    /\ wk[w].pc = "idle"
    /\ \E j \in Jobs : Oldest(j) /\ Claim(w, j)

\* SQLite: the SELECT takes no lock.
SelectCandidate(w) ==
    /\ ~Postgres
    /\ wk[w].pc = "idle"
    /\ \E j \in Jobs :
        /\ Oldest(j)
        /\ Move(w, [IdleWorker EXCEPT !.pc = "selected", !.job = j, !.tries = 1])
    /\ UNCHANGED <<job, doc, result, audit, req, orphans, crashes>>

\* Mutant of ClaimSqlite: the UPDATE matches the id only.
ClaimBlind(w) ==
    /\ wk[w].pc = "selected"
    /\ Claim(w, wk[w].job)

\* SQLite: UPDATE ... WHERE status = 'queued' changed one row.
ClaimSqlite(w) ==
    /\ wk[w].pc = "selected"
    /\ job[wk[w].job].status = "queued"
    /\ Claim(w, wk[w].job)

\* SQLite: the UPDATE changed no row; roll back and look again, or give up.
ClaimMissed(w) ==
    /\ wk[w].pc = "selected"
    /\ job[wk[w].job].status # "queued"
    /\ \/ /\ wk[w].tries < ClaimTries
          /\ \E j \in Jobs : /\ Oldest(j)
                             /\ Move(w, [wk[w] EXCEPT !.job = j, !.tries = @ + 1])
       \/ /\ wk[w].tries = ClaimTries \/ ~ \E j \in Jobs : Oldest(j)
          /\ EndWork(w)
    /\ UNCHANGED <<job, doc, result, audit, req, orphans, crashes>>

\* A poll that finds no queued job: the worker sleeps.
PollEmpty(w) ==
    /\ wk[w].pc = "idle"
    /\ ~ \E j \in Jobs : Oldest(j)
    /\ UNCHANGED vars

-----------------------------------------------------------------------------
(* Running a claimed job: process_once.                                     *)

\* document.status = "processing" and the parsing stage, in one commit.
Start(w) ==
    LET j == wk[w].job
        d == job[j].doc
        st == Flush(wk[w].doc, "processing", doc[d].status)
    IN
    /\ wk[w].pc = "claimed"
    /\ SetDoc(d, st)
    /\ SetJob(j, [job[j] EXCEPT !.stage = Flush(wk[w].stage, "parsing", @)])
    /\ Move(w, [wk[w] EXCEPT !.pc = "parsing", !.stage = Expired, !.doc = st])
    /\ UNCHANGED <<result, audit, req, orphans, crashes>>

\* Mutant of ParseDone: the path of the parsed text is not committed.
ParseUnsaved(w) ==
    /\ wk[w].pc = "parsing"
    /\ Move(w, [wk[w] EXCEPT !.pc = "checked"])
    /\ UNCHANGED <<job, doc, result, audit, req, orphans, crashes>>

\* The parsed text is stored, then the first look for a cancellation.
ParseDone(w) ==
    LET j == wk[w].job
        d == job[j].doc
    IN
    /\ wk[w].pc = "parsing"
    /\ doc' = [doc EXCEPT ![d].parsed = TRUE]
    /\ Move(w, IF job[j].status = "cancelled"
               THEN [wk[w] EXCEPT !.pc = "finalizing", !.doc = Expired]
               ELSE [wk[w] EXCEPT !.pc = "checked", !.stage = job[j].stage,
                                  !.doc = doc[d].status])
    /\ UNCHANGED <<job, result, audit, req, orphans, crashes>>

\* execute_extraction reports the parsing stage again, from the row that the
\* cancellation check loaded.
ReportParsing(w) ==
    LET j == wk[w].job IN
    /\ wk[w].pc = "checked"
    /\ SetJob(j, [job[j] EXCEPT !.stage = Flush(wk[w].stage, "parsing", @)])
    /\ Move(w, [wk[w] EXCEPT !.pc = "redacting", !.stage = Expired,
                        !.doc = Expired])
    /\ UNCHANGED <<doc, result, audit, req, orphans, crashes>>

\* The later stages reload the row before they write its stage.
ReportedStage == [redacting |-> "extracting", extracting |-> "validating",
                  validating |-> "calculating"]

Report(w) ==
    /\ wk[w].pc \in DOMAIN ReportedStage
    /\ LET stage == ReportedStage[wk[w].pc] IN
        /\ SetJob(wk[w].job, [job[wk[w].job] EXCEPT !.stage = stage])
        /\ Move(w, [wk[w] EXCEPT !.pc = stage])
    /\ UNCHANGED <<doc, result, audit, req, orphans, crashes>>

\* The last look for a cancellation, and the query for an earlier result.
FinalCheck(w) ==
    LET j == wk[w].job IN
    /\ wk[w].pc = "calculating"
    /\ Move(w, IF job[j].status = "cancelled"
               THEN [wk[w] EXCEPT !.pc = "finalizing"]
               ELSE [wk[w] EXCEPT !.pc = "completing", !.status = job[j].status,
                                  !.stage = job[j].stage, !.had = result[j]])
    /\ UNCHANGED <<job, doc, result, audit, req, orphans, crashes>>

\* Result, status, stage, document and audit event, in one commit.
Complete(w) ==
    LET j == wk[w].job IN
    /\ wk[w].pc = "completing"
    /\ wk[w].had \/ ~result[j]
    /\ result' = [result EXCEPT ![j] = TRUE]
    /\ SetJob(j, [job[j] EXCEPT !.status = Flush(wk[w].status, "completed", @),
                                !.stage = Flush(wk[w].stage, "completed", @)])
    /\ SetDoc(job[j].doc, "completed")
    /\ Record(j, "job.completed")
    /\ Move(w, [wk[w] EXCEPT !.pc = "reporting", !.status = Expired,
                        !.stage = Expired, !.doc = "completed", !.had = FALSE])
    /\ UNCHANGED <<req, orphans, crashes>>

\* The status file is written and process_once returns.
ReportCompleted(w) ==
    /\ wk[w].pc = "reporting"
    /\ EndWork(w)
    /\ UNCHANGED <<job, doc, result, audit, req, orphans, crashes>>

\* An exception inside the try block, the write of the status file after the
\* completing commit included; the handler refreshes the job row.
Raise(w) ==
    LET j == wk[w].job IN
    /\ wk[w].pc \in Executing \cup {"parsing", "reporting"}
    /\ Move(w, IF job[j].status = "cancelled"
               THEN [wk[w] EXCEPT !.pc = "finalizing", !.stage = Expired]
               ELSE [wk[w] EXCEPT !.pc = "failing", !.status = job[j].status,
                                  !.stage = job[j].stage])
    /\ UNCHANGED <<job, doc, result, audit, req, orphans, crashes>>

\* Mutant of FailedRow: the job keeps its status.
FailedInName(w) == [job[wk[w].job] EXCEPT !.stage = "failed"]

\* Mutant of FailedRow: the worker that failed puts the job back into the queue.
FailedRequeued(w) ==
    [job[wk[w].job] EXCEPT !.status = "queued", !.stage = "queued"]

FailedRow(w) ==
    [job[wk[w].job] EXCEPT !.status = Flush(wk[w].status, "failed", @),
                           !.stage = Flush(wk[w].stage, "failed", @)]

\* Mutant of FailCommit: no audit event, as in the missing-document branch.
FailUnaudited(w) ==
    LET j == wk[w].job IN
    /\ wk[w].pc = "failing"
    /\ SetJob(j, FailedRow(w))
    /\ SetDoc(job[j].doc, "failed")
    /\ EndWork(w)
    /\ UNCHANGED <<result, audit, req, orphans, crashes>>

FailCommit(w) ==
    LET j == wk[w].job
        d == job[j].doc
    IN
    /\ wk[w].pc = "failing"
    /\ SetJob(j, FailedRow(w))
    /\ SetDoc(d, Flush(wk[w].doc, "failed", doc[d].status))
    /\ Record(j, "job.failed")
    /\ EndWork(w)
    /\ UNCHANGED <<result, req, orphans, crashes>>

\* Mutant of Finalize: the document is left as it is.
FinalizeJobOnly(w) ==
    /\ wk[w].pc = "finalizing"
    /\ EndWork(w)
    /\ UNCHANGED <<job, doc, result, audit, req, orphans, crashes>>

\* finalize_cancelled_job
Finalize(w) ==
    LET d == job[wk[w].job].doc IN
    /\ wk[w].pc = "finalizing"
    /\ SetDoc(d, Flush(wk[w].doc, "uploaded", doc[d].status))
    /\ EndWork(w)
    /\ UNCHANGED <<job, result, audit, req, orphans, crashes>>

-----------------------------------------------------------------------------
(* Workers die; what they hold stays as the last commit left it.            *)

Die(w) ==
    /\ EndWork(w)
    /\ orphans' = orphans \cup (IF wk[w].pc \in Holding THEN {<<wk[w].job, w>>} ELSE {})
    /\ UNCHANGED <<job, doc, result, audit, req>>

Crash(w) ==
    /\ wk[w].pc # "idle"
    /\ crashes < MaxCrashes
    /\ crashes' = crashes + 1
    /\ Die(w)

\* Another worker inserted a result of the same job first: the UNIQUE
\* constraint fails the flush, db.refresh fails on the broken transaction,
\* and the exception leaves main's loop.
CompleteConflict(w) ==
    /\ wk[w].pc = "completing"
    /\ ~wk[w].had /\ result[wk[w].job]
    /\ Die(w)
    /\ UNCHANGED crashes

-----------------------------------------------------------------------------
RequestStep(s) ==
    \/ CreateCommit(s) \/ CreateAudit(s) \/ RetryCommit(s) \/ CancelCommit(s)
    \/ DropRequest(s)

NewRequest(s) ==
    \/ \E d \in Docs : CreateRead(s, d)
    \/ \E j \in Jobs : RetryRead(s, j) \/ CancelRead(s, j)

WorkerStep(w) ==
    \/ ClaimPostgres(w) \/ SelectCandidate(w) \/ ClaimSqlite(w) \/ ClaimMissed(w)
    \/ PollEmpty(w) \/ Start(w) \/ ParseDone(w) \/ ReportParsing(w) \/ Report(w)
    \/ FinalCheck(w) \/ Complete(w) \/ CompleteConflict(w) \/ ReportCompleted(w)
    \/ Raise(w) \/ FailCommit(w) \/ Finalize(w)

Next ==
    \/ \E s \in Sessions : NewRequest(s) \/ RequestStep(s)
    \/ \E w \in Workers : WorkerStep(w) \/ Crash(w)

\* main() polls forever, and every library call process_once waits for
\* returns or times out; a request handler that has begun ends.
Fairness ==
    /\ \A w \in Workers : WF_vars(WorkerStep(w))
    /\ \A s \in Sessions : WF_vars(RequestStep(s))

Spec == Init /\ [][Next]_vars
FairSpec == Spec /\ Fairness

-----------------------------------------------------------------------------
(* Properties.                                                              *)

\* Every enqueue (the insert of create_job or a committed retry) is claimed
\* at most once, whichever claim_next_job branch runs and however the SELECT
\* of one worker interleaves with the UPDATE of another: attempt_count never
\* exceeds the number of times the job was put into the queue.
ClaimedOncePerEnqueue ==
    \A j \in Jobs :
        job[j].attempts + (IF job[j].status = "queued" THEN 1 ELSE 0)
            <= 1 + audit[j]["job.retried"]

\* A job the API shows as running is really being run by the worker its
\* worker_id names, or that worker died while it held the job: no order of
\* cancels, retries, stale commits and finishing workers leaves a job running
\* with nobody behind it.
RunningJobIsOwned ==
    \A j \in Jobs : job[j].status = "running" =>
        \E w \in Workers :
            /\ job[j].worker = w
            /\ \/ wk[w].pc \in Holding /\ wk[w].job = j
               \/ <<j, w>> \in orphans

\* A document shown as processing has a live worker on one of its jobs, or a
\* worker that died on one of them: every way out of process_once (complete,
\* fail, finalize_cancelled_job) takes the document out of processing, even
\* when several jobs of the document overlap.
ProcessingDocumentIsWorked ==
    \A d \in Docs : doc[d].status = "processing" =>
        \/ \E w \in Workers : wk[w].pc \in Holding /\ job[wk[w].job].doc = d
        \/ \E jw \in orphans : job[jw[1]].doc = d

\* A document shown as completed can be reviewed: its parsed text is stored
\* and one of its jobs has a result row (routes.py serves both).
CompletedDocumentIsReviewable ==
    \A d \in Docs : doc[d].status = "completed" =>
        doc[d].parsed /\ \E j \in Jobs : job[j].doc = d /\ result[j]

\* The audit trail explains what the API shows: an operator who sees a job
\* completed, failed or cancelled finds the event that made it so, and a
\* stored result has its job.completed event.
TrailExplainsState ==
    \A j \in Jobs :
        /\ job[j].status = "completed" => audit[j]["job.completed"] > 0 /\ result[j]
        /\ job[j].status = "failed" => audit[j]["job.failed"] > 0
        /\ job[j].status = "cancelled" => audit[j]["job.cancelled"] > 0
        /\ result[j] => audit[j]["job.completed"] > 0

\* The trail holds at most one completion and one failure per attempt, so its
\* counts can be read as counts of executions.
OutcomesBoundedByAttempts ==
    \A j \in Jobs : /\ audit[j]["job.completed"] <= job[j].attempts
                    /\ audit[j]["job.failed"] <= job[j].attempts

\* The job table, through either claim_next_job branch, is the atomic queue of
\* JobQueue: SQLite's unlocked SELECT followed by a conditional UPDATE hands a
\* job out only while it is queued, and to one worker per enqueue.
Queue == INSTANCE JobQueue WITH
    pending <- {j \in Jobs : job[j].status = "queued"},
    holding <- [w \in Workers |-> IF wk[w].pc \in Holding THEN wk[w].job ELSE NoJob]

ImplementsQueue == Queue!Spec

\* COMPANY_DEPLOYMENT_GUIDE: several workers claim queued jobs without
\* executing the same row twice.
NoDoubleExecution ==
    \A v, w \in Workers :
        wk[v].pc \in Holding /\ wk[w].pc \in Holding /\ wk[v].job = wk[w].job
            => v = w

\* A cancelled job comes back only through a stale write: the ending commit of
\* a worker that looked for a cancellation before it, or a retry that read the
\* job while it was failed.  No claim, no report of a stage and no cleanup
\* revives it ("Cancel stops queued/running job").
CancelUndoneOnlyByStaleWrite ==
    [][\A j \in Jobs : job[j].status = "cancelled" /\ job'[j].status # "cancelled" =>
         \/ \E w \in Workers : wk[w].pc \in {"completing", "failing"} /\ wk[w].job = j
                               /\ wk'[w].pc # wk[w].pc
         \/ \E s \in Sessions : req[s].op = "retry" /\ req[s].job = j
                                /\ req'[s].op # "retry"]_vars

\* Every job that enters the queue reaches an end: it is completed, failed or
\* cancelled, as long as no worker dies.
JobsSettle ==
    \A j \in Jobs : job[j].status \in {"queued", "running"} ~>
                    job[j].status \in {"completed", "failed", "cancelled"}

\* A document does not stay in processing for ever, cancelled jobs included.
DocumentsSettle ==
    \A d \in Docs : doc[d].status = "processing" ~> doc[d].status # "processing"
=============================================================================
