------------------------------ MODULE Workspace ------------------------------
(***************************************************************************)
(* The extraction workspace of the web frontend (frontend/src/App.tsx): a  *)
(* page that mirrors the server's jobs and results by polling, lets an     *)
(* operator correct the flagged fields of one selected job, and runs       *)
(* asynchronous handlers (save review, run, retry, cancel, export, upload) *)
(* that each end with a refresh of their own.                              *)
(*                                                                         *)
(* JavaScript runs one piece of code at a time between two awaits, so an   *)
(* action is what happens between two awaits of one handler.  What the     *)
(* server answers and when the page learns of it are two moments, and any  *)
(* other handler, a poll or the operator may act in between.  (A read is   *)
(* answered in the step that sends it: a server step that falls between    *)
(* the two can as well be taken before.)  A handler keeps the values its   *)
(* closure captured at the click (field sel of a thread) while it runs.    *)
(*                                                                         *)
(* A field value is named by who produced it and for which job; the text   *)
(* of a draft stands for the value it parses to (ReviewEditors models the  *)
(* conversions).  Pages other than the workspace, the status filter, the   *)
(* focused field and the banner texts are left out.                        *)
(***************************************************************************)
EXTENDS Integers

CONSTANTS
  Jobs,                  \* job ids; a larger id is a newer job
  Fields,                \* extracted fields of a result
  HighConfidence,        \* fields at or above REVIEW_HIGH_CONFIDENCE_MIN
  Pollers,               \* refreshes of the poll timer that may overlap
  Handlers,              \* operator handlers that may overlap
  RequireReviewCleared,  \* the export policy the page has loaded
  None,                  \* null
  InitialStatus,         \* bound: the statuses of jobs when the page loads
  MaxEvents              \* bound: handlers started, requests and reads that
                         \* fail, and reviews by a colleague, together

ASSUME JobsAssumption ==
  /\ Jobs \subseteq Nat /\ None \notin Jobs
  /\ \E newest \in Jobs : \A j \in Jobs : j <= newest
ASSUME FieldsAssumption == HighConfidence \subseteq Fields
ASSUME ThreadsAssumption == Pollers \cap Handlers = {}
ASSUME PolicyAssumption == RequireReviewCleared \in BOOLEAN
\* "active" stands for queued and running, which the page treats alike.
Status == {"none", "active", "completed", "failed", "cancelled"}
Value == [by: {"extractor", "operator", "colleague"}, job: Jobs]
Result == [val: [Fields -> Value], flag: SUBSET Fields, reviewed: BOOLEAN]
Drafts == [Fields -> Value \cup {None}]
Listing == [Jobs -> Status]
Results == [Jobs -> Result \cup {None}]
Threads == Pollers \cup Handlers
ASSUME BoundsAssumption ==
  InitialStatus \subseteq Status /\ MaxEvents \in Nat
ASSUME NoneAssumption == None \notin Value /\ None \notin Result

ReviewKinds == {"save", "approve all", "approve high"}
JobKinds == {"run", "retry", "cancel", "export", "upload"}
Kinds == ReviewKinds \cup JobKinds

\* The busyAction key a handler sets: the three review buttons share one.
BusyKey(kind) == IF kind \in ReviewKinds THEN "save" ELSE kind

NoResults == [j \in Jobs |-> None]
NoDrafts == [f \in Fields |-> None]
NoLink == [job |-> None, result |-> None]
NoJobs == [j \in Jobs |-> "none"]

VARIABLES
  \* the server
  status,         \* the status of each job, "none" while it does not exist
  stored,         \* the stored result of each job
  \* the page
  coreDataState,  \* "loading", "ready" or "unavailable"
  jobsView,       \* the job list last shown ("none": not listed)
  results,        \* resultsByJob
  selected,       \* selectedJobId
  drafts,         \* reviewDrafts
  busy,           \* busyAction
  seeded,         \* workspaceSeeded
  link,           \* what the URL names, until the workspace is seeded from it
  pollSel,        \* selectedJobId in the closure of the poll timer
  threads,        \* the refreshes and handlers in flight
  events          \* counts what MaxEvents bounds

server == <<status, stored>>
view == <<coreDataState, jobsView, results, selected, drafts, busy, seeded,
          link, pollSel>>
vars == <<server, view, threads, events>>

Thread == [kind: Kinds \cup {"idle", "poll"},
           pc: {"idle", "request", "reply", "error", "lists", "answers"},
           job: Jobs \cup {None},      \* the job the handler is about
           sel: Jobs \cup {None},      \* selectedJobId in its closure
           edits: Drafts,              \* the edits it posts
           reply: Result \cup {None},  \* the reviewed result it was answered
           rows: Listing,              \* the job list it was answered
           res: Results]               \* the results it was answered

Idle == [kind |-> "idle", pc |-> "idle", job |-> None, sel |-> None,
         edits |-> NoDrafts, reply |-> None, rows |-> NoJobs,
         res |-> NoResults]

Event == events < MaxEvents /\ events' = events + 1

\* refreshCoreData called by code whose closure holds the selection sel; the
\* server answers the reads with its jobs of this moment.
Refresh(kind, sel) ==
  [Idle EXCEPT !.kind = kind, !.pc = "lists", !.sel = sel, !.rows = status]

Extraction(j, flag) ==
  [val |-> [f \in Fields |-> [by |-> "extractor", job |-> j]],
   flag |-> flag, reviewed |-> FALSE]

-----------------------------------------------------------------------------
(* What the page derives from its state.                                   *)

Listed(j) == j # None /\ jobsView[j] # "none"
ShownResult(j) == IF Listed(j) THEN results[j] ELSE None
Active(rows) == \E j \in Jobs : rows[j] = "active"

Stage ==
  CASE ~Listed(selected) -> "draft"
    [] Listed(selected) /\ jobsView[selected] = "failed" -> "failed"
    [] Listed(selected) /\ jobsView[selected] = "completed" ->
         IF /\ ShownResult(selected) # None
            /\ \/ results[selected].flag # {}
               \/ RequireReviewCleared /\ ~results[selected].reviewed
         THEN "review" ELSE "ready"
    [] OTHER -> "processing"

exportBlocked ==
  /\ RequireReviewCleared
  /\ selected # None
  /\ results[selected] # None
  /\ results[selected].flag # {} \/ ~results[selected].reviewed

\* The button of a handler is shown and enabled.
Enabled(kind) ==
  /\ coreDataState = "ready"
  /\ kind # "upload" => busy # BusyKey(kind)
  /\ CASE kind = "save" -> Stage = "review"
       [] kind = "approve all" ->
            Stage = "review" /\ results[selected].flag # {}
       [] kind = "approve high" ->
            Stage = "review" /\ results[selected].flag \cap HighConfidence # {}
       [] kind = "retry" -> Stage = "failed"
       [] kind = "cancel" ->
            Listed(selected) /\ jobsView[selected] = "active"
       [] kind = "export" ->
            /\ Stage \in {"ready", "review"} /\ ~exportBlocked
            /\ results[selected] # None
       [] kind = "run" -> Stage \in {"draft", "failed"}
       [] kind = "upload" -> Stage = "draft"

\* buildReviewEditsForResult: every field whose draft, or else its own value,
\* differs from the value the page shows.
buildReviewEdits(result) ==
  [f \in Fields |->
     IF drafts[f] = None \/ drafts[f] = result.val[f] THEN None ELSE drafts[f]]

\* Mutant of InitialDrafts: no drafts at all for a job without a result.
InitialDraftsUnset(result) == IF result = None THEN None ELSE result.val

\* The drafts that syncJobSelection and submitReview set from a result.
InitialDrafts(result) ==
  IF result = None THEN NoDrafts ELSE result.val

Newest(S) == CHOOSE j \in S : \A k \in S : k <= j

\* The job the second seeding effect selects: the newest that needs review,
\* else the newest in progress, else the newest.
PrioritizedJob(rows, res) ==
  LET all == {j \in Jobs : rows[j] # "none"}
      review == {j \in all : res[j] # None /\ res[j].flag # {}}
      active == {j \in all : rows[j] = "active"}
  IN Newest(IF review # {} THEN review ELSE IF active # {} THEN active ELSE all)

-----------------------------------------------------------------------------
Init ==
  /\ status \in [Jobs -> InitialStatus]
  /\ \A j, k \in Jobs : j < k /\ status[k] # "none" => status[j] # "none"
  /\ \E flagged \in [Jobs -> SUBSET Fields] :
       stored = [j \in Jobs |-> IF status[j] = "completed"
                                THEN Extraction(j, flagged[j]) ELSE None]
  /\ coreDataState = "loading"
  /\ jobsView = NoJobs /\ results = NoResults
  /\ selected = None /\ drafts = NoDrafts /\ busy = None /\ seeded = FALSE
  /\ \E j \in Jobs \cup {None} :
       link \in {[job |-> j, result |-> None], [job |-> None, result |-> j]}
  /\ pollSel = None
  /\ threads = [t \in Threads |->
                  IF t \in Pollers THEN Refresh("poll", None) ELSE Idle]
  /\ events = 0

-----------------------------------------------------------------------------
(* The server.                                                             *)

Worker(j) ==
  /\ status[j] = "active"
  /\ \/ /\ status' = [status EXCEPT ![j] = "failed"]
        /\ UNCHANGED stored
     \/ /\ status' = [status EXCEPT ![j] = "completed"]
        /\ \E flag \in SUBSET Fields :
             stored' = [stored EXCEPT ![j] = Extraction(j, flag)]
  /\ UNCHANGED <<view, threads, events>>

\* apply_review_edits: an empty submission without a threshold approves every
\* flagged field; a threshold approves the flagged fields above it.
Reviewed(result, edits, threshold) ==
  LET edited == {f \in Fields : edits[f] # None}
  IN [val |-> [f \in Fields |-> IF f \in edited THEN edits[f] ELSE result.val[f]],
      flag |-> CASE threshold -> (result.flag \ HighConfidence) \ edited
                 [] ~threshold /\ edited = {} -> {}
                 [] OTHER -> result.flag \ edited,
      reviewed |-> TRUE]

\* Another operator corrects one field of a completed job.
Colleague(j, f) ==
  /\ status[j] = "completed" /\ stored[j] # None
  /\ Event
  /\ stored' = [stored EXCEPT ![j] =
       Reviewed(@, [NoDrafts EXCEPT ![f] = [by |-> "colleague", job |-> j]], FALSE)]
  /\ UNCHANGED <<status, view, threads>>

-----------------------------------------------------------------------------
(* The handlers.                                                           *)

\* The synchronous part of a handler: the button's guard, the handler's own
\* early returns, setBusyAction, and the request is on its way.
Click(h, kind) ==
  /\ threads[h] = Idle
  /\ Enabled(kind)
  /\ Event
  /\ busy' = BusyKey(kind)
  /\ threads' = [threads EXCEPT ![h] =
       [Idle EXCEPT !.kind = kind, !.pc = "request", !.job = selected,
                    !.sel = selected,
                    !.edits = IF kind = "save"
                              THEN buildReviewEdits(results[selected])
                              ELSE NoDrafts]]
  /\ UNCHANGED <<server, coreDataState, jobsView, results, selected, drafts,
                 seeded, link, pollSel>>

\* The handler of thread h is answered: its request was about job.
Answered(h, job, reply) ==
  threads' = [threads EXCEPT ![h].pc = "reply", ![h].job = job,
                             ![h].edits = NoDrafts, ![h].reply = reply]

\* The request of submitReview is carried out.
submitReview(h) ==
  LET t == threads[h]
  IN /\ t.kind \in ReviewKinds
     /\ stored[t.job] # None
     /\ stored' = [stored EXCEPT ![t.job] =
                     Reviewed(@, t.edits, t.kind = "approve high")]
     /\ Answered(h, t.job, stored'[t.job])
     /\ UNCHANGED status

\* The request of handleRunExtraction: a new job.
handleRunExtraction(h) ==
  /\ threads[h].kind = "run"
  /\ \E j \in Jobs :
       /\ status[j] = "none"
       /\ \A k \in Jobs : status[k] = "none" => j <= k
       /\ status' = [status EXCEPT ![j] = "active"]
       /\ Answered(h, j, None)
  /\ UNCHANGED stored

\* The request of handleRetryJob.
handleRetryJob(h) ==
  LET t == threads[h]
  IN /\ t.kind = "retry"
     /\ status[t.job] = "failed"
     /\ status' = [status EXCEPT ![t.job] = "active"]
     /\ Answered(h, t.job, None)
     /\ UNCHANGED stored

\* The request of handleCancelJob.
handleCancelJob(h) ==
  LET t == threads[h]
  IN /\ t.kind = "cancel"
     /\ status[t.job] = "active"
     /\ status' = [status EXCEPT ![t.job] = "cancelled"]
     /\ Answered(h, t.job, None)
     /\ UNCHANGED stored

\* The requests of handleExport and handleUpload change no job.
handleExport(h) ==
  /\ threads[h].kind \in {"export", "upload"}
  /\ Answered(h, threads[h].job, None)
  /\ UNCHANGED server

\* The server carries the request out and answers.
Accept(h) ==
  /\ threads[h].pc = "request"
  /\ \/ submitReview(h) \/ handleRunExtraction(h) \/ handleRetryJob(h)
     \/ handleCancelJob(h) \/ handleExport(h)
  /\ UNCHANGED <<view, events>>

\* The server refuses a retry of a job that has not failed, a cancel of one
\* that has ended meanwhile, a run it does not validate, or an export the
\* export policy forbids.
Refuse(h) ==
  /\ threads[h].pc = "request"
  /\ \/ threads[h].kind \in {"run", "export"}
     \/ threads[h].kind = "retry" /\ status[threads[h].job] # "failed"
     \/ threads[h].kind = "cancel" /\ status[threads[h].job] # "active"
  /\ threads' = [threads EXCEPT ![h].pc = "error"]
  /\ UNCHANGED <<server, view, events>>

\* The request or its answer is lost: the handler sees an exception.
Lose(h) ==
  /\ threads[h].pc \in {"request", "reply"}
  /\ Event
  /\ threads' = [threads EXCEPT ![h].pc = "error", ![h].edits = NoDrafts,
                              ![h].reply = None]
  /\ UNCHANGED <<server, view>>

\* catch and finally: a banner, and the busy key is cleared.
CatchError(h) ==
  /\ threads[h].pc = "error"
  /\ busy' = None
  /\ threads' = [threads EXCEPT ![h] = Idle]
  /\ UNCHANGED <<server, coreDataState, jobsView, results, selected, drafts,
                 seeded, link, pollSel, events>>

\* The answer arrives: submitReview shows the reviewed result and resets the
\* drafts; every handler then awaits refreshCoreData.
ReplyArrives(h) ==
  LET t == threads[h]
  IN /\ t.pc = "reply"
     /\ IF t.kind \in ReviewKinds
        THEN /\ results' = [results EXCEPT ![t.job] = t.reply]
             /\ drafts' = InitialDrafts(t.reply)
        ELSE UNCHANGED <<results, drafts>>
     /\ threads' = [threads EXCEPT ![h] =
                      [Refresh(t.kind, t.sel) EXCEPT !.job = t.job]]
     /\ UNCHANGED <<server, coreDataState, jobsView, selected, busy, seeded,
                    link, pollSel, events>>

-----------------------------------------------------------------------------
(* refreshCoreData, run by the poll timer and by every handler.            *)

\* Mutant of AfterRefresh: the caller clears its busy key only when it selects
\* a job.
AfterRefreshStaysBusy(t, sel) ==
  /\ selected' = IF t.kind \in {"run", "retry"} THEN t.job ELSE sel
  /\ busy' = IF t.kind \in {"run", "retry"} THEN None ELSE busy

\* What the caller does when its refresh returns.
AfterRefresh(t, sel) ==
  /\ selected' = CASE t.kind \in {"run", "retry"} -> t.job
                   [] t.kind = "upload" -> None
                   [] OTHER -> sel
  /\ busy' = IF t.kind = "poll" THEN busy ELSE None

\* Mutant of PollTick: polling stops while the API is unavailable.
PollTickWhenAvailable(p) ==
  /\ threads[p] = Idle
  /\ coreDataState # "unavailable"
  /\ threads' = [threads EXCEPT ![p] = Refresh("poll", pollSel)]
  /\ UNCHANGED <<server, view, events>>

\* The interval fires; its closure is that of the render in which
\* hasActiveJobs last changed.
PollTick(p) ==
  /\ threads[p] = Idle
  /\ threads' = [threads EXCEPT ![p] = Refresh("poll", pollSel)]
  /\ UNCHANGED <<server, view, events>>

\* The operator's "Retry connection" button.
RetryConnection(p) ==
  /\ threads[p] = Idle
  /\ coreDataState = "unavailable"
  /\ threads' = [threads EXCEPT ![p] = Refresh("poll", selected)]
  /\ UNCHANGED <<server, view, events>>

\* /health does not answer: the workspace shows no results and stops.
HealthFails(t) ==
  /\ threads[t].pc = "lists"
  /\ Event
  /\ coreDataState' = "unavailable"
  /\ results' = NoResults
  /\ AfterRefresh(threads[t], selected)
  /\ threads' = [threads EXCEPT ![t] = Idle]
  /\ UNCHANGED <<server, jobsView, drafts, seeded, link, pollSel>>

\* Promise.allSettled: a list that cannot be read is taken to be empty.
LoseLists(t) ==
  /\ threads[t].pc = "lists"
  /\ Event
  /\ threads' = [threads EXCEPT ![t].rows = NoJobs]
  /\ UNCHANGED <<server, view>>

\* The job the first seeding effect selects: the one the URL names, or the one
\* whose loaded result the URL names.
UrlTarget ==
  IF link.job # None THEN link.job
  ELSE IF link.result # None /\ results[link.result] # None THEN link.result
  ELSE None

\* The two seeding effects are run by the commit in which jobs first arrive, in
\* this order, both with the workspaceSeeded = false and the results of that
\* render.  Each calls syncJobSelection, and the later call wins.
Seed(rows) ==
  LET calls == <<UrlTarget, PrioritizedJob(rows, results)>>
      j == calls[2]
  IN /\ selected' = j
     /\ drafts' = InitialDrafts(results[j])
     /\ link' = NoLink
     /\ seeded' = TRUE

\* setJobs, the render, and its effects: the poll timer takes a new closure
\* when hasActiveJobs changes, and an unseeded workspace is seeded.  Then the
\* results of the jobs listed as completed are read; one that cannot be read
\* is left out.
ListsArrive(t) ==
  LET rows == threads[t].rows
      completed == {j \in Jobs : rows[j] = "completed"}
  IN /\ threads[t].pc = "lists"
     /\ jobsView' = rows
     /\ pollSel' = IF Active(rows) # Active(jobsView) THEN selected ELSE pollSel
     /\ IF ~seeded /\ rows # NoJobs
        THEN Seed(rows)
        ELSE UNCHANGED <<selected, drafts, link, seeded>>
     /\ \E lost \in SUBSET completed :
          /\ IF lost = {} THEN UNCHANGED events ELSE Event
          /\ threads' = [threads EXCEPT ![t].pc = "answers",
               ![t].res = [j \in Jobs |-> IF j \in completed \ lost
                                          THEN stored[j] ELSE None]]
     /\ UNCHANGED <<server, coreDataState, results, busy>>

\* Mutant of ResultsArrive: the drafts are reset with the results.
ResultsArriveResetsDrafts(t) ==
  LET th == threads[t]
  IN /\ th.pc = "answers"
     /\ results' = th.res
     /\ coreDataState' = "ready"
     /\ AfterRefresh(th, selected)
     /\ drafts' = IF selected = None THEN NoDrafts
                  ELSE InitialDrafts(th.res[selected])
     /\ threads' = [threads EXCEPT ![t] = Idle]
     /\ UNCHANGED <<server, jobsView, seeded, link, pollSel, events>>

\* setResultsByJob, "ready", the selection of a job that is not listed is
\* cleared, and the caller goes on.
ResultsArrive(t) ==
  LET th == threads[t]
      gone == th.sel # None /\ th.rows[th.sel] = "none"
  IN /\ th.pc = "answers"
     /\ results' = th.res
     /\ coreDataState' = "ready"
     /\ AfterRefresh(th, IF gone THEN None ELSE selected)
     /\ threads' = [threads EXCEPT ![t] = Idle]
     /\ UNCHANGED <<server, jobsView, drafts, seeded, link, pollSel, events>>

-----------------------------------------------------------------------------
(* The operator.                                                           *)

\* Mutant of SelectJob: the drafts are only set when the job has a result.
SelectJobKeepsDrafts(j) ==
  /\ status[j] # "none"
  /\ selected' = j
  /\ drafts' = IF results[j] = None THEN drafts ELSE InitialDrafts(results[j])
  /\ link' = NoLink
  /\ seeded' = TRUE
  /\ UNCHANGED <<server, coreDataState, jobsView, results, busy, pollSel,
                 threads, events>>

\* handleSelectJob with syncJobSelection, from the job list or from an audit
\* row, which may name a job the page has not listed yet.
SelectJob(j) ==
  /\ status[j] # "none"
  /\ selected' = j
  /\ drafts' = InitialDrafts(results[j])
  /\ link' = NoLink
  /\ seeded' = TRUE
  /\ UNCHANGED <<server, coreDataState, jobsView, results, busy, pollSel,
                 threads, events>>

\* handleStartNewExtraction.
StartNew ==
  /\ selected' = None
  /\ drafts' = NoDrafts
  /\ seeded' = TRUE /\ link' = NoLink
  /\ UNCHANGED <<server, coreDataState, jobsView, results, busy, pollSel,
                 threads, events>>

\* onSetReviewDraft: the editor of a flagged field of the selected job.
TypeDraft(f) ==
  /\ Stage = "review"
  /\ f \in results[selected].flag
  /\ drafts' = [drafts EXCEPT ![f] = [by |-> "operator", job |-> selected]]
  /\ UNCHANGED <<server, coreDataState, jobsView, results, selected, busy,
                 seeded, link, pollSel, threads, events>>

-----------------------------------------------------------------------------
\* One step of a refresh, of a handler, and of the person at the page.
RefreshStep(t) ==
  HealthFails(t) \/ LoseLists(t) \/ ListsArrive(t) \/ ResultsArrive(t)

HandlerStep(h) ==
  Accept(h) \/ Refuse(h) \/ Lose(h) \/ CatchError(h) \/ ReplyArrives(h)

Operator ==
  \/ \E h \in Handlers, kind \in Kinds : Click(h, kind)
  \/ \E p \in Pollers : RetryConnection(p)
  \/ \E j \in Jobs : SelectJob(j)
  \/ StartNew
  \/ \E f \in Fields : TypeDraft(f)

Next ==
  \/ \E j \in Jobs : Worker(j) \/ \E f \in Fields : Colleague(j, f)
  \/ \E t \in Threads : RefreshStep(t)
  \/ \E h \in Handlers : HandlerStep(h)
  \/ \E p \in Pollers : PollTick(p)
  \/ Operator

\* Fairness: the interval keeps firing and every request is answered or fails.
\* Nothing is assumed of the worker, the colleague or the operator.
Fairness ==
  /\ \A p \in Pollers : WF_vars(PollTick(p))
  /\ \A t \in Threads : WF_vars(RefreshStep(t))
  /\ \A h \in Handlers : WF_vars(HandlerStep(h))

Spec == Init /\ [][Next]_vars /\ Fairness

-----------------------------------------------------------------------------
(* Properties.                                                             *)

TypeOK ==
  /\ status \in Listing
  /\ stored \in Results
  /\ coreDataState \in {"loading", "ready", "unavailable"}
  /\ jobsView \in Listing
  /\ results \in Results
  /\ selected \in Jobs \cup {None}
  /\ drafts \in Drafts
  /\ busy \in {BusyKey(k) : k \in Kinds} \cup {None}
  /\ seeded \in BOOLEAN
  /\ link \in [job: Jobs \cup {None}, result: Jobs \cup {None}]
  /\ pollSel \in Jobs \cup {None}
  /\ threads \in [Threads -> Thread]
  /\ events \in 0..MaxEvents

\* A busy key always has a handler that will clear it: no button is left
\* disabled by a handler that has ended, although all handlers share the one
\* busyAction string and each of them clears it (finally { setBusyAction(null) }).
BusyIsOwned ==
  busy # None => \E h \in Handlers : /\ threads[h].kind # "idle"
                                     /\ BusyKey(threads[h].kind) = busy

Typed(f) == drafts[f] # None /\ drafts[f].by = "operator"

\* Text the operator typed is replaced only by typing, by selecting a job, by
\* starting anew or by the answer of a review: neither polling nor the refresh
\* that ends every handler may discard it, although both replace the results
\* the drafts were made from.
TypedTextSurvives ==
  [][\A f \in Fields : Typed(f) /\ drafts'[f] # drafts[f] =>
       \/ TypeDraft(f) \/ StartNew \/ \E j \in Jobs : SelectJob(j)
       \/ ~seeded /\ seeded'
       \/ \E h \in Handlers : /\ threads[h].kind \in ReviewKinds
                              /\ threads[h].pc = "reply"
                              /\ threads'[h].pc = "lists"]_vars

\* The drafts hold a value of another job than the selected one.
ForeignDraft ==
  /\ selected # None
  /\ \E f \in Fields : drafts[f] # None /\ drafts[f].job # selected

\* Every value of the results rs was typed for, or extracted from, its job.
OwnValues(rs) ==
  \A j \in Jobs : rs[j] # None => \A f \in Fields : rs[j].val[f].job = j

\* The step in which the answer of a review is shown although the operator has
\* selected another job meanwhile.
LateReview(h) ==
  /\ threads[h].kind \in ReviewKinds /\ threads[h].job # selected
  /\ ReplyArrives(h)

\* The step in which the refresh of a run or a retry ends and its handler selects
\* the job, without setting that job's drafts.
RunSelects(h) ==
  /\ threads[h].kind \in {"run", "retry"} /\ threads[h].job # selected
  /\ HealthFails(h) \/ ResultsArrive(h)

\* Drafts of one job come to stand under another in two kinds of step only: the
\* answer of a review lands after the operator moved on, or a run or a retry ends
\* and selects its job.  No other step mixes them, whatever is pending meanwhile:
\* moving between jobs by hand, seeding, polling, a lost job list, cancels and
\* exports (as long as no foreign value has been saved and is shown).
DraftsMixOnlyByLateAnswer ==
  [][/\ OwnValues(results) /\ OwnValues(results)'
     /\ ~ForeignDraft /\ ForeignDraft'
     => \E h \in Handlers : LateReview(h) \/ RunSelects(h)]_vars

\* A link that names a job of the list opens that job when the jobs first arrive
\* (?job= of workspace-url.ts, which the first seeding effect selects).
DeepLinkHonoured ==
  [][\A j \in Jobs :
       /\ jobsView = NoJobs /\ jobsView'[j] # "none"
       /\ ~seeded /\ seeded' /\ link.job = j
       => selected' = j]_vars

Agrees ==
  /\ coreDataState = "ready"
  /\ jobsView = status
  /\ \A j \in Jobs : status[j] = "completed" => results[j] = stored[j]

\* Polling makes the page show the server's jobs and results again and again,
\* however its refreshes overlap with those of the handlers and whatever fails
\* in between, unless the server keeps changing.
ViewConverges == []<>Agrees \/ []<><<TRUE>>_server

=============================================================================
