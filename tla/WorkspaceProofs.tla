---------------------------- MODULE WorkspaceProofs ----------------------------
(***************************************************************************)
(* Proofs about Workspace, for any jobs, fields, overlapping refreshes and *)
(* handlers, and any bound.                                                *)
(***************************************************************************)
EXTENDS Workspace, NatSets

\* The strengthening is about the threads: the refreshes of the poll timer
\* never clear the busy key, handlers are never taken for one, and a handler of
\* a review is about a job.
ThreadInv(t, r) ==
  /\ r \in Thread
  /\ t \in Pollers => r.kind \in {"idle", "poll"}
  /\ t \in Handlers => r.kind # "poll"
  /\ r.kind \in ReviewKinds => r.job \in Jobs

ThreadsInv ==
  /\ threads \in [Threads -> Thread]
  /\ \A t \in Threads : ThreadInv(t, threads[t])

ServerType == status \in Listing /\ stored \in Results

ViewType ==
  /\ coreDataState \in {"loading", "ready", "unavailable"}
  /\ jobsView \in Listing
  /\ results \in Results
  /\ selected \in Jobs \cup {None}
  /\ drafts \in Drafts
  /\ busy \in {BusyKey(k) : k \in Kinds} \cup {None}
  /\ seeded \in BOOLEAN
  /\ link \in [job: Jobs \cup {None}, result: Jobs \cup {None}]
  /\ pollSel \in Jobs \cup {None}

WorkspaceInv ==
  /\ ServerType /\ ViewType /\ ThreadsInv /\ BusyIsOwned
  /\ events \in 0..MaxEvents

-----------------------------------------------------------------------------
(* The operators.                                                           *)

\* No kind of a handler is that of the poll timer, or of none.
LEMMA KindsDiffer == "poll" \notin Kinds /\ "idle" \notin Kinds /\ ReviewKinds \subseteq Kinds
  BY DEF Kinds, ReviewKinds, JobKinds

\* The empty drafts, list and results are drafts, a list and results.
LEMMA NoneTypes == NoDrafts \in Drafts /\ NoJobs \in Listing /\ NoResults \in Results
  BY DEF NoDrafts, NoJobs, NoResults, Drafts, Listing, Results, Status

\* A handler that is idle is a handler.
LEMMA IdleType == Idle \in Thread
  BY NoneTypes DEF Idle, Thread

\* What is asked of handlers under way says nothing of an idle one.
LEMMA IdleInv == \A t : ThreadInv(t, Idle)
  BY IdleType, KindsDiffer DEF ThreadInv, Idle

\* A refresh is a handler of the kind it is started with, for no job.
LEMMA RefreshType ==
    ASSUME ServerType, NEW kind \in Kinds \cup {"idle", "poll"},
           NEW sel \in Jobs \cup {None}
    PROVE  /\ Refresh(kind, sel) \in Thread
           /\ Refresh(kind, sel).kind = kind /\ Refresh(kind, sel).job = None
<1>1. Refresh(kind, sel) \in Thread
  BY IdleType DEF Refresh, Thread, ServerType
<1>2. Refresh(kind, sel).kind = kind
  BY IdleType DEF Refresh, Thread
<1>3. Refresh(kind, sel).job = None
  BY IdleType DEF Refresh, Thread, Idle
<1>. QED BY <1>1, <1>2, <1>3

\* The newest of some jobs is one of them.
LEMMA NewestIn ==
    ASSUME NEW S \in SUBSET Jobs, S # {}
    PROVE  Newest(S) \in S
<1>1. PICK bound \in Jobs : \A j \in Jobs : j <= bound
  BY JobsAssumption
<1>2. S \in SUBSET Nat /\ bound \in Nat /\ \A k \in S : k <= bound
  BY <1>1, JobsAssumption
<1>3. \E j \in S : \A k \in S : k <= j
  BY <1>2, LargestExists
<1>. QED BY <1>3 DEF Newest

\* The job the second seeding effect selects is one of those listed.
LEMMA PrioritizedJobType ==
    ASSUME NEW rows \in Listing, rows # NoJobs, NEW res
    PROVE  PrioritizedJob(rows, res) \in Jobs
<1>. DEFINE all == {j \in Jobs : rows[j] # "none"}
            review == {j \in all : res[j] # None /\ res[j].flag # {}}
            active == {j \in all : rows[j] = "active"}
            S == IF review # {} THEN review ELSE IF active # {} THEN active ELSE all
<1>1. PrioritizedJob(rows, res) = Newest(S)
  BY DEF PrioritizedJob
<1>2. all # {}
  BY DEF Listing, NoJobs
<1>3. S \in SUBSET Jobs /\ S # {}
  BY <1>2
<1>. HIDE DEF S
<1>. QED BY <1>1, <1>3, NewestIn

\* Drafts made from a result, and the edits a save posts, are drafts.
LEMMA InitialDraftsType ==
    ASSUME NEW r \in Result \cup {None}
    PROVE  InitialDrafts(r) \in Drafts
  BY NoneTypes DEF InitialDrafts, Result, Drafts

\* The edits built from drafts are drafts.
LEMMA EditsType ==
    ASSUME drafts \in Drafts, NEW r \in Result
    PROVE  buildReviewEdits(r) \in Drafts
  BY DEF buildReviewEdits, Drafts

\* A reviewed result is a result.
LEMMA ReviewedType ==
    ASSUME NEW r \in Result, NEW e \in Drafts, NEW b \in BOOLEAN
    PROVE  Reviewed(r, e, b) \in Result
<1>. DEFINE edited == {f \in Fields : e[f] # None}
            v == [f \in Fields |-> IF f \in edited THEN e[f] ELSE r.val[f]]
            g == CASE b -> (r.flag \ HighConfidence) \ edited
                   [] ~b /\ edited = {} -> {}
                   [] OTHER -> r.flag \ edited
<1>1. v \in [Fields -> Value]
  BY DEF Drafts, Result
<1>2. g \in SUBSET Fields
  BY DEF Result
<1>3. Reviewed(r, e, b) = [val |-> v, flag |-> g, reviewed |-> TRUE]
  BY DEF Reviewed
<1>. HIDE DEF v, g
<1>. QED BY <1>1, <1>2, <1>3 DEF Result

\* An extraction is a result.
LEMMA ExtractionType ==
    ASSUME NEW j \in Jobs, NEW flag \in SUBSET Fields
    PROVE  Extraction(j, flag) \in Result
  BY DEF Extraction, Result, Value

\* A review is offered only for a listed job with a result.
LEMMA ReviewStage ==
    ASSUME ViewType, Stage = "review"
    PROVE  selected \in Jobs /\ results[selected] \in Result
<1>1. Listed(selected) /\ ShownResult(selected) # None
  BY DEF Stage
<1>2. selected \in Jobs
  BY <1>1 DEF Listed, ViewType
<1>. QED BY <1>1, <1>2 DEF ShownResult, ViewType, Results

\* A new record for one thread keeps the threads well formed.
LEMMA ThreadsKeep ==
    ASSUME ThreadsInv, NEW t \in Threads, NEW r, ThreadInv(t, r),
           threads' = [threads EXCEPT ![t] = r]
    PROVE  ThreadsInv' /\ \A u \in Threads : threads'[u] = IF u = t THEN r ELSE threads[u]
<1>1. \A u \in Threads : threads'[u] = IF u = t THEN r ELSE threads[u]
  BY DEF ThreadsInv
<1>2. threads' \in [Threads -> Thread]
  BY DEF ThreadsInv, ThreadInv
<1>3. \A u \in Threads : ThreadInv(u, threads'[u])
  BY <1>1 DEF ThreadsInv
<1>. QED BY <1>1, <1>2, <1>3 DEF ThreadsInv, ThreadInv

\* The owner of the busy key keeps its kind until it clears the key.
LEMMA OwnerKeeps ==
    ASSUME BusyIsOwned, busy' = busy,
           \A h \in Handlers : threads'[h].kind = threads[h].kind
    PROVE  BusyIsOwned'
  BY DEF BusyIsOwned

\* The number of events stays within its bound.
LEMMA EventType ==
    ASSUME events \in 0..MaxEvents, Event
    PROVE  events' \in 0..MaxEvents
  BY BoundsAssumption DEF Event

\* Replacing one result by another keeps the results well formed.
LEMMA ResultsKeep ==
    ASSUME NEW rs \in Results, NEW j, NEW r \in Result \cup {None}
    PROVE  [rs EXCEPT ![j] = r] \in Results
  BY DEF Results

\* A list with the status of one job replaced is a list.
LEMMA ListingKeeps ==
    ASSUME NEW l \in Listing, NEW j, NEW s \in Status
    PROVE  [l EXCEPT ![j] = s] \in Listing
  BY DEF Listing

\* A step that changes neither the page nor a thread.
LEMMA ServerStep ==
    ASSUME WorkspaceInv, ServerType', UNCHANGED <<view, threads>>,
           events' \in 0..MaxEvents
    PROVE  WorkspaceInv'
<1>1. ViewType' /\ ThreadsInv'
  BY DEF WorkspaceInv, view, ViewType, ThreadsInv, ThreadInv
<1>2. BusyIsOwned'
  BY OwnerKeeps DEF WorkspaceInv, view
<1>. QED BY <1>1, <1>2 DEF WorkspaceInv

\* A step of the operator that sends nothing.
LEMMA PageStep ==
    ASSUME WorkspaceInv, ViewType', UNCHANGED <<server, threads, busy, events>>
    PROVE  WorkspaceInv'
<1>1. ServerType' /\ ThreadsInv'
  BY DEF WorkspaceInv, server, ServerType, ThreadsInv, ThreadInv
<1>2. BusyIsOwned'
  BY OwnerKeeps DEF WorkspaceInv
<1>. QED BY <1>1, <1>2 DEF WorkspaceInv

\* A step of thread t: it leaves the busy key alone and keeps its kind, clears
\* the key, or sets the key of its own kind.
LEMMA ThreadStep ==
    ASSUME WorkspaceInv, NEW t \in Threads, NEW r, ThreadInv(t, r),
           threads' = [threads EXCEPT ![t] = r],
           ServerType', ViewType', events' \in 0..MaxEvents,
           \/ busy' = busy /\ (t \in Handlers => r.kind = threads[t].kind)
           \/ busy' = None
           \/ t \in Handlers /\ r.kind # "idle" /\ busy' = BusyKey(r.kind)
    PROVE  WorkspaceInv'
<1>1. ThreadsInv' /\ \A u \in Threads : threads'[u] = IF u = t THEN r ELSE threads[u]
  BY ThreadsKeep DEF WorkspaceInv
<1>2. Handlers \subseteq Threads
  BY DEF Threads
<1>3. BusyIsOwned'
  <2>1. CASE busy' = busy /\ (t \in Handlers => r.kind = threads[t].kind)
    <3>1. \A h \in Handlers : threads'[h].kind = threads[h].kind
      BY <1>1, <1>2, <2>1
    <3>. QED BY <2>1, <3>1, OwnerKeeps DEF WorkspaceInv
  <2>2. CASE busy' = None
    BY <2>2 DEF BusyIsOwned
  <2>3. CASE t \in Handlers /\ r.kind # "idle" /\ busy' = BusyKey(r.kind)
    <3>1. threads'[t] = r
      BY <1>1
    <3>2. threads'[t].kind # "idle" /\ BusyKey(threads'[t].kind) = busy'
      BY <2>3, <3>1
    <3>. QED BY <2>3, <3>2 DEF BusyIsOwned
  <2>. QED BY <2>1, <2>2, <2>3
<1>. QED BY <1>1, <1>3 DEF WorkspaceInv

\* What the caller does when its refresh returns keeps the selection a job and
\* clears the key unless the refresh was the timer's.
LEMMA AfterRefreshType ==
    ASSUME NEW t, t \in Thread, NEW sel \in Jobs \cup {None}, AfterRefresh(t, sel)
    PROVE  /\ selected' \in Jobs \cup {None}
           /\ busy' = IF t.kind = "poll" THEN busy ELSE None
  BY DEF AfterRefresh, Thread

-----------------------------------------------------------------------------
(* The invariant.                                                           *)

\* The initial states.
LEMMA InitWorkspace == Init => WorkspaceInv
<1>. SUFFICES ASSUME Init PROVE WorkspaceInv
  OBVIOUS
<1>1. ServerType
  <2>1. status \in Listing
    BY BoundsAssumption DEF Init, Listing
  <2>2. PICK flagged \in [Jobs -> SUBSET Fields] :
          stored = [j \in Jobs |-> IF status[j] = "completed"
                                   THEN Extraction(j, flagged[j]) ELSE None]
    BY DEF Init
  <2>3. stored \in Results
    BY <2>2, ExtractionType DEF Results
  <2>. QED BY <2>1, <2>3 DEF ServerType
<1>2. ViewType
  <2>1. link \in [job: Jobs \cup {None}, result: Jobs \cup {None}]
    BY DEF Init
  <2>2. jobsView \in Listing /\ results \in Results /\ drafts \in Drafts
    BY NoneTypes DEF Init
  <2>. QED BY <2>1, <2>2 DEF Init, ViewType
<1>3. ThreadsInv
  <2>1. \A t \in Pollers : ThreadInv(t, Refresh("poll", None))
    BY <1>1, RefreshType, ThreadsAssumption, KindsDiffer DEF ThreadInv
  <2>2. threads = [t \in Threads |->
                    IF t \in Pollers THEN Refresh("poll", None) ELSE Idle]
    BY DEF Init
  <2>3. \A t \in Threads : ThreadInv(t, threads[t])
    BY <2>1, <2>2, IdleInv
  <2>4. threads \in [Threads -> Thread]
    BY <2>2, <2>3 DEF ThreadInv
  <2>. QED BY <2>3, <2>4 DEF ThreadsInv
<1>4. BusyIsOwned /\ events \in 0..MaxEvents
  BY BoundsAssumption DEF Init, BusyIsOwned
<1>. QED BY <1>1, <1>2, <1>3, <1>4 DEF WorkspaceInv

\* A click sends a request about the selected job.
LEMMA ClickKeeps ==
    ASSUME WorkspaceInv, NEW h \in Handlers, NEW kind \in Kinds, Click(h, kind)
    PROVE  WorkspaceInv'
<1>. USE DEF WorkspaceInv
<1>. DEFINE e == IF kind = "save" THEN buildReviewEdits(results[selected]) ELSE NoDrafts
            r == [Idle EXCEPT !.kind = kind, !.pc = "request", !.job = selected,
                              !.sel = selected, !.edits = e]
<1>1. threads' = [threads EXCEPT ![h] = r] /\ busy' = BusyKey(kind)
  BY DEF Click
<1>2. kind \in ReviewKinds => selected \in Jobs /\ results[selected] \in Result
  BY ReviewStage DEF Click, Enabled, ReviewKinds
<1>3. e \in Drafts
  BY <1>2, EditsType, NoneTypes DEF ReviewKinds, ViewType
<1>. HIDE DEF e
<1>4. r \in Thread /\ r.kind = kind /\ r.job = selected
  BY <1>3, IdleType DEF Thread, ViewType
<1>5. ThreadInv(h, r)
  BY <1>2, <1>4, KindsDiffer, ThreadsAssumption DEF ThreadInv
<1>6. ViewType'
  BY <1>1 DEF Click, ViewType
<1>7. ServerType' /\ events' \in 0..MaxEvents
  BY EventType DEF Click, server, ServerType
<1>8. h \in Threads /\ r.kind # "idle"
  BY <1>4, KindsDiffer DEF Threads
<1>. HIDE DEF r
<1>. QED BY <1>1, <1>4, <1>5, <1>6, <1>7, <1>8, ThreadStep

\* An answer is about a job and keeps the kind of its handler.
LEMMA AnsweredStep ==
    ASSUME WorkspaceInv, NEW h \in Handlers, NEW job \in Jobs \cup {None},
           NEW reply \in Result \cup {None}, Answered(h, job, reply),
           threads[h].kind \in ReviewKinds => job \in Jobs,
           ServerType', UNCHANGED <<view, events>>
    PROVE  WorkspaceInv'
<1>. USE DEF WorkspaceInv
<1>. DEFINE r == [threads[h] EXCEPT !.pc = "reply", !.job = job,
                                    !.edits = NoDrafts, !.reply = reply]
<1>0. h \in Threads /\ threads[h] \in Thread /\ ThreadInv(h, threads[h])
  BY DEF Threads, ThreadsInv
<1>1. threads' = [threads EXCEPT ![h] = r]
  BY DEF Answered
<1>2. r \in Thread /\ r.kind = threads[h].kind /\ r.job = job
  BY <1>0, NoneTypes DEF Thread
<1>3. ThreadInv(h, r)
  BY <1>0, <1>2 DEF ThreadInv
<1>4. ViewType' /\ busy' = busy
  BY DEF view, ViewType
<1>. HIDE DEF r
<1>. QED BY <1>0, <1>1, <1>2, <1>3, <1>4, ThreadStep

\* The server does what a handler asks; the page does not change.
LEMMA AcceptKeeps ==
    ASSUME WorkspaceInv, NEW h \in Handlers, Accept(h)
    PROVE  WorkspaceInv'
<1>. USE DEF WorkspaceInv
<1>0. /\ h \in Threads /\ threads[h] \in Thread /\ ThreadInv(h, threads[h])
      /\ threads[h].job \in Jobs \cup {None} /\ threads[h].edits \in Drafts
  BY DEF Threads, ThreadsInv, Thread
<1>1. UNCHANGED <<view, events>>
  BY DEF Accept
<1>2. CASE submitReview(h)
  <2>. DEFINE t == threads[h]
              new == Reviewed(stored[t.job], t.edits, t.kind = "approve high")
  <2>1. t.job \in Jobs /\ stored[t.job] \in Result
    BY <1>0, <1>2 DEF submitReview, ThreadInv, ServerType, Results
  <2>2. new \in Result
    BY <2>1, <1>0, ReviewedType
  <2>3. stored' = [stored EXCEPT ![t.job] = new] /\ status' = status
    BY <1>2 DEF submitReview
  <2>. HIDE DEF new
  <2>4. ServerType'
    BY <2>2, <2>3, ResultsKeep DEF ServerType
  <2>5. stored'[t.job] \in Result \cup {None}
    BY <2>1, <2>4 DEF ServerType, Results
  <2>6. Answered(h, t.job, stored'[t.job])
    BY <1>2 DEF submitReview
  <2>. QED BY <1>1, <2>1, <2>4, <2>5, <2>6, AnsweredStep
<1>3. CASE handleRunExtraction(h)
  <2>1. PICK j \in Jobs : status' = [status EXCEPT ![j] = "active"] /\ Answered(h, j, None)
    BY <1>3 DEF handleRunExtraction
  <2>2. ServerType'
    BY <1>3, <2>1, ListingKeeps DEF handleRunExtraction, ServerType, Status
  <2>. QED BY <1>1, <2>1, <2>2, AnsweredStep
<1>4. CASE handleRetryJob(h)
  <2>1. ServerType'
    BY <1>4, ListingKeeps DEF handleRetryJob, ServerType, Status
  <2>2. Answered(h, threads[h].job, None) /\ threads[h].kind \notin ReviewKinds
    BY <1>4 DEF handleRetryJob, ReviewKinds
  <2>. QED BY <1>0, <1>1, <2>1, <2>2, AnsweredStep
<1>5. CASE handleCancelJob(h)
  <2>1. ServerType'
    BY <1>5, ListingKeeps DEF handleCancelJob, ServerType, Status
  <2>2. Answered(h, threads[h].job, None) /\ threads[h].kind \notin ReviewKinds
    BY <1>5 DEF handleCancelJob, ReviewKinds
  <2>. QED BY <1>0, <1>1, <2>1, <2>2, AnsweredStep
<1>6. CASE handleExport(h)
  <2>1. ServerType'
    BY <1>6 DEF handleExport, server, ServerType
  <2>2. Answered(h, threads[h].job, None) /\ threads[h].kind \notin ReviewKinds
    BY <1>6 DEF handleExport, ReviewKinds
  <2>. QED BY <1>0, <1>1, <2>1, <2>2, AnsweredStep
<1>. QED BY <1>2, <1>3, <1>4, <1>5, <1>6 DEF Accept

\* Refused, lost, failed and answered requests.
LEMMA HandlerKeeps ==
    ASSUME WorkspaceInv, NEW h \in Handlers, HandlerStep(h)
    PROVE  WorkspaceInv'
<1>. USE DEF WorkspaceInv
<1>. DEFINE t == threads[h]
<1>0. h \in Threads /\ t \in Thread /\ ThreadInv(h, t)
  BY DEF Threads, ThreadsInv
<1>1. CASE Refuse(h)
  <2>. DEFINE r == [t EXCEPT !.pc = "error"]
  <2>1. threads' = [threads EXCEPT ![h] = r]
    BY <1>1 DEF Refuse
  <2>2. ThreadInv(h, r) /\ r.kind = t.kind
    BY <1>0 DEF ThreadInv, Thread
  <2>3. ServerType' /\ ViewType' /\ busy' = busy /\ events' = events
    BY <1>1 DEF Refuse, server, view, ServerType, ViewType
  <2>. HIDE DEF r
  <2>. QED BY <1>0, <2>1, <2>2, <2>3, ThreadStep
<1>2. CASE Lose(h)
  <2>. DEFINE r == [t EXCEPT !.pc = "error", !.edits = NoDrafts, !.reply = None]
  <2>1. threads' = [threads EXCEPT ![h] = r]
    BY <1>2 DEF Lose
  <2>2. r \in Thread /\ r.kind = t.kind /\ r.job = t.job
    BY <1>0, NoneTypes DEF Thread
  <2>3. ServerType' /\ ViewType' /\ busy' = busy /\ events' \in 0..MaxEvents
    BY <1>2, EventType DEF Lose, server, view, ServerType, ViewType
  <2>4. ThreadInv(h, r)
    BY <1>0, <2>2 DEF ThreadInv
  <2>. HIDE DEF r
  <2>. QED BY <1>0, <2>1, <2>2, <2>3, <2>4, ThreadStep
<1>3. CASE CatchError(h)
  <2>1. ServerType' /\ ViewType' /\ busy' = None /\ events' = events
    BY <1>3 DEF CatchError, server, ServerType, ViewType
  <2>. QED BY <1>0, <1>3, <2>1, IdleInv, ThreadStep DEF CatchError
<1>4. CASE ReplyArrives(h)
  <2>. DEFINE r == [Refresh(t.kind, t.sel) EXCEPT !.job = t.job]
  <2>1. threads' = [threads EXCEPT ![h] = r]
    BY <1>4 DEF ReplyArrives
  <2>2. /\ t.kind \in Kinds \cup {"idle", "poll"} /\ t.sel \in Jobs \cup {None}
        /\ t.job \in Jobs \cup {None} /\ t.reply \in Result \cup {None}
    BY <1>0 DEF Thread
  <2>3. Refresh(t.kind, t.sel) \in Thread /\ Refresh(t.kind, t.sel).kind = t.kind
    BY <2>2, RefreshType
  <2>4. r \in Thread /\ r.kind = t.kind /\ r.job = t.job
    BY <2>2, <2>3 DEF Thread
  <2>5. ThreadInv(h, r)
    BY <1>0, <2>4 DEF ThreadInv
  <2>6. results' \in Results /\ drafts' \in Drafts
    <3>1. CASE t.kind \in ReviewKinds
      <4>1. results' = [results EXCEPT ![t.job] = t.reply] /\ drafts' = InitialDrafts(t.reply)
        BY <1>4, <3>1 DEF ReplyArrives
      <4>. QED BY <4>1, <2>2, ResultsKeep, InitialDraftsType DEF ViewType
    <3>2. CASE t.kind \notin ReviewKinds
      BY <1>4, <3>2 DEF ReplyArrives, ViewType
    <3>. QED BY <3>1, <3>2
  <2>7. ServerType' /\ ViewType' /\ busy' = busy /\ events' = events
    BY <1>4, <2>6 DEF ReplyArrives, server, ServerType, ViewType
  <2>. HIDE DEF r
  <2>. QED BY <1>0, <2>1, <2>4, <2>5, <2>7, ThreadStep
<1>. QED BY <1>1, <1>2, <1>3, <1>4, AcceptKeeps DEF HandlerStep

\* The steps of a refresh, whoever runs it.
LEMMA RefreshStepKeeps ==
    ASSUME WorkspaceInv, NEW t \in Threads, RefreshStep(t)
    PROVE  WorkspaceInv'
<1>. USE DEF WorkspaceInv
<1>. DEFINE th == threads[t]
<1>0. th \in Thread /\ ThreadInv(t, th)
  BY DEF ThreadsInv
<1>1. CASE HealthFails(t)
  <2>1. AfterRefresh(th, selected) /\ threads' = [threads EXCEPT ![t] = Idle]
    BY <1>1 DEF HealthFails
  <2>2. /\ selected' \in Jobs \cup {None}
        /\ busy' = IF th.kind = "poll" THEN busy ELSE None
    BY <2>1, <1>0, AfterRefreshType DEF ViewType
  <2>3. ViewType'
    BY <1>1, <2>2, NoneTypes DEF HealthFails, ViewType
  <2>4. ServerType' /\ events' \in 0..MaxEvents
    BY <1>1, EventType DEF HealthFails, server, ServerType
  <2>5. t \in Handlers => busy' = None
    BY <1>0, <2>2 DEF ThreadInv
  <2>. QED BY <2>1, <2>2, <2>3, <2>4, <2>5, IdleInv, ThreadStep
<1>2. CASE LoseLists(t)
  <2>. DEFINE r == [th EXCEPT !.rows = NoJobs]
  <2>1. threads' = [threads EXCEPT ![t] = r]
    BY <1>2 DEF LoseLists
  <2>2. r \in Thread /\ r.kind = th.kind /\ r.job = th.job
    BY <1>0, NoneTypes DEF Thread
  <2>3. ThreadInv(t, r)
    BY <1>0, <2>2 DEF ThreadInv
  <2>4. ServerType' /\ ViewType' /\ busy' = busy /\ events' \in 0..MaxEvents
    BY <1>2, EventType DEF LoseLists, server, view, ServerType, ViewType
  <2>. HIDE DEF r
  <2>. QED BY <2>1, <2>2, <2>3, <2>4, ThreadStep
<1>3. CASE ListsArrive(t)
  <2>. DEFINE completed == {j \in Jobs : th.rows[j] = "completed"}
  <2>1. PICK lost \in SUBSET completed :
          /\ IF lost = {} THEN UNCHANGED events ELSE Event
          /\ threads' = [threads EXCEPT ![t].pc = "answers",
               ![t].res = [j \in Jobs |-> IF j \in completed \ lost
                                          THEN stored[j] ELSE None]]
    BY <1>3 DEF ListsArrive
  <2>. DEFINE a == [j \in Jobs |-> IF j \in completed \ lost THEN stored[j] ELSE None]
              r == [th EXCEPT !.pc = "answers", !.res = a]
  <2>2. a \in Results
    BY DEF ServerType, Results
  <2>3. threads' = [threads EXCEPT ![t] = r]
    BY <2>1
  <2>. HIDE DEF a
  <2>4. r \in Thread /\ r.kind = th.kind /\ r.job = th.job
    BY <1>0, <2>2 DEF Thread
  <2>5. ThreadInv(t, r)
    BY <1>0, <2>4 DEF ThreadInv
  <2>6. th.rows \in Listing
    BY <1>0 DEF Thread
  <2>7. /\ selected' \in Jobs \cup {None} /\ drafts' \in Drafts
        /\ link' \in [job: Jobs \cup {None}, result: Jobs \cup {None}]
        /\ seeded' \in BOOLEAN
    <3>1. CASE ~seeded /\ th.rows # NoJobs
      <4>. DEFINE j == PrioritizedJob(th.rows, results)
      <4>1. j \in Jobs
        BY <3>1, <2>6, PrioritizedJobType
      <4>2. selected' = j /\ drafts' = InitialDrafts(results[j])
            /\ link' = NoLink /\ seeded' = TRUE
        BY <1>3, <3>1 DEF ListsArrive, Seed
      <4>. HIDE DEF j
      <4>3. results[j] \in Result \cup {None}
        BY <4>1 DEF ViewType, Results
      <4>. QED BY <4>1, <4>2, <4>3, InitialDraftsType DEF NoLink
    <3>2. CASE ~(~seeded /\ th.rows # NoJobs)
      BY <1>3, <3>2 DEF ListsArrive, ViewType
    <3>. QED BY <3>1, <3>2
  <2>8. pollSel' \in Jobs \cup {None} /\ jobsView' \in Listing
    BY <1>3, <2>6 DEF ListsArrive, ViewType
  <2>9. ViewType' /\ busy' = busy
    BY <1>3, <2>7, <2>8 DEF ListsArrive, ViewType
  <2>10. ServerType' /\ events' \in 0..MaxEvents
    BY <1>3, <2>1, EventType DEF ListsArrive, server, ServerType
  <2>. HIDE DEF r
  <2>. QED BY <2>3, <2>4, <2>5, <2>9, <2>10, ThreadStep
<1>4. CASE ResultsArrive(t)
  <2>. DEFINE gone == th.sel # None /\ th.rows[th.sel] = "none"
              sel == IF gone THEN None ELSE selected
  <2>1. AfterRefresh(th, sel) /\ threads' = [threads EXCEPT ![t] = Idle]
    BY <1>4 DEF ResultsArrive
  <2>2. sel \in Jobs \cup {None} /\ th.res \in Results
    BY <1>0 DEF ViewType, Thread
  <2>. HIDE DEF sel
  <2>3. /\ selected' \in Jobs \cup {None}
        /\ busy' = IF th.kind = "poll" THEN busy ELSE None
    BY <2>1, <2>2, <1>0, AfterRefreshType
  <2>4. ViewType'
    BY <1>4, <2>2, <2>3 DEF ResultsArrive, ViewType
  <2>5. ServerType' /\ events' = events
    BY <1>4 DEF ResultsArrive, server, ServerType
  <2>6. t \in Handlers => busy' = None
    BY <1>0, <2>3 DEF ThreadInv
  <2>. QED BY <2>1, <2>3, <2>4, <2>5, <2>6, IdleInv, ThreadStep
<1>. QED BY <1>1, <1>2, <1>3, <1>4 DEF RefreshStep

\* The timer starts a refresh of its own.
LEMMA PollKeeps ==
    ASSUME WorkspaceInv, NEW p \in Pollers, PollTick(p) \/ RetryConnection(p)
    PROVE  WorkspaceInv'
<1>. USE DEF WorkspaceInv
<1>1. PICK sel \in Jobs \cup {None} : threads' = [threads EXCEPT ![p] = Refresh("poll", sel)]
  BY DEF PollTick, RetryConnection, ViewType
<1>2. ThreadInv(p, Refresh("poll", sel))
  BY RefreshType, KindsDiffer, ThreadsAssumption DEF ThreadInv
<1>3. ServerType' /\ ViewType' /\ busy' = busy /\ events' = events
  BY DEF PollTick, RetryConnection, server, view, ServerType, ViewType
<1>4. p \in Threads /\ p \notin Handlers
  BY ThreadsAssumption DEF Threads
<1>. QED BY <1>1, <1>2, <1>3, <1>4, ThreadStep

\* What the operator does: a click, a retry of the connection, a selection, a text.
LEMMA OperatorKeeps ==
    ASSUME WorkspaceInv, Operator
    PROVE  WorkspaceInv'
<1>. USE DEF WorkspaceInv
<1>1. CASE \E h \in Handlers, kind \in Kinds : Click(h, kind)
  BY <1>1, ClickKeeps
<1>2. CASE \E p \in Pollers : RetryConnection(p)
  BY <1>2, PollKeeps
<1>3. CASE \E j \in Jobs : SelectJob(j)
  <2>1. PICK j \in Jobs : SelectJob(j)
    BY <1>3
  <2>2. InitialDrafts(results[j]) \in Drafts
    BY InitialDraftsType DEF ViewType, Results
  <2>3. ViewType'
    BY <2>1, <2>2 DEF SelectJob, ViewType, NoLink
  <2>. QED BY <2>1, <2>3, PageStep DEF SelectJob
<1>4. CASE StartNew
  <2>1. ViewType'
    BY <1>4, NoneTypes DEF StartNew, ViewType, NoLink
  <2>. QED BY <1>4, <2>1, PageStep DEF StartNew
<1>5. CASE \E f \in Fields : TypeDraft(f)
  <2>1. PICK f \in Fields : TypeDraft(f)
    BY <1>5
  <2>2. selected \in Jobs
    BY <2>1, ReviewStage DEF TypeDraft
  <2>3. drafts' \in Drafts
    BY <2>1, <2>2 DEF TypeDraft, ViewType, Drafts, Value
  <2>4. ViewType'
    BY <2>1, <2>3 DEF TypeDraft, ViewType
  <2>. QED BY <2>1, <2>4, PageStep DEF TypeDraft
<1>. QED BY <1>1, <1>2, <1>3, <1>4, <1>5 DEF Operator

\* Every step keeps the invariant.
LEMMA NextWorkspace == WorkspaceInv /\ [Next]_vars => WorkspaceInv'
<1>. SUFFICES ASSUME WorkspaceInv, [Next]_vars PROVE WorkspaceInv'
  OBVIOUS
<1>. USE DEF WorkspaceInv
<1>1. ASSUME NEW j \in Jobs, Worker(j) PROVE WorkspaceInv'
  <2>1. PICK flag \in SUBSET Fields :
          \/ status' = [status EXCEPT ![j] = "failed"] /\ UNCHANGED stored
          \/ /\ status' = [status EXCEPT ![j] = "completed"]
             /\ stored' = [stored EXCEPT ![j] = Extraction(j, flag)]
    BY <1>1 DEF Worker
  <2>2. ServerType'
    <3>1. Extraction(j, flag) \in Result /\ {"failed", "completed"} \subseteq Status
      BY ExtractionType DEF Status
    <3>2. status' \in Listing
      <4>1. /\ [status EXCEPT ![j] = "failed"] \in Listing
            /\ [status EXCEPT ![j] = "completed"] \in Listing
        BY <3>1, ListingKeeps DEF ServerType
      <4>. QED BY <2>1, <4>1
    <3>3. stored' \in Results
      <4>1. [stored EXCEPT ![j] = Extraction(j, flag)] \in Results
        BY <3>1, ResultsKeep DEF ServerType
      <4>. QED BY <2>1, <4>1 DEF ServerType
    <3>. QED BY <3>2, <3>3 DEF ServerType
  <2>. QED BY <1>1, <2>2, ServerStep DEF Worker
<1>2. ASSUME NEW j \in Jobs, NEW f \in Fields, Colleague(j, f) PROVE WorkspaceInv'
  <2>. DEFINE e == [NoDrafts EXCEPT ![f] = [by |-> "colleague", job |-> j]]
              new == Reviewed(stored[j], e, FALSE)
  <2>1. e \in Drafts
    BY DEF NoDrafts, Drafts, Value
  <2>2. stored[j] \in Result
    BY <1>2 DEF Colleague, ServerType, Results
  <2>3. stored' = [stored EXCEPT ![j] = new] /\ status' = status
    BY <1>2 DEF Colleague
  <2>. HIDE DEF e
  <2>4. new \in Result
    BY <2>1, <2>2, ReviewedType
  <2>. HIDE DEF new
  <2>5. ServerType'
    BY <2>3, <2>4, ResultsKeep DEF ServerType
  <2>6. events' \in 0..MaxEvents
    BY <1>2, EventType DEF Colleague
  <2>. QED BY <1>2, <2>5, <2>6, ServerStep DEF Colleague
<1>3. CASE UNCHANGED vars
  <2>1. ServerType'
    BY <1>3 DEF vars, server, ServerType
  <2>. QED BY <1>3, <2>1, ServerStep DEF vars
<1>. QED
  BY <1>1, <1>2, <1>3, RefreshStepKeeps, HandlerKeeps, PollKeeps, OperatorKeeps DEF Next

-----------------------------------------------------------------------------
(* The theorems.                                                            *)

\* The page and every refresh and handler in flight fit what the server has held
\* (refreshCoreData and the handlers of App.tsx).
THEOREM WorkspaceInvariant == Spec => []WorkspaceInv
<1>. QED BY InitWorkspace, NextWorkspace, PTL DEF Spec

\* Types of everything the server, the page and the requests hold.
THEOREM TypesCorrect == Spec => []TypeOK
<1>1. WorkspaceInv => TypeOK
  BY DEF WorkspaceInv, ServerType, ViewType, ThreadsInv, TypeOK
<1>. QED BY <1>1, WorkspaceInvariant, PTL

\* The busy key shown is always one that a running handler will clear.
THEOREM BusyAlwaysOwned == Spec => []BusyIsOwned
<1>1. WorkspaceInv => BusyIsOwned
  BY DEF WorkspaceInv
<1>. QED BY <1>1, WorkspaceInvariant, PTL

-----------------------------------------------------------------------------
(* The action properties.                                                   *)

\* The steps that may change the drafts or the selection.
LEMMA DraftsOrSelection ==
    ASSUME [Next]_vars
    PROVE  \/ UNCHANGED <<drafts, selected>>
           \/ \E t \in Threads : HealthFails(t) \/ ListsArrive(t) \/ ResultsArrive(t)
           \/ \E h \in Handlers : ReplyArrives(h)
           \/ \E j \in Jobs : SelectJob(j)
           \/ StartNew
           \/ \E f \in Fields : TypeDraft(f)
<1>1. CASE \E j \in Jobs : Worker(j) \/ \E f \in Fields : Colleague(j, f)
  BY <1>1 DEF Worker, Colleague, view
<1>2. CASE \E t \in Threads : RefreshStep(t)
  BY <1>2 DEF RefreshStep, LoseLists, view
<1>3. CASE \E h \in Handlers : HandlerStep(h)
  BY <1>3 DEF HandlerStep, Accept, Refuse, Lose, CatchError, view
<1>4. CASE \E p \in Pollers : PollTick(p)
  BY <1>4 DEF PollTick, view
<1>5. CASE Operator
  BY <1>5 DEF Operator, Click, RetryConnection, view
<1>6. CASE UNCHANGED vars
  BY <1>6 DEF vars, view
<1>. QED BY <1>1, <1>2, <1>3, <1>4, <1>5, <1>6 DEF Next

\* A reply that has arrived is followed by a refresh.
LEMMA ReplyIsFollowed ==
    ASSUME WorkspaceInv, NEW h \in Handlers, ReplyArrives(h)
    PROVE  threads[h].pc = "reply" /\ threads'[h].pc = "lists"
<1>. DEFINE t == threads[h]
<1>1. h \in Threads /\ t \in Thread
  BY DEF WorkspaceInv, ThreadsInv, Threads
<1>2. Refresh(t.kind, t.sel).pc = "lists" /\ Refresh(t.kind, t.sel) \in Thread
  BY <1>1, IdleType, RefreshType DEF Refresh, Thread, WorkspaceInv
<1>3. [Refresh(t.kind, t.sel) EXCEPT !.job = t.job].pc = "lists"
  BY <1>2 DEF Thread
<1>4. threads' = [threads EXCEPT ![h] = [Refresh(t.kind, t.sel) EXCEPT !.job = t.job]]
  BY DEF ReplyArrives
<1>. QED BY <1>1, <1>3, <1>4 DEF ReplyArrives, WorkspaceInv, ThreadsInv

\* What was typed is replaced in no other step than those the property names.
LEMMA TextStep ==
    ASSUME WorkspaceInv, [Next]_vars, NEW f \in Fields, drafts'[f] # drafts[f]
    PROVE  \/ TypeDraft(f) \/ StartNew \/ \E j \in Jobs : SelectJob(j)
           \/ ~seeded /\ seeded'
           \/ \E h \in Handlers : /\ threads[h].kind \in ReviewKinds
                                  /\ threads[h].pc = "reply"
                                  /\ threads'[h].pc = "lists"
<1>1. CASE \E t \in Threads : HealthFails(t) \/ ResultsArrive(t)
  BY <1>1 DEF HealthFails, ResultsArrive
<1>2. CASE \E t \in Threads : ListsArrive(t)
  BY <1>2 DEF ListsArrive, Seed
<1>3. CASE \E h \in Handlers : ReplyArrives(h)
  <2>1. PICK h \in Handlers : ReplyArrives(h)
    BY <1>3
  <2>2. threads[h].kind \in ReviewKinds
    BY <2>1 DEF ReplyArrives
  <2>. QED BY <2>1, <2>2, ReplyIsFollowed
<1>4. CASE \E g \in Fields : TypeDraft(g)
  BY <1>4 DEF TypeDraft, WorkspaceInv, ViewType, Drafts
<1>. QED BY <1>1, <1>2, <1>3, <1>4, DraftsOrSelection

\* Typed text survives polling and the refreshes of handlers.
THEOREM TypedTextKept == Spec => TypedTextSurvives
<1>1. WorkspaceInv /\ [Next]_vars =>
        [\A f \in Fields : Typed(f) /\ drafts'[f] # drafts[f] =>
           \/ TypeDraft(f) \/ StartNew \/ \E j \in Jobs : SelectJob(j)
           \/ ~seeded /\ seeded'
           \/ \E h \in Handlers : /\ threads[h].kind \in ReviewKinds
                                  /\ threads[h].pc = "reply"
                                  /\ threads'[h].pc = "lists"]_vars
  BY TextStep
<1>. QED BY <1>1, WorkspaceInvariant, PTL DEF Spec, TypedTextSurvives

\* Drafts made from an own result of the job now selected are not foreign.
LEMMA OwnDrafts ==
    ASSUME NEW j \in Jobs, OwnValues(results), results \in Results,
           selected' = j, drafts' = InitialDrafts(results[j])
    PROVE  ~ForeignDraft'
  BY DEF ForeignDraft, InitialDrafts, NoDrafts, OwnValues, Results, Result

\* The selection a refresh leaves: only that of a run or a retry, so of a
\* handler, is another job.
LEMMA RefreshEnd ==
    ASSUME WorkspaceInv, NEW t \in Threads, NEW sel \in {selected, None},
           AfterRefresh(threads[t], sel), HealthFails(t) \/ ResultsArrive(t),
           drafts' = drafts, ~ForeignDraft, ForeignDraft'
    PROVE  t \in Handlers /\ RunSelects(t)
<1>1. selected' \notin {selected, None}
  BY DEF ForeignDraft
<1>2. threads[t].kind \in {"run", "retry"} /\ threads[t].job # selected
  BY <1>1 DEF AfterRefresh
<1>3. t \in Handlers
  BY <1>2 DEF WorkspaceInv, ThreadsInv, ThreadInv, Threads
<1>. QED BY <1>2, <1>3 DEF RunSelects

\* The answer of a review about the selected job brings no foreign value.
LEMMA ReviewEnd ==
    ASSUME WorkspaceInv, NEW h \in Handlers, ReplyArrives(h), OwnValues(results)',
           ~ForeignDraft, ForeignDraft'
    PROVE  LateReview(h)
<1>. DEFINE t == threads[h]
<1>1. t.kind \in ReviewKinds
  BY DEF ReplyArrives, ForeignDraft
<1>2. selected' = selected /\ drafts' = InitialDrafts(t.reply)
      /\ results' = [results EXCEPT ![t.job] = t.reply]
  BY <1>1 DEF ReplyArrives
<1>3. ASSUME t.job = selected PROVE FALSE
  <2>1. selected \in Jobs
    BY <1>2 DEF ForeignDraft, WorkspaceInv, ViewType
  <2>2. t.reply = None \/ \A f \in Fields : t.reply.val[f].job = selected
    <3>1. results'[selected] = t.reply
      BY <1>2, <1>3, <2>1 DEF WorkspaceInv, ViewType, Results
    <3>. HIDE DEF t
    <3>. QED BY <2>1, <3>1 DEF OwnValues
  <2>. HIDE DEF t
  <2>. QED BY <1>2, <2>2 DEF ForeignDraft, InitialDrafts, NoDrafts
<1>. QED BY <1>1, <1>3 DEF LateReview

\* Only these two steps put the drafts of one job under another.
LEMMA DraftsStep ==
    ASSUME WorkspaceInv, [Next]_vars,
           OwnValues(results), OwnValues(results)', ~ForeignDraft, ForeignDraft'
    PROVE  \E h \in Handlers : LateReview(h) \/ RunSelects(h)
<1>. USE DEF WorkspaceInv
<1>1. ~UNCHANGED <<drafts, selected>>
  BY DEF ForeignDraft
<1>2. CASE \E t \in Threads : HealthFails(t)
  <2>1. PICK t \in Threads : HealthFails(t)
    BY <1>2
  <2>2. AfterRefresh(threads[t], selected) /\ drafts' = drafts
    BY <2>1 DEF HealthFails
  <2>. QED BY <2>1, <2>2, RefreshEnd
<1>3. CASE \E t \in Threads : ResultsArrive(t)
  <2>1. PICK t \in Threads : ResultsArrive(t)
    BY <1>3
  <2>. DEFINE gone == threads[t].sel # None /\ threads[t].rows[threads[t].sel] = "none"
              sel == IF gone THEN None ELSE selected
  <2>2. /\ AfterRefresh(threads[t], sel) /\ sel \in {selected, None}
        /\ drafts' = drafts
    BY <2>1 DEF ResultsArrive
  <2>. HIDE DEF sel
  <2>. QED BY <2>1, <2>2, RefreshEnd
<1>4. CASE \E t \in Threads : ListsArrive(t)
  <2>1. PICK t \in Threads : ListsArrive(t)
    BY <1>4
  <2>2. Seed(threads[t].rows) /\ threads[t].rows # NoJobs
    BY <1>1, <2>1 DEF ListsArrive
  <2>3. threads[t].rows \in Listing
    BY DEF ThreadsInv, Thread
  <2>4. PrioritizedJob(threads[t].rows, results) \in Jobs
    BY <2>2, <2>3, PrioritizedJobType
  <2>5. ~ForeignDraft'
    BY <2>2, <2>4, OwnDrafts DEF Seed, ViewType
  <2>. QED BY <2>5
<1>5. CASE \E h \in Handlers : ReplyArrives(h)
  BY <1>5, ReviewEnd
<1>6. CASE \E j \in Jobs : SelectJob(j)
  BY <1>6, OwnDrafts DEF SelectJob, ViewType
<1>7. CASE StartNew
  BY <1>7 DEF StartNew, ForeignDraft
<1>8. CASE \E f \in Fields : TypeDraft(f)
  <2>1. PICK f \in Fields : TypeDraft(f)
    BY <1>8
  <2>2. /\ selected' = selected
        /\ drafts' = [drafts EXCEPT ![f] = [by |-> "operator", job |-> selected]]
    BY <2>1 DEF TypeDraft
  <2>3. \A g \in Fields : drafts'[g] = IF g = f THEN [by |-> "operator", job |-> selected]
                                      ELSE drafts[g]
    BY <2>2 DEF ViewType, Drafts
  <2>4. ~ForeignDraft'
    BY <2>2, <2>3 DEF ForeignDraft
  <2>. QED BY <2>4
<1>. QED BY <1>1, <1>2, <1>3, <1>4, <1>5, <1>6, <1>7, <1>8, DraftsOrSelection

\* DraftsMixOnlyByLateAnswer: the drafts of two jobs are mixed in the very step in
\* which the answer of a review lands after the selection has changed, or in which
\* a run or retry selects its job, and in no other, whatever is pending.
THEOREM DraftsMixOnlyLate == Spec => DraftsMixOnlyByLateAnswer
<1>1. WorkspaceInv /\ [Next]_vars =>
        [(/\ OwnValues(results) /\ OwnValues(results)'
          /\ ~ForeignDraft /\ ForeignDraft')
         => \E h \in Handlers : LateReview(h) \/ RunSelects(h)]_vars
  BY DraftsStep
<1>. QED BY <1>1, WorkspaceInvariant, PTL DEF Spec, DraftsMixOnlyByLateAnswer

=============================================================================
