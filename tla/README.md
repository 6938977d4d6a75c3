# ExtractFlow: verification project

TLA+ models of ExtractFlow, the TLC runs that check them on small instances, and
theorems about them that TLAPS checks for every instance. Paths below are relative
to the repository (`src/` in `PROJECT.json`).

## 1. The system

ExtractFlow turns uploaded documents into reviewed, exported data. A FastAPI
backend and one or more polling Python workers share a database (SQLite or
PostgreSQL through SQLAlchemy) and a file store (a directory or S3). They exchange
no messages: every interaction goes through rows and files, and almost every
difficulty of the server comes from a row that is read, acted on and written back
by two of them at once. A React frontend (one file of 6,800 lines, `App.tsx`, and
helpers) mirrors the server by polling; its difficulty is that every handler is a
chain of awaits whose closures hold the state of the render they were made in.

| Component | State | Operations | What is hard | What makes it correct |
|---|---|---|---|---|
| Job lifecycle: `routes.py` 362-493, `job_service.py`, `worker/app/main.py` | `extraction_jobs`, `documents`, `audit_events`; the session of each request and worker | create, retry, cancel, claim, run, complete, fail, finalize | stale reads across a probe or an extraction, SQLite's unlocked claim, worker death, a failing status file after the commit | one claim per enqueue; nothing runs or processes without a worker; the trail explains the state; every job ends |
| Results, review, export: `result_service.py`, `storage.py`, `routes.py` 496-673 | one JSON column, `review_edits`, `exports`, the exports directory, the policy | store, store again, review, approve, recalculate, set policy, export | whole-column read-modify-write, columns left out of an UPDATE, one-second file names, two commits per export | the policy lets nothing flagged through, outputs match inputs, an edit is lost only to a write from stale data |
| Provider profiles: `provider_profiles.py`, and the settings page of `App.tsx` | one settings row holding every profile; the form, the list shown, the handlers | create, update, delete, probe, re-verify, activate, set the default | the whole row is read and replaced twice per request; a probe of older settings | names unique, a lone request exact, the page shows what is stored |
| Workspace of `App.tsx` | job list, results, selection, review drafts, `busyAction`, the URL | poll, select, type, save, approve, run, retry, cancel, export, upload | late and overlapping refreshes, stale closures, effects that run in one commit | typed text survives, drafts belong to the job shown, no button stays disabled, polling converges |
| Schema builder of `App.tsx` | selected template and version, draft, suggestions, comparison | select, edit, promote, dismiss, save | effects that chase each other, answers out of order | selection, draft, suggestions and comparison are of one version |
| LangExtract editor: `LangExtractEditor.tsx`, `langextract.ts` | the examples of the draft, the pending focus | edit, promote, dismiss, save, open | four functions that judge one draft; conversion in both directions | nothing is saved incomplete, every complaint names its reason; what is saved survives |
| Review editors: `review-draft.ts`, `components/review/` | texts of the fields | type, edit a cell or property, save | a conversion to text and back per type | right shapes, no edit nobody made |
| Formulas; validation and reconciliation; providers, chunking, redaction; parsing | none beyond a call | pure functions, calls to external services | cycles, order, overlap, fallbacks | not modelled, see 6 |
| Uploads and blob storage; templates; feedback; access control; audit and metrics | rows and files | one row each per request | file moved before the commit; S3 cache | not modelled, see 6 |
| Audit, admin and help pages; parsed text panel; desktop shell | what they loaded last; child processes | load, start, stop | overlapping loads | not modelled, see 6 |

How they interact: requests create, retry and cancel jobs; a worker claims a job
and leaves a result; reviews and exports read and rewrite that result; the
workspace polls jobs and results and posts reviews; the review editors turn the
result's values into texts and back; the schema builder holds the versions whose
examples the LangExtract editor edits; the settings page edits the profiles that
requests consult.

`PROJECT.json` lists every component with its status, and every hazard with its
line and the properties that cover it.

## 2. Modules

| Module | Models | Instance | Proofs |
|---|---|---|---|
| `ExtractionJobs` | job requests, both claim paths, `process_once`, worker death | `MCExtractionJobs` | `ExtractionJobsProofs` |
| `JobQueue` | abstract specification: an atomic queue | | refinement in `ExtractionJobsProofs` |
| `ReviewExport` | one result on the server: re-runs, reviews, policy, exports | `MCReviewExport` | `ReviewExportProofs` |
| `Workspace` | the extraction workspace of the page, against the server's jobs and results | `MCWorkspace` | `WorkspaceProofs` |
| `SchemaBuilder` | the schema builder of the page and the effects behind it | `MCSchemaBuilder` | `SchemaBuilderProofs` |
| `LangExtract` | the examples editor and `langextract.ts` | `MCLangExtract` | `LangExtractProofs` |
| `ReviewEditors` | conversions and editors of review fields | `MCReviewEditors` | `ReviewEditorsProofs` |
| `ProviderSettings` | the settings page and the profile endpoints together | `MCProviderSettings` | `ProviderSettingsProofs` |
| `NatSets` | lemmas about naturals: smallest and largest elements, induction and recursion up to a number | | itself |

Definitions called "Mutant of X" are not part of the specifications. Each is a
plausible bug in X (a dropped guard, a missing write) that some property has to
catch; `PROJECT.json` says which.

### Server conventions

* **Steps.** Every commit is one step, with everything the transaction writes.
  A read is a step of its own when other work (a provider probe, a parse, an
  extraction, a file write) separates it from the commit before it; a read that
  directly follows a commit belongs to the step of that commit.
* **Sessions.** A SQLAlchemy UPDATE contains a column only if the assigned value
  differs from the value the session loaded. `Flush(seen, new, now)` is that rule:
  assigning the value that was already loaded leaves alone what another
  transaction wrote in between. Sessions expire what they loaded at each commit
  (`Expired`). In `ReviewExport` the rule appears as the conditions on `status'`.
* **Failure.** A request may end after any step (`DropRequest`: a refused probe, an
  exception, the end of the process; `Breaks` in `ProviderSettings`, between its two
  commits as well); what it had not committed is gone. A worker may die (`Crash`); a
  restarted worker has the identity of the old one.
* **Left out.** Percentages, timestamps other than the clock of file names, error
  texts and log lines: nothing is decided by them.

### Frontend conventions

* **Steps.** JavaScript runs one piece of code at a time between two awaits; an
  action is one such piece. A thread record is a handler or refresh under way: its
  place, and the values its closure captured. The operator, the timer and other
  handlers act in between.
* **Effects.** React runs effects after the render in which their inputs changed.
  An action includes the effects its changes set off, in the order of the source,
  each with the state of its render, until none is left.
* **Requests.** A read is answered in the step that sends it and delivered in a later
  one; anything the server does between the two can as well be taken before. A
  request that changes the server is a step of its own between its click and its
  answer. Every request may be refused or its answer lost.

### `ExtractionJobs`

`job`, `doc`, `result`, `audit` are the tables, reduced to what is decided on:
status, stage, `worker_id`, `attempt_count` and document of a job; status and
"has parsed text" of a document; whether a result row exists; how often each event
was recorded for a job. `wk[w]` is what a worker's Python frame and session hold:
its place in `process_once`, its job, and the columns it has loaded. `req[s]` is
the same for an API request. `orphans` and `crashes` are history: which claim a
dying worker held.

| Action | Code |
|---|---|
| `CreateRead`, `CreateCommit`, `CreateAudit` | `create_job`: the reads, the commit of job and document, the later commit of the event |
| `RetryRead`, `RetryCommit` | `retry_job` and `retry_failed_job` |
| `CancelRead`, `CancelCommit` | `cancel_job_route` and `cancel_job` |
| `ClaimPostgres` | `claim_next_job`, `FOR UPDATE SKIP LOCKED` |
| `SelectCandidate`, `ClaimSqlite`, `ClaimMissed` | `claim_next_job`, the five-try loop with a conditional UPDATE |
| `Start`, `ParseDone`, `ReportParsing`, `Report`, `FinalCheck`, `Complete`, `ReportCompleted` | `process_once` and the progress reporter, one action per commit or look for a cancellation |
| `Raise`, `FailCommit`, `Finalize` | the exception handler and `finalize_cancelled_job` |
| `CompleteConflict` | the UNIQUE violation when two workers insert a result of one job |
| `Crash`, `PollEmpty` | death of the process; a poll that finds nothing |

Two branches of `process_once` are no actions because no state reaches them: a
missing document or template version (no route deletes either), and a tenant
mismatch (`create_job` refuses another tenant's rows).

### `ReviewExport`

`summary` is the `result_json` column: field values (missing or given), the fields
with `requires_review`, the invalid ones, one calculated field with the inputs it
was computed from, and whether `reviewed_at` is set. `stale` is history: the latest
edits were saved with `recalculate = false`. `lastEdit` is the newest
`review_edits` row of each field; a re-run leaves the rows, and so `lastEdit`, as they
are. `overtaken` is history of a review: another commit has replaced the column since
it read it. `Formula` says what the calculated field's formula makes of each
assignment of values: a number inside or outside `min` and `max`, null, or one of the
three exceptions; `Errors` says which of these leave a validation error, from
`allow_null` and the definition's error handling. `files` maps
export names (format and second) to content, and a hash is represented by the
content it was taken of. The passes of `apply_review_edits` are the operators
`ApproveConfident`, `ApproveAll`, `ApplyEdits` and `Recalculate`, applied in the
code's order by `Reviewed`. The worker stores the result again when a failed job
that already has a result is retried, which `ExtractionJobs` shows reachable
(`Raise` after `Complete`). Files are on local storage.

### `Workspace`

The server's side is `status` and `stored`, the jobs and their results; a worker
finishes jobs (`Worker`) and a colleague reviews them elsewhere (`Colleague`). The
page's side has the names of `App.tsx`: `coreDataState`, `jobsView` and `results`
(the lists it was answered), `selected`, `drafts`, `busy` (`busyAction`), `seeded`
(`workspaceSeeded`), `link` (the URL), `pollSel` (the selection in the timer's
closure). A field value is named by who produced it and for which job, so that a
draft of one job under another can be seen.

| Action | Code |
|---|---|
| `PollTick`, `RetryConnection`, `HealthFails`, `LoseLists`, `ListsArrive`, `ResultsArrive` | the interval and `refreshCoreData`, one action per await; `ListsArrive` and `ResultsArrive` include both seeding effects and `syncJobSelection` |
| `Click`, `Accept`, `Refuse`, `Lose`, `CatchError`, `ReplyArrives` | a handler: its guard and `setBusyAction`, the server's step, an error answer, a lost one, the `catch`, the code after the await |
| `SelectJob`, `StartNew`, `TypeDraft` | the operator |

### `SchemaBuilder`

`selectedTemplate`, `selectedVersion` and `draft` are the page's selection and form;
`session` and `hidden` are `promotedFeedbackKeys` and the dismissed ones;
`feedback` and `versionDiff` are what is shown, `feedbackAsks` and `diffAsks` the
effects' requests that have not been cancelled; `poll`, `saver` and `late` are the
refresh of the timer, of a save, and a handler that fetches feedback itself. The
effects are operators (`VersionFor`, `DefinitionEffect`, `FeedbackEffect`,
`DiffEffect`) that `Select` applies in their order. A comparison is named by the
version and the payload it was asked for.

### `LangExtract`

A text is a word or blank, with or without white space around it; a value is a
sequence of lines. What is saved of a draft (`Built`),
`buildDraftLangExtractExamples`, the preview's error, readiness, coverage, guidance
and recognition of suggestions are operators with the code's early returns; a message
of the guidance is its condition (`Lacks`), and `isReady` is what the code computes,
that there is one message. `Detailed` are the words that stand for prompts of 80
characters or more. The
operations of `LangExtractEditor.tsx` are actions that change `examples` and request
a focus, and `FocusEffect` runs after each.

### `ReviewEditors`

A JSON value is a record tagged with its type; a text is blank, the JSON text of a
value, a formatted amount or a word. `getInitialReviewDraft` and `parseReviewDraft`
are the conversions; `TypeValue`, `EditProperty` and the cell, row and column actions are
the editors; `SaveReview` is `buildReviewEditsForResult` with the server's answer and
the drafts that follow from it, `Approve` the review without edits. `touched` and
`written` are history. `SaveReview` compares values where `App.tsx` 5875 compares their
JSON texts, which differ also in the order of keys: a *touched* object whose keys were
rewritten in another order is posted by the code and is no edit in the model. An
untouched draft is the JSON text of the stored value, whose keys parse in the order
they had, so that what is said of untouched fields is not affected.

### `ProviderSettings`

Composes the settings page with the endpoints of `routes.py` and
`provider_profiles.py`. `profiles`, `default` and `policy` are the settings rows;
`view`, `shownDefault`, `shownPolicy`, `form`, `selected` and `busy` the page. A thread
is a handler and the request it has sent: `probe` is `ensureProviderProbeReachable`,
`begin` the request's own probe and checks, `write` its first commit of the whole
list, `reread` and `record` the second read and commit of
`record_custom_provider_profile_probe`, `lists` and `show` the refresh. A request that a
check or probe refuses has changed nothing (`refused`); one that breaks with an error or
the end of the process (`Breaks`, and the 404 of the second read) leaves what it has
committed (`failed`). `Reload` loses the page but not the requests the server has got.
`recent`, `dirty`, `alone`, `before` and `was` are history.

The form and the settings have a label, a type, an API style, whether they are external, a
deployment, a key variable and a retry count: one of each kind of conversion (trimmed,
blank to null, dropped unless Azure, number with default). Settings can hold what the form
cannot: the styles of the mock and of LangExtract, a missing label, a document limit, 0
retries. `WellFormed` is the validation the server applies to them. What is stored before
the page loads may be any settings.

## 3. Runs

| Run | Instance | Shows |
|---|---|---|
| `jobs_overlap` | 2 jobs of one document, 2 SQLite workers, 1 request thread, 1 death | the type invariant, ownership of running jobs and processing documents, reviewability, the trail, one claim per enqueue, refinement of `JobQueue`; a cancelled job comes back only through a stale write |
| `jobs_races` | 1 job, 2 PostgreSQL workers, 2 request threads, 2 attempts | overlapping retries and cancels: outcomes are bounded by attempts |
| `jobs_liveness` | 2 jobs, 2 documents, 1 worker without deaths | every job and every processing document settles |
| `jobs_double_execution` | violation | two overlapping retries make two workers execute one job |
| `review_races` | 1 field, 2 threads, 2 stores, 2 reviews, 1 export, 2 seconds | the policy's guarantee, the match of outputs and inputs, what approving everything leaves open, and how an edit can be lost: an edit stops being shown only by a re-run or by a review that another commit had overtaken |
| `review_lost_edit` | violation | of two reviews that overlap the second undoes the first one's edit |
| `workspace` | 2 jobs, 1 field, 1 timer, 1 handler, 2 events | types; no button stays disabled; typed text survives; drafts mix only in the step of a late answer, or of the end of a run or retry; polling converges |
| `workspace_deeplink` | violation | a link to a job is overridden by the second seeding effect |
| `schema_builder` | 3 versions of 2 templates, 1 saved late, 2 events | selection, draft, suggestions and comparison stay of one version, but for the step in which a handler's own feedback lands late |
| `langextract` | 2 fields, 3 saved configurations, 3 suggestions, 4 edits or dismissals | focus lands; preview, badges and readiness agree; the guidance names what keeps a draft from being saved or run; saved examples survive; a promoted suggestion is recognised exactly if the editor can show it |
| `review_editors` | 8 fields of 8 types, 3 stored results, 5 sets of flags, 5 texts, 4 edits | what is written has its type's shape; an untouched field is no edit; neighbours in objects and tables survive |
| `provider_settings` | 3 ids, 2 handlers, 2 forms, 2 stored profiles, 2 clicks or reloads | names stay unique; a lone request is exact or breaks in a known way; loading loses only foreign parts; the page shows what is stored; the freshness mark lies only after a race |

The three violation runs are findings: each property states what a document or a
test of the repository says, quoted in `PROJECT.json`.

### Bounds, and why they are enough

* Two jobs, two workers and two requests are the fewest between which every pair
  of conflicting steps can occur; the row-level conflicts of this code are between
  two writers of one row. `jobs_overlap` has two jobs of the *same* document, the
  only row two jobs share.
* `ClaimTries` is 2 for the code's 5: the loop behaves alike in every round, and two
  rounds have a first, a last and a repeated one.
* `MaxAttempts` stops retries; the code has no limit. 2 is the first value for which
  a retry meets an earlier attempt's result. `MaxCancels` counts committed cancels of
  a job: 1 in `jobs_races`, where two threads may still both have read the job before
  either commits, and 2 elsewhere. `MaxCrashes` 1 allows every single
  death, in every step.
* `MaxRuns`, `MaxReviews` and `MaxExports` count stores, reviews and exports of one
  result. Two stores, two reviews and one export give every stale read its writer.
  With one field a stale review that names no field, an approval, undoes another's
  edit; `review_lost_edit` has two fields. `Values` and `Formula` of `review_races` are a
  quotient whose inputs may be missing or zero, with a division by zero flagged and a
  missing input not.
  `MaxSecond` 1 allows exports in one second and in different ones.
* `Workspace`: two jobs are needed for a draft to be under the wrong one; the
  timer's refresh and a handler's are the two that can overlap, and polls, typing and
  selections are not counted. `MaxEvents` 2 counts clicks, failures and colleagues:
  a handler and one thing that goes wrong, or two handlers in a row. Jobs start
  absent or completed, so that every status is reached.
* `SchemaBuilder`: two versions of one template and one of another separate "another
  version" from "another template"; the third is saved before or after the page
  loads. Polls, selections and edits are not counted; `MaxEvents` 2 is one save and one
  dismissal or review, or two of a kind.
* `LangExtract`: four edits from an empty, a complete and a broken configuration
  reach every partial example, including two extractions with two attributes. The three
  suggestions are one the editor can show, one with an array item of two lines and one
  with an attribute without a name.
* `ReviewEditors`: the sets of flagged fields pair the types, since fields interact only in a save;
  four steps are two edits, a save and a save after it.
* `ProviderSettings`: three ids are one stored profile and two new ones; two handlers
  overlap in every step, and the first refresh, reloads and refreshes after handlers come on top. The
  profile stored first is one of the API with every part the form loses, or
  one of LangExtract; those of the page are created in the run. `MaxClicks` 2
  counts clicks, timer refreshes and reloads; the form and the cards are not counted.
* Documents, workers, threads and ids are symmetry sets where a run states safety
  properties only and no definition distinguishes their elements.

Some bounds leave a case to another run or to a theorem: `jobs_overlap` and
`jobs_liveness` have no retries (`MaxAttempts` 1), which `jobs_races` and the theorems
about jobs have; in `jobs_liveness` that means that liveness is checked without retries
and not proved. `workspace` has one handler, so that two handlers sharing `busyAction` are
covered by the theorem `BusyAlwaysOwned` alone.

The theorems below do not depend on any of these values.

### Fairness

* `jobs_liveness`: `WorkerStep(w)` is weakly fair: `main` polls for ever and
  `process_once` waits only for calls that return, raise or time out.
  `RequestStep(s)` is weakly fair: a handler that has begun commits or ends. Nothing
  is assumed of new requests or of deaths, and the run excludes deaths because the
  code has no reaper: a job whose worker died stays running, which is why
  `RunningJobIsOwned` and `ProcessingDocumentIsWorked` allow exactly those jobs. A
  worker may fail instead of completing: settled means completed, failed or cancelled.
* `workspace`: the interval keeps firing (`PollTick`), and a refresh or handler that
  has begun goes on (`RefreshStep`, `HandlerStep`): `fetch` resolves or rejects.
  Requests that fail are counted events, so `ViewConverges` speaks of a server that is
  reachable again; it allows a server that changes for ever. Nothing is assumed of
  the operator, the worker or the colleague.

The other runs state safety only. `langextract` and `review_editors` do not check for
deadlock: with the bound of edits used up the operator may stop.

## 4. Proofs

Every invariant and every action property of the passing runs is also a theorem: it
holds for all values of the constants that satisfy the assumptions, and for any number of
steps. None has a hypothesis about the behaviour. The
assumptions say that bounds are natural numbers, flags Booleans, ids naturals
with a newest one, and that null values are no elements of the sets they are added to.
Beyond that:

* `LangExtract`: saved configurations have the form of `LangExtractConfigShape`
  (`ConfigsAssumption`) and null is none of them (`NoneAssumption`); suggestions are as
  `_build_candidate_suggestion` and `build_langextract_feedback_attributes` make them:
  no text and no value of an attribute is blank or has white space at its ends, while the
  names of attributes may be anything (`SuggestionsAssumption`).
* `ReviewEditors`: an array in a stored value is a sequence (`ListsAssumption`).
* `ReviewExport`: `Formula` is any function from field values to outcomes, and what the
  error handling flags are a division by zero or a missing input (`ReviewAssumption`).
* `ProviderSettings`: the profiles stored at the start have distinct names; their settings
  may be any.

TLC evaluates the assumptions in every run.

`ExtractionJobsProofs`

* `TypeCorrect`: `TypeOK` is inductive as it stands, because it says that rows a
  worker or request refers to exist and that no row is deleted (`RowsPersist`).
* `ClaimsMatchEnqueues`: `ClaimedOncePerEnqueue`. Claims change a queued job to
  running and add an attempt; only a retry, which adds a `job.retried` event, queues
  it again. One lemma (`ClaimedOnceStep`) does the arithmetic for every action.
* `RunningIsOwned`: `RunningJobIsOwned` is not inductive: a stale write could name a
  worker that is about to leave. `RunningJobIsWorked` adds that the owner has not
  yet passed the commit that ends the job, and every way out of `process_once` is
  shown to take the job out of running first or to leave an orphan.
* `TableIsQueue`: `Spec` implements `JobQueue` under
  `pending = {queued jobs}`, `holding[w] = the job of a worker in Holding`. Each
  request step is an enqueue, a withdrawal or a stutter, each claim a `Take`, each
  end a `Release`.
* `TrailAlwaysExplains`, `OnlyStaleWritesRevive`: `StatusChanges` says which commit may
  give a job which status; each that ends a job records its event in the same commit,
  and no event or result is ever taken back.
* `CompletedAlwaysReviewable`: `ReviewableInv` adds that a worker past the parse works
  on a document whose text is stored, and that a result belongs to an existing row.
* `ProcessingIsWorked`: that a worker holds a job of the document is not inductive,
  because a commit writes only columns that changed since they were loaded. The witness
  must be one that *will settle* it (`WillSettle`): before its last write, and not
  holding the status it is about to write as loaded. An orphan is forgotten only by
  the same worker's claim of the job, which loads the status as processing.
* `OutcomesNeverExceedAttempts`: the invariant counts the outcomes still to come as well:
  recorded completions plus workers that may still complete the job never exceed its
  attempts, and likewise failures. A claim adds one to both sides; an outcome takes its
  worker out of the count.

`ReviewExportProofs`

* `ReviewTypeCorrect`, `PolicyBlocksOpenFields`, `OutputsBelongToInputs` all follow
  from `ReviewInv`. Its core is `Sound(c)`: in every summary the invalid fields are
  among the flagged ones, and outputs belong to inputs unless stale. The policy
  tests only the flags, so soundness is what makes the test enough; and it has to
  hold of the summaries that requests and files carry, not only of the stored one,
  because they are written back or exported later. One lemma per pass of
  `apply_review_edits` shows that the pass keeps it.
* `ApproveAllClearsTheFields`: approving everything clears the flags, and of the invalid
  fields those that are flagged. That none stays invalid is due to the soundness of the
  summary the request carries, whatever wrote it; the recalculation that follows can flag
  only the calculated field, and that only by `CalcReview` or an outcome among `Errors`,
  none of which is a value within its limits.
* `EditsLostOnlyWhenOvertaken`: an action property over every behaviour, overlapping reviews
  included. Its invariant says that a review nothing has overtaken holds the column as it
  is stored now; so what it writes back shows every edit saved before it, and its own.

`WorkspaceProofs`

* `TypesCorrect` and `BusyAlwaysOwned` from `WorkspaceInv`. `BusyIsOwned` is not
  inductive alone: a refresh of the timer ends without clearing the key, so the
  invariant says that no handler ever looks like the timer (`ThreadInv`), and that a
  handler of a review has a job.
* `TypedTextKept` and `DraftsMixOnlyLate` are action properties: one lemma per kind of
  step says which steps change a draft or the selection at all
  (`DraftsOrSelection`), and what each makes of them.

`SchemaBuilderProofs`

* All five theorems from `SchemaInv`. `DiffIsCurrent` needs `DiffInv`: a comparison under
  way was asked for what is being edited now, and an outdated one is shown only while
  one is under way; this is what the effect's cleanup is for, and why every action that
  changes draft or version has to run the effect. `FeedbackInv` says the same of the feedback effect, and
  `PromotedInv` that the draft and the session's keys are only reset together.

`LangExtractProofs`

* `FocusLands`: `FocusAlwaysLands` for any schema, suggestions and number of edits. The
  invariant adds that examples, extractions and attributes are sequences; each
  operation's focus is then shown to be an index of the sequence it leaves.
* The four other properties relate what different functions of `langextract.ts` compute from one
  draft. `Typed` (prompt and examples have their types) is the only invariant they need;
  the rest are lemmas about the functions, from the inside out. `Without` and `Join` are
  recursions over the items of a list: `NatSets` derives induction up to a number from the
  smallest element of a set, and from it that such a recursion has a solution, so that the
  lemmas `WithoutSame`, `WithoutEmpty`, `JoinSingles` hold for lists of any length.
* `PreviewAndBadgesAgree`: an attribute is complete exactly if its name is not blank and
  its saved value not empty (`CompleteAttributeSaves`): the badge looks at the text, the
  preview at what is left of it after `split`, `trim` and `filter`.
* `SavedSurvives`: `SavedValue` of an opened saved value is that value (`ReopenedValue`);
  with several attributes of one name the last counts, and the opened draft has one of
  each name, in whatever order `Object.entries` has them (`OpenedSaved`).
* `GuidanceAlwaysNamesTheReason`: the guidance counts complete examples and takes coverage
  over them; if as many are complete as there are, all are (`AllComplete`), and what is
  saved of them covers the same fields (`SameCoverage`). So a draft that lacks nothing of
  what the saving or the running needs passes, and for one that does not a message is
  there; `isReady` leaves room for one message only.
* `PromotedRecognised`: an equivalence. `PromotedValue` says when a suggested value is
  opened and saved as it was, `PromotedComplete` when the badge is given, and
  `FitsTheEditor` is exactly the two together.

`ReviewEditorsProofs`

* `WrittenAlwaysPlain`, `UntouchedNeverAnEdit` and `SiblingsKept`, for any fields, types,
  schema, stored results and texts. `ParsedIsPlain` and `RoundTrip` are the two facts
  about the conversions, by cases on the type: what parses has the type's shape, and
  formatting a value of that shape and parsing the text gives it back. The invariant
  adds that an untouched draft is the one the *present* value opens with, which a save
  changes under it.
* `OtherCellsKept`: `TableInv` says that every array a table's draft or stored value may hold is a
  sequence, so that its rows are; reading rows back from the text they were written to gives
  the rows (`RowsBack`), and one lemma per edit counts the cells it changes.

`ProviderSettingsProofs`

* `NamesAlwaysUnique`: each request checks the names against a list and later replaces
  the row by that list, whatever the row has become. The invariant (`Sound`) is
  therefore about the lists the requests carry: before a commit, the list is one
  without duplicates in which the new name is free.
* `AloneAlwaysExact` and `UnprobedOnlyByRace` from `Solo`: while a handler is alone
  every other is idle, and `Exact` says at each of its steps how the row differs from
  the one it started with, so that a step of another handler has nothing to keep. A request that breaks leaves the
  row as it was or after the first commit (`FirstCommit`).
* `LoadingLosesNoMore`: the conversions are inverse on settings the form can keep
  (`LoadsBack`, `RoundTrip`), and of others change only the parts of `Lossy`
  (`LossyParts`). `SourceInv` follows the profiles through the lists that requests carry:
  each was stored at the start or sent by the form.
* `PageShowsTheServer`: `ShownIsStored` speaks of quiet states only. `PageInv` says what holds
  on the way there: while no answer is missing, at most one handler is under way, and
  `Behind` says how far the page may be behind the server at each of its steps and what
  the handler holds to catch up with.

Only model-checked: the three liveness properties `JobsSettle`, `DocumentsSettle` and
`ViewConverges`, which rest on fairness and ENABLED, out of the prover's reach. The three
findings are counterexamples and stay with TLC as well.

## 5. Observations

Beside the three findings, the models reach the following, each the behaviour of the
code. Properties are stated so that they say what holds nevertheless.

Server:

* A cancel between the worker's last look and its completing commit is overwritten,
  and a cancel decided on an old read cancels a completed job
  (`CancelUndoneOnlyByStaleWrite` says that nothing else does).
* A re-run of a job replaces the edits of its result, whose rows remain
  (`EditsLostOnlyByStaleWrite`); approving everything leaves a calculated field flagged
  when its formula has no value within its limits; two exports
  in one second share a file, so that the first hash is of the second file; a review
  between the worker's read and its rewrite lets an unreviewed extraction pass the policy.
* Concurrent changes of profiles lose each other (the list is replaced whole), and an
  update keeps the probe of the old settings for the time until its own is recorded.
  An export whose process ends between its two commits has no audit event.

Frontend:

* Every refresh replaces the definition objects and with them an unsaved schema draft
  (`DefinitionEffect`), and the timer's closure of the first render may select the
  first template again.
* The drafts of one job come under another after a late run, retry or review; a save
  then posts them (`DraftsMixOnlyByLateAnswer`).
* A field nobody edited is posted when its stored value does not have the shape the
  page itself writes: a list becomes a JSON string, a date or amount whose display text
  is the document's is rewritten and its flag cleared, a table that is an object blocks
  every save, and a field that a colleague changed since may be reverted
  (`UntouchedIsNotAnEdit` has the shape as its condition). A cleared field shows its
  extracted value again. The structured editor turns a missing number into 0 and drops
  keys the schema does not name; adding a column may blank one of that name.
* `busyAction` is one string: the end of one handler enables the button of another
  that is still running (`BusyIsOwned` only says that no button stays disabled).
* A cancelled job is shown as "Processing" (`App.tsx` 2838). A completed job is grouped
  as ready to export before its result has been read.
* With exactly one shortcoming the guidance has one message, and `isReady` is true
  (`langextract.ts` 487): a draft with a detailed prompt, two complete examples and an
  empty third cannot be saved and stands under "The draft structure is in good shape."
  `GuidanceNamesTheReason` says what holds nevertheless: the one message names the reason.
* The guidance does not look at fields the schema does not have
  (`GuidanceNamesTheReason` excepts them). A failed dismissal leaves its focus
  pending. A suggestion whose array item has a line break, or
  one of whose attributes has the empty name, is offered again after its
  promotion (`PromotedIsRecognised` says that only these are).
* Loading a profile that was stored through the API and saving it changes its retry count
  or temperature of 0, its document limit, its API style, its deployment outside Azure
  (`Lossy`); one of LangExtract cannot be saved at all, since the form collapses its style
  and the server refuses the result. A create that breaks between its two commits leaves
  the profile stored, unprobed, and the page shows it only with its next refresh. The
  buttons that make a catalog provider or the form the default do so without the probe
  that activating a profile asks for. `draft.local_only` is read nowhere.

## 6. What is not modelled, and why

* Formulas, validation and reconciliation, chunking, span merging and redaction: pure
  functions over formula and document text, where the interesting behaviour is in the
  text itself. Their outcome is a value or a set in `ReviewExport` and `ExtractionJobs`.
* Parsing and providers: external services that return, raise or time out.
* Uploads, the S3 store and its cache: they touch no state of the modelled components; two hazards of them are
  listed without a property.
* Templates, feedback, access control, audit and metrics on the server: one row or one
  decision per request.
* The audit, admin and help pages, the parsed text panel, the desktop shell and the
  scripts: each loads or starts one thing.
* Within `ExtractionJobs` and `ReviewExport`: S3 exports, downloads and listings, the
  manifest beyond its hash, the content of parsed text, error texts and percentages.
* Within `Workspace`: other pages, the status filter, the focused field, banners, and the
  choice of document, version and provider that enables a run. The feedback that
  `submitReview` fetches is in `SchemaBuilder`.
* Within `SchemaBuilder`: the dry run and the single inputs of the form. Within
  `LangExtract`: message texts. Within `ReviewEditors`:
  percentages and the layout of JSON.
* Within `ProviderSettings`: the health probe's own protocol (reachable or not);
  `api_key_required`, which the form computes from mode and key, and `api_version`, whose
  missing value the form replaces by a date; the remaining texts and numbers, which are
  converted like those modelled; the query and commit of `_save_profiles` are one step, and a
  probe is one step with the read of the list next to it.

## 7. What could come next

1. The pure algorithms (formula graph, reconciliation, chunking, span merging,
   template comparison) against reference definitions over bounded inputs.
2. `BlobStore` with uploads and the S3 cache, and exports through it.
