----------------------------- MODULE ReviewExport -----------------------------
(***************************************************************************)
(* One extraction result: the worker that stores it (again, when its job   *)
(* is run again), reviewers who save decisions, and exports of it under    *)
(* the tenant's export policy.                                             *)
(*                                                                         *)
(* The summary is one JSON column.  A review reads it, changes it in       *)
(* memory and writes it back whole; an export reads it once, checks the    *)
(* policy against what it read, writes a file, hashes the file and commits *)
(* the record and then its audit event.  The steps of different requests   *)
(* interleave.                                                             *)
(***************************************************************************)
EXTENDS Naturals, FiniteSets

CONSTANTS
    Fields,          \* extracted fields of the template
    Values,          \* what a field may hold
    Confident,       \* fields whose confidence reaches the approval threshold
    Formula,         \* the calculated field: what its formula makes of the values
    CalcReview,      \* requires_review of its definition
    AllowNull,       \* validation.allow_null of its definition
    Flagged,         \* the exceptions its error_handling flags for review
    Sessions,        \* API request threads
    Formats,         \* export formats, one file suffix each
    MaxRuns,         \* bound: how often the job completes
    MaxReviews,      \* bound: how many reviews are begun
    MaxExports,      \* bound: how many exports are begun
    MaxSecond,       \* bound: how far the clock of the file names runs
    Null

\* How the evaluation of a formula may end: with a number inside or outside the
\* definition's min and max, with null, or with an exception.
Outcomes == {"value", "beyond", "null", "division by zero", "missing input", "error"}

ASSUME ReviewAssumption ==
    /\ Confident \subseteq Fields
    /\ Formula \in [[Fields -> Values] -> Outcomes]
    /\ CalcReview \in BOOLEAN /\ AllowNull \in BOOLEAN
    /\ Flagged \subseteq {"division by zero", "missing input"}

ASSUME BoundsAssumption ==
    /\ MaxRuns \in Nat \ {0} /\ MaxReviews \in Nat
    /\ MaxExports \in Nat /\ MaxSecond \in Nat

VARIABLES
    summary,   \* the result_json column
    status,    \* the review_status column
    lastEdit,  \* lastEdit[f]: new_value of the newest review_edits row of f,
               \* or Null; a re-run of the job leaves the rows as they are
    policy,    \* the tenant's export.require_review_cleared setting
    files,     \* the exports directory: name -> content
    records,   \* export_records
    audited,   \* the records an export.created event names
    now,       \* the second that file names are made from
    worker,    \* review_status as the worker loaded it, or "idle"
    req,       \* the request each thread works on
    runs, reviews, exports   \* what the bounds count

stored == <<summary, status, lastEdit>>
exported == <<files, records, audited>>
counts == <<runs, reviews, exports>>
vars == <<stored, policy, exported, now, worker, req, counts>>

-----------------------------------------------------------------------------
Statuses == {"pending", "reviewed"}
Names == Formats \X (0..MaxSecond)

\* The outcomes that leave a validation error: an exception that is flagged or
\* has no policy, a number out of bounds, a null that is not allowed.
Errors ==
    {"error", "beyond"} \cup Flagged \cup
    (IF AllowNull THEN {} ELSE {"null", "division by zero", "missing input"})

\* The calculated field: what it was computed from, and whether it asks for a
\* review, because its definition says so or because of a validation error.
Evaluate(val) == [of |-> val, needs |-> CalcReview \/ Formula[val] \in Errors]

\* needs: fields with requires_review; invalid: those whose validation_status
\* is invalid; reviewed: reviewed_at is set.  stale is not in the code: the
\* latest edits were saved with recalculate = false.
Summaries ==
    [val: [Fields -> Values], needs: SUBSET Fields, invalid: SUBSET Fields,
     calc: [of: [Fields -> Values], needs: BOOLEAN], reviewed: BOOLEAN,
     stale: BOOLEAN]

ASSUME NullAssumption == Null \notin Summaries /\ Null \notin Values

\* What execute_extraction may return: validation makes every invalid field
\* ask for a review.
Extracted ==
    UNION {{[val |-> v, needs |-> n, invalid |-> i, calc |-> Evaluate(v),
             reviewed |-> FALSE, stale |-> FALSE] :
               v \in [Fields -> Values], i \in SUBSET n} : n \in SUBSET Fields}

Edits == UNION {[F -> Values] : F \in SUBSET Fields}
Payloads == [edits: Edits, approve: BOOLEAN, recalculate: BOOLEAN]

\* fields_requiring_review is not empty.
Open(s) == s.needs # {} \/ s.calc.needs

\* overtaken is not in the code: another commit has replaced the column since
\* this request, a review, read it.
Requests ==
    [op: {"idle", "review", "check", "write", "record", "audit"},
     summary: Summaries \cup {Null}, status: Statuses,
     name: Names \cup {Null}, guarded: BOOLEAN, overtaken: BOOLEAN]
IdleRequest == [op |-> "idle", summary |-> Null, status |-> "pending",
                name |-> Null, guarded |-> FALSE, overtaken |-> FALSE]
Records == [name: Names, sha: Summaries, guarded: BOOLEAN]

\* The types of all variables; a request past its first read has a summary,
\* and one that exports has a file name.
TypeOK ==
    /\ summary \in Summaries
    /\ status \in Statuses
    /\ lastEdit \in [Fields -> Values \cup {Null}]
    /\ policy \in BOOLEAN
    /\ files \in [Names -> Summaries \cup {Null}]
    /\ records \subseteq Records /\ audited \subseteq records
    /\ now \in 0..MaxSecond
    /\ worker \in Statuses \cup {"idle"}
    /\ req \in [Sessions -> Requests]
    /\ runs \in 0..MaxRuns /\ reviews \in 0..MaxReviews /\ exports \in 0..MaxExports
    /\ \A s \in Sessions :
        /\ req[s].op # "idle" => req[s].summary \in Summaries
        /\ req[s].op \in {"write", "record", "audit"} => req[s].name \in Names
        /\ req[s].op \in {"record", "audit"} => files[req[s].name] \in Summaries

Init ==
    /\ summary \in Extracted
    /\ status = "pending"
    /\ lastEdit = [f \in Fields |-> Null]
    /\ policy = FALSE
    /\ files = [n \in Names |-> Null]
    /\ records = {} /\ audited = {}
    /\ now = 0
    /\ worker = "idle"
    /\ req = [s \in Sessions |-> IdleRequest]
    /\ runs = 1 /\ reviews = 0 /\ exports = 0

EndRequest(s) == req' = [req EXCEPT ![s] = IdleRequest]

\* The requests after a commit of the column.
Overtaken ==
    [s \in Sessions |-> [req[s] EXCEPT !.overtaken = @ \/ req[s].op = "review"]]

-----------------------------------------------------------------------------
(* apply_review_edits on the summary a request has read.                    *)

\* Mutant of ApproveConfident: the test for invalid fields is dropped.
ApproveInvalid(s, p) ==
    IF p.approve THEN [s EXCEPT !.needs = @ \ Confident] ELSE s

\* approve_high_confidence_min: fields that score high and are not invalid.
ApproveConfident(s, p) ==
    IF p.approve THEN [s EXCEPT !.needs = @ \ (Confident \ s.invalid)] ELSE s

\* Neither edits nor a threshold: everything that asks for a review is approved.
ApproveAll(s, p) ==
    IF ~p.approve /\ DOMAIN p.edits = {}
    THEN [s EXCEPT !.needs = {}, !.invalid = @ \ s.needs, !.calc.needs = FALSE]
    ELSE s

\* Mutant of ApplyEdits: only fields that ask for a review take the new value.
ApplyToFlagged(s, p) ==
    [s EXCEPT !.val = [f \in Fields |-> IF f \in DOMAIN p.edits \cap s.needs
                                        THEN p.edits[f] ELSE @[f]],
              !.needs = @ \ DOMAIN p.edits,
              !.invalid = @ \ DOMAIN p.edits,
              !.stale = @ \/ DOMAIN p.edits # {}]

ApplyEdits(s, p) ==
    [s EXCEPT !.val = [f \in Fields |-> IF f \in DOMAIN p.edits
                                        THEN p.edits[f] ELSE @[f]],
              !.needs = @ \ DOMAIN p.edits,
              !.invalid = @ \ DOMAIN p.edits,
              !.stale = @ \/ DOMAIN p.edits # {}]

\* Mutant of Recalculate: the old outputs are kept and marked as reviewed.
RecalculateInName(s, p) ==
    IF p.recalculate THEN [s EXCEPT !.calc.needs = FALSE, !.stale = FALSE] ELSE s

Recalculate(s, p) ==
    IF p.recalculate THEN [s EXCEPT !.calc = Evaluate(s.val), !.stale = FALSE] ELSE s

Reviewed(s, p) ==
    [Recalculate(ApplyEdits(ApproveAll(ApproveConfident(s, p), p), p), p)
        EXCEPT !.reviewed = TRUE]

-----------------------------------------------------------------------------
(* The worker completes the job again: the row is loaded, then rewritten.   *)

RerunRead ==
    /\ worker = "idle"
    /\ runs < MaxRuns
    /\ worker' = status
    /\ UNCHANGED <<stored, policy, exported, now, req, counts>>

\* review_status is part of the UPDATE only when it was not pending on load.
RerunCommit ==
    /\ worker # "idle"
    /\ summary' \in Extracted
    /\ status' = IF worker = "pending" THEN status ELSE "pending"
    /\ worker' = "idle"
    /\ runs' = runs + 1
    /\ req' = Overtaken
    /\ UNCHANGED <<lastEdit, policy, exported, now, reviews, exports>>

-----------------------------------------------------------------------------
(* Reviews.                                                                 *)

ReviewRead(s) ==
    /\ req[s].op = "idle"
    /\ reviews < MaxReviews
    /\ reviews' = reviews + 1
    /\ req' = [req EXCEPT ![s] = [IdleRequest EXCEPT !.op = "review",
                                      !.summary = summary, !.status = status]]
    /\ UNCHANGED <<stored, policy, exported, now, worker, runs, exports>>

\* The whole column is written; review_status only if it was pending on load.
\* The review.saved event is part of the same commit.
ReviewCommit(s, p) ==
    /\ req[s].op = "review"
    /\ summary' = Reviewed(req[s].summary, p)
    /\ status' = IF req[s].status = "reviewed" THEN status ELSE "reviewed"
    /\ lastEdit' = [f \in Fields |-> IF f \in DOMAIN p.edits THEN p.edits[f]
                                     ELSE lastEdit[f]]
    /\ req' = [Overtaken EXCEPT ![s] = IdleRequest]
    /\ UNCHANGED <<policy, exported, now, worker, counts>>

-----------------------------------------------------------------------------
(* The export policy and exports.                                           *)

SetPolicy(on) ==
    /\ policy # on
    /\ policy' = on
    /\ UNCHANGED <<stored, exported, now, worker, req, counts>>

\* export_result_endpoint loads the row.
ExportRead(s) ==
    /\ req[s].op = "idle"
    /\ exports < MaxExports
    /\ exports' = exports + 1
    /\ req' = [req EXCEPT ![s] = [IdleRequest EXCEPT !.op = "check",
                                      !.summary = summary, !.status = status]]
    /\ UNCHANGED <<stored, policy, exported, now, worker, runs, reviews>>

\* Mutant of ExportAllowed: only review_status is looked at.
ExportAllowedByStatus(r) == ~policy \/ r.status # "pending"

\* assert_export_allowed
ExportAllowed(r) == ~policy \/ (r.status # "pending" /\ ~Open(r.summary))

\* The policy is read and applied; the file name is made from the clock.
ExportCheck(s, fmt) ==
    /\ req[s].op = "check"
    /\ \/ /\ ExportAllowed(req[s])
          /\ req' = [req EXCEPT ![s].op = "write", ![s].name = <<fmt, now>>,
                                ![s].guarded = policy]
       \/ /\ ~ExportAllowed(req[s])
          /\ EndRequest(s)
    /\ UNCHANGED <<stored, policy, exported, now, worker, counts>>

\* Mutant of ExportWrite: the file never reaches the exports directory.
ExportUnwritten(s) ==
    /\ req[s].op = "write"
    /\ req' = [req EXCEPT ![s].op = "record"]
    /\ UNCHANGED <<stored, policy, exported, now, worker, counts>>

\* write_result_export_file opens the name for writing, whoever wrote it before.
ExportWrite(s) ==
    /\ req[s].op = "write"
    /\ files' = [files EXCEPT ![req[s].name] = req[s].summary]
    /\ req' = [req EXCEPT ![s].op = "record"]
    /\ UNCHANGED <<stored, policy, records, audited, now, worker, counts>>

\* The record of the file as it is when it is read back.
RecordOf(r) == [name |-> r.name, sha |-> r.summary, guarded |-> r.guarded]

\* The bytes are read back and hashed, and the record is committed.
ExportRecord(s) ==
    LET read == [req[s] EXCEPT !.op = "audit", !.summary = files[req[s].name]] IN
    /\ req[s].op = "record"
    /\ records' = records \cup {RecordOf(read)}
    /\ req' = [req EXCEPT ![s] = read]
    /\ UNCHANGED <<stored, policy, files, audited, now, worker, counts>>

\* The export.created event, in a commit of its own.
ExportAudit(s) ==
    /\ req[s].op = "audit"
    /\ audited' = audited \cup {RecordOf(req[s])}
    /\ EndRequest(s)
    /\ UNCHANGED <<stored, policy, files, records, now, worker, counts>>

\* An edit of an unknown field, an unknown format, an unwritable directory, or
\* the end of the API process.
DropRequest(s) ==
    /\ req[s].op # "idle"
    /\ EndRequest(s)
    /\ UNCHANGED <<stored, policy, exported, now, worker, counts>>

Tick ==
    /\ now < MaxSecond
    /\ now' = now + 1
    /\ UNCHANGED <<stored, policy, exported, worker, req, counts>>

Next ==
    \/ RerunRead \/ RerunCommit \/ Tick
    \/ \E on \in BOOLEAN : SetPolicy(on)
    \/ \E s \in Sessions :
        \/ ReviewRead(s) \/ ExportRead(s)
        \/ \E p \in Payloads : ReviewCommit(s, p)
        \/ \E fmt \in Formats : ExportCheck(s, fmt)
        \/ ExportWrite(s) \/ ExportRecord(s) \/ ExportAudit(s) \/ DropRequest(s)

Spec == Init /\ [][Next]_vars

-----------------------------------------------------------------------------
(* Properties.                                                              *)

\* What the export policy lets through is clean: no field of the exported
\* summary asks for a review or is invalid, and no calculated field does,
\* however reviews, approvals by confidence, re-runs and changes of the policy
\* interleave with the export (assert_export_allowed together with what
\* apply_review_edits leaves flagged).
GuardedExportIsClean ==
    \A s \in Sessions :
        req[s].op = "write" /\ req[s].guarded =>
            ~Open(req[s].summary) /\ req[s].summary.invalid = {}

\* The calculated outputs that are stored, or in an export file, were computed
\* from the field values stored beside them, unless the latest edits asked for
\* no recalculation (recalculate = false), whichever reviews and re-runs
\* overwrote each other's column.
OutputsMatchInputs(c) == c.stale \/ c.calc.of = c.val

CalculatedMatchesFields ==
    /\ OutputsMatchInputs(summary)
    /\ \A n \in Names : files[n] # Null => OutputsMatchInputs(files[n])

\* The field shows the value of its newest review_edits row.
Shows(f) == lastEdit[f] # Null => summary.val[f] = lastEdit[f]

\* docs/P1_OPERATOR_TRUST_PLAN.md: review edits are persisted.
EditsPersist == \A f \in Fields : Shows(f)

\* A saved edit stops being what the result shows only in two ways: the job is run
\* again and its result replaces the column, or a review is committed whose copy
\* of the column another commit had overtaken since the review read it.  A review
\* that nothing overtook shows every edit it saves and every one saved before it
\* (apply_review_edits writes the column back whole and checks no version).
EditsLostOnlyByStaleWrite ==
    [][\A f \in Fields : Shows(f) =>
         \/ Shows(f)'
         \/ RerunCommit
         \/ \E s \in Sessions, p \in Payloads :
                ReviewCommit(s, p) /\ req[s].overtaken]_vars

\* "Approve all flagged" sends neither edits nor a threshold and asks for a
\* recalculation.  When it is saved, no extracted field is flagged or invalid,
\* whatever earlier reviews approved by confidence; what stays open is a
\* calculated field, and only when its definition always asks for a review or its
\* formula has no value within its limits for the values just saved.
ApproveOnly == [edits |-> [f \in {} |-> Null], approve |-> FALSE, recalculate |-> TRUE]
ApproveAllLeavesOnlyCalculated ==
    [][\A s \in Sessions : ReviewCommit(s, ApproveOnly) =>
         /\ summary'.needs = {} /\ summary'.invalid = {}
         /\ Open(summary') => CalcReview \/ Formula[summary'.val] # "value"]_vars
=============================================================================
