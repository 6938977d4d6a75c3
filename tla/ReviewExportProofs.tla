-------------------------- MODULE ReviewExportProofs --------------------------
(***************************************************************************)
(* Proofs about ReviewExport, for any template, any number of request      *)
(* threads and any bounds.                                                 *)
(***************************************************************************)
EXTENDS ReviewExport, TLAPS

\* What holds of every summary anywhere in the system: an invalid field asks
\* for a review, and outputs belong to their inputs.  A summary that asks for
\* no review then has no invalid field, which is what makes the policy's test
\* of fields_requiring_review enough.
Sound(c) == c.invalid \subseteq c.needs /\ OutputsMatchInputs(c)

\* The strengthening: soundness of the stored summary alone is not inductive,
\* because requests and files carry summaries of earlier states, and a request
\* about to write its audit event names a record that exists.
RequestGood(r, fs, rs) ==
    /\ r \in Requests
    /\ r.op # "idle" => r.summary \in Summaries /\ Sound(r.summary)
    /\ r.op \in {"write", "record", "audit"} => r.name \in Names
    /\ r.op \in {"record", "audit"} => fs[r.name] \in Summaries
    /\ r.op = "audit" => RecordOf(r) \in rs
    /\ r.op = "write" /\ r.guarded => ~Open(r.summary) /\ r.summary.invalid = {}

ResultGood ==
    /\ summary \in Summaries /\ Sound(summary)
    /\ status \in Statuses
    /\ lastEdit \in [Fields -> Values \cup {Null}]
    /\ worker \in Statuses \cup {"idle"}

ExportsGood ==
    /\ policy \in BOOLEAN
    /\ files \in [Names -> Summaries \cup {Null}]
    /\ \A n \in Names : files[n] # Null => Sound(files[n])
    /\ records \subseteq Records /\ audited \subseteq records
    /\ now \in 0..MaxSecond

CountsGood == runs \in 0..MaxRuns /\ reviews \in 0..MaxReviews /\ exports \in 0..MaxExports

RequestsGood ==
    /\ req \in [Sessions -> Requests]
    /\ \A s \in Sessions : RequestGood(req[s], files, records)

ReviewInv ==
    /\ ResultGood /\ ExportsGood /\ CountsGood /\ RequestsGood
    /\ worker # "idle" => runs < MaxRuns

-----------------------------------------------------------------------------
(* The operators.                                                           *)

\* evaluate_calculated_fields returns an output computed from its inputs.
LEMMA EvaluateType ==
    ASSUME NEW v \in [Fields -> Values]
    PROVE  /\ Evaluate(v) \in [of: [Fields -> Values], needs: BOOLEAN]
           /\ Evaluate(v).of = v
  BY ReviewAssumption DEF Evaluate

\* A fresh extraction is a sound summary.
LEMMA ExtractedIsSound ==
    ASSUME NEW c \in Extracted
    PROVE  c \in Summaries /\ Sound(c)
<1>1. PICK n \in SUBSET Fields, v \in [Fields -> Values], i \in SUBSET Fields :
        /\ i \subseteq n
        /\ c = [val |-> v, needs |-> n, invalid |-> i, calc |-> Evaluate(v),
                reviewed |-> FALSE, stale |-> FALSE]
  BY DEF Extracted
<1>2. c \in Summaries
  BY <1>1, EvaluateType DEF Summaries
<1>3. Sound(c)
  BY <1>1, EvaluateType DEF Sound, OutputsMatchInputs
<1>. QED BY <1>2, <1>3

\* Each pass of apply_review_edits keeps a summary sound: approval by
\* confidence skips invalid fields,
LEMMA ApproveConfidentIsSound ==
    ASSUME NEW c \in Summaries, NEW p \in Payloads, Sound(c)
    PROVE  ApproveConfident(c, p) \in Summaries /\ Sound(ApproveConfident(c, p))
  BY DEF ApproveConfident, Summaries, Sound, OutputsMatchInputs

\* approval of everything also makes the approved fields valid,
LEMMA ApproveAllIsSound ==
    ASSUME NEW c \in Summaries, NEW p \in Payloads, Sound(c)
    PROVE  ApproveAll(c, p) \in Summaries /\ Sound(ApproveAll(c, p))
  BY DEF ApproveAll, Summaries, Sound, OutputsMatchInputs

\* an edit settles its field and makes the outputs stale,
LEMMA ApplyEditsIsSound ==
    ASSUME NEW c \in Summaries, NEW p \in Payloads, Sound(c)
    PROVE  ApplyEdits(c, p) \in Summaries /\ Sound(ApplyEdits(c, p))
<1>1. PICK F \in SUBSET Fields : p.edits \in [F -> Values]
  BY DEF Payloads, Edits
<1>. DEFINE v == [f \in Fields |-> IF f \in DOMAIN p.edits THEN p.edits[f] ELSE c.val[f]]
            n == c.needs \ DOMAIN p.edits
            i == c.invalid \ DOMAIN p.edits
            t == c.stale \/ DOMAIN p.edits # {}
<1>2. ApplyEdits(c, p) = [c EXCEPT !.val = v, !.needs = n, !.invalid = i, !.stale = t]
  BY DEF ApplyEdits
<1>3. v \in [Fields -> Values]
  BY <1>1 DEF Summaries
<1>4. n \in SUBSET Fields /\ i \in SUBSET Fields /\ i \subseteq n
  BY DEF Summaries, Sound
<1>5. t \in BOOLEAN
  BY DEF Summaries
<1>6. ~t => v = c.val
  BY DEF Summaries
<1>7. ~t => ~c.stale
  OBVIOUS
<1>. HIDE DEF v, n, i, t
<1>8. ApplyEdits(c, p) \in Summaries
  BY <1>2, <1>3, <1>4, <1>5 DEF Summaries
<1>9. Sound(ApplyEdits(c, p))
  BY <1>2, <1>4, <1>6, <1>7 DEF Summaries, Sound, OutputsMatchInputs
<1>. QED BY <1>8, <1>9

\* and recalculation brings the outputs back to the inputs.
LEMMA RecalculateIsSound ==
    ASSUME NEW c \in Summaries, NEW p \in Payloads, Sound(c)
    PROVE  Recalculate(c, p) \in Summaries /\ Sound(Recalculate(c, p))
<1>1. c.val \in [Fields -> Values]
  BY DEF Summaries
<1>. QED
  BY <1>1, EvaluateType DEF Recalculate, Summaries, Sound, OutputsMatchInputs

\* apply_review_edits as a whole.
LEMMA ReviewedIsSound ==
    ASSUME NEW c \in Summaries, NEW p \in Payloads, Sound(c)
    PROVE  Reviewed(c, p) \in Summaries /\ Sound(Reviewed(c, p))
<1>. DEFINE a == ApproveConfident(c, p)
            b == ApproveAll(a, p)
            d == ApplyEdits(b, p)
            e == Recalculate(d, p)
<1>1. a \in Summaries /\ Sound(a)
  BY ApproveConfidentIsSound
<1>. HIDE DEF a
<1>2. b \in Summaries /\ Sound(b)
  BY <1>1, ApproveAllIsSound
<1>. HIDE DEF b
<1>3. d \in Summaries /\ Sound(d)
  BY <1>2, ApplyEditsIsSound
<1>. HIDE DEF d
<1>4. e \in Summaries /\ Sound(e)
  BY <1>3, RecalculateIsSound
<1>5. Reviewed(c, p) = [e EXCEPT !.reviewed = TRUE]
  BY DEF Reviewed, a, b, d
<1>. HIDE DEF e
<1>. QED BY <1>4, <1>5 DEF Summaries, Sound, OutputsMatchInputs

-----------------------------------------------------------------------------
(* The invariant.                                                           *)

\* A thread without a request is in order, whatever is in the directory.
LEMMA IdleIsGood ==
    ASSUME NEW fs, NEW rs
    PROVE  RequestGood(IdleRequest, fs, rs)
  BY DEF RequestGood, IdleRequest, Requests, Statuses

\* The initial states.
LEMMA InitReview == Init => ReviewInv
<1>. SUFFICES ASSUME Init PROVE ReviewInv
  OBVIOUS
<1>1. ResultGood
  BY ExtractedIsSound DEF Init, ResultGood, Statuses
<1>2. ExportsGood
  <2>1. now \in 0..MaxSecond
    BY BoundsAssumption DEF Init
  <2>2. files \in [Names -> Summaries \cup {Null}] /\ \A n \in Names : files[n] = Null
    BY DEF Init
  <2>3. policy \in BOOLEAN /\ records \subseteq Records /\ audited \subseteq records
    BY DEF Init
  <2>. QED BY <2>1, <2>2, <2>3 DEF ExportsGood
<1>3. CountsGood
  BY BoundsAssumption DEF Init, CountsGood
<1>4. RequestsGood
  BY IdleIsGood DEF Init, RequestsGood, RequestGood
<1>. QED BY <1>1, <1>2, <1>3, <1>4 DEF ReviewInv, Init

\* A step that gives one thread a good request leaves all requests good, as
\* long as no file or record disappears.
LEMMA OneRequest ==
    ASSUME RequestsGood, NEW s \in Sessions, NEW r,
           RequestGood(r, files', records'),
           req' = [req EXCEPT ![s] = r],
           \A n \in Names : files[n] \in Summaries => files'[n] \in Summaries,
           records \subseteq records'
    PROVE  RequestsGood'
<1>1. req' \in [Sessions -> Requests]
  BY DEF RequestsGood, RequestGood
<1>2. ASSUME NEW t \in Sessions PROVE RequestGood(req'[t], files', records')
  <2>1. CASE t = s
    BY <2>1 DEF RequestsGood
  <2>2. CASE t # s
    <3>1. req'[t] = req[t]
      BY <2>2 DEF RequestsGood
    <3>2. RequestGood(req[t], files, records)
      BY DEF RequestsGood
    <3>3. RequestGood(req[t], files', records')
      BY <3>2 DEF RequestGood
    <3>. QED BY <3>1, <3>3
  <2>. QED BY <2>1, <2>2
<1>. QED BY <1>1, <1>2 DEF RequestsGood

\* A request that a commit has overtaken is as good as before.
LEMMA OvertakenIsGood ==
    ASSUME RequestsGood
    PROVE  /\ Overtaken \in [Sessions -> Requests]
           /\ \A s \in Sessions : RequestGood(Overtaken[s], files, records)
<1>1. ASSUME NEW s \in Sessions
      PROVE  Overtaken[s] \in Requests /\ RequestGood(Overtaken[s], files, records)
  <2>1. req[s] \in Requests /\ RequestGood(req[s], files, records)
    BY DEF RequestsGood
  <2>2. Overtaken[s] = [req[s] EXCEPT !.overtaken = @ \/ req[s].op = "review"]
    BY DEF Overtaken
  <2>3. Overtaken[s] \in Requests
    BY <2>1, <2>2 DEF Requests
  <2>4. /\ Overtaken[s].op = req[s].op /\ Overtaken[s].summary = req[s].summary
        /\ Overtaken[s].name = req[s].name /\ Overtaken[s].guarded = req[s].guarded
    BY <2>1, <2>2 DEF Requests
  <2>. QED BY <2>1, <2>3, <2>4 DEF RequestGood, RecordOf
<1>. QED BY <1>1 DEF Overtaken

\* Every step of every actor preserves the invariant.
LEMMA NextReview == ReviewInv /\ [Next]_vars => ReviewInv'
<1>. SUFFICES ASSUME ReviewInv, [Next]_vars PROVE ReviewInv'
  OBVIOUS
<1>. USE DEF ReviewInv
<1>1. CASE UNCHANGED vars
  BY <1>1 DEF vars, stored, exported, counts, ResultGood, ExportsGood, CountsGood,
              RequestsGood
<1>2. CASE RerunRead
  <2>1. ResultGood'
    BY <1>2 DEF RerunRead, stored, ResultGood
  <2>. QED
    BY <1>2, <2>1 DEF RerunRead, exported, counts, ExportsGood, CountsGood, RequestsGood
<1>3. CASE RerunCommit
  <2>1. ResultGood'
    BY <1>3, ExtractedIsSound DEF RerunCommit, ResultGood, Statuses
  <2>2. CountsGood' /\ worker' = "idle"
    BY <1>3, BoundsAssumption DEF RerunCommit, CountsGood
  <2>3. RequestsGood'
    BY <1>3, OvertakenIsGood DEF RerunCommit, exported, RequestsGood
  <2>. QED
    BY <1>3, <2>1, <2>2, <2>3 DEF RerunCommit, exported, ExportsGood
<1>4. CASE Tick
  <2>1. ExportsGood'
    BY <1>4, BoundsAssumption DEF Tick, exported, ExportsGood
  <2>. QED
    BY <1>4, <2>1 DEF Tick, stored, exported, counts, ResultGood, CountsGood, RequestsGood
<1>5. ASSUME NEW on \in BOOLEAN, SetPolicy(on) PROVE ReviewInv'
  BY <1>5 DEF SetPolicy, stored, exported, counts, ResultGood, ExportsGood, CountsGood,
              RequestsGood
<1>6. ASSUME NEW s \in Sessions, ReviewRead(s) PROVE ReviewInv'
  <2>. DEFINE r == [IdleRequest EXCEPT !.op = "review", !.summary = summary,
                                       !.status = status]
  <2>1. RequestGood(r, files', records')
    BY DEF RequestGood, IdleRequest, Requests, ResultGood, Statuses
  <2>. HIDE DEF r
  <2>2. RequestsGood'
    BY <1>6, <2>1, OneRequest DEF ReviewRead, exported, r
  <2>3. CountsGood'
    BY <1>6, BoundsAssumption DEF ReviewRead, CountsGood
  <2>. QED
    BY <1>6, <2>2, <2>3 DEF ReviewRead, stored, exported, ResultGood, ExportsGood
<1>7. ASSUME NEW s \in Sessions, NEW p \in Payloads, ReviewCommit(s, p) PROVE ReviewInv'
  <2>1. RequestsGood'
    <3>1. req' = [Overtaken EXCEPT ![s] = IdleRequest] /\ UNCHANGED exported
      BY <1>7 DEF ReviewCommit
    <3>2. \A t \in Sessions : req'[t] = IF t = s THEN IdleRequest ELSE Overtaken[t]
      BY <3>1, OvertakenIsGood
    <3>3. req' \in [Sessions -> Requests]
      BY <3>1, OvertakenIsGood, IdleIsGood DEF RequestGood
    <3>. QED BY <3>1, <3>2, <3>3, OvertakenIsGood, IdleIsGood DEF RequestsGood, exported
  <2>2. req[s].summary \in Summaries /\ Sound(req[s].summary)
    BY <1>7 DEF ReviewCommit, RequestsGood, RequestGood
  <2>3. summary' \in Summaries /\ Sound(summary')
    BY <1>7, <2>2, ReviewedIsSound DEF ReviewCommit
  <2>4. PICK F \in SUBSET Fields : p.edits \in [F -> Values]
    BY DEF Payloads, Edits
  <2>5. lastEdit' \in [Fields -> Values \cup {Null}]
    BY <1>7, <2>4 DEF ReviewCommit, ResultGood
  <2>6. status' \in Statuses
    BY <1>7 DEF ReviewCommit, ResultGood, Statuses
  <2>7. ResultGood'
    BY <1>7, <2>3, <2>5, <2>6 DEF ReviewCommit, ResultGood
  <2>. QED
    BY <1>7, <2>1, <2>7 DEF ReviewCommit, exported, counts, ExportsGood, CountsGood
<1>8. ASSUME NEW s \in Sessions, ExportRead(s) PROVE ReviewInv'
  <2>. DEFINE r == [IdleRequest EXCEPT !.op = "check", !.summary = summary,
                                       !.status = status]
  <2>1. RequestGood(r, files', records')
    BY DEF RequestGood, IdleRequest, Requests, ResultGood, Statuses
  <2>. HIDE DEF r
  <2>2. RequestsGood'
    BY <1>8, <2>1, OneRequest DEF ExportRead, exported, r
  <2>3. CountsGood'
    BY <1>8, BoundsAssumption DEF ExportRead, CountsGood
  <2>. QED
    BY <1>8, <2>2, <2>3 DEF ExportRead, stored, exported, ResultGood, ExportsGood
<1>9. ASSUME NEW s \in Sessions, NEW fmt \in Formats, ExportCheck(s, fmt) PROVE ReviewInv'
  <2>. DEFINE name == <<fmt, now>>
              r == [req[s] EXCEPT !.op = "write", !.name = name, !.guarded = policy]
  <2>1. name \in Names
    BY DEF Names, ExportsGood
  <2>2. req[s] \in Requests /\ req[s].summary \in Summaries /\ Sound(req[s].summary)
    BY <1>9 DEF ExportCheck, RequestsGood, RequestGood
  <2>. HIDE DEF name
  <2>3. ASSUME ExportAllowed(req[s]) /\ req' = [req EXCEPT ![s] = r]
        PROVE  RequestsGood'
    <3>1. r \in Requests
      BY <2>1, <2>2 DEF Requests, ExportsGood
    <3>2. r.summary = req[s].summary /\ r.guarded = policy /\ r.name = name /\ r.op = "write"
      BY <2>2 DEF Requests
    <3>3. policy => ~Open(req[s].summary) /\ req[s].summary.invalid = {}
      BY <2>2, <2>3 DEF ExportAllowed, Open, Sound
    <3>. HIDE DEF r
    <3>4. RequestGood(r, files', records')
      BY <2>1, <2>2, <3>1, <3>2, <3>3 DEF RequestGood
    <3>. QED BY <1>9, <2>3, <3>4, OneRequest DEF ExportCheck, exported
  <2>4. ASSUME EndRequest(s) PROVE RequestsGood'
    BY <1>9, <2>4, IdleIsGood, OneRequest DEF ExportCheck, EndRequest, exported
  <2>5. RequestsGood'
    <3>1. (ExportAllowed(req[s]) /\ req' = [req EXCEPT ![s] = r]) \/ EndRequest(s)
      BY <1>9 DEF ExportCheck, RequestsGood, name
    <3>. QED BY <3>1, <2>3, <2>4
  <2>. QED
    BY <1>9, <2>5 DEF ExportCheck, stored, exported, counts, ResultGood, ExportsGood,
                      CountsGood
<1>10. ASSUME NEW s \in Sessions, ExportWrite(s) PROVE ReviewInv'
  <2>. DEFINE c == req[s].summary
              m == req[s].name
              r == [req[s] EXCEPT !.op = "record"]
  <2>1. req[s] \in Requests /\ c \in Summaries /\ Sound(c) /\ m \in Names
    BY <1>10 DEF ExportWrite, RequestsGood, RequestGood
  <2>2. files' = [files EXCEPT ![m] = c]
    BY <1>10 DEF ExportWrite
  <2>3. /\ files' \in [Names -> Summaries \cup {Null}]
        /\ files'[m] = c
        /\ \A n \in Names : n # m => files'[n] = files[n]
    BY <2>1, <2>2 DEF ExportsGood
  <2>4. r \in Requests /\ r.op = "record" /\ r.summary = c /\ r.name = m
    BY <2>1 DEF Requests
  <2>5. req' = [req EXCEPT ![s] = r]
    BY <1>10 DEF ExportWrite, RequestsGood
  <2>. HIDE DEF c, m, r
  <2>6. RequestGood(r, files', records')
    BY <2>1, <2>3, <2>4 DEF RequestGood
  <2>7. RequestsGood'
    BY <1>10, <2>1, <2>3, <2>5, <2>6, OneRequest DEF ExportWrite
  <2>8. ExportsGood'
    BY <1>10, <2>1, <2>3 DEF ExportWrite, ExportsGood
  <2>. QED
    BY <1>10, <2>7, <2>8 DEF ExportWrite, stored, counts, ResultGood, CountsGood
<1>11. ASSUME NEW s \in Sessions, ExportRecord(s) PROVE ReviewInv'
  <2>. DEFINE c == files[req[s].name]
              r == [req[s] EXCEPT !.op = "audit", !.summary = c]
  <2>1. req[s] \in Requests /\ req[s].name \in Names /\ c \in Summaries
    BY <1>11 DEF ExportRecord, RequestsGood, RequestGood
  <2>2. Sound(c)
    BY <2>1, NullAssumption DEF ExportsGood
  <2>3. records' = records \cup {RecordOf(r)} /\ req' = [req EXCEPT ![s] = r]
    BY <1>11 DEF ExportRecord
  <2>4. c = files'[req[s].name]
    BY <1>11 DEF ExportRecord
  <2>. HIDE DEF c
  <2>5. r \in Requests /\ r.op = "audit" /\ r.summary = c /\ r.name = req[s].name
    BY <2>1 DEF Requests
  <2>6. RecordOf(r) \in Records
    BY <2>1, <2>5 DEF RecordOf, Records, Requests
  <2>. HIDE DEF r
  <2>7. RequestGood(r, files', records')
    BY <2>1, <2>2, <2>3, <2>4, <2>5 DEF RequestGood
  <2>8. RequestsGood'
    BY <1>11, <2>3, <2>7, OneRequest DEF ExportRecord
  <2>9. ExportsGood'
    BY <1>11, <2>3, <2>6 DEF ExportRecord, ExportsGood
  <2>. QED
    BY <1>11, <2>8, <2>9 DEF ExportRecord, stored, counts, ResultGood, CountsGood
<1>12. ASSUME NEW s \in Sessions, ExportAudit(s) PROVE ReviewInv'
  <2>1. RecordOf(req[s]) \in records
    BY <1>12 DEF ExportAudit, RequestsGood, RequestGood
  <2>2. ExportsGood'
    BY <1>12, <2>1 DEF ExportAudit, ExportsGood
  <2>3. RequestsGood'
    BY <1>12, IdleIsGood, OneRequest DEF ExportAudit, EndRequest
  <2>. QED
    BY <1>12, <2>2, <2>3 DEF ExportAudit, stored, counts, ResultGood, CountsGood
<1>13. ASSUME NEW s \in Sessions, DropRequest(s) PROVE ReviewInv'
  <2>1. RequestsGood'
    BY <1>13, IdleIsGood, OneRequest DEF DropRequest, EndRequest, exported
  <2>. QED
    BY <1>13, <2>1 DEF DropRequest, stored, exported, counts, ResultGood, ExportsGood,
                       CountsGood
<1>. QED
  BY <1>1, <1>2, <1>3, <1>4, <1>5, <1>6, <1>7, <1>8, <1>9, <1>10, <1>11, <1>12, <1>13
     DEF Next

\* The strengthened invariant holds in every reachable state.
LEMMA ReviewInvariant == Spec => []ReviewInv
  BY InitReview, NextReview, PTL DEF Spec

-----------------------------------------------------------------------------
(* Theorems.                                                                *)

\* TypeOK: every column, file, record and request keeps its type, an exporting
\* request names a file that exists once it has written it, and every
\* export.created event names a committed export record.
THEOREM ReviewTypeCorrect == Spec => []TypeOK
<1>1. ReviewInv => TypeOK
  BY DEF ReviewInv, ResultGood, ExportsGood, CountsGood, RequestsGood, RequestGood, TypeOK
<1>. QED BY <1>1, ReviewInvariant, PTL

\* GuardedExportIsClean: under the export policy no summary with an open or
\* invalid field, or with an open calculated field, is ever written to a file.
THEOREM PolicyBlocksOpenFields == Spec => []GuardedExportIsClean
<1>1. ReviewInv => GuardedExportIsClean
  BY DEF ReviewInv, RequestsGood, RequestGood, GuardedExportIsClean
<1>. QED BY <1>1, ReviewInvariant, PTL

\* CalculatedMatchesFields: stored and exported outputs belong to the inputs
\* beside them.
THEOREM OutputsBelongToInputs == Spec => []CalculatedMatchesFields
<1>1. ReviewInv => CalculatedMatchesFields
  BY DEF ReviewInv, ResultGood, ExportsGood, Sound, CalculatedMatchesFields
<1>. QED BY <1>1, ReviewInvariant, PTL
-----------------------------------------------------------------------------
(* What "approve all flagged" leaves behind.                                *)

\* Without edits and without a threshold every pass but the recalculation only
\* clears flags: of a sound summary no extracted field stays flagged or invalid.
LEMMA ApproveOnlyClears ==
    ASSUME NEW c \in Summaries, Sound(c)
    PROVE  /\ Reviewed(c, ApproveOnly).needs = {} /\ Reviewed(c, ApproveOnly).invalid = {}
           /\ Reviewed(c, ApproveOnly).val = c.val
           /\ Reviewed(c, ApproveOnly).calc = Evaluate(c.val)
<1>. DEFINE b == [c EXCEPT !.needs = {}, !.invalid = @ \ c.needs, !.calc.needs = FALSE]
            d == ApplyEdits(b, ApproveOnly)
<1>1. DOMAIN ApproveOnly.edits = {} /\ ~ApproveOnly.approve /\ ApproveOnly.recalculate
  BY DEF ApproveOnly
<1>2. ApproveAll(ApproveConfident(c, ApproveOnly), ApproveOnly) = b
  BY <1>1 DEF ApproveConfident, ApproveAll
<1>3. b.needs = {} /\ b.invalid = {} /\ b.val = c.val /\ b \in Summaries
  BY DEF Summaries, Sound
<1>. HIDE DEF b
<1>4. d.needs = {} /\ d.invalid = {} /\ d.val = c.val /\ d \in Summaries
  <2>. DEFINE v == [f \in Fields |-> IF f \in DOMAIN ApproveOnly.edits
                                     THEN ApproveOnly.edits[f] ELSE b.val[f]]
              t == b.stale \/ DOMAIN ApproveOnly.edits # {}
  <2>1. v = b.val /\ t \in BOOLEAN
    BY <1>1, <1>3 DEF Summaries
  <2>2. d = [b EXCEPT !.val = v, !.needs = @ \ DOMAIN ApproveOnly.edits,
                      !.invalid = @ \ DOMAIN ApproveOnly.edits, !.stale = t]
    BY DEF ApplyEdits
  <2>. HIDE DEF v, t, d
  <2>. QED BY <1>1, <1>3, <2>1, <2>2 DEF Summaries
<1>5. Reviewed(c, ApproveOnly) =
        [[d EXCEPT !.calc = Evaluate(d.val), !.stale = FALSE] EXCEPT !.reviewed = TRUE]
  BY <1>1, <1>2 DEF Reviewed, Recalculate
<1>. HIDE DEF d
<1>. QED BY <1>4, <1>5 DEF Summaries

\* ApproveAllLeavesOnlyCalculated: when "approve all flagged" is saved, whatever
\* reviews, approvals by confidence and re-runs went before or overlap it, no
\* extracted field is flagged or invalid afterwards, and a calculated field stays
\* open only because its definition says so or because its formula has no value
\* within its limits for the values just saved.
THEOREM ApproveAllClearsTheFields == Spec => ApproveAllLeavesOnlyCalculated
<1>1. ASSUME ReviewInv, NEW s \in Sessions, ReviewCommit(s, ApproveOnly)
      PROVE  /\ summary'.needs = {} /\ summary'.invalid = {}
             /\ (Open(summary') =>
                  CalcReview \/ Formula[summary'.val] # "value")
  <2>. DEFINE c == req[s].summary
  <2>1. c \in Summaries /\ Sound(c)
    BY <1>1 DEF ReviewInv, RequestsGood, RequestGood, ReviewCommit
  <2>2. summary' = Reviewed(c, ApproveOnly)
    BY <1>1 DEF ReviewCommit
  <2>. HIDE DEF c
  <2>3. /\ summary'.needs = {} /\ summary'.invalid = {}
        /\ summary'.calc = Evaluate(summary'.val)
    BY <2>1, <2>2, ApproveOnlyClears
  <2>4. ASSUME NEW v, Evaluate(v).needs
        PROVE  CalcReview \/ Formula[v] # "value"
    BY <2>4, ReviewAssumption DEF Evaluate, Errors
  <2>. QED BY <2>3, <2>4, Zenon DEF Open
<1>2. ReviewInv /\ [Next]_vars =>
        [\A s \in Sessions : ReviewCommit(s, ApproveOnly) =>
           /\ summary'.needs = {} /\ summary'.invalid = {}
           /\ Open(summary') =>
                CalcReview \/ Formula[summary'.val] # "value"]_vars
  BY <1>1
<1>. QED
  BY <1>2, ReviewInvariant, PTL DEF Spec, ApproveAllLeavesOnlyCalculated

-----------------------------------------------------------------------------
(* Which commits lose a saved edit.                                         *)

\* The strengthening: the copy of a review that nothing has overtaken is the
\* column as it is.
CopyIsCurrent(r, c) == r.op = "review" /\ ~r.overtaken => r.summary = c

CopyInv == \A s \in Sessions : CopyIsCurrent(req[s], summary)

\* apply_review_edits changes the values of the edited fields and of no other.
LEMMA ReviewedValues ==
    ASSUME NEW c \in Summaries, NEW p \in Payloads, NEW f \in Fields
    PROVE  Reviewed(c, p).val[f] = IF f \in DOMAIN p.edits THEN p.edits[f] ELSE c.val[f]
<1>. DEFINE a == ApproveConfident(c, p)
            b == ApproveAll(a, p)
            v == [g \in Fields |-> IF g \in DOMAIN p.edits THEN p.edits[g] ELSE b.val[g]]
            d == ApplyEdits(b, p)
            e == Recalculate(d, p)
<1>1. a.val = c.val /\ DOMAIN a = DOMAIN c
  BY DEF ApproveConfident, Summaries
<1>. HIDE DEF a
<1>2. b.val = c.val /\ DOMAIN b = DOMAIN c
  BY <1>1 DEF ApproveAll, Summaries
<1>. HIDE DEF b
<1>3. d.val = v /\ DOMAIN d = DOMAIN c
  BY <1>2 DEF ApplyEdits, Summaries
<1>4. v[f] = IF f \in DOMAIN p.edits THEN p.edits[f] ELSE c.val[f]
  BY <1>2
<1>. HIDE DEF v, d
<1>5. e.val = v /\ DOMAIN e = DOMAIN c
  BY <1>3 DEF Recalculate, Summaries
<1>6. Reviewed(c, p) = [e EXCEPT !.reviewed = TRUE]
  BY DEF Reviewed, a, b, d
<1>. HIDE DEF e
<1>7. Reviewed(c, p).val = v
  BY <1>5, <1>6
<1>. QED BY <1>4, <1>7

\* A request that begins or moves on while the result is left alone.
LEMMA CopyUndisturbed ==
    ASSUME CopyInv, UNCHANGED stored, NEW s \in Sessions, NEW r,
           req' = [req EXCEPT ![s] = r], CopyIsCurrent(r, summary),
           req \in [Sessions -> Requests]
    PROVE  CopyInv'
<1>1. ASSUME NEW t \in Sessions PROVE CopyIsCurrent(req'[t], summary)
  BY DEF CopyInv
<1>. QED BY <1>1 DEF CopyInv, stored

\* After a commit of the column every review under way has been overtaken.
LEMMA OvertakenIsStale ==
    ASSUME RequestsGood, NEW t \in Sessions
    PROVE  Overtaken[t].op = "review" => Overtaken[t].overtaken
  BY DEF Overtaken, RequestsGood, Requests

LEMMA NextCopy == ReviewInv /\ CopyInv /\ [Next]_vars => CopyInv'
<1>. SUFFICES ASSUME ReviewInv, CopyInv, [Next]_vars PROVE CopyInv'
  OBVIOUS
<1>0. req \in [Sessions -> Requests] /\ RequestsGood
  BY DEF ReviewInv, RequestsGood
<1>1. ASSUME UNCHANGED <<stored, req>> PROVE CopyInv'
  BY <1>1 DEF CopyInv, CopyIsCurrent, stored
<1>2. CASE UNCHANGED vars \/ RerunRead \/ Tick \/ \E on \in BOOLEAN : SetPolicy(on)
  BY <1>1, <1>2 DEF vars, RerunRead, Tick, SetPolicy
<1>3. CASE RerunCommit
  BY <1>0, <1>3, OvertakenIsStale DEF RerunCommit, CopyInv, CopyIsCurrent
<1>4. ASSUME NEW s \in Sessions, ReviewRead(s) PROVE CopyInv'
  <2>. DEFINE r == [IdleRequest EXCEPT !.op = "review", !.summary = summary,
                                       !.status = status]
  <2>1. r.summary = summary
    BY DEF IdleRequest
  <2>2. req' = [req EXCEPT ![s] = r] /\ UNCHANGED stored
    BY <1>4 DEF ReviewRead
  <2>. HIDE DEF r
  <2>3. CopyIsCurrent(r, summary)
    BY <2>1 DEF CopyIsCurrent
  <2>. QED BY <1>0, <2>2, <2>3, CopyUndisturbed
<1>5. ASSUME NEW s \in Sessions, NEW p \in Payloads, ReviewCommit(s, p) PROVE CopyInv'
  <2>1. req' = [Overtaken EXCEPT ![s] = IdleRequest]
    BY <1>5 DEF ReviewCommit
  <2>2. \A t \in Sessions : req'[t] = IF t = s THEN IdleRequest ELSE Overtaken[t]
    BY <1>0, <2>1, OvertakenIsGood
  <2>. QED BY <1>0, <2>2, OvertakenIsStale DEF CopyInv, CopyIsCurrent, IdleRequest
<1>6. ASSUME NEW s \in Sessions, NEW r, UNCHANGED stored, r.op # "review",
             req' = [req EXCEPT ![s] = r]
      PROVE  CopyInv'
  BY <1>0, <1>6, CopyUndisturbed DEF CopyIsCurrent
<1>7. ASSUME NEW s \in Sessions, EndRequest(s), UNCHANGED stored PROVE CopyInv'
  BY <1>6, <1>7 DEF EndRequest, IdleRequest
<1>8. ASSUME NEW s \in Sessions, ExportAudit(s) \/ DropRequest(s) PROVE CopyInv'
  BY <1>7, <1>8 DEF ExportAudit, DropRequest
<1>9. ASSUME NEW s \in Sessions, ExportRead(s) PROVE CopyInv'
  <2>. DEFINE r == [IdleRequest EXCEPT !.op = "check", !.summary = summary,
                                       !.status = status]
  <2>1. r.op = "check"
    BY DEF IdleRequest
  <2>2. req' = [req EXCEPT ![s] = r] /\ UNCHANGED stored
    BY <1>9 DEF ExportRead
  <2>. HIDE DEF r
  <2>. QED BY <1>6, <2>1, <2>2
<1>10. ASSUME NEW s \in Sessions, NEW fmt \in Formats, ExportCheck(s, fmt) PROVE CopyInv'
  <2>. DEFINE r == [req[s] EXCEPT !.op = "write", !.name = <<fmt, now>>, !.guarded = policy]
  <2>1. req[s] \in Requests /\ UNCHANGED stored
    BY <1>0, <1>10 DEF ExportCheck
  <2>2. r.op = "write"
    BY <2>1 DEF Requests
  <2>3. req' = [req EXCEPT ![s] = r] \/ EndRequest(s)
    BY <1>0, <1>10 DEF ExportCheck
  <2>. HIDE DEF r
  <2>. QED BY <1>6, <1>7, <2>1, <2>2, <2>3
<1>11. ASSUME NEW s \in Sessions, ExportWrite(s) PROVE CopyInv'
  <2>. DEFINE r == [req[s] EXCEPT !.op = "record"]
  <2>1. r.op = "record"
    BY <1>0 DEF Requests
  <2>2. req' = [req EXCEPT ![s] = r] /\ UNCHANGED stored
    BY <1>0, <1>11 DEF ExportWrite
  <2>. HIDE DEF r
  <2>. QED BY <1>6, <2>1, <2>2
<1>12. ASSUME NEW s \in Sessions, ExportRecord(s) PROVE CopyInv'
  <2>. DEFINE r == [req[s] EXCEPT !.op = "audit", !.summary = files[req[s].name]]
  <2>1. r.op = "audit"
    BY <1>0 DEF Requests
  <2>2. req' = [req EXCEPT ![s] = r] /\ UNCHANGED stored
    BY <1>12 DEF ExportRecord
  <2>. HIDE DEF r
  <2>. QED BY <1>6, <2>1, <2>2
<1>. QED
  BY <1>2, <1>3, <1>4, <1>5, <1>8, <1>9, <1>10, <1>11, <1>12 DEF Next

\* A commit of the column keeps every edit it does not make, if its copy is current.
LEMMA FreshReviewShows ==
    ASSUME ReviewInv, CopyInv, NEW s \in Sessions, NEW p \in Payloads,
           ReviewCommit(s, p), ~req[s].overtaken, NEW f \in Fields, Shows(f)
    PROVE  lastEdit'[f] # Null => summary'.val[f] = lastEdit'[f]
<1>1. req[s].summary = summary /\ summary \in Summaries
  BY DEF ReviewCommit, CopyInv, CopyIsCurrent, ReviewInv, ResultGood
<1>2. summary' = Reviewed(summary, p)
  BY <1>1 DEF ReviewCommit
<1>3. summary'.val[f] = IF f \in DOMAIN p.edits THEN p.edits[f] ELSE summary.val[f]
  BY <1>1, <1>2, ReviewedValues
<1>4. lastEdit'[f] = IF f \in DOMAIN p.edits THEN p.edits[f] ELSE lastEdit[f]
  BY DEF ReviewCommit
<1>. QED BY <1>3, <1>4 DEF Shows

\* Every other step but the end of a re-run leaves column and edits alone.
LEMMA StoredOnlyByCommits ==
    [Next]_vars => \/ UNCHANGED stored
                   \/ RerunCommit
                   \/ \E s \in Sessions, p \in Payloads : ReviewCommit(s, p)
  BY DEF Next, vars, RerunRead, Tick, SetPolicy, ReviewRead, ExportRead, ExportCheck,
         ExportWrite, ExportRecord, ExportAudit, DropRequest

\* EditsLostOnlyByStaleWrite: a saved edit stops being shown only when the job is
\* run again or by the commit of a review that another commit overtook after its
\* read, however many request threads there are.
THEOREM EditsLostOnlyWhenOvertaken == Spec => EditsLostOnlyByStaleWrite
<1>1. Init => CopyInv
  BY DEF Init, CopyInv, CopyIsCurrent, IdleRequest
<1>2. ASSUME ReviewInv, CopyInv, [Next]_vars, NEW f \in Fields, Shows(f)
      PROVE  \/ Shows(f)'
             \/ RerunCommit
             \/ \E s \in Sessions, p \in Payloads :
                   ReviewCommit(s, p) /\ req[s].overtaken
  <2>1. CASE UNCHANGED stored
    BY <1>2, <2>1 DEF stored, Shows
  <2>2. ASSUME NEW s \in Sessions, NEW p \in Payloads, ReviewCommit(s, p),
               ~req[s].overtaken
        PROVE  Shows(f)'
    BY <1>2, <2>2, FreshReviewShows DEF Shows
  <2>. QED BY <1>2, <2>1, <2>2, StoredOnlyByCommits
<1>3. ReviewInv /\ CopyInv /\ [Next]_vars =>
        [\A f \in Fields : Shows(f) =>
           \/ Shows(f)'
           \/ RerunCommit
           \/ \E s \in Sessions, p \in Payloads :
                 ReviewCommit(s, p) /\ req[s].overtaken]_vars
  BY <1>2
<1>. QED
  BY <1>1, <1>3, NextCopy, ReviewInvariant, PTL DEF Spec, EditsLostOnlyByStaleWrite
=============================================================================
