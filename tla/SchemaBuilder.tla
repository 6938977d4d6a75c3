---------------------------- MODULE SchemaBuilder ----------------------------
(***************************************************************************)
(* The schema builder of the web frontend (App.tsx: SchemaPage and the     *)
(* handlers and effects of App that feed it).  An operator selects a saved *)
(* template version, edits a draft copied from it, promotes or dismisses   *)
(* the suggestions of reviewed runs, watches the difference to the saved   *)
(* version, and saves the draft as a new template, while the poll timer    *)
(* keeps replacing the list of versions.                                   *)
(*                                                                         *)
(* React effects run after the render their inputs changed in; an action   *)
(* includes the effects its state changes set off, until none is left.     *)
(* Every refresh makes new definition objects, so the effects that depend  *)
(* on currentTemplateDefinition run after every refresh.  A request is     *)
(* answered in the step that sends it and delivered in a later one.        *)
(*                                                                         *)
(* The fields of the draft are reduced to whether they were edited and     *)
(* whether the examples can be built (module LangExtract models those); a  *)
(* version has at most one suggestion, named after it.                     *)
(***************************************************************************)
EXTENDS Integers

CONSTANTS
  Versions,         \* ids of template versions; a larger id is newer
  TemplateOf,       \* the template a version belongs to
  LangExtract,      \* versions whose provider's api_style is "langextract"
  InitialVersions,  \* versions saved before the page loads
  None,             \* null
  Outdated,         \* a comparison of an earlier draft or version
  MaxEvents         \* bound: saves, dismissals and reviews

ASSUME VersionsAssumption ==
  /\ Versions \subseteq Nat
  /\ \E newest \in Versions : \A v \in Versions : v <= newest
  /\ TemplateOf \in [Versions -> Nat]
  /\ LangExtract \subseteq Versions
  /\ InitialVersions \subseteq Versions
  /\ None \notin Nat
ASSUME BoundsAssumption == MaxEvents \in Nat

Templates == {TemplateOf[v] : v \in Versions}
VersionIds == Versions \cup {None}
TemplateIds == Templates \cup {None}

Draft == [base: VersionIds,                        \* the version it was copied from
          text: {"clean", "edited", "invalid"},    \* its fields and examples
          promoted: SUBSET Versions,               \* suggestions it includes
          reworked: SUBSET Versions]               \* of these, edited since

\* buildDraftTemplateFromDefinition
FreshDraft(v) ==
  [base |-> v, text |-> "clean", promoted |-> {}, reworked |-> {}]

Payload == [seed: VersionIds, draft: Draft \cup {None}]
Comparison == [version: Versions, payload: Payload]
Feedback == [status: {"idle", "loading", "ready", "error"}, shown: SUBSET Versions]
Answer == [version: Versions, open: SUBSET Versions]
ASSUME NoneAssumption ==
  None \notin Draft /\ {None, Outdated} \cap Comparison = {} /\ Outdated # None

VARIABLES
  \* the server
  saved,        \* the template versions that exist
  dismissed,    \* the suggestions dismissed for good
  \* the page
  versionsView,                 \* templateVersions
  selectedTemplate,             \* selectedTemplateId
  selectedVersion,              \* selectedTemplateVersionId
  draft,                        \* draftTemplate
  session,                      \* sessionAppliedLangExtractSuggestionKeys
  hidden,                       \* dismissedLangExtractSuggestionKeys
  feedback,                     \* suggestions and their status
  feedbackAsks,                 \* answers of the feedback effect not cancelled
  versionDiff,                  \* the comparison shown
  diffAsks,                     \* comparisons of the diff effect not cancelled
  timerTemplate,                \* selectedTemplateId in the timer's closure
  poll, saver, late,            \* a refresh, handleCreateTemplate, and a handler
                                \* that fetches feedback of its own
  events                        \* counts what MaxEvents bounds

server == <<saved, dismissed>>
selection == <<versionsView, selectedTemplate, selectedVersion, timerTemplate>>
editing == <<draft, session, hidden, feedback, feedbackAsks, versionDiff, diffAsks>>
inFlight == <<poll, saver, late>>
vars == <<server, selection, editing, inFlight, events>>

Refresh == [pc: {"idle", "request", "lists"}, sel: TemplateIds,
            rows: SUBSET Versions]
Late == [pc: {"idle", "put", "feedback"}, version: VersionIds,
         key: VersionIds, apply: BOOLEAN, open: SUBSET Versions]
IdleRefresh == [pc |-> "idle", sel |-> None, rows |-> {}]
IdleLate == [pc |-> "idle", version |-> None, key |-> None, apply |-> FALSE,
             open |-> {}]

Event == events < MaxEvents /\ events' = events + 1

-----------------------------------------------------------------------------
Newest(S) == CHOOSE v \in S : \A w \in S : w <= v
First(S) == CHOOSE t \in S : \A u \in S : t <= u

\* The suggestions the server offers for a version.
Open(v) == {v} \ dismissed

\* The versions of a template in a list of versions.
Matching(t, rows) == {v \in rows : TemplateOf[v] = t}

\* Mutant of VersionFor: only a missing selection is replaced.
VersionForMissing(t, v, rows) ==
  IF t # None /\ Matching(t, rows) # {} /\ v = None
  THEN Newest(Matching(t, rows)) ELSE v

\* The template-version effect: the newest version of the selected template,
\* unless one of its versions is selected already.
VersionFor(t, v, rows) ==
  IF t # None /\ Matching(t, rows) # {} /\ v \notin Matching(t, rows)
  THEN Newest(Matching(t, rows))
  ELSE v

\* buildDraftTemplateDefinitionSafe: a draft whose examples cannot be built is
\* replaced by the definition it starts from.
DraftDefinition(v, rows, d) ==
  [seed |-> IF v \in rows THEN v ELSE None,
   draft |-> IF d.text = "invalid" THEN None ELSE d]

\* selectedSavedVersion: the selected version, if it is one of the selected
\* template.
SavedVersion(t, v, rows) == IF v \in Matching(t, rows) THEN v ELSE None

\* Mutant of DiffEffect: the effect has no cleanup.
DiffEffectUncancelled(t, v, rows, d) ==
  IF SavedVersion(t, v, rows) = None
  THEN versionDiff' = None /\ UNCHANGED diffAsks
  ELSE /\ diffAsks' = diffAsks \cup
            {[version |-> v, payload |-> DraftDefinition(v, rows, d)]}
       /\ versionDiff' = IF versionDiff = None THEN None ELSE Outdated

\* The diff effect.  Its cleanup cancels the request of the effect before it;
\* the comparison shown stays, now that of an earlier draft or version.
DiffEffect(t, v, rows, d) ==
  IF SavedVersion(t, v, rows) = None
  THEN versionDiff' = None /\ diffAsks' = {}
  ELSE /\ diffAsks' = {[version |-> v, payload |-> DraftDefinition(v, rows, d)]}
       /\ versionDiff' = IF versionDiff = None THEN None ELSE Outdated

\* Mutant of FeedbackEffect: the effect has no cleanup.
FeedbackEffectUncancelled(v, rows) ==
  IF v \in rows /\ v \in LangExtract
  THEN /\ feedback' = [feedback EXCEPT !.status = "loading"]
       /\ feedbackAsks' = feedbackAsks \cup {[version |-> v, open |-> Open(v)]}
  ELSE /\ feedback' = [status |-> "idle", shown |-> {}]
       /\ UNCHANGED feedbackAsks

\* The feedback effect, with its cleanup.
FeedbackEffect(v, rows) ==
  IF v \in rows /\ v \in LangExtract
  THEN /\ feedback' = [feedback EXCEPT !.status = "loading"]
       /\ feedbackAsks' = {[version |-> v, open |-> Open(v)]}
  ELSE /\ feedback' = [status |-> "idle", shown |-> {}]
       /\ feedbackAsks' = {}

\* Mutant of DefinitionEffect: the examples of the draft outlive the marks.
DefinitionEffectKeepsExamples(v, rows) ==
  IF v \in rows
  THEN draft' = [draft EXCEPT !.base = v, !.text = "clean"]
       /\ session' = {} /\ hidden' = {}
  ELSE UNCHANGED <<draft, session, hidden>>

\* The definition effect: a new definition replaces the draft and forgets what
\* was promoted and dismissed in this session.
DefinitionEffect(v, rows) ==
  IF v \in rows
  THEN draft' = FreshDraft(v) /\ session' = {} /\ hidden' = {}
  ELSE UNCHANGED <<draft, session, hidden>>

\* The selection becomes template t and version v over the versions rows, and
\* the effects run; renewed: the definitions are new objects.
Select(t, v, rows, renewed) ==
  LET w == VersionFor(t, v, rows)
  IN /\ selectedTemplate' = t
     /\ selectedVersion' = w
     /\ versionsView' = rows
     /\ IF renewed \/ w # selectedVersion
        THEN /\ DefinitionEffect(w, rows)
             /\ FeedbackEffect(w, rows)
        ELSE UNCHANGED <<draft, session, hidden, feedback, feedbackAsks>>
     /\ IF \/ renewed \/ w # selectedVersion
           \/ SavedVersion(t, w, rows) #
              SavedVersion(selectedTemplate, selectedVersion, versionsView)
        THEN DiffEffect(t, w, rows, draft')
        ELSE UNCHANGED <<versionDiff, diffAsks>>

-----------------------------------------------------------------------------
Init ==
  /\ saved = InitialVersions /\ dismissed = {}
  /\ versionsView = {} /\ selectedTemplate = None /\ selectedVersion = None
  /\ draft = FreshDraft(None) /\ session = {} /\ hidden = {}
  /\ feedback = [status |-> "idle", shown |-> {}] /\ feedbackAsks = {}
  /\ versionDiff = None /\ diffAsks = {}
  /\ timerTemplate = None
  /\ poll = [pc |-> "lists", sel |-> None, rows |-> saved]
  /\ saver = IdleRefresh /\ late = IdleLate
  /\ events = 0

-----------------------------------------------------------------------------
(* Refreshing.                                                             *)

\* The interval fires with the closure it was made with.
PollTick ==
  /\ poll.pc = "idle"
  /\ poll' = [pc |-> "lists", sel |-> timerTemplate, rows |-> saved]
  /\ UNCHANGED <<server, selection, editing, saver, late, events>>

\* The versions arrive; those of a template that could not be read are
\* missing.  A caller whose closure holds no template selects the first.  The
\* jobs of the same refresh may change hasActiveJobs and renew the timer.
RefreshArrives(r) ==
  /\ r.pc = "lists"
  /\ timerTemplate' \in {timerTemplate, selectedTemplate}
  /\ \E unread \in SUBSET {TemplateOf[v] : v \in r.rows} :
       LET rows == {v \in r.rows : TemplateOf[v] \notin unread}
           listed == {TemplateOf[v] : v \in r.rows}
       IN Select(IF r.sel = None /\ listed # {} THEN First(listed)
                 ELSE selectedTemplate,
                 selectedVersion, rows, TRUE)

PollArrives ==
  /\ RefreshArrives(poll)
  /\ poll' = IdleRefresh
  /\ UNCHANGED <<server, saver, late, events>>

-----------------------------------------------------------------------------
(* handleCreateTemplate.                                                   *)

\* Saving posts the draft as a new template; a draft whose examples cannot be
\* built is reported and not posted.
SaveSchema ==
  /\ saver.pc = "idle"
  /\ Event
  /\ saver' = IF draft.text = "invalid" THEN saver
              ELSE [IdleRefresh EXCEPT !.pc = "request", !.sel = selectedTemplate]
  /\ UNCHANGED <<server, selection, editing, poll, late>>

\* The server adds the template, and the handler awaits a refresh.
SaveHandled ==
  /\ saver.pc = "request"
  /\ \E v \in Versions \ saved :
       /\ \A w \in saved : TemplateOf[v] # TemplateOf[w]
       /\ saved' = saved \cup {v}
       /\ saver' = [saver EXCEPT !.pc = "lists", !.rows = saved']
  /\ UNCHANGED <<dismissed, selection, editing, poll, late, events>>

SaveRefused ==
  /\ saver.pc = "request"
  /\ saver' = IdleRefresh
  /\ UNCHANGED <<server, selection, editing, poll, late, events>>

SaveArrives ==
  /\ RefreshArrives(saver)
  /\ saver' = IdleRefresh
  /\ UNCHANGED <<server, poll, late, events>>

-----------------------------------------------------------------------------
(* The effects' answers; a failed request shows an error, or nothing.      *)

FeedbackArrives(a) ==
  /\ a \in feedbackAsks
  /\ feedbackAsks' = feedbackAsks \ {a}
  /\ feedback' \in {[status |-> "ready", shown |-> a.open],
                   [status |-> "error", shown |-> {}]}
  /\ UNCHANGED <<server, selection, draft, session, hidden, versionDiff, diffAsks,
                 inFlight, events>>

DiffArrives(a) ==
  /\ a \in diffAsks
  /\ diffAsks' = diffAsks \ {a}
  /\ versionDiff' \in {a, None}
  /\ UNCHANGED <<server, selection, draft, session, hidden, feedback,
                 feedbackAsks, inFlight, events>>

-----------------------------------------------------------------------------
(* The operator.                                                           *)

\* The base schema and version selectors; their lists hold what is in view.
SelectTemplate(t) ==
  /\ t = None \/ Matching(t, versionsView) # {}
  /\ t # selectedTemplate
  /\ Select(t, selectedVersion, versionsView, FALSE)
  /\ UNCHANGED <<server, timerTemplate, inFlight, events>>

SelectVersion(v) ==
  /\ v = None \/ v \in Matching(selectedTemplate, versionsView)
  /\ v # selectedVersion
  /\ Select(selectedTemplate, v, versionsView, FALSE)
  /\ UNCHANGED <<server, timerTemplate, inFlight, events>>

\* Mutant of OpenVersion: the id of the version is taken for its template's.
OpenVersionAsTemplate(v) ==
  /\ v \in versionsView
  /\ v # selectedVersion \/ TemplateOf[v] # selectedTemplate
  /\ Select(v, v, versionsView, FALSE)
  /\ UNCHANGED <<server, timerTemplate, inFlight, events>>

\* openSchemaDraft, and syncJobSelection for a job of version v: both select
\* the version with its template, if it is in view.
OpenVersion(v) ==
  /\ v \in versionsView
  /\ v # selectedVersion \/ TemplateOf[v] # selectedTemplate
  /\ Select(TemplateOf[v], v, versionsView, FALSE)
  /\ UNCHANGED <<server, timerTemplate, inFlight, events>>

\* The draft becomes d, and the diff effect compares it.
SetDraft(d) ==
  /\ d # draft
  /\ draft' = d
  /\ DiffEffect(selectedTemplate, selectedVersion, versionsView, d)
  /\ UNCHANGED <<server, selection, hidden, feedback, feedbackAsks, inFlight,
                 events>>

EditDraft(text) ==
  /\ SetDraft([draft EXCEPT !.text = text])
  /\ UNCHANGED session

\* An example that came from a suggestion is edited in the draft.
ReworkExample(k) ==
  /\ k \in draft.promoted
  /\ SetDraft([draft EXCEPT !.reworked = @ \cup {k}])
  /\ UNCHANGED session

Visible == feedback.shown \ hidden

\* appliedLangExtractSuggestionKeys: promoted in this session, or matched by
\* an example of the draft as it is.
Applied == session \cup (draft.promoted \ draft.reworked)

\* handleApplyLangExtractSuggestion; the button is shown for a suggestion that
\* is not marked as added.
PromoteSuggestion(k) ==
  /\ feedback.status # "error"
  /\ k \in Visible \ Applied
  /\ SetDraft([draft EXCEPT !.promoted = @ \cup {k}, !.reworked = @ \ {k}])
  /\ session' = session \cup {k}

\* handleDismissLangExtractSuggestion: the PUT names the version selected at
\* the click, whatever the suggestion shown belongs to.
DismissSuggestion(k) ==
  /\ late.pc = "idle"
  /\ feedback.status # "error"
  /\ k \in Visible
  /\ selectedVersion # None
  /\ Event
  /\ late' = [IdleLate EXCEPT !.pc = "put", !.version = selectedVersion,
                              !.key = k, !.apply = TRUE]
  /\ UNCHANGED <<server, selection, editing, poll, saver>>

\* The PUT is answered: the key is hidden, and the feedback of the version of
\* the click is fetched again.
DismissAnswered ==
  /\ late.pc = "put"
  /\ dismissed' = IF late.key = late.version THEN dismissed \cup {late.key}
                  ELSE dismissed
  /\ hidden' = hidden \cup {late.key}
  /\ late' = [late EXCEPT !.pc = "feedback",
                          !.open = {late.version} \ dismissed']
  /\ UNCHANGED <<saved, selection, draft, session, feedback, feedbackAsks,
                 versionDiff, diffAsks, poll, saver, events>>

\* submitReview fetches the feedback of the reviewed job's version v and
\* applies it if v was the selected version when the handler was created.
ReviewFetchesFeedback(v) ==
  /\ late.pc = "idle"
  /\ v \in versionsView \cap LangExtract
  /\ Event
  /\ late' = [IdleLate EXCEPT !.pc = "feedback", !.version = v,
                 !.apply = (v = selectedVersion), !.open = Open(v)]
  /\ UNCHANGED <<server, selection, editing, poll, saver>>

\* applyLangExtractFeedback of a handler: no look at the current selection.
LateFeedbackArrives ==
  /\ late.pc = "feedback"
  /\ feedback' = IF late.apply THEN [status |-> "ready", shown |-> late.open]
                 ELSE feedback
  /\ late' = IdleLate
  /\ UNCHANGED <<server, selection, draft, session, hidden, feedbackAsks,
                 versionDiff, diffAsks, poll, saver, events>>

LateFails ==
  /\ late.pc # "idle"
  /\ late' = IdleLate
  /\ UNCHANGED <<server, selection, editing, poll, saver, events>>

-----------------------------------------------------------------------------
Next ==
  \/ PollTick \/ PollArrives
  \/ SaveSchema \/ SaveHandled \/ SaveRefused \/ SaveArrives
  \/ \E a \in feedbackAsks : FeedbackArrives(a)
  \/ \E a \in diffAsks : DiffArrives(a)
  \/ \E t \in TemplateIds : SelectTemplate(t)
  \/ \E v \in VersionIds : SelectVersion(v)
  \/ \E v \in Versions : OpenVersion(v) \/ ReviewFetchesFeedback(v)
  \/ \E text \in {"edited", "invalid"} : EditDraft(text)
  \/ \E k \in Versions :
       ReworkExample(k) \/ PromoteSuggestion(k) \/ DismissSuggestion(k)
  \/ DismissAnswered \/ LateFeedbackArrives \/ LateFails

Spec == Init /\ [][Next]_vars

-----------------------------------------------------------------------------
(* Properties.                                                             *)

TypeOK ==
  /\ saved \subseteq Versions /\ dismissed \subseteq Versions
  /\ versionsView \subseteq Versions
  /\ selectedTemplate \in TemplateIds /\ selectedVersion \in VersionIds
  /\ draft \in Draft
  /\ session \subseteq Versions /\ hidden \subseteq Versions
  /\ feedback \in Feedback /\ feedbackAsks \subseteq Answer
  /\ versionDiff \in Comparison \cup {None, Outdated} /\ diffAsks \subseteq Comparison
  /\ timerTemplate \in TemplateIds
  /\ poll \in Refresh /\ saver \in Refresh /\ late \in Late
  /\ events \in 0..MaxEvents

\* The version a run would use belongs to the schema the page shows as
\* selected, whenever any version of that schema could be read: however polls,
\* a late save and the selectors interleave.
VersionBelongsToTemplate ==
  selectedTemplate # None /\ Matching(selectedTemplate, versionsView) # {} =>
    selectedVersion \in Matching(selectedTemplate, versionsView)

\* The comparison shown, once none is pending, is that of the draft being
\* edited with the version selected: an answer for an earlier draft or version
\* that arrives late is never shown as the current one.
DiffIsCurrent ==
  versionDiff # None /\ diffAsks = {} =>
    versionDiff =
      [version |-> selectedVersion,
       payload |-> DraftDefinition(selectedVersion, versionsView, draft)]

\* A suggestion that is in the draft is marked as added, even after the example
\* was edited or the feedback was fetched again: it is never offered for a
\* second promotion.
PromotedIsMarked == draft.promoted \subseteq Applied

\* The suggestions of the selected version, or none.
FeedbackIsOwn ==
  feedback.status = "ready" => feedback.shown \subseteq {selectedVersion}

\* The step in which a handler shows feedback that it fetched for a version which
\* is no longer the selected one.
LateFeedback ==
  late.apply /\ late.version # selectedVersion /\ LateFeedbackArrives

\* Suggestions of another version come to be shown as ready only in the step in
\* which a handler applies its own feedback after the selection moved; the answers
\* of the feedback effect never do so, whatever handler is pending, since its
\* cleanup cancels the older request.
FeedbackMixesOnlyByHandler ==
  [][FeedbackIsOwn /\ ~FeedbackIsOwn' => LateFeedback]_vars

=============================================================================
