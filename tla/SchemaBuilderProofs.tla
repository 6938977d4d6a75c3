-------------------------- MODULE SchemaBuilderProofs --------------------------
(***************************************************************************)
(* Proofs about SchemaBuilder, for any versions, templates and bounds.     *)
(***************************************************************************)
EXTENDS SchemaBuilder, NatSets

\* The comparison of what is being edited now.
Current ==
  [version |-> selectedVersion,
   payload |-> DraftDefinition(selectedVersion, versionsView, draft)]

\* The strengthening.  A comparison that is under way was asked for what is
\* being edited now, and an outdated one is shown only while one is under way:
\* this is what the cleanup of the diff effect is for.
DiffInv ==
  /\ diffAsks \subseteq {Current}
  /\ versionDiff \in {None, Outdated, Current}
  /\ versionDiff = Outdated => diffAsks # {}

\* Feedback under way was asked for the version selected now.
FeedbackInv ==
  \A a \in feedbackAsks : a.version = selectedVersion /\ a.open \subseteq {a.version}

\* What the draft took from suggestions was promoted in this session: the
\* session's keys and the draft are only ever reset together.
PromotedInv == draft.promoted \subseteq session

SelectionType ==
  /\ versionsView \subseteq Versions
  /\ selectedTemplate \in TemplateIds /\ selectedVersion \in VersionIds

EditingType ==
  /\ draft \in Draft
  /\ session \subseteq Versions /\ hidden \subseteq Versions
  /\ feedback \in Feedback /\ feedbackAsks \subseteq Answer
  /\ versionDiff \in Comparison \cup {None, Outdated} /\ diffAsks \subseteq Comparison

\* A dismissal under way names a suggestion and a version.
DismissalNamesVersion(l) == l.pc = "put" => {l.key, l.version} \subseteq Versions

OtherType ==
  /\ saved \subseteq Versions /\ dismissed \subseteq Versions
  /\ timerTemplate \in TemplateIds
  /\ poll \in Refresh /\ saver \in Refresh /\ late \in Late
  /\ DismissalNamesVersion(late)
  /\ events \in 0..MaxEvents

\* What the page shows and edits is consistent.
PageInv ==
  /\ SelectionType /\ EditingType
  /\ VersionBelongsToTemplate /\ DiffInv /\ FeedbackInv /\ PromotedInv

SchemaInv == PageInv /\ OtherType

page == <<versionsView, selectedTemplate, selectedVersion, editing>>

-----------------------------------------------------------------------------
(* The operators.                                                           *)

\* The newest of some versions, and the first of some templates, is one of
\* them.
LEMMA NewestIn ==
    ASSUME NEW S \in SUBSET Versions, S # {}
    PROVE  Newest(S) \in S
<1>1. PICK bound \in Versions : \A v \in Versions : v <= bound
  BY VersionsAssumption
<1>2. S \in SUBSET Nat /\ bound \in Nat /\ \A k \in S : k <= bound
  BY <1>1, VersionsAssumption
<1>3. \E j \in S : \A k \in S : k <= j
  BY <1>2, LargestExists
<1>. QED BY <1>3 DEF Newest

\* The first of a set of templates is one of them.
LEMMA FirstIn ==
    ASSUME NEW S \in SUBSET Templates, S # {}
    PROVE  First(S) \in S
<1>1. S \in SUBSET Nat
  BY VersionsAssumption DEF Templates
<1>2. \E j \in S : \A k \in S : j <= k
  BY <1>1, SmallestExists
<1>. QED BY <1>2 DEF First

\* The version effect selects a version of the template, if any is listed.
LEMMA VersionForBelongs ==
    ASSUME NEW t \in TemplateIds, NEW v \in VersionIds, NEW rows \in SUBSET Versions
    PROVE  /\ VersionFor(t, v, rows) \in VersionIds
           /\ t # None /\ Matching(t, rows) # {} =>
                VersionFor(t, v, rows) \in Matching(t, rows)
<1>1. Matching(t, rows) \in SUBSET Versions
  BY DEF Matching
<1>2. Matching(t, rows) # {} => Newest(Matching(t, rows)) \in Matching(t, rows)
  BY <1>1, NewestIn
<1>. QED BY <1>1, <1>2 DEF VersionFor, VersionIds

\* A draft and what it is compared with are well formed.
LEMMA FreshDraftType ==
    ASSUME NEW v \in VersionIds
    PROVE  FreshDraft(v) \in Draft /\ FreshDraft(v).promoted = {}
  BY DEF FreshDraft, Draft

\* What is sent for a draft is a payload.
LEMMA DraftDefinitionType ==
    ASSUME NEW v \in VersionIds, NEW rows, NEW d \in Draft
    PROVE  DraftDefinition(v, rows, d) \in Payload
<1>1. (IF v \in rows THEN v ELSE None) \in VersionIds
  BY DEF VersionIds
<1>2. (IF d.text = "invalid" THEN None ELSE d) \in Draft \cup {None}
  OBVIOUS
<1>. QED BY <1>1, <1>2 DEF DraftDefinition, Payload

\* After the diff effect ran for what is now selected and edited, no older
\* comparison is under way or shown as current.
LEMMA DiffEffectIsCurrent ==
    ASSUME NEW t \in TemplateIds, NEW v \in VersionIds,
           NEW rows \in SUBSET Versions, NEW d \in Draft,
           DiffEffect(t, v, rows, d),
           selectedVersion' = v, versionsView' = rows, draft' = d
    PROVE  /\ DiffInv'
           /\ versionDiff' \in Comparison \cup {None, Outdated}
           /\ diffAsks' \subseteq Comparison
<1>. DEFINE c == [version |-> v, payload |-> DraftDefinition(v, rows, d)]
<1>1. Current' = c
  BY DEF Current, DraftDefinition
<1>2. SavedVersion(t, v, rows) # None => c \in Comparison
  <2>1. SavedVersion(t, v, rows) # None => v \in Versions
    BY DEF SavedVersion, Matching
  <2>2. DraftDefinition(v, rows, d) \in Payload
    BY DraftDefinitionType
  <2>. QED BY <2>1, <2>2 DEF Comparison
<1>3. CASE SavedVersion(t, v, rows) = None
  <2>1. versionDiff' = None /\ diffAsks' = {}
    BY <1>3 DEF DiffEffect
  <2>. QED BY <2>1, NoneAssumption DEF DiffInv
<1>4. CASE SavedVersion(t, v, rows) # None
  <2>1. diffAsks' = {c} /\ versionDiff' \in {None, Outdated}
    BY <1>4 DEF DiffEffect
  <2>. QED BY <2>1, <1>1, <1>2, <1>4 DEF DiffInv
<1>. QED BY <1>3, <1>4

\* Selecting keeps the page consistent: of the three effects, each runs
\* whenever what it depends on has changed.
LEMMA SelectKeepsPage ==
    ASSUME PageInv, dismissed \subseteq Versions,
           NEW t \in TemplateIds, NEW v \in VersionIds,
           NEW rows \in SUBSET Versions, NEW renewed \in BOOLEAN,
           renewed \/ rows = versionsView,
           Select(t, v, rows, renewed)
    PROVE  PageInv'
<1>. DEFINE w == VersionFor(t, v, rows)
<1>. USE DEF PageInv, EditingType
<1>1. w \in VersionIds
  BY VersionForBelongs
<1>2. /\ selectedTemplate' = t /\ selectedVersion' = w /\ versionsView' = rows
      /\ IF renewed \/ w # selectedVersion
         THEN DefinitionEffect(w, rows) /\ FeedbackEffect(w, rows)
         ELSE UNCHANGED <<draft, session, hidden, feedback, feedbackAsks>>
      /\ IF \/ renewed \/ w # selectedVersion
            \/ SavedVersion(t, w, rows) #
               SavedVersion(selectedTemplate, selectedVersion, versionsView)
         THEN DiffEffect(t, w, rows, draft')
         ELSE UNCHANGED <<versionDiff, diffAsks>>
  BY DEF Select
<1>3. SelectionType'
  BY <1>1, <1>2 DEF SelectionType
<1>4. VersionBelongsToTemplate'
  BY <1>2, VersionForBelongs DEF VersionBelongsToTemplate, Matching
<1>. HIDE DEF w
<1>5. /\ draft' \in Draft /\ session' \subseteq Versions /\ hidden' \subseteq Versions
      /\ PromotedInv'
  <2>1. CASE UNCHANGED <<draft, session, hidden>>
    BY <2>1 DEF PromotedInv
  <2>2. CASE draft' = FreshDraft(w) /\ session' = {} /\ hidden' = {}
    BY <2>2, <1>1, FreshDraftType DEF PromotedInv
  <2>. QED BY <1>2, <2>1, <2>2 DEF DefinitionEffect
<1>6. feedback' \in Feedback /\ feedbackAsks' \subseteq Answer /\ FeedbackInv'
  <2>1. CASE UNCHANGED <<feedback, feedbackAsks>> /\ w = selectedVersion
    BY <2>1, <1>2 DEF FeedbackInv
  <2>2. CASE FeedbackEffect(w, rows)
    <3>1. CASE w \in rows /\ w \in LangExtract
      <4>1. /\ feedback' = [feedback EXCEPT !.status = "loading"]
            /\ feedbackAsks' = {[version |-> w, open |-> Open(w)]}
        BY <2>2, <3>1 DEF FeedbackEffect
      <4>2. Open(w) \subseteq {w}
        BY DEF Open
      <4>3. [version |-> w, open |-> Open(w)] \in Answer
        BY <4>2, <3>1 DEF Answer
      <4>. QED BY <4>1, <4>2, <4>3, <1>2 DEF Feedback, FeedbackInv
    <3>2. CASE ~(w \in rows /\ w \in LangExtract)
      BY <2>2, <3>2 DEF FeedbackEffect, Feedback, FeedbackInv
    <3>. QED BY <3>1, <3>2
  <2>. QED BY <1>2, <2>1, <2>2
<1>7. /\ versionDiff' \in Comparison \cup {None, Outdated}
      /\ diffAsks' \subseteq Comparison /\ DiffInv'
  <2>1. CASE DiffEffect(t, w, rows, draft')
    BY <2>1, <1>1, <1>2, <1>5, DiffEffectIsCurrent
  <2>2. CASE /\ UNCHANGED <<versionDiff, diffAsks, draft>>
             /\ w = selectedVersion /\ rows = versionsView
    <3>1. Current' = Current
      BY <2>2, <1>2 DEF Current, DraftDefinition
    <3>. QED BY <2>2, <3>1 DEF DiffInv
  <2>. QED BY <1>2, <2>1, <2>2
<1>. QED BY <1>3, <1>4, <1>5, <1>6, <1>7

\* A step that leaves the page alone leaves it consistent.
LEMMA StutterKeepsPage ==
    ASSUME PageInv, UNCHANGED page
    PROVE  PageInv'
<1>1. Current' = Current
  BY DEF page, editing, Current, DraftDefinition
<1>2. SelectionType' /\ EditingType'
  BY DEF PageInv, page, editing, SelectionType, EditingType
<1>3. VersionBelongsToTemplate'
  BY DEF PageInv, page, VersionBelongsToTemplate, Matching
<1>4. DiffInv'
  BY <1>1 DEF PageInv, page, editing, DiffInv
<1>5. FeedbackInv' /\ PromotedInv'
  BY DEF PageInv, page, editing, FeedbackInv, PromotedInv
<1>. QED BY <1>2, <1>3, <1>4, <1>5 DEF PageInv

\* Editing the draft runs the diff effect; the new draft must be well formed
\* and hold promoted suggestions of this session only.
LEMMA SetDraftKeepsPage ==
    ASSUME PageInv, NEW d \in Draft, SetDraft(d),
           session' \subseteq Versions, d.promoted \subseteq session'
    PROVE  PageInv'
<1>1. /\ draft' = d
      /\ DiffEffect(selectedTemplate, selectedVersion, versionsView, d)
      /\ UNCHANGED <<versionsView, selectedTemplate, selectedVersion, hidden,
                     feedback, feedbackAsks>>
  BY DEF SetDraft, selection
<1>2. SelectionType' /\ VersionBelongsToTemplate'
  BY <1>1 DEF PageInv, SelectionType, VersionBelongsToTemplate, Matching
<1>3. /\ DiffInv' /\ versionDiff' \in Comparison \cup {None, Outdated}
      /\ diffAsks' \subseteq Comparison
  BY <1>1, DiffEffectIsCurrent DEF PageInv, SelectionType
<1>4. EditingType'
  BY <1>1, <1>3 DEF PageInv, EditingType
<1>5. FeedbackInv' /\ PromotedInv'
  BY <1>1 DEF PageInv, FeedbackInv, PromotedInv
<1>. QED BY <1>2, <1>3, <1>4, <1>5 DEF PageInv

\* New feedback, or a longer list of hidden suggestions, disturbs nothing else.
LEMMA FeedbackKeepsPage ==
    ASSUME PageInv, feedback' \in Feedback, hidden' \subseteq Versions,
           feedbackAsks' \subseteq feedbackAsks,
           UNCHANGED <<versionsView, selectedTemplate, selectedVersion, draft,
                       session, versionDiff, diffAsks>>
    PROVE  PageInv'
<1>1. Current' = Current
  BY DEF Current, DraftDefinition
<1>2. SelectionType' /\ EditingType'
  BY DEF PageInv, SelectionType, EditingType
<1>3. VersionBelongsToTemplate'
  BY DEF PageInv, VersionBelongsToTemplate, Matching
<1>4. DiffInv'
  BY <1>1 DEF PageInv, DiffInv
<1>5. FeedbackInv' /\ PromotedInv'
  BY DEF PageInv, FeedbackInv, PromotedInv
<1>. QED BY <1>2, <1>3, <1>4, <1>5 DEF PageInv

\* A refresh selects among the versions it brought.
LEMMA RefreshKeepsPage ==
    ASSUME SchemaInv, NEW r \in Refresh, RefreshArrives(r)
    PROVE  PageInv' /\ timerTemplate' \in TemplateIds
<1>1. PICK unread \in SUBSET {TemplateOf[v] : v \in r.rows} :
        LET rows == {v \in r.rows : TemplateOf[v] \notin unread}
            listed == {TemplateOf[v] : v \in r.rows}
        IN Select(IF r.sel = None /\ listed # {} THEN First(listed)
                  ELSE selectedTemplate,
                  selectedVersion, rows, TRUE)
  BY DEF RefreshArrives
<1>. DEFINE rows == {v \in r.rows : TemplateOf[v] \notin unread}
            listed == {TemplateOf[v] : v \in r.rows}
            t == IF r.sel = None /\ listed # {} THEN First(listed)
                 ELSE selectedTemplate
<1>2. Select(t, selectedVersion, rows, TRUE)
  BY <1>1
<1>3. rows \in SUBSET Versions /\ listed \in SUBSET Templates
  BY DEF Refresh, Templates
<1>4. t \in TemplateIds
  <2>1. listed # {} => First(listed) \in Templates
    BY <1>3, FirstIn
  <2>. QED BY <2>1 DEF SchemaInv, PageInv, SelectionType, TemplateIds
<1>. HIDE DEF rows, t
<1>5. PageInv'
  BY <1>2, <1>3, <1>4, SelectKeepsPage
     DEF SchemaInv, PageInv, SelectionType, OtherType
<1>6. timerTemplate' \in TemplateIds
  BY DEF RefreshArrives, SchemaInv, PageInv, SelectionType, OtherType
<1>. QED BY <1>5, <1>6

\* An action that changes neither the page nor the timer's closure.
LEMMA OtherKeeps ==
    ASSUME SchemaInv, UNCHANGED page, UNCHANGED timerTemplate,
           saved' \subseteq Versions, dismissed' \subseteq Versions,
           poll' \in Refresh, saver' \in Refresh, late' \in Late,
           DismissalNamesVersion(late'), events' \in 0..MaxEvents
    PROVE  SchemaInv'
  BY StutterKeepsPage DEF SchemaInv, OtherType, DismissalNamesVersion

\* Counting an event stays within its bound.
LEMMA EventType ==
    ASSUME OtherType, Event
    PROVE  events' \in 0..MaxEvents
  BY BoundsAssumption DEF OtherType, Event

-----------------------------------------------------------------------------
(* The invariant.                                                           *)

\* The initial states.
LEMMA InitSchema == Init => SchemaInv
<1>. SUFFICES ASSUME Init PROVE SchemaInv
  OBVIOUS
<1>. USE DEF Init
<1>1. SelectionType
  BY DEF SelectionType, TemplateIds, VersionIds
<1>2. EditingType /\ PromotedInv
  <2>1. draft \in Draft /\ draft.promoted = {}
    BY FreshDraftType DEF VersionIds
  <2>2. feedback \in Feedback
    BY DEF Feedback
  <2>. QED BY <2>1, <2>2 DEF EditingType, PromotedInv
<1>3. VersionBelongsToTemplate /\ DiffInv /\ FeedbackInv
  BY NoneAssumption DEF VersionBelongsToTemplate, DiffInv, FeedbackInv
<1>4. OtherType
  <2>1. saved \subseteq Versions
    BY VersionsAssumption
  <2>2. poll \in Refresh /\ saver \in Refresh /\ late \in Late
    BY <2>1 DEF Refresh, Late, IdleRefresh, IdleLate, TemplateIds, VersionIds
  <2>3. DismissalNamesVersion(late)
    BY DEF IdleLate, DismissalNamesVersion
  <2>. QED BY <2>1, <2>2, <2>3, BoundsAssumption DEF OtherType, TemplateIds
<1>. QED BY <1>1, <1>2, <1>3, <1>4 DEF SchemaInv, PageInv

\* Every step keeps the invariant.
LEMMA NextSchema == SchemaInv /\ [Next]_vars => SchemaInv'
<1>. SUFFICES ASSUME SchemaInv, [Next]_vars PROVE SchemaInv'
  OBVIOUS
<1>. USE DEF server, inFlight, selection
\* What most actions leave alone.
<1>a. SelectionType /\ EditingType /\ OtherType /\ PageInv
  BY DEF SchemaInv, PageInv
<1>b. IdleRefresh \in Refresh /\ IdleLate \in Late /\ DismissalNamesVersion(IdleLate)
  BY DEF IdleRefresh, IdleLate, Refresh, Late, TemplateIds, VersionIds,
         DismissalNamesVersion
<1>1. CASE PollTick
  <2>1. poll' \in Refresh
    BY <1>1, <1>a DEF PollTick, OtherType, Refresh
  <2>. QED BY <1>1, <2>1, <1>a, OtherKeeps DEF PollTick, page, OtherType
<1>2. CASE PollArrives
  <2>1. RefreshArrives(poll) /\ poll \in Refresh
    BY <1>2, <1>a DEF PollArrives, OtherType
  <2>2. PageInv' /\ timerTemplate' \in TemplateIds
    BY <2>1, RefreshKeepsPage
  <2>. QED BY <1>2, <2>2, <1>a, <1>b DEF PollArrives, SchemaInv, OtherType
<1>3. CASE SaveSchema
  <2>1. saver' \in Refresh
    <3>1. [IdleRefresh EXCEPT !.pc = "request", !.sel = selectedTemplate] \in Refresh
      BY <1>a DEF IdleRefresh, Refresh, SelectionType
    <3>. QED BY <1>3, <3>1, <1>a DEF SaveSchema, OtherType
  <2>2. events' \in 0..MaxEvents
    BY <1>3, <1>a, EventType DEF SaveSchema
  <2>. QED BY <1>3, <2>1, <2>2, <1>a, OtherKeeps DEF SaveSchema, page, OtherType
<1>4. CASE SaveHandled
  <2>1. PICK v \in Versions \ saved :
          /\ saved' = saved \cup {v}
          /\ saver' = [saver EXCEPT !.pc = "lists", !.rows = saved']
    BY <1>4 DEF SaveHandled
  <2>2. saved' \subseteq Versions
    BY <2>1, <1>a DEF OtherType
  <2>3. saver' \in Refresh
    BY <2>1, <2>2, <1>a DEF OtherType, Refresh
  <2>. QED BY <1>4, <2>2, <2>3, <1>a, OtherKeeps DEF SaveHandled, page, OtherType
<1>5. CASE SaveRefused
  BY <1>5, <1>a, <1>b, OtherKeeps DEF SaveRefused, page, OtherType
<1>6. CASE SaveArrives
  <2>1. RefreshArrives(saver) /\ saver \in Refresh
    BY <1>6, <1>a DEF SaveArrives, OtherType
  <2>2. PageInv' /\ timerTemplate' \in TemplateIds
    BY <2>1, RefreshKeepsPage
  <2>. QED BY <1>6, <2>2, <1>a, <1>b DEF SaveArrives, SchemaInv, OtherType
<1>7. CASE \E a \in feedbackAsks : FeedbackArrives(a)
  <2>1. PICK a \in feedbackAsks : FeedbackArrives(a)
    BY <1>7
  <2>2. feedback' \in Feedback
    BY <2>1, <1>a DEF FeedbackArrives, EditingType, Feedback, Answer
  <2>3. PageInv'
    BY <2>1, <2>2, <1>a, FeedbackKeepsPage DEF FeedbackArrives, EditingType
  <2>. QED BY <2>1, <2>3, <1>a DEF FeedbackArrives, SchemaInv, OtherType
<1>8. CASE \E a \in diffAsks : DiffArrives(a)
  <2>1. PICK a \in diffAsks : DiffArrives(a)
    BY <1>8
  <2>2. Current' = Current /\ a = Current
    BY <2>1, <1>a DEF DiffArrives, Current, DraftDefinition, PageInv, DiffInv
  <2>3. DiffInv'
    BY <2>1, <2>2, <1>a, NoneAssumption DEF DiffArrives, PageInv, DiffInv, EditingType
  <2>4. EditingType' /\ SelectionType'
    BY <2>1, <1>a DEF DiffArrives, EditingType, SelectionType
  <2>5. VersionBelongsToTemplate' /\ FeedbackInv' /\ PromotedInv'
    BY <2>1, <1>a
       DEF DiffArrives, PageInv, VersionBelongsToTemplate, Matching, FeedbackInv,
           PromotedInv
  <2>. QED BY <2>1, <2>3, <2>4, <2>5, <1>a DEF DiffArrives, SchemaInv, PageInv, OtherType
<1>9. CASE \E t \in TemplateIds : SelectTemplate(t)
  <2>1. PICK t \in TemplateIds : SelectTemplate(t)
    BY <1>9
  <2>2. PageInv'
    BY <2>1, <1>a, SelectKeepsPage DEF SelectTemplate, SelectionType, OtherType
  <2>. QED BY <2>1, <2>2, <1>a DEF SelectTemplate, SchemaInv, OtherType
<1>10. CASE \E v \in VersionIds : SelectVersion(v)
  <2>1. PICK v \in VersionIds : SelectVersion(v)
    BY <1>10
  <2>2. PageInv'
    BY <2>1, <1>a, SelectKeepsPage DEF SelectVersion, SelectionType, OtherType
  <2>. QED BY <2>1, <2>2, <1>a DEF SelectVersion, SchemaInv, OtherType
<1>11. CASE \E v \in Versions : OpenVersion(v)
  <2>1. PICK v \in Versions : OpenVersion(v)
    BY <1>11
  <2>2. TemplateOf[v] \in TemplateIds /\ v \in VersionIds
    BY DEF Templates, TemplateIds, VersionIds
  <2>3. PageInv'
    BY <2>1, <2>2, <1>a, SelectKeepsPage DEF OpenVersion, SelectionType, OtherType
  <2>. QED BY <2>1, <2>3, <1>a DEF OpenVersion, SchemaInv, OtherType
<1>12. CASE \E v \in Versions : ReviewFetchesFeedback(v)
  <2>1. PICK v \in Versions : ReviewFetchesFeedback(v)
    BY <1>12
  <2>2. Open(v) \subseteq Versions
    BY DEF Open
  <2>3. late' \in Late /\ DismissalNamesVersion(late')
    BY <2>1, <2>2 DEF ReviewFetchesFeedback, IdleLate, Late, VersionIds,
                      DismissalNamesVersion
  <2>4. events' \in 0..MaxEvents
    BY <2>1, <1>a, EventType DEF ReviewFetchesFeedback
  <2>. QED BY <2>1, <2>3, <2>4, <1>a, OtherKeeps
         DEF ReviewFetchesFeedback, page, OtherType
<1>13. CASE \E text \in {"edited", "invalid"} : EditDraft(text)
  <2>1. PICK text \in {"edited", "invalid"} : EditDraft(text)
    BY <1>13
  <2>. DEFINE d == [draft EXCEPT !.text = text]
  <2>2. d \in Draft /\ d.promoted = draft.promoted
    BY <1>a DEF EditingType, Draft
  <2>3. SetDraft(d) /\ UNCHANGED session
    BY <2>1 DEF EditDraft
  <2>. HIDE DEF d
  <2>4. PageInv'
    BY <2>2, <2>3, <1>a, SetDraftKeepsPage DEF PageInv, PromotedInv, EditingType
  <2>. QED BY <2>3, <2>4, <1>a DEF SetDraft, SchemaInv, OtherType
<1>14. CASE \E k \in Versions : ReworkExample(k)
  <2>1. PICK k \in Versions : ReworkExample(k)
    BY <1>14
  <2>. DEFINE d == [draft EXCEPT !.reworked = @ \cup {k}]
  <2>2. d \in Draft /\ d.promoted = draft.promoted
    BY <1>a DEF EditingType, Draft
  <2>3. SetDraft(d) /\ UNCHANGED session
    BY <2>1 DEF ReworkExample
  <2>. HIDE DEF d
  <2>4. PageInv'
    BY <2>2, <2>3, <1>a, SetDraftKeepsPage DEF PageInv, PromotedInv, EditingType
  <2>. QED BY <2>3, <2>4, <1>a DEF SetDraft, SchemaInv, OtherType
<1>15. CASE \E k \in Versions : PromoteSuggestion(k)
  <2>1. PICK k \in Versions : PromoteSuggestion(k)
    BY <1>15
  <2>. DEFINE d == [draft EXCEPT !.promoted = @ \cup {k}, !.reworked = @ \ {k}]
  <2>2. d \in Draft /\ d.promoted = draft.promoted \cup {k}
    BY <1>a DEF EditingType, Draft
  <2>3. SetDraft(d) /\ session' = session \cup {k}
    BY <2>1 DEF PromoteSuggestion
  <2>. HIDE DEF d
  <2>4. PageInv'
    BY <2>2, <2>3, <1>a, SetDraftKeepsPage DEF PageInv, PromotedInv, EditingType
  <2>. QED BY <2>3, <2>4, <1>a DEF SetDraft, SchemaInv, OtherType
<1>16. CASE \E k \in Versions : DismissSuggestion(k)
  <2>1. PICK k \in Versions : DismissSuggestion(k)
    BY <1>16
  <2>2. late' \in Late /\ DismissalNamesVersion(late')
    BY <2>1, <1>a DEF DismissSuggestion, IdleLate, Late, SelectionType, VersionIds,
                      DismissalNamesVersion
  <2>3. events' \in 0..MaxEvents
    BY <2>1, <1>a, EventType DEF DismissSuggestion
  <2>. QED BY <2>1, <2>2, <2>3, <1>a, OtherKeeps
         DEF DismissSuggestion, page, OtherType
<1>17. CASE DismissAnswered
  <2>1. late.pc = "put" /\ late.key \in Versions /\ late.version \in Versions
    BY <1>17, <1>a DEF DismissAnswered, OtherType, DismissalNamesVersion
  <2>2. dismissed' \subseteq Versions /\ hidden' \subseteq Versions
    BY <1>17, <2>1, <1>a DEF DismissAnswered, OtherType, EditingType
  <2>3. late' \in Late /\ DismissalNamesVersion(late')
    BY <1>17, <2>1, <1>a DEF DismissAnswered, OtherType, Late, DismissalNamesVersion
  <2>4. PageInv'
    BY <1>17, <2>2, <1>a, FeedbackKeepsPage DEF DismissAnswered, EditingType
  <2>. QED BY <1>17, <2>2, <2>3, <2>4, <1>a DEF DismissAnswered, SchemaInv, OtherType
<1>18. CASE LateFeedbackArrives
  <2>1. feedback' \in Feedback
    BY <1>18, <1>a DEF LateFeedbackArrives, OtherType, EditingType, Late, Feedback
  <2>2. PageInv'
    BY <1>18, <2>1, <1>a, FeedbackKeepsPage DEF LateFeedbackArrives, EditingType
  <2>. QED BY <1>18, <2>2, <1>a, <1>b DEF LateFeedbackArrives, SchemaInv, OtherType
<1>19. CASE LateFails
  BY <1>19, <1>a, <1>b, OtherKeeps DEF LateFails, page, OtherType
<1>20. CASE UNCHANGED vars
  BY <1>20, <1>a, OtherKeeps DEF vars, page, OtherType
<1>. QED
  BY <1>1, <1>2, <1>3, <1>4, <1>5, <1>6, <1>7, <1>8, <1>9, <1>10, <1>11, <1>12,
     <1>13, <1>14, <1>15, <1>16, <1>17, <1>18, <1>19, <1>20 DEF Next

-----------------------------------------------------------------------------
(* The theorems.                                                            *)

\* The selection, the draft, the suggestions, the comparison and the requests in
\* flight of the schema builder fit each other after every render (App.tsx).
THEOREM SchemaInvariant == Spec => []SchemaInv
<1>. QED BY InitSchema, NextSchema, PTL DEF Spec

\* Types: selections, drafts, comparisons and requests are what they should be.
THEOREM TypesCorrect == Spec => []TypeOK
<1>1. SchemaInv => TypeOK
  BY DEF SchemaInv, PageInv, SelectionType, EditingType, OtherType, TypeOK
<1>. QED BY <1>1, SchemaInvariant, PTL

\* However refreshes, late saves and selectors interleave, the version selected
\* is one of the template selected.
THEOREM VersionAlwaysBelongs == Spec => []VersionBelongsToTemplate
<1>1. SchemaInv => VersionBelongsToTemplate
  BY DEF SchemaInv, PageInv
<1>. QED BY <1>1, SchemaInvariant, PTL

\* The comparison shown when none is pending is the one of the current draft.
THEOREM DiffAlwaysCurrent == Spec => []DiffIsCurrent
<1>1. SchemaInv => DiffIsCurrent
  BY DEF SchemaInv, PageInv, DiffInv, DiffIsCurrent, Current
<1>. QED BY <1>1, SchemaInvariant, PTL

\* A suggestion promoted into the draft stays marked as added while it is there
\* (promotedFeedbackKeys), so it is not offered twice.
THEOREM PromotedAlwaysMarked == Spec => []PromotedIsMarked
<1>1. SchemaInv => PromotedIsMarked
  BY DEF SchemaInv, PageInv, PromotedInv, PromotedIsMarked, Applied
<1>. QED BY <1>1, SchemaInvariant, PTL

\* A handler holds feedback of the version it fetched it for and of no other.
LateInv == late.open \subseteq {late.version}

LEMMA NextLate == SchemaInv /\ LateInv /\ [Next]_vars => LateInv'
<1>. SUFFICES ASSUME SchemaInv, LateInv, [Next]_vars PROVE LateInv'
  OBVIOUS
<1>1. late \in Late
  BY DEF SchemaInv, OtherType
<1>2. CASE UNCHANGED late
  BY <1>2 DEF LateInv
<1>3. CASE \E k \in Versions : DismissSuggestion(k)
  BY <1>3 DEF DismissSuggestion, LateInv, IdleLate
<1>4. CASE DismissAnswered
  <2>. DEFINE o == {late.version} \ dismissed'
  <2>1. late' = [late EXCEPT !.pc = "feedback", !.open = o] /\ o \subseteq {late.version}
    BY <1>4 DEF DismissAnswered
  <2>. HIDE DEF o
  <2>. QED BY <1>1, <2>1 DEF Late, LateInv
<1>5. CASE \E v \in Versions : ReviewFetchesFeedback(v)
  BY <1>5 DEF ReviewFetchesFeedback, LateInv, IdleLate, Open
<1>6. CASE LateFeedbackArrives \/ LateFails
  BY <1>6 DEF LateFeedbackArrives, LateFails, LateInv, IdleLate
<1>. QED
  BY <1>2, <1>3, <1>4, <1>5, <1>6
     DEF Next, vars, inFlight, PollTick, PollArrives, SaveSchema, SaveHandled, SaveRefused,
         SaveArrives, FeedbackArrives, DiffArrives, SelectTemplate, SelectVersion,
         OpenVersion, EditDraft, SetDraft, ReworkExample, PromoteSuggestion

\* The feedback shown as ready stays that of the selected version in every step
\* but the one in which a handler's late answer is applied.
LEMMA FeedbackStep ==
    ASSUME SchemaInv, LateInv, [Next]_vars, FeedbackIsOwn, ~FeedbackIsOwn'
    PROVE  LateFeedback
<1>. USE DEF SchemaInv, PageInv
<1>a. feedback' # feedback \/ selectedVersion' # selectedVersion
  BY DEF FeedbackIsOwn
<1>b. feedback' # feedback \/ ~UNCHANGED selection
  BY <1>a DEF selection
<1>1. ASSUME NEW t, NEW v, NEW rows, NEW renewed, Select(t, v, rows, renewed)
      PROVE  FALSE
  <2>. DEFINE w == VersionFor(t, v, rows)
  <2>1. CASE FeedbackEffect(w, rows)
    BY <2>1 DEF FeedbackEffect, FeedbackIsOwn, EditingType, Feedback
  <2>2. CASE UNCHANGED feedback /\ w = selectedVersion
    BY <2>2, <1>1, <1>a DEF Select
  <2>. QED BY <1>1, <2>1, <2>2 DEF Select
<1>2. ASSUME NEW r, RefreshArrives(r) PROVE FALSE
  BY <1>1, <1>2 DEF RefreshArrives
<1>3. CASE \E a \in feedbackAsks : FeedbackArrives(a)
  BY <1>3 DEF FeedbackArrives, FeedbackInv, FeedbackIsOwn, selection
<1>4. CASE LateFeedbackArrives
  <2>1. late.apply
    BY <1>4, <1>b DEF LateFeedbackArrives
  <2>2. feedback'.shown = late.open /\ selectedVersion' = selectedVersion
    BY <1>4, <2>1 DEF LateFeedbackArrives, selection
  <2>3. late.version # selectedVersion
    BY <2>2 DEF LateInv, FeedbackIsOwn
  <2>. QED BY <1>4, <2>1, <2>3 DEF LateFeedback
<1>5. CASE PollArrives \/ SaveArrives
  BY <1>5, <1>2 DEF PollArrives, SaveArrives
<1>6. CASE \/ \E t \in TemplateIds : SelectTemplate(t)
           \/ \E v \in VersionIds : SelectVersion(v)
           \/ \E v \in Versions : OpenVersion(v)
  BY <1>6, <1>1 DEF SelectTemplate, SelectVersion, OpenVersion
<1>7. CASE UNCHANGED vars
  BY <1>7, <1>b DEF vars, editing
<1>8. CASE PollTick \/ SaveSchema \/ SaveHandled \/ SaveRefused
  BY <1>8, <1>b DEF PollTick, SaveSchema, SaveHandled, SaveRefused, editing
<1>9. CASE \E a \in diffAsks : DiffArrives(a)
  BY <1>9, <1>b DEF DiffArrives
<1>10. ASSUME NEW d, SetDraft(d) PROVE FALSE
  BY <1>10, <1>b DEF SetDraft
<1>11. CASE \/ \E text \in {"edited", "invalid"} : EditDraft(text)
            \/ \E k \in Versions : ReworkExample(k) \/ PromoteSuggestion(k)
  BY <1>11, <1>10 DEF EditDraft, ReworkExample, PromoteSuggestion
<1>12. CASE \/ \E v \in Versions : ReviewFetchesFeedback(v)
            \/ \E k \in Versions : DismissSuggestion(k)
            \/ DismissAnswered \/ LateFails
  BY <1>12, <1>b DEF ReviewFetchesFeedback, DismissSuggestion, DismissAnswered,
                     LateFails, editing
<1>. QED BY <1>3, <1>4, <1>5, <1>6, <1>7, <1>8, <1>9, <1>11, <1>12 DEF Next

\* FeedbackMixesOnlyByHandler: feedback of one version comes to be shown beside
\* another only in the step in which a handler (dismissal, submitReview) applies the
\* feedback it fetched for a version that is no longer selected.
THEOREM FeedbackMixesOnlyLate == Spec => FeedbackMixesOnlyByHandler
<1>1. Init => LateInv
  BY DEF Init, LateInv, IdleLate
<1>2. SchemaInv /\ LateInv /\ [Next]_vars =>
        [FeedbackIsOwn /\ ~FeedbackIsOwn' => LateFeedback]_vars
  BY FeedbackStep
<1>. QED
  BY <1>1, <1>2, NextLate, SchemaInvariant, PTL DEF Spec, FeedbackMixesOnlyByHandler

=============================================================================
