----------------------------- MODULE LangExtract -----------------------------
(***************************************************************************)
(* The training examples of a LangExtract schema: what the editor          *)
(* (LangExtractEditor.tsx) does to the draft of one schema version, and    *)
(* what langextract.ts computes from it: the configuration that is saved,  *)
(* the draft opened from a saved one, field coverage, readiness to run,    *)
(* the recognition of promoted suggestions.  SchemaBuilder has the         *)
(* versions, the polling and the late answers around it.                   *)
(*                                                                         *)
(* A text is a word, or no word at all (Blank), with or without white      *)
(* space around it; trim() removes the white space.  The value of an       *)
(* attribute is a sequence of lines, each a word or Blank.  Array items    *)
(* that a suggestion takes from a document may span several lines.         *)
(***************************************************************************)
EXTENDS Integers, Sequences, FiniteSets

CONSTANTS
  Fields,          \* names of the extracted fields of the schema
  Required,        \* those that are required
  Foreign,         \* a field name the schema does not have (any more)
  Words, Blank,    \* the contents of texts
  Detailed,        \* those words that are texts of 80 characters or more
  Keys,            \* keys of the suggestions of the version
  SuggestionOf,    \* what each of them suggests
  Configs,         \* configurations the version may have been saved with
  None,            \* null
  Values,          \* bound: values typed into an attribute
  MaxEdits         \* bound: edits of the draft and dismissals

ASSUME FieldsAssumption ==
  /\ Fields # {} /\ IsFiniteSet(Fields) /\ Required \subseteq Fields
  /\ Foreign \notin Fields /\ Blank \notin Words /\ Blank # Foreign
  /\ Blank \notin Fields /\ Detailed \subseteq Words

Text == [word: Words \cup {Blank}, pad: BOOLEAN]
Class == Fields \cup {Blank, Foreign}
Kind == {"string", "string_array"}
Line == Words \cup {Blank}

\* What the editor holds.
DraftAttribute == [key: Text, kind: Kind, value: Seq(Line)]
DraftExtraction ==
  [class: Class, span: Text, attributes: Seq(DraftAttribute)]
DraftExample == [text: Text, extractions: Seq(DraftExtraction)]
ASSUME BoundsAssumption == MaxEdits \in Nat /\ Values \subseteq Seq(Line)

\* What is saved is the same, but that the attributes are a record of their
\* keys, and an array is a sequence of items, each of one or more lines.
SavedValues ==
  [kind: {"string"}, lines: Seq(Line)] \cup
  [kind: {"string_array"}, items: Seq(Seq(Line))]
SavedExtraction(x) ==
  /\ x \in [class: Class, span: Text, attributes: [DOMAIN x.attributes -> SavedValues]]
  /\ DOMAIN x.attributes \subseteq Line /\ IsFiniteSet(DOMAIN x.attributes)
SavedExample(e) ==
  /\ e \in [text: Text, extractions: Seq({e.extractions[j] : j \in DOMAIN e.extractions})]
  /\ \A j \in DOMAIN e.extractions : SavedExtraction(e.extractions[j])
SavedConfig(c) ==
  /\ c \in [prompt: Text, examples: Seq({c.examples[i] : i \in DOMAIN c.examples})]
  /\ \A i \in DOMAIN c.examples : SavedExample(c.examples[i])

ASSUME ConfigsAssumption == \A c \in Configs \ {None} : SavedConfig(c)

\* null is not a configuration.
ASSUME NoneAssumption ==
  LET attributes == UNION {[names -> SavedValues] : names \in SUBSET Line}
      extraction == [class: Class, span: Text, attributes: attributes]
  IN None \notin [prompt: Text,
                  examples: Seq([text: Text, extractions: Seq(extraction)])]

-----------------------------------------------------------------------------
Trim(t) == [t EXCEPT !.pad = FALSE]
IsBlank(t) == t.word = Blank

\* The elements of s that are not e.
Without(s, e) ==
  LET upTo[n \in 0..Len(s)] ==
        IF n = 0 THEN <<>>
        ELSE IF s[n] = e THEN upTo[n - 1] ELSE Append(upTo[n - 1], s[n])
  IN upTo[Len(s)]

\* The lines of a list that are not blank.
Written(lines) == Without(lines, Blank)

\* String.trim of a value: blank lines at its ends go.
TrimLines(lines) ==
  LET full == {i \in 1..Len(lines) : lines[i] # Blank}
  IN IF full = {} THEN <<>>
     ELSE SubSeq(lines, CHOOSE i \in full : \A j \in full : i <= j,
                        CHOOSE i \in full : \A j \in full : j <= i)

\* join("\n") of array items.
Join(items) ==
  LET upTo[n \in 0..Len(items)] ==
        IF n = 0 THEN <<>> ELSE upTo[n - 1] \o items[n]
  IN upTo[Len(items)]

\* The value an attribute of the draft is saved as.
SavedValue(a) ==
  LET written == Written(a.value)
  IN IF a.kind = "string_array"
     THEN [kind |-> "string_array", items |-> [i \in 1..Len(written) |-> <<written[i]>>]]
     ELSE [kind |-> "string", lines |-> TrimLines(a.value)]

\* Object.fromEntries: of the attributes with one key, the last one counts.
SavedAttributes(attributes) ==
  LET last(k) == CHOOSE i \in 1..Len(attributes) :
                   /\ attributes[i].key.word = k
                   /\ \A j \in i + 1..Len(attributes) : attributes[j].key.word # k
  IN [k \in {attributes[i].key.word : i \in 1..Len(attributes)} |->
        SavedValue(attributes[last(k)])]

\* Object.entries, in some order that only depends on the keys.
Entries(S) ==
  CHOOSE s \in [1..Cardinality(S) -> S] : \A k \in S : \E i \in DOMAIN s : s[i] = k

\* The attributes of the draft for those of a saved extraction.
OpenedAttributes(attributes) ==
  LET keys == Entries(DOMAIN attributes)
  IN [i \in 1..Len(keys) |->
        LET v == attributes[keys[i]]
        IN [key |-> [word |-> keys[i], pad |-> FALSE], kind |-> v.kind,
            value |-> IF v.kind = "string" THEN v.lines ELSE Join(v.items)]]

-----------------------------------------------------------------------------
(* Suggestions are built from reviewed results: no text of theirs is blank *)
(* or has white space around it.  Only the names of attributes are         *)
(* whatever a reviewed object has, the empty one included.                 *)

Stripped(lines) == lines # <<>> /\ TrimLines(lines) = lines

\* build_langextract_feedback_attributes leaves empty values out.
SuggestedValue(v) ==
  IF v.kind = "string" THEN Stripped(v.lines)
  ELSE v.items # <<>> /\ \A n \in DOMAIN v.items : Stripped(v.items[n])

\* _build_candidate_suggestion.
Suggestion(s) ==
  /\ SavedExample(s)
  /\ ~IsBlank(s.text) /\ s.extractions # <<>>
  /\ \A j \in DOMAIN s.extractions :
       LET x == s.extractions[j]
       IN /\ x.class # Blank /\ ~IsBlank(x.span)
          /\ \A k \in DOMAIN x.attributes : SuggestedValue(x.attributes[k])

ASSUME SuggestionsAssumption == \A k \in Keys : Suggestion(SuggestionOf[k])

-----------------------------------------------------------------------------
(* Opening a saved configuration or a suggestion in the editor.            *)

\* Mutant of OpenedExample: every value is opened as a single one.
OpenedExampleAsStrings(example) ==
  [text |-> example.text,
   extractions |-> [i \in 1..Len(example.extractions) |->
     LET x == example.extractions[i]
         opened == OpenedAttributes(x.attributes)
     IN [x EXCEPT !.attributes =
           [j \in 1..Len(opened) |-> [opened[j] EXCEPT !.kind = "string"]]]]]

\* buildDraftLangExtractExampleFromSuggestion, and the body of
\* buildDraftLangExtractExamples.
OpenedExample(example) ==
  [text |-> example.text,
   extractions |-> [i \in 1..Len(example.extractions) |->
     LET x == example.extractions[i]
     IN [x EXCEPT !.attributes = OpenedAttributes(x.attributes)]]]

\* buildDraftLangExtractExamples.
buildDraftLangExtractExamples(config) ==
  IF config = None THEN <<>>
  ELSE [i \in 1..Len(config.examples) |-> OpenedExample(config.examples[i])]

-----------------------------------------------------------------------------
(* Coverage, completeness and the configuration that is saved.             *)

\* coveredFieldSet of getLangExtractFieldCoverage.
Covered(es) ==
  Fields \cap UNION {{es[i].extractions[j].class : j \in DOMAIN es[i].extractions} :
                       i \in DOMAIN es}

MissingRequired(es) == Required \ Covered(es)

\* isDraftAttributeComplete, isDraftExtractionComplete, isDraftExampleComplete:
\* the editor's own badge "Ready to save."
CompleteAttribute(a) == ~IsBlank(a.key) /\ \E i \in DOMAIN a.value : a.value[i] # Blank

Complete(example) ==
  /\ ~IsBlank(example.text)
  /\ example.extractions # <<>>
  /\ \A j \in DOMAIN example.extractions :
       LET x == example.extractions[j]
       IN /\ x.class # Blank /\ ~IsBlank(x.span)
          /\ \A k \in DOMAIN x.attributes : CompleteAttribute(x.attributes[k])

\* An empty array, or the empty string.
EmptyValue(v) == IF v.kind = "string" THEN v.lines = <<>> ELSE v.items = <<>>

\* Mutant of Throws: a blank list is accepted.
ThrowsNotForBlankValues(example) ==
  \/ IsBlank(example.text)
  \/ example.extractions = <<>>
  \/ \E j \in DOMAIN example.extractions :
       LET x == example.extractions[j]
       IN \/ x.class \notin Fields
          \/ IsBlank(x.span)
          \/ \E k \in DOMAIN x.attributes : IsBlank(x.attributes[k].key)

\* An example for which buildLangExtractExamples throws.
Throws(example) ==
  \/ IsBlank(example.text)
  \/ example.extractions = <<>>
  \/ \E j \in DOMAIN example.extractions :
       LET x == example.extractions[j]
       IN \/ x.class \notin Fields
          \/ IsBlank(x.span)
          \/ \E k \in DOMAIN x.attributes :
               \/ IsBlank(x.attributes[k].key)
               \/ EmptyValue(SavedValue(x.attributes[k]))

\* The example as it is saved.
BuiltExample(example) ==
  [text |-> Trim(example.text),
   extractions |-> [j \in 1..Len(example.extractions) |->
     LET x == example.extractions[j]
     IN [class |-> x.class, span |-> Trim(x.span),
         attributes |-> SavedAttributes(x.attributes)]]]

\* buildLangExtractPreview: an error, which also disables "Save schema version".
PreviewError(es) ==
  (\E i \in DOMAIN es : Throws(es[i])) \/ MissingRequired(es) # {}

\* The config of buildTemplatePayload: none for a blank prompt without examples.
Built(p, es) ==
  IF IsBlank(p) /\ es = <<>> THEN None
  ELSE [prompt |-> Trim(p), examples |-> [i \in 1..Len(es) |-> BuiltExample(es[i])]]

\* getLangExtractExtractionReadiness for a LangExtract provider.
Ready(config) ==
  /\ config # None
  /\ config.examples # <<>>
  /\ MissingRequired(config.examples) = {}
  /\ ~IsBlank(config.prompt)

Complaint == {"no prompt", "short prompt", "no example", "one example",
              "incomplete", "coverage"}

\* The complete ones among the examples, and the others left out.
CompleteOnes(es) == {i \in DOMAIN es : Complete(es[i])}
OnlyComplete(es) == [i \in CompleteOnes(es) |-> es[i]]

\* Mutant of Lacks: examples that are not complete are passed over.
LacksNotForIncomplete(p, es, c) ==
  CASE c = "no prompt" -> IsBlank(p)
    [] c = "short prompt" -> ~IsBlank(p) /\ p.word \notin Detailed
    [] c = "no example" -> Cardinality(CompleteOnes(es)) = 0
    [] c = "one example" -> Cardinality(CompleteOnes(es)) = 1
    [] c = "incomplete" -> FALSE
    [] c = "coverage" -> MissingRequired(OnlyComplete(es)) # {}

\* The conditions under which getLangExtractDraftGuidance complains.
Lacks(p, es, c) ==
  CASE c = "no prompt" -> IsBlank(p)
    [] c = "short prompt" -> ~IsBlank(p) /\ p.word \notin Detailed
    [] c = "no example" -> Cardinality(CompleteOnes(es)) = 0
    [] c = "one example" -> Cardinality(CompleteOnes(es)) = 1
    [] c = "incomplete" -> Len(es) > Cardinality(CompleteOnes(es))
    [] c = "coverage" -> MissingRequired(OnlyComplete(es)) # {}

\* A draft without shortcomings gets a message too; with one message, of either
\* sort, the editor's headline is "The draft structure is in good shape."
Guidance(p, es) ==
  LET complaints == {c \in Complaint : Lacks(p, es, c)}
      messages == IF complaints = {} THEN {"good"} ELSE complaints
  IN [messages |-> messages, isReady |-> Cardinality(messages) = 1]

-----------------------------------------------------------------------------
(* Recognising a suggestion among the examples.                            *)

\* buildComparableSuggestion.
ComparableValue(v) ==
  IF v.kind = "string" THEN [v EXCEPT !.lines = TrimLines(@)]
  ELSE [v EXCEPT !.items =
          Without([i \in 1..Len(@) |-> TrimLines(@[i])], <<>>)]

ComparableSuggestion(s) ==
  [text |-> Trim(s.text),
   extractions |-> [i \in 1..Len(s.extractions) |->
     LET x == s.extractions[i]
     IN [class |-> x.class, span |-> Trim(x.span),
         attributes |-> [k \in DOMAIN x.attributes |-> ComparableValue(x.attributes[k])]]]]

\* Mutant of Matches: an example that is not complete is compared too.
MatchesIncomplete(example, s) == BuiltExample(example) = ComparableSuggestion(s)

\* doesDraftLangExtractExampleMatchSuggestion.
Matches(example, s) ==
  Complete(example) /\ BuiltExample(example) = ComparableSuggestion(s)

\* getAppliedLangExtractSuggestionKeys.
Applied(es) ==
  {k \in Keys : \E i \in DOMAIN es : Matches(es[i], SuggestionOf[k])}

-----------------------------------------------------------------------------
VARIABLES
  prompt,        \* langextract_prompt_description of the draft
  examples,      \* langextract_examples of the draft
  saved,         \* langextract_config of the schema version it was opened from
  suggestions,   \* the suggestions shown (not dismissed)
  dismissing,    \* dismissals the server has not answered
  pendingFocus,  \* the control that is to receive the keyboard focus
  edits          \* counts what MaxEdits bounds

vars == <<prompt, examples, saved, suggestions, dismissing, pendingFocus, edits>>

Focus(kind, i, j, k) == [kind |-> kind, example |-> i, extraction |-> j, attribute |-> k]
FocusTarget == [kind: {"example", "extraction", "attribute", "add attribute"},
                example: Nat, extraction: Nat, attribute: Nat]
DismissTarget == [kind: {"dismiss"}, expected: Int]

\* focusByDataId finds the control among the examples es, or, for the focus
\* after a dismissal, the list has become as short as expected.
Lands(f, es, shown) ==
  CASE f.kind = "dismiss" -> Cardinality(shown) <= f.expected
    [] f.kind = "example" -> f.example \in DOMAIN es
    [] f.kind \in {"extraction", "add attribute"} ->
         /\ f.example \in DOMAIN es
         /\ f.extraction \in DOMAIN es[f.example].extractions
    [] f.kind = "attribute" ->
         /\ f.example \in DOMAIN es
         /\ f.extraction \in DOMAIN es[f.example].extractions
         /\ f.attribute \in
              DOMAIN es[f.example].extractions[f.extraction].attributes

\* The focus effect, which runs when the examples or the list change.
FocusEffect(f, es, shown) == IF f # None /\ ~Lands(f, es, shown) THEN f ELSE None

NewText == [word |-> Blank, pad |-> FALSE]
NewAttribute == [key |-> NewText, kind |-> "string", value |-> <<>>]
NewExtraction == [class |-> Blank, span |-> NewText, attributes |-> <<>>]
NewExample == [text |-> NewText, extractions |-> <<NewExtraction>>]

Remove(s, i) == SubSeq(s, 1, i - 1) \o SubSeq(s, i + 1, Len(s))

\* The item after the removed one takes its place; the last one has none.
Neighbour(s, i) == IF i < Len(s) THEN i ELSE i - 1

-----------------------------------------------------------------------------
Init ==
  /\ saved \in Configs
  /\ prompt = IF saved = None THEN NewText ELSE saved.prompt
  /\ examples = buildDraftLangExtractExamples(saved)
  /\ suggestions = Keys
  /\ dismissing = {} /\ pendingFocus = None /\ edits = 0

Edit == edits < MaxEdits /\ edits' = edits + 1

\* setDraft with the examples es, after setPendingFocus(f).
SetExamples(es, f) ==
  /\ Edit
  /\ examples' = es
  /\ pendingFocus' = FocusEffect(f, es, suggestions)
  /\ UNCHANGED <<prompt, saved, suggestions, dismissing>>

TypePrompt(t) ==
  /\ Edit
  /\ prompt' = t
  /\ UNCHANGED <<examples, saved, suggestions, dismissing, pendingFocus>>

AddExample ==
  SetExamples(Append(examples, NewExample),
              Focus("example", Len(examples) + 1, 0, 0))

\* Mutant of RemoveExample: the focus stays at the index of what is removed.
RemoveExampleFocusStays(i) ==
  /\ Len(examples) # 1
  /\ SetExamples(Remove(examples, i), Focus("example", i, 0, 0))

\* The button of the only example is disabled.
RemoveExample(i) ==
  /\ Len(examples) # 1
  /\ SetExamples(Remove(examples, i),
                 Focus("example", Neighbour(examples, i), 0, 0))

\* updateExample, updateExtraction, updateAttribute.
UpdateExample(i, example, f) ==
  SetExamples([examples EXCEPT ![i] = example], f)

UpdateExtraction(i, j, x, f) ==
  UpdateExample(i, [examples[i] EXCEPT !.extractions[j] = x], f)

UpdateAttribute(i, j, k, a) ==
  UpdateExtraction(i, j, [examples[i].extractions[j] EXCEPT !.attributes[k] = a],
                   pendingFocus)

TypeExampleText(i, t) ==
  UpdateExample(i, [examples[i] EXCEPT !.text = t], pendingFocus)

AddExtraction(i) ==
  LET xs == examples[i].extractions
  IN UpdateExample(i, [examples[i] EXCEPT !.extractions = Append(@, NewExtraction)],
                   Focus("extraction", i, Len(xs) + 1, 0))

RemoveExtraction(i, j) ==
  LET xs == examples[i].extractions
  IN /\ Len(xs) # 1
     /\ UpdateExample(i, [examples[i] EXCEPT !.extractions = Remove(@, j)],
                      Focus("extraction", i, Neighbour(xs, j), 0))

\* The select offers the fields of the schema and no field.
SelectField(i, j, c) ==
  UpdateExtraction(i, j, [examples[i].extractions[j] EXCEPT !.class = c], pendingFocus)

TypeSpan(i, j, t) ==
  UpdateExtraction(i, j, [examples[i].extractions[j] EXCEPT !.span = t], pendingFocus)

AddAttribute(i, j) ==
  LET x == examples[i].extractions[j]
  IN UpdateExtraction(i, j, [x EXCEPT !.attributes = Append(@, NewAttribute)],
                      Focus("attribute", i, j, Len(x.attributes) + 1))

RemoveAttribute(i, j, k) ==
  LET x == examples[i].extractions[j]
  IN UpdateExtraction(i, j, [x EXCEPT !.attributes = Remove(@, k)],
       IF Len(x.attributes) > 1
       THEN Focus("attribute", i, j, Neighbour(x.attributes, k))
       ELSE Focus("add attribute", i, j, 0))

EditAttribute(i, j, k) ==
  LET a == examples[i].extractions[j].attributes[k]
  IN \/ \E t \in Text : UpdateAttribute(i, j, k, [a EXCEPT !.key = t])
     \/ \E kind \in Kind \ {a.kind} : UpdateAttribute(i, j, k, [a EXCEPT !.kind = kind])
     \/ \E v \in Values : UpdateAttribute(i, j, k, [a EXCEPT !.value = v])

\* handleApplyLangExtractSuggestion.
PromoteSuggestion(s) ==
  /\ s \in suggestions
  /\ SetExamples(Append(examples, OpenedExample(SuggestionOf[s])),
                 Focus("example", Len(examples) + 1, 0, 0))
  /\ s \notin Applied(examples)

\* The dismissal is sent; the focus waits for the list to become shorter.
DismissSuggestion(s) ==
  /\ s \in suggestions
  /\ Edit
  /\ dismissing' = dismissing \cup {s}
  /\ pendingFocus' = FocusEffect(
       [kind |-> "dismiss", expected |-> Cardinality(suggestions) - 1],
       examples, suggestions)
  /\ UNCHANGED <<prompt, examples, saved, suggestions>>

DismissAnswered(s) ==
  /\ s \in dismissing
  /\ dismissing' = dismissing \ {s}
  /\ suggestions' = suggestions \ {s}
  /\ pendingFocus' = FocusEffect(pendingFocus, examples, suggestions')
  /\ UNCHANGED <<prompt, examples, saved, edits>>

DismissFails(s) ==
  /\ s \in dismissing
  /\ dismissing' = dismissing \ {s}
  /\ UNCHANGED <<prompt, examples, saved, suggestions, pendingFocus, edits>>

\* "Save schema version", disabled while the preview shows an error; the saved
\* version, once selected, is opened as the next draft.
SaveSchema ==
  /\ ~PreviewError(examples)
  /\ saved' = Built(prompt, examples)
  /\ prompt' = Trim(prompt)
  /\ examples' = buildDraftLangExtractExamples(saved')
  /\ pendingFocus' = FocusEffect(pendingFocus, examples', suggestions)
  /\ UNCHANGED <<suggestions, dismissing, edits>>

-----------------------------------------------------------------------------
EditExtraction(i, j) ==
  \/ RemoveExtraction(i, j)
  \/ \E c \in Fields \cup {Blank} : SelectField(i, j, c)
  \/ \E t \in Text : TypeSpan(i, j, t)
  \/ AddAttribute(i, j)
  \/ \E k \in DOMAIN examples[i].extractions[j].attributes :
       RemoveAttribute(i, j, k) \/ EditAttribute(i, j, k)

EditExample(i) ==
  \/ RemoveExample(i)
  \/ \E t \in Text : TypeExampleText(i, t)
  \/ AddExtraction(i)
  \/ \E j \in DOMAIN examples[i].extractions : EditExtraction(i, j)

Next ==
  \/ \E t \in Text : TypePrompt(t)
  \/ AddExample
  \/ \E i \in DOMAIN examples : EditExample(i)
  \/ \E s \in Keys : \/ PromoteSuggestion(s) \/ DismissSuggestion(s)
                     \/ DismissAnswered(s) \/ DismissFails(s)
  \/ SaveSchema

Spec == Init /\ [][Next]_vars

-----------------------------------------------------------------------------
(* Properties.                                                             *)

\* After a structural edit the focus always finds its control: no index of a
\* removed or not yet existing example, extraction or attribute is left
\* pending, to steal the focus at a later edit.  Only the focus after a
\* dismissal waits, for the server's answer.
FocusAlwaysLands == pendingFocus # None => pendingFocus.kind = "dismiss"

\* The three places that judge a draft agree: the preview (which decides
\* whether it can be saved) reports no error exactly when every example bears
\* the badge "Ready to save.", names fields of the schema only, and the
\* required fields are covered.
PreviewAgreesWithBadges ==
  ~PreviewError(examples) <=>
    /\ \A i \in DOMAIN examples :
         /\ Complete(examples[i])
         /\ \A j \in DOMAIN examples[i].extractions :
              examples[i].extractions[j].class # Foreign
    /\ Required \subseteq Covered(examples)

\* What can be saved survives being opened again: saving, opening and saving
\* once more stores the same configuration, duplicate attribute names, lists
\* with blank lines and white space included.
SavedSurvivesReopening ==
  ~PreviewError(examples) =>
    LET config == Built(prompt, examples)
        reopened == buildDraftLangExtractExamples(config)
    IN /\ ~PreviewError(reopened)
       /\ config # None => Built(config.prompt, reopened) = config

NamesSchemaFields ==
  \A i \in DOMAIN examples : \A j \in DOMAIN examples[i].extractions :
    examples[i].extractions[j].class # Foreign

CanBeSaved == ~PreviewError(examples)
CanBeRun == Ready(Built(prompt, examples))

\* A draft that cannot be saved, or whose version could not be run, is told so
\* by the guidance, in a message that names the reason.  The headline "The draft
\* structure is in good shape." is no promise: it stands over such a draft too,
\* but only over the one message that names its only reason (isReady counts
\* messages).  Only a field the schema does not have is left to the preview.
GuidanceNamesTheReason ==
  LET guidance == Guidance(prompt, examples)
  IN NamesSchemaFields =>
       /\ ~CanBeSaved => guidance.messages \cap {"incomplete", "coverage"} # {}
       /\ ~CanBeRun => guidance.messages \cap {"no prompt", "no example", "coverage"} # {}
       /\ guidance.isReady /\ ~(CanBeSaved /\ CanBeRun) =>
            \E c \in {"no prompt", "no example", "incomplete", "coverage"} :
              guidance.messages = {c}

\* Every attribute of a suggestion has a name, and no array item spans several
\* lines.
FitsTheEditor(s) ==
  \A j \in DOMAIN s.extractions :
    LET attributes == s.extractions[j].attributes
    IN \A k \in DOMAIN attributes :
         /\ k # Blank
         /\ attributes[k].kind = "string_array" =>
              \A n \in DOMAIN attributes[k].items : Len(attributes[k].items[n]) = 1

\* A promoted suggestion is recognised among the examples at once, so that it
\* is not offered a second time.  It is not when the editor cannot show it as it
\* is: an array item that spans lines is split into items, and an attribute
\* without a name is incomplete.
PromotedIsRecognised ==
  [][\A s \in Keys :
       PromoteSuggestion(s) =>
         (s \in Applied(examples') <=> FitsTheEditor(SuggestionOf[s]))]_vars

=============================================================================
