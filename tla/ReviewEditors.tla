---------------------------- MODULE ReviewEditors ----------------------------
(***************************************************************************)
(* How the review page edits the fields of one result: the text an editor  *)
(* starts from (getInitialReviewDraft), what the editors of tables,        *)
(* structured objects, JSON and plain values do to it, the value it is     *)
(* parsed to (parseReviewDraft), and which fields a save posts.  Workspace *)
(* has the jobs, the polling and the handlers around it; there a draft     *)
(* stands for the value it parses to.                                      *)
(*                                                                         *)
(* A JSON value is a record tagged with its type.  A text is blank (after  *)
(* trim), the JSON text of a value (the text "5" is that of the number 5), *)
(* or a word that is no JSON.  Layout of JSON is left out.                 *)
(***************************************************************************)
EXTENDS Integers, Sequences, FiniteSets

CONSTANTS
  Fields,       \* the extracted fields of the result
  TypeOf,       \* their types
  Schema,       \* the properties of a structured_object and their types
  Extracted,    \* the results the worker may have stored
  Uncertain,    \* the sets of fields the worker may have flagged for review
  Inputs,       \* bound: texts an operator types
  Columns,      \* names addColumn makes up: column_1, column_2, ...
  MaxEdits      \* bound: edits and saves

Types == {"text", "number", "currency", "date", "boolean", "list",
          "json_object", "structured_object", "table"}
Structured == {"json_object", "structured_object", "table"}

ASSUME TypesAssumption ==
  /\ TypeOf \in [Fields -> Types]
  /\ \A p \in DOMAIN Schema : Schema[p] \in {"string", "number", "boolean"}
ASSUME UncertainAssumption == \A flags \in Uncertain : flags \subseteq Fields
ASSUME BoundsAssumption == MaxEdits \in Nat /\ Columns \in Seq(STRING)

\* Texts.
Empty == [k |-> "blank"]
Word(w) == [k |-> "word", w |-> w]
Json(v) == [k |-> "json", v |-> v]
Money(c, n) == [k |-> "money", currency |-> c, n |-> n]  \* "USD 5.00"

\* JSON values.
Null == [t |-> "null"]
Str(text) == [t |-> "str", s |-> text]
Num(n) == [t |-> "num", n |-> n]
Bool(b) == [t |-> "bool", b |-> b]
Obj(f) == [t |-> "obj", f |-> f]
Arr(s) == [t |-> "arr", s |-> s]

Unset == [k |-> "unset"]     \* no draft of the field
Invalid == [t |-> "throws"]  \* the parser throws

\* A list has its elements at 1, 2, ...
Listed(v) == v.t = "arr" => v.s \in Seq({v.s[i] : i \in DOMAIN v.s})

ASSUME ListsAssumption ==
  \A stored \in Extracted : \A f \in Fields : Listed(stored[f].norm) /\ Listed(stored[f].ext)

Has(v, key) == v.t = "obj" /\ key \in DOMAIN v.f
Wrapped(v) == Obj([x \in {"value"} |-> v])  \* {value: v}
ValueOf(text) == Wrapped(Str(text))

\* String(value ?? ""): what is neither text, number nor boolean becomes a word
\* such as "[object Object]".
ToString(v) ==
  CASE v.t = "null" -> Empty
    [] v.t = "str" -> v.s
    [] v.t \in {"num", "bool"} -> Json(v)
    [] OTHER -> Word("[object Object]")

\* Number(text) is a number.
IsNumber(text) == text.k = "json" /\ text.v.t = "num"

-----------------------------------------------------------------------------
(* review-draft.ts.                                                        *)

\* normalized_value ?? extracted_value ?? null.
Shown(n, x) == IF n = Null THEN x ELSE n

\* Mutant of getInitialReviewDraft: a text is quoted like JSON.
getInitialReviewDraftQuoted(type, v) ==
  IF v = Null THEN Empty
  ELSE IF type \notin Structured /\ Has(v, "value") THEN Json(v.f["value"])
  ELSE Json(v)

getInitialReviewDraft(type, v) ==
  LET single == {"str", "num"} \cup (IF type = "boolean" THEN {"bool"} ELSE {})
  IN IF v = Null THEN Empty
     ELSE IF type \in Structured THEN Json(v)
     ELSE IF type = "currency" /\ Has(v, "amount") /\ v.f["amount"].t = "num"
          THEN ToString(v.f["amount"])
     ELSE IF Has(v, "value") /\ v.f["value"].t \in single THEN ToString(v.f["value"])
     ELSE IF v.t \in {"str", "num", "bool"} THEN ToString(v)
     ELSE Json(v)

\* parseStructuredReviewDraft of a text that is not blank.
ParseStructured(type, text) ==
  IF text.k # "json" THEN Invalid
  ELSE IF type = "table" /\ text.v.t # "arr" THEN Invalid
  ELSE IF text.v.t \notin {"obj", "arr"} THEN Invalid
  ELSE text.v

CurrencyOf(n) ==
  IF Has(n, "currency") /\ n.f["currency"].t = "str"
  THEN n.f["currency"].s ELSE Word("USD")

Amount(c, n) ==
  Obj([x \in {"amount", "currency", "display_value"} |->
         CASE x = "amount" -> Num(n)
           [] x = "currency" -> Str(c)
           [] x = "display_value" -> Str(Money(c, n))])

Dated(text) == Obj([x \in {"value", "display_value"} |-> Str(text)])

\* Mutant of parseReviewDraft: any JSON is accepted for a structured field.
parseReviewDraftUnchecked(type, n, text) ==
  IF text = Empty THEN Null
  ELSE IF type \in Structured THEN IF text.k = "json" THEN text.v ELSE Invalid
  ELSE ValueOf(text)

\* parseReviewDraft; n is the field's normalized_value.
parseReviewDraft(type, n, text) ==
  IF text = Empty THEN Null
  ELSE IF type \in Structured THEN ParseStructured(type, text)
  ELSE CASE type = "currency" ->
              IF IsNumber(text) THEN Amount(CurrencyOf(n), text.v.n) ELSE Invalid
         [] type = "date" -> Dated(text)
         [] type = "number" ->
              IF IsNumber(text) THEN Wrapped(text.v) ELSE Invalid
         [] type = "boolean" -> Bool(text = Json(Bool(TRUE)))
         [] OTHER -> ValueOf(text)

-----------------------------------------------------------------------------
(* TableReviewEditor.                                                      *)

\* parseTableDraft: rows of texts; none when the draft is no list of objects.
Rows(text) ==
  IF /\ text.k = "json" /\ text.v.t = "arr"
     /\ \A i \in DOMAIN text.v.s : text.v.s[i].t = "obj"
  THEN [i \in 1..Len(text.v.s) |->
          [c \in DOMAIN text.v.s[i].f |-> ToString(text.v.s[i].f[c])]]
  ELSE <<>>

ColumnsOf(rows) == UNION {DOMAIN rows[i] : i \in DOMAIN rows}

serializeTableRows(rows) ==
  Json(Arr([i \in 1..Len(rows) |-> Obj([c \in DOMAIN rows[i] |-> Str(rows[i][c])])]))

\* {...row, [column]: text}
With(row, column, text) ==
  [c \in DOMAIN row \cup {column} |-> IF c = column THEN text ELSE row[c]]

\* Mutant of updateCell: the column is written in every row.
updateCellEveryRow(rows, i, column, text) ==
  [r \in 1..Len(rows) |-> With(rows[r], column, text)]

updateCell(rows, i, column, text) == [rows EXCEPT ![i] = With(@, column, text)]

addRow(rows) == Append(rows, [c \in ColumnsOf(rows) |-> Empty])

\* The name addColumn makes up counts the columns.
NewColumn(rows) == Columns[Cardinality(ColumnsOf(rows)) + 1]

addColumn(rows) ==
  IF rows = <<>> THEN << [c \in {NewColumn(rows)} |-> Empty] >>
  ELSE [i \in 1..Len(rows) |-> With(rows[i], NewColumn(rows), Empty)]

-----------------------------------------------------------------------------
(* StructuredObjectReviewEditor, for a schema with properties.             *)

\* parseObjectDraft: the text of a property; blank when it is missing or the
\* draft is no object.
PropertyText(text, p) ==
  IF text.k = "json" /\ Has(text.v, p) THEN ToString(text.v.f[p]) ELSE Empty

\* Mutant of coerceValue: numbers stay texts.
coerceValueNoNumbers(type, text) ==
  IF type = "boolean" /\ text \in {Json(Bool(TRUE)), Json(Bool(FALSE))}
  THEN text.v ELSE Str(text)

\* Number("") is 0.
coerceValue(type, text) ==
  CASE type = "boolean" /\ text \in {Json(Bool(TRUE)), Json(Bool(FALSE))} -> text.v
    [] type = "number" /\ text = Empty -> Num(0)
    [] type = "number" /\ IsNumber(text) -> text.v
    [] OTHER -> Str(text)

\* updateValue: every property of the schema is written anew, others are dropped.
updateValue(text, p, input) ==
  Json(Obj([q \in DOMAIN Schema |->
              coerceValue(Schema[q], IF q = p THEN input ELSE PropertyText(text, q))]))

-----------------------------------------------------------------------------
VARIABLES
  norm,      \* normalized_value of each field, as stored
  ext,       \* extracted_value of each field
  flagged,   \* the fields that require review
  drafts,    \* reviewDrafts
  touched,   \* the fields edited since the drafts were set
  written,   \* the fields whose stored value a save of the page has set
  edits      \* counts what MaxEdits bounds

vars == <<norm, ext, flagged, drafts, touched, written, edits>>

Initial(f, n) == getInitialReviewDraft(TypeOf[f], Shown(n[f], ext[f]))
DraftOf(f) == IF drafts[f] = Unset THEN Initial(f, norm) ELSE drafts[f]
Parsed(f) == parseReviewDraft(TypeOf[f], norm[f], DraftOf(f))

Init ==
  /\ \E stored \in Extracted :
       /\ norm = [f \in Fields |-> stored[f].norm]
       /\ ext = [f \in Fields |-> stored[f].ext]
  /\ flagged \in Uncertain
  /\ drafts = [f \in Fields |-> Unset]
  /\ touched = {} /\ written = {} /\ edits = 0

Edit == edits < MaxEdits /\ edits' = edits + 1

\* onChange of a flagged field's editor.
SetDraft(f, text) ==
  /\ f \in flagged
  /\ Edit
  /\ drafts' = [drafts EXCEPT ![f] = text]
  /\ touched' = touched \cup {f}
  /\ UNCHANGED <<norm, ext, flagged, written>>

\* The editors of ReviewFieldEditor: number inputs hold numbers, a boolean is
\* selected, everything else is typed freely, also an object without a schema.
TypeValue(f, text) ==
  /\ TypeOf[f] # "table"
  /\ TypeOf[f] = "structured_object" => DOMAIN Schema = {}
  /\ TypeOf[f] \in {"number", "currency"} => text = Empty \/ IsNumber(text)
  /\ TypeOf[f] = "boolean" => text \in {Empty, Json(Bool(TRUE)), Json(Bool(FALSE))}
  /\ SetDraft(f, text)

EditCell(f, i, column, text) ==
  /\ TypeOf[f] = "table"
  /\ i \in DOMAIN Rows(DraftOf(f)) /\ column \in ColumnsOf(Rows(DraftOf(f)))
  /\ SetDraft(f, serializeTableRows(updateCell(Rows(DraftOf(f)), i, column, text)))

AddRow(f) ==
  /\ TypeOf[f] = "table"
  /\ SetDraft(f, serializeTableRows(addRow(Rows(DraftOf(f)))))

AddColumn(f) ==
  /\ TypeOf[f] = "table"
  /\ Cardinality(ColumnsOf(Rows(DraftOf(f)))) < Len(Columns)
  /\ SetDraft(f, serializeTableRows(addColumn(Rows(DraftOf(f)))))

EditProperty(f, p, text) ==
  /\ TypeOf[f] = "structured_object"
  /\ Schema[p] = "boolean" =>
       text \in {Empty, Json(Bool(TRUE)), Json(Bool(FALSE))}
  /\ SetDraft(f, updateValue(DraftOf(f), p, text))

\* The answer of a review resets the drafts.
Answered(n) ==
  /\ norm' = n
  /\ drafts' = [f \in Fields |-> Initial(f, n)]
  /\ touched' = {}
  /\ UNCHANGED ext

\* Save review: nothing is posted when one draft cannot be parsed.  A field is
\* posted when its parsed draft differs from what is shown; the server stores
\* it and clears its flag, and an empty submission clears every flag.
SaveReview ==
  LET posted == {f \in Fields : Parsed(f) # Shown(norm[f], ext[f])}
  IN /\ flagged # {}
     /\ \A f \in Fields : Parsed(f) # Invalid
     /\ Edit
     /\ Answered([f \in Fields |-> IF f \in posted THEN Parsed(f) ELSE norm[f]])
     /\ flagged' = IF posted = {} THEN {} ELSE flagged \ posted
     /\ written' = written \cup posted

\* Approving posts no edits; with a confidence threshold some flags stay.
Approve(cleared) ==
  /\ cleared # {}
  /\ Edit
  /\ Answered(norm)
  /\ flagged' = flagged \ cleared
  /\ UNCHANGED written

-----------------------------------------------------------------------------
Next ==
  \/ \E f \in Fields, text \in Inputs : TypeValue(f, text)
  \/ \E f \in Fields : \E i \in DOMAIN Rows(DraftOf(f)) :
       \E c \in ColumnsOf(Rows(DraftOf(f))), text \in Inputs : EditCell(f, i, c, text)
  \/ \E f \in Fields : AddRow(f) \/ AddColumn(f)
  \/ \E f \in Fields, p \in DOMAIN Schema, text \in Inputs : EditProperty(f, p, text)
  \/ SaveReview
  \/ \E cleared \in SUBSET flagged : Approve(cleared)

Spec == Init /\ [][Next]_vars

-----------------------------------------------------------------------------
(* Properties.                                                             *)

FilledText(v) == v.t = "str" /\ v = Str(v.s) /\ v.s # Empty
IsWrapped(v) == Has(v, "value") /\ v = Wrapped(v.f["value"])

\* A value of the shape the page itself stores for the type.
Plain(type, v) ==
  CASE type \in {"json_object", "structured_object"} -> v.t \in {"obj", "arr"}
    [] type = "table" -> v.t = "arr"
    [] type = "boolean" -> v.t = "bool" /\ v \in {Bool(TRUE), Bool(FALSE)}
    [] type = "number" -> IsWrapped(v) /\ v.f["value"].t = "num"
    [] type = "currency" ->
         /\ Has(v, "currency") /\ v.f["currency"].t = "str"
         /\ Has(v, "amount") /\ v.f["amount"].t = "num"
         /\ v = Amount(v.f["currency"].s, v.f["amount"].n)
    [] type = "date" ->
         Has(v, "value") /\ FilledText(v.f["value"]) /\ v = Dated(v.f["value"].s)
    [] OTHER -> IsWrapped(v) /\ FilledText(v.f["value"])

\* Every value a save stores has the shape the later readers of its type
\* expect, or is null: no draft of a table, a number or an object that is
\* something else gets through, whatever was typed and in whichever editor.
WrittenIsPlain ==
  \A f \in written : norm[f] = Null \/ Plain(TypeOf[f], norm[f])

\* A field the operator did not touch is no edit, if its value has the shape
\* the page stores: formatting it into the editor's text and parsing that text
\* gives the value back.  With WrittenIsPlain, saving twice changes nothing the
\* second time.  (Other shapes the worker stores are rewritten and approved by
\* a save that was not about them, or block it: a list, a currency or a date
\* whose display text is the document's, a table that is an object, a null with
\* an extracted text.)
UntouchedIsNotAnEdit ==
  \A f \in Fields \ touched : Plain(TypeOf[f], norm[f]) => Parsed(f) = norm[f]

\* The draft's property q has a value of the type of the schema.
WellTyped(text, q) ==
  /\ text.k = "json" /\ Has(text.v, q)
  /\ LET v == text.v.f[q]
     IN CASE Schema[q] = "number" -> v.t = "num"
          [] Schema[q] = "boolean" -> v.t = "bool" /\ v \in {Bool(TRUE), Bool(FALSE)}
          [] OTHER -> v.t = "str" /\ v = Str(v.s)

\* Editing one property of a structured object keeps every other property that
\* has a value of its type, although the editor takes them all to texts and
\* back.  (A missing number becomes 0, and what the schema does not name goes.)
SiblingsSurvive ==
  [][\A f \in Fields, p \in DOMAIN Schema : \A text \in Inputs :
       EditProperty(f, p, text) =>
         \A q \in DOMAIN Schema \ {p} :
           WellTyped(DraftOf(f), q) => drafts'[f].v.f[q] = DraftOf(f).v.f[q]]_vars

\* The cells of rows whose text is not the same in the rows new.
Changed(rows, new) ==
  UNION {{<<i, c>> : c \in {d \in DOMAIN rows[i] :
                              i \notin DOMAIN new \/ d \notin DOMAIN new[i]
                              \/ new[i][d] # rows[i][d]}} : i \in DOMAIN rows}

\* An edit of a table changes the text of one cell at most; only Add column may
\* blank a whole column, when the table has one of the name it makes up.
OtherCellsSurvive ==
  [][\A f \in touched' : TypeOf[f] = "table" /\ drafts'[f] # drafts[f] =>
       LET rows == Rows(DraftOf(f))
           changed == Changed(rows, Rows(drafts'[f]))
       IN \/ Cardinality(changed) <= 1
          \/ AddColumn(f) /\ \A cell \in changed : cell[2] = NewColumn(rows)]_vars

=============================================================================
