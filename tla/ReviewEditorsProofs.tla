-------------------------- MODULE ReviewEditorsProofs --------------------------
(***************************************************************************)
(* Proofs about ReviewEditors, for any fields, types, schema, stored       *)
(* results and typed texts.                                                *)
(***************************************************************************)
EXTENDS ReviewEditors, FiniteSetTheorems, TLAPS

\* The strengthening: a draft nobody has edited is the one the field's value
\* is formatted to.  It relates every draft to the value stored now, which a
\* save changes under it.
UntouchedInv ==
  \A f \in Fields \ touched : drafts[f] = Unset \/ drafts[f] = Initial(f, norm)

ReviewInv ==
  /\ norm = [f \in Fields |-> norm[f]]
  /\ drafts = [f \in Fields |-> drafts[f]]
  /\ written \subseteq Fields
  /\ WrittenIsPlain /\ UntouchedInv

-----------------------------------------------------------------------------
(* The conversions.                                                         *)

\* What parseReviewDraft returns, unless it throws or the text is blank, has the
\* shape the page promises for the type.
LEMMA ParsedIsPlain ==
    ASSUME NEW type \in Types, NEW n, NEW text,
           parseReviewDraft(type, n, text) # Invalid
    PROVE  \/ parseReviewDraft(type, n, text) = Null
           \/ Plain(type, parseReviewDraft(type, n, text))
<1>. DEFINE v == parseReviewDraft(type, n, text)
<1>1. CASE text = Empty
  BY <1>1 DEF parseReviewDraft
<1>2. CASE text # Empty /\ type \in Structured
  <2>1. v = ParseStructured(type, text)
    BY <1>2 DEF parseReviewDraft
  <2>2. v.t \in {"obj", "arr"} /\ (type = "table" => v.t = "arr")
    BY <2>1, <1>2 DEF ParseStructured
  <2>. QED BY <2>2, <1>2 DEF Plain, Structured
<1>3. CASE text # Empty /\ type = "currency"
  <2>. DEFINE c == CurrencyOf(n)
              m == text.v.n
  <2>1. v = Amount(c, m)
    BY <1>3 DEF parseReviewDraft, Structured
  <2>. HIDE DEF c, m
  <2>2. /\ Has(Amount(c, m), "currency") /\ Has(Amount(c, m), "amount")
        /\ Amount(c, m).f["currency"] = Str(c) /\ Amount(c, m).f["amount"] = Num(m)
    BY DEF Amount, Obj, Has
  <2>3. Plain(type, Amount(c, m))
    BY <2>2, <1>3 DEF Plain, Str, Num
  <2>. QED BY <2>1, <2>3
<1>4. CASE text # Empty /\ type = "date"
  <2>1. v = Dated(text)
    BY <1>4 DEF parseReviewDraft, Structured
  <2>2. Has(Dated(text), "value") /\ Dated(text).f["value"] = Str(text)
    BY DEF Dated, Obj, Has
  <2>3. FilledText(Str(text)) /\ Str(text).s = text
    BY <1>4 DEF FilledText, Str
  <2>. QED BY <2>1, <2>2, <2>3, <1>4 DEF Plain
<1>5. CASE text # Empty /\ type = "number"
  <2>1. v = Wrapped(text.v) /\ text.v.t = "num"
    BY <1>5 DEF parseReviewDraft, Structured, IsNumber
  <2>2. IsWrapped(Wrapped(text.v)) /\ Wrapped(text.v).f["value"] = text.v
    BY DEF IsWrapped, Wrapped, Has, Obj
  <2>. QED BY <2>1, <2>2, <1>5 DEF Plain
<1>6. CASE text # Empty /\ type = "boolean"
  <2>1. v = Bool(text = Json(Bool(TRUE)))
    BY <1>6 DEF parseReviewDraft, Structured
  <2>2. v \in {Bool(TRUE), Bool(FALSE)}
    BY <2>1
  <2>3. v.t = "bool"
    BY <2>1 DEF Bool
  <2>. QED BY <2>2, <2>3, <1>6 DEF Plain
<1>7. CASE text # Empty /\ type \in {"text", "list"}
  <2>1. v = ValueOf(text)
    BY <1>7 DEF parseReviewDraft, Structured
  <2>2. IsWrapped(ValueOf(text)) /\ ValueOf(text).f["value"] = Str(text)
    BY DEF IsWrapped, ValueOf, Wrapped, Has, Obj
  <2>3. FilledText(Str(text))
    BY <1>7 DEF FilledText, Str
  <2>. QED BY <2>1, <2>2, <2>3, <1>7 DEF Plain
<1>. QED BY <1>1, <1>2, <1>3, <1>4, <1>5, <1>6, <1>7 DEF Types, Structured

\* Formatting a plain value and parsing the text gives the value back.
LEMMA RoundTrip ==
    ASSUME NEW type \in Types, NEW v, Plain(type, v)
    PROVE  /\ v # Null
           /\ parseReviewDraft(type, v, getInitialReviewDraft(type, v)) = v
<1>. DEFINE d == getInitialReviewDraft(type, v)
<1>1. CASE type \in Structured
  <2>1. v.t \in {"obj", "arr"} /\ (type = "table" => v.t = "arr")
    BY <1>1 DEF Plain, Structured
  <2>2. v # Null
    BY <2>1 DEF Null
  <2>3. d = Json(v)
    BY <1>1, <2>2 DEF getInitialReviewDraft
  <2>4. Json(v).k = "json" /\ Json(v).v = v /\ Json(v) # Empty
    BY DEF Json, Empty
  <2>5. parseReviewDraft(type, v, Json(v)) = v
    BY <1>1, <2>1, <2>4 DEF parseReviewDraft, ParseStructured
  <2>. QED BY <2>2, <2>3, <2>5
<1>2. CASE type = "currency"
  <2>. DEFINE c == v.f["currency"].s
              m == v.f["amount"].n
  <2>1. v = Amount(c, m) /\ v.f["amount"].t = "num" /\ Has(v, "amount")
    BY <1>2 DEF Plain
  <2>. HIDE DEF c, m
  <2>2. /\ v.t = "obj" /\ Has(v, "currency")
        /\ v.f["currency"] = Str(c) /\ v.f["amount"] = Num(m)
    BY <2>1 DEF Amount, Obj, Has
  <2>3. v # Null
    BY <2>2 DEF Null
  <2>4. d = ToString(Num(m))
    BY <1>2, <2>1, <2>2, <2>3 DEF getInitialReviewDraft, Structured
  <2>5. ToString(Num(m)) = Json(Num(m))
    BY DEF ToString, Num
  <2>6. IsNumber(Json(Num(m))) /\ Json(Num(m)).v.n = m /\ Json(Num(m)) # Empty
    BY DEF IsNumber, Json, Num, Empty
  <2>7. CurrencyOf(v) = c
    BY <2>2 DEF CurrencyOf, Str
  <2>8. parseReviewDraft(type, v, Json(Num(m))) = Amount(c, m)
    BY <1>2, <2>6, <2>7 DEF parseReviewDraft, Structured
  <2>. QED BY <2>1, <2>3, <2>4, <2>5, <2>8
<1>3. CASE type = "date"
  <2>. DEFINE s == v.f["value"].s
  <2>1. v = Dated(s) /\ Has(v, "value") /\ s # Empty /\ v.f["value"] = Str(s)
    BY <1>3 DEF Plain, FilledText
  <2>. HIDE DEF s
  <2>2. v # Null
    BY <2>1 DEF Has, Null
  <2>3. d = ToString(Str(s))
    BY <1>3, <2>1, <2>2 DEF getInitialReviewDraft, Structured, Str
  <2>4. ToString(Str(s)) = s
    BY DEF ToString, Str
  <2>5. parseReviewDraft(type, v, s) = Dated(s)
    BY <1>3, <2>1 DEF parseReviewDraft, Structured
  <2>. QED BY <2>1, <2>2, <2>3, <2>4, <2>5
<1>4. CASE type = "number"
  <2>. DEFINE x == v.f["value"]
  <2>1. v = Wrapped(x) /\ Has(v, "value") /\ x.t = "num"
    BY <1>4 DEF Plain, IsWrapped
  <2>2. v # Null
    BY <2>1 DEF Has, Null
  <2>3. d = ToString(x)
    BY <1>4, <2>1, <2>2 DEF getInitialReviewDraft, Structured
  <2>. HIDE DEF x
  <2>4. ToString(x) = Json(x)
    BY <2>1 DEF ToString
  <2>5. IsNumber(Json(x)) /\ Json(x).v = x /\ Json(x) # Empty
    BY <2>1 DEF IsNumber, Json, Empty
  <2>6. parseReviewDraft(type, v, Json(x)) = Wrapped(x)
    BY <1>4, <2>5 DEF parseReviewDraft, Structured
  <2>. QED BY <2>1, <2>2, <2>3, <2>4, <2>6
<1>5. CASE type = "boolean"
  <2>1. v.t = "bool" /\ v \in {Bool(TRUE), Bool(FALSE)}
    BY <1>5 DEF Plain
  <2>2. v # Null /\ ~Has(v, "value")
    BY <2>1 DEF Has, Null
  <2>3. d = Json(v)
    BY <1>5, <2>1, <2>2 DEF getInitialReviewDraft, Structured, ToString
  <2>4. Json(v) # Empty /\ (Json(v) = Json(Bool(TRUE)) <=> v = Bool(TRUE))
    BY DEF Json, Empty
  <2>5. parseReviewDraft(type, v, Json(v)) = Bool(Json(v) = Json(Bool(TRUE)))
    BY <1>5, <2>4 DEF parseReviewDraft, Structured
  <2>6. Bool(TRUE) # Bool(FALSE)
    BY DEF Bool
  <2>7. CASE v = Bool(TRUE)
    BY <2>2, <2>3, <2>4, <2>5, <2>7
  <2>8. CASE v = Bool(FALSE)
    BY <2>2, <2>3, <2>4, <2>5, <2>6, <2>8
  <2>. QED BY <2>1, <2>7, <2>8
<1>6. CASE type \in {"text", "list"}
  <2>. DEFINE s == v.f["value"].s
  <2>1. v = Wrapped(Str(s)) /\ Has(v, "value") /\ s # Empty /\ v.f["value"] = Str(s)
    BY <1>6 DEF Plain, FilledText, IsWrapped
  <2>. HIDE DEF s
  <2>2. v # Null
    BY <2>1 DEF Has, Null
  <2>3. d = ToString(Str(s))
    BY <1>6, <2>1, <2>2 DEF getInitialReviewDraft, Structured, Str
  <2>4. ToString(Str(s)) = s
    BY DEF ToString, Str
  <2>5. parseReviewDraft(type, v, s) = ValueOf(s)
    BY <1>6, <2>1 DEF parseReviewDraft, Structured
  <2>. QED BY <2>1, <2>2, <2>3, <2>4, <2>5 DEF ValueOf
<1>. QED BY <1>1, <1>2, <1>3, <1>4, <1>5, <1>6 DEF Types, Structured

-----------------------------------------------------------------------------
(* The invariant.                                                           *)

\* In the initial states no field has been edited or written.
LEMMA InitReview == Init => ReviewInv
  BY DEF Init, ReviewInv, WrittenIsPlain, UntouchedInv

\* An edit touches the field whose draft it changes.
LEMMA SetDraftKeeps ==
    ASSUME ReviewInv, NEW f \in Fields, NEW text, SetDraft(f, text)
    PROVE  ReviewInv'
<1>. USE DEF ReviewInv
<1>1. /\ drafts' = [drafts EXCEPT ![f] = text]
      /\ touched' = touched \cup {f} /\ UNCHANGED <<norm, ext, written>>
  BY DEF SetDraft
<1>2. drafts' = [g \in Fields |-> IF g = f THEN text ELSE drafts[g]]
  BY <1>1
<1>3. drafts' = [g \in Fields |-> drafts'[g]]
  BY <1>2
<1>4. WrittenIsPlain'
  BY <1>1 DEF WrittenIsPlain
<1>5. UntouchedInv'
  <2>1. ASSUME NEW g \in Fields \ touched'
        PROVE  drafts'[g] = Unset \/ drafts'[g] = Initial(g, norm)'
    <3>1. g # f /\ drafts'[g] = drafts[g] /\ g \in Fields \ touched
      BY <1>1, <1>2, <2>1
    <3>2. Initial(g, norm)' = Initial(g, norm)
      BY <1>1 DEF Initial
    <3>. QED BY <3>1, <3>2 DEF UntouchedInv
  <2>. QED BY <2>1 DEF UntouchedInv, Initial
<1>. QED BY <1>1, <1>3, <1>4, <1>5

\* An answer formats every draft anew.
LEMMA AnsweredKeeps ==
    ASSUME ReviewInv, NEW n, n = [f \in Fields |-> n[f]], Answered(n),
           written' \subseteq Fields,
           \A f \in written' : n[f] = Null \/ Plain(TypeOf[f], n[f])
    PROVE  ReviewInv'
<1>1. /\ norm' = n /\ drafts' = [f \in Fields |-> Initial(f, n)]
      /\ touched' = {} /\ ext' = ext
  BY DEF Answered
<1>2. \A f \in Fields : Initial(f, norm)' = Initial(f, n)
  BY <1>1 DEF Initial
<1>3. UntouchedInv'
  BY <1>1, <1>2 DEF UntouchedInv, Initial
<1>4. WrittenIsPlain'
  BY <1>1 DEF WrittenIsPlain
<1>5. norm' = [f \in Fields |-> norm'[f]] /\ drafts' = [f \in Fields |-> drafts'[f]]
  BY <1>1
<1>. QED BY <1>3, <1>4, <1>5 DEF ReviewInv

\* Every step keeps the invariant: an edit touches its field, and a save writes
\* what the drafts parse to and opens the editors again.
LEMMA NextReview == ReviewInv /\ [Next]_vars => ReviewInv'
<1>. SUFFICES ASSUME ReviewInv, [Next]_vars PROVE ReviewInv'
  OBVIOUS
<1>. USE DEF ReviewInv
<1>1. CASE \E f \in Fields, text \in Inputs : TypeValue(f, text)
  BY <1>1, SetDraftKeeps DEF TypeValue
<1>2. CASE \E f \in Fields : \E i \in DOMAIN Rows(DraftOf(f)) :
             \E c \in ColumnsOf(Rows(DraftOf(f))), text \in Inputs :
               EditCell(f, i, c, text)
  BY <1>2, SetDraftKeeps DEF EditCell
<1>3. CASE \E f \in Fields : AddRow(f) \/ AddColumn(f)
  BY <1>3, SetDraftKeeps DEF AddRow, AddColumn
<1>4. CASE \E f \in Fields, p \in DOMAIN Schema, text \in Inputs : EditProperty(f, p, text)
  BY <1>4, SetDraftKeeps DEF EditProperty
<1>5. CASE SaveReview
  <2>. DEFINE posted == {f \in Fields : Parsed(f) # Shown(norm[f], ext[f])}
              n == [f \in Fields |-> IF f \in posted THEN Parsed(f) ELSE norm[f]]
  <2>1. /\ \A f \in Fields : Parsed(f) # Invalid
        /\ Answered(n) /\ written' = written \cup posted
    BY <1>5 DEF SaveReview
  <2>2. \A f \in Fields : Parsed(f) = Null \/ Plain(TypeOf[f], Parsed(f))
    <3>1. SUFFICES ASSUME NEW f \in Fields
                   PROVE  Parsed(f) = Null \/ Plain(TypeOf[f], Parsed(f))
      OBVIOUS
    <3>2. TypeOf[f] \in Types
      BY TypesAssumption
    <3>. QED BY <2>1, <3>2, ParsedIsPlain DEF Parsed
  <2>3. \A f \in written' : n[f] = Null \/ Plain(TypeOf[f], n[f])
    <3>1. SUFFICES ASSUME NEW f \in written'
                   PROVE  n[f] = Null \/ Plain(TypeOf[f], n[f])
      OBVIOUS
    <3>2. CASE f \in posted
      <4>1. n[f] = Parsed(f)
        BY <3>2
      <4>. QED BY <2>2, <3>2, <4>1
    <3>3. CASE f \notin posted
      <4>1. f \in written /\ n[f] = norm[f]
        BY <2>1, <3>1, <3>3
      <4>. QED BY <4>1 DEF WrittenIsPlain
    <3>. QED BY <3>2, <3>3
  <2>4. written' \subseteq Fields
    BY <2>1
  <2>5. n = [f \in Fields |-> n[f]]
    OBVIOUS
  <2>. HIDE DEF n, posted
  <2>. QED BY <2>1, <2>3, <2>4, <2>5, AnsweredKeeps
<1>6. CASE \E cleared \in SUBSET flagged : Approve(cleared)
  <2>1. Answered(norm) /\ written' = written
    BY <1>6 DEF Approve
  <2>. QED BY <2>1, AnsweredKeeps DEF WrittenIsPlain
<1>7. CASE UNCHANGED vars
  <2>1. WrittenIsPlain'
    BY <1>7 DEF vars, WrittenIsPlain
  <2>2. UntouchedInv'
    BY <1>7 DEF vars, UntouchedInv, Initial
  <2>. QED BY <1>7, <2>1, <2>2 DEF vars
<1>. QED BY <1>1, <1>2, <1>3, <1>4, <1>5, <1>6, <1>7 DEF Next

-----------------------------------------------------------------------------
(* The theorems.                                                            *)

\* Every draft nobody has edited is the one its stored value opens with, and what
\* saves have written has the shape of its type (review-draft.ts).
THEOREM ReviewInvariant == Spec => []ReviewInv
<1>. QED BY InitReview, NextReview, PTL DEF Spec

\* Whatever is typed, a save stores values of the shape the type promises.
THEOREM WrittenAlwaysPlain == Spec => []WrittenIsPlain
<1>1. ReviewInv => WrittenIsPlain
  BY DEF ReviewInv
<1>. QED BY <1>1, ReviewInvariant, PTL

\* An untouched field of such a shape is posted by no save.
LEMMA UntouchedParses ==
    ASSUME ReviewInv
    PROVE  UntouchedIsNotAnEdit
<1>. SUFFICES ASSUME NEW f \in Fields \ touched, Plain(TypeOf[f], norm[f])
              PROVE  Parsed(f) = norm[f]
  BY DEF UntouchedIsNotAnEdit
<1>1. TypeOf[f] \in Types
  BY TypesAssumption
<1>2. norm[f] # Null
  BY <1>1, RoundTrip
<1>3. Shown(norm[f], ext[f]) = norm[f]
  BY <1>2 DEF Shown
<1>4. DraftOf(f) = getInitialReviewDraft(TypeOf[f], norm[f])
  BY <1>3 DEF DraftOf, ReviewInv, UntouchedInv, Initial
<1>. QED BY <1>1, <1>4, RoundTrip DEF Parsed

\* A save never sends a field the operator did not touch, if its value has the
\* shape the page stores (buildReviewEdits of review-draft.ts).
THEOREM UntouchedNeverAnEdit == Spec => []UntouchedIsNotAnEdit
<1>. QED BY UntouchedParses, ReviewInvariant, PTL

\* Editing one property keeps the others of their type.
LEMMA SiblingKept ==
    ASSUME ReviewInv, NEW f \in Fields, NEW p \in DOMAIN Schema, NEW text,
           EditProperty(f, p, text),
           NEW q \in DOMAIN Schema \ {p}, WellTyped(DraftOf(f), q)
    PROVE  drafts'[f].v.f[q] = DraftOf(f).v.f[q]
<1>. DEFINE d == DraftOf(f)
            x == d.v.f[q]
            o == [r \in DOMAIN Schema |->
                    coerceValue(Schema[r], IF r = p THEN text ELSE PropertyText(d, r))]
<1>1. drafts'[f] = Json(Obj(o))
  BY DEF EditProperty, SetDraft, updateValue, ReviewInv
<1>2. Json(Obj(o)).v.f[q] = o[q]
  BY DEF Json, Obj
<1>3. o[q] = coerceValue(Schema[q], PropertyText(d, q))
  OBVIOUS
<1>4. PropertyText(d, q) = ToString(x)
  BY DEF WellTyped, PropertyText
<1>5. coerceValue(Schema[q], ToString(x)) = x
  <2>0. Schema[q] \in {"string", "number", "boolean"}
    BY TypesAssumption
  <2>1. CASE Schema[q] = "number"
    <3>1. x.t = "num"
      BY <2>1 DEF WellTyped
    <3>. HIDE DEF x
    <3>2. ToString(x) = Json(x)
      BY <3>1 DEF ToString
    <3>3. IsNumber(Json(x)) /\ Json(x).v = x /\ Json(x) # Empty
      BY <3>1 DEF IsNumber, Json, Empty
    <3>. QED BY <2>1, <3>2, <3>3 DEF coerceValue
  <2>2. CASE Schema[q] = "boolean"
    <3>1. x.t = "bool" /\ x \in {Bool(TRUE), Bool(FALSE)}
      BY <2>2 DEF WellTyped
    <3>. HIDE DEF x
    <3>2. ToString(x) = Json(x)
      BY <3>1 DEF ToString
    <3>3. Json(x).v = x /\ Json(x) \in {Json(Bool(TRUE)), Json(Bool(FALSE))}
      BY <3>1 DEF Json
    <3>. QED BY <2>2, <3>2, <3>3 DEF coerceValue
  <2>3. CASE Schema[q] = "string"
    <3>1. x.t = "str" /\ x = Str(x.s)
      BY <2>3 DEF WellTyped
    <3>. HIDE DEF x
    <3>2. ToString(x) = x.s
      BY <3>1 DEF ToString
    <3>. QED BY <2>3, <3>1, <3>2 DEF coerceValue
  <2>. QED BY <2>0, <2>1, <2>2, <2>3
<1>. QED BY <1>1, <1>2, <1>3, <1>4, <1>5

\* Editing one property keeps the others that have a value of their type
\* (StructuredObjectReviewEditor.tsx).
THEOREM SiblingsKept == Spec => SiblingsSurvive
<1>1. ReviewInv /\ [Next]_vars =>
        [\A f \in Fields, p \in DOMAIN Schema : \A text \in Inputs :
           EditProperty(f, p, text) =>
             \A q \in DOMAIN Schema \ {p} :
               WellTyped(DraftOf(f), q) => drafts'[f].v.f[q] = DraftOf(f).v.f[q]]_vars
  BY SiblingKept
<1>. QED BY <1>1, ReviewInvariant, PTL DEF Spec, SiblingsSurvive

-----------------------------------------------------------------------------
(* Tables.                                                                  *)

\* The strengthening for tables: wherever a table's value comes from, the
\* worker, a save or an editor, a list is a sequence, so that the rows an editor
\* shows are those of the draft, one for one.
TableListed(f) ==
  /\ Listed(norm[f]) /\ Listed(ext[f])
  /\ drafts[f].k = "json" => Listed(drafts[f].v)

TableInv ==
  /\ drafts = [f \in Fields |-> drafts[f]] /\ touched \subseteq Fields
  /\ \A f \in Fields : TypeOf[f] = "table" => TableListed(f)

IsRows(rows) == rows \in Seq({rows[i] : i \in DOMAIN rows})

\* A function on 1..n is a sequence.
LEMMA IsRowsOf ==
    ASSUME NEW n \in Nat, NEW s, s = [i \in 1..n |-> s[i]]
    PROVE  IsRows(s) /\ Len(s) = n
<1>1. s \in [1..n -> {s[i] : i \in DOMAIN s}] /\ DOMAIN s = 1..n
  OBVIOUS
<1>2. s \in Seq({s[i] : i \in DOMAIN s}) /\ Len(s) = n
  BY <1>1
<1>. QED BY <1>2 DEF IsRows

\* parseTableDraft of what serializeTableRows wrote: the same rows with the same
\* columns and texts.
LEMMA RowsBack ==
    ASSUME NEW rows, IsRows(rows)
    PROVE  LET new == Rows(serializeTableRows(rows)) IN
           /\ DOMAIN new = DOMAIN rows
           /\ \A i \in DOMAIN rows :
                /\ DOMAIN new[i] = DOMAIN rows[i]
                /\ \A c \in DOMAIN rows[i] : new[i][c] = rows[i][c]
<1>. DEFINE o(i) == Obj([c \in DOMAIN rows[i] |-> Str(rows[i][c])])
            s == [i \in 1..Len(rows) |-> o(i)]
            new == Rows(Json(Arr(s)))
<1>1. Len(rows) \in Nat /\ DOMAIN rows = 1..Len(rows)
  BY DEF IsRows
<1>2. serializeTableRows(rows) = Json(Arr(s))
  BY DEF serializeTableRows
<1>3. \A i \in DOMAIN rows : s[i] = o(i)
  BY <1>1
<1>4. Len(s) = Len(rows) /\ DOMAIN s = 1..Len(rows)
  BY <1>1, IsRowsOf
<1>. HIDE DEF s
<1>5. /\ Json(Arr(s)).k = "json" /\ Json(Arr(s)).v.t = "arr" /\ Json(Arr(s)).v.s = s
      /\ \A i \in DOMAIN s : s[i].t = "obj"
  BY <1>1, <1>3, <1>4 DEF Json, Arr, Obj
<1>6. new = [i \in 1..Len(s) |-> [c \in DOMAIN s[i].f |-> ToString(s[i].f[c])]]
  BY <1>5 DEF Rows
<1>7. DOMAIN new = DOMAIN rows
  BY <1>1, <1>4, <1>6
<1>8. ASSUME NEW i \in DOMAIN rows
      PROVE  /\ DOMAIN new[i] = DOMAIN rows[i]
             /\ \A c \in DOMAIN rows[i] : new[i][c] = rows[i][c]
  <2>. DEFINE r == [c \in DOMAIN rows[i] |-> Str(rows[i][c])]
  <2>1. s[i].f = r
    <3>. HIDE DEF r
    <3>1. Obj(r).f = r
      BY DEF Obj
    <3>. QED BY <1>3, <3>1 DEF r
  <2>2. new[i] = [c \in DOMAIN r |-> ToString(r[c])]
    BY <1>1, <1>4, <1>6, <2>1
  <2>3. \A x : ToString(Str(x)) = x
    BY DEF ToString, Str
  <2>. QED BY <2>2, <2>3
<1>. QED BY <1>2, <1>7, <1>8

\* The draft of a table shows its rows as a sequence.
LEMMA DraftRows ==
    ASSUME TableInv, NEW f \in Fields, TypeOf[f] = "table"
    PROVE  IsRows(Rows(DraftOf(f)))
<1>. DEFINE d == DraftOf(f)
<1>1. d.k = "json" => Listed(d.v)
  <2>1. CASE drafts[f] = Unset
    <3>1. d = getInitialReviewDraft("table", Shown(norm[f], ext[f]))
      BY <2>1 DEF DraftOf, Initial
    <3>2. d = Empty \/ d = Json(Shown(norm[f], ext[f]))
      BY <3>1 DEF getInitialReviewDraft, Structured
    <3>3. Listed(Shown(norm[f], ext[f]))
      BY DEF TableInv, TableListed, Shown
    <3>. QED BY <3>2, <3>3 DEF Empty, Json
  <2>2. CASE drafts[f] # Unset
    BY <2>2 DEF DraftOf, TableInv, TableListed
  <2>. QED BY <2>1, <2>2
<1>. HIDE DEF d
<1>2. CASE /\ d.k = "json" /\ d.v.t = "arr"
           /\ \A i \in DOMAIN d.v.s : d.v.s[i].t = "obj"
  <2>. DEFINE g(i) == [c \in DOMAIN d.v.s[i].f |-> ToString(d.v.s[i].f[c])]
  <2>1. Rows(d) = [i \in 1..Len(d.v.s) |-> g(i)]
    BY <1>2 DEF Rows
  <2>2. Len(d.v.s) \in Nat
    BY <1>1, <1>2 DEF Listed
  <2>. HIDE DEF g
  <2>3. IsRows(Rows(d))
    BY <2>1, <2>2, IsRowsOf
  <2>. QED BY <2>3 DEF d
<1>3. CASE ~(/\ d.k = "json" /\ d.v.t = "arr"
             /\ \A i \in DOMAIN d.v.s : d.v.s[i].t = "obj")
  <2>1. Rows(d) = <<>>
    BY <1>3 DEF Rows
  <2>2. IsRows(<<>>)
    BY DEF IsRows
  <2>. QED BY <2>1, <2>2 DEF d
<1>. QED BY <1>2, <1>3

\* What the table editor turns the rows into are rows again, and where they
\* differ from the rows before.
LEMMA UpdateCellRows ==
    ASSUME NEW rows, IsRows(rows), NEW i \in DOMAIN rows, NEW column, NEW text
    PROVE  LET new == updateCell(rows, i, column, text) IN
           IsRows(new) /\ Changed(rows, new) \subseteq {<<i, column>>}
<1>. DEFINE new == updateCell(rows, i, column, text)
<1>1. Len(rows) \in Nat /\ DOMAIN rows = 1..Len(rows)
  BY DEF IsRows
<1>2. new = [j \in 1..Len(rows) |-> IF j = i THEN With(rows[i], column, text) ELSE rows[j]]
  BY <1>1 DEF updateCell, IsRows
<1>3. IsRows(new)
  <2>. DEFINE g(j) == IF j = i THEN With(rows[i], column, text) ELSE rows[j]
  <2>1. new = [j \in 1..Len(rows) |-> g(j)]
    BY <1>2
  <2>. HIDE DEF g, new
  <2>. QED BY <1>1, <2>1, IsRowsOf
<1>4. DOMAIN new = DOMAIN rows
  BY <1>1, <1>2
<1>5. ASSUME NEW j \in DOMAIN rows, NEW c \in DOMAIN rows[j], <<j, c>> # <<i, column>>
      PROVE  c \in DOMAIN new[j] /\ new[j][c] = rows[j][c]
  BY <1>1, <1>2, <1>5 DEF With
<1>. HIDE DEF new
<1>6. Changed(rows, new) \subseteq {<<i, column>>}
  BY <1>4, <1>5 DEF Changed
<1>. QED BY <1>3, <1>6 DEF new

LEMMA AddRowRows ==
    ASSUME NEW rows, IsRows(rows)
    PROVE  IsRows(addRow(rows)) /\ Changed(rows, addRow(rows)) = {}
<1>. DEFINE x == [c \in ColumnsOf(rows) |-> Empty]
            new == Append(rows, x)
            S == {rows[i] : i \in DOMAIN rows} \cup {x}
<1>1. Len(rows) \in Nat /\ DOMAIN rows = 1..Len(rows) /\ rows \in Seq(S)
  BY DEF IsRows
<1>2. x \in S
  OBVIOUS
<1>. HIDE DEF x, S
<1>3. /\ new \in Seq(S) /\ Len(new) = Len(rows) + 1 /\ DOMAIN new = 1..(Len(rows) + 1)
      /\ \A i \in DOMAIN rows : new[i] = rows[i]
  BY <1>1, <1>2
<1>. HIDE DEF new
<1>4. IsRows(new)
  BY <1>3 DEF IsRows
<1>5. Changed(rows, new) = {}
  BY <1>1, <1>3 DEF Changed
<1>. QED BY <1>4, <1>5 DEF addRow, new, x

LEMMA AddColumnRows ==
    ASSUME NEW rows, IsRows(rows)
    PROVE  /\ IsRows(addColumn(rows))
           /\ \A cell \in Changed(rows, addColumn(rows)) : cell[2] = NewColumn(rows)
<1>. DEFINE n == NewColumn(rows)
            new == addColumn(rows)
<1>1. CASE rows = <<>>
  <2>1. new = << [c \in {n} |-> Empty] >>
    BY <1>1 DEF addColumn
  <2>2. Changed(rows, new) = {}
    BY <1>1 DEF Changed
  <2>. QED BY <2>1, <2>2 DEF IsRows
<1>2. CASE rows # <<>>
  <2>. DEFINE g(i) == With(rows[i], n, Empty)
  <2>1. new = [i \in 1..Len(rows) |-> g(i)]
    BY <1>2 DEF addColumn
  <2>2. Len(rows) \in Nat /\ DOMAIN rows = 1..Len(rows)
    BY DEF IsRows
  <2>3. ASSUME NEW i \in DOMAIN rows, NEW c \in DOMAIN rows[i], c # n
        PROVE  c \in DOMAIN new[i] /\ new[i][c] = rows[i][c]
    BY <2>1, <2>2, <2>3 DEF With
  <2>. HIDE DEF g, n, new
  <2>4. IsRows(new)
    BY <2>1, <2>2, IsRowsOf
  <2>5. DOMAIN new = DOMAIN rows
    BY <2>1, <2>2
  <2>6. \A cell \in Changed(rows, new) : cell[2] = n
    BY <2>3, <2>5 DEF Changed
  <2>. QED BY <2>4, <2>6 DEF n, new
<1>. QED BY <1>1, <1>2

\* What serializeTableRows writes is a list.
LEMMA SerializedIsListed ==
    ASSUME NEW rows, IsRows(rows)
    PROVE  Listed(serializeTableRows(rows).v)
<1>. DEFINE o(i) == Obj([c \in DOMAIN rows[i] |-> Str(rows[i][c])])
            s == [i \in 1..Len(rows) |-> o(i)]
<1>1. serializeTableRows(rows).v.s = s
  BY DEF serializeTableRows, Json, Arr
<1>2. Len(rows) \in Nat
  BY DEF IsRows
<1>. HIDE DEF o
<1>3. IsRows(s)
  BY <1>2, IsRowsOf
<1>. QED BY <1>1, <1>3 DEF Listed, IsRows

\* An edit of a field, if it is a table by its editor's serialized rows.
LEMMA SetDraftListed ==
    ASSUME TableInv, NEW f \in Fields, NEW text, SetDraft(f, text),
           TypeOf[f] = "table" => text.k = "json" /\ Listed(text.v)
    PROVE  TableInv'
<1>1. /\ drafts' = [drafts EXCEPT ![f] = text] /\ touched' = touched \cup {f}
      /\ UNCHANGED <<norm, ext>>
  BY DEF SetDraft
<1>2. drafts' = [g \in Fields |-> IF g = f THEN text ELSE drafts[g]]
  BY <1>1 DEF TableInv
<1>3. drafts' = [g \in Fields |-> drafts'[g]] /\ touched' \subseteq Fields
  BY <1>1, <1>2 DEF TableInv
<1>4. ASSUME NEW g \in Fields, TypeOf[g] = "table" PROVE TableListed(g)'
  BY <1>1, <1>2, <1>4 DEF TableInv, TableListed
<1>. QED BY <1>3, <1>4 DEF TableInv

\* The three edits of a table.
LEMMA EditCellListed ==
    ASSUME TableInv, NEW f \in Fields, NEW i, NEW column, NEW text,
           EditCell(f, i, column, text)
    PROVE  /\ TableInv'
           /\ Changed(Rows(DraftOf(f)), Rows(drafts'[f])) \subseteq {<<i, column>>}
<1>. DEFINE rows == Rows(DraftOf(f))
            new == updateCell(rows, i, column, text)
<1>1. TypeOf[f] = "table" /\ i \in DOMAIN rows /\ SetDraft(f, serializeTableRows(new))
  BY DEF EditCell
<1>2. IsRows(rows)
  BY <1>1, DraftRows
<1>. HIDE DEF rows
<1>3. IsRows(new) /\ Changed(rows, new) \subseteq {<<i, column>>}
  BY <1>1, <1>2, UpdateCellRows
<1>. HIDE DEF new
<1>4. serializeTableRows(new).k = "json" /\ Listed(serializeTableRows(new).v)
  BY <1>3, SerializedIsListed DEF serializeTableRows, Json
<1>5. TableInv'
  BY <1>1, <1>4, SetDraftListed
<1>6. drafts'[f] = serializeTableRows(new)
  BY <1>1 DEF SetDraft, TableInv
<1>7. Changed(rows, Rows(serializeTableRows(new))) \subseteq Changed(rows, new)
  BY <1>3, RowsBack DEF Changed
<1>. QED BY <1>3, <1>5, <1>6, <1>7 DEF rows

LEMMA AddRowListed ==
    ASSUME TableInv, NEW f \in Fields, AddRow(f)
    PROVE  TableInv' /\ Changed(Rows(DraftOf(f)), Rows(drafts'[f])) = {}
<1>. DEFINE rows == Rows(DraftOf(f))
            new == addRow(rows)
<1>1. TypeOf[f] = "table" /\ SetDraft(f, serializeTableRows(new))
  BY DEF AddRow
<1>2. IsRows(rows)
  BY <1>1, DraftRows
<1>. HIDE DEF rows
<1>3. IsRows(new) /\ Changed(rows, new) = {}
  BY <1>2, AddRowRows
<1>. HIDE DEF new
<1>4. serializeTableRows(new).k = "json" /\ Listed(serializeTableRows(new).v)
  BY <1>3, SerializedIsListed DEF serializeTableRows, Json
<1>5. TableInv'
  BY <1>1, <1>4, SetDraftListed
<1>6. drafts'[f] = serializeTableRows(new)
  BY <1>1 DEF SetDraft, TableInv
<1>7. Changed(rows, Rows(serializeTableRows(new))) \subseteq Changed(rows, new)
  BY <1>3, RowsBack DEF Changed
<1>. QED BY <1>3, <1>5, <1>6, <1>7 DEF rows

LEMMA AddColumnListed ==
    ASSUME TableInv, NEW f \in Fields, AddColumn(f)
    PROVE  /\ TableInv'
           /\ \A cell \in Changed(Rows(DraftOf(f)), Rows(drafts'[f])) :
                cell[2] = NewColumn(Rows(DraftOf(f)))
<1>. DEFINE rows == Rows(DraftOf(f))
            new == addColumn(rows)
<1>1. TypeOf[f] = "table" /\ SetDraft(f, serializeTableRows(new))
  BY DEF AddColumn
<1>2. IsRows(rows)
  BY <1>1, DraftRows
<1>. HIDE DEF rows
<1>3. IsRows(new) /\ \A cell \in Changed(rows, new) : cell[2] = NewColumn(rows)
  BY <1>2, AddColumnRows
<1>. HIDE DEF new
<1>4. serializeTableRows(new).k = "json" /\ Listed(serializeTableRows(new).v)
  BY <1>3, SerializedIsListed DEF serializeTableRows, Json
<1>5. TableInv'
  BY <1>1, <1>4, SetDraftListed
<1>6. drafts'[f] = serializeTableRows(new)
  BY <1>1 DEF SetDraft, TableInv
<1>7. Changed(rows, Rows(serializeTableRows(new))) \subseteq Changed(rows, new)
  BY <1>3, RowsBack DEF Changed
<1>. QED BY <1>3, <1>5, <1>6, <1>7 DEF rows

\* An answer opens every draft again from values that are lists if they were.
LEMMA AnsweredListed ==
    ASSUME TableInv, NEW n, Answered(n),
           \A f \in Fields : TypeOf[f] = "table" => Listed(n[f])
    PROVE  TableInv'
<1>1. /\ norm' = n /\ drafts' = [f \in Fields |-> Initial(f, n)]
      /\ touched' = {} /\ ext' = ext
  BY DEF Answered
<1>2. ASSUME NEW f \in Fields, TypeOf[f] = "table" PROVE TableListed(f)'
  <2>1. Initial(f, n) = Empty \/ Initial(f, n) = Json(Shown(n[f], ext[f]))
    BY <1>2 DEF Initial, getInitialReviewDraft, Structured
  <2>2. Listed(n[f]) /\ Listed(ext[f]) /\ Listed(Shown(n[f], ext[f]))
    BY <1>2 DEF TableInv, TableListed, Shown
  <2>3. drafts'[f] = Initial(f, n)
    BY <1>1
  <2>4. drafts'[f].k = "json" => Listed(drafts'[f].v)
    BY <2>1, <2>2, <2>3 DEF Empty, Json
  <2>. QED BY <1>1, <2>2, <2>4 DEF TableListed
<1>. QED BY <1>1, <1>2 DEF TableInv

\* What a save stores for a table is null or the list of its draft.
LEMMA ParsedListed ==
    ASSUME TableInv, NEW f \in Fields, TypeOf[f] = "table", Parsed(f) # Invalid
    PROVE  Listed(Parsed(f))
<1>. DEFINE d == DraftOf(f)
<1>1. Parsed(f) = Null \/ Parsed(f) = ParseStructured("table", d)
  BY DEF Parsed, parseReviewDraft, Structured
<1>2. d.k = "json" => Listed(d.v)
  <2>1. CASE drafts[f] = Unset
    <3>1. d = Empty \/ d = Json(Shown(norm[f], ext[f]))
      BY <2>1 DEF DraftOf, Initial, getInitialReviewDraft, Structured
    <3>2. Listed(Shown(norm[f], ext[f]))
      BY DEF TableInv, TableListed, Shown
    <3>. QED BY <3>1, <3>2 DEF Empty, Json
  <2>2. CASE drafts[f] # Unset
    BY <2>2 DEF DraftOf, TableInv, TableListed
  <2>. QED BY <2>1, <2>2
<1>. HIDE DEF d
<1>3. CASE Parsed(f) = Null
  BY <1>3 DEF Null, Listed
<1>4. CASE Parsed(f) = ParseStructured("table", d)
  <2>1. d.k = "json" /\ Parsed(f) = d.v
    BY <1>4 DEF ParseStructured
  <2>. QED BY <1>2, <2>1
<1>. QED BY <1>1, <1>3, <1>4

\* In the initial states no field is edited and lists come from the worker.
LEMMA InitTables == Init => TableInv
<1>. SUFFICES ASSUME Init PROVE TableInv
  OBVIOUS
<1>1. PICK stored \in Extracted :
        /\ norm = [f \in Fields |-> stored[f].norm]
        /\ ext = [f \in Fields |-> stored[f].ext]
  BY DEF Init
<1>2. \A f \in Fields : Listed(norm[f]) /\ Listed(ext[f])
  BY <1>1, ListsAssumption
<1>3. drafts = [f \in Fields |-> Unset] /\ touched = {}
  BY DEF Init
<1>4. \A f \in Fields : drafts[f].k # "json"
  BY <1>3 DEF Unset
<1>. QED BY <1>2, <1>3, <1>4 DEF TableInv, TableListed

\* Every step keeps the lists, and changes no cells but those of its edit.
LEMMA NextTables ==
    ASSUME TableInv, Next
    PROVE  /\ TableInv'
           /\ \A f \in touched' : TypeOf[f] = "table" /\ drafts'[f] # drafts[f] =>
                LET rows == Rows(DraftOf(f))
                    changed == Changed(rows, Rows(drafts'[f]))
                IN \/ Cardinality(changed) <= 1
                   \/ AddColumn(f) /\ \A cell \in changed : cell[2] = NewColumn(rows)
<1>. DEFINE rows(f) == Rows(DraftOf(f))
            changed(f) == Changed(rows(f), Rows(drafts'[f]))
            Few(f) == \/ Cardinality(changed(f)) <= 1
                      \/ AddColumn(f) /\ \A cell \in changed(f) : cell[2] = NewColumn(rows(f))
<1>. SUFFICES /\ TableInv'
              /\ \A f \in touched' : TypeOf[f] = "table" /\ drafts'[f] # drafts[f] => Few(f)
  OBVIOUS
<1>1. ASSUME NEW f \in Fields, NEW text, SetDraft(f, text), NEW g \in touched', g # f
      PROVE  drafts'[g] = drafts[g]
  BY <1>1 DEF SetDraft, TableInv
<1>2. CASE \E f \in Fields, text \in Inputs : TypeValue(f, text)
  <2>1. PICK f \in Fields, text \in Inputs : TypeValue(f, text)
    BY <1>2
  <2>2. TypeOf[f] # "table" /\ SetDraft(f, text)
    BY <2>1 DEF TypeValue
  <2>. HIDE DEF Few
  <2>. QED BY <1>1, <2>2, SetDraftListed
<1>3. CASE \E f \in Fields : \E i \in DOMAIN Rows(DraftOf(f)) :
             \E c \in ColumnsOf(Rows(DraftOf(f))), text \in Inputs :
               EditCell(f, i, c, text)
  <2>0. PICK f \in Fields : \E i, c, text : EditCell(f, i, c, text)
    BY <1>3
  <2>1. PICK i, c, text : EditCell(f, i, c, text)
    BY <2>0
  <2>2. PICK t : SetDraft(f, t)
    BY <2>1 DEF EditCell
  <2>3. TableInv' /\ changed(f) \subseteq {<<i, c>>}
    BY <2>1, EditCellListed
  <2>. HIDE DEF changed
  <2>4. Cardinality(changed(f)) <= 1
    <3>1. IsFiniteSet({<<i, c>>}) /\ Cardinality({<<i, c>>}) = 1
      BY FS_Singleton
    <3>2. Cardinality(changed(f)) <= Cardinality({<<i, c>>})
      BY <2>3, <3>1, FS_Subset
    <3>. QED BY <3>1, <3>2
  <2>5. Few(f)
    BY <2>4
  <2>. HIDE DEF Few
  <2>. QED BY <1>1, <2>2, <2>3, <2>5
<1>4. CASE \E f \in Fields : AddRow(f)
  <2>1. PICK f \in Fields : AddRow(f)
    BY <1>4
  <2>2. PICK t : SetDraft(f, t)
    BY <2>1 DEF AddRow
  <2>3. TableInv' /\ changed(f) = {}
    BY <2>1, AddRowListed
  <2>. HIDE DEF changed
  <2>4. Few(f)
    BY <2>3, FS_EmptySet
  <2>. HIDE DEF Few
  <2>. QED BY <1>1, <2>2, <2>3, <2>4
<1>5. CASE \E f \in Fields : AddColumn(f)
  <2>1. PICK f \in Fields : AddColumn(f)
    BY <1>5
  <2>2. PICK t : SetDraft(f, t)
    BY <2>1 DEF AddColumn
  <2>3. TableInv' /\ \A cell \in changed(f) : cell[2] = NewColumn(rows(f))
    BY <2>1, AddColumnListed
  <2>4. Few(f)
    BY <2>1, <2>3
  <2>. HIDE DEF Few
  <2>. QED BY <1>1, <2>2, <2>3, <2>4
<1>6. CASE \E f \in Fields, p \in DOMAIN Schema, text \in Inputs : EditProperty(f, p, text)
  <2>1. PICK f \in Fields, p \in DOMAIN Schema, text \in Inputs : EditProperty(f, p, text)
    BY <1>6
  <2>2. TypeOf[f] # "table" /\ SetDraft(f, updateValue(DraftOf(f), p, text))
    BY <2>1 DEF EditProperty
  <2>. HIDE DEF Few
  <2>. QED BY <1>1, <2>2, SetDraftListed
<1>7. CASE SaveReview
  <2>. DEFINE posted == {f \in Fields : Parsed(f) # Shown(norm[f], ext[f])}
              n == [f \in Fields |-> IF f \in posted THEN Parsed(f) ELSE norm[f]]
  <2>1. Answered(n) /\ \A f \in Fields : Parsed(f) # Invalid
    BY <1>7 DEF SaveReview
  <2>2. \A f \in Fields : TypeOf[f] = "table" => Listed(n[f])
    BY <2>1, ParsedListed DEF TableInv, TableListed
  <2>. HIDE DEF n
  <2>3. TableInv' /\ touched' = {}
    BY <2>1, <2>2, AnsweredListed DEF Answered
  <2>. QED BY <2>3
<1>8. CASE \E cleared \in SUBSET flagged : Approve(cleared)
  <2>1. Answered(norm)
    BY <1>8 DEF Approve
  <2>2. TableInv' /\ touched' = {}
    BY <2>1, AnsweredListed DEF Answered, TableInv, TableListed
  <2>. QED BY <2>2
<1>. HIDE DEF Few
<1>. QED BY <1>2, <1>3, <1>4, <1>5, <1>6, <1>7, <1>8 DEF Next

\* OtherCellsSurvive: whatever a table's draft is and whichever editor or save
\* acts, the table editor changes the text of one cell at most, although it takes
\* every cell to a text and back; only Add column may blank a column, of the name
\* it makes up (TableReviewEditor.tsx).
THEOREM OtherCellsKept == Spec => OtherCellsSurvive
<1>1. TableInv /\ [Next]_vars => TableInv'
  BY NextTables DEF TableInv, TableListed, vars
<1>2. TableInv /\ [Next]_vars =>
        [\A f \in touched' : TypeOf[f] = "table" /\ drafts'[f] # drafts[f] =>
           LET rows == Rows(DraftOf(f))
               changed == Changed(rows, Rows(drafts'[f]))
           IN \/ Cardinality(changed) <= 1
              \/ AddColumn(f) /\ \A cell \in changed : cell[2] = NewColumn(rows)]_vars
  BY NextTables
<1>. QED BY <1>1, <1>2, InitTables, PTL DEF Spec, OtherCellsSurvive

=============================================================================
