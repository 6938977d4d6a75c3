--------------------------- MODULE MCReviewEditors ---------------------------
(* TLC instance of ReviewEditors: one field of each of eight types, results  *)
(* as the worker stores them, and texts of every kind.                       *)
EXTENDS ReviewEditors

Type8 == [total |-> "currency", due |-> "date", paid |-> "boolean", items |-> "table", party |-> "structured_object",
          tags |-> "list", qty |-> "number", meta |-> "json_object"]

PartySchema == [name |-> "string", age |-> "number", active |-> "boolean"]

Row(sku, n) == Obj([sku |-> Str(Word(sku)), column_3 |-> Num(n)])
Stored(n, x) == [norm |-> n, ext |-> x]
Text5 == Str(Json(Num(5)))

\* What the worker stores: LangExtract attributes, rows and objects of a
\* provider that returns JSON, amounts with the text of the document, and
\* nothing but an extracted text.
Table == Arr(<<Row("a", 1), Row("b", 2)>>)
Results(items, paid, qty) ==
  [total |-> Stored(Obj([amount |-> Num(5), currency |-> Str(Word("EUR")),
                         display_value |-> Str(Word("5 EUR"))]), Text5),
   due |-> Stored(Obj([value |-> Str(Word("may")),
                       display_value |-> Str(Word("1 May"))]), Null),
   paid |-> paid,
   items |-> Stored(items, Null),
   party |-> Stored(Obj([name |-> Str(Word("acme")), age |-> Num(3),
                         note |-> Num(1)]), Null),
   tags |-> Stored(Obj([value |-> Arr(<<Str(Word("a"))>>)]), Null),
   qty |-> qty,
   meta |-> Stored(Obj([value |-> Str(Word("acme"))]), Null)]

WorkerResults ==
  {Results(Table, Stored(Obj([value |-> Bool(FALSE)]), Null), Stored(Null, Text5)),
   Results(Table, Stored(Bool(TRUE), Null), Stored(Obj([value |-> Num(2)]), Null)),
   Results(Obj([sku |-> Str(Word("a"))]), Stored(Bool(TRUE), Null), Stored(Null, Text5))}

TypedTexts == {Empty, Word("acme"), Json(Num(7)), Json(Bool(TRUE)),
               Json(Obj([name |-> Num(1)]))}

\* Every pair of types that meets in an editor or in a save.
Flags == {{"total", "items"}, {"due", "party"}, {"paid", "tags"}, {"qty", "meta"},
          {"items", "qty"}}

ColumnNames == <<"column_1", "column_2", "column_3">>
=============================================================================
