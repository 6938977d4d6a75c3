---------------------------- MODULE MCLangExtract ----------------------------
(* TLC instance of LangExtract: two fields, one of them required, three      *)
(* saved configurations and three suggestions.                               *)
EXTENDS LangExtract

CONSTANTS date, total, value, other

Plain(w) == [word |-> w, pad |-> FALSE]
Example(class, attributes) ==
  [text |-> Plain(value),
   extractions |-> <<[class |-> class, span |-> Plain(value),
                      attributes |-> attributes]>>]

NoAttributes == [k \in {} |-> None]
One(v) == [k \in {value} |-> v]
ListOf(items) == [kind |-> "string_array", items |-> items]

\* A list of two values, one whose item spans two lines, and an attribute
\* without a name.
ThreeSuggestions ==
  [k \in {"list", "lines", "unnamed"} |->
     Example(total,
       CASE k = "list" -> One(ListOf(<< <<value>>, <<other>> >>))
         [] k = "lines" -> One(ListOf(<< <<value, other>> >>))
         [] k = "unnamed" -> [name \in {Blank} |-> ListOf(<< <<value>> >>)])]

\* Nothing saved yet; one example; and one written through the API, with a
\* field the schema has lost and a list that ends in an empty item.
ThreeConfigs ==
  {None,
   [prompt |-> Plain(Blank), examples |-> <<Example(total, NoAttributes)>>],
   [prompt |-> Plain(value),
    examples |-> <<Example(Foreign, One(ListOf(<< <<value>>, <<Blank>> >>)))>>]}

TypedValues == {<<value>>, <<Blank>>, <<Blank, value>>}
=============================================================================
