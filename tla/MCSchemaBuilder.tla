--------------------------- MODULE MCSchemaBuilder ---------------------------
(* TLC instance of SchemaBuilder: template 1 has the versions 1 and 2, and  *)
(* version 3 is template 2, which exists from the start or is saved later.  *)
EXTENDS SchemaBuilder, TLC

TwoTemplates == (1 :> 1) @@ (2 :> 1) @@ (3 :> 2)
=============================================================================
