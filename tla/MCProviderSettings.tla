-------------------------- MODULE MCProviderSettings --------------------------
(* TLC instance of ProviderSettings: one stored profile, ids for two new     *)
(* ones, two handlers and two contents of the form.                          *)
EXTENDS ProviderSettings, TLC

CONSTANTS p1, p2, p3

FormOf(label, style, deployment, key, retries, external) ==
  [label |-> label, type |-> "custom", style |-> style, deployment |-> deployment,
   key |-> key, retries |-> retries, external |-> external]

\* An Azure endpoint with a key; one of another name with a deployment the form
\* keeps but the settings drop, and whose retries default.
TypedForms ==
  {FormOf("a", "azure", "d", "KEY", 3, FALSE), FormOf("b", "openai", "d", "", 0, FALSE)}

CatalogSettings ==
  {buildCustomProviderSettings(FormOf("cloud", "openai", "", "KEY", 3, TRUE))}

TextsUsed == {"", "null", "a", "b", "cloud", "custom", "langextract", "d", "KEY"}

\* The reads of a refresh that may fail at once.
FailedReads == {{}, {"profiles"}, {"default", "policy"}}

\* Two profiles the API was given: one of which the form keeps little, and one
\* of LangExtract, which the form cannot save at all.
FromApi ==
  [label |-> "null", type |-> "custom", style |-> "mock", external |-> FALSE,
   deployment |-> "d", key |-> "", retries |-> 0, limit |-> "other"]
OfLangExtract ==
  [FromApi EXCEPT !.type = "langextract", !.style = "langextract", !.retries = 1]

Stored ==
  {[NoProfiles EXCEPT ![p1] = [name |-> "a", settings |-> s, probe |-> "fresh"]] :
     s \in {FromApi, OfLangExtract}}

Symmetry == Permutations(Threads) \cup Permutations({p2, p3})
=============================================================================
