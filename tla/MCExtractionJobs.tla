--------------------------- MODULE MCExtractionJobs ---------------------------
(* Model-checking instance of ExtractionJobs.                               *)
EXTENDS ExtractionJobs, TLC

\* Documents, workers and request threads are interchangeable.
Interchangeable ==
    Permutations(Docs) \cup Permutations(Workers) \cup Permutations(Sessions)
=============================================================================
