--------------------------- MODULE MCReviewServer ---------------------------
(* Small instances of ReviewServer for TLC.                                *)
EXTENDS ReviewServer, TLC

\* Request goroutines, comments and browsers are interchangeable.
Symmetry == Permutations(Requests) \cup Permutations(Comments) \cup Permutations(Subs)
==============================================================================
