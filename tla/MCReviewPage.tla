----------------------------- MODULE MCReviewPage -----------------------------
(* Instances of ReviewPage for TLC. *)
EXTENDS ReviewPage, TLC

\* Files, texts and clicks are interchangeable.
Symmetry == Permutations(Paths) \cup Permutations(Texts) \cup Permutations(Clicks)
==============================================================================
