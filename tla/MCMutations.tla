----------------------------- MODULE MCMutations -----------------------------
(* Instances of Mutations for TLC: clients, files and hunks are model values. *)
EXTENDS Mutations, TLC

\* Clients, files and hunks are interchangeable in every action and in every
\* safety property.
Symmetry == Permutations(Clients) \cup Permutations(Paths) \cup Permutations(Hunks)
==============================================================================
