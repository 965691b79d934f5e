---------------------------- MODULE MCEnrollment ----------------------------
(* Small instances of Enrollment for TLC.                                  *)
EXTENDS Enrollment, TLC

\* Processes of a kind, codes and hosts are interchangeable.
Symmetry == Permutations(Clients) \cup Permutations(Admins)
            \cup Permutations(Codes) \cup Permutations(Hosts)
=============================================================================
