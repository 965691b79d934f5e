--------------------------- MODULE MCHubRegistry ---------------------------
(* Small instances of HubRegistry for TLC.                                 *)
EXTENDS HubRegistry, TLC

\* Connections, hosts and browsers are interchangeable.
Symmetry == Permutations(Conns) \cup Permutations(Hosts) \cup Permutations(Subs)
==============================================================================
