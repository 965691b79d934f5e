--------------------------- MODULE MCTunnelAgent ---------------------------
(* Small instances of TunnelAgent for TLC.                                 *)
EXTENDS TunnelAgent
=============================================================================
