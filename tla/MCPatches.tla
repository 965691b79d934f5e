----------------------------- MODULE MCPatches -----------------------------
(* A small instance of Patches for TLC: the texts are strings, for reading. *)
EXTENDS Patches
=============================================================================
