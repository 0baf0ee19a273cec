----------------------------- MODULE MCProvider -----------------------------
(* Provider for TLC: channels are interchangeable.                         *)
EXTENDS Provider, TLC

Symmetry == Permutations(Channels)
=============================================================================
