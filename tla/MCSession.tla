----------------------------- MODULE MCSession -----------------------------
(* Session for TLC: two interchangeable streams.                           *)
EXTENDS Session, TLC

Symmetry == Permutations(Streams)
=============================================================================
