----------------------------- MODULE MCMediaPath -----------------------------
(* MediaPath for TLC: the relays are alike.                                  *)
EXTENDS MediaPath, TLC

Symmetry == Permutations(Relays)
=============================================================================
