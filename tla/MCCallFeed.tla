----------------------------- MODULE MCCallFeed -----------------------------
(* The feed on small sets, up to the symmetry of its calls and emitters; the    *)
(* run checks invariants only.                                                *)
EXTENDS CallFeed, TLC

Symmetry == Permutations(Calls) \cup Permutations(Emitters)

=============================================================================
