---------------------------- MODULE MCSessionBook ----------------------------
(* The book on small sets, up to the symmetry of its devices, clients and     *)
(* handlers; the run checks invariants only.                                  *)
EXTENDS SessionBook, TLC

Symmetry == Permutations(Ids) \cup Permutations(Jids) \cup Permutations(Clients)
              \cup Permutations(Requests)

=============================================================================
